--------------------------- MODULE MCOwnerSettings ---------------------------
(* OwnerSettings for TLC: two pages saving, keeping and clearing; and boxes
   under every context of up to two parts of up to two symbols.            *)
EXTENDS OwnerSettings

CONSTANTS x1, x2

MCPages == {"p1", "p2"}
MCSecrets == {x1, x2}
MCLevels == {"info", "debug"}

Ops(g, r, a) == [s \in Services |-> CASE s = "github" -> g [] s = "resend" -> r [] OTHER -> a]
F(uses, level, op) == [uses |-> uses, named |-> uses, level |-> level, op |-> op]

MCForms == {
  F({"github"}, "debug", Ops(x1, Keep, Keep)),
  F({"github", "resend"}, "info", Ops(Keep, x2, Keep)),
  F({"resend"}, "debug", Ops(Clear, Keep, x1)),
  F({"agentmail"}, "info", Ops(Keep, Clear, Keep)),
  F({"agentmail"}, "info", Ops(Keep, Keep, Clear)),
  [F({"agentmail"}, "info", Ops(Keep, Keep, x2)) EXCEPT !.named = {}]}

Parts == UNION {[1 .. n -> {1, 2}] : n \in 0 .. 2}
MCContexts == UNION {[1 .. n -> Parts] : n \in 0 .. 2}

FramesApart == OpensUnder({Master, "other"}, x1, MCContexts)

\* "Domain-separated envelope encryption" (box.go): a stored credential opens in
\* no other column and under no other revision, and whatever parts the contexts
\* of two rows are made of, neither opens under the other's.
OpensOnlyAsSealed ==
  /\ FramesApart
  /\ \A s, t \in Services : \A rev \in 0 .. MaxSettings :
       stored.secret[s] # NoSecret /\ Open(Master, stored.secret[s], Column(t, rev)) # NoValue =>
         t = s /\ rev = stored.at[s]
==============================================================================

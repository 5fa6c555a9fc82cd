------------------------------ MODULE MCGuards ------------------------------
(* What guards a process and is kept in its memory, for TLC: the limiter's
   table (three addresses, room for two) and the signing keys (the hour, the
   ten seconds and the timeout as a few ticks).  The two share nothing, so a
   behaviour moves in one of them while the other stands at its start.       *)
EXTENDS Jwks, RateLimit

CONSTANTS c1, c2, old, new

MCCallers == {c1, c2}
MCKids == {old, new}
MCKeys == {"login:a", "login:b", "resolve:a"}
MCLimit == [k \in MCKeys |-> IF k = "resolve:a" THEN 2 ELSE 1]

OneStart == JwksInit /\ published = {}

MCInit == JwksInit /\ RateInit
MCNext ==
  \/ JwksNext /\ RateInit /\ UNCHANGED rateVars
  \/ RateNext /\ OneStart /\ UNCHANGED jwksVars
MCSpec == MCInit /\ [][MCNext]_<<jwksVars, rateVars>> /\ JwksFairness

GuardsTypeOK == JwksTypeOK /\ RateTypeOK
=============================================================================

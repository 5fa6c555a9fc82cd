---------------------------- MODULE ActionClient ----------------------------
(***************************************************************************)
(* The GitHub Action against the server: resolveKeys of                    *)
(* action/src/client.ts, three attempts with one token, composed with      *)
(* Runtime.  The network loses, delays and reorders: an attempt the client *)
(* has given up may still reach its transaction, even after the next one.  *)
(* A caller of Runtime is an attempt: a token and its number.              *)
(***************************************************************************)
EXTENDS Runtime

CONSTANTS
  Tries,          \* 3
  ClientTimeout,  \* 15 s: AbortSignal.timeout
  MaxWait         \* 2 s: the longest pause before another attempt

Slowest == Tries * ClientTimeout + (Tries - 1) * MaxWait

ASSUME ClientAssumption ==
  /\ Tokens \X (1 .. Tries) \subseteq Callers
  /\ Tries \in 1 .. MaxAttempts /\ ClientTimeout \in Nat /\ MaxWait \in Nat
  /\ Slowest <= RetryWindow
  /\ \A t \in Tokens : TokenExp[t] + Leeway > MaxTime   \* a token is asked for per step

VARIABLES
  client,   \* of each token: attempt number, what it waits for, since when
  asked,    \* its request
  arrived,  \* attempts that reached the server
  replies   \* what the server answered to each, on its way or lost

clientVars == <<client, asked, arrived, replies>>
systemVars == <<allVars, clientVars>>

Silence == "silence"
Begun(t) == client[t].state # "new"
NoAnswer == [k \in Keys |-> 0]

ClientTypeOK ==
  /\ RuntimeTypeOK
  /\ client \in [Tokens -> [state : {"new", "sent", "pause", "done", "failed"}, n : 0 .. Tries,
                            since : 0 .. MaxTime, got : Answers]]
  /\ asked \in [Tokens -> References]
  /\ \A t \in Tokens : arrived[t] \subseteq 1 .. client[t].n
  /\ \A t \in Tokens, n \in 1 .. Tries :
       calls[<<t, n>>] # NoCall => n \in arrived[t] /\ replies[<<t, n>>].what = Silence
  /\ \A c \in Callers : replies[c].what \in {Silence, "values", "busy", "denied"}

ClientInit ==
  /\ RuntimeInit
  /\ client = [t \in Tokens |-> [state |-> "new", n |-> 0, since |-> 0, got |-> NoAnswer]]
  /\ asked \in [Tokens -> References]
  /\ arrived = [t \in Tokens |-> {}]
  /\ replies = [c \in Callers |-> [what |-> Silence, versions |-> NoAnswer]]

---------------------------------------------------------------------------
Send(t) == client' = [client EXCEPT ![t].state = "sent", ![t].n = @ + 1, ![t].since = now]

Begin(t) ==
  /\ ~Begun(t) /\ Send(t)
  /\ UNCHANGED <<allVars, asked, arrived, replies>>

Arrive(t, n) ==
  /\ n \in 1 .. client[t].n \ arrived[t]
  /\ arrived' = [arrived EXCEPT ![t] = @ \cup {n}]
  /\ Verify(<<t, n>>, t, asked[t])
  /\ UNCHANGED <<client, asked, replies>>

\* Answered before its transaction: too many requests, or not verified.
Rebuff(t, n, what) ==
  /\ n \in 1 .. client[t].n \ arrived[t]
  /\ what \in {"busy", "denied"}
  /\ arrived' = [arrived EXCEPT ![t] = @ \cup {n}]
  /\ replies' = [replies EXCEPT ![<<t, n>>].what = what]
  /\ UNCHANGED <<allVars, client, asked>>

Reply(c) ==
  \/ /\ FirstAnswer(c) \/ RetryAnswer(c)
     /\ LET out == delivered'[calls[c].token]
        IN  replies' = [replies EXCEPT ![c] =
                          [what |-> "values", versions |-> out[Len(out)].versions]]
  \/ /\ Refuse(c)
     /\ \E what \in {"busy", "denied"} : replies' = [replies EXCEPT ![c].what = what]

Serve(c) == Reply(c) /\ UNCHANGED <<client, asked, arrived>>

\* Mutant: four attempts.
AgainOnceMore(t) ==
  client' = [client EXCEPT ![t] =
               IF @.n <= Tries THEN [@ EXCEPT !.state = "pause", !.since = now]
               ELSE [@ EXCEPT !.state = "failed", !.since = 0]]

\* Another attempt after a pause, or none.
Again(t) ==
  client' = [client EXCEPT ![t] =
               IF @.n < Tries THEN [@ EXCEPT !.state = "pause", !.since = now]
               ELSE [@ EXCEPT !.state = "failed", !.since = 0]]

Receive(t) ==
  /\ client[t].state = "sent"
  /\ LET reply == replies[<<t, client[t].n>>]
     IN  \/ /\ reply.what = "values"
            /\ client' = [client EXCEPT ![t].state = "done", ![t].since = 0,
                                              ![t].got = reply.versions]
         \/ reply.what = "busy" /\ Again(t)
         \/ reply.what = "denied" /\ client' = [client EXCEPT ![t].state = "failed", ![t].since = 0]
  /\ UNCHANGED <<allVars, asked, arrived, replies>>

\* No connection, the timeout, or an answer cut short.
GiveUp(t) ==
  /\ client[t].state = "sent"
  /\ Again(t)
  /\ UNCHANGED <<allVars, asked, arrived, replies>>

\* An answer that is none of the server's: too long, not JSON, not the values
\* asked for.  It is not asked for again.
Spoilt(t) ==
  /\ client[t].state = "sent"
  /\ client' = [client EXCEPT ![t].state = "failed", ![t].since = 0]
  /\ UNCHANGED <<allVars, asked, arrived, replies>>

Resume(t) ==
  /\ client[t].state = "pause" /\ Send(t)
  /\ UNCHANGED <<allVars, asked, arrived, replies>>

\* Mutant: Retry-After is obeyed however long.
PatientUnbounded(t) == client[t].state = "sent" => now < client[t].since + ClientTimeout

\* How long the client leaves a step alone.
Patient(t) ==
  /\ client[t].state = "sent" => now < client[t].since + ClientTimeout
  /\ client[t].state = "pause" => now < client[t].since + MaxWait

Others ==
  \/ CleanRecords
  \/ AccessNext /\ UNCHANGED runtimeVars
  \/ Tick /\ (\A t \in Tokens : Patient(t)) /\ UNCHANGED <<accessVars, runtimeVars>>

ClientNext ==
  \/ \E t \in Tokens :
       \/ Begin(t) \/ Receive(t) \/ GiveUp(t) \/ Spoilt(t) \/ Resume(t)
       \/ \E n \in 1 .. client[t].n : Arrive(t, n) \/ \E w \in {"busy", "denied"} : Rebuff(t, n, w)
  \/ \E c \in Callers : Serve(c)
  \/ Others /\ UNCHANGED clientVars

ClientSpec == ClientInit /\ [][ClientNext]_systemVars

---------------------------------------------------------------------------
(***************************************************************************)
(* Properties.                                                             *)
(***************************************************************************)
Awaited(t) == client[t].state = "sent" /\ calls[<<t, client[t].n>>] # NoCall

\* The client's retries are not taken for a replay: an attempt it still waits
\* for is within the cap and the window of the record its earlier attempts left,
\* the lost and the late ones included.
NeverReplayed ==
  \A t \in Tokens : Awaited(t) /\ records[t] # NoRecord =>
    /\ records[t].refs = asked[t]
    /\ records[t].attempts < MaxAttempts
    /\ now <= records[t].first + RetryWindow

\* What a step gets is what was selected for it first, though that answer was
\* lost and the key was rotated before the next attempt.
GotSelected ==
  \A t \in Tokens : client[t].state = "done" => client[t].got = delivered[t][1].versions
============================================================================

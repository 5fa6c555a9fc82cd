------------------------------ MODULE RateLimit ------------------------------
(***************************************************************************)
(* The request limiter: App.rate of internal/vault/http.go.  One table in  *)
(* memory, shared by all buckets and addresses, counts each key in a fixed *)
(* window.  The history log is what the properties look back on.           *)
(***************************************************************************)
EXTENDS Integers, FiniteSets, Sequences

CONSTANTS
  LimitKeys,  \* bucket:ip
  Limit,      \* requests a window admits, by key (3 to 120)
  Window,     \* one minute
  Capacity,   \* 10000 entries
  MaxClock,    \* bound
  MaxCalls    \* bound

ASSUME RateAssumption ==
  /\ Limit \in [LimitKeys -> Nat \ {0}]
  /\ Window \in Nat /\ Capacity \in Nat /\ MaxClock \in Nat /\ MaxCalls \in Nat

VARIABLES
  clock,
  limits,   \* a.limits: a map, so its domain grows and shrinks
  log       \* history of this process: who asked when, admitted or not

rateVars == <<clock, limits, log>>

Entry == [count : Nat \ {0}, until : Nat]
Call  == [key : LimitKeys, at : Nat, ok : BOOLEAN]

RateTypeOK ==
  /\ clock \in 0 .. MaxClock
  /\ DOMAIN limits \subseteq LimitKeys /\ \A k \in DOMAIN limits : limits[k] \in Entry
  /\ log \in Seq(Call) /\ Len(log) <= MaxCalls
  /\ \A i \in 1 .. Len(log) - 1 : log[i].at <= log[i + 1].at

NoLimits == [k \in {} |-> [count |-> 0, until |-> 0]]
RateInit == clock = 0 /\ limits = NoLimits /\ log = << >>

---------------------------------------------------------------------------
\* Entries whose last moment is over are dropped, of every key.
Kept == {k \in DOMAIN limits : clock <= limits[k].until}

\* Mutant: every request moves the end of its window.
CountedSlides(k) ==
  [count |-> IF k \in Kept THEN limits[k].count + 1 ELSE 1, until |-> clock + Window]

\* The window starts with its first request and counts the refused ones too.
Counted(k) ==
  IF k \in Kept THEN [limits[k] EXCEPT !.count = @ + 1]
  ELSE [count |-> 1, until |-> clock + Window]

\* Asked when the request is already in the table.
Admitted(k, table) == table[k].count <= Limit[k] /\ Cardinality(DOMAIN table) <= Capacity

Request(k) ==
  /\ Len(log) < MaxCalls
  /\ LET table == [j \in Kept \cup {k} |-> IF j = k THEN Counted(k) ELSE limits[j]]
     IN  /\ limits' = table
         /\ log' = Append(log, [key |-> k, at |-> clock, ok |-> Admitted(k, table)])
  /\ UNCHANGED clock

Advance == clock < MaxClock /\ clock' = clock + 1 /\ UNCHANGED <<limits, log>>

\* The table is lost with the process; the next one starts with its own.
Restart == limits' = NoLimits /\ log' = << >> /\ UNCHANGED clock

RateNext == (\E k \in LimitKeys : Request(k)) \/ Advance \/ Restart

RateSpec == RateInit /\ [][RateNext]_rateVars

---------------------------------------------------------------------------
(***************************************************************************)
(* Properties.                                                             *)
(***************************************************************************)
LastWindow(i)   == {j \in 1 .. i : log[j].at + Window >= log[i].at}
OwnTries(i)     == {j \in LastWindow(i) : log[j].key = log[i].key}
OwnAdmitted(i)  == {j \in OwnTries(i) : log[j].ok}
Crowded(i)      == Cardinality({log[j].key : j \in LastWindow(i)}) > Capacity

\* "5 a minute" (docs/operations.md) is kept up to the burst a fixed window
\* allows: whatever a client and the others do, within any minute no more than
\* twice the limit is admitted.
TwoWindows == \A i \in 1 .. Len(log) : Cardinality(OwnAdmitted(i)) <= 2 * Limit[log[i].key]

\* A client is refused for what it did within the last minute, or because the
\* table was full of others'; what it did before is forgotten.
RefusedFairly ==
  \A i \in 1 .. Len(log) :
    ~log[i].ok => Cardinality(OwnTries(i)) > Limit[log[i].key] \/ Crowded(i)

\* Refused requests do not prolong the refusal: who keeps trying was admitted
\* within the last minute, unless the table was full in it.
NotShutOut ==
  \A i \in 1 .. Len(log) :
    ~log[i].ok => \E j \in LastWindow(i) : (j \in OwnTries(i) /\ log[j].ok) \/ Crowded(j)

\* The limit as a client meets it.
LimitKept == TwoWindows /\ RefusedFairly /\ NotShutOut
=============================================================================

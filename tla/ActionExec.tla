----------------------------- MODULE ActionExec -----------------------------
(***************************************************************************)
(* The exec action (action/src/exec.ts) once it has its values: a shell in *)
(* a process group of its own, the processes the command starts there, and *)
(* what a cancelled workflow does to them.  The Unix half of kill.         *)
(***************************************************************************)
EXTENDS Naturals

CONSTANTS
  Procs,  \* bound: processes of the group
  Shell   \* the one exec.ts starts

ASSUME ExecAssumption == Shell \in Procs

VARIABLES
  group,      \* processes of the group; heeds: a SIGTERM ends it
  told,       \* those a SIGTERM reached
  code,       \* the shell's: 0, 1, or "signal"
  cancelled, timer,   \* locals of the promise
  node        \* the action itself, and its exit status

execVars == <<group, told, code, cancelled, timer, node>>

ExecTypeOK ==
  /\ group \in [Procs -> [state : {"none", "alive", "dead"}, heeds : BOOLEAN]]
  /\ told \subseteq {p \in Procs : group[p].state # "none"}
  /\ code \in {"none", "0", "1", "signal"} /\ (code = "none" <=> group[Shell].state # "dead")
  /\ cancelled \in BOOLEAN
  /\ timer \in {"off", "set", "fired"} /\ (timer # "off" => cancelled)
  /\ node.state \in {"start", "waiting", "ended"} /\ node.status \in Nat
  /\ timer = "set" => node.state = "waiting"

ExecInit ==
  /\ group = [p \in Procs |-> [state |-> "none", heeds |-> TRUE]]
  /\ told = {} /\ code = "none"
  /\ cancelled = FALSE /\ timer = "off"
  /\ node = [state |-> "start", status |-> 0]

---------------------------------------------------------------------------
Alive(p) == group[p].state = "alive"
Born(p)  == \E h \in BOOLEAN : group' = [group EXCEPT ![p] = [state |-> "alive", heeds |-> h]]
Dead(ps, c) ==
  /\ group' = [p \in Procs |-> IF p \in ps THEN [group[p] EXCEPT !.state = "dead"] ELSE group[p]]
  /\ code' = IF Shell \in ps THEN c ELSE code

Spawn ==
  /\ node.state = "start"
  /\ Born(Shell)
  /\ node' = [node EXCEPT !.state = "waiting"]
  /\ UNCHANGED <<told, code, cancelled, timer>>

\* "error": no such shell, no such directory.
SpawnFails ==
  /\ node.state = "start"
  /\ node' = [state |-> "ended", status |-> 1]
  /\ UNCHANGED <<group, told, code, cancelled, timer>>

\* The command, outside: starts processes, which end when they like.
Fork(p) ==
  /\ group[p].state = "none" /\ \E q \in Procs : Alive(q)
  /\ Born(p)
  /\ UNCHANGED <<told, code, cancelled, timer, node>>

Exit(p, c) ==
  /\ Alive(p) /\ Dead({p}, c)
  /\ UNCHANGED <<told, cancelled, timer, node>>

Heed(p) ==
  /\ Alive(p) /\ p \in told /\ group[p].heeds
  /\ Dead({p}, "signal")
  /\ UNCHANGED <<told, cancelled, timer, node>>

\* Mutant: SIGTERM and nothing after it.
CancelOnce ==
  /\ node.state = "waiting" /\ ~cancelled
  /\ cancelled' = TRUE
  /\ told' = {p \in Procs : Alive(p)}
  /\ UNCHANGED <<group, code, timer, node>>

\* SIGINT or SIGTERM to the action; a second one changes nothing.
Cancel ==
  /\ node.state = "waiting" /\ ~cancelled
  /\ cancelled' = TRUE
  /\ told' = {p \in Procs : Alive(p)}
  /\ timer' = "set"
  /\ UNCHANGED <<group, code, node>>

\* Mutant: the shell alone is killed, not its group.
ForceShell ==
  /\ timer = "set"
  /\ timer' = "fired"
  /\ Alive(Shell) /\ Dead({Shell}, "signal")
  /\ UNCHANGED <<told, cancelled, node>>

\* Five seconds later: SIGKILL to the group.
ForceKill ==
  /\ timer = "set"
  /\ timer' = "fired"
  /\ Dead({p \in Procs : Alive(p)}, "signal")
  /\ UNCHANGED <<told, cancelled, node>>

\* "close": the shell is gone; the handlers and the timer go with it.
Close ==
  /\ node.state = "waiting" /\ group[Shell].state = "dead"
  /\ timer' = IF timer = "set" THEN "off" ELSE timer
  /\ node' = [state |-> "ended", status |-> IF cancelled \/ code = "signal" THEN 130
                                            ELSE IF code = "0" THEN 0 ELSE 1]
  /\ UNCHANGED <<group, told, code, cancelled>>

ExecNext ==
  \/ Spawn \/ SpawnFails \/ Cancel \/ ForceKill \/ Close
  \/ \E p \in Procs : Fork(p) \/ Heed(p) \/ \E c \in {"0", "1", "signal"} : Exit(p, c)

ExecSpec == ExecInit /\ [][ExecNext]_execVars

\* The kernel delivers signals, node runs its timers and events.
ExecFairness ==
  WF_execVars(ForceKill) /\ WF_execVars(Close) /\ \A p \in Procs : WF_execVars(Heed(p))

---------------------------------------------------------------------------
(***************************************************************************)
(* Properties.                                                             *)
(***************************************************************************)
Ended == node.state = "ended"

\* A cancelled step never reports success, though its shell catches the signal
\* and exits with 0, or had exited when the signal came.
CancelReported == Ended /\ cancelled => node.status # 0

\* A shell that outlasts its five seconds takes everything it started with it,
\* what was started after the SIGTERM included.
ForcedTreeGone == Ended /\ timer = "fired" => \A p \in Procs : ~Alive(p)

\* What a cancellation leaves: no success and no process.
CancelSettled == CancelReported /\ ForcedTreeGone

\* A cancelled step ends, whatever its command ignores or starts.
CancelEnds == cancelled ~> Ended
============================================================================

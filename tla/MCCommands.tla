----------------------------- MODULE MCCommands -----------------------------
(* What is run from a command line, for TLC: the server and its backup, an
   export, and a command under the exec action.  The three share nothing, so a
   behaviour moves in one of them while the others stand at their start.     *)
EXTENDS Lifecycle, AuditExport, ActionExec

CONSTANTS m1, m2, sh, p1, p2

MCBoth == {"server", "backup"}
MCRequests == {"r1", "r2"}
MCMasters == {m1, m2}
MCIds == 1 .. 4
MCProcs == {sh, p1, p2}

NewDirectory == LifeInit /\ db = NoCopy /\ file = "absent"

MCLife == LifeNext /\ ExportInit /\ ExecInit /\ UNCHANGED <<exportVars, execVars>>
MCExport == ExportNext /\ NewDirectory /\ ExecInit /\ UNCHANGED <<lifeVars, execVars>>
MCExec ==
  /\ NewDirectory /\ ExportInit /\ UNCHANGED <<lifeVars, exportVars>>
  /\ ExecNext \/ (Ended /\ UNCHANGED execVars)   \* a step that has ended stops

MCInit == LifeInit /\ ExportInit /\ ExecInit
MCNext == MCLife \/ MCExport \/ MCExec
MCSpec ==
  /\ MCInit /\ [][MCNext]_<<lifeVars, exportVars, execVars>>
  /\ ExportFairness /\ ExecFairness

CommandsTypeOK == LifeTypeOK /\ ExportTypeOK /\ ExecTypeOK

\* Nothing that was started hangs: an export whose log grows, a cancelled step
\* whose command ignores signals.
CommandsEnd == ExportEnds /\ CancelEnds
=============================================================================

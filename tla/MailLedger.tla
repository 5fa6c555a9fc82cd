----------------------------- MODULE MailLedger -----------------------------
(***************************************************************************)
(* What the notification worker promises of each reminder, with no word of *)
(* rows, retries, restarts or windows: its text is fixed once, it reaches  *)
(* the owner at most once and as fixed, and it is reported as sent only    *)
(* after that and for good.                                                *)
(***************************************************************************)
EXTENDS Sequences

CONSTANTS Ids, Bodies, None

VARIABLES
  bound,      \* the text of each reminder, None until an attempt is recorded
  delivered,  \* the mails the owner got for it
  reported    \* whether the console says sent

ledgerVars == <<bound, delivered, reported>>

LedgerInit ==
  /\ bound = [i \in Ids |-> None]
  /\ delivered = [i \in Ids |-> << >>]
  /\ reported = [i \in Ids |-> FALSE]

Bind(i) ==
  /\ bound[i] = None
  /\ bound'[i] \in Bodies
  /\ bound' = [bound EXCEPT ![i] = bound'[i]]
  /\ UNCHANGED <<delivered, reported>>

Deliver(i) ==
  /\ bound[i] # None
  /\ delivered[i] = << >>
  /\ delivered' = [delivered EXCEPT ![i] = <<bound[i]>>]
  /\ UNCHANGED <<bound, reported>>

Report(i) ==
  /\ delivered[i] # << >>
  /\ reported' = [reported EXCEPT ![i] = TRUE]
  /\ UNCHANGED <<bound, delivered>>

LedgerNext == \E i \in Ids : Bind(i) \/ Deliver(i) \/ Report(i)

LedgerSpec == LedgerInit /\ [][LedgerNext]_ledgerVars
=============================================================================

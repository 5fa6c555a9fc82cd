----------------------------- MODULE AuditExport -----------------------------
(***************************************************************************)
(* The audit log read page by page while it grows at one end and is        *)
(* cleaned at the other: audit of internal/vault/store.go, auditEvents and *)
(* cleanup of notifications.go, and the export of internal/cli/cli.go.     *)
(***************************************************************************)
EXTENDS Integers, FiniteSets, Sequences, SequencesExt

CONSTANTS
  Ids,        \* random ids of rows, ordered
  PageSize,   \* 1000
  MaxOffset,  \* 1000000: the server's for any listing, the client's to give up
  Retention,  \* audit_retention_days
  Lag,        \* from the time a row is stamped with to its insertion
  MaxTime     \* bound

ASSUME ExportAssumption ==
  /\ Ids \subseteq Nat
  /\ PageSize \in Nat \ {0} /\ {MaxOffset, Retention, Lag} \subseteq Nat /\ MaxTime \in Nat \ {0}
  /\ Lag < Retention

VARIABLES
  now,
  events,  \* table audit_events: id and created_at
  export,  \* the client's loop: to, offset, the rows so far
  began,   \* history: the rows up to "to" when it began
  late     \* history: some row up to "to" was inserted since

exportVars == <<now, events, export, began, late>>

Event == [id : Ids, at : 0 .. MaxTime]

ExportTypeOK ==
  /\ now \in 1 .. MaxTime
  /\ events \subseteq Event /\ began \subseteq Event
  /\ \A e, f \in events : e.id = f.id => e = f
  /\ export.state \in {"idle", "reading", "done", "tooLong"}
  /\ export.to \in 0 .. MaxTime + 1
  /\ export.offset \in 0 .. MaxOffset + PageSize /\ export.offset % PageSize = 0
  /\ \A i \in DOMAIN export.all : export.all[i] \in Event /\ export.all[i].at <= export.to
  /\ late \in BOOLEAN

NoExport == [state |-> "idle", to |-> 0, offset |-> 0, all |-> << >>]

ExportInit ==
  /\ now = 1 /\ events = {}
  /\ export = NoExport /\ began = {} /\ late = FALSE

---------------------------------------------------------------------------
\* Its time is taken before the statement has the connection.
audit(id, at) ==
  /\ id \notin {e.id : e \in events} \cup {e.id : e \in began} \cup {e.id : e \in Range(export.all)}
  /\ at \in 0 .. now /\ now <= at + Lag
  /\ events' = events \cup {[id |-> id, at |-> at]}
  /\ late' = (late \/ (export.state = "reading" /\ at <= export.to))
  /\ UNCHANGED <<now, export, began>>

cleanup ==
  /\ events' = {e \in events : e.at + Retention >= now}
  /\ UNCHANGED <<now, export, began, late>>

Tick == now < MaxTime /\ now' = now + 1 /\ UNCHANGED <<events, export, began, late>>

UpTo(to) == {e \in events : e.at <= to}

\* Newest first, ids decide within a second.
Before(e, f) == e.at > f.at \/ (e.at = f.at /\ e.id > f.id)

\* The row that n - 1 come before.
NthRow(rows, n) == CHOOSE e \in rows : Cardinality({f \in rows : Before(f, e)}) = n - 1

\* An offset beyond the largest is the largest (intParam).
auditEvents(to, offset) ==
  LET from == IF offset > MaxOffset THEN MaxOffset ELSE offset
  IN  [i \in 1 .. Min({PageSize, Cardinality(UpTo(to)) - from}) |-> NthRow(UpTo(to), from + i)]

\* "to" is given, or the moment the export starts.
Begin(to) ==
  /\ export.state # "reading"
  /\ export' = [NoExport EXCEPT !.state = "reading", !.to = to]
  /\ began' = UpTo(to) /\ late' = FALSE
  /\ UNCHANGED <<now, events>>

\* Mutant: the client goes on as long as pages are full.
NextPageForever ==
  /\ export.state = "reading"
  /\ LET page == auditEvents(export.to, export.offset)
     IN  export' = [export EXCEPT !.all = @ \o page, !.offset = @ + PageSize,
                      !.state = IF Len(page) < PageSize THEN "done" ELSE @]
  /\ UNCHANGED <<now, events, began, late>>

NextPage ==
  /\ export.state = "reading"
  /\ export' =
       LET page == auditEvents(export.to, export.offset)
       IN  IF export.offset > MaxOffset THEN [export EXCEPT !.state = "tooLong"]
           ELSE IF Len(page) < PageSize
                THEN [export EXCEPT !.all = @ \o page, !.state = "done"]
                ELSE [export EXCEPT !.all = @ \o page, !.offset = @ + PageSize]
  /\ UNCHANGED <<now, events, began, late>>

ExportNext ==
  \/ \E id \in Ids, at \in 0 .. MaxTime : audit(id, at)
  \/ cleanup \/ Tick
  \/ \E to \in {now, now + 1} : Begin(to)
  \/ NextPage

ExportSpec == ExportInit /\ [][ExportNext]_exportVars
ExportFairness == WF_exportVars(NextPage)

---------------------------------------------------------------------------
(***************************************************************************)
(* Properties.                                                             *)
(***************************************************************************)
\* "Export all matching records" (the command's help): what was there when it
\* began and was not cleaned meanwhile is in it, though rows came and went
\* between its pages.
ExportComplete ==
  export.state = "done" => \A e \in began \cap events : e \in Range(export.all)

\* No row is in it twice, unless a row came that belonged between those already
\* read; the client gives up before the server's largest offset repeats a page.
ExportOnce == late \/ Cardinality(Range(export.all)) = Len(export.all)

\* Everything, and once.
ExportExact == ExportComplete /\ ExportOnce

\* An export ends, though the log never stops growing.
ExportEnds == export.state = "reading" ~> export.state # "reading"
==============================================================================

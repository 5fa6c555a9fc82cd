--------------------------- MODULE Notifications ---------------------------
(***************************************************************************)
(* Expiry reminders: the notifications table, the worker of                *)
(* internal/vault/notifications.go that schedules, claims and sends, the   *)
(* handlers of admin.go that cancel under its feet, and the mail provider  *)
(* it talks to.  One SQL transaction is one action; the HTTP request runs  *)
(* between two of them, so a handler, a restart or the clock may come      *)
(* before, during or after it.                                             *)
(*                                                                         *)
(* A notification is named by what its table holds unique: the version,    *)
(* the expiry revision and the threshold.  A body stands for the mail      *)
(* text: it depends on the id, on the date announced and on the addresses  *)
(* and links of the settings revision that wrote it.                       *)
(***************************************************************************)
EXTENDS KeyLifecycle, FiniteSets

CONSTANTS
  Profiles,         \* contents the owner may give the settings
  InitialProfile,   \* contents written by Open: mail is off
  Days,             \* reminder days (86400 s each is Day)
  Day, Minute, Hour,
  Window,           \* 23 h: no automatic retry later than this
  ProviderWindow,   \* 24 h: how long the provider honours an idempotency key
  SendTimeout,      \* longest time from a claim to the provider's last sight of it
  RetryAfters,      \* delays a provider may ask for
  BatchLimit,       \* 50: LIMIT of the worker's query
  MaxSettings,      \* bound: settings revisions
  MaxCrashes        \* bound: restarts

ASSUME NoteAssumption ==
  /\ Days \subseteq Nat \ {0}
  /\ Profiles \subseteq [enabled : BOOLEAN, onExpiry : BOOLEAN, days : SUBSET Days]
  /\ InitialProfile \in Profiles
  /\ Day \in Nat \ {0} /\ Minute \in Nat \ {0} /\ Hour \in Nat \ {0}
  /\ Window \in Nat /\ ProviderWindow \in Nat /\ SendTimeout \in Nat
  /\ RetryAfters \subseteq Nat /\ BatchLimit \in Nat \ {0}
  /\ MaxSettings \in Nat /\ MaxCrashes \in Nat

\* The hour between the two windows is what a slow send may use up.
ASSUME WindowAssumption == Window + SendTimeout <= ProviderWindow

VARIABLES
  settings,  \* revision and the fields reminders depend on
  rows,      \* table notifications
  pc,        \* where ProcessNotifications is; workerMu admits one caller
  batch,     \* ids selected and not yet handled
  job,       \* locals of the iteration that claimed a row
  wire,      \* requests the provider may still see
  inbox,     \* bodies the provider mailed for an id, in order
  seen,      \* when it accepted that id last
  crashes    \* bound: restarts so far

noteVars == <<settings, rows, pc, batch, job, wire, inbox, seen, crashes>>
vars == <<keyVars, noteVars>>

NoteIds == [key : Keys, ver : 1 .. MaxVersions, rev : 1 .. MaxRevision, due : {0} \cup Days]
Body    == [expiry : Expiries, setrev : Nat \ {0}]
NoBody  == [expiry |-> Never, setrev |-> 0]

LiveStates == {"pending", "retry", "sending"}
Statuses   == LiveStates \cup {"absent", "sent", "failed", "cancelled", "needs_attention"}
Row == [status : Statuses, setrev : Nat, payload : Body \cup {NoBody}, attempts : Nat,
        first : Nat, next : Nat, created : Nat]
Absent == [status |-> "absent", setrev |-> 0, payload |-> NoBody, attempts |-> 0,
           first |-> 0, next |-> 0, created |-> 0]

Job     == [id : NoteIds, body : Body, attempts : Nat, first : Nat, claimed : Nat,
            answered : BOOLEAN]
Request == [id : NoteIds, body : Body, claimed : Nat]

Sending == pc \in {"post", "await"}
Idle    == pc = "batch" /\ batch = {}   \* between two calls of the ticker's loop

NoteTypeOK ==
  /\ TypeOK
  /\ settings \in [rev : Nat \ {0}, use : Profiles]
  /\ rows \in [NoteIds -> Row]
  /\ pc \in {"select", "batch", "post", "await"}
  /\ batch \subseteq NoteIds
  /\ Sending => job \in Job
  /\ wire \subseteq Request
  /\ inbox \in [NoteIds -> Seq(Body)]
  /\ seen \in [NoteIds -> Nat]
  /\ crashes \in Nat

NoJob == [answered |-> FALSE]

NoteInit ==
  /\ KeyInit
  /\ settings = [rev |-> 1, use |-> InitialProfile]
  /\ rows = [i \in NoteIds |-> Absent]
  /\ pc = "batch" /\ batch = {} /\ job = NoJob
  /\ wire = {}
  /\ inbox = [i \in NoteIds |-> << >>]
  /\ seen = [i \in NoteIds |-> 0]
  /\ crashes = 0

---------------------------------------------------------------------------
Live(row) == row.status \in LiveStates

\* Mutant: a version without a date counts as expiring.
CurrentIgnoresNull(i, ks, vs) ==
  /\ ks[i.key].active = i.ver
  /\ ~ks[i.key].disabled /\ ~ks[i.key].deleted
  /\ vs[i.key][i.ver].rev = i.rev

\* Mutant: the expiry revision is not compared.
CurrentIgnoresRevision(i, ks, vs) ==
  /\ ks[i.key].active = i.ver
  /\ ~ks[i.key].disabled /\ ~ks[i.key].deleted
  /\ vs[i.key][i.ver].expiry # Never

\* The subquery of cancelStaleNotifications: i is about the active version of
\* an enabled key and about the date that version has now.
Current(i, ks, vs) ==
  /\ ks[i.key].active = i.ver
  /\ ~ks[i.key].disabled /\ ~ks[i.key].deleted
  /\ vs[i.key][i.ver].rev = i.rev
  /\ vs[i.key][i.ver].expiry # Never

CancelStale(ks, vs) ==
  [i \in NoteIds |-> IF Live(rows[i]) /\ ~Current(i, ks, vs)
                     THEN [rows[i] EXCEPT !.status = "cancelled"] ELSE rows[i]]

\* Key handlers end with cancelStaleNotifications, in their own transaction.
ChangeKey ==
  /\ KeyMutation
  /\ rows' = CancelStale(keys', versions')
  /\ UNCHANGED <<settings, pc, batch, job, wire, inbox, seen, crashes>>

\* Mutant: rows that may have been sent are left to retry under new settings.
PutSettingsKeepsRetries(rev, p) ==
  /\ rev = settings.rev
  /\ settings.rev < MaxSettings
  /\ settings' = [rev |-> settings.rev + 1, use |-> p]
  /\ rows' = [i \in NoteIds |->
                IF ~Live(rows[i]) \/ rows[i].attempts > 0 THEN rows[i]
                ELSE [rows[i] EXCEPT !.status = "cancelled"]]
  /\ UNCHANGED <<keyVars, pc, batch, job, wire, inbox, seen, crashes>>

\* The revision submitted must be the stored one; a settings change drops what
\* was never sent and leaves what may have been sent to the owner.
PutSettings(rev, p) ==
  /\ rev = settings.rev
  /\ settings.rev < MaxSettings
  /\ settings' = [rev |-> settings.rev + 1, use |-> p]
  /\ rows' = [i \in NoteIds |->
                IF ~Live(rows[i]) THEN rows[i]
                ELSE [rows[i] EXCEPT !.status =
                        IF rows[i].attempts = 0 THEN "cancelled" ELSE "needs_attention"]]
  /\ UNCHANGED <<keyVars, pc, batch, job, wire, inbox, seen, crashes>>

---------------------------------------------------------------------------
\* threshold: the smallest reminder day that covers the time left.
Due(i) ==
  LET left(d) == versions[i.key][i.ver].expiry <= now + d * Day
  IN  IF left(0) THEN i.due = 0 /\ settings.use.onExpiry
      ELSE /\ i.due \in settings.use.days
           /\ left(i.due)
           /\ \A d \in settings.use.days : left(d) => i.due <= d

\* Another threshold of the same version and revision is the due one now.
Overtaken(i) == /\ Current(i, keys, versions)
                /\ \E d \in ({0} \cup Days) \ {i.due} : Due([i EXCEPT !.due = d])

\* The INSERT ... ON CONFLICT of scheduleNotifications: a new row, or the revival
\* of a cancelled one nobody tried to send.
Scheduled(row, i) ==
  [row EXCEPT !.status = "pending", !.setrev = settings.rev, !.next = now,
     !.payload = [expiry |-> versions[i.key][i.ver].expiry, setrev |-> settings.rev],
     !.created = IF row.status = "absent" THEN now ELSE @]

\* Mutant: a cancelled row is revived although it was attempted.
ScheduleRowAgain(row, i) ==
  IF Current(i, keys, versions) /\ Due(i) /\ row.status \in {"absent", "cancelled"}
  THEN Scheduled(row, i)
  ELSE IF Overtaken(i) /\ row.status = "pending" /\ row.attempts = 0
  THEN [row EXCEPT !.status = "cancelled"]
  ELSE row

\* Mutant: the reminder of a passed threshold is left waiting.
ScheduleRowKeepsOld(row, i) ==
  IF Current(i, keys, versions) /\ Due(i)
       /\ (row.status = "absent" \/ (row.status = "cancelled" /\ row.attempts = 0))
  THEN Scheduled(row, i)
  ELSE row

ScheduleRow(row, i) ==
  IF Current(i, keys, versions) /\ Due(i)
       /\ (row.status = "absent" \/ (row.status = "cancelled" /\ row.attempts = 0))
  THEN Scheduled(row, i)
  ELSE IF Overtaken(i) /\ row.status = "pending" /\ row.attempts = 0
  THEN [row EXCEPT !.status = "cancelled"]
  ELSE row

Schedule ==
  /\ Idle
  /\ LET fresh == CancelStale(keys, versions)
     IN  rows' = IF settings.use.enabled
                 THEN [i \in NoteIds |-> ScheduleRow(fresh[i], i)] ELSE fresh
  /\ pc' = "select"
  /\ UNCHANGED <<keyVars, settings, batch, job, wire, inbox, seen, crashes>>

\* Mutant: the query does not look at next_attempt_at.
DueRowsAnyTime == {i \in NoteIds : Live(rows[i])}

DueRows == {i \in NoteIds : Live(rows[i]) /\ rows[i].next <= now}

\* ORDER BY created_at LIMIT 50: the oldest rows, ties broken somehow.
Select ==
  /\ pc = "select"
  /\ \E chosen \in SUBSET DueRows :
       /\ Cardinality(chosen) <= BatchLimit
       /\ \/ chosen = DueRows
          \/ Cardinality(chosen) = BatchLimit
       /\ \A i \in chosen, j \in DueRows \ chosen : rows[i].created <= rows[j].created
       /\ batch' = chosen
  /\ pc' = "batch"
  /\ UNCHANGED <<keyVars, settings, rows, job, wire, inbox, seen, crashes>>

InTurn(i) ==
  /\ pc = "batch" /\ i \in batch
  /\ \A j \in batch : rows[i].created <= rows[j].created

Sendable(row) == Live(row) /\ settings.use.enabled /\ row.setrev = settings.rev
FirstOf(row)  == IF row.first = 0 THEN now ELSE row.first

\* The claim transaction, in its three outcomes: nothing to send any more ...
Skip(i) ==
  /\ InTurn(i)
  /\ ~Sendable(CancelStale(keys, versions)[i])
  /\ rows' = CancelStale(keys, versions)
  /\ batch' = batch \ {i}
  /\ UNCHANGED <<keyVars, settings, pc, job, wire, inbox, seen, crashes>>

\* Mutant: past the window the row is passed over but stays live.
CloseWindowLeavesLive(i) ==
  LET fresh == CancelStale(keys, versions)
  IN  /\ InTurn(i)
      /\ Sendable(fresh[i])
      /\ FirstOf(fresh[i]) + Window <= now
      /\ rows' = fresh
      /\ batch' = batch \ {i}
      /\ UNCHANGED <<keyVars, settings, pc, job, wire, inbox, seen, crashes>>

\* ... too late to be sure the provider still knows the idempotency key ...
CloseWindow(i) ==
  LET fresh == CancelStale(keys, versions)
  IN  /\ InTurn(i)
      /\ Sendable(fresh[i])
      /\ FirstOf(fresh[i]) + Window <= now
      /\ rows' = [fresh EXCEPT ![i].status = "needs_attention"]
      /\ batch' = batch \ {i}
      /\ UNCHANGED <<keyVars, settings, pc, job, wire, inbox, seen, crashes>>

\* Mutant: no window is checked.
ClaimAnyTime(i) ==
  LET fresh == CancelStale(keys, versions)
      row   == fresh[i]
  IN  /\ InTurn(i)
      /\ Sendable(row)
      /\ rows' = [fresh EXCEPT ![i].status = "sending", ![i].attempts = @ + 1,
                    ![i].first = FirstOf(row), ![i].next = now + Minute]
      /\ job' = [id |-> i, body |-> row.payload, attempts |-> row.attempts + 1,
                 first |-> FirstOf(row), claimed |-> now, answered |-> FALSE]
      /\ batch' = batch \ {i}
      /\ pc' = "post"
      /\ UNCHANGED <<keyVars, settings, wire, inbox, seen, crashes>>

\* ... or the intent to send is recorded before anything is sent.
Claim(i) ==
  LET fresh == CancelStale(keys, versions)
      row   == fresh[i]
  IN  /\ InTurn(i)
      /\ Sendable(row)
      /\ now < FirstOf(row) + Window
      /\ rows' = [fresh EXCEPT ![i].status = "sending", ![i].attempts = @ + 1,
                    ![i].first = FirstOf(row), ![i].next = now + Minute]
      /\ job' = [id |-> i, body |-> row.payload, attempts |-> row.attempts + 1,
                 first |-> FirstOf(row), claimed |-> now, answered |-> FALSE]
      /\ batch' = batch \ {i}
      /\ pc' = "post"
      /\ UNCHANGED <<keyVars, settings, wire, inbox, seen, crashes>>

\* sendEmail puts the stored body on the wire under the id of the row.
JobRequest == [id |-> job.id, body |-> job.body, claimed |-> job.claimed]

Post ==
  /\ pc = "post"
  /\ wire' = wire \cup {JobRequest}
  /\ pc' = "await"
  /\ UNCHANGED <<keyVars, settings, rows, batch, job, inbox, seen, crashes>>

\* The result transaction.  It writes what it knows unless a handler has closed
\* the row meanwhile; an acceptance by the provider is recorded in any case.
Settle(status, next) ==
  /\ pc = "await"
  /\ rows' = [rows EXCEPT ![job.id].status =
                IF status = "sent" \/ @ = "sending" THEN status ELSE @,
                ![job.id].next = next]
  /\ pc' = "batch"
  /\ job' = NoJob
  /\ UNCHANGED <<keyVars, settings, batch, inbox, seen, crashes>>

\* Mutant: any end of the request counts as sent.
FinishSentUnread == Settle("sent", now) /\ UNCHANGED wire

FinishSent == pc = "await" /\ job.answered /\ Settle("sent", now) /\ UNCHANGED wire

\* 2^attempts minutes, at most an hour, or longer if the provider asks for it.
Doubling == <<2, 4, 8, 16, 32, 64>>
Larger(a, b)  == IF a < b THEN b ELSE a
Smaller(a, b) == IF a < b THEN a ELSE b
RetryDelay(attempts, asked) ==
  Larger(Smaller(Doubling[Smaller(attempts, 6)] * Minute, Hour), asked)

\* Network error, unreadable answer, 429, 5xx or a concurrent duplicate: the
\* request may have been accepted all the same, or may still be.
FinishRetry(asked) ==
  /\ pc = "await"
  /\ LET next == now + RetryDelay(job.attempts, asked)
     IN  Settle(IF job.first + Window <= next THEN "needs_attention" ELSE "retry", next)
  /\ UNCHANGED wire

\* A definite refusal.
FinishFailed ==
  /\ pc = "await"
  /\ ~job.answered
  /\ wire' = wire \ {JobRequest}
  /\ Settle("failed", now)

\* The process dies, or ProcessNotifications returns early with an error; the
\* database keeps what was committed and the worker starts over.
Crash ==
  /\ ~Idle
  /\ crashes < MaxCrashes
  /\ crashes' = crashes + 1
  /\ pc' = "batch" /\ batch' = {} /\ job' = NoJob
  /\ UNCHANGED <<keyVars, settings, rows, wire, inbox, seen>>

Cleanup ==
  /\ Idle
  /\ CleanIdempotency
  /\ UNCHANGED noteVars

---------------------------------------------------------------------------
(* The provider, as operations.md and sendEmail count on it: a second      *)
(* request under a known id and with the same body is answered with the    *)
(* first one's id for ProviderWindow.  Another settings revision may mean  *)
(* another account, which knows nothing of the first.                      *)

Known(r) == inbox[r.id] # << >> /\ inbox[r.id][Len(inbox[r.id])] = r.body
              /\ now < seen[r.id] + ProviderWindow

Accept(r) ==
  /\ wire' = wire \ {r}
  /\ IF Known(r) THEN UNCHANGED <<inbox, seen>>
     ELSE /\ inbox' = [inbox EXCEPT ![r.id] = Append(@, r.body)]
          /\ seen' = [seen EXCEPT ![r.id] = now]
  /\ job' = IF pc = "await" /\ JobRequest = r
            THEN [job EXCEPT !.answered = TRUE] ELSE job
  /\ UNCHANGED <<keyVars, settings, rows, pc, batch, crashes>>

\* Time passes; a send ends and a request is dead after SendTimeout.
NoteTick ==
  /\ Tick
  /\ Sending => now < job.claimed + SendTimeout
  /\ wire' = {r \in wire : now < r.claimed + SendTimeout}
  /\ UNCHANGED <<settings, rows, pc, batch, job, inbox, seen, crashes>>

Finish == FinishSent \/ FinishFailed \/ \E d \in RetryAfters : FinishRetry(d)

WorkerStep ==
  \/ Schedule \/ Select \/ Post \/ Finish
  \/ \E i \in batch : Skip(i) \/ CloseWindow(i) \/ Claim(i)

NoteNext ==
  \/ ChangeKey
  \/ \E rev \in 1 .. MaxSettings, p \in Profiles : PutSettings(rev, p)
  \/ WorkerStep \/ Cleanup \/ Crash
  \/ \E r \in wire : Accept(r)
  \/ NoteTick

NoteSpec == NoteInit /\ [][NoteNext]_vars
FairNoteSpec == NoteSpec /\ WF_vars(WorkerStep)

---------------------------------------------------------------------------
(***************************************************************************)
(* Properties.                                                             *)
(***************************************************************************)

\* No handler leaves a reminder standing that its change has made untrue: a row
\* still to be sent is about the active version of an enabled key, its latest
\* expiry revision, and announces the very date that version carries.
LiveFresh ==
  \A i \in NoteIds : Live(rows[i]) =>
    /\ keys[i.key].active = i.ver
    /\ ~keys[i.key].disabled /\ ~keys[i.key].deleted
    /\ versions[i.key][i.ver].rev = i.rev
    /\ versions[i.key][i.ver].expiry = rows[i].payload.expiry

\* A row still to be sent was written under the settings in force, and mail is
\* on: no reminder goes out to an address or account the owner has replaced.
LiveRevision ==
  \A i \in NoteIds : Live(rows[i]) =>
    rows[i].setrev = settings.rev /\ settings.use.enabled

\* "Only the most urgent threshold is made up for" (README): of one version at
\* most one reminder waits for its first attempt.
OneWaiting ==
  \A i, j \in NoteIds :
    /\ rows[i].status = "pending" /\ rows[j].status = "pending"
    /\ i.key = j.key /\ i.ver = j.ver
    => i = j

\* The console says sent only of a mail the provider has taken.
SentIsTrue == \A i \in NoteIds : rows[i].status = "sent" => inbox[i] # << >>

\* What is possibly on its way is not touched: once a row was attempted, its
\* body, settings revision and first attempt stay; once it was also closed, it
\* is never tried again, and only the provider's acceptance may still mark it.
AttemptedIsFixed ==
  [][\A i \in NoteIds : rows[i].attempts > 0 =>
       /\ rows'[i].payload = rows[i].payload
       /\ rows'[i].setrev = rows[i].setrev
       /\ rows'[i].first = rows[i].first
       /\ ~Live(rows[i]) => /\ rows'[i].attempts = rows[i].attempts
                            /\ rows'[i].status \in {rows[i].status, "sent"}]_vars

\* Backoff and Retry-After are kept although the claim does not look at
\* next_attempt_at again: no attempt starts before the row says so.
NotBeforeDue ==
  [][\A i \in NoteIds : rows'[i].attempts > rows[i].attempts => rows[i].next <= now]_vars

\* No reminder is forgotten behind others: once the owner stops changing keys,
\* one that is due is attempted, put off or closed, even when every batch is
\* full and a restart interrupts it.  (An owner who disables and enables the
\* oldest key between every two rounds keeps its row at the head of the query.)
OwnerRests == <>[][FALSE]_<<keys, versions>>
DueHandled == OwnerRests => \A i \in NoteIds : i \in DueRows ~> i \notin DueRows

(***************************************************************************)
(* What all this is for: the worker, the handlers and the provider together *)
(* implement the ledger of MailLedger.  A body is bound by the first claim. *)
(***************************************************************************)
Ledger == INSTANCE MailLedger WITH
  Ids <- NoteIds, Bodies <- Body, None <- NoBody,
  bound <- [i \in NoteIds |-> IF rows[i].attempts > 0 THEN rows[i].payload ELSE NoBody],
  delivered <- inbox,
  reported <- [i \in NoteIds |-> rows[i].status = "sent"]

\* Every behaviour of the mail machinery is one of the ledger: a text is fixed
\* before it can be delivered, delivered at most once, and reported only then.
LedgerKept == Ledger!LedgerSpec
============================================================================

------------------------ MODULE NotificationsProofs ------------------------
(***************************************************************************)
(* Proofs about Notifications, for any keys, dates, settings, delays and   *)
(* batch limit: the checked invariants, the two action properties, and     *)
(* that worker, handlers and provider implement MailLedger.                *)
(*                                                                         *)
(* What makes the invariant inductive is what the code keeps of an attempt *)
(* in three places: the row that was claimed, the locals of the iteration  *)
(* that claimed it, and the requests still on their way.  All three agree  *)
(* (Attempt), and a request is dead before the provider forgets the first  *)
(* one, because Window + SendTimeout <= ProviderWindow.                    *)
(***************************************************************************)
EXTENDS Notifications, KeyLifecycleProofs

\* A row is untried until it is claimed, carries a text once it was scheduled, and
\* knows when it was claimed first.
RowsSound ==
  \A i \in NoteIds :
    /\ rows[i].status \in {"absent", "pending"} => rows[i].attempts = 0
    /\ rows[i].status # "absent" => rows[i].payload \in Body
    /\ rows[i].first <= now /\ (rows[i].attempts > 0 => 0 < rows[i].first)

\* LiveFresh, and the expiry revision, which is how the code decides it.
LiveCurrent ==
  \A i \in NoteIds : Live(rows[i]) =>
    /\ Current(i, keys, versions)
    /\ versions[i.key][i.ver].expiry = rows[i].payload.expiry

\* What is selected stays due until its turn comes.
BatchDue ==
  /\ pc = "select" => batch = {}
  /\ Sending => job.id \notin batch
  /\ \A i \in batch : Live(rows[i]) => rows[i].next <= now

\* A request carries what its row holds, was claimed within the window that opened
\* with the first attempt, and is not older than SendTimeout.
Attempt(r) ==
  /\ rows[r.id].attempts > 0
  /\ r.body = rows[r.id].payload
  /\ rows[r.id].first <= r.claimed /\ r.claimed < rows[r.id].first + Window
  /\ r.claimed <= now /\ now <= r.claimed + SendTimeout

JobSound ==
  Sending => /\ Attempt(JobRequest) /\ job.attempts > 0
             /\ job.answered => inbox[job.id] # << >>

WireSound == \A r \in wire : Attempt(r)

\* What was mailed is one mail, of the text of the row, not before its first attempt.
InboxSound ==
  \A i \in NoteIds : inbox[i] # << >> =>
    /\ rows[i].attempts > 0
    /\ inbox[i] = <<rows[i].payload>>
    /\ rows[i].first <= seen[i]

MailInv == RowsSound /\ BatchDue /\ JobSound /\ WireSound /\ InboxSound /\ SentIsTrue
LiveInv == LiveCurrent /\ LiveRevision /\ OneWaiting
NoteInv == KeyInv /\ NoteTypeOK /\ MailInv /\ LiveInv

\* What a step may do to a row it neither schedules nor claims.
Moves(old, new) ==
  /\ new.payload = old.payload /\ new.setrev = old.setrev
  /\ new.attempts = old.attempts /\ new.first = old.first
  /\ Live(new) => Live(old)
  /\ ~Live(old) => new.status \in {old.status, "sent"}
  /\ new.status = "pending" => old.status = "pending"
  /\ new.status = "absent" <=> old.status = "absent"

RowsMove == \A i \in NoteIds : Moves(rows[i], rows'[i])

\* ... and mails nothing and reports nothing as mailed.
QuietStep ==
  /\ RowsMove
  /\ UNCHANGED inbox
  /\ \A i \in NoteIds : rows'[i].status = "sent" => rows[i].status = "sent"

\* The result transaction of a request the provider has answered.
Reports(i) ==
  /\ RowsMove
  /\ UNCHANGED inbox
  /\ inbox[i] # << >> /\ rows'[i].status = "sent"
  /\ \A j \in NoteIds \ {i} : rows'[j] = rows[j]

\* What the row of a request's text and report mean to the ledger.
Bound    == [i \in NoteIds |-> IF rows[i].attempts > 0 THEN rows[i].payload ELSE NoBody]
Reported == [i \in NoteIds |-> rows[i].status = "sent"]

---------------------------------------------------------------------------
\* No row, no request and no mail at the start; the worker rests.
LEMMA NoteInitInv == NoteInit => NoteInv
<1> SUFFICES ASSUME NoteInit PROVE NoteInv
  OBVIOUS
<1>1. KeyInv /\ now = 1
  BY KeyInitInv DEF NoteInit, KeyInit
<1>2. \A i \in NoteIds : /\ rows[i] = Absent /\ inbox[i] = << >> /\ seen[i] = 0
                          /\ rows[i].status = "absent" /\ rows[i].attempts = 0 /\ rows[i].first = 0
                          /\ ~Live(rows[i])
  BY DEF NoteInit, Absent, Live, LiveStates
<1>3. NoteTypeOK
  <2>1. Absent \in Row
    BY DEF Absent, Row, Statuses, LiveStates
  <2>2. << >> \in Seq(Body)
    BY EmptySeq
  <2>3. settings \in [rev : Nat \ {0}, use : Profiles]
    BY NoteAssumption DEF NoteInit
  <2> QED
    BY <1>1, <2>1, <2>2, <2>3 DEF NoteInit, NoteTypeOK, KeyInv, Sending
<1>4. MailInv
  <2>1. batch = {} /\ wire = {} /\ ~Sending
    BY DEF NoteInit, Sending
  <2> QED
    BY <1>1, <1>2, <2>1 DEF MailInv, RowsSound, BatchDue, JobSound, WireSound, InboxSound, SentIsTrue
<1>5. LiveInv
  BY <1>2 DEF LiveInv, LiveCurrent, LiveRevision, OneWaiting
<1> QED
  BY <1>1, <1>3, <1>4, <1>5 DEF NoteInv

\* A row that only moves was as sound before, as long as the clock stands and the
\* provider mails nothing.
LEMMA MovesSound ==
  ASSUME NoteInv, RowsMove, UNCHANGED <<now, inbox, seen>>,
         wire' \subseteq wire,
         Sending' => Sending /\ job' = job,
         batch' \subseteq batch, pc' = "select" => batch' = {},
         \A i \in batch' : rows'[i].next = rows[i].next,
         \A i \in NoteIds : rows'[i].status = "sent" => rows[i].status = "sent" \/ inbox[i] # << >>
  PROVE  MailInv' /\ OneWaiting'
<1> USE DEF NoteInv, MailInv, LiveInv
<1>1. \A i \in NoteIds : Moves(rows[i], rows'[i])
  BY DEF RowsMove
<1>2. RowsSound'
  BY <1>1 DEF RowsSound, Moves
<1>3. ASSUME NEW r, r.id \in NoteIds, Attempt(r)
      PROVE  Attempt(r)'
  BY <1>1, <1>3 DEF Attempt, Moves
<1>4. BatchDue'
  <2>1. batch \subseteq NoteIds
    BY DEF NoteTypeOK
  <2> QED
    BY <1>1, <2>1 DEF BatchDue, Moves
<1>5. JobSound'
  <2> SUFFICES ASSUME Sending' PROVE JobSound'
    BY DEF JobSound
  <2>1. Sending /\ job' = job /\ job \in Job
    BY DEF NoteTypeOK
  <2>2. JobRequest.id \in NoteIds /\ JobRequest' = JobRequest
    BY <2>1 DEF Job, JobRequest
  <2>3. Attempt(JobRequest)'
    BY <1>3, <2>1, <2>2 DEF JobSound
  <2> QED
    BY <2>1, <2>3 DEF JobSound
<1>6. WireSound'
  <2>1. \A r \in wire : r.id \in NoteIds
    BY DEF NoteTypeOK, Request
  <2> QED
    BY <1>3, <2>1 DEF WireSound
<1>7. InboxSound' /\ SentIsTrue'
  BY <1>1 DEF InboxSound, SentIsTrue, Moves
<1>8. OneWaiting'
  BY <1>1 DEF OneWaiting, Moves
<1> QED
  BY <1>2, <1>4, <1>5, <1>6, <1>7, <1>8

\* So are the rows still to be sent, as long as keys and settings stay.
LEMMA MovesLive ==
  ASSUME LiveInv, RowsMove, UNCHANGED <<keys, versions, settings>>
  PROVE  LiveCurrent' /\ LiveRevision'
<1>1. \A i \in NoteIds : Moves(rows[i], rows'[i])
  BY DEF RowsMove
<1>2. LiveCurrent'
  BY <1>1 DEF LiveInv, LiveCurrent, Moves, Current
<1>3. LiveRevision'
  BY <1>1 DEF LiveInv, LiveRevision, Moves
<1> QED
  BY <1>2, <1>3

---------------------------------------------------------------------------
\* Cancelling closes rows and alters nothing else; a row it leaves live is current.
LEMMA CancelStaleMoves ==
  ASSUME NoteTypeOK, NEW ks, NEW vs
  PROVE  /\ CancelStale(ks, vs) \in [NoteIds -> Row]
         /\ \A i \in NoteIds :
              LET row == CancelStale(ks, vs)[i]
              IN  /\ Moves(rows[i], row) /\ row.next = rows[i].next
                  /\ row.status = "sent" => rows[i].status = "sent"
                  /\ Live(row) => row = rows[i] /\ Current(i, ks, vs)
<1>1. ASSUME NEW i \in NoteIds
      PROVE  LET row == [rows[i] EXCEPT !.status = "cancelled"]
             IN  row \in Row /\ (Live(rows[i]) => Moves(rows[i], row)) /\ row.next = rows[i].next
                 /\ ~Live(row) /\ row.status # "sent"
  BY DEF NoteTypeOK, Row, Statuses, Moves, Live, LiveStates
<1>2. ASSUME NEW i \in NoteIds
      PROVE  Moves(rows[i], rows[i]) /\ rows[i] \in Row
  BY DEF NoteTypeOK, Moves
<1> QED
  BY <1>1, <1>2 DEF CancelStale

\* A handler that changes a key leaves live only what its change left true: a row
\* whose revision is still the version's announces the date it announced before.
LEMMA ChangeKeyInv ==
  ASSUME NoteInv, ChangeKey
  PROVE  NoteInv' /\ QuietStep
<1> USE DEF NoteInv
<1>1. /\ KeyMutation /\ rows' = CancelStale(keys', versions')
      /\ UNCHANGED <<settings, pc, batch, job, wire, inbox, seen, crashes>>
  BY DEF ChangeKey
<1>2. KeyInv' /\ HistoryStep
  BY <1>1, KeyNextInv, HistoryStepKept DEF KeyNext
<1>3. now' = now
  BY <1>1 DEF KeyMutation, PutKeyNew, PatchKey, DeleteKey, ActivateVersion, ExpireVersion
<1>4. /\ rows' \in [NoteIds -> Row]
      /\ \A i \in NoteIds :
           /\ Moves(rows[i], rows'[i]) /\ rows'[i].next = rows[i].next
           /\ rows'[i].status = "sent" => rows[i].status = "sent"
           /\ Live(rows'[i]) => rows'[i] = rows[i] /\ Current(i, keys', versions')
  BY <1>1, CancelStaleMoves
<1>5. RowsMove
  BY <1>4 DEF RowsMove
<1>6. NoteTypeOK'
  BY <1>1, <1>2, <1>4 DEF NoteTypeOK, KeyInv, Sending
<1>7. MailInv' /\ OneWaiting'
  <2>1. batch \subseteq NoteIds
    BY DEF NoteTypeOK
  <2>2. Sending' => Sending /\ job' = job
    BY <1>1 DEF Sending
  <2>3. pc' = "select" => batch' = {}
    BY <1>1 DEF MailInv, BatchDue
  <2> QED
    BY <1>1, <1>3, <1>4, <1>5, <2>1, <2>2, <2>3, MovesSound
<1>8. LiveCurrent'
  <2> SUFFICES ASSUME NEW i \in NoteIds, Live(rows'[i])
               PROVE  /\ Current(i, keys', versions')
                      /\ versions'[i.key][i.ver].expiry = rows'[i].payload.expiry
    BY DEF LiveCurrent, Current, Live
  <2>1. rows'[i] = rows[i] /\ Current(i, keys', versions')
    BY <1>4
  <2>2. /\ Current(i, keys, versions)
        /\ versions[i.key][i.ver].expiry = rows[i].payload.expiry
    BY <2>1 DEF LiveInv, LiveCurrent
  <2>3. i.key \in Keys /\ i.ver \in 1 .. MaxVersions /\ i.rev \in Nat
    BY DEF NoteIds
  <2>4. i.ver \in DOMAIN versions[i.key]
    <3>1. versions[i.key] \in Seq(Version) /\ keys[i.key].active = i.ver
      BY <2>2, <2>3 DEF KeyInv, TypeOK, Current
    <3> QED
      BY <2>3, <3>1, LenProperties DEF KeyInv, ActiveInRange
  <2>5. versions'[i.key][i.ver].rev = i.rev /\ versions[i.key][i.ver].rev = i.rev
    BY <2>1, <2>2 DEF Current
  <2>6. versions'[i.key][i.ver].expiry = versions[i.key][i.ver].expiry
    BY <1>2, <2>3, <2>4, <2>5 DEF HistoryStep
  <2> QED
    BY <2>1, <2>2, <2>6
<1>9. LiveRevision'
  BY <1>1, <1>4 DEF LiveInv, LiveRevision
<1> QED
  BY <1>1, <1>2, <1>4, <1>5, <1>6, <1>7, <1>8, <1>9 DEF LiveInv, QuietStep

\* New settings leave nothing to be sent.
LEMMA PutSettingsInv ==
  ASSUME NoteInv, NEW rev \in 1 .. MaxSettings, NEW p \in Profiles, PutSettings(rev, p)
  PROVE  NoteInv' /\ QuietStep
<1> USE DEF NoteInv
<1>1. /\ settings' = [rev |-> settings.rev + 1, use |-> p]
      /\ rows' = [i \in NoteIds |->
                    IF ~Live(rows[i]) THEN rows[i]
                    ELSE [rows[i] EXCEPT !.status =
                            IF rows[i].attempts = 0 THEN "cancelled" ELSE "needs_attention"]]
      /\ UNCHANGED <<keyVars, pc, batch, job, wire, inbox, seen, crashes>>
  BY DEF PutSettings
<1>2. KeyInv' /\ now' = now
  BY <1>1, KeyNextInv DEF keyVars
<1>3. ASSUME NEW i \in NoteIds
      PROVE  /\ rows'[i] \in Row /\ Moves(rows[i], rows'[i]) /\ rows'[i].next = rows[i].next
             /\ ~Live(rows'[i])
             /\ rows'[i].status = "sent" => rows[i].status = "sent"
  <2>1. rows[i] \in Row
    BY DEF NoteTypeOK
  <2>2. CASE ~Live(rows[i])
    BY <1>1, <2>1, <2>2 DEF Moves
  <2>3. CASE Live(rows[i])
    <3> DEFINE end == IF rows[i].attempts = 0 THEN "cancelled" ELSE "needs_attention"
    <3>1. rows'[i] = [rows[i] EXCEPT !.status = end]
      BY <1>1, <2>3
    <3>2. end \in {"cancelled", "needs_attention"}
      OBVIOUS
    <3> HIDE DEF end
    <3> QED
      BY <2>1, <2>3, <3>1, <3>2 DEF Row, Statuses, Moves, Live, LiveStates
  <2> QED
    BY <2>2, <2>3
<1>4. RowsMove
  BY <1>3 DEF RowsMove
<1>5. NoteTypeOK'
  <2>1. rows' \in [NoteIds -> Row]
    BY <1>1, <1>3
  <2>2. settings' \in [rev : Nat \ {0}, use : Profiles]
    BY <1>1 DEF NoteTypeOK
  <2> QED
    BY <1>1, <1>2, <2>1, <2>2 DEF NoteTypeOK, KeyInv, Sending
<1>6. MailInv' /\ OneWaiting'
  <2>1. batch \subseteq NoteIds /\ (Sending' => Sending /\ job' = job)
    BY <1>1 DEF NoteTypeOK, Sending
  <2>2. pc' = "select" => batch' = {}
    BY <1>1 DEF MailInv, BatchDue
  <2> QED
    BY <1>1, <1>2, <1>3, <1>4, <2>1, <2>2, MovesSound
<1>7. LiveCurrent' /\ LiveRevision'
  BY <1>3 DEF LiveCurrent, LiveRevision
<1> QED
  BY <1>1, <1>2, <1>3, <1>4, <1>5, <1>6, <1>7 DEF LiveInv, QuietStep

\* Skip and CloseWindow only take a row out of the batch, closing it at most.
LEMMA PassOverInv ==
  ASSUME NoteInv, NEW i \in batch, Skip(i) \/ CloseWindow(i)
  PROVE  NoteInv' /\ QuietStep
<1> USE DEF NoteInv
<1> DEFINE fresh == CancelStale(keys, versions)
<1>1. /\ rows' = fresh \/ (Live(fresh[i]) /\ rows' = [fresh EXCEPT ![i].status = "needs_attention"])
      /\ batch' = batch \ {i} /\ pc = "batch"
      /\ UNCHANGED <<keyVars, settings, pc, job, wire, inbox, seen, crashes>>
  BY DEF Skip, CloseWindow, InTurn, Sendable
<1>2. /\ fresh \in [NoteIds -> Row]
      /\ \A j \in NoteIds :
           /\ Moves(rows[j], fresh[j]) /\ fresh[j].next = rows[j].next
           /\ fresh[j].status = "sent" => rows[j].status = "sent"
           /\ Live(fresh[j]) => fresh[j] = rows[j]
  BY CancelStaleMoves
<1> HIDE DEF fresh
<1>3. i \in NoteIds
  BY DEF NoteTypeOK
<1>4. /\ rows' \in [NoteIds -> Row]
      /\ \A j \in NoteIds :
           /\ Moves(rows[j], rows'[j]) /\ rows'[j].next = rows[j].next
           /\ rows'[j].status = "sent" => rows[j].status = "sent"
  <2>1. CASE rows' = fresh
    BY <2>1, <1>2
  <2>2. CASE Live(fresh[i]) /\ rows' = [fresh EXCEPT ![i].status = "needs_attention"]
    <3>1. /\ rows'[i] \in Row /\ Moves(rows[i], rows'[i]) /\ rows'[i].next = rows[i].next
          /\ rows'[i].status # "sent"
      BY <1>2, <1>3, <2>2 DEF Row, Statuses, Moves, Live, LiveStates
    <3>2. \A j \in NoteIds \ {i} : rows'[j] = fresh[j]
      BY <1>2, <1>3, <2>2
    <3>3. rows' \in [NoteIds -> Row]
      BY <1>2, <1>3, <2>2, <3>1, <3>2
    <3> QED
      BY <1>2, <3>1, <3>2, <3>3
  <2> QED
    BY <1>1, <2>1, <2>2
<1>5. KeyInv' /\ now' = now /\ UNCHANGED <<keys, versions>>
  BY <1>1, KeyNextInv DEF keyVars
<1>6. RowsMove
  BY <1>4 DEF RowsMove
<1>7. NoteTypeOK'
  BY <1>1, <1>4, <1>5 DEF NoteTypeOK, KeyInv, Sending
<1>8. MailInv' /\ OneWaiting'
  <2>1. batch' \subseteq NoteIds /\ ~Sending' /\ pc' # "select"
    BY <1>1 DEF NoteTypeOK, Sending
  <2> QED
    BY <1>1, <1>4, <1>5, <1>6, <2>1, MovesSound
<1>9. LiveCurrent' /\ LiveRevision'
  BY <1>1, <1>5, <1>6, MovesLive
<1> QED
  BY <1>1, <1>4, <1>5, <1>6, <1>7, <1>8, <1>9 DEF LiveInv, QuietStep

\* Of one version at most one threshold is due: the smallest that covers the time
\* left.
LEMMA OneIsDue ==
  ASSUME NoteTypeOK, NEW i \in NoteIds, NEW j \in NoteIds,
         i.key = j.key, i.ver = j.ver, Due(i), Due(j)
  PROVE  i.due = j.due
<1>1. settings.use.days \subseteq Nat
  BY NoteAssumption DEF NoteTypeOK
<1>2. CASE versions[i.key][i.ver].expiry <= now + 0 * Day
  BY <1>2 DEF Due
<1>3. CASE ~(versions[i.key][i.ver].expiry <= now + 0 * Day)
  <2>1. /\ i.due \in settings.use.days /\ j.due \in settings.use.days
        /\ i.due <= j.due /\ j.due <= i.due
    BY <1>3 DEF Due
  <2> QED
    BY <1>1, <2>1
<1> QED
  BY <1>2, <1>3

\* Scheduling touches rows that were never attempted, and of these only such as are
\* waiting, cancelled or not there; what it makes live is due and current.
LEMMA ScheduleRows ==
  ASSUME NoteInv, Schedule, NEW i \in NoteIds
  PROVE  /\ rows'[i] \in Row
         /\ rows'[i].attempts = rows[i].attempts /\ rows'[i].first = rows[i].first
         /\ rows[i].attempts > 0 => Moves(rows[i], rows'[i])
         /\ rows'[i].status = "sent" => rows[i].status = "sent"
         /\ rows'[i].status \in {"absent", "pending"} => rows'[i].attempts = 0
         /\ rows'[i].status # "absent" => rows'[i].payload \in Body
         /\ Live(rows'[i]) =>
              /\ Current(i, keys, versions)
              /\ versions[i.key][i.ver].expiry = rows'[i].payload.expiry
              /\ rows'[i].setrev = settings.rev /\ settings.use.enabled
         /\ rows'[i].status = "pending" =>
              \/ Due(i)
              \/ rows[i].status = "pending" /\ ~Overtaken(i)
<1> USE DEF NoteInv, MailInv, LiveInv
<1> DEFINE fresh == CancelStale(keys, versions)
           row   == fresh[i]
<1>1. /\ fresh \in [NoteIds -> Row]
      /\ Moves(rows[i], row)
      /\ row.status = "sent" => rows[i].status = "sent"
      /\ Live(row) => row = rows[i] /\ Current(i, keys, versions)
  BY CancelStaleMoves
<1>2. rows' = IF settings.use.enabled THEN [j \in NoteIds |-> ScheduleRow(fresh[j], j)] ELSE fresh
  BY DEF Schedule
<1> HIDE DEF fresh
<1>3. row \in Row /\ rows[i] \in Row
  BY <1>1 DEF NoteTypeOK
<1>4. row.attempts = rows[i].attempts /\ row.first = rows[i].first
  BY <1>1 DEF Moves
<1>5. row.status \in {"absent", "pending"} => row.attempts = 0
  BY <1>1, <1>4 DEF RowsSound, Moves
<1>6. row.status # "absent" => row.payload \in Body
  BY <1>1 DEF RowsSound, Moves
<1>7. Live(row) => /\ Current(i, keys, versions)
                   /\ versions[i.key][i.ver].expiry = row.payload.expiry
                   /\ row.setrev = settings.rev /\ settings.use.enabled
  BY <1>1 DEF LiveCurrent, LiveRevision
<1>8. row.status = "pending" => rows[i].status = "pending" /\ Live(row)
  BY <1>1 DEF Moves, Live, LiveStates
<1> HIDE DEF row
<1>9. CASE rows'[i] = Scheduled(row, i) /\ Current(i, keys, versions) /\ Due(i)
           /\ (row.status = "absent" \/ (row.status = "cancelled" /\ row.attempts = 0))
           /\ settings.use.enabled
  <2>1. row.attempts = 0
    BY <1>5, <1>9
  <2>2. versions[i.key][i.ver].expiry \in Expiries
    <3>1. i.key \in Keys /\ i.ver \in 1 .. MaxVersions
      BY DEF NoteIds
    <3>2. i.ver \in DOMAIN versions[i.key] /\ versions[i.key] \in Seq(Version)
      BY <1>9, <3>1, LenProperties DEF Current, KeyInv, TypeOK, ActiveInRange
    <3>3. versions[i.key][i.ver] \in Version
      BY <3>2, ElementOfSeq, LenProperties
    <3> QED
      BY <1>9, <3>3 DEF Current, Version
  <2> DEFINE text == [expiry |-> versions[i.key][i.ver].expiry, setrev |-> settings.rev]
  <2>3. text \in Body /\ text.expiry = versions[i.key][i.ver].expiry
    BY <2>2 DEF Body, NoteTypeOK
  <2>4. rows'[i] = [row EXCEPT !.status = "pending", !.setrev = settings.rev, !.next = now,
                      !.payload = text, !.created = IF row.status = "absent" THEN now ELSE @]
    BY <1>9 DEF Scheduled
  <2>5. settings.rev \in Nat /\ now \in Nat
    BY DEF NoteTypeOK, TypeOK
  <2> HIDE DEF text
  <2>6. /\ rows'[i].attempts = row.attempts /\ rows'[i].first = row.first
        /\ rows'[i].status = "pending" /\ rows'[i].payload = text /\ rows'[i].setrev = settings.rev
    BY <1>3, <2>4 DEF Row
  <2>7. rows'[i] \in Row
    BY <1>3, <2>3, <2>4, <2>5 DEF Row, Statuses, LiveStates
  <2> QED
    BY <1>4, <1>9, <2>1, <2>3, <2>6, <2>7
<1>10. CASE rows'[i] = [row EXCEPT !.status = "cancelled"] /\ row.status = "pending"
  <2>1. /\ rows'[i] \in Row /\ rows'[i].status = "cancelled" /\ rows'[i].attempts = row.attempts
        /\ rows'[i].first = row.first /\ rows'[i].payload = row.payload
    BY <1>3, <1>10 DEF Row, Statuses
  <2> QED
    BY <1>4, <1>5, <1>6, <1>10, <2>1 DEF Live, LiveStates
<1>11. CASE rows'[i] = row
            /\ (settings.use.enabled /\ row.status = "pending" => Due(i) \/ ~Overtaken(i))
  BY <1>1, <1>3, <1>4, <1>5, <1>6, <1>7, <1>8, <1>11
<1>12. \/ /\ rows'[i] = Scheduled(row, i) /\ Current(i, keys, versions) /\ Due(i)
          /\ row.status = "absent" \/ (row.status = "cancelled" /\ row.attempts = 0)
          /\ settings.use.enabled
       \/ rows'[i] = [row EXCEPT !.status = "cancelled"] /\ row.status = "pending"
       \/ /\ rows'[i] = row
          /\ settings.use.enabled /\ row.status = "pending" => Due(i) \/ ~Overtaken(i)
  <2>1. CASE ~settings.use.enabled
    BY <1>2, <2>1 DEF row
  <2>2. CASE settings.use.enabled
    <3>1. rows'[i] = ScheduleRow(row, i)
      BY <1>2, <2>2 DEF row
    <3> QED
      BY <1>5, <2>2, <3>1 DEF ScheduleRow
  <2> QED
    BY <2>1, <2>2
<1> QED
  BY <1>9, <1>10, <1>11, <1>12

\* One reminder waits: the one just scheduled overtakes those of other thresholds.
LEMMA ScheduleInv ==
  ASSUME NoteInv, Schedule
  PROVE  NoteInv'
<1> USE DEF NoteInv, MailInv, LiveInv
<1>1. /\ Idle /\ pc' = "select"
      /\ UNCHANGED <<keyVars, settings, batch, job, wire, inbox, seen, crashes>>
  BY DEF Schedule
<1>2. /\ KeyInv' /\ now' = now /\ UNCHANGED <<keys, versions>> /\ batch' = {}
      /\ ~Sending'
  BY <1>1, KeyNextInv DEF keyVars, Idle, Sending
<1>3. \A i \in NoteIds :
         /\ rows'[i] \in Row
         /\ rows'[i].attempts = rows[i].attempts /\ rows'[i].first = rows[i].first
         /\ rows[i].attempts > 0 => rows'[i].payload = rows[i].payload
         /\ rows'[i].status = "sent" => rows[i].status = "sent"
         /\ rows'[i].status \in {"absent", "pending"} => rows'[i].attempts = 0
         /\ rows'[i].status # "absent" => rows'[i].payload \in Body
         /\ Live(rows'[i]) =>
              /\ Current(i, keys, versions)
              /\ versions[i.key][i.ver].expiry = rows'[i].payload.expiry
              /\ rows'[i].setrev = settings.rev /\ settings.use.enabled
         /\ rows'[i].status = "pending" =>
              \/ Due(i)
              \/ rows[i].status = "pending" /\ ~Overtaken(i)
  BY ScheduleRows DEF Moves
<1>4. NoteTypeOK'
  <2>1. rows' \in [NoteIds -> Row]
    <3>1. rows' = [i \in NoteIds |-> rows'[i]]
      BY DEF Schedule, CancelStale
    <3> QED
      BY <1>3, <3>1
  <2> QED
    BY <1>1, <1>2, <2>1 DEF NoteTypeOK, KeyInv
<1>5. RowsSound' /\ SentIsTrue' /\ InboxSound' /\ BatchDue' /\ JobSound'
  BY <1>1, <1>2, <1>3 DEF RowsSound, SentIsTrue, InboxSound, BatchDue, JobSound
<1>6. WireSound'
  <2>1. \A r \in wire : r.id \in NoteIds
    BY DEF NoteTypeOK, Request
  <2> QED
    BY <1>1, <1>2, <1>3, <2>1 DEF WireSound, Attempt
<1>7. LiveCurrent' /\ LiveRevision'
  BY <1>1, <1>2, <1>3 DEF LiveCurrent, LiveRevision, Current
<1>8. OneWaiting'
  <2> SUFFICES ASSUME NEW i \in NoteIds, NEW j \in NoteIds,
                      rows'[i].status = "pending", rows'[j].status = "pending",
                      i.key = j.key, i.ver = j.ver
               PROVE  i = j
    BY DEF OneWaiting
  <2>1. Current(i, keys, versions) /\ Current(j, keys, versions)
    BY <1>3 DEF Live, LiveStates
  <2>2. i.rev = j.rev
    BY <2>1 DEF Current
  <2>3. i.due = j.due => i = j
    BY <2>2 DEF NoteIds
  <2>4. ASSUME NEW a \in NoteIds, NEW b \in NoteIds, a.key = b.key, a.ver = b.ver,
               Current(b, keys, versions), Due(a), ~Overtaken(b)
        PROVE  a.due = b.due
    <3> SUFFICES ASSUME a.due # b.due PROVE FALSE
      OBVIOUS
    <3>1. a.due \in ({0} \cup Days) \ {b.due}
      BY DEF NoteIds
    <3>2. LET c == [b EXCEPT !.due = a.due]
          IN  c.key = a.key /\ c.ver = a.ver /\ c.due = a.due
      BY <2>4 DEF NoteIds
    <3>3. Due([b EXCEPT !.due = a.due])
      BY <2>4, <3>2 DEF Due
    <3> QED
      BY <2>4, <3>1, <3>3 DEF Overtaken
  <2>5. CASE Due(i) /\ Due(j)
    BY <2>3, <2>5, OneIsDue
  <2>6. CASE Due(i) /\ ~Overtaken(j)
    BY <2>1, <2>3, <2>4, <2>6
  <2>7. CASE Due(j) /\ ~Overtaken(i)
    BY <2>1, <2>3, <2>4, <2>7
  <2>8. CASE rows[i].status = "pending" /\ rows[j].status = "pending"
    BY <2>8 DEF OneWaiting
  <2> QED
    BY <1>3, <2>5, <2>6, <2>7, <2>8
<1> QED
  BY <1>2, <1>4, <1>5, <1>6, <1>7, <1>8

\* Steps that leave keys, rows, requests and mails as they are.
LEMMA RestInv ==
  ASSUME NoteInv, KeyInv', UNCHANGED <<keys, versions, settings, rows, now, wire, inbox, seen>>,
         NoteTypeOK', Sending' => Sending /\ job' = job, BatchDue'
  PROVE  NoteInv' /\ QuietStep
<1> USE DEF NoteInv, MailInv, LiveInv
<1>1. RowsMove
  BY DEF RowsMove, Moves
<1>2. LiveInv'
  BY DEF LiveCurrent, LiveRevision, OneWaiting, Current
<1>3. RowsSound' /\ SentIsTrue' /\ InboxSound'
  BY DEF RowsSound, SentIsTrue, InboxSound
<1>4. WireSound'
  BY DEF WireSound, Attempt
<1>5. JobSound'
  BY DEF JobSound, Attempt, JobRequest
<1> QED
  BY <1>1, <1>2, <1>3, <1>4, <1>5 DEF QuietStep

\* What the query selects is due.
LEMMA SelectInv ==
  ASSUME NoteInv, Select
  PROVE  NoteInv' /\ QuietStep
<1>1. /\ batch' \subseteq DueRows /\ pc' = "batch"
      /\ UNCHANGED <<keyVars, settings, rows, job, wire, inbox, seen, crashes>>
  BY DEF Select
<1>2. KeyInv' /\ UNCHANGED <<now, keys, versions>>
  BY <1>1, KeyNextInv DEF keyVars, NoteInv
<1>3. NoteTypeOK'
  BY <1>1, <1>2 DEF NoteInv, NoteTypeOK, KeyInv, DueRows, Sending
<1>4. BatchDue' /\ ~Sending'
  BY <1>1, <1>2 DEF BatchDue, DueRows, Sending
<1> QED
  BY <1>1, <1>2, <1>3, <1>4, RestInv

\* A restart forgets batch and job; what was posted stays on its way.
LEMMA CrashInv ==
  ASSUME NoteInv, Crash
  PROVE  NoteInv' /\ QuietStep
<1>1. /\ batch' = {} /\ pc' = "batch" /\ crashes' = crashes + 1
      /\ UNCHANGED <<keyVars, settings, rows, wire, inbox, seen>>
  BY DEF Crash
<1>2. KeyInv' /\ UNCHANGED <<now, keys, versions>>
  BY <1>1, KeyNextInv DEF keyVars, NoteInv
<1>3. NoteTypeOK'
  BY <1>1, <1>2 DEF NoteInv, NoteTypeOK, KeyInv, Sending
<1>4. BatchDue' /\ ~Sending'
  BY <1>1, <1>2 DEF BatchDue, Sending
<1> QED
  BY <1>1, <1>2, <1>3, <1>4, RestInv

\* Nothing but the idempotency table may change.
LEMMA NotesRestInv ==
  ASSUME NoteInv, KeyInv', UNCHANGED <<now, keys, versions>>, UNCHANGED noteVars
  PROVE  NoteInv' /\ QuietStep
<1>1. UNCHANGED <<settings, rows, pc, batch, job, wire, inbox, seen, crashes>>
  BY DEF noteVars
<1>2. NoteTypeOK' /\ BatchDue' /\ (Sending' => Sending)
  BY <1>1 DEF NoteInv, MailInv, NoteTypeOK, KeyInv, BatchDue, Sending
<1> QED
  BY <1>1, <1>2, RestInv

\* Putting the claimed text on the wire.
LEMMA PostInv ==
  ASSUME NoteInv, Post
  PROVE  NoteInv' /\ QuietStep
<1> USE DEF NoteInv, MailInv, LiveInv
<1>1. /\ pc = "post" /\ pc' = "await" /\ wire' = wire \cup {JobRequest}
      /\ UNCHANGED <<keyVars, settings, rows, batch, job, inbox, seen, crashes>>
  BY DEF Post
<1>2. KeyInv' /\ UNCHANGED <<now, keys, versions>>
  BY <1>1, KeyNextInv DEF keyVars
<1>3. Sending /\ Sending' /\ job \in Job
  BY <1>1 DEF Sending, NoteTypeOK
<1>4. JobRequest \in Request
  BY <1>3 DEF Job, JobRequest, Request
<1>5. NoteTypeOK'
  BY <1>1, <1>2, <1>3, <1>4 DEF NoteTypeOK, KeyInv
<1>6. RowsMove /\ LiveInv'
  BY <1>1, <1>2 DEF RowsMove, Moves, LiveCurrent, LiveRevision, OneWaiting, Current
<1>7. RowsSound' /\ SentIsTrue' /\ InboxSound' /\ BatchDue'
  BY <1>1, <1>2, <1>3 DEF RowsSound, SentIsTrue, InboxSound, BatchDue
<1>8. JobSound'
  BY <1>1, <1>2, <1>3 DEF JobSound, JobRequest, Attempt
<1>9. WireSound'
  BY <1>1, <1>2, <1>3 DEF WireSound, JobSound, Attempt
<1> QED
  BY <1>1, <1>2, <1>5, <1>6, <1>7, <1>8, <1>9 DEF QuietStep

\* What a claim does to rows: its own is one attempt further, was live, and keeps
\* its text and, if it was tried before, the time of that; the others move.
LEMMA ClaimRows ==
  ASSUME NoteInv, NEW i \in batch, Claim(i)
  PROVE  /\ rows' \in [NoteIds -> Row] /\ i \in NoteIds
         /\ Live(rows[i]) /\ Current(i, keys, versions) /\ rows[i].payload \in Body
         /\ rows'[i].status = "sending" /\ rows'[i].attempts = rows[i].attempts + 1
         /\ rows'[i].payload = rows[i].payload /\ rows'[i].setrev = rows[i].setrev
         /\ rows'[i].first = FirstOf(rows[i])
         /\ rows'[i].first > 0 /\ rows'[i].first <= now /\ now < rows'[i].first + Window
         /\ rows[i].attempts > 0 => rows'[i].first = rows[i].first
         /\ job' = [id |-> i, body |-> rows[i].payload, attempts |-> rows[i].attempts + 1,
                    first |-> rows'[i].first, claimed |-> now, answered |-> FALSE]
         /\ \A j \in NoteIds \ {i} :
              /\ Moves(rows[j], rows'[j]) /\ rows'[j].next = rows[j].next
              /\ rows'[j].status = "sent" => rows[j].status = "sent"
<1> USE DEF NoteInv, MailInv, LiveInv
<1> DEFINE fresh == CancelStale(keys, versions)
           row   == fresh[i]
<1>1. /\ Live(row) /\ now < FirstOf(row) + Window
      /\ rows' = [fresh EXCEPT ![i].status = "sending", ![i].attempts = @ + 1,
                    ![i].first = FirstOf(row), ![i].next = now + Minute]
      /\ job' = [id |-> i, body |-> row.payload, attempts |-> row.attempts + 1,
                 first |-> FirstOf(row), claimed |-> now, answered |-> FALSE]
  BY DEF Claim, Sendable
<1>2. i \in NoteIds
  BY DEF NoteTypeOK
<1>3. /\ fresh \in [NoteIds -> Row]
      /\ \A j \in NoteIds :
           /\ Moves(rows[j], fresh[j]) /\ fresh[j].next = rows[j].next
           /\ fresh[j].status = "sent" => rows[j].status = "sent"
           /\ Live(fresh[j]) => fresh[j] = rows[j] /\ Current(j, keys, versions)
  BY CancelStaleMoves
<1>4. row = rows[i] /\ Current(i, keys, versions) /\ row \in Row
  BY <1>1, <1>2, <1>3
<1> HIDE DEF fresh, row
<1>5. /\ now \in Nat \ {0} /\ Minute \in Nat
  BY NoteAssumption DEF NoteTypeOK, TypeOK
<1>6. /\ rows[i].payload \in Body
      /\ rows[i].first \in Nat /\ rows[i].attempts \in Nat
      /\ rows[i].first <= now /\ (rows[i].attempts > 0 => 0 < rows[i].first)
  BY <1>1, <1>2, <1>4 DEF RowsSound, Live, LiveStates, NoteTypeOK, Row
<1>7. /\ FirstOf(rows[i]) \in Nat /\ FirstOf(rows[i]) > 0 /\ FirstOf(rows[i]) <= now
      /\ rows[i].attempts > 0 => FirstOf(rows[i]) = rows[i].first
  BY <1>5, <1>6 DEF FirstOf
<1>8. rows' = [fresh EXCEPT ![i] = [rows[i] EXCEPT !.status = "sending", !.attempts = @ + 1,
                                      !.first = FirstOf(rows[i]), !.next = now + Minute]]
  BY <1>1, <1>2, <1>3, <1>4 DEF row
<1> DEFINE new == [rows[i] EXCEPT !.status = "sending", !.attempts = @ + 1,
                                   !.first = FirstOf(rows[i]), !.next = now + Minute]
<1>9. /\ new \in Row /\ new.status = "sending" /\ new.attempts = rows[i].attempts + 1
      /\ new.payload = rows[i].payload /\ new.setrev = rows[i].setrev
      /\ new.first = FirstOf(rows[i])
  <2>1. rows[i] \in Row /\ rows[i].attempts + 1 \in Nat /\ now + Minute \in Nat
    BY <1>4, <1>5, <1>6
  <2> DEFINE f == FirstOf(rows[i])
             n == rows[i].attempts + 1
             d == now + Minute
  <2>2. f \in Nat /\ n \in Nat /\ d \in Nat
    BY <1>7, <2>1
  <2>3. new = [rows[i] EXCEPT !.status = "sending", !.attempts = n, !.first = f, !.next = d]
    OBVIOUS
  <2> HIDE DEF f, n, d, new
  <2>4. /\ new \in Row /\ new.status = "sending" /\ new.attempts = n
        /\ new.payload = rows[i].payload /\ new.setrev = rows[i].setrev /\ new.first = f
    BY <2>1, <2>2, <2>3 DEF Row, Statuses, LiveStates
  <2> QED
    BY <2>4 DEF f, n
<1>10. rows' = [fresh EXCEPT ![i] = new]
  BY <1>8
<1> HIDE DEF new
<1>11. /\ rows' \in [NoteIds -> Row] /\ rows'[i] = new
       /\ \A j \in NoteIds \ {i} : rows'[j] = fresh[j]
  BY <1>2, <1>3, <1>9, <1>10
<1> QED
  BY <1>1, <1>2, <1>3, <1>4, <1>6, <1>7, <1>9, <1>11

\* The claimed row is in the job as it is in the table; what was sent for it before
\* carries the same text and the same first attempt.
LEMMA ClaimInv ==
  ASSUME NoteInv, NEW i \in batch, Claim(i)
  PROVE  NoteInv'
<1> USE DEF NoteInv, MailInv, LiveInv
<1>1. /\ rows' \in [NoteIds -> Row] /\ i \in NoteIds
      /\ Live(rows[i]) /\ Current(i, keys, versions) /\ rows[i].payload \in Body
      /\ rows'[i].status = "sending" /\ rows'[i].attempts = rows[i].attempts + 1
      /\ rows'[i].payload = rows[i].payload /\ rows'[i].setrev = rows[i].setrev
      /\ rows'[i].first > 0 /\ rows'[i].first <= now /\ now < rows'[i].first + Window
      /\ rows[i].attempts > 0 => rows'[i].first = rows[i].first
      /\ job' = [id |-> i, body |-> rows[i].payload, attempts |-> rows[i].attempts + 1,
                 first |-> rows'[i].first, claimed |-> now, answered |-> FALSE]
      /\ \A j \in NoteIds \ {i} :
           /\ Moves(rows[j], rows'[j]) /\ rows'[j].next = rows[j].next
           /\ rows'[j].status = "sent" => rows[j].status = "sent"
  BY ClaimRows
<1>2. /\ batch' = batch \ {i} /\ pc = "batch" /\ pc' = "post"
      /\ UNCHANGED <<keyVars, settings, wire, inbox, seen, crashes>>
  BY DEF Claim, InTurn
<1>3. KeyInv' /\ UNCHANGED <<now, keys, versions>>
  BY <1>2, KeyNextInv DEF keyVars
<1>4. /\ rows[i].attempts \in Nat /\ rows'[i].first \in Nat /\ now \in Nat
      /\ batch \subseteq NoteIds /\ SendTimeout \in Nat
  BY <1>1, NoteAssumption DEF NoteTypeOK, Row, TypeOK
<1>5. Sending' /\ job' \in Job
  BY <1>1, <1>2, <1>4 DEF Sending, Job
<1>6. NoteTypeOK'
  BY <1>1, <1>2, <1>3, <1>4, <1>5 DEF NoteTypeOK, KeyInv
<1>7. RowsSound'
  <2>1. \A j \in NoteIds \ {i} :
          /\ rows'[j].status \in {"absent", "pending"} => rows'[j].attempts = 0
          /\ rows'[j].status # "absent" => rows'[j].payload \in Body
          /\ rows'[j].first <= now /\ (rows'[j].attempts > 0 => 0 < rows'[j].first)
    BY <1>1 DEF RowsSound, Moves
  <2> QED
    BY <1>1, <1>3, <2>1 DEF RowsSound
<1>8. BatchDue'
  BY <1>1, <1>2, <1>3, <1>4 DEF BatchDue, Moves
<1>9. JobSound'
  <2>1. job'.id = i /\ job'.body = rows[i].payload /\ job'.claimed = now /\ ~job'.answered
        /\ job'.attempts = rows[i].attempts + 1
    BY <1>1
  <2>2. JobRequest'.id = i /\ JobRequest'.body = rows[i].payload /\ JobRequest'.claimed = now
    BY <2>1 DEF JobRequest
  <2>3. rows'[i].attempts > 0 /\ job'.attempts > 0 /\ now <= now + SendTimeout
    BY <1>1, <1>4, <2>1
  <2> QED
    BY <1>1, <1>3, <1>4, <2>1, <2>2, <2>3 DEF JobSound, Attempt
<1>10. WireSound'
  <2>1. \A r \in wire : r.id \in NoteIds /\ Attempt(r)
    BY DEF NoteTypeOK, Request, WireSound
  <2>2. ASSUME NEW r \in wire, r.id = i PROVE Attempt(r)'
    BY <1>1, <1>3, <1>4, <2>1, <2>2 DEF Attempt
  <2>3. ASSUME NEW r \in wire, r.id # i PROVE Attempt(r)'
    BY <1>1, <1>3, <2>1, <2>3 DEF Attempt, Moves
  <2> QED
    BY <1>2, <2>2, <2>3 DEF WireSound
<1>11. InboxSound' /\ SentIsTrue'
  <2>1. ASSUME NEW j \in NoteIds, inbox[j] # << >>
        PROVE  /\ rows'[j].attempts > 0 /\ inbox[j] = <<rows'[j].payload>>
               /\ rows'[j].first <= seen[j]
    <3>1. CASE j = i
      BY <1>1, <1>4, <2>1, <3>1 DEF InboxSound
    <3>2. CASE j # i
      BY <1>1, <2>1, <3>2 DEF InboxSound, Moves
    <3> QED
      BY <3>1, <3>2
  <2> QED
    BY <1>1, <1>2, <2>1 DEF InboxSound, SentIsTrue
<1>12. LiveInv'
  <2>1. \A j \in NoteIds : Live(rows'[j]) =>
          /\ Live(rows[j]) /\ rows'[j].payload = rows[j].payload
          /\ rows'[j].setrev = rows[j].setrev
          /\ rows'[j].status = "pending" => rows[j].status = "pending"
    BY <1>1 DEF Moves
  <2> QED
    BY <1>2, <1>3, <2>1 DEF LiveCurrent, LiveRevision, OneWaiting, Current, Live, LiveStates
<1> QED
  BY <1>3, <1>6, <1>7, <1>8, <1>9, <1>10, <1>11, <1>12

\* The result transaction: it closes the claimed row, if nobody else has, and
\* reports it as sent only after the provider has answered.
LEMMA SettleRows ==
  ASSUME NoteInv, NEW status \in {"sent", "retry", "needs_attention", "failed"},
         NEW next \in Nat, Settle(status, next)
  PROVE  /\ rows' \in [NoteIds -> Row] /\ RowsMove
         /\ job.id \in NoteIds /\ Sending /\ job.id \notin batch
         /\ \A i \in NoteIds \ {job.id} : rows'[i] = rows[i]
         /\ rows'[job.id].status = "sent" <=> status = "sent" \/ rows[job.id].status = "sent"
<1> USE DEF NoteInv, MailInv, LiveInv
<1>1. /\ pc = "await"
      /\ rows' = [rows EXCEPT ![job.id].status =
                    IF status = "sent" \/ @ = "sending" THEN status ELSE @,
                    ![job.id].next = next]
  BY DEF Settle
<1>2. Sending /\ job.id \in NoteIds
  BY <1>1 DEF Sending, NoteTypeOK, Job
<1>3. rows[job.id].attempts > 0 /\ job.id \notin batch
  BY <1>2 DEF JobSound, Attempt, JobRequest, BatchDue
<1> DEFINE i == job.id
           end == IF status = "sent" \/ rows[i].status = "sending" THEN status ELSE rows[i].status
           new == [rows[i] EXCEPT !.status = end, !.next = next]
<1>4. rows' = [rows EXCEPT ![i] = new]
  BY <1>1, <1>2 DEF NoteTypeOK
<1> HIDE DEF i, new
<1>5. rows[i] \in Row /\ rows \in [NoteIds -> Row] /\ i \in NoteIds /\ rows[i].attempts > 0
  BY <1>2, <1>3 DEF NoteTypeOK, i
<1>6. rows[i].status # "absent"
  <2>1. rows[i].status = "absent" => rows[i].attempts = 0
    BY <1>5 DEF RowsSound
  <2> QED
    BY <1>5, <2>1
<1>7. end \in Statuses
  BY <1>5 DEF Row, Statuses, LiveStates
<1>8. /\ new \in Row /\ new.status = end /\ new.payload = rows[i].payload
      /\ new.setrev = rows[i].setrev /\ new.attempts = rows[i].attempts /\ new.first = rows[i].first
  <2> HIDE DEF end
  <2> QED
    BY <1>5, <1>7 DEF Row, new
<1>9. Moves(rows[i], new)
  BY <1>6, <1>8 DEF Moves, Live, LiveStates
<1>10. /\ rows' \in [NoteIds -> Row] /\ rows'[i] = new
       /\ \A j \in NoteIds \ {i} : rows'[j] = rows[j]
  BY <1>4, <1>5, <1>8
<1>11. RowsMove
  BY <1>9, <1>10 DEF RowsMove, Moves
<1>12. rows'[i].status = "sent" <=> status = "sent" \/ rows[i].status = "sent"
  BY <1>8, <1>10
<1> QED
  BY <1>2, <1>3, <1>10, <1>11, <1>12 DEF i

\* A result leaves rows, requests and mails in agreement.
LEMMA SettleInv ==
  ASSUME NoteInv, NEW status \in {"sent", "retry", "needs_attention", "failed"},
         NEW next \in Nat, Settle(status, next), wire' \subseteq wire,
         status = "sent" => job.answered
  PROVE  NoteInv'
<1> USE DEF NoteInv, MailInv, LiveInv
<1>1. /\ rows' \in [NoteIds -> Row] /\ RowsMove
      /\ job.id \in NoteIds /\ Sending /\ job.id \notin batch
      /\ \A i \in NoteIds \ {job.id} : rows'[i] = rows[i]
      /\ rows'[job.id].status = "sent" <=> status = "sent" \/ rows[job.id].status = "sent"
  BY SettleRows
<1>2. /\ pc' = "batch"
      /\ UNCHANGED <<keyVars, settings, batch, inbox, seen, crashes>>
  BY DEF Settle
<1>3. KeyInv' /\ UNCHANGED <<now, keys, versions>> /\ ~Sending'
  BY <1>2, KeyNextInv DEF keyVars, Sending
<1>4. NoteTypeOK'
  BY <1>1, <1>2, <1>3 DEF NoteTypeOK, KeyInv
<1>5. job.answered => inbox[job.id] # << >>
  BY <1>1 DEF JobSound
<1>6. \A i \in NoteIds : rows'[i].status = "sent" => rows[i].status = "sent" \/ inbox[i] # << >>
  BY <1>1, <1>5
<1>7. \A i \in batch' : rows'[i].next = rows[i].next
  BY <1>1, <1>2 DEF NoteTypeOK
<1>8. MailInv' /\ OneWaiting'
  BY <1>1, <1>2, <1>3, <1>6, <1>7, MovesSound
<1>9. LiveCurrent' /\ LiveRevision'
  BY <1>1, <1>2, <1>3, MovesLive
<1> QED
  BY <1>3, <1>4, <1>8, <1>9

\* The delay before a retry is a number of seconds, whatever was asked for.
LEMMA DelayIsNat ==
  ASSUME NEW n \in Nat, n > 0, NEW asked \in RetryAfters
  PROVE  RetryDelay(n, asked) \in Nat
<1>1. Smaller(n, 6) \in 1 .. 6
  BY DEF Smaller
<1>2. Doubling[Smaller(n, 6)] \in Nat
  <2>1. \A k \in 1 .. 6 : Doubling[k] \in Nat
    BY DEF Doubling
  <2> QED
    BY <1>1, <2>1
<1> DEFINE d == Doubling[Smaller(n, 6)]
<1> HIDE DEF d
<1>3. d * Minute \in Nat /\ Hour \in Nat /\ asked \in Nat
  BY <1>2, NoteAssumption DEF d
<1>4. Larger(Smaller(d * Minute, Hour), asked) \in Nat
  BY <1>3 DEF Larger, Smaller
<1> QED
  BY <1>4 DEF RetryDelay, d

\* Of the ends of a request, only an answered one reports a reminder as sent.
LEMMA FinishInv ==
  ASSUME NoteInv, Finish
  PROVE  NoteInv' /\ (QuietStep \/ \E i \in NoteIds : Reports(i))
<1>0. now \in Nat
  BY DEF NoteInv, NoteTypeOK, TypeOK
<1>1. CASE FinishSent
  <2>1. Settle("sent", now) /\ UNCHANGED <<wire, inbox>> /\ job.answered /\ Sending
    BY <1>1 DEF FinishSent, Settle, Sending
  <2>2. NoteInv'
    BY <1>0, <2>1, SettleInv
  <2>3. /\ RowsMove /\ job.id \in NoteIds /\ rows'[job.id].status = "sent"
        /\ \A i \in NoteIds \ {job.id} : rows'[i] = rows[i]
    BY <1>0, <2>1, SettleRows
  <2>4. inbox[job.id] # << >>
    BY <2>1 DEF NoteInv, MailInv, JobSound
  <2> QED
    BY <2>1, <2>2, <2>3, <2>4 DEF Reports
<1>2. ASSUME NEW status \in {"retry", "needs_attention", "failed"}, NEW next \in Nat,
             Settle(status, next), wire' \subseteq wire
      PROVE  NoteInv' /\ QuietStep
  <2>1. NoteInv'
    BY <1>2, SettleInv
  <2>2. /\ RowsMove /\ job.id \in NoteIds
        /\ rows'[job.id].status = "sent" => rows[job.id].status = "sent"
        /\ \A i \in NoteIds \ {job.id} : rows'[i] = rows[i]
    BY <1>2, SettleRows
  <2>3. UNCHANGED inbox
    BY <1>2 DEF Settle
  <2> QED
    BY <2>1, <2>2, <2>3 DEF QuietStep
<1>3. CASE FinishFailed
  <2>1. wire' \subseteq wire /\ Settle("failed", now)
    BY <1>3 DEF FinishFailed
  <2> QED
    BY <1>0, <1>2, <2>1
<1>4. ASSUME NEW asked \in RetryAfters, FinishRetry(asked)
      PROVE  NoteInv' /\ QuietStep
  <2> DEFINE next == now + RetryDelay(job.attempts, asked)
             end == IF job.first + Window <= next THEN "needs_attention" ELSE "retry"
  <2>1. Settle(end, next) /\ UNCHANGED wire /\ pc = "await"
    BY <1>4 DEF FinishRetry
  <2>2. job.attempts \in Nat /\ job.attempts > 0
    BY <2>1 DEF NoteInv, MailInv, JobSound, Sending, NoteTypeOK, Job
  <2>3. RetryDelay(job.attempts, asked) \in Nat
    BY <2>2, DelayIsNat
  <2>4. next \in Nat
    BY <1>0, <2>3
  <2> HIDE DEF next
  <2>5. end \in {"retry", "needs_attention"}
    OBVIOUS
  <2> HIDE DEF end
  <2> QED
    BY <1>2, <2>1, <2>4, <2>5
<1> QED
  BY <1>1, <1>3, <1>4 DEF Finish

\* The provider mails a text at most once: while a request for it may still arrive
\* the provider remembers the first, and both are the text of the row.
LEMMA AcceptMails ==
  ASSUME NoteInv, NEW r \in wire, Accept(r)
  PROVE  /\ r.id \in NoteIds /\ rows[r.id].attempts > 0
         /\ \/ inbox[r.id] # << >> /\ UNCHANGED <<inbox, seen>>
            \/ /\ inbox[r.id] = << >>
               /\ inbox' = [inbox EXCEPT ![r.id] = <<rows[r.id].payload>>]
               /\ seen' = [seen EXCEPT ![r.id] = now]
               /\ rows[r.id].payload \in Body
<1> USE DEF NoteInv, MailInv, LiveInv
<1>1. r.id \in NoteIds /\ r.body \in Body /\ r.claimed \in Nat
  BY DEF NoteTypeOK, Request
<1>2. Attempt(r)
  BY DEF WireSound
<1>3. /\ inbox' = IF Known(r) THEN inbox ELSE [inbox EXCEPT ![r.id] = Append(@, r.body)]
      /\ seen' = IF Known(r) THEN seen ELSE [seen EXCEPT ![r.id] = now]
  BY DEF Accept
<1>4. CASE inbox[r.id] # << >>
  <2>1. inbox[r.id] = <<rows[r.id].payload>> /\ rows[r.id].first <= seen[r.id]
    BY <1>1, <1>4 DEF InboxSound
  <2>2. Len(inbox[r.id]) = 1 /\ inbox[r.id][1] = r.body
    BY <1>2, <2>1 DEF Attempt
  <2>3. now < seen[r.id] + ProviderWindow
    <3>1. /\ now \in Nat /\ rows[r.id].first \in Nat /\ seen[r.id] \in Nat
          /\ Window \in Nat /\ SendTimeout \in Nat /\ ProviderWindow \in Nat
      BY <1>1, NoteAssumption DEF NoteTypeOK, TypeOK, Row
    <3>2. r.claimed < rows[r.id].first + Window /\ now <= r.claimed + SendTimeout
      BY <1>2 DEF Attempt
    <3>3. now < rows[r.id].first + Window + SendTimeout
      BY <1>1, <3>1, <3>2
    <3> QED
      BY <2>1, <3>1, <3>3, WindowAssumption
  <2>4. Known(r)
    BY <1>4, <2>2, <2>3 DEF Known
  <2> QED
    BY <1>1, <1>2, <1>3, <1>4, <2>4 DEF Attempt
<1>5. CASE inbox[r.id] = << >>
  <2>1. ~Known(r)
    BY <1>5 DEF Known
  <2>2. Append(inbox[r.id], r.body) = <<rows[r.id].payload>>
    BY <1>2, <1>5 DEF Attempt
  <2>3. inbox' = [inbox EXCEPT ![r.id] = <<rows[r.id].payload>>]
    BY <1>3, <2>1, <2>2
  <2> QED
    BY <1>1, <1>2, <1>3, <1>5, <2>1, <2>3 DEF Attempt
<1> QED
  BY <1>4, <1>5

\* Whatever request the provider sees next, it mails the text of the row or nothing.
LEMMA AcceptInv ==
  ASSUME NoteInv, NEW r \in wire, Accept(r)
  PROVE  NoteInv'
<1> USE DEF NoteInv, MailInv, LiveInv
<1>1. /\ wire' = wire \ {r} /\ UNCHANGED <<keyVars, settings, rows, pc, batch, crashes>>
      /\ job' = IF pc = "await" /\ JobRequest = r
                THEN [job EXCEPT !.answered = TRUE] ELSE job
  BY DEF Accept
<1>2. KeyInv' /\ UNCHANGED <<now, keys, versions>> /\ (Sending' <=> Sending)
  BY <1>1, KeyNextInv DEF keyVars, Sending
<1>3. /\ r.id \in NoteIds /\ rows[r.id].attempts > 0
      /\ \/ inbox[r.id] # << >> /\ UNCHANGED <<inbox, seen>>
         \/ /\ inbox[r.id] = << >>
            /\ inbox' = [inbox EXCEPT ![r.id] = <<rows[r.id].payload>>]
            /\ seen' = [seen EXCEPT ![r.id] = now]
            /\ rows[r.id].payload \in Body
  BY AcceptMails
<1>4. /\ inbox'[r.id] # << >>
      /\ \A i \in NoteIds : inbox[i] # << >> => inbox'[i] # << >>
      /\ inbox' \in [NoteIds -> Seq(Body)] /\ seen' \in [NoteIds -> Nat]
  <2> DEFINE mail == <<rows[r.id].payload>>
  <2>1. inbox \in [NoteIds -> Seq(Body)] /\ seen \in [NoteIds -> Nat] /\ now \in Nat
    BY DEF NoteTypeOK, TypeOK
  <2>2. mail # << >>
    OBVIOUS
  <2>3. rows[r.id].payload \in Body => mail \in Seq(Body)
    OBVIOUS
  <2> HIDE DEF mail
  <2>4. CASE inbox[r.id] # << >> /\ UNCHANGED <<inbox, seen>>
    BY <2>1, <2>4
  <2>5. CASE /\ inbox' = [inbox EXCEPT ![r.id] = mail]
             /\ seen' = [seen EXCEPT ![r.id] = now]
             /\ rows[r.id].payload \in Body
    BY <1>3, <2>1, <2>2, <2>3, <2>5
  <2> QED
    BY <1>3, <2>4, <2>5 DEF mail
<1>5. Sending => /\ job' \in Job /\ JobRequest' = JobRequest /\ job'.id = job.id
                 /\ job'.attempts = job.attempts
                 /\ job'.answered => job.answered \/ JobRequest = r
  BY <1>1 DEF NoteTypeOK, Job, JobRequest
<1>6. NoteTypeOK'
  BY <1>1, <1>2, <1>4, <1>5 DEF NoteTypeOK, KeyInv
<1>7. RowsSound' /\ LiveInv'
  BY <1>1, <1>2 DEF RowsSound, LiveCurrent, LiveRevision, OneWaiting, Current
<1>8. WireSound'
  BY <1>1, <1>2 DEF WireSound, Attempt
<1>9. BatchDue'
  BY <1>1, <1>2, <1>5 DEF BatchDue
<1>10. JobSound'
  <2> SUFFICES ASSUME Sending' PROVE JobSound'
    BY DEF JobSound
  <2>0. Sending /\ Attempt(JobRequest)
    BY <1>2 DEF JobSound
  <2>1. Attempt(JobRequest)'
    BY <1>1, <1>2, <1>5, <2>0 DEF Attempt
  <2>2. JobRequest = r => job.id = r.id
    BY DEF JobRequest
  <2>3. job.id \in NoteIds /\ job.attempts > 0 /\ (job.answered => inbox[job.id] # << >>)
    BY <2>0 DEF NoteTypeOK, Job, JobSound
  <2> QED
    BY <1>4, <1>5, <2>0, <2>1, <2>2, <2>3 DEF JobSound
<1>11. InboxSound'
  <2> SUFFICES ASSUME NEW i \in NoteIds, inbox'[i] # << >>
               PROVE  /\ rows[i].attempts > 0 /\ inbox'[i] = <<rows[i].payload>>
                      /\ rows[i].first <= seen'[i]
    BY <1>1 DEF InboxSound
  <2>1. CASE inbox'[i] = inbox[i] /\ seen'[i] = seen[i]
    BY <2>1 DEF InboxSound
  <2>2. CASE i = r.id /\ inbox'[i] = <<rows[i].payload>> /\ seen'[i] = now
    BY <1>3, <2>2 DEF RowsSound
  <2> QED
    BY <1>3, <2>1, <2>2 DEF NoteTypeOK
<1>12. SentIsTrue'
  BY <1>1, <1>4 DEF SentIsTrue
<1> QED
  BY <1>2, <1>6, <1>7, <1>8, <1>9, <1>10, <1>11, <1>12

\* A second passes only while nothing on its way would get too old.
LEMMA NoteTickInv ==
  ASSUME NoteInv, NoteTick
  PROVE  NoteInv' /\ QuietStep
<1> USE DEF NoteInv, MailInv, LiveInv
<1>1. /\ Tick /\ (Sending => now < job.claimed + SendTimeout)
      /\ wire' = {r \in wire : now < r.claimed + SendTimeout}
      /\ UNCHANGED <<settings, rows, pc, batch, job, inbox, seen, crashes>>
  BY DEF NoteTick
<1>2. KeyInv' /\ now' = now + 1 /\ UNCHANGED <<keys, versions>>
  BY <1>1, KeyNextInv DEF Tick, KeyNext
<1>3. now \in Nat /\ SendTimeout \in Nat
  BY NoteAssumption DEF NoteTypeOK, TypeOK
<1>4. NoteTypeOK'
  BY <1>1, <1>2 DEF NoteTypeOK, KeyInv, Sending
<1>5. \A i \in NoteIds : rows[i].first \in Nat /\ rows[i].next \in Nat
  BY DEF NoteTypeOK, Row
<1>6. RowsSound' /\ SentIsTrue' /\ InboxSound' /\ LiveInv' /\ QuietStep
  <2>1. \A i \in NoteIds : rows[i].first <= now => rows[i].first <= now'
    BY <1>2, <1>3, <1>5
  <2>2. RowsSound'
    BY <1>1, <2>1 DEF RowsSound
  <2> QED
    BY <1>1, <1>2, <2>2 DEF SentIsTrue, InboxSound, LiveCurrent, LiveRevision, OneWaiting, Current,
                          QuietStep, RowsMove, Moves
<1>7. ASSUME NEW r, r.claimed \in Nat, Attempt(r), now < r.claimed + SendTimeout
      PROVE  Attempt(r)'
  <2>1. r.claimed <= now' /\ now' <= r.claimed + SendTimeout
    BY <1>2, <1>3, <1>7 DEF Attempt
  <2> QED
    BY <1>1, <1>7, <2>1 DEF Attempt
<1>8. WireSound'
  BY <1>1, <1>7 DEF WireSound, NoteTypeOK, Request
<1>9. JobSound'
  <2>1. Sending => JobRequest.claimed = job.claimed /\ job.claimed \in Nat
    BY DEF JobRequest, NoteTypeOK, Job
  <2>2. JobRequest' = JobRequest
    BY <1>1 DEF JobRequest
  <2> QED
    BY <1>1, <1>7, <2>1, <2>2 DEF JobSound, Sending
<1>10. BatchDue'
  <2>1. \A i \in batch : Live(rows[i]) => rows[i].next <= now'
    BY <1>2, <1>3, <1>5 DEF BatchDue, NoteTypeOK
  <2> QED
    BY <1>1, <2>1 DEF BatchDue, Sending
<1> QED
  BY <1>2, <1>4, <1>6, <1>8, <1>9, <1>10

---------------------------------------------------------------------------
\* Every step keeps the invariant.  Those that are not quiet schedule, claim, report
\* or mail.
LEMMA NoteNextInv ==
  ASSUME NoteInv, [NoteNext]_vars
  PROVE  NoteInv' /\ \/ QuietStep
                     \/ Schedule
                     \/ \E i \in batch : Claim(i)
                     \/ \E i \in NoteIds : Reports(i)
                     \/ \E r \in wire : Accept(r)
<1>1. CASE ChangeKey
  BY <1>1, ChangeKeyInv
<1>2. CASE \E rev \in 1 .. MaxSettings, p \in Profiles : PutSettings(rev, p)
  BY <1>2, PutSettingsInv
<1>3. CASE WorkerStep
  <2>1. CASE Schedule
    BY <2>1, ScheduleInv
  <2>2. CASE Select
    BY <2>2, SelectInv
  <2>3. CASE Post
    BY <2>3, PostInv
  <2>4. CASE Finish
    BY <2>4, FinishInv
  <2>5. CASE \E i \in batch : Skip(i) \/ CloseWindow(i)
    BY <2>5, PassOverInv
  <2>6. CASE \E i \in batch : Claim(i)
    BY <2>6, ClaimInv
  <2> QED
    BY <1>3, <2>1, <2>2, <2>3, <2>4, <2>5, <2>6 DEF WorkerStep
<1>4. CASE Cleanup
  <2>1. CleanIdempotency /\ UNCHANGED <<now, keys, versions>> /\ UNCHANGED noteVars
    BY <1>4 DEF Cleanup, CleanIdempotency
  <2>2. KeyInv'
    BY <2>1, CleanInv DEF NoteInv
  <2> QED
    BY <2>1, <2>2, NotesRestInv
<1>5. CASE Crash
  BY <1>5, CrashInv
<1>6. CASE \E r \in wire : Accept(r)
  BY <1>6, AcceptInv
<1>7. CASE NoteTick
  BY <1>7, NoteTickInv
<1>8. CASE UNCHANGED vars
  <2>1. UNCHANGED keyVars /\ UNCHANGED <<now, keys, versions>> /\ UNCHANGED noteVars
    BY <1>8 DEF vars, keyVars
  <2>2. KeyInv'
    BY <2>1, KeyNextInv DEF NoteInv
  <2> QED
    BY <2>1, <2>2, NotesRestInv
<1> QED
  BY <1>1, <1>2, <1>3, <1>4, <1>5, <1>6, <1>7, <1>8 DEF NoteNext

\* The notifications table, the worker's locals, the requests under way and the
\* owner's inbox always hold what they are declared to hold.
THEOREM NotesTypeCorrect == NoteSpec => []NoteTypeOK
<1>1. NoteInv /\ [NoteNext]_vars => NoteInv'
  BY NoteNextInv
<1>2. NoteInv => NoteTypeOK
  BY DEF NoteInv
<1> QED
  BY <1>1, <1>2, NoteInitInv, PTL DEF NoteSpec

\* A reminder still to be sent is true: it is about the active version of a key that
\* is enabled, and about the date that version has now.
THEOREM RemindersAreCurrent == NoteSpec => []LiveFresh
<1>1. NoteInv /\ [NoteNext]_vars => NoteInv'
  BY NoteNextInv
<1>2. NoteInv => LiveFresh
  BY DEF NoteInv, LiveInv, LiveCurrent, Current, LiveFresh
<1> QED
  BY <1>1, <1>2, NoteInitInv, PTL DEF NoteSpec

\* And it was written under the settings in force, with mail on, although settings
\* are saved between the worker's transactions.
THEOREM RemindersAreRevised == NoteSpec => []LiveRevision
<1>1. NoteInv /\ [NoteNext]_vars => NoteInv'
  BY NoteNextInv
<1>2. NoteInv => LiveRevision
  BY DEF NoteInv, LiveInv
<1> QED
  BY <1>1, <1>2, NoteInitInv, PTL DEF NoteSpec

\* Of one version at most one reminder waits for its first attempt, whatever thresholds
\* were missed and however planning and handlers interleave.
THEOREM OneReminderWaits == NoteSpec => []OneWaiting
<1>1. NoteInv /\ [NoteNext]_vars => NoteInv'
  BY NoteNextInv
<1>2. NoteInv => OneWaiting
  BY DEF NoteInv, LiveInv
<1> QED
  BY <1>1, <1>2, NoteInitInv, PTL DEF NoteSpec

\* A row says sent only of a mail the provider has taken, crashes, late answers and
\* handlers that close the row meanwhile included.
THEOREM SentIsTaken == NoteSpec => []SentIsTrue
<1>1. NoteInv /\ [NoteNext]_vars => NoteInv'
  BY NoteNextInv
<1>2. NoteInv => SentIsTrue
  BY DEF NoteInv, MailInv
<1> QED
  BY <1>1, <1>2, NoteInitInv, PTL DEF NoteSpec

---------------------------------------------------------------------------
\* One step of AttemptedIsFixed: of what was attempted, text, settings and first
\* attempt stay, and what is closed besides is not tried again.
LEMMA AttemptedStep ==
  ASSUME NoteInv, [NoteNext]_vars, NEW i \in NoteIds, rows[i].attempts > 0
  PROVE  /\ rows'[i].payload = rows[i].payload
         /\ rows'[i].setrev = rows[i].setrev
         /\ rows'[i].first = rows[i].first
         /\ ~Live(rows[i]) => /\ rows'[i].attempts = rows[i].attempts
                              /\ rows'[i].status \in {rows[i].status, "sent"}
<1>1. CASE Moves(rows[i], rows'[i])
  BY <1>1 DEF Moves
<1>2. CASE QuietStep \/ (\E j \in NoteIds : Reports(j))
  BY <1>1, <1>2 DEF QuietStep, Reports, RowsMove
<1>3. CASE Schedule
  BY <1>1, <1>3, ScheduleRows
<1>4. ASSUME NEW j \in batch, Claim(j)
      PROVE  Moves(rows[i], rows'[i])
             \/ (i = j /\ Live(rows[j]) /\ rows'[j].payload = rows[j].payload
                   /\ rows'[j].setrev = rows[j].setrev /\ rows'[j].first = rows[j].first)
  BY <1>4, ClaimRows
<1>5. CASE \E j \in batch : Claim(j)
  BY <1>1, <1>4, <1>5
<1>6. CASE \E r \in wire : Accept(r)
  BY <1>6 DEF Accept
<1> QED
  BY <1>2, <1>3, <1>5, <1>6, NoteNextInv

\* One step of NotBeforeDue: only a claim adds an attempt, and what it claims was
\* due when it was selected and has not been put off since.
LEMMA AttemptIsDue ==
  ASSUME NoteInv, [NoteNext]_vars, NEW i \in NoteIds, rows'[i].attempts > rows[i].attempts
  PROVE  rows[i].next <= now
<1>0. rows[i].attempts \in Nat
  BY DEF NoteInv, NoteTypeOK, Row
<1>1. rows'[i].attempts # rows[i].attempts
  BY <1>0
<1>2. ~QuietStep /\ ~(\E j \in NoteIds : Reports(j))
  BY <1>1 DEF QuietStep, Reports, RowsMove, Moves
<1>3. ~Schedule
  BY <1>1, ScheduleRows
<1>4. ~(\E r \in wire : Accept(r))
  BY <1>1 DEF Accept
<1>5. PICK j \in batch : Claim(j)
  BY <1>2, <1>3, <1>4, NoteNextInv
<1>6. i = j /\ Live(rows[i])
  BY <1>1, <1>5, ClaimRows DEF Moves
<1> QED
  BY <1>5, <1>6 DEF NoteInv, MailInv, BatchDue

\* What may be on its way is never altered under the request, and never sent again
\* once it was closed.
THEOREM AttemptsAreFixed == NoteSpec => AttemptedIsFixed
<1>1. NoteInv /\ [NoteNext]_vars => NoteInv'
  BY NoteNextInv
<1>2. NoteInv /\ [NoteNext]_vars =>
        \A i \in NoteIds : rows[i].attempts > 0 =>
          /\ rows'[i].payload = rows[i].payload
          /\ rows'[i].setrev = rows[i].setrev
          /\ rows'[i].first = rows[i].first
          /\ ~Live(rows[i]) => /\ rows'[i].attempts = rows[i].attempts
                               /\ rows'[i].status \in {rows[i].status, "sent"}
  BY AttemptedStep
<1> QED
  BY <1>1, <1>2, NoteInitInv, PTL DEF NoteSpec, AttemptedIsFixed

\* No reminder is tried before the time its row gives, although the claim does not
\* look at that time again.
THEOREM AttemptsAreDue == NoteSpec => NotBeforeDue
<1>1. NoteInv /\ [NoteNext]_vars => NoteInv'
  BY NoteNextInv
<1>2. NoteInv /\ [NoteNext]_vars =>
        \A i \in NoteIds : rows'[i].attempts > rows[i].attempts => rows[i].next <= now
  BY AttemptIsDue
<1> QED
  BY <1>1, <1>2, NoteInitInv, PTL DEF NoteSpec, NotBeforeDue

---------------------------------------------------------------------------
\* What is reported stays reported, and what is bound stays bound.
LEMMA MovesKeepLedger ==
  ASSUME NEW i \in NoteIds, Moves(rows[i], rows'[i])
  PROVE  /\ Bound'[i] = Bound[i]
         /\ rows[i].status = "sent" => rows'[i].status = "sent"
<1>1. rows[i].status = "sent" => ~Live(rows[i])
  BY DEF Live, LiveStates
<1> QED
  BY <1>1 DEF Moves, Bound

\* Every step of worker, handlers, provider and clock is a step of the ledger or
\* none: a first claim binds, a report reports, an accepted request delivers.
LEMMA LedgerStep ==
  ASSUME NoteInv, [NoteNext]_vars
  PROVE  \/ UNCHANGED <<Bound, inbox, Reported>>
         \/ \E i \in NoteIds :
              \/ /\ Bound[i] = NoBody /\ Bound'[i] \in Body
                 /\ Bound' = [Bound EXCEPT ![i] = Bound'[i]]
                 /\ UNCHANGED <<inbox, Reported>>
              \/ /\ Bound[i] # NoBody /\ inbox[i] = << >>
                 /\ inbox' = [inbox EXCEPT ![i] = <<Bound[i]>>]
                 /\ UNCHANGED <<Bound, Reported>>
              \/ /\ inbox[i] # << >>
                 /\ Reported' = [Reported EXCEPT ![i] = TRUE]
                 /\ UNCHANGED <<Bound, inbox>>
<1>1. ASSUME RowsMove
      PROVE  /\ Bound' = Bound
             /\ \A i \in NoteIds : rows[i].status = "sent" => rows'[i].status = "sent"
  <2>1. \A i \in NoteIds : Bound'[i] = Bound[i]
    BY <1>1, MovesKeepLedger DEF RowsMove
  <2>2. Bound' = Bound
    BY <2>1 DEF Bound
  <2> QED
    BY <1>1, <2>2, MovesKeepLedger DEF RowsMove
<1>2. CASE QuietStep
  <2>1. \A i \in NoteIds : (rows[i].status = "sent") <=> (rows'[i].status = "sent")
    BY <1>1, <1>2 DEF QuietStep
  <2>2. Reported' = Reported
    BY <2>1, Zenon DEF Reported
  <2> QED
    BY <1>1, <1>2, <2>2 DEF QuietStep
<1>3. ASSUME NEW i \in NoteIds, rows[i].status = "sent"
      PROVE  rows[i].attempts > 0 /\ ~Live(rows[i])
  BY <1>3 DEF NoteInv, MailInv, SentIsTrue, InboxSound, Live, LiveStates
<1>4. CASE Schedule
  <2>1. \A i \in NoteIds :
          /\ Bound'[i] = Bound[i]
          /\ (rows[i].status = "sent") <=> (rows'[i].status = "sent")
    <3> TAKE i \in NoteIds
    <3>1. rows'[i].attempts = rows[i].attempts /\ (rows[i].attempts > 0 => Moves(rows[i], rows'[i]))
          /\ (rows'[i].status = "sent" => rows[i].status = "sent")
      BY <1>4, ScheduleRows
    <3>2. rows[i].attempts > 0 => rows'[i].payload = rows[i].payload
      BY <3>1 DEF Moves
    <3> QED
      BY <1>3, <3>1, <3>2, MovesKeepLedger DEF Bound
  <2>2. Bound' = Bound
    BY <2>1 DEF Bound
  <2>3. Reported' = Reported
    BY <2>1, Zenon DEF Reported
  <2> QED
    BY <1>4, <2>2, <2>3 DEF Schedule
<1>5. ASSUME NEW i \in batch, Claim(i)
      PROVE  /\ UNCHANGED <<inbox, Reported>> /\ i \in NoteIds
             /\ \/ Bound' = Bound
                \/ /\ Bound[i] = NoBody /\ Bound'[i] \in Body
                   /\ Bound' = [Bound EXCEPT ![i] = Bound'[i]]
  <2>1. /\ i \in NoteIds /\ Live(rows[i]) /\ rows[i].payload \in Body
        /\ rows'[i].status = "sending" /\ rows'[i].attempts = rows[i].attempts + 1
        /\ rows'[i].payload = rows[i].payload
        /\ \A j \in NoteIds \ {i} :
             /\ Moves(rows[j], rows'[j])
             /\ rows'[j].status = "sent" => rows[j].status = "sent"
    BY <1>5, ClaimRows
  <2>2. rows[i].attempts \in Nat
    BY <2>1 DEF NoteInv, NoteTypeOK, Row
  <2>3. rows'[i].attempts > 0 /\ (rows[i].attempts > 0 \/ rows[i].attempts = 0)
    BY <2>1, <2>2
  <2>4. \A j \in NoteIds \ {i} : Bound'[j] = Bound[j]
    BY <2>1, MovesKeepLedger
  <2>5. /\ Bound'[i] = rows[i].payload
        /\ Bound[i] = IF rows[i].attempts > 0 THEN rows[i].payload ELSE NoBody
    BY <2>1, <2>3 DEF Bound
  <2>6. Bound' = [Bound EXCEPT ![i] = Bound'[i]]
    BY <2>1, <2>4 DEF Bound
  <2>7. \A j \in NoteIds : (rows[j].status = "sent") <=> (rows'[j].status = "sent")
    BY <2>1, MovesKeepLedger DEF Live, LiveStates
  <2>8. Reported' = Reported
    BY <2>7, Zenon DEF Reported
  <2>9. rows[i].attempts > 0 => Bound' = Bound
    <3>1. rows[i].attempts > 0 => \A j \in NoteIds : Bound'[j] = Bound[j]
      BY <2>4, <2>5
    <3> QED
      BY <3>1 DEF Bound
  <2> QED
    BY <1>5, <2>1, <2>2, <2>5, <2>6, <2>8, <2>9 DEF Claim
<1>6. ASSUME NEW i \in NoteIds, Reports(i)
      PROVE  /\ UNCHANGED <<Bound, inbox>> /\ inbox[i] # << >>
             /\ Reported' = [Reported EXCEPT ![i] = TRUE]
  <2>1. \A j \in NoteIds : Reported'[j] = [Reported EXCEPT ![i] = TRUE][j]
    BY <1>6 DEF Reports, Reported
  <2>2. Reported' = [Reported EXCEPT ![i] = TRUE]
    BY <2>1 DEF Reported
  <2> QED
    BY <1>1, <1>6, <2>2 DEF Reports
<1>7. ASSUME NEW r \in wire, Accept(r)
      PROVE  /\ UNCHANGED <<Bound, Reported>> /\ r.id \in NoteIds
             /\ \/ UNCHANGED inbox
                \/ /\ Bound[r.id] # NoBody /\ inbox[r.id] = << >>
                   /\ inbox' = [inbox EXCEPT ![r.id] = <<Bound[r.id]>>]
  <2>1. rows' = rows
    BY <1>7 DEF Accept
  <2>2. /\ r.id \in NoteIds /\ rows[r.id].attempts > 0
        /\ \/ UNCHANGED inbox
           \/ /\ inbox[r.id] = << >>
              /\ inbox' = [inbox EXCEPT ![r.id] = <<rows[r.id].payload>>]
              /\ rows[r.id].payload \in Body
    BY <1>7, AcceptMails
  <2>3. NoBody \notin Body
    BY DEF NoBody, Body
  <2>4. Bound[r.id] = rows[r.id].payload
    BY <2>2 DEF Bound
  <2> QED
    BY <2>1, <2>2, <2>3, <2>4 DEF Bound, Reported
<1> QED
  BY <1>2, <1>4, <1>5, <1>6, <1>7, NoteNextInv

\* Worker, handlers, restarts and provider together implement MailLedger: a text is
\* fixed before it can be delivered, delivered at most once, and reported only then.
THEOREM LedgerIsKept == NoteSpec => LedgerKept
<1>1. NoteInv /\ [NoteNext]_vars => NoteInv'
  BY NoteNextInv
<1>2. NoteInit => Ledger!LedgerInit
  <2>1. NoteInit => \A i \in NoteIds : ~(rows[i].attempts > 0) /\ ~(rows[i].status = "sent")
    BY DEF NoteInit, Absent
  <2>2. NoteInit => [i \in NoteIds |-> rows[i].status = "sent"] = [i \in NoteIds |-> FALSE]
    BY <2>1, Zenon
  <2>3. NoteInit => [i \in NoteIds |-> IF rows[i].attempts > 0 THEN rows[i].payload ELSE NoBody]
                      = [i \in NoteIds |-> NoBody]
    BY <2>1
  <2> QED
    BY <2>2, <2>3 DEF NoteInit, Ledger!LedgerInit
<1>3. NoteInv /\ [NoteNext]_vars => [Ledger!LedgerNext]_(Ledger!ledgerVars)
  BY LedgerStep DEF Ledger!LedgerNext, Ledger!ledgerVars, Ledger!Bind, Ledger!Deliver,
                    Ledger!Report, Bound, Reported
<1> QED
  BY <1>1, <1>2, <1>3, NoteInitInv, PTL DEF NoteSpec, LedgerKept, Ledger!LedgerSpec

---------------------------------------------------------------------------
\* Planning and sending reminders does nothing to the keys that the keys' own
\* handlers do not do: what is proved of KeySpec holds beside the worker, through
\* its crashes.
THEOREM NotesUseKeys == NoteSpec => KeySpec
<1>1. ChangeKey \/ Cleanup \/ NoteTick => KeyNext
  BY DEF ChangeKey, Cleanup, NoteTick, KeyNext
<1>2. ASSUME NEW rev \in 1 .. MaxSettings, NEW p \in Profiles, PutSettings(rev, p)
      PROVE  UNCHANGED keyVars
  BY <1>2 DEF PutSettings
<1>3. WorkerStep => UNCHANGED keyVars
  <2>1. Schedule \/ Select \/ Post => UNCHANGED keyVars
    BY DEF Schedule, Select, Post
  <2>2. Finish => UNCHANGED keyVars
    BY DEF Finish, FinishSent, FinishFailed, FinishRetry, Settle
  <2>3. ASSUME NEW i \in batch, Skip(i) \/ CloseWindow(i) \/ Claim(i)
        PROVE  UNCHANGED keyVars
    BY <2>3 DEF Skip, CloseWindow, Claim
  <2> QED
    BY <2>1, <2>2, <2>3 DEF WorkerStep
<1>4. Crash => UNCHANGED keyVars
  BY DEF Crash
<1>5. ASSUME NEW r \in wire, Accept(r)
      PROVE  UNCHANGED keyVars
  BY <1>5 DEF Accept
<1>6. UNCHANGED vars => UNCHANGED keyVars
  BY DEF vars
<1>7. [NoteNext]_vars => [KeyNext]_keyVars
  BY <1>1, <1>2, <1>3, <1>4, <1>5, <1>6 DEF NoteNext
<1>8. NoteInit => KeyInit
  BY DEF NoteInit
<1> QED
  BY <1>7, <1>8, PTL DEF NoteSpec, KeySpec
============================================================================

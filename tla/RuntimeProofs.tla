--------------------------- MODULE RuntimeProofs ---------------------------
(***************************************************************************)
(* Proofs about Runtime, for any tokens, calls, requests, rules and limits,*)
(* and about ActionClient, which it serves.                                *)
(* RetryCap and OneAnswer compare a new answer with the first one, which   *)
(* the code never sees: it goes by the record.  RuntimeInv adds what ties  *)
(* the two together as long as the record counted every answer.            *)
(***************************************************************************)
EXTENDS ActionClient, AccessRulesProofs, FiniteSetTheorems

\* A record that counted every answer to its token speaks of the first one, and
\* every record is due for deletion one leeway after its token expires.
RecordOfFirst ==
  \A t \in Tokens : records[t] # NoRecord =>
    /\ records[t].attempts > 0
    /\ records[t].expires = TokenExp[t] + Leeway
    /\ records[t].attempts = Len(delivered[t]) =>
         /\ records[t].refs = delivered[t][1].refs
         /\ records[t].versions = delivered[t][1].versions
         /\ records[t].first = delivered[t][1].at

RuntimeInv ==
  AccessInv /\ RuntimeTypeOK /\ AtMostCap /\ RecordTrue /\ OneAnswer /\ RecordOfFirst

\* The record FirstAnswer writes and the answer it gives.
Pinned(q) == [k \in Keys |-> IF k \in KeysOf(q) THEN keys[k].active ELSE 0]
FirstRow(t, q) == [refs |-> q, versions |-> Pinned(q), first |-> now, attempts |-> 1,
                   expires |-> TokenExp[t] + Leeway]

---------------------------------------------------------------------------
\* No token was used and none is remembered at the start.
LEMMA RuntimeInitInv == RuntimeInit => RuntimeInv
<1> SUFFICES ASSUME RuntimeInit PROVE RuntimeInv
  OBVIOUS
<1>1. AccessInv
  BY AccessInitInv DEF RuntimeInit
<1>2. << >> \in Seq(Answer) /\ Len(<< >>) = 0 /\ DOMAIN << >> = {}
  BY EmptySeq, LenProperties
<1>3. RuntimeTypeOK
  BY <1>1, <1>2 DEF RuntimeInit, RuntimeTypeOK, AccessInv, KeyInv
<1>4. \A t \in Tokens : /\ records[t] = NoRecord
                         /\ Len(delivered[t]) = 0 /\ DOMAIN delivered[t] = {}
  BY <1>2 DEF RuntimeInit
<1>5. AtMostCap
  BY <1>4, RuntimeAssumption DEF AtMostCap
<1>6. RecordTrue /\ OneAnswer /\ RecordOfFirst
  BY <1>4 DEF RecordTrue, OneAnswer, RecordOfFirst
<1> QED
  BY <1>1, <1>3, <1>5, <1>6 DEF RuntimeInv

\* What is handed out goes to the end of its token's list.
LEMMA DeliverEffect ==
  ASSUME RuntimeTypeOK, NEW t \in Tokens, NEW q \in References, NEW answer \in Answers,
         Deliver(t, q, answer)
  PROVE  /\ delivered' \in [Tokens -> Seq(Answer)]
         /\ Len(delivered[t]) \in Nat /\ Len(delivered'[t]) = Len(delivered[t]) + 1
         /\ DOMAIN delivered[t] = 1 .. Len(delivered[t])
         /\ DOMAIN delivered'[t] = 1 .. Len(delivered[t]) + 1
         /\ \A i \in DOMAIN delivered[t] : delivered'[t][i] = delivered[t][i]
         /\ delivered'[t][Len(delivered[t]) + 1] = [at |-> now, refs |-> q, versions |-> answer]
         /\ \A u \in Tokens \ {t} : delivered'[u] = delivered[u]
<1> DEFINE new == [at |-> now, refs |-> q, versions |-> answer]
<1>1. delivered[t] \in Seq(Answer) /\ delivered \in [Tokens -> Seq(Answer)]
  BY DEF RuntimeTypeOK
<1>2. new \in Answer
  BY DEF RuntimeTypeOK, TypeOK, Answer
<1>3. delivered' = [delivered EXCEPT ![t] = Append(delivered[t], new)]
  BY DEF Deliver
<1> HIDE DEF new
<1>4. /\ Append(delivered[t], new) \in Seq(Answer)
      /\ Len(Append(delivered[t], new)) = Len(delivered[t]) + 1
      /\ \A i \in 1 .. Len(delivered[t]) : Append(delivered[t], new)[i] = delivered[t][i]
      /\ Append(delivered[t], new)[Len(delivered[t]) + 1] = new
  BY <1>1, <1>2, AppendProperties
<1>5. /\ DOMAIN delivered[t] = 1 .. Len(delivered[t]) /\ Len(delivered[t]) \in Nat
      /\ DOMAIN Append(delivered[t], new) = 1 .. Len(Append(delivered[t], new))
  BY <1>1, <1>4, LenProperties
<1>6. delivered'[t] = Append(delivered[t], new) /\ \A u \in Tokens \ {t} : delivered'[u] = delivered[u]
  BY <1>1, <1>3
<1>7. delivered' \in [Tokens -> Seq(Answer)]
  BY <1>1, <1>3, <1>4
<1> QED
  BY <1>4, <1>5, <1>6, <1>7 DEF new

\* An answer keeps the invariant if the record it leaves counts one more than the
\* record before, speaks of the answer, and is the first one's as long as it counted
\* all; and if an answer beyond the cap, or unlike the first, comes only late.
LEMMA AnswerInv ==
  ASSUME RuntimeInv, AccessInv', NEW t \in Tokens, NEW q \in References,
         NEW answer \in Answers, NEW row \in Record,
         UNCHANGED <<now, keyVars, accessVars>>, calls' \in [Callers -> Call \cup {NoCall}],
         records' = [records EXCEPT ![t] = row], Deliver(t, q, answer),
         row.attempts > 0, row.expires = TokenExp[t] + Leeway, row.versions = answer,
         row.attempts <= Len(delivered[t]) + 1,
         row.attempts < Len(delivered[t]) + 1 => TokenExp[t] + Leeway < now,
         row.attempts = Len(delivered[t]) + 1 =>
           /\ Len(delivered[t]) < MaxAttempts
           /\ row.refs = q
           /\ now <= row.first + RetryWindow
           /\ Len(delivered[t]) = 0 => row.first = now
           /\ Len(delivered[t]) > 0 => /\ row.refs = delivered[t][1].refs
                                       /\ row.versions = delivered[t][1].versions
                                       /\ row.first = delivered[t][1].at
  PROVE  RuntimeInv'
<1> USE DEF RuntimeInv
<1> DEFINE n == Len(delivered[t])
           new == [at |-> now, refs |-> q, versions |-> answer]
<1>1. /\ delivered' \in [Tokens -> Seq(Answer)]
      /\ n \in Nat /\ Len(delivered'[t]) = n + 1
      /\ DOMAIN delivered[t] = 1 .. n /\ DOMAIN delivered'[t] = 1 .. n + 1
      /\ \A i \in 1 .. n : delivered'[t][i] = delivered[t][i]
      /\ delivered'[t][n + 1] = new
      /\ \A u \in Tokens \ {t} : delivered'[u] = delivered[u]
  BY DeliverEffect
<1>2. /\ records'[t] = row
      /\ \A u \in Tokens \ {t} : records'[u] = records[u]
  BY DEF RuntimeTypeOK
<1>3. row # NoRecord
  BY DEF NoRecord
<1>4. /\ now \in Nat /\ TokenExp[t] + Leeway \in Nat /\ row.attempts \in Nat /\ row.first \in Nat
      /\ RetryWindow \in Nat /\ MaxAttempts \in Nat \ {0} /\ now' = now
  BY RuntimeAssumption DEF RuntimeTypeOK, TypeOK, Record
<1>5. new.at = now /\ new.refs = q /\ new.versions = answer
  OBVIOUS
<1> HIDE DEF n, new
<1>6. RuntimeTypeOK'
  BY <1>1 DEF RuntimeTypeOK, AccessInv, KeyInv
<1>7. AtMostCap'
  <2>1. ASSUME n + 1 > MaxAttempts
        PROVE  delivered'[t][MaxAttempts + 1].at > TokenExp[t] + Leeway \/ n + 1 = MaxAttempts
    <3>1. CASE n > MaxAttempts
      BY <3>1, <1>1, <1>4 DEF AtMostCap, n
    <3>2. CASE n = MaxAttempts
      BY <3>2, <1>1, <1>4, <1>5 DEF n
    <3> QED
      BY <2>1, <3>1, <3>2, <1>1, <1>4
  <2>2. Len(delivered'[t]) > MaxAttempts => delivered'[t][MaxAttempts + 1].at > TokenExp[t] + Leeway
    BY <2>1, <1>1, <1>4
  <2> QED
    BY <2>2, <1>1 DEF AtMostCap
<1>8. RecordTrue'
  <2>1. /\ row.attempts <= n + 1
        /\ row.attempts < n + 1 => TokenExp[t] + Leeway < now
        /\ delivered'[t][n + 1].versions = row.versions
    BY <1>1, <1>5 DEF n
  <2> SUFFICES ASSUME NEW u \in Tokens
               PROVE  LET m == Len(delivered'[u])
                      IN  IF records'[u] = NoRecord
                          THEN m > 0 => TokenExp[u] + Leeway < now
                          ELSE /\ records'[u].attempts <= m
                               /\ records'[u].attempts < m => TokenExp[u] + Leeway < now
                               /\ delivered'[u][m].versions = records'[u].versions
    BY <1>4 DEF RecordTrue
  <2>2. CASE u = t
    BY <2>1, <2>2, <1>1, <1>2, <1>3
  <2>3. CASE u # t
    <3>1. delivered'[u] = delivered[u] /\ records'[u] = records[u]
      BY <2>3, <1>1, <1>2
    <3> QED
      BY <3>1 DEF RecordTrue
  <2> QED
    BY <2>2, <2>3
<1>9. OneAnswer'
  <2> DEFINE Alike(i) == delivered'[t][i].at <= TokenExp[t] + Leeway =>
               /\ delivered'[t][i].refs = delivered'[t][1].refs
               /\ delivered'[t][i].versions = delivered'[t][1].versions
               /\ delivered'[t][i].at <= delivered'[t][1].at + RetryWindow
  <2>1. ASSUME NEW i \in 1 .. n PROVE Alike(i)
    <3>1. 1 \in 1 .. n
      BY <1>1
    <3>2. delivered[t][i] \in Answer /\ delivered[t][1] \in Answer
      BY <3>1, <1>1, ElementOfSeq DEF RuntimeTypeOK, n
    <3>3. delivered[t][i].at \in Nat /\ delivered[t][1].at \in Nat
      BY <3>2 DEF Answer
    <3>4. delivered'[t][i] = delivered[t][i] /\ delivered'[t][1] = delivered[t][1]
      BY <2>1, <3>1, <1>1
    <3> QED
      BY <2>1, <3>1, <3>3, <3>4, <1>1, <1>4 DEF OneAnswer
  <2>2. Alike(n + 1)
    <3>1. CASE row.attempts < n + 1
      BY <3>1, <1>1, <1>4, <1>5 DEF n
    <3>2. CASE row.attempts = n + 1 /\ n = 0
      BY <3>2, <1>1, <1>4, <1>5 DEF n
    <3>3. CASE row.attempts = n + 1 /\ n > 0
      <4>1. 1 \in 1 .. n
        BY <3>3, <1>1
      <4> QED
        BY <3>3, <4>1, <1>1, <1>4, <1>5 DEF n
    <3> QED
      BY <3>1, <3>2, <3>3, <1>1, <1>4 DEF n
  <2>3. \A i \in DOMAIN delivered'[t] : Alike(i)
    <3>1. \A i \in DOMAIN delivered'[t] : i \in 1 .. n \/ i = n + 1
      BY <1>1
    <3> QED
      BY <3>1, <2>1, <2>2
  <2>4. ASSUME NEW u \in Tokens, NEW i \in DOMAIN delivered'[u], u # t
        PROVE  delivered'[u][i].at <= TokenExp[u] + Leeway =>
                 /\ delivered'[u][i].refs = delivered'[u][1].refs
                 /\ delivered'[u][i].versions = delivered'[u][1].versions
                 /\ delivered'[u][i].at <= delivered'[u][1].at + RetryWindow
    <3>1. delivered'[u] = delivered[u]
      BY <2>4, <1>1
    <3> QED
      BY <2>4, <3>1 DEF OneAnswer
  <2> QED
    BY <2>3, <2>4 DEF OneAnswer
<1>10. RecordOfFirst'
  <2>1. row.attempts = n + 1 =>
          /\ row.refs = delivered'[t][1].refs
          /\ row.versions = delivered'[t][1].versions
          /\ row.first = delivered'[t][1].at
    <3>1. CASE n = 0
      BY <3>1, <1>1, <1>5 DEF n
    <3>2. CASE n > 0
      <4>1. 1 \in 1 .. n
        BY <3>2, <1>1
      <4> QED
        BY <3>2, <4>1, <1>1 DEF n
    <3> QED
      BY <3>1, <3>2, <1>1
  <2> QED
    BY <2>1, <1>1, <1>2 DEF RecordOfFirst
<1> QED
  BY <1>6, <1>7, <1>8, <1>9, <1>10

\* A call that is under way holds a token and a request that may be made.
LEMMA CallFields ==
  ASSUME RuntimeInv, NEW c \in Callers, calls[c] # NoCall
  PROVE  calls[c].token \in Tokens /\ calls[c].refs \in References
<1>1. calls[c] \in Call
  BY DEF RuntimeInv, RuntimeTypeOK
<1> QED
  BY <1>1 DEF Call

\* No record, so no answer or a late one: the first use starts a new count.
LEMMA FirstAnswerInv ==
  ASSUME RuntimeInv, NEW c \in Callers, FirstAnswer(c)
  PROVE  RuntimeInv'
<1> DEFINE t == calls[c].token
           q == calls[c].refs
<1>1. /\ calls[c] # NoCall /\ records[t] = NoRecord
      /\ records' = [records EXCEPT ![t] = FirstRow(t, q)]
      /\ Deliver(t, q, Pinned(q))
      /\ calls' = [calls EXCEPT ![c] = NoCall]
      /\ UNCHANGED <<keyVars, accessVars>>
  BY DEF FirstAnswer, FirstRow, Pinned
<1>2. t \in Tokens /\ q \in References
  BY <1>1, CallFields
<1> HIDE DEF t, q
<1>3. Pinned(q) \in Answers
  BY KeyAssumption DEF RuntimeInv, AccessInv, KeyInv, TypeOK, KeyRow, Answers, Pinned
<1>4. TokenExp[t] + Leeway \in Nat /\ now \in Nat /\ UNCHANGED now
  BY <1>1, <1>2, RuntimeAssumption DEF RuntimeInv, AccessInv, KeyInv, TypeOK, keyVars
<1>5. FirstRow(t, q) \in Record
  BY <1>2, <1>3, <1>4 DEF Record, FirstRow
<1>6. AccessInv'
  BY <1>1, AccessNextInv DEF RuntimeInv
<1>7. calls' \in [Callers -> Call \cup {NoCall}]
  BY <1>1 DEF RuntimeInv, RuntimeTypeOK
<1>8. /\ FirstRow(t, q).attempts = 1 /\ FirstRow(t, q).first = now
      /\ FirstRow(t, q).expires = TokenExp[t] + Leeway
      /\ FirstRow(t, q).versions = Pinned(q) /\ FirstRow(t, q).refs = q
  BY DEF FirstRow
<1>9. Len(delivered[t]) \in Nat /\ (Len(delivered[t]) > 0 => TokenExp[t] + Leeway < now)
  BY <1>1, <1>2, LenProperties DEF RuntimeInv, RuntimeTypeOK, RecordTrue
<1>10. MaxAttempts \in Nat \ {0} /\ RetryWindow \in Nat
  BY RuntimeAssumption
<1> DEFINE row == FirstRow(t, q)
<1> HIDE DEF row
<1>11. /\ row \in Record /\ row.versions = Pinned(q) /\ row.expires = TokenExp[t] + Leeway
       /\ records' = [records EXCEPT ![t] = row]
       /\ row.refs = q /\ row.first = now /\ row.attempts = 1
  BY <1>1, <1>5, <1>8 DEF row
<1>12. /\ row.attempts > 0 /\ row.attempts <= Len(delivered[t]) + 1
       /\ row.attempts < Len(delivered[t]) + 1 => TokenExp[t] + Leeway < now
       /\ row.attempts = Len(delivered[t]) + 1 => Len(delivered[t]) = 0
       /\ Len(delivered[t]) = 0 => Len(delivered[t]) < MaxAttempts /\ ~(Len(delivered[t]) > 0)
       /\ now <= row.first + RetryWindow
  BY <1>4, <1>9, <1>10, <1>11
<1> QED
  BY <1>1, <1>2, <1>3, <1>4, <1>6, <1>7, <1>11, <1>12, AnswerInv

\* The pinned versions again, counted, for as long as the record permits.
LEMMA RetryAnswerInv ==
  ASSUME RuntimeInv, NEW c \in Callers, RetryAnswer(c)
  PROVE  RuntimeInv'
<1> DEFINE t == calls[c].token
           q == calls[c].refs
           r == records[t]
           row == [r EXCEPT !.attempts = @ + 1]
<1>1. /\ calls[c] # NoCall /\ r # NoRecord
      /\ r.refs = q /\ r.attempts < MaxAttempts /\ now <= r.first + RetryWindow
      /\ records' = [records EXCEPT ![t] = row]
      /\ Deliver(t, q, r.versions)
      /\ calls' = [calls EXCEPT ![c] = NoCall]
      /\ UNCHANGED <<keyVars, accessVars>>
  BY DEF RetryAnswer
<1>2. t \in Tokens /\ q \in References
  BY <1>1, CallFields
<1>3. r \in Record /\ r.versions \in Answers /\ r.attempts \in Nat
  BY <1>1, <1>2 DEF RuntimeInv, RuntimeTypeOK, Record
<1>4. row \in Record
  BY <1>3 DEF Record
<1>5. /\ row.attempts = r.attempts + 1 /\ row.first = r.first /\ row.expires = r.expires
      /\ row.versions = r.versions /\ row.refs = q
  BY <1>1, <1>3 DEF Record
<1>6. /\ r.attempts > 0 /\ r.expires = TokenExp[t] + Leeway
      /\ r.attempts = Len(delivered[t]) =>
           /\ r.refs = delivered[t][1].refs
           /\ r.versions = delivered[t][1].versions
           /\ r.first = delivered[t][1].at
  BY <1>1, <1>2 DEF RuntimeInv, RecordOfFirst
<1>7. /\ r.attempts <= Len(delivered[t])
      /\ r.attempts < Len(delivered[t]) => TokenExp[t] + Leeway < now
  BY <1>1, <1>2 DEF RuntimeInv, RecordTrue
<1>8. Len(delivered[t]) \in Nat /\ UNCHANGED now
  BY <1>1, <1>2, LenProperties DEF RuntimeInv, RuntimeTypeOK, keyVars
<1>9. AccessInv'
  BY <1>1, AccessNextInv DEF RuntimeInv
<1>10. calls' \in [Callers -> Call \cup {NoCall}]
  BY <1>1 DEF RuntimeInv, RuntimeTypeOK
<1> HIDE DEF t, q, r, row
<1>11. MaxAttempts \in Nat
  BY RuntimeAssumption
<1>12. /\ row.attempts > 0
       /\ row.attempts <= Len(delivered[t]) + 1
       /\ row.attempts < Len(delivered[t]) + 1 => r.attempts < Len(delivered[t])
       /\ row.attempts = Len(delivered[t]) + 1 =>
            r.attempts = Len(delivered[t]) /\ Len(delivered[t]) < MaxAttempts
       /\ r.attempts = Len(delivered[t]) => ~(Len(delivered[t]) = 0)
  BY <1>1, <1>3, <1>5, <1>6, <1>7, <1>8, <1>11
<1> QED
  BY <1>1, <1>2, <1>3, <1>4, <1>5, <1>6, <1>7, <1>8, <1>9, <1>10, <1>12, AnswerInv

\* A step that hands nothing out and only forgets outlived records.
LEMMA NothingHandedOut ==
  ASSUME RuntimeInv, AccessInv', UNCHANGED delivered, now' \in Nat, now <= now',
         calls' \in [Callers -> Call \cup {NoCall}],
         records' \in [Tokens -> Record \cup {NoRecord}],
         \A t \in Tokens : \/ records'[t] = records[t]
                           \/ /\ records[t] # NoRecord /\ records'[t] = NoRecord
                              /\ records[t].expires < now
  PROVE  RuntimeInv'
<1> USE DEF RuntimeInv
<1>1. RuntimeTypeOK'
  BY DEF RuntimeTypeOK, AccessInv, KeyInv
<1>2. AtMostCap' /\ OneAnswer'
  BY DEF AtMostCap, OneAnswer
<1>3. RecordOfFirst'
  BY DEF RecordOfFirst
<1>4. RecordTrue'
  <2>1. ASSUME NEW t \in Tokens
        PROVE  TokenExp[t] + Leeway < now => TokenExp[t] + Leeway < now'
    <3>1. TokenExp[t] + Leeway \in Nat /\ now \in Nat
      BY RuntimeAssumption DEF RuntimeTypeOK, TypeOK
    <3> QED
      BY <3>1
  <2>2. ASSUME NEW t \in Tokens, records'[t] = records[t]
        PROVE  IF records'[t] = NoRecord
               THEN Len(delivered'[t]) > 0 => TokenExp[t] + Leeway < now'
               ELSE /\ records'[t].attempts <= Len(delivered'[t])
                    /\ records'[t].attempts < Len(delivered'[t]) => TokenExp[t] + Leeway < now'
                    /\ delivered'[t][Len(delivered'[t])].versions = records'[t].versions
    BY <2>1, <2>2 DEF RecordTrue
  <2>3. ASSUME NEW t \in Tokens, records[t] # NoRecord, records'[t] = NoRecord,
               records[t].expires < now
        PROVE  TokenExp[t] + Leeway < now'
    BY <2>1, <2>3 DEF RecordOfFirst
  <2> QED
    BY <2>2, <2>3 DEF RecordTrue
<1> QED
  BY <1>1, <1>2, <1>3, <1>4

\* Handlers leave the clock alone.
LEMMA HandlersTakeNoTime ==
  ASSUME AccessNext
  PROVE  UNCHANGED now
<1>1. CASE AccessStep
  BY <1>1 DEF AccessStep, CreateTag, DeleteTag, SetKeyTags, PutPolicy, PatchPolicy, keyVars
<1>2. CASE KeyMutation \/ PutKeyAgain
  BY <1>2 DEF KeyMutation, PutKeyNew, PatchKey, DeleteKey, ActivateVersion, ExpireVersion,
              PutKeyAgain, PutKeyUnchanged, keyVars
<1> QED
  BY <1>1, <1>2 DEF AccessNext

\* Every step of the owner, of the callers, of the clean-up and of the clock.
LEMMA RuntimeNextInv ==
  ASSUME RuntimeInv, [RuntimeNext]_allVars
  PROVE  RuntimeInv'
<1>0. /\ now \in Nat /\ AccessInv
      /\ calls \in [Callers -> Call \cup {NoCall}]
      /\ records \in [Tokens -> Record \cup {NoRecord}]
  BY DEF RuntimeInv, RuntimeTypeOK, TypeOK
<1>1. ASSUME UNCHANGED <<keyVars, accessVars, records, delivered>>,
             calls' \in [Callers -> Call \cup {NoCall}]
      PROVE  RuntimeInv'
  <2>1. AccessInv'
    BY <1>0, <1>1, AccessNextInv
  <2>2. now' = now /\ records' = records /\ UNCHANGED delivered
    BY <1>1 DEF keyVars
  <2> QED
    BY <1>0, <1>1, <2>1, <2>2, NothingHandedOut
<1>2. ASSUME NEW c \in Callers, NEW t \in Tokens, NEW q \in References, Verify(c, t, q)
      PROVE  RuntimeInv'
  <2>1. [token |-> t, refs |-> q] \in Call
    BY DEF Call
  <2>2. /\ calls' = [calls EXCEPT ![c] = [token |-> t, refs |-> q]]
        /\ UNCHANGED <<keyVars, accessVars, records, delivered>>
    BY <1>2 DEF Verify
  <2>3. calls' \in [Callers -> Call \cup {NoCall}]
    BY <1>0, <2>1, <2>2
  <2> QED
    BY <1>1, <2>2, <2>3
<1>3. ASSUME NEW c \in Callers, Refuse(c)
      PROVE  RuntimeInv'
  BY <1>0, <1>1, <1>3 DEF Refuse
<1>4. CASE CleanRecords
  <2>1. AccessInv'
    BY <1>0, <1>4, KeysUnderRules DEF CleanRecords, KeyNext
  <2>2. now' = now /\ UNCHANGED <<calls, delivered>>
    BY <1>4 DEF CleanRecords, CleanIdempotency
  <2>3. records' = [t \in Tokens |-> IF records[t] # NoRecord /\ records[t].expires < now
                                     THEN NoRecord ELSE records[t]]
    BY <1>4 DEF CleanRecords
  <2>4. records' \in [Tokens -> Record \cup {NoRecord}]
    BY <1>0, <2>3
  <2> QED
    BY <1>0, <2>1, <2>2, <2>3, <2>4, NothingHandedOut
<1>5. CASE AccessNext /\ UNCHANGED runtimeVars
  <2>1. AccessInv'
    BY <1>0, <1>5, AccessNextInv
  <2>2. now' = now
    BY <1>5, HandlersTakeNoTime
  <2>3. UNCHANGED <<calls, records, delivered>>
    BY <1>5 DEF runtimeVars
  <2> QED
    BY <1>0, <2>1, <2>2, <2>3, NothingHandedOut
<1>6. CASE Tick /\ UNCHANGED <<accessVars, runtimeVars>>
  <2>1. AccessInv'
    BY <1>0, <1>6, KeysUnderRules DEF KeyNext
  <2>2. now' = now + 1
    BY <1>6 DEF Tick
  <2>3. UNCHANGED <<calls, records, delivered>>
    BY <1>6 DEF runtimeVars
  <2>4. now' \in Nat /\ now <= now'
    BY <1>0, <2>2
  <2> QED
    BY <1>0, <2>1, <2>3, <2>4, NothingHandedOut
<1>7. CASE UNCHANGED allVars
  BY <1>0, <1>1, <1>7 DEF allVars, runtimeVars
<1> QED
  BY <1>2, <1>3, <1>4, <1>5, <1>6, <1>7, FirstAnswerInv, RetryAnswerInv DEF RuntimeNext

---------------------------------------------------------------------------
\* The tables of a running workspace, its calls and its records keep their types.
THEOREM RuntimeTypeCorrect == RuntimeSpec => []RuntimeTypeOK
<1>1. RuntimeInv /\ [RuntimeNext]_allVars => RuntimeInv'
  BY RuntimeNextInv
<1>2. RuntimeInv => RuntimeTypeOK
  BY DEF RuntimeInv
<1> QED
  BY <1>1, <1>2, RuntimeInitInv, PTL DEF RuntimeSpec

\* However many calls and repeats there are, a token is answered MaxAttempts times at
\* most until it and its leeway are over, and the record knows of every answer.
THEOREM RetriesAreCapped == RuntimeSpec => []RetryCap
<1>1. RuntimeInv /\ [RuntimeNext]_allVars => RuntimeInv'
  BY RuntimeNextInv
<1>2. RuntimeInv => RetryCap
  BY DEF RuntimeInv, RetryCap
<1> QED
  BY <1>1, <1>2, RuntimeInitInv, PTL DEF RuntimeSpec

\* Until then every answer repeats the first: same request, same versions, in time.
THEOREM AnswersAgree == RuntimeSpec => []OneAnswer
<1>1. RuntimeInv /\ [RuntimeNext]_allVars => RuntimeInv'
  BY RuntimeNextInv
<1>2. RuntimeInv => OneAnswer
  BY DEF RuntimeInv
<1> QED
  BY <1>1, <1>2, RuntimeInitInv, PTL DEF RuntimeSpec

\* Callers and clean-up disturb nothing the owner's tables promise.
THEOREM RulesHoldAtRuntime == RuntimeSpec => [](ReferencesHold /\ NewestInForce /\ IdemOnce)
<1>1. RuntimeInv /\ [RuntimeNext]_allVars => RuntimeInv'
  BY RuntimeNextInv
<1>2. RuntimeInv => ReferencesHold /\ NewestInForce /\ IdemOnce
  BY DEF RuntimeInv, AccessInv, KeyInv
<1> QED
  BY <1>1, <1>2, RuntimeInitInv, PTL DEF RuntimeSpec

\* What Readable asks of a key is what AnswerStep says of an answer: the rule that
\* allows it is the last of its policy, because the newest rule is in force.
LEMMA ReadableMeans ==
  ASSUME RuntimeInv, NEW k \in Keys, NEW t \in Tokens, Readable(k, t)
  PROVE  /\ ~keys[k].disabled /\ ~keys[k].deleted
         /\ ~Expired(versions[k][keys[k].active])
         /\ \E p \in Policies :
              /\ ~policies[p].disabled
              /\ LET rule == specs[p][Len(specs[p])]
                 IN  TargetMatches(rule, k) /\ ClaimsMatch(rule, TokenClaims[t])
<1>1. ~keys[k].disabled /\ ~keys[k].deleted /\ ~Expired(versions[k][keys[k].active])
  BY DEF Readable, KeyExists, ActiveVersion
<1>2. PICK rule \in InForce : TargetMatches(rule, k) /\ ClaimsMatch(rule, TokenClaims[t])
  BY DEF Readable, Allowed
<1>3. PICK p \in Policies : ~policies[p].disabled /\ rule = specs[p][policies[p].active]
  BY <1>2 DEF InForce
<1>4. rule = specs[p][Len(specs[p])]
  BY <1>3 DEF RuntimeInv, AccessInv, NewestInForce
<1> QED
  BY <1>1, <1>2, <1>3, <1>4

\* Only the two answering steps lengthen a list, each after asking Readable.
LEMMA AnswerStepKept ==
  ASSUME RuntimeInv, [RuntimeNext]_allVars
  PROVE  AnswerStep
<1>1. ASSUME UNCHANGED delivered PROVE AnswerStep
  <2>1. \A t \in Tokens : Len(delivered[t]) \in Nat
    BY LenProperties DEF RuntimeInv, RuntimeTypeOK
  <2> QED
    BY <1>1, <2>1 DEF AnswerStep
<1>2. ASSUME NEW t \in Tokens, NEW q \in References, NEW answer \in Answers,
             Deliver(t, q, answer),
             \A k \in KeysOf(q) : Readable(k, t) /\ ~Expired(versions[k][answer[k]])
      PROVE  AnswerStep
  <2>1. /\ Len(delivered[t]) \in Nat /\ Len(delivered'[t]) = Len(delivered[t]) + 1
        /\ delivered'[t][Len(delivered[t]) + 1] = [at |-> now, refs |-> q, versions |-> answer]
        /\ \A u \in Tokens \ {t} : delivered'[u] = delivered[u]
    BY <1>2, DeliverEffect DEF RuntimeInv
  <2>2. KeysOf(q) \subseteq Keys
    BY RuntimeAssumption DEF KeysOf
  <2>3. \A u \in Tokens : Len(delivered'[u]) > Len(delivered[u]) => u = t
    <3>1. \A u \in Tokens : Len(delivered[u]) \in Nat
      BY LenProperties DEF RuntimeInv, RuntimeTypeOK
    <3> QED
      BY <2>1, <3>1
  <2>4. \A k \in KeysOf(q) :
          /\ ~keys[k].disabled /\ ~keys[k].deleted
          /\ ~Expired(versions[k][keys[k].active])
          /\ ~Expired(versions[k][answer[k]])
          /\ \E p \in Policies :
               /\ ~policies[p].disabled
               /\ LET rule == specs[p][Len(specs[p])]
                  IN  TargetMatches(rule, k) /\ ClaimsMatch(rule, TokenClaims[t])
    BY <1>2, <2>2, ReadableMeans
  <2>5. LET last == delivered'[t][Len(delivered'[t])] IN last.refs = q /\ last.versions = answer
    BY <2>1
  <2> QED
    BY <2>3, <2>4, <2>5 DEF AnswerStep
<1>3. ASSUME NEW c \in Callers, FirstAnswer(c)
      PROVE  AnswerStep
  <2> DEFINE t == calls[c].token
             q == calls[c].refs
  <2>1. calls[c] # NoCall /\ Deliver(t, q, Pinned(q)) /\ \A k \in KeysOf(q) : Readable(k, t)
    BY <1>3 DEF FirstAnswer, Pinned
  <2>2. t \in Tokens /\ q \in References
    BY <2>1, CallFields
  <2>3. Pinned(q) \in Answers
    BY KeyAssumption DEF RuntimeInv, AccessInv, KeyInv, TypeOK, KeyRow, Answers, Pinned
  <2>4. \A k \in KeysOf(q) : k \in Keys /\ Pinned(q)[k] = keys[k].active
    BY <2>2, RuntimeAssumption DEF KeysOf, Pinned
  <2>5. \A k \in KeysOf(q) : ~Expired(versions[k][Pinned(q)[k]])
    BY <2>1, <2>4 DEF Readable, ActiveVersion
  <2> HIDE DEF t, q
  <2> QED
    BY <1>2, <2>1, <2>2, <2>3, <2>5
<1>4. ASSUME NEW c \in Callers, RetryAnswer(c)
      PROVE  AnswerStep
  <2> DEFINE t == calls[c].token
             q == calls[c].refs
             r == records[t]
  <2>1. /\ calls[c] # NoCall /\ r # NoRecord /\ Deliver(t, q, r.versions)
        /\ \A k \in KeysOf(q) : Readable(k, t) /\ ~Expired(versions[k][r.versions[k]])
    BY <1>4 DEF RetryAnswer
  <2>2. t \in Tokens /\ q \in References
    BY <2>1, CallFields
  <2>3. r.versions \in Answers
    BY <2>1, <2>2 DEF RuntimeInv, RuntimeTypeOK, Record
  <2> HIDE DEF t, q, r
  <2> QED
    BY <1>2, <2>1, <2>2, <2>3
<1>5. UNCHANGED delivered \/ \E c \in Callers : FirstAnswer(c) \/ RetryAnswer(c)
  BY DEF RuntimeNext, Verify, Refuse, CleanRecords, allVars, runtimeVars
<1> QED
  BY <1>1, <1>3, <1>4, <1>5

\* Nothing is handed out that may not be read at that very moment, whatever was
\* revoked, rotated or expired since the call was verified.
THEOREM RevocationIsImmediate == RuntimeSpec => AnswerCurrent
<1>1. RuntimeInv /\ [RuntimeNext]_allVars => RuntimeInv' /\ AnswerStep
  BY RuntimeNextInv, AnswerStepKept
<1> QED
  BY <1>1, RuntimeInitInv, PTL DEF RuntimeSpec, AnswerCurrent

---------------------------------------------------------------------------
(***************************************************************************)
(* The client.  Every step of the composition is one of Runtime's or none, *)
(* so the theorems above hold of it.  Why the server takes none of its     *)
(* retries for a replay is a count and a sum: the record counts the        *)
(* attempts that were answered with values, of which the one still awaited *)
(* is none; and what the client may wait for each of its attempts and      *)
(* pauses adds up to less than the window.                                 *)
(***************************************************************************)
ClientRow == [state : {"new", "sent", "pause", "done", "failed"}, n : 0 .. Tries,
              since : 0 .. MaxTime, got : Answers]

\* The attempts of a token that were answered with values.
Served(t) == {n \in 1 .. Tries : replies[<<t, n>>].what = "values"}

CallsOwn ==
  \A c \in Callers : calls[c] # NoCall =>
    \E t \in Tokens, n \in 1 .. Tries : c = <<t, n>> /\ calls[c] = [token |-> t, refs |-> asked[t]]

AttemptsKept ==
  /\ arrived \in [Tokens -> SUBSET (1 .. Tries)]
  /\ replies \in [Callers -> [what : {Silence, "values", "busy", "denied"}, versions : Answers]]
  /\ \A t \in Tokens, n \in 1 .. Tries : replies[<<t, n>>].what # Silence => n \in arrived[t]

RequestKept ==
  \A t \in Tokens :
    IF records[t] = NoRecord THEN Served(t) = {}
    ELSE records[t].refs = asked[t] /\ records[t].attempts = Cardinality(Served(t))

FirstGiven ==
  \A t \in Tokens :
    /\ Served(t) # {} \/ client[t].state = "done" => Len(delivered[t]) > 0
    /\ \A n \in Served(t) : replies[<<t, n>>].versions = delivered[t][1].versions
    /\ client[t].state = "done" => client[t].got = delivered[t][1].versions

\* The longest an attempt and the pause after it take.
Round == ClientTimeout + MaxWait

Timely(c, r, at) ==
  /\ c.since <= at
  /\ c.state = "new" => c.n = 0
  /\ c.state = "sent" => c.n > 0 /\ at <= c.since + ClientTimeout
  /\ c.state = "pause" => c.n > 0 /\ c.n < Tries /\ at <= c.since + MaxWait
  /\ r # NoRecord =>
       /\ c.state = "sent" => c.since <= r.first + (c.n - 1) * Round
       /\ c.state = "pause" => c.since <= r.first + (c.n - 1) * Round + ClientTimeout

InTime == now <= MaxTime /\ \A t \in Tokens : Timely(client[t], records[t], now)

ClientInv ==
  RuntimeInv /\ ClientTypeOK /\ CallsOwn /\ AttemptsKept /\ RequestKept /\ FirstGiven /\ InTime

\* Numbers the proofs below compare.
LEMMA ClientNumbers ==
  ASSUME ClientInv, NEW t \in Tokens
  PROVE  /\ now \in Nat /\ MaxTime \in Nat /\ Tries \in Nat \ {0} /\ MaxAttempts \in Nat /\ Tries <= MaxAttempts
         /\ ClientTimeout \in Nat /\ MaxWait \in Nat /\ Round \in Nat /\ RetryWindow \in Nat
         /\ now <= MaxTime /\ TokenExp[t] + Leeway \in Nat /\ now < TokenExp[t] + Leeway
         /\ client \in [Tokens -> ClientRow]
         /\ client[t].n \in 0 .. Tries /\ client[t].since \in Nat
         /\ records[t] # NoRecord => records[t] \in Record /\ records[t].first \in Nat
         /\ \A n \in 1 .. Tries : <<t, n>> \in Callers
<1>1. now \in Nat /\ MaxTime \in Nat /\ client \in [Tokens -> ClientRow]
  BY KeyAssumption DEF ClientInv, ClientTypeOK, RuntimeTypeOK, TypeOK, ClientRow
<1>2. client[t].n \in 0 .. Tries /\ client[t].since \in Nat
  BY <1>1 DEF ClientRow
<1>3. records[t] # NoRecord => records[t] \in Record /\ records[t].first \in Nat
  BY DEF ClientInv, ClientTypeOK, RuntimeTypeOK, Record
<1>4. MaxAttempts \in Nat /\ Tries \in Nat \ {0} /\ Tries <= MaxAttempts
  BY RuntimeAssumption, ClientAssumption
<1>5. \A n \in 1 .. Tries : <<t, n>> \in Callers
  BY ClientAssumption
<1>6. /\ ClientTimeout \in Nat /\ MaxWait \in Nat /\ RetryWindow \in Nat /\ TokenExp[t] + Leeway \in Nat
      /\ Round \in Nat
  BY RuntimeAssumption, ClientAssumption DEF Round
<1>7. now <= MaxTime /\ now < TokenExp[t] + Leeway
  BY <1>1, <1>6, ClientAssumption DEF ClientInv, InTime
<1> QED
  BY <1>1, <1>2, <1>3, <1>4, <1>5, <1>6, <1>7

\* One round more, and never more rounds than tries.
LEMMA RoundsAdd ==
  ASSUME NEW n \in Nat, NEW x \in Nat
  PROVE  /\ (n + 1) * x = n * x + x /\ n * x \in Nat
         /\ \A m \in Nat : n <= m => n * x <= m * x
<1>1. (n + 1) * x = n * x + x /\ n * x \in Nat
  OBVIOUS
<1>2. ASSUME NEW m \in Nat, n <= m
      PROVE  n * x <= m * x
  <2>1. m = n + (m - n) /\ m - n \in Nat
    BY <1>2
  <2>2. m * x = n * x + (m - n) * x /\ (m - n) * x \in Nat
    BY <2>1
  <2> QED
    BY <1>1, <2>2
<1> QED
  BY <1>1, <1>2

\* Before anything was sent there is nothing to relate.
LEMMA ClientInitInv == ClientInit => ClientInv
<1> SUFFICES ASSUME ClientInit PROVE ClientInv
  OBVIOUS
<1>1. RuntimeInv
  BY RuntimeInitInv DEF ClientInit
<1>2. NoAnswer \in Answers
  BY KeyAssumption DEF NoAnswer, Answers
<1>3. /\ calls = [c \in Callers |-> NoCall] /\ records = [t \in Tokens |-> NoRecord] /\ now = 1
      /\ MaxTime \in Nat \ {0} /\ Tries \in Nat \ {0}
  BY KeyAssumption, RuntimeAssumption, ClientAssumption DEF ClientInit, RuntimeInit, KeyInit
<1>4. ClientTypeOK
  <2>1. \A t \in Tokens, n \in 1 .. Tries : calls[<<t, n>>] = NoCall
    BY <1>3, ClientAssumption
  <2>2. /\ client \in [Tokens -> ClientRow]
        /\ \A t \in Tokens : arrived[t] \subseteq 1 .. client[t].n
        /\ \A c \in Callers : replies[c].what \in {Silence, "values", "busy", "denied"}
    BY <1>2, <1>3 DEF ClientInit, ClientRow
  <2> QED
    BY <1>1, <2>1, <2>2 DEF ClientInit, ClientTypeOK, ClientRow, RuntimeInv
<1>5. CallsOwn /\ AttemptsKept
  BY <1>2, <1>3, ClientAssumption DEF ClientInit, CallsOwn, AttemptsKept
<1>6. \A t \in Tokens : Served(t) = {}
  BY ClientAssumption DEF ClientInit, Served, Silence
<1>7. RequestKept /\ FirstGiven
  BY <1>3, <1>6 DEF ClientInit, RequestKept, FirstGiven
<1>8. InTime
  BY <1>3 DEF ClientInit, InTime, Timely
<1> QED
  BY <1>1, <1>4, <1>5, <1>7, <1>8 DEF ClientInv

\* A step of the client is its own: it counts its attempts and watches the time.
LEMMA ClientMoves ==
  ASSUME ClientInv, NEW t \in Tokens, UNCHANGED <<allVars, asked, arrived, replies>>,
         client' \in [Tokens -> ClientRow],
         \A u \in Tokens \ {t} : client'[u] = client[u],
         client'[t].n \in client[t].n .. Tries,
         Timely(client'[t], records[t], now),
         client'[t].state = "done" => /\ Len(delivered[t]) > 0
                                      /\ client'[t].got = delivered[t][1].versions
  PROVE  ClientInv'
<1> USE DEF ClientInv
<1>0. UNCHANGED <<calls, records, delivered, now>>
  BY DEF allVars, runtimeVars, keyVars
<1>1. RuntimeInv'
  BY RuntimeNextInv
<1>2. ClientTypeOK'
  <2>1. \A u \in Tokens : arrived'[u] \subseteq 1 .. client'[u].n
    <3>1. client[t].n \in Nat /\ client'[t].n \in Nat /\ client[t].n <= client'[t].n
      BY ClientNumbers
    <3>2. arrived'[t] \subseteq 1 .. client'[t].n
      BY <3>1 DEF ClientTypeOK
    <3> QED
      BY <3>2 DEF ClientTypeOK
  <2> QED
    BY <1>0, <1>1, <2>1 DEF ClientTypeOK, ClientRow, RuntimeInv
<1>3. CallsOwn' /\ AttemptsKept'
  BY <1>0 DEF CallsOwn, AttemptsKept
<1>4. \A u \in Tokens : Served(u)' = Served(u)
  BY DEF Served
<1>5. RequestKept'
  BY <1>0, <1>4 DEF RequestKept
<1>6. FirstGiven'
  BY <1>0, <1>4 DEF FirstGiven
<1>7. InTime'
  BY <1>0 DEF InTime, Timely
<1> QED
  BY <1>1, <1>2, <1>3, <1>5, <1>6, <1>7

\* Whoever has a record has sent an attempt.
LEMMA RecordMeansSent ==
  ASSUME ClientInv, NEW t \in Tokens, records[t] # NoRecord
  PROVE  client[t].n > 0
<1>1. records[t].attempts > 0 /\ records[t].attempts = Cardinality(Served(t))
  BY DEF ClientInv, RuntimeInv, RecordOfFirst, RequestKept
<1>2. Served(t) # {}
  BY <1>1, FS_EmptySet
<1>3. \A n \in Served(t) : n \in arrived[t] /\ n \in Nat
  BY DEF ClientInv, AttemptsKept, Served, Silence
<1>4. \A n \in arrived[t] : n \in 1 .. client[t].n
  BY DEF ClientInv, ClientTypeOK
<1> QED
  BY <1>2, <1>3, <1>4, ClientNumbers

\* Begin and Resume: one attempt more, from now.
LEMMA SendInv ==
  ASSUME ClientInv, NEW t \in Tokens, Begin(t) \/ Resume(t)
  PROVE  ClientInv'
<1> DEFINE c == client[t]
           r == records[t]
<1>1. /\ Send(t) /\ UNCHANGED <<allVars, asked, arrived, replies>>
      /\ c.state = "new" \/ c.state = "pause"
  BY DEF Begin, Resume, Begun
<1>2. /\ c \in ClientRow /\ c.n \in 0 .. Tries - 1 /\ Timely(c, r, now)
  <2>1. c \in ClientRow /\ c.n \in 0 .. Tries /\ Tries \in Nat \ {0}
    BY ClientNumbers
  <2>2. Timely(c, r, now)
    BY DEF ClientInv, InTime
  <2> QED
    BY <1>1, <2>1, <2>2 DEF Timely
<1>3. /\ client' \in [Tokens -> ClientRow]
      /\ \A u \in Tokens \ {t} : client'[u] = client[u]
      /\ client'[t].state = "sent" /\ client'[t].n = c.n + 1 /\ client'[t].since = now
  <2>1. client \in [Tokens -> ClientRow] /\ now \in 0 .. MaxTime /\ c.n + 1 \in 0 .. Tries
    BY <1>2, ClientNumbers
  <2> QED
    BY <1>1, <1>2, <2>1 DEF Send, ClientRow
<1>4. r # NoRecord => now <= r.first + c.n * Round
  <2> SUFFICES ASSUME r # NoRecord PROVE now <= r.first + c.n * Round
    OBVIOUS
  <2>1. c.n > 0 /\ c.state = "pause"
    BY <1>1, <1>2, RecordMeansSent DEF Timely
  <2>2. /\ now <= c.since + MaxWait
        /\ c.since <= r.first + (c.n - 1) * Round + ClientTimeout
    BY <1>2, <2>1 DEF Timely
  <2>3. c.n - 1 \in Nat /\ Round \in Nat
    BY <1>2, <2>1, ClientNumbers
  <2>4. c.n * Round = (c.n - 1) * Round + Round /\ (c.n - 1) * Round \in Nat
    <3>1. c.n = (c.n - 1) + 1
      BY <1>2
    <3> QED
      BY <2>3, <3>1, RoundsAdd
  <2>5. /\ now \in Nat /\ r.first \in Nat /\ c.since \in Nat
        /\ ClientTimeout \in Nat /\ MaxWait \in Nat /\ Round = ClientTimeout + MaxWait
    BY ClientNumbers DEF Round
  <2> QED
    BY <2>2, <2>4, <2>5
<1>5. Timely(client'[t], r, now)
  <2>1. now \in Nat /\ ClientTimeout \in Nat /\ (c.n + 1) - 1 = c.n /\ c.n + 1 > 0
    BY <1>2, ClientNumbers
  <2> QED
    BY <1>3, <1>4, <2>1 DEF Timely
<1>6. client'[t].n \in client[t].n .. Tries
  BY <1>2, <1>3, ClientNumbers
<1> QED
  BY <1>1, <1>3, <1>5, <1>6, ClientMoves

\* GiveUp, and an answer that asks for patience: a pause, or the end.
LEMMA AgainInv ==
  ASSUME ClientInv, NEW t \in Tokens, client[t].state = "sent", Again(t),
         UNCHANGED <<allVars, asked, arrived, replies>>
  PROVE  ClientInv'
<1> DEFINE c == client[t]
           r == records[t]
<1>1. c \in ClientRow /\ c.n \in 0 .. Tries /\ Timely(c, r, now)
  BY ClientNumbers DEF ClientInv, InTime
<1>2. /\ client' \in [Tokens -> ClientRow]
      /\ \A u \in Tokens \ {t} : client'[u] = client[u]
      /\ client'[t].n = c.n
      /\ \/ client'[t].state = "pause" /\ c.n < Tries /\ client'[t].since = now
         \/ client'[t].state = "failed" /\ client'[t].since = 0
  <2>1. client \in [Tokens -> ClientRow] /\ {now, 0} \subseteq 0 .. MaxTime
    BY ClientNumbers
  <2> QED
    BY <1>1, <2>1 DEF Again, ClientRow
<1>3. Timely(client'[t], r, now)
  <2>1. /\ now \in Nat /\ c.since \in Nat /\ ClientTimeout \in Nat /\ MaxWait \in Nat
        /\ c.n > 0 /\ now <= c.since + ClientTimeout
    BY <1>1, ClientNumbers DEF Timely
  <2>2. r # NoRecord => now <= r.first + (c.n - 1) * Round + ClientTimeout
    <3> SUFFICES ASSUME r # NoRecord PROVE now <= r.first + (c.n - 1) * Round + ClientTimeout
      OBVIOUS
    <3>1. c.since <= r.first + (c.n - 1) * Round
      BY <1>1 DEF Timely
    <3>2. r.first \in Nat /\ c.n - 1 \in Nat /\ Round \in Nat
      BY <1>1, <2>1, ClientNumbers
    <3>3. (c.n - 1) * Round \in Nat
      BY <3>2, RoundsAdd
    <3> QED
      BY <2>1, <3>1, <3>2, <3>3
  <2> QED
    BY <1>2, <2>1, <2>2 DEF Timely
<1>4. client'[t].n \in client[t].n .. Tries /\ client'[t].state # "done"
  BY <1>1, <1>2
<1> QED
  BY <1>2, <1>3, <1>4, ClientMoves

\* Spoilt: the step fails at once.
LEMMA SpoiltInv ==
  ASSUME ClientInv, NEW t \in Tokens, Spoilt(t)
  PROVE  ClientInv'
<1>1. client[t] \in ClientRow /\ client[t].n \in 0 .. Tries /\ client \in [Tokens -> ClientRow]
  BY ClientNumbers
<1>2. /\ client' \in [Tokens -> ClientRow]
      /\ \A u \in Tokens \ {t} : client'[u] = client[u]
      /\ client'[t].n = client[t].n /\ client'[t].state = "failed" /\ client'[t].since = 0
  <2>1. 0 \in 0 .. MaxTime
    BY ClientNumbers
  <2> QED
    BY <1>1, <2>1 DEF Spoilt, ClientRow
<1>3. Timely(client'[t], records[t], now)
  BY <1>2, ClientNumbers DEF Timely
<1>4. client'[t].n \in client[t].n .. Tries
  BY <1>1, <1>2
<1> QED
  BY <1>2, <1>3, <1>4, ClientMoves DEF Spoilt

\* Receive: what comes is what was answered to the attempt that is awaited.
LEMMA ReceiveInv ==
  ASSUME ClientInv, NEW t \in Tokens, Receive(t)
  PROVE  ClientInv'
<1> DEFINE c == client[t]
           reply == replies[<<t, c.n>>]
<1>1. c.state = "sent" /\ UNCHANGED <<allVars, asked, arrived, replies>>
  BY DEF Receive
<1>2. c \in ClientRow /\ c.n \in 1 .. Tries /\ <<t, c.n>> \in Callers
  <2>1. c \in ClientRow /\ c.n \in 0 .. Tries /\ c.n > 0
    BY <1>1, ClientNumbers DEF ClientInv, InTime, Timely
  <2> QED
    BY <2>1, ClientNumbers
<1>3. ASSUME NEW got \in Answers, NEW st \in {"done", "failed"},
             \/ client' = [client EXCEPT ![t].state = st, ![t].since = 0, ![t].got = got]
             \/ client' = [client EXCEPT ![t].state = st, ![t].since = 0] /\ st = "failed",
             st = "done" => Len(delivered[t]) > 0 /\ got = delivered[t][1].versions
      PROVE  ClientInv'
  <2>1. /\ client' \in [Tokens -> ClientRow]
        /\ \A u \in Tokens \ {t} : client'[u] = client[u]
        /\ client'[t].n = c.n /\ client'[t].state = st /\ client'[t].since = 0
        /\ st = "done" => client'[t].got = got
    <3>1. client \in [Tokens -> ClientRow] /\ 0 \in 0 .. MaxTime
      BY ClientNumbers
    <3> QED
      BY <1>2, <1>3, <3>1 DEF ClientRow
  <2>2. Timely(client'[t], records[t], now)
    BY <2>1, ClientNumbers DEF Timely
  <2>3. client'[t].n \in client[t].n .. Tries
    BY <1>2, <2>1
  <2> QED
    BY <1>1, <1>3, <2>1, <2>2, <2>3, ClientMoves
<1>4. CASE reply.what = "values" /\ client' = [client EXCEPT ![t].state = "done", ![t].since = 0,
                                                           ![t].got = reply.versions]
  <2>1. reply.versions \in Answers
    BY <1>2 DEF ClientInv, AttemptsKept
  <2>2. c.n \in Served(t)
    BY <1>2, <1>4 DEF Served
  <2>3. Len(delivered[t]) > 0 /\ reply.versions = delivered[t][1].versions
    BY <2>2 DEF ClientInv, FirstGiven
  <2> HIDE DEF reply
  <2> QED
    BY <1>3, <1>4, <2>1, <2>3
<1>5. CASE reply.what = "busy" /\ Again(t)
  BY <1>1, <1>5, AgainInv
<1>6. CASE reply.what = "denied" /\ client' = [client EXCEPT ![t].state = "failed", ![t].since = 0]
  <2>1. NoAnswer \in Answers
    BY KeyAssumption DEF NoAnswer, Answers
  <2> QED
    BY <1>3, <1>6, <2>1
<1> QED
  BY <1>4, <1>5, <1>6 DEF Receive

\* An attempt reaches the server, which verifies it or turns it away.
LEMMA ArriveInv ==
  ASSUME ClientInv, NEW t \in Tokens, NEW n \in 1 .. client[t].n,
         Arrive(t, n) \/ \E w \in {"busy", "denied"} : Rebuff(t, n, w)
  PROVE  ClientInv'
<1> USE DEF ClientInv
<1> DEFINE c == <<t, n>>
<1>1. /\ n \in 1 .. Tries /\ c \in Callers /\ n \notin arrived[t]
      /\ arrived' = [arrived EXCEPT ![t] = @ \cup {n}]
      /\ UNCHANGED <<client, asked, keyVars, accessVars, records, delivered>>
  <2>1. n \in 1 .. Tries
    BY ClientNumbers
  <2>2. c \in Callers
    BY <2>1, ClientNumbers
  <2> QED
    BY <2>1, <2>2 DEF Arrive, Rebuff, Verify, allVars, runtimeVars
<1>2. replies[c].what = Silence /\ calls[c] = NoCall
  BY <1>1 DEF AttemptsKept, ClientTypeOK
<1>3. /\ \/ calls' = calls
         \/ calls' = [calls EXCEPT ![c] = [token |-> t, refs |-> asked[t]]] /\ replies' = replies
      /\ \/ replies' = replies
         \/ calls' = calls /\ \E w \in {"busy", "denied"} : replies' = [replies EXCEPT ![c].what = w]
  BY DEF Arrive, Rebuff, Verify, allVars, runtimeVars
<1>4. /\ asked[t] \in References /\ calls \in [Callers -> Call \cup {NoCall}]
      /\ replies \in [Callers -> [what : {Silence, "values", "busy", "denied"}, versions : Answers]]
      /\ arrived \in [Tokens -> SUBSET (1 .. Tries)]
  BY DEF ClientTypeOK, RuntimeTypeOK, AttemptsKept
<1>5. /\ replies' \in [Callers -> [what : {Silence, "values", "busy", "denied"}, versions : Answers]]
      /\ \A d \in Callers \ {c} : replies'[d] = replies[d] /\ calls'[d] = calls[d]
      /\ replies'[c].what \in {Silence, "busy", "denied"}
      /\ calls'[c] # NoCall => calls'[c] = [token |-> t, refs |-> asked[t]] /\ replies'[c].what = Silence
  BY <1>1, <1>2, <1>3, <1>4
<1>6. /\ arrived' \in [Tokens -> SUBSET (1 .. Tries)]
      /\ arrived'[t] = arrived[t] \cup {n}
      /\ \A u \in Tokens \ {t} : arrived'[u] = arrived[u]
  BY <1>1, <1>4
<1>7. RuntimeInv'
  <2>1. [RuntimeNext]_allVars
    BY <1>1, <1>4 DEF Arrive, Rebuff, RuntimeNext
  <2> QED
    BY <2>1, RuntimeNextInv
<1>8. \A u \in Tokens, m \in 1 .. Tries : /\ <<u, m>> \in Callers
                                          /\ <<u, m>> # c \/ (u = t /\ m = n)
  BY ClientNumbers
<1>9. ClientTypeOK'
  <2>1. \A u \in Tokens : arrived'[u] \subseteq 1 .. client'[u].n
    BY <1>1, <1>6 DEF ClientTypeOK
  <2>2. \A u \in Tokens, m \in 1 .. Tries :
          calls'[<<u, m>>] # NoCall => m \in arrived'[u] /\ replies'[<<u, m>>].what = Silence
    <3> SUFFICES ASSUME NEW u \in Tokens, NEW m \in 1 .. Tries, calls'[<<u, m>>] # NoCall
                 PROVE  m \in arrived'[u] /\ replies'[<<u, m>>].what = Silence
      OBVIOUS
    <3>1. CASE u = t /\ m = n
      BY <1>1, <1>5, <1>6, <3>1
    <3>2. CASE <<u, m>> # c
      <4>1. calls[<<u, m>>] # NoCall /\ replies'[<<u, m>>] = replies[<<u, m>>]
        BY <1>5, <1>8, <3>2
      <4>2. m \in arrived[u] /\ replies[<<u, m>>].what = Silence
        BY <4>1 DEF ClientTypeOK
      <4> QED
        BY <1>6, <4>1, <4>2
    <3> QED
      BY <1>8, <3>1, <3>2
  <2> QED
    BY <1>1, <1>5, <1>7, <2>1, <2>2 DEF ClientTypeOK, RuntimeInv
<1>10. CallsOwn'
  BY <1>1, <1>5 DEF CallsOwn
<1>11. AttemptsKept'
  BY <1>1, <1>5, <1>6, <1>8 DEF AttemptsKept
<1>12. \A u \in Tokens : Served(u)' = Served(u)
  BY <1>1, <1>2, <1>5, <1>8 DEF Served, Silence
<1>13. RequestKept'
  BY <1>1, <1>12 DEF RequestKept
<1>14. FirstGiven'
  <2>1. \A u \in Tokens : \A m \in Served(u) : replies'[<<u, m>>] = replies[<<u, m>>]
    BY <1>1, <1>2, <1>5, <1>8 DEF Served, Silence
  <2> QED
    BY <1>1, <1>12, <2>1 DEF FirstGiven
<1>15. InTime'
  BY <1>1 DEF InTime, Timely, keyVars
<1> QED
  BY <1>7, <1>9, <1>10, <1>11, <1>13, <1>14, <1>15

\* What is under way for an attempt is its own token's request.
LEMMA CallOfAttempt ==
  ASSUME ClientInv, NEW c \in Callers, calls[c] # NoCall
  PROVE  \E t \in Tokens, n \in 1 .. Tries :
           /\ c = <<t, n>> /\ n \in arrived[t] /\ replies[c].what = Silence
           /\ calls[c].token = t /\ calls[c].refs = asked[t]
<1>1. PICK t \in Tokens, n \in 1 .. Tries : c = <<t, n>> /\ calls[c] = [token |-> t, refs |-> asked[t]]
  BY DEF ClientInv, CallsOwn
<1>2. n \in arrived[t] /\ replies[c].what = Silence
  BY <1>1 DEF ClientInv, ClientTypeOK
<1> QED
  BY <1>1, <1>2

\* A call ends: what that does to the calls and the replies alone.
LEMMA CallEnds ==
  ASSUME ClientInv, RuntimeInv', NEW t \in Tokens, NEW n \in 1 .. Tries,
         n \in arrived[t], replies[<<t, n>>].what = Silence,
         NEW reply \in [what : {"values", "busy", "denied"}, versions : Answers],
         replies' \in [Callers -> [what : {Silence, "values", "busy", "denied"}, versions : Answers]],
         calls'[<<t, n>>] = NoCall, replies'[<<t, n>>] = reply,
         \A d \in Callers \ {<<t, n>>} : replies'[d] = replies[d] /\ calls'[d] = calls[d],
         client' = client, asked' = asked, arrived' = arrived
  PROVE  /\ ClientTypeOK' /\ CallsOwn' /\ AttemptsKept'
         /\ replies'[<<t, n>>] = reply
         /\ \A u \in Tokens : \A m \in Served(u) : replies'[<<u, m>>] = replies[<<u, m>>]
         /\ \A u \in Tokens \ {t} : Served(u)' = Served(u)
         /\ n \notin Served(t)
         /\ reply.what = "values" => Served(t)' = Served(t) \cup {n}
         /\ reply.what # "values" => Served(t)' = Served(t)
<1> USE DEF ClientInv
<1> DEFINE c == <<t, n>>
<1>1. \A u \in Tokens, m \in 1 .. Tries : /\ <<u, m>> \in Callers
                                          /\ <<u, m>> # c \/ (u = t /\ m = n)
  BY ClientNumbers
<1>2. /\ c \in Callers /\ replies'[c] = reply /\ calls'[c] = NoCall
      /\ \A d \in Callers \ {c} : replies'[d] = replies[d] /\ calls'[d] = calls[d]
  BY <1>1
<1>3. ClientTypeOK'
  <2>1. \A u \in Tokens, m \in 1 .. Tries :
          calls'[<<u, m>>] # NoCall => m \in arrived'[u] /\ replies'[<<u, m>>].what = Silence
    BY <1>1, <1>2 DEF ClientTypeOK
  <2> QED
    BY <1>2, <2>1 DEF ClientTypeOK, RuntimeInv
<1>4. CallsOwn'
  BY <1>2 DEF CallsOwn
<1>5. AttemptsKept'
  BY <1>1, <1>2 DEF AttemptsKept
<1>6. n \notin Served(t) /\ \A u \in Tokens : \A m \in Served(u) : <<u, m>> \in Callers \ {c}
  BY <1>1 DEF Served, Silence
<1>7. /\ \A u \in Tokens \ {t} : Served(u)' = Served(u)
      /\ reply.what = "values" => Served(t)' = Served(t) \cup {n}
      /\ reply.what # "values" => Served(t)' = Served(t)
  BY <1>1, <1>2, <1>6 DEF Served
<1> QED
  BY <1>2, <1>3, <1>4, <1>5, <1>6, <1>7

\* The end of a call that hands nothing out.
LEMMA ServeRefuseInv ==
  ASSUME ClientInv, NEW c \in Callers, Refuse(c), NEW w \in {"busy", "denied"},
         replies' = [replies EXCEPT ![c].what = w], UNCHANGED <<client, asked, arrived>>
  PROVE  ClientInv'
<1> USE DEF ClientInv
<1>1. /\ calls[c] # NoCall /\ calls' = [calls EXCEPT ![c] = NoCall]
      /\ UNCHANGED <<keyVars, accessVars, records, delivered>>
  BY DEF Refuse
<1>2. PICK t \in Tokens, n \in 1 .. Tries :
           /\ c = <<t, n>> /\ n \in arrived[t] /\ replies[c].what = Silence
  BY <1>1, CallOfAttempt
<1>3. PICK reply : reply = [replies[c] EXCEPT !.what = w]
  OBVIOUS
<1>4. /\ reply \in [what : {"values", "busy", "denied"}, versions : Answers] /\ reply.what = w
      /\ replies' = [replies EXCEPT ![c] = reply]
  <2>1. /\ replies \in [Callers -> [what : {Silence, "values", "busy", "denied"}, versions : Answers]]
        /\ replies[c].versions \in Answers
    BY DEF AttemptsKept
  <2> QED
    BY <1>3, <2>1
<1>5. RuntimeInv'
  <2>1. [RuntimeNext]_allVars
    BY DEF RuntimeNext
  <2> QED
    BY <2>1, RuntimeNextInv
<1>6. /\ ClientTypeOK' /\ CallsOwn' /\ AttemptsKept'
      /\ \A u \in Tokens : \A m \in Served(u) : replies'[<<u, m>>] = replies[<<u, m>>]
      /\ \A u \in Tokens : Served(u)' = Served(u)
  <2>1. /\ calls'[<<t, n>>] = NoCall /\ replies'[<<t, n>>] = reply
        /\ \A d \in Callers \ {<<t, n>>} : replies'[d] = replies[d] /\ calls'[d] = calls[d]
        /\ replies' \in [Callers -> [what : {Silence, "values", "busy", "denied"}, versions : Answers]]
        /\ n \in arrived[t] /\ replies[<<t, n>>].what = Silence /\ reply.what # "values"
    <3>1. calls \in [Callers -> Call \cup {NoCall}] /\ <<t, n>> \in Callers
      BY <1>2 DEF ClientTypeOK, RuntimeTypeOK
    <3>2. calls'[<<t, n>>] = NoCall /\ \A d \in Callers \ {<<t, n>>} : calls'[d] = calls[d]
      BY <1>1, <1>2, <3>1
    <3>3. replies \in [Callers -> [what : {Silence, "values", "busy", "denied"}, versions : Answers]]
      BY DEF AttemptsKept
    <3>4. reply \in [what : {Silence, "values", "busy", "denied"}, versions : Answers]
      BY <1>4
    <3>5. /\ replies'[<<t, n>>] = reply /\ \A d \in Callers \ {<<t, n>>} : replies'[d] = replies[d]
          /\ replies' \in [Callers -> [what : {Silence, "values", "busy", "denied"}, versions : Answers]]
      <4>1. c = <<t, n>> /\ c \in Callers /\ replies' = [replies EXCEPT ![c] = reply]
        BY <1>2, <1>4
      <4>2. replies'[c] = reply /\ \A d \in Callers \ {c} : replies'[d] = replies[d]
        BY <3>3, <4>1
      <4>3. replies' \in [Callers -> [what : {Silence, "values", "busy", "denied"}, versions : Answers]]
        BY <3>3, <3>4, <4>1
      <4> QED
        BY <4>1, <4>2, <4>3
    <3>6. reply.what # "values"
      BY <1>4
    <3> QED
      BY <1>2, <3>2, <3>5, <3>6
  <2> HIDE DEF ClientInv
  <2>2. /\ ClientTypeOK' /\ CallsOwn' /\ AttemptsKept'
        /\ \A u \in Tokens : \A m \in Served(u) : replies'[<<u, m>>] = replies[<<u, m>>]
        /\ \A u \in Tokens \ {t} : Served(u)' = Served(u)
        /\ Served(t)' = Served(t)
    BY <1>4, <1>5, <2>1, CallEnds
  <2> QED
    BY <2>1, <2>2
<1>7. RequestKept' /\ FirstGiven'
  BY <1>1, <1>6 DEF RequestKept, FirstGiven
<1>8. InTime'
  BY <1>1 DEF InTime, Timely, keyVars
<1> QED
  BY <1>5, <1>6, <1>7, <1>8

\* The end of a call that hands out: the record counts one attempt more, and what
\* goes out is what went out first.
LEMMA ServeAnswerInv ==
  ASSUME ClientInv, NEW t \in Tokens, NEW n \in 1 .. Tries, NEW answer \in Answers, NEW row \in Record,
         RuntimeInv', n \in arrived[t], replies[<<t, n>>].what = Silence,
         Deliver(t, asked[t], answer),
         records'[t] = row, \A u \in Tokens \ {t} : records'[u] = records[u],
         row.refs = asked[t], row.attempts = Cardinality(Served(t)) + 1,
         row.first = now \/ (records[t] # NoRecord /\ row.first = records[t].first),
         NEW reply \in [what : {"values", "busy", "denied"}, versions : Answers],
         reply.what = "values", reply.versions = answer,
         replies' \in [Callers -> [what : {Silence, "values", "busy", "denied"}, versions : Answers]],
         calls'[<<t, n>>] = NoCall, replies'[<<t, n>>] = reply,
         \A d \in Callers \ {<<t, n>>} : replies'[d] = replies[d] /\ calls'[d] = calls[d],
         now' = now, client' = client, asked' = asked, arrived' = arrived
  PROVE  ClientInv'
<1> USE DEF ClientInv
<1>1. RuntimeInv'
  OBVIOUS
<1>2. /\ Len(delivered[t]) \in Nat /\ Len(delivered'[t]) = Len(delivered[t]) + 1
      /\ DOMAIN delivered[t] = 1 .. Len(delivered[t])
      /\ DOMAIN delivered'[t] = 1 .. Len(delivered[t]) + 1
      /\ \A i \in DOMAIN delivered[t] : delivered'[t][i] = delivered[t][i]
      /\ delivered'[t][Len(delivered[t]) + 1] = [at |-> now, refs |-> asked[t], versions |-> answer]
      /\ \A u \in Tokens \ {t} : delivered'[u] = delivered[u]
  <2>1. asked[t] \in References
    BY DEF ClientTypeOK
  <2> QED
    BY <2>1, DeliverEffect DEF ClientTypeOK
<1>3. answer = delivered'[t][1].versions
  <2>1. Len(delivered[t]) + 1 \in DOMAIN delivered'[t] /\ now <= TokenExp[t] + Leeway
    BY <1>2, ClientNumbers
  <2>2. \A i \in DOMAIN delivered'[t] :
          delivered'[t][i].at <= TokenExp[t] + Leeway =>
            delivered'[t][i].versions = delivered'[t][1].versions
    BY <1>1 DEF RuntimeInv, OneAnswer
  <2>3. /\ delivered'[t][Len(delivered[t]) + 1].at = now
        /\ delivered'[t][Len(delivered[t]) + 1].versions = answer
    BY <1>2
  <2> QED
    BY <2>1, <2>2, <2>3
<1>6. /\ ClientTypeOK' /\ CallsOwn' /\ AttemptsKept'
      /\ replies'[<<t, n>>] = reply
      /\ \A u \in Tokens : \A m \in Served(u) : replies'[<<u, m>>] = replies[<<u, m>>]
      /\ \A u \in Tokens \ {t} : Served(u)' = Served(u)
      /\ n \notin Served(t) /\ Served(t)' = Served(t) \cup {n}
  <2> HIDE DEF ClientInv
  <2> QED
    BY <1>1, CallEnds
<1>7. /\ IsFiniteSet(Served(t)) /\ Cardinality(Served(t)) \in Nat
      /\ Cardinality(Served(t) \cup {n}) = Cardinality(Served(t)) + 1
      /\ records'[t] = row /\ row # NoRecord
      /\ \A u \in Tokens \ {t} : records'[u] = records[u]
  <2>1. IsFiniteSet(1 .. Tries)
    BY ClientNumbers, FS_Interval
  <2>2. IsFiniteSet(Served(t))
    BY <2>1, FS_Subset DEF Served
  <2>3. /\ Cardinality(Served(t)) \in Nat
        /\ Cardinality(Served(t) \cup {n}) = Cardinality(Served(t)) + 1
    BY <1>6, <2>2, FS_AddElement, FS_CardinalityType
  <2>4. row # NoRecord
    <3>1. row.attempts # 0
      BY <2>3
    <3> QED
      BY <3>1 DEF NoRecord
  <2> QED
    BY <2>2, <2>3, <2>4
<1>8. RequestKept'
  <2>1. row.refs = asked'[t] /\ row.attempts = Cardinality(Served(t)')
    BY <1>6, <1>7
  <2>2. ASSUME NEW u \in Tokens \ {t}
        PROVE  IF records'[u] = NoRecord THEN Served(u)' = {}
               ELSE records'[u].refs = asked'[u] /\ records'[u].attempts = Cardinality(Served(u)')
    BY <1>6, <1>7 DEF RequestKept
  <2>3. IF records'[t] = NoRecord THEN Served(t)' = {}
        ELSE records'[t].refs = asked'[t] /\ records'[t].attempts = Cardinality(Served(t)')
    BY <1>7, <2>1
  <2>4. ASSUME NEW u \in Tokens
        PROVE  IF records'[u] = NoRecord THEN Served(u)' = {}
               ELSE records'[u].refs = asked'[u] /\ records'[u].attempts = Cardinality(Served(u)')
    BY <2>2, <2>3
  <2> QED
    BY <2>4 DEF RequestKept
<1>9. FirstGiven'
  <2>1. Len(delivered[t]) > 0 => delivered'[t][1] = delivered[t][1]
    BY <1>2
  <2>2. ASSUME NEW m \in Served(t) \cup {n}
        PROVE  replies'[<<t, m>>].versions = delivered'[t][1].versions
    <3>1. CASE m = n
      BY <1>3, <1>6, <3>1
    <3>2. CASE m \in Served(t)
      BY <1>6, <2>1, <3>2 DEF FirstGiven
    <3> QED
      BY <3>1, <3>2
  <2>3. /\ Len(delivered'[t]) > 0
        /\ client'[t].state = "done" => client'[t].got = delivered'[t][1].versions
    BY <1>2, <2>1 DEF FirstGiven
  <2>4. ASSUME NEW u \in Tokens \ {t}
        PROVE  /\ Served(u)' # {} \/ client'[u].state = "done" => Len(delivered'[u]) > 0
               /\ \A m \in Served(u)' : replies'[<<u, m>>].versions = delivered'[u][1].versions
               /\ client'[u].state = "done" => client'[u].got = delivered'[u][1].versions
    BY <1>2, <1>6 DEF FirstGiven
  <2> QED
    BY <1>6, <2>2, <2>3, <2>4 DEF FirstGiven
<1>10. InTime'
  <2> DEFINE c == client[t]
  <2>1. /\ now \in Nat /\ c.since \in Nat /\ c.n \in Nat /\ ClientTimeout \in Nat /\ c.since <= now
        /\ c.state \in {"sent", "pause"} => c.n > 0
    BY ClientNumbers DEF InTime, Timely
  <2>2. c.n > 0 => (c.n - 1) * Round \in Nat
    <3>1. c.n > 0 => c.n - 1 \in Nat
      BY <2>1
    <3>2. Round \in Nat
      BY ClientNumbers
    <3> QED
      BY <3>1, <3>2, RoundsAdd
  <2>3. CASE row.first = now
    <3>1. Timely(c, row, now)
      BY <2>1, <2>2, <2>3 DEF InTime, Timely
    <3> QED
      BY <1>7, <3>1 DEF InTime, Timely, keyVars
  <2>4. CASE records[t] # NoRecord /\ row.first = records[t].first
    <3>1. Timely(c, row, now)
      BY <2>4 DEF InTime, Timely
    <3> QED
      BY <1>7, <3>1 DEF InTime, Timely, keyVars
  <2> QED
    BY <2>3, <2>4
<1> QED
  BY <1>1, <1>6, <1>8, <1>9, <1>10

\* An answering step: what it does to the attempt's call and reply.
LEMMA ReplyGiven ==
  ASSUME ClientInv, NEW t \in Tokens, NEW n \in 1 .. Tries, NEW answer \in Answers,
         Deliver(t, asked[t], answer), calls' = [calls EXCEPT ![<<t, n>>] = NoCall],
         replies' = [replies EXCEPT ![<<t, n>>] =
                       [what |-> "values", versions |-> delivered'[t][Len(delivered'[t])].versions]]
  PROVE  \E reply \in [what : {"values", "busy", "denied"}, versions : Answers] :
           /\ reply.what = "values" /\ reply.versions = answer
           /\ replies' \in [Callers -> [what : {Silence, "values", "busy", "denied"}, versions : Answers]]
           /\ calls'[<<t, n>>] = NoCall /\ replies'[<<t, n>>] = reply
           /\ \A d \in Callers \ {<<t, n>>} : replies'[d] = replies[d] /\ calls'[d] = calls[d]
<1> DEFINE reply == [what |-> "values", versions |-> answer]
<1>1. delivered'[t][Len(delivered'[t])].versions = answer
  <2>1. asked[t] \in References
    BY DEF ClientInv, ClientTypeOK
  <2>2. /\ Len(delivered'[t]) = Len(delivered[t]) + 1
        /\ delivered'[t][Len(delivered[t]) + 1] = [at |-> now, refs |-> asked[t], versions |-> answer]
    BY <2>1, DeliverEffect DEF ClientInv, ClientTypeOK
  <2> QED
    BY <2>2
<1>2. replies' = [replies EXCEPT ![<<t, n>>] = reply]
  BY <1>1
<1>3. /\ <<t, n>> \in Callers /\ calls \in [Callers -> Call \cup {NoCall}]
      /\ replies \in [Callers -> [what : {Silence, "values", "busy", "denied"}, versions : Answers]]
  BY ClientNumbers DEF ClientInv, ClientTypeOK, RuntimeTypeOK, AttemptsKept
<1>4. /\ reply \in [what : {"values", "busy", "denied"}, versions : Answers]
      /\ reply.what = "values" /\ reply.versions = answer
  OBVIOUS
<1> HIDE DEF reply
<1>5. /\ replies' \in [Callers -> [what : {Silence, "values", "busy", "denied"}, versions : Answers]]
      /\ calls'[<<t, n>>] = NoCall /\ replies'[<<t, n>>] = reply
      /\ \A d \in Callers \ {<<t, n>>} : replies'[d] = replies[d] /\ calls'[d] = calls[d]
  BY <1>2, <1>3, <1>4
<1> QED
  BY <1>4, <1>5

\* Every end of a call.
LEMMA ServeInv ==
  ASSUME ClientInv, NEW c \in Callers, Serve(c)
  PROVE  ClientInv'
<1>1. calls[c] # NoCall
  BY DEF Serve, Reply, FirstAnswer, RetryAnswer, Refuse
<1>2. PICK t \in Tokens, n \in 1 .. Tries :
           /\ c = <<t, n>> /\ n \in arrived[t] /\ replies[c].what = Silence
           /\ calls[c].token = t /\ calls[c].refs = asked[t]
  BY <1>1, CallOfAttempt
<1>3. asked[t] \in References /\ n \in arrived[t] /\ replies[<<t, n>>].what = Silence
  BY <1>2 DEF ClientInv, ClientTypeOK
<1> DEFINE Given == replies' = [replies EXCEPT ![c] =
                      [what |-> "values", versions |-> delivered'[t][Len(delivered'[t])].versions]]
<1>4. ASSUME FirstAnswer(c), Given PROVE ClientInv'
  <2>0. RuntimeInv'
    <3>1. [RuntimeNext]_allVars
      BY <1>4 DEF RuntimeNext
    <3> QED
      BY <3>1, RuntimeNextInv DEF ClientInv
  <2> DEFINE row == FirstRow(t, asked[t])
  <2>1. /\ records[t] = NoRecord
        /\ records' = [records EXCEPT ![t] = row]
        /\ Deliver(t, asked[t], Pinned(asked[t]))
        /\ calls' = [calls EXCEPT ![c] = NoCall]
        /\ UNCHANGED <<keyVars, accessVars>>
    BY <1>2, <1>4 DEF FirstAnswer, FirstRow, Pinned
  <2>2. Pinned(asked[t]) \in Answers
    BY KeyAssumption DEF ClientInv, RuntimeInv, AccessInv, KeyInv, TypeOK, KeyRow, Answers, Pinned
  <2>3. /\ row \in Record /\ row.refs = asked[t] /\ row.attempts = 1 /\ row.first = now
    BY <1>3, <2>2, ClientNumbers DEF Record, FirstRow
  <2>4. Cardinality(Served(t)) = 0
    BY <2>1, FS_EmptySet DEF ClientInv, RequestKept
  <2> HIDE DEF row
  <2>5. /\ row.attempts = Cardinality(Served(t)) + 1
        /\ records'[t] = row /\ \A u \in Tokens \ {t} : records'[u] = records[u]
    BY <2>1, <2>3, <2>4 DEF ClientInv, ClientTypeOK, RuntimeTypeOK
  <2>6. /\ replies' = [replies EXCEPT ![c] = [what |-> "values",
                          versions |-> delivered'[t][Len(delivered'[t])].versions]]
        /\ now' = now /\ client' = client /\ asked' = asked /\ arrived' = arrived
    BY <1>4, <2>1 DEF Serve, keyVars
  <2>7. PICK reply \in [what : {"values", "busy", "denied"}, versions : Answers] :
          /\ reply.what = "values" /\ reply.versions = Pinned(asked[t])
          /\ replies' \in [Callers -> [what : {Silence, "values", "busy", "denied"}, versions : Answers]]
          /\ calls'[<<t, n>>] = NoCall /\ replies'[<<t, n>>] = reply
          /\ \A d \in Callers \ {<<t, n>>} : replies'[d] = replies[d] /\ calls'[d] = calls[d]
    BY <1>2, <2>1, <2>2, <2>6, ReplyGiven
  <2> HIDE DEF Given
  <2> QED
    BY <1>3, <2>0, <2>1, <2>2, <2>3, <2>5, <2>6, <2>7, ServeAnswerInv
<1>5. ASSUME RetryAnswer(c), Given PROVE ClientInv'
  <2>0. RuntimeInv'
    <3>1. [RuntimeNext]_allVars
      BY <1>5 DEF RuntimeNext
    <3> QED
      BY <3>1, RuntimeNextInv DEF ClientInv
  <2> DEFINE r   == records[t]
             row == [r EXCEPT !.attempts = @ + 1]
  <2>1. /\ r # NoRecord /\ r.refs = asked[t]
        /\ records' = [records EXCEPT ![t].attempts = @ + 1]
        /\ Deliver(t, asked[t], r.versions)
        /\ calls' = [calls EXCEPT ![c] = NoCall]
        /\ UNCHANGED <<keyVars, accessVars>>
    BY <1>2, <1>5 DEF RetryAnswer
  <2>2. r \in Record /\ r.attempts = Cardinality(Served(t))
    BY <2>1, ClientNumbers DEF ClientInv, RequestKept
  <2>3. /\ row \in Record /\ row.refs = r.refs /\ row.attempts = r.attempts + 1 /\ row.first = r.first
        /\ r.versions \in Answers
    BY <2>2 DEF Record
  <2>4. records'[t] = row /\ \A u \in Tokens \ {t} : records'[u] = records[u]
    BY <2>1 DEF ClientInv, ClientTypeOK, RuntimeTypeOK
  <2> HIDE DEF r, row
  <2>5. /\ replies' = [replies EXCEPT ![c] = [what |-> "values",
                          versions |-> delivered'[t][Len(delivered'[t])].versions]]
        /\ now' = now /\ client' = client /\ asked' = asked /\ arrived' = arrived
    BY <1>5, <2>1 DEF Serve, keyVars
  <2>6. row.attempts = Cardinality(Served(t)) + 1 /\ row.refs = asked[t]
    BY <2>1, <2>2, <2>3
  <2>7. records[t] # NoRecord /\ row.first = records[t].first
    BY <2>1, <2>3 DEF r
  <2>8. PICK reply \in [what : {"values", "busy", "denied"}, versions : Answers] :
          /\ reply.what = "values" /\ reply.versions = r.versions
          /\ replies' \in [Callers -> [what : {Silence, "values", "busy", "denied"}, versions : Answers]]
          /\ calls'[<<t, n>>] = NoCall /\ replies'[<<t, n>>] = reply
          /\ \A d \in Callers \ {<<t, n>>} : replies'[d] = replies[d] /\ calls'[d] = calls[d]
    BY <1>2, <2>1, <2>3, <2>5, ReplyGiven
  <2> HIDE DEF Given
  <2> QED
    BY <1>3, <2>0, <2>1, <2>3, <2>4, <2>5, <2>6, <2>7, <2>8, ServeAnswerInv
<1>6. ASSUME Refuse(c), NEW w \in {"busy", "denied"}, replies' = [replies EXCEPT ![c].what = w]
      PROVE  ClientInv'
  BY <1>6, ServeRefuseInv DEF Serve
<1> QED
  BY <1>2, <1>4, <1>5, <1>6 DEF Serve, Reply

\* The clock, the clean-up and the owner: no record is old enough to be forgotten,
\* and time passes only while the client still waits.
LEMMA OthersInv ==
  ASSUME ClientInv, Others, UNCHANGED clientVars
  PROVE  ClientInv'
<1> USE DEF ClientInv
<1>1. UNCHANGED <<client, asked, arrived, replies>>
  BY DEF clientVars
<1>2. [RuntimeNext]_allVars
  BY DEF Others, RuntimeNext
<1>3. RuntimeInv'
  BY <1>2, RuntimeNextInv
<1>4. UNCHANGED <<calls, delivered>>
  BY DEF Others, CleanRecords, runtimeVars
<1>5. \A t \in Tokens : records'[t] = records[t]
  <2>1. CASE CleanRecords
    <3>1. \A t \in Tokens : records[t] # NoRecord => ~(records[t].expires < now)
      BY ClientNumbers DEF RuntimeInv, RecordOfFirst
    <3> QED
      BY <2>1, <3>1 DEF CleanRecords
  <2>2. CASE UNCHANGED runtimeVars
    BY <2>2 DEF runtimeVars
  <2> QED
    BY <2>1, <2>2 DEF Others
<1>6. \/ UNCHANGED now
      \/ now' = now + 1 /\ now < MaxTime /\ \A t \in Tokens : Patient(t)
  <2>1. CASE CleanRecords
    BY <2>1 DEF CleanRecords, CleanIdempotency
  <2>2. CASE AccessNext
    BY <2>2, HandlersTakeNoTime
  <2>3. CASE Tick /\ \A t \in Tokens : Patient(t)
    BY <2>3 DEF Tick
  <2> QED
    BY <2>1, <2>2, <2>3 DEF Others
<1>7. ClientTypeOK'
  BY <1>1, <1>3, <1>4 DEF ClientTypeOK, RuntimeInv
<1>8. CallsOwn' /\ AttemptsKept'
  BY <1>1, <1>4 DEF CallsOwn, AttemptsKept
<1>9. \A t \in Tokens : Served(t)' = Served(t)
  BY <1>1 DEF Served
<1>10. RequestKept' /\ FirstGiven'
  BY <1>1, <1>4, <1>5, <1>9 DEF RequestKept, FirstGiven
<1>11. InTime'
  <2>1. now' <= MaxTime
    <3>1. now \in Nat /\ MaxTime \in Nat /\ now <= MaxTime
      BY KeyAssumption DEF InTime, ClientTypeOK, RuntimeTypeOK, TypeOK
    <3> QED
      BY <1>6, <3>1
  <2>2. ASSUME NEW t \in Tokens
        PROVE  Timely(client[t], records[t], now')
    <3>1. Timely(client[t], records[t], now)
      BY DEF InTime
    <3>2. now \in Nat /\ client[t].since \in Nat /\ ClientTimeout \in Nat /\ MaxWait \in Nat
      BY ClientNumbers
    <3> QED
      BY <1>6, <3>1, <3>2 DEF Timely, Patient
  <2> QED
    BY <1>1, <1>5, <2>1, <2>2 DEF InTime, Timely
<1> QED
  BY <1>3, <1>7, <1>8, <1>10, <1>11

\* Every step of the composition.
LEMMA ClientNextInv ==
  ASSUME ClientInv, [ClientNext]_systemVars
  PROVE  ClientInv'
<1>1. CASE UNCHANGED systemVars
  <2>1. UNCHANGED <<allVars, now, calls, records, delivered, client, asked, arrived, replies>>
    BY <1>1 DEF systemVars, clientVars, allVars, runtimeVars, keyVars
  <2>2. RuntimeInv'
    BY <2>1, RuntimeNextInv DEF ClientInv
  <2>3. \A t \in Tokens : Served(t)' = Served(t)
    BY <2>1 DEF Served
  <2>4. ClientTypeOK' /\ CallsOwn' /\ AttemptsKept'
    BY <2>1, <2>2 DEF ClientInv, ClientTypeOK, CallsOwn, AttemptsKept, RuntimeInv
  <2>5. RequestKept' /\ FirstGiven'
    BY <2>1, <2>3 DEF ClientInv, RequestKept, FirstGiven
  <2>6. InTime'
    BY <2>1 DEF ClientInv, InTime, Timely
  <2> QED
    BY <2>2, <2>4, <2>5, <2>6 DEF ClientInv
<1>2. ASSUME NEW t \in Tokens, GiveUp(t)
      PROVE  ClientInv'
  BY <1>2, AgainInv DEF GiveUp
<1> QED
  BY <1>1, <1>2, SpoiltInv, SendInv, ReceiveInv, ArriveInv, ServeInv, OthersInv DEF ClientNext

\* So attempts and record agree at all times.
LEMMA ClientAlways == ClientSpec => []ClientInv
  BY ClientInitInv, ClientNextInv, PTL DEF ClientSpec

\* What the client does to the server is what Runtime's callers may do: the
\* composition implements Runtime, whose theorems hold of it.
THEOREM ClientUsesRuntime == ClientSpec => RuntimeSpec
<1>1. ClientInit => RuntimeInit
  BY DEF ClientInit
<1>2. ClientInv /\ [ClientNext]_systemVars => [RuntimeNext]_allVars
  <2> SUFFICES ASSUME ClientInv, [ClientNext]_systemVars
               PROVE  [RuntimeNext]_allVars
    OBVIOUS
  <2>1. CASE UNCHANGED allVars
    BY <2>1
  <2>2. ASSUME NEW t \in Tokens, NEW n \in 1 .. client[t].n, Arrive(t, n)
        PROVE  RuntimeNext
    <3>1. <<t, n>> \in Callers /\ asked[t] \in References
      BY ClientNumbers DEF ClientInv, ClientTypeOK
    <3> QED
      BY <2>2, <3>1 DEF Arrive, RuntimeNext
  <2>3. ASSUME NEW c \in Callers, Serve(c)
        PROVE  RuntimeNext
    BY <2>3 DEF Serve, Reply, RuntimeNext
  <2>4. CASE Others
    BY <2>4 DEF Others, RuntimeNext
  <2> QED
    BY <2>1, <2>2, <2>3, <2>4
    DEF ClientNext, Begin, Receive, GiveUp, Spoilt, Resume, Rebuff, systemVars
<1> QED
  BY <1>1, <1>2, ClientAlways, PTL DEF ClientSpec, RuntimeSpec

\* Steps, attempts and answers keep their types: an attempt arrives at most once
\* and is answered at most once.
THEOREM ClientTypeCorrect == ClientSpec => []ClientTypeOK
  BY ClientAlways, PTL DEF ClientInv

\* An attempt the client still waits for finds its own request in the record, at
\* least one attempt left and the window open (resolveKeys, resolveRuntime), for
\* any number of tries up to MaxAttempts and any timeouts that fit the window.
THEOREM RetriesAreWelcome == ClientSpec => []NeverReplayed
<1>1. ClientInv => NeverReplayed
  <2> SUFFICES ASSUME ClientInv, NEW t \in Tokens, Awaited(t), records[t] # NoRecord
               PROVE  /\ records[t].refs = asked[t]
                      /\ records[t].attempts < MaxAttempts
                      /\ now <= records[t].first + RetryWindow
    BY DEF NeverReplayed
  <2> DEFINE c == client[t]
             n == c.n
  <2>1. records[t].refs = asked[t] /\ records[t].attempts = Cardinality(Served(t))
    BY DEF ClientInv, RequestKept
  <2>2. /\ c.state = "sent" /\ calls[<<t, n>>] # NoCall
        /\ n \in 1 .. Tries /\ now <= c.since + ClientTimeout
        /\ c.since <= records[t].first + (n - 1) * Round
    <3>1. c.state = "sent" /\ calls[<<t, n>>] # NoCall
      BY DEF Awaited
    <3> QED
      BY <3>1, ClientNumbers DEF ClientInv, InTime, Timely
  <2>3. /\ now \in Nat /\ c.since \in Nat /\ records[t].first \in Nat /\ Round \in Nat
        /\ ClientTimeout \in Nat /\ MaxWait \in Nat /\ RetryWindow \in Nat
        /\ Tries \in Nat \ {0} /\ MaxAttempts \in Nat /\ Tries <= MaxAttempts
    BY ClientNumbers
  <2>4. records[t].attempts < MaxAttempts
    <3>1. replies[<<t, n>>].what = Silence
      BY <2>2 DEF ClientInv, ClientTypeOK
    <3>2. \A m \in Served(t) : m \in 1 .. n /\ m # n
      BY <3>1 DEF ClientInv, ClientTypeOK, AttemptsKept, Served, Silence
    <3>3. Served(t) \in SUBSET (1 .. n - 1)
      BY <2>2, <3>2
    <3>4. IsFiniteSet(1 .. n - 1) /\ Cardinality(1 .. n - 1) = n - 1
      <4>1. n - 1 \in Int /\ 1 \in Int /\ n - 1 >= 0
        BY <2>2
      <4> HIDE DEF n
      <4>2. /\ IsFiniteSet(1 .. n - 1)
            /\ Cardinality(1 .. n - 1) = IF 1 > n - 1 THEN 0 ELSE (n - 1) - 1 + 1
        BY <4>1, FS_Interval
      <4> QED
        BY <4>1, <4>2
    <3>5. Cardinality(Served(t)) <= n - 1 /\ Cardinality(Served(t)) \in Nat
      BY <3>3, <3>4, FS_Subset, FS_CardinalityType
    <3> QED
      BY <2>1, <2>2, <2>3, <3>5
  <2>5. now <= records[t].first + RetryWindow
    <3>1. (n - 1) * Round <= (Tries - 1) * Round /\ (n - 1) * Round \in Nat /\ (Tries - 1) * Round \in Nat
      <4>1. n - 1 \in Nat /\ Tries - 1 \in Nat /\ n - 1 <= Tries - 1
        BY <2>2, <2>3
      <4> QED
        BY <2>3, <4>1, RoundsAdd
    <3>2. (Tries - 1) * Round + ClientTimeout <= RetryWindow
      <4>1. Tries * ClientTimeout + (Tries - 1) * MaxWait <= RetryWindow
        BY ClientAssumption DEF Slowest
      <4>2. Tries * ClientTimeout = (Tries - 1) * ClientTimeout + ClientTimeout
        <5>1. Tries - 1 \in Nat /\ Tries = (Tries - 1) + 1
          BY <2>3
        <5> QED
          BY <2>3, <5>1, RoundsAdd
      <4>3. (Tries - 1) * Round = (Tries - 1) * ClientTimeout + (Tries - 1) * MaxWait
        BY <2>3 DEF Round
      <4>4. /\ (Tries - 1) * ClientTimeout \in Nat /\ (Tries - 1) * MaxWait \in Nat
            /\ Tries * ClientTimeout \in Nat
        <5>1. Tries - 1 \in Nat
          BY <2>3
        <5> QED
          BY <2>3, <5>1, RoundsAdd
      <4> HIDE DEF n, c
      <4> QED
        BY <2>3, <4>1, <4>2, <4>3, <4>4
    <3> QED
      BY <2>2, <2>3, <3>1, <3>2
  <2> QED
    BY <2>1, <2>4, <2>5
<1> QED
  BY <1>1, ClientAlways, PTL

\* The values a step ends with are those selected for its token first, whichever
\* of its attempts was answered, and however many answers were lost (resolveKeys).
THEOREM FirstSelectionStands == ClientSpec => []GotSelected
<1>1. ClientInv => GotSelected
  BY DEF ClientInv, FirstGiven, GotSelected
<1> QED
  BY <1>1, ClientAlways, PTL

---------------------------------------------------------------------------
\* Reading values, with tags, policies, clean-up and clock around it, does nothing
\* to the keys that the keys' own handlers do not do: what is proved of KeySpec, the
\* history of the versions included, holds while workflows read.
THEOREM RuntimeUsesKeys == RuntimeSpec => KeySpec
<1>1. ASSUME NEW c \in Callers, FirstAnswer(c) \/ RetryAnswer(c) \/ Refuse(c)
      PROVE  UNCHANGED keyVars
  BY <1>1 DEF FirstAnswer, RetryAnswer, Refuse
<1>2. ASSUME NEW c \in Callers, NEW t \in Tokens, NEW q \in References, Verify(c, t, q)
      PROVE  UNCHANGED keyVars
  BY <1>2 DEF Verify
<1>3. CleanRecords => KeyNext
  BY DEF CleanRecords, KeyNext
<1>4. AccessNext => [KeyNext]_keyVars
  <2>1. AccessStep => UNCHANGED keyVars
    BY DEF AccessStep, CreateTag, DeleteTag, SetKeyTags, PutPolicy, PatchPolicy
  <2> QED
    BY <2>1 DEF AccessNext, KeyNext
<1>5. Tick => KeyNext
  BY DEF KeyNext
<1>6. UNCHANGED allVars => UNCHANGED keyVars
  BY DEF allVars
<1>7. [RuntimeNext]_allVars => [KeyNext]_keyVars
  BY <1>1, <1>2, <1>3, <1>4, <1>5, <1>6 DEF RuntimeNext
<1>8. RuntimeInit => KeyInit
  BY DEF RuntimeInit
<1> QED
  BY <1>7, <1>8, PTL DEF RuntimeSpec, KeySpec
============================================================================

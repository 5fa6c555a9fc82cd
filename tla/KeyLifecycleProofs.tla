------------------------ MODULE KeyLifecycleProofs ------------------------
(***************************************************************************)
(* Proofs about KeyLifecycle, for every set of keys, texts, dates and      *)
(* headers and every bound.  The inductive invariant is KeyInv; what makes *)
(* it inductive is IdemRecent: as long as a second write under a header is *)
(* within reach, the row that will answer it is still there.               *)
(***************************************************************************)
EXTENDS KeyLifecycle, SequenceTheorems, TLAPS

\* A key that has a row has a version, and the active one is among them: the
\* LEFT JOIN of getKeys and the resolve handler never meet a dangling pointer.
ActiveInRange ==
  \A k \in Keys : /\ keys[k].active \in 0 .. Len(versions[k])
                  /\ Created(k) <=> versions[k] # << >>
                  /\ keys[k].deleted => Created(k) /\ keys[k].disabled

\* A version written under a header is remembered until its row is old enough
\* to be cleaned; this is what IdemOnce rests on.
IdemRecent ==
  \A k \in Keys : \A n \in DOMAIN versions[k] :
    LET a == versions[k][n]
    IN  a.by # NoHeader =>
          \/ a.created + IdemTTL < now
          \/ idem[a.by] = [fingerprint |-> a.asked, number |-> n, created |-> a.created]

KeyInv == TypeOK /\ ActiveInRange /\ IdemRecent /\ ReplayHonest /\ IdemOnce

NewVersion(k, v, e, h) ==
  [value |-> v, expiry |-> e, rev |-> 1, created |-> now, by |-> h,
   asked |-> [key |-> k, value |-> v, expiry |-> e]]

\* No step but a PUT makes a version, and none alters who made one.
SameMakers ==
  \A k \in Keys :
    /\ DOMAIN versions'[k] = DOMAIN versions[k]
    /\ \A n \in DOMAIN versions[k] :
         /\ versions'[k][n].created = versions[k][n].created
         /\ versions'[k][n].by = versions[k][n].by
         /\ versions'[k][n].asked = versions[k][n].asked

---------------------------------------------------------------------------
\* The initial tables are empty and satisfy every part of the invariant.
LEMMA KeyInitInv == KeyInit => KeyInv
<1> SUFFICES ASSUME KeyInit PROVE KeyInv
  OBVIOUS
<1>1. TypeOK
  BY KeyAssumption, EmptySeq DEF KeyInit, TypeOK, KeyRow
<1>2. \A k \in Keys : /\ versions[k] = << >> /\ Len(versions[k]) = 0
                       /\ DOMAIN versions[k] = {}
  <2>1. << >> \in Seq(Version) /\ Len(<< >>) = 0
    BY EmptySeq
  <2>2. DOMAIN << >> = {}
    BY <2>1, LenProperties
  <2> QED
    BY <2>1, <2>2 DEF KeyInit
<1>3. ActiveInRange
  <2>1. \A k \in Keys : keys[k].active = 0 /\ ~keys[k].deleted
    BY DEF KeyInit
  <2>2. 0 \in 0 .. 0
    OBVIOUS
  <2> QED
    BY <1>2, <2>1, <2>2 DEF ActiveInRange, Created
<1>4. IdemRecent /\ IdemOnce
  BY <1>2 DEF IdemRecent, IdemOnce
<1>5. ReplayHonest
  BY DEF KeyInit, ReplayHonest
<1> QED
  BY <1>1, <1>3, <1>4, <1>5 DEF KeyInv

\* A PUT that is not a repeat appends one version and leaves the others alone.
LEMMA PutKeyEffect ==
  ASSUME TypeOK,
         NEW k \in Keys, NEW v \in Values, NEW e \in Expiries \cup {Never},
         NEW h \in IdemIds \cup {NoHeader}, PutKeyNew(k, v, e, h)
  PROVE  /\ NewVersion(k, v, e, h) \in Version
         /\ versions' \in [Keys -> Seq(Version)]
         /\ Len(versions'[k]) = Len(versions[k]) + 1
         /\ Len(versions[k]) + 1 \in 1 .. MaxVersions
         /\ \A n \in DOMAIN versions[k] : versions'[k][n] = versions[k][n]
         /\ versions'[k][Len(versions[k]) + 1] = NewVersion(k, v, e, h)
         /\ \A j \in Keys \ {k} : versions'[j] = versions[j]
<1> DEFINE new == NewVersion(k, v, e, h)
<1>1. new \in Version
  BY KeyAssumption DEF NewVersion, Version, Requests, TypeOK
<1>2. versions' = [versions EXCEPT ![k] = Append(versions[k], new)]
  BY DEF PutKeyNew, AddVersion, NewVersion
<1>3. versions[k] \in Seq(Version) /\ Len(versions[k]) \in Nat
  BY LenProperties DEF TypeOK
<1>4. versions'[k] = Append(versions[k], new)
  BY <1>2 DEF TypeOK
<1>5. Len(versions[k]) + 1 \in 1 .. MaxVersions
  BY <1>3, KeyAssumption DEF PutKeyNew
<1> HIDE DEF new
<1>6. /\ Append(versions[k], new) \in Seq(Version)
      /\ Len(Append(versions[k], new)) = Len(versions[k]) + 1
      /\ \A n \in 1 .. Len(versions[k]) : Append(versions[k], new)[n] = versions[k][n]
      /\ Append(versions[k], new)[Len(versions[k]) + 1] = new
  BY <1>1, <1>3, AppendProperties
<1>7. DOMAIN versions[k] = 1 .. Len(versions[k])
  BY <1>3, LenProperties
<1>8. versions' \in [Keys -> Seq(Version)]
  BY <1>2, <1>6 DEF TypeOK
<1> QED
  BY <1>1, <1>2, <1>4, <1>5, <1>6, <1>7, <1>8 DEF TypeOK, new

\* A change of date replaces one version and keeps its maker.
LEMMA ExpireEffect ==
  ASSUME TypeOK, NEW k \in Keys, NEW n \in 1 .. MaxVersions,
         NEW e \in Expiries \cup {Never}, ExpireVersion(k, n, e)
  PROVE  /\ versions' \in [Keys -> Seq(Version)]
         /\ \A j \in Keys : Len(versions'[j]) = Len(versions[j])
         /\ SameMakers
         /\ \A j \in Keys \ {k} : versions'[j] = versions[j]
         /\ \A j \in DOMAIN versions[k] :
              /\ versions'[k][j].value = versions[k][j].value
              /\ versions'[k][j].rev >= versions[k][j].rev
              /\ versions'[k][j].expiry # versions[k][j].expiry
                   => versions'[k][j].rev > versions[k][j].rev
<1> DEFINE old == versions[k][n]
           new == [old EXCEPT !.expiry = e,
                              !.rev = IF old.expiry = e THEN old.rev ELSE old.rev + 1]
<1>1. versions[k] \in Seq(Version) /\ n \in 1 .. Len(versions[k])
  BY LenProperties DEF TypeOK, ExpireVersion
<1>2. old \in Version
  BY <1>1, ElementOfSeq
<1>3. new \in Version
  <2>1. old.expiry = e \/ old.rev < MaxRevision
    BY DEF ExpireVersion
  <2>2. (IF old.expiry = e THEN old.rev ELSE old.rev + 1) \in 1 .. MaxRevision
    BY <1>2, <2>1, KeyAssumption DEF Version
  <2> QED
    BY <1>2, <2>2 DEF Version
<1>4. versions' = [versions EXCEPT ![k] = [versions[k] EXCEPT ![n] = new]]
  BY <1>1, <1>2 DEF ExpireVersion, TypeOK, Version
<1>5. new.created = old.created /\ new.by = old.by /\ new.asked = old.asked
  BY <1>2 DEF Version
<1> HIDE DEF new
<1>6. /\ [versions[k] EXCEPT ![n] = new] \in Seq(Version)
      /\ Len([versions[k] EXCEPT ![n] = new]) = Len(versions[k])
      /\ \A j \in 1 .. Len(versions[k]) :
           [versions[k] EXCEPT ![n] = new][j] = IF j = n THEN new ELSE versions[k][j]
  BY <1>1, <1>3, ExceptSeq
<1>7. versions'[k] = [versions[k] EXCEPT ![n] = new]
  BY <1>4 DEF TypeOK
<1>8. \A j \in Keys \ {k} : versions'[j] = versions[j]
  BY <1>4 DEF TypeOK
<1>9. versions' \in [Keys -> Seq(Version)] /\ \A j \in Keys : Len(versions'[j]) = Len(versions[j])
  BY <1>4, <1>6, <1>7, <1>8 DEF TypeOK
<1>10. DOMAIN versions[k] = 1 .. Len(versions[k]) /\ DOMAIN versions'[k] = 1 .. Len(versions[k])
  BY <1>1, <1>6, <1>7, LenProperties
<1>11. \A j \in DOMAIN versions[k] :
         versions'[k][j] = IF j = n THEN new ELSE versions[k][j]
  BY <1>6, <1>7, <1>10
<1>12. SameMakers
  BY <1>5, <1>8, <1>10, <1>11 DEF SameMakers
<1>13. /\ new.value = old.value /\ new.rev >= old.rev
       /\ new.expiry # old.expiry => new.rev > old.rev
  BY <1>2 DEF Version, new
<1>14. \A j \in DOMAIN versions[k] :
         /\ versions'[k][j].value = versions[k][j].value
         /\ versions'[k][j].rev >= versions[k][j].rev
         /\ versions'[k][j].expiry # versions[k][j].expiry
              => versions'[k][j].rev > versions[k][j].rev
  <2> SUFFICES ASSUME NEW j \in DOMAIN versions[k]
               PROVE  /\ versions'[k][j].value = versions[k][j].value
                      /\ versions'[k][j].rev >= versions[k][j].rev
                      /\ versions'[k][j].expiry # versions[k][j].expiry
                           => versions'[k][j].rev > versions[k][j].rev
    OBVIOUS
  <2>1. versions[k][j].rev \in Nat
    <3>1. versions[k][j] \in Version
      BY <1>1, <1>10, ElementOfSeq
    <3> QED
      BY <3>1, KeyAssumption DEF Version
  <2> QED
    BY <1>11, <1>13, <2>1
<1> QED
  BY <1>8, <1>9, <1>12, <1>14

\* Steps that make no version, leave the idempotency table alone and do not
\* turn the clock back keep the three parts about headers.
LEMMA HeaderPartsKept ==
  ASSUME KeyInv, SameMakers, UNCHANGED idem, now' \in Nat, now <= now'
  PROVE  IdemRecent' /\ ReplayHonest' /\ IdemOnce'
<1> USE DEF KeyInv
<1>0. /\ now \in Nat /\ IdemTTL \in Nat
      /\ \A k \in Keys : \A n \in DOMAIN versions[k] : versions[k][n].created \in Nat
  <2>1. now \in Nat /\ IdemTTL \in Nat
    BY KeyAssumption DEF TypeOK
  <2>2. ASSUME NEW k \in Keys, NEW n \in DOMAIN versions[k]
        PROVE  versions[k][n].created \in Nat
    <3>1. versions[k] \in Seq(Version)
      BY DEF TypeOK
    <3>2. versions[k][n] \in Version
      BY <3>1, LenProperties, ElementOfSeq
    <3> QED
      BY <3>2 DEF Version
  <2> QED
    BY <2>1, <2>2
<1>1. IdemRecent'
  BY <1>0 DEF SameMakers, IdemRecent
<1>2. ReplayHonest'
  <2> SUFFICES ASSUME NEW i \in IdemIds, idem[i] # NoRow
               PROVE  LET row == idem[i]
                          k   == row.fingerprint.key
                      IN  /\ row.number \in DOMAIN versions'[k]
                          /\ versions'[k][row.number].asked = row.fingerprint
                          /\ versions'[k][row.number].by = i
    BY DEF ReplayHonest
  <2>1. idem[i].fingerprint.key \in Keys
    BY DEF TypeOK, IdemRow, Requests
  <2> QED
    BY <2>1 DEF ReplayHonest, SameMakers
<1>3. IdemOnce'
  BY DEF SameMakers, IdemOnce
<1> QED
  BY <1>1, <1>2, <1>3

---------------------------------------------------------------------------
\* PutKeyNew: the only step that adds a version and an idempotency row.
LEMMA PutKeyInv ==
  ASSUME KeyInv, NEW k \in Keys, NEW v \in Values, NEW e \in Expiries \cup {Never},
         NEW h \in IdemIds \cup {NoHeader}, PutKeyNew(k, v, e, h)
  PROVE  KeyInv'
<1> USE DEF KeyInv
<1> DEFINE new == NewVersion(k, v, e, h)
           m   == Len(versions[k]) + 1
<1>1. /\ new \in Version
      /\ versions' \in [Keys -> Seq(Version)]
      /\ Len(versions'[k]) = m
      /\ m \in 1 .. MaxVersions
      /\ \A n \in DOMAIN versions[k] : versions'[k][n] = versions[k][n]
      /\ versions'[k][m] = new
      /\ \A j \in Keys \ {k} : versions'[j] = versions[j]
  BY PutKeyEffect
<1>2. /\ new.by = h /\ new.created = now
      /\ new.asked = [key |-> k, value |-> v, expiry |-> e]
      /\ new.asked \in Requests
  BY DEF NewVersion, Requests
<1>3. /\ Len(versions[k]) \in Nat
      /\ DOMAIN versions[k] = 1 .. Len(versions[k])
      /\ DOMAIN versions'[k] = 1 .. m
  BY <1>1, LenProperties DEF TypeOK
<1>4. DOMAIN versions'[k] = DOMAIN versions[k] \cup {m} /\ m \notin DOMAIN versions[k]
  BY <1>3
<1> HIDE DEF new, m
<1>5. TypeOK'
  <2>1. keys' \in [Keys -> KeyRow]
    <3>1. m \in 0 .. MaxVersions
      BY <1>1
    <3>2. keys' = [keys EXCEPT ![k].active = m]
      BY DEF PutKeyNew, AddVersion, m
    <3> QED
      BY <3>1, <3>2 DEF TypeOK, KeyRow
  <2>2. idem' \in [IdemIds -> IdemRow \cup {NoRow}]
    BY <1>1, <1>2 DEF TypeOK, PutKeyNew, IdemRow, m
  <2>3. \A j \in Keys : Len(versions'[j]) <= MaxVersions
    <3>1. Len(versions'[k]) <= MaxVersions
      BY <1>1, KeyAssumption
    <3>2. \A j \in Keys \ {k} : Len(versions'[j]) = Len(versions[j])
      BY <1>1
    <3> QED
      BY <3>1, <3>2 DEF TypeOK
  <2> QED
    BY <1>1, <2>1, <2>2, <2>3 DEF TypeOK, PutKeyNew
<1>6. ActiveInRange'
  <2>1. keys' = [keys EXCEPT ![k].active = m]
    BY DEF PutKeyNew, AddVersion, m
  <2>2. \A j \in Keys \ {k} : keys'[j] = keys[j] /\ versions'[j] = versions[j]
    BY <1>1, <2>1 DEF TypeOK
  <2>3. keys'[k].active = m /\ ~keys'[k].deleted
    BY <2>1 DEF TypeOK, KeyRow, PutKeyNew
  <2>4. m \in 0 .. Len(versions'[k]) /\ m # 0
    BY <1>1
  <2>5. versions'[k] # << >>
    BY <1>1, EmptySeq
  <2> QED
    BY <2>2, <2>3, <2>4, <2>5 DEF ActiveInRange, Created
<1>7. h \in IdemIds =>
        /\ idem[h] = NoRow
        /\ idem' = [idem EXCEPT ![h] =
                       [fingerprint |-> new.asked, number |-> m, created |-> now]]
  BY <1>2, KeyAssumption DEF PutKeyNew, Remembered, m
<1>8. h = NoHeader => idem' = idem
  BY DEF PutKeyNew
<1>9. now' = now
  BY DEF PutKeyNew
<1>10. \A j \in Keys : \A n \in DOMAIN versions[j] :
         /\ n \in DOMAIN versions'[j] /\ versions'[j][n] = versions[j][n]
         /\ versions[j][n].created \in Nat
         /\ versions[j][n].by \in IdemIds \cup {NoHeader}
  <2> SUFFICES ASSUME NEW j \in Keys, NEW n \in DOMAIN versions[j]
               PROVE  /\ n \in DOMAIN versions'[j] /\ versions'[j][n] = versions[j][n]
                      /\ versions[j][n].created \in Nat
                      /\ versions[j][n].by \in IdemIds \cup {NoHeader}
    OBVIOUS
  <2>1. versions[j][n] \in Version
    BY LenProperties, ElementOfSeq DEF TypeOK
  <2>2. versions[j][n].created \in Nat /\ versions[j][n].by \in IdemIds \cup {NoHeader}
    BY <2>1 DEF Version
  <2> QED
    BY <1>1, <1>4, <2>2
\* A version made earlier under h is out of reach: its row would still be there.
<1>11. \A j \in Keys : \A n \in DOMAIN versions[j] :
         versions[j][n].by = h /\ h # NoHeader
           => versions[j][n].created + IdemTTL < now
  <2> SUFFICES ASSUME NEW j \in Keys, NEW n \in DOMAIN versions[j],
                      versions[j][n].by = h, h # NoHeader
               PROVE  versions[j][n].created + IdemTTL < now
    OBVIOUS
  <2>1. idem[h] = NoRow
    BY <1>7
  <2>2. idem[h] # [fingerprint |-> versions[j][n].asked, number |-> n,
                   created |-> versions[j][n].created]
    BY <2>1, <1>3, LenProperties DEF NoRow, TypeOK
  <2> QED
    BY <2>2 DEF IdemRecent
<1>12. IdemRecent'
  <2> SUFFICES ASSUME NEW j \in Keys, NEW n \in DOMAIN versions'[j],
                      versions'[j][n].by # NoHeader
               PROVE  \/ versions'[j][n].created + IdemTTL < now'
                      \/ idem'[versions'[j][n].by] =
                           [fingerprint |-> versions'[j][n].asked, number |-> n,
                            created |-> versions'[j][n].created]
    BY DEF IdemRecent
  <2>1. CASE j = k /\ n = m
    BY <2>1, <1>1, <1>2, <1>7 DEF TypeOK
  <2>2. CASE ~(j = k /\ n = m)
    <3>1. n \in DOMAIN versions[j] /\ versions'[j][n] = versions[j][n]
      BY <2>2, <1>1, <1>4
    <3>2. CASE versions[j][n].by = h
      BY <3>1, <3>2, <1>9, <1>11
    <3>3. CASE versions[j][n].by # h
      <4>1. idem'[versions[j][n].by] = idem[versions[j][n].by]
        BY <3>1, <3>3, <1>7, <1>8, <1>10 DEF TypeOK
      <4> QED
        BY <3>1, <4>1, <1>9 DEF IdemRecent
    <3> QED
      BY <3>2, <3>3
  <2> QED
    BY <2>1, <2>2
<1>13. ReplayHonest'
  <2> SUFFICES ASSUME NEW i \in IdemIds, idem'[i] # NoRow
               PROVE  LET row == idem'[i]
                          j   == row.fingerprint.key
                      IN  /\ row.number \in DOMAIN versions'[j]
                          /\ versions'[j][row.number].asked = row.fingerprint
                          /\ versions'[j][row.number].by = i
    BY DEF ReplayHonest
  <2>1. CASE i = h
    <3>1. idem'[i] = [fingerprint |-> new.asked, number |-> m, created |-> now]
      BY <2>1, <1>7 DEF TypeOK
    <3>2. idem'[i].fingerprint.key = k
      BY <3>1, <1>2
    <3> QED
      BY <2>1, <3>1, <3>2, <1>1, <1>2, <1>4
  <2>2. CASE i # h
    <3>1. idem'[i] = idem[i]
      BY <2>2, <1>7, <1>8 DEF TypeOK
    <3>2. idem[i].fingerprint.key \in Keys
      BY <3>1 DEF TypeOK, IdemRow, Requests
    <3> QED
      BY <3>1, <3>2, <1>10 DEF ReplayHonest
  <2> QED
    BY <2>1, <2>2
<1>14. IdemOnce'
  <2> SUFFICES ASSUME NEW j1 \in Keys, NEW j2 \in Keys,
                      NEW n1 \in DOMAIN versions'[j1], NEW n2 \in DOMAIN versions'[j2],
                      <<j1, n1>> # <<j2, n2>>,
                      versions'[j1][n1].by = versions'[j2][n2].by,
                      versions'[j1][n1].by # NoHeader
               PROVE  \/ versions'[j1][n1].created + IdemTTL < versions'[j2][n2].created
                      \/ versions'[j2][n2].created + IdemTTL < versions'[j1][n1].created
    BY DEF IdemOnce
  <2>1. CASE j1 = k /\ n1 = m
    <3>1. n2 \in DOMAIN versions[j2] /\ versions'[j2][n2] = versions[j2][n2]
      BY <2>1, <1>1, <1>4
    <3> QED
      BY <2>1, <3>1, <1>1, <1>2, <1>11
  <2>2. CASE j2 = k /\ n2 = m
    <3>1. n1 \in DOMAIN versions[j1] /\ versions'[j1][n1] = versions[j1][n1]
      BY <2>2, <1>1, <1>4
    <3> QED
      BY <2>2, <3>1, <1>1, <1>2, <1>11
  <2>3. CASE ~(j1 = k /\ n1 = m) /\ ~(j2 = k /\ n2 = m)
    <3>1. /\ n1 \in DOMAIN versions[j1] /\ versions'[j1][n1] = versions[j1][n1]
          /\ n2 \in DOMAIN versions[j2] /\ versions'[j2][n2] = versions[j2][n2]
      BY <2>3, <1>1, <1>4
    <3> QED
      BY <3>1 DEF IdemOnce
  <2> QED
    BY <2>1, <2>2, <2>3
<1> QED
  BY <1>5, <1>6, <1>12, <1>13, <1>14
---------------------------------------------------------------------------
\* PATCH disabled, DELETE and activation write one row of keys.
LEMMA KeyRowStepInv ==
  ASSUME KeyInv, NEW k \in Keys,
         \/ \E d \in BOOLEAN : PatchKey(k, d)
         \/ DeleteKey(k)
         \/ \E n \in 1 .. MaxVersions : ActivateVersion(k, n)
  PROVE  KeyInv'
<1> USE DEF KeyInv
<1>1. UNCHANGED <<now, versions, idem>>
  BY DEF PatchKey, DeleteKey, ActivateVersion
<1>2. IdemRecent' /\ ReplayHonest' /\ IdemOnce'
  BY <1>1, HeaderPartsKept DEF SameMakers, TypeOK
<1>3. /\ versions[k] \in Seq(Version) /\ Len(versions[k]) \in Nat
      /\ DOMAIN versions[k] = 1 .. Len(versions[k])
  BY LenProperties DEF TypeOK
<1>4. keys[k] \in KeyRow /\ keys[k].active \in 0 .. Len(versions[k])
  BY DEF TypeOK, ActiveInRange
<1>5. TypeOK' /\ ActiveInRange'
  <2>1. CASE \E d \in BOOLEAN : PatchKey(k, d)
    <3>1. PICK d \in BOOLEAN : PatchKey(k, d)
      BY <2>1
    <3>2. keys' = [keys EXCEPT ![k].disabled = d] /\ Usable(k)
      BY <3>1 DEF PatchKey
    <3> QED
      BY <1>1, <1>4, <3>2 DEF TypeOK, KeyRow, ActiveInRange, Created, Usable
  <2>2. CASE DeleteKey(k)
    <3>1. keys' = [keys EXCEPT ![k].deleted = TRUE, ![k].disabled = TRUE] /\ Created(k)
      BY <2>2 DEF DeleteKey, Usable
    <3> QED
      BY <1>1, <1>4, <3>1 DEF TypeOK, KeyRow, ActiveInRange, Created
  <2>3. CASE \E n \in 1 .. MaxVersions : ActivateVersion(k, n)
    <3>1. PICK n \in 1 .. MaxVersions : ActivateVersion(k, n)
      BY <2>3
    <3>2. keys' = [keys EXCEPT ![k].active = n] /\ n \in 1 .. Len(versions[k]) /\ Usable(k)
      BY <3>1, <1>3 DEF ActivateVersion
    <3>3. n \in 0 .. MaxVersions /\ n \in 0 .. Len(versions[k]) /\ n # 0
      BY <3>2, <1>3
    <3> QED
      BY <1>1, <1>4, <3>2, <3>3 DEF TypeOK, KeyRow, ActiveInRange, Created, Usable
  <2> QED
    BY <2>1, <2>2, <2>3
<1> QED
  BY <1>2, <1>5

\* A new date raises the revision and leaves makers, numbers and pointers alone.
LEMMA ExpireInv ==
  ASSUME KeyInv, NEW k \in Keys, NEW n \in 1 .. MaxVersions,
         NEW e \in Expiries \cup {Never}, ExpireVersion(k, n, e)
  PROVE  KeyInv'
<1> USE DEF KeyInv
<1>1. UNCHANGED <<now, keys, idem>>
  BY DEF ExpireVersion
<1>2. /\ versions' \in [Keys -> Seq(Version)]
      /\ \A j \in Keys : Len(versions'[j]) = Len(versions[j])
      /\ SameMakers
  BY ExpireEffect
<1>3. IdemRecent' /\ ReplayHonest' /\ IdemOnce'
  BY <1>1, <1>2, HeaderPartsKept DEF TypeOK
<1>4. TypeOK'
  BY <1>1, <1>2 DEF TypeOK
<1>5. \A j \in Keys : versions'[j] = << >> <=> versions[j] = << >>
  BY <1>2, EmptySeq DEF TypeOK
<1>6. ActiveInRange'
  BY <1>1, <1>2, <1>5 DEF ActiveInRange, Created
<1> QED
  BY <1>3, <1>4, <1>6

\* Cleaning removes only rows whose versions are past the reach of a retry.
LEMMA CleanInv ==
  ASSUME KeyInv, CleanIdempotency
  PROVE  KeyInv'
<1> USE DEF KeyInv
<1>1. UNCHANGED <<now, keys, versions>>
  BY DEF CleanIdempotency
<1>2. \A i \in IdemIds :
        /\ idem'[i] = idem[i] \/ idem'[i] = NoRow
        /\ idem[i] # NoRow /\ idem'[i] = NoRow => idem[i].created + IdemTTL < now
  BY DEF CleanIdempotency
<1>3. TypeOK'
  <2>1. idem' \in [IdemIds -> IdemRow \cup {NoRow}]
    BY DEF CleanIdempotency, TypeOK
  <2> QED
    BY <1>1, <2>1 DEF TypeOK
<1>4. ActiveInRange' /\ IdemOnce'
  BY <1>1 DEF ActiveInRange, Created, IdemOnce
<1>5. ReplayHonest'
  BY <1>1, <1>2 DEF ReplayHonest
<1>6. IdemRecent'
  <2> SUFFICES ASSUME NEW k \in Keys, NEW n \in DOMAIN versions[k],
                      versions[k][n].by # NoHeader,
                      ~(versions[k][n].created + IdemTTL < now)
               PROVE  idem'[versions[k][n].by] =
                        [fingerprint |-> versions[k][n].asked, number |-> n,
                         created |-> versions[k][n].created]
    BY <1>1 DEF IdemRecent
  <2> DEFINE i == versions[k][n].by
  <2>1. i \in IdemIds
    <3>1. versions[k][n] \in Version
      BY LenProperties, ElementOfSeq DEF TypeOK
    <3> QED
      BY <3>1 DEF Version
  <2>2. idem[i] = [fingerprint |-> versions[k][n].asked, number |-> n,
                   created |-> versions[k][n].created]
    BY DEF IdemRecent
  <2>3. n \in 1 .. Len(versions[k])
    BY LenProperties DEF TypeOK
  <2>4. idem[i] # NoRow /\ idem[i].created = versions[k][n].created
    BY <2>2, <2>3 DEF NoRow
  <2> QED
    BY <1>2, <2>1, <2>2, <2>4
<1> QED
  BY <1>3, <1>4, <1>5, <1>6

\* A second that passes only makes versions older.
LEMMA TickInv ==
  ASSUME KeyInv, Tick
  PROVE  KeyInv'
<1> USE DEF KeyInv
<1>1. now' = now + 1 /\ UNCHANGED <<keys, versions, idem>>
  BY DEF Tick
<1>2. now' \in Nat \ {0} /\ now <= now' /\ now' \in Nat
  BY <1>1 DEF TypeOK
<1>3. IdemRecent' /\ ReplayHonest' /\ IdemOnce'
  BY <1>1, <1>2, HeaderPartsKept DEF SameMakers
<1>4. TypeOK' /\ ActiveInRange'
  BY <1>1, <1>2 DEF TypeOK, ActiveInRange, Created
<1> QED
  BY <1>3, <1>4

\* Every step of the key handlers and of the worker's cleaning keeps KeyInv.
LEMMA KeyNextInv ==
  ASSUME KeyInv, [KeyNext]_keyVars
  PROVE  KeyInv'
<1>1. CASE KeyMutation
  <2>1. PICK k \in Keys :
          \/ \E v \in Values, e \in Expiries \cup {Never}, h \in IdemIds \cup {NoHeader} :
               PutKeyNew(k, v, e, h)
          \/ \E d \in BOOLEAN : PatchKey(k, d)
          \/ DeleteKey(k)
          \/ \E n \in 1 .. MaxVersions : ActivateVersion(k, n)
          \/ \E n \in 1 .. MaxVersions, e \in Expiries \cup {Never} : ExpireVersion(k, n, e)
    BY <1>1 DEF KeyMutation
  <2>2. CASE \E v \in Values, e \in Expiries \cup {Never}, h \in IdemIds \cup {NoHeader} :
               PutKeyNew(k, v, e, h)
    BY <2>2, PutKeyInv
  <2>3. CASE \/ \E d \in BOOLEAN : PatchKey(k, d)
             \/ DeleteKey(k)
             \/ \E n \in 1 .. MaxVersions : ActivateVersion(k, n)
    BY <2>3, KeyRowStepInv
  <2>4. CASE \E n \in 1 .. MaxVersions, e \in Expiries \cup {Never} : ExpireVersion(k, n, e)
    BY <2>4, ExpireInv
  <2> QED
    BY <2>1, <2>2, <2>3, <2>4
<1>2. CASE PutKeyAgain \/ UNCHANGED keyVars
  <2>1. UNCHANGED keyVars
    BY <1>2 DEF PutKeyAgain, PutKeyUnchanged
  <2> QED
    BY <2>1 DEF keyVars, KeyInv, TypeOK, ActiveInRange, Created, IdemRecent,
                ReplayHonest, IdemOnce
<1>3. CASE CleanIdempotency
  BY <1>3, CleanInv
<1>4. CASE Tick
  BY <1>4, TickInv
<1> QED
  BY <1>1, <1>2, <1>3, <1>4 DEF KeyNext

---------------------------------------------------------------------------
\* The tables of the key handlers keep their types and bounds in every run.
THEOREM KeyTypeCorrect == KeySpec => []TypeOK
<1>1. KeyInv /\ [KeyNext]_keyVars => KeyInv'
  BY KeyNextInv
<1>2. KeyInv => TypeOK
  BY DEF KeyInv
<1> QED
  BY <1>1, <1>2, KeyInitInv, PTL DEF KeySpec

\* Within IdemTTL of a write, the same header creates no second version: for
\* any number of keys, headers, contents and clean-ups.
THEOREM HeaderWritesOnce == KeySpec => []IdemOnce
<1>1. KeyInv /\ [KeyNext]_keyVars => KeyInv'
  BY KeyNextInv
<1>2. KeyInv => IdemOnce
  BY DEF KeyInv
<1> QED
  BY <1>1, <1>2, KeyInitInv, PTL DEF KeySpec

\* A repeated request is answered with the version its own first copy made.
THEOREM RepeatsAnswerTruly == KeySpec => []ReplayHonest
<1>1. KeyInv /\ [KeyNext]_keyVars => KeyInv'
  BY KeyNextInv
<1>2. KeyInv => ReplayHonest
  BY DEF KeyInv
<1> QED
  BY <1>1, <1>2, KeyInitInv, PTL DEF KeySpec

\* No step rewrites the past: texts and makers stay, a revision names one date,
\* and a deleted key is frozen.
LEMMA HistoryStepKept ==
  ASSUME KeyInv, [KeyNext]_keyVars
  PROVE  HistoryStep
<1> USE DEF KeyInv
<1>1. \A k \in Keys : \A n \in DOMAIN versions[k] : versions[k][n].rev \in Nat
  <2> SUFFICES ASSUME NEW k \in Keys, NEW n \in DOMAIN versions[k]
               PROVE  versions[k][n].rev \in Nat
    OBVIOUS
  <2>1. versions[k][n] \in Version
    BY LenProperties, ElementOfSeq DEF TypeOK
  <2> QED
    BY <2>1, KeyAssumption DEF Version
<1>2. ASSUME NEW k \in Keys, NEW v \in Values, NEW e \in Expiries \cup {Never},
             NEW h \in IdemIds \cup {NoHeader}, PutKeyNew(k, v, e, h)
      PROVE  HistoryStep
  <2>1. /\ \A n \in DOMAIN versions[k] : versions'[k][n] = versions[k][n]
        /\ \A j \in Keys \ {k} : versions'[j] = versions[j]
        /\ DOMAIN versions[k] = 1 .. Len(versions[k])
        /\ DOMAIN versions'[k] = 1 .. Len(versions[k]) + 1
        /\ Len(versions[k]) \in Nat
    <3>1. /\ versions' \in [Keys -> Seq(Version)]
          /\ Len(versions'[k]) = Len(versions[k]) + 1
          /\ \A n \in DOMAIN versions[k] : versions'[k][n] = versions[k][n]
          /\ \A j \in Keys \ {k} : versions'[j] = versions[j]
      BY <1>2, PutKeyEffect
    <3>2. /\ DOMAIN versions[k] = 1 .. Len(versions[k]) /\ Len(versions[k]) \in Nat
          /\ DOMAIN versions'[k] = 1 .. Len(versions'[k])
      BY <3>1, LenProperties DEF TypeOK
    <3> QED
      BY <3>1, <3>2
  <2>2. /\ ~keys[k].deleted
        /\ \A j \in Keys \ {k} : keys'[j] = keys[j]
    BY <1>2 DEF PutKeyNew, AddVersion, TypeOK
  <2>3. \A j \in Keys : \A n \in DOMAIN versions[j] :
          n \in DOMAIN versions'[j] /\ versions'[j][n] = versions[j][n]
    BY <2>1
  <2>4. \A j \in Keys : \A n \in DOMAIN versions[j] : versions[j][n].rev >= versions[j][n].rev
    BY <1>1
  <2> QED
    BY <2>1, <2>2, <2>3, <2>4 DEF HistoryStep
<1>3. ASSUME NEW k \in Keys, NEW n \in 1 .. MaxVersions,
             NEW e \in Expiries \cup {Never}, ExpireVersion(k, n, e)
      PROVE  HistoryStep
  <2>1. /\ SameMakers
        /\ \A j \in Keys \ {k} : versions'[j] = versions[j]
        /\ \A j \in DOMAIN versions[k] :
             /\ versions'[k][j].value = versions[k][j].value
             /\ versions'[k][j].rev >= versions[k][j].rev
             /\ versions'[k][j].expiry # versions[k][j].expiry
                  => versions'[k][j].rev > versions[k][j].rev
    BY <1>3, ExpireEffect
  <2>2. UNCHANGED keys /\ ~keys[k].deleted
    BY <1>3 DEF ExpireVersion, Usable
  <2> QED
    BY <1>1, <2>1, <2>2 DEF HistoryStep, SameMakers
<1>4. ASSUME UNCHANGED versions, \A k \in Keys : keys[k].deleted => keys'[k] = keys[k]
      PROVE  HistoryStep
  BY <1>1, <1>4 DEF HistoryStep
<1>5. ASSUME NEW k \in Keys,
             \/ \E d \in BOOLEAN : PatchKey(k, d)
             \/ DeleteKey(k)
             \/ \E n \in 1 .. MaxVersions : ActivateVersion(k, n)
      PROVE  HistoryStep
  <2>1. UNCHANGED versions /\ ~keys[k].deleted /\ \A j \in Keys \ {k} : keys'[j] = keys[j]
    BY <1>5 DEF PatchKey, DeleteKey, ActivateVersion, Usable, TypeOK
  <2> QED
    BY <2>1, <1>4
<1>6. CASE KeyMutation
  BY <1>6, <1>2, <1>3, <1>5 DEF KeyMutation
<1>7. CASE PutKeyAgain \/ CleanIdempotency \/ Tick \/ UNCHANGED keyVars
  BY <1>7, <1>4 DEF PutKeyAgain, PutKeyUnchanged, CleanIdempotency, Tick, keyVars
<1> QED
  BY <1>6, <1>7 DEF KeyNext

\* The past of every key survives every run, for every value of the constants.
THEOREM HistoryIsKept == KeySpec => HistoryKept
<1>1. KeyInv /\ [KeyNext]_keyVars => KeyInv' /\ HistoryStep
  BY KeyNextInv, HistoryStepKept
<1> QED
  BY <1>1, KeyInitInv, PTL DEF KeySpec, HistoryKept
===========================================================================

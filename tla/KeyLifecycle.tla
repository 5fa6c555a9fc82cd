--------------------------- MODULE KeyLifecycle ---------------------------
(***************************************************************************)
(* The keys of one workspace and their versions, as the owner's handlers   *)
(* of internal/vault/admin.go change them, and the idempotency table that  *)
(* makes a repeated write harmless.                                        *)
(*                                                                         *)
(* Every handler body is one BEGIN IMMEDIATE transaction on the only       *)
(* database connection (store.go: Open, transaction), so each is one       *)
(* action.  A key is named by its path: UNIQUE(workspace_id,path) and the  *)
(* fact that no row of keys is ever removed make the two interchangeable.  *)
(* The version id is the pair <<key, number>>.  Each handler also calls    *)
(* cancelStaleNotifications; module Notifications composes these actions   *)
(* with that call.                                                         *)
(***************************************************************************)
EXTENDS Naturals, Sequences

CONSTANTS
  Keys,          \* paths the owner may use
  Values,        \* credential texts
  Expiries,      \* expiry dates the owner may choose (Unix seconds)
  IdemIds,       \* digests of (actor, workspace, Idempotency-Key header)
  NoHeader,      \* a PUT without the header
  IdemTTL,       \* 86400 s in cleanup
  MaxVersions,   \* bound: versions of one key
  MaxRevision,   \* bound: expiry changes of one version
  MaxTime        \* bound: the last second modelled

Never == 0       \* expires_at IS NULL; real dates are positive

ASSUME KeyAssumption ==
  /\ Expiries \subseteq Nat \ {0}
  /\ NoHeader \notin IdemIds
  /\ IdemTTL \in Nat /\ MaxVersions \in Nat
  /\ MaxRevision \in Nat \ {0} /\ MaxTime \in Nat \ {0}

VARIABLES
  now,       \* the clock every handler reads
  keys,      \* row of each path; active = 0 while there is no row
  versions,  \* version n of key k is versions[k][n]
  idem       \* table idempotency

keyVars == <<now, keys, versions, idem>>

Requests == [key : Keys, value : Values, expiry : Expiries \cup {Never}]
NoRow == [fingerprint |-> NoHeader, number |-> 0, created |-> 0]

KeyRow  == [active : 0 .. MaxVersions, disabled : BOOLEAN, deleted : BOOLEAN]
\* created_at is a column; by and asked are history: the request that made it
Version == [value : Values, expiry : Expiries \cup {Never}, rev : 1 .. MaxRevision,
            created : Nat, by : IdemIds \cup {NoHeader}, asked : Requests]
IdemRow == [fingerprint : Requests, number : 1 .. MaxVersions, created : Nat]

TypeOK ==
  /\ now \in Nat \ {0}
  /\ keys \in [Keys -> KeyRow]
  /\ versions \in [Keys -> Seq(Version)]
  /\ \A k \in Keys : Len(versions[k]) <= MaxVersions
  /\ idem \in [IdemIds -> IdemRow \cup {NoRow}]

KeyInit ==
  /\ now = 1
  /\ keys = [k \in Keys |-> [active |-> 0, disabled |-> FALSE, deleted |-> FALSE]]
  /\ versions = [k \in Keys |-> << >>]
  /\ idem = [i \in IdemIds |-> NoRow]

---------------------------------------------------------------------------
Created(k) == keys[k].active # 0
Usable(k)  == Created(k) /\ ~keys[k].deleted
Remembered(h) == h \in IdemIds /\ idem[h] # NoRow

ActiveVersion(k) == versions[k][keys[k].active]

\* The next version of k, made active.  disabled stays as it was.
AddVersion(k, v, e, h) ==
  /\ versions' = [versions EXCEPT ![k] = Append(@,
                    [value |-> v, expiry |-> e, rev |-> 1, created |-> now, by |-> h,
                     asked |-> [key |-> k, value |-> v, expiry |-> e]])]
  /\ keys' = [keys EXCEPT ![k].active = Len(versions[k]) + 1]

\* Mutant: the answer is stored under the number of the version before.
PutKeyMisnumbers(k, v, e, h) ==
  /\ ~Remembered(h)
  /\ ~keys[k].deleted
  /\ Len(versions[k]) < MaxVersions
  /\ AddVersion(k, v, e, h)
  /\ idem' = IF h = NoHeader THEN idem
             ELSE [idem EXCEPT ![h] =
                    [fingerprint |-> [key |-> k, value |-> v, expiry |-> e],
                     number |-> Len(versions[k]), created |-> now]]
  /\ UNCHANGED now

PutKeyNew(k, v, e, h) ==
  /\ ~Remembered(h)
  /\ ~keys[k].deleted
  /\ Len(versions[k]) < MaxVersions
  /\ AddVersion(k, v, e, h)
  /\ idem' = IF h = NoHeader THEN idem
             ELSE [idem EXCEPT ![h] =
                    [fingerprint |-> [key |-> k, value |-> v, expiry |-> e],
                     number |-> Len(versions[k]) + 1, created |-> now]]
  /\ UNCHANGED now

\* The stored response is returned, or a 409: the header was used with other
\* content, or the path was deleted and cannot be reused.
PutKeyUnchanged(k, v, e, h) ==
  /\ Remembered(h) \/ keys[k].deleted
  /\ UNCHANGED keyVars

PatchKey(k, d) ==
  /\ Usable(k)
  /\ keys' = [keys EXCEPT ![k].disabled = d]
  /\ UNCHANGED <<now, versions, idem>>

DeleteKey(k) ==
  /\ Usable(k)
  /\ keys' = [keys EXCEPT ![k].deleted = TRUE, ![k].disabled = TRUE]
  /\ UNCHANGED <<now, versions, idem>>

Expired(version) == version.expiry # Never /\ version.expiry <= now

\* Any unexpired version of a live key may be made active, older ones too.
ActivateVersion(k, n) ==
  /\ n \in DOMAIN versions[k]
  /\ ~Expired(versions[k][n])
  /\ Usable(k)
  /\ keys' = [keys EXCEPT ![k].active = n]
  /\ UNCHANGED <<now, versions, idem>>

\* Mutant: keyExists is not asked, so a deleted key's dates still change.
ExpireVersionOfAny(k, n, e) ==
  /\ n \in DOMAIN versions[k]
  /\ \/ versions[k][n].expiry = e
     \/ versions[k][n].rev < MaxRevision
  /\ versions' = [versions EXCEPT ![k][n].expiry = e,
                    ![k][n].rev = IF versions[k][n].expiry = e THEN @ ELSE @ + 1]
  /\ UNCHANGED <<now, keys, idem>>

\* expiry_revision moves exactly when the date does.
ExpireVersion(k, n, e) ==
  /\ Usable(k)
  /\ n \in DOMAIN versions[k]
  /\ \/ versions[k][n].expiry = e
     \/ versions[k][n].rev < MaxRevision
  /\ versions' = [versions EXCEPT ![k][n].expiry = e,
                    ![k][n].rev = IF versions[k][n].expiry = e THEN @ ELSE @ + 1]
  /\ UNCHANGED <<now, keys, idem>>

\* Mutant: the boundary second is cleaned too.
CleanIdempotencyEarly ==
  /\ idem' = [i \in IdemIds |->
                IF idem[i] # NoRow /\ idem[i].created + IdemTTL <= now
                THEN NoRow ELSE idem[i]]
  /\ UNCHANGED <<now, keys, versions>>

\* DELETE FROM idempotency WHERE created_at < now-86400.
CleanIdempotency ==
  /\ idem' = [i \in IdemIds |->
                IF idem[i] # NoRow /\ idem[i].created + IdemTTL < now
                THEN NoRow ELSE idem[i]]
  /\ UNCHANGED <<now, keys, versions>>

Tick ==
  /\ now < MaxTime
  /\ now' = now + 1
  /\ UNCHANGED <<keys, versions, idem>>

\* The handlers that change a key; each goes on to cancelStaleNotifications.
KeyMutation ==
  \E k \in Keys :
    \/ \E v \in Values, e \in Expiries \cup {Never}, h \in IdemIds \cup {NoHeader} :
         PutKeyNew(k, v, e, h)
    \/ \E d \in BOOLEAN : PatchKey(k, d)
    \/ DeleteKey(k)
    \/ \E n \in 1 .. MaxVersions : ActivateVersion(k, n)
    \/ \E n \in 1 .. MaxVersions, e \in Expiries \cup {Never} : ExpireVersion(k, n, e)

PutKeyAgain ==
  \E k \in Keys, v \in Values, e \in Expiries \cup {Never}, h \in IdemIds \cup {NoHeader} :
    PutKeyUnchanged(k, v, e, h)

KeyNext == KeyMutation \/ PutKeyAgain \/ CleanIdempotency \/ Tick

KeySpec == KeyInit /\ [][KeyNext]_keyVars

---------------------------------------------------------------------------
(***************************************************************************)
(* Properties.                                                             *)
(***************************************************************************)

\* "Within 24 hours the server creates a version only once" (README, CLI): two
\* versions written under one Idempotency-Key lie more than IdemTTL apart,
\* whatever keys, contents, deletions and clean-ups came between them.
IdemOnce ==
  \A k1, k2 \in Keys : \A n1 \in DOMAIN versions[k1], n2 \in DOMAIN versions[k2] :
    LET a == versions[k1][n1]
        b == versions[k2][n2]
    IN  <<k1, n1>> # <<k2, n2>> /\ a.by = b.by /\ a.by # NoHeader
          => a.created + IdemTTL < b.created \/ b.created + IdemTTL < a.created

\* A replayed answer is true: the version it names exists and was made by the
\* very request that is answered, though it need not be active any more.
ReplayHonest ==
  \A i \in IdemIds : idem[i] # NoRow =>
    LET row == idem[i]
        k   == row.fingerprint.key
    IN  /\ row.number \in DOMAIN versions[k]
        /\ versions[k][row.number].asked = row.fingerprint
        /\ versions[k][row.number].by = i

\* What no handler may do to the past: a version keeps its text, its number and
\* its maker; one expiry revision never names two dates and revisions never run
\* backwards; and a deleted key is frozen, versions included.
HistoryStep ==
  \A k \in Keys :
    /\ \A n \in DOMAIN versions[k] :
         /\ n \in DOMAIN versions'[k]
         /\ LET old == versions[k][n]
                new == versions'[k][n]
            IN  /\ new.value = old.value /\ new.created = old.created
                /\ new.by = old.by /\ new.asked = old.asked
                /\ new.rev >= old.rev
                /\ new.expiry # old.expiry => new.rev > old.rev
    /\ keys[k].deleted => keys'[k] = keys[k] /\ versions'[k] = versions[k]

HistoryKept == [][HistoryStep]_keyVars
===========================================================================

------------------------------ MODULE Runtime ------------------------------
(***************************************************************************)
(* POST /v1/runtime/github-actions/resolve (internal/vault/runtime.go): a  *)
(* workflow shows an OIDC token and asks for the values of some keys.  The *)
(* token is verified first; then, in one transaction, the request is       *)
(* checked against keys, policies and the record of earlier uses, and      *)
(* the values are handed out.  Between the two the call waits for the only *)
(* database connection, so handlers, the clean-up, other calls and the     *)
(* clock may come first.                                                   *)
(*                                                                         *)
(* A request maps environment names to keys.  Its fingerprint and that of  *)
(* the token (HMACs) are the request and the token themselves.             *)
(***************************************************************************)
EXTENDS AccessRules

CONSTANTS
  Callers,      \* bound: concurrent calls
  Tokens,       \* tokens, by jti
  TokenClaims,  \* what each says of its workflow
  TokenExp,     \* its exp
  References,   \* requests: functions from environment names to keys
  Leeway,       \* 30 s: verify, and expires_at of a record
  RetryWindow,  \* 60 s
  MaxAttempts   \* 3

ASSUME RuntimeAssumption ==
  /\ TokenClaims \in [Tokens -> Claims]
  /\ TokenExp \in [Tokens -> Nat]
  /\ \A q \in References : \A n \in DOMAIN q : q[n] \in Keys
  /\ Leeway \in Nat /\ RetryWindow \in Nat
  /\ MaxAttempts \in Nat \ {0}

VARIABLES
  calls,      \* verified calls that have not reached their transaction
  records,    \* table oidc_requests
  delivered   \* history: what was handed out for each token, in order

runtimeVars == <<calls, records, delivered>>
allVars == <<keyVars, accessVars, runtimeVars>>

\* The version of each key, 0 for keys not asked for.
Answers == [Keys -> 0 .. MaxVersions]
Call    == [token : Tokens, refs : References]
Record  == [refs : References, versions : Answers, first : Nat, attempts : Nat, expires : Nat]
Answer  == [at : Nat, refs : References, versions : Answers]
NoCall   == [token |-> "none"]
NoRecord == [attempts |-> 0]

RuntimeTypeOK ==
  /\ TypeOK /\ AccessTypeOK
  /\ calls \in [Callers -> Call \cup {NoCall}]
  /\ records \in [Tokens -> Record \cup {NoRecord}]
  /\ delivered \in [Tokens -> Seq(Answer)]

RuntimeInit ==
  /\ KeyInit /\ AccessInit
  /\ calls = [c \in Callers |-> NoCall]
  /\ records = [t \in Tokens |-> NoRecord]
  /\ delivered = [t \in Tokens |-> << >>]

---------------------------------------------------------------------------
\* verify: exp is checked with the leeway, against the clock of this moment.
Verify(c, t, q) ==
  /\ calls[c] = NoCall
  /\ now < TokenExp[t] + Leeway
  /\ calls' = [calls EXCEPT ![c] = [token |-> t, refs |-> q]]
  /\ UNCHANGED <<keyVars, accessVars, records, delivered>>

KeysOf(q) == {q[n] : n \in DOMAIN q}

\* What every name of a request needs now, first time or not.
Readable(k, t) ==
  /\ KeyExists(k) /\ ~keys[k].disabled
  /\ ~Expired(ActiveVersion(k))
  /\ Allowed(k, TokenClaims[t])

Deliver(t, q, answer) ==
  delivered' = [delivered EXCEPT ![t] =
                  Append(@, [at |-> now, refs |-> q, versions |-> answer])]

\* Mutant: one readable name is enough for the whole request.
FirstAnswerSome(c) ==
  LET t == calls[c].token
      q == calls[c].refs
      answer == [k \in Keys |-> IF k \in KeysOf(q) THEN keys[k].active ELSE 0]
  IN  /\ calls[c] # NoCall
      /\ records[t] = NoRecord
      /\ \A k \in KeysOf(q) : KeyExists(k)
      /\ \E k \in KeysOf(q) : Readable(k, t)
      /\ records' = [records EXCEPT ![t] =
                       [refs |-> q, versions |-> answer, first |-> now, attempts |-> 1,
                        expires |-> TokenExp[t] + Leeway]]
      /\ Deliver(t, q, answer)
      /\ calls' = [calls EXCEPT ![c] = NoCall]
      /\ UNCHANGED <<keyVars, accessVars>>

\* The first use of a token pins the versions that are active now.
FirstAnswer(c) ==
  LET t == calls[c].token
      q == calls[c].refs
      answer == [k \in Keys |-> IF k \in KeysOf(q) THEN keys[k].active ELSE 0]
  IN  /\ calls[c] # NoCall
      /\ records[t] = NoRecord
      /\ \A k \in KeysOf(q) : Readable(k, t)
      /\ records' = [records EXCEPT ![t] =
                       [refs |-> q, versions |-> answer, first |-> now, attempts |-> 1,
                        expires |-> TokenExp[t] + Leeway]]
      /\ Deliver(t, q, answer)
      /\ calls' = [calls EXCEPT ![c] = NoCall]
      /\ UNCHANGED <<keyVars, accessVars>>

\* Mutant: a retry is not counted.
RetryAnswerUncounted(c) ==
  LET t == calls[c].token
      q == calls[c].refs
      r == records[t]
  IN  /\ calls[c] # NoCall
      /\ r # NoRecord
      /\ r.refs = q /\ r.attempts < MaxAttempts /\ now <= r.first + RetryWindow
      /\ \A k \in KeysOf(q) : Readable(k, t) /\ ~Expired(versions[k][r.versions[k]])
      /\ Deliver(t, q, r.versions)
      /\ calls' = [calls EXCEPT ![c] = NoCall]
      /\ UNCHANGED <<keyVars, accessVars, records>>

\* Mutant: a retry hands out what is active by now.
RetryAnswerUnpinned(c) ==
  LET t == calls[c].token
      q == calls[c].refs
      r == records[t]
  IN  /\ calls[c] # NoCall
      /\ r # NoRecord
      /\ r.refs = q /\ r.attempts < MaxAttempts /\ now <= r.first + RetryWindow
      /\ \A k \in KeysOf(q) : Readable(k, t)
      /\ records' = [records EXCEPT ![t].attempts = @ + 1]
      /\ Deliver(t, q, [k \in Keys |-> IF k \in KeysOf(q) THEN keys[k].active ELSE 0])
      /\ calls' = [calls EXCEPT ![c] = NoCall]
      /\ UNCHANGED <<keyVars, accessVars>>

\* A later use: the same request, not too often, not too late; every key must
\* still be readable, and the pinned versions, not the active ones, are given.
RetryAnswer(c) ==
  LET t == calls[c].token
      q == calls[c].refs
      r == records[t]
  IN  /\ calls[c] # NoCall
      /\ r # NoRecord
      /\ r.refs = q /\ r.attempts < MaxAttempts /\ now <= r.first + RetryWindow
      /\ \A k \in KeysOf(q) : Readable(k, t) /\ ~Expired(versions[k][r.versions[k]])
      /\ records' = [records EXCEPT ![t].attempts = @ + 1]
      /\ Deliver(t, q, r.versions)
      /\ calls' = [calls EXCEPT ![c] = NoCall]
      /\ UNCHANGED <<keyVars, accessVars>>

\* One name fails and the whole request does; so it does if a value cannot be
\* decrypted, all exceed 256 KiB, the audit cannot be written or the client left.
Refuse(c) ==
  /\ calls[c] # NoCall
  /\ calls' = [calls EXCEPT ![c] = NoCall]
  /\ UNCHANGED <<keyVars, accessVars, records, delivered>>

\* cleanup: DELETE FROM oidc_requests WHERE expires_at<now, and idempotency rows.
CleanRecords ==
  /\ records' = [t \in Tokens |->
                   IF records[t] # NoRecord /\ records[t].expires < now
                   THEN NoRecord ELSE records[t]]
  /\ CleanIdempotency
  /\ UNCHANGED <<accessVars, calls, delivered>>

RuntimeNext ==
  \/ \E c \in Callers, t \in Tokens, q \in References : Verify(c, t, q)
  \/ \E c \in Callers : FirstAnswer(c) \/ RetryAnswer(c) \/ Refuse(c)
  \/ CleanRecords
  \/ AccessNext /\ UNCHANGED runtimeVars
  \/ Tick /\ UNCHANGED <<accessVars, runtimeVars>>

RuntimeSpec == RuntimeInit /\ [][RuntimeNext]_allVars

---------------------------------------------------------------------------
(***************************************************************************)
(* Properties.                                                             *)
(***************************************************************************)

\* While its record is kept, until exp plus the leeway, a token is answered at
\* most MaxAttempts times, by however many concurrent and repeated calls.
AtMostCap ==
  \A t \in Tokens : Len(delivered[t]) > MaxAttempts =>
    delivered[t][MaxAttempts + 1].at > TokenExp[t] + Leeway

\* In that time all answers to a token are one answer: same request, same
\* versions though the key was rotated in between, all within RetryWindow.
OneAnswer ==
  \A t \in Tokens : \A i \in DOMAIN delivered[t] :
    LET first == delivered[t][1]
        later == delivered[t][i]
    IN  later.at <= TokenExp[t] + Leeway =>
          /\ later.refs = first.refs /\ later.versions = first.versions
          /\ later.at <= first.at + RetryWindow

\* The record counts what was handed out and remembers what it was; a record
\* that is gone had outlived the token.
RecordTrue ==
  \A t \in Tokens :
    LET n == Len(delivered[t])
    IN  IF records[t] = NoRecord
        THEN n > 0 => TokenExp[t] + Leeway < now
        ELSE /\ records[t].attempts <= n
             /\ records[t].attempts < n => TokenExp[t] + Leeway < now
             /\ delivered[t][n].versions = records[t].versions

\* The cap, and the record it rests on.
RetryCap == AtMostCap /\ RecordTrue

\* Revocation is immediate for calls already under way: what is handed out is,
\* at that moment, the unexpired version of a key that is enabled, not deleted,
\* itself unexpired, and allowed by a policy in force.
AnswerStep ==
  \A t \in Tokens : Len(delivered'[t]) > Len(delivered[t]) =>
    LET answer == delivered'[t][Len(delivered'[t])]
    IN  \A k \in KeysOf(answer.refs) :
          /\ ~keys[k].disabled /\ ~keys[k].deleted
          /\ ~Expired(versions[k][keys[k].active])
          /\ ~Expired(versions[k][answer.versions[k]])
          /\ \E p \in Policies : /\ ~policies[p].disabled
                                 /\ LET rule == specs[p][Len(specs[p])]
                                    IN  TargetMatches(rule, k) /\ ClaimsMatch(rule, TokenClaims[t])

AnswerCurrent == [][AnswerStep]_allVars

\* docs/design.md, Runtime, step 7: within 60 seconds a token yields at most
\* three successful deliveries in all.
DocumentedCap ==
  \A t \in Tokens : \A i \in DOMAIN delivered[t] :
    i + MaxAttempts \in DOMAIN delivered[t] =>
      delivered[t][i].at + RetryWindow < delivered[t][i + MaxAttempts].at
============================================================================

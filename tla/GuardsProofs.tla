----------------------------- MODULE GuardsProofs -----------------------------
(***************************************************************************)
(* Proofs about Jwks and RateLimit, for any callers, keys, limits and      *)
(* times.                                                                  *)
(*                                                                         *)
(* Whether a signing key may be used, or a caller refused, is decided from *)
(* the cache; the properties speak of what GitHub publishes.  SetTrue ties *)
(* the two: what a set names and is no longer published was withdrawn      *)
(* after the set was asked for, what it does not name was added after.     *)
(***************************************************************************)
EXTENDS MCGuards, SequenceTheorems, FiniteSetTheorems, TLAPS

\* A set asked for at a moment differs from what is published only by what
\* changed since.
SetTrue(set, at) == \A k \in Kids : (k \in set) # (k \in published) => at <= changed[k]

FetchSound ==
  fetch # NoFetch =>
    /\ fetch.start <= now /\ now <= fetch.start + HttpTimeout
    /\ lastAttempt = fetch.start
    /\ fetch.seen # {} => SetTrue(fetch.seen, fetch.start)
    /\ ~Hit(calls[fetch.by].kid)

CacheSound ==
  /\ good = [keys |-> cached, at |-> fetched]
  /\ fetched <= now /\ SetTrue(cached, fetched)
  /\ \A k \in Kids : changed[k] <= now

\* How the last refresh ended.
AttemptEnded ==
  fetch = NoFetch /\ lastAttempt # Zero => lastAttempt <= failed \/ fetched = lastAttempt

JwksInv == JwksTypeOK /\ FetchSound /\ CacheSound /\ AttemptEnded

---------------------------------------------------------------------------
\* The numbers and the rows, by name.
LEMMA JwksNumbers ==
  ASSUME JwksTypeOK
  PROVE  /\ now \in Nat \ {0} /\ fetched \in Nat /\ lastAttempt \in Nat /\ failed \in Nat
         /\ \A k \in Kids : changed[k] \in Nat
         /\ Lifetime \in Nat /\ Throttle \in Nat /\ HttpTimeout \in Nat
         /\ Throttle <= Lifetime /\ HttpTimeout < Lifetime
         /\ fetch # NoFetch => fetch \in [by : Callers, start : 1 .. MaxTime, seen : SUBSET Kids]
         /\ \A c \in Callers : /\ calls[c] \in [state : {"idle", "wait", "fetch"}, kid : Kids,
                                                answer : {None, "key", "refused"}]
                               /\ fetch.by = c => fetch # NoFetch /\ calls[c].state = "fetch"
  BY JwksAssumption DEF JwksTypeOK, NoFetch, None

\* A call that has ended, with whichever answer.
LEMMA IdleIsCall ==
  ASSUME NEW a \in {None, "key", "refused"}
  PROVE  Idle(a) \in [state : {"idle"}, kid : Kids, answer : {a}]
<1>1. (CHOOSE k \in Kids : TRUE) \in Kids
  BY JwksAssumption
<1> QED
  BY <1>1 DEF Idle

\* An empty cache is true of whatever GitHub publishes.
LEMMA JwksInitInv == JwksInit => JwksInv
<1> SUFFICES ASSUME JwksInit PROVE JwksInv
  OBVIOUS
<1>1. Idle(None) \in [state : {"idle"}, kid : Kids, answer : {None}]
  BY IdleIsCall
<1>2. \A c \in Callers : calls[c] = Idle(None) /\ calls[c].state = "idle" /\ fetch.by # c
  BY <1>1, JwksAssumption DEF JwksInit, NoFetch, None
<1>3. MaxTime \in Nat \ {0}
  BY JwksAssumption
<1>4. JwksTypeOK
  BY <1>1, <1>2, <1>3 DEF JwksInit, JwksTypeOK, Zero
<1>5. FetchSound /\ CacheSound /\ AttemptEnded
  BY DEF JwksInit, FetchSound, CacheSound, AttemptEnded, SetTrue, Zero
<1> QED
  BY <1>4, <1>5 DEF JwksInv

\* A caller comes or is answered without a refresh: the cache, the refresh under
\* way and what GitHub publishes stay as they are.
LEMMA CallOnly ==
  ASSUME JwksInv, NEW c \in Callers, fetch.by # c,
         NEW row \in [state : {"idle", "wait"}, kid : Kids, answer : {None, "key", "refused"}],
         calls' = [calls EXCEPT ![c] = row],
         UNCHANGED <<now, published, changed, cached, fetched, lastAttempt, fetch, failed, good>>
  PROVE  JwksInv'
<1> USE DEF JwksInv
<1>1. /\ calls' \in [Callers -> [state : {"idle", "wait", "fetch"}, kid : Kids,
                                answer : {None, "key", "refused"}]]
      /\ calls'[c] = row /\ \A d \in Callers \ {c} : calls'[d] = calls[d]
  BY DEF JwksTypeOK
<1>2. JwksTypeOK'
  BY <1>1 DEF JwksTypeOK
<1>3. FetchSound'
  <2>1. fetch # NoFetch => fetch.by \in Callers \ {c}
    BY JwksNumbers
  <2> QED
    BY <1>1, <2>1 DEF FetchSound, SetTrue, Hit
<1>4. CacheSound' /\ AttemptEnded'
  BY DEF CacheSound, AttemptEnded, SetTrue
<1> QED
  BY <1>2, <1>3, <1>4

\* Ask, FromCache and TooSoon.
LEMMA WithoutRefreshInv ==
  ASSUME JwksInv, NEW c \in Callers,
         (\E k \in Kids : Ask(c, k)) \/ FromCache(c) \/ TooSoon(c)
  PROVE  JwksInv'
<1>1. calls[c].state \in {"idle", "wait"} /\ fetch.by # c
  BY JwksNumbers DEF JwksInv, Ask, FromCache, TooSoon, MayLock
<1>2. /\ Idle("key") \in [state : {"idle", "wait"}, kid : Kids, answer : {None, "key", "refused"}]
      /\ Idle("refused") \in [state : {"idle", "wait"}, kid : Kids, answer : {None, "key", "refused"}]
  BY IdleIsCall
<1>3. ASSUME NEW k \in Kids, Ask(c, k)
      PROVE  JwksInv'
  BY <1>1, <1>3, CallOnly DEF Ask
<1>4. CASE FromCache(c)
  BY <1>1, <1>2, <1>4, CallOnly DEF FromCache, Answered
<1>5. CASE TooSoon(c)
  BY <1>1, <1>2, <1>5, CallOnly DEF TooSoon, Answered
<1> QED
  BY <1>3, <1>4, <1>5

\* A refresh begins with what is published now, and for a key the cache lacks.
LEMMA RefreshInv ==
  ASSUME JwksInv, NEW c \in Callers, Refresh(c)
  PROVE  JwksInv'
<1> USE DEF JwksInv
<1>1. /\ fetch = NoFetch /\ calls[c].state = "wait" /\ ~Hit(calls[c].kid)
      /\ lastAttempt' = now /\ calls' = [calls EXCEPT ![c].state = "fetch"]
      /\ fetch' = [by |-> c, start |-> now, seen |-> {}]
      /\ UNCHANGED <<now, published, changed, cached, fetched, failed, good>>
  BY DEF Refresh, MayLock
<1>2. /\ calls' \in [Callers -> [state : {"idle", "wait", "fetch"}, kid : Kids,
                                answer : {None, "key", "refused"}]]
      /\ calls'[c].state = "fetch" /\ calls'[c].kid = calls[c].kid
      /\ \A d \in Callers \ {c} : calls'[d] = calls[d]
  BY <1>1 DEF JwksTypeOK
<1>3. fetch' \in [by : Callers, start : 1 .. MaxTime, seen : SUBSET Kids]
  BY <1>1 DEF JwksTypeOK
<1>4. \A d \in Callers : fetch'.by = d <=> c = d
  BY <1>1
<1>5. \A d \in Callers : calls[d].state # "fetch"
  BY <1>1, JwksNumbers DEF JwksTypeOK
<1>6. JwksTypeOK'
  BY <1>1, <1>2, <1>3, <1>4, <1>5 DEF JwksTypeOK
<1>7. FetchSound'
  <2>1. now \in Nat /\ HttpTimeout \in Nat
    BY JwksNumbers
  <2> QED
    BY <1>1, <1>2, <2>1 DEF FetchSound, Hit
<1>8. CacheSound'
  BY <1>1 DEF CacheSound, SetTrue
<1>9. AttemptEnded'
  BY <1>1 DEF AttemptEnded, NoFetch
<1> QED
  BY <1>6, <1>7, <1>8, <1>9

\* GitHub's answer is what it publishes then.
LEMMA RespondInv ==
  ASSUME JwksInv, NEW c \in Callers, Respond(c)
  PROVE  JwksInv'
<1> USE DEF JwksInv
<1>1. /\ fetch.by = c /\ published # {}
      /\ fetch' = [fetch EXCEPT !.seen = published]
      /\ UNCHANGED <<now, published, changed, cached, fetched, lastAttempt, calls, failed, good>>
  BY DEF Respond
<1>2. fetch # NoFetch /\ fetch \in [by : Callers, start : 1 .. MaxTime, seen : SUBSET Kids]
  BY <1>1, JwksNumbers
<1>3. /\ fetch' \in [by : Callers, start : 1 .. MaxTime, seen : SUBSET Kids]
      /\ fetch'.by = fetch.by /\ fetch'.start = fetch.start /\ fetch'.seen = published
  BY <1>1, <1>2 DEF JwksTypeOK
<1>4. fetch' # NoFetch
  BY <1>3 DEF NoFetch
<1>5. JwksTypeOK'
  BY <1>1, <1>3 DEF JwksTypeOK
<1>6. FetchSound'
  BY <1>1, <1>2, <1>3, <1>4 DEF FetchSound, SetTrue, Hit
<1>7. CacheSound' /\ AttemptEnded'
  BY <1>1, <1>4 DEF CacheSound, SetTrue, AttemptEnded
<1> QED
  BY <1>5, <1>6, <1>7

\* A refresh ends, with a set or without one.
LEMMA EndHttpInv ==
  ASSUME JwksInv, NEW c \in Callers, EndHttp(c)
  PROVE  JwksInv'
<1> USE DEF JwksInv
<1>1. /\ fetch.by = c /\ fetch' = NoFetch
      /\ UNCHANGED <<now, published, changed, lastAttempt>>
      /\ \E a \in {"key", "refused"} : calls' = [calls EXCEPT ![c] = Idle(a)]
  BY DEF EndHttp, Complete, Fail, Answered
<1>2. /\ fetch # NoFetch /\ fetch \in [by : Callers, start : 1 .. MaxTime, seen : SUBSET Kids]
  BY <1>1, JwksNumbers
<1>3. /\ calls' \in [Callers -> [state : {"idle", "wait", "fetch"}, kid : Kids,
                                answer : {None, "key", "refused"}]]
      /\ calls'[c].state = "idle" /\ \A d \in Callers \ {c} : calls'[d] = calls[d]
  BY <1>1, IdleIsCall DEF JwksTypeOK
<1>4. \A d \in Callers : calls'[d].state # "fetch" /\ fetch'.by # d
  BY <1>1, <1>3, JwksAssumption DEF JwksTypeOK, NoFetch, None
<1>5. FetchSound'
  BY <1>1 DEF FetchSound
<1>6. CASE Complete(c)
  <2>1. /\ fetch.seen # {} /\ cached' = fetch.seen /\ fetched' = fetch.start
        /\ good' = [keys |-> fetch.seen, at |-> fetch.start] /\ failed' = failed
    BY <1>6 DEF Complete
  <2>2. /\ fetch.start <= now /\ lastAttempt = fetch.start /\ SetTrue(fetch.seen, fetch.start)
    BY <1>2, <2>1 DEF FetchSound
  <2>3. /\ fetch.seen \subseteq Kids /\ fetch.start \in 0 .. MaxTime
    BY <1>2, JwksAssumption
  <2>4. JwksTypeOK'
    BY <1>1, <1>3, <1>4, <2>1, <2>3 DEF JwksTypeOK
  <2>5. CacheSound'
    BY <1>1, <2>1, <2>2 DEF CacheSound, SetTrue
  <2>6. AttemptEnded'
    BY <1>1, <2>1, <2>2 DEF AttemptEnded
  <2> QED
    BY <1>5, <2>4, <2>5, <2>6
<1>7. CASE Fail(c)
  <2>1. failed' = now /\ UNCHANGED <<cached, fetched, good>>
    BY <1>7 DEF Fail
  <2>2. lastAttempt <= now
    BY <1>2 DEF FetchSound
  <2>3. now \in 0 .. MaxTime
    BY JwksNumbers, JwksAssumption DEF JwksTypeOK
  <2>4. JwksTypeOK'
    BY <1>1, <1>3, <1>4, <2>1, <2>3 DEF JwksTypeOK
  <2>5. CacheSound' /\ AttemptEnded'
    BY <1>1, <2>1, <2>2 DEF CacheSound, SetTrue, AttemptEnded
  <2> QED
    BY <1>5, <2>4, <2>5
<1> QED
  BY <1>6, <1>7 DEF EndHttp

\* GitHub changes its keys: the difference to any set asked for earlier is new.
LEMMA RotateInv ==
  ASSUME JwksInv, NEW keys \in SUBSET Kids, Rotate(keys)
  PROVE  JwksInv'
<1> USE DEF JwksInv
<1>1. /\ published' = keys
      /\ changed' = [k \in Kids |-> IF k \in keys <=> k \in published THEN changed[k] ELSE now]
      /\ UNCHANGED <<now, cached, fetched, lastAttempt, calls, fetch, failed, good>>
  BY DEF Rotate
<1>2. now \in 0 .. MaxTime
  BY JwksNumbers, JwksAssumption DEF JwksTypeOK
<1>3. changed' \in [Kids -> 0 .. MaxTime]
  BY <1>1, <1>2 DEF JwksTypeOK
<1>4. JwksTypeOK'
  BY <1>1, <1>3 DEF JwksTypeOK
<1>5. ASSUME NEW set, NEW at, at <= now, SetTrue(set, at)
      PROVE  \A k \in Kids : (k \in set) # (k \in published') => at <= changed'[k]
  BY <1>1, <1>5 DEF SetTrue
<1>6. FetchSound'
  BY <1>1, <1>5 DEF FetchSound, SetTrue, Hit
<1>7. CacheSound'
  <2>1. \A k \in Kids : changed'[k] <= now
    BY <1>1, <1>2 DEF CacheSound
  <2> QED
    BY <1>1, <1>5, <2>1 DEF CacheSound, SetTrue
<1>8. AttemptEnded'
  BY <1>1 DEF AttemptEnded
<1> QED
  BY <1>4, <1>6, <1>7, <1>8

\* Time passes, but for a refresh under way no further than the HTTP timeout.
LEMMA JwksTickInv ==
  ASSUME JwksInv, Tick
  PROVE  JwksInv'
<1> USE DEF JwksInv
<1>1. /\ now < MaxTime /\ now' = now + 1
      /\ fetch # NoFetch => now < fetch.start + HttpTimeout
      /\ UNCHANGED <<published, changed, cached, fetched, lastAttempt, calls, fetch, failed, good>>
  BY DEF Tick
<1>2. /\ now \in Nat \ {0} /\ now' \in 1 .. MaxTime /\ HttpTimeout \in Nat /\ Lifetime \in Nat
      /\ fetched \in Nat /\ \A k \in Kids : changed[k] \in Nat
      /\ fetch # NoFetch => fetch.start \in Nat
  BY <1>1, JwksNumbers, JwksAssumption DEF JwksTypeOK
<1>3. JwksTypeOK'
  BY <1>1, <1>2 DEF JwksTypeOK
<1>4. FetchSound'
  BY <1>1, <1>2 DEF FetchSound, SetTrue, Hit
<1>5. CacheSound' /\ AttemptEnded'
  BY <1>1, <1>2 DEF CacheSound, SetTrue, AttemptEnded
<1> QED
  BY <1>3, <1>4, <1>5

\* One case per step of a call, of GitHub and of the clock.
LEMMA JwksNextInv == JwksInv /\ [JwksNext]_jwksVars => JwksInv'
<1> SUFFICES ASSUME JwksInv, [JwksNext]_jwksVars
             PROVE  JwksInv'
  OBVIOUS
<1>1. CASE UNCHANGED jwksVars
  BY <1>1 DEF jwksVars, JwksInv, JwksTypeOK, FetchSound, CacheSound, AttemptEnded, SetTrue, Hit
<1> QED
  BY <1>1, WithoutRefreshInv, RefreshInv, RespondInv, EndHttpInv, RotateInv, JwksTickInv
  DEF JwksNext, Lookup

\* So the cache is true at all times.
LEMMA JwksAlways == JwksSpec => []JwksInv
  BY JwksInitInv, JwksNextInv, PTL DEF JwksSpec

---------------------------------------------------------------------------
\* The cache, the calls and the refresh under way are as declared: whoever
\* refreshes, and nobody else, holds the mutex (githubVerifier.key).
THEOREM JwksTypeCorrect == JwksSpec => []JwksTypeOK
  BY JwksAlways, PTL DEF JwksInv

\* A call that ends was made to end by its own caller.
LEMMA WhoEnds ==
  ASSUME JwksInv, [JwksNext]_jwksVars, NEW c \in Callers,
         calls[c].state # "idle", calls'[c].state = "idle"
  PROVE  FromCache(c) \/ TooSoon(c) \/ Complete(c) \/ Fail(c)
<1>1. calls \in [Callers -> [state : {"idle", "wait", "fetch"}, kid : Kids,
                             answer : {None, "key", "refused"}]]
  BY DEF JwksInv, JwksTypeOK
<1>2. ASSUME UNCHANGED calls PROVE FALSE
  BY <1>2
<1>3. ASSUME NEW d \in Callers, \E k \in Kids : Ask(d, k)
      PROVE  FALSE
  BY <1>1, <1>3 DEF Ask
<1>4. ASSUME NEW d \in Callers, Refresh(d)
      PROVE  FALSE
  BY <1>1, <1>4 DEF Refresh
<1>5. ASSUME NEW d \in Callers, FromCache(d) \/ TooSoon(d) \/ Complete(d) \/ Fail(d)
      PROVE  d = c
  BY <1>1, <1>5 DEF FromCache, TooSoon, Complete, Fail, Answered
<1> QED
  BY <1>2, <1>3, <1>4, <1>5
  DEF JwksNext, Lookup, EndHttp, Respond, Rotate, Tick, jwksVars

\* Only a hit and a refresh that found the key answer with one; in both cases the
\* set was asked for less than Lifetime ago.
LEMMA KeyStep ==
  ASSUME JwksInv, [JwksNext]_jwksVars, NEW c \in Callers, Ends(c, "key")
  PROVE  LET k == calls[c].kid IN k \in published \/ now < changed[k] + Lifetime
<1> USE DEF JwksInv
<1> DEFINE k == calls[c].kid
<1>1. k \in Kids /\ changed[k] \in Nat
  BY JwksNumbers
<1>2. calls[c].state # "idle" /\ calls'[c].state = "idle" /\ calls'[c].answer = "key"
  BY DEF Ends
<1>3. CASE FromCache(c)
  <2>1. k \in cached /\ now < fetched + Lifetime
    BY <1>3 DEF FromCache, Hit
  <2>2. k \in published \/ fetched <= changed[k]
    BY <1>1, <2>1 DEF CacheSound, SetTrue
  <2> QED
    BY <1>1, <2>1, <2>2, JwksNumbers
<1>4. CASE Complete(c)
  <2>1. fetch.by = c /\ fetch.seen # {}
    BY <1>4 DEF Complete
  <2>2. fetch # NoFetch /\ fetch.start \in Nat
    <3>1. fetch # NoFetch /\ fetch \in [by : Callers, start : 1 .. MaxTime, seen : SUBSET Kids]
      BY <2>1, JwksNumbers
    <3> QED
      BY <3>1, JwksAssumption
  <2>3. k \in fetch.seen
    <3>1. calls' = [calls EXCEPT ![c] = Idle(IF k \in fetch.seen THEN "key" ELSE "refused")]
      BY <1>4 DEF Complete, Answered
    <3>2. calls'[c] = Idle(IF k \in fetch.seen THEN "key" ELSE "refused")
      BY <3>1 DEF JwksTypeOK
    <3> QED
      BY <1>2, <3>2 DEF Idle
  <2>4. k \in published \/ fetch.start <= changed[k]
    BY <1>1, <2>1, <2>2, <2>3 DEF FetchSound, SetTrue
  <2>5. now <= fetch.start + HttpTimeout
    BY <2>2 DEF FetchSound
  <2> QED
    BY <1>1, <2>2, <2>4, <2>5, JwksNumbers
<1>5. CASE TooSoon(c) \/ Fail(c)
  <2>1. calls' = [calls EXCEPT ![c] = Idle("refused")]
    BY <1>5 DEF TooSoon, Fail, Answered
  <2>2. calls'[c].answer = "refused"
    BY <2>1 DEF JwksTypeOK, Idle
  <2> QED
    BY <1>2, <2>2
<1> QED
  BY <1>2, <1>3, <1>4, <1>5, WhoEnds

\* A refusal: within Throttle of the last attempt, by GitHub's own set, or because
\* the refresh failed this moment; never against a set that could be used.
LEMMA RefusedStep ==
  ASSUME JwksInv, [JwksNext]_jwksVars, NEW c \in Callers, Ends(c, "refused")
  PROVE  NotForOthers(calls[c].kid) /\ OutageBridged(calls[c].kid)
<1> USE DEF JwksInv
<1> DEFINE k == calls[c].kid
<1>1. /\ k \in Kids /\ changed[k] \in Nat /\ now \in Nat \ {0} /\ fetched \in Nat /\ lastAttempt \in Nat
      /\ failed \in Nat /\ Lifetime \in Nat /\ Throttle \in Nat /\ HttpTimeout \in Nat
      /\ Throttle <= Lifetime
  BY JwksNumbers
<1>2. calls[c].state # "idle" /\ calls'[c].state = "idle" /\ calls'[c].answer = "refused"
  BY DEF Ends
<1>3. OutageBridged(k) <=> ~Hit(k)
  BY DEF CacheSound, OutageBridged, Hit
<1>4. CASE FromCache(c)
  <2>1. calls' = [calls EXCEPT ![c] = Idle("key")]
    BY <1>4 DEF FromCache, Answered
  <2>2. calls'[c].answer = "key"
    BY <2>1 DEF JwksTypeOK, Idle
  <2> QED
    BY <1>2, <2>2
<1>5. CASE TooSoon(c)
  <2>1. /\ fetch = NoFetch /\ ~Hit(k) /\ lastAttempt # Zero /\ now < lastAttempt + Throttle
        /\ failed' = failed
    BY <1>5 DEF TooSoon, MayLock, Throttled
  <2>2. CASE lastAttempt <= failed
    BY <1>1, <2>1, <2>2, <1>3 DEF NotForOthers, Zero
  <2>3. CASE fetched = lastAttempt
    <3>1. k \notin cached
      BY <1>1, <2>1, <2>3 DEF Hit
    <3>2. k \notin published \/ fetched <= changed[k]
      BY <1>1, <3>1 DEF CacheSound, SetTrue
    <3> QED
      BY <1>1, <1>3, <2>1, <2>3, <3>2 DEF NotForOthers
  <2> QED
    BY <2>1, <2>2, <2>3 DEF AttemptEnded
<1>6. CASE Complete(c)
  <2>1. fetch.by = c /\ fetch.seen # {}
    BY <1>6 DEF Complete
  <2>2. fetch # NoFetch /\ fetch.start \in Nat
    <3>1. fetch # NoFetch /\ fetch \in [by : Callers, start : 1 .. MaxTime, seen : SUBSET Kids]
      BY <2>1, JwksNumbers
    <3> QED
      BY <3>1, JwksAssumption
  <2>3. k \notin fetch.seen
    <3>1. calls' = [calls EXCEPT ![c] = Idle(IF k \in fetch.seen THEN "key" ELSE "refused")]
      BY <1>6 DEF Complete, Answered
    <3>2. calls'[c] = Idle(IF k \in fetch.seen THEN "key" ELSE "refused")
      BY <3>1 DEF JwksTypeOK
    <3> QED
      BY <1>2, <3>2 DEF Idle
  <2>4. k \notin published \/ fetch.start <= changed[k]
    BY <1>1, <2>1, <2>2, <2>3 DEF FetchSound, SetTrue
  <2>5. now <= fetch.start + HttpTimeout /\ ~Hit(k)
    BY <2>1, <2>2 DEF FetchSound
  <2> QED
    BY <1>1, <1>3, <2>2, <2>4, <2>5 DEF NotForOthers
<1>7. CASE Fail(c)
  <2>1. failed' = now /\ fetch.by = c
    BY <1>7 DEF Fail
  <2>2. ~Hit(k)
    BY <2>1, JwksNumbers DEF FetchSound
  <2> QED
    BY <1>1, <1>3, <2>1, <2>2 DEF NotForOthers, Zero
<1> QED
  BY <1>2, <1>4, <1>5, <1>6, <1>7, WhoEnds

\* A key that is used was published by GitHub less than Lifetime before, whatever is
\* rotated while a set is cached or on its way (githubVerifier.key).
THEOREM KeysAreRecent == JwksSpec => KeyRecent
<1>1. JwksInv /\ [JwksNext]_jwksVars =>
        \A c \in Callers : Ends(c, "key") =>
          LET k == calls[c].kid IN k \in published \/ now < changed[k] + Lifetime
  BY KeyStep
<1> QED
  BY <1>1, JwksAlways, PTL DEF JwksSpec, KeyRecent

\* Nobody is refused for the unknown keys of others, nor while the last set is good
\* (githubVerifier.key), for any callers and any order of refreshes and failures.
THEOREM RefusalsHaveCause == JwksSpec => RefusedForCause
<1>1. JwksInv /\ [JwksNext]_jwksVars =>
        \A c \in Callers : Ends(c, "refused") =>
          NotForOthers(calls[c].kid) /\ OutageBridged(calls[c].kid)
  BY RefusedStep
<1> QED
  BY <1>1, JwksAlways, PTL DEF JwksSpec, RefusedForCause

---------------------------------------------------------------------------
(***************************************************************************)
(* The limiter.  Its properties look at a minute that may lie across two   *)
(* of the fixed windows, which only the table knows and forgets.  RateInv  *)
(* says that the tries can be divided into such windows: apart from each   *)
(* other, none with more admitted than the limit, the last of each key     *)
(* being the one the table counts.                                         *)
(***************************************************************************)
\* The tries of a key in the window that started at s, if w says when each did.
Tries(k, s, w) == {j \in 1 .. Len(log) : log[j].key = k /\ w[j] = s}

\* Every try is in its window, the log is in order, and the windows of a key do not
\* touch.
Apart(w) ==
  /\ \A i \in 1 .. Len(log) : w[i] <= log[i].at /\ log[i].at <= w[i] + Window /\ log[i].at <= clock
  /\ \A i, j \in 1 .. Len(log) : i <= j => log[i].at <= log[j].at
  /\ \A i, j \in 1 .. Len(log) : log[i].key = log[j].key /\ w[i] < w[j] => w[i] + Window < w[j]

LimitHolds(w) ==
  \A i \in 1 .. Len(log) :
    Cardinality({j \in Tries(log[i].key, w[i], w) : log[j].ok}) <= Limit[log[i].key]

\* The table speaks of the last window of each of its keys, which began with a try
\* that was admitted or found the table full; what it dropped is over.
TableTrue(w) ==
  /\ \A k \in DOMAIN limits : \E s \in 0 .. clock :
       /\ limits[k].until = s + Window
       /\ limits[k].count = Cardinality(Tries(k, s, w))
       /\ \A j \in 1 .. Len(log) : log[j].key = k => w[j] <= s
       /\ \E j \in Tries(k, s, w) : log[j].ok \/ Crowded(j)
  /\ \A j \in 1 .. Len(log) : log[j].key \notin DOMAIN limits => w[j] + Window < clock

WindowsExist == \E w \in [1 .. Len(log) -> Nat] : Apart(w) /\ LimitHolds(w) /\ TableTrue(w)

RateInv == RateTypeOK /\ RefusedFairly /\ NotShutOut /\ WindowsExist

\* The log and its entries.
LEMMA LogNumbers ==
  ASSUME RateTypeOK
  PROVE  /\ Len(log) \in Nat /\ clock \in Nat /\ Window \in Nat /\ Capacity \in Nat
         /\ \A i \in 1 .. Len(log) : /\ log[i].at \in Nat /\ log[i].key \in LimitKeys
                                     /\ log[i].ok \in BOOLEAN
                                     /\ Limit[log[i].key] \in Nat \ {0}
         /\ DOMAIN log = 1 .. Len(log)
<1>1. Len(log) \in Nat /\ DOMAIN log = 1 .. Len(log)
  BY LenProperties DEF RateTypeOK
<1>2. \A i \in 1 .. Len(log) : log[i] \in Call
  BY <1>1, ElementOfSeq DEF RateTypeOK
<1>3. clock \in Nat /\ Window \in Nat /\ Capacity \in Nat
  BY RateAssumption DEF RateTypeOK
<1> QED
  BY <1>1, <1>2, <1>3, RateAssumption DEF Call

\* Any set of tries is finite.
LEMMA TriesFinite ==
  ASSUME NEW n \in Nat, NEW S \in SUBSET (1 .. n)
  PROVE  IsFiniteSet(S) /\ Cardinality(S) \in Nat
<1>1. IsFiniteSet(1 .. n)
  BY FS_Interval
<1>2. IsFiniteSet(S)
  BY <1>1, FS_Subset
<1> QED
  BY <1>2, FS_CardinalityType

\* So are the keys of a set of tries.
LEMMA KeysFinite ==
  ASSUME NEW n \in Nat, NEW S \in SUBSET (1 .. n), NEW seq
  PROVE  IsFiniteSet({seq[j].key : j \in S})
<1> DEFINE f == [j \in S |-> seq[j].key]
           T == {seq[j].key : j \in S}
<1>1. f \in Surjection(S, T)
  <2>1. f \in [S -> T]
    OBVIOUS
  <2>2. \A x \in T : \E j \in S : f[j] = x
    OBVIOUS
  <2> QED
    BY <2>1, <2>2 DEF Surjection
<1>2. IsFiniteSet(S)
  BY TriesFinite
<1> HIDE DEF f, T
<1>3. IsFiniteSet(T)
  BY <1>1, <1>2, FS_Surjection
<1> QED
  BY <1>3 DEF T

\* A new process has neither table nor tries.
LEMMA EmptyIsTrue ==
  (limits = NoLimits /\ log = << >> /\ clock \in 0 .. MaxClock) => RateInv
<1> SUFFICES ASSUME limits = NoLimits, log = << >>, clock \in 0 .. MaxClock PROVE RateInv
  OBVIOUS
<1>1. Len(log) = 0 /\ log \in Seq(Call) /\ DOMAIN limits = {} /\ 1 .. 0 = {}
  BY EmptySeq DEF NoLimits
<1>2. RateTypeOK
  BY <1>1, RateAssumption DEF RateTypeOK
<1>3. RefusedFairly /\ NotShutOut
  BY <1>1 DEF RefusedFairly, NotShutOut
<1>4. PICK w : w = [i \in 1 .. 0 |-> 0]
  OBVIOUS
<1>5. w \in [1 .. Len(log) -> Nat] /\ Apart(w) /\ LimitHolds(w) /\ TableTrue(w)
  BY <1>1, <1>4 DEF Apart, LimitHolds, TableTrue
<1> QED
  BY <1>2, <1>3, <1>5 DEF RateInv, WindowsExist

\* A new try changes nothing of the older ones' windows.
LEMMA OldTries ==
  ASSUME RateTypeOK, NEW e \in Call, log' = Append(log, e)
  PROVE  /\ log' \in Seq(Call) /\ Len(log') = Len(log) + 1 /\ log'[Len(log) + 1] = e
         /\ \A i \in 1 .. Len(log) : /\ log'[i] = log[i]
                                     /\ LastWindow(i)' = LastWindow(i)
                                     /\ OwnTries(i)' = OwnTries(i)
                                     /\ Crowded(i)' = Crowded(i)
<1>1. /\ log' \in Seq(Call) /\ Len(log') = Len(log) + 1 /\ log'[Len(log) + 1] = e
      /\ \A i \in 1 .. Len(log) : log'[i] = log[i]
  BY AppendProperties DEF RateTypeOK
<1>2. ASSUME NEW i \in 1 .. Len(log)
      PROVE  /\ LastWindow(i)' = LastWindow(i)
             /\ OwnTries(i)' = OwnTries(i)
             /\ Crowded(i)' = Crowded(i)
  <2>1. \A j \in 1 .. i : log'[j] = log[j]
    BY <1>1, LogNumbers
  <2>2. LastWindow(i)' = LastWindow(i)
    BY <2>1, LogNumbers DEF LastWindow
  <2>3. \A j \in LastWindow(i) : log'[j] = log[j]
    BY <2>1 DEF LastWindow
  <2>4. OwnTries(i)' = OwnTries(i)
    BY <1>1, <2>2, <2>3 DEF OwnTries
  <2>5. {log'[j].key : j \in LastWindow(i)'} = {log[j].key : j \in LastWindow(i)}
    BY <2>2, <2>3
  <2>6. Crowded(i)' = Crowded(i)
    BY <2>5 DEF Crowded
  <2> QED
    BY <2>2, <2>4, <2>6
<1> QED
  BY <1>1, <1>2

\* The window a request of k falls into: the one the table holds, or a new one.
LEMMA WindowStart ==
  ASSUME RateTypeOK, NEW w \in [1 .. Len(log) -> Nat], Apart(w), TableTrue(w), NEW k \in LimitKeys
  PROVE  \E s \in 0 .. clock :
           /\ clock <= s + Window
           /\ Counted(k) = [count |-> Cardinality(Tries(k, s, w)) + 1, until |-> s + Window]
           /\ \A j \in 1 .. Len(log) : log[j].key = k => w[j] = s \/ w[j] + Window < s
           /\ Tries(k, s, w) = {} \/ \E j \in Tries(k, s, w) : log[j].ok \/ Crowded(j)
<1>1. /\ Len(log) \in Nat /\ clock \in Nat /\ Window \in Nat
      /\ \A j \in 1 .. Len(log) : w[j] \in Nat
  BY LogNumbers
<1>2. CASE k \in Kept
  <2>1. k \in DOMAIN limits /\ clock <= limits[k].until /\ limits[k] \in Entry
    BY <1>2 DEF Kept, RateTypeOK
  <2>2. PICK s \in 0 .. clock :
          /\ limits[k].until = s + Window
          /\ limits[k].count = Cardinality(Tries(k, s, w))
          /\ \A j \in 1 .. Len(log) : log[j].key = k => w[j] <= s
          /\ \E j \in Tries(k, s, w) : log[j].ok \/ Crowded(j)
    BY <2>1 DEF TableTrue
  <2>3. Counted(k) = [count |-> Cardinality(Tries(k, s, w)) + 1, until |-> s + Window]
    BY <1>2, <2>1, <2>2 DEF Counted, Entry
  <2>4. PICK m \in 1 .. Len(log) : log[m].key = k /\ w[m] = s
    BY <2>2 DEF Tries
  <2>5. ASSUME NEW j \in 1 .. Len(log), log[j].key = k
        PROVE  w[j] = s \/ w[j] + Window < s
    <3>1. w[j] <= s /\ w[j] \in Nat /\ s \in Nat
      BY <1>1, <2>2, <2>5
    <3>2. w[j] < w[m] => w[j] + Window < w[m]
      BY <2>4, <2>5 DEF Apart
    <3> QED
      BY <2>4, <3>1, <3>2
  <2> QED
    BY <2>1, <2>2, <2>3, <2>5
<1>3. CASE k \notin Kept
  <2>1. ASSUME NEW j \in 1 .. Len(log), log[j].key = k
        PROVE  w[j] + Window < clock
    <3>1. CASE k \notin DOMAIN limits
      BY <2>1, <3>1 DEF TableTrue
    <3>2. CASE k \in DOMAIN limits
      <4>1. PICK s \in 0 .. clock :
              /\ limits[k].until = s + Window
              /\ \A i \in 1 .. Len(log) : log[i].key = k => w[i] <= s
        BY <3>2 DEF TableTrue
      <4>2. w[j] <= s /\ s \in Nat /\ w[j] \in Nat
        BY <1>1, <2>1, <4>1
      <4>3. ~(clock <= s + Window)
        BY <1>3, <3>2, <4>1 DEF Kept
      <4> QED
        BY <1>1, <4>2, <4>3
    <3> QED
      BY <3>1, <3>2
  <2>2. \A j \in 1 .. Len(log) : log[j].key = k => w[j] # clock
    BY <1>1, <2>1
  <2>3. Tries(k, clock, w) = {}
    BY <2>2 DEF Tries
  <2>4. Counted(k) = [count |-> Cardinality(Tries(k, clock, w)) + 1, until |-> clock + Window]
    BY <1>3, <2>3, FS_EmptySet DEF Counted
  <2>5. clock \in 0 .. clock /\ clock <= clock + Window
    BY <1>1
  <2> QED
    BY <2>1, <2>3, <2>4, <2>5
<1> QED
  BY <1>2, <1>3

\* Each key a request leaves in the table was asked for within the last minute.
LEMMA TableIsRecent ==
  ASSUME RateTypeOK, NEW w \in [1 .. Len(log) -> Nat], Apart(w), TableTrue(w),
         NEW k \in LimitKeys, Request(k), Cardinality(Kept \cup {k}) > Capacity,
         NEW n \in Nat, n = Len(log) + 1
  PROVE  Crowded(n)'
<1> DEFINE S == {j \in 1 .. n : log'[j].at + Window >= clock}
           K == {log'[j].key : j \in S}
<1>1. PICK e \in Call : e.key = k /\ e.at = clock /\ log' = Append(log, e)
  <2>1. PICK b \in BOOLEAN : log' = Append(log, [key |-> k, at |-> clock, ok |-> b])
    BY DEF Request, Admitted
  <2>2. [key |-> k, at |-> clock, ok |-> b] \in Call
    BY LogNumbers DEF Call
  <2> QED
    BY <2>1, <2>2
<1>2. /\ log'[n] = e
      /\ \A i \in 1 .. Len(log) : log'[i] = log[i]
  BY <1>1, OldTries
<1>3. /\ Len(log) \in Nat /\ clock \in Nat /\ Window \in Nat /\ Capacity \in Nat
      /\ \A j \in 1 .. Len(log) : w[j] \in Nat /\ log[j].at \in Nat
  BY LogNumbers
<1>4. S = LastWindow(n)'
  BY <1>1, <1>2 DEF LastWindow
<1>5. n \in S
  BY <1>1, <1>2, <1>3
<1>6. ASSUME NEW d \in Kept
      PROVE  d \in K
  <2>1. d \in DOMAIN limits /\ clock <= limits[d].until
    BY DEF Kept
  <2>2. PICK s \in 0 .. clock :
          limits[d].until = s + Window /\ \E j \in Tries(d, s, w) : log[j].ok \/ Crowded(j)
    BY <2>1 DEF TableTrue
  <2>3. PICK j \in 1 .. Len(log) : log[j].key = d /\ w[j] = s
    BY <2>2 DEF Tries
  <2>4. w[j] <= log[j].at
    BY DEF Apart
  <2>5. log[j].at + Window >= clock
    BY <1>3, <2>1, <2>2, <2>3, <2>4
  <2>6. j \in S
    BY <1>2, <1>3, <2>5
  <2> QED
    BY <1>2, <2>3, <2>6
<1>7. Kept \cup {k} \subseteq K
  BY <1>1, <1>2, <1>5, <1>6
<1>8. IsFiniteSet(K)
  <2>1. n \in Nat /\ S \in SUBSET (1 .. n)
    BY <1>3
  <2> QED
    BY <2>1, KeysFinite
<1>9. Cardinality(Kept \cup {k}) <= Cardinality(K) /\ Cardinality(K) \in Nat
      /\ Cardinality(Kept \cup {k}) \in Nat
  <2> HIDE DEF K
  <2>1. IsFiniteSet(Kept \cup {k}) /\ Cardinality(Kept \cup {k}) <= Cardinality(K)
    BY <1>7, <1>8, FS_Subset
  <2> QED
    BY <1>8, <2>1, FS_CardinalityType
<1>10. Cardinality(K) > Capacity
  BY <1>3, <1>9
<1> QED
  BY <1>4, <1>10, RateAssumption DEF Crowded

\* The table can be counted: its keys are among those of the tries.
LEMMA KeptFinite ==
  ASSUME RateTypeOK, NEW w, TableTrue(w), NEW k
  PROVE  Cardinality(Kept \cup {k}) \in Nat
<1>1. IsFiniteSet({log[j].key : j \in 1 .. Len(log)})
  <2>1. Len(log) \in Nat /\ 1 .. Len(log) \in SUBSET (1 .. Len(log))
    BY LogNumbers
  <2> QED
    BY <2>1, KeysFinite
<1>2. Kept \subseteq {log[j].key : j \in 1 .. Len(log)}
  BY DEF Kept, TableTrue, Tries
<1>3. IsFiniteSet(Kept)
  BY <1>1, <1>2, FS_Subset
<1>4. IsFiniteSet(Kept \cup {k})
  BY <1>3, FS_AddElement
<1> QED
  BY <1>4, FS_CardinalityType

\* A request extends the division by its own try, in the window it falls into.
LEMMA RequestInv ==
  ASSUME RateInv, NEW k \in LimitKeys, Request(k)
  PROVE  RateInv'
<1> USE DEF RateInv
<1>0. PICK w \in [1 .. Len(log) -> Nat] : Apart(w) /\ LimitHolds(w) /\ TableTrue(w)
  BY DEF WindowsExist
<1>1. PICK s \in 0 .. clock :
        /\ clock <= s + Window
        /\ Counted(k) = [count |-> Cardinality(Tries(k, s, w)) + 1, until |-> s + Window]
        /\ \A j \in 1 .. Len(log) : log[j].key = k => w[j] = s \/ w[j] + Window < s
        /\ Tries(k, s, w) = {} \/ \E j \in Tries(k, s, w) : log[j].ok \/ Crowded(j)
  BY <1>0, WindowStart
<1>2. /\ Len(log) \in Nat /\ clock \in Nat /\ Window \in Nat /\ Capacity \in Nat /\ s \in Nat
      /\ \A j \in 1 .. Len(log) : /\ w[j] \in Nat /\ log[j].at \in Nat /\ log[j].key \in LimitKeys
                                  /\ log[j].ok \in BOOLEAN /\ Limit[log[j].key] \in Nat
      /\ Limit[k] \in Nat \ {0}
  BY LogNumbers, RateAssumption
<1>3. PICK n : n = Len(log) + 1
  OBVIOUS
<1>4. n \in Nat /\ n \notin 1 .. Len(log) /\ 1 .. n = (1 .. Len(log)) \cup {n}
  BY <1>2, <1>3
<1>5. PICK count : count = Cardinality(Tries(k, s, w)) + 1
  OBVIOUS
<1>6. PICK ok \in BOOLEAN : ok <=> (count <= Limit[k] /\ Cardinality(Kept \cup {k}) <= Capacity)
  OBVIOUS
<1>7. /\ DOMAIN limits' = Kept \cup {k}
      /\ limits'[k] = [count |-> count, until |-> s + Window]
      /\ \A d \in Kept \ {k} : limits'[d] = limits[d]
      /\ log' = Append(log, [key |-> k, at |-> clock, ok |-> ok])
      /\ clock' = clock /\ Len(log) < MaxCalls
  <2>1. PICK table : table = [j \in Kept \cup {k} |-> IF j = k THEN Counted(k) ELSE limits[j]]
    OBVIOUS
  <2>2. /\ limits' = table /\ clock' = clock /\ Len(log) < MaxCalls
        /\ log' = Append(log, [key |-> k, at |-> clock, ok |-> Admitted(k, table)])
    BY <2>1 DEF Request
  <2>3. /\ DOMAIN table = Kept \cup {k}
        /\ table[k] = [count |-> count, until |-> s + Window]
        /\ \A d \in Kept \ {k} : table[d] = limits[d]
    BY <1>1, <1>5, <2>1
  <2>4. Admitted(k, table) = ok
    BY <1>6, <2>3 DEF Admitted
  <2> QED
    BY <2>2, <2>3, <2>4
<1>8. [key |-> k, at |-> clock, ok |-> ok] \in Call
  BY <1>2 DEF Call
<1>9. /\ log' \in Seq(Call) /\ Len(log') = n
      /\ log'[n].key = k /\ log'[n].at = clock /\ log'[n].ok = ok
      /\ \A i \in 1 .. Len(log) : /\ log'[i] = log[i]
                                  /\ LastWindow(i)' = LastWindow(i)
                                  /\ OwnTries(i)' = OwnTries(i)
                                  /\ Crowded(i)' = Crowded(i)
  BY <1>3, <1>7, <1>8, OldTries
<1>10. PICK v : v = [j \in 1 .. n |-> IF j = n THEN s ELSE w[j]]
  OBVIOUS
<1>11. /\ v \in [1 .. n -> Nat] /\ v[n] = s
       /\ \A j \in 1 .. Len(log) : v[j] = w[j]
  BY <1>2, <1>4, <1>10
<1>12. /\ Tries(k, s, v)' = Tries(k, s, w) \cup {n}
       /\ \A d, z : d # k \/ z # s => Tries(d, z, v)' = Tries(d, z, w)
  BY <1>4, <1>9, <1>11 DEF Tries
<1>13. IsFiniteSet(Tries(k, s, w)) /\ Cardinality(Tries(k, s, w)) \in Nat /\ n \notin Tries(k, s, w)
  BY <1>2, <1>4, TriesFinite DEF Tries
<1>14. Cardinality(Tries(k, s, v)') = count /\ count \in Nat
  <2>1. Cardinality(Tries(k, s, w) \cup {n}) = Cardinality(Tries(k, s, w)) + 1
    BY <1>13, FS_AddElement
  <2> QED
    BY <1>5, <1>12, <1>13, <2>1
<1>15. Cardinality(Kept \cup {k}) > Capacity => Crowded(n)'
  BY <1>0, <1>3, <1>4, TableIsRecent
<1>16. Tries(k, s, w) = {} /\ ~ok => Crowded(n)'
  <2> SUFFICES ASSUME Tries(k, s, w) = {}, ~ok PROVE Crowded(n)'
    OBVIOUS
  <2>1. count = 1
    BY <1>5, FS_EmptySet
  <2>2. Cardinality(Kept \cup {k}) \in Nat
    BY <1>0, KeptFinite
  <2> QED
    BY <1>2, <1>6, <1>15, <2>1, <2>2
<1>17. Apart(v)'
  <2>1. \A i \in 1 .. n : v[i] <= log'[i].at /\ log'[i].at <= v[i] + Window /\ log'[i].at <= clock
    <3>1. v[n] <= log'[n].at /\ log'[n].at <= v[n] + Window /\ log'[n].at <= clock
      BY <1>1, <1>2, <1>9, <1>11
    <3>2. \A i \in 1 .. Len(log) :
            v[i] <= log'[i].at /\ log'[i].at <= v[i] + Window /\ log'[i].at <= clock
      BY <1>0, <1>9, <1>11 DEF Apart
    <3> QED
      BY <1>4, <3>1, <3>2
  <2>2. ASSUME NEW i \in 1 .. n, NEW j \in 1 .. n, log'[i].key = log'[j].key, v[i] < v[j]
        PROVE  v[i] + Window < v[j]
    <3>1. CASE i # n /\ j # n
      BY <1>0, <1>4, <1>9, <1>11, <2>2, <3>1 DEF Apart
    <3>2. CASE i # n /\ j = n
      <4>1. i \in 1 .. Len(log) /\ log[i].key = k /\ v[i] = w[i] /\ v[j] = s
        BY <1>4, <1>9, <1>11, <2>2, <3>2
      <4> QED
        BY <1>1, <1>2, <2>2, <4>1
    <3>3. CASE i = n
      <4>1. v[i] = s /\ j # n
        BY <1>2, <1>11, <2>2, <3>3
      <4>2. j \in 1 .. Len(log) /\ log[j].key = k /\ v[j] = w[j]
        BY <1>4, <1>9, <1>11, <2>2, <3>3, <4>1
      <4>3. w[j] = s \/ w[j] + Window < s
        BY <1>1, <4>2
      <4> QED
        BY <1>2, <2>2, <4>1, <4>2, <4>3
    <3> QED
      BY <3>1, <3>2, <3>3
  <2>3. ASSUME NEW i \in 1 .. n, NEW j \in 1 .. n, i <= j
        PROVE  log'[i].at <= log'[j].at
    <3>1. CASE j = n
      <4>1. log'[i].at <= clock
        BY <2>1
      <4> QED
        BY <1>9, <3>1, <4>1
    <3>2. CASE j # n
      <4>1. i \in 1 .. Len(log) /\ j \in 1 .. Len(log)
        BY <1>2, <1>3, <2>3, <3>2
      <4> QED
        BY <1>0, <1>9, <2>3, <4>1 DEF Apart
    <3> QED
      BY <3>1, <3>2
  <2> QED
    BY <1>7, <1>9, <2>1, <2>2, <2>3 DEF Apart
<1>18. LimitHolds(v)'
  <2> SUFFICES ASSUME NEW i \in 1 .. n, NEW d, d = log'[i].key
               PROVE  Cardinality({j \in Tries(d, v[i], v)' : log'[j].ok}) <= Limit[d]
    BY <1>9 DEF LimitHolds, Tries
  <2> DEFINE A == {j \in Tries(d, v[i], v)' : log'[j].ok}
  <2>1. \A e, z : {j \in Tries(e, z, w) : log'[j].ok} = {j \in Tries(e, z, w) : log[j].ok}
    BY <1>9 DEF Tries
  <2>2. CASE d = k /\ v[i] = s
    <3>1. A = {j \in Tries(k, s, w) \cup {n} : log'[j].ok}
      BY <1>12, <2>2
    <3>2. CASE ok
      <4>1. count <= Limit[k]
        BY <1>6, <3>2
      <4>2. IsFiniteSet(Tries(k, s, v)')
        BY <1>12, <1>13, FS_AddElement
      <4>3. A \in SUBSET Tries(k, s, v)'
        BY <2>2
      <4>4. IsFiniteSet(A) /\ Cardinality(A) <= Cardinality(Tries(k, s, v)')
        BY <4>2, <4>3, FS_Subset
      <4>5. Cardinality(A) \in Nat
        BY <4>4, FS_CardinalityType
      <4> QED
        BY <1>2, <1>14, <2>2, <4>1, <4>4, <4>5
    <3>3. CASE ~ok
      <4>1. A = {j \in Tries(k, s, w) : log[j].ok}
        BY <1>9, <2>1, <3>1, <3>3
      <4>2. CASE Tries(k, s, w) = {}
        <5>1. Cardinality(A) = 0
          BY <4>1, <4>2, FS_EmptySet
        <5> QED
          BY <1>2, <2>2, <5>1
      <4>3. CASE Tries(k, s, w) # {}
        <5>1. PICK j \in 1 .. Len(log) : log[j].key = k /\ w[j] = s
          BY <4>3 DEF Tries
        <5>2. Cardinality({m \in Tries(k, s, w) : log[m].ok}) <= Limit[k]
          BY <1>0, <5>1 DEF LimitHolds
        <5> QED
          BY <2>2, <4>1, <5>2
      <4> QED
        BY <4>2, <4>3
    <3> QED
      BY <3>2, <3>3
  <2>3. CASE d # k \/ v[i] # s
    <3>1. i \in 1 .. Len(log)
      BY <1>4, <1>9, <1>11, <2>3
    <3>2. log'[i] = log[i] /\ v[i] = w[i]
      BY <1>9, <1>11, <3>1
    <3>3. A = {j \in Tries(log[i].key, w[i], w) : log[j].ok}
      BY <1>12, <2>1, <2>3, <3>2
    <3> QED
      BY <1>0, <3>1, <3>2, <3>3 DEF LimitHolds
  <2> QED
    BY <2>2, <2>3
<1>19. TableTrue(v)'
  <2>1. ASSUME NEW d \in DOMAIN limits'
        PROVE  \E z \in 0 .. clock :
                 /\ limits'[d].until = z + Window
                 /\ limits'[d].count = Cardinality(Tries(d, z, v)')
                 /\ \A j \in 1 .. n : log'[j].key = d => v[j] <= z
                 /\ \E j \in Tries(d, z, v)' : log'[j].ok \/ Crowded(j)'
    <3>1. CASE d = k
      <4>1. limits'[d].until = s + Window /\ limits'[d].count = Cardinality(Tries(d, s, v)')
        BY <1>7, <1>14, <3>1
      <4>2. ASSUME NEW j \in 1 .. n, log'[j].key = d
            PROVE  v[j] <= s
        <5>1. CASE j = n
          BY <1>2, <1>11, <5>1
        <5>2. CASE j # n
          <6>1. j \in 1 .. Len(log) /\ log[j].key = k /\ v[j] = w[j]
            BY <1>4, <1>9, <1>11, <3>1, <4>2, <5>2
          <6> QED
            BY <1>1, <1>2, <6>1
        <5> QED
          BY <5>1, <5>2
      <4>3. \E j \in Tries(d, s, v)' : log'[j].ok \/ Crowded(j)'
        <5>1. CASE Tries(k, s, w) = {}
          BY <1>9, <1>12, <1>16, <3>1, <5>1
        <5>2. CASE Tries(k, s, w) # {}
          <6>1. PICK j \in Tries(k, s, w) : log[j].ok \/ Crowded(j)
            BY <1>1, <5>2
          <6>2. j \in 1 .. Len(log)
            BY DEF Tries
          <6>3. log'[j].ok \/ Crowded(j)'
            BY <1>9, <6>1, <6>2
          <6> QED
            BY <1>12, <3>1, <6>3
        <5> QED
          BY <5>1, <5>2
      <4> QED
        BY <4>1, <4>2, <4>3
    <3>2. CASE d # k
      <4>1. d \in Kept /\ d \in DOMAIN limits /\ limits'[d] = limits[d]
        BY <1>7, <3>2 DEF Kept
      <4>2. PICK z \in 0 .. clock :
              /\ limits[d].until = z + Window
              /\ limits[d].count = Cardinality(Tries(d, z, w))
              /\ \A j \in 1 .. Len(log) : log[j].key = d => w[j] <= z
              /\ \E j \in Tries(d, z, w) : log[j].ok \/ Crowded(j)
        BY <1>0, <4>1 DEF TableTrue
      <4>3. Tries(d, z, v)' = Tries(d, z, w)
        BY <1>12, <3>2
      <4>4. \A j \in 1 .. n : log'[j].key = d => v[j] <= z
        BY <1>4, <1>9, <1>11, <3>2, <4>2
      <4>5. \E j \in Tries(d, z, v)' : log'[j].ok \/ Crowded(j)'
        BY <1>9, <4>2, <4>3 DEF Tries
      <4> QED
        BY <4>1, <4>2, <4>3, <4>4, <4>5
    <3> QED
      BY <3>1, <3>2
  <2>2. ASSUME NEW j \in 1 .. n, log'[j].key \notin DOMAIN limits'
        PROVE  v[j] + Window < clock
    <3>1. j \in 1 .. Len(log) /\ log'[j] = log[j] /\ v[j] = w[j] /\ log[j].key \notin Kept
      BY <1>4, <1>7, <1>9, <1>11, <2>2
    <3>2. CASE log[j].key \notin DOMAIN limits
      BY <1>0, <3>1, <3>2 DEF TableTrue
    <3>3. CASE log[j].key \in DOMAIN limits
      <4>1. PICK z \in 0 .. clock :
              /\ limits[log[j].key].until = z + Window
              /\ \A i \in 1 .. Len(log) : log[i].key = log[j].key => w[i] <= z
        BY <1>0, <3>3 DEF TableTrue
      <4>2. ~(clock <= z + Window)
        BY <3>1, <3>3, <4>1 DEF Kept
      <4>3. w[j] <= z /\ w[j] \in Nat /\ z \in Nat
        BY <1>2, <3>1, <4>1
      <4> QED
        BY <1>2, <3>1, <4>2, <4>3
    <3> QED
      BY <3>2, <3>3
  <2> QED
    BY <1>7, <1>9, <2>1, <2>2 DEF TableTrue
<1>20. Tries(k, s, v)' \subseteq OwnTries(n)' /\ n \in LastWindow(n)'
  <2>1. n \in LastWindow(n)'
    BY <1>2, <1>4, <1>9 DEF LastWindow
  <2>2. ASSUME NEW j \in Tries(k, s, v)'
        PROVE  j \in OwnTries(n)'
    <3>1. j \in 1 .. n /\ log'[j].key = k /\ v[j] = s
      BY <1>9, <2>2 DEF Tries
    <3>2. v[j] <= log'[j].at /\ log'[j].at \in Nat
      BY <1>2, <1>4, <1>9, <1>17, <3>1 DEF Apart
    <3>3. log'[j].at + Window >= log'[n].at
      BY <1>1, <1>2, <1>9, <3>1, <3>2
    <3> QED
      BY <1>9, <3>1, <3>3 DEF OwnTries, LastWindow
  <2> QED
    BY <2>1, <2>2
<1>21. RefusedFairly'
  <2> SUFFICES ASSUME NEW i \in 1 .. n, ~log'[i].ok
               PROVE  Cardinality(OwnTries(i)') > Limit[log'[i].key] \/ Crowded(i)'
    BY <1>9 DEF RefusedFairly
  <2>1. CASE i # n
    BY <1>4, <1>9, <2>1 DEF RefusedFairly
  <2>2. CASE i = n /\ Cardinality(Kept \cup {k}) > Capacity
    BY <1>15, <2>2
  <2>3. CASE i = n /\ ~(Cardinality(Kept \cup {k}) > Capacity)
    <3>1. count > Limit[k]
      <4>1. Cardinality(Kept \cup {k}) \in Nat
        BY <1>0, KeptFinite
      <4> QED
        BY <1>2, <1>6, <1>9, <1>14, <2>3, <4>1
    <3>2. OwnTries(n)' \in SUBSET (1 .. n)
      BY DEF OwnTries, LastWindow
    <3>3. IsFiniteSet(OwnTries(n)') /\ Cardinality(OwnTries(n)') \in Nat
      BY <1>4, <3>2, TriesFinite
    <3>4. count <= Cardinality(OwnTries(n)')
      BY <1>14, <1>20, <3>3, FS_Subset
    <3> QED
      BY <1>2, <1>9, <1>14, <2>3, <3>1, <3>3, <3>4
  <2> QED
    BY <2>1, <2>2, <2>3
<1>22. NotShutOut'
  <2> SUFFICES ASSUME NEW i \in 1 .. n, ~log'[i].ok
               PROVE  \E j \in LastWindow(i)' : (j \in OwnTries(i)' /\ log'[j].ok) \/ Crowded(j)'
    BY <1>9 DEF NotShutOut
  <2>1. CASE i # n
    <3>1. i \in 1 .. Len(log) /\ log'[i] = log[i]
      BY <1>4, <1>9, <2>1
    <3>2. PICK j \in LastWindow(i) : (j \in OwnTries(i) /\ log[j].ok) \/ Crowded(j)
      BY <3>1 DEF NotShutOut
    <3>3. j \in 1 .. Len(log)
      BY <1>2, <3>1 DEF LastWindow
    <3> QED
      BY <1>9, <3>1, <3>2, <3>3
  <2>2. CASE i = n /\ Tries(k, s, w) = {}
    BY <1>9, <1>16, <1>20, <2>2
  <2>3. CASE i = n /\ Tries(k, s, w) # {}
    <3>1. PICK j \in Tries(k, s, w) : log[j].ok \/ Crowded(j)
      BY <1>1, <2>3
    <3>2. j \in 1 .. Len(log) /\ j \in OwnTries(n)'
      BY <1>12, <1>20 DEF Tries
    <3>3. j \in LastWindow(n)'
      BY <3>2 DEF OwnTries
    <3> QED
      BY <1>9, <2>3, <3>1, <3>2, <3>3
  <2> QED
    BY <2>1, <2>2, <2>3
<1>23. RateTypeOK'
  <2>1. \A d \in DOMAIN limits' : limits'[d] \in Entry
    BY <1>2, <1>5, <1>7, <1>13 DEF RateTypeOK, Entry, Kept
  <2>2. \A i \in 1 .. n - 1 : log'[i].at <= log'[i + 1].at
    <3> SUFFICES ASSUME NEW i \in 1 .. n - 1 PROVE log'[i].at <= log'[i + 1].at
      OBVIOUS
    <3>1. i \in 1 .. Len(log)
      BY <1>2, <1>3
    <3>2. CASE i + 1 = n
      BY <1>0, <1>9, <3>1, <3>2 DEF Apart
    <3>3. CASE i + 1 # n
      <4>1. i \in 1 .. Len(log) - 1 /\ i + 1 \in 1 .. Len(log)
        BY <1>2, <1>3, <3>1, <3>3
      <4> QED
        BY <1>9, <3>1, <4>1 DEF RateTypeOK
    <3> QED
      BY <3>2, <3>3
  <2>3. DOMAIN limits' \subseteq LimitKeys /\ clock' \in 0 .. MaxClock /\ n <= MaxCalls
    BY <1>2, <1>3, <1>7, RateAssumption DEF RateTypeOK, Kept
  <2> QED
    BY <1>9, <2>1, <2>2, <2>3 DEF RateTypeOK
<1>24. WindowsExist'
  BY <1>9, <1>11, <1>17, <1>18, <1>19 DEF WindowsExist
<1> QED
  BY <1>21, <1>22, <1>23, <1>24

\* What the log says depends on nothing else.
LEMMA SameLog ==
  ASSUME log' = log
  PROVE  \A i : /\ LastWindow(i)' = LastWindow(i)
                /\ OwnTries(i)' = OwnTries(i)
                /\ Crowded(i)' = Crowded(i)
<1>1. \A i : LastWindow(i)' = LastWindow(i)
  BY DEF LastWindow
<1>2. \A i : OwnTries(i)' = OwnTries(i)
  BY <1>1 DEF OwnTries
<1>3. \A i : Crowded(i)' = Crowded(i)
  BY <1>1 DEF Crowded
<1> QED
  BY <1>1, <1>2, <1>3

\* Time passes: what was over stays over.
LEMMA AdvanceInv ==
  ASSUME RateInv, Advance
  PROVE  RateInv'
<1> USE DEF RateInv
<1>1. /\ clock' = clock + 1 /\ clock < MaxClock /\ limits' = limits /\ log' = log
      /\ clock \in Nat /\ Window \in Nat
  BY LogNumbers DEF Advance
<1>2. PICK w \in [1 .. Len(log) -> Nat] : Apart(w) /\ LimitHolds(w) /\ TableTrue(w)
  BY DEF WindowsExist
<1>3. RateTypeOK' /\ RefusedFairly' /\ NotShutOut'
  <2>1. clock' \in 0 .. MaxClock
    BY <1>1, RateAssumption
  <2>2. RateTypeOK'
    BY <1>1, <2>1 DEF RateTypeOK
  <2>3. RefusedFairly' /\ NotShutOut'
    BY <1>1, SameLog DEF RefusedFairly, NotShutOut
  <2> QED
    BY <2>2, <2>3
<1>4. Apart(w)'
  <2>1. \A i \in 1 .. Len(log) : log[i].at <= clock' /\ log[i].at \in Nat
    BY <1>1, <1>2, LogNumbers DEF Apart
  <2> QED
    BY <1>1, <1>2, <2>1 DEF Apart
<1>5. LimitHolds(w)'
  BY <1>1, <1>2 DEF LimitHolds, Tries
<1>6. TableTrue(w)'
  <2>1. \A d, z : Tries(d, z, w)' = Tries(d, z, w)
    BY <1>1 DEF Tries
  <2>2. \A j : Crowded(j)' = Crowded(j)
    BY <1>1 DEF Crowded, LastWindow
  <2>3. 0 .. clock \subseteq 0 .. clock'
    BY <1>1
  <2>4. \A d \in DOMAIN limits' : \E z \in 0 .. clock' :
          /\ limits'[d].until = z + Window
          /\ limits'[d].count = Cardinality(Tries(d, z, w)')
          /\ \A j \in 1 .. Len(log') : log'[j].key = d => w[j] <= z
          /\ \E j \in Tries(d, z, w)' : log'[j].ok \/ Crowded(j)'
    <3> SUFFICES ASSUME NEW d \in DOMAIN limits
                 PROVE  \E z \in 0 .. clock' :
                          /\ limits[d].until = z + Window
                          /\ limits[d].count = Cardinality(Tries(d, z, w))
                          /\ \A j \in 1 .. Len(log) : log[j].key = d => w[j] <= z
                          /\ \E j \in Tries(d, z, w) : log[j].ok \/ Crowded(j)
      BY <1>1, <2>1, <2>2
    <3> QED
      BY <1>2, <2>3 DEF TableTrue
  <2>5. \A j \in 1 .. Len(log') : log'[j].key \notin DOMAIN limits' => w[j] + Window < clock'
    <3> SUFFICES ASSUME NEW j \in 1 .. Len(log), log[j].key \notin DOMAIN limits
                 PROVE  w[j] + Window < clock'
      BY <1>1
    <3>1. w[j] + Window < clock /\ w[j] \in Nat
      BY <1>2 DEF TableTrue
    <3> QED
      BY <1>1, <3>1
  <2> QED
    BY <2>4, <2>5 DEF TableTrue
<1>7. WindowsExist'
  BY <1>1, <1>4, <1>5, <1>6 DEF WindowsExist
<1> QED
  BY <1>3, <1>7

\* Every step keeps the division.
LEMMA RateNextInv == RateInv /\ [RateNext]_rateVars => RateInv'
<1> SUFFICES ASSUME RateInv, [RateNext]_rateVars PROVE RateInv'
  OBVIOUS
<1>1. CASE \E k \in LimitKeys : Request(k)
  BY <1>1, RequestInv
<1>2. CASE Advance
  BY <1>2, AdvanceInv
<1>3. CASE Restart
  <2>1. (limits = NoLimits /\ log = << >> /\ clock \in 0 .. MaxClock)'
    BY <1>3 DEF Restart, RateInv, RateTypeOK, NoLimits
  <2>2. (limits = NoLimits /\ log = << >> /\ clock \in 0 .. MaxClock)' => RateInv'
    BY EmptyIsTrue, PTL
  <2> QED
    BY <2>1, <2>2
<1>4. CASE UNCHANGED rateVars
  <2>1. clock' = clock /\ limits' = limits /\ log' = log
    BY <1>4 DEF rateVars
  <2>2. RateTypeOK' /\ RefusedFairly' /\ NotShutOut'
    BY <2>1, SameLog DEF RateInv, RateTypeOK, RefusedFairly, NotShutOut
  <2>3. PICK w \in [1 .. Len(log) -> Nat] : Apart(w) /\ LimitHolds(w) /\ TableTrue(w)
    BY DEF RateInv, WindowsExist
  <2>4. \A d, z : Tries(d, z, w)' = Tries(d, z, w)
    BY <2>1 DEF Tries
  <2>5. Apart(w)' /\ LimitHolds(w)'
    BY <2>1, <2>3, <2>4 DEF Apart, LimitHolds, Tries
  <2>6. TableTrue(w)'
    BY <2>1, <2>3, <2>4, SameLog DEF TableTrue
  <2> QED
    BY <2>1, <2>2, <2>3, <2>5, <2>6 DEF RateInv, WindowsExist
<1> QED
  BY <1>1, <1>2, <1>3, <1>4 DEF RateNext

\* A try in the third of three windows, at c, is not within a minute of one in the
\* first, at a: not when the last try is at i.
LEMMA ThirdIsTooLate ==
  ASSUME NEW x \in Nat, NEW y \in Nat, NEW z \in Nat,
         NEW a \in Nat, NEW c \in Nat, NEW i \in Nat, NEW d \in Nat,
         x + d < y, y + d < z, a <= x + d, z <= c, c <= i, a + d >= i
  PROVE  FALSE
<1>1. a + d < y + d
  OBVIOUS
<1>2. y + d < i
  OBVIOUS
<1> QED
  BY <1>1, <1>2

\* The tries of one key within a minute lie in at most two of its windows.
LEMMA TwoWindowsHold == RateInv => TwoWindows
<1> SUFFICES ASSUME RateInv, NEW i \in 1 .. Len(log)
             PROVE  Cardinality(OwnAdmitted(i)) <= 2 * Limit[log[i].key]
  BY DEF TwoWindows
<1> USE DEF RateInv
<1>1. PICK w \in [1 .. Len(log) -> Nat] : Apart(w) /\ LimitHolds(w)
  BY DEF WindowsExist
<1>2. /\ Len(log) \in Nat /\ Window \in Nat
      /\ \A j \in 1 .. Len(log) : w[j] \in Nat /\ log[j].at \in Nat
  BY LogNumbers
<1> DEFINE k == log[i].key
           In(j) == {m \in Tries(k, w[j], w) : log[m].ok}
           own == OwnAdmitted(i)
<1>3. \A j \in own : /\ j \in 1 .. Len(log) /\ j <= i
                     /\ log[j].key = k /\ log[j].ok /\ log[j].at + Window >= log[i].at
  BY <1>2 DEF OwnAdmitted, OwnTries, LastWindow
<1>4. Limit[k] \in Nat
  BY LogNumbers
<1>5. \A j \in own : /\ IsFiniteSet(In(j)) /\ Cardinality(In(j)) \in Nat
                     /\ Cardinality(In(j)) <= Limit[k]
  <2> SUFFICES ASSUME NEW j \in own
               PROVE  /\ IsFiniteSet(In(j)) /\ Cardinality(In(j)) \in Nat
                      /\ Cardinality(In(j)) <= Limit[k]
    OBVIOUS
  <2>1. In(j) \in SUBSET (1 .. Len(log))
    BY DEF Tries
  <2>2. IsFiniteSet(In(j)) /\ Cardinality(In(j)) \in Nat
    BY <1>2, <2>1, TriesFinite
  <2>3. j \in 1 .. Len(log) /\ log[j].key = k
    BY <1>3
  <2> QED
    BY <1>1, <2>2, <2>3 DEF LimitHolds
<1>6. ASSUME NEW x \in own, NEW y \in own, NEW z \in own, w[x] < w[y], w[y] < w[z]
      PROVE  FALSE
  <2>1. w[x] + Window < w[y] /\ w[y] + Window < w[z]
    BY <1>1, <1>3, <1>6 DEF Apart
  <2>2. log[x].at <= w[x] + Window /\ w[z] <= log[z].at /\ log[z].at <= log[i].at
    BY <1>1, <1>3 DEF Apart
  <2>3. log[x].at + Window >= log[i].at
    BY <1>3
  <2>4. /\ w[x] \in Nat /\ w[y] \in Nat /\ w[z] \in Nat
        /\ log[x].at \in Nat /\ log[z].at \in Nat /\ log[i].at \in Nat
    BY <1>2, <1>3
  <2> QED
    BY <1>2, <2>1, <2>2, <2>3, <2>4, ThirdIsTooLate
<1>7. CASE own = {}
  BY <1>4, <1>7, FS_EmptySet
<1>8. CASE own # {}
  <2>1. PICK a \in own, b \in own : \A c \in own : w[c] = w[a] \/ w[c] = w[b]
    <3>1. CASE \E a \in own, b \in own : w[a] < w[b]
      <4>1. PICK a \in own, b \in own : w[a] < w[b]
        BY <3>1
      <4>2. ASSUME NEW c \in own
            PROVE  w[c] = w[a] \/ w[c] = w[b]
        <5>1. ~(w[c] < w[a]) /\ ~(w[a] < w[c] /\ w[c] < w[b]) /\ ~(w[b] < w[c])
          BY <1>6, <4>1
        <5>2. w[a] \in Nat /\ w[b] \in Nat /\ w[c] \in Nat
          BY <1>2, <1>3
        <5> QED
          BY <5>1, <5>2
      <4> QED
        BY <4>2
    <3>2. CASE ~\E a \in own, b \in own : w[a] < w[b]
      <4>1. PICK a \in own : TRUE
        BY <1>8
      <4>2. \A c \in own : w[c] \in Nat
        BY <1>2, <1>3
      <4>3. \A c \in own : w[c] = w[a]
        BY <3>2, <4>2
      <4> QED
        BY <4>3
    <3> QED
      BY <3>1, <3>2
  <2>2. own \subseteq In(a) \cup In(b)
    BY <1>3, <2>1 DEF Tries
  <2> HIDE DEF In, own, k
  <2>3. /\ IsFiniteSet(In(a)) /\ Cardinality(In(a)) \in Nat /\ Cardinality(In(a)) <= Limit[k]
        /\ IsFiniteSet(In(b)) /\ Cardinality(In(b)) \in Nat /\ Cardinality(In(b)) <= Limit[k]
    BY <1>5
  <2>4. /\ IsFiniteSet(In(a) \cup In(b))
        /\ Cardinality(In(a) \cup In(b)) <= Cardinality(In(a)) + Cardinality(In(b))
    <3>1. Cardinality(In(a) \cap In(b)) \in Nat
      BY <2>3, FS_Intersection, FS_CardinalityType
    <3>2. IsFiniteSet(In(a) \cup In(b)) /\ Cardinality(In(a) \cup In(b))
            = Cardinality(In(a)) + Cardinality(In(b)) - Cardinality(In(a) \cap In(b))
      BY <2>3, FS_Union
    <3> QED
      BY <2>3, <3>1, <3>2
  <2>5. IsFiniteSet(own) /\ Cardinality(own) <= Cardinality(In(a) \cup In(b))
    BY <2>2, <2>4, FS_Subset
  <2>6. Cardinality(own) \in Nat /\ Cardinality(In(a) \cup In(b)) \in Nat
    BY <2>4, <2>5, FS_CardinalityType
  <2>7. Cardinality(own) <= 2 * Limit[k]
    BY <1>4, <2>3, <2>4, <2>5, <2>6
  <2> QED
    BY <2>7 DEF own, k
<1> QED
  BY <1>7, <1>8

\* So the division exists at all times.
LEMMA RateAlways == RateSpec => []RateInv
<1>1. RateInit => RateInv
  BY EmptyIsTrue, RateAssumption DEF RateInit
<1> QED
  BY <1>1, RateNextInv, PTL DEF RateSpec

\* The limiter's table and its log are what App.rate keeps.
THEOREM RateTypeCorrect == RateSpec => []RateTypeOK
<1>1. RateInv => RateTypeOK
  BY DEF RateInv
<1> QED
  BY <1>1, RateAlways, PTL

\* For any number of clients, limits and capacity: within any minute a client gets no
\* more than twice its limit, is refused only for what it did in that minute or for a
\* full table, and is never shut out by the requests it was refused (App.rate).
THEOREM LimitIsKept == RateSpec => []LimitKept
<1>1. RateInv => LimitKept
  BY TwoWindowsHold DEF LimitKept, RateInv
<1> QED
  BY <1>1, RateAlways, PTL

---------------------------------------------------------------------------
\* The limiter's and the cache's state keep their types, whichever of the two moves.
THEOREM GuardsTypeCorrect == MCSpec => []GuardsTypeOK
<1> DEFINE Inv == JwksInv /\ RateInv
<1>1. MCInit => Inv
  <2>1. RateInit => RateInv
    BY EmptyIsTrue, RateAssumption DEF RateInit
  <2> QED
    BY <2>1, JwksInitInv DEF MCInit
<1>2. Inv /\ [MCNext]_<<jwksVars, rateVars>> => Inv'
  <2>1. JwksInv /\ [JwksNext]_jwksVars => JwksInv'
    BY JwksNextInv
  <2>2. RateInv /\ [RateNext]_rateVars => RateInv'
    BY RateNextInv
  <2> QED
    BY <2>1, <2>2 DEF MCNext
<1>3. Inv => GuardsTypeOK
  BY DEF JwksInv, RateInv, GuardsTypeOK
<1> QED
  BY <1>1, <1>2, <1>3, PTL DEF MCSpec
===============================================================================

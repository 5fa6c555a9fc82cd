-------------------------------- MODULE Jwks --------------------------------
(***************************************************************************)
(* The cache of GitHub's signing keys: githubVerifier.key of               *)
(* internal/vault/oidc.go.  All calls go through one mutex, which a call    *)
(* that refreshes keeps over its HTTP request; GitHub changes its keys, and *)
(* the request fails, at any moment in between.                             *)
(***************************************************************************)
EXTENDS Naturals

CONSTANTS
  Callers,      \* bound: concurrent verifications
  Kids,         \* key ids
  Lifetime,     \* 1 h: a fetched set is used no longer
  Throttle,     \* 10 s between two refreshes
  HttpTimeout,  \* 15 s: http.Client.Timeout
  MaxTime       \* bound

None == "none"                          \* no caller: the mutex is free

ASSUME JwksAssumption ==
  /\ None \notin Callers /\ Kids # {}
  /\ Lifetime \in Nat /\ Throttle \in Nat /\ HttpTimeout \in Nat /\ MaxTime \in Nat \ {0}
  /\ Throttle <= Lifetime /\ HttpTimeout < Lifetime

VARIABLES
  now,
  published,    \* the keys GitHub publishes
  changed,      \* history: when a kid was last added or withdrawn
  cached,       \* v.keys
  fetched,      \* v.fetched
  lastAttempt,  \* v.lastAttempt
  calls,        \* what each caller is doing, for which kid, and how it ended
  fetch,        \* the refresh under way; whoever makes it holds the mutex
  failed,       \* history: when a refresh failed last
  good          \* history: the last set GitHub answered with, and when it was asked

jwksVars == <<now, published, changed, cached, fetched, lastAttempt, calls, fetch, failed, good>>

Zero    == 0                            \* the zero time.Time; the clock starts later
NoFetch == [by |-> None]
Idle(a) == [state |-> "idle", kid |-> CHOOSE k \in Kids : TRUE, answer |-> a]

JwksTypeOK ==
  /\ now \in 1 .. MaxTime
  /\ published \subseteq Kids /\ cached \subseteq Kids
  /\ changed \in [Kids -> 0 .. MaxTime]
  /\ {fetched, lastAttempt, failed, good.at} \subseteq 0 .. MaxTime
  /\ good.keys \subseteq Kids
  /\ calls \in [Callers -> [state : {"idle", "wait", "fetch"}, kid : Kids,
                            answer : {None, "key", "refused"}]]
  /\ fetch = NoFetch \/ fetch \in [by : Callers, start : 1 .. MaxTime, seen : SUBSET Kids]
  /\ \A c \in Callers : calls[c].state = "fetch" <=> fetch.by = c

JwksInit ==
  /\ now = 1
  /\ published \in SUBSET Kids /\ changed = [k \in Kids |-> Zero]
  /\ cached = {} /\ fetched = Zero /\ lastAttempt = Zero
  /\ calls = [c \in Callers |-> Idle(None)]
  /\ fetch = NoFetch
  /\ failed = Zero /\ good = [keys |-> {}, at |-> Zero]

---------------------------------------------------------------------------
Ask(c, k) ==
  /\ calls[c].state = "idle"
  /\ calls' = [calls EXCEPT ![c] = [state |-> "wait", kid |-> k, answer |-> None]]
  /\ UNCHANGED <<now, published, changed, cached, fetched, lastAttempt, fetch, failed, good>>

MayLock(c) == calls[c].state = "wait" /\ fetch = NoFetch
Hit(k)     == k \in cached /\ now < fetched + Lifetime
Throttled  == lastAttempt # Zero /\ now < lastAttempt + Throttle
Answered(c, a) == calls' = [calls EXCEPT ![c] = Idle(a)]

FromCache(c) ==
  /\ MayLock(c) /\ Hit(calls[c].kid)
  /\ Answered(c, "key")
  /\ UNCHANGED <<now, published, changed, cached, fetched, lastAttempt, fetch, failed, good>>

\* Mutant: a refused call starts the ten seconds anew.
TooSoonSlides(c) ==
  /\ MayLock(c) /\ ~Hit(calls[c].kid) /\ Throttled
  /\ Answered(c, "refused")
  /\ lastAttempt' = now
  /\ UNCHANGED <<now, published, changed, cached, fetched, fetch, failed, good>>

TooSoon(c) ==
  /\ MayLock(c) /\ ~Hit(calls[c].kid) /\ Throttled
  /\ Answered(c, "refused")
  /\ UNCHANGED <<now, published, changed, cached, fetched, lastAttempt, fetch, failed, good>>

\* The mutex is kept from here to Complete or Fail.
Refresh(c) ==
  /\ MayLock(c) /\ ~Hit(calls[c].kid) /\ ~Throttled
  /\ lastAttempt' = now
  /\ calls' = [calls EXCEPT ![c].state = "fetch"]
  /\ fetch' = [by |-> c, start |-> now, seen |-> {}]
  /\ UNCHANGED <<now, published, changed, cached, fetched, failed, good>>

\* GitHub answers with what it publishes at that moment.
Respond(c) ==
  /\ fetch.by = c /\ fetch.seen = {}
  /\ published # {}
  /\ fetch' = [fetch EXCEPT !.seen = published]
  /\ UNCHANGED <<now, published, changed, cached, fetched, lastAttempt, calls, failed, good>>

\* Mutant: the set counts as fetched when it has arrived.
CompleteLate(c) ==
  /\ fetch.by = c /\ fetch.seen # {}
  /\ cached' = fetch.seen /\ fetched' = now
  /\ good' = [keys |-> fetch.seen, at |-> fetch.start]
  /\ Answered(c, IF calls[c].kid \in fetch.seen THEN "key" ELSE "refused")
  /\ fetch' = NoFetch
  /\ UNCHANGED <<now, published, changed, lastAttempt, failed>>

\* Mutant: a refresh that succeeds does not unlock.
CompleteKeepsLock(c) ==
  /\ fetch.by = c /\ fetch.seen # {}
  /\ cached' = fetch.seen /\ fetched' = fetch.start
  /\ good' = [keys |-> fetch.seen, at |-> fetch.start]
  /\ Answered(c, IF calls[c].kid \in fetch.seen THEN "key" ELSE "refused")
  /\ UNCHANGED <<now, published, changed, lastAttempt, fetch, failed>>

\* A usable set replaces the old one and counts from when it was asked for.
Complete(c) ==
  /\ fetch.by = c /\ fetch.seen # {}
  /\ cached' = fetch.seen /\ fetched' = fetch.start
  /\ good' = [keys |-> fetch.seen, at |-> fetch.start]
  /\ Answered(c, IF calls[c].kid \in fetch.seen THEN "key" ELSE "refused")
  /\ fetch' = NoFetch
  /\ UNCHANGED <<now, published, changed, lastAttempt, failed>>

\* Mutant: a refresh that fails does not unlock.
FailKeepsLock(c) ==
  /\ fetch.by = c
  /\ failed' = now
  /\ UNCHANGED <<now, published, changed, cached, fetched, lastAttempt, calls, fetch, good>>

\* No connection, another status, an unreadable or unusable answer, the timeout
\* of the HTTP client, or the caller's own client gone: the cache stays.
Fail(c) ==
  /\ fetch.by = c
  /\ Answered(c, "refused")
  /\ fetch' = NoFetch /\ failed' = now
  /\ UNCHANGED <<now, published, changed, cached, fetched, lastAttempt, good>>

\* GitHub, outside: rotates, withdraws, brings back.
Rotate(new) ==
  /\ new # published
  /\ published' = new
  /\ changed' = [k \in Kids |-> IF k \in new <=> k \in published THEN changed[k] ELSE now]
  /\ UNCHANGED <<now, cached, fetched, lastAttempt, calls, fetch, failed, good>>

Tick ==
  /\ now < MaxTime
  /\ fetch # NoFetch => now < fetch.start + HttpTimeout
  /\ now' = now + 1
  /\ UNCHANGED <<published, changed, cached, fetched, lastAttempt, calls, fetch, failed, good>>

Lookup(c)  == FromCache(c) \/ TooSoon(c) \/ Refresh(c)
EndHttp(c) == Complete(c) \/ Fail(c)

JwksNext ==
  \/ \E c \in Callers : (\E k \in Kids : Ask(c, k)) \/ Lookup(c) \/ Respond(c) \/ EndHttp(c)
  \/ \E new \in SUBSET Kids : Rotate(new)
  \/ Tick

JwksSpec == JwksInit /\ [][JwksNext]_jwksVars

\* A sync.Mutex hands itself to whoever waits longest (starvation mode), hence
\* strong fairness; the HTTP client's timeout ends every refresh.
JwksFairness == \A c \in Callers : SF_jwksVars(Lookup(c)) /\ WF_jwksVars(EndHttp(c))

---------------------------------------------------------------------------
(***************************************************************************)
(* Properties.                                                             *)
(***************************************************************************)
Ends(c, a) == calls[c].state # "idle" /\ calls'[c].state = "idle" /\ calls'[c].answer = a

\* "Cached for one hour" (docs/design.md): a key that is used was published by
\* GitHub less than Lifetime ago, however slow the answer that brought it was.
KeyRecent ==
  [][\A c \in Callers : Ends(c, "key") =>
       LET k == calls[c].kid
       IN  k \in published \/ now < changed[k] + Lifetime]_jwksVars

\* Nobody is refused for the unknown kids of others: a key published for longer
\* than a request takes is refused only if a refresh failed a moment ago.
NotForOthers(k) ==
  \/ failed' # Zero /\ (failed' = now \/ now < failed' + Throttle)
  \/ k \notin published
  \/ now <= changed[k] + HttpTimeout
  \/ now < changed[k] + Throttle

\* An outage of GitHub is bridged: a key of the last set that was fetched is
\* not refused before that set's hour is over, whatever failed since.
OutageBridged(k) == ~(k \in good.keys /\ now < good.at + Lifetime)

RefusedForCause ==
  [][\A c \in Callers : Ends(c, "refused") =>
       NotForOthers(calls[c].kid) /\ OutageBridged(calls[c].kid)]_jwksVars

\* Every verification ends, though GitHub hangs and others keep coming.
CallsEnd == \A c \in Callers : calls[c].state # "idle" ~> calls[c].state = "idle"
============================================================================

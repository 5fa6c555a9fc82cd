----------------------------- MODULE AuthProofs -----------------------------
(***************************************************************************)
(* Proofs about Auth, for any number of concurrent requests and any bounds. *)
(*                                                                         *)
(* The checked invariants speak of the tables; what makes them inductive   *)
(* is what a request still holds of an earlier statement (JobSound): its    *)
(* revision and password are of the past, the binding it saw was vouched    *)
(* for, and the flow it has consumed is nobody else's, in no row and in no  *)
(* session (FlowsOnce).                                                    *)
(***************************************************************************)
EXTENDS Auth, SequenceTheorems, TLAPS

CallSteps == {"flow", "checked", "secret", "known"}
InCall(j) == j.step \in CallSteps

\* What the locals of a request still mean for the tables.
JobSound(j) ==
  /\ j.step \in Admitted \cup {"idle", "email", "login", "change", "unbind", "start"} \cup CallSteps
  /\ j.step \in {"email", "login", "start"} \cup CallSteps => j.rev \in 1 .. config.rev
  /\ j.step \in {"login", "change", "unbind"} \cup Admitted => j.password \in 1 .. passwords
  /\ j.step \in {"secret", "known"} => j.secret \in j.rev .. config.rev
  /\ j.step \in {"checked", "secret", "known"} /\ j.rev = config.rev => config.on
  /\ j.step \in {"checked", "secret"} => j.bound \in trusted \cup {Unbound}
  /\ j.step = "known" => j.id \in Ids /\ (j.vouched \/ j.id \in trusted)

JobsSound == /\ jobs = [w \in Workers |-> jobs[w]]
             /\ \A w \in Workers : JobSound(jobs[w])

\* A flow is in one place: a row, a callback that consumed it, or the session made.
FlowsOnce ==
  /\ \A w \in Workers : InCall(jobs[w]) =>
       /\ jobs[w].flow \in (1 .. started) \ DOMAIN flows
       /\ \A c \in DOMAIN creds : creds[c].flow # jobs[w].flow
       /\ \A v \in Workers \ {w} : InCall(jobs[v]) => jobs[v].flow # jobs[w].flow
  /\ \A c \in DOMAIN creds : creds[c].flow \in (0 .. started) \ DOMAIN flows

\* No credential is of a password that is still to come.
OldPasswords == \A c \in DOMAIN creds : creds[c].password <= passwords

AuthInv == AuthTypeOK /\ JobsSound /\ FlowsOnce /\ OldPasswords /\ SessionsCurrent /\ BoundVouched

\* What a step of the tables leaves the locals of every request: revisions and
\* passwords only grow, a revision keeps its contents, nobody loses trust.
Later ==
  /\ config'.rev \in Nat /\ passwords' \in Nat
  /\ config.rev <= config'.rev /\ (config'.rev = config.rev => config'.on = config.on)
  /\ passwords <= passwords'
  /\ trusted \subseteq trusted'

---------------------------------------------------------------------------
\* The database of a new installation.
LEMMA AuthInitInv == AuthInit => AuthInv
<1> SUFFICES ASSUME AuthInit PROVE AuthInv
  OBVIOUS
<1>1. /\ passwords = 1 /\ github = Unbound /\ config = [rev |-> 1, on |-> FALSE]
      /\ creds = << >> /\ DOMAIN flows = {} /\ started = 0 /\ trusted = {}
      /\ jobs = [w \in Workers |-> Idle]
  BY DEF AuthInit
<1>2. /\ MaxPasswords \in Nat \ {0} /\ MaxSettings \in Nat \ {0}
      /\ MaxCreds \in Nat /\ MaxFlows \in Nat
  BY AuthAssumption
<1>3. \A w \in Workers : jobs[w].step = "idle"
  BY <1>1 DEF Idle
<1>4. creds \in Seq(Cred) /\ Len(creds) = 0 /\ DOMAIN creds = {}
  BY <1>1, EmptySeq
<1>5. AuthTypeOK
  BY <1>1, <1>2, <1>3, <1>4 DEF AuthTypeOK
<1>6. JobsSound
  BY <1>1, <1>3 DEF JobsSound, JobSound, CallSteps, Admitted
<1>7. FlowsOnce /\ OldPasswords /\ SessionsCurrent /\ BoundVouched
  BY <1>1, <1>3, <1>4 DEF FlowsOnce, OldPasswords, SessionsCurrent, BoundVouched, InCall, CallSteps
<1> QED
  BY <1>5, <1>6, <1>7 DEF AuthInv

\* One request goes on, the others stay where they are.
LEMMA OneGoes ==
  ASSUME JobsSound, NEW w \in Workers, NEW j, Goes(w, j)
  PROVE  /\ jobs' = [v \in Workers |-> jobs'[v]] /\ jobs'[w] = j
         /\ \A v \in Workers \ {w} : jobs'[v] = jobs[v]
<1>1. jobs = [v \in Workers |-> jobs[v]] /\ jobs' = [jobs EXCEPT ![w] = j]
  BY DEF JobsSound, Goes
<1> QED
  BY <1>1

\* The locals of a request outlive what others do to the tables.
LEMMA JobStays ==
  ASSUME AuthTypeOK, Later, NEW j, JobSound(j)
  PROVE  JobSound(j)'
<1>1. config.rev \in Nat /\ passwords \in Nat
  BY AuthAssumption DEF AuthTypeOK
<1>2. j.step \in {"email", "login", "start"} \cup CallSteps =>
        j.rev \in 1 .. config'.rev /\ (j.rev = config'.rev => config'.rev = config.rev)
  BY <1>1 DEF Later, JobSound
<1>3. j.step \in {"login", "change", "unbind"} \cup Admitted => j.password \in 1 .. passwords'
  BY <1>1 DEF Later, JobSound
<1>4. j.step \in {"secret", "known"} => j.secret \in j.rev .. config'.rev
  <2>1. j.step \in {"secret", "known"} => j.rev \in 1 .. config.rev
    BY DEF JobSound, CallSteps
  <2> QED
    BY <1>1, <2>1 DEF Later, JobSound
<1>5. j.step \in {"checked", "secret", "known"} /\ j.rev = config'.rev => config'.on
  BY <1>2 DEF Later, JobSound, CallSteps
<1> QED
  BY <1>2, <1>3, <1>4, <1>5 DEF Later, JobSound

\* So the jobs stay sound if the one that moves is.
LEMMA JobsStay ==
  ASSUME AuthTypeOK, JobsSound, Later, NEW w \in Workers, NEW j, Goes(w, j), JobSound(j)'
  PROVE  /\ JobsSound'
         /\ \A v \in Workers : jobs'[v].step \in Admitted \cup
              {"idle", "email", "login", "change", "unbind", "start",
               "flow", "checked", "secret", "known"}
<1>1. /\ jobs' = [v \in Workers |-> jobs'[v]] /\ jobs'[w] = j
      /\ \A v \in Workers \ {w} : jobs'[v] = jobs[v]
  BY OneGoes
<1>2. ASSUME NEW v \in Workers
      PROVE  JobSound(jobs[v])'
  <2>1. CASE v = w
    BY <1>1, <2>1 DEF JobSound
  <2>2. CASE v # w
    <3> DEFINE i == jobs[v]
    <3>1. i' = i /\ JobSound(i)
      BY <1>1, <2>2 DEF JobsSound
    <3> HIDE DEF i
    <3>2. JobSound(i)'
      BY <3>1, JobStays
    <3> QED
      BY <3>2 DEF i
  <2> QED
    BY <2>1, <2>2
<1> QED
  BY <1>1, <1>2 DEF JobsSound, JobSound, CallSteps

\* A request that reads, compares or gives up touches no table, and holds a flow
\* only if it held it before.
LEMMA ReadingInv ==
  ASSUME AuthInv, NEW w \in Workers, NEW j, Goes(w, j), JobSound(j),
         InCall(j) => InCall(jobs[w]) /\ j.flow = jobs[w].flow,
         UNCHANGED <<passwords, github, config, creds, flows, started, trusted>>
  PROVE  AuthInv'
<1> USE DEF AuthInv
<1>1. Later
  BY AuthAssumption DEF Later, AuthTypeOK
<1>2. JobSound(j)'
  BY <1>1, JobStays
<1>3. /\ JobsSound'
      /\ \A v \in Workers : jobs'[v].step \in Admitted \cup
           {"idle", "email", "login", "change", "unbind", "start",
            "flow", "checked", "secret", "known"}
  BY <1>1, <1>2, JobsStay
<1>4. AuthTypeOK' /\ OldPasswords' /\ SessionsCurrent' /\ BoundVouched'
  BY <1>3 DEF AuthTypeOK, OldPasswords, SessionsCurrent, BoundVouched
<1>5. \A v \in Workers : InCall(jobs'[v]) => InCall(jobs[v]) /\ jobs'[v].flow = jobs[v].flow
  BY OneGoes
<1>6. FlowsOnce'
  BY <1>5 DEF FlowsOnce, InCall
<1> QED
  BY <1>3, <1>4, <1>6

\* The steps that only read.
LEMMA ReadsInv ==
  ASSUME AuthInv, NEW w \in Workers,
         \/ LoginSettings(w) \/ LoginVerify(w)
         \/ \E c \in DOMAIN creds, s \in Admitted : Admit(w, c, s)
         \/ Verify(w, "password", "change") \/ Verify(w, "unlink", "unbind")
         \/ StartSettings(w) \/ CallbackSettings(w) \/ CallbackSecret(w)
         \/ \E id \in Ids : Identify(w, id)
         \/ Abort(w)
  PROVE  AuthInv'
<1>1. JobSound(jobs[w]) /\ config.rev \in Nat \ {0} /\ passwords \in Nat \ {0}
      /\ github \in trusted \cup {Unbound}
  BY AuthAssumption DEF AuthInv, JobsSound, AuthTypeOK, BoundVouched
<1>2. CASE LoginSettings(w)
  <2> DEFINE j == [step |-> "email", rev |-> config.rev]
  <2>1. JobSound(j) /\ ~InCall(j)
    BY <1>1 DEF JobSound, InCall, CallSteps, Admitted
  <2> QED
    BY <1>2, <2>1, ReadingInv DEF LoginSettings
<1>3. CASE LoginVerify(w)
  <2> DEFINE j == [step |-> "login", rev |-> jobs[w].rev, password |-> passwords]
  <2>1. JobSound(j) /\ ~InCall(j)
    BY <1>1, <1>3 DEF JobSound, InCall, CallSteps, Admitted, LoginVerify, At
  <2> QED
    BY <1>3, <2>1, ReadingInv DEF LoginVerify
<1>4. ASSUME NEW c \in DOMAIN creds, NEW s \in Admitted, Admit(w, c, s)
      PROVE  AuthInv'
  <2> DEFINE j == [step |-> s, by |-> c, password |-> creds[c].password]
  <2>0. creds[c].password \in 1 .. passwords
    <3>1. creds[c] \in Cred /\ creds[c].password <= passwords
      BY ElementOfSeq, LenProperties DEF AuthInv, AuthTypeOK, OldPasswords
    <3> QED
      BY <1>1, <3>1, AuthAssumption DEF Cred
  <2>1. JobSound(j) /\ ~InCall(j)
    BY <1>1, <2>0 DEF JobSound, InCall, CallSteps, Admitted
  <2> QED
    BY <1>4, <2>1, ReadingInv DEF Admit
<1>5. ASSUME NEW from \in {"password", "unlink"}, NEW to \in {"change", "unbind"}, Verify(w, from, to)
      PROVE  AuthInv'
  <2> DEFINE j == [step |-> to, password |-> passwords]
  <2>1. JobSound(j) /\ ~InCall(j)
    BY <1>1 DEF JobSound, InCall, CallSteps, Admitted
  <2> QED
    BY <1>5, <2>1, ReadingInv DEF Verify
<1>6. CASE StartSettings(w)
  <2> DEFINE j == [step |-> "start", rev |-> config.rev]
  <2>1. JobSound(j) /\ ~InCall(j)
    BY <1>1 DEF JobSound, InCall, CallSteps, Admitted
  <2> QED
    BY <1>6, <2>1, ReadingInv DEF StartSettings
<1>7. CASE CallbackSettings(w)
  <2> DEFINE j == [step |-> "checked", flow |-> jobs[w].flow, rev |-> jobs[w].rev, bound |-> github]
  <2>1. JobSound(j) /\ InCall(jobs[w]) /\ j.flow = jobs[w].flow
    BY <1>1, <1>7 DEF JobSound, InCall, CallSteps, Admitted, CallbackSettings, At
  <2> QED
    BY <1>7, <2>1, ReadingInv DEF CallbackSettings
<1>8. CASE CallbackSecret(w)
  <2> DEFINE j == [step |-> "secret", flow |-> jobs[w].flow, rev |-> jobs[w].rev,
                   bound |-> jobs[w].bound, secret |-> config.rev]
  <2>1. JobSound(j) /\ InCall(jobs[w]) /\ j.flow = jobs[w].flow
    BY <1>1, <1>8 DEF JobSound, InCall, CallSteps, Admitted, CallbackSecret, At
  <2> QED
    BY <1>8, <2>1, ReadingInv DEF CallbackSecret
<1>9. ASSUME NEW id \in Ids, Identify(w, id)
      PROVE  AuthInv'
  <2> DEFINE asked == jobs[w].bound = Unbound
             j == [step |-> "known", flow |-> jobs[w].flow, rev |-> jobs[w].rev,
                   secret |-> jobs[w].secret, id |-> id, vouched |-> asked]
  <2>1. At(w, "secret") /\ (asked \/ id \in trusted)
    BY <1>1, <1>9, AuthAssumption DEF JobSound, Identify, At
  <2> HIDE DEF asked
  <2>2. JobSound(j) /\ InCall(jobs[w]) /\ j.flow = jobs[w].flow
    BY <1>1, <2>1 DEF JobSound, InCall, CallSteps, Admitted, At
  <2> QED
    BY <1>9, <2>2, ReadingInv DEF Identify, asked
<1>10. CASE Abort(w)
  <2>1. JobSound(Idle) /\ ~InCall(Idle)
    BY DEF Idle, JobSound, InCall, CallSteps, Admitted
  <2> QED
    BY <1>10, <2>1, ReadingInv DEF Abort, Ends
<1> QED
  BY <1>2, <1>3, <1>4, <1>5, <1>6, <1>7, <1>8, <1>9, <1>10

---------------------------------------------------------------------------
\* Revoking ends credentials and makes none.
LEMMA RevokedOnly ==
  ASSUME AuthTypeOK, NEW which, Revoked(which)
  PROVE  /\ creds' \in Seq(Cred) /\ Len(creds') = Len(creds) /\ DOMAIN creds' = DOMAIN creds
         /\ \A c \in DOMAIN creds :
              /\ creds'[c].kind = creds[c].kind /\ creds'[c].flow = creds[c].flow
              /\ creds'[c].password = creds[c].password
              /\ creds'[c].live => creds[c].live /\ c \notin which
<1>1. /\ creds \in Seq(Cred) /\ DOMAIN creds = 1 .. Len(creds) /\ Len(creds) \in Nat
      /\ \A c \in DOMAIN creds : creds[c] \in Cred
  BY ElementOfSeq, LenProperties DEF AuthTypeOK
<1>2. \A c \in DOMAIN creds : [creds[c] EXCEPT !.live = FALSE] \in Cred
  BY <1>1 DEF Cred
<1>3. /\ creds' = [c \in 1 .. Len(creds) |->
                     IF c \in which THEN [creds[c] EXCEPT !.live = FALSE] ELSE creds[c]]
      /\ \A c \in DOMAIN creds : creds'[c] \in Cred
  BY <1>1, <1>2 DEF Revoked
<1>4. creds' \in Seq(Cred) /\ Len(creds') = Len(creds) /\ DOMAIN creds' = DOMAIN creds
  BY <1>1, <1>3
<1> QED
  BY <1>1, <1>3, <1>4 DEF Cred

\* Granting adds one credential at the end.
LEMMA GrantedOne ==
  ASSUME AuthTypeOK, NEW k \in {"session", "token"}, NEW p \in 1 .. passwords,
         NEW f \in 0 .. MaxFlows, Granted(k, p, f)
  PROVE  /\ creds' \in Seq(Cred) /\ Len(creds') = Len(creds) + 1 /\ Len(creds') <= MaxCreds
         /\ Len(creds) + 1 \notin DOMAIN creds
         /\ DOMAIN creds' = DOMAIN creds \cup {Len(creds) + 1}
         /\ \A c \in DOMAIN creds : creds'[c] = creds[c]
         /\ creds'[Len(creds) + 1] = [kind |-> k, password |-> p, flow |-> f, live |-> TRUE]
<1> DEFINE new == [kind |-> k, password |-> p, flow |-> f, live |-> TRUE]
<1>1. new \in Cred
  BY AuthAssumption DEF Cred, AuthTypeOK
<1>2. creds \in Seq(Cred) /\ creds' = Append(creds, new) /\ Len(creds) < MaxCreds /\ MaxCreds \in Nat
  BY AuthAssumption DEF Granted, AuthTypeOK
<1> HIDE DEF new
<1>3. /\ creds' \in Seq(Cred) /\ Len(creds') = Len(creds) + 1 /\ creds'[Len(creds) + 1] = new
      /\ \A c \in 1 .. Len(creds) : creds'[c] = creds[c]
  BY <1>1, <1>2, AppendProperties
<1>4. /\ DOMAIN creds = 1 .. Len(creds) /\ Len(creds) \in Nat /\ DOMAIN creds' = 1 .. Len(creds')
  BY <1>2, <1>3, LenProperties
<1> QED
  BY <1>2, <1>3, <1>4 DEF new

\* A session or token made: under the password that holds, if it is a session, and
\* of the flow its request has consumed, if of any.
LEMMA GrantInv ==
  ASSUME AuthInv, NEW w \in Workers, Ends(w),
         NEW k \in {"session", "token"}, NEW p \in 1 .. passwords, NEW f \in 0 .. MaxFlows,
         Granted(k, p, f),
         k = "session" => p = passwords,
         f # 0 => InCall(jobs[w]) /\ f = jobs[w].flow,
         UNCHANGED <<passwords, config, flows, started>>,
         trusted \subseteq trusted', trusted' \subseteq Ids,
         github' \in (Ids \cap trusted') \cup {Unbound}
  PROVE  AuthInv'
<1> USE DEF AuthInv
<1> DEFINE n == Len(creds) + 1
<1>1. /\ creds' \in Seq(Cred) /\ Len(creds') <= MaxCreds /\ n \notin DOMAIN creds
      /\ DOMAIN creds' = DOMAIN creds \cup {n}
      /\ \A c \in DOMAIN creds : creds'[c] = creds[c]
      /\ creds'[n].kind = k /\ creds'[n].password = p /\ creds'[n].flow = f
  <2>1. AuthTypeOK
    OBVIOUS
  <2>2. /\ creds' \in Seq(Cred) /\ Len(creds') <= MaxCreds /\ n \notin DOMAIN creds
        /\ DOMAIN creds' = DOMAIN creds \cup {n}
        /\ \A c \in DOMAIN creds : creds'[c] = creds[c]
        /\ creds'[n] = [kind |-> k, password |-> p, flow |-> f, live |-> TRUE]
    BY <2>1, GrantedOne
  <2> HIDE DEF n
  <2> QED
    BY <2>2
<1> HIDE DEF n
<1>2. Later
  BY AuthAssumption DEF Later, AuthTypeOK
<1>3. /\ JobsSound'
      /\ \A v \in Workers : jobs'[v].step \in Admitted \cup
           {"idle", "email", "login", "change", "unbind", "start",
            "flow", "checked", "secret", "known"}
  <2>1. JobSound(Idle)'
    BY DEF Idle, JobSound, CallSteps, Admitted
  <2> QED
    BY <1>2, <2>1, JobsStay DEF Ends
<1>4. \A v \in Workers : InCall(jobs'[v]) => v # w /\ jobs'[v] = jobs[v] /\ InCall(jobs[v])
  BY OneGoes DEF Ends, Idle, InCall, CallSteps
<1>5. AuthTypeOK'
  BY <1>1, <1>3 DEF AuthTypeOK
<1>6. started \in Nat /\ DOMAIN flows \subseteq 1 .. started /\ passwords \in Nat
  BY AuthAssumption DEF AuthTypeOK
<1>7. f \in (0 .. started) \ DOMAIN flows
  BY <1>6 DEF FlowsOnce
<1>8. FlowsOnce'
  <2>1. ASSUME NEW v \in Workers, InCall(jobs'[v])
        PROVE  /\ jobs'[v].flow \in (1 .. started) \ DOMAIN flows
               /\ \A c \in DOMAIN creds' : creds'[c].flow # jobs'[v].flow
               /\ \A u \in Workers \ {v} : InCall(jobs'[u]) => jobs'[u].flow # jobs'[v].flow
    <3>1. /\ jobs'[v] = jobs[v] /\ v # w /\ InCall(jobs[v])
          /\ jobs[v].flow \in (1 .. started) \ DOMAIN flows
          /\ \A u \in Workers \ {v} : InCall(jobs[u]) => jobs[u].flow # jobs[v].flow
          /\ \A c \in DOMAIN creds : creds[c].flow # jobs[v].flow
      BY <1>4, <2>1 DEF FlowsOnce
    <3>2. f # jobs[v].flow
      BY <1>6, <3>1
    <3> QED
      BY <1>1, <1>4, <3>1, <3>2
  <2>2. \A c \in DOMAIN creds' : creds'[c].flow \in (0 .. started) \ DOMAIN flows
    BY <1>1, <1>7 DEF FlowsOnce
  <2> QED
    BY <2>1, <2>2 DEF FlowsOnce, InCall
<1>9. OldPasswords'
  BY <1>1, <1>6 DEF OldPasswords
<1>10. SessionsCurrent'
  <2>1. \A c \in DOMAIN creds : f # 0 => creds[c].flow # f
    BY DEF FlowsOnce
  <2> QED
    BY <1>1, <2>1 DEF SessionsCurrent
<1>11. BoundVouched'
  BY DEF BoundVouched
<1> QED
  BY <1>3, <1>5, <1>8, <1>9, <1>10, <1>11

\* The requests that make a credential.
LEMMA GrantsInv ==
  ASSUME AuthInv, NEW w \in Workers, Login(w) \/ createToken(w) \/ githubCallback(w)
  PROVE  AuthInv'
<1>1. /\ JobSound(jobs[w]) /\ passwords \in Nat \ {0} /\ MaxFlows \in Nat /\ started \in 0 .. MaxFlows
      /\ github \in (Ids \cap trusted) \cup {Unbound} /\ trusted \subseteq Ids
  BY AuthAssumption DEF AuthInv, JobsSound, AuthTypeOK, BoundVouched
<1>2. CASE Login(w)
  <2>1. jobs[w].password = passwords
    BY <1>2 DEF Login
  <2> QED
    BY <1>1, <1>2, <2>1, GrantInv DEF Login
<1>3. CASE createToken(w)
  <2>1. jobs[w].password \in 1 .. passwords
    BY <1>1, <1>3 DEF createToken, At, JobSound, Admitted
  <2> QED
    BY <1>1, <1>3, <2>1, GrantInv DEF createToken
<1>4. CASE githubCallback(w)
  <2>1. InCall(jobs[w]) /\ jobs[w].id \in Ids /\ (jobs[w].vouched \/ jobs[w].id \in trusted)
    BY <1>1, <1>4 DEF githubCallback, At, JobSound, InCall, CallSteps
  <2>2. jobs[w].flow \in 0 .. MaxFlows
    BY <1>1, <2>1 DEF AuthInv, FlowsOnce
  <2>3. /\ trusted \subseteq trusted' /\ trusted' \subseteq Ids
        /\ github' \in (Ids \cap trusted') \cup {Unbound}
    BY <1>1, <1>4, <2>1 DEF githubCallback, Binds
  <2> QED
    BY <1>1, <1>4, <2>1, <2>2, <2>3, GrantInv DEF githubCallback
<1> QED
  BY <1>2, <1>3, <1>4

\* What keeps the flows apart when a step makes no credential.
LEMMA FlowsStay ==
  ASSUME FlowsOnce, DOMAIN creds' = DOMAIN creds,
         \A c \in DOMAIN creds : creds'[c].flow = creds[c].flow,
         \A v \in Workers : InCall(jobs'[v]) => jobs'[v] = jobs[v],
         started \in Nat, started' \in Nat, started <= started',
         \A f \in DOMAIN flows' : f \in DOMAIN flows \/ ~(f <= started)
  PROVE  FlowsOnce'
<1>1. \A f \in 0 .. started : f \in 0 .. started' /\ (f \in DOMAIN flows' => f \in DOMAIN flows)
  OBVIOUS
<1>2. \A f \in 1 .. started : f \in 1 .. started' /\ f \in 0 .. started
  OBVIOUS
<1>3. ASSUME NEW v \in Workers, InCall(jobs'[v])
      PROVE  /\ jobs'[v].flow \in (1 .. started') \ DOMAIN flows'
             /\ \A c \in DOMAIN creds' : creds'[c].flow # jobs'[v].flow
             /\ \A u \in Workers \ {v} : InCall(jobs'[u]) => jobs'[u].flow # jobs'[v].flow
  <2>1. /\ jobs'[v] = jobs[v] /\ InCall(jobs[v])
        /\ jobs[v].flow \in (1 .. started) \ DOMAIN flows
        /\ \A c \in DOMAIN creds : creds[c].flow # jobs[v].flow
        /\ \A u \in Workers \ {v} : InCall(jobs[u]) => jobs[u].flow # jobs[v].flow
    BY <1>3 DEF FlowsOnce
  <2> QED
    BY <1>1, <1>2, <2>1
<1>4. \A c \in DOMAIN creds' : creds'[c].flow \in (0 .. started') \ DOMAIN flows'
  BY <1>1 DEF FlowsOnce
<1> QED
  BY <1>3, <1>4 DEF FlowsOnce, InCall

\* A request that ends after a change of the tables, or a change without one, leaves
\* the other requests where they are.
LEMMA OthersStay ==
  ASSUME AuthInv, Later, UNCHANGED jobs \/ \E w \in Workers : Ends(w)
  PROVE  /\ JobsSound'
         /\ \A v \in Workers : jobs'[v].step \in Admitted \cup
              {"idle", "email", "login", "change", "unbind", "start",
               "flow", "checked", "secret", "known"}
         /\ \A v \in Workers : InCall(jobs'[v]) => jobs'[v] = jobs[v]
<1> USE DEF AuthInv
<1>1. CASE UNCHANGED jobs
  <2>1. \A v \in Workers : JobSound(jobs[v])'
    <3> TAKE v \in Workers
    <3> DEFINE i == jobs[v]
    <3>1. i' = i /\ JobSound(i)
      BY <1>1 DEF JobsSound
    <3> HIDE DEF i
    <3>2. JobSound(i)'
      BY <3>1, JobStays
    <3> QED
      BY <3>2 DEF i
  <2> QED
    BY <1>1, <2>1 DEF JobsSound, AuthTypeOK
<1>2. ASSUME NEW w \in Workers, Ends(w)
      PROVE  /\ JobsSound'
             /\ \A v \in Workers : jobs'[v].step \in Admitted \cup
                  {"idle", "email", "login", "change", "unbind", "start",
                   "flow", "checked", "secret", "known"}
             /\ \A v \in Workers : InCall(jobs'[v]) => jobs'[v] = jobs[v]
  <2>1. JobSound(Idle)' /\ ~InCall(Idle)
    BY DEF Idle, JobSound, InCall, CallSteps, Admitted
  <2>2. jobs'[w] = Idle /\ \A v \in Workers \ {w} : jobs'[v] = jobs[v]
    BY <1>2, OneGoes DEF Ends
  <2> QED
    BY <1>2, <2>1, <2>2, JobsStay DEF Ends
<1> QED
  BY <1>1, <1>2

\* Revoking, by the owner, by a new password or by the end of a lifetime.
LEMMA RevokeInv ==
  ASSUME AuthInv, UNCHANGED jobs \/ \E w \in Workers : Ends(w),
         NEW which, Revoked(which),
         UNCHANGED <<github, config, flows, started, trusted>>,
         passwords' \in 1 .. MaxPasswords, passwords <= passwords',
         passwords' # passwords => which = DOMAIN creds
  PROVE  AuthInv'
<1> USE DEF AuthInv
<1>1. /\ creds' \in Seq(Cred) /\ Len(creds') = Len(creds) /\ DOMAIN creds' = DOMAIN creds
      /\ \A c \in DOMAIN creds :
           /\ creds'[c].kind = creds[c].kind /\ creds'[c].flow = creds[c].flow
           /\ creds'[c].password = creds[c].password
           /\ creds'[c].live => creds[c].live /\ c \notin which
  BY RevokedOnly
<1>2. Later /\ passwords \in Nat /\ passwords' \in Nat /\ started \in Nat
  BY AuthAssumption DEF Later, AuthTypeOK
<1>3. /\ JobsSound'
      /\ \A v \in Workers : jobs'[v].step \in Admitted \cup
           {"idle", "email", "login", "change", "unbind", "start",
            "flow", "checked", "secret", "known"}
      /\ \A v \in Workers : InCall(jobs'[v]) => jobs'[v] = jobs[v]
  BY <1>2, OthersStay
<1>4. AuthTypeOK' /\ BoundVouched'
  BY <1>1, <1>3 DEF AuthTypeOK, BoundVouched
<1>5. FlowsOnce'
  BY <1>1, <1>2, <1>3, FlowsStay
<1>6. OldPasswords'
  <2>1. \A c \in DOMAIN creds : creds[c].password \in Nat
    <3>1. \A c \in DOMAIN creds : creds[c] \in Cred
      BY ElementOfSeq, LenProperties DEF AuthTypeOK
    <3> QED
      BY <3>1, AuthAssumption DEF Cred
  <2> QED
    BY <1>1, <1>2, <2>1 DEF OldPasswords
<1>7. SessionsCurrent'
  BY <1>1 DEF SessionsCurrent
<1> QED
  BY <1>3, <1>4, <1>5, <1>6, <1>7

\* The other changes of owner, settings and flows leave the credentials alone.
LEMMA TablesInv ==
  ASSUME AuthInv, UNCHANGED jobs \/ \E w \in Workers : Ends(w),
         UNCHANGED <<passwords, creds, trusted>>, Later,
         github' \in {github, Unbound},
         config' \in [rev : 1 .. MaxSettings, on : BOOLEAN],
         started' \in 0 .. MaxFlows, started <= started',
         DOMAIN flows' \subseteq 1 .. started',
         \A f \in DOMAIN flows' : /\ flows'[f] \in 1 .. config'.rev
                                  /\ f \in DOMAIN flows \/ ~(f <= started)
  PROVE  AuthInv'
<1> USE DEF AuthInv
<1>1. /\ JobsSound'
      /\ \A v \in Workers : jobs'[v].step \in Admitted \cup
           {"idle", "email", "login", "change", "unbind", "start",
            "flow", "checked", "secret", "known"}
      /\ \A v \in Workers : InCall(jobs'[v]) => jobs'[v] = jobs[v]
  BY OthersStay
<1>2. started \in Nat /\ started' \in Nat
  BY AuthAssumption DEF AuthTypeOK
<1>3. FlowsOnce'
  BY <1>1, <1>2, FlowsStay
<1>4. AuthTypeOK' /\ BoundVouched' /\ OldPasswords' /\ SessionsCurrent'
  BY <1>1 DEF AuthTypeOK, BoundVouched, OldPasswords, SessionsCurrent
<1> QED
  BY <1>1, <1>3, <1>4

\* A callback consumes a flow that nobody else holds.
LEMMA ConsumeInv ==
  ASSUME AuthInv, NEW w \in Workers, NEW f \in DOMAIN flows, Consume(w, f)
  PROVE  AuthInv'
<1> USE DEF AuthInv
<1>0. PICK j : j = [step |-> "flow", flow |-> f, rev |-> flows[f]]
  OBVIOUS
<1>1. /\ DOMAIN flows' = DOMAIN flows \ {f} /\ Goes(w, j)
      /\ \A g \in DOMAIN flows' : flows'[g] = flows[g]
      /\ UNCHANGED <<passwords, github, config, creds, started, trusted>>
  BY <1>0 DEF Consume, Without
<1>2. flows[f] \in 1 .. config.rev /\ f \in 1 .. started /\ DOMAIN flows \subseteq 1 .. started
  BY DEF AuthTypeOK
<1>3. JobSound(j)' /\ j.flow = f
  BY <1>0, <1>1, <1>2 DEF JobSound, CallSteps, Admitted
<1>4. Later
  BY <1>1, AuthAssumption DEF Later, AuthTypeOK
<1>5. /\ JobsSound'
      /\ \A v \in Workers : jobs'[v].step \in Admitted \cup
           {"idle", "email", "login", "change", "unbind", "start",
            "flow", "checked", "secret", "known"}
  BY <1>1, <1>3, <1>4, JobsStay
<1>6. jobs'[w] = j /\ \A v \in Workers \ {w} : jobs'[v] = jobs[v]
  BY <1>1, OneGoes
<1>7. FlowsOnce'
  <2>1. \A c \in DOMAIN creds : creds[c].flow \in (0 .. started) \ DOMAIN flows
    BY DEF FlowsOnce
  <2>2. ASSUME NEW v \in Workers, InCall(jobs'[v])
        PROVE  /\ jobs'[v].flow \in (1 .. started) \ DOMAIN flows'
               /\ \A c \in DOMAIN creds : creds[c].flow # jobs'[v].flow
               /\ v # w => jobs'[v].flow # f
               /\ \A u \in Workers \ {v} : InCall(jobs'[u]) /\ u # w => jobs'[u].flow # jobs'[v].flow
    <3>1. CASE v = w
      <4>1. \A u \in Workers \ {w} : InCall(jobs[u]) => jobs[u].flow # f
        BY DEF FlowsOnce
      <4> QED
        BY <1>1, <1>2, <1>3, <1>6, <2>1, <3>1, <4>1
    <3>2. CASE v # w
      BY <1>1, <1>6, <2>2, <3>2 DEF FlowsOnce
    <3> QED
      BY <3>1, <3>2
  <2> QED
    BY <1>1, <1>3, <1>6, <2>1, <2>2 DEF FlowsOnce, InCall
<1>8. AuthTypeOK' /\ BoundVouched' /\ OldPasswords' /\ SessionsCurrent'
  BY <1>1, <1>5 DEF AuthTypeOK, BoundVouched, OldPasswords, SessionsCurrent
<1> QED
  BY <1>5, <1>7, <1>8

\* Every step of a request keeps the invariant, and so do the ends of lifetimes.
LEMMA AuthNextInv ==
  ASSUME AuthInv, [AuthNext]_authVars
  PROVE  AuthInv'
<1>0. /\ passwords \in 1 .. MaxPasswords /\ MaxPasswords \in Nat /\ MaxSettings \in Nat
      /\ config \in [rev : 1 .. MaxSettings, on : BOOLEAN]
      /\ started \in 0 .. MaxFlows /\ MaxFlows \in Nat /\ DOMAIN flows \subseteq 1 .. started
      /\ \A f \in DOMAIN flows : flows[f] \in 1 .. config.rev
  BY AuthAssumption DEF AuthInv, AuthTypeOK
<1>1. ASSUME NEW f \in Nat, flows' = Without(f), UNCHANGED jobs,
             UNCHANGED <<passwords, github, config, creds, started, trusted>>
      PROVE  AuthInv'
  <2>1. DOMAIN flows' \subseteq DOMAIN flows /\ \A g \in DOMAIN flows' : flows'[g] = flows[g]
    BY <1>1 DEF Without
  <2> QED
    BY <1>0, <1>1, <2>1, TablesInv DEF Later
<1>2. ASSUME NEW w \in Workers, Step(w)
      PROVE  AuthInv'
  <2>1. CASE \/ LoginSettings(w) \/ LoginVerify(w)
             \/ \E c \in DOMAIN creds, s \in Admitted : Admit(w, c, s)
             \/ Verify(w, "password", "change") \/ Verify(w, "unlink", "unbind")
             \/ StartSettings(w) \/ CallbackSettings(w) \/ CallbackSecret(w)
             \/ \E id \in Ids : Identify(w, id)
             \/ Abort(w)
    BY <2>1, ReadsInv
  <2>2. CASE Login(w) \/ createToken(w) \/ githubCallback(w)
    BY <2>2, GrantsInv
  <2>3. CASE (\E c \in DOMAIN creds : revokeToken(w, c)) \/ logout(w)
    <3>1. /\ Ends(w) /\ UNCHANGED <<passwords, github, config, flows, started, trusted>>
          /\ \E which : Revoked(which)
      BY <2>3 DEF revokeToken, logout
    <3> QED
      BY <1>0, <3>1, RevokeInv
  <2>4. CASE changePassword(w)
    <3>1. /\ passwords' \in 1 .. MaxPasswords /\ passwords <= passwords'
          /\ Ends(w) /\ Revoked(DOMAIN creds)
          /\ UNCHANGED <<github, config, flows, started, trusted>>
      BY <1>0, <2>4 DEF changePassword
    <3> QED
      BY <3>1, RevokeInv
  <2>5. ASSUME NEW on \in BOOLEAN, putSettings(w, on)
        PROVE  AuthInv'
    <3>1. /\ config' \in [rev : 1 .. MaxSettings, on : BOOLEAN] /\ config'.rev = config.rev + 1
          /\ Ends(w) /\ UNCHANGED <<passwords, github, creds, flows, started, trusted>>
      BY <1>0, <2>5 DEF putSettings
    <3>2. Later
      BY <1>0, <3>1 DEF Later
    <3>3. \A f \in DOMAIN flows' : flows'[f] \in 1 .. config'.rev /\ f \in DOMAIN flows
      BY <1>0, <3>1
    <3> QED
      BY <1>0, <3>1, <3>2, <3>3, TablesInv
  <2>6. CASE unlinkGithub(w)
    <3>1. /\ github' = Unbound /\ Ends(w)
          /\ UNCHANGED <<passwords, config, creds, flows, started, trusted>>
      BY <2>6 DEF unlinkGithub
    <3> QED
      BY <1>0, <3>1, TablesInv DEF Later
  <2>7. CASE githubStart(w)
    <3>1. /\ started' = started + 1 /\ started < MaxFlows /\ Ends(w)
          /\ DOMAIN flows' = DOMAIN flows \cup {started'}
          /\ \A f \in DOMAIN flows' : flows'[f] = IF f = started' THEN jobs[w].rev ELSE flows[f]
          /\ UNCHANGED <<passwords, github, config, creds, trusted>>
      BY <2>7 DEF githubStart
    <3>2. jobs[w].rev \in 1 .. config.rev
      BY <2>7 DEF AuthInv, JobsSound, JobSound, githubStart, At
    <3>3. /\ started' \in 0 .. MaxFlows /\ started <= started' /\ ~(started' <= started)
          /\ DOMAIN flows' \subseteq 1 .. started'
      BY <1>0, <3>1
    <3>4. \A f \in DOMAIN flows' : /\ flows'[f] \in 1 .. config'.rev
                                   /\ f \in DOMAIN flows \/ ~(f <= started)
      BY <1>0, <3>1, <3>2, <3>3
    <3> QED
      BY <1>0, <3>1, <3>3, <3>4, TablesInv DEF Later
  <2>8. CASE \E f \in DOMAIN flows : Consume(w, f)
    BY <2>8, ConsumeInv
  <2> QED
    BY <1>2, <2>1, <2>2, <2>3, <2>4, <2>5, <2>6, <2>7, <2>8 DEF Step
<1>3. ASSUME NEW c \in DOMAIN creds, Expire(c)
      PROVE  AuthInv'
  <2>1. /\ Revoked({c}) /\ UNCHANGED jobs
        /\ UNCHANGED <<passwords, github, config, flows, started, trusted>>
    BY <1>3 DEF Expire
  <2> QED
    BY <1>0, <2>1, RevokeInv
<1>4. ASSUME NEW f \in DOMAIN flows, ExpireFlow(f)
      PROVE  AuthInv'
  BY <1>0, <1>1, <1>4 DEF ExpireFlow
<1>5. CASE UNCHANGED authVars
  <2>1. UNCHANGED jobs /\ UNCHANGED <<passwords, github, config, creds, flows, started, trusted>>
    BY <1>5 DEF authVars
  <2> QED
    BY <1>0, <2>1, TablesInv DEF Later
<1> QED
  BY <1>2, <1>3, <1>4, <1>5 DEF AuthNext

\* Owner, settings, credentials, flows and requests always hold what they are
\* declared to hold.
THEOREM AuthTypeCorrect == AuthSpec => []AuthTypeOK
<1>1. AuthInv /\ [AuthNext]_authVars => AuthInv'
  BY AuthNextInv
<1>2. AuthInv => AuthTypeOK
  BY DEF AuthInv
<1> QED
  BY <1>1, <1>2, AuthInitInv, PTL DEF AuthSpec

\* No session outlives the password it was opened under, and one GitHub flow opens
\* one session, in every order of any number of requests.
THEOREM SessionsAreCurrent == AuthSpec => []SessionsCurrent
<1>1. AuthInv /\ [AuthNext]_authVars => AuthInv'
  BY AuthNextInv
<1>2. AuthInv => SessionsCurrent
  BY DEF AuthInv
<1> QED
  BY <1>1, <1>2, AuthInitInv, PTL DEF AuthSpec

\* Nobody is bound whose e-mail was never compared.
THEOREM BindingIsVouched == AuthSpec => []BoundVouched
<1>1. AuthInv /\ [AuthNext]_authVars => AuthInv'
  BY AuthNextInv
<1>2. AuthInv => BoundVouched
  BY DEF AuthInv
<1> QED
  BY <1>1, <1>2, AuthInitInv, PTL DEF AuthSpec

---------------------------------------------------------------------------
\* Only changePassword replaces the password, and it compared the one it replaces.
LEMMA KnewPasswordStep ==
  ASSUME AuthInv, AuthNext
  PROVE  KnewPassword
<1>1. ASSUME NEW w \in Workers, changePassword(w)
      PROVE  At(w, "change") /\ jobs'[w] = Idle /\ jobs[w].password = passwords
  <2>1. jobs'[w] = Idle
    BY <1>1, OneGoes DEF changePassword, Ends, AuthInv
  <2> QED
    BY <1>1, <2>1 DEF changePassword
<1>2. passwords' = passwords \/ \E w \in Workers : changePassword(w)
  BY DEF AuthNext, Step, LoginSettings, LoginVerify, Login, revokeToken, Admit, createToken, logout,
         putSettings, Verify, unlinkGithub, StartSettings, githubStart, Consume, CallbackSettings,
         CallbackSecret, githubCallback, Identify, Abort, Expire, ExpireFlow
<1> QED
  BY <1>1, <1>2 DEF KnewPassword

\* A binding goes to another user only by way of an unlinking.
LEMMA BindingStep ==
  ASSUME AuthInv, AuthNext
  PROVE  BindingStable
<1>1. ASSUME NEW w \in Workers, githubCallback(w), github \in Ids
      PROVE  github' = github
  <2>1. github # Unbound
    BY <1>1, AuthAssumption
  <2> QED
    BY <1>1, <2>1 DEF githubCallback, Binds
<1>2. github' \in {github, Unbound} \/ \E w \in Workers : githubCallback(w)
  BY DEF AuthNext, Step, LoginSettings, LoginVerify, Login, revokeToken, Admit, createToken, logout,
         putSettings, Verify, changePassword, unlinkGithub, StartSettings, githubStart, Consume,
         CallbackSettings, CallbackSecret, Identify, Abort, Expire, ExpireFlow
<1> QED
  BY <1>1, <1>2 DEF BindingStable

\* A session is opened under the revision its request started from, which is the
\* one whose secret was sent and whose settings allowed GitHub.
LEMMA OneConfigStep ==
  ASSUME AuthInv, AuthNext
  PROVE  OneConfig
<1> USE DEF AuthInv
<1>1. Len(creds) \in Nat
  BY LenProperties DEF AuthTypeOK
<1>2. ASSUME Len(creds') > Len(creds)
      PROVE  \E v \in Workers : Login(v) \/ createToken(v) \/ githubCallback(v)
  <2>1. creds' # creds
    BY <1>1, <1>2
  <2>2. ~\E which : Revoked(which)
    BY <1>1, <1>2, RevokedOnly
  <2> QED
    BY <2>1, <2>2
       DEF AuthNext, Step, LoginSettings, LoginVerify, revokeToken, Admit, logout, putSettings,
           Verify, changePassword, unlinkGithub, StartSettings, githubStart, Consume,
           CallbackSettings, CallbackSecret, Identify, Abort, Expire, ExpireFlow
<1>3. ASSUME NEW v \in Workers, Login(v) \/ createToken(v) \/ githubCallback(v),
             NEW w \in Workers, jobs'[w] # jobs[w]
      PROVE  v = w
  BY <1>3, OneGoes DEF Login, createToken, githubCallback, Ends
<1>4. ASSUME NEW w \in Workers, Login(w)
      PROVE  At(w, "login") /\ jobs[w].rev = config.rev
  BY <1>4 DEF Login
<1>5. ASSUME NEW w \in Workers, githubCallback(w)
      PROVE  At(w, "known") /\ jobs[w].rev = config.rev /\ jobs[w].secret = config.rev /\ config.on
  <2>1. At(w, "known") /\ jobs[w].rev = config.rev
    BY <1>5 DEF githubCallback
  <2>2. jobs[w].secret \in jobs[w].rev .. config.rev /\ config.on
    BY <2>1 DEF JobsSound, JobSound, At
  <2>3. config.rev \in Nat
    BY AuthAssumption DEF AuthTypeOK
  <2> QED
    BY <2>1, <2>2, <2>3
<1>6. ASSUME NEW w \in Workers, createToken(w)
      PROVE  At(w, "token")
  BY <1>6 DEF createToken
<1> QED
  BY <1>2, <1>3, <1>4, <1>5, <1>6 DEF OneConfig, At

\* What a transaction compares again holds when it acts, whatever other requests did
\* since the first look: the password it replaces, a login's configuration, a binding
\* against another.
THEOREM RecheckedIsHeld == AuthSpec => RecheckedHolds
<1>1. AuthInv /\ [AuthNext]_authVars => AuthInv'
  BY AuthNextInv
<1>2. AuthInv /\ [AuthNext]_authVars => [KnewPassword /\ OneConfig /\ BindingStable]_authVars
  BY KnewPasswordStep, OneConfigStep, BindingStep
<1> QED
  BY <1>1, <1>2, AuthInitInv, PTL DEF AuthSpec, RecheckedHolds
=============================================================================

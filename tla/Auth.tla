-------------------------------- MODULE Auth --------------------------------
(***************************************************************************)
(* The owner's ways in: internal/vault/auth.go.  A request is several      *)
(* statements and at most one transaction on one connection; between two   *)
(* of them any other request may run.  passwords counts how often the      *)
(* password was set: every hash has its own salt, so hashes are equal only *)
(* if it is.  No clock: what expires may go at any moment.  The crash of   *)
(* the process is the end of its requests (Abort); the tables stay.        *)
(***************************************************************************)
EXTENDS Naturals, Sequences

CONSTANTS
  Workers,       \* bound: requests under way at once
  Ids,           \* GitHub's user ids
  Unbound,       \* github_id = ''
  MaxPasswords, MaxCreds, MaxSettings, MaxFlows   \* bounds

ASSUME AuthAssumption ==
  /\ Unbound \notin Ids
  /\ {MaxPasswords, MaxSettings} \subseteq Nat \ {0}
  /\ {MaxCreds, MaxFlows} \subseteq Nat

VARIABLES
  passwords,  \* the password that holds, owner.password_hash
  github,     \* owner.github_id
  config,     \* settings: revision, github_enabled
  creds,      \* sessions and admin_tokens in the order they were made
  flows,      \* table oauth_flows: settings revision by flow
  started,    \* history: flows started so far
  jobs,       \* where each request is, with its locals
  trusted     \* history: ids bound with their e-mail compared

authVars == <<passwords, github, config, creds, flows, started, jobs, trusted>>

\* password: the one its authority comes from; flow: the flow it was made by, or 0.
Cred == [kind : {"session", "token"}, password : 1 .. MaxPasswords,
         flow : 0 .. MaxFlows, live : BOOLEAN]
Idle == [step |-> "idle"]
Admitted == {"settings", "token", "revoke", "logout", "password", "unlink"}

AuthTypeOK ==
  /\ passwords \in 1 .. MaxPasswords
  /\ github \in Ids \cup {Unbound} /\ trusted \subseteq Ids
  /\ config \in [rev : 1 .. MaxSettings, on : BOOLEAN]
  /\ creds \in Seq(Cred) /\ Len(creds) <= MaxCreds
  /\ started \in 0 .. MaxFlows
  /\ DOMAIN flows \subseteq 1 .. started /\ \A f \in DOMAIN flows : flows[f] \in 1 .. config.rev
  /\ \A w \in Workers : jobs[w].step \in Admitted \cup
       {"idle", "email", "login", "change", "unbind", "start",
        "flow", "checked", "secret", "known"}

AuthInit ==
  /\ passwords = 1 /\ github = Unbound
  /\ config = [rev |-> 1, on |-> FALSE]
  /\ creds = << >>
  /\ flows = [f \in {} |-> 0] /\ started = 0
  /\ jobs = [w \in Workers |-> Idle]
  /\ trusted = {}

Goes(w, job) == jobs' = [jobs EXCEPT ![w] = job]
Ends(w)      == Goes(w, Idle)
At(w, s)     == jobs[w].step = s

Granted(k, p, f) ==
  /\ Len(creds) < MaxCreds
  /\ creds' = Append(creds, [kind |-> k, password |-> p, flow |-> f, live |-> TRUE])
Revoked(which) ==
  creds' = [c \in DOMAIN creds |-> IF c \in which THEN [creds[c] EXCEPT !.live = FALSE] ELSE creds[c]]

---------------------------------------------------------------------------
\* login: settings, then the hash, then the transaction that reads both again.
LoginSettings(w) ==
  /\ At(w, "idle")
  /\ Goes(w, [step |-> "email", rev |-> config.rev])
  /\ UNCHANGED <<passwords, github, config, creds, flows, started, trusted>>

LoginVerify(w) ==
  /\ At(w, "email")
  /\ Goes(w, [step |-> "login", rev |-> jobs[w].rev, password |-> passwords])
  /\ UNCHANGED <<passwords, github, config, creds, flows, started, trusted>>

\* Mutant: the transaction compares the settings only.
LoginTrustsHash(w) ==
  /\ At(w, "login")
  /\ jobs[w].rev = config.rev
  /\ Granted("session", jobs[w].password, 0)
  /\ Ends(w)
  /\ UNCHANGED <<passwords, github, config, flows, started, trusted>>

Login(w) ==
  /\ At(w, "login")
  /\ jobs[w].password = passwords /\ jobs[w].rev = config.rev
  /\ Granted("session", jobs[w].password, 0)
  /\ Ends(w)
  /\ UNCHANGED <<passwords, github, config, flows, started, trusted>>

\* The middleware: the credential is good now, the handler runs later.
Admit(w, c, step) ==
  /\ At(w, "idle")
  /\ creds[c].live
  /\ step = "logout" => creds[c].kind = "session"
  /\ Goes(w, [step |-> step, by |-> c, password |-> creds[c].password])
  /\ UNCHANGED <<passwords, github, config, creds, flows, started, trusted>>

\* The page's revision is OwnerSettings' matter.
putSettings(w, on) ==
  /\ At(w, "settings")
  /\ config.rev < MaxSettings
  /\ config' = [rev |-> config.rev + 1, on |-> on]
  /\ Ends(w)
  /\ UNCHANGED <<passwords, github, creds, flows, started, trusted>>

createToken(w) ==
  /\ At(w, "token")
  /\ Granted("token", jobs[w].password, 0)
  /\ Ends(w)
  /\ UNCHANGED <<passwords, github, config, flows, started, trusted>>

revokeToken(w, c) ==
  /\ At(w, "revoke")
  /\ creds[c].kind = "token"
  /\ Revoked({c})
  /\ Ends(w)
  /\ UNCHANGED <<passwords, github, config, flows, started, trusted>>

logout(w) ==
  /\ At(w, "logout")
  /\ Revoked({jobs[w].by})
  /\ Ends(w)
  /\ UNCHANGED <<passwords, github, config, flows, started, trusted>>

\* The password given is compared outside the transaction.
Verify(w, from, to) ==
  /\ At(w, from)
  /\ Goes(w, [step |-> to, password |-> passwords])
  /\ UNCHANGED <<passwords, github, config, creds, flows, started, trusted>>

\* One transaction: the row still holds the hash compared, all go.
changePassword(w) ==
  /\ At(w, "change")
  /\ jobs[w].password = passwords
  /\ passwords < MaxPasswords
  /\ passwords' = passwords + 1
  /\ Revoked(DOMAIN creds)
  /\ Ends(w)
  /\ UNCHANGED <<github, config, flows, started, trusted>>

unlinkGithub(w) ==
  /\ At(w, "unbind")
  /\ github' = Unbound
  /\ Ends(w)
  /\ UNCHANGED <<passwords, config, creds, flows, started, trusted>>

\* githubStart: settings, then the row of the flow.
StartSettings(w) ==
  /\ At(w, "idle") /\ config.on
  /\ Goes(w, [step |-> "start", rev |-> config.rev])
  /\ UNCHANGED <<passwords, github, config, creds, flows, started, trusted>>

\* Mutant: the flow is of the revision to come.
githubStartAhead(w) ==
  /\ At(w, "start")
  /\ started < MaxFlows
  /\ started' = started + 1
  /\ flows' = [f \in DOMAIN flows \cup {started'} |->
                 IF f = started' THEN jobs[w].rev + 1 ELSE flows[f]]
  /\ Ends(w)
  /\ UNCHANGED <<passwords, github, config, creds, trusted>>

githubStart(w) ==
  /\ At(w, "start")
  /\ started < MaxFlows
  /\ started' = started + 1
  /\ flows' = [f \in DOMAIN flows \cup {started'} |->
                 IF f = started' THEN jobs[w].rev ELSE flows[f]]
  /\ Ends(w)
  /\ UNCHANGED <<passwords, github, config, creds, trusted>>

Without(f) == [g \in DOMAIN flows \ {f} |-> flows[g]]

\* githubCallback: find and delete the flow in one transaction, then read.
Consume(w, f) ==
  /\ At(w, "idle") /\ f \in DOMAIN flows
  /\ flows' = Without(f)
  /\ Goes(w, [step |-> "flow", flow |-> f, rev |-> flows[f]])
  /\ UNCHANGED <<passwords, github, config, creds, started, trusted>>

CallbackSettings(w) ==
  /\ At(w, "flow")
  /\ config.on /\ config.rev = jobs[w].rev
  /\ Goes(w, [step |-> "checked", flow |-> jobs[w].flow, rev |-> jobs[w].rev, bound |-> github])
  /\ UNCHANGED <<passwords, github, config, creds, flows, started, trusted>>

\* secret: history, the revision whose secret goes to GitHub.
CallbackSecret(w) ==
  /\ At(w, "checked")
  /\ Goes(w, [step |-> "secret", flow |-> jobs[w].flow, rev |-> jobs[w].rev,
              bound |-> jobs[w].bound, secret |-> config.rev])
  /\ UNCHANGED <<passwords, github, config, creds, flows, started, trusted>>

\* Mutant: the e-mail is asked for only if somebody is bound.
IdentifyAsksOthers(w, id) ==
  /\ At(w, "secret")
  /\ jobs[w].bound \in {Unbound, id}
  /\ Goes(w, [step |-> "known", flow |-> jobs[w].flow, rev |-> jobs[w].rev,
              secret |-> jobs[w].secret, id |-> id, vouched |-> jobs[w].bound # Unbound])
  /\ UNCHANGED <<passwords, github, config, creds, flows, started, trusted>>

\* GitHub names the user; the e-mail is asked for only if nobody is bound.
Identify(w, id) ==
  /\ At(w, "secret")
  /\ jobs[w].bound \in {Unbound, id}
  /\ Goes(w, [step |-> "known", flow |-> jobs[w].flow, rev |-> jobs[w].rev,
              secret |-> jobs[w].secret, id |-> id, vouched |-> jobs[w].bound = Unbound])
  /\ UNCHANGED <<passwords, github, config, creds, flows, started, trusted>>

Binds(w) ==
  /\ github' = jobs[w].id
  /\ trusted' = IF jobs[w].vouched THEN trusted \cup {jobs[w].id} ELSE trusted

\* Mutant: the transaction compares the binding only.
githubCallbackAnyConfig(w) ==
  /\ At(w, "known")
  /\ github \in {Unbound, jobs[w].id}
  /\ Binds(w)
  /\ Granted("session", passwords, jobs[w].flow)
  /\ Ends(w)
  /\ UNCHANGED <<passwords, config, flows, started>>

githubCallback(w) ==
  /\ At(w, "known")
  /\ config.rev = jobs[w].rev /\ github \in {Unbound, jobs[w].id}
  /\ Binds(w)
  /\ Granted("session", passwords, jobs[w].flow)
  /\ Ends(w)
  /\ UNCHANGED <<passwords, config, flows, started>>

\* A request ends with nothing more done: refused at a comparison above, a wrong
\* password, GitHub's refusal, a failed statement, a client or process gone.
Abort(w) ==
  /\ jobs[w] # Idle /\ Ends(w)
  /\ UNCHANGED <<passwords, github, config, creds, flows, started, trusted>>

\* The lifetimes end; cleanup deletes what they ended.
Expire(c) ==
  /\ creds[c].live /\ Revoked({c})
  /\ UNCHANGED <<passwords, github, config, flows, started, jobs, trusted>>

ExpireFlow(f) ==
  /\ flows' = Without(f)
  /\ UNCHANGED <<passwords, github, config, creds, started, jobs, trusted>>

Step(w) ==
  \/ LoginSettings(w) \/ LoginVerify(w) \/ Login(w)
  \/ \E c \in DOMAIN creds : revokeToken(w, c) \/ \E s \in Admitted : Admit(w, c, s)
  \/ createToken(w) \/ logout(w)
  \/ \E on \in BOOLEAN : putSettings(w, on)
  \/ Verify(w, "password", "change") \/ changePassword(w)
  \/ Verify(w, "unlink", "unbind") \/ unlinkGithub(w)
  \/ StartSettings(w) \/ githubStart(w)
  \/ \E f \in DOMAIN flows : Consume(w, f)
  \/ CallbackSettings(w) \/ CallbackSecret(w) \/ githubCallback(w)
  \/ \E id \in Ids : Identify(w, id)
  \/ Abort(w)

AuthNext ==
  \/ \E w \in Workers : Step(w)
  \/ \E c \in DOMAIN creds : Expire(c)
  \/ \E f \in DOMAIN flows : ExpireFlow(f)

AuthSpec == AuthInit /\ [][AuthNext]_authVars

---------------------------------------------------------------------------
(***************************************************************************)
(* Properties.                                                             *)
(***************************************************************************)
\* "Changing the local password revokes all web sessions" (README.md): a session
\* that lives was opened under the password that holds now, also where the old
\* one was compared before the change and the session opened after it.  And a
\* GitHub flow opened one session, though its callback is called twice at once.
SessionsCurrent ==
  /\ \A c \in DOMAIN creds :
       creds[c].live /\ creds[c].kind = "session" => creds[c].password = passwords
  /\ \A c, d \in DOMAIN creds : creds[c].flow = creds[d].flow /\ c # d => creds[c].flow = 0

\* The same sentence of the CLI's management tokens.
TokensCurrent ==
  \A c \in DOMAIN creds :
    creds[c].live /\ creds[c].kind = "token" => creds[c].password = passwords

\* "When it is bound first, GitHub must return a verified e-mail that matches the
\* owner's" (README.md): whoever is bound had its e-mail compared in some login,
\* whatever unlinkings and other logins came between a callback's two reads.
BoundVouched == github \in trusted \cup {Unbound}

\* Of two changes of one password one takes effect: who changes it knew the one
\* that held until then.
KnewPassword ==
  passwords' # passwords =>
    \E w \in Workers : At(w, "change") /\ jobs'[w] = Idle /\ jobs[w].password = passwords

\* A login that ends with a session saw one configuration from its start to its
\* end: what the flow was started with, the secret sent and the e-mail compared
\* are all of the revision that holds when the session opens.
OneConfig ==
  \A w \in Workers : Len(creds') > Len(creds) /\ jobs'[w] # jobs[w] =>
    /\ At(w, "login") => jobs[w].rev = config.rev
    /\ At(w, "known") => {jobs[w].rev, jobs[w].secret} = {config.rev} /\ config.on

\* "Once bound, only that user id is accepted" (README.md): no login replaces a
\* binding by another, whoever else is logging in.
BindingStable == github \in Ids => github' \in {github, Unbound}

\* What the code compares again, or rests on, in the transaction that acts holds
\* in it: the password that changePassword replaces, the configuration a login was
\* started with, a binding against another.  Not the rest: unlinkGithub acts on a
\* password it compared before, and a callback may bind anew what was unlinked
\* since it looked.
RecheckedHolds == [][KnewPassword /\ OneConfig /\ BindingStable]_authVars
=============================================================================

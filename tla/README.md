# Verification of CIVault

TLA+ models of CIVault, a single-process, single-owner vault for CI secrets (Go, SQLite, an embedded
console, a command line client and a GitHub Action), with TLC configurations that check them on small
instances and TLAPS proofs for every value of the constants. Line numbers refer to the sources under
`src/`.

## 1. The system

One process serves the console, the administration API and the runtime API, and runs one background
worker. All state is one SQLite file. `Open` (store.go:57) sets `SetMaxOpenConns(1)` and
`_txlock=immediate`; every handler does its reading and writing inside one call of
`transaction` (store.go:224). A transaction is therefore atomic and totally ordered with all others, and
is one action of the models. What is *not* atomic is what the models are about: anything that happens
between two transactions of one operation, or before its first one.

| Component | State | Operations | Interacts with | What is hard |
| --- | --- | --- | --- | --- |
| Keys and versions (admin.go) | `keys`, `key_versions`, `idempotency` | putKey, patchKey, deleteKey, activateVersion, expireVersion, clean-up of `idempotency` | each ends with `cancelStaleNotifications` | retried writes, activation of old versions, date changes there and back, boundary of the clean-up |
| Tags and policies (admin.go, policy.go) | `tags`, `key_tags`, `policies`, `policy_versions` and target tables | createTag, renameTag, deleteTag, setKeyTags, putPolicy, patchPolicy, matching | read by resolve | references from old versions, numbering of versions |
| Runtime reading (runtime.go, oidc.go) | `oidc_requests` | resolve (verify, then transaction), clean-up | keys, tags, policies, signing keys | verification and use at different moments, concurrent and repeated calls with one token, revocation in between |
| Expiry notifications (notifications.go) | `notifications`, locals of the worker | schedule, select, claim, send, finish, restart | key and settings handlers, mail provider | effects outside the transaction, lost answers, late requests, crashes, two idempotency windows |
| Settings and sealed configuration (admin.go, store.go) | `settings`, log level | putSettings, configSecret | notifications, GitHub sign-in | revision check, effect after the commit |
| Owner authentication (auth.go) | `owner`, `sessions`, `admin_tokens`, `oauth_flows`, setup-token file | setup, login, logout, password, tokens, GitHub flow, unlink | settings | credential checked outside the transaction that uses it, remote calls between two transactions |
| Signing key cache (oidc.go) | keys, fetched, lastAttempt | key | resolve | throttled refresh, failed refresh, lock held over HTTP |
| Rate limiter (http.go) | table of windows | rate | all public endpoints | shared limit |
| Server lifecycle (main.go, store.go) | schema version, master key check | Open, shutdown, Backup | all | migrations, restored snapshots |
| Action client (action/src) | attempt counter | resolveKeys, exec | resolve | retries against the server's cap |
| Command line client (internal/cli) | none | HTTP calls | admin API | read-modify-write of tag sets |
| Encryption (internal/cryptobox) | derived keys | Seal, Open, MAC | all | none stateful |
| Console, audit log, HTTP layer, scripts | rows, forms | listings, decoding | | I/O |

`PROJECT.json` lists the components with their status and the hazards with the properties that watch
them.

## 2. The modules

| Module | Models | Extends | Proved in |
| --- | --- | --- | --- |
| `KeyLifecycle` | keys, versions, idempotency | | `KeyLifecycleProofs` |
| `AccessRules` | tags and policies | `KeyLifecycle` | `AccessRulesProofs` |
| `Runtime` | resolve | `AccessRules` | `RuntimeProofs` |
| `ActionClient` | the Action's three attempts against resolve | `Runtime` | `RuntimeProofs` |
| `ActionExec` | the Action's shell and its cancellation | | `CommandsProofs` |
| `Jwks` | GitHub's signing keys and their cache | | `GuardsProofs` |
| `Auth` | the owner's ways in | | `AuthProofs` |
| `SealedBox` | sealing bound to a context | | `OwnerSettingsProofs` |
| `OwnerSettings` | settings, sealed secrets, log level | `SealedBox` | `OwnerSettingsProofs` |
| `Lifecycle` | start, migrations, setup, backup, restore | | `CommandsProofs` |
| `RateLimit` | the table of windows | | `GuardsProofs` |
| `AuditExport` | audit log, its clean-up, the paged export | | `CommandsProofs` |
| `MailLedger` | abstract: what a reminder promises | | implemented: `NotificationsProofs` |
| `Notifications` | worker, settings, provider; implements `MailLedger` | `KeyLifecycle` | `NotificationsProofs` |

Eight `MC` modules give the constants small values: `MCAccessRules` (with `KeyLifecycle`), `MCRuntime`,
`MCNotifications` (with `MailLedger`), `MCGuards` (`Jwks` and `RateLimit`), `MCOwnerSettings` (with `SealedBox`),
`MCAuth`, `MCCommands` (`Lifecycle`, `AuditExport` and `ActionExec`) and `MCActionClient`. Where one of them holds
components that share nothing, its next-state relation moves one while the others stand at their start: every
behaviour of each component is there, and no product of the two is searched for what it cannot show.
`MCAccessRules` does the same with key changes without rules and rule changes over plain keys, `MCRuntime` with
one key and with two keys under a tag. An operator whose comment begins with "Mutant:" stands before the definition it
varies. It is a plausible mistake in that piece of code and is used only to show that a property notices
it.

The modules are composed by extension where the code shares state (keys, policies and resolve; the worker
and key handlers) or where two programs meet (`ActionClient`). The others share nothing but the moment at
which one looks at another, which each models as a choice: `Runtime` takes verification of a token as one
step that may succeed, `Auth` takes a save of the settings as one step that moves the revision.

### KeyLifecycle

A key is its path: `UNIQUE(workspace_id,path)` and the fact that no row of `keys` is ever removed make
the two interchangeable, and a deleted path is refused for good (admin.go:300). A version is its key and
number. `keys[k].active = 0` stands for "no row"; in the code a row and its first version appear in one
transaction. `putKey` is split along its outcomes: `PutKeyNew` makes a version and stores the answer,
`PutKeyUnchanged` replays the answer or refuses. Each version carries two history fields, `by` (the header)
and `asked` (the request), that no guard reads. They let properties speak of who made what.

Time is Unix seconds, as in the tables. `IdemTTL` is the 86400 of `cleanup`, `Never` is a NULL date.

### AccessRules

Ids of tags are never handed out twice (`newID`, 128 random bits), which `spent` records. Names of tags are
left out. In a rule, `repo` stands for the optional single values and `refs` for the optional lists of
claimsMatch; all members of a kind are treated alike by the code.

### Runtime

`resolve` is two steps: `Verify`, which looks at the clock, and then one of `FirstAnswer`, `RetryAnswer`
and `Refuse`, the transaction. Between them the call waits for the database connection; handlers, other
calls, the clean-up and the clock may come first. A refusal may always happen: a value that cannot be
decrypted, the 256 KiB limit, a failed audit write or a client that left each abort the transaction and
leave nothing behind. `delivered` is history: what was handed out for each token.

### Notifications and MailLedger

A reminder is named by (version, expiry revision, threshold), the unique constraint of its table.
`ProcessNotifications` is `Schedule`, `Select`, then for each id one of `Skip`, `CloseWindow` and
`Claim`, and after a claim `Post` and one of `FinishSent`, `FinishRetry`, `FinishFailed`. These are its
transactions and the two ends of its HTTP call, in order. Handlers (`ChangeKey`, `PutSettings`), `Crash`, the
provider's `Accept` and the clock come in between. A body stands for the text: the date it announces and the settings revision that supplied
its addresses.

The provider is external and modelled from what sendEmail and `docs/operations.md` count on: a request
under a known id with the same body is recognised for `ProviderWindow` (24 h). A request may be accepted
late (until `SendTimeout` after the claim), its answer may be lost, and it may be dropped.

`MailLedger` says what all this is for, with three actions: a text is bound once, delivered at most once
and only as bound, and reported only after that. `Notifications` implements it under the mapping
`bound` = the payload of a row with an attempt, `delivered` = the provider's inbox, `reported` = status
"sent".

### Jwks

`githubVerifier.key` is `FromCache`, `TooSoon` or `Refresh`, the last followed by `Complete` or `Fail`
while the mutex stays with its caller. `fetched` counts from before the request (oidc.go:49, 106), so a
slow answer does not lengthen the hour. `Fail` stands for every early return after line 58. `Rotate` and
`Respond` are GitHub. `changed`, `failed` and `good` are history.

### RateLimit

The map is a function whose domain grows and shrinks. `Request` drops what has run out, counts, stores and
then decides, in the code's order; a refused request is counted and stored as well. `log` is history.

### SealedBox and OwnerSettings

A box is the record of what it was sealed with, and opens only under the same. Translated is what
distinguishes contexts: each part with its length before it. In `OwnerSettings` a column's context holds the
revision of its own last change, which `putSettings` leaves alone when a secret is kept. A save is
`Submit`, `Lock`, then `Commit` or `Refuse`, `SetLevel`, `getSettings`; `Fail` may replace any step that can
fail. `Restart` is the process ending anywhere and Open reading the level back, or going on without it where
that fails (store.go:153, 163); `levelOf` remembers which. Of the settings, the
model keeps what a guard reads: services in use, whether their names are filled in, and the level.

### Auth

Each request is its statements and its transaction, as separate steps of a worker with the locals it
carries. `passwords` counts the changes: two argon2id hashes of one password differ, so the comparison
of hashes (auth.go:171, 276) is a comparison of that count. `LoginVerify` and `Verify` are the successful
comparison; every refusal is `Abort`. A credential carries the password its authority comes from, and the
flow it was opened by; both are history. There is no clock: a session, a token or a flow may end at any
moment. `Admit` is the middleware; a request admitted is not looked at again, as in the code.

### Lifecycle

`Open` is a sequence of statements and file operations, each a step, for the server and for the backup
command, which runs the same function. `Crash` is a stop anywhere, or an error that Open returns. Errors it ignores
are branches of their own: a removal of the file that fails (`FileRemoved`; setup ignores it as well), and
`initialized` answering that there is no owner because it could not count (`ReadOwner`). `cause` is history: why
the file may lie beside an owner. `os.WriteFile` is two steps. `setup` is its check, its transaction and its
removal of the file. `LifeInit` starts from a new directory or from
what an older or newer server may have left; the operator may choose a wrong master key, and may restore
a copy. A schema version of 0 is an empty database, 3 one of a newer server.

### AuditExport

Rows are (id, time). A row is stamped before its insertion, so it may arrive up to `Lag` late. `Before` is
the ORDER BY, ids being random, and `NthRow` finds a row by the number of those before it. `auditEvents` cuts a page by
LIMIT and OFFSET, with `intParam`'s cap on the offset. `NextPage` is one request of the export; between two of
them rows arrive and `cleanup` removes old ones.

### ActionClient

A caller of `Runtime` is an attempt (token, number). `Send` starts one; it arrives or not, is rebuffed
before its transaction or served in it, and its reply is received or not. `GiveUp` covers a failed
connection, the 15 s and an answer cut short; an attempt given up may still be served. `Spoilt` is an answer that is
none of the server's, which ends the step at once. `Patient` bounds
the time an attempt and a pause take. A token is asked for per step and outlives it
(`ClientAssumption`).

### ActionExec

The shell and the processes it starts are one process group. `heeds` says whether SIGTERM ends a process and is
chosen at its birth. `Cancel` is the first SIGINT or SIGTERM, `ForceKill` the timer, `Close` the shell's close
event with its cleanup. What the command does (`Fork`, `Exit`, `Heed`) is external.

## 3. The runs

| Run | Question | Bounds that matter | States |
| --- | --- | --- | --- |
| `keys_and_rules` | do retries, rotation, activation, deletion and clean-up keep history true? does any rule or key refer to something gone? | 2 versions in all over 2 keys, 2 texts, 1 header, TTL 1 over 4 seconds, 3 revisions; 2 tags and 2 policies of 2 versions over dateless keys, a rule by key and rules by tag | 0.34 M |
| `runtime` | cap, pinning, revocation under concurrency; is a request for several keys all or nothing, is a tag taken off felt at once? | 2 calls at once, 1 token, 2 requests for a key of 2 versions, or 1 call for 2 keys by a tag; 2 answers, a window of 1, time past the record's clean-up | 1.2 M |
| `runtime_cap` | the documented cap without an end (expected to fail, section 6) | as `runtime`, one key, a window of 2 | |
| `notes_keys` | key handlers between all steps of the worker | 2 versions, 2 dates, 2 revisions, 3 of a key's only version, batch of 1, expiry reminders only | 1.2 M |
| `notes_retry` | lost answers, late requests, settings changes, restarts, both windows, both thresholds | 8 instants, windows of 4 and 6, sends of 2, 1 crash, Retry-After of 2, 3 settings revisions, a date at 1, or at 2 and then 3 instants | 2.0 M |
| `notes_live` | is every due reminder handled? | 2 keys, batch of 1, 1 crash | 0.09 M |
| `guards` | is a stale signing key used, a good one refused, does every verification end? whom does the limiter refuse? | 2 calls, 2 kids, an hour of 3, a throttle of 2, requests of 1, 5 instants; 3 clients, windows of 2 in 6 instants, a table of 2, limits of 1 and 2, 5 requests | 0.66 M |
| `owner_settings` | two pages, restarts, failures; do two contexts run together? | 2 pages, 6 forms, 2 secrets, 5 revisions, 1 restart; contexts of up to 2 parts of up to 2 of 2 symbols, 2 master keys | 0.35 M |
| `auth` | sessions, flows, binding and password under interleaving | 2 requests at once, 3 credentials, 3 passwords, 3 settings revisions, 2 flows, 2 GitHub users | 2.5 M |
| `auth_tokens` | a documented promise (expected to fail, section 6) | as `auth` | |
| `commands` | can a directory be left unusable, or bound anew? is an export complete, without repeats? what is left of a cancelled step? | 2 processes, 2 setups at once, 2 master keys; 4 rows, pages of 2, offsets to 2, retention of 2, 3 instants; a shell and 2 processes | 0.23 M |
| `action_client` | are the client's own retries refused, or answered with something else? | 3 attempts, each of 1, pauses of 1, a window of 5, 7 instants, 2 versions | 2.5 M |

Scaling. Days, minutes, hours and windows are constants; the runs use one unit for minute, hour and day and
a few units for the two windows, so that retries, the inner window, the outer window and what lies
between are all reached within the time bound. What the properties depend on is the order of these
instants, stated as `WindowAssumption` (Window + SendTimeout <= ProviderWindow: 23 h plus a 15 s HTTP
timeout against 24 h). `IdemTTL` is 1 so that three lifetimes of a row fit into the run. The batch limit
is 1, the smallest that makes rows wait. Two versions and three revisions are the least that allow going
there and back: a date is set, changed and set again (`MCThereAndBack` keeps the third revision to a key
with one version); symmetric values are interchanged by `SYMMETRY` where no liveness property is checked.

The bounds `MaxVersions`, `MaxRevision`, `MaxPolicyVersions`, `MaxSettings`, `MaxCrashes`, `MaxTime` and their like
are guards named in the modules. The runs end when they are used up. Deadlock is checked in every run: something
remains possible for ever, a request that ends without effect, a restart, a clean-up that finds nothing. Only a step
of the Action that has ended stops, which `MCExec` states as a disjunct of its own.

`MaxTime` reaches past the longest window from the earliest moment it can begin: 7 in `action_client` lets a window
of 5 that began at 1 run out; 5 in `guards` lets a set fetched at 1 run out and be replaced. `MaxOffset = PageSize = 2`
makes the third page the repeated one. In `notes_retry` the versions dated 2, the ones with two thresholds, are
followed for 2 instants and those dated 1, which see the windows out, for 7. In `guards` a request is
shorter than the throttle, in the code longer (15 s against 10 s); `KeysAreRecent` and `RefusalsHaveCause` hold for
either order.

Fairness. Nothing is assumed of the owner, the clock, GitHub, the provider or a command.

- `notes_live`: `WF_vars(WorkerStep)`. RunWorker loops over a ticker until shutdown, the HTTP client has a
  timeout of 15 s and transactions end. `DueHandled` is stated for a time after which the owner
  leaves keys alone (`OwnerRests`). Without it, an owner who disables and enables the key of the oldest
  row between every two rounds keeps that row at the head of the query for ever; TLC finds that behaviour.
- `guards`: strong fairness of each call's turn at the mutex, since a Go mutex hands itself to the
  longest waiter after a millisecond (starvation mode); weak fairness of the end of a request, which the
  15 s timeout guarantees.
- `commands`: weak fairness of the client's loop, and nothing of how fast it is against the log; weak fairness of
  the Action's timer, the close event and the delivery of signals. A process that ignores SIGTERM is never forced by
  fairness.

## 4. What the properties say

The type invariants are checked together where components run together: `GuardsTypeOK`, `CommandsTypeOK`, and
`ClientTypeOK`, which contains those of `Runtime`, `AccessRules` and `KeyLifecycle`. A property below that has parts
names each of them in its module. The others:

- `IdemOnce`, `ReplayHonest`: two versions under one header lie more than the TTL apart; a repeated write is
  answered with the version its own first copy made.
- `HistoryKept`: texts, makers and the meaning of an expiry revision never change; a deleted key is frozen.
- `ReferencesHold`, `NewestInForce`, `RulesKept`: nothing refers to a deleted tag; the version in force
  is the newest; versions are append-only.
- `RetryCap` (with `RecordTrue`, the record it rests on), `OneAnswer`, `AnswerCurrent`: a live token is answered at
  most three times, always with the same versions, within the window, and each time only what is readable at that
  moment.
- `LiveFresh`, `LiveRevision`, `OneWaiting`: a row still to be sent is about the present date, under the present
  expiry revision, of an enabled key's active version, was written under the present settings, and is alone in waiting.
- `AttemptedIsFixed`, `SentIsTrue`, `NotBeforeDue`, `DueHandled`, `LedgerKept`: what may be on its way is not
  altered or revived; "sent" means mailed; backoff is kept; no reminder is forgotten; the whole implements
  `MailLedger`, in particular one mail per reminder.
- `KeyRecent`, `RefusedForCause`, `CallsEnd`: a signing key is used at most an hour after it was withdrawn; a
  published key is refused only for a failure just now or because it is new, and one of a set once fetched not for
  an hour whatever fails; every verification ends.
- `LimitKept`: within any minute no more than twice the limit is admitted, the burst of a fixed window; refusals are for what happened within
  the minute; refused requests do not prolong them.
- `SecretsTrue`, `OpensOnlyAsSealed`, `OwnAnswer`: a secret is what was last saved as it and opens, and what is in use
  has one; it opens in no other column or revision; the process logs as stored, unless its last start could not read
  that and nothing was saved since; a page is answered with its own save.
- `SessionsCurrent`, `BoundVouched`, `RecheckedHolds`: no session outlives a password change, also not one whose
  login by password began before it (a login by GitHub rests on no password), and a flow opens one session; whoever
  is bound had the e-mail compared; what a transaction compares again holds when it acts: the password
  changePassword replaces, one configuration throughout a login, a binding against another. What is not compared
  again is in section 6.
- `OpenSound`, `SetupOnce`: whoever runs has the right key and schema; one setup, a server waiting for it has its
  code file, and beside one that is set up such a file is left only by an ignored error or a backup command.
- `ExportExact`, `CancelSettled`, `CommandsEnd`: an export holds everything that was there, and nothing twice
  unless a row came late that belongs between those already read; a cancelled step reports no success and a forced one leaves no process; both end.
- `NeverReplayed`, `GotSelected`: an attempt the client still waits for is always within the server's cap and window,
  and what a step gets is the first selection.

## 5. What is proved

Every theorem holds for all values of the constants that satisfy the named assumptions: any number of keys,
callers, pages, processes, any windows and limits, and any bound. The step of a theorem over time is always the same:
an invariant that holds at the start and is kept by every step, one lemma for each action, and a lemma for the
action property from that invariant. `PROJECT.json` says what each theorem establishes. Every invariant and
every action property of a passing run is stated by one of them.

| Module | Theorems |
| --- | --- |
| `KeyLifecycleProofs` | `KeyTypeCorrect`, `HeaderWritesOnce`, `RepeatsAnswerTruly`, `HistoryIsKept` |
| `AccessRulesProofs` | `RulesUseKeys`, `AccessTypeCorrect`, `NoDanglingRule`, `LastRuleRules`, `RulesAreKept` |
| `RuntimeProofs` | `RuntimeUsesKeys`, `RuntimeTypeCorrect`, `RetriesAreCapped`, `AnswersAgree`, `RulesHoldAtRuntime`, `RevocationIsImmediate`; of the client `ClientUsesRuntime`, `ClientTypeCorrect`, `RetriesAreWelcome`, `FirstSelectionStands` |
| `NotificationsProofs` | `NotesUseKeys`, `NotesTypeCorrect`, `RemindersAreCurrent`, `RemindersAreRevised`, `OneReminderWaits`, `SentIsTaken`, `AttemptsAreFixed`, `AttemptsAreDue`, `LedgerIsKept` |
| `AuthProofs` | `AuthTypeCorrect`, `SessionsAreCurrent`, `BindingIsVouched`, `RecheckedIsHeld` |
| `OwnerSettingsProofs` | `SettingsTypeCorrect`, `SecretsStayTrue`, `AnswerIsOwn`; of the contexts `ContextsApart`, `BoxesOpenAsSealed` |
| `GuardsProofs` | `JwksTypeCorrect`, `KeysAreRecent`, `RefusalsHaveCause`; `RateTypeCorrect`, `LimitIsKept`; `GuardsTypeCorrect` of both |
| `CommandsProofs` | `LifeTypeCorrect`, `OpensSoundly`, `SetsUpOnce`; `ExecTypeCorrect`, `CancelIsSettled`; `ExportIsExact`; `CommandsTypeCorrect` of the three |

The invariants, and why the property alone is not one:

- Keys. `KeyInv` = TypeOK, ActiveInRange, IdemRecent, ReplayHonest, IdemOnce. A PUT under a header that is
  not in the table could be the second one. `IdemRecent` says that a version's row is in the table, with the right
  number, until the version is older than the TTL; the strict comparison of `cleanup` is just what keeps it.
  The compositions with rules, with resolve and with the worker each implement `KeySpec` (`RulesUseKeys`,
  `RuntimeUsesKeys`, `NotesUseKeys`): the tables of keys move only as their own handlers, the clean-up and the clock
  move them, so what is proved of the keys alone holds in all of them.
- Rules. `AccessInv` adds `ReferencesHold`, `NewestInForce` and their types. The step that deletes a tag uses its guard
  over all versions; the keys a rule names stay created because versions are never lost (`CreatedKept`).
- Runtime. The code compares a call with the record, the properties compare an answer with the first one.
  `RecordOfFirst` ties the two for a record that has counted every answer of its token, which it does as long
  as it was never cleaned up and made again (`RecordTrue`).
- Action client. The composition implements `Runtime` (`ClientUsesRuntime`), so `RuntimeInv` holds of it too. Then:
  calls are the client's own attempts (`CallsOwn`), the record counts the attempts that were served
  (`RequestKept`, by which one is always left), what was answered is the first selection (`FirstGiven`), and the n-th
  attempt is not later than n - 1 timeouts and pauses after the first answer (`InTime`, by which the window is open).
- Notifications. What the code knows of an attempt is in three places: the claimed row, the iteration's locals and the
  requests under way. All agree, and no request outlives `SendTimeout` (`RowsSound`, `BatchDue`, `JobSound`, `WireSound`,
  `InboxSound`); a live row is of the current expiry revision (`LiveCurrent`). `LedgerIsKept` is the refinement of
  `MailLedger`: each action maps to one of its three or to a stutter.
- Owner authentication. A request's locals are of the past (`JobsSound`): its revision and password are at most the
  present ones, and a revision that did not move kept its content. A GitHub flow is in one place only: its row, one
  callback, or one session (`FlowsOnce`).
- Settings. Every column holds the last secret saved as it, sealed under the revision noted beside it
  (`SecretsSealed`). What a save knows after its commit is still true since it holds the mutex (`HolderSound`, `LevelSet`).
- Contexts. What is sealed under one context opens under no other because the sequences made of two contexts differ
  (`AadTells`): a frame begins with the length of its part, so of two sequences that agree the first frames agree,
  and what follows begins at the same place. This is an induction over the number of frames; the library's induction
  rules cannot be instantiated here, so `Climb` has it as a least element of a set of numbers. It holds for any
  alphabet, also one that contains the lengths.
- Signing keys. A set differs from what GitHub publishes only by what changed since it was asked for
  (`SetTrue`, of the cache and of the answer under way), and every attempt failed or filled the cache (`AttemptEnded`).
- Limiter. The properties look at any minute, the table at fixed windows, which it forgets. `WindowsExist` says that
  the tries can be divided into windows: of one key they do not touch (`Apart`), none admits more than the limit
  (`LimitHolds`), and the last is the one the table counts (`TableTrue`). A minute then meets at most two of them.
- Export. `ExportExact` compares the rows read with those there at the start; what decides is where the rest of them
  stand now. A row's rank is how many the listing shows before it. An insertion lowers no rank, and one
  that is not late is outside the export; a clean-up takes rows from the end and changes no rank of those left. So the rows
  still to come have ranks from the offset on and those read have lower ones (`ExportMoves`), and a page of ranks
  offset to offset + PageSize - 1 misses none and repeats none (`RankTells`).
- Lifecycle and exec. A process past the comparison has the database's key; an owner once seen stays
  (`MasterHeld`, `OwnerSeen`), and a code file beside one has its cause from the moment the server has counted the
  owners (`FileExcused`). Nothing lives after a SIGKILL to the group (`ExecInv`).

Assumptions a reader may want to weigh, beyond the types of the constants: `WindowAssumption` (an attempt made within
the inner window has ended before the provider forgets the first: 23 h and 15 s against 24 h); in `ClientAssumption`
that the client makes no more attempts than the server admits, that the slowest client still fits into the window,
and that a token outlives its step; in `JwksAssumption` Throttle <= Lifetime and HttpTimeout < Lifetime, and that
`None` is no caller; in `SettingsAssumption` that no form enables both mail services (which validation refuses) and
that "no secret" is no box; `NoMaster` is no master key. `MaxTime`, `MaxRevision`, `MaxPasswords` and `MaxSettings` are
at least 1 where their counters begin at 1.

Only model-checked is liveness, for which the prover has no rule: `DueHandled`, `CallsEnd` and `CommandsEnd`, each under
the fairness of section 3. `GuardsTypeCorrect`, `CommandsTypeCorrect` and `BoxesOpenAsSealed` are about the composition or
the set of contexts their `MC` module defines, since the checked property is defined there; what they rest on is not.

## 6. Where code and documents differ

`docs/design.md:43` promises at most three successful deliveries of one token within 60 seconds. The
run `runtime_cap` shows one more. A call verified at the end of the leeway waits for the database
connection; the clean-up removes the token's record, one second after exp+30; the call then finds no record
and is answered as a first use. While the record lives the cap holds (`RetryCap`). In the code the wait has to last about
two seconds at exactly that moment, with the minute's clean-up in it.

`README.md:76` promises that changing the password revokes all sessions and management tokens. The run `auth_tokens`
shows a createToken that was admitted before the change and commits after it: its token stays valid (auth.go:489). For
sessions the promise holds (`SessionsCurrent`), since login looks again inside its transaction.

Five more behaviours the models have, each small in practice. The properties leave room for them where they are
named:

- `README.md:74`: a first binding needs a verified e-mail that matches. A callback that found its user bound skips the
  e-mail; if the owner unlinks during its calls to GitHub, it binds again (auth.go:400, 427). Its e-mail had been
  compared in an earlier login (`BoundVouched`), and another user cannot get in this way.
- `README.md:74`: unlinking asks for the local password on the page. It is compared before the transaction and not
  looked at again (auth.go:307-314), so an unlinking whose password was compared before it was changed still
  unbinds after. `RecheckedHolds` does not speak of it.
- `README.md:50`: the setup code is deleted after initialization. A backup command started before setup writes it
  again after (store.go:153-156). A removal that fails is ignored (store.go:162, auth.go:122), and `initialized`
  answers that there is no owner also when it cannot count (store.go:186-189), so that a start then keeps or writes
  the file. `FileGone` excepts these three and no other. The file opens nothing, since an initialized server refuses
  setup (`OneOwner`).
- `README.md:36`: the operator reads the setup code from the file. A death during the write leaves a file without a
  whole code, which later starts keep (store.go:155), and one that is empty is matched by an empty code
  (auth.go:85-90); `SetupPossible` asks for the file only.
- `README.md:181`: a cancelled exec cleans up its process tree. If the shell ends on SIGTERM its timer goes with it, and
  what ignores SIGTERM goes on (exec.ts:67). A tree whose shell has to be forced is gone (`ForcedTreeGone`).

Seen while reading and not a matter of the models: `docs/operations.md:60` names schema 1 as the supported
one, the code supports 2 (store.go:101).

## 7. What is not modelled, and the plan

Left open: `Runtime` composed with `Jwks`, if a property over both is found; they share no state.

Left out for good:

- cryptographic functions (AES-GCM, HKDF, HMAC, argon2id, JWT signatures), taken as ideal;
- validation and decoding of requests, headers, cookies, CSRF and origin checks: pure functions of a request;
- reminders of a coming date that are still pending when the date passes with `notify_on_expiry` off: the worker
  mails them late (notifications.go:118). The model has this, no document says otherwise, so no property is about it;
- listings and other read-only endpoints, and the filters of `audit-events` other than the time;
- `testEmail`, which keeps no state; `renameTag`, a display name; `createWorkspace`, since no operation looks
  across two workspaces;
- `key tags add/remove` of the command line client: it reads a tag set and puts it back in separate requests, and
  two editors can lose each other's change. No document promises otherwise, so there is nothing to check;
- the Windows half of exec's `kill` (taskkill ends the whole tree at once), masks and outputs of the Action;
- the console, build scripts, smoke tests and generated documents.

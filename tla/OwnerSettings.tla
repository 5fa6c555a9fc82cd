---------------------------- MODULE OwnerSettings ----------------------------
(***************************************************************************)
(* The owner's settings and the credentials sealed in them: putSettings    *)
(* and getSettings of internal/vault/admin.go, settings, configSecret and  *)
(* setLevel of store.go.  Two browser pages save at once; settingsMu is    *)
(* held over the transaction, the log level set in memory and the answer.  *)
(***************************************************************************)
EXTENDS Integers, SealedBox

CONSTANTS
  Pages,        \* bound: saves under way at once
  Secrets,      \* credentials the owner may enter
  Levels,       \* log levels
  Forms,        \* what a page may submit, see Form
  Master,       \* the master key
  NoSecret,     \* NULL
  MaxSettings,  \* bound: settings revisions
  MaxRestarts   \* bound

\* A service with the secret it needs: github_secret, resend_key, agentmail_key.
Services == {"github", "resend", "agentmail"}
Keep     == "keep"    \* not submitted
Clear    == "clear"   \* clear_...
\* uses: github_enabled, and the provider when mail is enabled; named: client id,
\* sender or inbox filled in.
Form == [uses : SUBSET Services, named : SUBSET Services, level : Levels,
         op : [Services -> {Keep, Clear} \cup Secrets]]

Column(s, rev) == <<<<"settings">>, <<s>>, <<rev>>>>
\* What a column may hold, if not NULL.
Boxes == {Seal(Master, v, Column(s, rev)) : v \in Secrets, s \in Services, rev \in 0 .. MaxSettings}

Free == "free"

ASSUME SettingsAssumption ==
  /\ Forms \subseteq Form
  /\ \A f \in Forms : ~({"resend", "agentmail"} \subseteq f.uses)
  /\ {Keep, Clear, NoSecret, NoValue} \cap Secrets = {} /\ NoSecret \notin Boxes
  /\ "info" \in Levels
  /\ Free \notin Pages
  /\ MaxSettings \in Nat \ {0} /\ MaxRestarts \in Nat

VARIABLES
  stored,    \* row of table settings
  logLevel,  \* a.level
  pages,     \* what each page is saving, and the answer to its last save
  mutex,     \* who holds settingsMu
  levelOf,   \* history: "row" or "default": the last start could not read the row, none was saved since
  owned,     \* history: what the owner saved last as each secret
  restarts   \* bound: restarts so far

settingsVars == <<stored, logLevel, levelOf, pages, mutex, owned, restarts>>

NoAnswer  == 0   \* or none that shows a revision: refused, failed, lost
InitialForm ==
  [uses |-> {}, named |-> {}, level |-> "info", op |-> [s \in Services |-> Keep]]
IdlePage  == [state |-> "idle", rev |-> 0, form |-> InitialForm, answer |-> NoAnswer]

SettingsTypeOK ==
  /\ stored.rev \in 1 .. MaxSettings
  /\ stored.uses \subseteq Services /\ stored.named \subseteq Services
  /\ {stored.level, logLevel} \subseteq Levels
  /\ stored.secret \in [Services -> Boxes \cup {NoSecret}] /\ stored.at \in [Services -> 0 .. MaxSettings]
  /\ pages \in [Pages -> [state : {"idle", "wait", "locked", "saved", "applied"},
                          rev : 0 .. MaxSettings, form : Forms \cup {InitialForm},
                          answer : 0 .. MaxSettings]]
  /\ mutex \in Pages \cup {Free}
  /\ \A p \in Pages : mutex = p <=> pages[p].state \in {"locked", "saved", "applied"}
  /\ owned \in [Services -> Secrets \cup {NoSecret}]
  /\ levelOf \in {"row", "default"}
  /\ restarts \in 0 .. MaxRestarts

\* What setup stores: nothing enabled, no secret.
SettingsInit ==
  /\ stored = [rev |-> 1, uses |-> {}, named |-> {}, level |-> "info",
               secret |-> [s \in Services |-> NoSecret], at |-> [s \in Services |-> 0]]
  /\ logLevel = "info" /\ levelOf = "row"
  /\ pages = [p \in Pages |-> IdlePage]
  /\ mutex = Free
  /\ owned = [s \in Services |-> NoSecret]
  /\ restarts = 0

---------------------------------------------------------------------------
\* What the row holds of a secret opens under the revision beside it.
configSecret(s) ==
  IF stored.secret[s] = NoSecret THEN NoSecret
  ELSE Open(Master, stored.secret[s], Column(s, stored.at[s]))

\* putSettings reads the page's revision from the page, which any earlier
\* revision may still be on; the fields themselves are checked before the lock.
Submit(p, rev, form) ==
  /\ pages[p].state = "idle"
  /\ pages' = [pages EXCEPT ![p] = [state |-> "wait", rev |-> rev, form |-> form, answer |-> NoAnswer]]
  /\ UNCHANGED <<stored, logLevel, levelOf, mutex, owned, restarts>>

Lock(p) ==
  /\ pages[p].state = "wait" /\ mutex = Free
  /\ mutex' = p
  /\ pages' = [pages EXCEPT ![p].state = "locked"]
  /\ UNCHANGED <<stored, logLevel, levelOf, owned, restarts>>

\* The answer and the unlock.
Answer(p, a) ==
  /\ pages' = [pages EXCEPT ![p].state = "idle", ![p].answer = a]
  /\ mutex' = Free

\* Whether s has its secret once form is saved.
Configured(s, form) ==
  (stored.secret[s] # NoSecret /\ form.op[s] # Clear) \/ form.op[s] \in Secrets

Acceptable(p) ==
  /\ pages[p].rev = stored.rev
  /\ \A s \in pages[p].form.uses : s \in pages[p].form.named /\ Configured(s, pages[p].form)

\* Mutant: the column's revision follows the settings' also where it is kept.
SavedSecretsMoves(form, next) ==
  [at |-> [s \in Services |-> next],
   secret |-> [s \in Services |->
     IF form.op[s] = Keep THEN stored.secret[s]
     ELSE IF form.op[s] = Clear THEN NoSecret
     ELSE Seal(Master, form.op[s], Column(s, next))]]

\* What is not submitted stays as it is, sealed under its own older revision.
SavedSecrets(form, next) ==
  [at |-> [s \in Services |-> IF form.op[s] = Keep THEN stored.at[s] ELSE next],
   secret |-> [s \in Services |->
     IF form.op[s] = Keep THEN stored.secret[s]
     ELSE IF form.op[s] = Clear THEN NoSecret
     ELSE Seal(Master, form.op[s], Column(s, next))]]

\* The transaction.  What it does to notifications is in Notifications.
Commit(p) ==
  /\ pages[p].state = "locked" /\ Acceptable(p)
  /\ stored.rev < MaxSettings
  /\ LET form == pages[p].form
         new  == SavedSecrets(form, stored.rev + 1)
     IN  /\ stored' = [rev |-> stored.rev + 1, uses |-> form.uses, named |-> form.named,
                       level |-> form.level, secret |-> new.secret, at |-> new.at]
         /\ owned' = [s \in Services |-> CASE form.op[s] = Keep  -> owned[s]
                                           [] form.op[s] = Clear -> NoSecret
                                           [] OTHER              -> form.op[s]]
  /\ pages' = [pages EXCEPT ![p].state = "saved"]
  /\ UNCHANGED <<logLevel, levelOf, mutex, restarts>>

Refuse(p) ==
  /\ pages[p].state = "locked" /\ ~Acceptable(p)
  /\ Answer(p, NoAnswer)
  /\ UNCHANGED <<stored, logLevel, levelOf, owned, restarts>>

\* Mutant: the mutex is given back before the answer is read.
SetLevelUnlocks(p) ==
  /\ pages[p].state = "saved"
  /\ logLevel' = pages[p].form.level /\ levelOf' = "row"
  /\ pages' = [pages EXCEPT ![p].state = "applied"]
  /\ mutex' = Free
  /\ UNCHANGED <<stored, owned, restarts>>

SetLevel(p) ==
  /\ pages[p].state = "saved"
  /\ logLevel' = pages[p].form.level /\ levelOf' = "row"
  /\ pages' = [pages EXCEPT ![p].state = "applied"]
  /\ UNCHANGED <<stored, mutex, owned, restarts>>

\* The answer to a save is what getSettings reads then.
getSettings(p) ==
  /\ pages[p].state = "applied"
  /\ Answer(p, stored.rev)
  /\ UNCHANGED <<stored, logLevel, levelOf, owned, restarts>>

\* Mutant: a save that fails keeps the mutex.
FailKeepsMutex(p) ==
  /\ pages[p].state \in {"locked", "applied"}
  /\ pages' = [pages EXCEPT ![p].state = "idle"]
  /\ UNCHANGED <<stored, logLevel, levelOf, mutex, owned, restarts>>

\* The database fails, or the client goes away: before the commit nothing is
\* stored, after it the save stands though its page is not told.
Fail(p) ==
  /\ pages[p].state \in {"locked", "applied"}
  /\ Answer(p, NoAnswer)
  /\ UNCHANGED <<stored, logLevel, levelOf, owned, restarts>>

\* The process ends at any moment; Open takes the level from what is stored, and
\* goes on without it where initialized or settings fails.
Restart ==
  /\ restarts < MaxRestarts
  /\ restarts' = restarts + 1
  /\ pages' = [p \in Pages |-> IF pages[p].state = "idle" THEN pages[p] ELSE IdlePage]
  /\ mutex' = Free
  /\ \/ logLevel' = stored.level /\ levelOf' = "row"
     \/ logLevel' = "info" /\ levelOf' = "default"
  /\ UNCHANGED <<stored, owned>>

Save(p) == Lock(p) \/ Commit(p) \/ Refuse(p) \/ SetLevel(p) \/ getSettings(p) \/ Fail(p)

SettingsNext ==
  \/ \E p \in Pages : Save(p) \/ \E rev \in 1 .. stored.rev, form \in Forms : Submit(p, rev, form)
  \/ Restart

SettingsSpec == SettingsInit /\ [][SettingsNext]_settingsVars

---------------------------------------------------------------------------
(***************************************************************************)
(* Properties.                                                             *)
(***************************************************************************)
\* "Replace, clear and keep are different" (README.md, docs/design.md): every
\* secret opens and is what the owner saved last as that secret, whatever was
\* saved of the others since; and what is enabled can be used.
ConfigReady == \A s \in stored.uses : s \in stored.named /\ configSecret(s) \in Secrets
SecretsTrue == (\A s \in Services : configSecret(s) = owned[s]) /\ ConfigReady

\* Unless a save is under way the process logs at the stored level, though it
\* is set after the commit; and unless the last start could not read it, which
\* the first save after it makes good.
LevelFollows ==
  (\A p \in Pages : pages[p].state \in {"idle", "wait"}) => logLevel = stored.level \/ levelOf = "default"

\* What a save leaves outside its transaction is its own, whatever another page
\* saves meanwhile: the level follows what is stored, and the page is answered
\* with what it saved, so that its next save is checked against what it shows.
OwnAnswer ==
  [][/\ LevelFollows'
     /\ \A p \in Pages : pages[p].state # "idle" /\ pages'[p].answer # NoAnswer =>
          pages'[p].answer = pages[p].rev + 1]_settingsVars
==============================================================================

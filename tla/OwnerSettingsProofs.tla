------------------------- MODULE OwnerSettingsProofs -------------------------
(***************************************************************************)
(* Proofs about OwnerSettings, for any pages, forms, secrets and bounds,   *)
(* and about the contexts values are sealed under, of any length.          *)
(*                                                                         *)
(* SecretsSealed says what every column holds: the last secret the owner   *)
(* saved as it, in a box sealed for that column and for the revision noted *)
(* beside it, older than the row's if it was kept.  HolderSound says what a *)
(* save still knows after its commit; only the holder of settingsMu is     *)
(* there, so no other save can have come between.                          *)
(***************************************************************************)
EXTENDS MCOwnerSettings, SequenceTheorems, WellFoundedInduction, TLAPS

SecretsSealed ==
  \A s \in Services :
    stored.secret[s] = IF owned[s] = NoSecret THEN NoSecret
                       ELSE Seal(Master, owned[s], Column(s, stored.at[s]))

UsesReady == \A s \in stored.uses : s \in stored.named /\ owned[s] # NoSecret

HolderSound ==
  \A p \in Pages :
    /\ pages[p].state # "idle" => pages[p].answer = NoAnswer
    /\ pages[p].state \in {"saved", "applied"} => stored.rev = pages[p].rev + 1
    /\ pages[p].state = "saved" => stored.level = pages[p].form.level

LevelSet ==
  (\A p \in Pages : pages[p].state # "saved") => logLevel = stored.level \/ levelOf = "default"

SettingsInv == SettingsTypeOK /\ SecretsSealed /\ UsesReady /\ HolderSound /\ LevelSet

---------------------------------------------------------------------------
\* Sealed and opened under one column, a value is what it was.
LEMMA OpensAsSealed ==
  ASSUME NEW m, NEW v, NEW c
  PROVE  Open(m, Seal(m, v, c), c) = v
  BY DEF Open, Seal

\* A form is as declared, the one an idle page shows included.
LEMMA FormsAreForms == \A f \in Forms \cup {InitialForm} : f \in Form
<1>1. InitialForm \in Form
  BY SettingsAssumption DEF InitialForm, Form, Services
<1> QED
  BY <1>1, SettingsAssumption

\* A new row has no secrets and nothing in use.
LEMMA SettingsInitInv == SettingsInit => SettingsInv
<1> SUFFICES ASSUME SettingsInit PROVE SettingsInv
  OBVIOUS
<1>1. SettingsTypeOK
  <2>1. /\ stored.rev = 1 /\ stored.uses = {} /\ stored.named = {} /\ stored.level = "info"
        /\ stored.secret = [s \in Services |-> NoSecret] /\ stored.at = [s \in Services |-> 0]
    BY DEF SettingsInit
  <2>2. IdlePage \in [state : {"idle", "wait", "locked", "saved", "applied"},
                      rev : 0 .. MaxSettings, form : Forms \cup {InitialForm},
                      answer : 0 .. MaxSettings]
    BY SettingsAssumption DEF IdlePage, NoAnswer
  <2>3. \A p \in Pages : pages[p] = IdlePage /\ IdlePage.state = "idle"
    BY DEF SettingsInit, IdlePage
  <2> QED
    BY <2>1, <2>2, <2>3, SettingsAssumption DEF SettingsInit, SettingsTypeOK
<1>2. SecretsSealed /\ UsesReady /\ HolderSound /\ LevelSet
  BY DEF SettingsInit, SecretsSealed, UsesReady, HolderSound, LevelSet, IdlePage
<1> QED
  BY <1>1, <1>2 DEF SettingsInv

\* A page moves on, nothing is stored: all that can go wrong is whom the mutex
\* is given to, what the page is told and whether the level was set.
LEMMA PageMovesInv ==
  ASSUME SettingsInv, NEW p \in Pages,
         NEW st \in {"idle", "wait", "locked", "applied"}, NEW a \in 0 .. MaxSettings,
         NEW r \in 0 .. MaxSettings, NEW f \in Forms \cup {InitialForm},
         pages' = [pages EXCEPT ![p] = [state |-> st, rev |-> r, form |-> f, answer |-> a]],
         mutex' = IF st \in {"locked", "applied"} THEN p
                  ELSE IF mutex = p THEN Free ELSE mutex,
         st \in {"locked", "applied"} => mutex \in {p, Free},
         st # "idle" => a = NoAnswer,
         st = "applied" => stored.rev = r + 1,
         IF pages[p].state = "saved" THEN logLevel' = stored.level /\ levelOf' = "row"
                                     ELSE UNCHANGED <<logLevel, levelOf>>,
         UNCHANGED <<stored, owned, restarts>>
  PROVE  SettingsInv'
<1> USE DEF SettingsInv
<1>1. pages' \in [Pages -> [state : {"idle", "wait", "locked", "saved", "applied"},
                            rev : 0 .. MaxSettings, form : Forms \cup {InitialForm},
                            answer : 0 .. MaxSettings]]
  BY DEF SettingsTypeOK
<1>2. /\ pages'[p] = [state |-> st, rev |-> r, form |-> f, answer |-> a]
      /\ \A q \in Pages \ {p} : pages'[q] = pages[q]
  BY DEF SettingsTypeOK
<1>3. \A q \in Pages : mutex' = q <=> pages'[q].state \in {"locked", "saved", "applied"}
  BY <1>2, SettingsAssumption DEF SettingsTypeOK
<1>4. SettingsTypeOK'
  BY <1>1, <1>3, SettingsAssumption DEF SettingsTypeOK
<1>5. SecretsSealed' /\ UsesReady'
  BY DEF SecretsSealed, UsesReady
<1>6. HolderSound'
  BY <1>2 DEF HolderSound
<1>7. LevelSet'
  BY <1>2 DEF LevelSet, SettingsTypeOK
<1> QED
  BY <1>4, <1>5, <1>6, <1>7

\* The steps of that kind.
LEMMA MovesInv ==
  ASSUME SettingsInv, NEW p \in Pages,
         \/ \E rev \in 1 .. stored.rev, form \in Forms : Submit(p, rev, form)
         \/ Lock(p) \/ Refuse(p) \/ SetLevel(p) \/ getSettings(p) \/ Fail(p)
  PROVE  SettingsInv'
<1> DEFINE pg == pages[p]
<1>1. /\ pg \in [state : {"idle", "wait", "locked", "saved", "applied"},
                 rev : 0 .. MaxSettings, form : Forms \cup {InitialForm}, answer : 0 .. MaxSettings]
      /\ DOMAIN pages = Pages
      /\ stored.rev \in 0 .. MaxSettings /\ NoAnswer \in 0 .. MaxSettings
      /\ mutex = p <=> pg.state \in {"locked", "saved", "applied"}
      /\ pg.state # "idle" => pg.answer = NoAnswer
      /\ pg.state \in {"saved", "applied"} => stored.rev = pg.rev + 1
      /\ pg.state = "saved" => stored.level = pg.form.level
  BY SettingsAssumption DEF SettingsInv, SettingsTypeOK, HolderSound, NoAnswer
<1>2. ASSUME NEW st
      PROVE  [pages EXCEPT ![p].state = st]
               = [pages EXCEPT ![p] = [state |-> st, rev |-> pg.rev, form |-> pg.form, answer |-> pg.answer]]
  <2> DEFINE one == [pages EXCEPT ![p].state = st]
             two == [pages EXCEPT ![p] = [state |-> st, rev |-> pg.rev, form |-> pg.form, answer |-> pg.answer]]
  <2>1. [pg EXCEPT !.state = st] = [state |-> st, rev |-> pg.rev, form |-> pg.form, answer |-> pg.answer]
    <3>1. pg = [state |-> pg.state, rev |-> pg.rev, form |-> pg.form, answer |-> pg.answer]
      BY <1>1
    <3> QED
      BY <3>1
  <2>2. one = [pages EXCEPT ![p] = [pg EXCEPT !.state = st]]
    BY <1>1
  <2> QED
    BY <2>1, <2>2
<1>3. ASSUME NEW a \in 0 .. MaxSettings, Answer(p, a), mutex = p,
             UNCHANGED <<stored, logLevel, levelOf, owned, restarts>>,
             pg.state # "saved"
      PROVE  SettingsInv'
  <2>1. pages' = [pages EXCEPT ![p] = [state |-> "idle", rev |-> pg.rev, form |-> pg.form, answer |-> a]]
    <3>1. PICK mid : mid = [pages EXCEPT ![p].state = "idle"]
      OBVIOUS
    <3>2. mid = [pages EXCEPT ![p] = [state |-> "idle", rev |-> pg.rev, form |-> pg.form, answer |-> pg.answer]]
      BY <1>2, <3>1
    <3>3. pages' = [mid EXCEPT ![p].answer = a]
      BY <1>3, <3>1 DEF Answer
    <3> QED
      <4>1. mid[p] = [state |-> "idle", rev |-> pg.rev, form |-> pg.form, answer |-> pg.answer]
        BY <1>1, <3>2
      <4>2. [mid[p] EXCEPT !.answer = a] = [state |-> "idle", rev |-> pg.rev, form |-> pg.form, answer |-> a]
        BY <4>1
      <4>3. pages' = [mid EXCEPT ![p] = [mid[p] EXCEPT !.answer = a]]
        BY <1>1, <3>2, <3>3
      <4>4. DOMAIN mid = Pages /\ \A q \in Pages \ {p} : mid[q] = pages[q]
        BY <1>1, <3>1
      <4> QED
        BY <1>1, <3>2, <4>2, <4>3, <4>4
  <2>2. mutex' = Free /\ UNCHANGED <<stored, owned, restarts, logLevel, levelOf>>
    BY <1>3 DEF Answer
  <2> QED
    BY <1>1, <1>3, <2>1, <2>2, PageMovesInv
<1>4. ASSUME NEW rev \in 1 .. stored.rev, NEW form \in Forms, Submit(p, rev, form)
      PROVE  SettingsInv'
  <2>1. rev \in 0 .. MaxSettings
    BY <1>1, SettingsAssumption
  <2> QED
    BY <1>1, <1>4, <2>1, PageMovesInv DEF Submit
<1>5. CASE Lock(p)
  <2>1. /\ pg.state = "wait" /\ mutex = Free /\ mutex' = p
        /\ pages' = [pages EXCEPT ![p].state = "locked"]
        /\ UNCHANGED <<stored, logLevel, levelOf, owned, restarts>>
    BY <1>5 DEF Lock
  <2>2. pages' = [pages EXCEPT ![p] = [state |-> "locked", rev |-> pg.rev, form |-> pg.form, answer |-> NoAnswer]]
    BY <1>1, <1>2, <2>1
  <2>3. mutex' = IF "locked" \in {"locked", "applied"} THEN p ELSE IF mutex = p THEN Free ELSE mutex
    BY <2>1
  <2>4. pages[p].state # "saved" /\ NoAnswer \in 0 .. MaxSettings
    BY <1>1, <2>1
  <2> HIDE DEF pg
  <2> QED
    BY <1>1, <2>1, <2>2, <2>3, <2>4, PageMovesInv
<1>6. CASE SetLevel(p)
  BY <1>1, <1>2, <1>6, PageMovesInv DEF SetLevel
<1>7. CASE Refuse(p)
  BY <1>1, <1>3, <1>7 DEF Refuse
<1>8. CASE getSettings(p)
  BY <1>1, <1>3, <1>8 DEF getSettings
<1>9. CASE Fail(p)
  BY <1>1, <1>3, <1>9 DEF Fail
<1> QED
  BY <1>4, <1>5, <1>6, <1>7, <1>8, <1>9

\* What the transaction leaves in the columns: a kept secret is not sealed anew
\* and keeps the revision it was sealed under.
LEMMA CommitSeals ==
  ASSUME SettingsInv, NEW p \in Pages, Commit(p), NEW s \in Services
  PROVE  LET op   == pages[p].form.op[s]
             next == stored.rev + 1
         IN  /\ op \in {Keep, Clear} \cup Secrets
             /\ op = Keep => /\ stored'.secret[s] = stored.secret[s]
                             /\ stored'.at[s] = stored.at[s] /\ owned'[s] = owned[s]
             /\ op = Clear => /\ stored'.secret[s] = NoSecret
                              /\ stored'.at[s] = next /\ owned'[s] = NoSecret
             /\ op \in Secrets => /\ stored'.secret[s] = Seal(Master, op, Column(s, next))
                                  /\ stored'.at[s] = next /\ owned'[s] = op
<1> DEFINE form == pages[p].form
           next == stored.rev + 1
<1>1. form.op \in [Services -> {Keep, Clear} \cup Secrets]
  BY FormsAreForms DEF SettingsInv, SettingsTypeOK, Form
<1>2. /\ stored'.secret = SavedSecrets(form, next).secret
      /\ stored'.at = SavedSecrets(form, next).at
      /\ owned' = [x \in Services |-> CASE form.op[x] = Keep  -> owned[x]
                                        [] form.op[x] = Clear -> NoSecret
                                        [] OTHER              -> form.op[x]]
  BY DEF Commit
<1>3. Keep # Clear /\ Keep \notin Secrets /\ Clear \notin Secrets
  BY SettingsAssumption DEF Keep, Clear
<1>4. owned'[s] = CASE form.op[s] = Keep  -> owned[s]
                    [] form.op[s] = Clear -> NoSecret
                    [] OTHER              -> form.op[s]
  BY <1>2
<1>5. /\ stored'.at[s] = IF form.op[s] = Keep THEN stored.at[s] ELSE next
      /\ stored'.secret[s] = IF form.op[s] = Keep THEN stored.secret[s]
                             ELSE IF form.op[s] = Clear THEN NoSecret
                             ELSE Seal(Master, form.op[s], Column(s, next))
  BY <1>2 DEF SavedSecrets
<1> QED
  BY <1>1, <1>3, <1>4, <1>5

\* The one step that writes the row: every column is kept, cleared or sealed anew.
LEMMA CommitInv ==
  ASSUME SettingsInv, NEW p \in Pages, Commit(p)
  PROVE  SettingsInv'
<1> USE DEF SettingsInv
<1> DEFINE form == pages[p].form
           next == stored.rev + 1
<1>1. /\ form \in Form /\ pages[p].rev = stored.rev /\ pages[p].rev \in 0 .. MaxSettings
      /\ \A s \in form.uses : s \in form.named /\ Configured(s, form)
      /\ next \in 1 .. MaxSettings /\ pages[p].state = "locked"
  BY FormsAreForms, SettingsAssumption DEF SettingsTypeOK, Commit, Acceptable
<1>2. /\ stored'.rev = next /\ stored'.uses = form.uses /\ stored'.named = form.named
      /\ stored'.level = form.level
      /\ pages' = [pages EXCEPT ![p].state = "saved"]
      /\ UNCHANGED <<logLevel, levelOf, mutex, restarts>>
  BY DEF Commit
<1>3. /\ pages'[p].state = "saved" /\ pages'[p].rev = pages[p].rev
      /\ pages'[p].form = form /\ pages'[p].answer = pages[p].answer
      /\ \A q \in Pages \ {p} : pages'[q] = pages[q]
      /\ pages' \in [Pages -> [state : {"idle", "wait", "locked", "saved", "applied"},
                               rev : 0 .. MaxSettings, form : Forms \cup {InitialForm},
                               answer : 0 .. MaxSettings]]
  BY <1>2 DEF SettingsTypeOK
<1>4. \A q \in Pages \ {p} : pages[q].state \notin {"locked", "saved", "applied"}
  BY <1>1 DEF SettingsTypeOK
<1>5. \A s \in Services : /\ stored'.secret[s] \in Boxes \cup {NoSecret}
                          /\ stored'.at[s] \in 0 .. MaxSettings
                          /\ owned'[s] \in Secrets \cup {NoSecret}
  <2> SUFFICES ASSUME NEW s \in Services
               PROVE  /\ stored'.secret[s] \in Boxes \cup {NoSecret}
                      /\ stored'.at[s] \in 0 .. MaxSettings
                      /\ owned'[s] \in Secrets \cup {NoSecret}
    OBVIOUS
  <2>1. \A v \in Secrets : Seal(Master, v, Column(s, next)) \in Boxes
    BY <1>1, SettingsAssumption DEF Boxes
  <2>2. /\ stored.secret[s] \in Boxes \cup {NoSecret} /\ stored.at[s] \in 0 .. MaxSettings
        /\ owned[s] \in Secrets \cup {NoSecret} /\ next \in 0 .. MaxSettings
    BY <1>1, SettingsAssumption DEF SettingsTypeOK
  <2> QED
    BY <2>1, <2>2, CommitSeals
<1>6. SettingsTypeOK'
  <2>1. /\ stored'.secret = SavedSecrets(form, next).secret
        /\ stored'.at = SavedSecrets(form, next).at
        /\ owned' = [x \in Services |-> CASE form.op[x] = Keep  -> owned[x]
                                          [] form.op[x] = Clear -> NoSecret
                                          [] OTHER              -> form.op[x]]
    BY DEF Commit
  <2>2. /\ stored'.secret \in [Services -> Boxes \cup {NoSecret}]
        /\ stored'.at \in [Services -> 0 .. MaxSettings]
    BY <1>5, <2>1 DEF SavedSecrets
  <2>3. owned' \in [Services -> Secrets \cup {NoSecret}]
    BY <1>5, <2>1
  <2>4. stored'.uses \subseteq Services /\ stored'.named \subseteq Services /\ stored'.level \in Levels
    BY <1>1, <1>2 DEF Form
  <2> QED
    BY <1>1, <1>2, <1>3, <2>2, <2>3, <2>4 DEF SettingsTypeOK
<1>7. SecretsSealed'
  <2> SUFFICES ASSUME NEW s \in Services
               PROVE  stored'.secret[s] = IF owned'[s] = NoSecret THEN NoSecret
                                          ELSE Seal(Master, owned'[s], Column(s, stored'.at[s]))
    BY DEF SecretsSealed
  <2>1. NoSecret \notin Secrets
    BY SettingsAssumption
  <2>2. stored.secret[s] = IF owned[s] = NoSecret THEN NoSecret
                           ELSE Seal(Master, owned[s], Column(s, stored.at[s]))
    BY DEF SecretsSealed
  <2> QED
    BY <2>1, <2>2, CommitSeals
<1>8. UsesReady'
  <2> SUFFICES ASSUME NEW s \in form.uses
               PROVE  s \in form.named /\ owned'[s] # NoSecret
    BY <1>2 DEF UsesReady
  <2>1. s \in Services /\ NoSecret \notin Secrets
    BY <1>1, SettingsAssumption DEF Form
  <2>2. /\ s \in form.named
        /\ (stored.secret[s] # NoSecret /\ form.op[s] # Clear) \/ form.op[s] \in Secrets
    BY <1>1 DEF Configured
  <2>3. stored.secret[s] # NoSecret => owned[s] # NoSecret
    BY <2>1 DEF SecretsSealed
  <2> QED
    BY <1>1, <2>1, <2>2, <2>3, CommitSeals
<1>9. HolderSound'
  BY <1>1, <1>2, <1>3, <1>4 DEF HolderSound
<1>10. LevelSet'
  BY <1>3 DEF LevelSet
<1> QED
  BY <1>6, <1>7, <1>8, <1>9, <1>10

\* A restart gives the mutex back and reads the level anew, or does not.
LEMMA RestartInv ==
  ASSUME SettingsInv, Restart
  PROVE  SettingsInv'
<1> USE DEF SettingsInv
<1>1. \A q \in Pages : /\ pages'[q].state = "idle"
                       /\ pages'[q] \in {pages[q], IdlePage}
  BY DEF Restart, IdlePage
<1>2. IdlePage \in [state : {"idle", "wait", "locked", "saved", "applied"},
                    rev : 0 .. MaxSettings, form : Forms \cup {InitialForm},
                    answer : 0 .. MaxSettings]
  BY SettingsAssumption DEF IdlePage, NoAnswer
<1>3. pages' \in [Pages -> [state : {"idle", "wait", "locked", "saved", "applied"},
                            rev : 0 .. MaxSettings, form : Forms \cup {InitialForm},
                            answer : 0 .. MaxSettings]]
  BY <1>1, <1>2 DEF SettingsTypeOK, Restart
<1>4. /\ mutex' = Free /\ restarts' \in 0 .. MaxRestarts /\ UNCHANGED <<stored, owned>>
      /\ \/ logLevel' = stored.level /\ levelOf' = "row"
         \/ logLevel' = "info" /\ levelOf' = "default"
  BY SettingsAssumption DEF SettingsTypeOK, Restart
<1>5. SettingsTypeOK'
  BY <1>1, <1>3, <1>4, SettingsAssumption DEF SettingsTypeOK
<1>6. SecretsSealed' /\ UsesReady' /\ HolderSound' /\ LevelSet'
  BY <1>1, <1>4 DEF SecretsSealed, UsesReady, HolderSound, LevelSet
<1> QED
  BY <1>5, <1>6

\* One case per step of a page, and the restart.
LEMMA SettingsStepInv == SettingsInv /\ [SettingsNext]_settingsVars => SettingsInv'
<1> SUFFICES ASSUME SettingsInv, [SettingsNext]_settingsVars
             PROVE  SettingsInv'
  OBVIOUS
<1>1. ASSUME NEW p \in Pages, Save(p) \/ \E rev \in 1 .. stored.rev, form \in Forms : Submit(p, rev, form)
      PROVE  SettingsInv'
  BY <1>1, MovesInv, CommitInv DEF Save
<1>2. CASE UNCHANGED settingsVars
  BY <1>2 DEF settingsVars, SettingsInv, SettingsTypeOK, SecretsSealed, UsesReady, HolderSound, LevelSet
<1> QED
  BY <1>1, <1>2, RestartInv DEF SettingsNext

\* So the row is sound at all times.
LEMMA SettingsAlways == SettingsSpec => []SettingsInv
  BY SettingsInitInv, SettingsStepInv, PTL DEF SettingsSpec

---------------------------------------------------------------------------
\* The row, the pages and settingsMu are as declared: whoever is between the
\* lock and the answer, and nobody else, holds the mutex (putSettings).
THEOREM SettingsTypeCorrect == SettingsSpec => []SettingsTypeOK
  BY SettingsAlways, PTL DEF SettingsInv

\* Every credential opens and is what the owner saved last as it, and what is
\* enabled has its credential and its name, whatever two pages save, keep, clear
\* and replace in any order (putSettings, configSecret).
THEOREM SecretsStayTrue == SettingsSpec => []SecretsTrue
<1>1. SettingsInv => SecretsTrue
  <2> SUFFICES ASSUME SettingsInv PROVE SecretsTrue
    OBVIOUS
  <2>1. ASSUME NEW s \in Services
        PROVE  configSecret(s) = owned[s] /\ owned[s] \in Secrets \cup {NoSecret}
    <3>1. owned[s] \in Secrets \cup {NoSecret}
      BY DEF SettingsInv, SettingsTypeOK
    <3>2. CASE owned[s] = NoSecret
      BY <3>1, <3>2 DEF SettingsInv, SecretsSealed, configSecret
    <3>3. CASE owned[s] # NoSecret
      <4>1. stored.secret[s] = Seal(Master, owned[s], Column(s, stored.at[s]))
        BY <3>3 DEF SettingsInv, SecretsSealed
      <4>2. stored.secret[s] # NoSecret
        <5>1. owned[s] \in Secrets /\ stored.at[s] \in 0 .. MaxSettings
          BY <3>1, <3>3 DEF SettingsInv, SettingsTypeOK
        <5>2. Seal(Master, owned[s], Column(s, stored.at[s])) \in Boxes
          BY <5>1 DEF Boxes
        <5> QED
          BY <4>1, <5>2, SettingsAssumption
      <4> QED
        BY <3>1, <4>1, <4>2, OpensAsSealed DEF configSecret
    <3> QED
      BY <3>2, <3>3
  <2>2. ConfigReady
    <3>1. stored.uses \subseteq Services
      BY DEF SettingsInv, SettingsTypeOK
    <3> QED
      BY <2>1, <3>1 DEF ConfigReady, SettingsInv, UsesReady
  <2> QED
    BY <2>1, <2>2 DEF SecretsTrue
<1> QED
  BY <1>1, SettingsAlways, PTL

\* A save that answers tells its page the revision it wrote, and the process
\* logs at the stored level whenever no save is under way, if it could read it
\* when it started (settingsMu is held over the commit, setLevel and getSettings).
THEOREM AnswerIsOwn == SettingsSpec => OwnAnswer
<1> DEFINE Told == \A p \in Pages : pages[p].state # "idle" /\ pages'[p].answer # NoAnswer =>
                     pages'[p].answer = pages[p].rev + 1
<1>1. SettingsInv' => LevelFollows'
  BY DEF SettingsInv, LevelSet, LevelFollows
<1>2. SettingsInv /\ [SettingsNext]_settingsVars => Told
  <2> SUFFICES ASSUME SettingsInv, [SettingsNext]_settingsVars,
                      NEW q \in Pages, pages[q].state # "idle", pages'[q].answer # NoAnswer
               PROVE  pages'[q].answer = pages[q].rev + 1
    OBVIOUS
  <2>1. /\ pages[q].answer = NoAnswer /\ DOMAIN pages = Pages
        /\ \A p \in Pages : pages[p] \in [state : {"idle", "wait", "locked", "saved", "applied"},
                                rev : 0 .. MaxSettings, form : Forms \cup {InitialForm},
                                answer : 0 .. MaxSettings]
        /\ \A p \in Pages : pages[p].state = "applied" => stored.rev = pages[p].rev + 1
    BY DEF SettingsInv, HolderSound, SettingsTypeOK
  <2>2. CASE Restart
    BY <2>1, <2>2 DEF Restart, IdlePage
  <2>3. ASSUME NEW p \in Pages, Save(p)
        PROVE  pages'[q].answer = pages[q].rev + 1
    <3>1. CASE getSettings(p)
      BY <2>1, <3>1 DEF getSettings, Answer
    <3>2. CASE Lock(p) \/ Commit(p) \/ Refuse(p) \/ SetLevel(p) \/ Fail(p)
      BY <2>1, <3>2 DEF Lock, Commit, Refuse, SetLevel, Fail, Answer
    <3> QED
      BY <2>3, <3>1, <3>2 DEF Save
  <2>4. ASSUME NEW p \in Pages, NEW rev \in 1 .. stored.rev, NEW form \in Forms, Submit(p, rev, form)
        PROVE  pages'[q].answer = pages[q].rev + 1
    BY <2>1, <2>4 DEF Submit
  <2>5. CASE UNCHANGED settingsVars
    BY <2>1, <2>5 DEF settingsVars
  <2> QED
    BY <2>2, <2>3, <2>4, <2>5 DEF SettingsNext
<1> QED
  BY <1>1, <1>2, SettingsAlways, PTL DEF SettingsSpec, OwnAnswer

---------------------------------------------------------------------------
(***************************************************************************)
(* Contexts: a frame begins with its length, so of a row of frames joined  *)
(* together the first is found, then the next: no two rows join alike.     *)
(***************************************************************************)
\* Induction up to n, over a set: the least number not in it would have a predecessor
\* that is.
LEMMA Climb ==
  ASSUME NEW n \in Nat, NEW K, 1 \in K, \A k \in 1 .. n - 1 : k \in K => k + 1 \in K
  PROVE  \A k \in 1 .. n : k \in K
<1> DEFINE R == {ss \in Nat \X Nat : ss[1] < ss[2]}
           T == {k \in 1 .. n : k \notin K}
<1>1. IsWellFoundedOn(R, Nat)
  BY NatLessThanWellFounded DEF OpToRel
<1>2. SUFFICES ASSUME T # {} PROVE FALSE
  OBVIOUS
<1>3. T \subseteq Nat
  OBVIOUS
<1> HIDE DEF R, T
<1>4. PICK x \in T : \A y \in T : ~(<<y, x>> \in R)
  BY <1>1, <1>2, <1>3, WFMin
<1>5. \A y \in T : ~(y < x)
  BY <1>3, <1>4 DEF R
<1>6. x \in 1 .. n /\ x # 1 /\ x \notin K
  BY <1>4 DEF T
<1>7. x - 1 \in 1 .. n - 1 /\ (x - 1) + 1 = x /\ x - 1 \in 1 .. n
  BY <1>6
<1>8. x - 1 \notin T
  BY <1>5, <1>7
<1>9. x - 1 \in K
  BY <1>7, <1>8 DEF T
<1> QED
  BY <1>6, <1>7, <1>9

\* f is what joins the first sequences of ss: one, two, and so on.
Joins(f, ss) ==
  /\ f[1] = ss[1]
  /\ \A i \in 2 .. Len(ss) : f[i] = f[i - 1] \o ss[i]

\* u begins with s.
StartsWith(u, s) == Len(s) <= Len(u) /\ \A j \in 1 .. Len(s) : u[j] = s[j]

\* What is indexed from 1 on is a sequence.
LEMMA FunctionIsSeq ==
  ASSUME NEW S, NEW m \in Nat, NEW f \in [1 .. m -> S]
  PROVE  f \in Seq(S) /\ Len(f) = m
OBVIOUS

\* What FlattenSeq builds step by step exists.
LEMMA JoinsExist ==
  ASSUME NEW T, NEW ss \in Seq(Seq(T)), Len(ss) >= 1
  PROVE  \E f \in [1 .. Len(ss) -> Seq(T)] : Joins(f, ss)
<1> DEFINE n == Len(ss)
           Step(f, k) == f[1] = ss[1] /\ \A i \in 2 .. k : f[i] = f[i - 1] \o ss[i]
           K == {k \in 1 .. n : \E f \in [1 .. k -> Seq(T)] : Step(f, k)}
<1>1. n \in Nat /\ 1 \in 1 .. n /\ \A i \in 1 .. n : ss[i] \in Seq(T)
  OBVIOUS
<1>2. 1 \in K
  <2> DEFINE f == [i \in 1 .. 1 |-> ss[1]]
  <2>1. f \in [1 .. 1 -> Seq(T)] /\ f[1] = ss[1]
    BY <1>1
  <2> HIDE DEF f
  <2>2. Step(f, 1)
    BY <2>1
  <2> QED
    BY <1>1, <2>1, <2>2
<1>3. ASSUME NEW k \in 1 .. n - 1, k \in K PROVE k + 1 \in K
  <2>1. PICK f \in [1 .. k -> Seq(T)] : Step(f, k)
    BY <1>3
  <2> DEFINE g == [i \in 1 .. k + 1 |-> IF i = k + 1 THEN f[k] \o ss[k + 1] ELSE f[i]]
  <2>2. k \in Nat /\ k \in 1 .. k /\ k + 1 \in 1 .. n /\ f[k] \in Seq(T) /\ ss[k + 1] \in Seq(T)
    BY <1>1, <1>3
  <2>3. f[k] \o ss[k + 1] \in Seq(T)
    BY <2>2, ConcatProperties
  <2>4. /\ g \in [1 .. k + 1 -> Seq(T)] /\ g[k + 1] = f[k] \o ss[k + 1]
        /\ \A i \in 1 .. k : g[i] = f[i]
    BY <2>2, <2>3
  <2> HIDE DEF g
  <2>5. Step(g, k + 1)
    <3>1. g[1] = ss[1]
      BY <2>1, <2>2, <2>4
    <3>2. ASSUME NEW i \in 2 .. k + 1 PROVE g[i] = g[i - 1] \o ss[i]
      <4>1. CASE i = k + 1
        <5>1. i - 1 = k
          BY <2>2, <4>1
        <5> QED
          BY <2>2, <2>4, <4>1, <5>1
      <4>2. CASE i # k + 1
        <5>1. i \in 2 .. k /\ i \in 1 .. k /\ i - 1 \in 1 .. k
          BY <2>2, <4>2
        <5> QED
          BY <2>1, <2>4, <5>1
      <4> QED
        BY <4>1, <4>2
    <3> QED
      BY <3>1, <3>2
  <2> QED
    BY <2>2, <2>4, <2>5
<1> HIDE DEF K
<1>4. \A k \in 1 .. n : k \in K
  BY <1>1, <1>2, <1>3, Climb
<1>5. n \in K
  BY <1>1, <1>4
<1> QED
  BY <1>5 DEF K, Joins

\* What FlattenSeq's function is.
LEMMA FlattenJoins ==
  ASSUME NEW T, NEW ss \in Seq(Seq(T)), Len(ss) >= 1
  PROVE  \E f \in [1 .. Len(ss) -> Seq(T)] : Joins(f, ss) /\ FlattenSeq(ss) = f[Len(ss)]
<1> DEFINE n == Len(ss)
           D(f) == [i \in 1 .. n |-> IF i = 1 THEN ss[i] ELSE f[i - 1] \o ss[i]]
           flat == CHOOSE f : f = D(f)
<1>1. PICK f \in [1 .. n -> Seq(T)] : Joins(f, ss)
  BY JoinsExist
<1>2. n \in Nat /\ n \in 1 .. n
  OBVIOUS
<1>3. f = D(f)
  <2>1. ASSUME NEW i \in 1 .. n PROVE f[i] = D(f)[i]
    <3>1. CASE i = 1
      BY <1>1, <3>1 DEF Joins
    <3>2. CASE i # 1
      <4>1. i \in 2 .. n
        BY <3>2
      <4> QED
        BY <1>1, <3>2, <4>1 DEF Joins
    <3> QED
      BY <3>1, <3>2
  <2> QED
    BY <2>1
<1>4. flat = D(flat)
  BY <1>3
<1>5. FlattenSeq(ss) = flat[n]
  BY <1>2 DEF FlattenSeq
<1> HIDE DEF flat
<1>6. \A i \in 1 .. n : flat[i] = IF i = 1 THEN ss[i] ELSE flat[i - 1] \o ss[i]
  BY <1>4
<1> DEFINE K == {k \in 1 .. n : flat[k] = f[k]}
<1>7. 1 \in K
  BY <1>1, <1>2, <1>6 DEF Joins
<1>8. ASSUME NEW k \in 1 .. n - 1, k \in K PROVE k + 1 \in K
  <2>1. k + 1 \in 2 .. n /\ k + 1 \in 1 .. n /\ (k + 1) - 1 = k /\ k + 1 # 1
    BY <1>2
  <2>2. f[k + 1] = f[k] \o ss[k + 1]
    BY <1>1, <2>1 DEF Joins
  <2>3. flat[k + 1] = flat[k] \o ss[k + 1]
    BY <1>6, <2>1
  <2> QED
    BY <1>8, <2>1, <2>2, <2>3
<1> HIDE DEF K
<1>9. \A k \in 1 .. n : k \in K
  BY <1>2, <1>7, <1>8, Climb
<1>10. flat[n] = f[n]
  BY <1>2, <1>9 DEF K
<1> QED
  BY <1>1, <1>5, <1>10

\* A sequence with something after it begins with it.
LEMMA ConcatStarts ==
  ASSUME NEW T, NEW s \in Seq(T), NEW t \in Seq(T)
  PROVE  StartsWith(s \o t, s)
<1> DEFINE u == s \o t
<1>1. /\ Len(u) = Len(s) + Len(t) /\ Len(s) \in Nat /\ Len(t) \in Nat
      /\ \A i \in 1 .. Len(s) + Len(t) : u[i] = IF i <= Len(s) THEN s[i] ELSE t[i - Len(s)]
  BY ConcatProperties
<1> HIDE DEF u
<1>2. StartsWith(u, s)
  BY <1>1 DEF StartsWith
<1> QED
  BY <1>2 DEF u

\* The joining of the first k sequences begins with that of fewer.
LEMMA JoinsGrow ==
  ASSUME NEW T, NEW ss \in Seq(Seq(T)), NEW f \in [1 .. Len(ss) -> Seq(T)], Joins(f, ss),
         NEW k \in 1 .. Len(ss)
  PROVE  StartsWith(f[Len(ss)], f[k])
<1> DEFINE n == Len(ss)
           K == {m \in 1 .. n - k + 1 : StartsWith(f[k + m - 1], f[k])}
<1>1. n \in Nat /\ \A i \in 1 .. n : f[i] \in Seq(T) /\ ss[i] \in Seq(T) /\ Len(f[i]) \in Nat
  BY LenProperties
<1>2. 1 \in K
  <2>1. k + 1 - 1 = k /\ 1 \in 1 .. n - k + 1
    BY <1>1
  <2> QED
    BY <1>1, <2>1 DEF StartsWith
<1>3. ASSUME NEW m \in 1 .. (n - k + 1) - 1, m \in K PROVE m + 1 \in K
  <2> DEFINE i == k + m - 1
  <2>1. i \in 1 .. n /\ i + 1 \in 2 .. n /\ i + 1 \in 1 .. n /\ (i + 1) - 1 = i
        /\ k + (m + 1) - 1 = i + 1 /\ m + 1 \in 1 .. n - k + 1
    BY <1>1
  <2>2. StartsWith(f[i], f[k])
    BY <1>3
  <2> HIDE DEF i
  <2>3. f[i + 1] = f[i] \o ss[i + 1] /\ f[i] \in Seq(T) /\ ss[i + 1] \in Seq(T)
    BY <1>1, <2>1 DEF Joins
  <2>4. StartsWith(f[i + 1], f[i])
    BY <2>3, ConcatStarts
  <2>5. Len(f[k]) \in Nat /\ Len(f[i]) \in Nat /\ Len(f[i + 1]) \in Nat
    BY <1>1, <2>1
  <2>6. StartsWith(f[i + 1], f[k])
    BY <2>2, <2>4, <2>5 DEF StartsWith
  <2> QED
    BY <2>1, <2>6
<1> HIDE DEF K
<1>4. n - k + 1 \in Nat /\ n - k + 1 \in 1 .. n - k + 1
  BY <1>1
<1>5. \A m \in 1 .. n - k + 1 : m \in K
  BY <1>2, <1>3, <1>4, Climb
<1>6. n - k + 1 \in K /\ k + (n - k + 1) - 1 = n
  BY <1>1, <1>4, <1>5
<1> QED
  BY <1>6 DEF K

\* A frame says how long it is.
Frames(T) == {s \in Seq(T) : Len(s) >= 1 /\ s[1] = Len(s) - 1}

\* Where one sequence begins with either of two frames after the same beginning, the
\* two are one.
LEMMA SameFrame ==
  ASSUME NEW T, NEW w \in Seq(T), NEW u \in Seq(T), NEW s \in Frames(T), NEW t \in Frames(T),
         StartsWith(w, u \o s), StartsWith(w, u \o t)
  PROVE  s = t
<1>1. /\ s \in Seq(T) /\ t \in Seq(T) /\ Len(s) \in Nat /\ Len(t) \in Nat /\ Len(u) \in Nat
      /\ Len(s) >= 1 /\ Len(t) >= 1 /\ s[1] = Len(s) - 1 /\ t[1] = Len(t) - 1
  BY DEF Frames
<1>2. \A j \in 1 .. Len(s) : w[Len(u) + j] = s[j]
  <2> SUFFICES ASSUME NEW j \in 1 .. Len(s) PROVE w[Len(u) + j] = s[j]
    OBVIOUS
  <2>1. /\ Len(u \o s) = Len(u) + Len(s)
        /\ (u \o s)[Len(u) + j] = IF Len(u) + j <= Len(u) THEN u[Len(u) + j] ELSE s[Len(u) + j - Len(u)]
    BY <1>1, ConcatProperties
  <2>2. Len(u) + j \in 1 .. Len(u) + Len(s) /\ ~(Len(u) + j <= Len(u)) /\ Len(u) + j - Len(u) = j
    BY <1>1
  <2> QED
    BY <2>1, <2>2 DEF StartsWith
<1>3. \A j \in 1 .. Len(t) : w[Len(u) + j] = t[j]
  <2> SUFFICES ASSUME NEW j \in 1 .. Len(t) PROVE w[Len(u) + j] = t[j]
    OBVIOUS
  <2>1. /\ Len(u \o t) = Len(u) + Len(t)
        /\ (u \o t)[Len(u) + j] = IF Len(u) + j <= Len(u) THEN u[Len(u) + j] ELSE t[Len(u) + j - Len(u)]
    BY <1>1, ConcatProperties
  <2>2. Len(u) + j \in 1 .. Len(u) + Len(t) /\ ~(Len(u) + j <= Len(u)) /\ Len(u) + j - Len(u) = j
    BY <1>1
  <2> QED
    BY <2>1, <2>2 DEF StartsWith
<1>4. s[1] = t[1]
  BY <1>1, <1>2, <1>3
<1>5. Len(s) = Len(t)
  BY <1>1, <1>4
<1> QED
  BY <1>1, <1>2, <1>3, <1>5, SeqEqual

\* Frames that join to the same are the same frames.
LEMMA FramesTell ==
  ASSUME NEW T, NEW ss \in Seq(Frames(T)), NEW tt \in Seq(Frames(T)),
         Len(ss) >= 1, Len(tt) >= 1, FlattenSeq(ss) = FlattenSeq(tt),
         Len(ss) <= Len(tt)
  PROVE  ss = tt
<1> DEFINE n == Len(ss)
           m == Len(tt)
<1>1. ss \in Seq(Seq(T)) /\ tt \in Seq(Seq(T))
  BY SeqMonotonic DEF Frames
<1>2. PICK f \in [1 .. n -> Seq(T)] : Joins(f, ss) /\ FlattenSeq(ss) = f[n]
  BY <1>1, FlattenJoins
<1>3. PICK g \in [1 .. m -> Seq(T)] : Joins(g, tt) /\ FlattenSeq(tt) = g[m]
  BY <1>1, FlattenJoins
<1>4. /\ n \in Nat /\ m \in Nat /\ n \in 1 .. n /\ 1 .. n \subseteq 1 .. m
      /\ \A i \in 1 .. n : ss[i] \in Frames(T) /\ f[i] \in Seq(T)
      /\ \A i \in 1 .. m : tt[i] \in Frames(T) /\ g[i] \in Seq(T)
  <2>1. n \in Nat /\ m \in Nat /\ n \in 1 .. n /\ 1 .. n \subseteq 1 .. m
    OBVIOUS
  <2>2. \A i \in 1 .. n : ss[i] \in Frames(T)
    BY ElementOfSeq
  <2>3. \A i \in 1 .. m : tt[i] \in Frames(T)
    BY ElementOfSeq
  <2> HIDE DEF n, m
  <2> QED
    BY <2>1, <2>2, <2>3
<1>5. PICK w \in Seq(T) : w = f[n] /\ w = g[m]
  BY <1>2, <1>3, <1>4
<1>6. /\ \A i \in 1 .. n : StartsWith(w, f[i])
      /\ \A i \in 1 .. m : StartsWith(w, g[i])
  BY <1>1, <1>2, <1>3, <1>5, JoinsGrow
<1>7. f[1] = ss[1] /\ g[1] = tt[1] /\ 1 \in 1 .. n
  BY <1>2, <1>3, <1>4 DEF Joins
<1> DEFINE K == {k \in 1 .. n : f[k] = g[k] /\ ss[k] = tt[k]}
<1>8. 1 \in K
  <2>1. << >> \in Seq(T) /\ << >> \o ss[1] = f[1] /\ << >> \o tt[1] = g[1]
    BY <1>4, <1>7, ConcatEmptySeq DEF Frames
  <2>2. /\ ss[1] \in Frames(T) /\ tt[1] \in Frames(T)
        /\ StartsWith(w, << >> \o ss[1]) /\ StartsWith(w, << >> \o tt[1])
    <3>1. 1 \in 1 .. m
      BY <1>4, <1>7
    <3> QED
      BY <1>4, <1>6, <1>7, <2>1, <3>1
  <2>3. ss[1] = tt[1]
    BY <2>1, <2>2, SameFrame
  <2> QED
    BY <1>7, <2>3
<1>9. ASSUME NEW k \in 1 .. n - 1, k \in K PROVE k + 1 \in K
  <2>1. k + 1 \in 1 .. n /\ k + 1 \in 2 .. n /\ k + 1 \in 2 .. m /\ k + 1 \in 1 .. m /\ (k + 1) - 1 = k
        /\ k \in 1 .. n
    BY <1>4
  <2>2. f[k + 1] = f[k] \o ss[k + 1] /\ g[k + 1] = f[k] \o tt[k + 1]
    BY <1>2, <1>3, <1>9, <2>1 DEF Joins
  <2>3. /\ ss[k + 1] \in Frames(T) /\ tt[k + 1] \in Frames(T) /\ f[k] \in Seq(T)
        /\ StartsWith(w, f[k] \o ss[k + 1]) /\ StartsWith(w, f[k] \o tt[k + 1])
    <3>1. StartsWith(w, f[k + 1]) /\ StartsWith(w, g[k + 1])
      BY <1>6, <2>1
    <3> QED
      BY <1>4, <2>1, <2>2, <3>1
  <2>4. ss[k + 1] = tt[k + 1]
    BY <2>3, SameFrame
  <2> QED
    BY <2>1, <2>2, <2>4
<1> HIDE DEF K
<1>10. \A k \in 1 .. n : f[k] = g[k] /\ ss[k] = tt[k]
  <2>1. \A k \in 1 .. n : k \in K
    BY <1>4, <1>8, <1>9, Climb
  <2> QED
    BY <2>1 DEF K
<1>11. n = m
  <2> SUFFICES ASSUME n < m PROVE FALSE
    BY <1>4
  <2>1. n + 1 \in 2 .. m /\ n + 1 \in 1 .. m /\ (n + 1) - 1 = n
    BY <1>4
  <2>2. g[n + 1] = w \o tt[n + 1] /\ tt[n + 1] \in Seq(T) /\ Len(tt[n + 1]) >= 1
    BY <1>3, <1>4, <1>5, <1>10, <2>1 DEF Joins, Frames
  <2>3. Len(g[n + 1]) = Len(w) + Len(tt[n + 1]) /\ Len(w) \in Nat /\ Len(tt[n + 1]) \in Nat
    BY <2>2, ConcatProperties
  <2>4. Len(g[n + 1]) <= Len(w)
    BY <1>6, <2>1 DEF StartsWith
  <2> QED
    BY <2>2, <2>3, <2>4
<1> QED
  BY <1>10, <1>11, SeqEqual

\* A framed part is a frame, and says which part it is.
LEMMA FramedTells ==
  ASSUME NEW T, Nat \subseteq T, NEW x \in Seq(T)
  PROVE  /\ Framed(x) \in Frames(T)
         /\ \A y \in Seq(T) : Framed(x) = Framed(y) => x = y
<1>1. ASSUME NEW y \in Seq(T)
      PROVE  /\ Framed(y) \in Seq(T) /\ Len(Framed(y)) = Len(y) + 1 /\ Len(y) \in Nat
             /\ Framed(y)[1] = Len(y) /\ \A i \in 1 .. Len(y) : Framed(y)[i + 1] = y[i]
  <2> DEFINE l == <<Len(y)>>
             u == l \o y
  <2>1. Len(y) \in Nat /\ l \in Seq(T) /\ Len(l) = 1 /\ l[1] = Len(y)
    OBVIOUS
  <2> HIDE DEF l
  <2>2. /\ u \in Seq(T) /\ Len(u) = 1 + Len(y)
        /\ \A i \in 1 .. 1 + Len(y) : u[i] = IF i <= 1 THEN l[i] ELSE y[i - 1]
    <3>1. /\ l \o y \in Seq(T) /\ Len(l \o y) = Len(l) + Len(y)
          /\ \A i \in 1 .. Len(l) + Len(y) : (l \o y)[i] = IF i <= Len(l) THEN l[i] ELSE y[i - Len(l)]
      BY <2>1, ConcatProperties
    <3> QED
      BY <2>1, <3>1
  <2> HIDE DEF u
  <2>3. u[1] = Len(y)
    BY <2>1, <2>2
  <2>4. ASSUME NEW i \in 1 .. Len(y) PROVE u[i + 1] = y[i]
    <3>1. i + 1 \in 1 .. 1 + Len(y) /\ ~(i + 1 <= 1) /\ (i + 1) - 1 = i
      BY <2>1
    <3> QED
      BY <2>2, <3>1
  <2> QED
    BY <2>1, <2>2, <2>3, <2>4 DEF Framed, u, l
<1>2. Framed(x) \in Frames(T)
  BY <1>1 DEF Frames
<1>3. ASSUME NEW y \in Seq(T), Framed(x) = Framed(y) PROVE x = y
  <2>1. Len(x) = Len(y)
    BY <1>1, <1>3
  <2>2. ASSUME NEW i \in 1 .. Len(x) PROVE x[i] = y[i]
    <3>1. Framed(x)[i + 1] = x[i]
      BY <1>1, <2>2
    <3>2. Framed(y)[i + 1] = y[i]
      BY <1>1, <2>1, <2>2
    <3> QED
      BY <1>3, <3>1, <3>2
  <2> QED
    BY <2>1, <2>2, SeqEqual
<1> QED
  BY <1>2, <1>3

\* Additional data says which context it was made of, whatever the parts hold: lengths
\* are symbols like any other, and still no two contexts run together alike.
LEMMA AadTells ==
  ASSUME NEW S, NEW p, NEW c \in Seq(Seq(S)), NEW d \in Seq(Seq(S)), Aad(p, c) = Aad(p, d)
  PROVE  c = d
<1> DEFINE T == S \cup Nat \cup {p}
           Frame(x) == [i \in 1 .. Len(x) + 1 |-> Framed(IF i = 1 THEN <<p>> ELSE x[i - 1])]
<1>1. ASSUME NEW x \in Seq(Seq(S))
      PROVE  /\ Frame(x) \in Seq(Frames(T)) /\ Len(Frame(x)) = Len(x) + 1 /\ Len(x) \in Nat
             /\ \A i \in 1 .. Len(x) : x[i] \in Seq(T) /\ Frame(x)[i + 1] = Framed(x[i])
  <2>1. Len(x) \in Nat /\ \A i \in 1 .. Len(x) : x[i] \in Seq(T)
    <3>1. \A i \in 1 .. Len(x) : x[i] \in Seq(S)
      BY ElementOfSeq
    <3> QED
      BY <3>1, SeqMonotonic
  <2>2. <<p>> \in Seq(T) /\ Nat \subseteq T
    OBVIOUS
  <2> HIDE DEF T
  <2> DEFINE e(i) == Framed(IF i = 1 THEN <<p>> ELSE x[i - 1])
  <2>3. ASSUME NEW i \in 1 .. Len(x) + 1
        PROVE  e(i) \in Frames(T)
    <3>1. CASE i = 1
      BY <2>2, <3>1, FramedTells
    <3>2. CASE i # 1
      <4>1. i - 1 \in 1 .. Len(x)
        BY <2>1, <3>2
      <4> QED
        BY <2>1, <2>2, <3>2, <4>1, FramedTells
    <3> QED
      BY <3>1, <3>2
  <2>4. Frame(x) \in [1 .. Len(x) + 1 -> Frames(T)] /\ Len(x) + 1 \in Nat
    <3>1. Frame(x) = [i \in 1 .. Len(x) + 1 |-> e(i)]
      OBVIOUS
    <3> HIDE DEF e, Frame
    <3>2. [i \in 1 .. Len(x) + 1 |-> e(i)] \in [1 .. Len(x) + 1 -> Frames(T)]
      BY <2>3
    <3>3. Len(x) + 1 \in Nat
      BY <2>1
    <3> QED
      BY <3>1, <3>2, <3>3
  <2>5. ASSUME NEW i \in 1 .. Len(x) PROVE Frame(x)[i + 1] = Framed(x[i])
    <3>1. i + 1 \in 1 .. Len(x) + 1 /\ i + 1 # 1 /\ (i + 1) - 1 = i
      BY <2>1
    <3> QED
      BY <3>1
  <2> HIDE DEF Frame
  <2>6. Frame(x) \in Seq(Frames(T)) /\ Len(Frame(x)) = Len(x) + 1
    BY <2>4, FunctionIsSeq
  <2> QED
    BY <2>1, <2>5, <2>6
<1>2. Aad(p, c) = FlattenSeq(Frame(c)) /\ Aad(p, d) = FlattenSeq(Frame(d))
  BY DEF Aad
<1> HIDE DEF Frame
<1>3. Frame(c) = Frame(d)
  <2>1. CASE Len(c) <= Len(d)
    <3>1. Len(Frame(c)) >= 1 /\ Len(Frame(d)) >= 1 /\ Len(Frame(c)) <= Len(Frame(d))
      BY <1>1, <2>1
    <3>2. FlattenSeq(Frame(c)) = FlattenSeq(Frame(d))
      BY <1>2
    <3>3. Frame(c) \in Seq(Frames(T)) /\ Frame(d) \in Seq(Frames(T))
      BY <1>1
    <3> QED
      BY <3>1, <3>2, <3>3, FramesTell
  <2>2. CASE Len(d) <= Len(c)
    <3>1. Len(Frame(c)) >= 1 /\ Len(Frame(d)) >= 1 /\ Len(Frame(d)) <= Len(Frame(c))
      BY <1>1, <2>2
    <3>2. FlattenSeq(Frame(d)) = FlattenSeq(Frame(c))
      BY <1>2
    <3>3. Frame(c) \in Seq(Frames(T)) /\ Frame(d) \in Seq(Frames(T))
      BY <1>1
    <3> QED
      BY <3>1, <3>2, <3>3, FramesTell
  <2> QED
    BY <1>1, <2>1, <2>2
<1>4. Len(c) = Len(d)
  BY <1>1, <1>3
<1>5. ASSUME NEW i \in 1 .. Len(c) PROVE c[i] = d[i]
  <2>1. Framed(c[i]) = Framed(d[i]) /\ c[i] \in Seq(T) /\ d[i] \in Seq(T)
    BY <1>1, <1>3, <1>4
  <2>2. Nat \subseteq T
    OBVIOUS
  <2> QED
    BY <2>1, <2>2, FramedTells
<1> QED
  BY <1>4, <1>5, SeqEqual

\* Domain separation, for any alphabet and contexts of any length: a box opens under the
\* master key and the context it was sealed under and under no others.
THEOREM ContextsApart ==
  ASSUME NEW S, NEW masters, NEW value, NEW contexts, contexts \subseteq Seq(Seq(S))
  PROVE  OpensUnder(masters, value, contexts)
<1> SUFFICES ASSUME NEW m \in masters, NEW n \in masters, NEW c \in contexts, NEW d \in contexts
             PROVE  Open(n, Seal(m, value, c), d) = IF m = n /\ c = d THEN value ELSE NoValue
  BY DEF OpensUnder
<1>1. CASE m = n /\ c = d
  BY <1>1 DEF Open, Seal
<1>2. CASE m # n
  BY <1>2 DEF Open, Seal
<1>3. CASE c # d
  <2>1. Aad("dek", c) # Aad("dek", d)
    <3>1. c \in Seq(Seq(S)) /\ d \in Seq(Seq(S))
      OBVIOUS
    <3> QED
      BY <1>3, <3>1, AadTells
  <2> QED
    BY <1>3, <2>1 DEF Open, Seal
<1> QED
  BY <1>1, <1>2, <1>3

\* A stored credential opens in no other column and under no other revision, and whatever
\* parts the contexts of two rows are made of, neither opens under the other's (aad of
\* internal/cryptobox/box.go).
THEOREM BoxesOpenAsSealed == SettingsSpec => []OpensOnlyAsSealed
<1>1. FramesApart
  <2>1. Parts \subseteq Seq({1, 2})
    <3> SUFFICES ASSUME NEW f \in Parts PROVE f \in Seq({1, 2})
      OBVIOUS
    <3>1. PICK n \in 0 .. 2 : f \in [1 .. n -> {1, 2}]
      BY DEF Parts
    <3>2. n \in Nat
      OBVIOUS
    <3> QED
      BY <3>1, <3>2, FunctionIsSeq
  <2>2. MCContexts \subseteq Seq(Seq({1, 2}))
    <3> SUFFICES ASSUME NEW c \in MCContexts PROVE c \in Seq(Seq({1, 2}))
      OBVIOUS
    <3>1. PICK n \in 0 .. 2 : c \in [1 .. n -> Parts]
      BY DEF MCContexts
    <3>2. n \in Nat
      OBVIOUS
    <3>3. c \in Seq(Parts)
      BY <3>1, <3>2, FunctionIsSeq
    <3> QED
      BY <2>1, <3>3, SeqMonotonic
  <2> QED
    BY <2>2, ContextsApart DEF FramesApart
<1>2. SettingsInv => OpensOnlyAsSealed
  <2> SUFFICES ASSUME SettingsInv, NEW s \in Services, NEW t \in Services, NEW rev \in 0 .. MaxSettings,
                      stored.secret[s] # NoSecret,
                      Open(Master, stored.secret[s], Column(t, rev)) # NoValue
               PROVE  t = s /\ rev = stored.at[s]
    BY <1>1 DEF OpensOnlyAsSealed
  <2>1. stored.secret[s] = Seal(Master, owned[s], Column(s, stored.at[s])) /\ stored.at[s] \in Nat
    BY DEF SettingsInv, SecretsSealed, SettingsTypeOK
  <2>2. Aad("dek", Column(s, stored.at[s])) = Aad("dek", Column(t, rev))
    BY <2>1 DEF Open, Seal
  <2> DEFINE S == {"settings"} \cup Services \cup Nat
  <2>3. ASSUME NEW u \in Services, NEW r \in Nat
        PROVE  Column(u, r) \in Seq(Seq(S))
    BY DEF Column
  <2>4. Column(s, stored.at[s]) = Column(t, rev)
    <3>1. rev \in Nat
      OBVIOUS
    <3> HIDE DEF S
    <3> QED
      BY <2>1, <2>2, <2>3, <3>1, AadTells
  <2> QED
    BY <2>4 DEF Column
<1> QED
  BY <1>1, <1>2, SettingsAlways, PTL
==============================================================================

------------------------ MODULE AccessRulesProofs ------------------------
(***************************************************************************)
(* Proofs about AccessRules, for any keys, tags, policies and rules.  The  *)
(* invariant is the conjunction of the checked ones and that of the keys:  *)
(* a rule's keys stay created because no version of a key is ever lost.    *)
(***************************************************************************)
EXTENDS AccessRules, KeyLifecycleProofs

AccessInv == KeyInv /\ AccessTypeOK /\ ReferencesHold /\ NewestInForce

\* What tags and policies say may change while the keys do not.
LEMMA CreatedKept ==
  ASSUME KeyInv, [KeyNext]_keyVars, NEW k \in Keys, Created(k)
  PROVE  Created(k)'
<1>1. KeyInv' /\ HistoryStep
  BY KeyNextInv, HistoryStepKept
<1>2. versions[k] # << >> /\ versions[k] \in Seq(Version)
  BY DEF KeyInv, ActiveInRange, TypeOK
<1>3. 1 \in DOMAIN versions[k]
  BY <1>2, EmptySeq, LenProperties
<1>4. 1 \in DOMAIN versions'[k]
  BY <1>1, <1>3 DEF HistoryStep
<1>5. versions'[k] # << >>
  BY <1>4
<1> QED
  BY <1>1, <1>5 DEF KeyInv, ActiveInRange, Created

\* The workspace starts with no tag and no policy.
LEMMA AccessInitInv == KeyInit /\ AccessInit => AccessInv
<1> SUFFICES ASSUME KeyInit, AccessInit PROVE AccessInv
  OBVIOUS
<1>1. KeyInv
  BY KeyInitInv
<1>2. << >> \in Seq(Rules) /\ Len(<< >>) = 0 /\ DOMAIN << >> = {}
  BY EmptySeq, LenProperties
<1>3. AccessTypeOK
  <2>1. 0 \in 0 .. MaxPolicyVersions
    BY RuleAssumption
  <2> QED
    BY <1>2, <2>1 DEF AccessInit, AccessTypeOK
<1>4. \A p \in Policies : specs[p] = << >> /\ policies[p].active = 0
  BY DEF AccessInit
<1>5. ReferencesHold
  BY <1>2, <1>4 DEF AccessInit, ReferencesHold
<1>6. NewestInForce
  BY <1>2, <1>4 DEF NewestInForce
<1> QED
  BY <1>1, <1>3, <1>5, <1>6 DEF AccessInv

\* A new rule goes to the end of its policy's list.
LEMMA PutPolicyEffect ==
  ASSUME AccessTypeOK, NEW p \in Policies, NEW r \in Rules, PutPolicy(p, r)
  PROVE  /\ specs' \in [Policies -> Seq(Rules)]
         /\ Len(specs'[p]) = Len(specs[p]) + 1
         /\ DOMAIN specs[p] = 1 .. Len(specs[p]) /\ Len(specs[p]) \in Nat
         /\ DOMAIN specs'[p] = 1 .. Len(specs[p]) + 1
         /\ \A n \in DOMAIN specs[p] : specs'[p][n] = specs[p][n]
         /\ specs'[p][Len(specs[p]) + 1] = r
         /\ \A q \in Policies \ {p} : specs'[q] = specs[q]
<1>1. specs[p] \in Seq(Rules) /\ specs \in [Policies -> Seq(Rules)]
  BY DEF AccessTypeOK
<1>2. specs' = [specs EXCEPT ![p] = Append(specs[p], r)]
  BY DEF PutPolicy
<1>3. specs'[p] = Append(specs[p], r) /\ \A q \in Policies \ {p} : specs'[q] = specs[q]
  BY <1>1, <1>2
<1>4. /\ Append(specs[p], r) \in Seq(Rules)
      /\ Len(Append(specs[p], r)) = Len(specs[p]) + 1
      /\ \A n \in 1 .. Len(specs[p]) : Append(specs[p], r)[n] = specs[p][n]
      /\ Append(specs[p], r)[Len(specs[p]) + 1] = r
  BY <1>1, AppendProperties
<1>5. /\ DOMAIN specs[p] = 1 .. Len(specs[p]) /\ Len(specs[p]) \in Nat
      /\ DOMAIN Append(specs[p], r) = 1 .. Len(Append(specs[p], r))
  BY <1>1, <1>4, LenProperties
<1>6. specs' \in [Policies -> Seq(Rules)]
  BY <1>1, <1>2, <1>4
<1> QED
  BY <1>3, <1>4, <1>5, <1>6

\* A step of the keys alone keeps what the rules say of them.
LEMMA KeysUnderRules ==
  ASSUME AccessInv, UNCHANGED accessVars, [KeyNext]_keyVars
  PROVE  AccessInv'
<1> USE DEF AccessInv
<1>1. KeyInv'
  BY KeyNextInv
<1>2. UNCHANGED <<tags, spent, keyTags, policies, specs>>
  BY DEF accessVars
<1>3. AccessTypeOK' /\ NewestInForce'
  BY <1>2 DEF AccessTypeOK, NewestInForce
<1>4. \A p \in Policies : \A n \in DOMAIN specs[p] : specs[p][n] \in Rules
  BY ElementOfSeq, LenProperties DEF AccessTypeOK
<1>5. \A p \in Policies : \A n \in DOMAIN specs[p] : \A k \in specs[p][n].keys :
        k \in Keys /\ Created(k)
  BY <1>4, RuleAssumption DEF ReferencesHold, Rule
<1>6. \A p \in Policies : \A n \in DOMAIN specs[p] : \A k \in specs[p][n].keys : Created(k)'
  BY <1>5, CreatedKept
<1>7. ReferencesHold'
  BY <1>2, <1>6 DEF ReferencesHold
<1> QED
  BY <1>1, <1>3, <1>7

\* Every step keeps the invariant: a deleted tag is in no version, and what a
\* new version names exists when it is written.
LEMMA AccessNextInv ==
  ASSUME AccessInv, [AccessNext]_<<keyVars, accessVars>>
  PROVE  AccessInv'
<1> USE DEF AccessInv
<1>1. ASSUME UNCHANGED accessVars, [KeyNext]_keyVars
      PROVE  AccessInv'
  BY <1>1, KeysUnderRules
<1>2. ASSUME UNCHANGED keyVars
      PROVE  KeyInv' /\ \A k \in Keys : Created(k)' <=> Created(k)
  <2>1. KeyInv'
    BY <1>2, KeyNextInv
  <2> QED
    BY <1>2, <2>1 DEF keyVars, Created
<1>3. ASSUME NEW t \in Tags, CreateTag(t)
      PROVE  AccessInv'
  <2>1. UNCHANGED keyVars
    BY <1>3 DEF CreateTag
  <2>2. /\ tags' = tags \cup {t} /\ t \notin spent
        /\ UNCHANGED <<spent, keyTags, policies, specs>>
    BY <1>3 DEF CreateTag
  <2>3. AccessTypeOK' /\ NewestInForce'
    BY <2>2 DEF AccessTypeOK, NewestInForce
  <2>4. ReferencesHold'
    BY <2>1, <2>2 DEF ReferencesHold, keyVars, Created
  <2> QED
    BY <1>2, <2>1, <2>3, <2>4
<1>4. ASSUME NEW t \in Tags, DeleteTag(t)
      PROVE  AccessInv'
  <2>1. UNCHANGED keyVars
    BY <1>4 DEF DeleteTag
  <2>2. /\ tags' = tags \ {t} /\ spent' = spent \cup {t}
        /\ keyTags' = [k \in Keys |-> keyTags[k] \ {t}]
        /\ \A p \in Policies : \A n \in DOMAIN specs[p] : t \notin specs[p][n].tags
        /\ UNCHANGED <<policies, specs>>
    BY <1>4 DEF DeleteTag
  <2>3. AccessTypeOK' /\ NewestInForce'
    BY <2>2 DEF AccessTypeOK, NewestInForce
  <2>4. ReferencesHold'
    BY <2>1, <2>2 DEF ReferencesHold, keyVars, Created
  <2> QED
    BY <1>2, <2>1, <2>3, <2>4
<1>5. ASSUME NEW k \in Keys, NEW chosen \in SUBSET Tags, SetKeyTags(k, chosen)
      PROVE  AccessInv'
  <2>1. UNCHANGED keyVars
    BY <1>5 DEF SetKeyTags
  <2>2. /\ chosen \subseteq tags
        /\ keyTags' = [keyTags EXCEPT ![k] = chosen]
        /\ UNCHANGED <<tags, spent, policies, specs>>
    BY <1>5 DEF SetKeyTags
  <2>3. AccessTypeOK' /\ NewestInForce'
    BY <2>2 DEF AccessTypeOK, NewestInForce
  <2>4. \A j \in Keys : keyTags'[j] \subseteq tags
    BY <2>2 DEF ReferencesHold, AccessTypeOK
  <2>5. ReferencesHold'
    BY <2>1, <2>2, <2>4 DEF ReferencesHold, keyVars, Created
  <2> QED
    BY <1>2, <2>1, <2>3, <2>5
<1>6. ASSUME NEW p \in Policies, NEW r \in Rules, PutPolicy(p, r)
      PROVE  AccessInv'
  <2>1. UNCHANGED keyVars /\ UNCHANGED <<tags, spent, keyTags>>
    BY <1>6 DEF PutPolicy
  <2>2. /\ r.tags \subseteq tags /\ \A k \in r.keys : Created(k)
        /\ policies[p].active < MaxPolicyVersions
        /\ policies' = [policies EXCEPT ![p].active = @ + 1]
    BY <1>6 DEF PutPolicy, KeyExists
  <2>3. /\ specs' \in [Policies -> Seq(Rules)]
        /\ Len(specs'[p]) = Len(specs[p]) + 1
        /\ DOMAIN specs[p] = 1 .. Len(specs[p]) /\ Len(specs[p]) \in Nat
        /\ DOMAIN specs'[p] = 1 .. Len(specs[p]) + 1
        /\ \A n \in DOMAIN specs[p] : specs'[p][n] = specs[p][n]
        /\ specs'[p][Len(specs[p]) + 1] = r
        /\ \A q \in Policies \ {p} : specs'[q] = specs[q]
    BY <1>6, PutPolicyEffect
  <2>4. AccessTypeOK'
    <3>1. policies[p].active + 1 \in 0 .. MaxPolicyVersions
      BY <2>2, RuleAssumption DEF AccessTypeOK
    <3> QED
      BY <2>1, <2>2, <2>3, <3>1 DEF AccessTypeOK
  <2>5. NewestInForce'
    <3>1. policies'[p].active = policies[p].active + 1
          /\ \A q \in Policies \ {p} : policies'[q].active = policies[q].active
      BY <2>2 DEF AccessTypeOK
    <3> QED
      BY <2>3, <3>1 DEF NewestInForce
  <2>6. \A q \in Policies : \A n \in DOMAIN specs'[q] :
          specs'[q][n].tags \subseteq tags /\ \A k \in specs'[q][n].keys : Created(k)
    <3>1. \A n \in DOMAIN specs'[p] : n \in DOMAIN specs[p] \/ n = Len(specs[p]) + 1
      BY <2>3
    <3> QED
      BY <2>2, <2>3, <3>1 DEF ReferencesHold
  <2>7. ReferencesHold'
    BY <2>1, <2>6 DEF ReferencesHold, keyVars, Created
  <2> QED
    BY <1>2, <2>1, <2>4, <2>5, <2>7
<1>7. ASSUME NEW p \in Policies, NEW d \in BOOLEAN, PatchPolicy(p, d)
      PROVE  AccessInv'
  <2>1. UNCHANGED keyVars
    BY <1>7 DEF PatchPolicy
  <2>2. /\ policies' = [policies EXCEPT ![p].disabled = d]
        /\ UNCHANGED <<tags, spent, keyTags, specs>>
    BY <1>7 DEF PatchPolicy
  <2>3. AccessTypeOK' /\ \A q \in Policies : policies'[q].active = policies[q].active
    BY <2>2 DEF AccessTypeOK
  <2>4. NewestInForce'
    BY <2>2, <2>3 DEF NewestInForce
  <2>5. ReferencesHold'
    BY <2>1, <2>2 DEF ReferencesHold, keyVars, Created
  <2> QED
    BY <1>2, <2>1, <2>3, <2>4, <2>5
<1>8. CASE AccessStep
  BY <1>8, <1>3, <1>4, <1>5, <1>6, <1>7 DEF AccessStep
<1>9. CASE (KeyMutation \/ PutKeyAgain) /\ UNCHANGED accessVars
  BY <1>9, <1>1 DEF KeyNext
<1>10. CASE UNCHANGED <<keyVars, accessVars>>
  BY <1>10, <1>1
<1> QED
  BY <1>8, <1>9, <1>10 DEF AccessNext

---------------------------------------------------------------------------
\* The tables of tags and policies keep their types.
THEOREM AccessTypeCorrect == AccessSpec => []AccessTypeOK
<1>1. AccessInv /\ [AccessNext]_<<keyVars, accessVars>> => AccessInv'
  BY AccessNextInv
<1>2. AccessInv => AccessTypeOK
  BY DEF AccessInv
<1> QED
  BY <1>1, <1>2, AccessInitInv, PTL DEF AccessSpec

\* No rule of any version and no key ever refers to a tag that is gone.
THEOREM NoDanglingRule == AccessSpec => []ReferencesHold
<1>1. AccessInv /\ [AccessNext]_<<keyVars, accessVars>> => AccessInv'
  BY AccessNextInv
<1>2. AccessInv => ReferencesHold
  BY DEF AccessInv
<1> QED
  BY <1>1, <1>2, AccessInitInv, PTL DEF AccessSpec

\* The number in force is that of the last rule written.
THEOREM LastRuleRules == AccessSpec => []NewestInForce
<1>1. AccessInv /\ [AccessNext]_<<keyVars, accessVars>> => AccessInv'
  BY AccessNextInv
<1>2. AccessInv => NewestInForce
  BY DEF AccessInv
<1> QED
  BY <1>1, <1>2, AccessInitInv, PTL DEF AccessSpec

\* Only a PUT touches the list of rules, and it only appends.
LEMMA RuleStepKept ==
  ASSUME AccessInv, [AccessNext]_<<keyVars, accessVars>>
  PROVE  RuleStep
<1> USE DEF AccessInv
<1>1. ASSUME UNCHANGED specs PROVE RuleStep
  BY <1>1 DEF RuleStep
<1>2. ASSUME NEW p \in Policies, NEW r \in Rules, PutPolicy(p, r)
      PROVE  RuleStep
  <2>1. /\ DOMAIN specs[p] = 1 .. Len(specs[p]) /\ Len(specs[p]) \in Nat
        /\ DOMAIN specs'[p] = 1 .. Len(specs[p]) + 1
        /\ \A n \in DOMAIN specs[p] : specs'[p][n] = specs[p][n]
        /\ \A q \in Policies \ {p} : specs'[q] = specs[q]
    BY <1>2, PutPolicyEffect
  <2>2. \A n \in DOMAIN specs[p] : n \in DOMAIN specs'[p]
    BY <2>1
  <2> QED
    BY <2>1, <2>2 DEF RuleStep
<1>3. CASE AccessStep
  <2>1. UNCHANGED specs \/ \E p \in Policies, r \in Rules : PutPolicy(p, r)
    BY <1>3 DEF AccessStep, CreateTag, DeleteTag, SetKeyTags, PatchPolicy
  <2> QED
    BY <2>1, <1>1, <1>2
<1>4. CASE UNCHANGED accessVars
  BY <1>4, <1>1 DEF accessVars
<1> QED
  BY <1>3, <1>4 DEF AccessNext

\* A policy version, once written, never changes and never disappears.
THEOREM RulesAreKept == AccessSpec => RulesKept
<1>1. AccessInv /\ [AccessNext]_<<keyVars, accessVars>> => AccessInv' /\ RuleStep
  BY AccessNextInv, RuleStepKept
<1> QED
  BY <1>1, AccessInitInv, PTL DEF AccessSpec, RulesKept

---------------------------------------------------------------------------
\* Tags and policies do nothing to the keys that the keys' own handlers do not do:
\* all that is proved of KeySpec holds of the composition.
THEOREM RulesUseKeys == AccessSpec => KeySpec
<1>1. AccessStep => UNCHANGED keyVars
  BY DEF AccessStep, CreateTag, DeleteTag, SetKeyTags, PutPolicy, PatchPolicy
<1>2. [AccessNext]_<<keyVars, accessVars>> => [KeyNext]_keyVars
  BY <1>1 DEF AccessNext, KeyNext
<1> QED
  BY <1>2, PTL DEF AccessSpec, KeySpec
===========================================================================

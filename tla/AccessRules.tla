---------------------------- MODULE AccessRules ----------------------------
(***************************************************************************)
(* Tags and policies of the workspace: which workflow may read which key.  *)
(* Handlers of internal/vault/admin.go (tags) and policy.go, one action    *)
(* each; the pure functions targetMatches and claimsMatch as operators.    *)
(*                                                                         *)
(* A tag is its id, which newID never hands out twice; its display name,   *)
(* all that renaming changes, is left out.  A policy is its name, which is *)
(* unique and never freed.  Of the optional fields of a rule, repo stands  *)
(* for the single values (repository, workflow path, workflow SHA) and     *)
(* refs for the lists (refs, environments, events, runners).               *)
(***************************************************************************)
EXTENDS KeyLifecycle

CONSTANTS
  Tags, Policies,     \* ids the workspace may come to have
  Owners, Repos, Refs,
  AnyRepo,            \* an omitted single value
  Rules,              \* rules the owner may write
  MaxPolicyVersions   \* bound: versions of one policy

Rule   == [keys : SUBSET Keys, tags : SUBSET Tags, owner : Owners,
           repo : Repos \cup {AnyRepo}, refs : SUBSET Refs]
Claims == [owner : Owners, repo : Repos, ref : Refs]

\* validateRule: either keys or tags, and some.
ASSUME RuleAssumption ==
  /\ Rules \subseteq {r \in Rule : (r.keys = {}) # (r.tags = {})}
  /\ AnyRepo \notin Repos
  /\ MaxPolicyVersions \in Nat

VARIABLES
  tags,      \* ids with a row in tags
  spent,     \* ids that had one
  keyTags,   \* table key_tags
  policies,  \* active version (0: no row) and disabled
  specs      \* table policy_versions with its target tables

accessVars == <<tags, spent, keyTags, policies, specs>>

AccessTypeOK ==
  /\ tags \in SUBSET Tags /\ spent \in SUBSET Tags
  /\ keyTags \in [Keys -> SUBSET Tags]
  /\ policies \in [Policies -> [active : 0 .. MaxPolicyVersions, disabled : BOOLEAN]]
  /\ specs \in [Policies -> Seq(Rules)]

AccessInit ==
  /\ tags = {} /\ spent = {}
  /\ keyTags = [k \in Keys |-> {}]
  /\ policies = [p \in Policies |-> [active |-> 0, disabled |-> FALSE]]
  /\ specs = [p \in Policies |-> << >>]

---------------------------------------------------------------------------
KeyExists(k) == Created(k) /\ ~keys[k].deleted

CreateTag(t) ==
  /\ t \notin tags \cup spent
  /\ tags' = tags \cup {t}
  /\ UNCHANGED <<keyVars, spent, keyTags, policies, specs>>

\* Mutant: only the versions in force are asked whether they use the tag.
DeleteTagUnlessActive(t) ==
  /\ t \in tags
  /\ \A p \in Policies : policies[p].active # 0 => t \notin specs[p][policies[p].active].tags
  /\ tags' = tags \ {t} /\ spent' = spent \cup {t}
  /\ keyTags' = [k \in Keys |-> keyTags[k] \ {t}]
  /\ UNCHANGED <<keyVars, policies, specs>>

\* Refused while any version of any policy, old ones included, names the tag.
DeleteTag(t) ==
  /\ t \in tags
  /\ \A p \in Policies : \A n \in DOMAIN specs[p] : t \notin specs[p][n].tags
  /\ tags' = tags \ {t} /\ spent' = spent \cup {t}
  /\ keyTags' = [k \in Keys |-> keyTags[k] \ {t}]
  /\ UNCHANGED <<keyVars, policies, specs>>

\* The whole set is replaced; the foreign key refuses an unknown tag.
SetKeyTags(k, chosen) ==
  /\ KeyExists(k)
  /\ chosen \subseteq tags
  /\ keyTags' = [keyTags EXCEPT ![k] = chosen]
  /\ UNCHANGED <<keyVars, tags, spent, policies, specs>>

\* Mutant: a new version replaces the one in force.
PutPolicyInPlace(p, r) ==
  /\ \A k \in r.keys : KeyExists(k)
  /\ r.tags \subseteq tags
  /\ policies[p].active < MaxPolicyVersions
  /\ policies' = [policies EXCEPT ![p].active = 1]
  /\ specs' = [specs EXCEPT ![p] = <<r>>]
  /\ UNCHANGED <<keyVars, tags, spent, keyTags>>

\* A new version under the next number, in force at once; disabled stays.
PutPolicy(p, r) ==
  /\ \A k \in r.keys : KeyExists(k)
  /\ r.tags \subseteq tags
  /\ policies[p].active < MaxPolicyVersions
  /\ policies' = [policies EXCEPT ![p].active = @ + 1]
  /\ specs' = [specs EXCEPT ![p] = Append(@, r)]
  /\ UNCHANGED <<keyVars, tags, spent, keyTags>>

\* Mutant: enabling a policy also goes back to its first version.
PatchPolicyResets(p, d) ==
  /\ policies[p].active # 0
  /\ policies' = [policies EXCEPT ![p] = [active |-> 1, disabled |-> d]]
  /\ UNCHANGED <<keyVars, tags, spent, keyTags, specs>>

PatchPolicy(p, d) ==
  /\ policies[p].active # 0
  /\ policies' = [policies EXCEPT ![p].disabled = d]
  /\ UNCHANGED <<keyVars, tags, spent, keyTags, specs>>

AccessStep ==
  \/ \E t \in Tags : CreateTag(t) \/ DeleteTag(t)
  \/ \E k \in Keys, chosen \in SUBSET Tags : SetKeyTags(k, chosen)
  \/ \E p \in Policies, r \in Rules : PutPolicy(p, r)
  \/ \E p \in Policies, d \in BOOLEAN : PatchPolicy(p, d)

AccessNext == AccessStep \/ ((KeyMutation \/ PutKeyAgain) /\ UNCHANGED accessVars)

AccessSpec == KeyInit /\ AccessInit /\ [][AccessNext]_<<keyVars, accessVars>>

---------------------------------------------------------------------------
TargetMatches(rule, k) == k \in rule.keys \/ keyTags[k] \cap rule.tags # {}

ClaimsMatch(rule, c) ==
  /\ rule.owner = c.owner
  /\ rule.repo \in {AnyRepo, c.repo}
  /\ rule.refs = {} \/ c.ref \in rule.refs

\* The rules resolve goes by: active versions of policies not disabled.
InForce == {specs[p][policies[p].active] : p \in {q \in Policies :
              policies[q].active # 0 /\ ~policies[q].disabled}}

Allowed(k, c) == \E rule \in InForce : TargetMatches(rule, k) /\ ClaimsMatch(rule, c)

---------------------------------------------------------------------------
(***************************************************************************)
(* Properties.                                                             *)
(***************************************************************************)

\* A tag a rule of any version speaks of, or a key bears, still exists, and a
\* key a rule names was created: no deletion leaves a rule about nothing, and no
\* id that was deleted can come back to mean something else.
ReferencesHold ==
  /\ tags \cap spent = {}
  /\ \A k \in Keys : keyTags[k] \subseteq tags
  /\ \A p \in Policies : \A n \in DOMAIN specs[p] :
       specs[p][n].tags \subseteq tags /\ \A k \in specs[p][n].keys : Created(k)

\* The rule in force is the last one written, so the next number is free and
\* the primary key of policy_versions never refuses a PUT.
NewestInForce == \A p \in Policies : policies[p].active = Len(specs[p])

\* The audit trail's "policy p, version n" keeps its meaning: no step changes or
\* drops a rule that was once in force.
RuleStep ==
  \A p \in Policies : \A n \in DOMAIN specs[p] :
    n \in DOMAIN specs'[p] /\ specs'[p][n] = specs[p][n]

RulesKept == [][RuleStep]_<<keyVars, accessVars>>
============================================================================

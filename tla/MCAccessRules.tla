--------------------------- MODULE MCAccessRules ---------------------------
(* KeyLifecycle and AccessRules for TLC: two paths, two texts, one header and
   a short day for the keys alone; two tags, two policies and one claim field
   over keys that have one dateless version, written without a header.       *)
EXTENDS AccessRules, TLC

CONSTANTS k1, k2, v1, v2, h1, t1, t2, p1, p2, o1

MCKeys == {k1, k2}
MCValues == {v1, v2}
MCExpiries == {2}
MCIdemIds == {h1}
MCNone == {}
MCTags == {t1, t2}
MCPolicies == {p1, p2}
MCOwners == {o1}
MCRule(ks, ts) == [keys |-> ks, tags |-> ts, owner |-> o1, repo |-> AnyRepo, refs |-> {}]
MCRules == {MCRule({k1}, {}), MCRule({}, {t1}), MCRule({}, {t1, t2})}
MCSymmetry == Permutations(MCPolicies)

\* Two versions in all: two of one key, or one of each.
FewVersions == Len(versions[k1]) + Len(versions[k2]) <= 2
\* One version of a key, as first written, and nothing remembered.
PlainKeys ==
  /\ now = 1 /\ idem = [i \in IdemIds |-> NoRow]
  /\ \A k \in Keys : \A n \in DOMAIN versions[k] :
       /\ n = 1 /\ versions[k][n].rev = 1
       /\ versions[k][n].expiry = Never /\ versions[k][n].value = v1

MCNext ==
  \/ KeyNext /\ AccessInit /\ FewVersions' /\ UNCHANGED accessVars
  \/ AccessNext /\ PlainKeys'
MCInit == KeyInit /\ AccessInit
MCSpec == MCInit /\ [][MCNext]_<<keyVars, accessVars>>
============================================================================

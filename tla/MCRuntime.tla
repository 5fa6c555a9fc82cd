----------------------------- MODULE MCRuntime -----------------------------
(* Runtime for TLC: one token; either two calls and two requests for one key,
   or one call for two keys that a rule reaches through a tag.              *)
EXTENDS Runtime, FiniteSets, TLC

CONSTANTS k1, k2, v1, t1, p1, o1, a1, a2, n1, n2, tok

MCKeys == {k1}
MCValues == {v1}
MCNone == {}
MCExpiries == {3}
MCPolicies == {p1}
MCOwners == {o1}
MCRules == {[keys |-> {k1}, tags |-> {}, owner |-> o1, repo |-> AnyRepo, refs |-> {}]}
MCCallers == {a1, a2}
MCTokens == {tok}
MCClaims == [owner |-> o1, repo |-> o1, ref |-> o1]
MCTokenClaims == [t \in MCTokens |-> MCClaims]
MCTokenExp == [t \in MCTokens |-> 2]
MCReferences == {[n \in {n1} |-> k1], [n \in {n2} |-> k1]}
MCSymmetry == Permutations(MCCallers)

MCTwoKeys == {k1, k2}
MCTags == {t1}
MCAllRules == MCRules \cup {[keys |-> {}, tags |-> {t1}, owner |-> o1, repo |-> AnyRepo, refs |-> {}]}
MCAllReferences == MCReferences \cup {[n \in {n1, n2} |-> IF n = n1 THEN k1 ELSE k2]}

Asked == {calls[c].refs : c \in {d \in Callers : calls[d] # NoCall}}
           \cup {records[t].refs : t \in {u \in Tokens : records[u] # NoRecord}}

\* One key, no tag.
OneKey == tags = {} /\ spent = {} /\ ~Created(k2) /\ Asked \subseteq MCReferences
\* Two keys of one version, a tag, one call at a time, and a token not used before.
OneTag ==
  /\ now <= 3
  /\ \A k \in Keys : Len(versions[k]) <= 1
  /\ \A p \in Policies : \A n \in DOMAIN specs[p] : specs[p][n].tags # {}
  /\ Cardinality({c \in Callers : calls[c] # NoCall}) <= 1
  /\ Asked \cap MCReferences = {}
  /\ \A t \in Tokens : \A i \in DOMAIN delivered[t] : delivered[t][i].refs \notin MCReferences

MCSpec == RuntimeInit /\ [][RuntimeNext /\ (OneKey' \/ OneTag')]_allVars
============================================================================

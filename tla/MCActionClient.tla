--------------------------- MODULE MCActionClient ---------------------------
(* ActionClient for TLC: one token, one key that is rotated. *)
EXTENDS ActionClient

CONSTANTS k1, v1, p1, o1, n1, tok

MCKeys == {k1}
MCValues == {v1}
MCNone == {}
MCPolicies == {p1}
MCOwners == {o1}
MCRules == {[keys |-> {k1}, tags |-> {}, owner |-> o1, repo |-> AnyRepo, refs |-> {}]}
MCTokens == {tok}
MCCallers == MCTokens \X (1 .. 4)
MCClaims == [owner |-> o1, repo |-> o1, ref |-> o1]
MCTokenClaims == [t \in MCTokens |-> MCClaims]
MCTokenExp == [t \in MCTokens |-> MaxTime]
MCReferences == {[n \in {n1} |-> k1]}
============================================================================

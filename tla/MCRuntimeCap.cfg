\* As MCRuntime.cfg, against the cap the design document states.
CONSTANTS
  k1 = k1
  k2 = k2
  v1 = v1
  t1 = t1
  p1 = p1
  o1 = o1
  a1 = a1
  a2 = a2
  n1 = n1
  n2 = n2
  tok = tok
  NoHeader = NoHeader
  AnyRepo = AnyRepo
  Keys <- MCKeys
  Values <- MCValues
  Expiries <- MCExpiries
  IdemIds <- MCNone
  IdemTTL = 1
  MaxVersions = 2
  MaxRevision = 2
  MaxTime = 4
  Tags <- MCNone
  Policies <- MCPolicies
  Owners <- MCOwners
  Repos <- MCOwners
  Refs <- MCOwners
  Rules <- MCRules
  MaxPolicyVersions = 1
  Callers <- MCCallers
  Tokens <- MCTokens
  TokenClaims <- MCTokenClaims
  TokenExp <- MCTokenExp
  References <- MCReferences
  Leeway = 1
  RetryWindow = 2
  MaxAttempts = 2
SPECIFICATION RuntimeSpec
SYMMETRY MCSymmetry
INVARIANT DocumentedCap

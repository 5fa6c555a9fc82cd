\* Three attempts of one tick and pauses of one tick, a window of five.
CONSTANTS
  k1 = k1
  v1 = v1
  p1 = p1
  o1 = o1
  n1 = n1
  tok = tok
  NoHeader = NoHeader
  AnyRepo = AnyRepo
  Keys <- MCKeys
  Values <- MCValues
  Expiries <- MCNone
  IdemIds <- MCNone
  IdemTTL = 1
  MaxVersions = 2
  MaxRevision = 1
  MaxTime = 7
  Tags <- MCNone
  Policies <- MCPolicies
  Owners <- MCOwners
  Repos <- MCOwners
  Refs <- MCOwners
  Rules <- MCRules
  MaxPolicyVersions = 1
  Callers <- MCCallers
  Tokens <- MCTokens
  TokenClaims <- MCTokenClaims
  TokenExp <- MCTokenExp
  References <- MCReferences
  Leeway = 1
  RetryWindow = 5
  MaxAttempts = 3
  Tries = 3
  ClientTimeout = 1
  MaxWait = 1
SPECIFICATION ClientSpec
INVARIANTS ClientTypeOK NeverReplayed GotSelected

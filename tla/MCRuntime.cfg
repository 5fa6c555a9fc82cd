\* A token that expires at 2, a window of 1, records kept until 3, two answers at
\* most; one key, or two under a tag.
CONSTANTS
  k1 = k1
  k2 = k2
  v1 = v1
  t1 = t1
  p1 = p1
  o1 = o1
  a1 = a1
  a2 = a2
  n1 = n1
  n2 = n2
  tok = tok
  NoHeader = NoHeader
  AnyRepo = AnyRepo
  Keys <- MCTwoKeys
  Values <- MCValues
  Expiries <- MCExpiries
  IdemIds <- MCNone
  IdemTTL = 1
  MaxVersions = 2
  MaxRevision = 2
  MaxTime = 4
  Tags <- MCTags
  Policies <- MCPolicies
  Owners <- MCOwners
  Repos <- MCOwners
  Refs <- MCOwners
  Rules <- MCAllRules
  MaxPolicyVersions = 1
  Callers <- MCCallers
  Tokens <- MCTokens
  TokenClaims <- MCTokenClaims
  TokenExp <- MCTokenExp
  References <- MCAllReferences
  Leeway = 1
  RetryWindow = 1
  MaxAttempts = 2
SPECIFICATION MCSpec
SYMMETRY MCSymmetry
INVARIANTS RetryCap OneAnswer
PROPERTY AnswerCurrent

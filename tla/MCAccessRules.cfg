\* Keys: two texts, one date, a third revision for the way there and
\* back, one header remembered for one second.
\* Rules by key and by tag, two versions of each of two policies.
CONSTANTS
  k1 = k1
  k2 = k2
  v1 = v1
  v2 = v2
  h1 = h1
  t1 = t1
  t2 = t2
  p1 = p1
  p2 = p2
  o1 = o1
  NoHeader = NoHeader
  AnyRepo = AnyRepo
  Keys <- MCKeys
  Values <- MCValues
  Expiries <- MCExpiries
  IdemIds <- MCIdemIds
  IdemTTL = 1
  MaxVersions = 2
  MaxRevision = 3
  MaxTime = 4
  Tags <- MCTags
  Policies <- MCPolicies
  Owners <- MCOwners
  Repos <- MCNone
  Refs <- MCNone
  Rules <- MCRules
  MaxPolicyVersions = 2
SPECIFICATION MCSpec
SYMMETRY MCSymmetry
INVARIANTS IdemOnce ReplayHonest ReferencesHold NewestInForce
PROPERTIES HistoryKept RulesKept

\* Key handlers against the worker: two versions, two dates, three revisions.
CONSTANTS
  k1 = k1
  k2 = k2
  v1 = v1
  NoHeader = NoHeader
  Keys <- MCKeys
  Values <- MCValues
  Expiries <- MCTwoDates
  IdemIds <- MCNone
  IdemTTL = 1
  MaxVersions = 2
  MaxRevision = 3
  MaxTime = 2
  Profiles <- MCBareProfiles
  InitialProfile <- MCBareOff
  Days <- MCNone
  Day = 1
  Minute = 1
  Hour = 1
  Window = 2
  ProviderWindow = 4
  SendTimeout = 0
  RetryAfters <- MCNoRetryAfter
  BatchLimit = 1
  MaxSettings = 2
  MaxCrashes = 0
SPECIFICATION MCKeysSpec
INVARIANTS NoteTypeOK LiveFresh
PROPERTY AttemptedIsFixed

\* Two keys and room for one row in a batch.
CONSTANTS
  k1 = k1
  k2 = k2
  v1 = v1
  NoHeader = NoHeader
  Keys <- MCTwoKeys
  Values <- MCValues
  Expiries <- MCPast
  IdemIds <- MCNone
  IdemTTL = 1
  MaxVersions = 1
  MaxRevision = 1
  MaxTime = 2
  Profiles <- MCProfiles
  InitialProfile <- MCOff
  Days <- MCDays
  Day = 1
  Minute = 1
  Hour = 1
  Window = 1
  ProviderWindow = 2
  SendTimeout = 0
  RetryAfters <- MCNoRetryAfter
  BatchLimit = 1
  MaxSettings = 2
  MaxCrashes = 1
SPECIFICATION FairNoteSpec
PROPERTY DueHandled

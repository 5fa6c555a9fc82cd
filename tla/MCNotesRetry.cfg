\* Retries, late requests and a restart, past both windows.
CONSTANTS
  k1 = k1
  k2 = k2
  v1 = v1
  NoHeader = NoHeader
  Keys <- MCKeys
  Values <- MCValues
  Expiries <- MCTwoDates
  IdemIds <- MCNone
  IdemTTL = 1
  MaxVersions = 1
  MaxRevision = 1
  MaxTime = 7
  Profiles <- MCProfiles
  InitialProfile <- MCOff
  Days <- MCDays
  Day = 1
  Minute = 1
  Hour = 1
  Window = 4
  ProviderWindow = 6
  SendTimeout = 2
  RetryAfters <- MCRetryAfter
  BatchLimit = 1
  MaxSettings = 3
  MaxCrashes = 1
SPECIFICATION MCNoteSpec
INVARIANTS SentIsTrue LiveRevision OneWaiting
PROPERTIES NotBeforeDue LedgerKept

\* Two pages, three saves and a restart.
CONSTANTS
  x1 = x1
  x2 = x2
  Pages <- MCPages
  Secrets <- MCSecrets
  Levels <- MCLevels
  Forms <- MCForms
  Master = Master
  NoSecret = NoSecret
  MaxSettings = 5
  MaxRestarts = 1
SPECIFICATION SettingsSpec
INVARIANTS SettingsTypeOK SecretsTrue OpensOnlyAsSealed
PROPERTY OwnAnswer

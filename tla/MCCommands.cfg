\* Server and backup from any state of the directory; an export of four rows on
\* two pages, a third over the largest offset; a shell and two processes.
CONSTANTS
  m1 = m1
  m2 = m2
  NoMaster = NoMaster
  Processes <- MCBoth
  Requests <- MCRequests
  Masters <- MCMasters
  Ids <- MCIds
  PageSize = 2
  MaxOffset = 2
  Retention = 2
  Lag = 1
  MaxTime = 3
  sh = sh
  p1 = p1
  p2 = p2
  Procs <- MCProcs
  Shell = sh
SPECIFICATION MCSpec
INVARIANTS CommandsTypeOK OpenSound SetupOnce ExportExact CancelSettled
PROPERTY CommandsEnd

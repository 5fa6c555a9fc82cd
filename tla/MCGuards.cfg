\* Two callers, a key that is rotated in and out, an hour and more; three keys, three
\* windows, a full table, restarts at any moment.
CONSTANTS
  c1 = c1
  c2 = c2
  old = old
  new = new
  Callers <- MCCallers
  Kids <- MCKids
  Lifetime = 3
  Throttle = 2
  HttpTimeout = 1
  MaxTime = 5
  LimitKeys <- MCKeys
  Limit <- MCLimit
  Window = 2
  Capacity = 2
  MaxClock = 6
  MaxCalls = 5
SPECIFICATION MCSpec
INVARIANTS GuardsTypeOK LimitKept
PROPERTIES KeyRecent RefusedForCause CallsEnd

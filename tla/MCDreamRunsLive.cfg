SPECIFICATION FairSpec
CONSTANTS
  Runs = {r1, r2}
  Principals = {p}
  Prints = {f}
  References = {e}
  Workers = {w1}
  MaxCalls = 2
  YieldAfter = 1
  MaxPending = 2
  MaxSurplus = 0
  MaxDirty = 1
  MaxRequested = 3
  MaxTerm = 2
PROPERTY RunsEnd
CHECK_DEADLOCK FALSE

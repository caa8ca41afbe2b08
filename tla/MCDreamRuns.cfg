SPECIFICATION Spec
CONSTANTS
  Runs = {r1, r2, r3}
  Principals = {p1, p2}
  Prints = {f}
  References = {e1, e2}
  Workers = {w1, w2}
  MaxCalls = 2
  YieldAfter = 2
  MaxPending = 2
  MaxSurplus = 1
  MaxDirty = 2
  MaxRequested = 3
  MaxTerm = 2
VIEW View
INVARIANT TypeOK
INVARIANT NoStrandedRun
INVARIANT AttemptsBounded
INVARIANT BoundedBypass
INVARIANT NoRepeatedProposal
CHECK_DEADLOCK FALSE

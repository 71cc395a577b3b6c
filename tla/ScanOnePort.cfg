\* One listening port, and more connections than a call looks at.
CONSTANTS
  Ports = {3}
  Fds = {5, 6, 7, 8, 9}
  CheckStep = 3
  Timeout <- MCTimeout
  IdleCap = 2
  MaxElapsed = 1
SPECIFICATION CoverFairSpec
INVARIANT ScanTypeOK
INVARIANT BoundedWork
INVARIANT EveryoneLookedAt
PROPERTY SweepEnds
PROPERTY OverdueErasedIfCalm
\* A sweep that hangs stops the server.
CHECK_DEADLOCK FALSE

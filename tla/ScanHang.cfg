\* As many connections as a call looks at, all idle.
CONSTANTS
  Ports = {3}
  Fds = {5, 6, 7}
  CheckStep = 3
  Timeout <- MCTimeout
  IdleCap = 2
  MaxElapsed = 1
SPECIFICATION CoverFairSpec
PROPERTY SweepReturns
\* A sweep that hangs stops the server.
CHECK_DEADLOCK FALSE

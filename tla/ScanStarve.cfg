\* Two listening ports and four connections, CHECK_EXPIRED_STEP being three.
CONSTANTS
  Ports = {3, 4}
  Fds = {5, 6, 7, 8}
  CheckStep = 3
  Timeout <- MCTimeout
  IdleCap = 2
  MaxElapsed = 1
SPECIFICATION CoverFairSpec
PROPERTY OverdueErasedIfCalm
\* A sweep that hangs stops the server.
CHECK_DEADLOCK FALSE

\* An event outlives its session, and recv waits on the next one.
CONSTANTS
  Ports = {3}
  Fds = {5}
  CheckStep = 3
  Timeout <- MCTimeout
  IdleCap = 1
  MaxElapsed = 1
  s1 = s1
  s2 = s2
  s3 = s3
  Sessions = {s1, s2}
  NoSession = NoSession
  Dest <- MCDest
  MaxEvents = 2
  MaxUnread = 1
SPECIFICATION LifeSpec
INVARIANT ThreadNeverBlocks
\* Clients may all be gone or silent, and the thread may block or hang.
CHECK_DEADLOCK FALSE

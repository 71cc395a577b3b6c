\* Two listening ports, and two descriptors that three sessions share.
CONSTANTS
  Ports = {3, 4}
  Fds = {5, 6}
  CheckStep = 3
  Timeout <- MCTimeout
  IdleCap = 1
  MaxElapsed = 1
  s1 = s1
  s2 = s2
  s3 = s3
  Sessions = {s1, s2, s3}
  NoSession = NoSession
  Dest <- MCDest
  MaxEvents = 2
  MaxUnread = 1
SYMMETRY Alike
SPECIFICATION LifeSpec
INVARIANT LifeTypeOK
INVARIANT TablesMatchKernel
INVARIANT StaleOnlyByExpiry
INVARIANT RecvBlocksOnlyAfterExpiry
INVARIANT AcceptNeverBlocks
INVARIANT StoppedClean
PROPERTY LiveSessionKept
PROPERTY ContractKept
\* Clients may all be gone or silent, and the thread may block or hang.
CHECK_DEADLOCK FALSE

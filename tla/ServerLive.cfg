\* More is ready than epoll_wait reports: one event at a time.
CONSTANTS
  Ports = {3}
  Fds = {5, 6}
  CheckStep = 3
  Timeout <- MCTimeout
  IdleCap = 1
  MaxElapsed = 1
  s1 = s1
  s2 = s2
  s3 = s3
  Sessions = {s1, s2}
  NoSession = NoSession
  Dest <- MCDest
  MaxEvents = 1
  MaxUnread = 1
SPECIFICATION LifeFairSpec
PROPERTY CloseReturns
PROPERTY RoundsEnd
PROPERTY GoneClientsRemoved
PROPERTY QueuedClientsTaken
\* Clients may all be gone or silent, and the thread may block or hang.
CHECK_DEADLOCK FALSE

CONSTANTS
  N = 2
  q1 = q1
  q2 = q2
  q3 = q3
  Queries = {q1, q2, q3}
  NoQuery = NoQuery
  MaxQueue = 1
  QueryTimeout = 0
  ConnectTimeout = 0
  PingTime = 0
  AgeCap = 1
  MaxElapsed = 1
SPECIFICATION LinkFairSpec
INVARIANT TypeOK
INVARIANT OneOwner
INVARIANT OwnAnswer
INVARIANT IdleUnlessReady
PROPERTY ServiceKept
PROPERTY SentQueriesEnd
PROPERTY BacklogTaken
PROPERTY FailedReplaced
PROPERTY BadDestroyed
PROPERTY LostReplaced

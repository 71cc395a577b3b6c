\* Requests and headers below, at and above multiples of the block.
CONSTANTS
  Block = 4
  MaxHeader = 9
  MaxRequired = 17
  Word = 64
SPECIFICATION FairSpec
INVARIANT BufferTypeOK
INVARIANT RoomLeft
INVARIANT RequiredFits
INVARIANT MemoryBounded
PROPERTY HandlerCalled
\* The connection may be closed.
CHECK_DEADLOCK FALSE

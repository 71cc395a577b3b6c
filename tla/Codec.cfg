\* CrcLimit is small so that packets on both sides of it are small.
CONSTANTS
  EntityLists <- MCEntityLists
  PacketIDs = {1, 256, 65536}
  Commands = {0, 10}
  CrcLimit = 30
SPECIFICATION Spec
INVARIANT PacketBytesFit
INVARIANT SizeExact
 
INVARIANT TruncatedRejected
\* One packet is written and read.
CHECK_DEADLOCK FALSE

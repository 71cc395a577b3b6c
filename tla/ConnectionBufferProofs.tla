------------------------ MODULE ConnectionBufferProofs ------------------------
(* What TLAPS proves about the receive buffer, for every block size, header *)
(* size and request.                                                        *)
EXTENDS EchoServer, TLAPS

\* What keeps room in the buffer: an open connection's capacity exceeds what is
\* in it and what it waits for, and it waits for more than there is or for
\* nothing.
BufferInv ==
  /\ BufferTypeOK
  /\ open => size < capacity /\ required < capacity
  /\ open => required = 0 \/ size < required
  /\ capacity <= Most + 2 * Block

\* The new capacity exceeds what it is computed from, by at least one block and
\* less than two, and does not wrap.
LEMMA CapacityExceeds ==
  ASSUME NEW n \in Nat, n + 2 * Block < Word
  PROVE  /\ NewCapacity(n) \in 0..(Word - 1)
         /\ n + Block <= NewCapacity(n) /\ NewCapacity(n) < n + 2 * Block
<1>1. Block \in Nat \ {0} /\ Word \in Nat
  BY BufferAssumption
<1>2. (-n) % Block \in 0..(Block - 1)
  BY <1>1
<1> DEFINE c == n + ((-n) % Block) + Block
<1>3. c \in Nat /\ n + Block <= c /\ c < n + 2 * Block
  BY <1>1, <1>2
<1>4. c % Word = c
  <2> HIDE DEF c
  <2>1. c \in 0..(Word - 1) /\ Word > 0
    BY <1>1, <1>3
  <2> QED BY <1>1, <2>1
<1>5. NewCapacity(n) = c
  BY <1>4 DEF NewCapacity
<1> QED BY <1>1, <1>3, <1>5

LEMMA BufferInit == Init => BufferInv
BY BufferAssumption DEF Init, BufferInv, BufferTypeOK, Most

LEMMA WaitStep ==
  ASSUME BufferInv, NEW res \in 1..Room, Wait(res)
  PROVE  BufferInv'
<1>1. res \in Nat /\ size + res <= capacity
  BY DEF Room, BufferInv, BufferTypeOK
<1> QED BY <1>1, BufferAssumption DEF Wait, BufferInv, BufferTypeOK

LEMMA ServeStep ==
  ASSUME BufferInv, NEW res \in 1..Room, NEW pos \in 0..(size + res),
         NEW req \in 0..MaxRequired, Serve(res, pos, req)
  PROVE  BufferInv'
<1> DEFINE left == Rest(res, pos)
           needed == Needed(left, req)
<1>1. left \in Nat
  BY DEF Rest, Room, BufferInv, BufferTypeOK
<1>2. /\ open' = open /\ size' = left /\ required' = req /\ capacity' = NewCapacity(needed)
      /\ open /\ (req = 0 \/ req > left) /\ (req = 0 => left <= MaxHeader)
  BY DEF Serve
<1> HIDE DEF left
<1>3. needed \in Nat /\ left <= needed /\ req <= needed /\ needed <= Most
      /\ needed + 2 * Block < Word
  BY <1>1, <1>2, BufferAssumption DEF Most, Needed
<1> HIDE DEF needed
<1>4. /\ NewCapacity(needed) \in 0..(Word - 1)
      /\ needed + Block <= NewCapacity(needed) /\ NewCapacity(needed) < needed + 2 * Block
  BY <1>3, CapacityExceeds
<1>5. Block \in Nat \ {0} /\ Word \in Nat /\ MaxHeader \in Nat /\ MaxRequired \in Nat /\ Most \in Nat
  BY BufferAssumption DEF Most
<1>6. capacity' \in 0..(Word - 1) /\ capacity' <= Most + 2 * Block
  BY <1>2, <1>3, <1>4, <1>5
<1>7. size' < capacity' /\ required' < capacity'
  BY <1>1, <1>2, <1>3, <1>4, <1>5
<1>8. required' = 0 \/ size' < required'
  BY <1>1, <1>2
<1>9. size' \in 0..(Word - 1) /\ required' \in 0..MaxRequired
  BY <1>1, <1>2, <1>6, <1>7, <1>5
<1> QED BY <1>2, <1>6, <1>7, <1>8, <1>9 DEF BufferInv, BufferTypeOK, Most

LEMMA BufferStep == BufferInv /\ [Next]_vars => BufferInv'
<1> SUFFICES ASSUME BufferInv, [Next]_vars PROVE BufferInv'
  OBVIOUS
<1>1. ASSUME NEW res \in 1..Room, ServeAndClose(res) PROVE BufferInv'
  BY <1>1 DEF ServeAndClose, BufferInv, BufferTypeOK, Most
<1>2. CASE Left
  BY <1>2 DEF Left, BufferInv, BufferTypeOK, Most
<1>3. CASE UNCHANGED vars
  BY <1>3 DEF vars, BufferInv, BufferTypeOK, Most
<1> QED BY <1>1, <1>2, <1>3, WaitStep, ServeStep DEF Next, Received

THEOREM BufferCorrect == Spec => []BufferInv
<1> QED BY BufferInit, BufferStep, PTL DEF Spec

\* Sizes stay 32-bit numbers: neither the size nor the capacity wraps
\* (ConnectionProcessing's arithmetic on uint32_t).
THEOREM BufferTypeCorrect == Spec => []BufferTypeOK
<1>1. BufferInv => BufferTypeOK
  BY DEF BufferInv
<1> QED BY <1>1, BufferCorrect, PTL

\* recv always has room, so 0 from it always means that the client has left, and
\* the memcpy of ConnectionProcessing stays within the buffer.
THEOREM RoomCorrect == Spec => [](RoomLeft /\ RequiredFits)
<1>1. BufferInv => RoomLeft /\ RequiredFits
  BY DEF BufferInv, RoomLeft, RequiredFits
<1> QED BY <1>1, BufferCorrect, PTL

\* The memory of a connection is bounded by what it was asked to hold, not by
\* what it received.
THEOREM MemoryCorrect == Spec => []MemoryBounded
<1>1. BufferInv => MemoryBounded
  BY DEF BufferInv, MemoryBounded
<1> QED BY <1>1, BufferCorrect, PTL

\* Every step of the echo server is a step of the buffer, with an OnReadData that
\* takes nothing and asks for nothing.
LEMMA EchoStep == BufferInv /\ [EchoNext]_echoVars => [Next]_vars
<1> SUFFICES ASSUME BufferInv, [EchoNext]_echoVars PROVE [Next]_vars
  OBVIOUS
<1>1. ASSUME NEW res \in 1..Room, Echo(res) PROVE Next
  <2>1. CASE Serve(res, 0, 0)
    <3>1. 0 \in 0..(size + res) /\ 0 \in 0..MaxRequired
      BY BufferAssumption DEF Room, BufferInv, BufferTypeOK
    <3> QED BY <2>1, <3>1 DEF Next, Received
  <2>2. CASE ServeAndClose(res)
    BY <2>2 DEF Next, Received
  <2> QED BY <1>1, <2>1, <2>2 DEF Echo
<1>2. CASE Left /\ UNCHANGED <<received, echoed>>
  BY <1>2 DEF Next
<1>3. CASE UNCHANGED echoVars
  BY <1>3 DEF echoVars
<1> QED BY <1>1, <1>2, <1>3 DEF EchoNext

\* The echo server implements the buffer: what it never takes piles up, but no
\* further than the header limit, and the buffer's guarantees hold for it.
THEOREM EchoKeepsBuffer == EchoSpec => Spec /\ [](RoomLeft /\ MemoryBounded)
<1>1. EchoInit => Init
  BY DEF EchoInit
<1>2. BufferInv /\ [Next]_vars => BufferInv'
  BY BufferStep
<1>3. BufferInv => RoomLeft /\ MemoryBounded
  BY DEF BufferInv, RoomLeft, MemoryBounded
<1>4. EchoSpec => []BufferInv
  BY <1>1, <1>2, BufferInit, EchoStep, PTL DEF EchoSpec
<1>5. EchoSpec => Spec
  BY <1>1, <1>4, EchoStep, PTL DEF EchoSpec, Spec
<1> QED BY <1>3, <1>4, <1>5, PTL
=============================================================================

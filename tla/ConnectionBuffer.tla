--------------------------- MODULE ConnectionBuffer ---------------------------
(***************************************************************************)
(* The receive buffer of one connection: what ConnectionProcessing does    *)
(* with input.size, input.pos, input.capacity and required_size each time  *)
(* the event loop finds data for the connection (Receive, ReceiveAndClose  *)
(* and ReceiveEnd of TcpServer).  Buffers of different connections do not  *)
(* affect each other.  Bytes are counted, not stored.                      *)
(*                                                                         *)
(* input.pos is 0 between two calls, and only OnReadData moves it.  Of     *)
(* OnReadData it is assumed that it takes no more than is there, and that  *)
(* a required_size it leaves is more than what it left in the buffer.      *)
(***************************************************************************)
EXTENDS Integers

CONSTANTS
  Block,        \* RECV_BUFFER_SIZE
  MaxHeader,    \* max_header_size
  MaxRequired,  \* bound: the most OnReadData asks for
  Word          \* 2^32: sizes are uint32_t

ASSUME BufferAssumption ==
  /\ Block \in Nat \ {0} /\ MaxHeader \in Nat /\ MaxRequired \in Nat
  /\ Word \in Nat
  /\ MaxHeader + 2 * Block < Word /\ MaxRequired + 2 * Block < Word

VARIABLES
  open,      \* the connection is in its port's map
  size,      \* input.size
  capacity,  \* input.capacity
  required   \* required_size

vars == <<open, size, capacity, required>>

Most == IF MaxHeader < MaxRequired THEN MaxRequired ELSE MaxHeader

BufferTypeOK ==
  /\ open \in BOOLEAN
  /\ size \in 0..(Word - 1)
  /\ capacity \in 0..(Word - 1)
  /\ required \in 0..MaxRequired

\* A connection as OnEvent makes it.
Init ==
  /\ open = TRUE
  /\ size = 0
  /\ capacity = Block
  /\ required = 0

-----------------------------------------------------------------------------
NewCapacity_m1(n) == (n + ((-n) % Block)) % Word

\* ceil(n / Block) * Block + Block.  The code computes it in float, which for
\* n < 2^32 can be 128 less: far less than the Block that is added.
NewCapacity(n) == (n + ((-n) % Block) + Block) % Word

Room == capacity - size

\* recv returns res bytes, which do not make up what OnReadData asked for.
Wait(res) ==
  /\ open /\ required > size + res
  /\ size' = size + res
  /\ UNCHANGED <<open, capacity, required>>

Rest_m1(res, pos) == size - pos

\* What is left when OnReadData has taken pos bytes.
Rest(res, pos) == size + res - pos

Needed_m1(left, req) == IF req = 0 THEN capacity ELSE req

Needed_m2(left, req) == left

\* What the buffer must hold for the next call.
Needed(left, req) == IF req = 0 THEN left ELSE req

\* OnReadData takes pos bytes and asks for req, or for nothing.  The rest goes
\* to the front of the buffer, or to the front of a new one of another capacity.
Serve(res, pos, req) ==
  LET left == Rest(res, pos)
  IN /\ open /\ required <= size + res
     /\ req = 0 \/ req > left
     /\ req = 0 => left <= MaxHeader
     /\ size' = left
     /\ required' = req
     /\ capacity' = NewCapacity(Needed(left, req))
     /\ UNCHANGED open

\* OnReadData sets close_connection, or it leaves more than max_header_size and
\* asks for nothing.
ServeAndClose(res) ==
  /\ open /\ required <= size + res
  /\ open' = FALSE
  /\ UNCHANGED <<size, capacity, required>>

Received ==
  \E res \in 1..Room :
    \/ Wait(res)
    \/ \E pos \in 0..(size + res), req \in 0..MaxRequired : Serve(res, pos, req)
    \/ ServeAndClose(res)

\* recv returns 0, for a client that has left or when it is asked for 0 bytes, or -1.
Left ==
  /\ open
  /\ open' = FALSE
  /\ UNCHANGED <<size, capacity, required>>

Next == Received \/ Left

Spec == Init /\ [][Next]_vars

\* A client that goes on sending: what OnReadData needs to be called at all.
FairSpec == Spec /\ WF_vars(Received)

-----------------------------------------------------------------------------
\* There is always room for more, so recv is never asked for 0 bytes, the result
\* of which ConnectionProcessing would take for the end of the session; and what
\* is left over was copied into a buffer that holds it.
RoomLeft == open => size < capacity

\* What OnReadData asked for fits into the buffer, with room to spare.
RequiredFits == open => required < capacity

\* A connection holds no more memory than its largest request or header needs,
\* however much it received (the capacity shrinks again).
MemoryBounded == capacity <= Most + 2 * Block

Served == \E res \in 1..Room, req \in 0..MaxRequired :
            \E pos \in 0..(size + res) : Serve(res, pos, req)

\* As long as the client goes on sending, OnReadData is called again and again,
\* whatever it asks for: waiting for required_size bytes comes to an end.
HandlerCalled == <>[](~open) \/ []<><<Served>>_vars
=============================================================================

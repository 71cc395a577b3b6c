------------------------------ MODULE ExpiryScan ------------------------------
(***************************************************************************)
(* The idle-connection sweep of TCPServer: EraseExpiredConnections, the    *)
(* iterator arithmetic it does on the two std::maps, and the operations    *)
(* of the event loop that change the connection tables between two sweeps. *)
(*                                                                         *)
(* The sweep looks at no more than CHECK_EXPIRED_STEP connections per call *)
(* and leaves the last descriptor it looked at in last_checked_fd, where   *)
(* the next call resumes.  A resume that does not find that descriptor     *)
(* increments an end() iterator; the module gives that undefined step the  *)
(* outcomes libstdc++ produces (see PastTheEnd and ResumeHangs).           *)
(*                                                                         *)
(* Time is kept as an age: idle[fd] is now_time - last_time, counted up to *)
(* IdleCap, one more than the longest timeout; beyond it all ages compare  *)
(* alike.  So no clock has to be bounded and runs may be infinite.         *)
(***************************************************************************)
EXTENDS Integers, FiniteSets

CONSTANTS
  Ports,       \* keys of server_ports: the descriptors of listening sockets
  Fds,         \* descriptors a connection can have
  CheckStep,   \* CHECK_EXPIRED_STEP
  Timeout,     \* connect_timeout of each port
  IdleCap,     \* ages are counted up to here
  MaxElapsed   \* bound: seconds that can pass between two OnTimer calls

\* Descriptors 0..2 are taken when the server opens its sockets, so 0 can
\* stand for "no descriptor", as it does in last_checked_fd.
ASSUME ScanAssumption ==
  /\ Ports \subseteq Nat \ {0} /\ IsFiniteSet(Ports) /\ Ports # {}
  /\ Fds \subseteq Nat \ {0} /\ IsFiniteSet(Fds)
  /\ CheckStep \in Nat /\ CheckStep > 2
  /\ Timeout \in [Ports -> Nat]
  /\ IdleCap \in Nat /\ \A p \in Ports : Timeout[p] < IdleCap
  /\ MaxElapsed \in Nat \ {0}

VARIABLES
  conns,    \* [Ports -> SUBSET Fds]: the keys of each port's connections map
  idle,     \* [Fds -> Nat]: age of the connection, 0 for a free descriptor
  cursor,   \* last_checked_fd
  phase,    \* "off": outside the sweep, "scan": inside it, "stuck": it hangs
  it,       \* it_srv: a port, or EndPort
  counter   \* connections looked at by this call

scanVars == <<conns, idle, cursor, phase, it, counter>>

NoFd == 0
EndPort == 0

Least(S) == CHOOSE x \in S : \A y \in S : x <= y
Greatest(S) == CHOOSE x \in S : \A y \in S : y <= x
AtMost(a, b) == IF a <= b THEN a ELSE b
AtLeast(a, b) == IF a <= b THEN b ELSE a

PortAfter_m1(p) == p + 1

\* ++it_srv for an iterator that is not end().
PortAfter(p) ==
  LET later == {q \in Ports : q > p}
  IN IF later = {} THEN EndPort ELSE Least(later)

\* it_cnt for ++end() on a connections map that is not empty: libstdc++ steps
\* from the header to the rightmost node and from there to its leftmost
\* descendant.  The rightmost node has at most one, a red leaf on its left, so
\* the result is the greatest key or, if the tree has that leaf, the one before.
PastTheEnd(D) ==
  {Greatest(D)} \cup
  (IF Cardinality(D) > 1 THEN {Greatest(D \ {Greatest(D)})} ELSE {})

-----------------------------------------------------------------------------
ScanTypeOK ==
  /\ conns \in [Ports -> SUBSET Fds]
  /\ idle \in [Fds -> 0..IdleCap]
  /\ cursor \in Fds \cup {NoFd}
  /\ phase \in {"off", "scan", "stuck"}
  /\ it \in Ports \cup {EndPort}
  /\ counter \in Nat

ScanInit ==
  /\ conns = [p \in Ports |-> {}]
  /\ idle = [fd \in Fds |-> 0]
  /\ cursor = NoFd
  /\ phase = "off"
  /\ it = EndPort
  /\ counter = 0

Held == UNION {conns[p] : p \in Ports}

-----------------------------------------------------------------------------
(* The operations of the event loop on the tables, between two sweeps.     *)

\* OnEvent on a listening socket: a new connection under a free descriptor.
Insert(p, fd) ==
  /\ phase = "off"
  /\ fd \notin Held
  /\ conns' = [conns EXCEPT ![p] = @ \cup {fd}]
  /\ idle' = [idle EXCEPT ![fd] = 0]
  /\ UNCHANGED <<cursor, phase, it, counter>>

\* ConnectionProcessing: data came, last_time = now_time.
Touch(p, fd) ==
  /\ phase = "off"
  /\ fd \in conns[p]
  /\ idle' = [idle EXCEPT ![fd] = 0]
  /\ UNCHANGED <<conns, cursor, phase, it, counter>>

\* Disconnect: the connection is erased from its map.
Remove(p, fd) ==
  /\ phase = "off"
  /\ fd \in conns[p]
  /\ conns' = [conns EXCEPT ![p] = @ \ {fd}]
  /\ idle' = [idle EXCEPT ![fd] = 0]
  /\ UNCHANGED <<cursor, phase, it, counter>>

\* OnTimer, `elapsed` seconds of time() after the last call.  current_time
\* always equals the previous now_time, so the call sweeps when now_time moved
\* or when the last sweep left a position to resume from.
ClockTick(elapsed) ==
  /\ phase = "off"
  /\ idle' = [fd \in Fds |-> IF fd \in Held THEN AtMost(idle[fd] + elapsed, IdleCap)
                                            ELSE idle[fd]]
  /\ IF elapsed > 0 \/ cursor # NoFd
       THEN phase' = "scan" /\ it' = Least(Ports)
       ELSE UNCHANGED <<phase, it>>
  /\ UNCHANGED <<conns, cursor, counter>>

-----------------------------------------------------------------------------
(* EraseExpiredConnections, one step per round of its outer loop.          *)

\* cd->last_time + cd->timeout < now_time
Expired(p) == {fd \in conns[p] : idle[fd] > Timeout[p]}

Quota_m1 == AtLeast(1, CheckStep - counter + 1)

\* How many connections the inner loop visits before ++counter reaches
\* CheckStep; the test comes after the visit, so it is never less than one.
Quota == AtLeast(1, CheckStep - counter)

\* The connections the inner loop visits when it starts with `rest` ahead.
Visited(rest) ==
  {fd \in rest : Cardinality({g \in rest : g < fd}) < Quota}

\* The inner loop over `rest` on port p, the erasures that follow it, and the
\* step of it_srv to `next`.
Round(p, rest, next) ==
  LET seen == Visited(rest)
      gone == seen \cap Expired(p)
  IN /\ conns' = [conns EXCEPT ![p] = @ \ gone]
     /\ idle' = [fd \in Fds |-> IF fd \in gone THEN 0 ELSE idle[fd]]
     /\ cursor' = IF Cardinality(seen) = Quota THEN Greatest(seen) ELSE NoFd
     /\ counter' = counter + Cardinality(seen)
     /\ it' = next
     /\ UNCHANGED phase

InScan == phase = "scan" /\ it \in Ports

\* last_checked_fd is 0: start at begin().
FromBegin ==
  /\ InScan
  /\ cursor = NoFd
  /\ Round(it, conns[it], PortAfter(it))

\* last_checked_fd is found: start after it.
After == {fd \in conns[it] : fd > cursor}

Resume ==
  /\ InScan
  /\ cursor \in conns[it]
  /\ Round(it, After, PortAfter(it))

\* last_checked_fd is not in this port's map.  The loop looking for it runs
\* it_srv to the end without ever changing sp, and leaves it_cnt past the end
\* of sp's map; ++it_srv then goes from end() to the last port.  (Listening
\* sockets get growing descriptors, so the last node has no left child.)
PositionLost == InScan /\ conns[it] # {} /\ cursor \notin conns[it] \cup {NoFd}

From(start) == {fd \in conns[it] : fd >= start}

ResumeLost ==
  /\ PositionLost
  /\ \E start \in PastTheEnd(conns[it]) : Round(it, From(start), Greatest(Ports))

\* The same with an empty map: ++end() follows the header's pointers to itself
\* for ever.
ResumeHangs ==
  /\ InScan
  /\ cursor # NoFd
  /\ conns[it] = {}
  /\ phase' = "stuck"
  /\ UNCHANGED <<conns, idle, cursor, it, counter>>

Finish_m1 ==
  /\ phase = "scan"
  /\ it = EndPort
  /\ cursor' = NoFd
  /\ counter' = 0
  /\ phase' = "off"
  /\ UNCHANGED <<conns, idle, it>>

Finish_m2 ==
  /\ phase = "scan"
  /\ it = EndPort
  /\ cursor' = IF counter # CheckStep THEN NoFd ELSE cursor
  /\ counter' = 0
  /\ it' = Least(Ports)
  /\ UNCHANGED <<conns, idle, phase>>

\* The end of the outer loop.  OnTimer calls OnSecTimer after it.
Finish ==
  /\ phase = "scan"
  /\ it = EndPort
  /\ cursor' = IF counter # CheckStep THEN NoFd ELSE cursor
  /\ counter' = 0
  /\ phase' = "off"
  /\ UNCHANGED <<conns, idle, it>>

EraseExpiredConnections == FromBegin \/ Resume \/ ResumeLost \/ ResumeHangs \/ Finish

Serve == \E p \in Ports, fd \in Fds : Insert(p, fd) \/ Touch(p, fd) \/ Remove(p, fd)

ScanNext ==
  \/ Serve
  \/ \E elapsed \in 0..MaxElapsed : ClockTick(elapsed)
  \/ EraseExpiredConnections

ScanSpec == ScanInit /\ [][ScanNext]_scanVars

(* The thread runs, and the wall clock moves on: OnTimer is called again and *)
(* again with a later second.  Nothing is assumed of the clients.            *)
ScanFairness ==
  /\ WF_scanVars(EraseExpiredConnections)
  /\ SF_scanVars(\E elapsed \in 1..MaxElapsed : ClockTick(elapsed))

ScanFairSpec == ScanSpec /\ ScanFairness

-----------------------------------------------------------------------------
\* The port's connection has been silent for longer than its timeout.
Overdue(p, fd) == fd \in conns[p] /\ idle[fd] > Timeout[p]

\* With one listening port a call looks at no more than CHECK_EXPIRED_STEP
\* connections, also when it lost its position and went over the map twice.
BoundedWork == counter <= CheckStep

\* The rounds of a sweep come to an end: it_srv, set back to the last port by
\* a lost resume, still reaches end(), unless the sweep hangs on ++end().
SweepEnds == (phase = "scan") ~> (phase # "scan")

\* Every sweep returns to OnTimer, which then calls OnSecTimer.
SweepReturns == (phase = "scan") ~> (phase = "off")

\* From some time on only sweeps change the tables: nobody connects or leaves.
Calm == <>[][UNCHANGED conns \/ phase = "scan"]_scanVars

OverdueErased ==
  \A p \in Ports, fd \in Fds : Overdue(p, fd) ~> (~Overdue(p, fd) \/ phase = "stuck")

\* When clients stop connecting and leaving, a connection silent for longer
\* than its timeout is erased in the end, however many others are active
\* (the position kept in last_checked_fd makes successive sweeps cover all).
OverdueErasedIfCalm == Calm => OverdueErased
=============================================================================

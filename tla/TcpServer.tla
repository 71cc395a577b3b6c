------------------------------ MODULE TcpServer ------------------------------
(***************************************************************************)
(* The event loop of the engine: the epoll thread of Multiplexer, the      *)
(* handlers of TCPServer it calls, the kernel's descriptor table below     *)
(* them and the clients on the other side.  Built without TLS_MODE and     *)
(* DATABASE_CLIENT, which are CMake's defaults.                            *)
(*                                                                         *)
(* The thread takes a batch of events, may run the timer (and its sweep of *)
(* silent connections, module ExpiryScan), and then handles the batch one  *)
(* event at a time.  An event names a descriptor, and a descriptor closed  *)
(* by the sweep or by a handler can be given to another session before the *)
(* events fetched for the old one are handled.  The field "of" of an event *)
(* is a history variable: the session the kernel raised it for, which the  *)
(* code does not know.                                                     *)
(***************************************************************************)
EXTENDS ExpiryScan

CONSTANTS
  Sessions,    \* the TCP sessions clients open
  NoSession,
  Dest,        \* the listening socket each session is opened to
  MaxEvents,   \* MAX_EPOLL_EVENTS
  MaxUnread    \* bound: receive calls' worth of data waiting in a socket

VARIABLES
  stage,    \* how far each session got
  link,     \* what its client did to it: "up", "shut" (FIN sent), "reset"
  unread,   \* receive calls' worth of its data not received yet
  sock,     \* the kernel's descriptor table: a session, or NoSession if free
  pc,       \* where the thread is
  batch,    \* the events of this round not handled yet
  cur,      \* the event being handled, in "recv", "send" and "notify"
  told      \* what the user's callbacks were told of each session

clientVars == <<link, unread>>
vars == <<scanVars, clientVars, stage, sock, pc, batch, cur, told>>

\* Descriptors of listening sockets and of connections come from one table.
ASSUME TcpAssumption ==
  /\ Fds \cap Ports = {}
  /\ IsFiniteSet(Sessions) /\ NoSession \notin Sessions
  /\ Dest \in [Sessions -> Ports]
  /\ MaxEvents \in Nat \ {0} /\ MaxUnread \in Nat \ {0}

\* "served": accepted, its connection is in the table.  "closed": by
\* Disconnect.  "expired": by the sweep.  "refused": AddFD failed.
Stages == {"new", "queued", "served", "closed", "expired", "refused"}

Events == [fd : Ports \cup Fds \cup {0}, hup : BOOLEAN, of : Sessions \cup {NoSession}]
NoEvent == [fd |-> 0, hup |-> FALSE, of |-> NoSession]

TypeOK ==
  /\ ScanTypeOK
  /\ stage \in [Sessions -> Stages]
  /\ link \in [Sessions -> {"up", "shut", "reset"}]
  /\ unread \in [Sessions -> 0..MaxUnread]
  /\ sock \in [Fds -> Sessions \cup {NoSession}]
  /\ pc \in {"wait", "timer", "dispatch", "recv", "send", "notify"}
  /\ batch \subseteq Events
  /\ cur \in Events
  /\ told \in [Sessions -> {"nothing", "connect", "disconnect"}]

Init ==
  /\ ScanInit
  /\ stage = [s \in Sessions |-> "new"]
  /\ link = [s \in Sessions |-> "up"]
  /\ unread = [s \in Sessions |-> 0]
  /\ sock = [fd \in Fds |-> NoSession]
  /\ pc = "wait"
  /\ batch = {}
  /\ cur = NoEvent
  /\ told = [s \in Sessions |-> "nothing"]

-----------------------------------------------------------------------------
(* Clients, as far as the kernel of the server sees them.                  *)

Waiting(p) == {s \in Sessions : stage[s] = "queued" /\ Dest[s] = p}
Established(s) == stage[s] \in {"queued", "served"}

Connect(s) ==
  /\ stage[s] = "new"
  /\ stage' = [stage EXCEPT ![s] = "queued"]
  /\ UNCHANGED <<scanVars, clientVars, sock, pc, batch, cur, told>>

Send(s) ==
  /\ Established(s) /\ link[s] = "up" /\ unread[s] < MaxUnread
  /\ unread' = [unread EXCEPT ![s] = @ + 1]
  /\ UNCHANGED <<scanVars, link, stage, sock, pc, batch, cur, told>>

Shut(s) ==
  /\ Established(s) /\ link[s] = "up"
  /\ link' = [link EXCEPT ![s] = "shut"]
  /\ UNCHANGED <<scanVars, unread, stage, sock, pc, batch, cur, told>>

Reset(s) ==
  /\ Established(s) /\ link[s] # "reset"
  /\ link' = [link EXCEPT ![s] = "reset"]
  /\ UNCHANGED <<scanVars, unread, stage, sock, pc, batch, cur, told>>

ClientStep(s) == Connect(s) \/ Send(s) \/ Shut(s) \/ Reset(s)

Client == \E s \in Sessions : ClientStep(s)

-----------------------------------------------------------------------------
(* MainThread: epoll_wait, the timer, the loop over the batch.             *)

\* recv would not block.
Readable(s) == unread[s] > 0 \/ link[s] # "up"

Ready_m1 ==
  {[fd |-> p, hup |-> FALSE, of |-> NoSession] : p \in {q \in Ports : Waiting(q) # {}}}
  \cup
  {[fd |-> fd, hup |-> link[sock[fd]] = "reset", of |-> sock[fd]] :
     fd \in {g \in Fds : sock[g] # NoSession /\
                         (unread[sock[g]] > 0 \/ link[sock[g]] = "reset")}}

\* What epoll has to report.  Sockets are registered for EPOLLIN | EPOLLHUP: a
\* FIN alone is an EPOLLIN, and only a reset raises EPOLLHUP and EPOLLERR.
Ready ==
  {[fd |-> p, hup |-> FALSE, of |-> NoSession] : p \in {q \in Ports : Waiting(q) # {}}}
  \cup
  {[fd |-> fd, hup |-> link[sock[fd]] = "reset", of |-> sock[fd]] :
     fd \in {g \in Fds : sock[g] # NoSession /\ Readable(sock[g])}}

\* epoll_wait returns as many events as fit.  100 ms may have gone by since the
\* last OnTimer; they have when nothing was ready.
EpollWait ==
  /\ pc = "wait"
  /\ batch' \in SUBSET Ready
  /\ Cardinality(batch') = AtMost(Cardinality(Ready), MaxEvents)
  /\ pc' \in (IF batch' = {} THEN {"timer"} ELSE {"timer", "dispatch"})
  /\ UNCHANGED <<scanVars, clientVars, stage, sock, cur, told>>

OnTimer(elapsed) ==
  /\ pc = "timer"
  /\ ClockTick(elapsed)
  /\ pc' = "dispatch"
  /\ UNCHANGED <<clientVars, stage, sock, batch, cur, told>>

\* A step of the sweep OnTimer started.  Erasing a connection closes its
\* socket; OnDisconnect is not called.
Sweep ==
  /\ pc = "dispatch"
  /\ EraseExpiredConnections
  /\ LET lost == Held \ Held'
     IN /\ sock' = [fd \in Fds |-> IF fd \in lost THEN NoSession ELSE sock[fd]]
        /\ stage' = [s \in Sessions |->
                       IF \E fd \in lost : sock[fd] = s THEN "expired" ELSE stage[s]]
  /\ UNCHANGED <<clientVars, pc, batch, cur, told>>

Dispatching == pc = "dispatch" /\ phase = "off"

Take_m1(e) ==
  /\ Dispatching /\ e \in batch
  /\ batch' = (batch \ {e}) \cup (IF e.hup THEN {[e EXCEPT !.hup = FALSE]} ELSE {})

Take_m2(e) == Dispatching /\ e \in batch /\ UNCHANGED batch

\* The loop goes on to the next event whatever OnEvent or OnDisconnect did.
Take(e) ==
  /\ Dispatching /\ e \in batch
  /\ batch' = batch \ {e}

BackToLoop_m1 == UNCHANGED <<pc, cur>>

\* A handler returns to the loop over the batch.
BackToLoop == pc' = "dispatch" /\ cur' = NoEvent

NextRound ==
  /\ Dispatching
  /\ batch = {}
  /\ pc' = "wait"
  /\ UNCHANGED <<scanVars, clientVars, stage, sock, batch, cur, told>>

-----------------------------------------------------------------------------
(* OnEvent on a listening socket.                                          *)

Free == {fd \in Fds : sock[fd] = NoSession}

\* The new socket gets the lowest free descriptor.
Accept(e) ==
  /\ Take(e) /\ ~e.hup
  /\ e.fd \in Ports
  /\ Free # {}
  /\ \E s \in Waiting(e.fd) :
       LET fd == Least(Free)
       IN /\ Insert(e.fd, fd)
          /\ sock' = [sock EXCEPT ![fd] = s]
          /\ stage' = [stage EXCEPT ![s] = "served"]
          /\ told' = [told EXCEPT ![s] = "connect"]
  /\ UNCHANGED <<clientVars, pc, cur>>

\* AddFD fails after OnConnect was called; the connection is destroyed.
Refuse(e) ==
  /\ Take(e) /\ ~e.hup
  /\ e.fd \in Ports
  /\ Free # {}
  /\ \E s \in Waiting(e.fd) :
       /\ stage' = [stage EXCEPT ![s] = "refused"]
       /\ told' = [told EXCEPT ![s] = "connect"]
  /\ UNCHANGED <<scanVars, clientVars, sock, pc, cur>>

\* accept returns -1, and the client stays in the queue: the process, whatever
\* else it has open, or the system has no descriptor left, or no memory.
AcceptFails(e) ==
  /\ Take(e) /\ ~e.hup
  /\ e.fd \in Ports
  /\ UNCHANGED <<scanVars, clientVars, stage, sock, pc, cur, told>>

-----------------------------------------------------------------------------
(* Events of connections.                                                  *)

Disconnect_m1(fd) ==
  /\ \E p \in Ports : Remove(p, fd)
  /\ stage' = [stage EXCEPT ![sock[fd]] = "closed"]
  /\ cur' = [fd |-> fd, hup |-> FALSE, of |-> sock[fd]]
  /\ pc' = "notify"
  /\ UNCHANGED sock

\* Disconnect: erasing the connection destroys it and closes its socket; then
\* OnDisconnect is called (Notify) with the context it was found with.
Disconnect(fd) ==
  /\ \E p \in Ports : Remove(p, fd)
  /\ sock' = [sock EXCEPT ![fd] = NoSession]
  /\ stage' = [stage EXCEPT ![sock[fd]] = "closed"]
  /\ cur' = [fd |-> fd, hup |-> FALSE, of |-> sock[fd]]
  /\ pc' = "notify"

\* OnDisconnect(fd), called for EPOLLHUP and EPOLLERR.
HangUp(e) ==
  /\ Take(e) /\ e.hup
  /\ e.fd \in Held
  /\ Disconnect(e.fd)
  /\ UNCHANGED <<clientVars, told>>

Ignore_m1(e) ==
  /\ Dispatching /\ e \in batch
  /\ e.fd \notin Ports \cup Held
  /\ UNCHANGED vars

\* getContext finds no connection under the descriptor.
Ignore(e) ==
  /\ Take(e)
  /\ e.fd \notin Ports \cup Held
  /\ UNCHANGED <<scanVars, clientVars, stage, sock, pc, cur, told>>

\* OnEvent on a connection: ConnectionProcessing calls recv.
Input(e) ==
  /\ Take(e) /\ ~e.hup
  /\ e.fd \in Held
  /\ cur' = e
  /\ pc' = "recv"
  /\ UNCHANGED <<scanVars, clientVars, stage, sock, told>>

RecvData_m1 ==
  /\ pc = "recv" /\ Readable(sock[cur.fd])
  /\ unread' = [unread EXCEPT ![sock[cur.fd]] = @ - 1]

\* recv returns data.
RecvData ==
  /\ pc = "recv" /\ unread[sock[cur.fd]] > 0
  /\ unread' = [unread EXCEPT ![sock[cur.fd]] = @ - 1]

\* The connection is kept, with a new last_time, whether or not OnReadData was
\* called on what has come.
Receive ==
  /\ RecvData
  /\ \E p \in Ports : Touch(p, cur.fd)
  /\ BackToLoop
  /\ UNCHANGED <<link, stage, sock, batch, told>>

\* OnReadData answers: SendData calls send, on a blocking socket.
ReceiveAndAnswer ==
  /\ RecvData
  /\ \E p \in Ports : Touch(p, cur.fd)
  /\ pc' = "send"
  /\ UNCHANGED <<link, stage, sock, batch, cur, told>>

\* OnReadData sets close_connection or leaves more than max_header_size unread.
ReceiveAndClose ==
  /\ RecvData
  /\ Disconnect(cur.fd)
  /\ UNCHANGED <<link, batch, told>>

\* recv returns 0 or -1: the client is gone and all its data was read.  (There is
\* room in the buffer: ConnectionBuffer.)
ReceiveEnd ==
  /\ pc = "recv"
  /\ unread[sock[cur.fd]] = 0 /\ link[sock[cur.fd]] # "up"
  /\ Disconnect(cur.fd)
  /\ UNCHANGED <<clientVars, batch, told>>

\* send returns, and OnReadData keeps the connection or closes it.
Answered ==
  /\ pc = "send"
  /\ \/ BackToLoop /\ UNCHANGED <<scanVars, stage, sock>>
     \/ Disconnect(cur.fd)
  /\ UNCHANGED <<clientVars, batch, told>>

\* send fails because the client is gone.
SendFails == Answered /\ link[sock[cur.fd]] = "reset"

Notify_m1 ==
  /\ pc = "notify"
  /\ BackToLoop
  /\ UNCHANGED <<scanVars, clientVars, stage, sock, batch, told>>

\* OnDisconnect(cx) of the user.
Notify ==
  /\ pc = "notify"
  /\ told' = [told EXCEPT ![cur.of] = "disconnect"]
  /\ BackToLoop
  /\ UNCHANGED <<scanVars, clientVars, stage, sock, batch>>

-----------------------------------------------------------------------------
Handle ==
  \E e \in batch :
    \/ Accept(e) \/ Refuse(e) \/ AcceptFails(e)
    \/ HangUp(e) \/ Ignore(e) \/ Input(e)

Thread ==
  \/ EpollWait
  \/ \E elapsed \in 0..MaxElapsed : OnTimer(elapsed)
  \/ Sweep
  \/ NextRound
  \/ Handle
  \/ Receive \/ ReceiveAndAnswer \/ ReceiveAndClose \/ ReceiveEnd
  \/ SendFails
  \/ Notify

\* Otherwise send returns when the client has read enough.
Next == Client \/ Thread \/ Answered

Spec == Init /\ [][Next]_vars

-----------------------------------------------------------------------------
\* The tables agree with the kernel: the maps of the ports hold exactly the
\* open sockets, each on the port its session was accepted on, and no session
\* has two.  So getContext finds the right connection or none, and no socket
\* is leaked (OnEvent, Disconnect, EraseExpiredConnections).
TablesMatchKernel ==
  /\ \A p \in Ports : \A fd \in conns[p] : sock[fd] # NoSession /\ Dest[sock[fd]] = p
  /\ \A fd \in Fds : sock[fd] # NoSession => fd \in conns[Dest[sock[fd]]]
  /\ \A fd, g \in Fds : sock[fd] = sock[g] /\ sock[fd] # NoSession => fd = g
  /\ \A s \in Sessions : stage[s] = "served" <=> \E fd \in Fds : sock[fd] = s

\* The thread is blocked in recv (the sockets are blocking ones).
RecvBlocked == pc = "recv" /\ ~Readable(sock[cur.fd])

\* An event that has not been handled: still in the batch, or taken from it
\* with its recv not done.
Pending == batch \cup (IF pc = "recv" THEN {cur} ELSE {})

\* An event meets another session than the one it was raised for, or none,
\* only when the sweep closed that one after epoll_wait: an event handled
\* earlier in the batch never does this to a later one.
StaleOnlyByExpiry ==
  \A e \in Pending : e.fd \in Fds => sock[e.fd] = e.of \/ stage[e.of] = "expired"

\* The thread blocks in recv only on behalf of a session that timed out between
\* epoll_wait and the handling of its event.
RecvBlocksOnlyAfterExpiry == RecvBlocked => stage[cur.of] = "expired"

\* accept never blocks: every listening socket in the batch has a connection
\* waiting, also after the events before it.
AcceptNeverBlocks == \A e \in batch : e.fd \in Ports => Waiting(e.fd) # {}

\* A session whose client is there and has sent nothing is disconnected only
\* by the event of a session that timed out, left on the same descriptor, or by
\* OnReadData itself after its answer.
LiveSessionKept ==
  [][\A s \in Sessions :
       stage[s] = "served" /\ stage'[s] = "closed" /\ link[s] = "up" /\ unread[s] = 0
       /\ pc # "send"
       => \E e \in batch : e.fd \in Fds /\ sock[e.fd] = s /\ stage[e.of] = "expired"]_vars

\* The callbacks keep the contract of SessionContract, which leaves the sessions
\* of the sweep and those AddFD failed for unreported (see ClosedReported).
Life(s) ==
  IF told[s] = "nothing" THEN "outside"
  ELSE IF told[s] = "disconnect" THEN "reported"
  ELSE CASE stage[s] = "served" -> "open"
         [] stage[s] = "closed" -> "closing"
         [] OTHER -> "dropped"

Contract == INSTANCE SessionContract WITH life <- [s \in Sessions |-> Life(s)]
ContractKept == Contract!Spec

-----------------------------------------------------------------------------
(* What the documentation says, and the code does not do.                  *)

\* "One thread, non-blocking sockets" (README.md:15).
ThreadNeverBlocks == ~RecvBlocked

\* OnDisconnect is called "After TCP session is closed" (tcp_server.h:53): when
\* the thread is back in epoll_wait, every session that was served is open still
\* or was reported. Those AddFD failed for were never served; they are not
\* reported either.
ClosedReported ==
  pc = "wait" =>
    \A s \in Sessions : stage[s] \in {"closed", "expired"} => told[s] = "disconnect"
=============================================================================

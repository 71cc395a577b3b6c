------------------------------- MODULE Lifecycle -------------------------------
(***************************************************************************)
(* The server as its owner, the main thread of the process, uses it: Open, *)
(* Start, Close, and Start again on the same object.                       *)
(*                                                                         *)
(* Close cancels the epoll thread of TcpServer and joins it.  The thread   *)
(* dies at the next cancellation point it comes to, a blocking system call *)
(* or whatever a callback of the user calls, and the tables stay as it     *)
(* leaves them for the next Start.  close() is a cancellation point too,   *)
(* and all calls of it are made in a destructor: a cancellation delivered  *)
(* there unwinds into a noexcept function, which ends the process.         *)
(***************************************************************************)
EXTENDS TcpServer

VARIABLES
  owner,   \* what the owner does, see Phases
  opened   \* the listening sockets AddListenSocket has added

lifeVars == <<vars, owner, opened>>

\* "closing": Close has called pthread_cancel.  "joining": the thread has ended.
\* "over": so has the process.
Phases == {"opening", "stopped", "running", "closing", "joining", "over"}

LifeTypeOK ==
  /\ TypeOK
  /\ owner \in Phases
  /\ opened \subseteq Ports

LifeInit ==
  /\ Init
  /\ owner = "opening"
  /\ opened = {}

-----------------------------------------------------------------------------
\* Open: the next listening socket, or a failure, upon which the process gives up.
AddListenSocket ==
  /\ owner = "opening"
  /\ \E p \in Ports \ opened : p = Least(Ports \ opened) /\ opened' = opened \cup {p}
  /\ owner' = IF opened' = Ports THEN "stopped" ELSE "opening"
  /\ UNCHANGED vars

OpenFails ==
  /\ owner = "opening"
  /\ owner' = "over"
  /\ UNCHANGED <<vars, opened>>

\* Start creates the thread, in a process that goes on.
Start ==
  /\ owner = "stopped"
  /\ owner' = "running"
  /\ UNCHANGED <<vars, opened>>

\* Close, up to pthread_join.
Close ==
  /\ owner = "running"
  /\ owner' = "closing"
  /\ UNCHANGED <<vars, opened>>

Join_m1 ==
  /\ owner = "joining"
  /\ owner' = "stopped"
  /\ UNCHANGED <<vars, opened>>

\* pthread_join returns.  The thread's stack is gone, and what epoll_wait gave it.
Join ==
  /\ owner = "joining"
  /\ owner' = "stopped"
  /\ pc' = "wait" /\ batch' = {} /\ cur' = NoEvent
  /\ UNCHANGED <<scanVars, clientVars, stage, sock, told, opened>>

-----------------------------------------------------------------------------
(* The thread, with and without a cancellation pending.                    *)

Alive == owner \in {"running", "closing"}

\* A connection is destroyed, and its socket closed.
SocketClosed ==
  \E s \in Sessions :
    stage'[s] # stage[s] /\ stage'[s] \in {"closed", "expired", "refused"}

Step ==
  /\ owner = "running"
  /\ Thread
  /\ UNCHANGED <<owner, opened>>

\* A thread that is to be cancelled handles the rest of its events as long as
\* it comes to no cancellation point.
StepOn ==
  /\ owner = "closing" /\ pc # "wait"
  /\ Thread
  /\ owner' = IF SocketClosed THEN "over" ELSE "closing"
  /\ UNCHANGED opened

\* send raises SIGPIPE when the client had closed both ways.
BrokenPipe ==
  /\ Alive
  /\ SendFails
  /\ owner' = "over"
  /\ UNCHANGED opened

AtSystemCall_m1 ==
  \/ pc \in {"wait", "recv"}
  \/ Dispatching /\ \E e \in batch : ~e.hup /\ e.fd \in Ports

\* epoll_wait, accept, recv and send.
AtSystemCall ==
  \/ pc \in {"wait", "recv", "send"}
  \/ Dispatching /\ \E e \in batch : ~e.hup /\ e.fd \in Ports

CancelledInSystemCall ==
  /\ owner = "closing"
  /\ AtSystemCall
  /\ owner' = "joining"
  /\ UNCHANGED <<vars, opened>>

\* OnConnect, whose connection is destroyed in unwinding, OnReadData,
\* OnDisconnect, and OnSecTimer at the end of a sweep.
CancelledInCallback ==
  /\ owner = "closing"
  /\ \/ \E e \in batch : Refuse(e)
     \/ Receive
     \/ Notify
     \/ Sweep /\ phase' = "off"
  /\ owner' = "joining"
  /\ UNCHANGED opened

LifeThread == Step \/ StepOn \/ BrokenPipe \/ CancelledInSystemCall \/ CancelledInCallback

-----------------------------------------------------------------------------
\* Clients reach the ports that are open.
LifeClient ==
  /\ owner # "over"
  /\ \E s \in Sessions : Dest[s] \in opened /\ ClientStep(s)
  /\ UNCHANGED <<owner, opened>>

\* A send of the thread returns when its client has read enough.
LifeAnswered ==
  /\ Alive
  /\ Answered
  /\ owner' = IF owner = "closing" /\ SocketClosed THEN "over" ELSE owner
  /\ UNCHANGED opened

Owner == AddListenSocket \/ OpenFails \/ Start \/ Close \/ Join

LifeNext == Owner \/ LifeThread \/ LifeClient \/ LifeAnswered

LifeSpec == LifeInit /\ [][LifeNext]_lifeVars

(* The thread is scheduled whenever it is not blocked in a system call, also *)
(* with a cancellation pending, and pthread_join returns when it has ended.  *)
(* epoll, which moves a descriptor it reported to the end of its ready list, *)
(* reports every descriptor that stays ready.  Nothing is assumed of clients,*)
(* nor that the owner ever calls Start or Close.                             *)
Fairness ==
  /\ WF_lifeVars(LifeThread)
  /\ WF_lifeVars(Join)
  /\ \A fd \in Ports \cup Fds :
       SF_lifeVars(Step /\ EpollWait /\ \E e \in batch' : e.fd = fd)

LifeFairSpec == LifeSpec /\ Fairness

-----------------------------------------------------------------------------
\* Whatever Close interrupted, it returns with no sweep half done and with no
\* session closed that OnDisconnect was not called for; and a thread is started
\* in the state the first one was started in (MainThread, thread_data_t).
StoppedClean ==
  owner = "stopped" =>
    /\ pc = "wait" /\ batch = {} /\ phase = "off"
    /\ \A s \in Sessions : stage[s] = "closed" => told[s] = "disconnect"

Halted ==
  \/ phase = "stuck"
  \/ RecvBlocked
  \/ pc = "send" /\ link[sock[cur.fd]] # "reset"

\* Close returns, even when the thread is blocked in a system call; or the
\* process ends, or the thread hangs in the sweep.
CloseReturns == (owner = "closing") ~> (owner # "closing" \/ phase = "stuck")

\* The thread comes back to epoll_wait, or halts for good or ill in recv, send or
\* the sweep: no batch keeps it for ever.
RoundsEnd == (pc # "wait") ~> (pc = "wait" \/ Halted \/ owner = "over")

KeptRunning == <>[](owner = "running")

\* A session whose client has left is removed, however busy the others are, also
\* when accept fails for ever and its listening socket stays ready, and however
\* often the server was stopped and started before.
GoneClientsRemoved ==
  KeptRunning =>
    \A s \in Sessions :
      (stage[s] = "served" /\ link[s] # "up") ~> (stage[s] # "served" \/ Halted)

\* accept, called again and again with a descriptor for the client, does not fail
\* each time.
AcceptWorks == SF_lifeVars(Step /\ \E e \in batch : Accept(e) \/ Refuse(e))

\* Unless accept fails for ever, a client in the listen queue is accepted, or
\* descriptors run out; also one that came before Start, or while the server was
\* stopped.
QueuedClientsTaken ==
  KeptRunning /\ AcceptWorks =>
    \A s \in Sessions :
      (stage[s] = "queued") ~> (stage[s] # "queued" \/ Free = {} \/ Halted)
=============================================================================

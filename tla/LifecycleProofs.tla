---------------------------- MODULE LifecycleProofs ----------------------------
(* What TLAPS proves about a server that its owner opens, starts, stops and *)
(* starts again, for any number of ports, descriptors and sessions: what    *)
(* TcpServerProofs shows of the event loop holds wherever its thread is     *)
(* cancelled.                                                               *)
EXTENDS Lifecycle, TcpServerProofs

\* Every step of the event loop's variables is one of the event loop, or the end
\* of its thread.
LEMMA LifeStepIsStep ==
  ASSUME [LifeNext]_lifeVars
  PROVE  [Next]_vars \/ Join
<1>1. CASE AddListenSocket \/ OpenFails \/ Start \/ Close \/ CancelledInSystemCall
  BY <1>1 DEF AddListenSocket, OpenFails, Start, Close, CancelledInSystemCall
<1>2. CASE Step \/ StepOn
  BY <1>2 DEF Step, StepOn, Next
<1>3. CASE BrokenPipe \/ LifeAnswered
  BY <1>3 DEF BrokenPipe, SendFails, LifeAnswered, Next
<1>4. CASE CancelledInCallback
  BY <1>4 DEF CancelledInCallback, Next, Thread, Handle
<1>5. CASE LifeClient
  BY <1>5 DEF LifeClient, Next, Client
<1>6. CASE UNCHANGED lifeVars
  BY <1>6 DEF lifeVars
<1> QED BY <1>1, <1>2, <1>3, <1>4, <1>5, <1>6 DEF LifeNext, Owner, LifeThread

\* The sweep is run from the loop, before the events.
ScanInLoop == phase # "off" => pc = "dispatch"

LEMMA ScanInLoopStep ==
  ASSUME ScanInLoop, [Next]_vars
  PROVE  ScanInLoop'
<1>1. ASSUME UNCHANGED phase, pc' = pc \/ phase = "off"
      PROVE  ScanInLoop'
  BY <1>1 DEF ScanInLoop
<1>2. CASE Client
  BY <1>1, <1>2 DEF Client, ClientStep, Connect, Send, Shut, Reset, scanVars
<1>3. CASE EpollWait \/ NextRound \/ Notify
  BY <1>1, <1>3 DEF EpollWait, NextRound, Dispatching, Notify, scanVars, ScanInLoop
<1>4. ASSUME NEW elapsed \in 0..MaxElapsed, OnTimer(elapsed) PROVE ScanInLoop'
  BY <1>4 DEF OnTimer, ScanInLoop
<1>5. CASE Sweep
  BY <1>5 DEF Sweep, ScanInLoop
<1>6. ASSUME NEW fd, Disconnect(fd) PROVE ScanInLoop'
  BY <1>1, <1>6 DEF Disconnect, Remove
<1>7. ASSUME NEW e \in batch,
             Accept(e) \/ Refuse(e) \/ AcceptFails(e) \/ Ignore(e) \/ Input(e)
      PROVE  ScanInLoop'
  <2>1. phase = "off"
    BY <1>7 DEF Accept, Refuse, AcceptFails, Ignore, Input, Take, Dispatching
  <2>2. UNCHANGED phase
    BY <1>7 DEF Accept, Insert, Refuse, AcceptFails, Ignore, Input, scanVars
  <2> QED BY <1>1, <2>1, <2>2
<1>8. ASSUME NEW e \in batch, HangUp(e) PROVE ScanInLoop'
  BY <1>6, <1>8 DEF HangUp
<1>9. CASE Receive \/ ReceiveAndAnswer
  BY <1>1, <1>9 DEF Receive, ReceiveAndAnswer, Touch
<1>10. CASE ReceiveAndClose \/ ReceiveEnd
  BY <1>6, <1>10 DEF ReceiveAndClose, ReceiveEnd
<1>11. CASE Answered
  <2>1. CASE Disconnect(cur.fd)
    BY <1>6, <2>1
  <2>2. CASE BackToLoop /\ UNCHANGED <<scanVars, stage, sock>>
    BY <2>2 DEF BackToLoop, scanVars, ScanInLoop
  <2> QED BY <1>11, <2>1, <2>2 DEF Answered
<1>12. CASE UNCHANGED vars
  BY <1>1, <1>12 DEF vars, scanVars
<1> QED BY <1>2, <1>3, <1>4, <1>5, <1>7, <1>8, <1>9, <1>10, <1>11, <1>12
        DEF Next, Thread, Handle, SendFails

-----------------------------------------------------------------------------
(* The inductive invariant: the event loop's, and where the thread can be  *)
(* when its owner thinks it gone.                                          *)

ThreadGone ==
  /\ owner \in {"opening", "stopped"} => pc = "wait" /\ batch = {} /\ phase = "off"
  /\ owner = "joining" => pc # "notify" /\ phase = "off"

LifeInv == LifeTypeOK /\ Inv /\ ContractInv /\ ScanInLoop /\ ThreadGone

LEMMA JoinInv ==
  ASSUME LifeInv, Join
  PROVE  Inv' /\ ContractInv' /\ ScanInLoop' /\ ThreadGone'
<1>1. /\ pc' = "wait" /\ batch' = {} /\ cur' = NoEvent /\ owner' = "stopped"
      /\ pc # "notify" /\ phase = "off"
      /\ UNCHANGED <<scanVars, clientVars, stage, sock, told>>
  BY DEF Join, LifeInv, ThreadGone
<1>2. TypeOK'
  <2>1. NoEvent \in Events
    BY DEF NoEvent, Events
  <2>2. ScanTypeOK'
    BY <1>1 DEF LifeInv, Inv, TypeOK, ScanTypeOK, scanVars
  <2> QED BY <1>1, <2>1, <2>2 DEF LifeInv, Inv, TypeOK, clientVars
<1>3. TablesMatchKernel'
  BY <1>1 DEF LifeInv, Inv, TablesMatchKernel, scanVars
<1>4. BatchInv' /\ EventInv'
  BY <1>1 DEF BatchInv, EventInv, Pending
<1>5. ContractInv'
  BY <1>1 DEF LifeInv, ContractInv
<1> QED BY <1>1, <1>2, <1>3, <1>4, <1>5 DEF Inv, ScanInLoop, ThreadGone, scanVars

LEMMA LifeTypeStep ==
  ASSUME LifeTypeOK, TypeOK', [LifeNext]_lifeVars
  PROVE  LifeTypeOK'
<1>1. CASE AddListenSocket
  BY <1>1 DEF AddListenSocket, LifeTypeOK, Phases
<1>2. CASE OpenFails \/ Start \/ Close \/ Join
  BY <1>2 DEF OpenFails, Start, Close, Join, LifeTypeOK, Phases
<1>3. CASE LifeThread
  BY <1>3 DEF LifeThread, Step, StepOn, BrokenPipe, CancelledInSystemCall,
              CancelledInCallback, LifeTypeOK, Phases
<1>4. CASE LifeClient \/ LifeAnswered
  BY <1>4 DEF LifeClient, LifeAnswered, LifeTypeOK, Phases
<1>5. CASE UNCHANGED lifeVars
  BY <1>5 DEF lifeVars, LifeTypeOK
<1> QED BY <1>1, <1>2, <1>3, <1>4, <1>5 DEF LifeNext, Owner

LEMMA ThreadGoneStep ==
  ASSUME LifeInv, LifeTypeOK', [LifeNext]_lifeVars
  PROVE  ThreadGone'
<1>1. ASSUME owner' \notin {"opening", "stopped", "joining"}
      PROVE  ThreadGone'
  BY <1>1 DEF ThreadGone
<1>2. ASSUME UNCHANGED <<pc, batch, phase>>, owner' = owner
      PROVE  ThreadGone'
  BY <1>2 DEF ThreadGone, LifeInv
<1>3. CASE Owner
  <2>1. CASE AddListenSocket
    BY <2>1 DEF AddListenSocket, ThreadGone, LifeInv, vars, scanVars
  <2>2. CASE OpenFails \/ Start \/ Close
    BY <1>1, <2>2 DEF OpenFails, Start, Close
  <2>3. CASE Join
    BY <2>3, JoinInv
  <2> QED BY <1>3, <2>1, <2>2, <2>3 DEF Owner
<1>4. CASE Step \/ StepOn \/ BrokenPipe \/ LifeAnswered
  BY <1>1, <1>4 DEF Step, StepOn, BrokenPipe, LifeAnswered, Alive
<1>5. CASE CancelledInSystemCall
  BY <1>5 DEF CancelledInSystemCall, AtSystemCall, Dispatching, ThreadGone, LifeInv,
              ScanInLoop, vars, scanVars
<1>6. CASE CancelledInCallback
  <2>1. ASSUME NEW e \in batch, Refuse(e)
        PROVE  pc' = "dispatch" /\ phase' = "off"
    BY <2>1 DEF Refuse, Take, Dispatching, scanVars
  <2>2. Receive => pc' = "dispatch" /\ phase' = "off"
    BY DEF Receive, Touch, BackToLoop
  <2>3. Notify => pc' = "dispatch" /\ phase' = "off"
    BY DEF Notify, BackToLoop, LifeInv, ScanInLoop, scanVars
  <2>4. Sweep => pc' = "dispatch"
    BY DEF Sweep
  <2>5. pc' = "dispatch" /\ phase' = "off"
    BY <1>6, <2>1, <2>2, <2>3, <2>4 DEF CancelledInCallback
  <2> QED BY <1>6, <2>5 DEF CancelledInCallback, ThreadGone
<1>7. CASE LifeClient
  BY <1>2, <1>7 DEF LifeClient, ClientStep, Connect, Send, Shut, Reset, scanVars
<1>8. CASE UNCHANGED lifeVars
  BY <1>2, <1>8 DEF lifeVars, vars, scanVars
<1> QED BY <1>3, <1>4, <1>5, <1>6, <1>7, <1>8 DEF LifeNext, LifeThread

-----------------------------------------------------------------------------
(* The theorems.                                                           *)

LEMMA LifeInvInit == LifeInit => LifeInv
<1> SUFFICES ASSUME LifeInit PROVE LifeInv
  OBVIOUS
<1>1. Init /\ Inv
  BY InvInit DEF LifeInit
<1>2. LifeTypeOK
  BY <1>1 DEF LifeInit, LifeTypeOK, Phases, Inv
<1>3. ContractInv
  BY <1>1 DEF Init, ContractInv
<1>4. ScanInLoop /\ ThreadGone
  BY <1>1 DEF Init, ScanInit, LifeInit, ScanInLoop, ThreadGone
<1> QED BY <1>1, <1>2, <1>3, <1>4 DEF LifeInv

LEMMA LifeInvStep == LifeInv /\ [LifeNext]_lifeVars => LifeInv'
<1> SUFFICES ASSUME LifeInv, [LifeNext]_lifeVars PROVE LifeInv'
  OBVIOUS
<1>1. Inv' /\ ContractInv' /\ ScanInLoop'
  <2>1. CASE [Next]_vars
    BY <2>1, InvStep, ContractStep, ScanInLoopStep DEF LifeInv
  <2>2. CASE Join
    BY <2>2, JoinInv
  <2> QED BY <2>1, <2>2, LifeStepIsStep
<1>2. LifeTypeOK'
  BY <1>1, LifeTypeStep DEF LifeInv, Inv
<1>3. ThreadGone'
  BY <1>2, ThreadGoneStep
<1> QED BY <1>1, <1>2, <1>3 DEF LifeInv

\* The invariant: the event loop's survives every way of stopping its thread.
THEOREM LifeInvCorrect == LifeSpec => []LifeInv
<1> QED BY LifeInvInit, LifeInvStep, PTL DEF LifeSpec

\* Every variable has its type in every state (Multiplexer and TCPServer, opened,
\* started and closed in any order their owner may choose).
THEOREM LifeTypeCorrect == LifeSpec => []LifeTypeOK
<1>1. LifeInv => LifeTypeOK
  BY DEF LifeInv
<1> QED BY <1>1, LifeInvCorrect, PTL

\* Wherever pthread_cancel stops the thread, the maps of the ports hold exactly
\* the open sockets (a cancelled OnConnect gives its socket back, and no handler
\* is interrupted between a change of a map and that of a socket).
THEOREM LifeTablesCorrect == LifeSpec => []TablesMatchKernel
<1>1. LifeInv => TablesMatchKernel
  BY InvGives DEF LifeInv
<1> QED BY <1>1, LifeInvCorrect, PTL

\* Also after a restart, an event is handled for the session it was raised for
\* unless the sweep closed that session (MainThread's loop over events[]).
THEOREM LifeStaleCorrect == LifeSpec => []StaleOnlyByExpiry
<1>1. LifeInv => StaleOnlyByExpiry
  BY InvGives DEF LifeInv
<1> QED BY <1>1, LifeInvCorrect, PTL

\* recv blocks the thread only on behalf of a session that timed out
\* (ReceiveData, on sockets left in blocking mode).
THEOREM LifeRecvCorrect == LifeSpec => []RecvBlocksOnlyAfterExpiry
<1>1. LifeInv => RecvBlocksOnlyAfterExpiry
  BY InvGives DEF LifeInv
<1> QED BY <1>1, LifeInvCorrect, PTL

\* accept is called only when a client is waiting, so it does not block (OnEvent
\* on a listening socket, which is left in blocking mode as well).
THEOREM LifeAcceptCorrect == LifeSpec => []AcceptNeverBlocks
<1>1. LifeInv => AcceptNeverBlocks
  BY InvGives DEF LifeInv
<1> QED BY <1>1, LifeInvCorrect, PTL

\* When Close returns no sweep is half done, and OnDisconnect was called for every
\* session that a handler closed (Multiplexer::Close, pthread_cancel).
THEOREM StoppedCleanCorrect == LifeSpec => []StoppedClean
<1>1. ASSUME LifeInv, owner = "stopped", NEW s \in Sessions, stage[s] = "closed"
      PROVE  told[s] = "disconnect"
  <2>1. pc = "wait"
    BY <1>1 DEF LifeInv, ThreadGone
  <2> QED BY <1>1, <2>1 DEF LifeInv, ContractInv, Inv, TypeOK
<1>2. LifeInv => StoppedClean
  BY <1>1 DEF StoppedClean, LifeInv, ThreadGone
<1> QED BY <1>2, LifeInvCorrect, PTL

\* A session whose client is there and has sent nothing is closed by a handler
\* only on account of an event that a timed-out session left on its descriptor
\* (OnDisconnect(fd) and ConnectionProcessing), in any life of the thread.
THEOREM LifeLiveSessionCorrect == LifeSpec => LiveSessionKept
<1> DEFINE Kept == \A s \in Sessions :
      stage[s] = "served" /\ stage'[s] = "closed" /\ link[s] = "up" /\ unread[s] = 0
      /\ pc # "send"
      => \E e \in batch : e.fd \in Fds /\ sock[e.fd] = s /\ stage[e.of] = "expired"
<1>1. ASSUME LifeInv, [LifeNext]_lifeVars
      PROVE  Kept
  <2>1. CASE [Next]_vars
    BY <1>1, <2>1, LiveSessionStep DEF ClosedAlive, LifeInv
  <2>2. CASE Join
    BY <2>2 DEF Join
  <2> QED BY <1>1, <2>1, <2>2, LifeStepIsStep
<1>2. LifeInv /\ [LifeNext]_lifeVars => [Kept]_vars
  BY <1>1
<1> QED BY <1>2, LifeInvCorrect, PTL DEF LifeSpec, LiveSessionKept

\* The server keeps SessionContract through any number of stops and starts: each
\* session is opened once and reported at most once, right after it was closed
\* (the callbacks of a class derived from TCPServer).
THEOREM LifeKeepsContract == LifeSpec => ContractKept
<1>1. LifeInit => Contract!Init
  <2> SUFFICES ASSUME LifeInit PROVE Contract!Init
    OBVIOUS
  <2>1. \A s \in Sessions : Life(s) = "outside"
    BY DEF LifeInit, Init, Life
  <2> QED BY <2>1 DEF Contract!Init
<1>2. ASSUME LifeInv, LifeInv', [LifeNext]_lifeVars
      PROVE  [Contract!Next]_([s \in Sessions |-> Life(s)])
  <2>1. CASE [Next]_vars
    BY <1>2, <2>1, ContractNext DEF LifeInv, Inv
  <2>2. CASE Join
    BY <2>2, LifeSame DEF Join
  <2> QED BY <1>2, <2>1, <2>2, LifeStepIsStep
<1> QED BY <1>1, <1>2, LifeInvCorrect, PTL DEF LifeSpec, ContractKept, Contract!Spec

\* However often the thread is stopped, it uses the tables as ExpiryScan says
\* (OnTimer, EraseExpiredConnections and the handlers).
THEOREM LifeImplementsScan == LifeSpec => ScanSpec
<1>1. LifeInit => ScanInit
  BY DEF LifeInit, Init
<1>2. ASSUME LifeInv, [LifeNext]_lifeVars
      PROVE  [ScanNext]_scanVars
  <2>1. CASE [Next]_vars
    BY <1>2, <2>1, StepIsScanStep DEF LifeInv, Inv
  <2>2. CASE Join
    BY <2>2 DEF Join
  <2> QED BY <1>2, <2>1, <2>2, LifeStepIsStep
<1> QED BY <1>1, <1>2, LifeInvCorrect, PTL DEF LifeSpec, ScanSpec

\* So a call of EraseExpiredConnections keeps its bound in a server with one
\* listening port whose sweeps are cancelled and that is started again.
THEOREM LifeBoundedWork ==
  ASSUME NEW port, Ports = {port}
  PROVE  LifeSpec => []BoundedWork
<1> QED BY LifeImplementsScan, OnePortBoundedWork, PTL
=============================================================================

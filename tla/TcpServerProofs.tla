--------------------------- MODULE TcpServerProofs ---------------------------
(* What TLAPS proves about the event loop, for any number of ports,        *)
(* descriptors, sessions and events in a batch.                            *)
EXTENDS TcpServer, ExpiryScanProofs

-----------------------------------------------------------------------------
(* The inductive invariant.  What the properties say of the batch holds    *)
(* because of what each event was when epoll_wait returned it, and that is *)
(* what has to be carried through the handling of the events before it.    *)

\* One event per descriptor; a listening socket in the batch has clients
\* waiting; in recv and send there is a connection, and no other event for it.
BatchInv ==
  /\ \A e, f \in batch : e.fd = f.fd => e = f
  /\ \A e \in batch : e.fd \in Ports => Waiting(e.fd) # {}
  /\ pc \in {"recv", "send"} => /\ cur.fd \in Fds /\ sock[cur.fd] # NoSession
                               /\ \A e \in batch : e.fd # cur.fd

\* The session of an event is still there, and still has what the event was
\* raised for, or it has timed out.
FreshOrExpired(e) ==
  /\ e.of \in Sessions
  /\ \/ stage[e.of] = "expired"
     \/ sock[e.fd] = e.of /\ Readable(e.of) /\ (e.hup => link[e.of] = "reset")

EventInv == \A e \in Pending : e.fd \in Fds => FreshOrExpired(e)

Inv == TypeOK /\ TablesMatchKernel /\ BatchInv /\ EventInv

-----------------------------------------------------------------------------
(* The event loop uses the tables as ExpiryScan says it does.              *)

LEMMA LeastFree ==
  ASSUME Free # {}
  PROVE  Least(Free) \in Free /\ Least(Free) \in Fds
<1>1. Free \in SUBSET Fds
  BY DEF Free
<1>2. Fds \subseteq Int
  BY ScanAssumption
<1>3. IsFiniteSet(Free) /\ Free \subseteq Int
  BY <1>1, <1>2, ScanAssumption, FS_Subset
<1> QED BY <1>1, <1>3, LeastExists

\* What Disconnect does to the tables is a Remove.
LEMMA DisconnectRemoves ==
  ASSUME TypeOK, NEW fd, Disconnect(fd)
  PROVE  ScanNext /\ fd \in Fds
<1>1. PICK p \in Ports : Remove(p, fd)
  BY DEF Disconnect
<1>2. fd \in Fds
  BY <1>1 DEF Remove, TypeOK, ScanTypeOK
<1> QED BY <1>1, <1>2 DEF ScanNext, Serve

LEMMA StepIsScanStep ==
  ASSUME TypeOK, [Next]_vars
  PROVE  [ScanNext]_scanVars
<1>1. CASE Client
  BY <1>1 DEF Client, ClientStep, Connect, Send, Shut, Reset
<1>2. ASSUME NEW elapsed \in 0..MaxElapsed, OnTimer(elapsed)
      PROVE  [ScanNext]_scanVars
  BY <1>2 DEF OnTimer, ScanNext
<1>3. CASE Sweep
  BY <1>3 DEF Sweep, ScanNext
<1>4. ASSUME NEW e \in batch, Accept(e)
      PROVE  [ScanNext]_scanVars
  <2>1. e.fd \in Ports /\ Least(Free) \in Fds /\ Insert(e.fd, Least(Free))
    BY <1>4, LeastFree DEF Accept
  <2> QED BY <2>1 DEF ScanNext, Serve
<1>5. ASSUME NEW e \in batch, HangUp(e)
      PROVE  [ScanNext]_scanVars
  BY <1>5, DisconnectRemoves DEF HangUp
<1>6. CASE Receive \/ ReceiveAndAnswer
  <2>1. PICK p \in Ports : Touch(p, cur.fd)
    BY <1>6 DEF Receive, ReceiveAndAnswer
  <2>2. cur.fd \in Fds
    BY <2>1 DEF Touch, TypeOK, ScanTypeOK
  <2> QED BY <2>1, <2>2 DEF ScanNext, Serve
<1>7. CASE ReceiveAndClose \/ ReceiveEnd
  BY <1>7, DisconnectRemoves DEF ReceiveAndClose, ReceiveEnd
<1>8. CASE EpollWait \/ NextRound \/ Notify
  BY <1>8 DEF EpollWait, NextRound, Notify
<1>9. ASSUME NEW e \in batch, Refuse(e) \/ AcceptFails(e) \/ Ignore(e) \/ Input(e)
      PROVE  [ScanNext]_scanVars
  BY <1>9 DEF Refuse, AcceptFails, Ignore, Input
<1>10. CASE Answered
  BY <1>10, DisconnectRemoves DEF Answered
<1>11. CASE UNCHANGED vars
  BY <1>11 DEF vars
<1> QED BY <1>1, <1>2, <1>3, <1>4, <1>5, <1>6, <1>7, <1>8, <1>9, <1>10, <1>11
        DEF Next, Thread, Handle, SendFails

-----------------------------------------------------------------------------
(* Types.                                                                  *)

LEMMA ReadyTyped ==
  ASSUME TypeOK
  PROVE  Ready \subseteq Events
<1>1. ASSUME NEW p \in Ports
      PROVE  [fd |-> p, hup |-> FALSE, of |-> NoSession] \in Events
  BY DEF Events
<1>2. ASSUME NEW fd \in Fds, sock[fd] # NoSession
      PROVE  [fd |-> fd, hup |-> link[sock[fd]] = "reset", of |-> sock[fd]] \in Events
  BY <1>2 DEF TypeOK, Events
<1> QED BY <1>1, <1>2 DEF Ready

LEMMA DisconnectTyped ==
  ASSUME TypeOK, NEW fd, Disconnect(fd)
  PROVE  /\ stage' \in [Sessions -> Stages]
         /\ sock' \in [Fds -> Sessions \cup {NoSession}]
         /\ pc' \in {"wait", "timer", "dispatch", "recv", "send", "notify"}
         /\ cur' \in Events
<1>1. fd \in Fds
  BY DisconnectRemoves
<1>2. stage' \in [Sessions -> Stages]
  BY DEF TypeOK, Disconnect, Stages
<1>3. sock' \in [Fds -> Sessions \cup {NoSession}]
  BY DEF TypeOK, Disconnect
<1>4. cur' \in Events
  BY <1>1 DEF TypeOK, Disconnect, Events
<1> QED BY <1>2, <1>3, <1>4 DEF Disconnect

LEMMA TypeStep ==
  ASSUME TypeOK, [Next]_vars
  PROVE  TypeOK'
<1>1. ScanTypeOK'
  BY StepIsScanStep, ScanTypeStep DEF TypeOK
<1>2. CASE Client
  <2>1. ASSUME NEW s \in Sessions, Connect(s) PROVE TypeOK'
    BY <1>1, <2>1 DEF Connect, clientVars, TypeOK, Stages
  <2>2. ASSUME NEW s \in Sessions, Send(s) PROVE TypeOK'
    <3>1. unread[s] + 1 \in 0..MaxUnread
      BY <2>2, TcpAssumption DEF Send, TypeOK
    <3> QED BY <1>1, <2>2, <3>1 DEF Send, TypeOK
  <2>3. ASSUME NEW s \in Sessions, Shut(s) \/ Reset(s) PROVE TypeOK'
    BY <1>1, <2>3 DEF Shut, Reset, TypeOK
  <2> QED BY <1>2, <2>1, <2>2, <2>3 DEF Client, ClientStep
<1>3. CASE EpollWait
  BY <1>1, <1>3, ReadyTyped DEF EpollWait, clientVars, TypeOK
<1>4. ASSUME NEW elapsed \in 0..MaxElapsed, OnTimer(elapsed) PROVE TypeOK'
  BY <1>1, <1>4 DEF OnTimer, clientVars, TypeOK
<1>5. CASE Sweep
  BY <1>1, <1>5 DEF Sweep, clientVars, TypeOK, Stages
<1>6. CASE NextRound
  BY <1>1, <1>6 DEF NextRound, clientVars, TypeOK
<1>7. ASSUME NEW e \in batch, Accept(e) \/ Refuse(e) \/ AcceptFails(e) PROVE TypeOK'
  <2>1. CASE Accept(e)
    BY <1>1, <2>1, LeastFree DEF Accept, Waiting, clientVars, TypeOK, Stages, Take
  <2>2. CASE Refuse(e)
    BY <1>1, <2>2 DEF Refuse, clientVars, TypeOK, Stages, Take
  <2>3. CASE AcceptFails(e)
    BY <1>1, <2>3 DEF AcceptFails, clientVars, TypeOK, Take
  <2> QED BY <1>7, <2>1, <2>2, <2>3
<1>8. ASSUME NEW e \in batch, HangUp(e) \/ Ignore(e) \/ Input(e) PROVE TypeOK'
  <2>1. CASE HangUp(e)
    BY <1>1, <2>1, DisconnectTyped DEF HangUp, clientVars, TypeOK, Take
  <2>2. CASE Ignore(e) \/ Input(e)
    BY <1>1, <2>2 DEF Ignore, Input, clientVars, TypeOK, Take
  <2> QED BY <1>8, <2>1, <2>2
<1>9. CASE Receive \/ ReceiveAndAnswer \/ ReceiveAndClose
  <2>1. unread' \in [Sessions -> 0..MaxUnread]
    <3>1. RecvData
      BY <1>9 DEF Receive, ReceiveAndAnswer, ReceiveAndClose
    <3>2. unread' = [unread EXCEPT ![sock[cur.fd]] = @ - 1] /\ unread[sock[cur.fd]] > 0
      BY <3>1 DEF RecvData
    <3>3. ASSUME NEW s \in Sessions, unread[s] > 0
          PROVE  unread[s] - 1 \in 0..MaxUnread
      BY <3>3, TcpAssumption DEF TypeOK
    <3> QED BY <3>2, <3>3 DEF TypeOK
  <2>2. CASE Receive
    BY <1>1, <2>1, <2>2 DEF Receive, BackToLoop, TypeOK, Events, NoEvent
  <2>3. CASE ReceiveAndAnswer
    BY <1>1, <2>1, <2>3 DEF ReceiveAndAnswer, TypeOK
  <2>4. CASE ReceiveAndClose
    BY <1>1, <2>1, <2>4, DisconnectTyped DEF ReceiveAndClose, TypeOK
  <2> QED BY <1>9, <2>2, <2>3, <2>4
<1>10. CASE ReceiveEnd
  BY <1>1, <1>10, DisconnectTyped DEF ReceiveEnd, clientVars, TypeOK
<1>11. CASE Notify
  BY <1>1, <1>11 DEF Notify, clientVars, TypeOK, Events, NoEvent, BackToLoop
<1>12. CASE Answered
  <2>1. CASE Disconnect(cur.fd)
    BY <1>1, <1>12, <2>1, DisconnectTyped DEF Answered, clientVars, TypeOK
  <2>2. UNCHANGED <<clientVars, batch, told>>
    BY <1>12 DEF Answered
  <2>3. CASE BackToLoop /\ UNCHANGED <<scanVars, stage, sock>>
    <3>1. pc' = "dispatch" /\ cur' = NoEvent /\ UNCHANGED <<stage, sock>>
      BY <2>3 DEF BackToLoop
    <3>2. NoEvent \in Events
      BY DEF NoEvent, Events
    <3> QED BY <1>1, <2>2, <3>1, <3>2 DEF clientVars, TypeOK
  <2> QED BY <1>12, <2>1, <2>3 DEF Answered
<1>13. CASE UNCHANGED vars
  BY <1>1, <1>13 DEF vars, clientVars, TypeOK
<1> QED BY <1>2, <1>3, <1>4, <1>5, <1>6, <1>7, <1>8, <1>9, <1>10, <1>11, <1>12, <1>13
        DEF Next, Thread, Handle, SendFails

-----------------------------------------------------------------------------
(* The tables and the kernel.                                              *)

LEMMA DisconnectTables ==
  ASSUME TypeOK, TablesMatchKernel, NEW fd, Disconnect(fd)
  PROVE  /\ TablesMatchKernel'
         /\ fd \in Fds /\ sock[fd] \in Sessions /\ stage[sock[fd]] = "served"
         /\ stage' = [stage EXCEPT ![sock[fd]] = "closed"]
         /\ sock' = [sock EXCEPT ![fd] = NoSession]
<1>1. PICK p \in Ports : Remove(p, fd)
  BY DEF Disconnect
<1>2. fd \in conns[p] /\ conns' = [conns EXCEPT ![p] = @ \ {fd}]
  BY <1>1 DEF Remove
<1>3. fd \in Fds /\ sock[fd] \in Sessions /\ Dest[sock[fd]] = p
  BY <1>2 DEF TypeOK, ScanTypeOK, TablesMatchKernel
<1>4. /\ stage' = [stage EXCEPT ![sock[fd]] = "closed"]
      /\ sock' = [sock EXCEPT ![fd] = NoSession]
  BY DEF Disconnect
<1>5. stage[sock[fd]] = "served"
  BY <1>3 DEF TablesMatchKernel
<1>6. \A g \in Fds : sock[g] = sock[fd] => g = fd
  BY <1>3, TcpAssumption DEF TablesMatchKernel
<1>7. \A g \in Fds : sock'[g] = IF g = fd THEN NoSession ELSE sock[g]
  BY <1>4 DEF TypeOK
<1>8. \A q \in Ports : conns'[q] = IF q = p THEN conns[q] \ {fd} ELSE conns[q]
  BY <1>2 DEF TypeOK, ScanTypeOK
<1>9. \A s \in Sessions : stage'[s] = IF s = sock[fd] THEN "closed" ELSE stage[s]
  BY <1>4 DEF TypeOK
<1>10. ASSUME NEW q \in Ports, NEW g \in conns'[q]
       PROVE  sock'[g] # NoSession /\ Dest[sock'[g]] = q
  <2>1. g \in conns[q] /\ g \in Fds
    BY <1>8 DEF TypeOK, ScanTypeOK
  <2>2. sock[g] # NoSession /\ Dest[sock[g]] = q
    BY <2>1 DEF TablesMatchKernel
  <2>3. g # fd
    BY <1>3, <1>8, <2>2
  <2> QED BY <1>7, <2>1, <2>2, <2>3
<1>11. ASSUME NEW g \in Fds, sock'[g] # NoSession
       PROVE  g \in conns'[Dest[sock'[g]]]
  <2>1. g # fd /\ sock'[g] = sock[g] /\ g \in conns[Dest[sock[g]]] /\ sock[g] \in Sessions
    BY <1>7, <1>11 DEF TypeOK, TablesMatchKernel
  <2>2. Dest[sock[g]] \in Ports
    BY <2>1, TcpAssumption
  <2> QED BY <1>8, <2>1, <2>2
<1>12. \A g, h \in Fds : sock'[g] = sock'[h] /\ sock'[g] # NoSession => g = h
  BY <1>7 DEF TablesMatchKernel
<1>13. ASSUME NEW s \in Sessions
       PROVE  stage'[s] = "served" <=> \E g \in Fds : sock'[g] = s
  <2>1. CASE s = sock[fd]
    BY <1>3, <1>6, <1>7, <1>9, <2>1, TcpAssumption
  <2>2. CASE s # sock[fd]
    BY <1>3, <1>7, <1>9, <2>2, TcpAssumption DEF TablesMatchKernel
  <2> QED BY <2>1, <2>2
<1> QED BY <1>3, <1>4, <1>5, <1>10, <1>11, <1>12, <1>13 DEF TablesMatchKernel

\* The sweep closes the socket of what it erases, and calls its session expired.
LEMMA SweepTables ==
  ASSUME TypeOK, TablesMatchKernel, Sweep
  PROVE  /\ TablesMatchKernel'
         /\ \A fd \in Fds : \/ sock'[fd] = sock[fd]
                            \/ sock'[fd] = NoSession /\ stage'[sock[fd]] = "expired"
         /\ \A s \in Sessions : stage'[s] = stage[s] \/ stage'[s] = "expired"
         /\ \A s \in Sessions : stage[s] = "queued" => stage'[s] = "queued"
<1> DEFINE lost == Held \ Held'
<1>1. /\ sock' = [fd \in Fds |-> IF fd \in lost THEN NoSession ELSE sock[fd]]
      /\ stage' = [s \in Sessions |->
                     IF \E fd \in lost : sock[fd] = s THEN "expired" ELSE stage[s]]
  BY DEF Sweep
<1>2. ScanTypeOK' /\ \A q \in Ports : conns'[q] \subseteq conns[q]
  BY SweepProperties DEF Sweep, TypeOK
<1>3. ASSUME NEW p \in Ports, NEW fd \in conns[p]
      PROVE  fd \in Fds /\ sock[fd] \in Sessions /\ Dest[sock[fd]] = p
             /\ (fd \in conns'[p] <=> fd \notin lost)
  <2>1. fd \in Fds /\ sock[fd] \in Sessions /\ Dest[sock[fd]] = p
    BY DEF TypeOK, ScanTypeOK, TablesMatchKernel
  <2>2. \A q \in Ports : fd \in conns'[q] => q = p
    BY <1>2, <2>1 DEF TablesMatchKernel
  <2>3. fd \in Held
    BY DEF Held
  <2>4. fd \in Held' <=> fd \in conns'[p]
    BY <2>2 DEF Held
  <2> QED BY <2>1, <2>3, <2>4
<1>4. ASSUME NEW fd \in lost
      PROVE  fd \in Fds /\ sock[fd] \in Sessions /\ stage[sock[fd]] = "served"
  <2>1. PICK p \in Ports : fd \in conns[p]
    BY DEF Held
  <2> QED BY <1>3, <2>1 DEF TablesMatchKernel
<1> HIDE DEF lost
<1>5. \A fd \in Fds : sock'[fd] = IF fd \in lost THEN NoSession ELSE sock[fd]
  BY <1>1
<1>6. \A s \in Sessions :
        stage'[s] = IF \E fd \in lost : sock[fd] = s THEN "expired" ELSE stage[s]
  BY <1>1
<1>7. ASSUME NEW q \in Ports, NEW fd \in conns'[q]
      PROVE  sock'[fd] # NoSession /\ Dest[sock'[fd]] = q
  BY <1>2, <1>3, <1>5, TcpAssumption
<1>8. ASSUME NEW fd \in Fds, sock'[fd] # NoSession
      PROVE  fd \in conns'[Dest[sock'[fd]]]
  <2>1. fd \notin lost /\ sock'[fd] = sock[fd] /\ sock[fd] \in Sessions
    BY <1>5, <1>8 DEF TypeOK
  <2>2. Dest[sock[fd]] \in Ports /\ fd \in conns[Dest[sock[fd]]]
    BY <1>8, <2>1, TcpAssumption DEF TablesMatchKernel
  <2> QED BY <1>3, <2>1, <2>2
<1>9. \A fd, g \in Fds : sock'[fd] = sock'[g] /\ sock'[fd] # NoSession => fd = g
  BY <1>5 DEF TablesMatchKernel
<1>10. ASSUME NEW s \in Sessions
       PROVE  stage'[s] = "served" <=> \E fd \in Fds : sock'[fd] = s
  <2>1. CASE \E fd \in lost : sock[fd] = s
    <3>1. PICK fd \in lost : sock[fd] = s
      BY <2>1
    <3>2. \A g \in Fds : sock[g] = s => g = fd
      BY <1>4, <3>1, TcpAssumption DEF TablesMatchKernel
    <3> QED BY <1>5, <1>6, <2>1, <3>1, <3>2, TcpAssumption
  <2>2. CASE ~\E fd \in lost : sock[fd] = s
    <3>1. stage'[s] = stage[s] /\ \A fd \in Fds : sock'[fd] = s <=> sock[fd] = s
      BY <1>5, <1>6, <2>2, TcpAssumption
    <3> QED BY <3>1 DEF TablesMatchKernel
  <2> QED BY <2>1, <2>2
<1>11. \A fd \in Fds : \/ sock'[fd] = sock[fd]
                       \/ sock'[fd] = NoSession /\ stage'[sock[fd]] = "expired"
  <2>1. ASSUME NEW fd \in Fds, fd \in lost
        PROVE  sock'[fd] = NoSession /\ stage'[sock[fd]] = "expired"
    <3>1. sock[fd] \in Sessions
      BY <1>4, <2>1
    <3>2. \E g \in lost : sock[g] = sock[fd]
      BY <2>1
    <3>3. stage'[sock[fd]] = "expired"
      BY <1>6, <3>1, <3>2
    <3> QED BY <1>5, <2>1, <3>3
  <2>2. ASSUME NEW fd \in Fds, fd \notin lost
        PROVE  sock'[fd] = sock[fd]
    BY <1>5, <2>2
  <2> QED BY <2>1, <2>2
<1>12. \A s \in Sessions : stage[s] = "queued" => stage'[s] = "queued"
  BY <1>4, <1>6
<1> QED BY <1>6, <1>7, <1>8, <1>9, <1>10, <1>11, <1>12 DEF TablesMatchKernel

\* The sweep changes the stage of sessions it expires, which were served.
LEMMA SweptSessions ==
  ASSUME TypeOK, TablesMatchKernel, Sweep
  PROVE  \A s \in Sessions :
           stage'[s] = stage[s] \/ (stage[s] = "served" /\ stage'[s] = "expired")
<1>1. stage' = [s \in Sessions |-> IF \E fd \in Held \ Held' : sock[fd] = s
                                  THEN "expired" ELSE stage[s]]
  BY DEF Sweep
<1>2. \A fd \in Held : fd \in Fds
  BY DEF Held, TypeOK, ScanTypeOK
<1> QED BY <1>1, <1>2 DEF TablesMatchKernel

LEMMA AcceptTables ==
  ASSUME TypeOK, TablesMatchKernel, NEW e \in batch, Accept(e)
  PROVE  TablesMatchKernel'
<1> DEFINE fd == Least(Free)
<1>1. fd \in Fds /\ sock[fd] = NoSession
  BY LeastFree DEF Accept, Free
<1>2. PICK s \in Waiting(e.fd) :
        /\ Insert(e.fd, fd)
        /\ sock' = [sock EXCEPT ![fd] = s]
        /\ stage' = [stage EXCEPT ![s] = "served"]
  BY DEF Accept
<1> HIDE DEF fd
<1>3. e.fd \in Ports /\ s \in Sessions /\ stage[s] = "queued" /\ Dest[s] = e.fd
  BY <1>2 DEF Accept, Waiting
<1>4. \A q \in Ports : conns'[q] = IF q = e.fd THEN conns[q] \cup {fd} ELSE conns[q]
  BY <1>2 DEF Insert, TypeOK, ScanTypeOK
<1>5. \A q \in Ports : fd \notin conns[q]
  BY <1>1 DEF TablesMatchKernel
<1>6. \A g \in Fds : sock'[g] = IF g = fd THEN s ELSE sock[g]
  BY <1>2 DEF TypeOK
<1>7. \A t \in Sessions : stage'[t] = IF t = s THEN "served" ELSE stage[t]
  BY <1>2 DEF TypeOK
<1>8. \A g \in Fds : sock[g] # s
  BY <1>3 DEF TablesMatchKernel
<1>9. ASSUME NEW q \in Ports, NEW g \in conns'[q]
      PROVE  sock'[g] # NoSession /\ Dest[sock'[g]] = q
  <2>1. CASE g = fd
    BY <1>1, <1>3, <1>4, <1>5, <1>6, <2>1, TcpAssumption
  <2>2. CASE g # fd
    <3>1. g \in conns[q]
      BY <1>4, <2>2
    <3>2. g \in Fds
      BY <3>1 DEF TypeOK, ScanTypeOK
    <3> QED BY <1>6, <2>2, <3>1, <3>2 DEF TablesMatchKernel
  <2> QED BY <2>1, <2>2
<1>10. ASSUME NEW g \in Fds, sock'[g] # NoSession
       PROVE  g \in conns'[Dest[sock'[g]]]
  <2>1. CASE g = fd
    BY <1>3, <1>4, <1>6, <2>1
  <2>2. CASE g # fd
    <3>1. sock'[g] = sock[g] /\ sock[g] \in Sessions
      BY <1>6, <1>10, <2>2 DEF TypeOK
    <3>2. Dest[sock[g]] \in Ports /\ g \in conns[Dest[sock[g]]]
      BY <1>10, <3>1, TcpAssumption DEF TablesMatchKernel
    <3> QED BY <1>4, <3>1, <3>2
  <2> QED BY <2>1, <2>2
<1>11. \A g, h \in Fds : sock'[g] = sock'[h] /\ sock'[g] # NoSession => g = h
  BY <1>6, <1>8 DEF TablesMatchKernel
<1>12. ASSUME NEW t \in Sessions
       PROVE  stage'[t] = "served" <=> \E g \in Fds : sock'[g] = t
  <2>1. CASE t = s
    BY <1>1, <1>6, <1>7, <2>1
  <2>2. CASE t # s
    <3>1. stage'[t] = stage[t] /\ \A g \in Fds : sock'[g] = t <=> sock[g] = t
      BY <1>1, <1>6, <1>7, <2>2, TcpAssumption
    <3> QED BY <3>1 DEF TablesMatchKernel
  <2> QED BY <2>1, <2>2
<1> QED BY <1>9, <1>10, <1>11, <1>12 DEF TablesMatchKernel

LEMMA TablesStep ==
  ASSUME TypeOK, TablesMatchKernel, [Next]_vars
  PROVE  TablesMatchKernel'
\* Steps that leave the tables and the descriptors alone, and no session's
\* being served.
<1>1. ASSUME conns' = conns, sock' = sock,
             \A s \in Sessions : stage'[s] = "served" <=> stage[s] = "served"
      PROVE  TablesMatchKernel'
  BY <1>1 DEF TablesMatchKernel
<1>2. CASE Client
  <2>1. ASSUME NEW s \in Sessions, Connect(s) PROVE TablesMatchKernel'
    BY <1>1, <2>1 DEF Connect, scanVars, TypeOK
  <2>2. ASSUME NEW s \in Sessions, Send(s) \/ Shut(s) \/ Reset(s) PROVE TablesMatchKernel'
    BY <1>1, <2>2 DEF Send, Shut, Reset, scanVars
  <2> QED BY <1>2, <2>1, <2>2 DEF Client, ClientStep
<1>3. ASSUME NEW elapsed \in 0..MaxElapsed, OnTimer(elapsed) PROVE TablesMatchKernel'
  BY <1>1, <1>3 DEF OnTimer, ClockTick
<1>4. CASE Sweep
  BY <1>4, SweepTables
<1>5. ASSUME NEW e \in batch, Accept(e) PROVE TablesMatchKernel'
  BY <1>5, AcceptTables
<1>6. ASSUME NEW e \in batch, Refuse(e) PROVE TablesMatchKernel'
  <2>1. PICK s \in Waiting(e.fd) : stage' = [stage EXCEPT ![s] = "refused"]
    BY <1>6 DEF Refuse
  <2>2. s \in Sessions /\ stage[s] = "queued"
    BY DEF Waiting
  <2>3. \A t \in Sessions : stage'[t] = "served" <=> stage[t] = "served"
    BY <2>1, <2>2 DEF TypeOK
  <2> QED BY <1>1, <1>6, <2>3 DEF Refuse, scanVars
<1>7. ASSUME NEW e \in batch, AcceptFails(e) \/ Ignore(e) \/ Input(e) PROVE TablesMatchKernel'
  BY <1>1, <1>7 DEF AcceptFails, Ignore, Input, scanVars
<1>8. ASSUME NEW e \in batch, HangUp(e) PROVE TablesMatchKernel'
  BY <1>8, DisconnectTables DEF HangUp
<1>9. CASE ReceiveAndClose \/ ReceiveEnd
  BY <1>9, DisconnectTables DEF ReceiveAndClose, ReceiveEnd
<1>10. CASE Receive \/ ReceiveAndAnswer
  BY <1>1, <1>10 DEF Receive, ReceiveAndAnswer, Touch
<1>11. CASE Answered
  BY <1>1, <1>11, DisconnectTables DEF Answered, scanVars
<1>12. CASE EpollWait \/ NextRound \/ Notify
  BY <1>1, <1>12 DEF EpollWait, NextRound, Notify, scanVars
<1>13. CASE UNCHANGED vars
  BY <1>1, <1>13 DEF vars, scanVars
<1> QED BY <1>2, <1>3, <1>4, <1>5, <1>6, <1>7, <1>8, <1>9, <1>10, <1>11, <1>12, <1>13
        DEF Next, Thread, Handle, SendFails

-----------------------------------------------------------------------------
(* The batch and its events.                                               *)

\* What keeps an event good: its session stays on its descriptor or expires,
\* nobody receives what it was raised for, and a client stays gone.
LEMMA FreshKept ==
  ASSUME NEW e \in Events, FreshOrExpired(e),
         stage[e.of] = "expired" => stage'[e.of] = "expired",
         sock[e.fd] = e.of => sock'[e.fd] = e.of \/ stage'[e.of] = "expired",
         sock[e.fd] = e.of /\ Readable(e.of) => Readable(e.of)',
         link[e.of] = "reset" => link'[e.of] = "reset"
  PROVE  FreshOrExpired(e)'
BY DEF FreshOrExpired

\* Closing a descriptor in a handler, when no event of the batch is for it.
LEMMA DisconnectEvents ==
  ASSUME TypeOK, TablesMatchKernel, NEW fd, Disconnect(fd), link' = link,
         \A s \in Sessions : s # sock[fd] => unread'[s] = unread[s],
         batch' \subseteq batch, \A e \in batch' : e.fd # fd,
         BatchInv, EventInv
  PROVE  BatchInv' /\ EventInv'
<1>1. /\ fd \in Fds /\ sock[fd] \in Sessions /\ stage[sock[fd]] = "served"
      /\ stage' = [stage EXCEPT ![sock[fd]] = "closed"]
      /\ sock' = [sock EXCEPT ![fd] = NoSession]
  BY DisconnectTables
<1>2. pc' = "notify"
  BY DEF Disconnect
<1>3. \A p \in Ports : Waiting(p)' = Waiting(p)
  BY <1>1 DEF Waiting, TypeOK
<1>4. BatchInv'
  BY <1>2, <1>3 DEF BatchInv
<1>5. ASSUME NEW e \in batch', e.fd \in Fds
      PROVE  FreshOrExpired(e)'
  <2>1. e \in batch /\ e \in Events /\ e.fd # fd
    BY DEF TypeOK
  <2>2. FreshOrExpired(e) /\ e.of \in Sessions
    BY <1>5, <2>1 DEF EventInv, Pending, FreshOrExpired
  <2>3. stage[e.of] = "expired" => stage'[e.of] = "expired"
    BY <1>1, <2>2 DEF TypeOK
  <2>4. sock'[e.fd] = sock[e.fd]
    BY <1>1, <1>5, <2>1 DEF TypeOK
  <2>5. sock[e.fd] = e.of => e.of # sock[fd]
    BY <1>1, <1>5, <2>1, TcpAssumption DEF TablesMatchKernel
  <2>6. sock[e.fd] = e.of /\ Readable(e.of) => Readable(e.of)'
    BY <2>2, <2>5 DEF Readable
  <2> QED BY <2>1, <2>2, <2>3, <2>4, <2>6, FreshKept
<1> QED BY <1>2, <1>4, <1>5 DEF EventInv, Pending

LEMMA ReadyFresh ==
  ASSUME TypeOK
  PROVE  /\ \A e, f \in Ready : e.fd = f.fd => e = f
         /\ \A e \in Ready : e.fd \in Ports => Waiting(e.fd) # {}
         /\ \A e \in Ready : e.fd \in Fds => FreshOrExpired(e)
<1>1. ASSUME NEW e \in Ready
      PROVE  \/ /\ e.fd \in Ports /\ e.fd \notin Fds /\ Waiting(e.fd) # {}
                /\ e = [fd |-> e.fd, hup |-> FALSE, of |-> NoSession]
             \/ /\ e.fd \in Fds /\ e.fd \notin Ports
                /\ sock[e.fd] # NoSession /\ Readable(sock[e.fd])
                /\ e = [fd |-> e.fd, hup |-> link[sock[e.fd]] = "reset",
                        of |-> sock[e.fd]]
  BY TcpAssumption DEF Ready
<1>2. \A e, f \in Ready : e.fd = f.fd => e = f
  BY <1>1
<1>3. ASSUME NEW e \in Ready, e.fd \in Fds
      PROVE  FreshOrExpired(e)
  <2>1. e.of = sock[e.fd] /\ e.hup = (link[sock[e.fd]] = "reset")
        /\ sock[e.fd] # NoSession /\ Readable(sock[e.fd])
    BY <1>1, <1>3
  <2>2. e.of \in Sessions
    BY <1>3, <2>1 DEF TypeOK
  <2> QED BY <2>1, <2>2 DEF FreshOrExpired
<1> QED BY <1>1, <1>2, <1>3

LEMMA SweepEvents ==
  ASSUME Inv, Sweep
  PROVE  BatchInv' /\ EventInv'
<1>1. /\ \A fd \in Fds : \/ sock'[fd] = sock[fd]
                         \/ sock'[fd] = NoSession /\ stage'[sock[fd]] = "expired"
      /\ \A s \in Sessions : stage'[s] = stage[s] \/ stage'[s] = "expired"
      /\ \A s \in Sessions : stage[s] = "queued" => stage'[s] = "queued"
  BY SweepTables DEF Inv
<1>2. pc = "dispatch" /\ pc' = pc /\ batch' = batch /\ link' = link /\ unread' = unread
  BY DEF Sweep, clientVars
<1>3. \A p \in Ports : Waiting(p) \subseteq Waiting(p)'
  BY <1>1 DEF Waiting
<1>4. BatchInv'
  BY <1>2, <1>3 DEF Inv, BatchInv
<1>5. ASSUME NEW e \in batch, e.fd \in Fds
      PROVE  FreshOrExpired(e)'
  <2>1. e \in Events /\ FreshOrExpired(e) /\ e.of \in Sessions
    BY <1>5 DEF Inv, TypeOK, EventInv, Pending, FreshOrExpired
  <2>2. stage[e.of] = "expired" => stage'[e.of] = "expired"
    BY <1>1, <2>1
  <2>3. sock[e.fd] = e.of => sock'[e.fd] = e.of \/ stage'[e.of] = "expired"
    BY <1>1, <1>5
  <2>4. Readable(e.of) => Readable(e.of)'
    BY <1>2 DEF Readable
  <2> QED BY <1>2, <2>1, <2>2, <2>3, <2>4, FreshKept
<1> QED BY <1>2, <1>4, <1>5 DEF EventInv, Pending

LEMMA AcceptEvents ==
  ASSUME Inv, NEW e \in batch, Accept(e) \/ Refuse(e)
  PROVE  BatchInv' /\ EventInv'
<1>1. /\ pc = "dispatch" /\ pc' = pc /\ batch' = batch \ {e} /\ e.fd \in Ports
      /\ link' = link /\ unread' = unread
  BY DEF Accept, Refuse, Dispatching, clientVars, Take
<1>2. PICK s \in Waiting(e.fd) :
        \/ stage' = [stage EXCEPT ![s] = "served"]
           /\ sock' = [sock EXCEPT ![Least(Free)] = s]
        \/ stage' = [stage EXCEPT ![s] = "refused"] /\ sock' = sock
  BY DEF Accept, Refuse
<1>3. s \in Sessions /\ stage[s] = "queued" /\ Dest[s] = e.fd
  BY DEF Waiting
<1>4. \A t \in Sessions : t # s => stage'[t] = stage[t]
  BY <1>2 DEF Inv, TypeOK
<1>5. ASSUME NEW p \in Ports, p # e.fd
      PROVE  Waiting(p)' = Waiting(p)
  BY <1>2, <1>3, <1>4, <1>5 DEF Waiting, Inv, TypeOK
<1>6. \A f \in batch' : f \in batch /\ f.fd # e.fd
  BY <1>1 DEF Inv, BatchInv
<1>7. BatchInv'
  BY <1>1, <1>5, <1>6 DEF Inv, BatchInv
<1>8. ASSUME NEW f \in batch', f.fd \in Fds
      PROVE  FreshOrExpired(f)'
  <2>1. f \in Events /\ FreshOrExpired(f) /\ f.of \in Sessions
    BY <1>6, <1>8 DEF Inv, TypeOK, EventInv, Pending, FreshOrExpired
  <2>2. stage[f.of] = "expired" => stage'[f.of] = "expired"
    BY <1>3, <1>4, <2>1
  <2>3. Least(Free) \in Free /\ Least(Free) \in Fds
    BY LeastFree DEF Accept, Refuse
  <2>4. sock[f.fd] = f.of => f.fd # Least(Free)
    BY <2>1, <2>3, TcpAssumption DEF Free
  <2>5. sock[f.fd] = f.of => sock'[f.fd] = f.of
    BY <1>2, <1>8, <2>4 DEF Inv, TypeOK
  <2>6. Readable(f.of) => Readable(f.of)'
    BY <1>1 DEF Readable
  <2> QED BY <1>1, <2>1, <2>2, <2>5, <2>6, FreshKept
<1> QED BY <1>1, <1>7, <1>8 DEF EventInv, Pending

LEMMA ReceiveEvents ==
  ASSUME Inv, Receive \/ ReceiveAndAnswer
  PROVE  BatchInv' /\ EventInv'
<1>1. /\ pc = "recv" /\ (pc' = "dispatch" \/ (pc' = "send" /\ cur' = cur))
      /\ batch' = batch /\ link' = link /\ stage' = stage /\ sock' = sock
      /\ unread' = [unread EXCEPT ![sock[cur.fd]] = @ - 1]
  BY DEF Receive, ReceiveAndAnswer, RecvData, BackToLoop
<1>2. cur.fd \in Fds /\ sock[cur.fd] # NoSession /\ \A e \in batch : e.fd # cur.fd
  BY <1>1 DEF Inv, BatchInv
<1>3. BatchInv'
  BY <1>1 DEF Inv, BatchInv, Waiting
<1>4. ASSUME NEW e \in batch, e.fd \in Fds
      PROVE  FreshOrExpired(e)'
  <2>1. e \in Events /\ FreshOrExpired(e) /\ e.of \in Sessions
    BY <1>4 DEF Inv, TypeOK, EventInv, Pending, FreshOrExpired
  <2>2. sock[e.fd] = e.of => e.of # sock[cur.fd]
    BY <1>2, <1>4 DEF Inv, TablesMatchKernel
  <2>3. sock[e.fd] = e.of => unread'[e.of] = unread[e.of]
    BY <1>1, <2>1, <2>2 DEF Inv, TypeOK
  <2>4. sock[e.fd] = e.of /\ Readable(e.of) => Readable(e.of)'
    BY <1>1, <2>3 DEF Readable
  <2> QED BY <1>1, <2>1, <2>4, FreshKept
<1> QED BY <1>1, <1>3, <1>4 DEF EventInv, Pending

\* What a client does leaves its events good.
LEMMA ClientEvents ==
  ASSUME Inv, Client
  PROVE  BatchInv' /\ EventInv'
<1>1. sock' = sock /\ pc' = pc /\ batch' = batch /\ cur' = cur
  BY DEF Client, ClientStep, Connect, Send, Shut, Reset
<1>2. \A s \in Sessions : stage[s] # "new" => stage'[s] = stage[s]
  BY DEF Client, ClientStep, Connect, Send, Shut, Reset, Inv, TypeOK
<1>3. ASSUME NEW s \in Sessions
      PROVE  (Readable(s) => Readable(s)') /\ (link[s] = "reset" => link'[s] = "reset")
  <2>1. unread'[s] = unread[s] \/ unread'[s] = unread[s] + 1
    BY DEF Client, ClientStep, Connect, Send, Shut, Reset, clientVars, Inv, TypeOK
  <2>2. link'[s] = link[s] \/ link'[s] = "reset" \/ (link[s] = "up" /\ link'[s] = "shut")
    BY DEF Client, ClientStep, Connect, Send, Shut, Reset, clientVars, Inv, TypeOK
  <2>3. unread[s] \in Nat
    BY DEF Inv, TypeOK
  <2> QED BY <2>1, <2>2, <2>3 DEF Readable
<1>4. \A p \in Ports : Waiting(p) \subseteq Waiting(p)'
  BY <1>2 DEF Waiting
<1>5. BatchInv'
  BY <1>1, <1>4 DEF Inv, BatchInv
<1>6. ASSUME NEW e \in Pending, e.fd \in Fds
      PROVE  FreshOrExpired(e)'
  <2>1. e \in Events /\ FreshOrExpired(e) /\ e.of \in Sessions
    BY <1>6 DEF Inv, TypeOK, EventInv, Pending, FreshOrExpired
  <2> QED BY <1>1, <1>2, <1>3, <2>1, FreshKept
<1>7. Pending' = Pending
  BY <1>1 DEF Pending
<1> QED BY <1>5, <1>6, <1>7 DEF EventInv

LEMMA EventStep ==
  ASSUME Inv, [Next]_vars
  PROVE  BatchInv' /\ EventInv'
\* Steps that change neither sessions nor descriptors and add no event.
<1>1. ASSUME UNCHANGED <<stage, link, unread, sock>>, batch' \subseteq batch,
             pc' \notin {"recv", "send"} \/ UNCHANGED <<pc, cur>>
      PROVE  BatchInv' /\ EventInv'
  <2>1. \A p \in Ports : Waiting(p)' = Waiting(p)
    BY <1>1 DEF Waiting
  <2>2. BatchInv'
    BY <1>1, <2>1 DEF Inv, BatchInv
  <2>3. Pending' \subseteq Pending
    BY <1>1 DEF Pending
  <2>4. ASSUME NEW e PROVE FreshOrExpired(e)' <=> FreshOrExpired(e)
    BY <1>1 DEF FreshOrExpired, Readable
  <2> QED BY <2>2, <2>3, <2>4 DEF Inv, EventInv
<1>2. CASE Client
  BY <1>2, ClientEvents
<1>3. CASE EpollWait
  <2>1. batch' \subseteq Ready /\ pc' \notin {"recv", "send"}
        /\ UNCHANGED <<stage, link, unread, sock>>
    BY <1>3 DEF EpollWait, clientVars
  <2>2. \A p \in Ports : Waiting(p)' = Waiting(p)
    BY <2>1 DEF Waiting
  <2>3. \A e \in batch' : e.fd \in Fds => FreshOrExpired(e)'
    BY <2>1, ReadyFresh DEF Inv, FreshOrExpired, Readable
  <2> QED BY <2>1, <2>2, <2>3, ReadyFresh DEF Inv, BatchInv, EventInv, Pending
<1>4. ASSUME NEW elapsed \in 0..MaxElapsed, OnTimer(elapsed) PROVE BatchInv' /\ EventInv'
  BY <1>1, <1>4 DEF OnTimer, clientVars
<1>5. CASE Sweep
  BY <1>5, SweepEvents
<1>6. CASE NextRound \/ Notify
  BY <1>1, <1>6 DEF NextRound, Notify, clientVars, BackToLoop
<1>7. ASSUME NEW e \in batch, Accept(e) \/ Refuse(e) PROVE BatchInv' /\ EventInv'
  BY <1>7, AcceptEvents
<1>8. ASSUME NEW e \in batch, AcceptFails(e) \/ Ignore(e) PROVE BatchInv' /\ EventInv'
  BY <1>1, <1>8 DEF AcceptFails, Ignore, clientVars, Take
<1>9. ASSUME NEW e \in batch, HangUp(e) PROVE BatchInv' /\ EventInv'
  <2>1. \A f \in batch' : f.fd # e.fd
    BY <1>9 DEF HangUp, Inv, BatchInv, Take
  <2> QED BY <1>9, <2>1, DisconnectEvents DEF HangUp, clientVars, Inv, Take
<1>10. ASSUME NEW e \in batch, Input(e) PROVE BatchInv' /\ EventInv'
  <2>1. /\ batch' = batch \ {e} /\ cur' = e /\ pc = "dispatch" /\ pc' = "recv"
        /\ UNCHANGED <<stage, link, unread, sock>> /\ e.fd \in Held
    BY <1>10 DEF Input, Dispatching, clientVars, Take
  <2>2. e.fd \in Fds /\ sock[e.fd] # NoSession
    BY <2>1 DEF Held, Inv, TypeOK, ScanTypeOK, TablesMatchKernel
  <2>3. \A f \in batch' : f.fd # e.fd
    BY <2>1 DEF Inv, BatchInv
  <2>4. \A p \in Ports : Waiting(p)' = Waiting(p)
    BY <2>1 DEF Waiting
  <2>5. BatchInv'
    BY <2>1, <2>2, <2>3, <2>4 DEF Inv, BatchInv
  <2>6. Pending' = batch
    BY <2>1 DEF Pending
  <2>7. ASSUME NEW f PROVE FreshOrExpired(f)' <=> FreshOrExpired(f)
    BY <2>1 DEF FreshOrExpired, Readable
  <2>8. \A f \in batch : f.fd \in Fds => FreshOrExpired(f)
    BY DEF Inv, EventInv, Pending
  <2> QED BY <2>5, <2>6, <2>7, <2>8 DEF EventInv
<1>11. CASE Receive \/ ReceiveAndAnswer
  BY <1>11, ReceiveEvents
<1>12. CASE ReceiveAndClose \/ ReceiveEnd
  <2>1. /\ pc = "recv" /\ Disconnect(cur.fd) /\ batch' = batch /\ link' = link
        /\ \A s \in Sessions : s # sock[cur.fd] => unread'[s] = unread[s]
    BY <1>12 DEF ReceiveAndClose, ReceiveEnd, clientVars, Inv, TypeOK, RecvData
  <2>2. \A e \in batch : e.fd # cur.fd
    BY <2>1 DEF Inv, BatchInv
  <2> QED BY <2>1, <2>2, DisconnectEvents DEF Inv
<1>13. CASE Answered
  <2>1. CASE Disconnect(cur.fd)
    <3>1. \A e \in batch : e.fd # cur.fd
      BY <1>13 DEF Answered, Inv, BatchInv
    <3> QED BY <1>13, <2>1, <3>1, DisconnectEvents DEF Answered, clientVars, Inv
  <2>2. CASE ~Disconnect(cur.fd)
    BY <1>1, <1>13, <2>2 DEF Answered, BackToLoop, clientVars
  <2> QED BY <2>1, <2>2
<1>14. CASE UNCHANGED vars
  BY <1>1, <1>14 DEF vars, clientVars
<1> QED BY <1>2, <1>3, <1>4, <1>5, <1>6, <1>7, <1>8, <1>9, <1>10, <1>11, <1>12, <1>13,
           <1>14
        DEF Next, Thread, Handle, SendFails

-----------------------------------------------------------------------------
\* What the invariant says of the properties.
LEMMA InvGives ==
  Inv => /\ TypeOK /\ TablesMatchKernel /\ StaleOnlyByExpiry
         /\ RecvBlocksOnlyAfterExpiry /\ AcceptNeverBlocks
<1>1. ASSUME Inv, RecvBlocked
      PROVE  stage[cur.of] = "expired"
  <2>1. pc = "recv" /\ ~Readable(sock[cur.fd])
    BY <1>1 DEF RecvBlocked
  <2>2. cur \in Pending /\ cur.fd \in Fds
    BY <1>1, <2>1 DEF Pending, Inv, BatchInv
  <2>3. FreshOrExpired(cur)
    BY <1>1, <2>2 DEF Inv, EventInv
  <2> QED BY <2>1, <2>3 DEF FreshOrExpired
<1>2. Inv => StaleOnlyByExpiry
  BY DEF Inv, EventInv, FreshOrExpired, StaleOnlyByExpiry
<1> QED BY <1>1, <1>2 DEF Inv, BatchInv, RecvBlocksOnlyAfterExpiry, AcceptNeverBlocks

\* A session whose client is there and has sent nothing, closed by this step.
ClosedAlive(s) ==
  /\ stage[s] = "served" /\ stage'[s] = "closed" /\ link[s] = "up" /\ unread[s] = 0
  /\ pc # "send"

LEMMA LiveSessionStep ==
  ASSUME Inv, [Next]_vars, NEW s \in Sessions, ClosedAlive(s)
  PROVE  \E e \in batch : e.fd \in Fds /\ sock[e.fd] = s /\ stage[e.of] = "expired"
<1> SUFFICES ASSUME stage[s] = "served", stage'[s] = "closed",
                    link[s] = "up", unread[s] = 0, pc # "send"
             PROVE  \E e \in batch : e.fd \in Fds /\ sock[e.fd] = s
                                     /\ stage[e.of] = "expired"
  BY DEF ClosedAlive
<1>1. CASE \/ Client \/ EpollWait \/ NextRound \/ Receive \/ ReceiveAndAnswer
           \/ Notify \/ Answered \/ UNCHANGED vars
  BY <1>1 DEF Client, ClientStep, Connect, Send, Shut, Reset, EpollWait, NextRound,
              Receive, ReceiveAndAnswer, Notify, Answered, vars, Inv, TypeOK
<1>2. ~\E elapsed \in 0..MaxElapsed : OnTimer(elapsed)
  BY DEF OnTimer
<1>3. ~Sweep
  BY SweepTables DEF Inv
<1>4. ASSUME NEW e \in batch,
             Accept(e) \/ Refuse(e) \/ AcceptFails(e) \/ Ignore(e) \/ Input(e)
      PROVE  FALSE
  BY <1>4 DEF Accept, Refuse, AcceptFails, Ignore, Input, Inv, TypeOK
<1>5. ASSUME NEW e \in batch, HangUp(e)
      PROVE  \E f \in batch : f.fd \in Fds /\ sock[f.fd] = s /\ stage[f.of] = "expired"
  <2>1. e.hup /\ Disconnect(e.fd)
    BY <1>5 DEF HangUp
  <2>2. e.fd \in Fds /\ stage' = [stage EXCEPT ![sock[e.fd]] = "closed"]
    BY <2>1, DisconnectTables DEF Inv
  <2>3. sock[e.fd] = s
    BY <2>2 DEF Inv, TypeOK
  <2>4. FreshOrExpired(e)
    BY <2>2 DEF Inv, EventInv, Pending
  <2> QED BY <2>1, <2>2, <2>3, <2>4 DEF FreshOrExpired
<1>6. ~(ReceiveAndClose \/ ReceiveEnd)
  <2> SUFFICES ASSUME ReceiveAndClose \/ ReceiveEnd PROVE FALSE
    OBVIOUS
  <2>1. Disconnect(cur.fd) /\ (unread[sock[cur.fd]] > 0 \/ link[sock[cur.fd]] # "up")
    BY DEF ReceiveAndClose, ReceiveEnd, RecvData
  <2>2. stage' = [stage EXCEPT ![sock[cur.fd]] = "closed"]
    BY <2>1, DisconnectTables DEF Inv
  <2>3. sock[cur.fd] = s
    BY <2>2 DEF Inv, TypeOK
  <2> QED BY <2>1, <2>3
<1> QED BY <1>1, <1>2, <1>3, <1>4, <1>5, <1>6
        DEF Next, Thread, Handle, SendFails

-----------------------------------------------------------------------------
(* The theorems.                                                           *)

THEOREM InvInit == Init => Inv
<1> SUFFICES ASSUME Init PROVE Inv
  OBVIOUS
<1>1. TypeOK
  <2>1. ScanTypeOK
    BY ScanAssumption DEF Init, ScanInit, ScanTypeOK, NoFd, EndPort
  <2> QED BY <2>1, TcpAssumption DEF Init, TypeOK, Stages, Events, NoEvent
<1>2. TablesMatchKernel
  BY TcpAssumption DEF Init, ScanInit, TablesMatchKernel
<1>3. BatchInv /\ EventInv
  BY DEF Init, BatchInv, EventInv, Pending
<1> QED BY <1>1, <1>2, <1>3 DEF Inv

LEMMA InvStep == Inv /\ [Next]_vars => Inv'
BY TypeStep, TablesStep, EventStep DEF Inv

\* The invariant: types, tables, and what is known of each event of the batch.
THEOREM InvCorrect == Spec => []Inv
<1> QED BY InvInit, InvStep, PTL DEF Spec

\* Every variable has its type in every state (the event loop of multiplexer.cpp
\* with the handlers of tcp_server.cpp).
THEOREM TypeCorrect == Spec => []TypeOK
<1> QED BY InvGives, InvCorrect, PTL

\* The maps of the listening ports hold exactly the open sockets, for any number
\* of clients, ports and descriptors (OnEvent, Disconnect and
\* EraseExpiredConnections leave no socket open without a connection, nor a
\* connection under a closed or reused descriptor).
THEOREM TablesCorrect == Spec => []TablesMatchKernel
<1> QED BY InvGives, InvCorrect, PTL

\* An event is handled for the session it was raised for, unless the sweep of
\* the same round closed that session (MainThread's loop over events[]); so recv
\* blocks the thread only on behalf of a session that timed out (ReceiveData, on
\* sockets left in blocking mode), and accept never does.
THEOREM EventsCorrect ==
  Spec => [](StaleOnlyByExpiry /\ RecvBlocksOnlyAfterExpiry /\ AcceptNeverBlocks)
<1> QED BY InvGives, InvCorrect, PTL

\* A session whose client is there and has sent nothing is closed by a handler
\* only on account of an event that a timed-out session left on its descriptor
\* (OnDisconnect(fd) and ConnectionProcessing).
THEOREM LiveSessionCorrect == Spec => LiveSessionKept
<1> DEFINE Kept == \A s \in Sessions :
      stage[s] = "served" /\ stage'[s] = "closed" /\ link[s] = "up" /\ unread[s] = 0
      /\ pc # "send"
      => \E e \in batch : e.fd \in Fds /\ sock[e.fd] = s /\ stage[e.of] = "expired"
<1>1. Inv /\ [Next]_vars => Kept
  BY LiveSessionStep DEF ClosedAlive
<1>2. Inv /\ [Next]_vars => [Kept]_vars
  BY <1>1
<1> QED BY <1>2, InvCorrect, PTL DEF Spec, LiveSessionKept

\* The event loop uses the tables as ExpiryScan says: it implements ScanSpec, so
\* what is proved of the sweep holds inside the server.
THEOREM ServerImplementsScan == Spec => ScanSpec
<1>1. Init => ScanInit
  BY DEF Init
<1>2. TypeOK /\ [Next]_vars => [ScanNext]_scanVars
  BY StepIsScanStep
<1> QED BY <1>1, <1>2, TypeCorrect, PTL DEF Spec, ScanSpec

-----------------------------------------------------------------------------
(* The event loop of TcpServer implements the contract of SessionContract. *)

\* OnConnect was called when the session left the listen queue, OnDisconnect
\* only once it was closed, and the two changes of a session that the handlers
\* close happen one right after the other.
ContractInv ==
  /\ \A s \in Sessions : told[s] = "nothing" <=> stage[s] \in {"new", "queued"}
  /\ \A s \in Sessions : told[s] = "disconnect" => stage[s] = "closed"
  /\ \A s \in Sessions :
       stage[s] = "closed" /\ told[s] = "connect" <=> pc = "notify" /\ cur.of = s
  /\ pc = "notify" => cur.of \in Sessions

\* What the contract sees of a step that leaves stage and told alone is nothing.
LEMMA LifeSame ==
  ASSUME UNCHANGED <<stage, told>>
  PROVE  UNCHANGED [s \in Sessions |-> Life(s)]
BY DEF Life

\* What the contract sees of one session.
LEMMA LifeOfSession ==
  ASSUME TypeOK, ContractInv, NEW s \in Sessions
  PROVE  /\ stage[s] \in {"new", "queued"} => Life(s) = "outside"
         /\ stage[s] = "served" => Life(s) = "open"
         /\ stage[s] \in {"expired", "refused"} => Life(s) = "dropped"
         /\ stage[s] = "closed" /\ told[s] = "connect" => Life(s) = "closing"
         /\ stage[s] = "closed" /\ told[s] = "disconnect" => Life(s) = "reported"
BY DEF TypeOK, ContractInv, Life, Stages

LEMMA ContractStep ==
  ASSUME Inv, ContractInv, [Next]_vars
  PROVE  ContractInv'
<1>1. ASSUME UNCHANGED <<stage, told>>, pc # "notify", pc' # "notify"
      PROVE  ContractInv'
  BY <1>1 DEF ContractInv
<1>2. CASE Client
  BY <1>2 DEF Client, ClientStep, Connect, Send, Shut, Reset, ContractInv, Inv, TypeOK
<1>3. CASE EpollWait \/ NextRound \/ Receive \/ ReceiveAndAnswer
  BY <1>1, <1>3 DEF EpollWait, NextRound, Receive, ReceiveAndAnswer,
                          Dispatching, RecvData, BackToLoop
<1>4. ASSUME NEW elapsed \in 0..MaxElapsed, OnTimer(elapsed) PROVE ContractInv'
  BY <1>1, <1>4 DEF OnTimer
<1>5. CASE Sweep
  <2>1. pc = "dispatch" /\ pc' = pc /\ told' = told
    BY <1>5 DEF Sweep
  <2>2. \A s \in Sessions :
          stage'[s] = stage[s] \/ (stage[s] = "served" /\ stage'[s] = "expired")
    BY <1>5, SweptSessions DEF Inv
  <2> QED BY <2>1, <2>2 DEF ContractInv
<1>6. ASSUME NEW e \in batch, Accept(e) \/ Refuse(e) PROVE ContractInv'
  <2>1. PICK s \in Sessions :
          /\ stage[s] = "queued" /\ told' = [told EXCEPT ![s] = "connect"]
          /\ \/ stage' = [stage EXCEPT ![s] = "served"]
             \/ stage' = [stage EXCEPT ![s] = "refused"]
    BY <1>6 DEF Accept, Refuse, Waiting
  <2>2. pc = "dispatch" /\ pc' = pc
    BY <1>6 DEF Accept, Refuse, Dispatching, Take
  <2> QED BY <2>1, <2>2 DEF ContractInv, Inv, TypeOK
<1>7. ASSUME NEW e \in batch, AcceptFails(e) \/ Ignore(e) \/ Input(e) PROVE ContractInv'
  BY <1>1, <1>7 DEF AcceptFails, Ignore, Input, Dispatching, Take
<1>8. ASSUME NEW fd, Disconnect(fd), told' = told, pc # "notify" PROVE ContractInv'
  <2>1. /\ sock[fd] \in Sessions /\ stage[sock[fd]] = "served"
        /\ stage' = [stage EXCEPT ![sock[fd]] = "closed"]
    BY <1>8, DisconnectTables DEF Inv
  <2>2. pc' = "notify" /\ cur'.of = sock[fd]
    BY <1>8 DEF Disconnect
  <2>3. told[sock[fd]] = "connect"
    BY <2>1 DEF ContractInv, Inv, TypeOK
  <2> QED BY <1>8, <2>1, <2>2, <2>3 DEF ContractInv, Inv, TypeOK
<1>9. ASSUME NEW e \in batch, HangUp(e) PROVE ContractInv'
  BY <1>8, <1>9 DEF HangUp, Dispatching, Take
<1>10. CASE ReceiveAndClose \/ ReceiveEnd
  BY <1>8, <1>10 DEF ReceiveAndClose, ReceiveEnd, RecvData
<1>11. CASE Notify
  <2>1. pc = "notify" /\ pc' = "dispatch" /\ stage' = stage
        /\ told' = [told EXCEPT ![cur.of] = "disconnect"]
    BY <1>11 DEF Notify, BackToLoop
  <2> QED BY <2>1 DEF ContractInv, Inv, TypeOK
<1>12. CASE Answered
  BY <1>1, <1>8, <1>12 DEF Answered, BackToLoop
<1>13. CASE UNCHANGED vars
  BY <1>13 DEF vars, ContractInv
<1> QED BY <1>2, <1>3, <1>4, <1>5, <1>6, <1>7, <1>9, <1>10, <1>11, <1>12, <1>13
        DEF Next, Thread, Handle, SendFails

\* One session's part of the contract changes, the others' does not.
LEMMA LifeStep ==
  ASSUME NEW s \in Sessions, NEW v, Life(s)' = v,
         \A t \in Sessions : t # s => stage'[t] = stage[t] /\ told'[t] = told[t]
  PROVE  [t \in Sessions |-> Life(t)]' = [[t \in Sessions |-> Life(t)] EXCEPT ![s] = v]
<1>1. \A t \in Sessions : t # s => Life(t)' = Life(t)
  BY DEF Life
<1> QED BY <1>1

LEMMA QuietUnlessNotify ==
  ASSUME TypeOK, ContractInv, pc # "notify"
  PROVE  Contract!Quiet
<1>1. ASSUME NEW s \in Sessions
      PROVE  Life(s) # "closing"
  BY <1>1 DEF Life, ContractInv, TypeOK
<1> QED BY <1>1 DEF Contract!Quiet

\* Every step of the server is a step of the contract, or one it does not see.
LEMMA ContractNext ==
  ASSUME Inv, ContractInv, ContractInv', TypeOK', [Next]_vars
  PROVE  [Contract!Next]_([s \in Sessions |-> Life(s)])
<1> DEFINE life == [s \in Sessions |-> Life(s)]
<1>1. ASSUME UNCHANGED <<stage, told>>
      PROVE  UNCHANGED life
  BY <1>1, LifeSame
<1>2. CASE Client
  <2>1. ASSUME NEW s \in Sessions, Connect(s)
        PROVE  UNCHANGED life
    <3>1. stage' = [stage EXCEPT ![s] = "queued"] /\ told' = told /\ stage[s] = "new"
      BY <2>1 DEF Connect
    <3>2. told[s] = "nothing"
      BY <3>1 DEF ContractInv
    <3>3. \A t \in Sessions : Life(t)' = Life(t)
      BY <3>1, <3>2 DEF Life, Inv, TypeOK
    <3> QED BY <3>3
  <2> QED BY <1>1, <1>2, <2>1 DEF Client, ClientStep, Send, Shut, Reset
<1>3. CASE EpollWait \/ NextRound \/ Receive \/ ReceiveAndAnswer
  BY <1>1, <1>3 DEF EpollWait, NextRound, Receive, ReceiveAndAnswer
<1>4. ASSUME NEW elapsed \in 0..MaxElapsed, OnTimer(elapsed)
      PROVE  UNCHANGED life
  BY <1>1, <1>4 DEF OnTimer
<1>5. CASE Sweep
  <2> DEFINE lost == {s \in Sessions : stage[s] = "served" /\ stage'[s] = "expired"}
  <2>1. /\ pc # "notify" /\ told' = told
        /\ \A s \in Sessions : s \notin lost => stage'[s] = stage[s]
    BY <1>5, SweptSessions DEF Sweep, Inv
  <2>2. \A s \in lost : Life(s) = "open" /\ Life(s)' = "dropped"
    BY <2>1, LifeOfSession DEF Life, ContractInv, Inv, TypeOK
  <2>3. \A s \in Sessions : s \notin lost => Life(s)' = Life(s)
    BY <2>1 DEF Life
  <2> HIDE DEF lost
  <2>4. life' = [s \in Sessions |-> IF s \in lost THEN "dropped" ELSE life[s]]
    BY <2>2, <2>3
  <2>5. CASE lost = {}
    BY <2>4, <2>5
  <2>6. CASE lost # {}
    <3>1. lost \in SUBSET Sessions
      BY DEF lost
    <3>2. Contract!Expire(lost)
      BY <2>1, <2>2, <2>4, <2>6, <3>1, QuietUnlessNotify DEF Contract!Expire, Inv
    <3> QED BY <3>1, <3>2 DEF Contract!Next
  <2> QED BY <2>5, <2>6
<1>6. ASSUME NEW e \in batch, Accept(e) \/ Refuse(e)
      PROVE  Contract!Next
  <2>1. PICK s \in Sessions :
          /\ stage[s] = "queued" /\ told' = [told EXCEPT ![s] = "connect"]
          /\ \/ stage' = [stage EXCEPT ![s] = "served"]
             \/ stage' = [stage EXCEPT ![s] = "refused"]
    BY <1>6 DEF Accept, Refuse, Waiting
  <2>2. Contract!Quiet
    BY <1>6, QuietUnlessNotify DEF Accept, Refuse, Dispatching, Inv, Take
  <2>3. life[s] = "outside"
    BY <2>1, LifeOfSession DEF Inv
  <2>4. \A t \in Sessions : t # s => stage'[t] = stage[t] /\ told'[t] = told[t]
    BY <2>1 DEF Inv, TypeOK
  <2>5. told'[s] = "connect" /\ stage'[s] \in {"served", "refused"}
    BY <2>1 DEF Inv, TypeOK
  <2>6. CASE stage'[s] = "served"
    <3>1. Life(s)' = "open"
      BY <2>5, <2>6 DEF Life
    <3> QED BY <2>2, <2>3, <2>4, <3>1, LifeStep DEF Contract!Next, Contract!Open
  <2>7. CASE stage'[s] = "refused"
    <3>1. Life(s)' = "dropped"
      BY <2>5, <2>7 DEF Life
    <3> QED BY <2>2, <2>3, <2>4, <3>1, LifeStep DEF Contract!Next, Contract!Refuse
  <2> QED BY <2>5, <2>6, <2>7
<1>7. ASSUME NEW e \in batch, AcceptFails(e) \/ Ignore(e) \/ Input(e)
      PROVE  UNCHANGED life
  BY <1>1, <1>7 DEF AcceptFails, Ignore, Input
<1>8. ASSUME NEW fd, Disconnect(fd), told' = told, pc # "notify"
      PROVE  Contract!Next
  <2>1. PICK s \in Sessions : stage[s] = "served" /\ stage' = [stage EXCEPT ![s] = "closed"]
    BY <1>8, DisconnectTables DEF Inv
  <2>2. Contract!Quiet
    BY <1>8, QuietUnlessNotify DEF Inv
  <2>3. life[s] = "open" /\ told[s] = "connect"
    BY <2>1, LifeOfSession DEF Inv, ContractInv, TypeOK
  <2>4. Life(s)' = "closing"
    BY <1>8, <2>1, <2>3 DEF Life, Inv, TypeOK
  <2>5. \A t \in Sessions : t # s => stage'[t] = stage[t] /\ told'[t] = told[t]
    BY <1>8, <2>1 DEF Inv, TypeOK
  <2> QED BY <2>2, <2>3, <2>4, <2>5, LifeStep DEF Contract!Next, Contract!Close
<1>9. ASSUME NEW e \in batch, HangUp(e)
      PROVE  Contract!Next
  BY <1>8, <1>9 DEF HangUp, Dispatching, Take
<1>10. CASE ReceiveAndClose \/ ReceiveEnd
  BY <1>8, <1>10 DEF ReceiveAndClose, ReceiveEnd, RecvData
<1>11. CASE Notify
  <2>1. pc = "notify" /\ stage' = stage /\ told' = [told EXCEPT ![cur.of] = "disconnect"]
    BY <1>11 DEF Notify
  <2>2. PICK s \in Sessions : s = cur.of
    BY <2>1 DEF ContractInv
  <2>3. life[s] = "closing"
    BY <2>1, <2>2, LifeOfSession DEF Inv, ContractInv
  <2>4. Life(s)' = "reported"
    BY <2>1, <2>2 DEF Life, Inv, TypeOK
  <2>5. \A t \in Sessions : t # s => stage'[t] = stage[t] /\ told'[t] = told[t]
    BY <2>1, <2>2 DEF Inv, TypeOK
  <2> QED BY <2>3, <2>4, <2>5, LifeStep DEF Contract!Next, Contract!Report
<1>12. CASE Answered
  BY <1>1, <1>8, <1>12 DEF Answered
<1>13. CASE UNCHANGED vars
  BY <1>1, <1>13 DEF vars
<1> QED BY <1>2, <1>3, <1>4, <1>5, <1>6, <1>7, <1>9, <1>10, <1>11, <1>12, <1>13
        DEF Next, Thread, Handle, SendFails

\* The event loop implements SessionContract, for any number of sessions: each
\* session is opened once, reported at most once and right after it was closed,
\* and nothing is reported of one that was not opened (OnEvent, Disconnect and
\* EraseExpiredConnections with the callbacks of a derived class).
THEOREM ServerKeepsContract == Spec => ContractKept
<1>1. Init => ContractInv /\ Contract!Init
  <2> SUFFICES ASSUME Init PROVE ContractInv /\ Contract!Init
    OBVIOUS
  <2>1. ContractInv
    BY DEF Init, ContractInv
  <2>2. \A s \in Sessions : Life(s) = "outside"
    BY DEF Init, Life
  <2> QED BY <2>1, <2>2 DEF Contract!Init
<1>2. Inv /\ ContractInv /\ [Next]_vars => ContractInv'
  BY ContractStep
<1>3. Spec => []ContractInv
  BY <1>1, <1>2, InvCorrect, PTL DEF Spec
<1>4. Inv /\ ContractInv /\ ContractInv' /\ [Next]_vars
      => [Contract!Next]_([s \in Sessions |-> Life(s)])
  BY ContractNext, TypeStep DEF Inv
<1> QED BY <1>1, <1>3, <1>4, InvCorrect, PTL DEF Spec, ContractKept, Contract!Spec
=============================================================================

------------------------------- MODULE DbLinks -------------------------------
(***************************************************************************)
(* The database client under the event loop, when the database goes away.  *)
(*                                                                         *)
(* A descriptor whose peer has gone raises EPOLLHUP or EPOLLERR, for which *)
(* MainThread calls OnDisconnect; and that looks for a client's connection *)
(* and returns when there is none.  So the database client is never told   *)
(* that it lost a connection.  A peer that only closed its side raises     *)
(* EPOLLIN: DataProcessing calls CheckResult if a query is under way, and  *)
(* does nothing for a free connection, which stays "ready" and takes the   *)
(* next query.  What is left is the timer: a query that expires, a ping.   *)
(***************************************************************************)
EXTENDS DbClient

VARIABLE link  \* "up", or "lost": the database closed or reset the connection

linkVars == <<vars, link>>

LinkInit == Init /\ link = [c \in Conns |-> "up"]

\* A connection that is replaced is made anew.
Relinked == link' = [c \in Conns |-> IF status'[c] = "wait" THEN "up" ELSE link[c]]

Lose(c) ==
  /\ status[c] = "ready" /\ link[c] = "up"
  /\ link' = [link EXCEPT ![c] = "lost"]
  /\ UNCHANGED vars

\* No answer comes on a lost connection; CheckResult may find the end of it.
LinkEvent(c) ==
  /\ DataProcessing(c)
  /\ Answered(c) => link[c] = "up"
  /\ Relinked

PingFails_m1(c) == TRUE

\* A ping on a lost connection fails.
PingFails(c) == Ping(c) /\ link[c] = "lost" => status'[c] = "error"

LinkTimerStep(c) == TimerStep(c) /\ PingFails(c) /\ Relinked

CallGoesOn ==
  \/ OnTimerEnds /\ Relinked
  \/ \E c \in Conns : (ResultReturns(c) /\ Relinked) \/ LinkTimerStep(c)

LinkOnTimer(elapsed) == OnTimer(elapsed) /\ Relinked

LinkNext ==
  \/ \E q \in Queries : (QuerySent(q) \/ QueryQueued(q)) /\ Relinked
  \/ \E c \in Conns : Lose(c) \/ LinkEvent(c)
  \/ \E elapsed \in 0..MaxElapsed : LinkOnTimer(elapsed)
  \/ CallGoesOn

LinkSpec == LinkInit /\ [][LinkNext]_linkVars

\* The calls that were started end, and OnTimer is called with a later time again
\* and again (the event loop calls it every 100 ms).  Nothing is assumed of the
\* database: it may never answer, and no connect need succeed.
Fairness ==
  /\ WF_linkVars(CallGoesOn)
  /\ SF_linkVars(\E elapsed \in 1..MaxElapsed : LinkOnTimer(elapsed))

LinkFairSpec == LinkSpec /\ Fairness

-----------------------------------------------------------------------------
\* A connection the database has closed or reset is replaced in the end, whether
\* it was free or had a query, and whatever queries come, although no event says
\* so (OnDisconnect of TCPServer, DataProcessing).
LostReplaced == \A c \in Conns : Reached(c) => (link[c] = "lost" ~> link[c] = "up")
=============================================================================

----------------------------- MODULE ScanCoverage -----------------------------
(***************************************************************************)
(* ExpiryScan with a history variable that remembers, from one call of     *)
(* EraseExpiredConnections to the next, which connections the sweep still  *)
(* owes a look.  A cycle of calls starts when one starts at begin() of the *)
(* first port; the calls after it resume from last_checked_fd, which may   *)
(* have gone, come back or been lost in the meantime.                      *)
(*                                                                         *)
(* No step of ExpiryScan depends on the variable or is restrained by it.   *)
(***************************************************************************)
EXTENDS ExpiryScan

VARIABLE unseen   \* there since the cycle started, and not looked at in it

coverVars == <<scanVars, unseen>>

CoverInit == ScanInit /\ unseen = {}

\* A connection that leaves, or whose descriptor is taken again, is not owed.
CoverServe == Serve /\ unseen' = unseen \cap Held'

CoverClockTick(elapsed) == ClockTick(elapsed) /\ UNCHANGED unseen

\* begin() of the first port starts a cycle, begin() of another goes on with it.
CoverFromBegin ==
  /\ FromBegin
  /\ unseen' = (IF it = Least(Ports) THEN Held ELSE unseen) \ Visited(conns[it])

CoverResume == Resume /\ unseen' = unseen \ Visited(After)

CoverResumeLost ==
  /\ PositionLost
  /\ \E start \in PastTheEnd(conns[it]) :
       /\ Round(it, From(start), Greatest(Ports))
       /\ unseen' = unseen \ Visited(From(start))

CoverEnd == (ResumeHangs \/ Finish) /\ UNCHANGED unseen

CoverSweep == CoverFromBegin \/ CoverResume \/ CoverResumeLost \/ CoverEnd

CoverNext ==
  \/ CoverServe
  \/ \E elapsed \in 0..MaxElapsed : CoverClockTick(elapsed)
  \/ CoverSweep

CoverSpec == CoverInit /\ [][CoverNext]_coverVars

CoverFairSpec == CoverSpec /\ ScanFairness

-----------------------------------------------------------------------------
\* When a sweep leaves no position to resume from, the calls of its cycle have
\* together looked at every connection that was there when it started and has
\* not left since: whatever connected, left or took a descriptor again between
\* two calls, the descriptor in last_checked_fd included, nobody was passed
\* over.  (For one listening port: EraseExpiredConnections, last_checked_fd.)
EveryoneLookedAt == phase = "off" /\ cursor = NoFd => unseen = {}
=============================================================================

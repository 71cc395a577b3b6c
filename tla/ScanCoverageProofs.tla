-------------------------- MODULE ScanCoverageProofs --------------------------
(* What TLAPS proves about the calls of a cycle together: with one         *)
(* listening port nobody is passed over, for any number of connections and *)
(* any CHECK_EXPIRED_STEP above two.                                       *)
EXTENDS ScanCoverage, ExpiryScanProofs

-----------------------------------------------------------------------------
\* The history variable restrains nothing.
LEMMA CoverStepIsStep == [CoverNext]_coverVars => [ScanNext]_scanVars
<1> SUFFICES ASSUME [CoverNext]_coverVars PROVE [ScanNext]_scanVars
  OBVIOUS
<1>1. CASE CoverServe
  BY <1>1 DEF CoverServe, ScanNext
<1>2. ASSUME NEW elapsed \in 0..MaxElapsed, CoverClockTick(elapsed)
      PROVE  ScanNext
  BY <1>2 DEF CoverClockTick, ScanNext
<1>3. CASE CoverSweep
  BY <1>3 DEF CoverSweep, CoverFromBegin, CoverResume, CoverResumeLost, CoverEnd,
              ResumeLost, EraseExpiredConnections, ScanNext
<1>4. CASE UNCHANGED coverVars
  BY <1>4 DEF coverVars
<1> QED BY <1>1, <1>2, <1>3, <1>4 DEF CoverNext

LEMMA CoverImplementsScan == CoverSpec => ScanSpec
<1>1. CoverInit => ScanInit
  BY DEF CoverInit
<1> QED BY <1>1, CoverStepIsStep, PTL DEF CoverSpec, ScanSpec

-----------------------------------------------------------------------------
(* One round.                                                              *)

\* The inner loop stops for the quota with all it has not visited behind the
\* last it has, or it visits everything ahead.
LEMMA VisitedCovers ==
  ASSUME ScanTypeOK, NEW p \in Ports, NEW rest \in SUBSET conns[p]
  PROVE  IF Cardinality(Visited(rest)) = Quota
           THEN \A fd \in rest \ Visited(rest) : fd > Greatest(Visited(rest))
           ELSE Visited(rest) = rest
<1> DEFINE seen == Visited(rest)
           before(fd) == {g \in rest : g < fd}
<1>1. /\ Quota \in Nat /\ Quota >= 1
      /\ seen \in SUBSET rest
      /\ IsFiniteSet(rest) /\ rest \subseteq Int
      /\ Cardinality(seen) \in Nat /\ Cardinality(seen) <= Quota
  BY VisitedProperties, VisitedBounded
<1>2. IsFiniteSet(seen) /\ seen \subseteq Int
  BY <1>1, FS_Subset
<1>3. ASSUME NEW fd \in Int
      PROVE  IsFiniteSet(before(fd)) /\ Cardinality(before(fd)) \in Nat
  <2>1. before(fd) \in SUBSET rest
    OBVIOUS
  <2> HIDE DEF before
  <2> QED BY <1>1, <2>1, FS_Subset, FS_CardinalityType
<1>4. \A fd \in rest : fd \in seen <=> Cardinality(before(fd)) < Quota
  BY DEF Visited
<1> HIDE DEF seen
<1>5. ASSUME Cardinality(seen) = Quota, NEW fd \in rest \ seen
      PROVE  fd > Greatest(seen)
  <2> DEFINE m == Greatest(seen)
  <2>1. seen # {}
    BY <1>1, <1>5, FS_EmptySet
  <2>2. m \in seen
    BY <1>2, <2>1, GreatestExists
  <2> HIDE DEF m
  <2>3. m \in Int /\ fd \in Int /\ m # fd
    BY <1>1, <2>2
  <2>4. ASSUME fd < m PROVE FALSE
    <3>1. before(fd) \subseteq before(m)
      <4>1. ASSUME NEW g \in rest, g < fd PROVE g < m
        <5>1. g \in Int
          BY <1>1
        <5> QED BY <2>3, <2>4, <4>1, <5>1
      <4> QED BY <4>1
    <3> HIDE DEF before
    <3>2. Cardinality(before(fd)) <= Cardinality(before(m))
      BY <1>3, <2>3, <3>1, FS_Subset
    <3>3. Cardinality(before(m)) < Quota /\ ~(Cardinality(before(fd)) < Quota)
      BY <1>1, <1>4, <2>2
    <3> QED BY <1>1, <1>3, <2>3, <3>2, <3>3
  <2> QED BY <2>3, <2>4 DEF m
<1>6. ASSUME seen # rest PROVE Cardinality(seen) = Quota
  <2> DEFINE missed == rest \ seen
             f == Least(missed)
  <2>1. IsFiniteSet(missed) /\ missed \subseteq Int /\ missed # {}
    <3>1. missed \in SUBSET rest
      OBVIOUS
    <3> HIDE DEF missed
    <3>2. IsFiniteSet(missed) /\ missed \subseteq Int
      BY <1>1, <3>1, FS_Subset
    <3> QED BY <1>1, <1>6, <3>2 DEF missed
  <2>2. f \in missed /\ \A g \in missed : f <= g
    <3> HIDE DEF missed
    <3> QED BY <2>1, LeastExists
  <2> HIDE DEF f
  <2>3. f \in Int /\ f \in rest /\ f \notin seen
    BY <2>1, <2>2
  <2>4. before(f) \subseteq seen
    <3>1. ASSUME NEW g \in rest, g < f, g \notin seen PROVE FALSE
      <4>1. g \in Int /\ f <= g
        BY <1>1, <2>2, <3>1
      <4> QED BY <2>3, <3>1, <4>1
    <3> QED BY <3>1
  <2> HIDE DEF before
  <2>5. Cardinality(before(f)) <= Cardinality(seen)
    BY <1>2, <2>4, FS_Subset
  <2>6. ~(Cardinality(before(f)) < Quota)
    BY <1>4, <2>3
  <2> QED BY <1>1, <1>3, <2>3, <2>5, <2>6
<1> QED BY <1>5, <1>6 DEF seen

LEMMA OnePortHeld ==
  ASSUME NEW port, Ports = {port}
  PROVE  Held = conns[port] /\ Held' = conns'[port] /\ Least(Ports) = port
<1>1. Least(Ports) = port
  BY ScanAssumption DEF Least
<1> QED BY <1>1 DEF Held

-----------------------------------------------------------------------------
(* The invariant.  Where a call is about to resume, or a call has used its *)
(* quota, everything not looked at is behind the position; where the last  *)
(* round did not use the quota, everything was looked at.                  *)

CoverInv ==
  /\ unseen \subseteq Held
  /\ EveryoneLookedAt
  /\ cursor # NoFd => \A fd \in unseen : fd > cursor
  /\ phase = "scan" /\ it = EndPort =>
       IF counter = CheckStep THEN cursor # NoFd ELSE unseen = {}

\* A round that ends on end(), over `rest`, which has all of `owed`.
LEMMA LastRound ==
  ASSUME ScanTypeOK, SweepInv, NEW port, Ports = {port}, InScan,
         NEW rest \in SUBSET conns[port], Round(port, rest, EndPort),
         NEW owed \in SUBSET rest, unseen' = owed \ Visited(rest)
  PROVE  CoverInv'
<1> DEFINE seen == Visited(rest)
<1>1. /\ Quota \in Nat /\ Quota >= 1
      /\ seen \in SUBSET rest
      /\ Cardinality(seen) \in Nat /\ Cardinality(seen) <= Quota
      /\ Cardinality(seen) = Quota => Greatest(seen) \in rest
  BY VisitedProperties, VisitedBounded
<1>2. IF Cardinality(seen) = Quota THEN \A fd \in rest \ seen : fd > Greatest(seen)
                                   ELSE seen = rest
  BY VisitedCovers
<1>3. Quota = CheckStep - counter /\ counter \in Nat /\ CheckStep \in Nat
  BY ScanAssumption DEF SweepInv, ScanTypeOK, Quota, AtLeast
<1>4. /\ conns'[port] = conns[port] \ (seen \cap Expired(port))
      /\ cursor' = IF Cardinality(seen) = Quota THEN Greatest(seen) ELSE NoFd
      /\ counter' = counter + Cardinality(seen)
      /\ it' = EndPort /\ phase' = "scan"
  BY DEF Round, ScanTypeOK, InScan
<1>5. unseen' = owed \ seen
  OBVIOUS
<1>6. Held' = conns'[port]
  BY OnePortHeld
<1> HIDE DEF seen
<1>7. (unseen \subseteq Held)'
  BY <1>4, <1>5, <1>6
<1>8. CASE Cardinality(seen) = Quota
  <2>1. counter' = CheckStep
    BY <1>3, <1>4, <1>8
  <2>2. cursor' = Greatest(seen) /\ cursor' \in Fds
    BY <1>1, <1>4, <1>8 DEF ScanTypeOK
  <2>3. cursor' # NoFd
    BY <2>2, ScanAssumption DEF NoFd
  <2>4. \A fd \in unseen' : fd > cursor'
    BY <1>2, <1>5, <1>8, <2>2
  <2> QED BY <1>4, <1>7, <2>1, <2>3, <2>4 DEF CoverInv, EveryoneLookedAt
<1>9. CASE Cardinality(seen) # Quota
  <2>1. cursor' = NoFd /\ unseen' = {}
    BY <1>2, <1>4, <1>5, <1>9
  <2>2. counter' # CheckStep
    BY <1>1, <1>3, <1>4, <1>9
  <2> QED BY <1>4, <1>7, <2>1, <2>2 DEF CoverInv, EveryoneLookedAt
<1> QED BY <1>8, <1>9

LEMMA CoverStep ==
  ASSUME ScanTypeOK, SweepInv, CoverInv, [CoverNext]_coverVars,
         NEW port, Ports = {port}
  PROVE  CoverInv'
<1>1. PortAfter(port) = EndPort
  <2>1. ~(port > port)
    BY ScanAssumption
  <2> QED BY <2>1 DEF PortAfter
<1>2. Held = conns[port] /\ Held' = conns'[port] /\ Least(Ports) = port
  BY OnePortHeld
<1>3. port # EndPort
  BY ScanAssumption DEF EndPort
<1>4. CASE CoverServe
  <2>1. /\ phase = "off" /\ phase' = phase /\ cursor' = cursor
        /\ unseen' = unseen \cap Held'
    BY <1>4 DEF CoverServe, Serve, Insert, Touch, Remove
  <2> QED BY <2>1 DEF CoverInv, EveryoneLookedAt
<1>5. ASSUME NEW elapsed \in 0..MaxElapsed, CoverClockTick(elapsed) PROVE CoverInv'
  <2>1. /\ phase = "off" /\ cursor' = cursor /\ unseen' = unseen /\ conns' = conns
        /\ \/ phase' = "scan" /\ it' = port
           \/ phase' = phase
    BY <1>2, <1>5 DEF CoverClockTick, ClockTick
  <2> QED BY <1>2, <1>3, <2>1 DEF CoverInv, EveryoneLookedAt
<1>6. CASE CoverFromBegin
  <2>1. /\ it = port /\ InScan /\ Round(port, conns[port], EndPort)
        /\ unseen' = conns[port] \ Visited(conns[port])
    BY <1>1, <1>2, <1>6 DEF CoverFromBegin, FromBegin, InScan
  <2> QED BY <2>1, LastRound
<1>7. CASE CoverResume
  <2>1. /\ it = port /\ InScan /\ cursor \in conns[port] /\ Round(port, After, EndPort)
        /\ unseen' = unseen \ Visited(After)
    BY <1>1, <1>7 DEF CoverResume, Resume, InScan
  <2>2. After \in SUBSET conns[port]
    BY <2>1 DEF After
  <2>3. cursor # NoFd
    BY <2>1, ScanAssumption DEF ScanTypeOK, NoFd
  <2>4. unseen \in SUBSET After
    BY <1>2, <2>1, <2>3 DEF CoverInv, After
  <2> QED BY <2>1, <2>2, <2>4, LastRound
<1>8. CASE CoverResumeLost
  <2>1. PICK start \in PastTheEnd(conns[it]) :
          /\ Round(it, From(start), Greatest(Ports))
          /\ unseen' = unseen \ Visited(From(start))
    BY <1>8 DEF CoverResumeLost
  <2>2. it = port /\ phase = "scan" /\ PositionLost
    BY <1>8 DEF CoverResumeLost, PositionLost, InScan
  <2>3. /\ Quota = CheckStep
        /\ Cardinality(Visited(From(start))) \in Nat
        /\ Cardinality(Visited(From(start))) < CheckStep
    BY <2>2, LostVisitsFew
  <2>4. Greatest(Ports) = port
    BY ScanAssumption DEF Greatest
  <2>5. /\ cursor' = NoFd /\ it' = port /\ phase' = "scan"
        /\ conns'[port] = conns[port] \ (Visited(From(start)) \cap Expired(port))
    BY <2>1, <2>2, <2>3, <2>4, ScanAssumption DEF Round, ScanTypeOK
  <2> QED BY <1>2, <1>3, <2>1, <2>5 DEF CoverInv, EveryoneLookedAt
<1>9. CASE CoverEnd
  <2>1. CASE ResumeHangs
    BY <1>2, <1>9, <2>1 DEF CoverEnd, ResumeHangs, CoverInv, EveryoneLookedAt
  <2>2. CASE Finish
    BY <1>2, <1>9, <2>2 DEF CoverEnd, Finish, CoverInv, EveryoneLookedAt
  <2> QED BY <1>9, <2>1, <2>2 DEF CoverEnd
<1>10. CASE UNCHANGED coverVars
  BY <1>2, <1>10 DEF coverVars, scanVars, CoverInv, EveryoneLookedAt
<1> QED BY <1>4, <1>5, <1>6, <1>7, <1>8, <1>9, <1>10 DEF CoverNext, CoverSweep

\* With one listening port, the calls of a cycle that has ended have looked at
\* every connection that was there when it began and is there still, however
\* many connect and leave between them and whatever became of the descriptor in
\* last_checked_fd.
THEOREM OnePortCoversEveryone ==
  ASSUME NEW port, Ports = {port}
  PROVE  CoverSpec => []EveryoneLookedAt
<1>1. CoverInit => CoverInv
  BY DEF CoverInit, ScanInit, CoverInv, EveryoneLookedAt
<1>2. ScanTypeOK /\ SweepInv /\ CoverInv /\ [CoverNext]_coverVars => CoverInv'
  BY CoverStep
<1>3. CoverSpec => []ScanTypeOK /\ []SweepInv
  BY CoverImplementsScan, ScanTypeCorrect, OnePortSweep, PTL
<1>4. CoverInv => EveryoneLookedAt
  BY DEF CoverInv
<1> QED BY <1>1, <1>2, <1>3, <1>4, PTL DEF CoverSpec
=============================================================================

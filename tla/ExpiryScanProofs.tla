-------------------------- MODULE ExpiryScanProofs --------------------------
(* What TLAPS proves about the sweep, for any ports, descriptors, timeouts *)
(* and any CHECK_EXPIRED_STEP above two.                                   *)
EXTENDS ExpiryScan, FiniteSetTheorems, TLAPS

-----------------------------------------------------------------------------
(* The ends of a std::map.  A finite set of descriptors has a greatest and *)
(* a least one: strict inclusion is well-founded on finite sets, and the   *)
(* smallest set without one would get it from what it is without an element. *)

\* A finite non-empty set has a last element in any total order R on it.
LEMMA LastExists ==
  ASSUME NEW S, IsFiniteSet(S), S # {}, NEW R,
         \A x, y \in S : <<x, y>> \in R \/ <<y, x>> \in R,
         \A x, y, z \in S : <<x, y>> \in R /\ <<y, z>> \in R => <<x, z>> \in R
  PROVE  \E x \in S : \A y \in S : <<y, x>> \in R
<1> DEFINE HasLast(T) == \E x \in T : \A y \in T : <<y, x>> \in R
           Bad == {T \in FiniteSubsetsOf(S) : T # {} /\ ~HasLast(T)}
<1>1. ASSUME Bad # {} PROVE FALSE
  <2>1. Bad \subseteq FiniteSubsetsOf(S)
    OBVIOUS
  <2>2. PICK T \in Bad : \A U \in Bad : ~(<<U, T>> \in StrictSubsetOrdering(S))
    <3> HIDE DEF Bad
    <3> QED BY <1>1, <2>1, FS_StrictSubsetOrderingWellFounded, WFMin
  <2>3. PICK x \in T : TRUE
    OBVIOUS
  <2>4. IsFiniteSet(T \ {x}) /\ T \subseteq S
    BY FS_RemoveElement DEF FiniteSubsetsOf
  <2>5. CASE T \ {x} = {}
    BY <2>4, <2>5
  <2>6. CASE T \ {x} # {}
    <3>1. <<T \ {x}, T>> \in StrictSubsetOrdering(S)
      BY <2>3, <2>4 DEF StrictSubsetOrdering
    <3>2. T \ {x} \in FiniteSubsetsOf(S)
      BY <2>4 DEF FiniteSubsetsOf
    <3>3. PICK m \in T \ {x} : \A y \in T \ {x} : <<y, m>> \in R
      BY <2>2, <2>6, <3>1, <3>2
    <3>4. CASE <<x, m>> \in R
      BY <3>3, <3>4
    <3>5. CASE <<m, x>> \in R
      BY <2>3, <2>4, <3>3, <3>5
    <3> QED BY <2>3, <2>4, <3>4, <3>5
  <2> QED BY <2>5, <2>6
<1> QED BY <1>1 DEF FiniteSubsetsOf

LEMMA GreatestExists ==
  ASSUME NEW S, IsFiniteSet(S), S \subseteq Int, S # {}
  PROVE  Greatest(S) \in S /\ \A y \in S : y <= Greatest(S)
<1> DEFINE R == {e \in S \X S : e[1] <= e[2]}
<1>1. \A x, y \in S : <<x, y>> \in R <=> x <= y
  OBVIOUS
<1> HIDE DEF R
<1>2. \E x \in S : \A y \in S : <<y, x>> \in R
  <2>1. ASSUME NEW x \in S, NEW y \in S
        PROVE  <<x, y>> \in R \/ <<y, x>> \in R
    <3>1. x \in Int /\ y \in Int
      OBVIOUS
    <3> QED BY <1>1, <3>1
  <2>2. ASSUME NEW x \in S, NEW y \in S, NEW z \in S, <<x, y>> \in R, <<y, z>> \in R
        PROVE  <<x, z>> \in R
    <3>1. x \in Int /\ y \in Int /\ z \in Int
      OBVIOUS
    <3> QED BY <1>1, <2>2, <3>1
  <2> QED BY <2>1, <2>2, LastExists
<1>3. \E x \in S : \A y \in S : y <= x
  BY <1>1, <1>2
<1> QED BY <1>3 DEF Greatest

LEMMA LeastExists ==
  ASSUME NEW S, IsFiniteSet(S), S \subseteq Int, S # {}
  PROVE  Least(S) \in S /\ \A y \in S : Least(S) <= y
<1> DEFINE R == {e \in S \X S : e[2] <= e[1]}
<1>1. \A x, y \in S : <<x, y>> \in R <=> y <= x
  OBVIOUS
<1> HIDE DEF R
<1>2. \E x \in S : \A y \in S : <<y, x>> \in R
  <2>1. ASSUME NEW x \in S, NEW y \in S
        PROVE  <<x, y>> \in R \/ <<y, x>> \in R
    <3>1. x \in Int /\ y \in Int
      OBVIOUS
    <3> QED BY <1>1, <3>1
  <2>2. ASSUME NEW x \in S, NEW y \in S, NEW z \in S, <<x, y>> \in R, <<y, z>> \in R
        PROVE  <<x, z>> \in R
    <3>1. x \in Int /\ y \in Int /\ z \in Int
      OBVIOUS
    <3> QED BY <1>1, <2>2, <3>1
  <2> QED BY <2>1, <2>2, LastExists
<1>3. \E x \in S : \A y \in S : x <= y
  BY <1>1, <1>2
<1> QED BY <1>3 DEF Least

\* ++it_srv ends on a port or on end(), and where a later one exists on the
\* next.
LEMMA PortAfterType ==
  ASSUME NEW p \in Ports
  PROVE  PortAfter(p) \in Ports \cup {EndPort}
<1> DEFINE later == {q \in Ports : q > p}
<1>1. IsFiniteSet(later) /\ later \subseteq Int
  <2>1. later \in SUBSET Ports
    OBVIOUS
  <2> HIDE DEF later
  <2>2. IsFiniteSet(later)
    BY <2>1, ScanAssumption, FS_Subset
  <2>3. later \subseteq Int
    BY <2>1, ScanAssumption
  <2> QED BY <2>2, <2>3
<1>2. later # {} => Least(later) \in later
  BY <1>1, LeastExists
<1> QED BY <1>2 DEF PortAfter

-----------------------------------------------------------------------------
(* One round of the sweep.                                                 *)

\* What the inner loop visits: part of what is ahead, never nothing when it
\* stops for the quota, and then it stops at a descriptor of the port.
LEMMA VisitedProperties ==
  ASSUME ScanTypeOK, NEW p \in Ports, NEW rest \in SUBSET conns[p]
  PROVE  /\ Quota \in Nat /\ Quota >= 1
         /\ Visited(rest) \subseteq rest
         /\ IsFiniteSet(rest) /\ rest \subseteq Int
         /\ Cardinality(Visited(rest)) \in Nat
         /\ Cardinality(Visited(rest)) = Quota => Greatest(Visited(rest)) \in rest
<1>1. Quota \in Nat /\ Quota >= 1
  BY ScanAssumption DEF ScanTypeOK, Quota, AtLeast
<1>2. Visited(rest) \subseteq rest
  BY DEF Visited
<1>3. rest \in SUBSET Fds
  BY DEF ScanTypeOK
<1>4. IsFiniteSet(rest)
  BY <1>3, ScanAssumption, FS_Subset
<1>5. rest \subseteq Int
  BY <1>3, ScanAssumption
<1>6. IsFiniteSet(Visited(rest))
  BY <1>2, <1>4, FS_Subset
<1>7. Cardinality(Visited(rest)) \in Nat
  BY <1>6, FS_CardinalityType
<1>8. ASSUME Cardinality(Visited(rest)) = Quota
      PROVE  Greatest(Visited(rest)) \in rest
  <2>1. Visited(rest) # {}
    BY <1>1, <1>8, FS_EmptySet
  <2>2. Visited(rest) \subseteq Int
    BY <1>2, <1>5
  <2> QED BY <1>2, <1>6, <2>1, <2>2, GreatestExists
<1> QED BY <1>1, <1>2, <1>4, <1>5, <1>7, <1>8

\* A round keeps the state typed and adds nothing to a map.
LEMMA RoundProperties ==
  ASSUME ScanTypeOK, NEW p \in Ports, NEW rest \in SUBSET conns[p],
         NEW next \in Ports \cup {EndPort}, Round(p, rest, next)
  PROVE  /\ ScanTypeOK'
         /\ \A q \in Ports : conns'[q] \subseteq conns[q]
<1> DEFINE seen == Visited(rest)
           gone == seen \cap Expired(p)
<1>1. /\ conns' = [conns EXCEPT ![p] = @ \ gone]
      /\ idle' = [fd \in Fds |-> IF fd \in gone THEN 0 ELSE idle[fd]]
      /\ cursor' = IF Cardinality(seen) = Quota THEN Greatest(seen) ELSE NoFd
      /\ counter' = counter + Cardinality(seen)
      /\ it' = next
      /\ phase' = phase
  BY DEF Round
<1>2. /\ Cardinality(seen) \in Nat
      /\ Cardinality(seen) = Quota => Greatest(seen) \in rest
  BY VisitedProperties
<1> HIDE DEF seen, gone
<1>4. conns' \in [Ports -> SUBSET Fds]
  BY <1>1 DEF ScanTypeOK
<1>5. idle' \in [Fds -> 0..IdleCap]
  <2>1. 0 \in 0..IdleCap
    BY ScanAssumption
  <2> QED BY <1>1, <2>1 DEF ScanTypeOK
<1>6. cursor' \in Fds \cup {NoFd}
  BY <1>1, <1>2 DEF ScanTypeOK
<1>7. counter' \in Nat /\ it' \in Ports \cup {EndPort} /\ phase' \in {"off", "scan", "stuck"}
  BY <1>1, <1>2 DEF ScanTypeOK
<1>9. \A q \in Ports : conns'[q] \subseteq conns[q]
  BY <1>1 DEF ScanTypeOK
<1> QED BY <1>4, <1>5, <1>6, <1>7, <1>9 DEF ScanTypeOK

\* Every step of the sweep does.
LEMMA SweepProperties ==
  ASSUME ScanTypeOK, EraseExpiredConnections
  PROVE  /\ ScanTypeOK'
         /\ \A q \in Ports : conns'[q] \subseteq conns[q]
<1>1. CASE FromBegin
  BY <1>1, PortAfterType, RoundProperties DEF FromBegin, InScan
<1>2. CASE Resume
  <2>1. After \in SUBSET conns[it]
    BY DEF After
  <2> QED BY <1>2, <2>1, PortAfterType, RoundProperties DEF Resume, InScan
<1>3. CASE ResumeLost
  <2>1. PICK start \in PastTheEnd(conns[it]) :
          Round(it, From(start), Greatest(Ports))
    BY <1>3 DEF ResumeLost
  <2>2. From(start) \in SUBSET conns[it]
    BY DEF From
  <2>3. Greatest(Ports) \in Ports
    <3>1. Ports \subseteq Int
      BY ScanAssumption
    <3> QED BY <3>1, ScanAssumption, GreatestExists
  <2> QED BY <1>3, <2>1, <2>2, <2>3, RoundProperties DEF ResumeLost, PositionLost, InScan
<1>4. CASE ResumeHangs
  BY <1>4 DEF ResumeHangs, ScanTypeOK
<1>5. CASE Finish
  BY <1>5 DEF Finish, ScanTypeOK
<1> QED BY <1>1, <1>2, <1>3, <1>4, <1>5 DEF EraseExpiredConnections

-----------------------------------------------------------------------------
\* What ScanTypeOK says survives every step on the tables.
LEMMA ScanTypeStep == ScanTypeOK /\ [ScanNext]_scanVars => ScanTypeOK'
<1> SUFFICES ASSUME ScanTypeOK, [ScanNext]_scanVars PROVE ScanTypeOK'
  OBVIOUS
<1>1. 0 \in 0..IdleCap
  BY ScanAssumption
<1>2. ASSUME NEW p \in Ports, NEW fd \in Fds, Insert(p, fd) PROVE ScanTypeOK'
  BY <1>1, <1>2 DEF Insert, ScanTypeOK
<1>3. ASSUME NEW p \in Ports, NEW fd \in Fds, Touch(p, fd) PROVE ScanTypeOK'
  BY <1>1, <1>3 DEF Touch, ScanTypeOK
<1>4. ASSUME NEW p \in Ports, NEW fd \in Fds, Remove(p, fd) PROVE ScanTypeOK'
  BY <1>1, <1>4 DEF Remove, ScanTypeOK
<1>5. ASSUME NEW elapsed \in 0..MaxElapsed, ClockTick(elapsed) PROVE ScanTypeOK'
  <2>1. \A fd \in Fds : AtMost(idle[fd] + elapsed, IdleCap) \in 0..IdleCap
    BY ScanAssumption DEF ScanTypeOK, AtMost
  <2>2. idle' \in [Fds -> 0..IdleCap]
    BY <1>5, <2>1 DEF ClockTick, ScanTypeOK
  <2>3. Least(Ports) \in Ports
    <3>1. Ports \subseteq Int
      BY ScanAssumption
    <3> QED BY <3>1, ScanAssumption, LeastExists
  <2>4. phase' \in {"off", "scan", "stuck"} /\ it' \in Ports \cup {EndPort}
    BY <1>5, <2>3 DEF ClockTick, ScanTypeOK
  <2> QED BY <1>5, <2>2, <2>4 DEF ClockTick, ScanTypeOK
<1>6. CASE EraseExpiredConnections
  BY <1>6, SweepProperties
<1>7. CASE UNCHANGED scanVars
  BY <1>7 DEF scanVars, ScanTypeOK
<1> QED BY <1>2, <1>3, <1>4, <1>5, <1>6, <1>7 DEF ScanNext, Serve

\* Types: in particular last_checked_fd is always 0 or a descriptor, and
\* it_srv, moved by ++ from end() as well, is always a port or end().
THEOREM ScanTypeCorrect == ScanSpec => []ScanTypeOK
<1>1. ScanInit => ScanTypeOK
  BY ScanAssumption DEF ScanInit, ScanTypeOK, NoFd, EndPort
<1> QED BY <1>1, ScanTypeStep, PTL DEF ScanSpec

-----------------------------------------------------------------------------
(* The bound on the work of one call, when there is one listening port.    *)

\* The inner loop visits no more than what is left of CHECK_EXPIRED_STEP, and
\* no more than what is ahead.
LEMMA VisitedBounded ==
  ASSUME ScanTypeOK, NEW p \in Ports, NEW rest \in SUBSET conns[p]
  PROVE  Cardinality(Visited(rest)) <= Quota
<1> DEFINE seen == Visited(rest)
<1>1. /\ Quota \in Nat /\ Quota >= 1
      /\ seen \in SUBSET rest
      /\ IsFiniteSet(rest) /\ rest \subseteq Int
  BY VisitedProperties
<1>2. IsFiniteSet(seen)
  BY <1>1, FS_Subset
<1>3. CASE seen = {}
  BY <1>1, <1>3, FS_EmptySet
<1>4. CASE seen # {}
  <2> DEFINE m == Greatest(seen)
             below == {g \in rest : g < m}
  <2>1. m \in seen /\ \A y \in seen : y <= m
    <3>1. seen \subseteq Int
      BY <1>1
    <3> HIDE DEF seen
    <3> QED BY <1>2, <1>4, <3>1, GreatestExists
  <2>2. Cardinality(below) < Quota
    BY <2>1 DEF Visited
  <2>3. IsFiniteSet(below) /\ Cardinality(below) \in Nat
    <3>1. below \in SUBSET rest
      OBVIOUS
    <3> HIDE DEF below
    <3>2. IsFiniteSet(below)
      BY <1>1, <3>1, FS_Subset
    <3> QED BY <3>2, FS_CardinalityType
  <2>4. seen \subseteq below \cup {m}
    <3>1. ASSUME NEW y \in seen, y # m PROVE y < m
      <4>1. y \in Int /\ m \in Int /\ y <= m
        BY <1>1, <2>1
      <4> QED BY <3>1, <4>1
    <3> QED BY <1>1, <3>1
  <2>5. m \notin below
    <3>1. m \in Int
      BY <1>1, <2>1
    <3> HIDE DEF m
    <3> QED BY <3>1
  <2> HIDE DEF seen, below, m
  <2>6. IsFiniteSet(below \cup {m}) /\ Cardinality(below \cup {m}) = Cardinality(below) + 1
    BY <2>3, <2>5, FS_AddElement
  <2>7. Cardinality(seen) <= Cardinality(below \cup {m})
    BY <2>4, <2>6, FS_Subset
  <2>8. Cardinality(seen) \in Nat
    BY <1>2, FS_CardinalityType
  <2> QED BY <1>1, <2>2, <2>3, <2>6, <2>7, <2>8 DEF seen
<1> QED BY <1>3, <1>4

\* Past the end there are at most two descriptors, whichever node ++end()
\* lands on.
LEMMA PastTheEndLeavesTwo ==
  ASSUME NEW D, IsFiniteSet(D), D \subseteq Int, D # {},
         NEW start \in PastTheEnd(D)
  PROVE  Cardinality({fd \in D : fd >= start}) <= 2
<1> DEFINE g == Greatest(D)
           rest == {fd \in D : fd >= start}
<1>1. g \in D /\ \A y \in D : y <= g
  BY GreatestExists
<1>2. rest \subseteq {g} \cup {start}
  <2>1. CASE start = g
    <3>1. ASSUME NEW fd \in rest PROVE fd = g
      <4>1. fd \in Int /\ g \in Int /\ fd <= g /\ fd >= g
        BY <1>1, <2>1
      <4> QED BY <4>1
    <3> QED BY <3>1
  <2>2. CASE Cardinality(D) > 1 /\ start = Greatest(D \ {g})
    <3>1. IsFiniteSet(D \ {g}) /\ Cardinality(D \ {g}) = Cardinality(D) - 1
      BY <1>1, FS_RemoveElement
    <3>2. Cardinality(D) \in Nat
      BY FS_CardinalityType
    <3>3. D \ {g} # {}
      BY <2>2, <3>1, <3>2, FS_EmptySet
    <3>4. \A y \in D \ {g} : y <= start
      BY <2>2, <3>1, <3>3, GreatestExists
    <3>5. ASSUME NEW fd \in rest, fd # g PROVE fd = start
      <4>1. start \in Int
        <5>1. D \ {g} \subseteq Int
          OBVIOUS
        <5> QED BY <2>2, <3>1, <3>3, <5>1, GreatestExists
      <4>2. fd \in Int /\ fd <= start /\ fd >= start
        BY <3>4, <3>5
      <4> QED BY <4>1, <4>2
    <3> QED BY <3>5
  <2> QED BY <2>1, <2>2 DEF PastTheEnd
<1> HIDE DEF g, rest
<1>3. IsFiniteSet({g}) /\ Cardinality({g}) = 1
  BY FS_Singleton
<1>4. IsFiniteSet({g} \cup {start}) /\ Cardinality({g} \cup {start}) \in {1, 2}
  BY <1>3, FS_AddElement
<1>5. IsFiniteSet(rest) /\ Cardinality(rest) <= Cardinality({g} \cup {start})
  BY <1>2, <1>4, FS_Subset
<1>6. Cardinality(rest) \in Nat
  BY <1>5, FS_CardinalityType
<1> QED BY <1>4, <1>5, <1>6 DEF rest

\* Rounds of one call, with one port: either nothing has been visited yet, or
\* the position was lost, the two descriptors past the end were visited and
\* the port is gone through again from begin().
SweepInv ==
  /\ counter <= CheckStep
  /\ phase = "off" => counter = 0
  /\ InScan => counter < CheckStep /\ (counter = 0 \/ cursor = NoFd)

\* A lost resume of a call that has looked at nothing yet visits fewer than are
\* left of CHECK_EXPIRED_STEP.
LEMMA LostVisitsFew ==
  ASSUME ScanTypeOK, SweepInv, PositionLost, NEW start \in PastTheEnd(conns[it])
  PROVE  /\ counter = 0 /\ Quota = CheckStep
         /\ Cardinality(Visited(From(start))) \in Nat
         /\ Cardinality(Visited(From(start))) < CheckStep
<1> DEFINE rest == From(start)
<1>1. it \in Ports /\ conns[it] # {} /\ rest \in SUBSET conns[it]
  BY DEF PositionLost, InScan, From
<1>2. IsFiniteSet(conns[it]) /\ conns[it] \subseteq Int
  <2>1. conns[it] \in SUBSET Fds
    BY <1>1 DEF ScanTypeOK
  <2>2. IsFiniteSet(conns[it])
    BY <2>1, ScanAssumption, FS_Subset
  <2>3. Fds \subseteq Int
    BY ScanAssumption
  <2> QED BY <2>1, <2>2, <2>3
<1>3. Cardinality(rest) <= 2
  BY <1>1, <1>2, PastTheEndLeavesTwo DEF From
<1>4. counter = 0 /\ Quota = CheckStep
  BY ScanAssumption DEF PositionLost, InScan, SweepInv, ScanTypeOK, Quota, AtLeast
<1> HIDE DEF rest
<1>5. IsFiniteSet(rest) /\ Visited(rest) \in SUBSET rest
  BY <1>1, VisitedProperties
<1>6. Cardinality(Visited(rest)) <= Cardinality(rest) /\ Cardinality(Visited(rest)) \in Nat
  BY <1>5, FS_Subset, FS_CardinalityType
<1>7. Cardinality(rest) \in Nat
  BY <1>5, FS_CardinalityType
<1>8. Cardinality(Visited(rest)) < CheckStep
  BY <1>3, <1>6, <1>7, ScanAssumption
<1> QED BY <1>4, <1>6, <1>8 DEF rest

LEMMA OnePortSweep ==
  ASSUME NEW port, Ports = {port}
  PROVE  ScanSpec => []SweepInv
<1>1. ScanInit => SweepInv
  BY ScanAssumption DEF ScanInit, SweepInv, InScan
<1>2. ScanTypeOK /\ SweepInv /\ [ScanNext]_scanVars => SweepInv'
  <2> SUFFICES ASSUME ScanTypeOK, SweepInv, [ScanNext]_scanVars PROVE SweepInv'
    OBVIOUS
  <2>1. PortAfter(port) = EndPort
    <3>1. ~(port > port)
      BY ScanAssumption
    <3> QED BY <3>1 DEF PortAfter
  <2>2. EndPort \notin Ports
    BY ScanAssumption DEF EndPort
  <2>3. ASSUME NEW rest \in SUBSET conns[port], Round(port, rest, EndPort), InScan
        PROVE  SweepInv'
    <3>1. Quota \in Nat /\ Quota >= 1 /\ Cardinality(Visited(rest)) \in Nat
      BY VisitedProperties
    <3>2. Cardinality(Visited(rest)) <= Quota
      BY VisitedBounded
    <3>3. Quota = CheckStep - counter
      BY <2>3, ScanAssumption DEF SweepInv, ScanTypeOK, Quota, AtLeast
    <3>4. counter' = counter + Cardinality(Visited(rest)) /\ it' = EndPort /\ phase' = phase
      BY <2>3 DEF Round
    <3>5. counter' <= CheckStep
      BY <3>1, <3>2, <3>3, <3>4, ScanAssumption DEF ScanTypeOK
    <3>6. phase' = "scan" /\ it' \notin Ports
      BY <2>2, <2>3, <3>4 DEF InScan
    <3> QED BY <3>5, <3>6 DEF SweepInv, InScan
  <2>4. CASE FromBegin
    BY <2>1, <2>3, <2>4 DEF FromBegin, InScan
  <2>5. CASE Resume
    <3>1. it = port /\ After \in SUBSET conns[port]
      BY <2>5 DEF Resume, InScan, After
    <3> QED BY <2>1, <2>3, <2>5, <3>1 DEF Resume
  <2>6. CASE ResumeLost
    <3>1. PICK start \in PastTheEnd(conns[it]) : Round(it, From(start), Greatest(Ports))
      BY <2>6 DEF ResumeLost
    <3>2. /\ counter = 0 /\ Quota = CheckStep
          /\ Cardinality(Visited(From(start))) \in Nat
          /\ Cardinality(Visited(From(start))) < CheckStep
      BY <2>6, LostVisitsFew DEF ResumeLost
    <3>3. counter' = Cardinality(Visited(From(start))) /\ cursor' = NoFd /\ phase' = phase
      BY <3>1, <3>2, ScanAssumption DEF Round
    <3> QED BY <2>6, <3>2, <3>3, ScanAssumption
            DEF ResumeLost, PositionLost, SweepInv, InScan
  <2>7. CASE ResumeHangs
    BY <2>7 DEF ResumeHangs, SweepInv, InScan
  <2>8. CASE Finish
    BY <2>8, ScanAssumption DEF Finish, SweepInv, InScan
  <2>9. CASE Serve
    BY <2>9 DEF Serve, Insert, Touch, Remove, SweepInv, InScan
  <2>10. ASSUME NEW elapsed \in 0..MaxElapsed, ClockTick(elapsed) PROVE SweepInv'
    BY <2>10, ScanAssumption DEF ClockTick, SweepInv, InScan
  <2>11. CASE UNCHANGED scanVars
    BY <2>11 DEF scanVars, SweepInv, InScan
  <2> QED BY <2>4, <2>5, <2>6, <2>7, <2>8, <2>9, <2>10, <2>11
          DEF ScanNext, EraseExpiredConnections
<1> QED BY <1>1, <1>2, ScanTypeCorrect, PTL DEF ScanSpec

\* A server with one listening port looks at no more than CHECK_EXPIRED_STEP
\* connections in one call of EraseExpiredConnections.
THEOREM OnePortBoundedWork ==
  ASSUME NEW port, Ports = {port}
  PROVE  ScanSpec => []BoundedWork
<1>1. SweepInv => BoundedWork
  BY DEF SweepInv, BoundedWork
<1> QED BY <1>1, OnePortSweep, PTL
=============================================================================

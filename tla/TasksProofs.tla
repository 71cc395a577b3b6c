----------------------------- MODULE TasksProofs -----------------------------
(* What TLAPS proves about the packet ids, for any number of threads and of *)
(* ids.                                                                     *)
EXTENDS Tasks, TLAPS

\* b is k ids after a, in a counter that goes round.
After(a, k, b) == b = a + k \/ b = a + k - (Limit - 1)

RecentInv ==
  /\ Len(recent) <= Limit - 1
  /\ \A i \in 1..Len(recent) : recent[i] \in 1..(Limit - 1)
  /\ \A i, j \in 1..Len(recent) : i < j => After(recent[i], j - i, recent[j])

\* ID, as the next call will find it, continues recent.
Continues == \A i \in 1..Len(recent) :
  /\ ID <= Limit
  /\ After(recent[i], Len(recent) + 1 - i, ID)

\* As long as no calls overlap, the one that runs knows all about ID.
AloneInv == ~mixed =>
  /\ Continues
  /\ \A t, u \in Running : t = u
  /\ \A t \in Threads : pc[t] = "wrap" => ID >= Limit
  /\ \A t \in Threads : pc[t] = "read" => ID < Limit
  /\ \A t \in Threads : pc[t] = "write" => got[t] = ID /\ ID < Limit

TasksInv ==
  /\ TasksTypeOK
  /\ mixed => recent = <<>>
  /\ RecentInv
  /\ AloneInv

LEMMA TasksInit == Init => TasksInv
<1> SUFFICES ASSUME Init PROVE TasksInv
  OBVIOUS
<1>1. recent = <<>> /\ Len(recent) = 0 /\ 1..Len(recent) = {}
  BY DEF Init
<1>2. TasksTypeOK /\ RecentInv
  <2>1. TasksTypeOK
    <3>1. recent \in Seq(Nat)
      BY DEF Init
    <3>2. ID \in Nat \ {0} /\ got \in [Threads -> Nat]
          /\ pc \in [Threads -> {"out", "wrap", "read", "write"}]
      BY DEF Init
    <3> QED BY <3>1, <3>2 DEF Init, TasksTypeOK
  <2>2. RecentInv
    BY <1>1, TasksAssumption DEF RecentInv
  <2> QED BY <2>1, <2>2
<1>3. Continues
  BY <1>1 DEF Continues
<1>4. \A t \in Threads : pc[t] = "out"
  BY DEF Init
<1>5. AloneInv
  BY <1>3, <1>4 DEF AloneInv, Running
<1> QED BY <1>1, <1>2, <1>5 DEF TasksInv

LEMMA CallStep ==
  ASSUME TasksInv, NEW t \in Threads, Call(t)
  PROVE  TasksInv'
<1> USE TasksAssumption
<1>1. TasksTypeOK'
  BY DEF TasksInv, TasksTypeOK, Call
<1>2. (mixed => recent = <<>>)' /\ RecentInv'
  <2>1. CASE Running = {}
    BY <2>1 DEF TasksInv, Call, RecentInv, After
  <2>2. CASE Running # {}
    <3>1. recent' = <<>> /\ Len(recent') = 0 /\ 1..Len(recent') = {}
      BY <2>2 DEF Call
    <3> QED BY <3>1 DEF RecentInv
  <2> QED BY <2>1, <2>2
<1>3. ASSUME ~mixed' PROVE AloneInv'
  <2>1. Running = {} /\ ID' = ID /\ recent' = recent /\ got' = got
    BY <1>3 DEF Call
  <2>2. ~mixed \/ recent = <<>>
    BY DEF TasksInv
  <2>3. Continues'
    BY <2>1, <2>2 DEF TasksInv, AloneInv, Continues, After
  <2>4. \A u \in Threads : u # t => pc'[u] = "out"
    BY <2>1 DEF Call, Running, TasksInv, TasksTypeOK
  <2>5. pc'[t] = IF ID + 1 > Limit THEN "wrap" ELSE "read"
    BY DEF Call, Over, TasksInv, TasksTypeOK
  <2>6. ID \in Nat
    BY DEF TasksInv, TasksTypeOK
  <2> QED BY <2>1, <2>3, <2>4, <2>5, <2>6 DEF AloneInv, Running
<1> QED BY <1>1, <1>2, <1>3 DEF TasksInv, AloneInv

LEMMA WrapStep ==
  ASSUME TasksInv, NEW t \in Threads, Wrap(t)
  PROVE  TasksInv'
<1> USE TasksAssumption
<1>1. TasksTypeOK'
  BY DEF TasksInv, TasksTypeOK, Wrap
<1>2. (mixed => recent = <<>>)' /\ RecentInv'
  BY DEF TasksInv, Wrap, RecentInv, After
<1>3. ASSUME ~mixed' PROVE AloneInv'
  <2>1. ~mixed /\ ID >= Limit /\ ID' = 1 /\ recent' = recent /\ got' = got
    BY <1>3 DEF Wrap, TasksInv, AloneInv
  <2>2. ASSUME NEW i \in 1..Len(recent) PROVE After(recent[i], Len(recent) + 1 - i, 1)
    <3>1. ID = Limit /\ After(recent[i], Len(recent) + 1 - i, Limit)
      BY <2>1, <2>2 DEF TasksInv, TasksTypeOK, AloneInv, Continues
    <3>2. recent[i] \in 1..(Limit - 1) /\ Len(recent) <= Limit - 1 /\ Len(recent) \in Nat
      BY <2>2 DEF TasksInv, TasksTypeOK, RecentInv
    <3> QED BY <3>1, <3>2 DEF After
  <2>3. Continues'
    BY <2>1, <2>2 DEF Continues
  <2>4. \A u \in Threads : u # t => pc'[u] = "out"
    BY <2>1 DEF Wrap, Running, TasksInv, TasksTypeOK, AloneInv
  <2>5. pc'[t] = "read"
    BY DEF Wrap, TasksInv, TasksTypeOK
  <2> QED BY <2>1, <2>3, <2>4, <2>5 DEF AloneInv, Running
<1> QED BY <1>1, <1>2, <1>3 DEF TasksInv, AloneInv

LEMMA ReadStep ==
  ASSUME TasksInv, NEW t \in Threads, Read(t)
  PROVE  TasksInv'
<1>1. TasksTypeOK'
  BY DEF TasksInv, TasksTypeOK, Read
<1>2. (mixed => recent = <<>>)' /\ RecentInv'
  BY DEF TasksInv, Read, RecentInv, After
<1>3. ASSUME ~mixed' PROVE AloneInv'
  <2>1. ~mixed /\ ID < Limit /\ ID' = ID /\ recent' = recent
    BY <1>3 DEF Read, TasksInv, AloneInv
  <2>2. Continues'
    BY <2>1 DEF Continues, TasksInv, AloneInv
  <2>3. \A u \in Threads : u # t => pc'[u] = "out"
    BY <2>1 DEF Read, Running, TasksInv, TasksTypeOK, AloneInv
  <2>4. pc'[t] = "write" /\ got'[t] = ID
    BY DEF Read, TasksInv, TasksTypeOK
  <2> QED BY <2>1, <2>2, <2>3, <2>4 DEF AloneInv, Running
<1> QED BY <1>1, <1>2, <1>3 DEF TasksInv, AloneInv

\* The id that was returned joins recent, and the counter goes on from it.
LEMMA WithKeeps ==
  ASSUME TasksInv, ~mixed, ID < Limit, NEW r, r = With(ID)
  PROVE  /\ r \in Seq(Nat) /\ Len(r) \in 1..(Limit - 1)
         /\ \A i \in 1..Len(r) : r[i] \in 1..(Limit - 1)
         /\ \A i, j \in 1..Len(r) : i < j => After(r[i], j - i, r[j])
         /\ \A i \in 1..Len(r) : After(r[i], Len(r) + 1 - i, ID + 1)
<1> USE TasksAssumption
<1> DEFINE old == IF Len(recent) = Limit - 1 THEN Tail(recent) ELSE recent
<1>1. /\ recent \in Seq(Nat) /\ ID \in 1..(Limit - 1) /\ Len(recent) <= Limit - 1
      /\ \A i \in 1..Len(recent) : recent[i] \in 1..(Limit - 1)
      /\ \A i, j \in 1..Len(recent) : i < j => After(recent[i], j - i, recent[j])
      /\ \A i \in 1..Len(recent) : After(recent[i], Len(recent) + 1 - i, ID)
  BY DEF TasksInv, TasksTypeOK, RecentInv, AloneInv, Continues
<1>2. /\ old \in Seq(Nat) /\ Len(old) \in 0..(Limit - 2)
      /\ \A i \in 1..Len(old) : old[i] \in 1..(Limit - 1)
      /\ \A i, j \in 1..Len(old) : i < j => After(old[i], j - i, old[j])
      /\ \A i \in 1..Len(old) : After(old[i], Len(old) + 1 - i, ID)
  <2>1. CASE Len(recent) # Limit - 1
    BY <1>1, <2>1
  <2>2. CASE Len(recent) = Limit - 1
    <3>1. /\ old = Tail(recent) /\ old \in Seq(Nat) /\ Len(old) = Len(recent) - 1
          /\ Len(recent) \in Nat \ {0}
          /\ \A i \in 1..Len(old) : old[i] = recent[i + 1] /\ i + 1 \in 1..Len(recent)
      BY <1>1, <2>2
    <3>4. Len(old) \in Nat /\ Len(old) + 1 = Len(recent)
      BY <3>1
    <3> HIDE DEF old
    <3>2. ASSUME NEW i \in 1..Len(old), NEW j \in 1..Len(old), i < j
          PROVE  After(old[i], j - i, old[j])
      <4>1. After(recent[i + 1], (j + 1) - (i + 1), recent[j + 1])
        BY <1>1, <3>1, <3>2
      <4>2. (j + 1) - (i + 1) = j - i
        OBVIOUS
      <4> QED BY <3>1, <4>1, <4>2
    <3>3. ASSUME NEW i \in 1..Len(old) PROVE After(old[i], Len(old) + 1 - i, ID)
      <4>1. After(recent[i + 1], Len(recent) + 1 - (i + 1), ID)
        BY <1>1, <3>1
      <4>2. Len(recent) + 1 - (i + 1) = Len(old) + 1 - i
        BY <3>4
      <4> QED BY <3>1, <4>1, <4>2
    <3> QED BY <1>1, <2>2, <3>1, <3>2, <3>3
  <2> QED BY <2>1, <2>2
<1>8. r = Append(old, ID)
  BY DEF With
<1> HIDE DEF old
<1>3. /\ r \in Seq(Nat) /\ Len(r) = Len(old) + 1 /\ r[Len(r)] = ID
      /\ \A i \in 1..Len(old) : r[i] = old[i]
  BY <1>1, <1>2, <1>8
<1>4. \A i \in 1..Len(r) : i \in 1..Len(old) \/ i = Len(r)
  BY <1>2, <1>3
<1>5. \A i \in 1..Len(r) : r[i] \in 1..(Limit - 1)
  BY <1>1, <1>2, <1>3, <1>4
<1>6. ASSUME NEW i \in 1..Len(r), NEW j \in 1..Len(r), i < j
      PROVE  After(r[i], j - i, r[j])
  <2>1. i \in 1..Len(old)
    BY <1>2, <1>3, <1>6
  <2>2. CASE j \in 1..Len(old)
    BY <1>2, <1>3, <1>6, <2>1, <2>2
  <2>3. CASE j = Len(r)
    BY <1>2, <1>3, <2>1, <2>3
  <2> QED BY <1>4, <2>2, <2>3
<1>7. ASSUME NEW i \in 1..Len(r) PROVE After(r[i], Len(r) + 1 - i, ID + 1)
  <2>1. CASE i = Len(r)
    BY <1>1, <1>2, <1>3, <2>1 DEF After
  <2>2. CASE i \in 1..Len(old)
    <3>1. After(old[i], Len(old) + 1 - i, ID) /\ old[i] \in 1..(Limit - 1)
      BY <1>2, <2>2
    <3>2. \A a, n \in Nat : After(a, n + 1 - i, ID) => After(a, n + 2 - i, ID + 1)
      BY <1>1 DEF After
    <3>3. r[i] = old[i] /\ Len(r) + 1 - i = Len(old) + 2 - i
      BY <1>2, <1>3, <2>2
    <3>4. old[i] \in Nat /\ Len(old) \in Nat
      BY <1>2, <3>1
    <3> QED BY <3>1, <3>2, <3>3, <3>4
  <2> QED BY <1>4, <2>1, <2>2
<1> QED BY <1>2, <1>3, <1>5, <1>6, <1>7

LEMMA WriteStep ==
  ASSUME TasksInv, NEW t \in Threads, Write(t)
  PROVE  TasksInv'
<1> USE TasksAssumption
<1>1. CASE mixed
  <2>1. recent' = <<>> /\ ID' = got[t] + 1 /\ got[t] \in Nat
    BY <1>1 DEF Write, TasksInv, TasksTypeOK
  <2>2. TasksTypeOK'
    BY <1>1, <2>1 DEF TasksInv, TasksTypeOK, Write
  <2>3. RecentInv'
    BY <2>1 DEF RecentInv
  <2>4. ASSUME ~mixed' PROVE AloneInv'
    <3>1. Running = {t}
      BY <1>1, <2>4 DEF Write
    <3>2. \A u \in Threads : pc'[u] = "out"
      BY <3>1 DEF Write, Running, TasksInv, TasksTypeOK
    <3>3. Continues'
      BY <2>1 DEF Continues
    <3> QED BY <3>2, <3>3 DEF AloneInv, Running
  <2> QED BY <2>1, <2>2, <2>3, <2>4 DEF TasksInv, AloneInv
<1>2. CASE ~mixed
  <2>1. /\ got[t] = ID /\ ID < Limit /\ ID' = ID + 1 /\ ID \in Nat
        /\ ~mixed' /\ recent' = With(ID)
    BY <1>2 DEF Write, TasksInv, TasksTypeOK, AloneInv
  <2>2. /\ recent' \in Seq(Nat) /\ Len(recent') \in 1..(Limit - 1)
        /\ \A i \in 1..Len(recent') : recent'[i] \in 1..(Limit - 1)
        /\ \A i, j \in 1..Len(recent') : i < j => After(recent'[i], j - i, recent'[j])
        /\ \A i \in 1..Len(recent') : After(recent'[i], Len(recent') + 1 - i, ID')
    BY <1>2, <2>1, WithKeeps
  <2>3. TasksTypeOK'
    BY <2>1, <2>2 DEF TasksInv, TasksTypeOK, Write
  <2>4. RecentInv'
    BY <2>2 DEF RecentInv, After
  <2>5. \A u \in Threads : pc'[u] = "out"
    BY <1>2 DEF Write, Running, TasksInv, TasksTypeOK, AloneInv
  <2>7. ID' <= Limit
    BY <2>1
  <2>6. Continues'
    BY <2>2, <2>7 DEF Continues, After
  <2> QED BY <2>1, <2>3, <2>4, <2>5, <2>6 DEF TasksInv, AloneInv, Running
<1> QED BY <1>1, <1>2

LEMMA TasksStep == TasksInv /\ [Next]_vars => TasksInv'
<1>1. ASSUME TasksInv, UNCHANGED vars PROVE TasksInv'
  BY <1>1 DEF vars, TasksInv, TasksTypeOK, RecentInv, AloneInv, Continues, After, Running
<1> QED BY <1>1, CallStep, WrapStep, ReadStep, WriteStep DEF Next

THEOREM TasksInvCorrect == Spec => []TasksInv
BY TasksInit, TasksStep, PTL DEF Spec

\* The counter stays positive, whatever races drive it to.
THEOREM TasksTypeCorrect == Spec => []TasksTypeOK
<1>1. TasksInv => TasksTypeOK
  BY DEF TasksInv
<1> QED BY <1>1, TasksInvCorrect, PTL

\* getIncrementID gives 0xFFFF - 1 different ids in a row, from wherever a race
\* left it, to calls that do not overlap.
THEOREM IdsCorrect == Spec => []IdsDistinct
<1>1. TasksInv => IdsDistinct
  <2> SUFFICES ASSUME TasksInv PROVE IdsDistinct
    OBVIOUS
  <2>1. recent \in Seq(Nat) /\ Len(recent) \in Nat /\ DOMAIN recent = 1..Len(recent)
    BY DEF TasksInv, TasksTypeOK
  <2>2. ASSUME NEW i \in DOMAIN recent, NEW j \in DOMAIN recent, i < j
        PROVE  recent[i] # recent[j]
    <3>1. After(recent[i], j - i, recent[j]) /\ Len(recent) <= Limit - 1
          /\ recent[i] \in 1..(Limit - 1)
      BY <2>1, <2>2 DEF TasksInv, RecentInv
    <3> QED BY <2>1, <2>2, <3>1, TasksAssumption DEF After
  <2>3. \A i, j \in DOMAIN recent : i # j => i < j \/ j < i
    BY <2>1
  <2> QED BY <2>1, <2>2, <2>3 DEF TasksInv, RecentInv, IdsDistinct
<1> QED BY <1>1, TasksInvCorrect, PTL
=============================================================================

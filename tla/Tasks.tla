-------------------------------- MODULE Tasks --------------------------------
(***************************************************************************)
(* The packet ids of the Java client.  Every EavTask that is made draws    *)
(* one, also the task that createFromArray makes for an answer and whose   *)
(* id it then overwrites.  getIncrementID works on a static counter        *)
(* without a lock, and its accesses are the steps of this module: the test *)
(* of ID, the assignment of 1, and the two halves of ID++.  An access is   *)
(* seen by the other threads at once.                                      *)
(***************************************************************************)
EXTENDS Naturals, Sequences

CONSTANTS
  Threads,  \* threads that make tasks
  Limit,    \* 0xFFFF
  IDCap     \* bound: with more in ID, or read from it, a call starts only when
            \* no other is running

ASSUME TasksAssumption ==
  Limit \in Nat \ {0, 1} /\ IDCap \in Nat

VARIABLES
  ID,      \* EavTask.ID
  pc,      \* where each thread is in getIncrementID
  got,     \* what it has read of ID and not written back, or 0
  mixed,   \* history: a call is running that overlapped another, or one
           \* that overlapped such a call
  recent   \* history: the last ids of calls that overlapped no other, since
           \* calls last overlapped

vars == <<ID, pc, got, mixed, recent>>

TasksTypeOK ==
  /\ ID \in Nat \ {0}
  /\ pc \in [Threads -> {"out", "wrap", "read", "write"}]
  /\ got \in [Threads -> Nat]
  /\ mixed \in BOOLEAN
  /\ recent \in Seq(Nat)

Init ==
  /\ ID = 1
  /\ pc = [t \in Threads |-> "out"]
  /\ got = [t \in Threads |-> 0]
  /\ mixed = FALSE
  /\ recent = <<>>

-----------------------------------------------------------------------------
Running == {t \in Threads : pc[t] # "out"}

Over_m1(id) == id + 2 > Limit

Over(id) == id + 1 > Limit

\* The constructor of a task is called, and ID is tested.
Call(t) ==
  /\ pc[t] = "out"
  /\ Running # {} => ID <= IDCap /\ \A u \in Threads : got[u] <= IDCap
  /\ pc' = [pc EXCEPT ![t] = IF Over(ID) THEN "wrap" ELSE "read"]
  /\ mixed' = (Running # {})
  /\ recent' = IF Running = {} THEN recent ELSE <<>>
  /\ UNCHANGED <<ID, got>>

Wrap_m1(t) ==
  /\ pc[t] = "wrap"
  /\ ID' = 0
  /\ pc' = [pc EXCEPT ![t] = "read"]
  /\ UNCHANGED <<got, mixed, recent>>

Wrap(t) ==
  /\ pc[t] = "wrap"
  /\ ID' = 1
  /\ pc' = [pc EXCEPT ![t] = "read"]
  /\ UNCHANGED <<got, mixed, recent>>

Read(t) ==
  /\ pc[t] = "read"
  /\ got' = [got EXCEPT ![t] = ID]
  /\ pc' = [pc EXCEPT ![t] = "write"]
  /\ UNCHANGED <<ID, mixed, recent>>

\* recent with id, and no more of it than there are ids.
With(id) == Append(IF Len(recent) = Limit - 1 THEN Tail(recent) ELSE recent, id)

\* ID++ is done and the id is returned.
Write(t) ==
  /\ pc[t] = "write"
  /\ ID' = got[t] + 1
  /\ pc' = [pc EXCEPT ![t] = "out"]
  /\ mixed' = (mixed /\ Running # {t})
  /\ recent' = IF mixed THEN <<>> ELSE With(got[t])
  /\ got' = [got EXCEPT ![t] = 0]

Next == \E t \in Threads : Call(t) \/ Wrap(t) \/ Read(t) \/ Write(t)

Spec == Init /\ [][Next]_vars

-----------------------------------------------------------------------------
\* Of 0xFFFF - 1 tasks in a row whose constructors do not overlap, no two have the
\* same id, and every id fits the two bytes it is meant for.  A race leaves no
\* trace: wherever it left the counter, this holds of the tasks made after it.
\* (Those made during a race may share ids, also when they do not overlap each
\* other: a third thread can put the counter back.)
IdsDistinct ==
  /\ \A i \in DOMAIN recent : recent[i] \in 1..(Limit - 1)
  /\ \A i, j \in DOMAIN recent : i # j => recent[i] # recent[j]
=============================================================================

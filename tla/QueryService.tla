----------------------------- MODULE QueryService -----------------------------
(***************************************************************************)
(* What a user of the database client is promised about the queries that   *)
(* Query accepted: no more of them than there are connections are with the *)
(* database at a time, the others wait in the order they came, and each    *)
(* one is sent once and then given one result.  A query never leaves the   *)
(* queue unsent, whatever happens to connections.  Calls of Query that     *)
(* find a connection free may overtake the queue.                          *)
(*                                                                         *)
(* No connections, timers or callbacks: DbClient implements this           *)
(* specification with all of them.                                         *)
(***************************************************************************)
EXTENDS Naturals, Sequences, FiniteSets

CONSTANTS N, Queries, MaxQueue

VARIABLES
  waiting,  \* accepted, not sent: in the order they came
  sent      \* sent, without a result

Init == waiting = <<>> /\ sent = {}

New(q) == q \notin sent /\ \A i \in 1..Len(waiting) : waiting[i] # q
HasRoom == Cardinality(sent) < N

\* Query accepts q and sends it.
Send(q) ==
  /\ New(q) /\ HasRoom
  /\ sent' = sent \cup {q}
  /\ UNCHANGED waiting

\* Query accepts q, to be sent later.
Enqueue(q) ==
  /\ New(q) /\ Len(waiting) <= MaxQueue
  /\ waiting' = Append(waiting, q)
  /\ UNCHANGED sent

SendNext ==
  /\ waiting # <<>> /\ HasRoom
  /\ sent' = sent \cup {Head(waiting)}
  /\ waiting' = Tail(waiting)

\* OnResult is given q: answered, failed or expired.
Finish(q) ==
  /\ q \in sent
  /\ sent' = sent \ {q}
  /\ UNCHANGED waiting

Next == SendNext \/ \E q \in Queries : Send(q) \/ Enqueue(q) \/ Finish(q)

Spec == Init /\ [][Next]_<<waiting, sent>>
=============================================================================

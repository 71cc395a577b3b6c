--------------------------- MODULE SessionContract ---------------------------
(***************************************************************************)
(* What TCPServer promises a class derived from it about its callbacks:    *)
(* OnConnect opens a session's life, a session that the server closes      *)
(* after an event is reported with OnDisconnect before anything else       *)
(* happens to any session, and one that times out, or that could not be    *)
(* added to epoll, is dropped without a word.                              *)
(*                                                                         *)
(* No descriptors, events, buffers or timers: TcpServer implements this    *)
(* specification with all of them.                                         *)
(***************************************************************************)
CONSTANT Sessions

VARIABLE life

Lives == {"outside", "open", "closing", "reported", "dropped"}

TypeOK == life \in [Sessions -> Lives]

Init == life = [s \in Sessions |-> "outside"]

\* No session is closed but not yet reported.
Quiet == \A s \in Sessions : life[s] # "closing"

\* OnConnect is called for s.
Open(s) ==
  /\ Quiet /\ life[s] = "outside"
  /\ life' = [life EXCEPT ![s] = "open"]

\* OnConnect is called for s, which then cannot be served.
Refuse(s) ==
  /\ Quiet /\ life[s] = "outside"
  /\ life' = [life EXCEPT ![s] = "dropped"]

\* The socket of s is closed.
Close(s) ==
  /\ Quiet /\ life[s] = "open"
  /\ life' = [life EXCEPT ![s] = "closing"]

\* OnDisconnect is called for s.
Report(s) ==
  /\ life[s] = "closing"
  /\ life' = [life EXCEPT ![s] = "reported"]

\* The sessions in S timed out.
Expire(S) ==
  /\ Quiet /\ S # {}
  /\ \A s \in S : life[s] = "open"
  /\ life' = [s \in Sessions |-> IF s \in S THEN "dropped" ELSE life[s]]

Next ==
  \/ \E s \in Sessions : Open(s) \/ Refuse(s) \/ Close(s) \/ Report(s)
  \/ \E S \in SUBSET Sessions : Expire(S)

Spec == Init /\ [][Next]_life
=============================================================================

---------------------------- MODULE MCLifecycle ----------------------------
(* Instances of Lifecycle, and of TcpServer in it, for TLC. *)
EXTENDS Lifecycle, TLC

CONSTANTS s1, s2, s3

\* A timeout of zero: a connection is overdue as soon as the clock moves on.
\* (Longer ones are MCExpiryScan's: the event loop cannot tell them apart.)
MCTimeout == [p \in Ports |-> 0]

\* The first session goes to the first port, the others to the last one.
MCDest == [s \in Sessions |->
             IF s = s1 THEN Least(Ports) ELSE Greatest(Ports)]

\* The sessions to the last port are alike.  (For the run without liveness.)
Alike == Permutations({s2, s3})
=============================================================================

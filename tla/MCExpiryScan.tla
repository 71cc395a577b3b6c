---------------------------- MODULE MCExpiryScan ----------------------------
(* Instances of ExpiryScan, with its history variable, for TLC. *)
EXTENDS ScanCoverage

\* Every port disconnects after one second of silence.
MCTimeout == [p \in Ports |-> 1]
=============================================================================

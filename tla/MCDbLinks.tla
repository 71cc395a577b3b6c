------------------------------ MODULE MCDbLinks ------------------------------
(* Instances of DbLinks for TLC. *)
EXTENDS DbLinks

CONSTANTS q1, q2, q3
=============================================================================

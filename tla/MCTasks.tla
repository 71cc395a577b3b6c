------------------------------- MODULE MCTasks -------------------------------
(* An instance of Tasks for TLC. *)
EXTENDS Tasks, TLC

Alike == Permutations(Threads)
=============================================================================

------------------------------- MODULE MCLoop -------------------------------
(* Models of Loop for TLC.                                                 *)
EXTENDS Loop

(* Threads are interchangeable; used for safety only. *)
ThreadSymmetry == Permutations(Threads)
=============================================================================

------------------------------ MODULE MCWorker ------------------------------
(* Symmetry for the TLC run of Worker. *)
EXTENDS Worker, TLC

\* Requests are interchangeable.
RequestSymmetry == Permutations(Request)
=============================================================================

---------------------------- MODULE MCRateLimit ----------------------------
(* Symmetry for the TLC runs of RateLimit. *)
EXTENDS RateLimit, TLC

\* Requests are interchangeable.
RequestSymmetry == Permutations(Request)
=============================================================================

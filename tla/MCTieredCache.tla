--------------------------- MODULE MCTieredCache ---------------------------
(* Where the requests of the TLC runs of TieredCache run. *)
EXTENDS TieredCache, TLC

CONSTANTS r1, r2, p1, p2

OneProcess == r1 :> p1 @@ r2 :> p1
TwoProcesses == r1 :> p1 @@ r2 :> p2
=============================================================================

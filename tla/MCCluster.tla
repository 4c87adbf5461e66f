----------------------------- MODULE MCCluster -----------------------------
(* Symmetry and the initial states for the TLC runs of Cluster. *)
EXTENDS Cluster, TLC

\* The workers that are not faulty are interchangeable.
WorkerSymmetry == Permutations(WorkerId \ Faulty)

\* The liveness properties do not mention `steady`: it need not be followed.
MCInit == ClusterInit /\ steady = FALSE
MCFairSpec == MCInit /\ [][Next]_vars /\ Fairness
=============================================================================

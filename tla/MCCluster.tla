----------------------------- MODULE MCCluster -----------------------------
(* Instances of Cluster for TLC.                                           *)
EXTENDS Cluster, TLC
CONSTANTS t1, t2, t3
mcHome == t1 :> 1 @@ t2 :> 1 @@ t3 :> 2
mcCalls == t1 :> 2 @@ t2 :> 1 @@ t3 :> 1
=============================================================================

--------------------------- MODULE MCReplicaGroup ---------------------------
(* Instances of ReplicaGroup for TLC: three replicas, two clients.         *)
EXTENDS ReplicaGroup, TLC
CONSTANTS c1, c2, r1, r2, r3
mcCalls == (c1 :> 2) @@ (c2 :> 1)
mcLoneCall == (c1 :> 1) @@ (c2 :> 0)
Replicas == Permutations({r1, r2, r3})
=============================================================================

---------------------------- MODULE MCLeafIndex ----------------------------
(* Instances of LeafIndex for TLC: two clients on two compute servers.     *)
EXTENDS LeafIndex, TLC
CONSTANTS c1, c2, n1, n2, v1, v2

\* Keys 1 and 3 have the same fingerprint.
mcFPOf == [k \in Key |-> IF k = 3 THEN 1 ELSE k]
mcNodeOf == (c1 :> n1) @@ (c2 :> n2)
mcHomeOf == [l \in Leaf |-> IF l = 1 THEN n1 ELSE IF l = 2 THEN n2 ELSE MemNode]
mcWhole == [i \in 1..MaxNodeCapacity |-> {}]
mcStraddle == [i \in 1..MaxNodeCapacity |->
                  IF i = 1 THEN {"val"} ELSE {"key", "val"}]
=============================================================================

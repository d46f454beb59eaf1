---------------------------- MODULE MCLocalLock ----------------------------
(* Instances of LocalLock for TLC.                                         *)
EXTENDS LocalLock, TLC
CONSTANTS t1, t2, t3, k1, k2
mcMixed == [t \in Thread |-> IF t = t3 THEN {"r"} ELSE Side]
mcWrites == [t \in Thread |-> {"w"}]
mcOnce == [t \in Thread |-> 1]
=============================================================================

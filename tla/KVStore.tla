------------------------------ MODULE KVStore ------------------------------
(***************************************************************************)
(* What the index promises its callers: a linearizable map from keys to    *)
(* values with the two operations read and write of SkipVectorDM.h.        *)
(*                                                                         *)
(* A write takes effect at one instant between its call and its return.    *)
(* A read returns a value that its key had at some instant between the     *)
(* call and the return.  NoValue (ValueNull in KVConfig.h) is the value of *)
(* a key that has never been written: for such a key the caller's variable *)
(* is either cleared or left as the caller passed it.                      *)
(***************************************************************************)
CONSTANTS Client, Key, Value, NoValue, CallerValue

VARIABLES dict,   \* dict[k]: the value of key k
          op,     \* op[c]: "idle", "read", "found", "write" or "written"
          arg,    \* arg[c]: [key, val] of the operation of client c
          seen    \* seen[c]: the values arg[c].key had since c's read began

vars == <<dict, op, arg, seen>>

Values == Value \cup {NoValue}

Init ==
    /\ dict = [k \in Key |-> NoValue]
    /\ op = [c \in Client |-> "idle"]
    /\ arg \in [Client -> [key : Key, val : {NoValue}]]
    /\ seen = [c \in Client |-> {}]

BeginRead(c, k, v) ==
    /\ op[c] = "idle"
    /\ op' = [op EXCEPT ![c] = "read"]
    /\ arg' = [arg EXCEPT ![c] = [key |-> k, val |-> v]]
    /\ seen' = [seen EXCEPT ![c] = {dict[k]}]
    /\ UNCHANGED dict

BeginWrite(c, k, v) ==
    /\ op[c] = "idle"
    /\ op' = [op EXCEPT ![c] = "write"]
    /\ arg' = [arg EXCEPT ![c] = [key |-> k, val |-> v]]
    /\ seen' = [seen EXCEPT ![c] = {}]
    /\ UNCHANGED dict

\* The instant at which the write of c takes effect.
Commit(c) ==
    /\ op[c] = "write"
    /\ op' = [op EXCEPT ![c] = "written"]
    /\ dict' = [dict EXCEPT ![arg[c].key] = arg[c].val]
    /\ seen' = [d \in Client |->
                  IF op[d] = "read" /\ arg[d].key = arg[c].key
                    THEN seen[d] \cup {arg[c].val} ELSE seen[d]]
    /\ UNCHANGED arg

\* A read has found the value it is going to return.
FindValue(c, r) ==
    /\ op[c] = "read"
    /\ r \in seen[c] \/ (NoValue \in seen[c] /\ r = arg[c].val)
    /\ op' = [op EXCEPT ![c] = "found"]
    /\ arg' = [arg EXCEPT ![c].val = r]
    /\ UNCHANGED <<dict, seen>>

\* A read may clear the caller's variable before it has its answer.
ClearValue(c) ==
    /\ op[c] = "read"
    /\ arg' = [arg EXCEPT ![c].val = NoValue]
    /\ UNCHANGED <<dict, op, seen>>

Return(c) ==
    /\ op[c] \in {"found", "written"}
    /\ op' = [op EXCEPT ![c] = "idle"]
    /\ arg' \in {[arg EXCEPT ![c] = [key |-> k, val |-> NoValue]] : k \in Key}
    /\ seen' = [seen EXCEPT ![c] = {}]
    /\ UNCHANGED dict

Next ==
    \E c \in Client :
        \/ \E k \in Key, v \in CallerValue : BeginRead(c, k, v)
        \/ \E k \in Key, v \in Value : BeginWrite(c, k, v)
        \/ Commit(c)
        \/ \E r \in Values : FindValue(c, r)
        \/ ClearValue(c)
        \/ Return(c)

Spec == Init /\ [][Next]_vars
=============================================================================

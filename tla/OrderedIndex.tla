---------------------------- MODULE OrderedIndex ----------------------------
(***************************************************************************)
(* What the inner tree promises the leaf level: an ordered map from the    *)
(* first key of a leaf to the leaf's record, read by find_leaf and         *)
(* read_bottom_inner and changed by inner_insert.                          *)
(*                                                                         *)
(* A record is [key, addr, ver].  inner_insert puts the new record of a    *)
(* resized leaf and the record of its sibling in one instant.  A lookup    *)
(* returns a record that covered its key at some instant since it began.   *)
(***************************************************************************)
EXTENDS Naturals

CONSTANTS Client, Key,
          Leaf    \* addresses of leaves

VARIABLES index,  \* index[k]: the record that covers key k
          op,     \* op[c]: "idle", "find" or "found"
          arg,    \* arg[c]: the key c looks up, while it does
          ans,    \* ans[c]: the record c has found, when it has
          seen    \* seen[c]: the records that covered arg[c] since c began

vars == <<index, op, arg, ans, seen>>

Rec(k, a, v) == [key |-> k, addr |-> a, ver |-> v]
None == Rec(0, 0, 0)

\* The map once r is in it.
InnerPut(r, idx) ==
    [k \in Key |-> IF r.key <= k /\ idx[k].key <= r.key THEN r ELSE idx[k]]

Init ==
    /\ \E l \in Leaf : index = [k \in Key |-> Rec(0, l, 0)]
    /\ op = [c \in Client |-> "idle"]
    /\ arg = [c \in Client |-> 0] /\ ans = [c \in Client |-> None]
    /\ seen = [c \in Client |-> {}]

Begin(c) ==
    /\ op[c] # "find" /\ op' = [op EXCEPT ![c] = "find"]
    /\ \E k \in Key : arg' = [arg EXCEPT ![c] = k] /\ seen' = [seen EXCEPT ![c] = {index[k]}]
    /\ ans' = [ans EXCEPT ![c] = None]
    /\ UNCHANGED index

Found(c) ==
    /\ op[c] = "find" /\ op' = [op EXCEPT ![c] = "found"]
    /\ \E r \in seen[c] : ans' = [ans EXCEPT ![c] = r]
    /\ seen' = [seen EXCEPT ![c] = {}]
    /\ UNCHANGED <<index, arg>>

\* The caller goes on: it returns, or resizes the leaf it has found.
Leave(c) ==
    /\ op[c] = "found" /\ op' = [op EXCEPT ![c] = "idle"]
    /\ arg' = [arg EXCEPT ![c] = 0] /\ ans' = [ans EXCEPT ![c] = None]
    /\ UNCHANGED <<index, seen>>

\* The map changes: the leaf that begins at k gets its next version, and a leaf
\* that begins at n, inside it, its first.  If n is k the new leaf takes its place.
Put ==
    /\ index' # index
    /\ \E k, n \in Key : \E l \in Leaf :
          /\ k <= n /\ index[k].key = k /\ index[n].key = k
          /\ \A x \in Key : index[x].addr # l
          /\ index' = InnerPut(Rec(n, l, 0),
                       InnerPut(Rec(k, index[k].addr, index[k].ver + 1), index))
    /\ seen' = [c \in Client |->
                  IF op[c] = "find" THEN seen[c] \cup {index'[arg[c]]} ELSE seen[c]]
    /\ UNCHANGED <<op, arg, ans>>

Next == (\E c \in Client : Begin(c) \/ Found(c) \/ Leave(c)) \/ Put

Spec == Init /\ [][Next]_vars
=============================================================================

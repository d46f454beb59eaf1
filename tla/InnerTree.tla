------------------------------ MODULE InnerTree ------------------------------
(***************************************************************************)
(* The inner levels of SkipVectorDM (DMInner.cc, InnerTree.h): a B-link    *)
(* tree of nodes in memory-server memory.  find_leaf descends from the     *)
(* root without locks and moves right past concurrent splits; inner_insert *)
(* locks one node at a time from the bottom up, splits full nodes and      *)
(* makes a new root.                                                       *)
(*                                                                         *)
(* Atomicity: one action is one verb with the local code that follows it.  *)
(* A node carries a CRC and a torn copy is read again, so reading and      *)
(* writing a node are atomic; its lock word is written with it.            *)
(*                                                                         *)
(* The leaf level is what leaf_insert and leaf_resize make of it: a leaf   *)
(* has a header with its range of keys and its version, a client resizes a *)
(* leaf only if the record it followed has the leaf's version, and the     *)
(* version is raised before inner_insert is called.                        *)
(***************************************************************************)
EXTENDS Naturals, Sequences, FiniteSetsExt

CONSTANTS Client,
          MaxKey,             \* keys are 1..MaxKey; KeyNull is 0
          Wanted,             \* the keys that clients read and write
          InnerNodeCapacity,
          MaxNodes,           \* bound: inner nodes that are ever allocated
          MaxLeaves           \* bound: leaves that are ever allocated

ASSUME InnerAssumption ==
    /\ MaxKey \in Nat /\ Wanted \subseteq 1..MaxKey
    /\ MaxNodes \in Nat \ {0} /\ MaxLeaves \in Nat \ {0}
    /\ InnerNodeCapacity \in Nat /\ InnerNodeCapacity > 1

KeyNull == 0
KeyMax == MaxKey + 1
Key == 0..MaxKey
Addr == 1..MaxNodes
Null == 0           \* Gaddr::Null()
FirstNode == 1      \* the root node of init_root_node
FirstLeaf == 1      \* and its leaf

VARIABLES
    node,     \* node[a]: the inner node at address a
    nodes,    \* how many nodes are allocated
    root,     \* the root pointer
    glock,    \* the global lock
    leaf,     \* leaf[i]: the header of the leaf at address i
    copies,   \* auxiliary: copies[a]: what a cache may hold of bottom node a
    pc, key, path, rec, cached, irec, urec, lvl, sib, local_root,  \* of each client
    seen      \* auxiliary: records that covered a client's key since it began

tree == <<node, nodes, root, glock, leaf, copies>>
vars == <<tree, pc, key, path, rec, cached, irec, urec, lvl, sib, local_root, seen>>

\* recs maps the first key of a child to the child's record.
InnerNode(lo, hi, r, isRoot, isBottom, rs) ==
    [min |-> lo, max |-> hi, right |-> r, root |-> isRoot, bottom |-> isBottom,
     recs |-> rs, lock |-> 0]
NoNode == InnerNode(0, 0, Null, FALSE, FALSE, <<>>)

\* A child that begins at k: a node, or in a bottom node (next_is_leaf) a leaf
\* and the version it had.
Rec(k, a, v) == [key |-> k, addr |-> a, ver |-> v]
NoRec == Rec(KeyNull, Null, 0)

LeafHeader(lo, hi, v) == [min |-> lo, max |-> hi, ver |-> v]

\* InnerNode::check_hdr, ::search and ::insert.
CheckHdr(n, k) == n.min <= k /\ k < n.max
Search(rs, k) == Max({x \in DOMAIN rs : x <= k})
Insert(rs, r) == [x \in DOMAIN rs \cup {r.key} |-> IF x = r.key THEN r ELSE rs[x]]
\* Mutant of Fits: one record too many.
FitsOneMore(rs, k) == k \in DOMAIN rs \/ Cardinality(DOMAIN rs) <= InnerNodeCapacity

Fits(rs, k) == k \in DOMAIN rs \/ Cardinality(DOMAIN rs) < InnerNodeCapacity

\* InnerNode::split: the key of record[half_id].
HalfKey(rs) ==
    CHOOSE k \in DOMAIN rs :
        Cardinality({x \in DOMAIN rs : x < k}) = InnerNodeCapacity \div 2

-----------------------------------------------------------------------------
(* The bottom level, as a lookup that nothing disturbs would see it.        *)

\* Bottom nodes the chain of right siblings reaches: a sibling that is written
\* but not yet linked is not one of them.
Linked(a) == a = FirstNode \/ \E b \in Addr : node[b].right = a /\ node[b].bottom
BottomOf(k) == CHOOSE a \in Addr : node[a].bottom /\ CheckHdr(node[a], k) /\ Linked(a)
Covering(n, k) == n.recs[Search(n.recs, k)]
index == [k \in Key |-> Covering(node[BottomOf(k)], k)]

\* c is in find_leaf or read_bottom_inner on behalf of read or write.
Finding(c) == pc[c] \in {"root", "search", "bottom"} /\ irec[c] = NoRec

\* What a cache may hold of a bottom node: any content it has had.
Copy(n) == [max |-> n.max, recs |-> n.recs]

\* a is written: clients that look up a key now see what covers it.
Write(a, n) ==
    /\ node' = [node EXCEPT ![a] = n]
    /\ copies' = [b \in Addr |-> IF n.bottom /\ b \in {a, n.right}
                                 THEN copies[b] \cup {Copy(node'[b])} ELSE copies[b]]
    /\ seen' = [c \in Client |-> IF Finding(c) THEN seen[c] \cup {index'[key[c]]} ELSE seen[c]]

Init ==
    /\ node = [a \in Addr |-> IF a = FirstNode
                  THEN InnerNode(KeyNull, KeyMax, Null, TRUE, TRUE,
                            [k \in {KeyNull} |-> Rec(k, FirstLeaf, 0)])
                  ELSE NoNode]
    /\ nodes = 1 /\ root = FirstNode /\ glock = 0
    /\ leaf = <<LeafHeader(KeyNull, KeyMax, 0)>>
    /\ copies = [a \in Addr |-> IF a = FirstNode THEN {Copy(node[a])} ELSE {}]
    /\ pc = [c \in Client |-> "idle"] /\ key = [c \in Client |-> KeyNull]
    /\ path = [c \in Client |-> <<>>] /\ rec = [c \in Client |-> NoRec]
    /\ cached = [c \in Client |-> FALSE] /\ lvl = [c \in Client |-> 0]
    /\ irec = [c \in Client |-> NoRec] /\ urec = [c \in Client |-> NoRec]
    /\ sib = [c \in Client |-> Null]
    /\ local_root = [c \in Client |-> Null] /\ seen = [c \in Client |-> {}]

Goto(c, l) == pc' = [pc EXCEPT ![c] = l]

\* The node that a lookup reads: the last of its path.
Current(c) == path[c][Len(path[c])]

-----------------------------------------------------------------------------
(* Lookup.                                                                 *)

\* leaf_search and leaf_insert compare the version in the leaf with the one in
\* the record.
Fresh(r) == leaf[r.addr].ver = r.ver

\* The first half of find_leaf: get_root_addr.
StartFind(c) ==
    IF local_root[c] = Null
    THEN Goto(c, "root") /\ path' = [path EXCEPT ![c] = <<>>]
    ELSE Goto(c, "search") /\ path' = [path EXCEPT ![c] = <<local_root[c]>>]

\* read or write finds nothing in the cache, or leaf_insert or leaf_search finds
\* another version in the leaf than in the record it followed.
FindLeaf(c, k) ==
    /\ \/ pc[c] = "idle"
       \/ pc[c] = "found" /\ key[c] = k /\ ~Fresh(rec[c])
    /\ StartFind(c)
    /\ key' = [key EXCEPT ![c] = k]
    /\ rec' = [rec EXCEPT ![c] = NoRec]
    /\ cached' = [cached EXCEPT ![c] = FALSE]
    /\ seen' = [seen EXCEPT ![c] = {index[k]}]
    /\ UNCHANGED <<tree, irec, urec, lvl, sib, local_root>>

ReadRoot(c) ==
    /\ pc[c] = "root"
    /\ local_root' = [local_root EXCEPT ![c] = root]
    /\ path' = [path EXCEPT ![c] = <<root>>]
    /\ Goto(c, "search")
    /\ UNCHANGED <<tree, key, rec, cached, irec, urec, lvl, seen, sib>>

\* The lookup ends: in its caller, or in inner_insert, which starts at the
\* bottom node again.
EndFind(c, n) ==
    IF irec[c] = NoRec
    THEN /\ Goto(c, "found")
         /\ rec' = [rec EXCEPT ![c] = Covering(n, key[c])]
         /\ seen' = [seen EXCEPT ![c] = {}]
         /\ UNCHANGED lvl
    ELSE Goto(c, "lock") /\ lvl' = [lvl EXCEPT ![c] = Len(path[c])] /\ UNCHANGED <<rec, seen>>

\* inner_search and bottom_search move to the right sibling.
ReadRight(c, n) ==
    /\ n.right # Null
    /\ path' = [path EXCEPT ![c][Len(path[c])] = n.right]
    /\ UNCHANGED <<pc, rec, lvl, local_root, seen>>

InnerSearch(c) ==
    LET n == node[Current(c)] IN
    /\ pc[c] = "search"
    /\ \/ /\ Len(path[c]) = 1 /\ ~n.root
          /\ local_root' = [local_root EXCEPT ![c] = Null]
          /\ Goto(c, "root")
          /\ UNCHANGED <<path, rec, lvl, seen>>
       \/ /\ Len(path[c]) = 1 => n.root
          /\ ~CheckHdr(n, key[c])
          /\ ReadRight(c, n)
       \/ /\ Len(path[c]) = 1 => n.root
          /\ CheckHdr(n, key[c])
          /\ IF n.bottom
             THEN EndFind(c, n) /\ UNCHANGED path
             ELSE /\ path' = [path EXCEPT ![c] = Append(@, Covering(n, key[c]).addr)]
                  /\ UNCHANGED <<pc, rec, lvl, seen>>
          /\ UNCHANGED local_root
    /\ UNCHANGED <<tree, key, cached, irec, urec, sib>>

\* search_cache finds a copy of bottom node a that covers k.
CacheHit(c, k, a) ==
    /\ pc[c] = "idle"
    /\ \E n \in copies[a] :
          /\ node[a].min <= k /\ k < n.max
          /\ rec' = [rec EXCEPT ![c] = Covering(n, k)]
    /\ Goto(c, "hit")
    /\ key' = [key EXCEPT ![c] = k]
    /\ path' = [path EXCEPT ![c] = <<a>>]
    /\ cached' = [cached EXCEPT ![c] = TRUE]
    /\ UNCHANGED <<tree, irec, urec, lvl, sib, local_root, seen>>

\* The copy is stale: read_bottom_inner reads the node it is a copy of.
ReadBottomInner(c) ==
    /\ pc[c] = "hit" /\ ~Fresh(rec[c])
    /\ Goto(c, "bottom")
    /\ rec' = [rec EXCEPT ![c] = NoRec]
    /\ seen' = [seen EXCEPT ![c] = {index[key[c]]}]
    /\ UNCHANGED <<tree, key, path, cached, irec, urec, lvl, sib, local_root>>

BottomSearch(c) ==
    LET n == node[Current(c)] IN
    /\ pc[c] = "bottom"
    /\ IF CheckHdr(n, key[c]) THEN EndFind(c, n) /\ UNCHANGED <<path, local_root>>
                              ELSE ReadRight(c, n)
    /\ UNCHANGED <<tree, key, cached, irec, urec, sib>>

\* read or write is done with the leaf without resizing it.
Return(c) ==
    /\ pc[c] \in {"hit", "found"} /\ Fresh(rec[c])
    /\ Goto(c, "idle")
    /\ rec' = [rec EXCEPT ![c] = NoRec] /\ key' = [key EXCEPT ![c] = KeyNull]
    /\ path' = [path EXCEPT ![c] = <<>>] /\ cached' = [cached EXCEPT ![c] = FALSE]
    /\ UNCHANGED <<tree, irec, urec, lvl, sib, local_root, seen>>

-----------------------------------------------------------------------------
(* Insertion.                                                              *)

\* Mutant of Resize: the leaf keeps its version.
ResizeSameVersion(c, s) ==
    LET a == rec[c].addr  h == leaf[a]  new == Len(leaf) + 1 IN
    /\ pc[c] \in {"hit", "found"} /\ Fresh(rec[c])
    /\ CheckHdr(h, s) /\ new <= MaxLeaves
    /\ leaf' = Append([leaf EXCEPT ![a] = LeafHeader(h.min, s, h.ver)], LeafHeader(s, h.max, 0))
    /\ irec' = [irec EXCEPT ![c] = Rec(s, new, 0)]
    /\ urec' = [urec EXCEPT ![c] = Rec(h.min, a, h.ver)]
    /\ rec' = [rec EXCEPT ![c] = NoRec]
    /\ lvl' = [lvl EXCEPT ![c] = Len(path[c])]
    /\ Goto(c, "lock")
    /\ UNCHANGED <<node, nodes, root, glock, copies, key, path, cached, sib, local_root, seen>>

\* leaf_resize: a leaf is split at s, both parts are written, and inner_insert
\* begins with the record of the new leaf and the new record of the old one.
\* When the cache is full, adapt_capacity makes the new leaf the larger one and
\* it gets every key: s may be the first key of the old leaf, which is left with
\* no key at all, and whose record the new leaf's record replaces.
Resize(c, s) ==
    LET a == rec[c].addr  h == leaf[a]  new == Len(leaf) + 1 IN
    /\ pc[c] \in {"hit", "found"} /\ Fresh(rec[c])
    /\ CheckHdr(h, s) /\ new <= MaxLeaves
    /\ leaf' = Append([leaf EXCEPT ![a] = LeafHeader(h.min, s, h.ver + 1)], LeafHeader(s, h.max, 0))
    /\ irec' = [irec EXCEPT ![c] = Rec(s, new, 0)]
    /\ urec' = [urec EXCEPT ![c] = Rec(h.min, a, h.ver + 1)]
    /\ rec' = [rec EXCEPT ![c] = NoRec]
    /\ lvl' = [lvl EXCEPT ![c] = Len(path[c])]
    /\ Goto(c, "lock")
    /\ UNCHANGED <<node, nodes, root, glock, copies, key, path, cached, sib, local_root, seen>>

\* lock_node.
LockNode(c) ==
    LET a == path[c][lvl[c]] IN
    /\ pc[c] = "lock" /\ node[a].lock = 0
    /\ node' = [node EXCEPT ![a].lock = 1]
    /\ Goto(c, "write")
    /\ UNCHANGED <<nodes, root, glock, leaf, copies, key, path, rec, cached, irec,
                   urec, lvl, sib, local_root, seen>>

IsBottom(c) == lvl[c] = Len(path[c])

\* Mutant of Updated: the update record is forgotten.
UpdatedNot(c, n) == n.recs

\* The records of node n once inner_write has put the update record into its
\* copy of the node.
Updated(c, n) == IF IsBottom(c) THEN Insert(n.recs, urec[c]) ELSE n.recs

\* The assertions of inner_write on the update record.
UpdateFits(c, n) == n.bottom /\ CheckHdr(n, urec[c].key) /\ Fits(n.recs, urec[c].key)

\* inner_insert returns, and with it leaf_insert and write.
Done(c) ==
    /\ Goto(c, "idle")
    /\ key' = [key EXCEPT ![c] = KeyNull] /\ path' = [path EXCEPT ![c] = <<>>]
    /\ cached' = [cached EXCEPT ![c] = FALSE]
    /\ lvl' = [lvl EXCEPT ![c] = 0] /\ sib' = [sib EXCEPT ![c] = Null]
    /\ irec' = [irec EXCEPT ![c] = NoRec] /\ urec' = [urec EXCEPT ![c] = NoRec]

\* inner_write holds the lock of node n, and n covers the record's key.
CanInsert(c, n) ==
    /\ pc[c] = "write" /\ CheckHdr(n, irec[c].key)
    /\ IsBottom(c) => UpdateFits(c, n)

\* Mutant of WriteRight: the same node is locked again.
WriteRightStays(c) ==
    LET a == path[c][lvl[c]]  n == node[a] IN
    /\ pc[c] = "write" /\ ~CheckHdr(n, irec[c].key) /\ n.right # Null
    /\ node' = [node EXCEPT ![a].lock = 0]
    /\ Goto(c, "lock")
    /\ UNCHANGED <<nodes, root, glock, leaf, copies, key, path, rec, cached, irec, urec,
                   lvl, sib, local_root, seen>>

\* inner_write turns to the right node.
WriteRight(c) ==
    LET a == path[c][lvl[c]]  n == node[a] IN
    /\ pc[c] = "write" /\ ~CheckHdr(n, irec[c].key) /\ n.right # Null
    /\ node' = [node EXCEPT ![a].lock = 0]
    /\ Goto(c, "lock")
    /\ path' = [path EXCEPT ![c][lvl[c]] = n.right]
    /\ UNCHANGED <<nodes, root, glock, leaf, copies, key, rec, cached, irec, urec,
                   lvl, sib, local_root, seen>>

\* inner_write inserts both records and returns true.
InnerWrite(c) ==
    LET a == path[c][lvl[c]]  n == node[a]  rs == Updated(c, n) IN
    /\ CanInsert(c, n) /\ Fits(rs, irec[c].key)
    /\ Write(a, [n EXCEPT !.recs = Insert(rs, irec[c]), !.lock = 0])
    /\ Done(c)
    /\ UNCHANGED <<nodes, root, glock, leaf, rec, local_root>>

\* The node is full, but its address came from the cache, so that the nodes
\* above it are not known: inner_insert looks the key up from the root.
InsertAgain(c) ==
    LET a == path[c][lvl[c]]  n == node[a] IN
    /\ CanInsert(c, n) /\ ~Fits(Updated(c, n), irec[c].key) /\ cached[c]
    /\ node' = [node EXCEPT ![a].lock = 0]
    /\ cached' = [cached EXCEPT ![c] = FALSE]
    /\ lvl' = [lvl EXCEPT ![c] = 0]
    /\ StartFind(c)
    /\ UNCHANGED <<nodes, root, glock, leaf, copies, key, rec, irec, urec, sib,
                   local_root, seen>>

\* Mutant of WriteSibling: the sibling's header keeps the old first key.
WriteSiblingOldMin(c) ==
    LET n == node[path[c][lvl[c]]]
        rs == Updated(c, n)
        h == HalfKey(rs)
        moved == Restrict(rs, {x \in DOMAIN rs : h <= x})
    IN
    /\ CanInsert(c, n) /\ ~Fits(rs, irec[c].key) /\ ~cached[c]
    /\ nodes < MaxNodes /\ nodes' = nodes + 1
    /\ sib' = [sib EXCEPT ![c] = nodes + 1]
    /\ node' = [node EXCEPT ![nodes + 1] =
                  InnerNode(n.min, n.max, n.right, FALSE, n.bottom,
                            IF h < irec[c].key THEN Insert(moved, irec[c])
                                               ELSE moved)]
    /\ Goto(c, "split")
    /\ UNCHANGED <<root, glock, leaf, copies, key, path, rec, cached, irec, urec, lvl,
                   local_root, seen>>

\* node_split writes the new sibling, which no node points to yet.
WriteSibling(c) ==
    LET n == node[path[c][lvl[c]]]
        rs == Updated(c, n)
        h == HalfKey(rs)
        moved == Restrict(rs, {x \in DOMAIN rs : h <= x})
    IN
    /\ CanInsert(c, n) /\ ~Fits(rs, irec[c].key) /\ ~cached[c]
    /\ nodes < MaxNodes /\ nodes' = nodes + 1
    /\ sib' = [sib EXCEPT ![c] = nodes + 1]
    /\ node' = [node EXCEPT ![nodes + 1] =
                  InnerNode(h, n.max, n.right, FALSE, n.bottom,
                            IF h < irec[c].key THEN Insert(moved, irec[c])
                                               ELSE moved)]
    /\ Goto(c, "split")
    /\ UNCHANGED <<root, glock, leaf, copies, key, path, rec, cached, irec, urec, lvl,
                   local_root, seen>>

\* node_split then writes the old node, which links the sibling; the sibling's
\* record is inserted one level up.
WriteOld(c) ==
    LET a == path[c][lvl[c]]
        n == node[a]
        rs == Updated(c, n)
        h == HalfKey(rs)
        kept == Restrict(rs, {x \in DOMAIN rs : x < h})
    IN
    /\ pc[c] = "split"
    /\ Write(a, [n EXCEPT !.max = h, !.right = sib[c], !.root = FALSE, !.lock = 0,
                         !.recs = IF irec[c].key < h
                                  THEN Insert(kept, irec[c]) ELSE kept])
    /\ irec' = [irec EXCEPT ![c] = Rec(h, sib[c], 0)]
    /\ IF lvl[c] = 1 THEN Goto(c, "glock") /\ UNCHANGED lvl
                     ELSE Goto(c, "lock") /\ lvl' = [lvl EXCEPT ![c] = @ - 1]
    /\ UNCHANGED <<nodes, root, glock, leaf, key, path, rec, cached, urec, sib, local_root>>

-----------------------------------------------------------------------------
(* A new root.                                                             *)

\* update_root locks the whole index.
LockRoot(c) ==
    /\ pc[c] = "glock" /\ glock = 0
    /\ glock' = 1
    /\ Goto(c, "newroot")
    /\ UNCHANGED <<node, nodes, root, leaf, copies, key, path, rec, cached, irec, urec,
                   lvl, sib, local_root, seen>>

\* Mutant of NewRoot: its two records are swapped.
NewRootSwapped(c) ==
    /\ pc[c] = "newroot" /\ path[c][1] = root
    /\ nodes < MaxNodes /\ nodes' = nodes + 1
    /\ sib' = [sib EXCEPT ![c] = nodes + 1]
    /\ node' = [node EXCEPT ![nodes + 1] =
                  InnerNode(KeyNull, KeyMax, Null, TRUE, FALSE,
                            Insert([k \in {KeyNull} |-> [irec[c] EXCEPT !.key = k]],
                                   Rec(irec[c].key, path[c][1], 0)))]
    /\ Goto(c, "setroot")
    /\ UNCHANGED <<root, glock, leaf, copies, key, path, rec, cached, irec, urec, lvl,
                   local_root, seen>>

\* It writes the new root node, which has the node that was split and its
\* sibling, if the root pointer is what the client began with.
NewRoot(c) ==
    /\ pc[c] = "newroot" /\ path[c][1] = root
    /\ nodes < MaxNodes /\ nodes' = nodes + 1
    /\ sib' = [sib EXCEPT ![c] = nodes + 1]
    /\ node' = [node EXCEPT ![nodes + 1] =
                  InnerNode(KeyNull, KeyMax, Null, TRUE, FALSE,
                            Insert([k \in {KeyNull} |-> Rec(k, path[c][1], 0)], irec[c]))]
    /\ Goto(c, "setroot")
    /\ UNCHANGED <<root, glock, leaf, copies, key, path, rec, cached, irec, urec, lvl,
                   local_root, seen>>

\* Otherwise an assertion fails, with the index still locked.
RootFails(c) ==
    /\ pc[c] = "newroot" /\ path[c][1] # root
    /\ Goto(c, "rootabort")
    /\ UNCHANGED <<tree, key, path, rec, cached, irec, urec, lvl, sib, local_root, seen>>

SetRoot(c) ==
    /\ pc[c] = "setroot"
    /\ root' = sib[c]
    /\ Goto(c, "gunlock")
    /\ UNCHANGED <<node, nodes, glock, leaf, copies, key, path, rec, cached, irec, urec,
                   lvl, sib, local_root, seen>>

UnlockRoot(c) ==
    /\ pc[c] = "gunlock"
    /\ glock' = 0
    /\ Done(c)
    /\ UNCHANGED <<node, nodes, root, leaf, copies, rec, local_root, seen>>

-----------------------------------------------------------------------------
Descend(c) == ReadRoot(c) \/ InnerSearch(c) \/ BottomSearch(c)

Insertion(c) ==
    \/ LockNode(c) \/ WriteRight(c) \/ InnerWrite(c) \/ InsertAgain(c)
    \/ WriteSibling(c) \/ WriteOld(c)
    \/ LockRoot(c) \/ NewRoot(c) \/ RootFails(c) \/ SetRoot(c) \/ UnlockRoot(c)

Next == \E c \in Client :
    \/ \E k \in Wanted : FindLeaf(c, k) \/ \E a \in Addr : CacheHit(c, k, a)
    \/ ReadBottomInner(c) \/ Return(c)
    \/ \E s \in 1..MaxKey : Resize(c, s)
    \/ Descend(c) \/ Insertion(c)

Spec == Init /\ [][Next]_vars

\* A client goes on with what it has begun; nothing makes it begin.
FairSpec == Spec /\ \A c \in Client : WF_vars(Descend(c) \/ Insertion(c))

-----------------------------------------------------------------------------
(* Properties.                                                             *)

\* Nodes, records, lookups and insertions have the values that DMInner.cc gives
\* them.
TypeOK ==
    /\ \A a \in Addr :
          /\ node[a].min \in Key /\ node[a].max \in 0..KeyMax /\ node[a].right \in 0..nodes
          /\ node[a].root \in BOOLEAN /\ node[a].bottom \in BOOLEAN /\ node[a].lock \in {0, 1}
          /\ DOMAIN node[a].recs \subseteq Key
          /\ Cardinality(DOMAIN node[a].recs) <= InnerNodeCapacity
    /\ nodes \in Addr /\ root \in 1..nodes /\ glock \in {0, 1}
    /\ leaf \in Seq([min : Key, max : 0..KeyMax, ver : Nat]) /\ Len(leaf) \in 1..MaxLeaves
    /\ pc \in [Client -> {"idle", "root", "search", "hit", "bottom", "found", "lock", "write",
                          "split", "glock", "newroot", "setroot", "gunlock", "rootabort"}]
    /\ key \in [Client -> Key] /\ cached \in [Client -> BOOLEAN]
    /\ \A c \in Client :
          /\ path[c] \in Seq(1..nodes) /\ lvl[c] \in 0..Len(path[c])
          /\ local_root[c] \in 0..nodes /\ sib[c] \in 0..nodes
          /\ \A r \in {rec[c], irec[c], urec[c]} \cup seen[c] : r \in [key : Key, addr : Nat, ver : Nat]

\* The assertions of inner_search, bottom_search and inner_write hold: a client
\* that has to move right finds a sibling, and the bottom node in which it
\* inserts the record of a new leaf has the record of the leaf it came from.
AssertsHold ==
    \A c \in Client :
        /\ pc[c] \in {"search", "bottom"}
              => CheckHdr(node[Current(c)], key[c]) \/ node[Current(c)].right # Null
        /\ pc[c] = "write" =>
              LET n == node[path[c][lvl[c]]] IN
              IF CheckHdr(n, irec[c].key) THEN IsBottom(c) => UpdateFits(c, n)
                                          ELSE n.right # Null

\* The assertion of update_root: the root pointer is what it was when the client
\* that has split its topmost node began at it.
RootUnchanged == \A c \in Client : pc[c] # "rootabort"

\* What a search relies on, in every node at every time, splits under way
\* included.  A node has a record for its first key, so that search never falls
\* off its left end, and only records that it covers.  The child of a record
\* begins where the record says.
SearchSound ==
    \A a \in 1..nodes :
        /\ node[a].min \in DOMAIN node[a].recs
        /\ \A k \in DOMAIN node[a].recs :
              /\ CheckHdr(node[a], k)
              /\ ~node[a].bottom => node[node[a].recs[k].addr].min = k

\* A lookup and an insertion are never to the right of their key, whatever is
\* split between two of their reads: moving right is enough to get there.
NeverRight ==
    \A c \in Client :
        /\ pc[c] \in {"search", "bottom"} => node[Current(c)].min <= key[c]
        /\ pc[c] \in {"lock", "write", "split"} => node[path[c][lvl[c]]].min <= irec[c].key

\* The version in a record is enough to tell that a cached copy is stale: if a
\* copy of a bottom node, however old, leads key k to a leaf and has the version
\* that the leaf has, the leaf's range has k.  So also for a leaf that was split
\* at its own first key, which stays where stale records can reach it.
VersionTells ==
    \A a \in 1..nodes : \A n \in copies[a] : \A k \in node[a].min..(n.max - 1) :
        LET r == Covering(n, k) IN Fresh(r) => CheckHdr(leaf[r.addr], k)

\* The tree implements the ordered index: both records of a resized leaf appear
\* at once, when inner_write or node_split writes the old bottom node, and a
\* lookup that reads the nodes, from the root or from the address that a cached
\* copy came from, returns a record that covered its key while it ran.
OI == INSTANCE OrderedIndex WITH
          Leaf <- 1..MaxLeaves,
          op <- [c \in Client |-> IF Finding(c) THEN "find"
                                  ELSE IF pc[c] = "found" THEN "found" ELSE "idle"],
          arg <- [c \in Client |-> IF Finding(c) \/ pc[c] = "found" THEN key[c] ELSE 0],
          ans <- [c \in Client |-> IF pc[c] = "found" THEN rec[c] ELSE NoRec]

Implements == OI!Spec

\* A lookup ends, also while the root is split under it, and so does an insertion,
\* though it gets its locks in a race and may begin again, unless update_root has
\* aborted and left the index locked.
OperationsEnd ==
    \A c \in Client : LET busy == Finding(c) \/ irec[c] # NoRec IN
                      []<>(~busy \/ ~RootUnchanged)
=============================================================================

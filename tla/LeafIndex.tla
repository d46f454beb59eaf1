----------------------------- MODULE LeafIndex -----------------------------
(***************************************************************************)
(* The leaf level of SkipVectorDM: read, write, leaf_search, leaf_insert   *)
(* and leaf_resize (src/SkipVectorDM.cc), run by concurrent clients over   *)
(* one-sided verbs.                                                        *)
(*                                                                         *)
(* A leaf is a hash table in memory-server memory: a header and an array   *)
(* of entries.  Its fingerprint table, in compute-server memory, holds the *)
(* one-byte fingerprint of each used slot, the leaf's version and the      *)
(* leaf's lock.  The inner index maps a key to a record naming a leaf and  *)
(* the version the leaf had when the record was written.                   *)
(*                                                                         *)
(* Atomicity: one action is one verb (a READ, WRITE or CAS that the code   *)
(* waits for) with the local code that follows it.  A fingerprint table    *)
(* carries a CRC and a torn copy is read again, so a table read is atomic. *)
(* A leaf node has no CRC (ENABLE_ENTRY_CRC is off): leaf_resize           *)
(* overwrites it slot by slot, and an entry that straddles two cache lines *)
(* is read line by line.  The inner index is the answer of its bottom      *)
(* level, whose nodes carry a CRC: a lookup and an insertion are atomic    *)
(* here.                                                                   *)
(***************************************************************************)
EXTENDS Naturals, FiniteSets

CONSTANTS Client, Node, Key, Value, NoValue, Leaf,
          CallerValue,       \* what a caller's variable may hold when it calls read
          LeafNodeCapacity,  \* slots of the first leaf
          MaxNodeCapacity,   \* limit of adapt_capacity
          KeyMax,            \* above every key
          FPOf,              \* FPOf[k]: fingerprint of key k, never 0
          NodeOf,            \* NodeOf[c]: compute server of client c
          HomeOf,            \* HomeOf[l]: server of leaf l's fingerprint table
          Straddle,          \* Straddle[i]: fields of slot i in a second cache line
          MemNode,           \* memory server 0, as the home of a table
          Head               \* the leaf init_root_node creates

KeyNull == 0
NullLeaf == 0   \* Gaddr::Null()
Slot == 1..MaxNodeCapacity
Values == Value \cup {NoValue}

ASSUME LeafAssumption ==
    /\ Key \subseteq Nat /\ Key # {} /\ KeyMax \in Nat
    /\ \A k \in Key : k < KeyMax
    /\ Leaf \subseteq Nat \ {0} /\ Head \in Leaf
    /\ NoValue \notin Value /\ CallerValue \subseteq Value \cup {NoValue}
    /\ LeafNodeCapacity \in Nat /\ MaxNodeCapacity \in Nat
    /\ 1 <= LeafNodeCapacity /\ LeafNodeCapacity <= MaxNodeCapacity
    /\ FPOf \in [Key -> Nat \ {0}]
    /\ NodeOf \in [Client -> Node]
    /\ HomeOf \in [Leaf -> Node \cup {MemNode}]
    /\ MemNode \notin Node
    /\ Straddle \in [1..MaxNodeCapacity -> SUBSET {"key", "val"}]

VARIABLES
    fpt,        \* fpt[l]: fingerprint table [ver, fp, lock] of leaf l
    hdr,        \* hdr[l]: LeafHeader of leaf l
    ent,        \* ent[l][i]: Entry i of leaf l
    lfp,        \* lfp[n][l]: compute server n's local copy of fpt[l]
    index,      \* index[k]: the record the inner index returns for key k
    published,  \* published[k]: every record index[k] has been
    used,       \* leaves allocated so far
    pc, key, val, path, loc, snap, slot, buf, rz,   \* the clients' locals
    dict, seen  \* the abstract map and the values a read may return

memVars == <<fpt, hdr, ent, lfp, index, published, used>>
clientVars == <<pc, key, val, path, loc, snap, slot, buf, rz>>
ghostVars == <<dict, seen>>
vars == <<memVars, clientVars, ghostVars>>

-----------------------------------------------------------------------------
(* Data layout: LeafNode.h and InnerTree.h.                                *)

FPs == [Slot -> {0} \cup {FPOf[k] : k \in Key}]
NoFP == [i \in Slot |-> 0]
Table(v, f) == [ver |-> v, fp |-> f]

EmptyEntry(v) == [ver |-> v, valid |-> 0, key |-> KeyNull, val |-> NoValue]
\* Entry::add_version and Entry::clean, which leaves the value where it is.
CleanedEntry(e) == [ver |-> e.ver + 1, valid |-> 0, key |-> KeyNull, val |-> e.val]
FullEntry(v, k, x) == [ver |-> v, valid |-> 1, key |-> k, val |-> x]

Header(v, c, lo, hi, r) ==
    [ver |-> v, cap |-> c, min |-> lo, max |-> hi, right |-> r]

Record(k, l, c, v) == [key |-> k, leaf |-> l, cap |-> c, ver |-> v]

\* The largest entry key not above k wins a search, so inserting r takes over
\* exactly the keys from r.key up to the next record.
InnerPut(r, idx) ==
    [k \in Key |-> IF r.key <= k /\ idx[k].key <= r.key THEN r ELSE idx[k]]

AnyKey == CHOOSE k \in Key : TRUE

\* The least element of S, if there is one.
First(S) == {i \in S : \A j \in S : i <= j}

\* Slots of the copied table that may hold the key, from the cursor on.
Candidates(c) ==
    {i \in Slot : /\ slot[c] <= i /\ i <= path[c].cap
                  /\ snap[c].fp[i] = FPOf[key[c]]}

\* Slots FPTable::insert may take.
FreeSlots(c) == {i \in Slot : i <= path[c].cap /\ snap[c].fp[i] = 0}

\* std::sort of node_entries: S in increasing key order.
Sortings(S) ==
    {f \in [1..Cardinality(S) -> S] :
        /\ \A e \in S : \E i \in 1..Cardinality(S) : f[i] = e
        /\ \A i, j \in 1..Cardinality(S) : i < j => f[i].key < f[j].key}

NoResize == [sib |-> Head, scap |-> 0, split |-> 0, kv |-> <<>>,
             hdr |-> Header(0, 0, KeyNull, KeyMax, NullLeaf),
             old |-> [i \in Slot |-> EmptyEntry(0)]]

-----------------------------------------------------------------------------
\* init_root_node: one empty leaf, one record for every key.
FirstRecord == Record(KeyNull, Head, LeafNodeCapacity, 0)

Init ==
    /\ fpt = [l \in Leaf |-> [ver |-> 0, fp |-> NoFP, lock |-> 0]]
    /\ hdr = [l \in Leaf |-> IF l = Head
                 THEN Header(0, LeafNodeCapacity, KeyNull, KeyMax, NullLeaf)
                 ELSE Header(0, 0, KeyNull, KeyNull, NullLeaf)]
    /\ ent = [l \in Leaf |-> [i \in Slot |-> EmptyEntry(0)]]
    /\ lfp = [n \in Node |-> [l \in Leaf |-> Table(0, NoFP)]]
    /\ index = [k \in Key |-> FirstRecord]
    /\ published = [k \in Key |-> {FirstRecord}]
    /\ used = {Head}
    /\ pc = [c \in Client |-> "idle"]
    /\ key = [c \in Client |-> AnyKey]
    /\ val = [c \in Client |-> NoValue]
    /\ path = [c \in Client |-> FirstRecord]
    /\ loc = [c \in Client |-> FALSE]
    /\ snap = [c \in Client |-> Table(0, NoFP)]
    /\ slot = [c \in Client |-> 1]
    /\ buf = [c \in Client |-> EmptyEntry(0)]
    /\ rz = [c \in Client |-> NoResize]
    /\ dict = [k \in Key |-> NoValue]
    /\ seen = [c \in Client |-> {}]

-----------------------------------------------------------------------------
(* The abstract map changes at one step of each write: seen collects what  *)
(* the reads under way may return.                                         *)

Reading(c) == pc[c] \in {"search", "match", "tail", "refresh"}

Commit(c) ==
    /\ dict' = [dict EXCEPT ![key[c]] = val[c]]
    /\ seen' = [d \in Client |-> IF Reading(d) /\ key[d] = key[c]
                                  THEN seen[d] \cup {val[c]} ELSE seen[d]]

Goto(c, label) == pc' = [pc EXCEPT ![c] = label]

-----------------------------------------------------------------------------
(* read and leaf_search.  The first path comes from the index cache, which *)
(* may hold any record the index has had, or from find_leaf.               *)

ReadStart(c, k, v) ==
    /\ pc[c] = "idle"
    /\ Goto(c, "search")
    /\ key' = [key EXCEPT ![c] = k]
    /\ val' = [val EXCEPT ![c] = v]
    /\ \E r \in published[k] : path' = [path EXCEPT ![c] = r]
    /\ loc' = [loc EXCEPT ![c] = TRUE]
    /\ seen' = [seen EXCEPT ![c] = {dict[k]}]
    /\ UNCHANGED <<memVars, snap, slot, buf, rz, dict>>

\* get_local_fp_buffer: on the table's home server the local bytes are the
\* table itself.
LocalTable(n, l) ==
    IF HomeOf[l] = n THEN Table(fpt[l].ver, fpt[l].fp) ELSE lfp[n][l]

ReadsRemote(c) ==
    LET l == path[c].leaf IN
    ~loc[c] \/ HomeOf[l] = MemNode \/ LocalTable(NodeOf[c], l).fp[1] = 0

ReadFP(c) ==
    LET l == path[c].leaf
        n == NodeOf[c]
        t == IF ReadsRemote(c) THEN Table(fpt[l].ver, fpt[l].fp)
                               ELSE LocalTable(n, l)
    IN  /\ pc[c] = "search"
        /\ loc' = [loc EXCEPT ![c] = ~ReadsRemote(c)]
        /\ lfp' = IF ReadsRemote(c) /\ HomeOf[l] \notin {n, MemNode}
                    THEN [lfp EXCEPT ![n][l] = t] ELSE lfp
        /\ snap' = [snap EXCEPT ![c] = t]
        /\ slot' = [slot EXCEPT ![c] = 1]
        /\ Goto(c, IF t.ver = path[c].ver THEN "match" ELSE "refresh")
        /\ UNCHANGED <<fpt, hdr, ent, index, published, used, key, val, path,
                       buf, rz, ghostVars>>

\* The local bytes are torn or longer than the 64 copied: the CRC fails.
LocalFPTorn(c) ==
    /\ pc[c] = "search"
    /\ ~ReadsRemote(c)
    /\ loc' = [loc EXCEPT ![c] = FALSE]
    /\ UNCHANGED <<memVars, pc, key, val, path, snap, slot, buf, rz, ghostVars>>

\* Mutant of RefreshPath: the stale record is kept.
RefreshPathKeeps(c) ==
    /\ pc[c] = "refresh"
    /\ loc' = [loc EXCEPT ![c] = FALSE]
    /\ Goto(c, "search")
    /\ UNCHANGED <<memVars, key, val, path, snap, slot, buf, rz, ghostVars>>

\* read_bottom_inner or find_leaf after a version mismatch.
RefreshPath(c) ==
    /\ pc[c] = "refresh"
    /\ path' = [path EXCEPT ![c] = index[key[c]]]
    /\ loc' = [loc EXCEPT ![c] = FALSE]
    /\ Goto(c, "search")
    /\ UNCHANGED <<memVars, key, val, snap, slot, buf, rz, ghostVars>>

\* The entry of slot i has been read as e; Entry::search sets the caller's
\* variable either way.
Examine(c, i, e) ==
    /\ slot' = [slot EXCEPT ![c] = i + 1]
    /\ IF e.ver # path[c].ver THEN Goto(c, "refresh") /\ UNCHANGED val
       ELSE IF e.valid = 1 /\ e.key = key[c]
         THEN Goto(c, "found") /\ val' = [val EXCEPT ![c] = e.val]
         ELSE Goto(c, "match") /\ val' = [val EXCEPT ![c] = NoValue]

ReadEntry(c) ==
    /\ pc[c] = "match"
    /\ \E i \in First(Candidates(c)) :
         IF Straddle[i] = {}
           THEN Examine(c, i, ent[path[c].leaf][i]) /\ UNCHANGED buf
           ELSE /\ buf' = [buf EXCEPT ![c] = ent[path[c].leaf][i]]
                /\ slot' = [slot EXCEPT ![c] = i]
                /\ Goto(c, "tail") /\ UNCHANGED val
    /\ UNCHANGED <<memVars, key, path, loc, snap, rz, ghostVars>>

\* The second line of an entry: no CRC ties it to the first.
ReadTail(c) ==
    LET i == slot[c]
        e == ent[path[c].leaf][i]
        Field(f) == IF f \in Straddle[i] THEN e[f] ELSE buf[c][f]
    IN  /\ pc[c] = "tail"
        /\ Examine(c, i, [buf[c] EXCEPT !.key = Field("key"), !.val = Field("val")])
        /\ UNCHANGED <<memVars, key, path, loc, snap, buf, rz, ghostVars>>

\* Mutant of ReadMiss: a miss on the local copy is final.
ReadMissLocal(c) ==
    /\ pc[c] = "match"
    /\ Candidates(c) = {}
    /\ loc' = [loc EXCEPT ![c] = FALSE]
    /\ Goto(c, "found")
    /\ UNCHANGED <<memVars, key, val, path, snap, slot, buf, rz, ghostVars>>

\* A miss on the local copy is retried remotely; a remote miss is final and
\* leaves the caller's variable alone.
ReadMiss(c) ==
    /\ pc[c] = "match"
    /\ Candidates(c) = {}
    /\ loc' = [loc EXCEPT ![c] = FALSE]
    /\ Goto(c, IF loc[c] THEN "search" ELSE "found")
    /\ UNCHANGED <<memVars, key, val, path, snap, slot, buf, rz, ghostVars>>

-----------------------------------------------------------------------------
(* write and leaf_insert.                                                  *)

WriteStart(c, k, v) ==
    /\ pc[c] = "idle"
    /\ Goto(c, "lock")
    /\ key' = [key EXCEPT ![c] = k]
    /\ val' = [val EXCEPT ![c] = v]
    /\ \E r \in published[k] : path' = [path EXCEPT ![c] = r]
    /\ seen' = [seen EXCEPT ![c] = {}]
    /\ UNCHANGED <<memVars, loc, snap, slot, buf, rz, dict>>

\* Mutant of LockTable: the outcome of the CAS is ignored.
LockTableIgnoresCAS(c) ==
    /\ pc[c] = "lock"
    /\ fpt' = [fpt EXCEPT ![path[c].leaf].lock = 1]
    /\ Goto(c, "locked")
    /\ UNCHANGED <<hdr, ent, lfp, index, published, used, key, val, path, loc,
                   snap, slot, buf, rz, ghostVars>>

\* lock_table: the CAS that succeeds.
LockTable(c) ==
    /\ pc[c] = "lock"
    /\ fpt[path[c].leaf].lock = 0
    /\ fpt' = [fpt EXCEPT ![path[c].leaf].lock = 1]
    /\ Goto(c, "locked")
    /\ UNCHANGED <<hdr, ent, lfp, index, published, used, key, val, path, loc,
                   snap, slot, buf, rz, ghostVars>>

\* Mutant of ReadTable: the version is not compared with the path.
ReadTableUnchecked(c) ==
    LET t == fpt[path[c].leaf] IN
    /\ pc[c] = "locked"
    /\ snap' = [snap EXCEPT ![c] = Table(t.ver, t.fp)]
    /\ slot' = [slot EXCEPT ![c] = 1]
    /\ Goto(c, "probe")
    /\ UNCHANGED <<memVars, key, val, path, loc, buf, rz, ghostVars>>

ReadTable(c) ==
    LET t == fpt[path[c].leaf] IN
    /\ pc[c] = "locked"
    /\ snap' = [snap EXCEPT ![c] = Table(t.ver, t.fp)]
    /\ slot' = [slot EXCEPT ![c] = 1]
    /\ Goto(c, IF t.ver = path[c].ver THEN "probe" ELSE "stale")
    /\ UNCHANGED <<memVars, key, val, path, loc, buf, rz, ghostVars>>

UnlockTable(c, label) ==
    /\ fpt' = [fpt EXCEPT ![path[c].leaf].lock = 0]
    /\ Goto(c, label)
    /\ UNCHANGED <<hdr, ent, lfp, index, published, used, key, val, path, loc,
                   snap, slot, buf, rz, ghostVars>>

UnlockStale(c) == pc[c] = "stale" /\ UnlockTable(c, "reroute")

ReroutePath(c) ==
    /\ pc[c] = "reroute"
    /\ path' = [path EXCEPT ![c] = index[key[c]]]
    /\ Goto(c, "lock")
    /\ UNCHANGED <<memVars, key, val, loc, snap, slot, buf, rz, ghostVars>>

\* Entry::insert succeeds on an unused entry and on the key's own entry.
Mine(c, i) ==
    LET e == ent[path[c].leaf][i] IN e.valid = 0 \/ e.key = key[c]

\* Mutant of ProbeEntry: a fingerprint match is taken for a key match.
ProbeEntryByFP(c) ==
    /\ pc[c] = "probe"
    /\ \E i \in First(Candidates(c)) : slot' = [slot EXCEPT ![c] = i]
    /\ Goto(c, "update")
    /\ UNCHANGED <<memVars, key, val, path, loc, snap, buf, rz, ghostVars>>

\* Mutant of ProbeEntry: a collision does not move on to the next slot.
ProbeEntryStays(c) ==
    /\ pc[c] = "probe"
    /\ \E i \in First(Candidates(c)) :
         /\ slot' = [slot EXCEPT ![c] = i]
         /\ IF Mine(c, i) THEN Goto(c, "update") ELSE UNCHANGED pc
    /\ UNCHANGED <<memVars, key, val, path, loc, snap, buf, rz, ghostVars>>

ProbeEntry(c) ==
    /\ pc[c] = "probe"
    /\ \E i \in First(Candidates(c)) :
         IF Mine(c, i)
           THEN slot' = [slot EXCEPT ![c] = i] /\ Goto(c, "update")
           ELSE slot' = [slot EXCEPT ![c] = i + 1] /\ UNCHANGED pc
    /\ UNCHANGED <<memVars, key, val, path, loc, snap, buf, rz, ghostVars>>

UpdateEntry(c) ==
    LET l == path[c].leaf IN
    /\ pc[c] = "update"
    /\ ent' = [ent EXCEPT ![l][slot[c]] =
                  FullEntry(path[c].ver, key[c], val[c])]
    /\ Goto(c, "unlock")
    /\ Commit(c)
    /\ UNCHANGED <<fpt, hdr, lfp, index, published, used, key, val, path, loc,
                   snap, slot, buf, rz>>

UnlockUpdated(c) == pc[c] = "unlock" /\ UnlockTable(c, "written")

\* FPTable::insert found a free slot: the entry is written before the table.
WriteEntry(c) ==
    /\ pc[c] = "probe"
    /\ Candidates(c) = {}
    /\ \E i \in First(FreeSlots(c)) :
         /\ ent' = [ent EXCEPT ![path[c].leaf][i] =
                       FullEntry(path[c].ver, key[c], val[c])]
         /\ snap' = [snap EXCEPT ![c].fp[i] = FPOf[key[c]]]
    /\ Goto(c, "publish")
    /\ UNCHANGED <<fpt, hdr, lfp, index, published, used, key, val, path, loc,
                   slot, buf, rz, ghostVars>>

\* The table is written with its lock word zero: publication and unlock.
WriteTable(c) ==
    /\ pc[c] = "publish"
    /\ fpt' = [fpt EXCEPT ![path[c].leaf] =
                  [ver |-> snap[c].ver, fp |-> snap[c].fp, lock |-> 0]]
    /\ Goto(c, "written")
    /\ Commit(c)
    /\ UNCHANGED <<hdr, ent, lfp, index, published, used, key, val, path, loc,
                   snap, slot, buf, rz>>

-----------------------------------------------------------------------------
(* leaf_resize, entered with the table's lock held and no free slot.       *)

NodeEntries(c) ==
    {[key |-> key[c], val |-> val[c]]} \cup
    {[key |-> e.key, val |-> e.val] :
        e \in {ent[path[c].leaf][i] : i \in {j \in Slot :
                  j <= path[c].cap /\ ent[path[c].leaf][j].valid = 1}}}

\* adapt_capacity: doubled, up to the limit, when the cache is nearly full.
SiblingCapacities(n) ==
    {n, IF 2 * n <= MaxNodeCapacity THEN 2 * n ELSE MaxNodeCapacity}

\* The leaf is read; sibling leaf and table are allocated.
ResizeRead(c) ==
    LET l == path[c].leaf
        n == Cardinality(NodeEntries(c))
    IN  /\ pc[c] = "probe"
        /\ Candidates(c) = {}
        /\ FreeSlots(c) = {}
        /\ \E kv \in Sortings(NodeEntries(c)),
              s \in First(Leaf \ used), sc \in SiblingCapacities(path[c].cap) :
              /\ used' = used \cup {s}
              /\ rz' = [rz EXCEPT ![c] =
                    [sib |-> s, scap |-> sc, kv |-> kv, hdr |-> hdr[l],
                     split |-> IF sc > path[c].cap THEN 0 ELSE n \div 2,
                     old |-> ent[l]]]
        /\ Goto(c, "sibling")
        /\ UNCHANGED <<fpt, hdr, ent, lfp, index, published, key, val, path,
                       loc, snap, slot, buf, ghostVars>>

\* The split key: the first key of the sibling.
SplitKey(c) == rz[c].kv[rz[c].split + 1].key

CurrentHeader(c) ==
    Header(rz[c].hdr.ver + 1, rz[c].hdr.cap, rz[c].hdr.min, SplitKey(c),
           rz[c].sib)

\* Mutant of SiblingHeader: the right neighbour is lost.
SiblingHeaderLast(c) ==
    Header(0, rz[c].scap, SplitKey(c), rz[c].hdr.max, NullLeaf)

SiblingHeader(c) ==
    Header(0, rz[c].scap, SplitKey(c), rz[c].hdr.max, rz[c].hdr.right)

\* Slot i of the two halves of the split, filled in sorted order.
CurrentEntry(c, i) ==
    IF i <= rz[c].split
      THEN FullEntry(rz[c].old[i].ver + 1, rz[c].kv[i].key, rz[c].kv[i].val)
      ELSE CleanedEntry(rz[c].old[i])

SiblingEntry(c, i) ==
    LET j == rz[c].split + i IN
    IF j \in DOMAIN rz[c].kv
      THEN FullEntry(0, rz[c].kv[j].key, rz[c].kv[j].val) ELSE EmptyEntry(0)

CurrentFP(c) ==
    [i \in Slot |-> IF i <= rz[c].split THEN FPOf[rz[c].kv[i].key] ELSE 0]

SiblingFP(c) ==
    [i \in Slot |-> LET j == rz[c].split + i IN
                     IF j \in DOMAIN rz[c].kv THEN FPOf[rz[c].kv[j].key] ELSE 0]

WriteSibling(c) ==
    /\ pc[c] = "sibling"
    /\ hdr' = [hdr EXCEPT ![rz[c].sib] = SiblingHeader(c)]
    /\ ent' = [ent EXCEPT ![rz[c].sib] = [i \in Slot |-> SiblingEntry(c, i)]]
    /\ Goto(c, "siblingfp")
    /\ UNCHANGED <<fpt, lfp, index, published, used, key, val, path, loc, snap,
                   slot, buf, rz, ghostVars>>

WriteSiblingTable(c) ==
    /\ pc[c] = "siblingfp"
    /\ fpt' = [fpt EXCEPT ![rz[c].sib] =
                  [ver |-> 0, fp |-> SiblingFP(c), lock |-> 0]]
    /\ Goto(c, "current")
    /\ slot' = [slot EXCEPT ![c] = 0]
    /\ UNCHANGED <<hdr, ent, lfp, index, published, used, key, val, path, loc,
                   snap, buf, rz, ghostVars>>

\* One WRITE of the whole leaf, in increasing address order: slot 0 stands
\* for the header.
WriteCurrent(c) ==
    LET l == path[c].leaf
        i == slot[c]
    IN  /\ pc[c] = "current"
        /\ i <= path[c].cap
        /\ IF i = 0
             THEN hdr' = [hdr EXCEPT ![l] = CurrentHeader(c)] /\ UNCHANGED ent
             ELSE /\ ent' = [ent EXCEPT ![l][i] = CurrentEntry(c, i)]
                  /\ UNCHANGED hdr
        /\ slot' = [slot EXCEPT ![c] = i + 1]
        /\ UNCHANGED <<fpt, lfp, index, published, used, pc, key, val, path,
                       loc, snap, buf, rz, ghostVars>>

\* The current table, zero lock word included: from here on the leaf's
\* version is ahead of the index.
WriteCurrentTable(c) ==
    /\ pc[c] = "current"
    /\ slot[c] > path[c].cap
    /\ fpt' = [fpt EXCEPT ![path[c].leaf] =
                  [ver |-> CurrentHeader(c).ver, fp |-> CurrentFP(c), lock |-> 0]]
    /\ Goto(c, "inner")
    /\ UNCHANGED <<hdr, ent, lfp, index, published, used, key, val, path, loc,
                   snap, slot, buf, rz, ghostVars>>

\* Mutant of InnerInsert: update_record is not written.
InnerInsertNoUpdate(c) ==
    LET ins == Record(SplitKey(c), rz[c].sib, rz[c].scap, 0)
    IN  /\ pc[c] = "inner"
        /\ index' = InnerPut(ins, index)
        /\ published' = [k \in Key |-> published[k] \cup {index'[k]}]
        /\ Goto(c, "written")
        /\ Commit(c)
        /\ UNCHANGED <<fpt, hdr, ent, lfp, used, key, val, path, loc, snap,
                       slot, buf, rz>>

\* inner_insert: update_record for the leaf, then inner_record for the
\* sibling, in one write of the bottom inner node.
InnerInsert(c) ==
    LET upd == Record(rz[c].hdr.min, path[c].leaf, path[c].cap,
                      CurrentHeader(c).ver)
        ins == Record(SplitKey(c), rz[c].sib, rz[c].scap, 0)
    IN  /\ pc[c] = "inner"
        /\ index' = InnerPut(ins, InnerPut(upd, index))
        /\ published' = [k \in Key |-> published[k] \cup {index'[k]}]
        /\ Goto(c, "written")
        /\ Commit(c)
        /\ UNCHANGED <<fpt, hdr, ent, lfp, used, key, val, path, loc, snap,
                       slot, buf, rz>>

-----------------------------------------------------------------------------
\* The locals of a finished call are gone.
Return(c) ==
    /\ pc[c] \in {"found", "written"}
    /\ Goto(c, "idle")
    /\ val' = [val EXCEPT ![c] = NoValue]
    /\ key' = [key EXCEPT ![c] = AnyKey]
    /\ path' = [path EXCEPT ![c] = FirstRecord]
    /\ loc' = [loc EXCEPT ![c] = FALSE]
    /\ snap' = [snap EXCEPT ![c] = Table(0, NoFP)]
    /\ slot' = [slot EXCEPT ![c] = 1]
    /\ buf' = [buf EXCEPT ![c] = EmptyEntry(0)]
    /\ rz' = [rz EXCEPT ![c] = NoResize]
    /\ seen' = [seen EXCEPT ![c] = {}]
    /\ UNCHANGED <<memVars, dict>>

LeafSearch(c) ==
    \/ ReadFP(c) \/ LocalFPTorn(c) \/ RefreshPath(c)
    \/ ReadEntry(c) \/ ReadTail(c) \/ ReadMiss(c)

LeafInsert(c) ==
    \/ LockTable(c) \/ ReadTable(c) \/ UnlockStale(c) \/ ReroutePath(c)
    \/ ProbeEntry(c) \/ UpdateEntry(c) \/ UnlockUpdated(c)
    \/ WriteEntry(c) \/ WriteTable(c)

LeafResize(c) ==
    \/ ResizeRead(c) \/ WriteSibling(c) \/ WriteSiblingTable(c)
    \/ WriteCurrent(c) \/ WriteCurrentTable(c) \/ InnerInsert(c)

Step(c) == LeafSearch(c) \/ LeafInsert(c) \/ LeafResize(c) \/ Return(c)

Start(c) ==
    \/ \E k \in Key, v \in CallerValue : ReadStart(c, k, v)
    \/ \E k \in Key, v \in Value : WriteStart(c, k, v)

Next == \E c \in Client : Start(c) \/ Step(c)

Spec == Init /\ [][Next]_vars

\* Every client that is running keeps running.
FairSpec == Spec /\ \A c \in Client : WF_vars(Step(c))

-----------------------------------------------------------------------------
(* Properties.                                                             *)

Labels == {"idle", "search", "match", "tail", "refresh", "found", "lock", "locked",
           "stale", "reroute", "probe", "update", "unlock", "publish",
           "sibling", "siblingfp", "current", "inner", "written"}

Records == [key : Nat, leaf : Leaf, cap : 1..MaxNodeCapacity, ver : Nat]
Tables == [ver : Nat, fp : FPs]
RawEntries == [ver : Nat, valid : {0, 1}, key : Key \cup {KeyNull}, val : Values]
Entries == {e \in RawEntries : e.valid = 1 => e.key \in Key}
Headers == [ver : Nat, cap : 0..MaxNodeCapacity, min : Nat, max : Nat,
            right : Leaf \cup {NullLeaf}]
Resizes == [sib : Leaf, scap : 0..MaxNodeCapacity, split : Nat,
            kv : UNION {[1..n -> [key : Key, val : Values]] :
                            n \in 0..MaxNodeCapacity + 1},
            hdr : Headers, old : [Slot -> Entries]]

\* The memory words and the clients' locals keep the types the code gives them.
TypeOK ==
    /\ fpt \in [Leaf -> [ver : Nat, fp : FPs, lock : {0, 1}]]
    /\ hdr \in [Leaf -> Headers]
    /\ ent \in [Leaf -> [Slot -> Entries]]
    /\ lfp \in [Node -> [Leaf -> Tables]]
    /\ index \in [Key -> Records]
    /\ published \in [Key -> SUBSET Records]
    /\ used \subseteq Leaf
    /\ pc \in [Client -> Labels]
    /\ key \in [Client -> Key]
    /\ val \in [Client -> Values]
    /\ path \in [Client -> Records]
    /\ loc \in [Client -> BOOLEAN]
    /\ snap \in [Client -> Tables]
    /\ slot \in [Client -> 0..MaxNodeCapacity + 1]
    /\ buf \in [Client -> RawEntries]
    /\ rz \in [Client -> Resizes]
    /\ dict \in [Key -> Values]
    /\ seen \in [Client -> SUBSET Values]

\* Client c is between the CAS of lock_table and the write that unlocks.
Holds(c) ==
    pc[c] \in {"locked", "stale", "probe", "update", "unlock", "publish",
               "sibling", "siblingfp", "current"}

\* A leaf has one writer at a time and its lock word is set exactly while it
\* has one, although three different writes release it (unlock_table, the
\* table write of leaf_insert and the table write of leaf_resize).
LockExclusion ==
    /\ \A l \in Leaf :
          fpt[l].lock = 1 <=> \E c \in Client : Holds(c) /\ path[c].leaf = l
    /\ \A c, d \in Client :
          Holds(c) /\ Holds(d) /\ path[c].leaf = path[d].leaf => c = d

\* leaf_insert asserts that an entry it probes has the version of its path
\* (SkipVectorDM.cc:227), and leaf_resize asserts that both halves of the
\* split fit their tables (388, 391).
AssertsHold ==
    \A c \in Client :
        /\ pc[c] = "probe" =>
             \A i \in Candidates(c) : ent[path[c].leaf][i].ver = path[c].ver
        /\ pc[c] = "sibling" =>
             /\ rz[c].split <= path[c].cap
             /\ Cardinality(DOMAIN rz[c].kv) - rz[c].split \in 1..rz[c].scap

\* A leaf's version is the one its index record has, or one ahead of it
\* while one client is on its way to inner_insert: a client that keeps
\* finding a stale record waits for that one call, and the leaf cannot be
\* resized a second time before its first resize is in the index.
VersionLag ==
    \A k \in Key :
        LET r == index[k]
            Pending == {c \in Client : pc[c] = "inner" /\ path[c].leaf = r.leaf}
        IN  fpt[r.leaf].ver = r.ver + Cardinality(Pending) /\ Cardinality(Pending) <= 1

\* The leaves a scan follows through right_addr cover the key space without
\* a gap: each ends where its right neighbour begins, the last at KeyMax,
\* although neighbours are split by different clients.
ChainContiguous ==
    \A l \in Leaf :
        hdr[l].cap > 0 =>
            IF hdr[l].right = NullLeaf THEN hdr[l].max = KeyMax
            ELSE hdr[hdr[l].right].min = hdr[l].max /\ hdr[hdr[l].right].cap > 0

\* Between two resizes a slot that holds a key keeps it: a reader may hold an
\* old fingerprint table, probe the slot later and still conclude from its
\* key, and a leaf's version never decreases.
SlotStable ==
    [][\A l \in Leaf :
         /\ fpt'[l].ver >= fpt[l].ver
         /\ \A i \in Slot :
              ent[l][i].valid = 1 /\ ent'[l][i].ver = ent[l][i].ver =>
                  ent'[l][i].valid = 1 /\ ent'[l][i].key = ent[l][i].key]_vars

\* What leaf_search returns is a value its key had since the call: never one
\* that was overwritten before, never another key's, and no miss of a key
\* that was there all the time, although the records, fingerprint tables and
\* entries it went by may all have been stale.  A miss leaves the caller's
\* variable as it was.
ReadsSeen ==
    \A c \in Client :
        pc[c] = "found" =>
            val[c] \in seen[c] \/ (NoValue \in seen[c] /\ val[c] \in CallerValue)

-----------------------------------------------------------------------------
(* Refinement of KVStore.                                                  *)

AbsOp(c) ==
    CASE pc[c] = "idle" -> "idle"
      [] Reading(c) -> "read"
      [] pc[c] = "found" -> "found"
      [] pc[c] \in {"unlock", "written"} -> "written"
      [] OTHER -> "write"

KV == INSTANCE KVStore
        WITH op <- [c \in Client |-> AbsOp(c)],
             arg <- [c \in Client |-> [key |-> key[c], val |-> val[c]]]

\* read and write are linearizable: every write takes effect once, between
\* its call and its return, and every read returns a value its key had
\* between its call and its return, whatever stale records, stale local
\* fingerprint tables and half-written leaves it met.
Linearizable == KV!Spec

\* A read is never kept waiting forever: the retries of leaf_search, on a
\* stale version and on a stale record, end.
ReadTerminates == \A c \in Client : Reading(c) ~> pc[c] = "found"

\* A table's lock is always released again, on each of the paths leaf_insert
\* takes with it.  Which of the clients that spin in lock_table then gets it is
\* left open: the CAS loop is not fair.
LockReleased == \A l \in Leaf : fpt[l].lock = 1 ~> fpt[l].lock = 0

\* The index always catches up with a leaf whose resize has been published
\* before its record, so nobody is sent to a stale record forever.
IndexCatchesUp ==
    \A k \in Key : fpt[index[k].leaf].ver # index[k].ver
                     ~> fpt[index[k].leaf].ver = index[k].ver
=============================================================================

-------------------------- MODULE LeafIndex_proofs --------------------------
(***************************************************************************)
(* Proofs about LeafIndex for every set of clients, servers, keys, values  *)
(* and leaves and every capacity.                                          *)
(***************************************************************************)
EXTENDS LeafIndex, FiniteSetTheorems, TLAPS

-----------------------------------------------------------------------------
(* Type correctness.                                                       *)

\* Client c is in leaf_resize with its local copy of the leaf.
Resizing(c) == pc[c] \in {"sibling", "siblingfp", "current", "inner"}

\* The type invariant with what it rests on: the slot being read line by line
\* is one, and the split point of a resize is inside its sorted entries.
TypeInv ==
    /\ TypeOK
    /\ \A c \in Client : pc[c] = "tail" => slot[c] \in Slot
    /\ \A c \in Client :
         Resizing(c) => /\ rz[c].split + 1 \in DOMAIN rz[c].kv
                        /\ rz[c].scap \in 1..MaxNodeCapacity

Sets == /\ Slot = 1..MaxNodeCapacity /\ MaxNodeCapacity \in Nat
        /\ MaxNodeCapacity >= 1

LEMMA SlotType == Sets
BY LeafAssumption DEF Sets, Slot

LEMMA AnyKeyType == AnyKey \in Key
BY LeafAssumption DEF AnyKey

LEMMA FPType == \A k \in Key : FPOf[k] \in {FPOf[j] : j \in Key} /\ FPOf[k] # 0
BY LeafAssumption

LEMMA NoFPType == NoFP \in FPs /\ NoFP \in [Slot -> Nat]
BY DEF NoFP, FPs

\* Assigning one place of an array of arrays keeps its type.
LEMMA Except2Type ==
    ASSUME NEW S, NEW T, NEW E, NEW f \in [S -> [T -> E]],
           NEW a, NEW b, NEW x \in E
    PROVE  [f EXCEPT ![a][b] = x] \in [S -> [T -> E]]
BY Zenon

LEMMA FirstRecordType == FirstRecord \in Records
BY LeafAssumption DEF FirstRecord, Record, Records, KeyNull

LEMMA EmptyEntryType == \A v \in Nat : EmptyEntry(v) \in Entries
BY DEF EmptyEntry, Entries, RawEntries, Values

LEMMA CleanedEntryType ==
    \A e \in Entries : CleanedEntry(e) \in Entries /\ e.ver + 1 \in Nat
BY DEF CleanedEntry, Entries, RawEntries

LEMMA FullEntryType ==
    \A v \in Nat, k \in Key, x \in Values : FullEntry(v, k, x) \in Entries
BY DEF FullEntry, Entries, RawEntries

LEMMA KeyType == \A k \in Key : k \in Nat
BY LeafAssumption

LEMMA HeaderType ==
    ASSUME NEW v \in Nat, NEW n \in 0..MaxNodeCapacity, NEW lo \in Nat, NEW hi \in Nat,
           NEW r \in Leaf \cup {NullLeaf}
    PROVE  Header(v, n, lo, hi, r) \in Headers
BY DEF Header, Headers

LEMMA NoResizeType == NoResize \in Resizes
<1>1. Header(0, 0, KeyNull, KeyMax, NullLeaf) \in Headers
  BY LeafAssumption DEF Header, Headers, KeyNull, NullLeaf
<1>2. <<>> \in [1..0 -> [key : Key, val : Values]]
  OBVIOUS
<1>3. 0 \in 0..MaxNodeCapacity + 1 /\ 0 \in 0..MaxNodeCapacity
  BY LeafAssumption
<1>4. [i \in Slot |-> EmptyEntry(0)] \in [Slot -> Entries]
  BY EmptyEntryType
<1>. QED  BY <1>1, <1>2, <1>3, <1>4, LeafAssumption, Zenon DEF NoResize, Resizes

LEMMA TypeInit == Init => TypeInv
<1>. SUFFICES ASSUME Init PROVE TypeInv
  OBVIOUS
<1>. USE DEF Init
<1>1. fpt \in [Leaf -> [ver : Nat, fp : FPs, lock : {0, 1}]]
  BY NoFPType
<1>2. hdr \in [Leaf -> Headers]
  BY LeafAssumption DEF Headers, Header, KeyNull, NullLeaf
<1>3. ent \in [Leaf -> [Slot -> Entries]]
  BY EmptyEntryType
<1>4. lfp \in [Node -> [Leaf -> Tables]]
  BY NoFPType DEF Tables, Table
<1>5. index \in [Key -> Records] /\ published \in [Key -> SUBSET Records]
  BY FirstRecordType
<1>6. used \subseteq Leaf
  BY LeafAssumption
<1>7. /\ pc \in [Client -> Labels] /\ key \in [Client -> Key]
      /\ val \in [Client -> Values] /\ path \in [Client -> Records]
      /\ loc \in [Client -> BOOLEAN]
  BY AnyKeyType, FirstRecordType DEF Labels, Values
<1>8. /\ snap \in [Client -> Tables] /\ slot \in [Client -> 0..MaxNodeCapacity + 1]
      /\ buf \in [Client -> RawEntries] /\ rz \in [Client -> Resizes]
  BY NoFPType, NoResizeType, EmptyEntryType, LeafAssumption DEF Tables, Table, Entries
<1>9. dict \in [Key -> Values] /\ seen \in [Client -> SUBSET Values]
  BY DEF Values
<1>10. \A c \in Client : ~Resizing(c) /\ pc[c] # "tail"
  BY DEF Resizing
<1>. QED  BY <1>1, <1>2, <1>3, <1>4, <1>5, <1>6, <1>7, <1>8, <1>9, <1>10
          DEF TypeInv, TypeOK

-----------------------------------------------------------------------------
\* The values of a function on some of the first n numbers, and one more.
LEMMA ImageBound ==
    ASSUME NEW n \in Nat, NEW I \in SUBSET (1..n), NEW f, DOMAIN f = I, NEW x
    PROVE  /\ IsFiniteSet({f[i] : i \in I} \cup {x})
           /\ Cardinality({f[i] : i \in I} \cup {x}) \in 1..n + 1
<1>. DEFINE T == {f[i] : i \in I}
            g == [i \in I |-> f[i]]
<1>1. IsFiniteSet(1..n) /\ Cardinality(1..n) = n
  BY FS_Interval
<1>2. IsFiniteSet(I) /\ Cardinality(I) <= n /\ Cardinality(I) \in Nat
  BY <1>1, FS_Subset, FS_CardinalityType, Zenon
<1>3. g \in Surjection(I, T)
  BY Zenon DEF Surjection
<1>4. IsFiniteSet(T) /\ Cardinality(T) <= n /\ Cardinality(T) \in Nat
  <2>. HIDE DEF g, T
  <2>. QED  BY <1>2, <1>3, FS_Surjection, FS_CardinalityType
<1>5. /\ IsFiniteSet(T \cup {x})
      /\ Cardinality(T \cup {x}) = Cardinality(T)
           \/ Cardinality(T \cup {x}) = Cardinality(T) + 1
  <2>. HIDE DEF T
  <2>. QED  BY <1>4, FS_AddElement
<1>6. Cardinality(T \cup {x}) # 0
  <2>1. T \cup {x} # {}
    OBVIOUS
  <2>. HIDE DEF T
  <2>. QED  BY <1>5, <2>1, FS_EmptySet
<1>. HIDE DEF T
<1>7. Cardinality(T \cup {x}) \in 1..n + 1
  BY <1>4, <1>5, <1>6
<1>. QED  BY <1>5, <1>7 DEF T

\* The entries of a leaf with the new key: at most one more than the slots.
LEMMA NodeEntriesType ==
    ASSUME TypeInv, NEW c \in Client
    PROVE  /\ NodeEntries(c) \subseteq [key : Key, val : Values]
           /\ IsFiniteSet(NodeEntries(c))
           /\ Cardinality(NodeEntries(c)) \in 1..path[c].cap + 1
<1>. DEFINE l == path[c].leaf
            I == {j \in Slot : j <= path[c].cap /\ ent[l][j].valid = 1}
            New == [key |-> key[c], val |-> val[c]]
            f == [i \in I |-> [key |-> ent[l][i].key, val |-> ent[l][i].val]]
            T == {f[i] : i \in I}
<1>1. path[c].cap \in Nat /\ l \in Leaf
  BY SlotType DEF TypeInv, TypeOK, Records, Sets
<1>2. I \subseteq 1..path[c].cap
  BY <1>1, SlotType DEF Sets
<1>3. NodeEntries(c) = T \cup {New}
  BY Zenon DEF NodeEntries
<1>4. IsFiniteSet(T \cup {New}) /\ Cardinality(T \cup {New}) \in 1..path[c].cap + 1
  <2>1. DOMAIN f = I
    OBVIOUS
  <2>2. I \in SUBSET (1..path[c].cap)
    BY <1>2
  <2>. HIDE DEF I, f, New
  <2>. QED  BY <1>1, <2>1, <2>2, ImageBound, Zenon
<1>5. \A i \in I : f[i] \in [key : Key, val : Values]
  <2>1. ent \in [Leaf -> [Slot -> Entries]]
    BY DEF TypeInv, TypeOK
  <2>2. \A i \in I : ent[l][i] \in RawEntries /\ ent[l][i].key \in Key
    BY <1>1, <2>1 DEF Entries
  <2>. QED  BY <2>2 DEF RawEntries
<1>6. New \in [key : Key, val : Values]
  BY DEF TypeInv, TypeOK
<1>. HIDE DEF New, f, I
<1>. QED  BY <1>3, <1>4, <1>5, <1>6

\* Both halves of a split fit their tables: what leaf_resize asserts.
LEMMA SplitFits ==
    ASSUME NEW cap \in Nat, NEW sc \in Nat, NEW n \in 1..cap + 1, cap >= 1,
           cap <= MaxNodeCapacity, sc \in SiblingCapacities(cap)
    PROVE  LET split == IF sc > cap THEN 0 ELSE n \div 2
           IN  /\ split \in 0..cap /\ split + 1 \in 1..n
               /\ n - split \in 1..sc /\ sc \in 1..MaxNodeCapacity
BY LeafAssumption DEF SiblingCapacities

\* What leaf_resize computes from its local copy has the right types.
LEMMA ResizeParts ==
    ASSUME TypeInv, NEW c \in Client, Resizing(c)
    PROVE  /\ SplitKey(c) \in Key
           /\ CurrentHeader(c) \in Headers /\ SiblingHeader(c) \in Headers
           /\ \A i \in Slot : CurrentEntry(c, i) \in Entries /\ SiblingEntry(c, i) \in Entries
           /\ CurrentFP(c) \in FPs /\ SiblingFP(c) \in FPs
<1>. DEFINE z == rz[c]
<1>1. z \in Resizes /\ z.split + 1 \in DOMAIN z.kv /\ z.scap \in 1..MaxNodeCapacity
  BY DEF TypeInv, TypeOK
<1>2. /\ z.sib \in Leaf /\ z.split \in Nat /\ z.hdr \in Headers
      /\ z.old \in [Slot -> Entries]
  BY <1>1 DEF Resizes
<1>3. PICK n \in 0..MaxNodeCapacity + 1 : z.kv \in [1..n -> [key : Key, val : Values]]
  BY <1>1, Zenon DEF Resizes
<1>4. n \in Nat /\ DOMAIN z.kv = 1..n /\ z.split < n
  BY <1>1, <1>2, <1>3, SlotType DEF Sets
<1>5. \A j \in DOMAIN z.kv : z.kv[j].key \in Key /\ z.kv[j].val \in Values
  BY <1>3, <1>4
<1>. HIDE DEF z
<1>6. SplitKey(c) \in Key
  BY <1>1, <1>5 DEF SplitKey, z
<1>7. CurrentHeader(c) \in Headers /\ SiblingHeader(c) \in Headers
  <2>1. SplitKey(c) \in Nat
    BY <1>6, KeyType
  <2>2. /\ z.hdr.ver + 1 \in Nat /\ z.hdr.cap \in 0..MaxNodeCapacity
        /\ z.hdr.min \in Nat /\ z.hdr.max \in Nat /\ z.hdr.right \in Leaf \cup {NullLeaf}
    BY <1>2 DEF Headers
  <2>3. z.scap \in 0..MaxNodeCapacity /\ z.sib \in Leaf \cup {NullLeaf} /\ 0 \in Nat
    BY <1>1, <1>2, SlotType DEF Sets
  <2>4. CurrentHeader(c) \in Headers
    BY <2>1, <2>2, <2>3, HeaderType DEF CurrentHeader, z
  <2>5. SiblingHeader(c) \in Headers
    BY <2>1, <2>2, <2>3, HeaderType DEF SiblingHeader, z
  <2>. QED  BY <2>4, <2>5
<1>9. ASSUME NEW i \in Slot
      PROVE  /\ CurrentEntry(c, i) \in Entries /\ SiblingEntry(c, i) \in Entries
             /\ CurrentFP(c)[i] \in {0} \cup {FPOf[k] : k \in Key}
             /\ SiblingFP(c)[i] \in {0} \cup {FPOf[k] : k \in Key}
  <2>1. z.old[i].ver + 1 \in Nat /\ CleanedEntry(z.old[i]) \in Entries /\ 0 \in Nat
    BY <1>2, CleanedEntryType
  <2>2. i <= z.split => i \in DOMAIN z.kv
    BY <1>2, <1>4, SlotType DEF Sets
  <2>3. CurrentEntry(c, i) \in Entries
    BY <2>1, <2>2, <1>5, FullEntryType DEF CurrentEntry, z
  <2>4. SiblingEntry(c, i) \in Entries
    BY <2>1, <1>5, EmptyEntryType, FullEntryType DEF SiblingEntry, z
  <2>5. CurrentFP(c)[i] \in {0} \cup {FPOf[k] : k \in Key}
    BY <2>2, <1>5, FPType DEF CurrentFP, z
  <2>6. SiblingFP(c)[i] \in {0} \cup {FPOf[k] : k \in Key}
    BY <1>5, FPType DEF SiblingFP, z
  <2>. QED  BY <2>3, <2>4, <2>5, <2>6
<1>10. CurrentFP(c) \in FPs
  <2>1. CurrentFP(c) = [i \in Slot |-> CurrentFP(c)[i]]
    BY DEF CurrentFP
  <2>. QED  BY <2>1, <1>9 DEF FPs
<1>11. SiblingFP(c) \in FPs
  <2>1. SiblingFP(c) = [i \in Slot |-> SiblingFP(c)[i]]
    BY DEF SiblingFP
  <2>. QED  BY <2>1, <1>9 DEF FPs
<1>. QED  BY <1>6, <1>7, <1>9, <1>10, <1>11

\* A cursor over the slots, before, on and after them.
LEMMA SlotBounds ==
    /\ 0 \in 0..MaxNodeCapacity + 1 /\ 1 \in 0..MaxNodeCapacity + 1
    /\ \A i \in Slot : i \in 0..MaxNodeCapacity + 1 /\ i + 1 \in 0..MaxNodeCapacity + 1
BY SlotType DEF Sets

\* Capacities and numbers of entries are within those of the largest table.
LEMMA CapacityBounds ==
    \A cap \in 1..MaxNodeCapacity :
        /\ cap \in Nat /\ cap >= 1 /\ cap <= MaxNodeCapacity
        /\ cap \in 0..MaxNodeCapacity
        /\ \A n \in 1..cap + 1 : n \in 0..MaxNodeCapacity + 1
BY SlotType DEF Sets

\* Setting or clearing a lock word keeps the type of the tables.
LEMMA LockWordType ==
    ASSUME NEW F \in [Leaf -> [ver : Nat, fp : FPs, lock : {0, 1}]],
           NEW l, NEW x \in {0, 1}
    PROVE  [F EXCEPT ![l].lock = x] \in [Leaf -> [ver : Nat, fp : FPs, lock : {0, 1}]]
BY Zenon

\* What leaf_resize keeps in its locals is typed when its parts are.
LEMMA ResizeType ==
    ASSUME NEW s \in Leaf, NEW sc \in 0..MaxNodeCapacity, NEW sp \in Nat,
           NEW kv \in UNION {[1..n -> [key : Key, val : Values]] :
                                 n \in 0..MaxNodeCapacity + 1},
           NEW h \in Headers, NEW es \in [Slot -> Entries]
    PROVE  [sib |-> s, scap |-> sc, kv |-> kv, hdr |-> h, split |-> sp, old |-> es]
               \in Resizes
BY DEF Resizes

\* TypeInv is inductive: one step per action of LeafIndex.
LEMMA TypeStep == TypeInv /\ [Next]_vars => TypeInv'
<1>t. SUFFICES ASSUME TypeInv, [Next]_vars PROVE TypeInv'
  OBVIOUS
<1>. USE DEF TypeInv, TypeOK, Resizing, memVars, clientVars, ghostVars, Goto
<1>a. \A c \in Client : path[c] \in Records /\ path[c].leaf \in Leaf /\ key[c] \in Key
                           /\ val[c] \in Values
  BY <1>t DEF Records
<1>b. fpt \in [Leaf -> [ver : Nat, fp : FPs, lock : {0, 1}]]
  BY <1>t
<1>c. ent \in [Leaf -> [Slot -> Entries]]
  BY <1>t
<1>d. lfp \in [Node -> [Leaf -> Tables]]
  BY <1>t
<1>e. 0 \in 0..MaxNodeCapacity + 1 /\ 1 \in 0..MaxNodeCapacity + 1
  BY SlotBounds
<1>f. pc \in [Client -> Labels] /\ loc \in [Client -> BOOLEAN]
  BY <1>t
<1>g. slot \in [Client -> 0..MaxNodeCapacity + 1]
  BY <1>t
<1>h. buf \in [Client -> RawEntries]
  BY <1>t
<1>i. \A c \in Client : path[c].cap \in 1..MaxNodeCapacity
  BY <1>a DEF Records
<1>j. /\ published \in [Key -> SUBSET Records] /\ path \in [Client -> Records]
      /\ key \in [Client -> Key] /\ val \in [Client -> Values]
      /\ dict \in [Key -> Values] /\ seen \in [Client -> SUBSET Values]
  BY <1>t
<1>0. CASE UNCHANGED vars
  BY <1>t, <1>0 DEF vars
<1>1. ASSUME NEW c \in Client, NEW k \in Key, NEW v \in CallerValue, ReadStart(c, k, v)
      PROVE  TypeInv'
  <2>1. PICK r \in published[k] : path' = [path EXCEPT ![c] = r]
    BY <1>1, Zenon DEF ReadStart
  <2>2. r \in Records
    BY <1>j, <2>1
  <2>3. path' \in [Client -> Records]
    BY <1>j, <2>1, <2>2
  <2>4. /\ pc' \in [Client -> Labels] /\ \A d \in Client \ {c} : pc'[d] = pc[d]
        /\ pc'[c] = "search"
    BY <1>f, <1>1 DEF ReadStart, Labels
  <2>5. v \in Values
    BY LeafAssumption DEF Values
  <2>6. key' \in [Client -> Key] /\ val' \in [Client -> Values]
    BY <1>j, <1>1, <2>5 DEF ReadStart
  <2>7. loc' \in [Client -> BOOLEAN] /\ seen' \in [Client -> SUBSET Values]
    BY <1>f, <1>j, <1>1 DEF ReadStart
  <2>8. UNCHANGED <<memVars, snap, slot, buf, rz, dict>>
    BY <1>1 DEF ReadStart
  <2>. QED  BY <1>t, <2>3, <2>4, <2>6, <2>7, <2>8
<1>2. ASSUME NEW c \in Client, NEW k \in Key, NEW v \in Value, WriteStart(c, k, v)
      PROVE  TypeInv'
  <2>1. PICK r \in published[k] : path' = [path EXCEPT ![c] = r]
    BY <1>2, Zenon DEF WriteStart
  <2>2. r \in Records
    BY <1>j, <2>1
  <2>3. path' \in [Client -> Records]
    BY <1>j, <2>1, <2>2
  <2>4. /\ pc' \in [Client -> Labels] /\ \A d \in Client \ {c} : pc'[d] = pc[d]
        /\ pc'[c] = "lock"
    BY <1>f, <1>2 DEF WriteStart, Labels
  <2>5. v \in Values
    BY LeafAssumption DEF Values
  <2>6. key' \in [Client -> Key] /\ val' \in [Client -> Values]
    BY <1>j, <1>2, <2>5 DEF WriteStart
  <2>7. loc' \in [Client -> BOOLEAN] /\ seen' \in [Client -> SUBSET Values]
    BY <1>f, <1>j, <1>2 DEF WriteStart
  <2>8. UNCHANGED <<memVars, snap, slot, buf, rz, dict>>
    BY <1>2 DEF WriteStart
  <2>. QED  BY <1>t, <2>3, <2>4, <2>6, <2>7, <2>8
<1>3. ASSUME NEW c \in Client, ReadFP(c) PROVE TypeInv'
  <2>. DEFINE l == path[c].leaf
              t == IF ReadsRemote(c) THEN Table(fpt[l].ver, fpt[l].fp)
                                     ELSE LocalTable(NodeOf[c], l)
  <2>1. l \in Leaf /\ NodeOf[c] \in Node
    BY <1>a, LeafAssumption
  <2>2. t \in Tables
    BY <1>b, <1>d, <2>1, Zenon DEF Tables, Table, LocalTable
  <2>3. snap' = [snap EXCEPT ![c] = t] /\ lfp' \in {lfp, [lfp EXCEPT ![NodeOf[c]][l] = t]}
    BY <1>3 DEF ReadFP
  <2>4. /\ loc' \in [Client -> BOOLEAN] /\ slot' \in [Client -> 0..MaxNodeCapacity + 1]
        /\ pc' \in [Client -> Labels] /\ pc'[c] \in {"match", "refresh"}
        /\ \A d \in Client \ {c} : pc'[d] = pc[d]
    BY <1>3, <1>e, <1>f, <1>g DEF ReadFP, Labels
  <2>. HIDE DEF t, l
  <2>5. snap' \in [Client -> Tables]
    BY <1>t, <2>2, <2>3
  <2>6. lfp' \in [Node -> [Leaf -> Tables]]
    <3>1. CASE lfp' = lfp
      BY <1>d, <3>1
    <3>2. CASE lfp' = [lfp EXCEPT ![NodeOf[c]][l] = t]
      <4>1. [lfp EXCEPT ![NodeOf[c]][l] = t] \in [Node -> [Leaf -> Tables]]
        BY <1>d, <2>2, Except2Type, Zenon
      <4>. QED  BY <3>2, <4>1
    <3>. QED  BY <2>3, <3>1, <3>2
  <2>. QED  BY <1>t, <1>3, <2>4, <2>5, <2>6, Zenon DEF ReadFP
<1>4. ASSUME NEW c \in Client, LocalFPTorn(c) PROVE TypeInv'
  BY <1>t, <1>4, Zenon DEF LocalFPTorn
<1>5. ASSUME NEW c \in Client, RefreshPath(c) PROVE TypeInv'
  BY <1>t, <1>5 DEF RefreshPath, Labels
<1>6. ASSUME NEW c \in Client, NEW i \in Slot, NEW e, Examine(c, i, e), e.val \in Values
      PROVE  /\ slot' \in [Client -> 0..MaxNodeCapacity + 1]
             /\ val' \in [Client -> Values]
             /\ pc' \in [Client -> Labels] /\ \A d \in Client \ {c} : pc'[d] = pc[d]
             /\ pc'[c] \in {"match", "refresh", "found"}
  <2>1. i + 1 \in 0..MaxNodeCapacity + 1
    BY SlotBounds
  <2>2. slot' \in [Client -> 0..MaxNodeCapacity + 1]
    BY <1>t, <1>6, <2>1 DEF Examine
  <2>3. PICK x \in Values : val' = [val EXCEPT ![c] = x]
    <3>1. val = [val EXCEPT ![c] = val[c]] /\ val[c] \in Values
      BY <1>t
    <3>. QED  BY <1>t, <1>6, <3>1 DEF Examine, Values
  <2>4. PICK lab \in {"match", "refresh", "found"} : pc' = [pc EXCEPT ![c] = lab]
    BY <1>t, <1>6 DEF Examine
  <2>5. lab \in Labels
    BY <1>t DEF Labels
  <2>. QED  BY <1>t, <2>2, <2>3, <2>4, <2>5
<1>7. ASSUME NEW c \in Client, ReadEntry(c) PROVE TypeInv'
  <2>1. PICK i \in First(Candidates(c)) :
            IF Straddle[i] = {}
              THEN Examine(c, i, ent[path[c].leaf][i]) /\ UNCHANGED buf
              ELSE /\ buf' = [buf EXCEPT ![c] = ent[path[c].leaf][i]]
                   /\ slot' = [slot EXCEPT ![c] = i]
                   /\ Goto(c, "tail") /\ UNCHANGED val
    BY <1>t, <1>7, Zenon DEF ReadEntry
  <2>2. i \in Slot /\ i \in 0..MaxNodeCapacity + 1 /\ path[c].leaf \in Leaf
    BY <1>a, SlotBounds DEF First, Candidates
  <2>3. /\ ent[path[c].leaf][i] \in RawEntries
        /\ ent[path[c].leaf][i].val \in Values
    BY <1>c, <2>2 DEF Entries, RawEntries
  <2>4. CASE Straddle[i] = {}
    <3>1. Examine(c, i, ent[path[c].leaf][i]) /\ buf' = buf
      BY <2>1, <2>4
    <3>2. /\ slot' \in [Client -> 0..MaxNodeCapacity + 1]
          /\ val' \in [Client -> Values]
          /\ pc' \in [Client -> Labels] /\ \A d \in Client \ {c} : pc'[d] = pc[d]
          /\ pc'[c] \in {"match", "refresh", "found"}
      <4>. DEFINE e == ent[path[c].leaf][i]
      <4>1. Examine(c, i, e) /\ e.val \in Values
        BY <2>3, <3>1
      <4>. HIDE DEF e
      <4>. QED  BY <1>6, <2>2, <4>1
    <3>3. \A d \in Client \ {c} : slot'[d] = slot[d]
      BY <1>t, <3>1 DEF Examine
    <3>. QED  BY <1>t, <1>7, <3>1, <3>2, <3>3, Zenon DEF ReadEntry
  <2>5. CASE Straddle[i] # {}
    <3>1. /\ buf' = [buf EXCEPT ![c] = ent[path[c].leaf][i]]
          /\ slot' = [slot EXCEPT ![c] = i]
          /\ Goto(c, "tail") /\ val' = val
      BY <2>1, <2>5
    <3>2. buf' \in [Client -> RawEntries]
      BY <1>t, <2>3, <3>1
    <3>3. /\ pc' \in [Client -> Labels] /\ pc'[c] = "tail"
          /\ \A d \in Client \ {c} : pc'[d] = pc[d]
      BY <1>t, <3>1 DEF Labels
    <3>4. /\ slot' \in [Client -> 0..MaxNodeCapacity + 1] /\ slot'[c] \in Slot
          /\ \A d \in Client \ {c} : slot'[d] = slot[d]
      BY <1>t, <2>2, <3>1
    <3>. QED  BY <1>t, <1>7, <3>1, <3>2, <3>3, <3>4, Zenon DEF ReadEntry
  <2>. QED  BY <1>t, <2>4, <2>5, Zenon
<1>8. ASSUME NEW c \in Client, ReadTail(c) PROVE TypeInv'
  <2>. DEFINE i == slot[c]
              Field(f) == IF f \in Straddle[i] THEN ent[path[c].leaf][i][f] ELSE buf[c][f]
              e == [buf[c] EXCEPT !.key = Field("key"), !.val = Field("val")]
  <2>1. i \in Slot /\ path[c].leaf \in Leaf
    BY <1>t, <1>8 DEF Records, ReadTail
  <2>2. ent[path[c].leaf][i].val \in Values /\ buf[c].val \in Values
    BY <1>c, <1>h, <2>1 DEF Entries, RawEntries
  <2>3. e.val \in Values
    BY <1>t, <2>2 DEF RawEntries
  <2>4. Examine(c, i, e)
    BY <1>t, <1>8 DEF ReadTail
  <2>5. \A d \in Client \ {c} : slot'[d] = slot[d]
    BY <1>t, <2>4 DEF Examine
  <2>. HIDE DEF e, i
  <2>6. /\ slot' \in [Client -> 0..MaxNodeCapacity + 1]
        /\ val' \in [Client -> Values]
        /\ pc' \in [Client -> Labels] /\ \A d \in Client \ {c} : pc'[d] = pc[d]
        /\ pc'[c] \in {"match", "refresh", "found"}
    BY <1>6, <2>1, <2>3, <2>4
  <2>. QED  BY <1>t, <1>8, <2>5, <2>6, Zenon DEF ReadTail
<1>9. ASSUME NEW c \in Client, ReadMiss(c) PROVE TypeInv'
  BY <1>t, <1>9, Zenon DEF ReadMiss, Labels
<1>10. ASSUME NEW c \in Client, LockTable(c) PROVE TypeInv'
  <2>1. fpt' \in [Leaf -> [ver : Nat, fp : FPs, lock : {0, 1}]]
    BY <1>b, <1>10, LockWordType, Zenon DEF LockTable
  <2>. QED  BY <1>t, <1>10, <2>1 DEF LockTable, Labels
<1>11. ASSUME NEW c \in Client, ReadTable(c) PROVE TypeInv'
  <2>1. path[c].leaf \in Leaf /\ 1 \in 0..MaxNodeCapacity + 1
    BY <1>a, <1>e
  <2>2. Table(fpt[path[c].leaf].ver, fpt[path[c].leaf].fp) \in Tables
    BY <1>b, <2>1 DEF Table, Tables
  <2>. QED  BY <1>t, <1>11, <2>1, <2>2, Zenon DEF ReadTable, Labels
<1>12. ASSUME NEW c \in Client, NEW label \in {"reroute", "written"}, UnlockTable(c, label)
       PROVE  TypeInv'
  <2>1. fpt' \in [Leaf -> [ver : Nat, fp : FPs, lock : {0, 1}]]
    BY <1>b, <1>12, LockWordType, Zenon DEF UnlockTable
  <2>. QED  BY <1>t, <1>12, <2>1 DEF UnlockTable, Labels
<1>13. ASSUME NEW c \in Client, ReroutePath(c) PROVE TypeInv'
  BY <1>t, <1>13, Zenon DEF ReroutePath, Labels
<1>14. ASSUME NEW c \in Client, ProbeEntry(c) PROVE TypeInv'
  <2>1. PICK i \in First(Candidates(c)) :
            IF Mine(c, i)
              THEN slot' = [slot EXCEPT ![c] = i] /\ Goto(c, "update")
              ELSE slot' = [slot EXCEPT ![c] = i + 1] /\ UNCHANGED pc
    BY <1>t, <1>14, Zenon DEF ProbeEntry
  <2>2. i + 1 \in 0..MaxNodeCapacity + 1 /\ i \in 0..MaxNodeCapacity + 1
    BY SlotBounds DEF First, Candidates
  <2>3. slot' \in [Client -> 0..MaxNodeCapacity + 1] /\ \A d \in Client \ {c} : slot'[d] = slot[d]
    BY <1>g, <2>1, <2>2
  <2>4. /\ pc' \in [Client -> Labels] /\ \A d \in Client \ {c} : pc'[d] = pc[d]
        /\ pc'[c] \in {"probe", "update"}
    BY <1>t, <1>14, <2>1, Zenon DEF ProbeEntry, Labels
  <2>. QED  BY <1>t, <1>14, <2>3, <2>4, Zenon DEF ProbeEntry
<1>15. ASSUME NEW c \in Client, UpdateEntry(c) PROVE TypeInv'
  <2>1. path[c].ver \in Nat
    BY <1>t, Zenon DEF Records
  <2>2. dict' \in [Key -> Values] /\ seen' \in [Client -> SUBSET Values]
    BY <1>t, <1>15, Zenon DEF UpdateEntry, Commit
  <2>3. ent' \in [Leaf -> [Slot -> Entries]]
    <3>. DEFINE e == FullEntry(path[c].ver, key[c], val[c])
    <3>1. ent' = [ent EXCEPT ![path[c].leaf][slot[c]] = e]
      BY <1>15 DEF UpdateEntry
    <3>2. e \in Entries
      BY <1>a, <2>1, FullEntryType
    <3>. HIDE DEF e
    <3>. QED  BY <1>c, <3>1, <3>2, Except2Type, Zenon
  <2>. QED  BY <1>t, <1>15, <2>2, <2>3, Zenon DEF UpdateEntry, Labels
<1>16. ASSUME NEW c \in Client, WriteEntry(c) PROVE TypeInv'
  <2>1. path[c].ver \in Nat
    BY <1>t DEF Records
  <2>2. PICK i \in Slot :
          /\ ent' = [ent EXCEPT ![path[c].leaf][i] =
                        FullEntry(path[c].ver, key[c], val[c])]
          /\ snap' = [snap EXCEPT ![c].fp[i] = FPOf[key[c]]]
    BY <1>t, <1>16, Zenon DEF WriteEntry, First, FreeSlots
  <2>3. ent' \in [Leaf -> [Slot -> Entries]]
    <3>. DEFINE e == FullEntry(path[c].ver, key[c], val[c])
    <3>1. e \in Entries
      BY <1>a, <2>1, FullEntryType
    <3>2. ent' = [ent EXCEPT ![path[c].leaf][i] = e]
      BY <2>2
    <3>. HIDE DEF e
    <3>. QED  BY <1>c, <3>1, <3>2, Except2Type, Zenon
  <2>4. snap' \in [Client -> Tables]
    BY <1>t, <2>2, FPType, Zenon DEF Tables, FPs
  <2>. QED  BY <1>t, <1>16, <2>3, <2>4 DEF WriteEntry, Labels
<1>17. ASSUME NEW c \in Client, WriteTable(c) PROVE TypeInv'
  <2>1. dict' \in [Key -> Values] /\ seen' \in [Client -> SUBSET Values]
    BY <1>t, <1>17, Zenon DEF WriteTable, Commit
  <2>2. fpt' \in [Leaf -> [ver : Nat, fp : FPs, lock : {0, 1}]]
    BY <1>t, <1>17, Zenon DEF WriteTable, Tables
  <2>. QED  BY <1>t, <1>17, <2>1, <2>2, Zenon DEF WriteTable, Labels
<1>18. ASSUME NEW c \in Client, ResizeRead(c) PROVE TypeInv'
  <2>. DEFINE l == path[c].leaf
              n == Cardinality(NodeEntries(c))
              z(s, sc, kv) ==
                [sib |-> s, scap |-> sc, kv |-> kv, hdr |-> hdr[l],
                 split |-> IF sc > path[c].cap THEN 0 ELSE n \div 2,
                 old |-> ent[l]]
  <2>1. PICK kv \in Sortings(NodeEntries(c)), s \in First(Leaf \ used),
             sc \in SiblingCapacities(path[c].cap) :
          /\ used' = used \cup {s}
          /\ rz' = [rz EXCEPT ![c] = z(s, sc, kv)]
    BY <1>t, <1>18, Zenon DEF ResizeRead
  <2>2. l \in Leaf /\ path[c].cap \in Nat /\ path[c].cap >= 1 /\ path[c].cap <= MaxNodeCapacity
    BY <1>a, <1>i, CapacityBounds
  <2>3. /\ NodeEntries(c) \subseteq [key : Key, val : Values]
        /\ n \in 1..path[c].cap + 1
    BY <1>t, NodeEntriesType, Zenon
  <2>4. s \in Leaf /\ sc \in Nat
    <3>1. s \in Leaf
      BY DEF First
    <3>2. 2 * path[c].cap \in Nat /\ MaxNodeCapacity \in Nat
      BY <2>2, SlotType DEF Sets
    <3>. QED  BY <2>2, <3>1, <3>2 DEF SiblingCapacities
  <2>5. /\ z(s, sc, kv).split \in Nat /\ z(s, sc, kv).split + 1 \in 1..n
        /\ sc \in 1..MaxNodeCapacity
    <3>. HIDE DEF n
    <3>. HIDE DEF l
    <3>1. LET split == IF sc > path[c].cap THEN 0 ELSE n \div 2
          IN  /\ split \in 0..path[c].cap /\ split + 1 \in 1..n
              /\ n - split \in 1..sc /\ sc \in 1..MaxNodeCapacity
      <4>. DEFINE cap == path[c].cap
      <4>1. cap \in Nat /\ cap >= 1 /\ cap <= MaxNodeCapacity /\ n \in 1..cap + 1
            /\ sc \in SiblingCapacities(cap)
        BY <2>2, <2>3
      <4>. HIDE DEF cap
      <4>2. LET split == IF sc > cap THEN 0 ELSE n \div 2
            IN  /\ split \in 0..cap /\ split + 1 \in 1..n
                /\ n - split \in 1..sc /\ sc \in 1..MaxNodeCapacity
        BY <2>4, <4>1, SplitFits
      <4>. QED  BY <4>2 DEF cap
    <3>2. z(s, sc, kv).split = IF sc > path[c].cap THEN 0 ELSE n \div 2
      OBVIOUS
    <3>. HIDE DEF z
    <3>. QED  BY <2>2, <3>1, <3>2
  <2>6. kv \in [1..n -> [key : Key, val : Values]]
    BY <1>t, <2>1, <2>3 DEF Sortings
  <2>7. hdr[l] \in Headers /\ ent[l] \in [Slot -> Entries]
    BY <1>t, <2>2, Zenon
  <2>8. n \in 0..MaxNodeCapacity + 1 /\ sc \in 0..MaxNodeCapacity
    <3>. HIDE DEF n, z, l
    <3>. QED  BY <1>i, <2>3, <2>5, CapacityBounds
  <2>. HIDE DEF n
  <2>9. z(s, sc, kv) \in Resizes
    <3>1. kv \in UNION {[1..m -> [key : Key, val : Values]] : m \in 0..MaxNodeCapacity + 1}
      BY <2>6, <2>8
    <3>. DEFINE sp == IF sc > path[c].cap THEN 0 ELSE n \div 2
    <3>2. sp \in Nat
      BY <2>5
    <3>. DEFINE es == ent[l]
                h == hdr[l]
    <3>3. es \in [Slot -> Entries] /\ h \in Headers
      BY <2>7
    <3>4. z(s, sc, kv) = [sib |-> s, scap |-> sc, kv |-> kv, hdr |-> h, split |-> sp,
                          old |-> es]
      OBVIOUS
    <3>5. s \in Leaf
      BY <2>4
    <3>. HIDE DEF sp, es, h, z
    <3>6. [sib |-> s, scap |-> sc, kv |-> kv, hdr |-> h, split |-> sp, old |-> es]
              \in Resizes
      BY <2>8, <3>1, <3>2, <3>3, <3>5, ResizeType
    <3>. QED  BY <3>4, <3>6
  <2>10. /\ z(s, sc, kv).split + 1 \in DOMAIN z(s, sc, kv).kv
         /\ z(s, sc, kv).scap \in 1..MaxNodeCapacity
    BY <2>5, <2>6, Zenon
  <2>. HIDE DEF z
  <2>11. /\ pc' \in [Client -> Labels] /\ \A d \in Client \ {c} : pc'[d] = pc[d]
         /\ pc'[c] = "sibling"
    BY <1>t, <1>18 DEF ResizeRead, Labels
  <2>12. /\ rz' \in [Client -> Resizes] /\ \A d \in Client \ {c} : rz'[d] = rz[d]
         /\ rz'[c] = z(s, sc, kv) /\ used' \subseteq Leaf
    BY <1>t, <2>1, <2>4, <2>9, Zenon
  <2>. QED  BY <1>t, <1>18, <2>10, <2>11, <2>12, Zenon DEF ResizeRead
<1>19. ASSUME NEW c \in Client, WriteSibling(c) PROVE TypeInv'
  <2>1. Resizing(c)
    BY <1>t, <1>19, Zenon DEF WriteSibling
  <2>2. hdr' \in [Leaf -> Headers]
    BY <1>t, <1>19, <2>1, ResizeParts, Zenon DEF WriteSibling
  <2>3. ent' \in [Leaf -> [Slot -> Entries]]
    BY <1>t, <1>19, <2>1, ResizeParts, Zenon DEF WriteSibling
  <2>. QED  BY <1>t, <1>19, <2>2, <2>3, Zenon DEF WriteSibling, Labels
<1>20. ASSUME NEW c \in Client, WriteSiblingTable(c) PROVE TypeInv'
  <2>1. Resizing(c)
    BY <1>t, <1>20, Zenon DEF WriteSiblingTable
  <2>2. fpt' \in [Leaf -> [ver : Nat, fp : FPs, lock : {0, 1}]]
    BY <1>t, <1>20, <2>1, ResizeParts, Zenon DEF WriteSiblingTable
  <2>3. slot' \in [Client -> 0..MaxNodeCapacity + 1]
    BY <1>e, <1>g, <1>20, Zenon DEF WriteSiblingTable
  <2>. QED  BY <1>t, <1>20, <2>2, <2>3, Zenon DEF WriteSiblingTable, Labels
<1>21. ASSUME NEW c \in Client, WriteCurrent(c) PROVE TypeInv'
  <2>1. Resizing(c)
    BY <1>t, <1>21, Zenon DEF WriteCurrent
  <2>2. hdr' \in [Leaf -> Headers]
    BY <1>t, <1>21, <2>1, ResizeParts, Zenon DEF WriteCurrent
  <2>0. slot[c] \in Nat /\ slot[c] <= MaxNodeCapacity /\ MaxNodeCapacity \in Nat
    <3>1. slot[c] \in 0..MaxNodeCapacity + 1
      BY <1>t, Zenon
    <3>2. path[c].cap \in 1..MaxNodeCapacity
      BY <1>a DEF Records
    <3>3. slot[c] <= path[c].cap
      BY <1>21 DEF WriteCurrent
    <3>. QED  BY <3>1, <3>2, <3>3, SlotType DEF Sets
  <2>3. ent' \in [Leaf -> [Slot -> Entries]]
    <3>1. CASE slot[c] = 0
      BY <1>c, <1>21, <3>1 DEF WriteCurrent
    <3>2. CASE slot[c] # 0
      <4>. DEFINE e == CurrentEntry(c, slot[c])
      <4>1. slot[c] \in Slot
        BY <2>0, <3>2, SlotType DEF Sets
      <4>2. e \in Entries
        BY <1>t, <2>1, <4>1, ResizeParts, Zenon
      <4>3. ent' = [ent EXCEPT ![path[c].leaf][slot[c]] = e]
        BY <1>21, <3>2 DEF WriteCurrent
      <4>. HIDE DEF e
      <4>. QED  BY <1>c, <4>2, <4>3, Except2Type, Zenon
    <3>. QED  BY <3>1, <3>2
  <2>4. slot[c] + 1 \in 0..MaxNodeCapacity + 1
    BY <2>0
  <2>5. slot' \in [Client -> 0..MaxNodeCapacity + 1] /\ \A d \in Client \ {c} : slot'[d] = slot[d]
    BY <1>t, <1>21, <2>4, Zenon DEF WriteCurrent
  <2>. QED  BY <1>t, <1>21, <2>2, <2>3, <2>5, Zenon DEF WriteCurrent
<1>22. ASSUME NEW c \in Client, WriteCurrentTable(c) PROVE TypeInv'
  <2>1. Resizing(c)
    BY <1>t, <1>22, Zenon DEF WriteCurrentTable
  <2>2. CurrentHeader(c).ver \in Nat
    BY <1>t, <2>1, ResizeParts, Zenon DEF Headers
  <2>3. fpt' \in [Leaf -> [ver : Nat, fp : FPs, lock : {0, 1}]]
    BY <1>t, <1>22, <2>1, <2>2, ResizeParts, Zenon DEF WriteCurrentTable
  <2>. QED  BY <1>t, <1>22, <2>3, Zenon DEF WriteCurrentTable, Labels
<1>23. ASSUME NEW c \in Client, InnerInsert(c) PROVE TypeInv'
  <2>. DEFINE upd == Record(rz[c].hdr.min, path[c].leaf, path[c].cap,
                            CurrentHeader(c).ver)
              ins == Record(SplitKey(c), rz[c].sib, rz[c].scap, 0)
  <2>1. Resizing(c)
    BY <1>t, <1>23, Zenon DEF InnerInsert
  <2>2. CurrentHeader(c).ver \in Nat /\ SplitKey(c) \in Nat
    BY <1>t, <2>1, ResizeParts, LeafAssumption, Zenon DEF Headers
  <2>3. upd \in Records /\ ins \in Records
    BY <1>t, <2>1, <2>2, Zenon DEF Record, Records, Resizes, Headers
  <2>4. index' = InnerPut(ins, InnerPut(upd, index))
    BY <1>t, <1>23, Zenon DEF InnerInsert
  <2>. HIDE DEF upd, ins
  <2>5. index' \in [Key -> Records]
    BY <1>t, <2>3, <2>4, Zenon DEF InnerPut
  <2>6. published' \in [Key -> SUBSET Records]
    <3>1. published' = [k \in Key |-> published[k] \cup {index'[k]}]
      BY <1>23, Zenon DEF InnerInsert
    <3>2. published \in [Key -> SUBSET Records]
      BY <1>t, Zenon
    <3>. QED  BY <2>5, <3>1, <3>2
  <2>7. dict' \in [Key -> Values] /\ seen' \in [Client -> SUBSET Values]
    BY <1>t, <1>23, Zenon DEF InnerInsert, Commit
  <2>. QED  BY <1>t, <1>23, <2>5, <2>6, <2>7, Zenon DEF InnerInsert, Labels
<1>24. ASSUME NEW c \in Client, Return(c) PROVE TypeInv'
  <2>1. Table(0, NoFP) \in Tables /\ EmptyEntry(0) \in RawEntries
    BY NoFPType, EmptyEntryType DEF Tables, Table, Entries
  <2>2. 1 \in 0..MaxNodeCapacity + 1 /\ NoValue \in Values
    BY <1>e DEF Values
  <2>. QED  BY <1>t, <1>24, <2>1, <2>2, AnyKeyType, FirstRecordType, NoResizeType, Zenon DEF Return, Labels
<1>. QED
  BY <1>t, <1>0, <1>1, <1>2, <1>3, <1>4, <1>5, <1>7, <1>8, <1>9, <1>10, <1>11, <1>12,
     <1>13, <1>14, <1>15, <1>16, <1>17, <1>18, <1>19, <1>20, <1>21, <1>22, <1>23,
     <1>24, Zenon
  DEF Next, Start, Step, LeafSearch, LeafInsert, LeafResize, UnlockStale, UnlockUpdated

\* TypeOK: the memory words and the locals of read and write keep their types,
\* and the splits leaf_resize computes index only entries that exist.
THEOREM TypeCorrect == Spec => []TypeOK
<1>1. TypeInv => TypeOK
  BY DEF TypeInv
<1>. QED  BY TypeInit, TypeStep, <1>1, PTL DEF Spec

-----------------------------------------------------------------------------
(***************************************************************************)
(* The table lock excludes writers.  The proof rests on a sibling being    *)
(* unknown to everyone but the client that creates it, since leaf_resize   *)
(* writes the sibling's table, lock word included, without holding the     *)
(* sibling's lock.                                                         *)
(***************************************************************************)

\* Every record in circulation was published, no published record names a
\* sibling under construction, and two resizes have two siblings.
Fresh ==
    /\ \A k \in Key : index[k] \in published[k] /\ FirstRecord \in published[k]
    /\ \A c \in Client : path[c] \in published[key[c]]
    /\ \A k \in Key : \A r \in published[k] : r.leaf \in used
    /\ \A c \in Client : Resizing(c) =>
         /\ rz[c].sib \in used
         /\ \A k \in Key : \A r \in published[k] : r.leaf # rz[c].sib
    /\ \A c, d \in Client :
         Resizing(c) /\ Resizing(d) /\ rz[c].sib = rz[d].sib => c = d

LEMMA FreshInit == Init => Fresh
<1>. SUFFICES ASSUME Init PROVE Fresh
  OBVIOUS
<1>1. \A c \in Client : ~Resizing(c) /\ key[c] \in Key /\ path[c] = FirstRecord
  BY AnyKeyType DEF Init, Resizing
<1>2. FirstRecord.leaf = Head
  BY DEF FirstRecord, Record
<1>. QED  BY <1>1, <1>2, Zenon DEF Init, Fresh

\* A step that moves no record, no path and no sibling.
Quiet ==
    /\ UNCHANGED <<index, published, used, key, path, rz>>
    /\ \A d \in Client : Resizing(d)' => Resizing(d)

LEMMA FreshQuiet == Fresh /\ Quiet => Fresh'
BY DEF Fresh, Quiet

\* The steps that are not quiet.
LEMMA QuietSteps ==
    ASSUME TypeInv, NEW c \in Client,
           \/ ReadFP(c) \/ LocalFPTorn(c) \/ ReadEntry(c) \/ ReadTail(c) \/ ReadMiss(c)
           \/ LockTable(c) \/ ReadTable(c) \/ UnlockStale(c)
           \/ ProbeEntry(c) \/ UpdateEntry(c) \/ UnlockUpdated(c)
           \/ WriteEntry(c) \/ WriteTable(c)
           \/ WriteSibling(c) \/ WriteSiblingTable(c)
           \/ WriteCurrent(c) \/ WriteCurrentTable(c)
    PROVE  Quiet
<1>. USE DEF memVars, clientVars, ghostVars, Goto, Resizing
<1>0. pc \in [Client -> Labels]
  BY Zenon DEF TypeInv, TypeOK
<1>1. CASE ReadFP(c) \/ LocalFPTorn(c) \/ ReadMiss(c)
  BY <1>0, <1>1, Zenon DEF ReadFP, LocalFPTorn, ReadMiss, Quiet
<1>2. CASE ReadEntry(c) \/ ReadTail(c)
  BY <1>0, <1>2, Zenon DEF ReadEntry, ReadTail, Examine, Quiet
<1>3. CASE LockTable(c) \/ ReadTable(c) \/ UnlockStale(c) \/ UnlockUpdated(c)
  BY <1>0, <1>3, Zenon
  DEF LockTable, ReadTable, UnlockStale, UnlockUpdated, UnlockTable, Quiet
<1>4. CASE ProbeEntry(c) \/ UpdateEntry(c) \/ WriteEntry(c) \/ WriteTable(c)
  BY <1>0, <1>4, Zenon DEF ProbeEntry, UpdateEntry, WriteEntry, WriteTable, Quiet
<1>5. CASE WriteSibling(c) \/ WriteSiblingTable(c) \/ WriteCurrent(c) \/ WriteCurrentTable(c)
  BY <1>0, <1>5, Zenon DEF WriteSibling, WriteSiblingTable, WriteCurrent, WriteCurrentTable, Quiet
<1>. QED  BY <1>1, <1>2, <1>3, <1>4, <1>5

LEMMA FreshStep == TypeInv /\ Fresh /\ [Next]_vars => Fresh'
<1>t. SUFFICES ASSUME TypeInv, Fresh, [Next]_vars PROVE Fresh'
  OBVIOUS
<1>. USE DEF memVars, clientVars, ghostVars, Goto, Resizing
<1>p. /\ pc \in [Client -> Labels] /\ key \in [Client -> Key] /\ path \in [Client -> Records]
      /\ rz \in [Client -> Resizes] /\ index \in [Key -> Records]
      /\ published \in [Key -> SUBSET Records] /\ used \subseteq Leaf
  BY <1>t, Zenon DEF TypeInv, TypeOK
<1>0. CASE UNCHANGED vars
  BY <1>t, <1>0, Zenon DEF vars, Fresh
<1>1. ASSUME NEW c \in Client, NEW k \in Key, NEW v, ReadStart(c, k, v) \/ WriteStart(c, k, v)
      PROVE  Fresh'
  <2>1. PICK r \in published[k] : path' = [path EXCEPT ![c] = r]
    BY <1>1, Zenon DEF ReadStart, WriteStart
  <2>2. /\ UNCHANGED <<index, published, used, rz>>
        /\ key' = [key EXCEPT ![c] = k]
        /\ \A d \in Client : Resizing(d)' => Resizing(d)
    BY <1>p, <1>1 DEF ReadStart, WriteStart
  <2>3. \A d \in Client : path'[d] \in published[key'[d]]
    BY <1>p, <1>t, <2>1, <2>2 DEF Fresh
  <2>. QED  BY <1>t, <2>2, <2>3 DEF Fresh
<1>2. ASSUME NEW c \in Client, RefreshPath(c) \/ ReroutePath(c) PROVE Fresh'
  <2>1. path' = [path EXCEPT ![c] = index[key[c]]] /\ UNCHANGED <<index, published, used, rz, key>>
    BY <1>2 DEF RefreshPath, ReroutePath
  <2>2. \A d \in Client : Resizing(d)' => Resizing(d)
    BY <1>p, <1>2 DEF RefreshPath, ReroutePath
  <2>3. \A d \in Client : path'[d] \in published[key'[d]]
    BY <1>p, <1>t, <2>1 DEF Fresh
  <2>. QED  BY <1>t, <2>1, <2>2, <2>3 DEF Fresh
<1>3. ASSUME NEW c \in Client, Return(c) PROVE Fresh'
  <2>1. /\ path' = [path EXCEPT ![c] = FirstRecord] /\ key' = [key EXCEPT ![c] = AnyKey]
        /\ UNCHANGED <<index, published, used>>
        /\ \A d \in Client : Resizing(d)' => d # c /\ Resizing(d) /\ rz'[d] = rz[d]
    BY <1>p, <1>3 DEF Return
  <2>2. \A d \in Client : path'[d] \in published[key'[d]]
    BY <1>p, <1>t, <2>1, AnyKeyType DEF Fresh
  <2>. QED  BY <1>t, <2>1, <2>2 DEF Fresh
<1>4. ASSUME NEW c \in Client, ResizeRead(c) PROVE Fresh'
  <2>1. PICK s \in Leaf \ used : used' = used \cup {s} /\ rz'[c].sib = s
    <3>1. PICK kv \in Sortings(NodeEntries(c)), s \in First(Leaf \ used),
              sc \in SiblingCapacities(path[c].cap) :
            /\ used' = used \cup {s}
            /\ rz' = [rz EXCEPT ![c] =
                  [sib |-> s, scap |-> sc, kv |-> kv, hdr |-> hdr[path[c].leaf],
                   split |-> IF sc > path[c].cap THEN 0 ELSE Cardinality(NodeEntries(c)) \div 2,
                   old |-> ent[path[c].leaf]]]
      BY <1>4, Zenon DEF ResizeRead
    <3>2. s \in Leaf \ used
      BY <3>1, Zenon DEF First
    <3>3. rz'[c].sib = s
      BY <1>p, <3>1
    <3>. QED  BY <3>1, <3>2, <3>3, Zenon
  <2>2. /\ UNCHANGED <<index, published, key, path>>
        /\ \A d \in Client \ {c} : rz'[d] = rz[d] /\ (Resizing(d)' => Resizing(d))
    BY <1>p, <1>4, Zenon DEF ResizeRead
  <2>3. \A k \in Key : \A r \in published[k] : r.leaf # s
    BY <1>t, <2>1, Zenon DEF Fresh
  <2>4. \A d \in Client : d # c /\ Resizing(d) => rz[d].sib # s
    BY <1>t, <2>1 DEF Fresh
  <2>. HIDE DEF Resizing
  <2>. QED  BY <1>t, <2>1, <2>2, <2>3, <2>4 DEF Fresh
<1>5. ASSUME NEW c \in Client, InnerInsert(c) PROVE Fresh'
  <2>. DEFINE upd == Record(rz[c].hdr.min, path[c].leaf, path[c].cap,
                            CurrentHeader(c).ver)
              ins == Record(SplitKey(c), rz[c].sib, rz[c].scap, 0)
  <2>1. upd.leaf = path[c].leaf /\ ins.leaf = rz[c].sib
    BY DEF Record
  <2>2. /\ index' = InnerPut(ins, InnerPut(upd, index))
        /\ published' = [k \in Key |-> published[k] \cup {index'[k]}]
        /\ UNCHANGED <<used, key, path, rz>>
        /\ \A d \in Client : Resizing(d)' => d # c /\ Resizing(d)
        /\ Resizing(c)
    BY <1>p, <1>5, Zenon DEF InnerInsert
  <2>. HIDE DEF upd, ins, Resizing
  <2>3. \A k \in Key : index'[k] \in {index[k], upd, ins}
    BY <2>2, Zenon DEF InnerPut
  <2>4. \A k \in Key : index'[k].leaf \in {index[k].leaf, path[c].leaf, rz[c].sib}
    BY <2>1, <2>3
  <2>5. \A k \in Key : \A r \in published'[k] :
            r \in published[k] \/ r.leaf \in {path[c].leaf, rz[c].sib}
    BY <1>t, <2>1, <2>2, <2>3 DEF Fresh
  <2>6. /\ path[c].leaf \in used
        /\ \A d \in Client : Resizing(d) => path[c].leaf # rz[d].sib
    BY <1>p, <1>t DEF Fresh
  <2>7. rz[c].sib \in used /\ \A d \in Client : Resizing(d)' => rz[c].sib # rz[d].sib
    BY <1>t, <2>2, Zenon DEF Fresh
  <2>8. \A k \in Key : \A r \in published'[k] :
            r.leaf \in used /\ \A d \in Client : Resizing(d)' => r.leaf # rz[d].sib
    <3>. TAKE k \in Key
    <3>. TAKE r \in published'[k]
    <3>1. \A d \in Client : Resizing(d)' => Resizing(d)
      BY <2>2
    <3>2. CASE r \in published[k]
      BY <1>t, <3>1, <3>2, Zenon DEF Fresh
    <3>3. CASE r.leaf = path[c].leaf
      BY <2>6, <3>1, <3>3, Zenon
    <3>4. CASE r.leaf = rz[c].sib
      BY <2>7, <3>4, Zenon
    <3>. QED  BY <2>5, <3>2, <3>3, <3>4, Zenon
  <2>9. \A k \in Key : index'[k] \in published'[k] /\ published[k] \subseteq published'[k]
    BY <2>2
  <2>10. \A d \in Client : path'[d] \in published'[key'[d]]
    BY <1>p, <1>t, <2>2, <2>9, Zenon DEF Fresh
  <2>. QED  BY <1>t, <2>2, <2>8, <2>9, <2>10, Zenon DEF Fresh
<1>6. ASSUME NEW c \in Client,
             \/ ReadFP(c) \/ LocalFPTorn(c) \/ ReadEntry(c) \/ ReadTail(c) \/ ReadMiss(c)
             \/ LockTable(c) \/ ReadTable(c) \/ UnlockStale(c)
             \/ ProbeEntry(c) \/ UpdateEntry(c) \/ UnlockUpdated(c)
             \/ WriteEntry(c) \/ WriteTable(c)
             \/ WriteSibling(c) \/ WriteSiblingTable(c)
             \/ WriteCurrent(c) \/ WriteCurrentTable(c)
      PROVE  Fresh'
  BY <1>t, <1>6, QuietSteps, FreshQuiet
<1>. QED
  BY <1>t, <1>0, <1>1, <1>2, <1>3, <1>4, <1>5, <1>6
  DEF Next, Start, Step, LeafSearch, LeafInsert, LeafResize

-----------------------------------------------------------------------------
\* A step that leaves the lock words, the holders and their paths alone.
LockQuiet ==
    /\ \A l \in Leaf : fpt'[l].lock = fpt[l].lock
    /\ \A d \in Client : Holds(d)' <=> Holds(d)
    /\ \A d \in Client : Holds(d) => path'[d] = path[d]

LEMMA LockQuietStep == LockExclusion /\ LockQuiet => LockExclusion'
BY DEF LockExclusion, LockQuiet

LEMMA LockQuietSteps ==
    ASSUME TypeInv, NEW c \in Client,
           \/ \E k \in Key, v \in Values : ReadStart(c, k, v) \/ WriteStart(c, k, v)
           \/ ReadFP(c) \/ LocalFPTorn(c) \/ ReadEntry(c) \/ ReadTail(c) \/ ReadMiss(c)
           \/ RefreshPath(c) \/ ReroutePath(c) \/ Return(c)
           \/ ReadTable(c) \/ ProbeEntry(c) \/ UpdateEntry(c) \/ WriteEntry(c)
           \/ ResizeRead(c) \/ WriteSibling(c) \/ WriteCurrent(c) \/ InnerInsert(c)
    PROVE  LockQuiet
<1>. USE DEF memVars, clientVars, ghostVars, Goto, Holds, LockQuiet
<1>0. pc \in [Client -> Labels] /\ path \in [Client -> Records]
  BY Zenon DEF TypeInv, TypeOK
<1>1. CASE \E k \in Key, v \in Values : ReadStart(c, k, v) \/ WriteStart(c, k, v)
  <2>1. PICK k \in Key, v \in Values : ReadStart(c, k, v) \/ WriteStart(c, k, v)
    BY <1>1
  <2>2. /\ fpt' = fpt /\ pc[c] = "idle"
        /\ \E label \in {"search", "lock"} : pc' = [pc EXCEPT ![c] = label]
        /\ \E r : path' = [path EXCEPT ![c] = r]
    BY <2>1, Zenon DEF ReadStart, WriteStart
  <2>3. pc'[c] \in {"search", "lock"} /\ \A d \in Client \ {c} : pc'[d] = pc[d]
    BY <1>0, <2>2
  <2>4. \A d \in Client \ {c} : path'[d] = path[d]
    BY <1>0, <2>2
  <2>. QED  BY <2>2, <2>3, <2>4
<1>2. CASE ReadFP(c) \/ LocalFPTorn(c) \/ ReadMiss(c)
  BY <1>0, <1>2, Zenon DEF ReadFP, LocalFPTorn, ReadMiss
<1>3. CASE ReadEntry(c) \/ ReadTail(c)
  BY <1>0, <1>3, Zenon DEF ReadEntry, ReadTail, Examine
<1>4. CASE RefreshPath(c) \/ ReroutePath(c) \/ Return(c)
  BY <1>0, <1>4, Zenon DEF RefreshPath, ReroutePath, Return
<1>5. CASE ReadTable(c) \/ ProbeEntry(c) \/ UpdateEntry(c) \/ WriteEntry(c)
  BY <1>0, <1>5, Zenon DEF ReadTable, ProbeEntry, UpdateEntry, WriteEntry
<1>6. CASE ResizeRead(c) \/ WriteSibling(c) \/ WriteCurrent(c) \/ InnerInsert(c)
  BY <1>0, <1>6, Zenon DEF ResizeRead, WriteSibling, WriteCurrent, InnerInsert
<1>. QED  BY <1>1, <1>2, <1>3, <1>4, <1>5, <1>6, Zenon

\* The lock word of one leaf is cleared by its holder, which is one no more.
LEMMA ReleaseStep ==
    ASSUME LockExclusion, NEW c \in Client, Holds(c), path[c].leaf \in Leaf,
           \A l \in Leaf : fpt'[l].lock = IF l = path[c].leaf THEN 0 ELSE fpt[l].lock,
           path' = path, ~Holds(c)', \A d \in Client \ {c} : Holds(d)' <=> Holds(d)
    PROVE  LockExclusion'
BY DEF LockExclusion

LEMMA LockStep == TypeInv /\ Fresh /\ LockExclusion /\ [Next]_vars => LockExclusion'
<1>t. SUFFICES ASSUME TypeInv, Fresh, LockExclusion, [Next]_vars PROVE LockExclusion'
  OBVIOUS
<1>. USE DEF memVars, clientVars, ghostVars, Goto
<1>p. /\ pc \in [Client -> Labels] /\ path \in [Client -> Records]
      /\ fpt \in [Leaf -> [ver : Nat, fp : FPs, lock : {0, 1}]]
  BY <1>t, Zenon DEF TypeInv, TypeOK
<1>l. \A c \in Client : path[c].leaf \in Leaf
  BY <1>p DEF Records
<1>0. CASE UNCHANGED vars
  BY <1>t, <1>0 DEF vars, LockExclusion, Holds
<1>1. ASSUME NEW c \in Client,
             \/ \E k \in Key, v \in Values : ReadStart(c, k, v) \/ WriteStart(c, k, v)
             \/ ReadFP(c) \/ LocalFPTorn(c) \/ ReadEntry(c) \/ ReadTail(c) \/ ReadMiss(c)
             \/ RefreshPath(c) \/ ReroutePath(c) \/ Return(c)
             \/ ReadTable(c) \/ ProbeEntry(c) \/ UpdateEntry(c) \/ WriteEntry(c)
             \/ ResizeRead(c) \/ WriteSibling(c) \/ WriteCurrent(c) \/ InnerInsert(c)
      PROVE  LockExclusion'
  BY <1>t, <1>1, LockQuietSteps, LockQuietStep
<1>2. ASSUME NEW c \in Client, LockTable(c) PROVE LockExclusion'
  <2>1. /\ fpt[path[c].leaf].lock = 0 /\ path' = path
        /\ \A l \in Leaf : fpt'[l].lock = IF l = path[c].leaf THEN 1 ELSE fpt[l].lock
        /\ Holds(c)' /\ \A d \in Client \ {c} : Holds(d)' <=> Holds(d)
        /\ ~Holds(c)
    BY <1>p, <1>l, <1>2 DEF LockTable, Holds
  <2>. QED  BY <1>t, <1>l, <2>1 DEF LockExclusion
<1>3. ASSUME NEW c \in Client,
             UnlockStale(c) \/ UnlockUpdated(c) \/ WriteTable(c) \/ WriteCurrentTable(c)
      PROVE  LockExclusion'
  <2>1. /\ Holds(c) /\ path' = path
        /\ ~Holds(c)' /\ \A d \in Client \ {c} : Holds(d)' <=> Holds(d)
    BY <1>p, <1>3
    DEF UnlockStale, UnlockUpdated, UnlockTable, WriteTable, WriteCurrentTable, Holds
  <2>2. \A l \in Leaf : fpt'[l].lock = IF l = path[c].leaf THEN 0 ELSE fpt[l].lock
    BY <1>p, <1>l, <1>3
    DEF UnlockStale, UnlockUpdated, UnlockTable, WriteTable, WriteCurrentTable
  <2>. QED  BY <1>t, <1>l, <2>1, <2>2, ReleaseStep
<1>4. ASSUME NEW c \in Client, WriteSiblingTable(c) PROVE LockExclusion'
  <2>1. \A d \in Client : path[d].leaf # rz[c].sib
    BY <1>t, <1>4, Zenon DEF WriteSiblingTable, Resizing, Fresh, TypeInv, TypeOK
  <2>2. fpt[rz[c].sib].lock = 0 \/ rz[c].sib \notin Leaf
    BY <1>t, <1>p, <2>1, Zenon DEF LockExclusion
  <2>3. LockQuiet
    BY <1>p, <1>4, <2>2, Zenon DEF WriteSiblingTable, Holds, LockQuiet
  <2>. QED  BY <1>t, <2>3, LockQuietStep
<1>5. \A v \in CallerValue \cup Value : v \in Values
  BY LeafAssumption DEF Values
<1>. QED
  BY <1>t, <1>0, <1>1, <1>2, <1>3, <1>4, <1>5
  DEF Next, Start, Step, LeafSearch, LeafInsert, LeafResize

\* LockExclusion: between lock_table and whichever of the three writes unlocks,
\* a leaf has exactly one writer, for any number of clients and leaves.
THEOREM MutualExclusion == Spec => []LockExclusion
<1>. DEFINE Inv == TypeInv /\ Fresh /\ LockExclusion
<1>1. Init => LockExclusion
  BY DEF Init, LockExclusion, Holds
<1>2. Init => Inv
  BY <1>1, TypeInit, FreshInit
<1>3. Inv /\ [Next]_vars => Inv'
  BY TypeStep, FreshStep, LockStep
<1>4. Inv => LockExclusion
  OBVIOUS
<1>. HIDE DEF Inv
<1>. QED  BY <1>2, <1>3, <1>4, PTL DEF Spec
=============================================================================

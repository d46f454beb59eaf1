--------------------------- MODULE Cluster_proofs ---------------------------
(***************************************************************************)
(* Proofs about Cluster, for any number of servers and threads, any sizes  *)
(* and any number of calls: the blocks that are allocated do not overlap   *)
(* and lie where they may lie; servers that connect do not wait in a       *)
(* circle, the barriers hold, and no directory is asked before it runs.    *)
(***************************************************************************)
EXTENDS Cluster, FiniteSetTheorems, WellFoundedInduction, TLAPS

-----------------------------------------------------------------------------
(* The inductive invariant.  A chunk that a directory has given away is in *)
(* a reply, at the head of one allocator, or used up; the blocks of the    *)
(* chunk at an allocator's head lie below cur.                             *)

SameChunk(a, b) == a.node = b.node /\ a.chunk = b.chunk
InMemory(b) == b.node \in MemoryServer

\* The blocks of size s1 at o1 and of size s2 at o2 do not overlap.
Apart(o1, s1, o2, s2) == o1 + s1 <= o2 \/ o2 + s2 <= o1

\* The directory of node n has given chunk c away.
Given(n, c) == Reserved < c /\ c < bitmap_tail[n] /\ bitmap_tail[n] <= Chunks

\* A request or an answer belongs to a thread that waits for it, and comes
\* from a node of the kind that the thread asked.
RequestsOK ==
    /\ \A m \in requests :
          /\ reply[m.from] = None
          /\ \/ thread[m.from].pc = "memory_wait" /\ m.to \in MemoryServer
             \/ thread[m.from].pc = "compute_wait" /\ m.to = MemoryNumber
    /\ \A m, r \in requests : m.from = r.from => m = r

RepliesOK ==
    /\ \A t \in Thread : reply[t] # None =>
          /\ Given(reply[t].node, reply[t].chunk) /\ reply[t].off = 0
          /\ \/ thread[t].pc = "memory_wait" /\ InMemory(reply[t])
             \/ thread[t].pc = "compute_wait" /\ reply[t].node = MemoryNumber
    /\ \A t, u \in Thread : t # u /\ reply[t] # None => ~SameChunk(reply[t], reply[u])

\* The chunks at the allocators' heads are given away, and nobody else's.
HeadsOK ==
    /\ \A s \in ComputeServer : local_memory[s].chunk # 0 =>
          Given(local_memory[s].node, local_memory[s].chunk) /\ InMemory(local_memory[s])
    /\ \A s \in ComputeServer : local_compute[s].chunk # 0 =>
          /\ Given(MemoryNumber, local_compute[s].chunk)
          /\ local_compute[s].node = MemoryNumber
          /\ alloc_compute_nodes[s] < ComputeNumber
    /\ \A s, r \in ComputeServer : s # r /\ local_memory[s].chunk # 0 =>
          ~SameChunk(local_memory[s], local_memory[r])
    /\ \A s, r \in ComputeServer : s # r /\ local_compute[s].chunk # 0 =>
          local_compute[s].chunk # local_compute[r].chunk
    /\ \A s \in ComputeServer, t \in Thread : reply[t] # None =>
          /\ ~SameChunk(reply[t], local_memory[s])
          /\ ~SameChunk(reply[t], local_compute[s])

\* Blocks of the memory servers.
MemoryBlocksOK ==
    /\ \A b \in blocks : InMemory(b) =>
          Given(b.node, b.chunk) /\ b.off + b.size <= kChunkSize
    /\ \A b \in blocks, s \in ComputeServer : InMemory(b) /\ SameChunk(b, local_memory[s]) =>
          b.off + b.size <= local_memory[s].off
    /\ \A b \in blocks, t \in Thread : InMemory(b) /\ reply[t] # None =>
          ~SameChunk(b, reply[t])
    /\ \A b, c \in blocks : b # c /\ InMemory(b) /\ SameChunk(b, c) =>
          Apart(b.off, b.size, c.off, c.size)

\* Blocks of the compute servers: wherever they are placed, their chunks come
\* from the first compute server.
ComputeBlocksOK ==
    /\ \A b \in blocks : ~InMemory(b) =>
          /\ b.node \in Server /\ Given(MemoryNumber, b.chunk)
          /\ b.off + b.size <= kChunkSize /\ Offset(b) < CacheLimit
    /\ \A b \in blocks, s \in ComputeServer :
          ~InMemory(b) /\ b.chunk = local_compute[s].chunk =>
              b.off + b.size <= local_compute[s].off
    /\ \A b \in blocks, t \in Thread :
          ~InMemory(b) /\ reply[t] # None /\ reply[t].node = MemoryNumber =>
              b.chunk # reply[t].chunk
    /\ \A b, c \in blocks : b # c /\ ~InMemory(b) /\ ~InMemory(c) /\ b.chunk = c.chunk =>
          Apart(b.off, b.size, c.off, c.size)

\* The pieces that threads are about to place are like blocks.
PiecesOK ==
    /\ \A t \in Thread : thread[t].pc = "place" =>
          /\ alloc_compute_nodes[Home[t]] < ComputeNumber
          /\ Given(MemoryNumber, thread[t].addr.chunk)
          /\ thread[t].addr.off + thread[t].size <= kChunkSize
    /\ \A t \in Thread, s \in ComputeServer :
          thread[t].pc = "place" /\ thread[t].addr.chunk = local_compute[s].chunk =>
              thread[t].addr.off + thread[t].size <= local_compute[s].off
    /\ \A t, u \in Thread :
          thread[t].pc = "place" /\ reply[u] # None /\ reply[u].node = MemoryNumber =>
              thread[t].addr.chunk # reply[u].chunk
    /\ \A t \in Thread, b \in blocks :
          thread[t].pc = "place" /\ ~InMemory(b) /\ b.chunk = thread[t].addr.chunk =>
              Apart(b.off, b.size, thread[t].addr.off, thread[t].size)
    /\ \A t, u \in Thread :
          t # u /\ thread[t].pc = "place" /\ thread[u].pc = "place"
          /\ thread[t].addr.chunk = thread[u].addr.chunk =>
              Apart(thread[t].addr.off, thread[t].size, thread[u].addr.off, thread[u].size)

ThreadsOK ==
    /\ \A n \in Server : Reserved < bitmap_tail[n]
    /\ \A t \in Thread : thread[t].pc # "idle" => thread[t].size \in Size

IInv == /\ AllocTypeOK /\ RequestsOK /\ RepliesOK /\ HeadsOK /\ MemoryBlocksOK
        /\ ComputeBlocksOK /\ PiecesOK /\ ThreadsOK
-----------------------------------------------------------------------------
(* Every step preserves it.  Zenon is the prover; a leaf that needs        *)
(* arithmetic or the fields of a changed record cites SMT.                 *)
USE Zenon

\* What the proofs use of the numbering of the servers and of Gaddr::Null.
LEMMA NoneFacts == /\ None \in Addr /\ None.chunk = 0 /\ None.off = 0
                   /\ MemoryServer \subseteq Server /\ ComputeServer \subseteq Server
                   /\ MemoryNumber \in Server /\ MemoryNumber \notin MemoryServer
                   /\ 0 \in MemoryServer /\ Server \subseteq Nat
BY ServersAssumption, SMT DEF None, Addr, Server, MemoryServer, ComputeServer, machineNR

\* The next node in turn, as memory_alloc and compute_alloc compute it.
LEMMA ModRange == ASSUME NEW n \in Nat \ {0}, NEW k \in Nat
                  PROVE  k % n \in 0..(n - 1)
BY SMT

\* Chunk 0, where Gaddr::Null points, is never given away.
LEMMA GivenFacts == ASSUME NEW n, NEW c \in Nat, Given(n, c) PROVE c # 0
BY AllocationAssumption, SMT DEF Given

\* Sizes are numbers.
LEMMA SizeFacts == Size \subseteq Nat /\ Size \cup {0} \subseteq Nat
BY AllocationAssumption, SMT

\* A step that makes no piece, no answer and no block of a compute server, and
\* moves no head of compute_alloc, leaves the pieces as they are.
LEMMA PiecesKept ==
  ASSUME PiecesOK,
         \A u \in Thread : thread'[u].pc = "place" => thread'[u] = thread[u],
         \A u \in Thread : reply'[u] # None => reply'[u] = reply[u],
         \A b \in blocks' : ~InMemory(b) => b \in blocks,
         UNCHANGED <<bitmap_tail, local_compute, alloc_compute_nodes>>
  PROVE  PiecesOK'
<1>1. \A n, c : Given(n, c)' <=> Given(n, c)
  BY DEF Given
<1>. QED  BY <1>1, SMT DEF PiecesOK, InMemory

\* A thread goes on, with another node to ask.
LEMMA TargetTyped ==
  ASSUME NEW t \in Thread, AllocTypeOK,
         NEW pc \in {"idle", "memory", "memory_wait", "compute", "compute_wait", "place"},
         NEW target \in MemoryServer
  PROVE  [thread EXCEPT ![t].pc = pc, ![t].target = target] \in [Thread -> ThreadState]
<1>1. thread \in [Thread -> ThreadState] /\ thread[t] \in ThreadState
  BY DEF AllocTypeOK
<1>2. [thread[t] EXCEPT !.pc = pc, !.target = target] \in ThreadState
  BY <1>1 DEF ThreadState
<1>3. [thread EXCEPT ![t].pc = pc, ![t].target = target] =
          [thread EXCEPT ![t] = [thread[t] EXCEPT !.pc = pc, !.target = target]]
  BY <1>1
<1>. QED  BY <1>1, <1>2, <1>3

\* A thread goes on, with another block at hand.
LEMMA AddrTyped ==
  ASSUME NEW t \in Thread, AllocTypeOK,
         NEW pc \in {"idle", "memory", "memory_wait", "compute", "compute_wait", "place"},
         NEW addr \in Addr
  PROVE  [thread EXCEPT ![t].pc = pc, ![t].addr = addr] \in [Thread -> ThreadState]
<1>1. thread \in [Thread -> ThreadState] /\ thread[t] \in ThreadState
  BY DEF AllocTypeOK
<1>2. [thread[t] EXCEPT !.pc = pc, !.addr = addr] \in ThreadState
  BY <1>1 DEF ThreadState
<1>3. [thread EXCEPT ![t].pc = pc, ![t].addr = addr] =
          [thread EXCEPT ![t] = [thread[t] EXCEPT !.pc = pc, !.addr = addr]]
  BY <1>1
<1>. QED  BY <1>1, <1>2, <1>3

\* The constructors of DMVerbs and Directory establish the invariant.
LEMMA IInitial == AllocInit => IInv
<1>. SUFFICES ASSUME AllocInit PROVE IInv
  OBVIOUS
<1>. USE NoneFacts, AllocationAssumption, ServersAssumption DEF AllocInit
<1>1. AllocTypeOK
  <2>1. NoTarget \in MemoryServer \cup {NoTarget}
    OBVIOUS
  <2>2. thread \in [Thread -> ThreadState]
    BY <2>1 DEF ThreadState
  <2>. QED  BY <2>2, SMT DEF AllocTypeOK
<1>2. RequestsOK /\ RepliesOK /\ HeadsOK /\ MemoryBlocksOK /\ ComputeBlocksOK
  BY DEF RequestsOK, RepliesOK, HeadsOK, MemoryBlocksOK, ComputeBlocksOK
<1>3. PiecesOK /\ ThreadsOK
  BY SMT DEF PiecesOK, ThreadsOK
<1>. QED  BY <1>1, <1>2, <1>3 DEF IInv

\* A call of memory_alloc or compute_alloc begins.
LEMMA CallInv == ASSUME IInv, NEW t \in Thread, Call(t) PROVE IInv'
<1>0. PICK size \in Size, pc \in {"memory", "compute"} :
        thread' = [thread EXCEPT ![t].pc = pc, ![t].size = size, ![t].calls = @ + 1]
  BY DEF Call
<1>1. thread' \in [Thread -> ThreadState]
  BY <1>0, SMT DEF IInv, AllocTypeOK, ThreadState
<1>2. /\ \A u \in Thread : u # t => thread'[u] = thread[u]
      /\ thread'[t].pc = pc /\ thread'[t].size = size
      /\ thread[t].pc = "idle"
  BY <1>0, SMT DEF IInv, AllocTypeOK, ThreadState, Call, Doing
<1>3. UNCHANGED <<bitmap_tail, requests, reply, local_memory, local_compute,
                  alloc_memory_nodes, alloc_compute_nodes, use_memory_fp,
                  alloc_lock, blocks>>
  BY DEF Call
<1>4. AllocTypeOK'
  BY <1>1, <1>3 DEF IInv, AllocTypeOK
<1>5. RequestsOK'
  BY <1>2, <1>3 DEF IInv, AllocTypeOK, RequestsOK
<1>6. RepliesOK' /\ HeadsOK' /\ MemoryBlocksOK' /\ ComputeBlocksOK'
  BY <1>2, <1>3 DEF IInv, RepliesOK, HeadsOK, MemoryBlocksOK, ComputeBlocksOK, Given
<1>7. PiecesOK'
  BY <1>2, <1>3, PiecesKept DEF IInv
<1>8. ThreadsOK'
  BY <1>2, <1>3 DEF IInv, ThreadsOK
<1>. QED  BY <1>4, <1>5, <1>6, <1>7, <1>8 DEF IInv

\* LocalAllocator::malloc gives t the block at cur, of its server's chunk or
\* of the one that has just come, and cur moves behind it: memory_alloc.
LEMMA TakeMemory ==
  ASSUME IInv, AllocTypeOK', NEW t \in Thread, NEW cur \in Addr,
         InMemory(cur), Given(cur.node, cur.chunk),
         cur.off + thread[t].size <= kChunkSize,
         thread[t].pc \in {"memory", "memory_wait"},
         \A b \in blocks : InMemory(b) /\ SameChunk(b, cur) => b.off + b.size <= cur.off,
         \A r \in ComputeServer : r # Home[t] => ~SameChunk(cur, local_memory[r]),
         \A u \in Thread : u # t /\ reply[u] # None => ~SameChunk(cur, reply[u]),
         \A m \in requests : m.from # t,
         SameChunk(local_memory'[Home[t]], cur),
         local_memory'[Home[t]].off = cur.off + thread[t].size,
         \A r \in ComputeServer : r # Home[t] => local_memory'[r] = local_memory[r],
         blocks' = blocks \cup {Block(t, cur)},
         \A u \in Thread : u # t => thread'[u] = thread[u] /\ reply'[u] = reply[u],
         thread'[t].pc = "idle", reply'[t] = None,
         UNCHANGED <<bitmap_tail, requests, local_compute, alloc_compute_nodes>>
  PROVE  IInv'
<1>. DEFINE s == Home[t]
            b == Block(t, cur)
<1>0. s \in ComputeServer
  BY AllocationAssumption
<1>1. /\ b.node = cur.node /\ b.chunk = cur.chunk /\ b.off = cur.off
      /\ b.size = thread[t].size /\ InMemory(b)
  BY DEF Block, InMemory
<1>2. /\ \A c \in blocks' : c \in blocks \/ c = b
      /\ \A n, c : Given(n, c)' <=> Given(n, c)
      /\ \A c : InMemory(c)' <=> InMemory(c)
      /\ local_compute' = local_compute
  BY DEF Given, InMemory
<1>3. /\ cur.chunk # 0 /\ cur.chunk \in Nat /\ cur.off \in Nat /\ thread[t].size \in Nat
  <2>1. cur.chunk \in Nat /\ cur.off \in Nat
    BY DEF Addr
  <2>2. thread[t].size \in Nat
    BY SizeFacts DEF IInv, AllocTypeOK, ThreadState
  <2>. QED  BY <2>1, <2>2, GivenFacts
<1>. HIDE DEF s, b
<1>4. RequestsOK'
  BY SMT DEF IInv, AllocTypeOK, RequestsOK
<1>5. RepliesOK'
  <2>1. \A u \in Thread : reply[u] # None => reply[u].chunk # 0
    BY GivenFacts DEF IInv, RepliesOK, AllocTypeOK, Addr
  <2>. QED  BY <1>2, <2>1, NoneFacts, SMT DEF IInv, RepliesOK, SameChunk
<1>6. HeadsOK'
  BY <1>0, <1>2, <1>3, SMT DEF IInv, HeadsOK, SameChunk, s, InMemory
<1>7. MemoryBlocksOK'
  <2>0. \A c \in blocks : c.off \in Nat /\ c.size \in Nat
    BY SizeFacts DEF IInv, AllocTypeOK, BlockState
  <2>1. \A c \in blocks' : InMemory(c) => Given(c.node, c.chunk) /\ c.off + c.size <= kChunkSize
    BY <1>1, <1>2 DEF IInv, MemoryBlocksOK
  <2>2. ASSUME NEW c \in blocks', NEW r \in ComputeServer, InMemory(c),
               SameChunk(c, local_memory'[r])
        PROVE  c.off + c.size <= local_memory'[r].off
    BY <1>0, <1>1, <1>2, <1>3, <2>0, <2>2, SMT DEF IInv, MemoryBlocksOK, SameChunk, s
  <2>3. \A c \in blocks', u \in Thread : InMemory(c) /\ reply'[u] # None => ~SameChunk(c, reply'[u])
    BY <1>1, <1>2, SMT DEF IInv, MemoryBlocksOK, SameChunk
  <2>4. \A c, d \in blocks' : c # d /\ InMemory(c) /\ SameChunk(c, d) =>
            Apart(c.off, c.size, d.off, d.size)
    BY <1>1, <1>2, <1>3, <2>0, SMT DEF IInv, MemoryBlocksOK, SameChunk, Apart, InMemory
  <2>. QED  BY <1>2, <2>1, <2>2, <2>3, <2>4 DEF MemoryBlocksOK, SameChunk, Apart
<1>8. ComputeBlocksOK'
  BY <1>1, <1>2, SMT DEF IInv, ComputeBlocksOK
<1>9. PiecesOK'
  <2>1. \A c \in blocks' : ~InMemory(c) => c \in blocks
    BY <1>1, <1>2
  <2>. QED  BY <2>1, PiecesKept DEF IInv
<1>10. ThreadsOK'
  BY DEF IInv, ThreadsOK
<1>. QED  BY <1>4, <1>5, <1>6, <1>7, <1>8, <1>9, <1>10 DEF IInv

\* The chunk at hand does not do: t sends a MALLOC message and waits
\* (rpc_call_dir, in memory_alloc and in compute_alloc).
LEMMA Ask ==
  ASSUME IInv, AllocTypeOK', NEW t \in Thread, NEW n \in Server,
         thread[t].pc \in {"memory", "compute"},
         requests' = requests \cup {[from |-> t, to |-> n]},
         \/ thread'[t].pc = "memory_wait" /\ n \in MemoryServer
         \/ thread'[t].pc = "compute_wait" /\ n = MemoryNumber,
         thread'[t].size = thread[t].size,
         \A u \in Thread : u # t => thread'[u] = thread[u],
         UNCHANGED <<bitmap_tail, reply, local_memory, local_compute,
                     alloc_compute_nodes, blocks>>
  PROVE  IInv'
<1>1. reply[t] = None /\ \A m \in requests : m.from # t
  BY DEF IInv, RepliesOK, RequestsOK
<1>2. RequestsOK'
  BY <1>1, SMT DEF IInv, RequestsOK, AllocTypeOK
<1>3. RepliesOK' /\ HeadsOK' /\ MemoryBlocksOK' /\ ComputeBlocksOK'
  BY <1>1 DEF IInv, RepliesOK, HeadsOK, MemoryBlocksOK, ComputeBlocksOK, Given
<1>4. PiecesOK'
  BY PiecesKept DEF IInv
<1>5. ThreadsOK'
  BY DEF IInv, ThreadsOK
<1>. QED  BY <1>2, <1>3, <1>4, <1>5 DEF IInv

\* memory_alloc up to its answer or its message.
LEMMA MemoryAllocInv == ASSUME IInv, NEW t \in Thread, MemoryAlloc(t) PROVE IInv'
<1>. DEFINE s == Home[t]
            size == thread[t].size
            cur == local_memory[s]
            target == IF thread[t].target = NoTarget THEN alloc_memory_nodes[s]
                                                     ELSE thread[t].target
<1>0. s \in ComputeServer /\ cur \in Addr /\ size \in Nat /\ target \in MemoryServer
  BY AllocationAssumption, SizeFacts DEF IInv, AllocTypeOK, ThreadState
<1>1. thread[t].pc = "memory" /\ reply[t] = None /\ \A m \in requests : m.from # t
  BY DEF IInv, RepliesOK, RequestsOK, MemoryAlloc, Doing
<1>2. UNCHANGED <<bitmap_tail, reply, local_compute, alloc_memory_nodes,
                  alloc_compute_nodes, use_memory_fp>>
  BY DEF MemoryAlloc
<1>3. CASE /\ Fits(cur, size)
           /\ local_memory' = [local_memory EXCEPT ![s] = Advance(@, size)]
           /\ blocks' = blocks \cup {Block(t, cur)}
           /\ thread' = [thread EXCEPT ![t].pc = "idle", ![t].target = target]
           /\ UNCHANGED <<requests, alloc_lock>>
  <2>1. thread' \in [Thread -> ThreadState]
    BY <1>0, <1>3, TargetTyped DEF IInv
  <2>2. Advance(cur, size) \in Addr
    BY <1>0, <1>3, SMT DEF Advance, Addr
  <2>3. Block(t, cur) \in BlockState
    BY <1>0, NoneFacts DEF IInv, AllocTypeOK, ThreadState, Addr, Block, BlockState
  <2>4. AllocTypeOK'
    BY <1>0, <1>2, <1>3, <2>1, <2>2, <2>3 DEF IInv, AllocTypeOK
  <2>5. /\ thread'[t].pc = "idle"
        /\ \A u \in Thread : u # t => thread'[u] = thread[u] /\ reply'[u] = reply[u]
    BY <1>2, <1>3 DEF IInv, AllocTypeOK, ThreadState
  <2>6. /\ local_memory'[s].node = cur.node /\ local_memory'[s].chunk = cur.chunk
        /\ local_memory'[s].off = cur.off + size
        /\ \A r \in ComputeServer : r # s => local_memory'[r] = local_memory[r]
    BY <1>0, <1>3 DEF IInv, AllocTypeOK, Advance, Addr
  <2>7. InMemory(cur) /\ Given(cur.node, cur.chunk) /\ cur.off + size <= kChunkSize
    BY <1>0, <1>3, NoneFacts DEF IInv, HeadsOK, Fits
  <2>8. cur.chunk # 0
    BY <1>3, NoneFacts DEF Fits
  <2>9. /\ \A b \in blocks : InMemory(b) /\ SameChunk(b, cur) => b.off + b.size <= cur.off
        /\ \A r \in ComputeServer : r # s => ~SameChunk(cur, local_memory[r])
        /\ \A u \in Thread : reply[u] # None => ~SameChunk(cur, reply[u])
    BY <1>0, <2>8 DEF IInv, MemoryBlocksOK, HeadsOK, SameChunk
  <2>. QED  BY <1>0, <1>1, <1>2, <1>3, <2>4, <2>5, <2>6, <2>7, <2>9, TakeMemory DEF SameChunk
<1>4. CASE /\ requests' = requests \cup {[from |-> t, to |-> target]}
           /\ alloc_lock' = alloc_lock \cup {t}
           /\ thread' = [thread EXCEPT ![t].pc = "memory_wait", ![t].target = target]
           /\ UNCHANGED <<local_memory, blocks>>
  <2>1. thread' \in [Thread -> ThreadState]
    BY <1>0, <1>4, TargetTyped DEF IInv
  <2>2. AllocTypeOK'
    BY <1>0, <1>2, <1>4, <2>1, NoneFacts, SMT DEF IInv, AllocTypeOK
  <2>3. /\ thread'[t].pc = "memory_wait" /\ thread'[t].size = size
        /\ \A u \in Thread : u # t => thread'[u] = thread[u]
    BY <1>4 DEF IInv, AllocTypeOK, ThreadState
  <2>. QED  BY <1>0, <1>1, <1>2, <1>4, <2>2, <2>3, NoneFacts, Ask
<1>. QED  BY <1>3, <1>4 DEF MemoryAlloc

\* memory_alloc with the chunk it waited for.
LEMMA MemoryChunkInv == ASSUME IInv, NEW t \in Thread, MemoryChunk(t) PROVE IInv'
<1>. DEFINE s == Home[t]
            size == thread[t].size
            cur == reply[t]
            next == (alloc_memory_nodes[s] + 1) % MemoryNumber
<1>0. s \in ComputeServer /\ cur \in Addr /\ size \in Size /\ size \in Nat
  BY AllocationAssumption, SizeFacts
  DEF IInv, AllocTypeOK, ThreadState, ThreadsOK, MemoryChunk, Doing
<1>1. next \in MemoryServer
  <2>1. alloc_memory_nodes[s] + 1 \in Nat
    BY <1>0, SMT DEF IInv, AllocTypeOK, MemoryServer
  <2>. QED  BY <2>1, ModRange, ServersAssumption DEF MemoryServer
<1>. HIDE DEF next
<1>2. /\ thread[t].pc = "memory_wait" /\ reply[t] # None
      /\ local_memory' = [local_memory EXCEPT ![s] = Advance(cur, size)]
      /\ blocks' = blocks \cup {Block(t, cur)}
      /\ alloc_memory_nodes' = [alloc_memory_nodes EXCEPT ![s] = next]
      /\ thread' = [thread EXCEPT ![t].pc = "idle", ![t].target = next]
      /\ reply' = [reply EXCEPT ![t] = None]
      /\ alloc_lock' = alloc_lock \ {t}
      /\ UNCHANGED <<bitmap_tail, requests, local_compute, alloc_compute_nodes,
                     use_memory_fp>>
  BY DEF MemoryChunk, Doing, next
<1>3. InMemory(cur) /\ Given(cur.node, cur.chunk) /\ cur.off = 0
  BY <1>2 DEF IInv, RepliesOK
<1>4. Fits(cur, size)
  <2>1. cur.chunk # 0
    BY <1>0, <1>3, GivenFacts DEF Addr
  <2>. QED  BY <1>0, <1>3, <2>1, AllocationAssumption, NoneFacts, SMT DEF Fits
<1>5. thread' \in [Thread -> ThreadState]
  BY <1>1, <1>2, TargetTyped DEF IInv
<1>6. Advance(cur, size) \in Addr
  BY <1>0, <1>4, SMT DEF Advance, Addr
<1>7. Block(t, cur) \in BlockState
  BY <1>0, NoneFacts DEF IInv, AllocTypeOK, ThreadState, Addr, Block, BlockState
<1>8. AllocTypeOK'
  BY <1>0, <1>1, <1>2, <1>5, <1>6, <1>7, NoneFacts DEF IInv, AllocTypeOK
<1>9. /\ thread'[t].pc = "idle" /\ reply'[t] = None
      /\ \A u \in Thread : u # t => thread'[u] = thread[u] /\ reply'[u] = reply[u]
  BY <1>2 DEF IInv, AllocTypeOK, ThreadState
<1>10. /\ local_memory'[s].node = cur.node /\ local_memory'[s].chunk = cur.chunk
       /\ local_memory'[s].off = cur.off + size
       /\ \A r \in ComputeServer : r # s => local_memory'[r] = local_memory[r]
  BY <1>0, <1>2, <1>4 DEF IInv, AllocTypeOK, Advance, Addr
<1>11. /\ \A b \in blocks : InMemory(b) => ~SameChunk(b, cur)
       /\ \A r \in ComputeServer : ~SameChunk(cur, local_memory[r])
       /\ \A u \in Thread : u # t => ~SameChunk(cur, reply[u])
       /\ \A m \in requests : m.from # t
  BY <1>2 DEF IInv, MemoryBlocksOK, HeadsOK, RepliesOK, RequestsOK
<1>12. cur.off + size <= kChunkSize
  BY <1>4 DEF Fits
<1>. QED  BY <1>0, <1>2, <1>3, <1>8, <1>9, <1>10, <1>11, <1>12, TakeMemory DEF SameChunk
\* The same in compute_alloc: the piece at cur is t's to place.
LEMMA TakeCompute ==
  ASSUME IInv, AllocTypeOK', NEW t \in Thread, NEW cur \in Addr,
         cur.node = MemoryNumber, Given(MemoryNumber, cur.chunk),
         cur.off + thread[t].size <= kChunkSize,
         thread[t].pc \in {"compute", "compute_wait"},
         \A b \in blocks : ~InMemory(b) /\ b.chunk = cur.chunk => b.off + b.size <= cur.off,
         \A u \in Thread : thread[u].pc = "place" /\ thread[u].addr.chunk = cur.chunk =>
                               thread[u].addr.off + thread[u].size <= cur.off,
         \A r \in ComputeServer : r # Home[t] => cur.chunk # local_compute[r].chunk,
         \A u \in Thread : u # t /\ reply[u] # None => ~SameChunk(cur, reply[u]),
         \A m \in requests : m.from # t,
         SameChunk(local_compute'[Home[t]], cur),
         local_compute'[Home[t]].off = cur.off + thread[t].size,
         alloc_compute_nodes'[Home[t]] < ComputeNumber,
         \A r \in ComputeServer : r # Home[t] =>
             /\ local_compute'[r] = local_compute[r]
             /\ alloc_compute_nodes'[r] = alloc_compute_nodes[r],
         \A u \in Thread : u # t => thread'[u] = thread[u] /\ reply'[u] = reply[u],
         thread'[t].pc = "place", thread'[t].size = thread[t].size,
         thread'[t].addr = cur, reply'[t] = None,
         UNCHANGED <<bitmap_tail, requests, local_memory, blocks>>
  PROVE  IInv'
<1>. DEFINE s == Home[t]
<1>0. s \in ComputeServer /\ \A u \in Thread : Home[u] \in ComputeServer
  BY AllocationAssumption
<1>1. \A n, c : Given(n, c)' <=> Given(n, c)
  BY DEF Given
<1>2. cur.chunk # 0 /\ cur.chunk \in Nat /\ cur.off \in Nat /\ thread[t].size \in Nat
  <2>1. cur.chunk \in Nat /\ cur.off \in Nat
    BY DEF Addr
  <2>2. thread[t].size \in Nat
    BY SizeFacts DEF IInv, AllocTypeOK, ThreadState
  <2>. QED  BY <2>1, <2>2, GivenFacts
<1>3. /\ \A u \in Thread : reply[u] # None => reply[u].chunk # 0
      /\ reply'[t].chunk = 0
  BY GivenFacts, NoneFacts DEF IInv, RepliesOK, AllocTypeOK, Addr
<1>4. /\ \A b \in blocks : b.off \in Nat /\ b.size \in Nat
      /\ \A u \in Thread : thread[u].addr.off \in Nat /\ thread[u].size \in Nat
  BY SizeFacts DEF IInv, AllocTypeOK, BlockState, ThreadState, Addr
<1>. HIDE DEF s
<1>5. RequestsOK'
  BY SMT DEF IInv, AllocTypeOK, RequestsOK
<1>6. RepliesOK'
  BY <1>1, <1>3, SMT DEF IInv, RepliesOK, SameChunk
<1>7. HeadsOK'
  <2>1. \A r \in ComputeServer : local_compute'[r].chunk # 0 =>
          /\ Given(MemoryNumber, local_compute'[r].chunk)
          /\ local_compute'[r].node = MemoryNumber
          /\ alloc_compute_nodes'[r] < ComputeNumber
    BY <1>0, SMT DEF IInv, HeadsOK, SameChunk, s
  <2>2. \A q, r \in ComputeServer : q # r /\ local_compute'[q].chunk # 0 =>
          local_compute'[q].chunk # local_compute'[r].chunk
    BY <1>0, <1>2, SMT DEF IInv, HeadsOK, SameChunk, s
  <2>3. \A r \in ComputeServer, u \in Thread : reply'[u] # None =>
          /\ ~SameChunk(reply'[u], local_memory[r])
          /\ ~SameChunk(reply'[u], local_compute'[r])
    BY <1>0, SMT DEF IInv, HeadsOK, SameChunk, s
  <2>. QED  BY <1>1, <2>1, <2>2, <2>3, SMT DEF IInv, HeadsOK, SameChunk
<1>8. MemoryBlocksOK'
  BY <1>1, SMT DEF IInv, MemoryBlocksOK, SameChunk
<1>9. ComputeBlocksOK'
  <2>1. ASSUME NEW b \in blocks, NEW r \in ComputeServer, ~InMemory(b),
               b.chunk = local_compute'[r].chunk
        PROVE  b.off + b.size <= local_compute'[r].off
    BY <1>0, <1>2, <1>4, <2>1, SMT DEF IInv, ComputeBlocksOK, SameChunk, s
  <2>. QED  BY <1>1, <2>1, SMT DEF IInv, ComputeBlocksOK
<1>10. PiecesOK'
  <2>1. \A u \in Thread : thread'[u].pc = "place" =>
          /\ alloc_compute_nodes'[Home[u]] < ComputeNumber
          /\ Given(MemoryNumber, thread'[u].addr.chunk)
          /\ thread'[u].addr.off + thread'[u].size <= kChunkSize
    BY <1>0 DEF IInv, PiecesOK, s
  <2>2. ASSUME NEW u \in Thread, NEW r \in ComputeServer, thread'[u].pc = "place",
               thread'[u].addr.chunk = local_compute'[r].chunk
        PROVE  thread'[u].addr.off + thread'[u].size <= local_compute'[r].off
    BY <1>0, <1>2, <1>4, <2>2, SMT DEF IInv, PiecesOK, SameChunk, s
  <2>3. \A u, v \in Thread :
          thread'[u].pc = "place" /\ reply'[v] # None /\ reply'[v].node = MemoryNumber =>
              thread'[u].addr.chunk # reply'[v].chunk
    BY SMT DEF IInv, PiecesOK, SameChunk
  <2>4. \A u \in Thread, b \in blocks :
          thread'[u].pc = "place" /\ ~InMemory(b) /\ b.chunk = thread'[u].addr.chunk =>
              Apart(b.off, b.size, thread'[u].addr.off, thread'[u].size)
    BY SMT DEF IInv, PiecesOK, Apart
  <2>5. \A u, v \in Thread :
          u # v /\ thread'[u].pc = "place" /\ thread'[v].pc = "place"
          /\ thread'[u].addr.chunk = thread'[v].addr.chunk =>
              Apart(thread'[u].addr.off, thread'[u].size, thread'[v].addr.off, thread'[v].size)
    BY SMT DEF IInv, PiecesOK, Apart
  <2>. QED  BY <1>1, <2>1, <2>2, <2>3, <2>4, <2>5 DEF PiecesOK, Apart, InMemory
<1>11. ThreadsOK'
  BY DEF IInv, ThreadsOK
<1>. QED  BY <1>5, <1>6, <1>7, <1>8, <1>9, <1>10, <1>11 DEF IInv

\* compute_alloc up to its piece, its message or the call of memory_alloc.
LEMMA ComputeAllocInv == ASSUME IInv, NEW t \in Thread, ComputeAlloc(t) PROVE IInv'
<1>. DEFINE s == Home[t]
            size == thread[t].size
            cur == local_compute[s]
<1>0. s \in ComputeServer /\ cur \in Addr /\ size \in Nat
  BY AllocationAssumption, SizeFacts DEF IInv, AllocTypeOK, ThreadState
<1>1. thread[t].pc = "compute" /\ reply[t] = None /\ \A m \in requests : m.from # t
  BY DEF IInv, RepliesOK, RequestsOK, ComputeAlloc, Doing
<1>2. UNCHANGED <<bitmap_tail, reply, local_memory, alloc_memory_nodes,
                  alloc_compute_nodes, use_memory_fp, blocks>>
  BY DEF ComputeAlloc
<1>3. CASE /\ thread' = [thread EXCEPT ![t].pc = "memory"]
           /\ UNCHANGED <<local_compute, requests, alloc_lock>>
  <2>1. thread' \in [Thread -> ThreadState]
    BY <1>3 DEF IInv, AllocTypeOK, ThreadState
  <2>2. /\ \A u \in Thread : u # t => thread'[u] = thread[u]
        /\ thread'[t].pc = "memory" /\ thread'[t].size = size
    BY <1>3 DEF IInv, AllocTypeOK, ThreadState
  <2>3. AllocTypeOK'
    BY <1>2, <1>3, <2>1 DEF IInv, AllocTypeOK
  <2>4. RequestsOK'
    BY <1>1, <1>2, <1>3, <2>2 DEF IInv, AllocTypeOK, RequestsOK
  <2>5. RepliesOK' /\ HeadsOK' /\ MemoryBlocksOK' /\ ComputeBlocksOK'
    <3>1. RepliesOK' /\ HeadsOK'
      BY <1>1, <1>2, <1>3, <2>2 DEF IInv, RepliesOK, HeadsOK, Given
    <3>2. MemoryBlocksOK' /\ ComputeBlocksOK'
      BY <1>1, <1>2, <1>3, <2>2 DEF IInv, MemoryBlocksOK, ComputeBlocksOK, Given
    <3>. QED  BY <3>1, <3>2
  <2>6. PiecesOK' /\ ThreadsOK'
    BY <1>1, <1>2, <1>3, <2>2, SMT DEF IInv, PiecesOK, ThreadsOK, Given
  <2>. QED  BY <2>3, <2>4, <2>5, <2>6 DEF IInv
<1>4. CASE /\ Fits(cur, size)
           /\ local_compute' = [local_compute EXCEPT ![s] = Advance(@, size)]
           /\ thread' = [thread EXCEPT ![t].pc = "place", ![t].addr = cur]
           /\ UNCHANGED <<requests, alloc_lock>>
  <2>1. thread' \in [Thread -> ThreadState]
    BY <1>0, <1>4, AddrTyped DEF IInv
  <2>2. Advance(cur, size) \in Addr
    BY <1>0, <1>4, SMT DEF Advance, Addr
  <2>3. AllocTypeOK'
    BY <1>0, <1>2, <1>4, <2>1, <2>2 DEF IInv, AllocTypeOK
  <2>4. /\ thread'[t].pc = "place" /\ thread'[t].size = size /\ thread'[t].addr = cur
        /\ \A u \in Thread : u # t => thread'[u] = thread[u] /\ reply'[u] = reply[u]
    BY <1>2, <1>4 DEF IInv, AllocTypeOK, ThreadState
  <2>5. /\ local_compute'[s].node = cur.node /\ local_compute'[s].chunk = cur.chunk
        /\ local_compute'[s].off = cur.off + size
        /\ \A r \in ComputeServer : r # s => local_compute'[r] = local_compute[r]
    BY <1>0, <1>4 DEF IInv, AllocTypeOK, Advance, Addr
  <2>6. cur.chunk # 0 /\ cur.off + size <= kChunkSize
    BY <1>4, NoneFacts DEF Fits
  <2>7. /\ cur.node = MemoryNumber /\ Given(MemoryNumber, cur.chunk)
        /\ alloc_compute_nodes[s] < ComputeNumber
    BY <1>0, <2>6 DEF IInv, HeadsOK
  <2>8. /\ \A b \in blocks : ~InMemory(b) /\ b.chunk = cur.chunk => b.off + b.size <= cur.off
        /\ \A u \in Thread : thread[u].pc = "place" /\ thread[u].addr.chunk = cur.chunk =>
                               thread[u].addr.off + thread[u].size <= cur.off
        /\ \A r \in ComputeServer : r # s => cur.chunk # local_compute[r].chunk
        /\ \A u \in Thread : reply[u] # None => ~SameChunk(cur, reply[u])
    BY <1>0, <2>6 DEF IInv, ComputeBlocksOK, PiecesOK, HeadsOK, SameChunk
  <2>. QED  BY <1>0, <1>1, <1>2, <1>4, <2>3, <2>4, <2>5, <2>6, <2>7, <2>8, TakeCompute
            DEF SameChunk
<1>5. CASE /\ requests' = requests \cup {[from |-> t, to |-> MemoryNumber]}
           /\ alloc_lock' = alloc_lock \cup {t}
           /\ thread' = [thread EXCEPT ![t].pc = "compute_wait"]
           /\ UNCHANGED local_compute
  <2>1. thread' \in [Thread -> ThreadState]
    BY <1>5 DEF IInv, AllocTypeOK, ThreadState
  <2>2. AllocTypeOK'
    BY <1>0, <1>2, <1>5, <2>1, NoneFacts, SMT DEF IInv, AllocTypeOK
  <2>3. /\ thread'[t].pc = "compute_wait" /\ thread'[t].size = size
        /\ \A u \in Thread : u # t => thread'[u] = thread[u]
    BY <1>5 DEF IInv, AllocTypeOK, ThreadState
  <2>. QED  BY <1>0, <1>1, <1>2, <1>5, <2>2, <2>3, NoneFacts, Ask
<1>. QED  BY <1>3, <1>4, <1>5 DEF ComputeAlloc

\* compute_alloc with the chunk it waited for; the node goes on in turn.
LEMMA ComputeChunkInv == ASSUME IInv, NEW t \in Thread, ComputeChunk(t) PROVE IInv'
<1>. DEFINE s == Home[t]
            size == thread[t].size
            cur == reply[t]
            next == (alloc_compute_nodes[s] + 1) % ComputeNumber
<1>0. s \in ComputeServer /\ cur \in Addr /\ size \in Size /\ size \in Nat
  BY AllocationAssumption, SizeFacts
  DEF IInv, AllocTypeOK, ThreadState, ThreadsOK, ComputeChunk, Doing
<1>1. next \in Server /\ next < ComputeNumber
  <2>1. alloc_compute_nodes[s] + 1 \in Nat
    BY <1>0, SMT DEF IInv, AllocTypeOK, Server
  <2>2. next \in 0..(ComputeNumber - 1)
    BY <2>1, ModRange, ServersAssumption
  <2>. HIDE DEF next
  <2>. QED  BY <2>2, ServersAssumption, SMT DEF Server, machineNR
<1>2. /\ thread[t].pc = "compute_wait" /\ reply[t] # None
      /\ local_compute' = [local_compute EXCEPT ![s] = Advance(cur, size)]
      /\ alloc_compute_nodes' = [alloc_compute_nodes EXCEPT ![s] = next]
      /\ thread' = [thread EXCEPT ![t].pc = "place", ![t].addr = cur]
      /\ reply' = [reply EXCEPT ![t] = None]
      /\ alloc_lock' = alloc_lock \ {t}
      /\ UNCHANGED <<bitmap_tail, requests, local_memory, alloc_memory_nodes,
                     use_memory_fp, blocks>>
  BY DEF ComputeChunk, Doing
<1>. HIDE DEF next
<1>3. cur.node = MemoryNumber /\ Given(MemoryNumber, cur.chunk) /\ cur.off = 0
  BY <1>2 DEF IInv, RepliesOK
<1>4. Fits(cur, size)
  <2>1. cur.chunk # 0
    BY <1>0, <1>3, GivenFacts DEF Addr
  <2>. QED  BY <1>0, <1>3, <2>1, AllocationAssumption, NoneFacts, SMT DEF Fits
<1>5. thread' \in [Thread -> ThreadState]
  BY <1>0, <1>2, AddrTyped DEF IInv
<1>6. Advance(cur, size) \in Addr
  BY <1>0, <1>4, SMT DEF Advance, Addr
<1>7. AllocTypeOK'
  BY <1>0, <1>1, <1>2, <1>5, <1>6, NoneFacts DEF IInv, AllocTypeOK
<1>8. /\ thread'[t].pc = "place" /\ thread'[t].size = size /\ thread'[t].addr = cur
      /\ reply'[t] = None
      /\ \A u \in Thread : u # t => thread'[u] = thread[u] /\ reply'[u] = reply[u]
  BY <1>2 DEF IInv, AllocTypeOK, ThreadState
<1>9. /\ local_compute'[s].node = cur.node /\ local_compute'[s].chunk = cur.chunk
      /\ local_compute'[s].off = cur.off + size /\ alloc_compute_nodes'[s] = next
      /\ \A r \in ComputeServer : r # s =>
            /\ local_compute'[r] = local_compute[r]
            /\ alloc_compute_nodes'[r] = alloc_compute_nodes[r]
  BY <1>0, <1>2, <1>4 DEF IInv, AllocTypeOK, Advance, Addr
<1>10. /\ \A b \in blocks : ~InMemory(b) => b.chunk # cur.chunk
       /\ \A u \in Thread : thread[u].pc = "place" => thread[u].addr.chunk # cur.chunk
       /\ \A u \in Thread : u # t => ~SameChunk(cur, reply[u])
       /\ \A m \in requests : m.from # t
  BY <1>2, <1>3 DEF IInv, ComputeBlocksOK, PiecesOK, RepliesOK, RequestsOK
<1>11. \A r \in ComputeServer : cur.chunk # local_compute[r].chunk
  BY <1>0, <1>2, <1>3, GivenFacts DEF IInv, HeadsOK, SameChunk, Addr
<1>12. cur.off + size <= kChunkSize
  BY <1>4 DEF Fits
<1>13. /\ \A b \in blocks : ~InMemory(b) /\ b.chunk = cur.chunk => b.off + b.size <= cur.off
       /\ \A u \in Thread : thread[u].pc = "place" /\ thread[u].addr.chunk = cur.chunk =>
                               thread[u].addr.off + thread[u].size <= cur.off
       /\ SameChunk(local_compute'[s], cur)
       /\ alloc_compute_nodes'[s] < ComputeNumber
  BY <1>1, <1>9, <1>10 DEF SameChunk
<1>. QED
  BY <1>0, <1>2, <1>3, <1>7, <1>8, <1>9, <1>10, <1>11, <1>12, <1>13, TakeCompute

\* compute_alloc without the lock: the piece becomes a block of the node that
\* alloc_compute_nodes names by then, or is given up.
LEMMA PlaceInv == ASSUME IInv, NEW t \in Thread, Place(t) PROVE IInv'
<1>. DEFINE s == Home[t]
            addr == [thread[t].addr EXCEPT !.node = alloc_compute_nodes[s] + MemoryNumber]
            b == Block(t, addr)
<1>0. /\ s \in ComputeServer /\ thread[t].addr \in Addr /\ thread[t].size \in Nat
      /\ alloc_compute_nodes[s] \in Nat
  BY AllocationAssumption, SizeFacts, NoneFacts DEF IInv, AllocTypeOK, ThreadState
<1>1. thread[t].pc = "place" /\ reply[t] = None /\ \A m \in requests : m.from # t
  BY DEF IInv, RepliesOK, RequestsOK, Place, Doing
<1>2. UNCHANGED <<bitmap_tail, requests, reply, local_memory, local_compute,
                  alloc_memory_nodes, alloc_compute_nodes, alloc_lock>>
  BY DEF Place
<1>3. PICK pc \in {"memory", "idle"} :
        thread' = [thread EXCEPT ![t].pc = pc, ![t].addr = None]
  BY DEF Place
<1>4. thread' \in [Thread -> ThreadState]
  BY <1>3, NoneFacts, AddrTyped DEF IInv
<1>5. /\ \A u \in Thread : u # t => thread'[u] = thread[u]
      /\ thread'[t].pc = pc /\ thread'[t].size = thread[t].size
  BY <1>3 DEF IInv, AllocTypeOK, ThreadState
<1>6. RequestsOK'
  BY <1>1, <1>2, <1>5 DEF IInv, AllocTypeOK, RequestsOK
<1>7. RepliesOK' /\ HeadsOK'
  BY <1>1, <1>2, <1>5 DEF IInv, RepliesOK, HeadsOK, Given
<1>8. ThreadsOK'
  BY <1>1, <1>2, <1>5 DEF IInv, ThreadsOK
<1>9. use_memory_fp' \in [ComputeServer -> BOOLEAN]
  BY DEF IInv, AllocTypeOK, Place
<1>10. CASE UNCHANGED blocks
  <2>1. AllocTypeOK'
    BY <1>2, <1>4, <1>9, <1>10 DEF IInv, AllocTypeOK
  <2>2. MemoryBlocksOK' /\ ComputeBlocksOK'
    BY <1>1, <1>2, <1>5, <1>10 DEF IInv, MemoryBlocksOK, ComputeBlocksOK, Given
  <2>3. PiecesOK'
    BY <1>1, <1>2, <1>5, <1>10, PiecesKept DEF IInv
  <2>. QED  BY <1>6, <1>7, <1>8, <2>1, <2>2, <2>3 DEF IInv
<1>11. CASE Offset(addr) < CacheLimit /\ blocks' = blocks \cup {b}
  <2>1. /\ b.node = alloc_compute_nodes[s] + MemoryNumber /\ b.chunk = thread[t].addr.chunk
        /\ b.off = thread[t].addr.off /\ b.size = thread[t].size
        /\ addr.chunk = b.chunk /\ addr.off = b.off
    BY <1>0 DEF Block, Addr
  <2>2. b \in BlockState
    <3>1. alloc_compute_nodes[s] + MemoryNumber \in Nat
      BY <1>0, ServersAssumption, SMT
    <3>. QED
      BY <1>0, <3>1 DEF IInv, AllocTypeOK, ThreadState, Addr, Block, BlockState
  <2>3. AllocTypeOK'
    BY <1>2, <1>4, <1>9, <1>11, <2>2 DEF IInv, AllocTypeOK
  <2>4. /\ b.node \in Server /\ ~InMemory(b) /\ Given(MemoryNumber, b.chunk)
        /\ b.off + b.size <= kChunkSize /\ Offset(b) < CacheLimit
    <3>1. /\ alloc_compute_nodes[s] < ComputeNumber /\ Given(MemoryNumber, b.chunk)
          /\ b.off + b.size <= kChunkSize
      BY <1>0, <1>1, <2>1 DEF IInv, PiecesOK
    <3>2. b.node \in Server /\ ~InMemory(b)
      BY <1>0, <2>1, <3>1, ServersAssumption, SMT DEF InMemory, Server, MemoryServer, machineNR
    <3>3. Offset(b) < CacheLimit
      BY <1>11, <2>1 DEF Offset
    <3>. QED  BY <3>1, <3>2, <3>3
  <2>. HIDE DEF b, addr, s
  <2>5. /\ \A c \in blocks' : c \in blocks \/ c = b
        /\ \A n, c : Given(n, c)' <=> Given(n, c)
        /\ \A c : InMemory(c)' <=> InMemory(c)
    BY <1>2, <1>11 DEF Given, InMemory
  <2>6. MemoryBlocksOK'
    BY <1>2, <2>4, <2>5 DEF IInv, MemoryBlocksOK, SameChunk, InMemory
  <2>7. ComputeBlocksOK'
    <3>1. \A c \in blocks', u \in Thread :
            ~InMemory(c) /\ reply[u] # None /\ reply[u].node = MemoryNumber =>
                c.chunk # reply[u].chunk
      BY <1>1, <2>1, <2>5 DEF IInv, ComputeBlocksOK, PiecesOK
    <3>2. \A c \in blocks', r \in ComputeServer :
            ~InMemory(c) /\ c.chunk = local_compute[r].chunk =>
                c.off + c.size <= local_compute[r].off
      BY <1>1, <2>1, <2>5 DEF IInv, ComputeBlocksOK, PiecesOK
    <3>3. \A c \in blocks : ~InMemory(c) /\ c.chunk = b.chunk =>
            Apart(c.off, c.size, b.off, b.size) /\ Apart(b.off, b.size, c.off, c.size)
      BY <1>1, <2>1 DEF IInv, PiecesOK, Apart
    <3>4. \A c, d \in blocks' : c # d /\ ~InMemory(c) /\ ~InMemory(d) /\ c.chunk = d.chunk =>
            Apart(c.off, c.size, d.off, d.size)
      BY <2>5, <3>3 DEF IInv, ComputeBlocksOK
    <3>5. \A c \in blocks' : ~InMemory(c) =>
            /\ c.node \in Server /\ Given(MemoryNumber, c.chunk)
            /\ c.off + c.size <= kChunkSize /\ Offset(c) < CacheLimit
      BY <2>4, <2>5 DEF IInv, ComputeBlocksOK
    <3>. QED
      BY <1>2, <2>5, <3>1, <3>2, <3>4, <3>5 DEF ComputeBlocksOK, Apart, Offset
  <2>8. PiecesOK'
    <3>1. \A u \in Thread, c \in blocks' :
            thread'[u].pc = "place" /\ ~InMemory(c) /\ c.chunk = thread'[u].addr.chunk =>
                Apart(c.off, c.size, thread'[u].addr.off, thread'[u].size)
      <4>. SUFFICES ASSUME NEW u \in Thread, NEW c \in blocks', thread'[u].pc = "place",
                           ~InMemory(c), c.chunk = thread'[u].addr.chunk
                    PROVE  Apart(c.off, c.size, thread'[u].addr.off, thread'[u].size)
        OBVIOUS
      <4>1. u # t /\ thread'[u] = thread[u]
        BY <1>5
      <4>2. CASE c \in blocks
        BY <4>1, <4>2 DEF IInv, PiecesOK
      <4>3. CASE c = b
        BY <1>1, <2>1, <4>1, <4>3 DEF IInv, PiecesOK
      <4>. QED  BY <2>5, <4>2, <4>3
    <3>. QED  BY <1>1, <1>2, <1>5, <2>5, <3>1, SMT DEF IInv, PiecesOK, Apart
  <2>. QED  BY <1>6, <1>7, <1>8, <2>3, <2>6, <2>7, <2>8 DEF IInv
<1>. QED  BY <1>10, <1>11 DEF Place

\* A directory gives a chunk away, which nobody has had before.
LEMMA ServeInv == ASSUME IInv, NEW n \in Server, Serve(n) PROVE IInv'
<1>0. PICK m \in requests :
        /\ m.to = n /\ requests' = requests \ {m}
        /\ reply' = [reply EXCEPT ![m.from] =
                        [node |-> n, chunk |-> bitmap_tail[n], off |-> 0]]
  BY DEF Serve
<1>. DEFINE t == m.from
<1>. PICK c \in Nat : c = bitmap_tail[n]
  BY DEF IInv, AllocTypeOK
<1>1. t \in Thread /\ c \in Nat /\ Reserved < c /\ c < Chunks /\ c # 0
  BY AllocationAssumption, SMT DEF IInv, AllocTypeOK, ThreadsOK, Serve
<1>2. /\ bitmap_tail' = [bitmap_tail EXCEPT ![n] = @ + 1]
      /\ UNCHANGED <<local_memory, local_compute, alloc_memory_nodes,
                     alloc_compute_nodes, use_memory_fp, alloc_lock, thread, blocks>>
  BY DEF Serve
<1>3. [node |-> n, chunk |-> c, off |-> 0] \in Addr
  BY <1>1 DEF Addr
<1>4. AllocTypeOK'
  BY <1>0, <1>1, <1>2, <1>3, SMT DEF IInv, AllocTypeOK
<1>5. /\ reply'[t].node = n /\ reply'[t].chunk = c /\ reply'[t].off = 0
      /\ \A u \in Thread : u # t => reply'[u] = reply[u]
  BY <1>0, <1>1 DEF IInv, AllocTypeOK
<1>6. reply[t] = None /\ \A r \in requests' : r \in requests /\ r.from # t
  BY <1>0 DEF IInv, RequestsOK
<1>7. \/ thread[t].pc = "memory_wait" /\ n \in MemoryServer
      \/ thread[t].pc = "compute_wait" /\ n = MemoryNumber
  BY <1>0 DEF IInv, RequestsOK
<1>. HIDE DEF t
<1>8. /\ \A k \in Server, d \in Nat : Given(k, d) => Given(k, d)'
      /\ Given(n, c)'
      /\ \A d \in Nat : Given(n, d) => d # c
  BY <1>1, <1>2, AllocationAssumption, SMT DEF Given, IInv, AllocTypeOK
<1>9. RequestsOK'
  BY <1>2, <1>5, <1>6 DEF IInv, AllocTypeOK, RequestsOK
<1>10. /\ \A u \in Thread : reply[u] # None =>
              Given(reply[u].node, reply[u].chunk) /\ reply[u].node \in Server
                  /\ reply[u].chunk \in Nat
       /\ None.chunk = 0
  BY NoneFacts DEF IInv, RepliesOK, AllocTypeOK, Addr
<1>11. \A u \in Thread : u # t => ~SameChunk(reply'[t], reply[u])
  BY <1>1, <1>5, <1>8, <1>10 DEF SameChunk
<1>12. RepliesOK'
  <2>1. ASSUME NEW u \in Thread, reply'[u] # None
        PROVE  /\ Given(reply[u].node, reply[u].chunk)' /\ reply'[u].off = 0
               /\ \/ thread[u].pc = "memory_wait" /\ InMemory(reply'[u])
                  \/ thread[u].pc = "compute_wait" /\ reply'[u].node = MemoryNumber
    <3>1. CASE u = t
      BY <1>5, <1>7, <1>8, <3>1 DEF InMemory, Given
    <3>2. CASE u # t
      <4>1. reply'[u] = reply[u] /\ reply[u] # None
        BY <1>5, <2>1, <3>2
      <4>2. Given(reply[u].node, reply[u].chunk)'
        BY <1>8, <1>10, <4>1 DEF Given
      <4>. QED  BY <4>1, <4>2 DEF IInv, RepliesOK
    <3>. QED  BY <3>1, <3>2
  <2>2. ASSUME NEW u \in Thread, NEW v \in Thread, u # v, reply'[u] # None
        PROVE  ~SameChunk(reply'[u], reply'[v])
    <3>1. CASE u = t
      BY <1>5, <1>11, <2>2, <3>1
    <3>2. CASE v = t
      BY <1>5, <1>11, <2>2, <3>2 DEF SameChunk
    <3>3. CASE u # t /\ v # t
      BY <1>5, <2>2, <3>3 DEF IInv, RepliesOK
    <3>. QED  BY <3>1, <3>2, <3>3
  <2>. QED  BY <1>2, <2>1, <2>2 DEF RepliesOK, InMemory, SameChunk
<1>13. HeadsOK'
  <2>1. \A s \in ComputeServer :
          /\ local_memory[s].chunk \in Nat /\ local_memory[s].node \in Server
          /\ local_compute[s].chunk \in Nat
    BY DEF IInv, AllocTypeOK, Addr
  <2>2. \A s \in ComputeServer : ~SameChunk(reply'[t], local_memory[s])
    BY <1>1, <1>5, <1>8, <2>1 DEF IInv, HeadsOK, SameChunk
  <2>3. \A s \in ComputeServer : ~SameChunk(reply'[t], local_compute[s])
    <3>. SUFFICES ASSUME NEW s \in ComputeServer, SameChunk(reply'[t], local_compute[s])
                  PROVE  FALSE
      OBVIOUS
    <3>1. local_compute[s].chunk = c /\ local_compute[s].node = n
      BY <1>5 DEF SameChunk
    <3>2. Given(MemoryNumber, local_compute[s].chunk) /\ local_compute[s].node = MemoryNumber
      BY <1>1, <3>1 DEF IInv, HeadsOK
    <3>. QED  BY <1>1, <1>8, <3>1, <3>2
  <2>4. \A s \in ComputeServer, u \in Thread : reply'[u] # None =>
          /\ ~SameChunk(reply'[u], local_memory[s])
          /\ ~SameChunk(reply'[u], local_compute[s])
    BY <1>5, <2>2, <2>3 DEF IInv, HeadsOK
  <2>. QED  BY <1>2, <1>8, <2>1, <2>4, NoneFacts DEF IInv, HeadsOK, SameChunk
<1>14. \A b \in blocks : b.chunk \in Nat
  BY DEF IInv, AllocTypeOK, BlockState
<1>15. MemoryBlocksOK'
  <2>1. \A b \in blocks : InMemory(b) => b.node \in Server /\ Given(b.node, b.chunk)
    BY NoneFacts DEF IInv, MemoryBlocksOK, InMemory
  <2>2. \A b \in blocks : InMemory(b) => ~SameChunk(b, reply'[t])
    BY <1>5, <1>8, <1>14, <2>1 DEF SameChunk
  <2>3. \A b \in blocks, u \in Thread : InMemory(b) /\ reply'[u] # None =>
          ~SameChunk(b, reply'[u])
    BY <1>5, <2>2 DEF IInv, MemoryBlocksOK
  <2>4. \A b \in blocks : InMemory(b) => Given(b.node, b.chunk)'
    BY <1>8, <1>14, <2>1
  <2>. QED
    BY <1>2, <2>3, <2>4 DEF IInv, MemoryBlocksOK, SameChunk, InMemory, Apart
<1>16. ComputeBlocksOK'
  <2>1. \A b \in blocks : ~InMemory(b) /\ n = MemoryNumber => b.chunk # c
    BY <1>8, <1>14 DEF IInv, ComputeBlocksOK
  <2>. QED
    BY <1>2, <1>5, <1>8, <1>14, <2>1, NoneFacts, SMT DEF IInv, ComputeBlocksOK
<1>17. PiecesOK'
  <2>1. \A u \in Thread : thread[u].addr.chunk \in Nat
    BY DEF IInv, AllocTypeOK, ThreadState, Addr
  <2>2. \A u \in Thread : thread[u].pc = "place" /\ n = MemoryNumber =>
            thread[u].addr.chunk # c
    BY <1>8, <2>1 DEF IInv, PiecesOK
  <2>3. \A u \in Thread : thread[u].pc = "place" => Given(MemoryNumber, thread[u].addr.chunk)'
    <3>1. \A u \in Thread : thread[u].pc = "place" => Given(MemoryNumber, thread[u].addr.chunk)
      BY DEF IInv, PiecesOK
    <3>. QED  BY <1>2, <1>8, <2>1, <3>1, NoneFacts
  <2>4. \A u, v \in Thread :
          thread[u].pc = "place" /\ reply'[v] # None /\ reply'[v].node = MemoryNumber =>
              thread[u].addr.chunk # reply'[v].chunk
    BY <1>5, <2>2 DEF IInv, PiecesOK
  <2>. QED  BY <1>2, <2>3, <2>4 DEF IInv, PiecesOK
<1>18. ThreadsOK'
  BY <1>2, AllocationAssumption, SMT DEF IInv, ThreadsOK, AllocTypeOK
<1>. QED  BY <1>4, <1>9, <1>12, <1>13, <1>15, <1>16, <1>17, <1>18 DEF IInv

\* Every step of a cluster keeps the invariant.
LEMMA NextInv == IInv /\ [Next]_clusterVars => IInv'
<1>. SUFFICES ASSUME IInv, [Next]_clusterVars PROVE IInv'
  OBVIOUS
<1>1. CASE UNCHANGED allocVars
  BY <1>1 DEF allocVars, IInv, AllocTypeOK, RequestsOK, RepliesOK, HeadsOK,
              MemoryBlocksOK, ComputeBlocksOK, PiecesOK, ThreadsOK, Given
<1>2. CASE \E t \in Thread : AllocStep(t)
  BY <1>2, CallInv, MemoryAllocInv, MemoryChunkInv, ComputeAllocInv, ComputeChunkInv,
     PlaceInv DEF AllocStep
<1>3. CASE \E n \in Server : Serve(n)
  BY <1>3, ServeInv
<1>. QED  BY <1>1, <1>2, <1>3 DEF Next, Keep, Answer, Allocate, clusterVars

\* What has been returned follows from the invariant.
LEMMA IInvImplies == IInv => AllocTypeOK /\ Disjoint /\ Placed
<1>. SUFFICES ASSUME IInv PROVE AllocTypeOK /\ Disjoint /\ Placed
  OBVIOUS
<1>1. AllocTypeOK
  BY DEF IInv
<1>2. Disjoint
  BY DEF IInv, MemoryBlocksOK, ComputeBlocksOK, Disjoint, SameChunk, Apart, InMemory
<1>3. Placed
  <2>. SUFFICES ASSUME NEW b \in blocks
                PROVE  /\ b.node \in Server
                       /\ Reserved < b.chunk /\ b.chunk < Chunks
                       /\ b.off + b.size <= kChunkSize
                       /\ b.node \in ComputeServer => Offset(b) < CacheLimit
    BY DEF Placed
  <2>1. b.chunk \in Nat
    BY DEF IInv, AllocTypeOK, BlockState
  <2>2. PICK n \in Server : Given(n, b.chunk)
    BY NoneFacts DEF IInv, MemoryBlocksOK, ComputeBlocksOK, InMemory
  <2>3. Reserved < b.chunk /\ b.chunk < Chunks
    BY <2>1, <2>2, AllocationAssumption, SMT DEF Given, IInv, AllocTypeOK
  <2>4. b.node \in Server /\ b.off + b.size <= kChunkSize
    BY NoneFacts DEF IInv, MemoryBlocksOK, ComputeBlocksOK, InMemory
  <2>5. b.node \in ComputeServer => ~InMemory(b)
    BY ServersAssumption, SMT DEF ComputeServer, InMemory, MemoryServer, machineNR
  <2>. QED  BY <2>3, <2>4, <2>5 DEF IInv, ComputeBlocksOK
<1>. QED  BY <1>1, <1>2, <1>3

\* Whatever threads of whatever servers do, memory_alloc and compute_alloc
\* never return two blocks that overlap.
THEOREM BlocksDisjoint == Spec => []Disjoint
<1>1. Init => IInv
  BY IInitial DEF Init
<1>. QED  BY <1>1, NextInv, IInvImplies, PTL DEF Spec

\* Every block lies in a chunk of an existing node, outside the reserved
\* region and, on a compute server, in the leaf cache.
THEOREM BlocksPlaced == Spec => []Placed
<1>1. Init => IInv
  BY IInitial DEF Init
<1>. QED  BY <1>1, NextInv, IInvImplies, PTL DEF Spec

-----------------------------------------------------------------------------
(* The inductive invariant.  A barrier's counter never exceeds the number  *)
(* of the servers that have arrived; set_barrier may set it back.          *)

Arrived == {s \in Server : server[s].pc \in {"spin"} \cup Up}
ArrivedCompute == {s \in ComputeServer : server[s].pc \in {"wait", "run"}}

CountsOK ==
    /\ barrier["DMVerbs-init"] # Unset => barrier["DMVerbs-init"] <= Cardinality(Arrived)
    /\ barrier["init"] # Unset => barrier["init"] <= Cardinality(ArrivedCompute)

\* Where a server is in serverConnect.
ConnectOK ==
    \A s \in Server :
        /\ server[s].pc \in {"publish", "fetch"} => server[s].cur < server[s].seen
        /\ server[s].pc = "fetch" => <<s, server[s].cur>> \in meta
        /\ server[s].pc \notin Connecting => server[s].cur = machineNR
        /\ server[s].pc \in {"wait", "run"} => s \in ComputeServer
        /\ \A r \in Server : r < server[s].cur => <<s, r>> \in meta /\ <<r, s>> \in meta

KInv == KeeperTypeOK /\ CountsOK /\ ConnectOK /\ BarriersHold
-----------------------------------------------------------------------------
\* The servers can be counted.
LEMMA ServerFacts ==
    /\ Server \subseteq Nat /\ machineNR \in Nat
    /\ ComputeServer \subseteq Server
    /\ IsFiniteSet(Server) /\ Cardinality(Server) = machineNR
    /\ IsFiniteSet(ComputeServer) /\ Cardinality(ComputeServer) = ComputeNumber
    /\ Unset \notin 0..machineNR
<1>1. machineNR \in Nat \ {0} /\ machineNR = MemoryNumber + ComputeNumber
  BY ServersAssumption, SMT DEF machineNR
<1>2. IsFiniteSet(Server) /\ Cardinality(Server) = machineNR
  <2>1. 0 \in Int /\ machineNR - 1 \in Int /\ ~(0 > machineNR - 1)
    BY <1>1, SMT
  <2>. QED  BY <1>1, <2>1, FS_Interval, SMT DEF Server
<1>3. IsFiniteSet(ComputeServer) /\ Cardinality(ComputeServer) = ComputeNumber
  <2>1. /\ MemoryNumber \in Int /\ machineNR - 1 \in Int /\ ~(MemoryNumber > machineNR - 1)
        /\ (machineNR - 1) - MemoryNumber + 1 = ComputeNumber
    BY <1>1, ServersAssumption, SMT
  <2>. QED  BY <2>1, FS_Interval DEF ComputeServer
<1>4. /\ Server \subseteq Nat /\ ComputeServer \subseteq Server /\ Unset \notin 0..machineNR
  BY <1>1, ServersAssumption, SMT DEF Server, ComputeServer, Unset
<1>. QED  BY <1>1, <1>2, <1>3, <1>4

\* The sets of servers that have arrived at a barrier are finite.
LEMMA ArrivedFacts ==
    /\ IsFiniteSet(Arrived) /\ Cardinality(Arrived) \in Nat
    /\ Cardinality(Arrived) <= machineNR
    /\ Cardinality(Arrived) = machineNR => Arrived = Server
    /\ IsFiniteSet(ArrivedCompute) /\ Cardinality(ArrivedCompute) \in Nat
    /\ Cardinality(ArrivedCompute) <= ComputeNumber
    /\ Cardinality(ArrivedCompute) = ComputeNumber => ArrivedCompute = ComputeServer
<1>1. Arrived \in SUBSET Server /\ ArrivedCompute \in SUBSET ComputeServer
  BY DEF Arrived, ArrivedCompute
<1>2. /\ IsFiniteSet(Arrived) /\ Cardinality(Arrived) <= machineNR
      /\ Cardinality(Arrived) = machineNR => Arrived = Server
  BY <1>1, ServerFacts, FS_Subset
<1>3. /\ IsFiniteSet(ArrivedCompute) /\ Cardinality(ArrivedCompute) <= ComputeNumber
      /\ Cardinality(ArrivedCompute) = ComputeNumber => ArrivedCompute = ComputeServer
  BY <1>1, ServerFacts, FS_Subset
<1>. QED  BY <1>2, <1>3, FS_CardinalityType

\* Before any server has entered.
LEMMA KInitial == KeeperInit => KInv
<1>. SUFFICES ASSUME KeeperInit PROVE KInv
  OBVIOUS
<1>. USE ServerFacts DEF KeeperInit
<1>1. KeeperTypeOK
  BY SMT DEF KeeperTypeOK, ServerState, Starting, Connecting
<1>2. CountsOK
  BY DEF CountsOK, Barriers
<1>3. ConnectOK /\ BarriersHold
  BY SMT DEF ConnectOK, BarriersHold, Connecting, Starting, Up, At
<1>. QED  BY <1>1, <1>2, <1>3 DEF KInv

\* When one server goes on, no barrier loses an arrival, and it gains one at
\* most.
LEMMA OneGoesOn ==
  ASSUME NEW s \in Server, \A r \in Server : r # s => server'[r] = server[r],
         s \in Arrived => s \in Arrived',
         s \in ArrivedCompute => s \in ArrivedCompute'
  PROVE  /\ Cardinality(Arrived) \in Nat /\ Cardinality(Arrived') \in Nat
         /\ Cardinality(ArrivedCompute) \in Nat /\ Cardinality(ArrivedCompute') \in Nat
         /\ Cardinality(Arrived) <= Cardinality(Arrived')
         /\ s \in Arrived' /\ s \notin Arrived =>
                Cardinality(Arrived') = Cardinality(Arrived) + 1
         /\ Cardinality(ArrivedCompute) <= Cardinality(ArrivedCompute')
         /\ s \in ArrivedCompute' /\ s \notin ArrivedCompute =>
                Cardinality(ArrivedCompute') = Cardinality(ArrivedCompute) + 1
<1>1. IF s \in Arrived' /\ s \notin Arrived THEN Arrived' = Arrived \cup {s}
                                            ELSE Arrived' = Arrived
  BY DEF Arrived
<1>2. IF s \in ArrivedCompute' /\ s \notin ArrivedCompute
      THEN ArrivedCompute' = ArrivedCompute \cup {s}
      ELSE ArrivedCompute' = ArrivedCompute
  BY ServerFacts DEF ArrivedCompute
<1>3. /\ Cardinality(Arrived) \in Nat /\ Cardinality(ArrivedCompute) \in Nat
      /\ s \notin Arrived => Cardinality(Arrived \cup {s}) = Cardinality(Arrived) + 1
      /\ s \notin ArrivedCompute =>
             Cardinality(ArrivedCompute \cup {s}) = Cardinality(ArrivedCompute) + 1
  BY ArrivedFacts, FS_AddElement
<1>. QED  BY <1>1, <1>2, <1>3, SMT

\* serverEnter, serverConnect and the directories: the server has passed no
\* barrier, and nobody has passed the first one.
LEMMA StartingInv ==
  ASSUME KInv, NEW s \in Server, KeeperTypeOK', ConnectOK',
         \A r \in Server : r # s => server'[r] = server[r],
         server[s].pc \in Starting, server'[s].pc \in Starting \cup {"set", "add"},
         UNCHANGED barrier
  PROVE  KInv'
<1>1. s \notin Arrived /\ s \notin ArrivedCompute
  BY DEF Arrived, ArrivedCompute, Starting, Connecting, Up
<1>2. CountsOK'
  <2>1. /\ Cardinality(Arrived) <= Cardinality(Arrived')
        /\ Cardinality(ArrivedCompute) <= Cardinality(ArrivedCompute')
        /\ Cardinality(Arrived') \in Nat /\ Cardinality(ArrivedCompute') \in Nat
        /\ Cardinality(Arrived) \in Nat /\ Cardinality(ArrivedCompute) \in Nat
    BY <1>1, OneGoesOn
  <2>2. /\ barrier["DMVerbs-init"] # Unset => barrier["DMVerbs-init"] \in Nat
        /\ barrier["init"] # Unset => barrier["init"] \in Nat
    BY ServerFacts, SMT DEF KInv, KeeperTypeOK, Barriers
  <2>. QED  BY <2>1, <2>2, SMT DEF KInv, CountsOK, Unset
<1>3. BarriersHold'
  <2>1. \A r \in Server : server[r].pc \notin Up
    BY DEF KInv, BarriersHold
  <2>2. server'[s].pc \notin Up
    BY DEF Starting, Connecting, Up
  <2>3. \A r \in Server : server'[r].pc \notin Up
    BY <2>1, <2>2
  <2>. QED  BY <2>3, ServerFacts DEF BarriersHold, At, Up
<1>. QED  BY <1>2, <1>3 DEF KInv

\* The steps up to the directories.
LEMMA ConnectingInv ==
  ASSUME KInv, NEW s \in Server,
         Enter(s) \/ Look(s) \/ Publish(s) \/ Fetch(s) \/ Directories(s)
  PROVE  KInv'
<1>. DEFINE me == server[s]
<1>0. /\ me.pc \in Starting \cup {"set", "add", "spin"} \cup Up
      /\ me.cur \in Nat /\ me.cur <= machineNR /\ me.seen \in Nat /\ me.seen <= machineNR
      /\ serverNum \in Nat /\ serverNum <= machineNR /\ machineNR \in Nat /\ s \in Nat
      /\ s < machineNR
  BY ServerFacts, SMT DEF KInv, KeeperTypeOK, ServerState, Server
<1>1. CASE Enter(s)
  <2>1. /\ \A r \in Server : r # s => server'[r] = server[r]
        /\ me.pc = "enter" /\ server'[s].pc = "look" /\ server'[s].cur = me.cur
        /\ server'[s].seen = me.seen
    BY <1>1 DEF Enter, At, Goto, KInv, KeeperTypeOK, ServerState
  <2>2. server' \in [Server -> ServerState]
    BY <1>1 DEF Enter, Goto, KInv, KeeperTypeOK, ServerState, Starting, Connecting
  <2>3. KeeperTypeOK'
    BY <1>0, <1>1, <2>2, SMT DEF Enter, KInv, KeeperTypeOK
  <2>4. ConnectOK'
    BY <1>0, <1>1, <2>1 DEF Enter, KInv, ConnectOK, Connecting
  <2>. QED  BY <1>1, <2>1, <2>3, <2>4, StartingInv DEF Enter, Starting, Connecting
<1>2. CASE Look(s)
  <2>1. /\ \A r \in Server : r # s => server'[r] = server[r]
        /\ me.pc = "look" /\ server'[s].cur = me.cur /\ server'[s].seen = serverNum
        /\ server'[s].pc = IF me.cur < serverNum THEN "publish" ELSE "look"
        /\ meta' = meta
    BY <1>2 DEF Look, At, KInv, KeeperTypeOK, ServerState
  <2>2. server' \in [Server -> ServerState]
    <3>1. PICK pc \in {"publish", "look"} :
            server' = [server EXCEPT ![s].seen = serverNum, ![s].pc = pc]
      BY <1>2 DEF Look
    <3>. QED  BY <1>0, <3>1 DEF KInv, KeeperTypeOK, ServerState, Starting, Connecting
  <2>3. KeeperTypeOK'
    BY <1>2, <2>2 DEF Look, KInv, KeeperTypeOK
  <2>4. ConnectOK'
    BY <1>0, <2>1 DEF KInv, ConnectOK, Connecting
  <2>. QED  BY <1>2, <2>1, <2>3, <2>4, StartingInv DEF Look, Starting, Connecting
<1>3. CASE Publish(s)
  <2>1. /\ \A r \in Server : r # s => server'[r] = server[r]
        /\ me.pc = "publish" /\ server'[s].cur = me.cur /\ server'[s].seen = me.seen
        /\ server'[s].pc = "fetch" /\ meta' = meta \cup {<<s, me.cur>>}
    BY <1>3 DEF Publish, Peer, Goto, At, KInv, KeeperTypeOK, ServerState
  <2>2. server' \in [Server -> ServerState]
    BY <1>3 DEF Publish, Goto, KInv, KeeperTypeOK, ServerState, Starting, Connecting
  <2>3. me.cur \in Server
    <3>1. me.cur < me.seen
      BY <2>1 DEF KInv, ConnectOK
    <3>. QED  BY <1>0, <3>1, SMT DEF Server
  <2>4. KeeperTypeOK'
    BY <1>3, <2>1, <2>2, <2>3, SMT DEF Publish, KInv, KeeperTypeOK
  <2>5. ConnectOK'
    BY <1>0, <2>1 DEF KInv, ConnectOK, Connecting
  <2>. QED  BY <1>3, <2>1, <2>4, <2>5, StartingInv DEF Publish, Starting, Connecting
<1>4. CASE Fetch(s)
  <2>1. /\ \A r \in Server : r # s => server'[r] = server[r]
        /\ me.pc = "fetch" /\ server'[s].cur = me.cur + 1 /\ server'[s].seen = me.seen
        /\ server'[s].pc = IF me.cur + 1 < me.seen THEN "publish"
                           ELSE IF me.seen < machineNR THEN "look" ELSE "directories"
        /\ <<me.cur, s>> \in meta /\ meta' = meta
    BY <1>4 DEF Fetch, Peer, At, KInv, KeeperTypeOK, ServerState
  <2>2. me.cur < me.seen /\ <<s, me.cur>> \in meta
    BY <2>1 DEF KInv, ConnectOK
  <2>3. server'[s].pc \in Starting /\ server'[s].cur \in 0..machineNR
    BY <1>0, <2>1, <2>2, SMT DEF Starting, Connecting
  <2>4. server' \in [Server -> ServerState]
    BY <1>4, <2>1, <2>3 DEF Fetch, KInv, KeeperTypeOK, ServerState
  <2>5. KeeperTypeOK'
    BY <1>4, <2>4 DEF Fetch, KInv, KeeperTypeOK
  <2>6. \A r \in Server : r < me.cur + 1 => r < me.cur \/ r = me.cur
    BY <1>0, ServerFacts, SMT
  <2>7. server'[s].pc \notin Connecting => server'[s].cur = machineNR
    BY <1>0, <2>1, <2>2, SMT DEF Connecting
  <2>8. /\ server'[s].pc = "publish" => server'[s].cur < server'[s].seen
        /\ server'[s].pc \notin {"fetch", "wait", "run"}
        /\ \A r \in Server : r < server'[s].cur => <<s, r>> \in meta /\ <<r, s>> \in meta
    BY <2>1, <2>2, <2>6 DEF KInv, ConnectOK
  <2>9. ConnectOK'
    BY <2>1, <2>7, <2>8 DEF KInv, ConnectOK, Connecting
  <2>. QED  BY <1>4, <2>1, <2>3, <2>5, <2>9, StartingInv DEF Fetch, Starting, Connecting
<1>5. CASE Directories(s)
  <2>1. /\ \A r \in Server : r # s => server'[r] = server[r]
        /\ me.pc = "directories" /\ server'[s].cur = me.cur /\ server'[s].seen = me.seen
        /\ server'[s].pc = IF s = 0 THEN "set" ELSE "add"
    BY <1>5 DEF Directories, Goto, At, KInv, KeeperTypeOK, ServerState
  <2>2. server' \in [Server -> ServerState]
    BY <1>5 DEF Directories, Goto, KInv, KeeperTypeOK, ServerState
  <2>3. KeeperTypeOK'
    BY <1>5, <2>2 DEF Directories, KInv, KeeperTypeOK
  <2>4. ConnectOK'
    BY <1>0, <1>5, <2>1 DEF Directories, KInv, ConnectOK, Connecting
  <2>. QED  BY <1>5, <2>1, <2>3, <2>4, StartingInv DEF Directories, Starting
<1>. QED  BY <1>1, <1>2, <1>3, <1>4, <1>5

\* A counter of memcached is a number once it has been set.
LEMMA CounterFacts ==
  ASSUME KeeperTypeOK, NEW b \in Barriers, barrier[b] # Unset
  PROVE  barrier[b] \in Nat /\ barrier[b] <= machineNR
BY ServerFacts, SMT DEF KeeperTypeOK

\* A step from a barrier to the next state: what is the same for all of them.
LEMMA BarrierStep ==
  ASSUME KInv, NEW s \in Server, NEW pc \in {"add", "spin", "serve", "wait", "up", "run"},
         server[s].pc \notin Starting, Goto(s, pc), UNCHANGED <<serverNum, meta>>,
         pc \in {"wait", "run"} => s \in ComputeServer,
         barrier' \in [Barriers -> 0..machineNR \cup {Unset}]
  PROVE  /\ \A r \in Server : r # s => server'[r] = server[r]
         /\ server'[s].pc = pc
         /\ KeeperTypeOK' /\ ConnectOK'
<1>1. /\ \A r \in Server : r # s => server'[r] = server[r]
      /\ server'[s].pc = pc /\ server'[s].cur = server[s].cur
      /\ server'[s].seen = server[s].seen
  BY DEF Goto, KInv, KeeperTypeOK, ServerState
<1>2. server' \in [Server -> ServerState]
  BY DEF Goto, KInv, KeeperTypeOK, ServerState, Up
<1>3. KeeperTypeOK'
  BY <1>2 DEF KInv, KeeperTypeOK
<1>4. ConnectOK'
  BY <1>1 DEF KInv, ConnectOK, Connecting, Starting
<1>. QED  BY <1>1, <1>3, <1>4

\* barrier("DMVerbs-init"), set_barrier and barrier("init", ComputeNumber).
LEMMA BarriersInv ==
  ASSUME KInv, NEW s \in Server,
         Set(s) \/ Add(s) \/ Pass(s) \/ SetBarrier(s) \/ Arrive(s) \/ Leave(s)
  PROVE  KInv'
<1>0. /\ \A b \in Barriers : barrier[b] # Unset => barrier[b] \in Nat /\ barrier[b] <= machineNR
      /\ machineNR \in Nat /\ ComputeNumber \in Nat /\ 0 # Unset /\ 0 \in 0..machineNR
  BY CounterFacts, ServerFacts, ServersAssumption, SMT DEF KInv
<1>1. /\ Cardinality(Arrived) \in Nat /\ Cardinality(ArrivedCompute) \in Nat
      /\ Cardinality(Arrived) <= machineNR /\ Cardinality(ArrivedCompute) <= ComputeNumber
      /\ ComputeNumber <= machineNR
  BY ArrivedFacts, ServersAssumption, SMT DEF machineNR
<1>2. barrier \in [Barriers -> 0..machineNR \cup {Unset}]
  BY DEF KInv, KeeperTypeOK
<1>3. CASE Set(s)
  <2>1. barrier' \in [Barriers -> 0..machineNR \cup {Unset}]
    <3>1. barrier' = [barrier EXCEPT !["DMVerbs-init"] = 0]
      BY <1>3 DEF Set
    <3>. QED  BY <1>0, <1>2, <3>1
  <2>2. /\ \A r \in Server : r # s => server'[r] = server[r]
        /\ server[s].pc = "set" /\ server'[s].pc = "add" /\ KeeperTypeOK' /\ ConnectOK'
    BY <1>3, <2>1, BarrierStep DEF Set, At, Starting, Connecting
  <2>3. /\ s \notin Arrived /\ s \notin ArrivedCompute
    BY <2>2 DEF Arrived, ArrivedCompute, Up
  <2>4. /\ Cardinality(Arrived') \in Nat /\ Cardinality(ArrivedCompute') \in Nat
        /\ Cardinality(Arrived) <= Cardinality(Arrived')
        /\ Cardinality(ArrivedCompute) <= Cardinality(ArrivedCompute')
    BY <2>2, <2>3, OneGoesOn
  <2>5. barrier'["DMVerbs-init"] = 0 /\ barrier'["init"] = barrier["init"]
    BY <1>2, <1>3 DEF Set, Barriers
  <2>6. CountsOK'
    BY <1>0, <1>1, <2>4, <2>5, SMT DEF KInv, CountsOK, Barriers, Unset
  <2>7. BarriersHold'
    BY <2>2, ServerFacts DEF KInv, BarriersHold, Up, Starting, Connecting, At
  <2>. QED  BY <2>2, <2>6, <2>7 DEF KInv
<1>4. CASE Add(s)
  <2>0. /\ barrier["DMVerbs-init"] \in Nat
        /\ barrier["DMVerbs-init"] <= Cardinality(Arrived) /\ server[s].pc = "add"
    BY <1>0, <1>4 DEF KInv, CountsOK, Add, Barriers, At
  <2>1. s \notin Arrived /\ s \notin ArrivedCompute
    BY <2>0 DEF Arrived, ArrivedCompute, Up
  <2>2. /\ \A r \in Server : r # s => server'[r] = server[r]
        /\ server'[s].pc = "spin"
    BY <1>4 DEF Add, Goto, KInv, KeeperTypeOK, ServerState
  <2>3. s \in Arrived'
    BY <2>2 DEF Arrived
  <2>4. /\ Cardinality(Arrived') \in Nat /\ Cardinality(ArrivedCompute') \in Nat
        /\ Cardinality(Arrived') = Cardinality(Arrived) + 1
        /\ Cardinality(ArrivedCompute) <= Cardinality(ArrivedCompute')
    BY <2>1, <2>2, <2>3, OneGoesOn
  <2>5. Cardinality(Arrived') <= machineNR
    <3>1. Arrived' \in SUBSET Server
      BY DEF Arrived
    <3>. QED  BY <3>1, ServerFacts, FS_Subset
  <2>6. /\ barrier'["DMVerbs-init"] = barrier["DMVerbs-init"] + 1
        /\ barrier'["init"] = barrier["init"]
        /\ barrier' = [barrier EXCEPT !["DMVerbs-init"] = barrier["DMVerbs-init"] + 1]
    BY <1>2, <1>4 DEF Add, Barriers
  <2>7. barrier["DMVerbs-init"] + 1 \in 0..machineNR
    BY <1>0, <2>0, <2>4, <2>5, <1>1, SMT
  <2>8. barrier' \in [Barriers -> 0..machineNR \cup {Unset}]
    BY <1>2, <2>6, <2>7
  <2>9. KeeperTypeOK' /\ ConnectOK'
    BY <1>4, <2>0, <2>8, BarrierStep DEF Add, Starting, Connecting
  <2>10. CountsOK'
    BY <1>0, <1>1, <2>0, <2>4, <2>6, SMT DEF KInv, CountsOK, Barriers, Unset
  <2>11. BarriersHold'
    BY <2>0, <2>2, ServerFacts DEF KInv, BarriersHold, Up, Starting, Connecting, At
  <2>. QED  BY <2>9, <2>10, <2>11 DEF KInv
<1>5. CASE Pass(s)
  <2>1. /\ server[s].pc = "spin" /\ barrier["DMVerbs-init"] = machineNR /\ barrier' = barrier
    BY <1>5 DEF Pass, At
  <2>2. /\ \A r \in Server : r # s => server'[r] = server[r]
        /\ server'[s].pc = "up" /\ KeeperTypeOK' /\ ConnectOK'
    BY <1>2, <1>5, <2>1, BarrierStep DEF Pass, Starting, Connecting
  <2>3. s \in Arrived' /\ s \notin ArrivedCompute
    BY <2>1, <2>2 DEF Arrived, ArrivedCompute, Up
  <2>4. /\ Cardinality(Arrived') \in Nat /\ Cardinality(ArrivedCompute') \in Nat
        /\ Cardinality(Arrived) <= Cardinality(Arrived')
        /\ Cardinality(ArrivedCompute) <= Cardinality(ArrivedCompute')
    BY <2>2, <2>3, OneGoesOn
  <2>5. CountsOK'
    BY <1>0, <1>1, <2>1, <2>4, SMT DEF KInv, CountsOK, Barriers, Unset
  <2>6. Arrived = Server
    <3>1. machineNR # Unset
      BY <1>0, SMT DEF Unset
    <3>2. machineNR <= Cardinality(Arrived)
      BY <2>1, <3>1 DEF KInv, CountsOK
    <3>3. Cardinality(Arrived) = machineNR
      BY <1>0, <1>1, <3>2, SMT
    <3>. QED  BY <3>3, ArrivedFacts
  <2>7. \A r \in Server : server[r].pc \notin Starting
    BY <2>6 DEF Arrived, Up, Starting, Connecting
  <2>8. BarriersHold'
    BY <2>1, <2>2, <2>7, ServerFacts DEF KInv, BarriersHold, Up, Starting, Connecting, At
  <2>. QED  BY <2>2, <2>5, <2>8 DEF KInv
<1>6. CASE SetBarrier(s)
  <2>1. server[s].pc = "up" /\ barrier' = [barrier EXCEPT !["init"] = 0] /\ s \notin ComputeServer
    BY <1>6, ServersAssumption, SMT DEF SetBarrier, At, MemoryServer, ComputeServer, machineNR
  <2>2. barrier' \in [Barriers -> 0..machineNR \cup {Unset}]
    BY <1>0, <1>2, <2>1
  <2>3. /\ \A r \in Server : r # s => server'[r] = server[r]
        /\ server'[s].pc = "serve" /\ KeeperTypeOK' /\ ConnectOK'
    BY <1>6, <2>1, <2>2, BarrierStep DEF SetBarrier, Starting, Connecting
  <2>4. s \in Arrived' /\ s \notin ArrivedCompute
    BY <2>1, <2>3 DEF Arrived, ArrivedCompute, Up
  <2>5. /\ Cardinality(Arrived') \in Nat /\ Cardinality(ArrivedCompute') \in Nat
        /\ Cardinality(Arrived) <= Cardinality(Arrived')
        /\ Cardinality(ArrivedCompute) <= Cardinality(ArrivedCompute')
    BY <2>3, <2>4, OneGoesOn
  <2>6. barrier'["init"] = 0 /\ barrier'["DMVerbs-init"] = barrier["DMVerbs-init"]
    BY <1>2, <2>1 DEF Barriers
  <2>7. CountsOK'
    BY <1>0, <1>1, <2>5, <2>6, SMT DEF KInv, CountsOK, Barriers, Unset
  <2>8. BarriersHold'
    BY <2>1, <2>3, ServerFacts DEF KInv, BarriersHold, Up, Starting, Connecting, At
  <2>. QED  BY <2>3, <2>7, <2>8 DEF KInv
<1>7. CASE Arrive(s)
  <2>0. /\ barrier["init"] \in Nat /\ barrier["init"] <= Cardinality(ArrivedCompute)
        /\ server[s].pc = "up" /\ s \in ComputeServer
    BY <1>0, <1>7 DEF KInv, CountsOK, Arrive, Barriers, At
  <2>1. s \notin ArrivedCompute
    BY <2>0 DEF ArrivedCompute
  <2>2. /\ \A r \in Server : r # s => server'[r] = server[r]
        /\ server'[s].pc = "wait"
    BY <1>7 DEF Arrive, Goto, KInv, KeeperTypeOK, ServerState
  <2>3. s \in Arrived' /\ s \in ArrivedCompute'
    BY <2>0, <2>2 DEF Arrived, ArrivedCompute, Up
  <2>4. /\ Cardinality(Arrived') \in Nat /\ Cardinality(ArrivedCompute') \in Nat
        /\ Cardinality(ArrivedCompute') = Cardinality(ArrivedCompute) + 1
        /\ Cardinality(Arrived) <= Cardinality(Arrived')
    BY <2>1, <2>2, <2>3, OneGoesOn
  <2>5. Cardinality(ArrivedCompute') <= ComputeNumber
    <3>1. ArrivedCompute' \in SUBSET ComputeServer
      BY DEF ArrivedCompute
    <3>. QED  BY <3>1, ServerFacts, FS_Subset
  <2>6. /\ barrier'["init"] = barrier["init"] + 1
        /\ barrier'["DMVerbs-init"] = barrier["DMVerbs-init"]
        /\ barrier' = [barrier EXCEPT !["init"] = barrier["init"] + 1]
    BY <1>2, <1>7 DEF Arrive, Barriers
  <2>7. barrier["init"] + 1 \in 0..machineNR
    BY <1>0, <2>0, <2>4, <2>5, <1>1, SMT
  <2>8. barrier' \in [Barriers -> 0..machineNR \cup {Unset}]
    BY <1>2, <2>6, <2>7
  <2>9. KeeperTypeOK' /\ ConnectOK'
    BY <1>7, <2>0, <2>8, BarrierStep DEF Arrive, Starting, Connecting
  <2>10. CountsOK'
    BY <1>0, <1>1, <2>0, <2>4, <2>6, SMT DEF KInv, CountsOK, Barriers, Unset
  <2>11. BarriersHold'
    BY <2>0, <2>2, ServerFacts DEF KInv, BarriersHold, Up, Starting, Connecting, At
  <2>. QED  BY <2>9, <2>10, <2>11 DEF KInv
<1>8. CASE Leave(s)
  <2>1. /\ server[s].pc = "wait" /\ barrier["init"] = ComputeNumber /\ barrier' = barrier
        /\ s \in ComputeServer
    BY <1>8 DEF Leave, At, KInv, ConnectOK
  <2>2. /\ \A r \in Server : r # s => server'[r] = server[r]
        /\ server'[s].pc = "run" /\ KeeperTypeOK' /\ ConnectOK'
    BY <1>2, <1>8, <2>1, BarrierStep DEF Leave, Starting, Connecting
  <2>3. s \in Arrived' /\ s \in ArrivedCompute' /\ s \in ArrivedCompute
    BY <2>1, <2>2 DEF Arrived, ArrivedCompute, Up
  <2>4. /\ Cardinality(Arrived') \in Nat /\ Cardinality(ArrivedCompute') \in Nat
        /\ Cardinality(Arrived) <= Cardinality(Arrived')
        /\ Cardinality(ArrivedCompute) <= Cardinality(ArrivedCompute')
    BY <2>2, <2>3, OneGoesOn
  <2>5. CountsOK'
    BY <1>0, <1>1, <2>1, <2>4, SMT DEF KInv, CountsOK, Barriers, Unset
  <2>6. ArrivedCompute = ComputeServer
    <3>1. ComputeNumber # Unset
      BY <1>0, <1>1, SMT DEF Unset
    <3>2. ComputeNumber <= Cardinality(ArrivedCompute)
      BY <2>1, <3>1 DEF KInv, CountsOK
    <3>3. Cardinality(ArrivedCompute) = ComputeNumber
      BY <1>0, <1>1, <3>2, SMT
    <3>. QED  BY <3>3, ArrivedFacts
  <2>7. \A r \in ComputeServer : server[r].pc \in {"wait", "run"}
    BY <2>6 DEF ArrivedCompute
  <2>8. BarriersHold'
    BY <2>1, <2>2, <2>7, ServerFacts DEF KInv, BarriersHold, Up, Starting, Connecting, At
  <2>. QED  BY <2>2, <2>5, <2>8 DEF KInv
<1>. QED  BY <1>3, <1>4, <1>5, <1>6, <1>7, <1>8

\* Every step of a cluster keeps the invariant.
LEMMA KNext == KInv /\ [Next]_clusterVars => KInv'
<1>. SUFFICES ASSUME KInv, [Next]_clusterVars PROVE KInv'
  OBVIOUS
<1>1. CASE UNCHANGED keeperVars
  BY <1>1 DEF keeperVars, KInv, KeeperTypeOK, CountsOK, ConnectOK, BarriersHold, At,
              Arrived, ArrivedCompute
<1>2. CASE \E s \in Server : KeeperStep(s)
  BY <1>2, ConnectingInv, BarriersInv DEF KeeperStep
<1>. QED  BY <1>1, <1>2 DEF Next, Keep, Answer, Allocate, clusterVars

\* A server for which another one waits is still at a server with a smaller
\* number than that one's: it has published its data up to there.
LEMMA AwaitedIsBehind ==
  ASSUME KInv, NEW s \in Server, NEW r \in Server, NEW q \in Server,
         Awaits(s, r), Awaits(r, q)
  PROVE  q < s
<1>1. <<r, s>> \notin meta /\ server[r].pc = "fetch" /\ q = server[r].cur
  BY DEF Awaits, At, Peer
<1>2. ~(s < q) /\ s # q
  BY <1>1 DEF KInv, ConnectOK
<1>. QED  BY <1>2, ServerFacts, SMT

\* Of servers that wait for each other, take the one with the smallest number:
\* the one it waits for waits for a smaller one.
LEMMA KInvNoCycle == KInv => NoWaitCycle
<1>. SUFFICES ASSUME KInv, NEW W \in SUBSET Server, W # {},
                     \A s \in W : \E r \in W : Awaits(s, r)
              PROVE  FALSE
  BY DEF NoWaitCycle
<1>0. W \subseteq Nat
  BY ServerFacts
<1>1. PICK s \in W : \A q \in W : ~(<<q, s>> \in OpToRel(<, Nat))
  BY <1>0, NatLessThanWellFounded, WFMin
<1>2. PICK r \in W : Awaits(s, r)
  OBVIOUS
<1>3. PICK q \in W : Awaits(r, q)
  OBVIOUS
<1>4. q < s
  BY <1>2, <1>3, AwaitedIsBehind
<1>5. ~(q < s)
  BY <1>0, <1>1 DEF OpToRel
<1>. QED  BY <1>4, <1>5

\* However many servers are started, and in whatever order they run, they never
\* wait for each other's data in a circle.
THEOREM NobodyWaitsInACircle == Spec => []NoWaitCycle
<1>1. Init => KInv
  BY KInitial DEF Init
<1>. QED  BY <1>1, KNext, KInvNoCycle, PTL DEF Spec

\* Nobody passes barrier("DMVerbs-init") before all directories run, nor
\* barrier("init") before all compute servers have arrived, although several
\* memory servers may set the second counter back.
THEOREM NobodyPassesEarly == Spec => []BarriersHold
<1>1. Init => KInv
  BY KInitial DEF Init
<1>2. KInv => BarriersHold
  BY DEF KInv
<1>. QED  BY <1>1, <1>2, KNext, PTL DEF Spec

\* A directory that runs keeps running.
LEMMA KeepsRunning ==
  ASSUME KInv, NEW s \in Server, KeeperStep(s), NEW n \in Server, server[n].pc \notin Starting
  PROVE  server'[n].pc \notin Starting
<1>1. n # s => server'[n] = server[n]
  BY DEF KInv, KeeperTypeOK, KeeperStep, Goto, Enter, Look, Publish, Fetch, Directories,
         Set, Add, Pass, SetBarrier, Arrive, Leave
<1>2. ASSUME n = s PROVE server'[s].pc \in {"add", "spin", "up", "serve", "wait", "run"}
  BY <1>2, SMT DEF KInv, KeeperTypeOK, ServerState, KeeperStep, Goto, At, Starting, Connecting,
         Enter, Look, Publish, Fetch, Directories, Set, Add, Pass, SetBarrier, Arrive, Leave
<1>. QED  BY <1>1, <1>2 DEF Starting, Connecting

\* The servers at both ends of a request have left serverConnect, and the
\* directory runs.
EndsRun == \A m \in requests : \A s \in {m.to, Home[m.from]} : server[s].pc \notin Starting

\* A thread only asks a directory when all of them run.
LEMMA AskRunning ==
    IInv /\ KInv /\ EndsRun /\ [Next]_clusterVars => EndsRun'
<1>. SUFFICES ASSUME IInv, KInv, EndsRun, [Next]_clusterVars,
                     NEW m \in requests', NEW s \in {m.to, Home[m.from]}
              PROVE  server'[s].pc \notin Starting
  BY DEF EndsRun
<1>1. s \in Server
  BY NextInv, ServerFacts, AllocationAssumption DEF IInv, AllocTypeOK
<1>2. CASE requests' \subseteq requests /\ UNCHANGED server
  BY <1>2 DEF EndsRun
<1>3. CASE \E r \in Server : KeeperStep(r) /\ UNCHANGED requests
  BY <1>1, <1>3, KeepsRunning DEF EndsRun
<1>4. CASE \E t \in Thread : Allocate(t)
  <2>1. PICK t \in Thread : Allocate(t)
    BY <1>4
  <2>2. Home[t] \in Server /\ server[Home[t]].pc \in Up
    BY <2>1, AllocationAssumption, NoneFacts DEF Allocate, At, Up
  <2>3. server[s].pc \notin Starting
    BY <1>1, <2>2 DEF KInv, BarriersHold
  <2>. QED  BY <2>1, <2>3 DEF Allocate, keeperVars
<1>5. CASE \E n \in Server : Answer(n)
  BY <1>2, <1>5 DEF Answer, Serve, keeperVars
<1>. QED
  BY <1>2, <1>3, <1>4, <1>5 DEF Next, Keep, allocVars, keeperVars, clusterVars

\* Then both have set up their ends of the queue pair.
LEMMA EndsConnected == IInv /\ KInv /\ EndsRun => DirectoryRuns
<1>. SUFFICES ASSUME IInv, KInv, EndsRun, NEW m \in requests
              PROVE  /\ server[m.to].pc \notin Starting
                     /\ m.to < server[Home[m.from]].cur /\ Home[m.from] < server[m.to].cur
  BY DEF DirectoryRuns
<1>1. m.to \in Server /\ Home[m.from] \in Server
  BY ServerFacts, AllocationAssumption DEF IInv, AllocTypeOK
<1>2. server[m.to].pc \notin Starting /\ server[Home[m.from]].pc \notin Starting
  BY DEF EndsRun
<1>3. server[m.to].cur = machineNR /\ server[Home[m.from]].cur = machineNR
  BY <1>1, <1>2 DEF KInv, ConnectOK, Starting
<1>4. \A r \in Server : r < machineNR
  BY ServersAssumption, SMT DEF Server, machineNR
<1>. QED  BY <1>1, <1>2, <1>3, <1>4

\* No MALLOC message is sent to a directory that does not run yet, or over a
\* queue pair that one end has not set up.
THEOREM AskedDirectoriesRun == Spec => []DirectoryRuns
<1>1. Init => IInv /\ KInv /\ EndsRun
  BY IInitial, KInitial DEF Init, AllocInit, EndsRun
<1>. QED  BY <1>1, NextInv, KNext, AskRunning, EndsConnected, PTL DEF Spec

\* The variables of both parts keep their types.
THEOREM TypeCorrect == Spec => []TypeOK
<1>1. Init => IInv /\ KInv
  BY IInitial, KInitial DEF Init
<1>2. IInv /\ KInv => TypeOK
  BY DEF IInv, KInv, TypeOK
<1>. QED  BY <1>1, <1>2, NextInv, KNext, PTL DEF Spec
=============================================================================

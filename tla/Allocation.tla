----------------------------- MODULE Allocation -----------------------------
(***************************************************************************)
(* Remote memory of a SkipVectorDM cluster: memory_alloc and compute_alloc *)
(* of DMVerbs.h, the LocalAllocators they keep, and the chunks that the    *)
(* Directory of each node hands out (Directory.h, Directory.cc).           *)
(*                                                                         *)
(* A global address is a node, a chunk of that node's memory and an offset *)
(* in the chunk.  NR_DIRECTORY is 1, as in the build, so that a node has   *)
(* one directory and every chunk a thread asks for moves it to the next    *)
(* node.  free is empty in the code.                                       *)
(***************************************************************************)
EXTENDS Servers

CONSTANTS
    Thread, Home,        \* Home[t]: the compute server t runs on
    Size,                \* the sizes that are allocated
    kChunkSize,
    Chunks,              \* chunks in the memory of a node
    Reserved,            \* chunks of the SkipVector region, which are burnt
    CacheLimit,          \* (kLeafCacheSize - 1) * MB
    MaxCalls             \* bound: allocations of each thread

ASSUME AllocationAssumption ==
    /\ Home \in [Thread -> ComputeServer]
    /\ kChunkSize \in Nat \ {0} /\ Size \subseteq 1..kChunkSize
    /\ Chunks \in Nat /\ Reserved \in Nat
    /\ CacheLimit \in Nat /\ MaxCalls \in [Thread -> Nat]

None == [node |-> 0, chunk |-> 0, off |-> 0]   \* Gaddr::Null
NoTarget == machineNR                          \* a thread_local before its first use
Addr == [node : Server, chunk : Nat, off : Nat]

VARIABLES
    bitmap_tail,      \* of the directory of each node
    requests,         \* MALLOC messages to directories, with their senders
    reply,            \* the chunk that has come back to a thread
    local_memory, local_compute,   \* cur of each server's LocalAllocators
    alloc_memory_nodes, alloc_compute_nodes, use_memory_fp,
    alloc_lock,       \* the threads that hold their server's alloc_lock
    thread,           \* what each thread is doing
    blocks            \* what has been returned to callers

allocVars == <<bitmap_tail, requests, reply, local_memory, local_compute,
               alloc_memory_nodes, alloc_compute_nodes, use_memory_fp,
               alloc_lock, thread, blocks>>

\* The directory has burnt the chunks of the region, and chunk 0 was never
\* free.  alloc_memory_nodes is not initialized.
AllocInit ==
    /\ bitmap_tail = [n \in Server |-> 1 + Reserved]
    /\ requests = {}
    /\ reply = [t \in Thread |-> None]
    /\ local_memory = [s \in ComputeServer |-> None]
    /\ local_compute = [s \in ComputeServer |-> None]
    /\ alloc_memory_nodes \in [ComputeServer -> MemoryServer]
    /\ alloc_compute_nodes = [s \in ComputeServer |-> s]
    /\ use_memory_fp = [s \in ComputeServer |-> FALSE]
    /\ alloc_lock = {}
    /\ thread = [t \in Thread |-> [pc |-> "idle", calls |-> 0, size |-> 0,
                                   target |-> NoTarget, addr |-> None]]
    /\ blocks = {}

-----------------------------------------------------------------------------
(* Helpers.                                                                *)

Doing(t, pc) == thread[t].pc = pc
LockFree(t) == \A u \in alloc_lock : Home[u] # Home[t]

\* LocalAllocator::malloc: the block at cur fits into the chunk.  Chunk 0 is
\* never handed out: an allocator at None has no chunk.
Fits(cur, size) == cur.chunk # None.chunk /\ cur.off + size <= kChunkSize
Advance(cur, size) == IF Fits(cur, size) THEN [cur EXCEPT !.off = @ + size] ELSE cur

\* The addresses that one block covers, and the caller it belongs to.
Block(t, addr) == [by |-> t, call |-> thread[t].calls, node |-> addr.node,
                   chunk |-> addr.chunk, off |-> addr.off, size |-> thread[t].size]

Offset(addr) == addr.chunk * kChunkSize + addr.off
-----------------------------------------------------------------------------
(* DMVerbs::memory_alloc, from "memory" on, DMVerbs::compute_alloc from    *)
(* "compute" on.                                                           *)

Call(t) ==
    /\ Doing(t, "idle") /\ thread[t].calls < MaxCalls[t]
    /\ \E size \in Size, pc \in {"memory", "compute"} :
          thread' = [thread EXCEPT ![t].pc = pc, ![t].size = size, ![t].calls = @ + 1]
    /\ UNCHANGED <<bitmap_tail, requests, reply, local_memory, local_compute,
                   alloc_memory_nodes, alloc_compute_nodes, use_memory_fp,
                   alloc_lock, blocks>>

\* Under alloc_lock: a block of the chunk at hand, or a message to the
\* directory of the thread's target node; the lock is kept until the answer.
MemoryAlloc(t) ==
    LET s == Home[t]
        target == IF thread[t].target = NoTarget THEN alloc_memory_nodes[s]
                                                 ELSE thread[t].target
        size == thread[t].size
    IN  /\ Doing(t, "memory") /\ LockFree(t)
        /\ \/ /\ Fits(local_memory[s], size)
              /\ local_memory' = [local_memory EXCEPT ![s] = Advance(@, size)]
              /\ blocks' = blocks \cup {Block(t, local_memory[s])}
              /\ thread' = [thread EXCEPT ![t].pc = "idle", ![t].target = target]
              /\ UNCHANGED <<requests, alloc_lock>>
           \/ /\ ~Fits(local_memory[s], size)
              /\ requests' = requests \cup {[from |-> t, to |-> target]}
              /\ alloc_lock' = alloc_lock \cup {t}
              /\ thread' = [thread EXCEPT ![t].pc = "memory_wait", ![t].target = target]
              /\ UNCHANGED <<local_memory, blocks>>
        /\ UNCHANGED <<bitmap_tail, reply, local_compute, alloc_memory_nodes,
                       alloc_compute_nodes, use_memory_fp>>

\* Mutant of MemoryChunk: the second malloc does not take its block off the chunk.
MemoryChunkKeeps(t) ==
    LET s == Home[t]
        next == (alloc_memory_nodes[s] + 1) % MemoryNumber
    IN  /\ Doing(t, "memory_wait") /\ reply[t] # None
        /\ local_memory' = [local_memory EXCEPT ![s] = reply[t]]
        /\ blocks' = blocks \cup {Block(t, reply[t])}
        /\ alloc_memory_nodes' = [alloc_memory_nodes EXCEPT ![s] = next]
        /\ thread' = [thread EXCEPT ![t].pc = "idle", ![t].target = next]
        /\ reply' = [reply EXCEPT ![t] = None]
        /\ alloc_lock' = alloc_lock \ {t}
        /\ UNCHANGED <<bitmap_tail, requests, local_compute, alloc_compute_nodes,
                       use_memory_fp>>

\* The answer: set_chunck, on to the next node, and malloc again.
MemoryChunk(t) ==
    LET s == Home[t]
        next == (alloc_memory_nodes[s] + 1) % MemoryNumber
    IN  /\ Doing(t, "memory_wait") /\ reply[t] # None
        /\ local_memory' = [local_memory EXCEPT ![s] = Advance(reply[t], thread[t].size)]
        /\ blocks' = blocks \cup {Block(t, reply[t])}
        /\ alloc_memory_nodes' = [alloc_memory_nodes EXCEPT ![s] = next]
        /\ thread' = [thread EXCEPT ![t].pc = "idle", ![t].target = next]
        /\ reply' = [reply EXCEPT ![t] = None]
        /\ alloc_lock' = alloc_lock \ {t}
        /\ UNCHANGED <<bitmap_tail, requests, local_compute, alloc_compute_nodes,
                       use_memory_fp>>

\* Mutant of ComputeAlloc: alloc_lock is kept when memory_alloc is called.
ComputeAllocLocked(t) ==
    LET s == Home[t]
        size == thread[t].size
    IN  /\ Doing(t, "compute") /\ LockFree(t)
        /\ \/ /\ use_memory_fp[s]
              /\ thread' = [thread EXCEPT ![t].pc = "memory"]
              /\ alloc_lock' = alloc_lock \cup {t}
              /\ UNCHANGED <<local_compute, requests>>
           \/ /\ ~use_memory_fp[s] /\ Fits(local_compute[s], size)
              /\ local_compute' = [local_compute EXCEPT ![s] = Advance(@, size)]
              /\ thread' = [thread EXCEPT ![t].pc = "place", ![t].addr = local_compute[s]]
              /\ UNCHANGED <<requests, alloc_lock>>
           \/ /\ ~use_memory_fp[s] /\ ~Fits(local_compute[s], size)
              /\ requests' = requests \cup {[from |-> t, to |-> MemoryNumber]}
              /\ alloc_lock' = alloc_lock \cup {t}
              /\ thread' = [thread EXCEPT ![t].pc = "compute_wait"]
              /\ UNCHANGED local_compute
        /\ UNCHANGED <<bitmap_tail, reply, local_memory, alloc_memory_nodes,
                       alloc_compute_nodes, use_memory_fp, blocks>>

\* The chunks of all compute servers come from the first one's directory.
ComputeAlloc(t) ==
    LET s == Home[t]
        size == thread[t].size
    IN  /\ Doing(t, "compute") /\ LockFree(t)
        /\ \/ /\ use_memory_fp[s]
              /\ thread' = [thread EXCEPT ![t].pc = "memory"]
              /\ UNCHANGED <<local_compute, requests, alloc_lock>>
           \/ /\ ~use_memory_fp[s] /\ Fits(local_compute[s], size)
              /\ local_compute' = [local_compute EXCEPT ![s] = Advance(@, size)]
              /\ thread' = [thread EXCEPT ![t].pc = "place", ![t].addr = local_compute[s]]
              /\ UNCHANGED <<requests, alloc_lock>>
           \/ /\ ~use_memory_fp[s] /\ ~Fits(local_compute[s], size)
              /\ requests' = requests \cup {[from |-> t, to |-> MemoryNumber]}
              /\ alloc_lock' = alloc_lock \cup {t}
              /\ thread' = [thread EXCEPT ![t].pc = "compute_wait"]
              /\ UNCHANGED local_compute
        /\ UNCHANGED <<bitmap_tail, reply, local_memory, alloc_memory_nodes,
                       alloc_compute_nodes, use_memory_fp, blocks>>

ComputeChunk(t) ==
    LET s == Home[t]
    IN  /\ Doing(t, "compute_wait") /\ reply[t] # None
        /\ local_compute' = [local_compute EXCEPT ![s] = Advance(reply[t], thread[t].size)]
        /\ alloc_compute_nodes' =
               [alloc_compute_nodes EXCEPT ![s] = (@ + 1) % ComputeNumber]
        /\ thread' = [thread EXCEPT ![t].pc = "place", ![t].addr = reply[t]]
        /\ reply' = [reply EXCEPT ![t] = None]
        /\ alloc_lock' = alloc_lock \ {t}
        /\ UNCHANGED <<bitmap_tail, requests, local_memory, alloc_memory_nodes,
                       use_memory_fp, blocks>>

\* Mutant of Place: one block too late.
PlaceAtLimit(t) ==
    LET s == Home[t]
        addr == [thread[t].addr EXCEPT !.node = alloc_compute_nodes[s] + MemoryNumber]
    IN  /\ Doing(t, "place")
        /\ \/ /\ Offset(addr) > CacheLimit
              /\ use_memory_fp' = [use_memory_fp EXCEPT ![s] = TRUE]
              /\ thread' = [thread EXCEPT ![t].pc = "memory", ![t].addr = None]
              /\ UNCHANGED blocks
           \/ /\ Offset(addr) <= CacheLimit
              /\ blocks' = blocks \cup {Block(t, addr)}
              /\ thread' = [thread EXCEPT ![t].pc = "idle", ![t].addr = None]
              /\ UNCHANGED use_memory_fp
        /\ UNCHANGED <<bitmap_tail, requests, reply, local_memory, local_compute,
                       alloc_memory_nodes, alloc_compute_nodes, alloc_lock>>

\* Without the lock: the block is put on the node that is next in turn, or,
\* past the leaf cache, given up for one in a memory server.
Place(t) ==
    LET s == Home[t]
        addr == [thread[t].addr EXCEPT !.node = alloc_compute_nodes[s] + MemoryNumber]
    IN  /\ Doing(t, "place")
        /\ \/ /\ Offset(addr) >= CacheLimit
              /\ use_memory_fp' = [use_memory_fp EXCEPT ![s] = TRUE]
              /\ thread' = [thread EXCEPT ![t].pc = "memory", ![t].addr = None]
              /\ UNCHANGED blocks
           \/ /\ Offset(addr) < CacheLimit
              /\ blocks' = blocks \cup {Block(t, addr)}
              /\ thread' = [thread EXCEPT ![t].pc = "idle", ![t].addr = None]
              /\ UNCHANGED use_memory_fp
        /\ UNCHANGED <<bitmap_tail, requests, reply, local_memory, local_compute,
                       alloc_memory_nodes, alloc_compute_nodes, alloc_lock>>

-----------------------------------------------------------------------------
\* Directory::process_message, MALLOC.  alloc_chunck asserts that a chunk is
\* left.
Serve(n) ==
    /\ bitmap_tail[n] < Chunks
    /\ \E m \in requests :
          /\ m.to = n
          /\ requests' = requests \ {m}
          /\ reply' = [reply EXCEPT ![m.from] =
                          [node |-> n, chunk |-> bitmap_tail[n], off |-> 0]]
    /\ bitmap_tail' = [bitmap_tail EXCEPT ![n] = @ + 1]
    /\ UNCHANGED <<local_memory, local_compute, alloc_memory_nodes,
                   alloc_compute_nodes, use_memory_fp, alloc_lock, thread, blocks>>

AllocStep(t) == \/ Call(t) \/ MemoryAlloc(t) \/ MemoryChunk(t)
                \/ ComputeAlloc(t) \/ ComputeChunk(t) \/ Place(t)

AllocNext == (\E t \in Thread : AllocStep(t)) \/ (\E n \in Server : Serve(n))

AllocSpec == AllocInit /\ [][AllocNext]_allocVars

-----------------------------------------------------------------------------
(* Properties.                                                             *)

ThreadState == [pc : {"idle", "memory", "memory_wait", "compute", "compute_wait", "place"},
                calls : Nat, size : Size \cup {0},
                target : MemoryServer \cup {NoTarget}, addr : Addr]
BlockState == [by : Thread, call : Nat, node : Nat, chunk : Nat, off : Nat,
               size : Size \cup {0}]

\* Types of the variables.
AllocTypeOK ==
    /\ bitmap_tail \in [Server -> Nat]
    /\ requests \subseteq [from : Thread, to : Server]
    /\ reply \in [Thread -> Addr]
    /\ local_memory \in [ComputeServer -> Addr]
    /\ local_compute \in [ComputeServer -> Addr]
    /\ alloc_memory_nodes \in [ComputeServer -> MemoryServer]
    /\ alloc_compute_nodes \in [ComputeServer -> Server]
    /\ use_memory_fp \in [ComputeServer -> BOOLEAN]
    /\ alloc_lock \subseteq Thread
    /\ thread \in [Thread -> ThreadState]
    /\ blocks \subseteq BlockState

\* No two blocks that were returned, to whichever threads of whichever
\* servers, by memory_alloc, compute_alloc or its fallback, share a byte:
\* although a chunk's node is replaced after the lock has been released.
Disjoint ==
    \A b, c \in blocks :
        b # c /\ b.node = c.node /\ b.chunk = c.chunk =>
            b.off + b.size <= c.off \/ c.off + c.size <= b.off

\* Every block lies in the memory of a node that exists, outside the region
\* that is reserved at its head, and within one chunk; a block of a compute
\* server begins below the limit that compute_alloc tests, which leaves a
\* megabyte of the leaf cache for its end.
Placed ==
    \A b \in blocks :
        /\ b.node \in Server
        /\ Reserved < b.chunk /\ b.chunk < Chunks /\ b.off + b.size <= kChunkSize
        /\ b.node \in ComputeServer => Offset(b) < CacheLimit
=============================================================================

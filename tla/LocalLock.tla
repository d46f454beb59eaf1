------------------------------ MODULE LocalLock ------------------------------
(***************************************************************************)
(* One LocalLockNode of the LocalLockTable of a compute server             *)
(* (LocalLockTable.h) and the threads whose keys hash to it: read          *)
(* delegation (acquire_local_read_lock, release_local_read_lock) and write *)
(* combining (acquire_local_write_lock, get_combining_value,               *)
(* release_local_write_lock), called from SkipVectorDM::read and ::write.  *)
(*                                                                         *)
(* The two queues of a node have the same fields, indexed here by a side,  *)
(* "r" or "w".  Every access to a field that another thread may touch is a *)
(* step.  The index behind the node is a register per key, which is what   *)
(* LeafIndex implements; a value is named after the thread that writes it. *)
(***************************************************************************)
EXTENDS Integers, FiniteSets

CONSTANTS Thread, Key,
          Sides,        \* Sides[t]: what thread t does, a subset of Side
          MaxOps,       \* bound: MaxOps[t] operations of thread t
          TicketMod,    \* tickets are integers of this modulus (2^32)
          FirstTicket,  \* the next ticket of both queues, after so many finished calls
          MaxHandover,  \* MAX_HOCL_HANDOVER
          FreedIs,      \* whether a deleted key may look like the caller's key
          Null

ASSUME LocalLockAssumption ==
    /\ TicketMod \in Nat /\ FirstTicket \in 0 .. TicketMod - 1 /\ MaxHandover \in Nat
    /\ IsFiniteSet(Thread) /\ Cardinality(Thread) < TicketMod
    /\ FreedIs \subseteq BOOLEAN /\ FreedIs # {}
    /\ Null \notin Thread /\ Null \notin Key

Side == {"r", "w"}
Other(s) == IF s = "r" THEN "w" ELSE "r"

VARIABLES
    current, ticket,  \* the queue of each side
    handover,         \* read_handover, write_handover
    window,           \* read_window, write_window
    window_start,
    unique,           \* unique_read_key, unique_write_key: Null or a pointer
    lock,             \* r_lock, w_lock
    ret,              \* ret_value, and (auxiliary) the key it was read for
    wc_buffer,
    mem,              \* mem[k]: the value the index holds for k
    ops,              \* ops[t]: operations thread t has begun
    th                \* th[t]: the operation thread t is in

node == <<current, ticket, handover, window, window_start, unique, lock, ret, wc_buffer>>
vars == <<node, mem, ops, th>>

\* A pointer to a key is the key and the allocation: thread and operation.
Pointer == [key : Key, by : Thread, n : Nat]

\* my: the ticket; seen: a loaded ticket counter; cur: the other side's current,
\* then what is to be its window; ptr: a loaded pointer; first and second: what
\* acquire returned (handed over, conflict).  met (auxiliary): the index was
\* written for this key since the operation began.
NoOp == [pc |-> "idle", side |-> "r", key |-> Null, val |-> Null, my |-> 0, seen |-> 0,
         cur |-> 0, ptr |-> Null, first |-> FALSE, second |-> FALSE, met |-> FALSE]

\* The constructor, and any node at rest: a queue that is empty again has
\* only its counters advanced.
Init ==
    /\ current = [s \in Side |-> FirstTicket] /\ ticket = [s \in Side |-> FirstTicket]
    /\ handover = [s \in Side |-> FALSE] /\ window = [s \in Side |-> 0]
    /\ window_start = FALSE
    /\ unique = [s \in Side |-> Null] /\ lock = [s \in Side |-> FALSE]
    /\ ret = [key |-> Null, val |-> Null] /\ wc_buffer = Null
    /\ mem = [k \in Key |-> Null]
    /\ ops = [t \in Thread |-> 0] /\ th = [t \in Thread |-> NoOp]

-----------------------------------------------------------------------------
At(t, p) == th[t].pc = p

Goto(t, p) == th' = [th EXCEPT ![t].pc = p]

\* SkipVectorDM::read and ::write once acquire has returned "not handed over".
Work(s) == IF s = "w" THEN "look" ELSE "remote"

\* Whether *ptr is k.  The memory of a deleted key holds anything.
Holds(s, ptr, k) == IF ptr = unique[s] THEN {ptr.key = k} ELSE FreedIs

-----------------------------------------------------------------------------
(* acquire_local_read_lock and acquire_local_write_lock.                   *)

\* unique_key.compare_exchange_strong(nullptr, new Key(k)).
Acquire(t, s, k) ==
    LET new == [key |-> k, by |-> t, n |-> ops[t]]
        o == [NoOp EXCEPT !.side = s, !.key = k, !.val = IF s = "w" THEN t ELSE Null]
    IN  /\ At(t, "idle") /\ ops[t] < MaxOps[t] /\ s \in Sides[t]
        /\ ops' = [ops EXCEPT ![t] = @ + 1]
        /\ IF unique[s] = Null
             THEN /\ unique' = [unique EXCEPT ![s] = new]
                  /\ th' = [th EXCEPT ![t] = [o EXCEPT !.pc = "admit"]]
             ELSE /\ th' = [th EXCEPT ![t] = [o EXCEPT !.pc = "deref", !.ptr = unique[s]]]
                  /\ UNCHANGED unique
        /\ UNCHANGED <<current, ticket, handover, window, window_start, lock, ret,
                       wc_buffer, mem>>

\* *unique_key != k: conflict keys.
Deref(t) ==
    /\ At(t, "deref")
    /\ \E same \in Holds(th[t].side, th[t].ptr, th[t].key) :
         th' = [th EXCEPT ![t].second = ~same, ![t].ptr = Null,
                          ![t].pc = IF same THEN "admit" ELSE Work(th[t].side)]
    /\ UNCHANGED <<node, mem, ops>>

\* wc_buffer = v.
StoreCombine(t) ==
    /\ At(t, "admit") /\ th[t].side = "w"
    /\ wc_buffer' = th[t].val
    /\ Goto(t, "take")
    /\ UNCHANGED <<current, ticket, handover, window, window_start, unique, lock, ret,
                   mem, ops>>

\* A reader turns away from a queue longer than MAX_HOCL_HANDOVER; it loads
\* the two counters one after the other.
CountQueue(t) ==
    /\ At(t, "admit") /\ th[t].side = "r"
    /\ th' = [th EXCEPT ![t].seen = ticket["r"], ![t].pc = "count"]
    /\ UNCHANGED <<node, mem, ops>>

CheckQueue(t) ==
    LET long == (th[t].seen - current["r"]) % TicketMod > MaxHandover
    IN  /\ At(t, "count")
        /\ th' = [th EXCEPT ![t].second = long, ![t].seen = 0,
                            ![t].pc = IF long THEN "remote" ELSE "take"]
        /\ UNCHANGED <<node, mem, ops>>

TakeTicket(t) ==
    LET s == th[t].side
    IN  /\ At(t, "take")
        /\ ticket' = [ticket EXCEPT ![s] = (@ + 1) % TicketMod]
        /\ th' = [th EXCEPT ![t].my = ticket[s], ![t].pc = "wait"]
        /\ UNCHANGED <<current, handover, window, window_start, unique, lock, ret,
                       wc_buffer, mem, ops>>

\* Mutant of Enter: tickets are compared as if they never wrapped.
EnterInOrder(t) ==
    LET s == th[t].side
        mine == unique[s] # Null /\ unique[s].key = th[t].key
        given == mine /\ handover[s] /\ window[s] > 0
    IN  /\ At(t, "wait") /\ th[t].my <= current[s]
        /\ handover' = IF mine THEN [handover EXCEPT ![s] = given] ELSE handover
        /\ th' = [th EXCEPT ![t].first = given, ![t].second = ~mine,
                            ![t].pc = IF ~mine THEN "drain"
                                      ELSE IF given THEN "release" ELSE Work(s)]
        /\ UNCHANGED <<current, ticket, window, window_start, unique, lock, ret,
                       wc_buffer, mem, ops>>

\* Mutant of Enter: the key is not checked again.
EnterUnchecked(t) ==
    LET s == th[t].side
        given == handover[s] /\ window[s] > 0
    IN  /\ At(t, "wait") /\ th[t].my = current[s]
        /\ handover' = [handover EXCEPT ![s] = given]
        /\ th' = [th EXCEPT ![t].first = given, ![t].second = FALSE,
                            ![t].pc = IF given THEN "release" ELSE Work(s)]
        /\ UNCHANGED <<current, ticket, window, window_start, unique, lock, ret,
                       wc_buffer, mem, ops>>

\* The ticket is called: check the key again, then handed over or not.
Enter(t) ==
    LET s == th[t].side
        mine == unique[s] # Null /\ unique[s].key = th[t].key
        given == mine /\ handover[s] /\ window[s] > 0
    IN  /\ At(t, "wait") /\ th[t].my = current[s]
        /\ handover' = IF mine THEN [handover EXCEPT ![s] = given] ELSE handover
        /\ th' = [th EXCEPT ![t].first = given, ![t].second = ~mine,
                            ![t].pc = IF ~mine THEN "drain"
                                      ELSE IF given THEN "release" ELSE Work(s)]
        /\ UNCHANGED <<current, ticket, window, window_start, unique, lock, ret,
                       wc_buffer, mem, ops>>

-----------------------------------------------------------------------------
(* get_combining_value, and the index.                                     *)

LookKey(t) ==
    /\ At(t, "look")
    /\ th' = [th EXCEPT ![t].ptr = unique["w"],
                        ![t].pc = IF unique["w"] = Null THEN "remote" ELSE "compare"]
    /\ UNCHANGED <<node, mem, ops>>

CompareKey(t) ==
    /\ At(t, "compare")
    /\ \E same \in Holds("w", th[t].ptr, th[t].key) :
         th' = [th EXCEPT ![t].ptr = Null, ![t].pc = IF same THEN "copy" ELSE "remote"]
    /\ UNCHANGED <<node, mem, ops>>

CopyCombined(t) ==
    /\ At(t, "copy")
    /\ th' = [th EXCEPT ![t].val = wc_buffer, ![t].pc = "remote"]
    /\ UNCHANGED <<node, mem, ops>>

\* leaf_search or leaf_insert takes effect.  Who met a conflict returns.
Remote(t) ==
    LET s == th[t].side
        k == th[t].key
        met == [u \in Thread |-> \/ th[u].met
                                 \/ s = "w" /\ ~At(u, "idle") /\ th[u].key = k]
        v == IF s = "r" THEN mem[k] ELSE th[t].val
    IN  /\ At(t, "remote")
        /\ mem' = IF s = "w" THEN [mem EXCEPT ![k] = v] ELSE mem
        /\ th' = [u \in Thread |->
                    IF u # t THEN [th[u] EXCEPT !.met = met[u]]
                    ELSE IF th[t].second THEN NoOp
                    ELSE [th[t] EXCEPT !.met = met[t], !.val = v, !.pc = "release"]]
        /\ UNCHANGED <<node, ops>>

-----------------------------------------------------------------------------
(* release_local_read_lock and release_local_write_lock.                   *)

\* Mutant of LoadTicket: the winner does not leave its result.
LoadTicketKeeps(t) ==
    LET s == th[t].side
        given == s = "r" /\ handover[s]
    IN  /\ At(t, "release")
        /\ th' = [th EXCEPT ![t].val = IF given THEN ret.val ELSE @,
                            ![t].seen = ticket[s], ![t].pc = "start"]
        /\ UNCHANGED <<current, ticket, handover, window, window_start, unique, lock,
                       ret, wc_buffer, mem, ops>>

\* The winner of a read leaves its result, the others take it.  Then the
\* ticket counter is loaded.
LoadTicket(t) ==
    LET s == th[t].side
        given == s = "r" /\ handover[s]
    IN  /\ At(t, "release")
        /\ ret' = IF s = "r" /\ ~given THEN [key |-> th[t].key, val |-> th[t].val] ELSE ret
        /\ th' = [th EXCEPT ![t].val = IF given THEN ret.val ELSE @,
                            ![t].seen = ticket[s], ![t].pc = "start"]
        /\ UNCHANGED <<current, ticket, handover, window, window_start, unique, lock,
                       wc_buffer, mem, ops>>

\* window_start.compare_exchange_strong(false, true).
StartWindow(t) ==
    LET s == th[t].side
        won == ~handover[s] /\ ~window_start
    IN  /\ At(t, "start")
        /\ window_start' = (window_start \/ won)
        /\ Goto(t, IF ~won THEN "flag" ELSE IF s = "r" THEN "own" ELSE "other")
        /\ UNCHANGED <<current, ticket, handover, window, unique, lock, ret, wc_buffer,
                       mem, ops>>

\* The window of the thread's own side is what waits for a ticket it has seen.
SetOwnWindow(t) ==
    LET s == th[t].side
    IN  /\ At(t, "own")
        /\ window' = [window EXCEPT ![s] = (th[t].seen - current[s]) % TicketMod]
        /\ Goto(t, IF s = "r" THEN "other" ELSE "flag")
        /\ UNCHANGED <<current, ticket, handover, window_start, unique, lock, ret,
                       wc_buffer, mem, ops>>

\* The other side's window is set with the lock of that side, which keeps out
\* its releases but not the conflict path of its acquire.
LockOther(t) ==
    LET o == Other(th[t].side)
    IN  /\ At(t, "other") /\ ~lock[o]
        /\ lock' = [lock EXCEPT ![o] = TRUE]
        /\ th' = [th EXCEPT ![t].cur = current[o], ![t].pc = "load"]
        /\ UNCHANGED <<current, ticket, handover, window, window_start, unique, ret,
                       wc_buffer, mem, ops>>

LoadOther(t) ==
    /\ At(t, "load")
    /\ th' = [th EXCEPT ![t].cur = (ticket[Other(th[t].side)] - @) % TicketMod,
                        ![t].pc = "store"]
    /\ UNCHANGED <<node, mem, ops>>

SetOtherWindow(t) ==
    LET s == th[t].side
    IN  /\ At(t, "store")
        /\ window' = [window EXCEPT ![Other(s)] = th[t].cur]
        /\ lock' = [lock EXCEPT ![Other(s)] = FALSE]
        /\ th' = [th EXCEPT ![t].cur = 0, ![t].pc = IF s = "r" THEN "flag" ELSE "own"]
        /\ UNCHANGED <<current, ticket, handover, window_start, unique, ret, wc_buffer,
                       mem, ops>>

\* Is anybody waiting?  If not, the next epoch: the key is deleted.
SetHandover(t) ==
    LET s == th[t].side
        more == th[t].seen # (current[s] + 1) % TicketMod
    IN  /\ At(t, "flag")
        /\ handover' = [handover EXCEPT ![s] = more]
        /\ unique' = IF more THEN unique ELSE [unique EXCEPT ![s] = Null]
        /\ Goto(t, "lock")
        /\ UNCHANGED <<current, ticket, window, window_start, lock, ret, wc_buffer,
                       mem, ops>>

LockSide(t) ==
    LET s == th[t].side
    IN  /\ At(t, "lock") /\ ~lock[s]
        /\ lock' = [lock EXCEPT ![s] = TRUE]
        /\ Goto(t, "drain")
        /\ UNCHANGED <<current, ticket, handover, window, window_start, unique, ret,
                       wc_buffer, mem, ops>>

-----------------------------------------------------------------------------
(* The end of a release, with the lock, and of an acquire that met a       *)
(* conflict, without it.                                                   *)

\* if(window): without the lock the window may be set before it is decremented.
DrainWindow(t) ==
    /\ At(t, "drain")
    /\ Goto(t, IF window[th[t].side] > 0 THEN "dec" ELSE "bump")
    /\ UNCHANGED <<node, mem, ops>>

Decrement(t) ==
    /\ At(t, "dec")
    /\ window' = [window EXCEPT ![th[t].side] = (@ - 1) % TicketMod]
    /\ Goto(t, "check")
    /\ UNCHANGED <<current, ticket, handover, window_start, unique, lock, ret, wc_buffer,
                   mem, ops>>

\* if(!read_window && !write_window): one after the other.
CheckRead(t) ==
    /\ At(t, "check")
    /\ Goto(t, IF window["r"] = 0 THEN "check2" ELSE "bump")
    /\ UNCHANGED <<node, mem, ops>>

CheckWrite(t) ==
    /\ At(t, "check2")
    /\ Goto(t, IF window["w"] = 0 THEN "reset" ELSE "bump")
    /\ UNCHANGED <<node, mem, ops>>

ResetStart(t) ==
    /\ At(t, "reset")
    /\ window_start' = FALSE
    /\ Goto(t, "bump")
    /\ UNCHANGED <<current, ticket, handover, window, unique, lock, ret, wc_buffer,
                   mem, ops>>

\* Mutant of CallNext: the lock is not released.
CallNextLocked(t) ==
    LET s == th[t].side
    IN  /\ At(t, "bump")
        /\ current' = [current EXCEPT ![s] = (@ + 1) % TicketMod]
        /\ IF th[t].second THEN Goto(t, Work(s)) ELSE th' = [th EXCEPT ![t] = NoOp]
        /\ UNCHANGED <<ticket, handover, window, window_start, unique, lock, ret, wc_buffer,
                       mem, ops>>

\* current.fetch_add(1), and the unlock.  A conflict goes on to the index.
CallNext(t) ==
    LET s == th[t].side
    IN  /\ At(t, "bump")
        /\ current' = [current EXCEPT ![s] = (@ + 1) % TicketMod]
        /\ IF th[t].second
             THEN Goto(t, Work(s)) /\ UNCHANGED lock
             ELSE th' = [th EXCEPT ![t] = NoOp] /\ lock' = [lock EXCEPT ![s] = FALSE]
        /\ UNCHANGED <<ticket, handover, window, window_start, unique, ret, wc_buffer,
                       mem, ops>>

-----------------------------------------------------------------------------
Step(t) ==
    \/ Deref(t) \/ StoreCombine(t) \/ CountQueue(t) \/ CheckQueue(t) \/ TakeTicket(t)
    \/ Enter(t) \/ LookKey(t) \/ CompareKey(t) \/ CopyCombined(t) \/ Remote(t)
    \/ LoadTicket(t) \/ StartWindow(t) \/ SetOwnWindow(t)
    \/ LockOther(t) \/ LoadOther(t) \/ SetOtherWindow(t)
    \/ SetHandover(t) \/ LockSide(t) \/ DrainWindow(t) \/ Decrement(t)
    \/ CheckRead(t) \/ CheckWrite(t) \/ ResetStart(t) \/ CallNext(t)

Next == \E t \in Thread : Step(t) \/ \E s \in Side, k \in Key : Acquire(t, s, k)

Spec == Init /\ [][Next]_vars

\* The server keeps running every thread.
FairSpec == Spec /\ \A t \in Thread : WF_vars(Step(t))

-----------------------------------------------------------------------------
(* Properties.                                                             *)

Pcs == {"idle", "deref", "admit", "count", "take", "wait", "look", "compare", "copy",
        "remote", "release", "start", "own", "other", "load", "store", "flag", "lock",
        "drain", "dec", "check", "check2", "reset", "bump"}
Tickets == 0 .. TicketMod - 1
Values == Thread \cup {Null}
Operation == [pc : Pcs, side : Side, key : Key \cup {Null}, val : Values, my : Tickets,
              seen : Tickets, cur : Tickets, ptr : Pointer \cup {Null}, first : BOOLEAN,
              second : BOOLEAN, met : BOOLEAN]

\* The fields of a LocalLockNode and of an operation have the values the code
\* gives them; a ticket, a window or a difference of two stays a uint32_t.
TypeOK ==
    /\ current \in [Side -> Tickets] /\ ticket \in [Side -> Tickets]
    /\ handover \in [Side -> BOOLEAN] /\ window \in [Side -> Tickets]
    /\ window_start \in BOOLEAN
    /\ unique \in [Side -> Pointer \cup {Null}]
    /\ lock \in [Side -> BOOLEAN]
    /\ ret \in [key : Key \cup {Null}, val : Values] /\ wc_buffer \in Values
    /\ mem \in [Key -> Values]
    /\ ops \in [Thread -> Nat]
    /\ th \in [Thread -> Operation]

\* t has been called and has not called the next.
Holding(t) ==
    \/ th[t].pc \in {"release", "start", "own", "other", "load", "store", "flag", "lock",
                     "drain", "dec", "check", "check2", "reset", "bump"}
    \/ th[t].pc \in {"look", "compare", "copy", "remote"} /\ ~th[t].second

\* One thread at a time is called on each side of a node.
Exclusive ==
    \A t, u \in Thread :
        t # u /\ Holding(t) /\ Holding(u) => th[t].side # th[u].side

\* From the second look at the key until the end of its epoch the thread that
\* was called keeps its key in the node: nobody deletes or replaces it.
KeyHeld ==
    \A t \in Thread :
        /\ Holding(t) /\ ~th[t].second
        /\ th[t].pc \notin {"lock", "drain", "dec", "check", "check2", "reset", "bump"}
        => unique[th[t].side] # Null /\ unique[th[t].side].key = th[t].key

\* A read that is handed over takes a result that was read for its own key.
DelegatedKey ==
    \A t \in Thread :
        Holding(t) /\ th[t].side = "r" /\ th[t].first => ret.key = th[t].key

\* A write that is handed over began before the index was written for it.
InWindow ==
    \A t \in Thread :
        Holding(t) /\ th[t].side = "w" /\ th[t].first => th[t].met

\* Every operation returns.
Completes == \A t \in Thread : []<>At(t, "idle")
=============================================================================

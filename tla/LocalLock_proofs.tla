--------------------------- MODULE LocalLock_proofs ---------------------------
(***************************************************************************)
(* Proofs about LocalLock, for every set of threads smaller than the       *)
(* modulus of the tickets, every set of keys, every starting ticket and    *)
(* every window: the ticket queue of a side calls one thread at a time,    *)
(* the key of the thread that was called stays in the node, and a          *)
(* delegated result was read for the key of the thread that takes it.      *)
(***************************************************************************)
EXTENDS LocalLock, FiniteSetTheorems, TLAPS

-----------------------------------------------------------------------------
(* The inductive invariant.                                                *)

\* t has taken a ticket and has not called the next.
Queued(t) == th[t].pc = "wait" \/ Holding(t)

Queue(s) == {t \in Thread : th[t].side = s /\ Queued(t)}

\* How far the ticket of t is from being called.
Offset(t) == (th[t].my - current[th[t].side]) % TicketMod

\* The tickets of a side that are taken and not passed.
Outstanding(s) == (ticket[s] - current[s]) % TicketMod

\* The tickets taken and not passed are the consecutive ones from current,
\* one for each thread in the queue, so the counters never wrap onto each
\* other.  Who is called has the current one.
QueueOK ==
    \A s \in Side :
        /\ Outstanding(s) = Cardinality(Queue(s))
        /\ \A t \in Queue(s) : Offset(t) < Cardinality(Queue(s))
        /\ \A t, u \in Queue(s) : t # u => th[t].my # th[u].my
        /\ \A t \in Queue(s) : Holding(t) => th[t].my = current[s]

\* An operation has a key.
KeyKnown == \A t \in Thread : th[t].pc # "idle" => th[t].key \in Key

\* t was called for its key and has not ended the epoch.
Serving(t) ==
    /\ Holding(t) /\ ~th[t].second
    /\ th[t].pc \notin {"lock", "drain", "dec", "check", "check2", "reset", "bump"}

\* Only an operation without a conflict reaches a release.
NoConflict ==
    \A t \in Thread :
        th[t].pc \in {"release", "start", "own", "other", "load", "store", "flag"} => ~th[t].second

\* While reads hand over, the result in the node is one for the key in it.
HandoverKey == handover["r"] => unique["r"] # Null /\ ret.key = unique["r"].key

\* A reader that has left or taken the result finds its key there, and one
\* that was handed the result has it until the end; reads hand over until it
\* decides.
ResultOf(t) ==
    /\ th[t].pc \in {"start", "own", "other", "load", "store", "flag"} => ret.key = th[t].key
    /\ th[t].first =>
         /\ ret.key = th[t].key
         /\ th[t].pc \in {"release", "start", "own", "other", "load", "store", "flag"} => handover["r"]
         /\ th[t].pc \notin {"look", "compare", "copy", "remote"}

ResultOK == \A t \in Thread : Holding(t) /\ th[t].side = "r" => ResultOf(t)

IInv ==
    TypeOK /\ KeyKnown /\ QueueOK /\ NoConflict /\ KeyHeld /\ HandoverKey /\ ResultOK

-----------------------------------------------------------------------------
(* Arithmetic of the tickets.                                              *)

\* A difference of tickets, reduced, is a ticket.
LEMMA ModRange ==
    ASSUME NEW n \in Nat \ {0}, NEW k \in Int
    PROVE  k % n \in 0 .. n - 1
OBVIOUS

\* A ticket is its own remainder.
LEMMA ModSmall ==
    ASSUME NEW n \in Nat \ {0}, NEW k \in 0 .. n - 1
    PROVE  k % n = k
OBVIOUS

\* A negative difference of tickets wraps once.
LEMMA ModNegative ==
    ASSUME NEW n \in Nat \ {0}, NEW k \in Int, -n <= k, k < 0
    PROVE  k % n = k + n
OBVIOUS

\* The last ticket is followed by 0.
LEMMA ModSelf ==
    ASSUME NEW n \in Nat \ {0}
    PROVE  n % n = 0
OBVIOUS

\* The number of tickets from b to a.
LEMMA ModDifference ==
    ASSUME NEW n \in Nat \ {0}, NEW a \in 0 .. n - 1, NEW b \in 0 .. n - 1
    PROVE  (a - b) % n = IF b <= a THEN a - b ELSE a - b + n
<1>1. CASE b <= a
  <2>1. a - b \in 0 .. n - 1
    BY <1>1
  <2>2. QED
    BY <1>1, <2>1, ModSmall
<1>2. CASE ~(b <= a)
  <2>1. a - b \in Int /\ -n <= a - b /\ a - b < 0
    BY <1>2
  <2>2. QED
    BY <1>2, <2>1, ModNegative
<1>3. QED
  BY <1>1, <1>2

\* The ticket after a.
LEMMA ModNext ==
    ASSUME NEW n \in Nat \ {0}, NEW a \in 0 .. n - 1
    PROVE  (a + 1) % n = IF a = n - 1 THEN 0 ELSE a + 1
<1>1. CASE a = n - 1
  BY <1>1, ModSelf
<1>2. CASE a # n - 1
  <2>1. a + 1 \in 0 .. n - 1
    BY <1>2
  <2>2. QED
    BY <1>2, <2>1, ModSmall
<1>3. QED
  BY <1>1, <1>2

\* There are at least two tickets as soon as there is a thread.
LEMMA TicketModPositive == TicketMod \in Nat \ {0}
BY LocalLockAssumption

-----------------------------------------------------------------------------
(* Types.                                                                  *)

\* Zenon is the prover below; a leaf that needs arithmetic or the fields of a
\* changed record cites SMT.
USE Zenon

\* A step that only moves one operation on.
LEMMA GotoTyped ==
    ASSUME th \in [Thread -> Operation], NEW t \in Thread, NEW p \in Pcs, Goto(t, p)
    PROVE  th' \in [Thread -> Operation]
BY DEF Goto, Operation

\* A thread outside an operation.
LEMMA NoOpTyped == NoOp \in Operation
<1>1. 0 \in Tickets
  BY TicketModPositive, SMT DEF Tickets
<1>2. QED
  BY <1>1 DEF NoOp, Operation, Pcs, Values, Side

\* What an operation starts with.
LEMMA AcquireStarts ==
    ASSUME TypeOK, NEW t \in Thread, NEW s \in Side, NEW k \in Key, Acquire(t, s, k)
    PROVE  th'[t] \in Operation /\ th'[t].pc \in {"admit", "deref"} /\ th'[t].key = k
<1> DEFINE o == [NoOp EXCEPT !.side = s, !.key = k, !.val = IF s = "w" THEN t ELSE Null]
<1>1. o \in Operation /\ o.key = k
  <2>1. (IF s = "w" THEN t ELSE Null) \in Values
    BY DEF Values
  <2>2. QED
    BY <2>1, NoOpTyped DEF Operation
<1>2. \/ th'[t] = [o EXCEPT !.pc = "admit"]
      \/ unique[s] \in Pointer /\ th'[t] = [o EXCEPT !.pc = "deref", !.ptr = unique[s]]
  BY DEF Acquire, TypeOK
<1> HIDE DEF o
<1>3. QED
  BY <1>1, <1>2 DEF Operation, Pcs

\* acquire keeps the types.
LEMMA AcquireTyped ==
    ASSUME TypeOK, NEW t \in Thread, NEW s \in Side, NEW k \in Key, Acquire(t, s, k)
    PROVE  TypeOK'
<1>1. [key |-> k, by |-> t, n |-> ops[t]] \in Pointer
  BY DEF TypeOK, Pointer
<1>2. th' = [th EXCEPT ![t] = th'[t]]
  BY DEF Acquire, TypeOK
<1>3. th' \in [Thread -> Operation]
  BY <1>2, AcquireStarts DEF TypeOK
<1>4. unique' \in [Side -> Pointer \cup {Null}]
  BY <1>1, SMT DEF Acquire, TypeOK
<1>5. ops' \in [Thread -> Nat]
  BY SMT DEF Acquire, TypeOK
<1>6. QED
  BY <1>3, <1>4, <1>5 DEF Acquire, TypeOK

\* The steps of acquire_local_read_lock and acquire_local_write_lock that
\* follow keep the types.
LEMMA AdmitTyped ==
    ASSUME TypeOK, NEW t \in Thread,
           \/ Deref(t) \/ StoreCombine(t) \/ CountQueue(t) \/ CheckQueue(t)
           \/ TakeTicket(t) \/ Enter(t)
    PROVE  TypeOK'
<1> DEFINE s == th[t].side
<1>0. th[t] \in Operation /\ s \in Side
  BY DEF TypeOK, Operation
<1>1. CASE Deref(t)
  <2>1. PICK same \in Holds(s, th[t].ptr, th[t].key) :
           th' = [th EXCEPT ![t].second = ~same, ![t].ptr = Null,
                            ![t].pc = IF same THEN "admit" ELSE Work(s)]
    BY <1>1, Zenon DEF Deref
  <2>2. (IF same THEN "admit" ELSE Work(s)) \in Pcs
    BY DEF Work, Pcs
  <2>3. (~same) \in BOOLEAN
    OBVIOUS
  <2>4. th' \in [Thread -> Operation]
    BY <2>1, <2>2, <2>3, <1>0 DEF TypeOK, Operation
  <2>5. QED
    BY <2>4, <1>1, Zenon DEF Deref, TypeOK, node
<1>2. CASE StoreCombine(t)
  <2>1. th' \in [Thread -> Operation]
    BY <1>2, GotoTyped DEF StoreCombine, TypeOK, Pcs
  <2>2. wc_buffer' \in Values
    BY <1>0, <1>2 DEF StoreCombine, Operation
  <2>3. QED
    BY <2>1, <2>2, <1>2 DEF StoreCombine, TypeOK
<1>3. CASE CountQueue(t)
  <2>1. ticket["r"] \in Tickets
    BY DEF TypeOK, Side
  <2>2. th' \in [Thread -> Operation]
    BY <2>1, <1>0, <1>3 DEF CountQueue, TypeOK, Operation, Pcs
  <2>3. QED
    BY <2>2, <1>3 DEF CountQueue, TypeOK, node
<1>4. CASE CheckQueue(t)
  <2> DEFINE long == (th[t].seen - current["r"]) % TicketMod > MaxHandover
  <2>1. th' = [th EXCEPT ![t].second = long, ![t].seen = 0,
                         ![t].pc = IF long THEN "remote" ELSE "take"]
    BY <1>4 DEF CheckQueue
  <2>2. long \in BOOLEAN
    BY SMT
  <2>3. 0 \in Tickets
    BY TicketModPositive, SMT DEF Tickets
  <2>4. (IF long THEN "remote" ELSE "take") \in Pcs
    BY DEF Pcs
  <2> HIDE DEF long
  <2>5. th' \in [Thread -> Operation]
    BY <2>1, <2>2, <2>3, <2>4, <1>0 DEF TypeOK, Operation
  <2>6. QED
    BY <2>5, <1>4 DEF CheckQueue, TypeOK, node
<1>5. CASE TakeTicket(t)
  <2>1. th' \in [Thread -> Operation]
    BY <1>0, <1>5 DEF TakeTicket, TypeOK, Operation, Pcs
  <2>2. (ticket[s] + 1) % TicketMod \in Tickets
    <3>1. ticket[s] \in Tickets
      BY <1>0 DEF TypeOK
    <3>2. ticket[s] + 1 \in Int
      BY <3>1, SMT DEF Tickets
    <3>3. QED
      BY <3>2, ModRange, TicketModPositive DEF Tickets
  <2>3. ticket' \in [Side -> Tickets]
    BY <2>2, <1>5 DEF TakeTicket, TypeOK
  <2>4. QED
    BY <2>1, <2>3, <1>5 DEF TakeTicket, TypeOK
<1>6. CASE Enter(t)
  <2> DEFINE mine == unique[s] # Null /\ unique[s].key = th[t].key
             given == mine /\ handover[s] /\ window[s] > 0
  <2>1. /\ handover' = IF mine THEN [handover EXCEPT ![s] = given] ELSE handover
        /\ th' = [th EXCEPT ![t].first = given, ![t].second = ~mine,
                            ![t].pc = IF ~mine THEN "drain"
                                      ELSE IF given THEN "release" ELSE Work(s)]
    BY <1>6 DEF Enter
  <2>2. mine \in BOOLEAN /\ given \in BOOLEAN
    OBVIOUS
  <2>3. (IF ~mine THEN "drain" ELSE IF given THEN "release" ELSE Work(s)) \in Pcs
    BY DEF Work, Pcs
  <2> HIDE DEF mine, given
  <2>4. th' \in [Thread -> Operation]
    BY <2>1, <2>2, <2>3, <1>0 DEF TypeOK, Operation
  <2>5. handover' \in [Side -> BOOLEAN]
    BY <2>1, <2>2 DEF TypeOK
  <2>6. QED
    BY <2>4, <2>5, <1>6 DEF Enter, TypeOK
<1>7. QED
  BY <1>1, <1>2, <1>3, <1>4, <1>5, <1>6

\* The steps at the index keep the types.
LEMMA WorkTyped ==
    ASSUME TypeOK, KeyKnown, NEW t \in Thread,
           LookKey(t) \/ CompareKey(t) \/ CopyCombined(t) \/ Remote(t)
    PROVE  TypeOK'
<1> DEFINE s == th[t].side
           k == th[t].key
<1>0. th[t] \in Operation /\ s \in Side
  BY DEF TypeOK, Operation
<1>1. CASE LookKey(t)
  <2>1. unique["w"] \in Pointer \cup {Null}
    BY DEF TypeOK, Side
  <2>2. (IF unique["w"] = Null THEN "remote" ELSE "compare") \in Pcs
    BY DEF Pcs
  <2>3. th' \in [Thread -> Operation]
    BY <2>1, <2>2, <1>0, <1>1 DEF LookKey, TypeOK, Operation
  <2>4. QED
    BY <2>3, <1>1 DEF LookKey, TypeOK, node
<1>2. CASE CompareKey(t)
  <2>1. PICK p \in {"copy", "remote"} : th' = [th EXCEPT ![t].ptr = Null, ![t].pc = p]
    BY <1>2 DEF CompareKey
  <2>2. p \in Pcs
    BY DEF Pcs
  <2>3. th' \in [Thread -> Operation]
    BY <2>1, <2>2, <1>0 DEF TypeOK, Operation
  <2>4. QED
    BY <2>3, <1>2, Zenon DEF CompareKey, TypeOK, node
<1>3. CASE CopyCombined(t)
  <2>1. th' \in [Thread -> Operation]
    BY <1>0, <1>3 DEF CopyCombined, TypeOK, Operation, Pcs
  <2>2. QED
    BY <2>1, <1>3 DEF CopyCombined, TypeOK, node
<1>4. CASE Remote(t)
  <2> DEFINE met == [u \in Thread |-> \/ th[u].met
                                      \/ s = "w" /\ ~At(u, "idle") /\ th[u].key = k]
             v == IF s = "r" THEN mem[k] ELSE th[t].val
             o == [th[t] EXCEPT !.met = met[t], !.val = v, !.pc = "release"]
  <2>1. k \in Key
    BY <1>4 DEF Remote, At, KeyKnown
  <2>2. /\ th' = [u \in Thread |-> IF u # t THEN [th[u] EXCEPT !.met = met[u]]
                                   ELSE IF th[t].second THEN NoOp ELSE o]
        /\ mem' = IF s = "w" THEN [mem EXCEPT ![k] = v] ELSE mem
        /\ UNCHANGED <<node, ops>>
    BY <1>4 DEF Remote
  <2>3. met \in [Thread -> BOOLEAN]
    OBVIOUS
  <2>4. v \in Values
    BY <2>1, <1>0 DEF TypeOK, Operation
  <2> HIDE DEF met, v
  <2>5. mem' \in [Key -> Values]
    BY <2>2, <2>4 DEF TypeOK
  <2>6. o \in Operation
    BY <2>3, <2>4, <1>0 DEF Operation, Pcs
  <2>7. ASSUME NEW u \in Thread
        PROVE  [th[u] EXCEPT !.met = met[u]] \in Operation
    <3>1. th[u] \in Operation /\ met[u] \in BOOLEAN
      BY <2>3 DEF TypeOK
    <3>2. QED
      BY <3>1 DEF Operation
  <2> HIDE DEF o
  <2>8. th' \in [Thread -> Operation]
    BY <2>2, <2>6, <2>7, NoOpTyped
  <2>9. QED
    BY <2>2, <2>5, <2>8 DEF TypeOK, node
<1>5. QED
  BY <1>1, <1>2, <1>3, <1>4

\* The steps of a release up to the lock keep the types.
LEMMA ReleaseTyped ==
    ASSUME TypeOK, NEW t \in Thread,
           \/ LoadTicket(t) \/ StartWindow(t) \/ SetOwnWindow(t)
           \/ LockOther(t) \/ LoadOther(t) \/ SetOtherWindow(t)
           \/ SetHandover(t) \/ LockSide(t)
    PROVE  TypeOK'
<1> DEFINE s == th[t].side
<1>0. th[t] \in Operation /\ s \in Side
  BY DEF TypeOK, Operation
<1>1. CASE LoadTicket(t)
  <2> DEFINE given == s = "r" /\ handover[s]
             v == IF given THEN ret.val ELSE th[t].val
  <2>1. /\ ret' = IF s = "r" /\ ~given THEN [key |-> th[t].key, val |-> th[t].val] ELSE ret
        /\ th' = [th EXCEPT ![t].val = v, ![t].seen = ticket[s], ![t].pc = "start"]
    BY <1>1 DEF LoadTicket
  <2>2. v \in Values
    BY <1>0 DEF TypeOK, Operation
  <2>3. ret' \in [key : Key \cup {Null}, val : Values]
    BY <2>1, <1>0 DEF TypeOK, Operation
  <2>4. ticket[s] \in Tickets
    BY <1>0 DEF TypeOK
  <2> HIDE DEF v
  <2>5. th' \in [Thread -> Operation]
    BY <2>1, <2>2, <2>4, <1>0 DEF TypeOK, Operation, Pcs
  <2>6. QED
    BY <2>3, <2>5, <1>1 DEF LoadTicket, TypeOK
<1>2. CASE StartWindow(t)
  <2>1. th' \in [Thread -> Operation]
    BY <1>2, GotoTyped DEF StartWindow, TypeOK, Pcs
  <2>2. window_start' \in BOOLEAN
    BY <1>2 DEF StartWindow
  <2>3. QED
    BY <2>1, <2>2, <1>2 DEF StartWindow, TypeOK
<1>3. CASE SetOwnWindow(t)
  <2>1. th' \in [Thread -> Operation]
    BY <1>3, GotoTyped DEF SetOwnWindow, TypeOK, Pcs
  <2>2. th[t].seen - current[s] \in Int
    BY <1>0, SMT DEF TypeOK, Operation, Tickets
  <2>3. (th[t].seen - current[s]) % TicketMod \in Tickets
    BY <2>2, ModRange, TicketModPositive DEF Tickets
  <2>4. window' \in [Side -> Tickets]
    BY <2>3, <1>3 DEF SetOwnWindow, TypeOK
  <2>5. QED
    BY <2>1, <2>4, <1>3 DEF SetOwnWindow, TypeOK
<1>4. CASE LockOther(t) \/ LoadOther(t) \/ SetOtherWindow(t)
  <2>1. Other(s) \in Side
    BY DEF Other, Side
  <2>2. ticket[Other(s)] - th[t].cur \in Int
    BY <1>0, <2>1, SMT DEF TypeOK, Operation, Tickets
  <2>3. (ticket[Other(s)] - th[t].cur) % TicketMod \in Tickets
    BY <2>2, ModRange, TicketModPositive DEF Tickets
  <2>4. 0 \in Tickets
    BY TicketModPositive, SMT DEF Tickets
  <2>5. PICK n \in Tickets, p \in Pcs : th' = [th EXCEPT ![t].cur = n, ![t].pc = p]
    <3>1. CASE LockOther(t)
      BY <3>1, <2>1 DEF LockOther, TypeOK, Pcs
    <3>2. CASE LoadOther(t)
      BY <3>2, <2>3 DEF LoadOther, Pcs
    <3>3. CASE SetOtherWindow(t)
      BY <3>3, <2>4 DEF SetOtherWindow, Pcs
    <3>4. QED
      BY <1>4, <3>1, <3>2, <3>3
  <2>6. th' \in [Thread -> Operation]
    <3>1. [th[t] EXCEPT !.cur = n, !.pc = p] \in Operation
      BY <1>0 DEF Operation
    <3>2. th' = [th EXCEPT ![t] = [th[t] EXCEPT !.cur = n, !.pc = p]]
      BY <2>5 DEF TypeOK
    <3>3. QED
      BY <3>1, <3>2 DEF TypeOK
  <2>7. window' \in [Side -> Tickets] /\ lock' \in [Side -> BOOLEAN]
    BY <1>4, <1>0 DEF LockOther, LoadOther, SetOtherWindow, TypeOK, Operation, node
  <2>8. QED
    BY <2>6, <2>7, <1>4 DEF LockOther, LoadOther, SetOtherWindow, TypeOK, node
<1>5. CASE SetHandover(t)
  <2>1. th' \in [Thread -> Operation]
    BY <1>5, GotoTyped DEF SetHandover, TypeOK, Pcs
  <2>2. unique' \in [Side -> Pointer \cup {Null}]
    BY <1>5 DEF SetHandover, TypeOK
  <2>3. handover' \in [Side -> BOOLEAN]
    BY <1>5 DEF SetHandover, TypeOK
  <2>4. QED
    BY <2>1, <2>2, <2>3, <1>5 DEF SetHandover, TypeOK
<1>6. CASE LockSide(t)
  <2>1. th' \in [Thread -> Operation]
    BY <1>6, GotoTyped DEF LockSide, TypeOK, Pcs
  <2>2. lock' \in [Side -> BOOLEAN]
    BY <1>6 DEF LockSide, TypeOK
  <2>3. QED
    BY <2>1, <2>2, <1>6 DEF LockSide, TypeOK
<1>7. QED
  BY <1>1, <1>2, <1>3, <1>4, <1>5, <1>6

\* The steps that end a release, or an acquire that met a conflict, keep the
\* types.
LEMMA EndTyped ==
    ASSUME TypeOK, NEW t \in Thread,
           \/ DrainWindow(t) \/ Decrement(t) \/ CheckRead(t) \/ CheckWrite(t) \/ ResetStart(t)
           \/ CallNext(t)
    PROVE  TypeOK'
<1> DEFINE s == th[t].side
<1>0. th[t] \in Operation /\ s \in Side
  BY DEF TypeOK, Operation
<1>1. CASE DrainWindow(t)
  <2>1. th' \in [Thread -> Operation]
    BY <1>1, GotoTyped DEF DrainWindow, TypeOK, Pcs
  <2>2. QED
    BY <2>1, <1>1 DEF DrainWindow, TypeOK, node
<1>2. CASE Decrement(t)
  <2>1. th' \in [Thread -> Operation]
    BY <1>2, GotoTyped DEF Decrement, TypeOK, Pcs
  <2>2. window[s] - 1 \in Int
    BY <1>0, SMT DEF TypeOK, Tickets
  <2>3. (window[s] - 1) % TicketMod \in Tickets
    BY <2>2, ModRange, TicketModPositive DEF Tickets
  <2>4. window' \in [Side -> Tickets]
    BY <2>3, <1>2 DEF Decrement, TypeOK
  <2>5. QED
    BY <2>1, <2>4, <1>2 DEF Decrement, TypeOK
<1>3. CASE CheckRead(t) \/ CheckWrite(t)
  <2>1. th' \in [Thread -> Operation]
    BY <1>3, GotoTyped DEF CheckRead, CheckWrite, TypeOK, Pcs
  <2>2. QED
    BY <2>1, <1>3 DEF CheckRead, CheckWrite, TypeOK, node
<1>4. CASE ResetStart(t)
  <2>1. th' \in [Thread -> Operation]
    BY <1>4, GotoTyped DEF ResetStart, TypeOK, Pcs
  <2>2. QED
    BY <2>1, <1>4 DEF ResetStart, TypeOK
<1>5. CASE CallNext(t)
  <2>1. th' \in [Thread -> Operation]
    <3>1. CASE th[t].second
      <4>1. Work(s) \in Pcs
        BY DEF Work, Pcs
      <4>2. Goto(t, Work(s))
        BY <3>1, <1>5 DEF CallNext
      <4>3. QED
        BY <4>1, <4>2, GotoTyped DEF TypeOK
    <3>2. CASE ~th[t].second
      BY <3>2, <1>5, NoOpTyped DEF CallNext, TypeOK
    <3>3. QED
      BY <3>1, <3>2
  <2>2. current[s] + 1 \in Int
    BY <1>0, SMT DEF TypeOK, Tickets
  <2>3. (current[s] + 1) % TicketMod \in Tickets
    BY <2>2, ModRange, TicketModPositive DEF Tickets
  <2>4. current' \in [Side -> Tickets] /\ lock' \in [Side -> BOOLEAN]
    BY <2>3, <1>5 DEF CallNext, TypeOK
  <2>5. QED
    BY <2>1, <2>4, <1>5 DEF CallNext, TypeOK
<1>6. QED
  BY <1>1, <1>2, <1>3, <1>4, <1>5

-----------------------------------------------------------------------------
(* The queues.                                                             *)

\* What the other threads see of u stays.
Kept(u) ==
    /\ th'[u].pc = th[u].pc /\ th'[u].side = th[u].side /\ th'[u].key = th[u].key
    /\ th'[u].my = th[u].my /\ th'[u].first = th[u].first
    /\ th'[u].second = th[u].second

\* A step of t leaves the operations of the others as they are; a write of
\* the index only marks them.
LEMMA OthersKept ==
    ASSUME TypeOK, NEW t \in Thread, NEW u \in Thread, u # t,
           Step(t) \/ \E s \in Side, k \in Key : Acquire(t, s, k)
    PROVE  Kept(u)
<1>1. CASE Remote(t)
  <2>1. PICK met : th'[u] = [th[u] EXCEPT !.met = met]
    BY <1>1 DEF Remote
  <2>2. th[u] \in Operation
    BY DEF TypeOK
  <2>3. QED
    BY <2>1, <2>2 DEF Kept, Operation
<1>2. CASE ~Remote(t)
  <2>1. th'[u] = th[u]
    <3>0. CASE \E s \in Side, k \in Key : Acquire(t, s, k)
      BY <3>0 DEF TypeOK, Acquire
    <3>1. CASE Deref(t) \/ CountQueue(t) \/ CheckQueue(t) \/ TakeTicket(t) \/ Enter(t)
      BY <3>1 DEF TypeOK, Deref, CountQueue, CheckQueue, TakeTicket, Enter
    <3>2. CASE LookKey(t) \/ CompareKey(t) \/ CopyCombined(t) \/ LoadTicket(t)
      BY <3>2 DEF TypeOK, LookKey, CompareKey, CopyCombined, LoadTicket
    <3>3. CASE LockOther(t) \/ LoadOther(t) \/ SetOtherWindow(t)
      BY <3>3 DEF TypeOK, LockOther, LoadOther, SetOtherWindow
    <3>4. CASE \/ StoreCombine(t) \/ StartWindow(t) \/ SetOwnWindow(t)
               \/ SetHandover(t) \/ LockSide(t) \/ DrainWindow(t) \/ Decrement(t)
               \/ CheckRead(t) \/ CheckWrite(t) \/ ResetStart(t) \/ CallNext(t)
      BY <3>4 DEF TypeOK, Goto, StoreCombine, StartWindow, SetOwnWindow, SetHandover,
                  LockSide, DrainWindow, Decrement, CheckRead, CheckWrite, ResetStart,
                  CallNext
    <3>5. QED
      BY <1>2, <3>0, <3>1, <3>2, <3>3, <3>4 DEF Step
  <2>2. QED
    BY <2>1 DEF Kept
<1>3. QED
  BY <1>1, <1>2

\* Setting the other side's window only moves the operation on.
LEMMA OtherMoves ==
    ASSUME TypeOK, NEW t \in Thread,
           LockOther(t) \/ LoadOther(t) \/ SetOtherWindow(t)
    PROVE  /\ UNCHANGED <<current, ticket>> /\ ~SetHandover(t)
           /\ th[t].pc \in {"other", "load", "store"}
           /\ th'[t].pc \in {"own", "load", "store", "flag"}
           /\ th'[t].side = th[t].side /\ th'[t].key = th[t].key /\ th'[t].my = th[t].my
           /\ th'[t].first = th[t].first /\ th'[t].second = th[t].second
<1>1. th[t] \in Operation
  BY DEF TypeOK
<1>2. /\ UNCHANGED <<current, ticket>> /\ ~SetHandover(t)
      /\ th[t].pc \in {"other", "load", "store"}
  BY DEF LockOther, LoadOther, SetOtherWindow, SetHandover, At, node
<1>3. PICK p \in {"own", "load", "store", "flag"} :
        \E n : th' = [th EXCEPT ![t].cur = n, ![t].pc = p]
  BY DEF LockOther, LoadOther, SetOtherWindow
<1>4. PICK n : th'[t] = [th[t] EXCEPT !.cur = n, !.pc = p]
  BY <1>3 DEF TypeOK
<1>5. QED
  BY <1>1, <1>2, <1>4 DEF Operation

\* A step that leaves the counters, and everybody in the queue with the
\* ticket, keeps the queue: it may only let in who is called.
LEMMA QueueKept ==
    ASSUME TypeOK, QueueOK, UNCHANGED <<current, ticket>>,
           \A u \in Thread :
               /\ Queued(u)' <=> Queued(u)
               /\ Queued(u) => th'[u].side = th[u].side /\ th'[u].my = th[u].my
               /\ Holding(u)' => Holding(u) \/ th[u].my = current[th[u].side]
    PROVE  QueueOK'
<1>1. ASSUME NEW s \in Side
      PROVE  Queue(s)' = Queue(s)
  BY DEF Queue
<1>2. ASSUME NEW s \in Side
      PROVE  Outstanding(s)' = Outstanding(s)
  BY DEF Outstanding
<1>3. ASSUME NEW s \in Side, NEW u \in Queue(s)
      PROVE  u \in Thread /\ Queued(u) /\ th[u].side = s /\ Offset(u)' = Offset(u)
  BY DEF Queue, Offset
<1>4. ASSUME NEW s \in Side
      PROVE  /\ Outstanding(s)' = Cardinality(Queue(s)')
             /\ \A u \in Queue(s)' : Offset(u)' < Cardinality(Queue(s)')
             /\ \A u, v \in Queue(s)' : u # v => th'[u].my # th'[v].my
             /\ \A u \in Queue(s)' : Holding(u)' => th'[u].my = current'[s]
  BY <1>1, <1>2, <1>3, SMT DEF QueueOK
<1>5. QED
  BY <1>4 DEF QueueOK

\* A step other than taking a ticket and calling the next.
QuietStep(t) ==
    \/ Deref(t) \/ StoreCombine(t) \/ CountQueue(t) \/ CheckQueue(t)
    \/ Enter(t) \/ LookKey(t) \/ CompareKey(t) \/ CopyCombined(t) \/ Remote(t)
    \/ LoadTicket(t) \/ StartWindow(t) \/ SetOwnWindow(t)
    \/ LockOther(t) \/ LoadOther(t) \/ SetOtherWindow(t)
    \/ SetHandover(t) \/ LockSide(t) \/ DrainWindow(t) \/ Decrement(t)
    \/ CheckRead(t) \/ CheckWrite(t) \/ ResetStart(t)

\* Such a step neither joins nor leaves the queue, and only Enter is called.
LEMMA QuietKeepsPlace ==
    ASSUME TypeOK, NEW t \in Thread,
           QuietStep(t) \/ \E s \in Side, k \in Key : Acquire(t, s, k)
    PROVE  /\ UNCHANGED <<current, ticket>>
           /\ Queued(t)' <=> Queued(t)
           /\ Queued(t) => th'[t].side = th[t].side /\ th'[t].my = th[t].my
           /\ Holding(t)' => Holding(t) \/ th[t].my = current[th[t].side]
<1>0. th[t] \in Operation
  BY DEF TypeOK
<1> USE DEF At, Queued, Holding, TypeOK, Work
<1>1. CASE \E s \in Side, k \in Key : Acquire(t, s, k)
  <2>1. UNCHANGED <<current, ticket>> /\ th[t].pc = "idle"
    BY <1>1, Zenon DEF Acquire
  <2>2. th'[t].pc \in {"admit", "deref"}
    BY <1>1, AcquireStarts
  <2>3. QED
    BY <2>1, <2>2
<1>2. CASE Deref(t)
  BY <1>0, <1>2, SMT DEF Deref, Operation, node
<1>3. CASE StoreCombine(t) \/ CountQueue(t)
  BY <1>0, <1>3, SMT DEF StoreCombine, CountQueue, Operation, node, Goto
<1>4. CASE CheckQueue(t)
  BY <1>0, <1>4 DEF CheckQueue, Operation, node
<1>5. CASE Enter(t)
  BY <1>0, <1>5 DEF Enter, Operation
<1>6. CASE LookKey(t) \/ CompareKey(t) \/ CopyCombined(t)
  BY <1>0, <1>6, SMT DEF LookKey, CompareKey, CopyCombined, Operation, node
<1>7. CASE Remote(t)
  BY <1>0, <1>7 DEF Remote, Operation, node, NoOp
<1>8. CASE LoadTicket(t)
  BY <1>0, <1>8 DEF LoadTicket, Operation
<1>9. CASE \/ StartWindow(t) \/ SetOwnWindow(t)
           \/ SetHandover(t) \/ LockSide(t) \/ DrainWindow(t) \/ Decrement(t)
           \/ CheckRead(t) \/ CheckWrite(t) \/ ResetStart(t)
  <2>1. PICK p \in {"own", "other", "flag", "lock", "drain", "dec", "check", "check2",
                    "reset", "bump"} : Goto(t, p)
    BY <1>9 DEF StartWindow, SetOwnWindow, SetHandover, LockSide, DrainWindow, Decrement,
                CheckRead, CheckWrite, ResetStart
  <2>2. /\ UNCHANGED <<current, ticket>>
        /\ th[t].pc \in {"start", "own", "flag", "lock", "drain", "dec", "check", "check2",
                         "reset"}
    BY <1>9 DEF StartWindow, SetOwnWindow, SetHandover, LockSide, DrainWindow, Decrement,
                CheckRead, CheckWrite, ResetStart, node
  <2>3. QED
    BY <1>0, <2>1, <2>2 DEF Goto, Operation
<1>10. CASE LockOther(t) \/ LoadOther(t) \/ SetOtherWindow(t)
  BY <1>10, OtherMoves
<1>11. QED
  BY <1>1, <1>2, <1>3, <1>4, <1>5, <1>6, <1>7, <1>8, <1>9, <1>10, Zenon DEF QuietStep

\* Joining the queue: the ticket is the next after those of the queue, and
\* there is room for it.
LEMMA TakeKeepsQueue ==
    ASSUME TypeOK, QueueOK, NEW t \in Thread, TakeTicket(t)
    PROVE  QueueOK'
<1> th[t] \in Operation
  BY DEF TypeOK
<1> PICK s \in Side : s = th[t].side
  BY DEF Operation
<1>0. th[t] \in Operation /\ s \in Side /\ s = th[t].side /\ th[t].pc = "take"
  BY DEF TakeTicket, At
<1>1. /\ current' = current
      /\ ticket' = [ticket EXCEPT ![s] = (@ + 1) % TicketMod]
      /\ th'[t].my = ticket[s] /\ th'[t].pc = "wait" /\ th'[t].side = s
  BY <1>0 DEF TakeTicket, TypeOK, Operation
<1>2. \A u \in Thread : u # t => Kept(u)
  BY OthersKept DEF Step
<1>3. \A u \in Thread : u # t => (Queued(u)' <=> Queued(u)) /\ (Holding(u)' <=> Holding(u))
  BY <1>2 DEF Kept, Queued, Holding
<1>4. ~Queued(t) /\ Queued(t)' /\ ~Holding(t)'
  BY <1>0, <1>1 DEF Queued, Holding
<1>5. t \notin Queue(s) /\ Queue(s)' = Queue(s) \cup {t}
  BY <1>1, <1>2, <1>3, <1>4 DEF Queue, Kept
<1>6. \A x \in Side : x # s => Queue(x)' = Queue(x)
  BY <1>1, <1>2, <1>3, <1>4, <1>0 DEF Queue, Kept
<1>7. \A x \in Side : \A u \in Queue(x) :
         u # t /\ u \in Thread /\ th[u].side = x /\ th'[u].side = x /\ th'[u].my = th[u].my
         /\ (Holding(u)' <=> Holding(u)) /\ Offset(u)' = Offset(u)
  BY <1>0, <1>1, <1>2, <1>3, <1>4 DEF Queue, Kept, Offset
<1>8. IsFiniteSet(Thread) /\ Cardinality(Thread) < TicketMod /\ TicketMod \in Nat
  BY LocalLockAssumption
<1>9. /\ IsFiniteSet(Queue(s)) /\ Cardinality(Queue(s)) \in Nat
      /\ Cardinality(Queue(s)) + 1 < TicketMod
      /\ Cardinality(Queue(s) \cup {t}) = Cardinality(Queue(s)) + 1
  <2>1. IsFiniteSet(Queue(s))
    BY <1>8, FS_Subset DEF Queue
  <2>2. Cardinality(Queue(s) \cup {t}) = Cardinality(Queue(s)) + 1
    BY <1>5, <2>1, FS_AddElement
  <2>3. Cardinality(Queue(s) \cup {t}) <= Cardinality(Thread)
    <3>1. Queue(s) \cup {t} \in SUBSET Thread
      BY DEF Queue
    <3>2. QED
      BY <3>1, <1>8, FS_Subset
  <2>4. Cardinality(Queue(s)) \in Nat /\ Cardinality(Thread) \in Nat
    BY <2>1, <1>8, FS_CardinalityType
  <2>5. QED
    BY <2>1, <2>2, <2>3, <2>4, <1>8, SMT
<1>10. ticket[s] \in 0 .. TicketMod - 1 /\ current[s] \in 0 .. TicketMod - 1
  BY <1>0 DEF TypeOK, Tickets
<1>11. Outstanding(s) = Cardinality(Queue(s))
  BY <1>0 DEF QueueOK
<1>12. Outstanding(s)' = Cardinality(Queue(s)')
  <2>1. ticket'[s] = IF ticket[s] = TicketMod - 1 THEN 0 ELSE ticket[s] + 1
    BY <1>0, <1>1, <1>10, ModNext, TicketModPositive DEF TypeOK
  <2>2. ticket'[s] \in 0 .. TicketMod - 1
    BY <2>1, <1>10, <1>8, SMT
  <2>3. Outstanding(s)' = IF current[s] <= ticket'[s] THEN ticket'[s] - current[s]
                          ELSE ticket'[s] - current[s] + TicketMod
    BY <2>2, <1>1, <1>10, ModDifference, TicketModPositive DEF Outstanding
  <2>4. Outstanding(s) = IF current[s] <= ticket[s] THEN ticket[s] - current[s]
                         ELSE ticket[s] - current[s] + TicketMod
    BY <1>10, ModDifference, TicketModPositive DEF Outstanding
  <2>5. QED
    BY <2>1, <2>3, <2>4, <1>5, <1>8, <1>9, <1>10, <1>11, SMT
<1>13. Offset(t)' = Cardinality(Queue(s))
  BY <1>1, <1>11 DEF Offset, Outstanding
<1>14. \A u \in Queue(s) : th[u].my # ticket[s]
  <2>1. SUFFICES ASSUME NEW u \in Queue(s), th[u].my = ticket[s] PROVE FALSE
    OBVIOUS
  <2>2. Offset(u) < Cardinality(Queue(s))
    BY <1>0 DEF QueueOK
  <2>3. Offset(u) = Outstanding(s)
    BY <2>1, <1>0, <1>7 DEF Offset, Outstanding
  <2>4. QED
    BY <2>2, <2>3, <1>11, <1>9, SMT
<1>15. ASSUME NEW x \in Side, x # s
       PROVE  /\ Outstanding(x)' = Cardinality(Queue(x)')
              /\ \A u \in Queue(x)' : Offset(u)' < Cardinality(Queue(x)')
              /\ \A u, v \in Queue(x)' : u # v => th'[u].my # th'[v].my
              /\ \A u \in Queue(x)' : Holding(u)' => th'[u].my = current'[x]
  <2>1. Outstanding(x)' = Outstanding(x)
    BY <1>0, <1>1, <1>15 DEF Outstanding, TypeOK
  <2>2. QED
    BY <2>1, <1>1, <1>6, <1>7, <1>15, SMT DEF QueueOK
<1>16. /\ \A u \in Queue(s)' : Offset(u)' < Cardinality(Queue(s)')
       /\ \A u \in Queue(s)' : Holding(u)' => th'[u].my = current'[s]
  <2>1. \A u \in Queue(s) : /\ Offset(u) < Cardinality(Queue(s))
                            /\ Offset(u) \in Int
                            /\ Holding(u) => th[u].my = current[s]
    <3>1. ASSUME NEW u \in Queue(s) PROVE Offset(u) \in Int
      <4>1. th[u].my - current[th[u].side] \in Int
        BY <1>0, <1>7, SMT DEF TypeOK, Operation, Tickets
      <4>2. QED
        BY <4>1, ModRange, TicketModPositive, SMT DEF Offset
    <3>2. QED
      BY <3>1, <1>0 DEF QueueOK
  <2>2. QED
    <3>1. Cardinality(Queue(s)') = Cardinality(Queue(s)) + 1
      BY <1>5, <1>9
    <3>2. \A u \in Queue(s) : /\ Offset(u)' < Cardinality(Queue(s)')
                              /\ Holding(u)' => th'[u].my = current'[s]
      BY <2>1, <3>1, <1>1, <1>7, <1>9, SMT
    <3>3. Offset(t)' < Cardinality(Queue(s)') /\ ~Holding(t)'
      BY <3>1, <1>4, <1>9, <1>13, SMT
    <3>4. QED
      BY <3>2, <3>3, <1>5
<1>17. \A u, v \in Queue(s)' : u # v => th'[u].my # th'[v].my
  BY <1>0, <1>1, <1>5, <1>7, <1>14, SMT DEF QueueOK
<1>18. ASSUME NEW x \in Side
       PROVE  /\ Outstanding(x)' = Cardinality(Queue(x)')
              /\ \A u \in Queue(x)' : Offset(u)' < Cardinality(Queue(x)')
              /\ \A u, v \in Queue(x)' : u # v => th'[u].my # th'[v].my
              /\ \A u \in Queue(x)' : Holding(u)' => th'[u].my = current'[x]
  BY <1>12, <1>15, <1>16, <1>17
<1>19. QED
  BY <1>18 DEF QueueOK

\* Who calls the next is not in the queue any more.
LEMMA CallNextLeaves ==
    ASSUME TypeOK, NEW t \in Thread, CallNext(t)
    PROVE  ~Queued(t)'
<1>0. th[t] \in Operation
  BY DEF TypeOK
<1>1. CASE th[t].second
  <2>1. th' = [th EXCEPT ![t].pc = Work(th[t].side)]
    BY <1>1 DEF CallNext, Goto
  <2>2. th'[t].pc \in {"look", "remote"} /\ th'[t].second = th[t].second
    BY <2>1, <1>0 DEF Work, TypeOK, Operation
  <2>3. QED
    BY <2>2, <1>1 DEF Queued, Holding
<1>2. CASE ~th[t].second
  BY <1>2, SMT DEF CallNext, TypeOK, NoOp, Queued, Holding
<1>3. QED
  BY <1>1, <1>2

\* Leaving the queue: t has the current ticket, everybody else comes one
\* closer, and nobody is called until Enter.
LEMMA CallKeepsQueue ==
    ASSUME TypeOK, QueueOK, NEW t \in Thread, CallNext(t)
    PROVE  QueueOK'
<1> th[t] \in Operation
  BY DEF TypeOK
<1> PICK s \in Side : s = th[t].side
  BY DEF Operation
<1>0. th[t] \in Operation /\ s \in Side /\ s = th[t].side /\ th[t].pc = "bump" /\ Holding(t)
  BY DEF CallNext, At, Holding
<1>1. /\ ticket' = ticket /\ current' = [current EXCEPT ![s] = (@ + 1) % TicketMod]
      /\ ~Queued(t)'
  BY <1>0, CallNextLeaves DEF CallNext
<1>2. \A u \in Thread : u # t => Kept(u)
  BY OthersKept DEF Step
<1>3. \A u \in Thread : u # t => (Queued(u)' <=> Queued(u)) /\ (Holding(u)' <=> Holding(u))
  BY <1>2 DEF Kept, Queued, Holding
<1>4. t \in Queue(s) /\ Queue(s)' = Queue(s) \ {t}
  BY <1>0, <1>1, <1>2, <1>3 DEF Queue, Kept, Queued
<1>5. \A x \in Side : x # s => Queue(x)' = Queue(x) /\ t \notin Queue(x)
  BY <1>0, <1>1, <1>2, <1>3 DEF Queue, Kept
<1>6. \A x \in Side : \A u \in Queue(x) : u # t =>
         u \in Thread /\ th[u].side = x /\ th'[u].side = x /\ th'[u].my = th[u].my
         /\ (Holding(u)' <=> Holding(u))
  BY <1>2, <1>3 DEF Queue, Kept
<1>7. IsFiniteSet(Queue(s)) /\ TicketMod \in Nat
  BY LocalLockAssumption, FS_Subset DEF Queue
<1>8. /\ Cardinality(Queue(s)) \in Nat /\ Cardinality(Queue(s)') \in Nat
      /\ Cardinality(Queue(s)') = Cardinality(Queue(s)) - 1
  BY <1>4, <1>7, FS_RemoveElement, FS_CardinalityType, SMT
<1>9. ticket[s] \in 0 .. TicketMod - 1 /\ current[s] \in 0 .. TicketMod - 1
  BY <1>0 DEF TypeOK, Tickets
<1>10. /\ Outstanding(s) = Cardinality(Queue(s)) /\ th[t].my = current[s]
       /\ \A u \in Queue(s) : u # t => /\ th[u].my # current[s] /\ ~Holding(u)
                                       /\ Offset(u) < Cardinality(Queue(s))
  BY <1>0, <1>4, SMT DEF QueueOK
<1>11. /\ current'[s] = IF current[s] = TicketMod - 1 THEN 0 ELSE current[s] + 1
       /\ current'[s] \in 0 .. TicketMod - 1
  <2>1. current'[s] = (current[s] + 1) % TicketMod
    BY <1>0, <1>1 DEF TypeOK
  <2>2. current'[s] = IF current[s] = TicketMod - 1 THEN 0 ELSE current[s] + 1
    BY <2>1, <1>9, ModNext, TicketModPositive
  <2>3. QED
    BY <2>2, <1>7, <1>9, SMT
<1>12. ASSUME NEW a \in 0 .. TicketMod - 1, a # current[s]
       PROVE  (a - current'[s]) % TicketMod = ((a - current[s]) % TicketMod) - 1
  <2>1. (a - current[s]) % TicketMod = IF current[s] <= a THEN a - current[s]
                                       ELSE a - current[s] + TicketMod
    BY <1>9, ModDifference, TicketModPositive
  <2>2. (a - current'[s]) % TicketMod = IF current'[s] <= a THEN a - current'[s]
                                        ELSE a - current'[s] + TicketMod
    BY <1>11, ModDifference, TicketModPositive
  <2>3. QED
    BY <2>1, <2>2, <1>7, <1>9, <1>11, <1>12, SMT
<1>13. Outstanding(s)' = Cardinality(Queue(s)')
  <2>1. ticket[s] # current[s]
    <3>1. SUFFICES ASSUME ticket[s] = current[s] PROVE FALSE
      OBVIOUS
    <3>2. Outstanding(s) = 0
      BY <3>1, <1>9, ModDifference, TicketModPositive, SMT DEF Outstanding
    <3>3. QED
      BY <3>2, <1>4, <1>7, <1>10, FS_EmptySet
  <2>2. Outstanding(s)' = Outstanding(s) - 1
    BY <2>1, <1>1, <1>9, <1>12 DEF Outstanding
  <2>3. QED
    BY <2>2, <1>8, <1>10
<1>14. ASSUME NEW u \in Queue(s), u # t
       PROVE  Offset(u)' < Cardinality(Queue(s)') /\ ~Holding(u)'
  <2>1. th[u].my \in 0 .. TicketMod - 1
    BY <1>0, <1>6, <1>14 DEF TypeOK, Operation, Tickets
  <2>2. Offset(u)' = Offset(u) - 1
    BY <2>1, <1>0, <1>6, <1>10, <1>12, <1>14 DEF Offset
  <2>3. Offset(u) \in Int
    <3>1. th[u].my - current[s] \in Int
      BY <2>1, <1>9, SMT
    <3>2. QED
      BY <3>1, <1>0, <1>6, <1>14, ModRange, TicketModPositive, SMT DEF Offset
  <2>4. QED
    BY <2>2, <2>3, <1>0, <1>6, <1>8, <1>10, <1>14, SMT
<1>15. /\ \A u \in Queue(s)' : Offset(u)' < Cardinality(Queue(s)') /\ ~Holding(u)'
       /\ \A u, v \in Queue(s)' : u # v => th'[u].my # th'[v].my
  BY <1>0, <1>4, <1>6, <1>14, SMT DEF QueueOK
<1>16. ASSUME NEW x \in Side, x # s
       PROVE  /\ Outstanding(x)' = Cardinality(Queue(x)')
              /\ \A u \in Queue(x)' : Offset(u)' < Cardinality(Queue(x)')
              /\ \A u, v \in Queue(x)' : u # v => th'[u].my # th'[v].my
              /\ \A u \in Queue(x)' : Holding(u)' => th'[u].my = current'[x]
  <2>1. Outstanding(x)' = Outstanding(x) /\ current'[x] = current[x]
    BY <1>0, <1>1, <1>16 DEF Outstanding, TypeOK
  <2>2. \A u \in Queue(x) : u # t /\ Offset(u)' = Offset(u)
    BY <2>1, <1>5, <1>6, <1>16 DEF Offset
  <2>3. QED
    BY <2>1, <2>2, <1>5, <1>6, <1>16, SMT DEF QueueOK
<1>17. ASSUME NEW x \in Side
       PROVE  /\ Outstanding(x)' = Cardinality(Queue(x)')
              /\ \A u \in Queue(x)' : Offset(u)' < Cardinality(Queue(x)')
              /\ \A u, v \in Queue(x)' : u # v => th'[u].my # th'[v].my
              /\ \A u \in Queue(x)' : Holding(u)' => th'[u].my = current'[x]
  BY <1>13, <1>15, <1>16
<1>18. QED
  BY <1>17 DEF QueueOK

\* Two threads that are called on a side would have the same ticket.
LEMMA QueueExclusive ==
    ASSUME TypeOK, QueueOK
    PROVE  Exclusive
<1>1. SUFFICES ASSUME NEW t \in Thread, NEW u \in Thread, t # u, Holding(t), Holding(u),
                      th[t].side = th[u].side
               PROVE  FALSE
  BY DEF Exclusive
<1>2. th[t].side \in Side
  BY DEF TypeOK, Operation
<1>3. t \in Queue(th[t].side) /\ u \in Queue(th[t].side)
  BY <1>1 DEF Queue, Queued
<1>4. QED
  BY <1>1, <1>2, <1>3, SMT DEF QueueOK

-----------------------------------------------------------------------------
(* The key and the result in the node.                                     *)

\* Which steps write the key, the result and the handover flag.
LEMMA WhoWrites ==
    ASSUME NEW t \in Thread, Step(t)
    PROVE  /\ unique' = unique \/ SetHandover(t)
           /\ ret' = ret \/ LoadTicket(t)
           /\ handover' = handover \/ Enter(t) \/ SetHandover(t)
BY Zenon DEF Step, node, Deref, StoreCombine, CountQueue, CheckQueue, TakeTicket, Enter,
       LookKey, CompareKey, CopyCombined, Remote, LoadTicket, StartWindow, SetOwnWindow,
       LockOther, LoadOther, SetOtherWindow, SetHandover, LockSide, DrainWindow, Decrement,
       CheckRead, CheckWrite, ResetStart, CallNext

\* An operation keeps its side and its key until it returns.
LEMMA StepKeepsKey ==
    ASSUME TypeOK, NEW t \in Thread, Step(t)
    PROVE  /\ th[t].pc # "idle"
           /\ \/ th'[t].pc = "idle"
              \/ th'[t].key = th[t].key /\ th'[t].side = th[t].side
<1>0. th[t] \in Operation
  BY DEF TypeOK
<1>1. th[t].pc # "idle"
  BY Zenon DEF Step, At, Deref, StoreCombine, CountQueue, CheckQueue, TakeTicket, Enter,
       LookKey, CompareKey, CopyCombined, Remote, LoadTicket, StartWindow, SetOwnWindow,
       LockOther, LoadOther, SetOtherWindow, SetHandover, LockSide, DrainWindow, Decrement,
       CheckRead, CheckWrite, ResetStart, CallNext
<1> USE DEF TypeOK, Operation
<1>2. CASE Deref(t) \/ CountQueue(t) \/ CheckQueue(t) \/ TakeTicket(t)
  <2>1. CASE Deref(t)
    BY <1>0, <1>1, <2>1, SMT DEF Deref
  <2>2. CASE CheckQueue(t)
    BY <1>0, <1>1, <2>2 DEF CheckQueue
  <2>3. CASE CountQueue(t) \/ TakeTicket(t)
    BY <1>0, <1>1, <2>3, SMT DEF CountQueue, TakeTicket
  <2>4. QED
    BY <1>2, <2>1, <2>2, <2>3
<1>3. CASE Enter(t)
  BY <1>0, <1>1, <1>3 DEF Enter
<1>4. CASE LookKey(t) \/ CompareKey(t) \/ CopyCombined(t) \/ LoadTicket(t)
  BY <1>0, <1>1, <1>4, SMT DEF LookKey, CompareKey, CopyCombined, LoadTicket
<1>5. CASE Remote(t)
  BY <1>0, <1>1, <1>5 DEF Remote, NoOp
<1>6. CASE \/ StoreCombine(t) \/ StartWindow(t) \/ SetOwnWindow(t)
           \/ SetHandover(t) \/ LockSide(t) \/ DrainWindow(t) \/ Decrement(t)
           \/ CheckRead(t) \/ CheckWrite(t) \/ ResetStart(t)
  <2>1. \E p : Goto(t, p)
    BY <1>6 DEF StoreCombine, StartWindow, SetOwnWindow, SetHandover, LockSide,
                DrainWindow, Decrement, CheckRead, CheckWrite, ResetStart
  <2>2. QED
    BY <2>1, <1>0, <1>1 DEF Goto
<1>7. CASE LockOther(t) \/ LoadOther(t) \/ SetOtherWindow(t)
  BY <1>1, <1>7, OtherMoves
<1>8. CASE CallNext(t)
  BY <1>0, <1>1, <1>8, SMT DEF CallNext, Goto, NoOp
<1>9. QED
  BY <1>2, <1>3, <1>4, <1>5, <1>6, <1>7, <1>8, Zenon DEF Step

\* Operations keep having a key.
LEMMA KeyKnownStep ==
    ASSUME TypeOK, KeyKnown, NEW t \in Thread,
           Step(t) \/ \E s \in Side, k \in Key : Acquire(t, s, k)
    PROVE  KeyKnown'
<1>1. th'[t].pc # "idle" => th'[t].key \in Key
  BY AcquireStarts, StepKeepsKey DEF KeyKnown
<1>2. \A u \in Thread : u # t => (th'[u].pc # "idle" => th'[u].key \in Key)
  BY OthersKept DEF KeyKnown, Kept
<1>3. QED
  BY <1>1, <1>2 DEF KeyKnown

\* A thread serves its key after Enter has found it in the node, and until
\* SetHandover.
LEMMA ServingStep ==
    ASSUME TypeOK, NEW t \in Thread, Step(t), Serving(t)'
    PROVE  /\ th'[t].key = th[t].key /\ th'[t].side = th[t].side
           /\ \/ Serving(t) /\ ~SetHandover(t)
              \/ /\ Enter(t) /\ unique[th[t].side] # Null
                 /\ unique[th[t].side].key = th[t].key
<1>0. th[t] \in Operation
  BY DEF TypeOK
<1>1. th'[t].key = th[t].key /\ th'[t].side = th[t].side
  BY StepKeepsKey DEF Serving, Holding
<1> USE DEF TypeOK, Operation, At, Serving, Holding
<1>2. CASE Deref(t)
  BY <1>0, <1>2, SMT DEF Deref, Work
<1>3. CASE CheckQueue(t)
  BY <1>0, <1>3 DEF CheckQueue
<1>4. CASE CountQueue(t) \/ TakeTicket(t) \/ StoreCombine(t)
  BY <1>0, <1>4, SMT DEF CountQueue, TakeTicket, StoreCombine, Goto
<1>5. CASE Enter(t)
  BY <1>0, <1>1, <1>5, Zenon DEF Enter
<1>6. CASE LookKey(t) \/ CompareKey(t) \/ CopyCombined(t) \/ LoadTicket(t)
  <2>1. ~SetHandover(t)
    BY <1>6 DEF LookKey, CompareKey, CopyCombined, LoadTicket, SetHandover
  <2>2. Serving(t)
    BY <1>0, <1>6, SMT DEF LookKey, CompareKey, CopyCombined, LoadTicket
  <2>3. QED
    BY <2>1, <2>2, <1>1
<1>7. CASE Remote(t)
  <2>1. th[t].pc = "remote" /\ ~SetHandover(t)
    BY <1>7 DEF Remote, SetHandover
  <2>2. ~th[t].second
    BY <1>7 DEF Remote, NoOp
  <2>3. QED
    BY <2>1, <2>2, <1>1
<1>8. CASE StartWindow(t) \/ SetOwnWindow(t) \/ LockOther(t) \/ LoadOther(t) \/ SetOtherWindow(t)
  <2>1. CASE StartWindow(t) \/ SetOwnWindow(t)
    <3>1. th[t].pc \in {"start", "own"} /\ ~SetHandover(t)
      BY <2>1 DEF StartWindow, SetOwnWindow, SetHandover
    <3>2. th'[t].second = th[t].second
      BY <1>0, <2>1, SMT DEF StartWindow, SetOwnWindow, Goto
    <3>3. QED
      BY <3>1, <3>2, <1>1
  <2>2. CASE LockOther(t) \/ LoadOther(t) \/ SetOtherWindow(t)
    <3>1. /\ th[t].pc \in {"other", "load", "store"} /\ ~SetHandover(t)
          /\ th'[t].pc \in {"own", "load", "store", "flag"}
          /\ th'[t].second = th[t].second
      BY <2>2, OtherMoves
    <3>2. QED
      BY <3>1, <1>1
  <2>3. QED
    BY <1>8, <2>1, <2>2
<1>9. CASE \/ SetHandover(t) \/ LockSide(t) \/ DrainWindow(t) \/ Decrement(t)
           \/ CheckRead(t) \/ CheckWrite(t) \/ ResetStart(t)
  <2>1. \E p \in {"lock", "drain", "dec", "check", "check2", "reset", "bump"} : Goto(t, p)
    BY <1>9 DEF SetHandover, LockSide, DrainWindow, Decrement, CheckRead, CheckWrite, ResetStart
  <2>2. QED
    BY <2>1, <1>0, SMT DEF Goto
<1>10. CASE CallNext(t)
  BY <1>10, CallNextLeaves DEF Queued
<1>11. QED
  BY <1>2, <1>3, <1>4, <1>5, <1>6, <1>7, <1>8, <1>9, <1>10 DEF Step

\* Nobody else replaces or deletes the key of the thread that was called.
LEMMA KeyHeldStep ==
    ASSUME TypeOK, KeyHeld, Exclusive, NEW t \in Thread,
           Step(t) \/ \E s \in Side, k \in Key : Acquire(t, s, k)
    PROVE  KeyHeld'
<1>1. SUFFICES ASSUME NEW u \in Thread, Serving(u)'
               PROVE  unique'[th'[u].side] # Null /\ unique'[th'[u].side].key = th'[u].key
  BY DEF KeyHeld, Serving
<1>2. ASSUME Serving(u)
      PROVE  unique[th[u].side] # Null /\ unique[th[u].side].key = th[u].key
  BY <1>2 DEF KeyHeld, Serving
<1>3. th[u].side \in Side
  BY DEF TypeOK, Operation
<1>4. CASE u = t
  <2>1. Step(t)
    BY <1>1, <1>4, AcquireStarts DEF Serving, Holding
  <2>2. unique' = unique
    BY <1>1, <1>4, <2>1, ServingStep, WhoWrites, Zenon DEF Enter, SetHandover, At
  <2>3. QED
    BY <1>1, <1>2, <1>4, <2>1, <2>2, ServingStep
<1>5. CASE u # t
  <2>1. Kept(u)
    BY <1>5, OthersKept
  <2>2. Serving(u)
    BY <1>1, <2>1 DEF Kept, Serving, Holding
  <2>3. unique'[th[u].side] = unique[th[u].side]
    <3>1. CASE \E s \in Side, k \in Key : Acquire(t, s, k)
      <4>1. PICK s \in Side, k \in Key : Acquire(t, s, k)
        BY <3>1
      <4>2. unique[s] # Null => unique' = unique
        BY <4>1, Zenon DEF Acquire
      <4>3. unique[s] = Null => s # th[u].side
        BY <1>2, <2>2
      <4>4. QED
        <5>1. CASE unique[s] = Null
          <6>1. \E new : unique' = [unique EXCEPT ![s] = new]
            BY <5>1, <4>1, Zenon DEF Acquire
          <6>2. QED
            BY <6>1, <5>1, <4>3, <1>3 DEF TypeOK
        <5>2. QED
          BY <5>1, <4>2
    <3>2. CASE SetHandover(t)
      <4>1. Holding(t) /\ Holding(u)
        BY <3>2, <2>2 DEF SetHandover, At, Holding, Serving
      <4>2. th[t].side # th[u].side
        BY <4>1, <1>5 DEF Exclusive
      <4>3. QED
        BY <4>2, <3>2, <1>3 DEF SetHandover, TypeOK
    <3>3. CASE Step(t) /\ ~SetHandover(t)
      BY <3>3, WhoWrites
    <3>4. QED
      BY <3>1, <3>2, <3>3
  <2>4. QED
    BY <1>2, <2>1, <2>2, <2>3 DEF Kept
<1>6. QED
  BY <1>4, <1>5

\* The steps after a release has started, up to the one that calls the next.
Goes(t) ==
    \/ StartWindow(t) \/ SetOwnWindow(t)
    \/ LockOther(t) \/ LoadOther(t) \/ SetOtherWindow(t) \/ SetHandover(t)
    \/ LockSide(t) \/ DrainWindow(t) \/ Decrement(t) \/ CheckRead(t) \/ CheckWrite(t) \/ ResetStart(t)

\* They go on from one place to a later one and leave the rest of the
\* operation.
LEMMA GoesOn ==
    ASSUME TypeOK, NEW t \in Thread, Goes(t)
    PROVE  /\ th'[t].second = th[t].second /\ th'[t].first = th[t].first
           /\ th'[t].key = th[t].key /\ th'[t].side = th[t].side
           /\ \/ /\ th[t].pc \in {"start", "own", "other", "load", "store"} /\ ~SetHandover(t)
                 /\ th'[t].pc \in {"own", "other", "load", "store", "flag"}
              \/ /\ th[t].pc \in {"flag", "lock", "drain", "dec", "check", "check2", "reset"}
                 /\ th'[t].pc \in {"lock", "drain", "dec", "check", "check2", "reset", "bump"}
<1>0. th[t] \in Operation
  BY DEF TypeOK
<1>1. CASE StartWindow(t) \/ SetOwnWindow(t)
  <2>1. th[t].pc \in {"start", "own"} /\ ~SetHandover(t)
    BY <1>1 DEF StartWindow, SetOwnWindow, SetHandover, At
  <2>2. \E p \in {"own", "other", "flag"} : Goto(t, p)
    BY <1>1 DEF StartWindow, SetOwnWindow
  <2>3. QED
    BY <2>1, <2>2, <1>0, SMT DEF Goto, TypeOK, Operation
<1>2. CASE \/ SetHandover(t) \/ LockSide(t) \/ DrainWindow(t) \/ Decrement(t)
           \/ CheckRead(t) \/ CheckWrite(t) \/ ResetStart(t)
  <2>1. th[t].pc \in {"flag", "lock", "drain", "dec", "check", "check2", "reset"}
    BY <1>2 DEF SetHandover, LockSide, DrainWindow, Decrement, CheckRead, CheckWrite, ResetStart, At
  <2>2. \E p \in {"lock", "drain", "dec", "check", "check2", "reset", "bump"} : Goto(t, p)
    BY <1>2 DEF SetHandover, LockSide, DrainWindow, Decrement, CheckRead, CheckWrite, ResetStart
  <2>3. QED
    BY <2>1, <2>2, <1>0, SMT DEF Goto, TypeOK, Operation
<1>3. CASE LockOther(t) \/ LoadOther(t) \/ SetOtherWindow(t)
  <2>1. /\ th[t].pc \in {"other", "load", "store"} /\ ~SetHandover(t)
        /\ th'[t].pc \in {"own", "load", "store", "flag"}
        /\ th'[t].side = th[t].side /\ th'[t].key = th[t].key
        /\ th'[t].first = th[t].first /\ th'[t].second = th[t].second
    BY <1>3, OtherMoves
  <2>2. QED
    BY <2>1
<1>4. QED
  BY <1>1, <1>2, <1>3 DEF Goes

\* Who becomes or stays called by a step, and how.
LEMMA HoldingStep ==
    ASSUME TypeOK, NEW t \in Thread, Step(t), Holding(t)'
    PROVE  Enter(t) \/ LookKey(t) \/ CompareKey(t) \/ CopyCombined(t) \/ Remote(t)
           \/ LoadTicket(t) \/ Goes(t)
<1>0. th[t] \in Operation
  BY DEF TypeOK
<1> USE DEF TypeOK, Operation, Holding
<1>1. CASE Deref(t)
  <2>1. PICK same : th' = [th EXCEPT ![t].second = ~same, ![t].ptr = Null,
                                     ![t].pc = IF same THEN "admit" ELSE Work(th[t].side)]
    BY <1>1, Zenon DEF Deref
  <2>2. CASE same
    BY <2>1, <2>2, <1>0
  <2>3. CASE ~same
    BY <2>1, <2>3, <1>0 DEF Work
  <2>4. QED
    BY <2>2, <2>3
<1>2. CASE CheckQueue(t)
  BY <1>0, <1>2 DEF CheckQueue
<1>3. CASE CountQueue(t) \/ TakeTicket(t) \/ StoreCombine(t)
  BY <1>0, <1>3, SMT DEF CountQueue, TakeTicket, StoreCombine, Goto
<1>4. CASE CallNext(t)
  BY <1>4, CallNextLeaves DEF Queued
<1>5. QED
  BY <1>1, <1>2, <1>3, <1>4 DEF Step, Goes

\* A conflict never reaches a release.
LEMMA NoConflictStep ==
    ASSUME TypeOK, NoConflict, NEW t \in Thread,
           Step(t) \/ \E s \in Side, k \in Key : Acquire(t, s, k)
    PROVE  NoConflict'
<1> DEFINE R == {"release", "start", "own", "other", "load", "store", "flag"}
<1>0. th[t] \in Operation
  BY DEF TypeOK
<1>1. ASSUME th'[t].pc \in R
      PROVE  ~th'[t].second
  <2>1. Step(t) /\ Holding(t)'
    BY <1>1, AcquireStarts DEF Holding
  <2>2. CASE Enter(t)
    BY <1>0, <1>1, <2>2 DEF Enter, TypeOK, Operation, Work
  <2>3. CASE LookKey(t) \/ CompareKey(t) \/ CopyCombined(t)
    BY <1>0, <1>1, <2>3, SMT DEF LookKey, CompareKey, CopyCombined, TypeOK, Operation
  <2>4. CASE Remote(t)
    BY <1>0, <1>1, <2>4 DEF Remote, NoOp, Operation
  <2>5. CASE LoadTicket(t)
    BY <1>0, <2>5 DEF LoadTicket, At, TypeOK, Operation, NoConflict
  <2>6. CASE Goes(t)
    BY <1>1, <2>6, GoesOn DEF NoConflict
  <2>7. QED
    BY <2>1, <2>2, <2>3, <2>4, <2>5, <2>6, HoldingStep
<1>2. \A u \in Thread : u # t => (th'[u].pc \in R => ~th'[u].second)
  BY OthersKept DEF NoConflict, Kept
<1>3. QED
  BY <1>1, <1>2 DEF NoConflict

\* While reads hand over, the key and the result stay together.
LEMMA HandoverStep ==
    ASSUME TypeOK, NoConflict, KeyHeld, HandoverKey, ResultOK, NEW t \in Thread,
           Step(t) \/ \E s \in Side, k \in Key : Acquire(t, s, k)
    PROVE  HandoverKey'
<1>0. /\ th[t] \in Operation /\ "r" \in Side /\ th[t].side \in Side
      /\ unique \in [Side -> Pointer \cup {Null}] /\ handover \in [Side -> BOOLEAN]
  BY DEF TypeOK, Operation, Side
<1>1. CASE \E s \in Side, k \in Key : Acquire(t, s, k)
  <2>1. PICK s \in Side, k \in Key : Acquire(t, s, k)
    BY <1>1
  <2>2. handover' = handover /\ ret' = ret
    BY <2>1, Zenon DEF Acquire
  <2>3. unique["r"] # Null => unique'["r"] = unique["r"]
    <3>1. CASE s = "r"
      BY <3>1, <2>1, Zenon DEF Acquire
    <3>2. CASE s # "r"
      <4>1. unique' = unique \/ \E new : unique' = [unique EXCEPT ![s] = new]
        BY <2>1, Zenon DEF Acquire
      <4>2. QED
        BY <4>1, <3>2, <1>0
    <3>3. QED
      BY <3>1, <3>2
  <2>4. QED
    BY <2>2, <2>3 DEF HandoverKey
<1>2. CASE Enter(t)
  <2>1. unique' = unique /\ ret' = ret /\ (handover'["r"] => handover["r"])
    BY <1>2, <1>0 DEF Enter
  <2>2. QED
    BY <2>1 DEF HandoverKey
<1>3. CASE LoadTicket(t)
  <2>1. unique' = unique /\ handover' = handover /\ (handover["r"] => ret' = ret)
    BY <1>3, <1>0 DEF LoadTicket
  <2>2. QED
    BY <2>1 DEF HandoverKey
<1>4. CASE SetHandover(t)
  <2>1. th[t].pc = "flag" /\ ret' = ret /\ Holding(t)
    BY <1>4 DEF SetHandover, At, Holding
  <2>2. CASE th[t].side = "r"
    <3>1. ret.key = th[t].key
      BY <2>1, <2>2 DEF ResultOK, ResultOf
    <3>2. unique["r"] # Null /\ unique["r"].key = th[t].key
      BY <2>1, <2>2 DEF KeyHeld, NoConflict
    <3>3. handover'["r"] => unique' = unique
      BY <1>4, <2>2, <1>0 DEF SetHandover
    <3>4. QED
      BY <2>1, <3>1, <3>2, <3>3 DEF HandoverKey
  <2>3. CASE th[t].side # "r"
    <3>1. handover'["r"] = handover["r"] /\ unique'["r"] = unique["r"]
      BY <1>4, <2>3, <1>0 DEF SetHandover
    <3>2. QED
      BY <2>1, <3>1 DEF HandoverKey
  <2>4. QED
    BY <2>2, <2>3
<1>5. CASE Step(t) /\ ~Enter(t) /\ ~LoadTicket(t) /\ ~SetHandover(t)
  BY <1>5, WhoWrites DEF HandoverKey
<1>6. QED
  BY <1>1, <1>2, <1>3, <1>4, <1>5

\* A step of a reader that is called keeps what ResultOK says of it.
LEMMA OwnResult ==
    ASSUME TypeOK, NoConflict, KeyHeld, HandoverKey, NEW t \in Thread, Step(t),
           Holding(t)', th'[t].side = "r", Holding(t) => ResultOf(t)
    PROVE  ResultOf(t)'
<1>0. /\ th[t] \in Operation /\ "r" \in Side /\ handover \in [Side -> BOOLEAN]
      /\ th[t].side = "r"
  <2>1. th[t].side = "r"
    BY StepKeepsKey DEF Holding
  <2>2. QED
    BY <2>1 DEF TypeOK, Side
<1>1. CASE Enter(t)
  <2>1. /\ th'[t].pc \notin {"start", "own", "other", "load", "store", "flag"} /\ ret' = ret
        /\ th'[t].key = th[t].key
    BY <1>0, <1>1 DEF Enter, TypeOK, Operation, Work
  <2>2. th'[t].first =>
          /\ handover["r"] /\ unique["r"].key = th[t].key
          /\ handover'["r"] /\ th'[t].pc = "release"
    BY <1>0, <1>1 DEF Enter, TypeOK, Operation
  <2>3. QED
    BY <2>1, <2>2 DEF ResultOf, HandoverKey
<1>2. CASE LookKey(t) \/ CompareKey(t) \/ CopyCombined(t)
  <2>1. /\ th[t].pc \in {"look", "compare", "copy"}
        /\ th'[t].pc \in {"compare", "copy", "remote"}
        /\ th'[t].first = th[t].first /\ th'[t].second = th[t].second
    BY <1>0, <1>2, SMT DEF LookKey, CompareKey, CopyCombined, At, TypeOK, Operation
  <2>2. ~th[t].first
    BY <2>1 DEF Holding, ResultOf
  <2>3. QED
    BY <2>1, <2>2 DEF ResultOf
<1>3. CASE Remote(t)
  <2>1. th[t].pc = "remote" /\ ~th[t].second
    BY <1>3 DEF Remote, At, NoOp, Holding
  <2>2. th'[t].pc = "release" /\ th'[t].first = th[t].first
    BY <1>0, <1>3, <2>1 DEF Remote, Operation
  <2>3. QED
    BY <2>1, <2>2 DEF ResultOf, Holding
<1>4. CASE LoadTicket(t)
  <2>1. /\ th[t].pc = "release" /\ th'[t].pc = "start" /\ handover' = handover
        /\ th'[t].first = th[t].first /\ th'[t].key = th[t].key
    BY <1>0, <1>4 DEF LoadTicket, At, TypeOK, Operation
  <2>2. handover["r"] => ret' = ret
    BY <1>0, <1>4 DEF LoadTicket
  <2>3. ~handover["r"] => ret'.key = th[t].key
    BY <1>0, <1>4 DEF LoadTicket
  <2>4. unique["r"] # Null /\ unique["r"].key = th[t].key
    BY <2>1, <1>0 DEF KeyHeld, NoConflict, Holding
  <2>5. ret'.key = th[t].key
    BY <2>2, <2>3, <2>4 DEF HandoverKey
  <2>6. th[t].first => handover["r"]
    BY <2>1 DEF ResultOf, Holding
  <2>7. QED
    BY <2>1, <2>5, <2>6 DEF ResultOf
<1>5. CASE Goes(t)
  <2>1. Holding(t)
    BY <1>5, GoesOn DEF Holding
  <2>2. ret' = ret
    BY <1>5, WhoWrites, GoesOn, Zenon DEF LoadTicket, At
  <2>3. CASE th'[t].pc \in {"own", "other", "load", "store", "flag"}
    <3>1. ~SetHandover(t) /\ ~Enter(t) /\ th[t].pc \in {"start", "own", "other", "load", "store"}
      BY <1>5, <2>3, GoesOn DEF Enter, At
    <3>2. handover' = handover
      BY <3>1, WhoWrites
    <3>3. QED
      BY <1>5, <2>1, <2>2, <2>3, <3>1, <3>2, GoesOn DEF ResultOf
  <2>4. CASE th'[t].pc \notin {"own", "other", "load", "store", "flag"}
    BY <1>5, <2>1, <2>2, <2>4, GoesOn DEF ResultOf
  <2>5. QED
    BY <2>3, <2>4
<1>6. QED
  BY <1>1, <1>2, <1>3, <1>4, <1>5, HoldingStep

\* A reader that is called finds the result for its key: nobody else on its
\* side is called before it has called the next.
LEMMA ResultStep ==
    ASSUME TypeOK, NoConflict, KeyHeld, HandoverKey, ResultOK, Exclusive, Exclusive',
           NEW t \in Thread,
           Step(t) \/ \E s \in Side, k \in Key : Acquire(t, s, k)
    PROVE  ResultOK'
<1>1. SUFFICES ASSUME NEW u \in Thread, Holding(u)', th'[u].side = "r"
               PROVE  ResultOf(u)'
  BY DEF ResultOK
<1>2. CASE u = t
  <2>1. Step(t)
    BY <1>1, <1>2, AcquireStarts DEF Holding
  <2>2. Holding(t) => ResultOf(t)
    <3>1. th[t].side = "r"
      BY <1>1, <1>2, <2>1, StepKeepsKey DEF Holding
    <3>2. QED
      BY <3>1 DEF ResultOK
  <2>3. QED
    BY <1>1, <1>2, <2>1, <2>2, OwnResult
<1>3. CASE u # t
  <2>1. Kept(u)
    BY <1>3, OthersKept
  <2>2. Holding(u) /\ th[u].side = "r"
    BY <1>1, <2>1 DEF Kept, Holding
  <2>3. ret' = ret
    <3>1. CASE LoadTicket(t)
      <4>1. Holding(t)
        BY <3>1 DEF LoadTicket, At, Holding
      <4>2. th[t].side # "r"
        BY <4>1, <2>2, <1>3 DEF Exclusive
      <4>3. QED
        BY <4>2, <3>1 DEF LoadTicket
    <3>2. CASE ~LoadTicket(t)
      BY <3>2, WhoWrites, Zenon DEF Acquire
    <3>3. QED
      BY <3>1, <3>2
  <2>4. handover'["r"] = handover["r"]
    <3>1. CASE Enter(t)
      <4>1. Holding(t)' /\ th'[t].side = th[t].side
        <5>1. th[t] \in Operation
          BY DEF TypeOK
        <5> DEFINE s == th[t].side
                   mine == unique[s] # Null /\ unique[s].key = th[t].key
                   given == mine /\ handover[s] /\ window[s] > 0
                   p == IF ~mine THEN "drain" ELSE IF given THEN "release" ELSE Work(s)
        <5>2. th' = [th EXCEPT ![t].first = given, ![t].second = ~mine, ![t].pc = p]
          BY <3>1 DEF Enter
        <5>3. p \in {"drain", "release", "look", "remote"} /\ (~mine => p = "drain")
          BY DEF Work
        <5> HIDE DEF mine, given, p
        <5>4. th'[t].side = th[t].side /\ th'[t].second = ~mine /\ th'[t].pc = p
          BY <5>1, <5>2, SMT DEF TypeOK, Operation
        <5>5. QED
          BY <5>3, <5>4 DEF Holding
      <4>2. th[t].side # "r"
        BY <4>1, <1>1, <1>3 DEF Exclusive
      <4>3. QED
        BY <4>2, <3>1 DEF Enter, TypeOK, Side
    <3>2. CASE SetHandover(t)
      <4>1. Holding(t)
        BY <3>2 DEF SetHandover, At, Holding
      <4>2. th[t].side # "r"
        BY <4>1, <2>2, <1>3 DEF Exclusive
      <4>3. QED
        BY <4>2, <3>2 DEF SetHandover, TypeOK, Side
    <3>3. CASE ~Enter(t) /\ ~SetHandover(t)
      BY <3>3, WhoWrites, Zenon DEF Acquire
    <3>4. QED
      BY <3>1, <3>2, <3>3
  <2>5. ResultOf(u)
    BY <2>2 DEF ResultOK
  <2>6. QED
    BY <2>1, <2>3, <2>4, <2>5 DEF ResultOf, Kept
<1>4. QED
  BY <1>2, <1>3

-----------------------------------------------------------------------------
(* The theorems.                                                           *)

\* A node at rest.
LEMMA InitInvariant ==
    ASSUME Init
    PROVE  IInv
<1>1. \A t \in Thread : th[t] = NoOp /\ th[t].pc = "idle"
  BY DEF Init, NoOp
<1>2. FirstTicket \in Tickets /\ 0 \in Tickets
  BY LocalLockAssumption, SMT DEF Tickets
<1>3. TypeOK
  BY <1>2, NoOpTyped DEF Init, TypeOK, Values
<1>4. ASSUME NEW s \in Side PROVE Queue(s) = {} /\ Outstanding(s) = 0
  <2>1. Queue(s) = {}
    BY <1>1 DEF Queue, Queued, Holding
  <2>2. Outstanding(s) = 0
    BY <1>2, ModDifference, TicketModPositive, SMT DEF Outstanding, Init, Tickets
  <2>3. QED
    BY <2>1, <2>2
<1>5. QueueOK
  BY <1>4, FS_EmptySet DEF QueueOK
<1>6. KeyKnown /\ NoConflict /\ KeyHeld /\ ResultOK
  BY <1>1 DEF KeyKnown, NoConflict, KeyHeld, ResultOK, Holding
<1>7. HandoverKey
  BY DEF HandoverKey, Init, Side
<1>8. QED
  BY <1>3, <1>5, <1>6, <1>7 DEF IInv

\* Every step keeps the queues in order.
LEMMA QueueStep ==
    ASSUME TypeOK, QueueOK, NEW t \in Thread,
           Step(t) \/ \E s \in Side, k \in Key : Acquire(t, s, k)
    PROVE  QueueOK'
<1>1. CASE TakeTicket(t)
  BY <1>1, TakeKeepsQueue
<1>2. CASE CallNext(t)
  BY <1>2, CallKeepsQueue
<1>3. CASE QuietStep(t) \/ \E s \in Side, k \in Key : Acquire(t, s, k)
  <2>1. \A u \in Thread : u # t => /\ Queued(u)' <=> Queued(u)
                                   /\ Holding(u)' <=> Holding(u)
                                   /\ th'[u].side = th[u].side /\ th'[u].my = th[u].my
    BY OthersKept DEF Kept, Queued, Holding
  <2>2. QED
    BY <1>3, <2>1, QuietKeepsPlace, QueueKept
<1>4. QED
  BY <1>1, <1>2, <1>3 DEF Step, QuietStep

\* Every step keeps the types.
LEMMA TypeStep ==
    ASSUME TypeOK, KeyKnown, NEW t \in Thread,
           Step(t) \/ \E s \in Side, k \in Key : Acquire(t, s, k)
    PROVE  TypeOK'
BY AcquireTyped, AdmitTyped, WorkTyped, ReleaseTyped, EndTyped DEF Step

\* The invariant is inductive.
LEMMA NextInvariant ==
    ASSUME IInv, [Next]_vars
    PROVE  IInv'
<1>1. CASE UNCHANGED vars
  <2>1. /\ current' = current /\ ticket' = ticket /\ handover' = handover
        /\ window' = window /\ window_start' = window_start /\ unique' = unique
        /\ lock' = lock /\ ret' = ret /\ wc_buffer' = wc_buffer /\ mem' = mem
        /\ ops' = ops /\ th' = th
    BY <1>1 DEF vars, node
  <2>2. TypeOK' /\ KeyKnown' /\ NoConflict' /\ KeyHeld' /\ HandoverKey'
    BY <2>1 DEF IInv, TypeOK, KeyKnown, NoConflict, KeyHeld, HandoverKey, Holding
  <2>3. ResultOK'
    BY <2>1 DEF IInv, ResultOK, ResultOf, Holding
  <2>4. QueueOK'
    BY <2>1, QueueKept DEF IInv, Queued, Holding
  <2>5. QED
    BY <2>2, <2>3, <2>4 DEF IInv
<1>2. ASSUME NEW t \in Thread, Step(t) \/ \E s \in Side, k \in Key : Acquire(t, s, k)
      PROVE  IInv'
  <2>1. TypeOK' /\ QueueOK' /\ KeyKnown' /\ NoConflict'
    BY <1>2, TypeStep, QueueStep, KeyKnownStep, NoConflictStep DEF IInv
  <2>2. Exclusive
    BY QueueExclusive DEF IInv
  <2>3. Exclusive'
    BY <2>1, QueueExclusive, PTL
  <2>4. KeyHeld' /\ HandoverKey'
    BY <1>2, <2>2, KeyHeldStep, HandoverStep DEF IInv
  <2>5. ResultOK'
    BY <1>2, <2>2, <2>3, ResultStep DEF IInv
  <2>6. QED
    BY <2>1, <2>4, <2>5 DEF IInv
<1>3. QED
  BY <1>1, <1>2 DEF Next

\* The inductive invariant holds in every reachable state.
LEMMA Invariance == Spec => []IInv
BY InitInvariant, NextInvariant, PTL DEF Spec

\* The counters, the windows and the fields of the operations stay in their
\* types: a uint32_t of the node never leaves its range.
THEOREM TypeCorrect == Spec => []TypeOK
BY Invariance, PTL DEF IInv

\* The two ticket queues of a LocalLockNode are locks: from the moment a
\* thread finds current equal to its ticket until it increments current, no
\* other thread is called on that side, however often the counters have
\* wrapped.
THEOREM OneCalled == Spec => []Exclusive
<1>1. IInv => Exclusive
  BY QueueExclusive DEF IInv
<1>2. QED
  BY <1>1, Invariance, PTL

\* Between the second look at the unique key and the end of the epoch nobody
\* deletes or replaces the key of the thread that was called.
THEOREM KeyStays == Spec => []KeyHeld
BY Invariance, PTL DEF IInv

\* A read that is handed over returns a result that was read for its key.
THEOREM DelegatedReadOwnKey == Spec => []DelegatedKey
<1>1. IInv => DelegatedKey
  BY DEF IInv, ResultOK, ResultOf, DelegatedKey
<1>2. QED
  BY <1>1, Invariance, PTL
=============================================================================

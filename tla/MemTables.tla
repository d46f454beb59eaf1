----------------------------- MODULE MemTables -----------------------------
(***************************************************************************)
(* The write path of dLSM (db/db_impl.cc, db/memtable_list.cc, the parts   *)
(* of db/version_set.cc they call): writers number their entries with one  *)
(* fetch_add, find or create the memtable their number belongs to and      *)
(* insert into it without a lock; flush threads turn full memtables into   *)
(* level-0 files; a compaction merges level 0 into level 1.                *)
(*                                                                         *)
(* Memtables are numbered in the order they are created, so memlist_,      *)
(* newest first, is the set imm in descending order, and the file of a     *)
(* memtable has the memtable's number here; file[t] is the file number the *)
(* code gives it.  An entry is its sequence number, which tells the key    *)
(* apart through keyOf; whether it is a value or a deletion is payload.    *)
(* A section under superversion_memlist_mtx is one action.  Every such     *)
(* section that changes mem_, imm_ or the current version ends with        *)
(* InstallSuperVersion, so what a reader that asks for the superversion    *)
(* gets is <<mem, imm, level0, level1>>.                                   *)
(***************************************************************************)
EXTENDS Naturals, FiniteSets

CONSTANTS Writer, Flusher, Compactor, Key,
          MEMTABLE_SEQ_SIZE,
          Immutable_StopWritesTrigger,
          kL0_SlowdownWritesTrigger,
          kL0_StopWritesTrigger,
          MaxTables,   \* bound: memtables that are created
          Workload     \* pairs of the keys that are written, in the order of
                       \* their numbers, and of the threads that there are

\* Two writers can be so far apart that one skips a memtable only if there
\* are more writers than entries in a memtable (1005640 in the code).  With
\* fewer than 3 files for the stop (4 in the code) two trivial moves in a row,
\* which wake nobody, could empty level 0 while a writer waits.
ASSUME MemTableAssumption ==
    /\ MEMTABLE_SEQ_SIZE \in Nat \ {0}
    /\ Immutable_StopWritesTrigger \in Nat \ {0}
    /\ kL0_SlowdownWritesTrigger \in Nat
    /\ kL0_StopWritesTrigger \in Nat /\ kL0_StopWritesTrigger >= 3
    /\ MaxTables \in Nat \ {0}
    /\ IsFiniteSet(Writer) /\ Cardinality(Writer) <= MEMTABLE_SEQ_SIZE
    /\ \A load \in Workload : /\ DOMAIN load[1] = 0..(Cardinality(DOMAIN load[1]) - 1)
                              /\ load[1] \in [DOMAIN load[1] -> Key]
                              /\ load[2] \subseteq Writer \cup Flusher \cup Compactor

Table == 1..MaxTables
None == 0

VARIABLES
    keyOf,          \* the key of each entry
    threads,        \* the threads that there are: callers of Write, and the pools
    last_sequence_, \* the number the next entry gets
    mem,            \* mem_
    first, largest, \* GetFirstseq, Getlargest_seq_supposed
    entries,        \* entries[t]: what has been inserted into t
    seq_count, able_to_flush, flush_state,
    file,           \* file[t]: the number of the file t was flushed to
    next_file,      \* next_file_number_
    imm, current_memtable_num_, num_flush_not_started_,
    level0, in_progress, level1,   \* of the current version
    flushes, compactions,          \* works scheduled on the thread pools
    writer,         \* writer[w]: the Write that w is in
    job,            \* job[f]: the flush work that f is in
    compact         \* compact[c]: the compaction work that c is in

memtables == <<mem, first, largest, file, next_file, imm, current_memtable_num_>>
version == <<level0, in_progress, level1>>
vars == <<keyOf, threads, last_sequence_, memtables, entries, seq_count, able_to_flush,
          flush_state, num_flush_not_started_, version, flushes, compactions,
          writer, job, compact>>

IdleWriter == [pc |-> "idle", seq |-> 0, mem |-> None, files |-> 0, delayed |-> FALSE]
IdleJob == [pc |-> "idle", mem |-> None]
IdleCompaction == [pc |-> "idle", inputs |-> {}]

Init ==
    /\ \E load \in Workload : keyOf = load[1] /\ threads = load[2]
    /\ last_sequence_ = 0
    /\ mem = 1
    /\ first = [t \in Table |-> 0]
    /\ largest = [t \in Table |-> IF t = 1 THEN MEMTABLE_SEQ_SIZE - 1 ELSE 0]
    /\ entries = [t \in Table |-> {}]
    /\ seq_count = [t \in Table |-> 0]
    /\ able_to_flush = [t \in Table |-> FALSE]
    /\ flush_state = [t \in Table |-> "NOT_REQUESTED"]
    /\ file = [t \in Table |-> None]
    /\ next_file = 1
    /\ imm = {} /\ current_memtable_num_ = 0 /\ num_flush_not_started_ = 0
    /\ level0 = {} /\ in_progress = {} /\ level1 = {}
    /\ flushes = 0 /\ compactions = 0
    /\ writer = [w \in Writer |-> IdleWriter]
    /\ job = [f \in Flusher |-> IdleJob]
    /\ compact = [c \in Compactor |-> IdleCompaction]

-----------------------------------------------------------------------------
(* Helpers.                                                                *)

\* Of the entries of S, the newest of each key.
Newest(S) == {s \in S : \A u \in S : keyOf[u] = keyOf[s] => u <= s}

\* FlushJob::BuildTable: of each user key the first entry, which is the
\* newest, goes into the file.
FileOf(t) == Newest(entries[t])

Least(S) == CHOOSE t \in S : \A u \in S : t <= u

IsFlushPending == num_flush_not_started_ >= 1
NeedsCompaction == Cardinality(level0 \ in_progress) >= 1

Stalled == \/ current_memtable_num_ >= Immutable_StopWritesTrigger
           \/ Cardinality(level0) >= kL0_StopWritesTrigger

InRange(s, t) == first[t] <= s /\ s <= largest[t]

\* PickMemtablesSeqBelong: the memtable of memlist_ that s belongs to, or none.
TableOf(s) == LET T == {t \in imm : InRange(s, t)} IN IF T = {} THEN {None} ELSE T

\* write_stall_cv.notify_all: the writers that wait take the mutex again and
\* look at the condition again.
Woken == [w \in Writer |-> IF writer[w].pc = "wait"
                           THEN [writer[w] EXCEPT !.pc = "stall"] ELSE writer[w]]

\* MaybeScheduleFlushOrCompaction, with the values it reads: one flush work,
\* two compaction works.  Works that find nothing to do may pile up in the
\* code; here no more than two wait.
MaybeSchedule(pending, needed) ==
    /\ flushes' = flushes + (IF pending THEN 1 ELSE 0)
    /\ compactions' = IF needed THEN 2 ELSE compactions

-----------------------------------------------------------------------------
(* DBImpl::Write and PickupTableToWrite.                                   *)

\* AssignSequnceNumbers returns the value before the addition.
Assign(w) ==
    /\ w \in threads /\ writer[w].pc = "idle" /\ last_sequence_ \in DOMAIN keyOf
    /\ writer' = [writer EXCEPT ![w] = [IdleWriter EXCEPT !.pc = "load", !.seq = last_sequence_]]
    /\ last_sequence_' = last_sequence_ + 1
    /\ UNCHANGED <<keyOf, threads, memtables, entries, seq_count, able_to_flush,
                   flush_state, num_flush_not_started_, version, flushes,
                   compactions, job, compact>>

\* Steps of a writer that change nothing but its own progress.
OnlyWriter ==
    UNCHANGED <<keyOf, threads, last_sequence_, memtables, entries, seq_count,
                able_to_flush, flush_state, num_flush_not_started_, version,
                flushes, compactions, job, compact>>

Load(w) ==
    /\ writer[w].pc = "load"
    /\ writer' = [writer EXCEPT ![w].pc = "check", ![w].mem = mem]
    /\ OnlyWriter

\* The condition of the loop, and the number of level-0 files ...
Check(w) ==
    /\ writer[w].pc = "check"
    /\ \/ /\ writer[w].seq <= largest[writer[w].mem]
          /\ writer' = [writer EXCEPT ![w].pc = "find"]
       \/ /\ writer[w].seq > largest[writer[w].mem]
          /\ writer' = [writer EXCEPT ![w].pc = "room", ![w].files = Cardinality(level0)]
    /\ OnlyWriter

\* ... which is compared, after that of the memtables, without the mutex.
Room(w) ==
    LET stop == \/ current_memtable_num_ >= Immutable_StopWritesTrigger
                \/ writer[w].files >= kL0_StopWritesTrigger
        slow == writer[w].files > kL0_SlowdownWritesTrigger /\ ~writer[w].delayed
    IN  /\ writer[w].pc = "room"
        /\ writer' = [writer EXCEPT ![w].files = 0,
                         ![w].pc = IF stop THEN "stall" ELSE IF slow THEN "load" ELSE "switch",
                         ![w].delayed = @ \/ (slow /\ ~stop)]
        /\ OnlyWriter

\* Under the mutex: wait for write_stall_cv, or go round the loop.
Stall(w) ==
    /\ writer[w].pc = "stall"
    /\ writer' = [writer EXCEPT ![w].pc =
                     IF Stalled /\ writer[w].seq > largest[mem]
                     THEN "wait" ELSE "load"]
    /\ OnlyWriter

\* Mutant of Switch: the number is not compared with the new memtable again.
SwitchUnchecked(w) ==
    /\ writer[w].pc = "switch"
    /\ \/ /\ current_memtable_num_ <= Immutable_StopWritesTrigger
          /\ Cardinality(level0) <= kL0_StopWritesTrigger
          /\ mem < MaxTables
          /\ mem' = mem + 1
          /\ first' = [first EXCEPT ![mem + 1] = largest[mem] + 1]
          /\ largest' = [largest EXCEPT ![mem + 1] = largest[mem] + MEMTABLE_SEQ_SIZE]
          /\ flush_state' = [flush_state EXCEPT ![mem] = "REQUESTED"]
          /\ imm' = imm \cup {mem}
          /\ current_memtable_num_' = current_memtable_num_ + 1
          /\ num_flush_not_started_' = num_flush_not_started_ + 1
          /\ writer' = [writer EXCEPT ![w].pc = "insert", ![w].mem = mem + 1]
          /\ MaybeSchedule(TRUE, NeedsCompaction)
       \/ /\ \/ current_memtable_num_ > Immutable_StopWritesTrigger
             \/ Cardinality(level0) > kL0_StopWritesTrigger
          /\ writer' = [writer EXCEPT ![w].pc = "load"]
          /\ UNCHANGED <<mem, first, largest, flush_state, imm,
                         current_memtable_num_, num_flush_not_started_,
                         flushes, compactions>>
    /\ UNCHANGED <<keyOf, threads, last_sequence_, file, next_file, entries, seq_count,
                   able_to_flush, version, job, compact>>

\* Under the mutex: the tests once more, with <= where the tests above have
\* >=, and the new memtable.
Switch(w) ==
    /\ writer[w].pc = "switch"
    /\ \/ /\ current_memtable_num_ <= Immutable_StopWritesTrigger
          /\ Cardinality(level0) <= kL0_StopWritesTrigger
          /\ writer[w].seq > largest[mem]
          /\ mem < MaxTables
          /\ mem' = mem + 1
          /\ first' = [first EXCEPT ![mem + 1] = largest[mem] + 1]
          /\ largest' = [largest EXCEPT ![mem + 1] = largest[mem] + MEMTABLE_SEQ_SIZE]
          /\ flush_state' = [flush_state EXCEPT ![mem] = "REQUESTED"]
          /\ imm' = imm \cup {mem}
          /\ current_memtable_num_' = current_memtable_num_ + 1
          /\ num_flush_not_started_' = num_flush_not_started_ + 1
          /\ writer' = [writer EXCEPT ![w].pc = "insert", ![w].mem = mem + 1]
          /\ MaybeSchedule(TRUE, NeedsCompaction)
       \/ /\ \/ current_memtable_num_ > Immutable_StopWritesTrigger
             \/ Cardinality(level0) > kL0_StopWritesTrigger
             \/ writer[w].seq <= largest[mem]
          /\ writer' = [writer EXCEPT ![w].pc = "load"]
          /\ UNCHANGED <<mem, first, largest, flush_state, imm,
                         current_memtable_num_, num_flush_not_started_,
                         flushes, compactions>>
    /\ UNCHANGED <<keyOf, threads, last_sequence_, file, next_file, entries, seq_count,
                   able_to_flush, version, job, compact>>

\* The memtable that was loaded, or under the mutex the one of memlist_ that
\* the number belongs to, or a null pointer, which the next round of the loop
\* would follow.
Find(w) ==
    /\ writer[w].pc = "find"
    /\ \/ /\ InRange(writer[w].seq, writer[w].mem)
          /\ writer' = [writer EXCEPT ![w].pc = "insert"]
       \/ /\ ~InRange(writer[w].seq, writer[w].mem)
          /\ \E t \in TableOf(writer[w].seq) :
                writer' = [writer EXCEPT ![w].pc = "insert", ![w].mem = t]
    /\ OnlyWriter

\* WriteBatchInternal::InsertInto, into the lock-free skip list.
Insert(w) ==
    /\ writer[w].pc = "insert"
    /\ entries' = [entries EXCEPT ![writer[w].mem] = @ \cup {writer[w].seq}]
    /\ writer' = [writer EXCEPT ![w].pc = "count"]
    /\ UNCHANGED <<keyOf, threads, last_sequence_, memtables, seq_count, able_to_flush,
                   flush_state, num_flush_not_started_, version, flushes,
                   compactions, job, compact>>

\* increase_seq_count: the addition, and the test, which reads the counter
\* again.
Count(w) ==
    /\ writer[w].pc = "count"
    /\ seq_count' = [seq_count EXCEPT ![writer[w].mem] = @ + 1]
    /\ writer' = [writer EXCEPT ![w].pc = "full"]
    /\ UNCHANGED <<keyOf, threads, last_sequence_, memtables, entries, able_to_flush,
                   flush_state, num_flush_not_started_, version, flushes,
                   compactions, job, compact>>

\* Mutant of Full: one entry too early.
FullEarly(w) ==
    /\ writer[w].pc = "full"
    /\ able_to_flush' = [able_to_flush EXCEPT ![writer[w].mem] =
                            @ \/ seq_count[writer[w].mem] >= MEMTABLE_SEQ_SIZE - 1]
    /\ writer' = [writer EXCEPT ![w] = IdleWriter]
    /\ UNCHANGED <<keyOf, threads, last_sequence_, memtables, entries, seq_count,
                   flush_state, num_flush_not_started_, version, flushes,
                   compactions, job, compact>>

Full(w) ==
    /\ writer[w].pc = "full"
    /\ able_to_flush' = [able_to_flush EXCEPT ![writer[w].mem] =
                            @ \/ seq_count[writer[w].mem] >= MEMTABLE_SEQ_SIZE]
    /\ writer' = [writer EXCEPT ![w] = IdleWriter]
    /\ UNCHANGED <<keyOf, threads, last_sequence_, memtables, entries, seq_count,
                   flush_state, num_flush_not_started_, version, flushes,
                   compactions, job, compact>>

-----------------------------------------------------------------------------
(* BackgroundFlush and CompactMemTable.                                    *)

StartFlush(f) ==
    /\ f \in threads /\ job[f].pc = "idle" /\ flushes > 0
    /\ flushes' = flushes - 1
    /\ job' = [job EXCEPT ![f].pc = IF IsFlushPending THEN "pick" ELSE "done"]
    /\ UNCHANGED <<keyOf, threads, last_sequence_, memtables, entries, seq_count,
                   able_to_flush, flush_state, num_flush_not_started_, version,
                   compactions, writer, compact>>

\* Under the mutex: IsFlushPending and PickMemtablesToFlush, which takes the
\* oldest memtable that is requested (MaxImmuNumPerFlush is 1).
Pick(f) ==
    /\ job[f].pc = "pick"
    /\ \/ /\ IsFlushPending
          /\ LET t == Least({u \in imm : flush_state[u] = "REQUESTED"}) IN
                /\ flush_state' = [flush_state EXCEPT ![t] = "PROCESSING"]
                /\ job' = [job EXCEPT ![f] = [pc |-> "await", mem |-> t]]
          /\ num_flush_not_started_' = num_flush_not_started_ - 1
       \/ /\ ~IsFlushPending
          /\ job' = [job EXCEPT ![f].pc = "done"]
          /\ UNCHANGED <<flush_state, num_flush_not_started_>>
    /\ UNCHANGED <<keyOf, threads, last_sequence_, memtables, entries, seq_count,
                   able_to_flush, version, flushes, compactions, writer, compact>>

\* Waitforpendingwriter spins until the memtable is full, and wakes the
\* stalled writers now and then.
Await(f) ==
    /\ job[f].pc = "await"
    /\ \/ /\ able_to_flush[job[f].mem]
          /\ job' = [job EXCEPT ![f].pc = "build"]
          /\ UNCHANGED writer
       \/ /\ ~able_to_flush[job[f].mem]
          /\ writer' = Woken
          /\ UNCHANGED job
    /\ UNCHANGED <<keyOf, threads, last_sequence_, memtables, entries, seq_count,
                   able_to_flush, flush_state, num_flush_not_started_, version,
                   flushes, compactions, compact>>

\* WriteLevel0Table: the file gets the next number and the entries of the
\* memtable, FileOf.
Build(f) ==
    /\ job[f].pc = "build"
    /\ file' = [file EXCEPT ![job[f].mem] = next_file]
    /\ next_file' = next_file + 1
    /\ job' = [job EXCEPT ![f].pc = "mark"]
    /\ UNCHANGED <<keyOf, threads, last_sequence_, mem, first, largest, imm,
                   current_memtable_num_, entries, seq_count, able_to_flush,
                   flush_state, num_flush_not_started_, version, flushes,
                   compactions, writer, compact>>

\* TryInstallMemtableFlushResults, under FlushPickMTX.
Mark(f) ==
    /\ job[f].pc = "mark"
    /\ flush_state' = [flush_state EXCEPT ![job[f].mem] = "FINISHED"]
    /\ job' = [job EXCEPT ![f].pc = "install"]
    /\ UNCHANGED <<keyOf, threads, last_sequence_, memtables, entries, seq_count,
                   able_to_flush, num_flush_not_started_, version, flushes,
                   compactions, writer, compact>>

\* Mutant of Batch: whatever has finished.
BatchAny == {t \in imm : flush_state[t] = "FINISHED"}

\* The memtables that are committed: from the oldest on, as far as the
\* flushes have finished.
Batch == {t \in imm : \A u \in imm : u <= t => flush_state[u] = "FINISHED"}

\* Mutant of Install: the counter goes down by one.
InstallOne(f) ==
    /\ job[f].pc = "install"
    /\ \/ /\ Batch = {}
          /\ job' = [job EXCEPT ![f].pc = "done"]
          /\ UNCHANGED <<imm, current_memtable_num_, level0>>
       \/ /\ Batch # {}
          /\ imm' = imm \ Batch
          /\ current_memtable_num_' = current_memtable_num_ - 1
          /\ level0' = level0 \cup Batch
          /\ job' = [job EXCEPT ![f].pc = "notify"]
    /\ UNCHANGED <<keyOf, threads, last_sequence_, mem, first, largest, file, next_file,
                   entries, seq_count, able_to_flush, flush_state,
                   num_flush_not_started_, in_progress, level1, flushes,
                   compactions, writer, compact>>

\* Under the mutex: commit the batch to memlist_ and to level 0.
Install(f) ==
    /\ job[f].pc = "install"
    /\ \/ /\ Batch = {}
          /\ job' = [job EXCEPT ![f].pc = "done"]
          /\ UNCHANGED <<imm, current_memtable_num_, level0>>
       \/ /\ Batch # {}
          /\ imm' = imm \ Batch
          /\ current_memtable_num_' = current_memtable_num_ - Cardinality(Batch)
          /\ level0' = level0 \cup Batch
          /\ job' = [job EXCEPT ![f].pc = "notify"]
    /\ UNCHANGED <<keyOf, threads, last_sequence_, mem, first, largest, file, next_file,
                   entries, seq_count, able_to_flush, flush_state,
                   num_flush_not_started_, in_progress, level1, flushes,
                   compactions, writer, compact>>

\* Mutant of Notify: no writer is woken.
NotifyNobody(f) ==
    /\ job[f].pc = "notify"
    /\ writer' = writer
    /\ job' = [job EXCEPT ![f].pc = "done"]
    /\ UNCHANGED <<keyOf, threads, last_sequence_, memtables, entries, seq_count,
                   able_to_flush, flush_state, num_flush_not_started_, version,
                   flushes, compactions, compact>>

\* notify_all, after the mutex has been released.
Notify(f) ==
    /\ job[f].pc = "notify"
    /\ writer' = Woken
    /\ job' = [job EXCEPT ![f].pc = "done"]
    /\ UNCHANGED <<keyOf, threads, last_sequence_, memtables, entries, seq_count,
                   able_to_flush, flush_state, num_flush_not_started_, version,
                   flushes, compactions, compact>>

EndFlush(f) ==
    /\ job[f].pc = "done"
    /\ MaybeSchedule(IsFlushPending, NeedsCompaction)
    /\ job' = [job EXCEPT ![f] = IdleJob]
    /\ UNCHANGED <<keyOf, threads, last_sequence_, memtables, entries, seq_count,
                   able_to_flush, flush_state, num_flush_not_started_, version,
                   writer, compact>>

-----------------------------------------------------------------------------
(* BackgroundCompaction, from level 0 to level 1.                          *)

OnlyCompaction ==
    UNCHANGED <<keyOf, threads, last_sequence_, memtables, entries, seq_count,
                able_to_flush, flush_state, num_flush_not_started_, job>>

\* NeedsCompaction is tested without the mutex.
StartCompaction(c) ==
    /\ c \in threads /\ compact[c].pc = "idle"
    /\ compactions > 0 /\ compactions' = compactions - 1
    /\ compact' = [compact EXCEPT ![c].pc = IF NeedsCompaction THEN "pick" ELSE "done"]
    /\ UNCHANGED <<version, flushes, writer>>
    /\ OnlyCompaction

\* PickCompaction and PickFileToCompact, under the mutex: every file of level
\* 0, unless there is none or some of them are being compacted: then the work
\* returns and schedules nothing.
PickCompaction(c) ==
    /\ compact[c].pc = "pick"
    /\ \/ /\ NeedsCompaction /\ in_progress = {}
          /\ in_progress' = level0
          /\ compact' = [compact EXCEPT ![c] = [pc |-> "merge", inputs |-> level0]]
       \/ /\ ~NeedsCompaction \/ in_progress # {}
          /\ compact' = [compact EXCEPT ![c] = IdleCompaction]
          /\ UNCHANGED in_progress
    /\ UNCHANGED <<level0, level1, flushes, compactions, writer>>
    /\ OnlyCompaction

InputEntries(c) == UNION {FileOf(t) : t \in compact[c].inputs}

\* IsTrivialMove: one input, and no file of level 1 overlaps it.
MayMove(c) == /\ Cardinality(compact[c].inputs) = 1
              /\ {keyOf[s] : s \in level1} \cap {keyOf[s] : s \in InputEntries(c)} = {}

\* Mutant of EndCompaction: the inputs stay marked.
EndCompactionMarked(c) ==
    /\ compact[c].pc = "merge"
    /\ level0' = level0 \ compact[c].inputs
    /\ in_progress' = in_progress
    /\ \/ /\ MayMove(c)
          /\ level1' = level1 \cup InputEntries(c)
          /\ UNCHANGED writer
       \/ /\ ~(MayMove(c) /\ level1 = {})
          /\ level1' = Newest(level1 \cup InputEntries(c))
          /\ writer' = Woken
    /\ compact' = [compact EXCEPT ![c] = [pc |-> "done", inputs |-> {}]]
    /\ UNCHANGED <<flushes, compactions>>
    /\ OnlyCompaction

\* Mutant of EndCompaction: files that were flushed meanwhile go, too.
EndCompactionAll(c) ==
    /\ compact[c].pc = "merge"
    /\ level0' = {}
    /\ in_progress' = {}
    /\ \/ /\ MayMove(c)
          /\ level1' = level1 \cup InputEntries(c)
          /\ UNCHANGED writer
       \/ /\ ~(MayMove(c) /\ level1 = {})
          /\ level1' = Newest(level1 \cup InputEntries(c))
          /\ writer' = Woken
    /\ compact' = [compact EXCEPT ![c] = [pc |-> "done", inputs |-> {}]]
    /\ UNCHANGED <<flushes, compactions>>
    /\ OnlyCompaction

\* A trivial move wakes nobody.  A merge, here (InstallCompactionResults) or on
\* the memory node (NearDataCompaction), keeps the newest entry of each key and
\* wakes the stalled writers before it releases the mutex.
EndCompaction(c) ==
    /\ compact[c].pc = "merge"
    /\ level0' = level0 \ compact[c].inputs
    /\ in_progress' = {}
    /\ \/ /\ MayMove(c)
          /\ level1' = level1 \cup InputEntries(c)
          /\ UNCHANGED writer
       \/ /\ ~(MayMove(c) /\ level1 = {})
          /\ level1' = Newest(level1 \cup InputEntries(c))
          /\ writer' = Woken
    /\ compact' = [compact EXCEPT ![c] = [pc |-> "done", inputs |-> {}]]
    /\ UNCHANGED <<flushes, compactions>>
    /\ OnlyCompaction

\* NearDataCompaction returns when its request cannot be sent: the inputs stay
\* as they are, and marked.
FailCompaction(c) ==
    /\ compact[c].pc = "merge" /\ ~(MayMove(c) /\ level1 = {})
    /\ compact' = [compact EXCEPT ![c] = [pc |-> "done", inputs |-> {}]]
    /\ UNCHANGED <<version, flushes, compactions, writer>>
    /\ OnlyCompaction

RescheduleCompaction(c) ==
    /\ compact[c].pc = "done"
    /\ MaybeSchedule(IsFlushPending, NeedsCompaction)
    /\ compact' = [compact EXCEPT ![c] = IdleCompaction]
    /\ UNCHANGED <<version, writer>>
    /\ OnlyCompaction

-----------------------------------------------------------------------------
WriteStep(w) == \/ Assign(w) \/ Load(w) \/ Check(w) \/ Room(w) \/ Stall(w)
                \/ Switch(w) \/ Find(w) \/ Insert(w) \/ Count(w) \/ Full(w)

FlushStep(f) == \/ StartFlush(f) \/ Pick(f) \/ Await(f) \/ Build(f) \/ Mark(f)
                \/ Install(f) \/ Notify(f) \/ EndFlush(f)

CompactStep(c) == \/ StartCompaction(c) \/ PickCompaction(c) \/ EndCompaction(c)
                  \/ FailCompaction(c) \/ RescheduleCompaction(c)

Next == \/ \E w \in Writer : WriteStep(w)
        \/ \E f \in Flusher : FlushStep(f)
        \/ \E c \in Compactor : CompactStep(c)

Spec == Init /\ [][Next]_vars

-----------------------------------------------------------------------------
(* Properties.                                                             *)

WriterPC == {"idle", "load", "check", "room", "stall", "wait", "switch", "find",
             "insert", "count", "full"}
JobPC == {"idle", "pick", "await", "build", "mark", "install", "notify", "done"}
CompactPC == {"idle", "pick", "merge", "done"}
FlushState == {"NOT_REQUESTED", "REQUESTED", "PROCESSING", "FINISHED"}
WriterState == [pc : WriterPC, seq : Nat, mem : Table \cup {None}, files : Nat,
                delayed : BOOLEAN]
JobState == [pc : JobPC, mem : Table \cup {None}]

\* Types of the variables.
TypeOK ==
    /\ keyOf \in [DOMAIN keyOf -> Key] /\ threads \subseteq Writer \cup Flusher \cup Compactor
    /\ last_sequence_ \in Nat /\ mem \in Table
    /\ first \in [Table -> Nat] /\ largest \in [Table -> Nat]
    /\ entries \in [Table -> SUBSET Nat] /\ seq_count \in [Table -> Nat]
    /\ able_to_flush \in [Table -> BOOLEAN]
    /\ flush_state \in [Table -> FlushState]
    /\ file \in [Table -> Nat] /\ next_file \in Nat \ {0}
    /\ imm \subseteq Table
    /\ current_memtable_num_ \in Nat /\ num_flush_not_started_ \in Nat
    /\ level0 \subseteq Table /\ in_progress \subseteq level0
    /\ level1 \subseteq Nat
    /\ flushes \in Nat /\ compactions \in 0..2
    /\ writer \in [Writer -> WriterState] /\ job \in [Flusher -> JobState]
    /\ compact \in [Compactor -> [pc : CompactPC, inputs : SUBSET Table]]

\* With no more writers than entries in a memtable, PickupTableToWrite never
\* ends with a null pointer, and from there to the addition in
\* increase_seq_count the memtable of a writer is the one its number belongs
\* to (the assertion of Write), is mem_ or in memlist_, and is not being turned
\* into a file: no entry is inserted too late.  After the addition the writer
\* still reads the memtable; nothing is said of that read.
WriterHasTable ==
    \A w \in Writer : writer[w].pc \in {"insert", "count"} =>
        /\ writer[w].mem \in imm \cup {mem}
        /\ InRange(writer[w].seq, writer[w].mem)
        /\ file[writer[w].mem] = None

\* A memtable that has become a file holds every number of its range, each
\* inserted and counted: Waitforpendingwriter waited for all of them, and
\* the assertion seq_count == MEMTABLE_SEQ_SIZE of MemTable::Unref holds.
FilesComplete ==
    \A t \in Table : file[t] # None =>
        /\ entries[t] = first[t]..largest[t]
        /\ seq_count[t] = MEMTABLE_SEQ_SIZE

\* Whatever has been flushed, committed, moved or merged: the newest entry
\* of each key that has been inserted is in the memtables, the level-0 files
\* or level 1 of the superversion.
NothingLost ==
    Newest(UNION {entries[t] : t \in Table}) \subseteq
        (UNION {entries[t] : t \in imm \cup {mem}})
            \cup (UNION {FileOf(t) : t \in level0}) \cup level1

\* A search that goes from mem_ to memlist_, level 0 and level 1 and stops at
\* the first hit finds no entry of a key before a newer one of another tier,
\* although flushes finish in any order and writers still insert into
\* memlist_.
TiersOrdered ==
    /\ \A t \in imm, u \in level0 : u < t /\ t < mem
    /\ \A s \in level1, u \in level0 : \A e \in FileOf(u) :
           keyOf[e] = keyOf[s] => s < e

\* The counters that the triggers look at, which are changed one by one, agree
\* with memlist_, and the stop trigger bounds the memtables: two writers that
\* have both passed the tests without the mutex do not both make one.
Backlog ==
    /\ current_memtable_num_ = Cardinality(imm)
    /\ num_flush_not_started_ = Cardinality({t \in imm : flush_state[t] = "REQUESTED"})
    /\ Cardinality(imm) <= Immutable_StopWritesTrigger

\* A compaction has failed and left its inputs marked.
Failed == in_progress # {} /\ \A c \in Compactor : compact[c].pc # "merge"

\* While a writer waits for write_stall_cv there is a work of the pools that
\* is scheduled or running, unless a compaction has failed: the last work does
\* not end before the writer is woken, and no step of the scheduling leaves
\* full memtables or files with nobody to take them.
WaiterHasWaker ==
    (\E w \in Writer : writer[w].pc = "wait") =>
        \/ flushes > 0 \/ \E f \in Flusher : job[f].pc # "idle"
        \/ compactions > 0 \/ \E c \in Compactor : compact[c].pc # "idle"
        \/ Failed
=============================================================================

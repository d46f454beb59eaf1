---------------------------- MODULE ReplicaGroup ----------------------------
(***************************************************************************)
(* sv::ReplicaGroup (skipvector/ReplicaGroup.cc): one logical read, write  *)
(* or CAS is posted to every replica, and the caller polls its completion  *)
(* queue.  Each client thread has a ReplicaGroup and a queue of its own;   *)
(* the replicas are shared.                                                *)
(*                                                                         *)
(* The module follows one offset.  An offset of the handle pool holds a    *)
(* LeafHandle and is changed by cas_all; an offset of the leaf pool holds  *)
(* contents and is changed by write_all of the client that allocated it.   *)
(* A word is its version and a client: of a handle, the client that        *)
(* allocated the contents it points to.  LeafHandle::bump_struct points to *)
(* contents of the caller, bump_content keeps the offset, so that two      *)
(* clients may offer the same word.  Both make the next version of the     *)
(* handle they are applied to; a writer of contents counts its own calls.  *)
(***************************************************************************)
EXTENDS Naturals, FiniteSets

CONSTANTS Client, Replica,
          Writer,     \* the owner of the contents, if the offset holds contents
          Quorum,     \* kQuorum
          MaxCalls,   \* bound: MaxCalls[c] calls of client c
          MaxCrashes  \* bound: replicas that fail

ASSUME ReplicaAssumption ==
    /\ IsFiniteSet(Replica)
    /\ Quorum \in Nat /\ 2 * Quorum > Cardinality(Replica)
    /\ Writer \in Client
    /\ MaxCalls \in [Client -> Nat] /\ MaxCrashes \in Nat

VARIABLES
    handle,  \* whether the offset holds a LeafHandle; never changes
    mem,     \* mem[r]: the word of replica r
    up,      \* replicas that have not failed
    call,    \* call[c]: the call client c is in or has returned from
    calls,   \* calls[c]: how many calls client c has made
    verbs,   \* posted verbs whose completion has not been polled
    buf,     \* buf[c][r]: what the last verb of c to r delivered
    swaps,   \* every [rep, old, id] of a CAS that took effect
    won,     \* every [old, id] of a cas_all that returned true
    acked    \* the newest version a write_all that returned true has written

vars == <<handle, mem, up, call, calls, verbs, buf, swaps, won, acked>>

Word == [ver : Nat, by : Client]
FirstWord == [ver |-> 0, by |-> Writer]

\* expected is the word a cas_all expects, floor what had been acknowledged
\* when a read began.
Idle == [op |-> "none", expected |-> FirstWord, desired |-> FirstWord,
         posted |-> 0, completions |-> 0, mask |-> {}, floor |-> 0,
         pc |-> "idle"]

Init ==
    /\ handle \in BOOLEAN
    /\ mem = [r \in Replica |-> FirstWord]
    /\ up = Replica
    /\ call = [c \in Client |-> Idle]
    /\ calls = [c \in Client |-> 0]
    /\ verbs = {}
    /\ buf = [c \in Client |-> [r \in Replica |-> FirstWord]]
    /\ swaps = {} /\ won = {} /\ acked = 0

-----------------------------------------------------------------------------
Verb(c, r, o, e, d) ==
    [cl |-> c, rep |-> r, id |-> calls[c] + 1, op |-> o, expected |-> e,
     desired |-> d, st |-> "posted"]

\* The posting loop of read_all, write_all and cas_all: set_drop_mask may
\* have named any replicas, and those get no verb.
Post(c, o, e, d) ==
    /\ call[c].pc = "idle" /\ calls[c] < MaxCalls[c]
    /\ \E drop \in SUBSET Replica :
         /\ verbs' = verbs \cup {Verb(c, r, o, e, d) : r \in Replica \ drop}
         /\ call' = [call EXCEPT ![c] =
                [op |-> o, expected |-> e, desired |-> d,
                 posted |-> Cardinality(Replica \ drop), completions |-> 0,
                 mask |-> {}, floor |-> acked, pc |-> "wait"]]
    /\ calls' = [calls EXCEPT ![c] = @ + 1]
    /\ UNCHANGED <<handle, mem, up, buf, swaps, won, acked>>

ReadAll(c) == Post(c, "read", FirstWord, FirstWord)

WriteAll(c) ==
    /\ ~handle /\ c = Writer
    /\ Post(c, "write", FirstWord, [ver |-> calls[c] + 1, by |-> c])

\* The caller expects a handle that its calls have delivered, which no replica
\* may hold any more, and offers the next one.
CasAll(c) ==
    /\ handle
    /\ \E r \in Replica : LET h == buf[c][r] IN
         \E b \in {h.by, c} : Post(c, "cas", h, [ver |-> h.ver + 1, by |-> b])

-----------------------------------------------------------------------------
(* External: the replicas and the network.                                 *)

\* A verb takes effect at its replica and its result is delivered.
Execute(v) ==
    LET r == v.rep
        hit == v.op = "write" \/ (v.op = "cas" /\ mem[r] = v.expected)
    IN  /\ v.st = "posted" /\ r \in up
        /\ mem' = IF hit THEN [mem EXCEPT ![r] = v.desired] ELSE mem
        /\ buf' = IF v.op = "write" THEN buf
                  ELSE [buf EXCEPT ![v.cl][r] = mem[r]]
        /\ swaps' = IF hit /\ v.op = "cas"
                      THEN swaps \cup {[rep |-> r, old |-> v.expected,
                                        id |-> <<v.cl, v.id>>]}
                      ELSE swaps
        /\ verbs' = (verbs \ {v}) \cup {[v EXCEPT !.st = "done"]}
        /\ UNCHANGED <<handle, up, call, calls, won, acked>>

Crash(r) ==
    /\ r \in up /\ Cardinality(Replica \ up) < MaxCrashes
    /\ up' = up \ {r}
    /\ UNCHANGED <<handle, mem, call, calls, verbs, buf, swaps, won, acked>>

\* The retries of the network card run out: a completion with an error.
Break(v) ==
    /\ v.st # "error" /\ v.rep \notin up
    /\ verbs' = (verbs \ {v}) \cup {[v EXCEPT !.st = "error"]}
    /\ UNCHANGED <<handle, mem, up, call, calls, buf, swaps, won, acked>>

-----------------------------------------------------------------------------
(* wait_quorum_.                                                           *)

\* poll_rdma_cq_once returned true: the wr_id is the replica.
Poll(c, v) ==
    /\ call[c].pc = "wait" /\ call[c].completions < call[c].posted
    /\ v.cl = c /\ v.st = "done"
    /\ verbs' = verbs \ {v}
    /\ call' = [call EXCEPT ![c].completions = @ + 1, ![c].mask = @ \cup {v.rep}]
    /\ UNCHANGED <<handle, mem, up, calls, buf, swaps, won, acked>>

\* pollOnce returned -1: the completion is consumed and nothing is counted.
PollError(c, v) ==
    /\ call[c].pc = "wait" /\ call[c].completions < call[c].posted
    /\ v.cl = c /\ v.st = "error"
    /\ verbs' = verbs \ {v}
    /\ UNCHANGED <<handle, mem, up, call, calls, buf, swaps, won, acked>>

\* Mutant of Done: the wait ends at a quorum, as its comment says.
DoneAtQuorum(c) == call[c].completions >= Quorum

Done(c) == ~(call[c].completions < call[c].posted)

\* cas_all: the completed replicas whose previous value was the expected one.
Wins(c) == {r \in call[c].mask : buf[c][r] = call[c].expected}

\* Mutant of Succeeds: cas_all counts completions.
SucceedsByMask(c) == Cardinality(call[c].mask) >= Quorum

\* Mutant of Succeeds: one replica short of a quorum will do.
SucceedsShort(c) ==
    IF call[c].op = "cas" THEN Cardinality(Wins(c)) + 1 >= Quorum
                          ELSE Cardinality(call[c].mask) + 1 >= Quorum

\* What read_all, write_all and cas_all return.
Succeeds(c) ==
    IF call[c].op = "cas" THEN Cardinality(Wins(c)) >= Quorum
                          ELSE Cardinality(call[c].mask) >= Quorum

Finish(c) ==
    /\ call[c].pc = "wait" /\ Done(c)
    /\ call' = [call EXCEPT ![c].pc = IF Succeeds(c) THEN "true" ELSE "false"]
    /\ won' = IF call[c].op = "cas" /\ Succeeds(c)
                THEN won \cup {[old |-> call[c].expected, id |-> <<c, calls[c]>>]}
                ELSE won
    /\ acked' = IF call[c].op = "write" /\ Succeeds(c)
                  THEN call[c].desired.ver ELSE acked
    /\ UNCHANGED <<handle, mem, up, calls, verbs, buf, swaps>>

\* The caller goes on.
Return(c) ==
    /\ call[c].pc \in {"true", "false"}
    /\ call' = [call EXCEPT ![c] = Idle]
    /\ UNCHANGED <<handle, mem, up, calls, verbs, buf, swaps, won, acked>>

-----------------------------------------------------------------------------
Network == \E v \in verbs : Execute(v) \/ Break(v)

Wait(c) == (\E v \in verbs : Poll(c, v) \/ PollError(c, v)) \/ Finish(c)

Next ==
    \/ \E c \in Client : ReadAll(c) \/ WriteAll(c) \/ CasAll(c)
    \/ Network
    \/ \E r \in Replica : Crash(r)
    \/ \E c \in Client : Wait(c) \/ Return(c)

Spec == Init /\ [][Next]_vars

\* The network completes what was posted and a waiting client keeps polling.
FairSpec ==
    /\ Spec
    /\ WF_vars(Network)
    /\ \A c \in Client : WF_vars(Wait(c))

-----------------------------------------------------------------------------
(* Properties.                                                             *)

Ids == Client \X Nat
Calls == [op : {"none", "read", "write", "cas"}, expected : Word,
          desired : Word, posted : Nat, completions : Nat,
          mask : SUBSET Replica, floor : Nat,
          pc : {"idle", "wait", "true", "false"}]
Verbs == [cl : Client, rep : Replica, id : Nat, op : {"read", "write", "cas"},
          expected : Word, desired : Word, st : {"posted", "done", "error"}]

\* The words, the calls and the posted verbs keep their types.
TypeOK ==
    /\ handle \in BOOLEAN
    /\ mem \in [Replica -> Word]
    /\ up \subseteq Replica
    /\ call \in [Client -> Calls]
    /\ calls \in [Client -> Nat]
    /\ verbs \subseteq Verbs
    /\ buf \in [Client -> [Replica -> Word]]
    /\ swaps \subseteq [rep : Replica, old : Word, id : Ids]
    /\ won \subseteq [old : Word, id : Ids]
    /\ acked \in Nat

\* A completion a call counts is one of its own verbs: nothing an earlier
\* call left in the completion queue is taken for an answer of this one,
\* although a wr_id only names the replica.
CountsOwn ==
    \A c \in Client : \A v \in verbs :
        v.cl = c => call[c].pc = "wait" /\ v.id = calls[c] /\ v.rep \notin call[c].mask

\* Of all cas_all calls that expect the same handle at most one is told that
\* it won, whichever replicas each of them skipped or lost.
OneWinner ==
    \A a, b \in won : a.old = b.old => a.id = b.id

\* A read_all that returned true has, from one of the replicas it counted,
\* contents at least as new as every write_all that had returned true when
\* the read began, although the two may have reached different replicas.
ReadSeesWrite ==
    \A c \in Client :
        call[c].pc = "true" /\ call[c].op = "read" =>
            \E r \in call[c].mask : buf[c][r].ver >= call[c].floor

\* A call returns: the wait ends once a quorum has answered or every posted
\* verb has completed.
WaitEnds == \A c \in Client : call[c].pc = "wait" ~> call[c].pc # "wait"
=============================================================================

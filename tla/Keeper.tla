------------------------------- MODULE Keeper -------------------------------
(***************************************************************************)
(* How the servers of a SkipVectorDM cluster find each other, through      *)
(* memcached (include/Keeper.h, src/RdmaKeeper.cc, the constructor of      *)
(* DMVerbs, and main of the memory and compute servers).                   *)
(*                                                                         *)
(* A server is named by the number that serverEnter gives it: memory       *)
(* servers are started first.  A key of memcached that has not been set is *)
(* Unset; memGet and memFetchAndAdd try again until the key is there.      *)
(***************************************************************************)
EXTENDS Servers

Unset == machineNR + 1   \* a counter of memcached that nobody has set

VARIABLES
    serverNum,   \* in memcached: how many servers have entered
    meta,        \* in memcached: the keys "a-b", a's data for b
    barrier,     \* in memcached: the counters of the barriers
    server       \* what each server is doing

keeperVars == <<serverNum, meta, barrier, server>>

Barriers == {"DMVerbs-init", "init"}

KeeperInit ==
    /\ serverNum = 0
    /\ meta = {}
    /\ barrier = [b \in Barriers |-> Unset]
    /\ server = [s \in Server |-> [pc |-> "enter", cur |-> 0, seen |-> 0]]

At(s, pc) == server[s].pc = pc
Goto(s, pc) == server' = [server EXCEPT ![s].pc = pc]

-----------------------------------------------------------------------------
\* serverEnter: the increment gives the server its number.
Enter(s) ==
    /\ At(s, "enter") /\ serverNum = s
    /\ serverNum' = serverNum + 1
    /\ Goto(s, "look")
    /\ UNCHANGED <<meta, barrier>>

\* serverConnect: how many servers are there now?
Look(s) ==
    /\ At(s, "look") /\ server[s].cur < machineNR
    /\ server' = [server EXCEPT ![s].seen = serverNum,
                     ![s].pc = IF server[s].cur < serverNum THEN "publish" ELSE "look"]
    /\ UNCHANGED <<serverNum, meta, barrier>>

\* Mutant of Peer: every server begins with itself.
PeerRing(s) == (server[s].cur + s) % machineNR

\* The server that serverConnect is at: every server goes through them in the
\* same order, and itself is one of them.
Peer(s) == server[s].cur

\* connectNode: first the own data for the other server ...
Publish(s) ==
    /\ At(s, "publish")
    /\ meta' = meta \cup {<<s, Peer(s)>>}
    /\ Goto(s, "fetch")
    /\ UNCHANGED <<serverNum, barrier>>

\* ... then the other server's data for this one, as soon as it is there.
Fetch(s) ==
    /\ At(s, "fetch") /\ <<Peer(s), s>> \in meta
    /\ server' = [server EXCEPT ![s].cur = @ + 1,
                     ![s].pc = IF server[s].cur + 1 < server[s].seen THEN "publish"
                               ELSE IF server[s].seen < machineNR THEN "look"
                               ELSE "directories"]
    /\ UNCHANGED <<serverNum, meta, barrier>>

\* The directories are created and their threads started.
Directories(s) ==
    /\ At(s, "directories")
    /\ Goto(s, IF s = 0 THEN "set" ELSE "add")
    /\ UNCHANGED <<serverNum, meta, barrier>>

-----------------------------------------------------------------------------
(* RdmaKeeper::barrier("DMVerbs-init").                                    *)

Set(s) ==
    /\ At(s, "set")
    /\ barrier' = [barrier EXCEPT !["DMVerbs-init"] = 0]
    /\ Goto(s, "add")
    /\ UNCHANGED <<serverNum, meta>>

\* Mutant of Add: the increment creates the counter.
AddCreates(s) ==
    /\ At(s, "add")
    /\ barrier' = [barrier EXCEPT !["DMVerbs-init"] = IF @ = Unset THEN 1 ELSE @ + 1]
    /\ Goto(s, "spin")
    /\ UNCHANGED <<serverNum, meta>>

Add(s) ==
    /\ At(s, "add") /\ barrier["DMVerbs-init"] # Unset
    /\ barrier' = [barrier EXCEPT !["DMVerbs-init"] = @ + 1]
    /\ Goto(s, "spin")
    /\ UNCHANGED <<serverNum, meta>>

\* Mutant of Pass: the last server is not waited for.
PassEarly(s) ==
    /\ At(s, "spin") /\ barrier["DMVerbs-init"] >= machineNR - 1
    /\ Goto(s, "up")
    /\ UNCHANGED <<serverNum, meta, barrier>>

Pass(s) ==
    /\ At(s, "spin") /\ barrier["DMVerbs-init"] = machineNR
    /\ Goto(s, "up")
    /\ UNCHANGED <<serverNum, meta, barrier>>

-----------------------------------------------------------------------------
(* main: a memory server creates the barrier "init" of the compute servers *)
(* and has nothing more to do.                                             *)

SetBarrier(s) ==
    /\ At(s, "up") /\ s \in MemoryServer
    /\ barrier' = [barrier EXCEPT !["init"] = 0]
    /\ Goto(s, "serve")
    /\ UNCHANGED <<serverNum, meta>>

\* barrier("init", ComputeNumber).
Arrive(s) ==
    /\ At(s, "up") /\ s \in ComputeServer /\ barrier["init"] # Unset
    /\ barrier' = [barrier EXCEPT !["init"] = @ + 1]
    /\ Goto(s, "wait")
    /\ UNCHANGED <<serverNum, meta>>

Leave(s) ==
    /\ At(s, "wait") /\ barrier["init"] = ComputeNumber
    /\ Goto(s, "run")
    /\ UNCHANGED <<serverNum, meta, barrier>>

KeeperStep(s) ==
    \/ Enter(s) \/ Look(s) \/ Publish(s) \/ Fetch(s) \/ Directories(s)
    \/ Set(s) \/ Add(s) \/ Pass(s) \/ SetBarrier(s) \/ Arrive(s) \/ Leave(s)

-----------------------------------------------------------------------------
(* Properties.                                                             *)

Connecting == {"enter", "look", "publish", "fetch"}
Starting == Connecting \cup {"directories"}
Up == {"up", "serve", "wait", "run"}

ServerState == [pc : Starting \cup {"set", "add", "spin"} \cup Up,
                cur : 0..machineNR, seen : 0..machineNR]

\* Types of the variables.
KeeperTypeOK ==
    /\ serverNum \in 0..machineNR
    /\ meta \subseteq Server \X Server
    /\ barrier \in [Barriers -> 0..machineNR \cup {Unset}]
    /\ server \in [Server -> ServerState]

\* s is in connectNode and waits for r to publish its data for s.
Awaits(s, r) == At(s, "fetch") /\ r = Peer(s) /\ <<r, s>> \notin meta

\* Servers that connect never wait for each other in a circle, however they
\* interleave: in any set of servers that all wait in connectNode, one waits for
\* a server outside the set.
NoWaitCycle ==
    \A W \in (SUBSET Server) \ {{}} : \E s \in W : \A r \in W : ~Awaits(s, r)

\* The first barrier holds back every server until all directories run, the
\* second one every compute server until all of them have arrived.
BarriersHold ==
    /\ \A s, r \in Server : server[s].pc \in Up => server[r].pc \notin Starting
    /\ \A s, r \in ComputeServer : At(s, "run") => server[r].pc \in {"wait", "run"}

\* If every server keeps running, all of them connect to each other, although
\* each waits for the others' data in turn, and pass both barriers.  This holds
\* with ONE memory server.  Each memory server sets the counter of "init" to 0:
\* with several, the last may do so when a compute server has already arrived,
\* whose arrival is lost, and the compute servers wait for ever.
AllStart ==
    <>(\A s \in Server : server[s].pc \in {"serve", "run"})
=============================================================================

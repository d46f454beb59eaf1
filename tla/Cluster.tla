------------------------------ MODULE Cluster ------------------------------
(***************************************************************************)
(* A SkipVectorDM cluster from its start: the servers meet through the     *)
(* keeper, then the threads of the compute servers allocate memory from    *)
(* the directories.  Between the two barriers it is the main thread that   *)
(* allocates (SkipVectorDM::init_root_node).                               *)
(***************************************************************************)
EXTENDS Keeper, Allocation

Init == KeeperInit /\ AllocInit

\* The thread that is main's, one for each compute server.
Main(s) == CHOOSE t \in Thread : Home[t] = s

\* barrier("init") comes after init_root_node has returned.
Keep(s) ==
    /\ KeeperStep(s)
    /\ At(s, "up") /\ s \in ComputeServer => \A t \in Thread : Home[t] = s => Doing(t, "idle")
    /\ UNCHANGED allocVars

\* Mutant of Allocate: init_root_node does not wait for the first barrier.
AllocateEarly(t) ==
    /\ \/ At(Home[t], "run")
       \/ server[Home[t]].pc \in {"spin", "up"} /\ t = Main(Home[t])
    /\ AllocStep(t)
    /\ UNCHANGED keeperVars

Allocate(t) ==
    /\ \/ At(Home[t], "run")
       \/ At(Home[t], "up") /\ t = Main(Home[t])
    /\ AllocStep(t)
    /\ UNCHANGED keeperVars

Answer(n) ==
    /\ Serve(n)
    /\ server[n].pc \notin Starting
    /\ UNCHANGED keeperVars

Next == \/ \E s \in Server : Keep(s) \/ Answer(s)
        \/ \E t \in Thread : Allocate(t)

clusterVars == <<keeperVars, allocVars>>

Spec == Init /\ [][Next]_clusterVars

\* Servers and directories keep running, and a thread gets a mutex that is
\* free again and again.
FairSpec ==
    /\ Spec
    /\ \A s \in Server : WF_clusterVars(Keep(s)) /\ WF_clusterVars(Answer(s))
    /\ \A t \in Thread : SF_clusterVars(Allocate(t))

-----------------------------------------------------------------------------
(* Properties.                                                             *)

\* Types of the variables of both parts.
TypeOK == KeeperTypeOK /\ AllocTypeOK

\* A MALLOC message is only sent to a directory that runs, over a queue pair of
\* which both servers have set up their ends.  connectNode alone does not give
\* that: a server that has left it knows only that the other one has published
\* its data.
DirectoryRuns ==
    \A m \in requests : LET s == Home[m.from] IN
        /\ server[m.to].pc \notin Starting
        /\ m.to < server[s].cur /\ s < server[m.to].cur

\* Every call of memory_alloc and compute_alloc returns.
AllocEnds == \A t \in Thread : []<>(thread[t].pc = "idle")
=============================================================================

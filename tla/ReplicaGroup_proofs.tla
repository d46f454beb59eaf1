------------------------ MODULE ReplicaGroup_proofs ------------------------
(***************************************************************************)
(* Proofs about ReplicaGroup for every number of clients and replicas and  *)
(* every majority quorum.                                                  *)
(***************************************************************************)
EXTENDS ReplicaGroup, FiniteSetTheorems, TLAPS

IsQuorum(Q) == Q \subseteq Replica /\ Cardinality(Q) >= Quorum

LEMMA QuorumsMeet ==
    ASSUME NEW P, NEW Q, IsQuorum(P), IsQuorum(Q)
    PROVE  \E r \in Replica : r \in P /\ r \in Q
<1>1. IsFiniteSet(P) /\ IsFiniteSet(Q)
  BY ReplicaAssumption, FS_Subset DEF IsQuorum
<1>2. Cardinality(P) \in Nat /\ Cardinality(Q) \in Nat /\ Cardinality(Replica) \in Nat
  BY <1>1, ReplicaAssumption, FS_CardinalityType
<1>3. Cardinality(P) + Cardinality(Q) > Cardinality(Replica)
  BY <1>2, ReplicaAssumption DEF IsQuorum
<1>4. P \cap Q # {}
  BY <1>3, ReplicaAssumption, FS_MajoritiesIntersect DEF IsQuorum
<1>. QED  BY <1>4 DEF IsQuorum

-----------------------------------------------------------------------------
(* Type correctness.                                                       *)

LEMMA FirstWordType == FirstWord \in Word
BY ReplicaAssumption DEF FirstWord, Word

LEMMA IdleType == Idle \in Calls
BY FirstWordType DEF Idle, Calls

LEMMA TypeInit == Init => TypeOK
BY FirstWordType, IdleType DEF Init, TypeOK

LEMMA PostType ==
    ASSUME TypeOK, NEW c \in Client, NEW o \in {"read", "write", "cas"},
           NEW e \in Word, NEW d \in Word, Post(c, o, e, d)
    PROVE  TypeOK'
<1>1. PICK drop \in SUBSET Replica :
        /\ verbs' = verbs \cup {Verb(c, r, o, e, d) : r \in Replica \ drop}
        /\ call' = [call EXCEPT ![c] =
                [op |-> o, expected |-> e, desired |-> d,
                 posted |-> Cardinality(Replica \ drop), completions |-> 0,
                 mask |-> {}, floor |-> acked, pc |-> "wait"]]
  BY DEF Post
<1>2. Cardinality(Replica \ drop) \in Nat
  BY ReplicaAssumption, FS_Difference, FS_CardinalityType
<1>. HIDE DEF Verb
<1>3. \A r \in Replica : Verb(c, r, o, e, d) \in Verbs
  BY DEF Verb, Verbs, TypeOK
<1>4. verbs' \subseteq Verbs
  BY <1>1, <1>3 DEF TypeOK
<1>5. call' \in [Client -> Calls]
  <2>1. acked \in Nat /\ call \in [Client -> Calls]
    BY DEF TypeOK
  <2>. QED  BY <1>1, <1>2, <2>1 DEF Calls
<1>. QED  BY <1>4, <1>5 DEF Post, TypeOK

LEMMA TypeStep == TypeOK /\ [Next]_vars => TypeOK'
<1>t. SUFFICES ASSUME TypeOK, [Next]_vars PROVE TypeOK'
  OBVIOUS
<1>0. CASE UNCHANGED vars
  BY <1>t, <1>0 DEF vars, TypeOK
<1>1. ASSUME NEW c \in Client, ReadAll(c) PROVE TypeOK'
  BY <1>t, <1>1, PostType, FirstWordType DEF ReadAll
<1>2. ASSUME NEW c \in Client, WriteAll(c) PROVE TypeOK'
  <2>1. [ver |-> calls[c] + 1, by |-> c] \in Word
    BY <1>t DEF TypeOK, Word
  <2>. QED  BY <1>t, <1>2, <2>1, PostType, FirstWordType DEF WriteAll
<1>3. ASSUME NEW c \in Client, CasAll(c) PROVE TypeOK'
  <2>r. PICK r \in Replica : \E b \in {buf[c][r].by, c} :
          Post(c, "cas", buf[c][r], [ver |-> buf[c][r].ver + 1, by |-> b])
    BY <1>3 DEF CasAll
  <2>1. PICK b \in {buf[c][r].by, c} :
          Post(c, "cas", buf[c][r], [ver |-> buf[c][r].ver + 1, by |-> b])
    BY <2>r
  <2>2. buf[c][r] \in Word /\ [ver |-> buf[c][r].ver + 1, by |-> b] \in Word
    BY <1>t DEF TypeOK, Word
  <2>. QED  BY <1>t, <2>1, <2>2, PostType
<1>4. ASSUME NEW v \in verbs, Execute(v) PROVE TypeOK'
  <2>1. v \in Verbs /\ v.rep \in Replica /\ v.cl \in Client /\ v.desired \in Word
        /\ v.expected \in Word /\ v.id \in Nat
    BY <1>t DEF TypeOK, Verbs
  <2>2. [v EXCEPT !.st = "done"] \in Verbs
    BY <2>1 DEF Verbs
  <2>3. verbs' \subseteq Verbs
    BY <1>t, <1>4, <2>2 DEF TypeOK, Execute
  <2>4. mem' \in [Replica -> Word]
    BY <1>t, <1>4, <2>1 DEF TypeOK, Execute
  <2>5. buf' \in [Client -> [Replica -> Word]]
    BY <1>t, <1>4, <2>1 DEF TypeOK, Execute
  <2>6. swaps' \subseteq [rep : Replica, old : Word, id : Ids]
    BY <1>t, <1>4, <2>1 DEF TypeOK, Execute, Ids
  <2>. QED  BY <1>t, <1>4, <2>3, <2>4, <2>5, <2>6 DEF TypeOK, Execute
<1>5. ASSUME NEW v \in verbs, Break(v) PROVE TypeOK'
  <2>1. [v EXCEPT !.st = "error"] \in Verbs
    BY <1>t DEF TypeOK, Verbs
  <2>. QED  BY <1>t, <1>5, <2>1 DEF TypeOK, Break
<1>6. ASSUME NEW r \in Replica, Crash(r) PROVE TypeOK'
  BY <1>t, <1>6 DEF TypeOK, Crash
<1>7. ASSUME NEW c \in Client, NEW v \in verbs, Poll(c, v) PROVE TypeOK'
  <2>1. v.rep \in Replica /\ call[c] \in Calls
    BY <1>t DEF TypeOK, Verbs
  <2>2. call' \in [Client -> Calls]
    <3>. DEFINE x == [call[c] EXCEPT !.completions = @ + 1, !.mask = @ \cup {v.rep}]
    <3>1. x \in Calls
      <4>1. call[c].completions + 1 \in Nat /\ call[c].mask \cup {v.rep} \in SUBSET Replica
        BY <2>1 DEF Calls
      <4>. QED  BY <2>1, <4>1 DEF Calls
    <3>2. call' = [call EXCEPT ![c] = x] /\ call \in [Client -> Calls]
      BY <1>t, <1>7 DEF Poll, TypeOK
    <3>. QED  BY <3>1, <3>2
  <2>. QED  BY <1>t, <1>7, <2>2 DEF TypeOK, Poll
<1>8. ASSUME NEW c \in Client, NEW v \in verbs, PollError(c, v) PROVE TypeOK'
  BY <1>t, <1>8 DEF TypeOK, PollError
<1>9. ASSUME NEW c \in Client, Finish(c) PROVE TypeOK'
  <2>1. call[c] \in Calls /\ call[c].expected \in Word /\ call[c].desired.ver \in Nat
        /\ calls[c] \in Nat
    BY <1>t DEF TypeOK, Calls, Word
  <2>2. PICK res \in {"true", "false"} : call' = [call EXCEPT ![c].pc = res]
    BY <1>9 DEF Finish
  <2>3. call' \in [Client -> Calls]
    <3>. DEFINE x == [call[c] EXCEPT !.pc = res]
    <3>1. x \in Calls
      BY <2>1 DEF Calls
    <3>2. call' = [call EXCEPT ![c] = x] /\ call \in [Client -> Calls]
      BY <1>t, <2>2 DEF TypeOK
    <3>. QED  BY <3>1, <3>2
  <2>4. won' \subseteq [old : Word, id : Ids] /\ acked' \in Nat
    BY <1>t, <1>9, <2>1 DEF TypeOK, Finish, Ids
  <2>. QED  BY <1>t, <1>9, <2>3, <2>4 DEF TypeOK, Finish
<1>10. ASSUME NEW c \in Client, Return(c) PROVE TypeOK'
  BY <1>t, <1>10, IdleType DEF TypeOK, Return
<1>. QED
  BY <1>t, <1>0, <1>1, <1>2, <1>3, <1>4, <1>5, <1>6, <1>7, <1>8, <1>9, <1>10
  DEF Next, Network, Wait

-----------------------------------------------------------------------------
(* The verbs in flight are those of the calls that wait for them.          *)

Out(c) == {r \in Replica : \E v \in verbs : v.cl = c /\ v.rep = r}

\* Every verb belongs to the call its client waits in, no replica has two,
\* and the loop of wait_quorum_ cannot end while one is left: the replicas
\* counted and those still out are at most as many as were posted.
Own ==
    /\ \A v \in verbs :
         /\ call[v.cl].pc = "wait" /\ v.id = calls[v.cl]
         /\ v.rep \notin call[v.cl].mask
         /\ v.op = call[v.cl].op /\ v.expected = call[v.cl].expected
         /\ v.desired = call[v.cl].desired
    /\ \A v, w \in verbs : v.cl = w.cl /\ v.rep = w.rep => v = w
    /\ \A c \in Client : call[c].pc = "wait" =>
         /\ call[c].completions = Cardinality(call[c].mask)
         /\ Cardinality(call[c].mask \cup Out(c)) <= call[c].posted

LEMMA SubsetCard ==
    ASSUME NEW S \in SUBSET Replica, NEW T \in SUBSET S
    PROVE  /\ Cardinality(S) \in Nat /\ Cardinality(T) \in Nat
           /\ Cardinality(T) <= Cardinality(S)
           /\ Cardinality(T) = Cardinality(S) => S = T
<1>1. IsFiniteSet(S) /\ IsFiniteSet(T)
  BY ReplicaAssumption, FS_Subset
<1>. QED  BY <1>1, FS_Subset, FS_CardinalityType

\* CountsOwn: when the wait ends no verb of the call is left in the queue.
LEMMA NoneLeft ==
    ASSUME TypeOK, Own, NEW c \in Client, call[c].pc = "wait", Done(c)
    PROVE  \A v \in verbs : v.cl # c
<1>. DEFINE m == call[c].mask
            S == m \cup Out(c)
<1>1. /\ S \in SUBSET Replica /\ m \in SUBSET S
      /\ call[c].completions \in Nat /\ call[c].posted \in Nat
  BY DEF TypeOK, Calls, Out
<1>2. Cardinality(m) = call[c].completions /\ Cardinality(S) <= call[c].posted
  BY DEF Own
<1>3. ~(call[c].completions < call[c].posted)
  BY DEF Done
<1>. HIDE DEF m, S
<1>4. m = S
  BY <1>1, <1>2, <1>3, SubsetCard
<1>5. \A v \in verbs : v.cl = c => v.rep \in S /\ v.rep \notin m
  BY DEF S, m, Own, Out, TypeOK, Verbs
<1>. QED  BY <1>4, <1>5

LEMMA OwnPost ==
    ASSUME TypeOK, Own, NEW c \in Client, NEW o, NEW e, NEW d, Post(c, o, e, d)
    PROVE  Own'
<1>1. PICK drop \in SUBSET Replica :
        /\ verbs' = verbs \cup {Verb(c, r, o, e, d) : r \in Replica \ drop}
        /\ call' = [call EXCEPT ![c] =
                [op |-> o, expected |-> e, desired |-> d,
                 posted |-> Cardinality(Replica \ drop), completions |-> 0,
                 mask |-> {}, floor |-> acked, pc |-> "wait"]]
  BY DEF Post
<1>2. calls' = [calls EXCEPT ![c] = @ + 1] /\ call[c].pc = "idle"
  BY DEF Post
<1>3. /\ calls \in [Client -> Nat] /\ call \in [Client -> Calls]
      /\ \A v \in verbs : v.cl \in Client /\ v.rep \in Replica
  BY DEF TypeOK, Verbs
<1>4. \A v \in verbs : v.cl # c
  BY <1>2 DEF Own
<1>5. \A v \in verbs' : v \in verbs \/ \E r \in Replica \ drop : v = Verb(c, r, o, e, d)
  BY <1>1
<1>6. \A r : /\ Verb(c, r, o, e, d).cl = c /\ Verb(c, r, o, e, d).rep = r
             /\ Verb(c, r, o, e, d).id = calls[c] + 1 /\ Verb(c, r, o, e, d).op = o
             /\ Verb(c, r, o, e, d).expected = e /\ Verb(c, r, o, e, d).desired = d
  BY DEF Verb
<1>7. /\ call'[c].pc = "wait" /\ call'[c].mask = {} /\ call'[c].op = o
      /\ call'[c].expected = e /\ call'[c].desired = d /\ calls'[c] = calls[c] + 1
      /\ call'[c].completions = 0 /\ call'[c].posted = Cardinality(Replica \ drop)
      /\ \A x \in Client \ {c} : call'[x] = call[x] /\ calls'[x] = calls[x]
  BY <1>1, <1>2, <1>3
<1>8. ASSUME NEW v \in verbs'
      PROVE  /\ call'[v.cl].pc = "wait" /\ v.id = calls'[v.cl]
             /\ v.rep \notin call'[v.cl].mask
             /\ v.op = call'[v.cl].op /\ v.expected = call'[v.cl].expected
             /\ v.desired = call'[v.cl].desired
  <2>1. CASE v \in verbs
    BY <1>3, <1>4, <1>7, <2>1 DEF Own
  <2>2. CASE v \notin verbs
    BY <1>5, <1>6, <1>7, <2>2
  <2>. QED  BY <2>1, <2>2
<1>9. \A v, w \in verbs' : v.cl = w.cl /\ v.rep = w.rep => v = w
  BY <1>4, <1>5, <1>6 DEF Own
<1>10. \A x \in Client \ {c} : Out(x)' = Out(x)
  <2>1. verbs \subseteq verbs'
    BY <1>1
  <2>. QED  BY <1>5, <1>6, <2>1 DEF Out
<1>11. \A r \in Replica \ drop : Verb(c, r, o, e, d) \in verbs'
  BY <1>1
<1>12. ASSUME NEW x \in Client, call'[x].pc = "wait"
       PROVE  /\ call'[x].completions = Cardinality(call'[x].mask)
              /\ Cardinality(call'[x].mask \cup Out(x)') <= call'[x].posted
  <2>1. CASE x = c
    <3>1. Cardinality({}) = 0
      BY FS_EmptySet
    <3>2. Cardinality(Replica \ drop) \in Nat
      BY ReplicaAssumption, FS_Difference, FS_CardinalityType
    <3>3. Out(x)' = Replica \ drop
      BY <1>4, <1>5, <1>6, <1>11, <2>1 DEF Out
    <3>4. call'[x].mask \cup Out(x)' = Replica \ drop
      BY <1>7, <2>1, <3>3
    <3>5. /\ call'[x].mask = {} /\ call'[x].completions = 0
          /\ call'[x].posted = Cardinality(Replica \ drop)
      BY <1>7, <2>1
    <3>6. call'[x].completions = Cardinality(call'[x].mask)
      BY <3>1, <3>5
    <3>7. Cardinality(call'[x].mask \cup Out(x)') = call'[x].posted
      BY <3>4, <3>5
    <3>8. call'[x].posted \in Nat
      BY <3>2, <3>5
    <3>. QED  BY <3>6, <3>7, <3>8
  <2>2. CASE x # c
    <3>1. call'[x] = call[x] /\ Out(x)' = Out(x)
      BY <1>7, <1>10, <2>2
    <3>2. /\ call[x].completions = Cardinality(call[x].mask)
          /\ Cardinality(call[x].mask \cup Out(x)) <= call[x].posted
      BY <1>12, <3>1 DEF Own
    <3>. QED  BY <3>1, <3>2
  <2>. QED  BY <2>1, <2>2
<1>. QED  BY <1>8, <1>9, <1>12 DEF Own

\* A verb changes its status or is dropped.
LEMMA OwnVerb ==
    ASSUME TypeOK, Own, NEW v \in verbs, NEW st,
           verbs' \in {(verbs \ {v}) \cup {[v EXCEPT !.st = st]}, verbs \ {v}},
           call' = call, calls' = calls
    PROVE  Own'
<1>. DEFINE u == [v EXCEPT !.st = st]
<1>1. /\ u.cl = v.cl /\ u.rep = v.rep /\ u.id = v.id /\ u.op = v.op
      /\ u.expected = v.expected /\ u.desired = v.desired
  BY DEF TypeOK, Verbs
<1>2. \A w \in verbs' : w = u \/ w \in verbs \ {v}
  OBVIOUS
<1>. HIDE DEF u
<1>3. \A w \in verbs' :
         /\ call'[w.cl].pc = "wait" /\ w.id = calls'[w.cl]
         /\ w.rep \notin call'[w.cl].mask
         /\ w.op = call'[w.cl].op /\ w.expected = call'[w.cl].expected
         /\ w.desired = call'[w.cl].desired
  BY <1>1, <1>2 DEF Own
<1>4. \A w, x \in verbs' : w.cl = x.cl /\ w.rep = x.rep => w = x
  BY <1>1, <1>2 DEF Own
<1>5. ASSUME NEW c \in Client, call[c].pc = "wait"
      PROVE  Cardinality(call[c].mask \cup Out(c)') <= call[c].posted
  <2>1. Out(c)' \subseteq Out(c)
    BY <1>1, <1>2 DEF Out
  <2>. DEFINE S == call[c].mask \cup Out(c)
              T == call[c].mask \cup Out(c)'
  <2>2. S \in SUBSET Replica /\ T \in SUBSET S /\ call[c].posted \in Nat
    BY <2>1 DEF TypeOK, Calls, Out
  <2>3. Cardinality(S) <= call[c].posted
    BY <1>5 DEF Own
  <2>. HIDE DEF S, T
  <2>4. Cardinality(T) <= call[c].posted
    BY <2>2, <2>3, SubsetCard
  <2>. QED  BY <2>4 DEF T
<1>. QED  BY <1>3, <1>4, <1>5 DEF Own

LEMMA OwnPoll ==
    ASSUME TypeOK, Own, NEW c \in Client, NEW v \in verbs, Poll(c, v)
    PROVE  Own'
<1>1. /\ v.cl = c /\ v.rep \in Replica /\ call \in [Client -> Calls]
      /\ verbs' = verbs \ {v} /\ calls' = calls
      /\ call' = [call EXCEPT ![c].completions = @ + 1, ![c].mask = @ \cup {v.rep}]
  BY DEF Poll, TypeOK, Verbs
<1>2. /\ call'[c].completions = call[c].completions + 1
      /\ call'[c].mask = call[c].mask \cup {v.rep}
      /\ call'[c].pc = call[c].pc /\ call'[c].op = call[c].op
      /\ call'[c].expected = call[c].expected /\ call'[c].desired = call[c].desired
      /\ call'[c].posted = call[c].posted
      /\ \A x \in Client \ {c} : call'[x] = call[x]
  BY <1>1 DEF Calls
<1>3. \A w \in verbs' : w \in verbs /\ (w.cl = c => w.rep # v.rep)
  BY <1>1 DEF Own
<1>4. ASSUME NEW w \in verbs'
      PROVE  /\ call'[w.cl].pc = "wait" /\ w.id = calls'[w.cl]
             /\ w.rep \notin call'[w.cl].mask
             /\ w.op = call'[w.cl].op /\ w.expected = call'[w.cl].expected
             /\ w.desired = call'[w.cl].desired
  <2>1. w \in verbs /\ w.cl \in Client
    BY <1>3 DEF TypeOK, Verbs
  <2>. QED  BY <1>1, <1>2, <1>3, <2>1 DEF Own
<1>5. ASSUME NEW x \in Client, call'[x].pc = "wait"
      PROVE  /\ call'[x].completions = Cardinality(call'[x].mask)
             /\ Cardinality(call'[x].mask \cup Out(x)') <= call'[x].posted
  <2>0. /\ call[x].pc = "wait" /\ call[x].mask \in SUBSET Replica
        /\ call[x].posted \in Nat /\ call'[x].posted = call[x].posted
    BY <1>1, <1>2, <1>5 DEF Calls
  <2>1. /\ call[x].completions = Cardinality(call[x].mask)
        /\ Cardinality(call[x].mask \cup Out(x)) <= call[x].posted
    BY <2>0 DEF Own
  <2>2. call'[x].completions = Cardinality(call'[x].mask)
    <3>1. CASE x = c
      <4>1. v.rep \notin call[c].mask
        BY <1>1 DEF Own
      <4>2. Cardinality(call[c].mask \cup {v.rep}) = Cardinality(call[c].mask) + 1
        <5>1. IsFiniteSet(call[c].mask)
          BY <2>0, <3>1, ReplicaAssumption, FS_Subset
        <5>. QED  BY <4>1, <5>1, FS_AddElement
      <4>. QED  BY <1>2, <2>1, <3>1, <4>2
    <3>2. CASE x # c
      BY <1>2, <2>1, <3>2
    <3>. QED  BY <3>1, <3>2
  <2>3. call'[x].mask \cup Out(x)' \subseteq call[x].mask \cup Out(x)
    <3>1. Out(x)' \subseteq Out(x)
      BY <1>3 DEF Out
    <3>2. x = c => v.rep \in Out(x)
      BY <1>1 DEF Out
    <3>. QED  BY <1>2, <3>1, <3>2
  <2>4. Cardinality(call'[x].mask \cup Out(x)') <= call[x].posted
    <3>. DEFINE S == call[x].mask \cup Out(x)
                T == call'[x].mask \cup Out(x)'
    <3>1. S \in SUBSET Replica /\ T \in SUBSET S /\ Cardinality(S) <= call[x].posted
      BY <2>0, <2>1, <2>3 DEF Out
    <3>. HIDE DEF S, T
    <3>2. Cardinality(T) <= call[x].posted
      BY <2>0, <3>1, SubsetCard
    <3>. QED  BY <3>2 DEF T
  <2>. QED  BY <2>0, <2>2, <2>4
<1>6. \A w, x \in verbs' : w.cl = x.cl /\ w.rep = x.rep => w = x
  BY <1>3 DEF Own
<1>. QED  BY <1>4, <1>5, <1>6 DEF Own

\* A call is over, or the caller goes on: no verb is touched.
LEMMA OwnEnd ==
    ASSUME TypeOK, Own, NEW c \in Client, \A v \in verbs : v.cl # c,
           NEW new, call' = [call EXCEPT ![c] = new], new.pc # "wait",
           calls' = calls, verbs' = verbs
    PROVE  Own'
<1>1. call'[c].pc # "wait" /\ \A x \in Client \ {c} : call'[x] = call[x]
  BY DEF TypeOK
<1>2. \A v \in verbs : v.cl \in Client \ {c}
  BY DEF TypeOK, Verbs
<1>3. \A x \in Client : Out(x)' = Out(x)
  BY DEF Out
<1>. QED  BY <1>1, <1>2, <1>3 DEF Own

LEMMA OwnStep == TypeOK /\ Own /\ [Next]_vars => Own'
<1>t. SUFFICES ASSUME TypeOK, Own, [Next]_vars PROVE Own'
  OBVIOUS
<1>0. ASSUME call' = call, calls' = calls, verbs' = verbs PROVE Own'
  <2>1. \A x \in Client : Out(x)' = Out(x)
    BY <1>0 DEF Out
  <2>. QED  BY <1>t, <1>0, <2>1 DEF Own
<1>1. ASSUME NEW c \in Client, ReadAll(c) \/ WriteAll(c) \/ CasAll(c) PROVE Own'
  BY <1>t, <1>1, OwnPost DEF ReadAll, WriteAll, CasAll
<1>2. ASSUME NEW v \in verbs, Execute(v) \/ Break(v) PROVE Own'
  BY <1>t, <1>2, OwnVerb DEF Execute, Break
<1>3. ASSUME NEW r \in Replica, Crash(r) PROVE Own'
  BY <1>0, <1>3 DEF Crash
<1>4. ASSUME NEW c \in Client, NEW v \in verbs, Poll(c, v) PROVE Own'
  BY <1>t, <1>4, OwnPoll
<1>5. ASSUME NEW c \in Client, NEW v \in verbs, PollError(c, v) PROVE Own'
  BY <1>t, <1>5, OwnVerb DEF PollError
<1>6. ASSUME NEW c \in Client, Finish(c) PROVE Own'
  <2>1. PICK res \in {"true", "false"} : call' = [call EXCEPT ![c].pc = res]
    BY <1>6 DEF Finish
  <2>. DEFINE x == [call[c] EXCEPT !.pc = res]
  <2>2. call' = [call EXCEPT ![c] = x] /\ x.pc # "wait"
    BY <1>t, <2>1 DEF TypeOK, Calls
  <2>3. \A v \in verbs : v.cl # c
    BY <1>t, <1>6, NoneLeft DEF Finish
  <2>. HIDE DEF x
  <2>. QED  BY <1>t, <1>6, <2>2, <2>3, OwnEnd DEF Finish
<1>7. ASSUME NEW c \in Client, Return(c) PROVE Own'
  <2>1. \A v \in verbs : v.cl # c
    BY <1>t, <1>7 DEF Return, Own
  <2>2. Idle.pc # "wait"
    BY DEF Idle
  <2>. QED  BY <1>t, <1>7, <2>1, <2>2, OwnEnd DEF Return
<1>. QED
  BY <1>t, <1>0, <1>1, <1>2, <1>3, <1>4, <1>5, <1>6, <1>7
  DEF Next, Network, Wait, vars

\* The words, calls and verbs keep their types (TypeOK), for any number of
\* clients and replicas.
THEOREM TypeCorrect == Spec => []TypeOK
<1>. QED  BY TypeInit, TypeStep, PTL DEF Spec

\* wait_quorum_ returns only when the queue holds nothing of the call, so the
\* next call on the same queue counts completions of its own (CountsOwn).
THEOREM NothingLeftOver == Spec => []CountsOwn
<1>1. Init => Own
  <2>. SUFFICES ASSUME Init PROVE Own
    OBVIOUS
  <2>. QED  BY DEF Init, Own, Idle
<1>2. Own => CountsOwn
  BY DEF Own, CountsOwn
<1>. QED  BY <1>1, <1>2, OwnStep, TypeCorrect, PTL DEF Spec

-----------------------------------------------------------------------------
(* Steps that add no answer.                                               *)

\* The replicas that have executed the verb of the call c waits in.
Answered(c) ==
    call[c].mask \cup
    {r \in Replica : \E v \in verbs : v.cl = c /\ v.rep = r /\ v.st = "done"}

Quiet ==
    /\ handle' = handle
    /\ mem' = mem /\ buf' = buf /\ swaps' = swaps /\ calls' = calls
    /\ \A x \in Client : call'[x].pc = "wait" =>
         /\ call[x].pc = "wait" /\ call'[x].op = call[x].op
         /\ call'[x].expected = call[x].expected
         /\ call'[x].desired = call[x].desired /\ call'[x].floor = call[x].floor
         /\ Answered(x)' \subseteq Answered(x)

LEMMA QuietVerb ==
    ASSUME TypeOK, NEW v \in verbs, PollError(v.cl, v) \/ Break(v)
    PROVE  Quiet
<1>1. \A w \in verbs' : w \in verbs \/ w.st = "error"
  BY DEF PollError, Break, TypeOK, Verbs
<1>2. call' = call
  BY DEF PollError, Break
<1>3. \A x \in Client : Answered(x)' \subseteq Answered(x)
  BY <1>1, <1>2 DEF Answered
<1>. QED  BY <1>2, <1>3 DEF Quiet, PollError, Break

LEMMA QuietPoll ==
    ASSUME TypeOK, NEW c \in Client, NEW v \in verbs, Poll(c, v)
    PROVE  Quiet
<1>1. /\ v.cl = c /\ v.rep \in Replica /\ v.st = "done" /\ call \in [Client -> Calls]
      /\ verbs' \subseteq verbs
      /\ call' = [call EXCEPT ![c].completions = @ + 1, ![c].mask = @ \cup {v.rep}]
  BY DEF Poll, TypeOK, Verbs
<1>2. /\ call'[c].mask = call[c].mask \cup {v.rep}
      /\ call'[c].pc = call[c].pc /\ call'[c].op = call[c].op
      /\ call'[c].expected = call[c].expected /\ call'[c].desired = call[c].desired
      /\ call'[c].floor = call[c].floor
      /\ \A x \in Client \ {c} : call'[x] = call[x]
  BY <1>1 DEF Calls
<1>3. ASSUME NEW x \in Client PROVE Answered(x)' \subseteq Answered(x)
  <2>1. x = c => v.rep \in Answered(x)
    BY <1>1 DEF Answered
  <2>2. call'[x].mask \subseteq call[x].mask \cup {r \in {v.rep} : x = c}
    BY <1>2
  <2>. QED  BY <1>1, <2>1, <2>2 DEF Answered
<1>. QED  BY <1>2, <1>3 DEF Quiet, Poll

LEMMA QuietEnd ==
    ASSUME TypeOK, NEW c \in Client, Finish(c) \/ Return(c)
    PROVE  Quiet
<1>1. /\ call'[c].pc # "wait" /\ verbs' = verbs
      /\ \A x \in Client \ {c} : call'[x] = call[x]
  BY DEF Finish, Return, TypeOK, Calls, Idle
<1>2. \A x \in Client \ {c} : Answered(x)' = Answered(x)
  BY <1>1 DEF Answered
<1>. QED  BY <1>1, <1>2 DEF Quiet, Finish, Return

LEMMA QuietSame ==
    ASSUME UNCHANGED vars \/ \E r \in Replica : Crash(r)
    PROVE  Quiet
<1>1. call' = call /\ verbs' = verbs
  BY DEF Crash, vars
<1>2. \A x \in Client : Answered(x)' = Answered(x)
  BY <1>1 DEF Answered
<1>. QED  BY <1>1, <1>2 DEF Quiet, Crash, vars

\* Every step is quiet, posts a call or executes a verb.
LEMMA StepKinds ==
    ASSUME TypeOK, [Next]_vars
    PROVE  \/ Quiet
           \/ \E c \in Client : ReadAll(c) \/ WriteAll(c) \/ CasAll(c)
           \/ \E v \in verbs : Execute(v)
<1>1. ASSUME NEW c \in Client, NEW v \in verbs, PollError(c, v) PROVE Quiet
  <2>1. v.cl = c
    BY <1>1 DEF PollError
  <2>. QED  BY <1>1, <2>1, QuietVerb
<1>. QED
  BY <1>1, QuietVerb, QuietPoll, QuietEnd, QuietSame DEF Next, Network, Wait

LEMMA PostFacts ==
    ASSUME TypeOK, Own, NEW c \in Client, NEW o, NEW e, NEW d, Post(c, o, e, d)
    PROVE  /\ handle' = handle
           /\ mem' = mem /\ buf' = buf /\ swaps' = swaps /\ won' = won /\ acked' = acked
           /\ call'[c].op = o /\ call'[c].expected = e /\ call'[c].desired = d
           /\ call'[c].floor = acked /\ call'[c].pc = "wait"
           /\ calls'[c] = calls[c] + 1 /\ Answered(c)' = {}
           /\ \A x \in Client \ {c} : call'[x] = call[x] /\ calls'[x] = calls[x]
                                      /\ Answered(x)' = Answered(x)
<1>1. PICK drop \in SUBSET Replica :
        /\ verbs' = verbs \cup {Verb(c, r, o, e, d) : r \in Replica \ drop}
        /\ call' = [call EXCEPT ![c] =
                [op |-> o, expected |-> e, desired |-> d,
                 posted |-> Cardinality(Replica \ drop), completions |-> 0,
                 mask |-> {}, floor |-> acked, pc |-> "wait"]]
  BY DEF Post
<1>2. call \in [Client -> Calls] /\ calls \in [Client -> Nat]
  BY DEF TypeOK
<1>3. calls' = [calls EXCEPT ![c] = @ + 1] /\ call[c].pc = "idle"
  BY DEF Post
<1>4. /\ call'[c].op = o /\ call'[c].expected = e /\ call'[c].desired = d
      /\ call'[c].floor = acked /\ call'[c].pc = "wait" /\ call'[c].mask = {}
      /\ calls'[c] = calls[c] + 1
      /\ \A x \in Client \ {c} : call'[x] = call[x] /\ calls'[x] = calls[x]
  BY <1>1, <1>2, <1>3
<1>5. \A v \in verbs : v.cl # c
  BY <1>3 DEF Own
<1>6. \A v \in verbs' : v \in verbs \/ (v.cl = c /\ v.st = "posted")
  BY <1>1 DEF Verb
<1>7. verbs \subseteq verbs'
  BY <1>1
<1>8. Answered(c)' = {}
  BY <1>4, <1>5, <1>6 DEF Answered
<1>9. ASSUME NEW x \in Client \ {c} PROVE Answered(x)' = Answered(x)
  BY <1>4, <1>6, <1>7 DEF Answered
<1>. QED  BY <1>4, <1>8, <1>9 DEF Post

LEMMA ExecuteFacts ==
    ASSUME TypeOK, Own, NEW v \in verbs, Execute(v)
    PROVE  /\ v.cl \in Client /\ v.rep \in Replica /\ v.id = calls[v.cl]
           /\ handle' = handle
           /\ call' = call /\ calls' = calls /\ won' = won /\ acked' = acked
           /\ call[v.cl].pc = "wait" /\ v.op = call[v.cl].op
           /\ v.expected = call[v.cl].expected /\ v.desired = call[v.cl].desired
           /\ Answered(v.cl)' \subseteq Answered(v.cl) \cup {v.rep}
           /\ \A x \in Client \ {v.cl} : Answered(x)' \subseteq Answered(x) /\ buf'[x] = buf[x]
           /\ \A r \in Replica \ {v.rep} : buf'[v.cl][r] = buf[v.cl][r] /\ mem'[r] = mem[r]
           /\ v.op # "write" => buf'[v.cl][v.rep] = mem[v.rep]
           /\ mem'[v.rep] = IF v.op = "write" \/ (v.op = "cas" /\ mem[v.rep] = v.expected)
                              THEN v.desired ELSE mem[v.rep]
<1>1. /\ v.cl \in Client /\ v.rep \in Replica
      /\ mem \in [Replica -> Word] /\ buf \in [Client -> [Replica -> Word]]
  BY DEF TypeOK, Verbs
<1>2. \A w \in verbs' : w \in verbs \/ (w.cl = v.cl /\ w.rep = v.rep)
  BY DEF Execute, TypeOK, Verbs
<1>3. /\ handle' = handle
      /\ call' = call /\ calls' = calls /\ won' = won /\ acked' = acked
  BY DEF Execute
<1>4. /\ call[v.cl].pc = "wait" /\ v.op = call[v.cl].op /\ v.id = calls[v.cl]
      /\ v.expected = call[v.cl].expected /\ v.desired = call[v.cl].desired
  BY DEF Own
<1>5. Answered(v.cl)' \subseteq Answered(v.cl) \cup {v.rep}
  BY <1>2, <1>3 DEF Answered
<1>6. \A x \in Client \ {v.cl} : Answered(x)' \subseteq Answered(x)
  BY <1>2, <1>3 DEF Answered
<1>7. /\ \A x \in Client \ {v.cl} : buf'[x] = buf[x]
      /\ \A r \in Replica \ {v.rep} : buf'[v.cl][r] = buf[v.cl][r]
      /\ v.op # "write" => buf'[v.cl][v.rep] = mem[v.rep]
  <2>1. buf' = IF v.op = "write" THEN buf ELSE [buf EXCEPT ![v.cl][v.rep] = mem[v.rep]]
    BY DEF Execute
  <2>. QED  BY <1>1, <2>1
<1>8. /\ \A r \in Replica \ {v.rep} : mem'[r] = mem[r]
      /\ mem'[v.rep] = IF v.op = "write" \/ (v.op = "cas" /\ mem[v.rep] = v.expected)
                         THEN v.desired ELSE mem[v.rep]
  BY <1>1 DEF Execute
<1>. QED  BY <1>1, <1>3, <1>4, <1>5, <1>6, <1>7, <1>8

-----------------------------------------------------------------------------
(* cas_all.                                                                *)

\* What a call asks for follows from its kind.
Kind ==
    \A c \in Client : call[c].pc = "wait" =>
        /\ call[c].op = "cas" =>
             handle /\ call[c].desired.ver = call[c].expected.ver + 1
        /\ call[c].op = "write" =>
             ~handle /\ c = Writer /\ call[c].desired.ver = calls[c]

Swap(r, old, id) == [rep |-> r, old |-> old, id |-> id]

\* A replica lets a handle be swapped once: every swap raised the version, and
\* a caller that finds its expected handle in an answer made the swap.
Swapped ==
    /\ swaps # {} => handle
    /\ \A s \in swaps : s.old.ver < mem[s.rep].ver
    /\ \A s, t \in swaps : s.rep = t.rep /\ s.old = t.old => s = t
    /\ \A c \in Client : call[c].pc = "wait" /\ call[c].op = "cas" =>
         \A r \in Answered(c) :
            buf[c][r] = call[c].expected =>
                Swap(r, call[c].expected, <<c, calls[c]>>) \in swaps

\* Who won swapped the handle on a quorum.
Won ==
    \A w \in won : \E Q : IsQuorum(Q) /\ \A r \in Q : Swap(r, w.old, w.id) \in swaps

LEMMA KindStep == TypeOK /\ Own /\ Kind /\ [Next]_vars => Kind'
<1>t. SUFFICES ASSUME TypeOK, Own, Kind, [Next]_vars PROVE Kind'
  OBVIOUS
<1>1. CASE Quiet
  BY <1>t, <1>1 DEF Kind, Quiet
<1>2. ASSUME NEW c \in Client, NEW o, NEW e, NEW d, Post(c, o, e, d),
             o = "cas" => handle /\ d.ver = e.ver + 1,
             o = "write" => ~handle /\ c = Writer /\ d.ver = calls[c] + 1
      PROVE  Kind'
  <2>1. /\ handle' = handle
        /\ call'[c].op = o /\ call'[c].expected = e /\ call'[c].desired = d
        /\ calls'[c] = calls[c] + 1
        /\ \A x \in Client \ {c} : call'[x] = call[x] /\ calls'[x] = calls[x]
    BY <1>t, <1>2, PostFacts
  <2>. QED  BY <1>t, <1>2, <2>1 DEF Kind
<1>3. ASSUME NEW c \in Client, ReadAll(c) PROVE Kind'
  BY <1>2, <1>3 DEF ReadAll
<1>4. ASSUME NEW c \in Client, WriteAll(c) PROVE Kind'
  <2>. DEFINE d == [ver |-> calls[c] + 1, by |-> c]
  <2>1. Post(c, "write", FirstWord, d) /\ ~handle /\ c = Writer /\ d.ver = calls[c] + 1
    BY <1>4 DEF WriteAll
  <2>. HIDE DEF d
  <2>. QED  BY <1>2, <2>1
<1>5. ASSUME NEW c \in Client, CasAll(c) PROVE Kind'
  <2>r. PICK r \in Replica : \E b \in {buf[c][r].by, c} :
          handle /\ Post(c, "cas", buf[c][r], [ver |-> buf[c][r].ver + 1, by |-> b])
    BY <1>5 DEF CasAll
  <2>1. PICK b \in {buf[c][r].by, c} :
          handle /\ Post(c, "cas", buf[c][r], [ver |-> buf[c][r].ver + 1, by |-> b])
    BY <2>r
  <2>. DEFINE d == [ver |-> buf[c][r].ver + 1, by |-> b]
  <2>2. Post(c, "cas", buf[c][r], d) /\ d.ver = buf[c][r].ver + 1
    BY <2>1
  <2>. HIDE DEF d
  <2>. QED  BY <1>2, <2>1, <2>2
<1>6. ASSUME NEW v \in verbs, Execute(v) PROVE Kind'
  BY <1>t, <1>6 DEF Kind, Execute
<1>. QED  BY <1>t, <1>1, <1>3, <1>4, <1>5, <1>6, StepKinds

LEMMA SwappedExecute ==
    ASSUME TypeOK, Own, Kind, Swapped, NEW v \in verbs, Execute(v)
    PROVE  Swapped'
<1>. DEFINE r == v.rep
            new == Swap(r, v.expected, <<v.cl, v.id>>)
            hit == v.op = "cas" /\ mem[r] = v.expected
<1>1. /\ mem \in [Replica -> Word] /\ r \in Replica /\ v.cl \in Client
      /\ \A s \in swaps : s.rep \in Replica /\ s.old \in Word
      /\ v.expected \in Word /\ v.desired \in Word
  BY DEF TypeOK, Verbs
<1>2. \A w \in Word : w.ver \in Nat
  BY DEF Word
<1>3. /\ handle' = handle /\ call' = call /\ calls' = calls
      /\ call[v.cl].pc = "wait" /\ v.op = call[v.cl].op /\ v.id = calls[v.cl]
      /\ v.expected = call[v.cl].expected /\ v.desired = call[v.cl].desired
      /\ Answered(v.cl)' \subseteq Answered(v.cl) \cup {r}
      /\ \A x \in Client \ {v.cl} : Answered(x)' \subseteq Answered(x) /\ buf'[x] = buf[x]
      /\ \A q \in Replica \ {r} : buf'[v.cl][q] = buf[v.cl][q] /\ mem'[q] = mem[q]
      /\ v.op # "write" => buf'[v.cl][r] = mem[r]
      /\ mem'[r] = IF v.op = "write" \/ hit THEN v.desired ELSE mem[r]
  BY ExecuteFacts
<1>4. swaps' = IF hit THEN swaps \cup {new} ELSE swaps
  BY DEF Execute, Swap
<1>5. new.rep = r /\ new.old = v.expected
  BY DEF Swap
<1>6. /\ v.op = "cas" => handle /\ v.desired.ver = v.expected.ver + 1
      /\ v.op = "write" => ~handle
  BY <1>1, <1>3 DEF Kind
<1>7. \A c \in Client : Answered(c) \subseteq Replica
  BY DEF TypeOK, Calls, Answered
<1>8. new = Swap(r, call[v.cl].expected, <<v.cl, calls[v.cl]>>)
  BY <1>3
<1>. HIDE DEF new, r
<1>9. swaps' # {} => handle'
  BY <1>3, <1>4, <1>6 DEF Swapped
<1>10. ASSUME NEW s \in swaps' PROVE s.old.ver < mem'[s.rep].ver
  <2>1. CASE s \in swaps
    <3>1. s.old.ver < mem[s.rep].ver /\ handle /\ s.rep \in Replica
          /\ s.old.ver \in Nat /\ mem[s.rep].ver \in Nat
      BY <1>1, <1>2, <2>1 DEF Swapped
    <3>2. v.op # "write"
      BY <1>6, <3>1
    <3>3. hit => v.desired.ver > mem[r].ver
      BY <1>1, <1>2, <1>6
    <3>4. CASE s.rep = r
      BY <1>1, <1>2, <1>3, <3>1, <3>2, <3>3, <3>4
    <3>5. CASE s.rep # r
      BY <1>3, <3>1, <3>5
    <3>. QED  BY <3>4, <3>5
  <2>2. CASE s \notin swaps
    <3>1. s = new /\ hit
      BY <1>4, <2>2
    <3>. QED  BY <1>1, <1>2, <1>3, <1>5, <1>6, <3>1
  <2>. QED  BY <2>1, <2>2
<1>11. ASSUME NEW s \in swaps', NEW t \in swaps', s.rep = t.rep, s.old = t.old
       PROVE  s = t
  <2>1. hit => \A x \in swaps : ~(x.rep = r /\ x.old = v.expected)
    <3>1. \A x \in swaps : x.old.ver < mem[x.rep].ver /\ x.old.ver \in Nat
      BY <1>1, <1>2 DEF Swapped
    <3>. QED  BY <1>1, <1>2, <3>1
  <2>. QED  BY <1>4, <1>5, <1>11, <2>1 DEF Swapped
<1>12. ASSUME NEW c \in Client, call'[c].pc = "wait", call'[c].op = "cas",
              NEW q \in Answered(c)', buf'[c][q] = call'[c].expected
       PROVE  Swap(q, call'[c].expected, <<c, calls'[c]>>) \in swaps'
  <2>1. swaps \subseteq swaps'
    BY <1>4
  <2>2. CASE c # v.cl
    <3>1. q \in Answered(c) /\ buf[c][q] = call[c].expected
      BY <1>3, <1>12, <2>2
    <3>. QED  BY <1>3, <1>12, <2>1, <3>1 DEF Swapped
  <2>3. CASE c = v.cl /\ q # r
    <3>1. q \in Answered(v.cl) /\ q \in Replica
      BY <1>1, <1>3, <1>7, <1>12, <2>3
    <3>2. buf[v.cl][q] = call[v.cl].expected
      BY <1>3, <1>12, <2>3, <3>1
    <3>3. Swap(q, call[v.cl].expected, <<v.cl, calls[v.cl]>>) \in swaps
      BY <1>1, <1>3, <1>12, <2>3, <3>1, <3>2 DEF Swapped
    <3>. QED  BY <1>3, <2>1, <2>3, <3>3
  <2>4. CASE c = v.cl /\ q = r
    <3>1. hit
      BY <1>3, <1>12, <2>4
    <3>. QED  BY <1>3, <1>4, <1>8, <2>4, <3>1
  <2>. QED  BY <2>2, <2>3, <2>4
<1>. HIDE DEF hit
<1>. QED  BY <1>9, <1>10, <1>11, <1>12 DEF Swapped

LEMMA SwappedStep == TypeOK /\ Own /\ Kind /\ Swapped /\ [Next]_vars => Swapped'
<1>t. SUFFICES ASSUME TypeOK, Own, Kind, Swapped, [Next]_vars PROVE Swapped'
  OBVIOUS
<1>1. CASE Quiet
  BY <1>t, <1>1 DEF Swapped, Quiet
<1>2. ASSUME NEW c \in Client, NEW o, NEW e, NEW d, Post(c, o, e, d) PROVE Swapped'
  <2>1. /\ handle' = handle
        /\ mem' = mem /\ buf' = buf /\ swaps' = swaps /\ Answered(c)' = {}
        /\ \A x \in Client \ {c} : call'[x] = call[x] /\ calls'[x] = calls[x]
                                   /\ Answered(x)' = Answered(x)
    BY <1>t, <1>2, PostFacts
  <2>2. ASSUME NEW x \in Client, call'[x].pc = "wait", call'[x].op = "cas",
               NEW r \in Answered(x)', buf'[x][r] = call'[x].expected
        PROVE  Swap(r, call'[x].expected, <<x, calls'[x]>>) \in swaps'
    <3>1. CASE x = c
      <4>1. Answered(x)' = {}
        BY <2>1, <3>1
      <4>. QED  BY <2>2, <4>1
    <3>2. CASE x # c
      BY <1>t, <2>1, <2>2, <3>2 DEF Swapped
    <3>. QED  BY <3>1, <3>2
  <2>. QED  BY <1>t, <2>1, <2>2 DEF Swapped
<1>3. ASSUME NEW c \in Client, ReadAll(c) \/ WriteAll(c) \/ CasAll(c) PROVE Swapped'
  BY <1>2, <1>3 DEF ReadAll, WriteAll, CasAll
<1>4. ASSUME NEW v \in verbs, Execute(v) PROVE Swapped'
  BY <1>t, <1>4, SwappedExecute
<1>. QED  BY <1>t, <1>1, <1>3, <1>4, StepKinds

LEMMA WonStep == TypeOK /\ Swapped /\ Won /\ [Next]_vars => Won'
<1>t. SUFFICES ASSUME TypeOK, Swapped, Won, [Next]_vars PROVE Won'
  OBVIOUS
<1>1. ASSUME won' = won, swaps \subseteq swaps' PROVE Won'
  BY <1>t, <1>1 DEF Won
<1>2. ASSUME NEW c \in Client, Finish(c) PROVE Won'
  <2>1. CASE call[c].op = "cas" /\ Succeeds(c)
    <3>. DEFINE w == [old |-> call[c].expected, id |-> <<c, calls[c]>>]
    <3>1. won' = won \cup {w} /\ swaps' = swaps
      BY <1>2, <2>1 DEF Finish
    <3>2. IsQuorum(Wins(c))
      BY <1>t, <2>1 DEF IsQuorum, Succeeds, Wins, TypeOK, Calls
    <3>3. \A r \in Wins(c) : r \in Answered(c) /\ buf[c][r] = call[c].expected
      BY DEF Wins, Answered
    <3>4. \A r \in Wins(c) : Swap(r, call[c].expected, <<c, calls[c]>>) \in swaps
      BY <1>t, <1>2, <2>1, <3>3 DEF Swapped, Finish
    <3>5. \A r \in Wins(c) : Swap(r, w.old, w.id) \in swaps
      BY <3>4
    <3>. HIDE DEF w
    <3>. QED  BY <1>t, <3>1, <3>2, <3>5 DEF Won
  <2>2. CASE ~(call[c].op = "cas" /\ Succeeds(c))
    BY <1>1, <1>2, <2>2 DEF Finish
  <2>. QED  BY <2>1, <2>2
<1>3. ASSUME NEW v \in verbs, Execute(v) PROVE Won'
  BY <1>1, <1>3 DEF Execute
<1>4. ASSUME NEW c \in Client, ReadAll(c) \/ WriteAll(c) \/ CasAll(c) PROVE Won'
  BY <1>1, <1>4 DEF ReadAll, WriteAll, CasAll, Post
<1>5. ASSUME NEW c \in Client, NEW v \in verbs, Poll(c, v) \/ PollError(c, v) PROVE Won'
  BY <1>1, <1>5 DEF Poll, PollError
<1>6. ASSUME NEW c \in Client, Return(c) PROVE Won'
  BY <1>1, <1>6 DEF Return
<1>7. ASSUME NEW v \in verbs, Break(v) PROVE Won'
  BY <1>1, <1>7 DEF Break
<1>8. ASSUME NEW r \in Replica, Crash(r) PROVE Won'
  BY <1>1, <1>8 DEF Crash
<1>9. ASSUME UNCHANGED vars PROVE Won'
  BY <1>1, <1>9 DEF vars
<1>. QED
  BY <1>t, <1>2, <1>3, <1>4, <1>5, <1>6, <1>7, <1>8, <1>9 DEF Next, Network, Wait

LEMMA OneWins == Swapped /\ Won => OneWinner
<1>. SUFFICES ASSUME Swapped, Won, NEW a \in won, NEW b \in won, a.old = b.old
              PROVE  a.id = b.id
  BY DEF OneWinner
<1>1. PICK P : IsQuorum(P) /\ \A r \in P : Swap(r, a.old, a.id) \in swaps
  BY DEF Won
<1>2. PICK Q : IsQuorum(Q) /\ \A r \in Q : Swap(r, b.old, b.id) \in swaps
  BY DEF Won
<1>3. PICK r \in Replica : r \in P /\ r \in Q
  BY <1>1, <1>2, QuorumsMeet
<1>4. Swap(r, a.old, a.id) \in swaps /\ Swap(r, a.old, b.id) \in swaps
  BY <1>1, <1>2, <1>3
<1>5. /\ Swap(r, a.old, a.id).rep = r /\ Swap(r, a.old, b.id).rep = r
      /\ Swap(r, a.old, a.id).old = a.old /\ Swap(r, a.old, b.id).old = a.old
      /\ Swap(r, a.old, a.id).id = a.id /\ Swap(r, a.old, b.id).id = b.id
  BY DEF Swap
<1>6. Swap(r, a.old, a.id) = Swap(r, a.old, b.id)
  BY <1>4, <1>5 DEF Swapped
<1>. QED  BY <1>5, <1>6

\* Of all cas_all calls that expect the same handle at most one is told that it
\* won (OneWinner), for every majority quorum, any number of clients and any
\* replicas lost or skipped.
THEOREM CasAllExclusive == Spec => []OneWinner
<1>1. Init => Own /\ Kind /\ Swapped /\ Won
  <2>. SUFFICES ASSUME Init PROVE Own /\ Kind /\ Swapped /\ Won
    OBVIOUS
  <2>. QED  BY DEF Init, Own, Kind, Swapped, Won, Idle
<1>. QED
  BY <1>1, TypeCorrect, OwnStep, KindStep, SwappedStep, WonStep, OneWins, PTL DEF Spec

-----------------------------------------------------------------------------
(* write_all and read_all.                                                 *)

\* No replica is ahead of the writer, and one that has answered the call the
\* writer waits in holds what that call wrote.
Stored ==
    /\ ~handle => \A r \in Replica : mem[r].ver <= calls[Writer]
    /\ \A c \in Client : call[c].pc = "wait" /\ call[c].op = "write" =>
         \A r \in Answered(c) : mem[r].ver >= call[c].desired.ver

\* Every quorum has a replica that holds what was acknowledged, and one that
\* has told a waiting reader, or still can, what was acknowledged before.
Acked == \A P : IsQuorum(P) => \E r \in P : mem[r].ver >= acked

Told(c, r) == mem[r].ver >= call[c].floor
              /\ (r \in Answered(c) => buf[c][r].ver >= call[c].floor)

Reads ==
    \A c \in Client : call[c].pc = "wait" /\ call[c].op = "read" =>
        \A P : IsQuorum(P) => \E r \in P : Told(c, r)

LEMMA QuorumNotEmpty ==
    ASSUME NEW P, IsQuorum(P)
    PROVE  \E r \in P : r \in Replica
BY QuorumsMeet

LEMMA VersionType ==
    ASSUME TypeOK
    PROVE  /\ \A r \in Replica : mem[r].ver \in Nat
           /\ \A c \in Client : /\ call[c].floor \in Nat /\ calls[c] \in Nat
                                /\ call[c].desired.ver \in Nat
                                /\ \A r \in Replica : buf[c][r].ver \in Nat
BY DEF TypeOK, Calls, Word

\* A verb never takes a replica back to an older version.
LEMMA MemGrows ==
    ASSUME TypeOK, Own, Kind, Stored, [Next]_vars, NEW r \in Replica
    PROVE  mem'[r].ver >= mem[r].ver
<1>0. mem[r].ver \in Nat
  BY VersionType
<1>1. CASE mem' = mem
  BY <1>0, <1>1
<1>2. ASSUME NEW v \in verbs, Execute(v) PROVE mem'[r].ver >= mem[r].ver
  <2>1. /\ v.cl \in Client /\ v.rep \in Replica /\ call[v.cl].pc = "wait"
        /\ v.op = call[v.cl].op /\ v.expected = call[v.cl].expected
        /\ v.desired = call[v.cl].desired
        /\ \A q \in Replica \ {v.rep} : mem'[q] = mem[q]
        /\ mem'[v.rep] = IF v.op = "write" \/ (v.op = "cas" /\ mem[v.rep] = v.expected)
                           THEN v.desired ELSE mem[v.rep]
    BY <1>2, ExecuteFacts
  <2>2. v.op = "cas" => v.desired.ver = v.expected.ver + 1
    BY <2>1 DEF Kind
  <2>3. v.op = "write" => v.desired.ver >= mem[v.rep].ver
    BY <2>1, VersionType DEF Kind, Stored
  <2>4. CASE r = v.rep
    <3>1. CASE v.op = "write"
      BY <2>1, <2>3, <2>4, <3>1
    <3>2. CASE v.op = "cas" /\ mem[v.rep] = v.expected
      <4>1. mem'[r].ver = mem[r].ver + 1
        BY <2>1, <2>2, <2>4, <3>2
      <4>. QED  BY <1>0, <4>1
    <3>3. CASE ~(v.op = "write" \/ (v.op = "cas" /\ mem[v.rep] = v.expected))
      BY <1>0, <2>1, <2>4, <3>3
    <3>. QED  BY <3>1, <3>2, <3>3
  <2>5. CASE r # v.rep
    BY <1>0, <2>1, <2>5
  <2>. QED  BY <2>4, <2>5
<1>3. ASSUME NEW c \in Client, ReadAll(c) \/ WriteAll(c) \/ CasAll(c) PROVE mem' = mem
  BY <1>3 DEF ReadAll, WriteAll, CasAll, Post
<1>4. Quiet => mem' = mem
  BY DEF Quiet
<1>. QED  BY <1>1, <1>2, <1>3, <1>4, StepKinds

LEMMA StoredStep == TypeOK /\ TypeOK' /\ Own /\ Kind /\ Stored /\ [Next]_vars => Stored'
<1>t. SUFFICES ASSUME TypeOK, TypeOK', Own, Kind, Stored, [Next]_vars PROVE Stored'
  OBVIOUS
<1>1. CASE Quiet
  BY <1>t, <1>1 DEF Stored, Quiet
<1>2. ASSUME NEW c \in Client, NEW o, NEW e, NEW d, Post(c, o, e, d) PROVE Stored'
  <2>1. /\ handle' = handle /\ mem' = mem /\ Answered(c)' = {} /\ calls'[c] = calls[c] + 1
        /\ \A x \in Client \ {c} : call'[x] = call[x] /\ calls'[x] = calls[x]
                                   /\ Answered(x)' = Answered(x)
    BY <1>t, <1>2, PostFacts
  <2>2. calls[Writer] <= calls'[Writer]
    <3>1. Writer \in Client /\ calls[Writer] \in Nat
      BY <1>t, ReplicaAssumption, VersionType
    <3>2. calls'[Writer] = calls[Writer] \/ calls'[Writer] = calls[Writer] + 1
      BY <2>1, <3>1, Zenon
    <3>. QED  BY <3>1, <3>2
  <2>3. ASSUME ~handle, NEW r \in Replica PROVE mem'[r].ver <= calls'[Writer]
    <3>1. /\ mem[r].ver \in Nat /\ calls[Writer] \in Nat /\ calls'[Writer] \in Nat
          /\ mem[r].ver <= calls[Writer]
      BY <1>t, <2>3, VersionType, ReplicaAssumption DEF Stored, TypeOK
    <3>2. mem'[r].ver = mem[r].ver
      BY <2>1
    <3>. QED  BY <2>2, <3>1, <3>2
  <2>4. ASSUME NEW x \in Client, call'[x].pc = "wait", call'[x].op = "write",
               NEW r \in Answered(x)'
        PROVE  mem'[r].ver >= call'[x].desired.ver
    <3>1. CASE x = c
      <4>1. Answered(x)' = {}
        BY <2>1, <3>1
      <4>. QED  BY <2>4, <4>1
    <3>2. CASE x # c
      BY <1>t, <2>1, <2>4, <3>2 DEF Stored
    <3>. QED  BY <3>1, <3>2
  <2>. QED  BY <2>1, <2>3, <2>4 DEF Stored
<1>3. ASSUME NEW c \in Client, ReadAll(c) \/ WriteAll(c) \/ CasAll(c) PROVE Stored'
  BY <1>2, <1>3 DEF ReadAll, WriteAll, CasAll
<1>4. ASSUME NEW v \in verbs, Execute(v) PROVE Stored'
  <2>1. /\ v.cl \in Client /\ v.rep \in Replica /\ call[v.cl].pc = "wait"
        /\ v.op = call[v.cl].op /\ v.desired = call[v.cl].desired
        /\ handle' = handle /\ call' = call /\ calls' = calls
        /\ Answered(v.cl)' \subseteq Answered(v.cl) \cup {v.rep}
        /\ \A x \in Client \ {v.cl} : Answered(x)' \subseteq Answered(x)
        /\ \A q \in Replica \ {v.rep} : mem'[q] = mem[q]
        /\ mem'[v.rep] = IF v.op = "write" \/ (v.op = "cas" /\ mem[v.rep] = v.expected)
                           THEN v.desired ELSE mem[v.rep]
    BY <1>t, <1>4, ExecuteFacts
  <2>2. ASSUME ~handle, NEW r \in Replica PROVE mem'[r].ver <= calls'[Writer]
    <3>1. /\ mem[r].ver <= calls[Writer] /\ v.op # "cas"
          /\ v.op = "write" => v.desired.ver = calls[Writer]
      BY <1>t, <2>1, <2>2 DEF Stored, Kind
    <3>2. calls[Writer] \in Nat
      BY <1>t, VersionType, ReplicaAssumption
    <3>3. mem'[r].ver = mem[r].ver \/ (v.op = "write" /\ mem'[r].ver = v.desired.ver)
      BY <2>1, <3>1
    <3>4. calls'[Writer] = calls[Writer]
      BY <2>1
    <3>. QED  BY <3>1, <3>2, <3>3, <3>4
  <2>3. ASSUME NEW x \in Client, call'[x].pc = "wait", call'[x].op = "write",
               NEW r \in Answered(x)'
        PROVE  mem'[r].ver >= call'[x].desired.ver
    <3>0. /\ r \in Replica /\ mem[r].ver \in Nat /\ mem'[r].ver \in Nat
          /\ call[x].desired.ver \in Nat
      <4>1. r \in Replica
        BY <1>t, <2>3 DEF Answered, TypeOK, Calls
      <4>. QED  BY <1>t, <4>1, VersionType DEF TypeOK, Word
    <3>1. CASE r \in Answered(x)
      <4>1. mem[r].ver >= call[x].desired.ver
        BY <1>t, <2>1, <2>3, <3>1 DEF Stored
      <4>2. mem'[r].ver >= mem[r].ver
        BY <1>t, <3>0, MemGrows
      <4>3. call'[x].desired.ver = call[x].desired.ver
        BY <2>1
      <4>. QED  BY <3>0, <4>1, <4>2, <4>3
    <3>2. CASE r \notin Answered(x)
      <4>1. x = v.cl /\ r = v.rep
        <5>1. CASE x = v.cl
          <6>1. Answered(x)' \subseteq Answered(x) \cup {v.rep}
            BY <2>1, <5>1
          <6>. QED  BY <2>3, <3>2, <5>1, <6>1
        <5>2. CASE x # v.cl
          BY <2>1, <2>3, <3>2, <5>2
        <5>. QED  BY <5>1, <5>2
      <4>2. mem'[r] = call[x].desired
        BY <2>1, <2>3, <4>1
      <4>. QED  BY <2>1, <3>0, <4>2
    <3>. QED  BY <3>1, <3>2
  <2>. QED  BY <2>1, <2>2, <2>3 DEF Stored
<1>. QED  BY <1>t, <1>1, <1>3, <1>4, StepKinds

LEMMA AckedStep ==
    TypeOK /\ TypeOK' /\ Own /\ Kind /\ Stored /\ Acked /\ [Next]_vars => Acked'
<1>t. SUFFICES ASSUME TypeOK, TypeOK', Own, Kind, Stored, Acked, [Next]_vars,
                      NEW P, IsQuorum(P)
               PROVE  \E r \in P : mem'[r].ver >= acked'
  BY DEF Acked, IsQuorum
<1>0. P \subseteq Replica /\ acked \in Nat
      /\ \A r \in Replica : mem[r].ver \in Nat /\ mem'[r].ver \in Nat /\ mem'[r].ver >= mem[r].ver
  <2>1. \A r \in Replica : mem'[r].ver >= mem[r].ver
    BY <1>t, MemGrows
  <2>. QED  BY <1>t, <2>1, VersionType DEF IsQuorum, TypeOK, Word
<1>1. CASE acked' = acked
  <2>1. PICK r \in P : mem[r].ver >= acked
    BY <1>t DEF Acked
  <2>. QED  BY <1>0, <1>1, <2>1
<1>2. ASSUME NEW c \in Client, Finish(c), acked' # acked
      PROVE  \E r \in P : mem'[r].ver >= acked'
  <2>1. /\ call[c].pc = "wait" /\ call[c].op = "write" /\ Succeeds(c)
        /\ acked' = call[c].desired.ver /\ mem' = mem
    BY <1>2 DEF Finish
  <2>2. IsQuorum(call[c].mask)
    BY <1>t, <2>1 DEF Succeeds, IsQuorum, TypeOK, Calls
  <2>3. PICK r \in Replica : r \in P /\ r \in call[c].mask
    BY <1>t, <2>2, QuorumsMeet
  <2>4. mem[r].ver >= call[c].desired.ver
    BY <1>t, <2>1, <2>3 DEF Stored, Answered
  <2>. QED  BY <2>1, <2>3, <2>4
<1>3. acked' # acked => \E c \in Client : Finish(c)
  BY <1>t DEF Next, Network, Wait, vars, ReadAll, WriteAll, CasAll, Post, Execute,
     Break, Crash, Poll, PollError, Return
<1>. QED  BY <1>1, <1>2, <1>3

LEMMA ReadsStep ==
    TypeOK /\ TypeOK' /\ Own /\ Kind /\ Stored /\ Acked /\ Reads /\ [Next]_vars => Reads'
<1>t. SUFFICES ASSUME TypeOK, TypeOK', Own, Kind, Stored, Acked, Reads, [Next]_vars,
                      NEW c \in Client, call'[c].pc = "wait", call'[c].op = "read",
                      NEW P, IsQuorum(P)
               PROVE  \E r \in P : Told(c, r)'
  BY DEF Reads, IsQuorum
<1>0. P \subseteq Replica /\ call'[c].floor \in Nat
      /\ \A r \in Replica : mem[r].ver \in Nat /\ mem'[r].ver \in Nat /\ mem'[r].ver >= mem[r].ver
  <2>1. \A r \in Replica : mem'[r].ver >= mem[r].ver
    BY <1>t, MemGrows
  <2>. QED  BY <1>t, <2>1, VersionType DEF IsQuorum, TypeOK, Word, Calls
<1>1. ASSUME call[c].pc = "wait", call[c].op = "read", call'[c].floor = call[c].floor,
             \A r \in Answered(c)' :
                 (r \in Answered(c) /\ buf'[c][r] = buf[c][r]) \/ buf'[c][r] = mem[r]
      PROVE  \E r \in P : Told(c, r)'
  <2>1. PICK r \in P : Told(c, r)
    BY <1>t, <1>1 DEF Reads
  <2>2. r \in Replica /\ mem[r].ver >= call[c].floor
        /\ (r \in Answered(c) => buf[c][r].ver >= call[c].floor)
    BY <1>0, <2>1 DEF Told
  <2>3. mem'[r].ver >= call'[c].floor
    BY <1>0, <1>1, <2>2
  <2>4. ASSUME r \in Answered(c)' PROVE buf'[c][r].ver >= call'[c].floor
    BY <1>1, <2>2, <2>4
  <2>. QED  BY <2>3, <2>4 DEF Told
<1>2. CASE Quiet
  BY <1>t, <1>1, <1>2 DEF Quiet
<1>3. ASSUME NEW x \in Client, NEW o, NEW e, NEW d, Post(x, o, e, d)
      PROVE  \E r \in P : Told(c, r)'
  <2>1. /\ mem' = mem /\ buf' = buf /\ Answered(x)' = {} /\ call'[x].floor = acked
        /\ \A y \in Client \ {x} : call'[y] = call[y] /\ Answered(y)' = Answered(y)
    BY <1>t, <1>3, PostFacts
  <2>2. CASE x = c
    <3>1. PICK r \in P : mem[r].ver >= acked
      BY <1>t DEF Acked
    <3>2. Answered(c)' = {}
      BY <2>1, <2>2
    <3>3. mem'[r].ver >= call'[c].floor
      BY <2>1, <2>2, <3>1
    <3>. QED  BY <3>2, <3>3 DEF Told
  <2>3. CASE x # c
    BY <1>t, <1>1, <2>1, <2>3
  <2>. QED  BY <2>2, <2>3
<1>4. ASSUME NEW x \in Client, ReadAll(x) \/ WriteAll(x) \/ CasAll(x)
      PROVE  \E r \in P : Told(c, r)'
  BY <1>3, <1>4 DEF ReadAll, WriteAll, CasAll
<1>5. ASSUME NEW v \in verbs, Execute(v) PROVE \E r \in P : Told(c, r)'
  <2>1. /\ v.cl \in Client /\ v.rep \in Replica /\ v.op = call[v.cl].op /\ call' = call
        /\ Answered(v.cl)' \subseteq Answered(v.cl) \cup {v.rep}
        /\ \A x \in Client \ {v.cl} : Answered(x)' \subseteq Answered(x) /\ buf'[x] = buf[x]
        /\ \A r \in Replica \ {v.rep} : buf'[v.cl][r] = buf[v.cl][r]
        /\ v.op # "write" => buf'[v.cl][v.rep] = mem[v.rep]
    BY <1>t, <1>5, ExecuteFacts
  <2>2. CASE c = v.cl
    <3>1. Answered(c)' \subseteq Answered(c) \cup {v.rep}
      BY <2>1, <2>2
    <3>2. Answered(c) \subseteq Replica
      BY <1>t DEF Answered, TypeOK, Calls
    <3>3. buf'[c][v.rep] = mem[v.rep] /\ \A r \in Replica \ {v.rep} : buf'[c][r] = buf[c][r]
      BY <1>t, <2>1, <2>2
    <3>4. \A r \in Answered(c)' :
             (r \in Answered(c) /\ buf'[c][r] = buf[c][r]) \/ buf'[c][r] = mem[r]
      BY <3>1, <3>2, <3>3
    <3>. QED  BY <1>t, <1>1, <2>1, <3>4
  <2>3. CASE c # v.cl
    BY <1>t, <1>1, <2>1, <2>3
  <2>. QED  BY <2>2, <2>3
<1>. QED  BY <1>t, <1>2, <1>4, <1>5, StepKinds

LEMMA ReturnedStep ==
    TypeOK /\ Own /\ Reads /\ ReadSeesWrite /\ [Next]_vars => ReadSeesWrite'
<1>t. SUFFICES ASSUME TypeOK, Own, Reads, ReadSeesWrite, [Next]_vars,
                      NEW c \in Client, call'[c].pc = "true", call'[c].op = "read"
               PROVE  \E r \in call'[c].mask : buf'[c][r].ver >= call'[c].floor
  BY DEF ReadSeesWrite
<1>1. ASSUME call'[c] = call[c], buf'[c] = buf[c]
      PROVE  \E r \in call'[c].mask : buf'[c][r].ver >= call'[c].floor
  BY <1>t, <1>1 DEF ReadSeesWrite
<1>2. ASSUME Finish(c)
      PROVE  \E r \in call'[c].mask : buf'[c][r].ver >= call'[c].floor
  <2>1. PICK res \in {"true", "false"} :
           call' = [call EXCEPT ![c].pc = res] /\ (res = "true" => Succeeds(c))
    BY <1>2 DEF Finish
  <2>2. /\ call'[c].mask = call[c].mask /\ call'[c].floor = call[c].floor
        /\ call[c].op = "read" /\ res = "true" /\ call[c].mask \subseteq Replica
    BY <1>t, <2>1 DEF TypeOK, Calls
  <2>3. IsQuorum(call[c].mask)
    BY <2>1, <2>2 DEF Succeeds, IsQuorum
  <2>4. PICK r \in call[c].mask : Told(c, r)
    BY <1>t, <1>2, <2>2, <2>3 DEF Reads, Finish
  <2>5. buf[c][r].ver >= call[c].floor /\ buf' = buf
    BY <1>2, <2>4 DEF Told, Answered, Finish
  <2>. QED  BY <2>2, <2>5
<1>3. ASSUME NEW v \in verbs, Execute(v) PROVE call'[c] = call[c] /\ buf'[c] = buf[c]
  <2>1. v.cl \in Client /\ call' = call /\ call[v.cl].pc = "wait"
        /\ \A x \in Client \ {v.cl} : buf'[x] = buf[x]
    BY <1>t, <1>3, ExecuteFacts
  <2>. QED  BY <1>t, <2>1
<1>4. ASSUME NEW x \in Client, NEW o, NEW e, NEW d, Post(x, o, e, d)
      PROVE  call'[c] = call[c] /\ buf'[c] = buf[c]
  <2>1. buf' = buf /\ call'[x].pc = "wait" /\ \A y \in Client \ {x} : call'[y] = call[y]
    BY <1>t, <1>4, PostFacts
  <2>. QED  BY <1>t, <2>1
<1>5. ASSUME NEW x \in Client, ReadAll(x) \/ WriteAll(x) \/ CasAll(x)
      PROVE  call'[c] = call[c] /\ buf'[c] = buf[c]
  BY <1>4, <1>5 DEF ReadAll, WriteAll, CasAll
<1>6. ASSUME NEW x \in Client, NEW v \in verbs, Poll(x, v) \/ PollError(x, v)
      PROVE  call'[c] = call[c] /\ buf'[c] = buf[c]
  <2>1. /\ buf' = buf /\ call'[x].pc = "wait"
        /\ \A y \in Client \ {x} : call'[y] = call[y]
    BY <1>t, <1>6 DEF Poll, PollError, TypeOK, Calls
  <2>. QED  BY <1>t, <2>1
<1>7. ASSUME NEW x \in Client, Finish(x), x # c
      PROVE  call'[c] = call[c] /\ buf'[c] = buf[c]
  BY <1>t, <1>7 DEF Finish, TypeOK
<1>8. ASSUME NEW x \in Client, Return(x) PROVE call'[c] = call[c] /\ buf'[c] = buf[c]
  <2>1. buf' = buf /\ call'[x].pc = "idle" /\ \A y \in Client \ {x} : call'[y] = call[y]
    BY <1>t, <1>8 DEF Return, Idle, TypeOK
  <2>. QED  BY <1>t, <2>1
<1>9. ASSUME UNCHANGED vars \/ (\E r \in Replica : Crash(r)) \/ (\E v \in verbs : Break(v))
      PROVE  call'[c] = call[c] /\ buf'[c] = buf[c]
  BY <1>9 DEF vars, Crash, Break
<1>. QED
  BY <1>t, <1>1, <1>2, <1>3, <1>5, <1>6, <1>7, <1>8, <1>9 DEF Next, Network, Wait

\* A read_all that returned true counts a replica whose contents are at least
\* as new as every write_all acknowledged before the read began
\* (ReadSeesWrite), for every majority quorum and any replicas lost or skipped.
THEOREM QuorumRead == Spec => []ReadSeesWrite
<1>1. Init => Own /\ Kind /\ Stored /\ Reads /\ ReadSeesWrite
  <2>. SUFFICES ASSUME Init PROVE Own /\ Kind /\ Stored /\ Reads /\ ReadSeesWrite
    OBVIOUS
  <2>1. verbs = {} /\ \A c \in Client : call[c].pc = "idle"
    BY DEF Init, Idle
  <2>2. \A r \in Replica : mem[r].ver <= calls[Writer]
    BY ReplicaAssumption DEF Init, FirstWord
  <2>. QED  BY <2>1, <2>2 DEF Own, Kind, Stored, Reads, ReadSeesWrite
<1>2. Init => Acked
  <2>. SUFFICES ASSUME Init, NEW P, IsQuorum(P) PROVE \E r \in P : mem[r].ver >= acked
    BY DEF Acked
  <2>1. PICK r \in P : r \in Replica
    BY QuorumNotEmpty
  <2>2. mem[r].ver = 0 /\ acked = 0
    BY <2>1 DEF Init, FirstWord
  <2>. QED  BY <2>2
<1>. QED
  BY <1>1, <1>2, TypeCorrect, OwnStep, KindStep, StoredStep, AckedStep, ReadsStep,
     ReturnedStep, PTL DEF Spec
=============================================================================

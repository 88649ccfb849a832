---------------------- MODULE BatchDispatchProofs ----------------------
(* BatchScheduler implements TaskDispatch, for every number of threads, batches and tasks. *)
EXTENDS BatchPlacesProofs, BatchSchedulerRefinement

USE DEF vars, clientVars, schedVars, execVars, markVars, queueVars

-----------------------------------------------------------------------------
(* The pointers of several holders together *)

HeldBy(G) == UNION {Holds(k) : k \in G}

QueueHolders  == {"queue"} \X Classes
ChosenHolders == {TheHeld, TheValid}
BatchHolders  == {"batch"} \X ExecThreads

LEMMA HeldByElement ==
  ASSUME NEW G, NEW p
  PROVE  /\ p \in HeldBy(G) <=> \E k \in G : p \in Holds(k)
         /\ p \in HeldBy(G)' <=> \E k \in G : p \in Holds(k)'
  BY DEF HeldBy

LEMMA HolderGroups ==
  /\ QueueHolders \in SUBSET Holders /\ ChosenHolders \in SUBSET Holders
  /\ BatchHolders \in SUBSET Holders
  /\ \A c \in Classes : /\ <<"queue", c>> \in QueueHolders /\ <<"queue", c>> \notin ChosenHolders
                        /\ <<"queue", c>> \notin BatchHolders
  /\ \A k \in {TheHeld, TheValid} : /\ k \in ChosenHolders /\ k \notin QueueHolders
                                    /\ k \notin BatchHolders
  /\ \A e \in ExecThreads : /\ <<"batch", e>> \in BatchHolders /\ <<"batch", e>> \notin QueueHolders
                            /\ <<"batch", e>> \notin ChosenHolders
  /\ \A t \in Threads : /\ <<"mark", t>> \notin BatchHolders /\ <<"mark", t>> \notin QueueHolders
                        /\ <<"mark", t>> \notin ChosenHolders
  BY DEF QueueHolders, ChosenHolders, BatchHolders, Holders, TheHeld, TheValid

LEMMA HeldByWhat ==
  /\ HeldBy(QueueHolders) = Queued /\ HeldBy(QueueHolders)' = Queued'
  /\ HeldBy(ChosenHolders) = Elements(held) \cup Elements(valid)
  /\ HeldBy(ChosenHolders)' = Elements(held') \cup Elements(valid')
  /\ HeldBy(BatchHolders) = UNION {Batch(e) : e \in ExecThreads}
  /\ HeldBy(BatchHolders)' = (UNION {Batch(e) : e \in ExecThreads})'
<1>1. \A k \in QueueHolders : \E c \in Classes : k = <<"queue", c>>
  BY DEF QueueHolders
<1>2. \A k \in BatchHolders : \E e \in ExecThreads : k = <<"batch", e>>
  BY DEF BatchHolders
<1>3. HeldBy(QueueHolders) = Queued
  <2>1. \A p : p \in Queued <=> \E c \in Classes : p \in Elements(queue[c])
    BY DEF Queued
  <2>2. ASSUME NEW p PROVE p \in HeldBy(QueueHolders) <=> \E c \in Classes : p \in Elements(queue[c])
    <3>1. p \in HeldBy(QueueHolders) <=> \E k \in QueueHolders : p \in Holds(k)
      BY HeldByElement
    <3>2. (\E k \in QueueHolders : p \in Holds(k)) <=> \E c \in Classes : p \in Elements(queue[c])
      <4>1. ASSUME NEW k \in QueueHolders, p \in Holds(k) PROVE \E c \in Classes : p \in Elements(queue[c])
        BY <1>1, <4>1, HoldsWhat
      <4>2. ASSUME NEW c \in Classes, p \in Elements(queue[c]) PROVE \E k \in QueueHolders : p \in Holds(k)
        <5>1. p \in Holds(<<"queue", c>>)
          BY <4>2, HoldsWhat
        <5> QED
          BY <5>1, HolderGroups
      <4> QED
        BY <4>1, <4>2
    <3> QED
      BY <3>1, <3>2
  <2> QED
    BY <2>1, <2>2
<1>4. HeldBy(QueueHolders)' = Queued'
  <2>1. \A p : p \in Queued' <=> \E c \in Classes : p \in Elements(queue'[c])
    BY DEF Queued, Elements
  <2>2. ASSUME NEW p PROVE p \in HeldBy(QueueHolders)' <=> \E c \in Classes : p \in Elements(queue'[c])
    <3>1. p \in HeldBy(QueueHolders)' <=> \E k \in QueueHolders : p \in Holds(k)'
      BY HeldByElement
    <3>2. (\E k \in QueueHolders : p \in Holds(k)') <=> \E c \in Classes : p \in Elements(queue'[c])
      <4>1. ASSUME NEW k \in QueueHolders, p \in Holds(k)' PROVE \E c \in Classes : p \in Elements(queue'[c])
        BY <1>1, <4>1, HoldsWhatPrime
      <4>2. ASSUME NEW c \in Classes, p \in Elements(queue'[c]) PROVE \E k \in QueueHolders : p \in Holds(k)'
        <5>1. p \in Holds(<<"queue", c>>)'
          BY <4>2, HoldsWhatPrime
        <5> QED
          BY <5>1, HolderGroups
      <4> QED
        BY <4>1, <4>2
    <3> QED
      BY <3>1, <3>2
  <2> QED
    BY <2>1, <2>2
<1>5. HeldBy(ChosenHolders) = Elements(held) \cup Elements(valid)
  BY HoldsWhat DEF HeldBy, ChosenHolders
<1>6. HeldBy(ChosenHolders)' = Elements(held') \cup Elements(valid')
  BY HoldsWhatPrime DEF HeldBy, ChosenHolders
<1>7. HeldBy(BatchHolders) = UNION {Batch(e) : e \in ExecThreads}
  <2>1. \A p : p \in UNION {Batch(e) : e \in ExecThreads} <=> \E e \in ExecThreads : p \in Elements(ebatch[e])
    BY DEF Batch
  <2>2. ASSUME NEW p PROVE p \in HeldBy(BatchHolders) <=> \E e \in ExecThreads : p \in Elements(ebatch[e])
    <3>1. p \in HeldBy(BatchHolders) <=> \E k \in BatchHolders : p \in Holds(k)
      BY HeldByElement
    <3>2. (\E k \in BatchHolders : p \in Holds(k)) <=> \E e \in ExecThreads : p \in Elements(ebatch[e])
      <4>1. ASSUME NEW k \in BatchHolders, p \in Holds(k) PROVE \E e \in ExecThreads : p \in Elements(ebatch[e])
        BY <1>2, <4>1, HoldsWhat
      <4>2. ASSUME NEW e \in ExecThreads, p \in Elements(ebatch[e]) PROVE \E k \in BatchHolders : p \in Holds(k)
        <5>1. p \in Holds(<<"batch", e>>)
          BY <4>2, HoldsWhat
        <5> QED
          BY <5>1, HolderGroups
      <4> QED
        BY <4>1, <4>2
    <3> QED
      BY <3>1, <3>2
  <2> QED
    BY <2>1, <2>2
<1>8. HeldBy(BatchHolders)' = (UNION {Batch(e) : e \in ExecThreads})'
  <2>1. \A p : p \in (UNION {Batch(e) : e \in ExecThreads})'
                <=> \E e \in ExecThreads : p \in Elements(ebatch'[e])
    BY DEF Batch, Elements
  <2>2. ASSUME NEW p PROVE p \in HeldBy(BatchHolders)' <=> \E e \in ExecThreads : p \in Elements(ebatch'[e])
    <3>1. p \in HeldBy(BatchHolders)' <=> \E k \in BatchHolders : p \in Holds(k)'
      BY HeldByElement
    <3>2. (\E k \in BatchHolders : p \in Holds(k)') <=> \E e \in ExecThreads : p \in Elements(ebatch'[e])
      <4>1. ASSUME NEW k \in BatchHolders, p \in Holds(k)' PROVE \E e \in ExecThreads : p \in Elements(ebatch'[e])
        BY <1>2, <4>1, HoldsWhatPrime
      <4>2. ASSUME NEW e \in ExecThreads, p \in Elements(ebatch'[e]) PROVE \E k \in BatchHolders : p \in Holds(k)'
        <5>1. p \in Holds(<<"batch", e>>)'
          BY <4>2, HoldsWhatPrime
        <5> QED
          BY <5>1, HolderGroups
      <4> QED
        BY <4>1, <4>2
    <3> QED
      BY <3>1, <3>2
  <2> QED
    BY <2>1, <2>2
<1> QED
  BY <1>3, <1>4, <1>5, <1>6, <1>7, <1>8

LEMMA HeldByMoved ==
  ASSUME Apart, NEW G \in SUBSET Holders, NEW g, NEW h, NEW ps, Moves(g, h, ps)
  PROVE  /\ g \in G /\ h \notin G => ps \subseteq HeldBy(G) /\ HeldBy(G)' = HeldBy(G) \ ps
         /\ g \notin G /\ h \in G => HeldBy(G)' = HeldBy(G) \cup ps
         /\ (g \in G <=> h \in G) => HeldBy(G)' = HeldBy(G)
<1>1. /\ g \in Holders /\ h \in Holders /\ g # h /\ ps \subseteq Holds(g)
      /\ Holds(g)' = Holds(g) \ ps /\ Holds(h)' = Holds(h) \cup ps
      /\ \A k \in G \ {g, h} : Holds(k)' = Holds(k)
  BY DEF Moves
<1>2. \A k \in Holders \ {g} : Holds(k) \cap ps = {}
  BY <1>1 DEF Apart
<1>3. ASSUME g \in G, h \notin G PROVE ps \subseteq HeldBy(G) /\ HeldBy(G)' = HeldBy(G) \ ps
  BY <1>1, <1>2, <1>3, HeldByElement
<1>4. ASSUME g \notin G, h \in G PROVE HeldBy(G)' = HeldBy(G) \cup ps
  BY <1>1, <1>2, <1>4, HeldByElement
<1>5. ASSUME g \in G <=> h \in G PROVE HeldBy(G)' = HeldBy(G)
  <2>1. ASSUME NEW p PROVE (\E k \in G : p \in Holds(k)') <=> \E k \in G : p \in Holds(k)
    <3>1. CASE g \in G /\ h \in G
      <4>1. ASSUME NEW k \in G, p \in Holds(k) PROVE \E j \in G : p \in Holds(j)'
        BY <1>1, <3>1, <4>1
      <4>2. ASSUME NEW k \in G, p \in Holds(k)' PROVE \E j \in G : p \in Holds(j)
        BY <1>1, <3>1, <4>2
      <4> QED
        BY <4>1, <4>2
    <3>2. CASE g \notin G /\ h \notin G
      BY <1>1, <3>2
    <3> QED
      BY <1>5, <3>1, <3>2
  <2>2. ASSUME NEW p PROVE p \in HeldBy(G)' <=> p \in HeldBy(G)
    BY <2>1, HeldByElement
  <2> QED
    BY <2>2
<1> QED
  BY <1>3, <1>4, <1>5

LEMMA HeldByKept ==
  ASSUME NEW G \in SUBSET Holders, \A k \in G : Holds(k)' = Holds(k)
  PROVE  HeldBy(G)' = HeldBy(G)
  BY HeldByElement
-----------------------------------------------------------------------------
(* The tasks of a set of pointers *)

TaskOf(p) == [id |-> p.id, cls |-> p.cls]

\* Pointers with different ids.
Apiece(ps) == ps \in SUBSET Pointer /\ \A p, q \in ps : p.id = q.id => p = q

LEMMA TasksElement ==
  ASSUME NEW ps, NEW t PROVE t \in AsTasks(ps) <=> \E p \in ps : t = TaskOf(p)
  BY DEF AsTasks, TaskOf

LEMMA TasksRemoved ==
  ASSUME NEW ps, Apiece(ps), NEW p \in ps
  PROVE  TaskOf(p) \in AsTasks(ps) /\ AsTasks(ps \ {p}) = AsTasks(ps) \ {TaskOf(p)}
<1>1. \A q \in ps : TaskOf(q) = TaskOf(p) => q = p
  BY DEF Apiece, TaskOf
<1> QED
  BY <1>1, TasksElement

LEMMA TasksAdded == ASSUME NEW ps, NEW p PROVE AsTasks(ps \cup {p}) = AsTasks(ps) \cup {TaskOf(p)}
  BY TasksElement

LEMMA TasksJoined == ASSUME NEW ps, NEW qs PROVE AsTasks(ps \cup qs) = AsTasks(ps) \cup AsTasks(qs)
  BY TasksElement

\* There are no more tasks than pointers.
LEMMA TasksCounted ==
  ASSUME NEW ps, IsFiniteSet(ps)
  PROVE  IsFiniteSet(AsTasks(ps)) /\ Cardinality(AsTasks(ps)) <= Cardinality(ps)
<1> DEFINE f == [p \in ps |-> TaskOf(p)]
<1>1. f \in Surjection(ps, AsTasks(ps))
  BY TasksElement DEF Surjection
<1> QED
  BY <1>1, FS_Surjection
-----------------------------------------------------------------------------
(* The scheduler's two vectors: what was collected is filtered before it is submitted. *)

VectorsInv ==
  /\ valid # << >> => spc \in {"filter", "increment", "spawn"}
  /\ spc \in {"increment", "spawn"} => held = << >> /\ valid # << >>

LEMMA VectorsStep == TypeOK /\ VectorsInv /\ [Next]_vars => VectorsInv'
<1> SUFFICES ASSUME TypeOK, VectorsInv, [Next]_vars PROVE VectorsInv'
  OBVIOUS
<1>1. CASE Tick \/ Stop \/ UNCHANGED vars \/ MarkDone(Scheduler)
           \/ (\E w \in Workers : Begin(w) \/ EnqueueTask(w) \/ WaitForTask(w) \/ SpuriousWakeup(w))
           \/ (\E e \in ExecThreads : ExecuteBatch(e) \/ Infer(e) \/ Decrement(e))
  <2>1. UNCHANGED <<spc, held, valid>>
    BY <1>1 DEF Tick, Stop, StopClear, StopPost, Begin, EnqueueTask, Accept, Reject, WaitForTask,
       Post, Wait, TimeOut, Wake, Respond, SpuriousWakeup, MarkDone, MarkComplete, MarkSignal,
       ExecuteBatch, ReadInputs, WriteBack, WriteBackEnd, PostSlot, Infer, Decrement
  <2> QED
    BY <2>1 DEF VectorsInv
<1>2. CASE Run
  <2>1. CASE SemWait \/ CleanupExpired \/ Window \/ Sleep \/ CollectBatch
    BY <2>1 DEF VectorsInv, SemWait, CleanupExpired, CleanOne, CleanEnd, Window, Sleep,
                CollectBatch, Take, CollectOne, CollectEnd
  <2>2. CASE SlotTaken \/ SlotWait \/ SlotFree \/ Drop \/ DropEnd
    BY <2>2 DEF VectorsInv, SlotTaken, SlotWait, SlotFree, Drop, DropEnd
  <2>3. CASE FilterBatch
    BY <2>3 DEF VectorsInv, FilterBatch, FilterExpired, FilterValid, FilterEnd
  <2>4. CASE Dispatch
    BY <2>4 DEF VectorsInv, Dispatch, Increment, Spawn, SpawnFailure
  <2> QED
    BY <1>2, <2>1, <2>2, <2>3, <2>4 DEF Run
<1> QED
  BY <1>1, <1>2 DEF Next

\* Only the start and the end of a batch change the number of batches.
LEMMA CountedKept ==
  ASSUME TypeOK, [Next]_vars, ~Spawn, \A e \in ExecThreads : ~Decrement(e)
  PROVE  Counted' = Counted
<1>1. CASE UNCHANGED epc
  BY <1>1 DEF Counted
<1>2. ASSUME NEW e \in ExecThreads, ExecuteBatch(e) \/ Infer(e) PROVE Counted' = Counted
  <2>1. \A f \in ExecThreads : epc'[f] \in {"free", "post"} <=> epc[f] \in {"free", "post"}
    BY <1>2 DEF TypeOK, ExecuteBatch, ReadInputs, WriteBack, WriteBackEnd, PostSlot, MarkDone,
                MarkComplete, MarkSignal, Infer
  <2> QED
    BY <2>1 DEF Counted
<1>3. CASE Tick \/ Stop \/ UNCHANGED vars \/ MarkDone(Scheduler)
           \/ (\E w \in Workers : Begin(w) \/ EnqueueTask(w) \/ WaitForTask(w) \/ SpuriousWakeup(w))
  BY <1>1, <1>3 DEF Tick, Stop, StopClear, StopPost, Begin, EnqueueTask, Accept, Reject,
     WaitForTask, Post, Wait, TimeOut, Wake, Respond, SpuriousWakeup, MarkDone, MarkComplete,
     MarkSignal
<1>4. CASE Run
  <2>1. UNCHANGED epc
    BY <1>4 DEF Run, SemWait, CleanupExpired, CleanOne, CleanEnd, Window, Sleep, CollectBatch, Take,
       CollectOne, CollectEnd, SlotTaken, SlotWait, SlotFree, Drop, DropEnd, FilterBatch,
       FilterExpired, FilterValid, FilterEnd, Dispatch, Increment, SpawnFailure
  <2> QED
    BY <1>1, <2>1
<1> QED
  BY <1>2, <1>3, <1>4 DEF Next
-----------------------------------------------------------------------------
(* The steps of TaskDispatch *)

DispatchInv == TypeOK /\ PlacesInv /\ VectorsInv /\ BatchSlots

\* Pointers of different tasks are different tasks.
LEMMA HeldByApiece ==
  ASSUME DispatchInv, NEW G \in SUBSET Holders PROVE Apiece(HeldBy(G))
<1>1. HeldBy(G) \in SUBSET Pointer
  BY HoldsType DEF HeldBy, DispatchInv
<1>2. ASSUME NEW p \in HeldBy(G), NEW q \in HeldBy(G), p.id = q.id PROVE p = q
  <2>1. PICK g \in G : p \in Holds(g)
    BY HeldByElement
  <2>2. PICK h \in G : q \in Holds(h)
    BY HeldByElement
  <2> QED
    BY <1>2, <2>1, <2>2 DEF DispatchInv, PlacesInv, OnePlace, ById
<1> QED
  BY <1>1, <1>2 DEF Apiece

\* The two modules count alike.
LEMMA SameCardinality == \A S : Dispatched!Cardinality(S) = Cardinality(S)
  BY DEF Dispatched!Cardinality, Cardinality

LEMMA Stutters ==
  ASSUME UNCHANGED nextId, Counted' = Counted, HeldBy(QueueHolders)' = HeldBy(QueueHolders),
         HeldBy(ChosenHolders)' = HeldBy(ChosenHolders), HeldBy(BatchHolders)' = HeldBy(BatchHolders)
  PROVE  UNCHANGED Dispatched!dispatchVars
  BY HeldByWhat DEF Dispatched!dispatchVars

LEMMA AcceptMaps ==
  ASSUME DispatchInv, IdsSuffice, [Next]_vars, NEW w \in Workers, Accept(w)
  PROVE  Dispatched!AcceptTask
<1>1. PICK p \in Pointer : Gains(<<"queue", p.cls>>, p) /\ p.cls \in Classes /\ p.id = nextId
  BY AcceptGains DEF DispatchInv
<1>2. PICK c \in Classes : c = p.cls
  BY <1>1
<1>3. /\ Holds(<<"queue", c>>)' = Holds(<<"queue", c>>) \cup {p}
      /\ \A k \in Holders \ {<<"queue", c>>} : Holds(k)' = Holds(k)
  BY <1>1, <1>2 DEF Gains
<1>4. Queued' = Queued \cup {p}
  <2>1. HeldBy(QueueHolders)' = HeldBy(QueueHolders) \cup {p}
    BY <1>3, HolderGroups, HeldByElement
  <2> QED
    BY <2>1, HeldByWhat
<1>5. HeldBy(ChosenHolders)' = HeldBy(ChosenHolders) /\ HeldBy(BatchHolders)' = HeldBy(BatchHolders)
  <2>1. ASSUME NEW k \in ChosenHolders \cup BatchHolders PROVE Holds(k)' = Holds(k)
    BY <1>3, HolderGroups
  <2> QED
    BY <2>1, HeldByKept, HolderGroups
<1>6. AsTasks(Queued') = AsTasks(Queued) \cup {[id |-> nextId, cls |-> c]}
  BY <1>1, <1>2, <1>4, TasksAdded DEF TaskOf
<1>7. nextId' = nextId + 1 /\ nextId <= IdSpace /\ HasRoom
  <2>1. nextId' = nextId + 1
    BY NextIdGrows DEF DispatchInv, PlacesInv
  <2>2. nextId <= IdSpace
    BY CountersAssumption DEF DispatchInv, TypeOK, Ids
  <2> QED
    BY <2>1, <2>2 DEF Accept
<1>8. MaxQueueSize = 0 \/ Cardinality(AsTasks(Queued)) < MaxQueueSize
  <2>1. IsFiniteSet(Queued) /\ Cardinality(Queued) = PendingCount
    BY QueuedCounted DEF DispatchInv, PlacesInv
  <2>2. /\ Cardinality(AsTasks(Queued)) <= PendingCount
        /\ Cardinality(AsTasks(Queued)) \in Nat /\ PendingCount \in Nat
    BY <2>1, TasksCounted, FS_CardinalityType
  <2> QED
    BY <1>7, <2>2, LimitsAssumption DEF HasRoom
<1>9. Counted' = Counted
  BY DEF Accept, Counted
<1> QED
  <2>1. /\ Elements(held') \cup Elements(valid') = Elements(held) \cup Elements(valid)
        /\ (UNION {Batch(e) : e \in ExecThreads})' = UNION {Batch(e) : e \in ExecThreads}
    BY <1>5, HeldByWhat
  <2>2. c \in 0..2
    BY DEF Classes
  <2> QED
    BY <1>6, <1>7, <1>8, <1>9, <2>1, <2>2, SameCardinality DEF Dispatched!AcceptTask

\* A pointer leaves one of the three groups.
LEMMA TaskLeaves ==
  ASSUME DispatchInv, NEW G \in SUBSET Holders, NEW g \in G, NEW h \in Holders \ G, NEW p,
         Moves(g, h, {p})
  PROVE  /\ TaskOf(p) \in AsTasks(HeldBy(G))
         /\ AsTasks(HeldBy(G)') = AsTasks(HeldBy(G)) \ {TaskOf(p)}
<1>1. p \in HeldBy(G) /\ HeldBy(G)' = HeldBy(G) \ {p}
  BY HeldByMoved DEF DispatchInv, PlacesInv, OnePlace
<1> QED
  BY <1>1, TasksRemoved, HeldByApiece

LEMMA GiveUpMaps ==
  ASSUME DispatchInv, CleanOne \/ Drop \/ FilterExpired PROVE Dispatched!GiveUp
<1>0. Scheduler \in Threads /\ UNCHANGED nextId /\ Counted' = Counted
  BY DEF Threads, CleanOne, Drop, FilterExpired, Counted
<1>1. CASE CleanOne
  <2>0. PICK c \in Classes : \E i \in DOMAIN queue[c] :
          Moves(<<"queue", c>>, <<"mark", Scheduler>>, {queue[c][i]})
    BY <1>1, CleanOneMoves DEF DispatchInv, PlacesInv
  <2>1. PICK i \in DOMAIN queue[c] : Moves(<<"queue", c>>, <<"mark", Scheduler>>, {queue[c][i]})
    BY <2>0
  <2> DEFINE p == queue[c][i]
  <2> HIDE DEF p
  <2>2. Moves(<<"queue", c>>, <<"mark", Scheduler>>, {p})
    BY <2>1 DEF p
  <2>3. /\ TaskOf(p) \in AsTasks(Queued)
        /\ AsTasks(Queued') = AsTasks(Queued) \ {TaskOf(p)}
    BY <1>0, <2>2, TaskLeaves, HolderGroups, HoldersAre, HeldByWhat
  <2>4. /\ HeldBy(ChosenHolders)' = HeldBy(ChosenHolders)
        /\ HeldBy(BatchHolders)' = HeldBy(BatchHolders)
    BY <1>0, <2>2, HeldByMoved, HolderGroups DEF DispatchInv, PlacesInv, OnePlace
  <2> QED
    BY <1>0, <2>3, <2>4, HeldByWhat, SameCardinality DEF Dispatched!GiveUp
<1>2. CASE Drop \/ FilterExpired
  <2> DEFINE p == Head(held)
  <2> HIDE DEF p
  <2>2. Moves(TheHeld, <<"mark", Scheduler>>, {p})
    BY <1>2, GivenUpMoves DEF p, DispatchInv, PlacesInv
  <2>3. /\ TaskOf(p) \in AsTasks(HeldBy(ChosenHolders))
        /\ AsTasks(HeldBy(ChosenHolders)') = AsTasks(HeldBy(ChosenHolders)) \ {TaskOf(p)}
    BY <1>0, <2>2, TaskLeaves, HolderGroups, HoldersAre
  <2>4. /\ HeldBy(QueueHolders)' = HeldBy(QueueHolders)
        /\ HeldBy(BatchHolders)' = HeldBy(BatchHolders)
    BY <1>0, <2>2, HeldByMoved, HolderGroups DEF DispatchInv, PlacesInv, OnePlace
  <2> QED
    BY <1>0, <2>3, <2>4, HeldByWhat, SameCardinality DEF Dispatched!GiveUp
<1> QED
  BY <1>1, <1>2

\* The front of the first queue that is not empty is the most urgent task.
LEMMA FrontIsMostUrgent ==
  ASSUME DispatchInv, NEW c \in Classes, NextClass(c),
         NEW u \in AsTasks(Queued) \ {TaskOf(Head(queue[c]))}
  PROVE  Dispatched!MoreUrgent(TaskOf(Head(queue[c])), u)
<1>1. PICK q \in Queued : u = TaskOf(q)
  BY TasksElement
<1>2. PICK d \in Classes : q \in Elements(queue[d])
  BY DEF Queued
<1>3. /\ queue[c] \in Seq(Pointer) /\ queue[d] \in Seq(Pointer) /\ queue[c] # << >>
      /\ Arrived(queue[c]) /\ c \in 0..2 /\ d \in 0..2
      /\ \A b \in 0..(c - 1) : queue[b] = << >>
  BY DEF DispatchInv, TypeOK, PlacesInv, InOrder, NextClass, Classes
<1>4. Head(queue[c]).cls = c
  <2>1. 1 \in DOMAIN queue[c] /\ Head(queue[c]) = queue[c][1]
    BY <1>3
  <2> QED
    BY <2>1 DEF DispatchInv, PlacesInv, InOrder
<1>5. q.cls = d
  BY <1>2 DEF DispatchInv, PlacesInv, InOrder, Elements
<1>6. d >= c
  <2> SUFFICES ASSUME d < c PROVE FALSE
    BY <1>3
  <2>1. queue[d] = << >>
    BY <1>3
  <2> QED
    BY <1>2, <2>1 DEF Elements
<1>7. CASE d > c
  BY <1>1, <1>4, <1>5, <1>7 DEF Dispatched!MoreUrgent, TaskOf
<1>8. CASE d = c
  <2>1. q # Head(queue[c])
    BY <1>1
  <2>2. q \in Elements(Tail(queue[c]))
    BY <1>2, <1>3, <1>8, <2>1, TailElements
  <2>3. Head(queue[c]).id < q.id
    BY <1>3, <2>2, ArrivedTail
  <2> QED
    BY <1>1, <1>4, <1>5, <1>8, <2>3 DEF Dispatched!MoreUrgent, TaskOf
<1> QED
  BY <1>3, <1>6, <1>7, <1>8

LEMMA ChooseMaps ==
  ASSUME DispatchInv, CollectOne PROVE Dispatched!ChooseTask
<1>0. UNCHANGED nextId /\ Counted' = Counted /\ spc = "collect" /\ Len(held) < MaxBatchSize
  BY DEF CollectOne, Counted
<1>1. PICK c \in Classes : NextClass(c) /\ Moves(<<"queue", c>>, TheHeld, {Head(queue[c])})
  BY CollectOneMoves DEF DispatchInv, PlacesInv
<1> DEFINE p == Head(queue[c])
<1>2. Moves(<<"queue", c>>, TheHeld, {p})
  BY <1>1
<1>3. \A u \in AsTasks(Queued) \ {TaskOf(p)} : Dispatched!MoreUrgent(TaskOf(p), u)
  BY <1>1, FrontIsMostUrgent
<1> HIDE DEF p
<1>4. /\ TaskOf(p) \in AsTasks(Queued)
      /\ AsTasks(Queued') = AsTasks(Queued) \ {TaskOf(p)}
  BY <1>2, TaskLeaves, HolderGroups, HoldersAre, HeldByWhat
<1>5. HeldBy(BatchHolders)' = HeldBy(BatchHolders)
  BY <1>2, HeldByMoved, HolderGroups DEF DispatchInv, PlacesInv, OnePlace
<1>6. AsTasks(HeldBy(ChosenHolders)') = AsTasks(HeldBy(ChosenHolders)) \cup {TaskOf(p)}
  <2>1. HeldBy(ChosenHolders)' = HeldBy(ChosenHolders) \cup {p}
    BY <1>2, HeldByMoved, HolderGroups DEF DispatchInv, PlacesInv, OnePlace
  <2> QED
    BY <2>1, TasksAdded
<1>7. Cardinality(AsTasks(Elements(held) \cup Elements(valid))) < MaxBatchSize
  <2>1. valid = << >>
    BY <1>0 DEF DispatchInv, VectorsInv
  <2>2. Elements(held) \cup Elements(valid) = Elements(held)
    BY <2>1 DEF Elements
  <2>3. IsFiniteSet(Elements(held)) /\ Cardinality(Elements(held)) = Len(held)
    BY DistinctCardinality DEF DispatchInv, PlacesInv, InOrder, TypeOK
  <2>4. /\ Cardinality(AsTasks(Elements(held))) <= Len(held)
        /\ Cardinality(AsTasks(Elements(held))) \in Nat /\ Len(held) \in Nat
    BY <2>3, TasksCounted, FS_CardinalityType
  <2>5. Cardinality(AsTasks(Elements(held))) < MaxBatchSize
    BY <1>0, <2>4, LimitsAssumption
  <2> QED
    BY <2>2, <2>5
<1> QED
  BY <1>0, <1>3, <1>4, <1>5, <1>6, <1>7, HeldByWhat, SameCardinality DEF Dispatched!ChooseTask

LEMMA StartMaps ==
  ASSUME DispatchInv, Spawn PROVE Dispatched!StartBatch
<1>0. UNCHANGED <<nextId, held>> /\ valid' = << >> /\ held = << >> /\ valid # << >>
      /\ spc = "spawn"
  BY DEF Spawn, DispatchInv, VectorsInv
<1>1. PICK e \in ExecThreads : /\ epc[e] = "free" /\ epc' = [epc EXCEPT ![e] = "start"]
                               /\ Moves(TheValid, <<"batch", e>>, Elements(valid))
  BY SpawnMoves DEF DispatchInv, PlacesInv
<1>2. /\ Elements(held) \cup Elements(valid) = Elements(valid)
      /\ Elements(held') \cup Elements(valid') = {}
  BY <1>0 DEF Elements
<1>3. AsTasks(Elements(valid)) # {} /\ AsTasks({}) = {}
  <2>1. valid[1] \in Elements(valid)
    BY <1>0 DEF Elements, DispatchInv, TypeOK
  <2> QED
    BY <2>1, TasksElement
<1>4. HeldBy(QueueHolders)' = HeldBy(QueueHolders)
  BY <1>1, HeldByMoved, HolderGroups DEF DispatchInv, PlacesInv, OnePlace
<1>5. AsTasks(HeldBy(BatchHolders)') = AsTasks(HeldBy(BatchHolders)) \cup AsTasks(Elements(valid))
  <2>1. HeldBy(BatchHolders)' = HeldBy(BatchHolders) \cup Elements(valid)
    BY <1>1, HeldByMoved, HolderGroups DEF DispatchInv, PlacesInv, OnePlace
  <2> QED
    BY <2>1, TasksJoined
<1>6. Cardinality(Counted') = Cardinality(Counted) + 1
  <2>1. Counted' = Counted \cup {e} /\ e \notin Counted
    BY <1>1 DEF Counted, DispatchInv, TypeOK
  <2> QED
    BY <2>1, CountedFinite, FS_AddElement
<1>7. Cardinality(Counted) < MaxConcurrent
  <2>1. Cardinality(Counted) + 1 <= active /\ active <= MaxConcurrent
    BY <1>0 DEF DispatchInv, BatchSlots, HandingOver
  <2> QED
    BY <2>1, CountedFinite, LimitsAssumption DEF DispatchInv, TypeOK
<1> QED
  BY <1>0, <1>2, <1>3, <1>4, <1>5, <1>6, <1>7, HeldByWhat, SameCardinality
  DEF Dispatched!StartBatch

LEMMA FinishMaps ==
  ASSUME DispatchInv, NEW e \in ExecThreads, WriteBack(e) PROVE Dispatched!FinishTask
<1>0. UNCHANGED nextId /\ Counted' = Counted /\ e \in Threads
  BY DEF WriteBack, Counted, Threads
<1> DEFINE p == Head(ebatch[e])
<1> HIDE DEF p
<1>1. Moves(<<"batch", e>>, <<"mark", e>>, {p})
  BY WriteBackMoves DEF p, DispatchInv, PlacesInv
<1>2. /\ TaskOf(p) \in AsTasks(HeldBy(BatchHolders))
      /\ AsTasks(HeldBy(BatchHolders)') = AsTasks(HeldBy(BatchHolders)) \ {TaskOf(p)}
  BY <1>0, <1>1, TaskLeaves, HolderGroups, HoldersAre
<1>3. /\ HeldBy(QueueHolders)' = HeldBy(QueueHolders)
      /\ HeldBy(ChosenHolders)' = HeldBy(ChosenHolders)
  BY <1>0, <1>1, HeldByMoved, HolderGroups DEF DispatchInv, PlacesInv, OnePlace
<1> QED
  BY <1>0, <1>2, <1>3, HeldByWhat, SameCardinality DEF Dispatched!FinishTask

LEMMA EndMaps ==
  ASSUME DispatchInv, NEW e \in ExecThreads, Decrement(e) PROVE Dispatched!EndBatch
<1>1. UNCHANGED <<nextId, queue, held, valid, ebatch, mstage, mptr>>
  BY DEF Decrement
<1>2. \A k \in Holders : Holds(k)' = Holds(k)
  BY <1>1, NothingMoved DEF Keeps
<1>3. /\ HeldBy(QueueHolders)' = HeldBy(QueueHolders)
      /\ HeldBy(ChosenHolders)' = HeldBy(ChosenHolders)
      /\ HeldBy(BatchHolders)' = HeldBy(BatchHolders)
  BY <1>2, HeldByKept, HolderGroups
<1>4. Counted' = Counted \ {e} /\ e \in Counted
  BY DEF Decrement, Counted, DispatchInv, TypeOK
<1>5. Cardinality(Counted') = Cardinality(Counted) - 1
  BY <1>4, CountedFinite, FS_RemoveElement
<1>6. Cardinality(Counted) > 0
  <2>1. Cardinality(Counted) # 0
    BY <1>4, CountedFinite, FS_EmptySet
  <2> QED
    BY <2>1, CountedFinite
<1> QED
  BY <1>1, <1>3, <1>5, <1>6, HeldByWhat, SameCardinality DEF Dispatched!EndBatch

LEMMA NothingMaps ==
  ASSUME Keeps, UNCHANGED nextId, Counted' = Counted PROVE UNCHANGED Dispatched!dispatchVars
<1>1. \A k \in Holders : Holds(k)' = Holds(k)
  BY DEF Keeps
<1>2. /\ HeldBy(QueueHolders)' = HeldBy(QueueHolders)
      /\ HeldBy(ChosenHolders)' = HeldBy(ChosenHolders)
      /\ HeldBy(BatchHolders)' = HeldBy(BatchHolders)
  BY <1>1, HeldByKept, HolderGroups
<1> QED
  BY <1>2, Stutters

LEMMA DispatchStep ==
  ASSUME DispatchInv, IdsSuffice, ~SpawnMayFail, [Next]_vars
  PROVE  [Dispatched!DispatchNext]_(Dispatched!dispatchVars)
<1> DEFINE Goal == Dispatched!DispatchNext \/ UNCHANGED Dispatched!dispatchVars
<1>k. ASSUME UNCHANGED <<nextId, queue, held, valid, ebatch, mstage, mptr>>,
             Counted' = Counted
      PROVE  Goal
  BY <1>k, NothingMoved, NothingMaps
<1>1. CASE Tick \/ Stop \/ UNCHANGED vars
  <2>1. UNCHANGED <<nextId, queue, held, valid, ebatch, mstage, mptr, epc>>
    BY <1>1 DEF Tick, Stop, StopClear, StopPost
  <2> QED
    BY <2>1, <1>k DEF Counted
<1>2. ASSUME NEW w \in Workers,
             Begin(w) \/ EnqueueTask(w) \/ WaitForTask(w) \/ SpuriousWakeup(w)
      PROVE  Goal
  <2>1. CASE Accept(w)
    BY <2>1, AcceptMaps DEF Dispatched!DispatchNext
  <2>2. CASE ~Accept(w)
    <3>1. UNCHANGED <<nextId, queue, held, valid, ebatch, mstage, mptr, epc>>
      BY <1>2, <2>2 DEF Begin, EnqueueTask, Reject, WaitForTask, Post, Wait, TimeOut, Wake,
                        Respond, SpuriousWakeup
    <3> QED
      BY <3>1, <1>k DEF Counted
  <2> QED
    BY <2>1, <2>2
<1>3. CASE Run
  <2>1. CASE CleanOne \/ Drop \/ FilterExpired
    BY <2>1, GiveUpMaps DEF Dispatched!DispatchNext
  <2>2. CASE CollectOne
    BY <2>2, ChooseMaps DEF Dispatched!DispatchNext
  <2>3. CASE Spawn
    BY <2>3, StartMaps DEF Dispatched!DispatchNext
  <2>4. CASE FilterValid
    <3>1. UNCHANGED nextId /\ Counted' = Counted
      BY <2>4 DEF FilterValid, Counted
    <3>2. Moves(TheHeld, TheValid, {Head(held)})
      BY <2>4, FilterValidMoves DEF DispatchInv, PlacesInv
    <3>3. /\ HeldBy(QueueHolders)' = HeldBy(QueueHolders)
          /\ HeldBy(ChosenHolders)' = HeldBy(ChosenHolders)
          /\ HeldBy(BatchHolders)' = HeldBy(BatchHolders)
      BY <3>2, HeldByMoved, HolderGroups DEF DispatchInv, PlacesInv, OnePlace
    <3> QED
      BY <3>1, <3>3, Stutters
  <2>5. CASE ~(CleanOne \/ Drop \/ FilterExpired \/ CollectOne \/ Spawn \/ FilterValid)
    <3>1. UNCHANGED <<nextId, queue, held, valid, ebatch, mstage, mptr, epc>>
      BY <1>3, <2>5 DEF Run, SemWait, CleanupExpired, CleanEnd, Window, Sleep, CollectBatch, Take,
         CollectEnd, SlotTaken, SlotWait, SlotFree, DropEnd, FilterBatch, FilterEnd, Dispatch,
         Increment, SpawnFailure
    <3> QED
      BY <3>1, <1>k DEF Counted
  <2> QED
    BY <2>1, <2>2, <2>3, <2>4, <2>5
<1>4. ASSUME NEW t \in Threads, MarkDone(t) PROVE Goal
  <2>1. UNCHANGED <<nextId, epc>>
    BY <1>4 DEF MarkDone, MarkComplete, MarkSignal
  <2>2. Counted' = Counted
    BY <2>1 DEF Counted
  <2>3. CASE Keeps
    BY <2>1, <2>2, <2>3, NothingMaps
  <2>4. CASE Loses(<<"mark", t>>)
    <3>1. \A k \in QueueHolders \cup ChosenHolders \cup BatchHolders : Holds(k)' = Holds(k)
      BY <2>4, HolderGroups DEF Loses
    <3>2. /\ HeldBy(QueueHolders)' = HeldBy(QueueHolders)
          /\ HeldBy(ChosenHolders)' = HeldBy(ChosenHolders)
          /\ HeldBy(BatchHolders)' = HeldBy(BatchHolders)
      BY <3>1, HeldByKept, HolderGroups
    <3> QED
      BY <2>1, <2>2, <3>2, Stutters
  <2> QED
    BY <1>4, <2>3, <2>4, MarkDoneMoves DEF DispatchInv
<1>5. ASSUME NEW e \in ExecThreads, ExecuteBatch(e) \/ Infer(e) \/ Decrement(e) PROVE Goal
  <2>1. CASE WriteBack(e)
    BY <2>1, FinishMaps DEF Dispatched!DispatchNext
  <2>2. CASE Decrement(e)
    BY <2>2, EndMaps DEF Dispatched!DispatchNext
  <2>3. CASE MarkDone(e)
    BY <1>4, <2>3 DEF Threads
  <2>4. CASE ReadInputs(e) \/ WriteBackEnd(e) \/ PostSlot(e) \/ Infer(e)
    <3>1. UNCHANGED <<nextId, queue, held, valid, ebatch, mstage, mptr>>
      BY <2>4 DEF ReadInputs, WriteBackEnd, PostSlot, Infer
    <3>2. \A f \in ExecThreads : epc'[f] \in {"free", "post"} <=> epc[f] \in {"free", "post"}
      BY <2>4 DEF DispatchInv, TypeOK, ReadInputs, WriteBackEnd, PostSlot, Infer
    <3>3. Counted' = Counted
      BY <3>2 DEF Counted
    <3> QED
      BY <3>1, <3>3, <1>k
  <2> QED
    BY <1>5, <2>1, <2>2, <2>3, <2>4 DEF ExecuteBatch
<1> QED
  BY <1>1, <1>2, <1>3, <1>4, <1>5 DEF Next, Threads

LEMMA DispatchStart == Init => Dispatched!DispatchInit
<1> SUFFICES ASSUME Init PROVE Dispatched!DispatchInit
  OBVIOUS
<1>1. Queued = {} /\ Elements(held) \cup Elements(valid) = {}
  BY DEF Init, Queued, Elements
<1>2. UNION {Batch(e) : e \in ExecThreads} = {} /\ Counted = {}
  BY DEF Init, Batch, Elements, Counted
<1>3. AsTasks({}) = {} /\ Cardinality({}) = 0
  BY TasksElement, FS_EmptySet
<1> QED
  BY <1>1, <1>2, <1>3, SameCardinality DEF Init, Dispatched!DispatchInit

\* The scheduler dispatches every accepted task at most once, the most urgent class first and in
\* order of arrival within it, in batches within both limits, and gives none up once it runs, for
\* every number of workers and batches: run, collect_batch, cleanup_expired, enqueue and
\* execute_batch together.  A failed pthread_create would lose a batch it has already counted.
THEOREM SchedulerDispatches ==
  ASSUME IdsSuffice, ~SpawnMayFail PROVE Spec => ImplementsDispatch
<1>1. Init => VectorsInv
  BY DEF Init, VectorsInv
<1>2. Spec => []VectorsInv
  BY <1>1, VectorsStep, TypeCorrect, PTL DEF Spec
<1>3. TypeOK /\ PlacesInv /\ VectorsInv /\ BatchSlots /\ [Next]_vars
        => [Dispatched!DispatchNext]_(Dispatched!dispatchVars)
  BY DispatchStep DEF DispatchInv
<1> QED
  BY <1>2, <1>3, DispatchStart, TypeCorrect, PlacesInvariant, SlotsInvariant, PTL
  DEF Spec, ImplementsDispatch, Dispatched!DispatchSpec
=============================================================================

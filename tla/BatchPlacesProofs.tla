-------------------------- MODULE BatchPlacesProofs --------------------------
(* Where the pointers of BatchScheduler are: each in one place, which it leaves once. *)
(* The ids that tell them apart are told apart themselves only while next_task_id_    *)
(* has not wrapped (2^64 tasks), which is the hypothesis of these theorems.           *)
EXTENDS BatchSchedulerProofs

USE DEF vars, clientVars, schedVars, execVars, markVars, queueVars

IdsSuffice == MaxTasks # 0 /\ MaxTasks < IdSpace

-----------------------------------------------------------------------------
(* Sequences without repetitions, and queues in order of arrival *)

Distinct(s) == \A i, j \in DOMAIN s : s[i] = s[j] => i = j
Arrived(s)  == \A i, j \in DOMAIN s : i < j => s[i].id < s[j].id

LEMMA DistinctTail ==
  ASSUME NEW S, NEW s \in Seq(S), s # << >>, Distinct(s)
  PROVE  /\ Distinct(Tail(s))
         /\ Elements(Tail(s)) = Elements(s) \ {Head(s)}
         /\ Head(s) \in Elements(s)
<1>1. /\ Len(s) \in Nat \ {0} /\ DOMAIN s = 1..Len(s) /\ DOMAIN Tail(s) = 1..(Len(s) - 1)
      /\ \A k \in 1..(Len(s) - 1) : Tail(s)[k] = s[k + 1]
  OBVIOUS
<1>2. Distinct(Tail(s))
  BY <1>1 DEF Distinct
<1>3. Elements(s) = {Head(s)} \cup Elements(Tail(s))
  BY TailElements
<1>4. Head(s) \notin Elements(Tail(s))
  <2> SUFFICES ASSUME NEW k \in 1..(Len(s) - 1), s[k + 1] = s[1] PROVE FALSE
    BY <1>1 DEF Elements
  <2>1. k + 1 \in DOMAIN s /\ 1 \in DOMAIN s /\ k + 1 # 1
    BY <1>1
  <2> QED
    BY <2>1 DEF Distinct
<1> QED
  BY <1>2, <1>3, <1>4

LEMMA DistinctAppend ==
  ASSUME NEW S, NEW s \in Seq(S), NEW p \in S, Distinct(s), p \notin Elements(s)
  PROVE  Distinct(Append(s, p))
<1>1. /\ Len(s) \in Nat /\ DOMAIN s = 1..Len(s) /\ DOMAIN Append(s, p) = 1..(Len(s) + 1)
      /\ \A k \in 1..Len(s) : Append(s, p)[k] = s[k]
      /\ Append(s, p)[Len(s) + 1] = p
  OBVIOUS
<1>2. \A k \in 1..Len(s) : s[k] # p
  BY <1>1 DEF Elements
<1> QED
  BY <1>1, <1>2 DEF Distinct

LEMMA DistinctRemoveAt ==
  ASSUME NEW S, NEW s \in Seq(S), NEW i \in DOMAIN s, Distinct(s)
  PROVE  /\ Elements(RemoveAt(s, i)) = Elements(s) \ {s[i]}
         /\ s[i] \in Elements(s)
<1>1. /\ Len(s) \in Nat /\ DOMAIN s = 1..Len(s) /\ i \in 1..Len(s)
      /\ DOMAIN RemoveAt(s, i) = 1..(Len(s) - 1)
      /\ \A k \in 1..(Len(s) - 1) : RemoveAt(s, i)[k] = IF k < i THEN s[k] ELSE s[k + 1]
  BY DEF RemoveAt
<1>2. Elements(s) \subseteq {s[i]} \cup Elements(RemoveAt(s, i)) /\ s[i] \in Elements(s)
  BY RemoveAtElements DEF Elements
<1>3. ASSUME NEW k \in 1..(Len(s) - 1)
      PROVE  RemoveAt(s, i)[k] \in Elements(s) /\ RemoveAt(s, i)[k] # s[i]
  <2>1. CASE k < i
    BY <1>1, <2>1 DEF Elements, Distinct
  <2>2. CASE k >= i
    <3>1. k + 1 \in DOMAIN s /\ k + 1 # i /\ RemoveAt(s, i)[k] = s[k + 1]
      BY <1>1, <2>2
    <3> QED
      BY <3>1 DEF Elements, Distinct
  <2> QED
    BY <1>1, <2>1, <2>2
<1> QED
  BY <1>1, <1>2, <1>3 DEF Elements

\* A sequence without repetitions is as long as it has elements.
LEMMA DistinctCardinality ==
  ASSUME NEW S, NEW s \in Seq(S), Distinct(s)
  PROVE  IsFiniteSet(Elements(s)) /\ Cardinality(Elements(s)) = Len(s)
<1>1. Len(s) \in Nat /\ DOMAIN s = 1..Len(s)
  OBVIOUS
<1>2. IsFiniteSet(1..Len(s)) /\ Cardinality(1..Len(s)) = Len(s)
  BY <1>1, FS_Interval
<1>3. s \in Bijection(1..Len(s), Elements(s))
  BY <1>1 DEF Distinct, Elements, Bijection, Injection, Surjection, IsInjective
<1> QED
  BY <1>2, <1>3, FS_Bijection DEF ExistsBijection

LEMMA ArrivedDistinct ==
  ASSUME NEW s \in Seq(Pointer), Arrived(s) PROVE Distinct(s)
<1> SUFFICES ASSUME NEW i \in DOMAIN s, NEW j \in DOMAIN s, s[i] = s[j], i < j PROVE FALSE
  BY DEF Distinct
<1>1. s[i].id < s[j].id
  BY DEF Arrived
<1>2. s[i] \in Pointer
  OBVIOUS
<1>3. s[i].id \in Int
  BY <1>2, CountersAssumption DEF Pointer, Ids
<1> QED
  BY <1>1, <1>3

LEMMA ArrivedTail ==
  ASSUME NEW s \in Seq(Pointer), s # << >>, Arrived(s)
  PROVE  Arrived(Tail(s)) /\ \A p \in Elements(Tail(s)) : Head(s).id < p.id
<1>1. /\ Len(s) \in Nat \ {0} /\ DOMAIN s = 1..Len(s) /\ DOMAIN Tail(s) = 1..(Len(s) - 1)
      /\ \A k \in 1..(Len(s) - 1) : Tail(s)[k] = s[k + 1]
  OBVIOUS
<1>2. Arrived(Tail(s))
  BY <1>1 DEF Arrived
<1>3. ASSUME NEW k \in 1..(Len(s) - 1) PROVE Head(s).id < Tail(s)[k].id
  <2>1. k + 1 \in DOMAIN s /\ 1 \in DOMAIN s /\ 1 < k + 1
    BY <1>1
  <2> QED
    BY <1>1, <2>1 DEF Arrived
<1> QED
  BY <1>1, <1>2, <1>3 DEF Elements

LEMMA ArrivedAppend ==
  ASSUME NEW s \in Seq(Pointer), NEW p \in Pointer, Arrived(s), \A q \in Elements(s) : q.id < p.id
  PROVE  Arrived(Append(s, p))
<1>1. /\ Len(s) \in Nat /\ DOMAIN s = 1..Len(s) /\ DOMAIN Append(s, p) = 1..(Len(s) + 1)
      /\ \A k \in 1..Len(s) : Append(s, p)[k] = s[k]
      /\ Append(s, p)[Len(s) + 1] = p
  OBVIOUS
<1>2. \A k \in 1..Len(s) : s[k].id < p.id
  BY <1>1 DEF Elements
<1> QED
  BY <1>1, <1>2 DEF Arrived

LEMMA ArrivedRemoveAt ==
  ASSUME NEW s \in Seq(Pointer), NEW i \in DOMAIN s, Arrived(s)
  PROVE  Arrived(RemoveAt(s, i))
<1>1. /\ Len(s) \in Nat /\ DOMAIN s = 1..Len(s) /\ i \in 1..Len(s)
      /\ DOMAIN RemoveAt(s, i) = 1..(Len(s) - 1)
      /\ \A k \in 1..(Len(s) - 1) : RemoveAt(s, i)[k] = s[IF k < i THEN k ELSE k + 1]
  BY DEF RemoveAt
<1> SUFFICES ASSUME NEW j \in 1..(Len(s) - 1), NEW k \in 1..(Len(s) - 1), j < k
             PROVE  RemoveAt(s, i)[j].id < RemoveAt(s, i)[k].id
  BY <1>1 DEF Arrived
<1> DEFINE a == IF j < i THEN j ELSE j + 1
           b == IF k < i THEN k ELSE k + 1
<1>2. a \in DOMAIN s /\ b \in DOMAIN s /\ a < b
  BY <1>1
<1>3. RemoveAt(s, i)[j] = s[a] /\ RemoveAt(s, i)[k] = s[b]
  BY <1>1
<1> QED
  BY <1>2, <1>3 DEF Arrived
-----------------------------------------------------------------------------
(* The ids *)

Enqueuing == {v \in Workers : wpc[v] = "enqueue"}

\* Every request that is about to enqueue has an id left.
IdsLeft == nextId + Cardinality(Enqueuing) <= MaxTasks + 1

LEMMA EnqueuingFinite == IsFiniteSet(Enqueuing) /\ Cardinality(Enqueuing) \in Nat
<1>1. IsFiniteSet(Workers) /\ Enqueuing \subseteq Workers
  BY ThreadsAssumption DEF Enqueuing
<1> QED
  BY <1>1, FS_Subset, FS_CardinalityType, Zenon

LEMMA IdsLeftInit == IdsSuffice /\ Init => IdsLeft
<1> SUFFICES ASSUME IdsSuffice, Init PROVE IdsLeft
  OBVIOUS
<1>1. Enqueuing = {}
  BY DEF Init, Enqueuing
<1>2. Cardinality(Enqueuing) = 0
  BY <1>1, FS_EmptySet
<1> QED
  BY <1>2, CountersAssumption DEF Init, IdsLeft, IdsSuffice

\* The id of the task a worker enqueues is not the last one.
LEMMA NextIdGrows ==
  ASSUME TypeOK, IdsSuffice, IdsLeft, NEW w \in Workers, Accept(w)
  PROVE  nextId' = nextId + 1
<1>1. w \in Enqueuing
  BY DEF Accept, Enqueuing
<1>2. Cardinality(Enqueuing) # 0
  BY <1>1, EnqueuingFinite, FS_EmptySet
<1>3. nextId <= MaxTasks /\ MaxTasks < IdSpace /\ nextId \in Nat
  BY <1>2, EnqueuingFinite, CountersAssumption DEF IdsLeft, IdsSuffice, TypeOK, Ids
<1>4. nextId # IdSpace
  BY <1>3, CountersAssumption
<1> QED
  BY <1>4 DEF Accept

LEMMA IdsLeftStep == TypeOK /\ IdsSuffice /\ IdsLeft /\ [Next]_vars => IdsLeft'
<1> SUFFICES ASSUME TypeOK, IdsSuffice, IdsLeft, [Next]_vars PROVE IdsLeft'
  OBVIOUS
<1>0. /\ nextId \in Nat /\ Cardinality(Enqueuing) \in Nat /\ MaxTasks \in Nat
      /\ IsFiniteSet(Enqueuing) /\ nextId + Cardinality(Enqueuing) <= MaxTasks + 1
  BY EnqueuingFinite, CountersAssumption DEF TypeOK, Ids, IdsLeft
<1>1. ASSUME NEW w \in Workers, Begin(w) PROVE IdsLeft'
  <2>1. Enqueuing' = Enqueuing \cup {w} /\ w \notin Enqueuing /\ nextId' = nextId
    BY <1>1 DEF Begin, Enqueuing, TypeOK
  <2>2. Cardinality(Enqueuing') = Cardinality(Enqueuing) + 1
    BY <1>0, <2>1, FS_AddElement
  <2>3. nextId + Cardinality(Enqueuing) <= MaxTasks
    BY <1>1 DEF Begin, Enqueuing, IdsSuffice
  <2> QED
    BY <1>0, <2>1, <2>2, <2>3 DEF IdsLeft
<1>2. ASSUME NEW w \in Workers, Accept(w) \/ Reject(w) PROVE IdsLeft'
  <2>1. Enqueuing' = Enqueuing \ {w} /\ w \in Enqueuing
    BY <1>2 DEF Accept, Reject, Enqueuing, TypeOK
  <2>2. Cardinality(Enqueuing') = Cardinality(Enqueuing) - 1
    BY <1>0, <2>1, FS_RemoveElement
  <2>3. nextId' \in {nextId, nextId + 1}
    BY <1>2, NextIdGrows DEF Reject
  <2> QED
    BY <1>0, <2>2, <2>3 DEF IdsLeft
<1>3. CASE \A w \in Workers : ~Begin(w) /\ ~Accept(w) /\ ~Reject(w)
  <2>1. nextId' = nextId /\ \A v \in Workers : wpc'[v] = "enqueue" <=> wpc[v] = "enqueue"
    <3> USE <1>3 DEF TypeOK
    <3>1. CASE Tick \/ Stop \/ UNCHANGED vars
      BY <3>1 DEF Tick, Stop, StopClear, StopPost
    <3>2. ASSUME NEW v \in Workers, EnqueueTask(v) \/ WaitForTask(v) \/ SpuriousWakeup(v)
          PROVE  nextId' = nextId /\ \A u \in Workers : wpc'[u] = "enqueue" <=> wpc[u] = "enqueue"
      BY <3>2 DEF EnqueueTask, WaitForTask, Post, Wait, TimeOut, Wake, Respond, SpuriousWakeup,
                  AfterLook
    <3>3. CASE Run
      <4>1. UNCHANGED <<nextId, wpc>>
        BY <3>3 DEF Run, SemWait, CleanupExpired, CleanOne, CleanEnd, Window, Sleep, CollectBatch,
           Take, CollectOne, CollectEnd, SlotTaken, SlotWait, SlotFree, Drop, DropEnd, FilterBatch,
           FilterExpired, FilterValid, FilterEnd, Dispatch, Increment, Spawn, SpawnFailure
      <4> QED
        BY <4>1
    <3>4. ASSUME NEW t \in Threads, MarkDone(t)
          PROVE  nextId' = nextId /\ \A u \in Workers : wpc'[u] = "enqueue" <=> wpc[u] = "enqueue"
      BY <3>4 DEF MarkDone, MarkComplete, MarkSignal
    <3>5. ASSUME NEW e \in ExecThreads, ExecuteBatch(e) \/ Infer(e) \/ Decrement(e)
          PROVE  nextId' = nextId /\ \A u \in Workers : wpc'[u] = "enqueue" <=> wpc[u] = "enqueue"
      BY <3>4, <3>5 DEF ExecuteBatch, ReadInputs, WriteBack, WriteBackEnd, PostSlot, Infer,
                        Decrement, Threads
    <3> QED
      BY <3>1, <3>2, <3>3, <3>4, <3>5 DEF Next, Threads
  <2>2. Enqueuing' = Enqueuing
    BY <2>1 DEF Enqueuing
  <2> QED
    BY <1>0, <2>1, <2>2 DEF IdsLeft
<1> QED
  BY <1>1, <1>2, <1>3
-----------------------------------------------------------------------------
(* The holders of pointers, and what a step moves from one to another *)

Holders == ({"queue"} \X Classes) \cup ({"held", "valid"} \X {0})
             \cup ({"batch"} \X ExecThreads) \cup ({"mark"} \X Threads)

Holds(h) ==
  CASE h[1] = "queue" -> Elements(queue[h[2]])
    [] h[1] = "held"  -> Elements(held)
    [] h[1] = "valid" -> Elements(valid)
    [] h[1] = "batch" -> Batch(h[2])
    [] h[1] = "mark"  -> Marking(h[2])

TheHeld  == <<"held", 0>>
TheValid == <<"valid", 0>>

LEMMA HoldersAre ==
  /\ \A c \in Classes : <<"queue", c>> \in Holders
  /\ TheHeld \in Holders /\ TheValid \in Holders
  /\ \A e \in ExecThreads : <<"batch", e>> \in Holders
  /\ \A t \in Threads : <<"mark", t>> \in Holders
  BY DEF Holders, TheHeld, TheValid

LEMMA HolderCases ==
  ASSUME NEW h \in Holders
  PROVE  \/ \E c \in Classes : h = <<"queue", c>>
         \/ h = TheHeld \/ h = TheValid
         \/ \E e \in ExecThreads : h = <<"batch", e>>
         \/ \E t \in Threads : h = <<"mark", t>>
  BY DEF Holders, TheHeld, TheValid

LEMMA HoldsWhat ==
  /\ \A c \in Classes : Holds(<<"queue", c>>) = Elements(queue[c])
  /\ Holds(TheHeld) = Elements(held) /\ Holds(TheValid) = Elements(valid)
  /\ \A e \in ExecThreads : Holds(<<"batch", e>>) = Elements(ebatch[e])
  /\ \A t \in Threads : Holds(<<"mark", t>>) = Marking(t)
  BY DEF Holds, TheHeld, TheValid, Batch

LEMMA HoldsWhatPrime ==
  /\ \A c \in Classes : Holds(<<"queue", c>>)' = Elements(queue'[c])
  /\ Holds(TheHeld)' = Elements(held') /\ Holds(TheValid)' = Elements(valid')
  /\ \A e \in ExecThreads : Holds(<<"batch", e>>)' = Elements(ebatch'[e])
  /\ \A t \in Threads : Holds(<<"mark", t>>)' = IF mstage'[t] = "none" THEN {} ELSE {mptr'[t]}
  BY DEF Holds, TheHeld, TheValid, Batch, Marking, Elements

\* Holders whose container is left alone keep what they hold.
LEMMA OthersKeep ==
  ASSUME NEW g, NEW h,
         \A c \in Classes : <<"queue", c>> \notin {g, h} => Elements(queue'[c]) = Elements(queue[c]),
         TheHeld \notin {g, h} => Elements(held') = Elements(held),
         TheValid \notin {g, h} => Elements(valid') = Elements(valid),
         \A e \in ExecThreads : <<"batch", e>> \notin {g, h} => Elements(ebatch'[e]) = Elements(ebatch[e]),
         \A t \in Threads : <<"mark", t>> \notin {g, h} =>
                              mstage'[t] = mstage[t] /\ mptr'[t] = mptr[t]
  PROVE  \A k \in Holders \ {g, h} : Holds(k)' = Holds(k)
<1> SUFFICES ASSUME NEW k \in Holders, k \notin {g, h} PROVE Holds(k)' = Holds(k)
  OBVIOUS
<1>1. ASSUME NEW c \in Classes, k = <<"queue", c>> PROVE Holds(k)' = Holds(k)
  BY <1>1, HoldsWhat, HoldsWhatPrime
<1>2. CASE k = TheHeld
  BY <1>2, HoldsWhat, HoldsWhatPrime
<1>3. CASE k = TheValid
  BY <1>3, HoldsWhat, HoldsWhatPrime
<1>4. ASSUME NEW e \in ExecThreads, k = <<"batch", e>> PROVE Holds(k)' = Holds(k)
  BY <1>4, HoldsWhat, HoldsWhatPrime
<1>5. ASSUME NEW t \in Threads, k = <<"mark", t>> PROVE Holds(k)' = Holds(k)
  BY <1>5, HoldsWhat, HoldsWhatPrime DEF Marking
<1> QED
  BY <1>1, <1>2, <1>3, <1>4, <1>5, HolderCases

\* The step moves the pointers ps from g to h; h loses what it holds; h gets a new pointer.
Moves(g, h, ps) ==
  /\ g \in Holders /\ h \in Holders /\ g # h
  /\ ps \subseteq Holds(g)
  /\ Holds(g)' = Holds(g) \ ps
  /\ Holds(h)' = Holds(h) \cup ps
  /\ \A k \in Holders \ {g, h} : Holds(k)' = Holds(k)

Loses(h) ==
  /\ h \in Holders
  /\ Holds(h)' = {}
  /\ \A k \in Holders \ {h} : Holds(k)' = Holds(k)

Gains(h, p) ==
  /\ h \in Holders
  /\ Holds(h)' = Holds(h) \cup {p}
  /\ \A k \in Holders \ {h} : Holds(k)' = Holds(k)

Keeps == \A k \in Holders : Holds(k)' = Holds(k)

\* No sequence holds a pointer twice, and the queues hold theirs in order of arrival.
InOrder ==
  /\ \A c \in Classes : Arrived(queue[c]) /\ \A i \in DOMAIN queue[c] : queue[c][i].cls = c
  /\ Distinct(held) /\ Distinct(valid)
  /\ \A e \in ExecThreads : Distinct(ebatch[e])

LEMMA AcceptGains ==
  ASSUME TypeOK, NEW w \in Workers, Accept(w)
  PROVE  \E p \in Pointer : /\ Gains(<<"queue", p.cls>>, p) /\ p.cls \in Classes
                            /\ p.addr = w /\ p.id = nextId
                            /\ queue' = [queue EXCEPT ![p.cls] = Append(@, p)]
<1>0. PICK c \in Classes : c = ClassOf(task[w].priority)
  BY DEF ClassOf, Classes
<1>p. PICK p \in Pointer : p = [addr |-> w, id |-> nextId, cls |-> c]
  BY DEF Pointer, TypeOK
<1>1. /\ p.addr = w /\ p.id = nextId /\ p.cls = c
      /\ queue' = [queue EXCEPT ![c] = Append(@, p)]
      /\ UNCHANGED <<held, valid, ebatch, mstage, mptr>>
  BY <1>0, <1>p DEF Accept
<1>2. Elements(queue'[c]) = Elements(queue[c]) \cup {p} /\ \A d \in Classes \ {c} : queue'[d] = queue[d]
  BY <1>1, AppendElements DEF TypeOK
<1>3. Holds(<<"queue", c>>)' = Holds(<<"queue", c>>) \cup {p}
  BY <1>1, <1>2, HoldsWhat, HoldsWhatPrime
<1>4. \A k \in Holders \ {<<"queue", c>>, <<"queue", c>>} : Holds(k)' = Holds(k)
  BY <1>1, <1>2, OthersKeep DEF TheHeld, TheValid
<1>5. Gains(<<"queue", c>>, p)
  BY <1>1, <1>3, <1>4, HoldersAre DEF Gains
<1> QED
  BY <1>1, <1>5

\* An idle thread that calls mark_done holds the pointer it calls it with.
LEMMA CallHolds ==
  ASSUME TypeOK, NEW t \in Threads, NEW p \in Pointer, Idle(t), CallMarkDone(t, p)
  PROVE  /\ Holds(<<"mark", t>>) = {} /\ Holds(<<"mark", t>>)' = {p}
         /\ \A u \in Threads \ {t} : mstage'[u] = mstage[u] /\ mptr'[u] = mptr[u]
  BY HoldsWhat, HoldsWhatPrime DEF Idle, CallMarkDone, TypeOK, Marking

LEMMA CleanOneMoves ==
  ASSUME TypeOK, InOrder, CleanOne
  PROVE  \E c \in Classes : \E i \in DOMAIN queue[c] :
           /\ queue' = [queue EXCEPT ![c] = RemoveAt(@, i)]
           /\ Moves(<<"queue", c>>, <<"mark", Scheduler>>, {queue[c][i]})
<1>1. PICK c \in Classes : \E i \in DOMAIN queue[c] :
        queue' = [queue EXCEPT ![c] = RemoveAt(@, i)] /\ Expire(queue[c][i])
  BY DEF CleanOne
<1>2. PICK i \in DOMAIN queue[c] :
        queue' = [queue EXCEPT ![c] = RemoveAt(@, i)] /\ Expire(queue[c][i])
  BY <1>1
<1> DEFINE p == queue[c][i]
<1>3. /\ p \in Pointer /\ Idle(Scheduler) /\ CallMarkDone(Scheduler, p) /\ Scheduler \in Threads
      /\ UNCHANGED <<held, valid, ebatch>>
  BY <1>2 DEF TypeOK, CleanOne, Expire, Threads
<1>4. /\ Elements(queue'[c]) = Elements(queue[c]) \ {p} /\ p \in Elements(queue[c])
      /\ \A b \in Classes \ {c} : queue'[b] = queue[b]
  BY <1>2, DistinctRemoveAt, ArrivedDistinct DEF TypeOK, InOrder
<1> HIDE DEF p
<1>5. \A k \in Holders \ {<<"queue", c>>, <<"mark", Scheduler>>} : Holds(k)' = Holds(k)
  BY <1>3, <1>4, OthersKeep, CallHolds DEF TheHeld, TheValid
<1>6. Moves(<<"queue", c>>, <<"mark", Scheduler>>, {p})
  BY <1>3, <1>4, <1>5, HoldersAre, HoldsWhat, HoldsWhatPrime, CallHolds DEF Moves
<1> QED
  BY <1>2, <1>6 DEF p

LEMMA CollectOneMoves ==
  ASSUME TypeOK, InOrder, CollectOne
  PROVE  \E c \in Classes :
           /\ NextClass(c) /\ Head(queue[c]) \in Pointer
           /\ held' = Append(held, Head(queue[c]))
           /\ queue' = [queue EXCEPT ![c] = Tail(@)]
           /\ Moves(<<"queue", c>>, TheHeld, {Head(queue[c])})
<1>1. PICK c \in Classes : /\ NextClass(c) /\ queue[c] # << >>
                           /\ held' = Append(held, Head(queue[c]))
                           /\ queue' = [queue EXCEPT ![c] = Tail(@)]
                           /\ UNCHANGED <<valid, ebatch, mstage, mptr>>
  BY DEF CollectOne, NextClass, Popped
<1> DEFINE p == Head(queue[c])
<1>2. p \in Pointer
  BY <1>1 DEF TypeOK
<1>3. /\ Elements(queue'[c]) = Elements(queue[c]) \ {p} /\ p \in Elements(queue[c])
      /\ \A b \in Classes \ {c} : queue'[b] = queue[b]
  BY <1>1, DistinctTail, ArrivedDistinct DEF TypeOK, InOrder
<1>4. Elements(held') = Elements(held) \cup {p}
  BY <1>1, <1>2, AppendElements DEF TypeOK
<1> HIDE DEF p
<1>5. \A k \in Holders \ {<<"queue", c>>, TheHeld} : Holds(k)' = Holds(k)
  BY <1>1, <1>3, OthersKeep DEF TheHeld, TheValid
<1>6. Moves(<<"queue", c>>, TheHeld, {p})
  <2>1. <<"queue", c>> # TheHeld
    BY DEF TheHeld
  <2> QED
    BY <2>1, <1>3, <1>4, <1>5, HoldersAre, HoldsWhat, HoldsWhatPrime DEF Moves
<1> QED
  BY <1>1, <1>2, <1>6 DEF p

LEMMA GivenUpMoves ==
  ASSUME TypeOK, InOrder, Drop \/ FilterExpired
  PROVE  /\ held # << >> /\ held' = Tail(held)
         /\ Moves(TheHeld, <<"mark", Scheduler>>, {Head(held)})
<1> DEFINE p == Head(held)
<1>1. /\ Idle(Scheduler) /\ CallMarkDone(Scheduler, p) /\ p \in Pointer /\ Scheduler \in Threads
      /\ held # << >> /\ held' = Tail(held) /\ UNCHANGED <<queue, valid, ebatch>>
  BY DEF Drop, FilterExpired, Expire, TypeOK, Threads
<1>2. Elements(held') = Elements(held) \ {p} /\ p \in Elements(held)
  BY <1>1, DistinctTail DEF TypeOK, InOrder
<1> HIDE DEF p
<1>3. \A k \in Holders \ {TheHeld, <<"mark", Scheduler>>} : Holds(k)' = Holds(k)
  BY <1>1, OthersKeep, CallHolds DEF TheHeld, TheValid
<1>4. Moves(TheHeld, <<"mark", Scheduler>>, {p})
  <2>1. <<"mark", Scheduler>> # TheHeld
    BY DEF TheHeld
  <2> QED
    BY <2>1, <1>1, <1>2, <1>3, HoldersAre, HoldsWhat, HoldsWhatPrime, CallHolds DEF Moves
<1> QED
  BY <1>1, <1>4 DEF p

LEMMA FilterValidMoves ==
  ASSUME TypeOK, InOrder, FilterValid
  PROVE  /\ held # << >> /\ held' = Tail(held) /\ Head(held) \in Pointer
         /\ valid' = Append(valid, Head(held))
         /\ Moves(TheHeld, TheValid, {Head(held)})
<1> DEFINE p == Head(held)
<1>1. /\ p \in Pointer /\ held # << >> /\ held' = Tail(held) /\ valid' = Append(valid, p)
      /\ UNCHANGED <<queue, ebatch, mstage, mptr>>
  BY DEF FilterValid, TypeOK
<1>2. Elements(held') = Elements(held) \ {p} /\ p \in Elements(held)
  BY <1>1, DistinctTail DEF TypeOK, InOrder
<1>3. Elements(valid') = Elements(valid) \cup {p}
  BY <1>1, AppendElements DEF TypeOK
<1> HIDE DEF p
<1>4. \A k \in Holders \ {TheHeld, TheValid} : Holds(k)' = Holds(k)
  BY <1>1, OthersKeep DEF TheHeld, TheValid
<1>5. Moves(TheHeld, TheValid, {p})
  <2>1. TheHeld # TheValid
    BY DEF TheHeld, TheValid
  <2> QED
    BY <2>1, <1>2, <1>3, <1>4, HoldersAre, HoldsWhat, HoldsWhatPrime DEF Moves
<1> QED
  BY <1>1, <1>5 DEF p

LEMMA SpawnMoves ==
  ASSUME TypeOK, BatchesHandedOver, Spawn
  PROVE  \E e \in ExecThreads :
           /\ epc[e] = "free" /\ epc' = [epc EXCEPT ![e] = "start"]
           /\ ebatch' = [ebatch EXCEPT ![e] = valid] /\ valid' = << >>
           /\ Moves(TheValid, <<"batch", e>>, Elements(valid))
<1>1. PICK e \in ExecThreads : /\ epc[e] = "free" /\ epc' = [epc EXCEPT ![e] = "start"]
                               /\ ebatch' = [ebatch EXCEPT ![e] = valid] /\ valid' = << >>
                               /\ UNCHANGED <<queue, held, mstage, mptr>>
  BY DEF Spawn
<1>2. /\ Elements(ebatch[e]) = {} /\ ebatch'[e] = valid /\ Elements(valid') = {}
      /\ \A f \in ExecThreads \ {e} : ebatch'[f] = ebatch[f]
  BY <1>1 DEF BatchesHandedOver, Elements, TypeOK
<1>3. \A k \in Holders \ {TheValid, <<"batch", e>>} : Holds(k)' = Holds(k)
  BY <1>1, <1>2, OthersKeep DEF TheHeld, TheValid
<1>4. Moves(TheValid, <<"batch", e>>, Elements(valid))
  <2>1. TheValid # <<"batch", e>>
    BY DEF TheValid
  <2> QED
    BY <2>1, <1>2, <1>3, HoldersAre, HoldsWhat, HoldsWhatPrime DEF Moves
<1> QED
  BY <1>1, <1>4

LEMMA WriteBackMoves ==
  ASSUME TypeOK, InOrder, NEW e \in ExecThreads, WriteBack(e)
  PROVE  /\ ebatch[e] # << >> /\ ebatch' = [ebatch EXCEPT ![e] = Tail(@)]
         /\ Head(ebatch[e]) \in Pointer
         /\ Moves(<<"batch", e>>, <<"mark", e>>, {Head(ebatch[e])})
<1> DEFINE p == Head(ebatch[e])
<1>1. /\ p \in Pointer /\ Idle(e) /\ CallMarkDone(e, p) /\ e \in Threads /\ ebatch[e] # << >>
      /\ ebatch' = [ebatch EXCEPT ![e] = Tail(@)] /\ UNCHANGED <<queue, held, valid>>
  BY DEF WriteBack, TypeOK, Threads
<1>2. /\ Elements(ebatch'[e]) = Elements(ebatch[e]) \ {p} /\ p \in Elements(ebatch[e])
      /\ \A f \in ExecThreads \ {e} : ebatch'[f] = ebatch[f]
  BY <1>1, DistinctTail DEF TypeOK, InOrder
<1> HIDE DEF p
<1>3. \A k \in Holders \ {<<"batch", e>>, <<"mark", e>>} : Holds(k)' = Holds(k)
  BY <1>1, <1>2, OthersKeep, CallHolds DEF TheHeld, TheValid
<1>4. Moves(<<"batch", e>>, <<"mark", e>>, {p})
  BY <1>1, <1>2, <1>3, HoldersAre, HoldsWhat, HoldsWhatPrime, CallHolds DEF Moves
<1> QED
  BY <1>1, <1>4 DEF p
\* Every step moves pointers from one holder to another, drops them, adds a new one, or leaves
\* all where they are.
PointersMove ==
  \/ Keeps
  \/ \E g, h \in Holders : \E ps \in SUBSET Pointer : g[1] # "mark" /\ Moves(g, h, ps)
  \/ \E h \in Holders : Loses(h)

PointersAdded(w) == \E p \in Pointer : /\ Gains(<<"queue", p.cls>>, p) /\ p.cls \in Classes
                                       /\ p.addr = w /\ p.id = nextId
                                       /\ queue' = [queue EXCEPT ![p.cls] = Append(@, p)]

LEMMA NothingMoved ==
  ASSUME UNCHANGED <<queue, held, valid, ebatch, mstage, mptr>> PROVE Keeps
<1>1. PICK n : n \notin Holders
  BY NoSetContainsEverything
<1>2. \A k \in Holders \ {n, n} : Holds(k)' = Holds(k)
  BY OthersKeep
<1> QED
  BY <1>1, <1>2 DEF Keeps

LEMMA MarkDoneMoves ==
  ASSUME TypeOK, NEW t \in Threads, MarkDone(t) PROVE Keeps \/ Loses(<<"mark", t>>)
<1>1. CASE MarkComplete(t)
  <2>1. /\ UNCHANGED <<queue, held, valid, ebatch, mptr>>
        /\ \A u \in Threads : mstage'[u] = "none" <=> mstage[u] = "none"
    BY <1>1 DEF MarkComplete, TypeOK
  <2>2. ASSUME NEW k \in Holders PROVE Holds(k)' = Holds(k)
    <3>2. ASSUME NEW u \in Threads, k = <<"mark", u>> PROVE Holds(k)' = Holds(k)
      BY <2>1, <3>2, HoldsWhat, HoldsWhatPrime DEF Marking
    <3>3. CASE ~\E u \in Threads : k = <<"mark", u>>
      BY <2>1, <3>3, HolderCases, HoldsWhat, HoldsWhatPrime
    <3> QED
      BY <3>2, <3>3
  <2> QED
    BY <2>2 DEF Keeps
<1>2. CASE MarkSignal(t)
  <2>1. /\ UNCHANGED <<queue, held, valid, ebatch>> /\ mstage'[t] = "none"
        /\ \A u \in Threads \ {t} : mstage'[u] = mstage[u] /\ mptr'[u] = mptr[u]
    BY <1>2 DEF MarkSignal, TypeOK
  <2>2. \A k \in Holders \ {<<"mark", t>>, <<"mark", t>>} : Holds(k)' = Holds(k)
    BY <2>1, OthersKeep
  <2>3. Holds(<<"mark", t>>)' = {}
    BY <2>1, HoldsWhatPrime
  <2> QED
    BY <2>2, <2>3, HoldersAre DEF Loses
<1> QED
  BY <1>1, <1>2 DEF MarkDone

LEMMA SchedulerMoves ==
  ASSUME TypeOK, InOrder, BatchesHandedOver, Run PROVE PointersMove /\ UNCHANGED nextId
<1>0. UNCHANGED nextId
  BY DEF Run, SemWait, CleanupExpired, CleanOne, CleanEnd, Window, Sleep, CollectBatch,
     Take, CollectOne, CollectEnd, SlotTaken, SlotWait, SlotFree, Drop, DropEnd, FilterBatch,
     FilterExpired, FilterValid, FilterEnd, Dispatch, Increment, Spawn, SpawnFailure
<1>s. \A s \in Seq(Pointer) : Elements(s) \in SUBSET Pointer
  BY DEF Elements
<1>1. CASE CleanOne
  <2>0. PICK c \in Classes : \E i \in DOMAIN queue[c] :
          Moves(<<"queue", c>>, <<"mark", Scheduler>>, {queue[c][i]})
    BY <1>1, CleanOneMoves
  <2>1. PICK i \in DOMAIN queue[c] : Moves(<<"queue", c>>, <<"mark", Scheduler>>, {queue[c][i]})
    BY <2>0
  <2>2. {queue[c][i]} \in SUBSET Pointer
    BY DEF TypeOK
  <2> QED
    BY <1>0, <2>1, <2>2, HoldersAre DEF PointersMove, Threads, TheHeld, TheValid
<1>2. CASE CollectOne
  <2>1. PICK c \in Classes : /\ Head(queue[c]) \in Pointer
                             /\ Moves(<<"queue", c>>, TheHeld, {Head(queue[c])})
    BY <1>2, CollectOneMoves
  <2> QED
    BY <1>0, <2>1, HoldersAre DEF PointersMove, TheHeld, TheValid
<1>3. CASE Drop \/ FilterExpired
  <2>1. Moves(TheHeld, <<"mark", Scheduler>>, {Head(held)}) /\ Head(held) \in Pointer
    BY <1>3, GivenUpMoves DEF TypeOK
  <2> QED
    BY <1>0, <2>1, HoldersAre DEF PointersMove, Threads, TheHeld, TheValid
<1>4. CASE FilterValid
  <2>1. Moves(TheHeld, TheValid, {Head(held)}) /\ Head(held) \in Pointer
    BY <1>4, FilterValidMoves
  <2> QED
    BY <1>0, <2>1, HoldersAre DEF PointersMove, TheHeld, TheValid
<1>5. CASE Spawn
  <2>1. PICK e \in ExecThreads : Moves(TheValid, <<"batch", e>>, Elements(valid))
    BY <1>5, SpawnMoves
  <2>2. Elements(valid) \in SUBSET Pointer
    BY <1>s DEF TypeOK
  <2> QED
    BY <1>0, <2>1, <2>2, HoldersAre DEF PointersMove, TheHeld, TheValid
<1>6. CASE SpawnFailure
  <2>1. UNCHANGED <<queue, held, ebatch, mstage, mptr>> /\ valid' = << >>
    BY <1>6 DEF SpawnFailure
  <2>2. \A k \in Holders \ {TheValid, TheValid} : Holds(k)' = Holds(k)
    BY <2>1, OthersKeep
  <2>3. Holds(TheValid)' = {}
    BY <2>1, HoldsWhatPrime DEF Elements
  <2> QED
    BY <1>0, <2>2, <2>3, HoldersAre DEF PointersMove, Loses
<1>7. CASE ~(CleanOne \/ CollectOne \/ Drop \/ FilterExpired \/ FilterValid \/ Spawn \/ SpawnFailure)
  <2>1. UNCHANGED <<queue, held, valid, ebatch, mstage, mptr>>
    BY <1>7 DEF Run, SemWait, CleanupExpired, CleanEnd, Window, Sleep, CollectBatch, Take,
       CollectEnd, SlotTaken, SlotWait, SlotFree, DropEnd, FilterBatch, FilterEnd, Dispatch,
       Increment
  <2> QED
    BY <1>0, <2>1, NothingMoved DEF PointersMove
<1> QED
  BY <1>1, <1>2, <1>3, <1>4, <1>5, <1>6, <1>7

LEMMA PointersStep ==
  ASSUME TypeOK, InOrder, BatchesHandedOver, [Next]_vars
  PROVE  \/ PointersMove /\ UNCHANGED nextId
         \/ \E w \in Workers : Accept(w) /\ PointersAdded(w)
<1>1. CASE Tick \/ Stop \/ UNCHANGED vars
  <2>1. UNCHANGED <<queue, held, valid, ebatch, mstage, mptr, nextId>>
    BY <1>1 DEF Tick, Stop, StopClear, StopPost
  <2> QED
    BY <2>1, NothingMoved DEF PointersMove
<1>2. ASSUME NEW w \in Workers,
             Begin(w) \/ EnqueueTask(w) \/ WaitForTask(w) \/ SpuriousWakeup(w)
      PROVE  (PointersMove /\ UNCHANGED nextId) \/ (Accept(w) /\ PointersAdded(w))
  <2>1. CASE Accept(w)
    BY <2>1, AcceptGains DEF PointersAdded
  <2>2. CASE ~Accept(w)
    <3>1. UNCHANGED <<queue, held, valid, ebatch, mstage, mptr, nextId>>
      BY <1>2, <2>2 DEF Begin, EnqueueTask, Reject, WaitForTask, Post, Wait, TimeOut, Wake,
                        Respond, SpuriousWakeup
    <3> QED
      BY <3>1, NothingMoved DEF PointersMove
  <2> QED
    BY <2>1, <2>2
<1>3. CASE Run
  BY <1>3, SchedulerMoves
<1>4. ASSUME NEW t \in Threads, MarkDone(t) PROVE PointersMove /\ UNCHANGED nextId
  <2>1. UNCHANGED nextId
    BY <1>4 DEF MarkDone, MarkComplete, MarkSignal
  <2> QED
    BY <1>4, <2>1, MarkDoneMoves, HoldersAre DEF PointersMove, TheHeld, TheValid
<1>5. ASSUME NEW e \in ExecThreads, ExecuteBatch(e) \/ Infer(e) \/ Decrement(e)
      PROVE  PointersMove /\ UNCHANGED nextId
  <2>1. CASE WriteBack(e)
    <3>1. /\ Head(ebatch[e]) \in Pointer /\ e \in Threads /\ UNCHANGED nextId
          /\ Moves(<<"batch", e>>, <<"mark", e>>, {Head(ebatch[e])})
      BY <2>1, WriteBackMoves DEF WriteBack, Threads
    <3> QED
      BY <3>1, HoldersAre DEF PointersMove, TheHeld, TheValid
  <2>2. CASE MarkDone(e)
    BY <1>4, <2>2 DEF Threads
  <2>3. CASE ~WriteBack(e) /\ ~MarkDone(e)
    <3>1. UNCHANGED <<queue, held, valid, ebatch, mstage, mptr, nextId>>
      BY <1>5, <2>3 DEF ExecuteBatch, ReadInputs, WriteBackEnd, PostSlot, Infer, Decrement
    <3> QED
      BY <3>1, NothingMoved DEF PointersMove
  <2> QED
    BY <2>1, <2>2, <2>3
<1> QED
  BY <1>1, <1>2, <1>3, <1>4, <1>5 DEF Next, Threads
-----------------------------------------------------------------------------
(* A task is in one place at a time *)

\* No two holders share a pointer, an id is that of one pointer, and ids are younger than nextId.
Apart     == \A g, h \in Holders : g # h => Holds(g) \cap Holds(h) = {}
ById      == \A g, h \in Holders : \A p \in Holds(g), q \in Holds(h) : p.id = q.id => p = q
Numbered  == \A h \in Holders : \A p \in Holds(h) : p.id < nextId

OnePlace == Apart /\ ById /\ Numbered

LEMMA HoldsType ==
  ASSUME TypeOK, NEW h \in Holders PROVE Holds(h) \in SUBSET Pointer
<1>s. \A s \in Seq(Pointer) : Elements(s) \in SUBSET Pointer
  BY DEF Elements
<1>1. ASSUME NEW t \in Threads PROVE Marking(t) \in SUBSET Pointer
  BY DEF Marking, TypeOK
<1>2. ASSUME NEW c \in Classes PROVE Elements(queue[c]) \in SUBSET Pointer
  BY <1>s DEF TypeOK
<1>3. ASSUME NEW e \in ExecThreads PROVE Elements(ebatch[e]) \in SUBSET Pointer
  BY <1>s DEF TypeOK
<1>4. Elements(held) \in SUBSET Pointer /\ Elements(valid) \in SUBSET Pointer
  BY <1>s DEF TypeOK
<1> QED
  BY <1>1, <1>2, <1>3, <1>4, HolderCases, HoldsWhat

LEMMA PlacesMoved ==
  ASSUME OnePlace, PointersMove, UNCHANGED nextId PROVE OnePlace'
<1>1. CASE \E g, h \in Holders : \E ps \in SUBSET Pointer : g[1] # "mark" /\ Moves(g, h, ps)
  <2>1. PICK g \in Holders, h \in Holders, ps \in SUBSET Pointer : Moves(g, h, ps)
    BY <1>1
  <2>2. \A k \in Holders : \A p \in Holds(k)' : \E j \in Holders : p \in Holds(j)
    BY <2>1 DEF Moves
  <2>3. Apart'
    <3> SUFFICES ASSUME NEW j \in Holders, NEW k \in Holders, j # k,
                        NEW p, p \in Holds(j)', p \in Holds(k)'
                 PROVE  FALSE
      BY DEF Apart, Holders
    <3> QED
      BY <2>1 DEF Moves, OnePlace, Apart
  <2>4. ById'
    BY <2>2 DEF OnePlace, ById, Holders
  <2>5. Numbered'
    BY <2>2 DEF OnePlace, Numbered, Holders
  <2> QED
    BY <2>3, <2>4, <2>5 DEF OnePlace
<1>2. CASE Keeps \/ \E h \in Holders : Loses(h)
  <2>1. \A k \in Holders : Holds(k)' \subseteq Holds(k)
    BY <1>2 DEF Keeps, Loses
  <2>2. Apart'
    BY <2>1 DEF OnePlace, Apart, Holders
  <2>3. ById'
    BY <2>1 DEF OnePlace, ById, Holders
  <2>4. Numbered'
    BY <2>1 DEF OnePlace, Numbered, Holders
  <2> QED
    BY <2>2, <2>3, <2>4 DEF OnePlace
<1> QED
  BY <1>1, <1>2 DEF PointersMove

LEMMA PlacesAdded ==
  ASSUME TypeOK, OnePlace, NEW w \in Workers, PointersAdded(w), nextId' = nextId + 1
  PROVE  OnePlace'
<1>1. PICK p \in Pointer : Gains(<<"queue", p.cls>>, p) /\ p.id = nextId
  BY DEF PointersAdded
<1> DEFINE h == <<"queue", p.cls>>
<1>2. /\ h \in Holders /\ Holds(h)' = Holds(h) \cup {p}
      /\ \A k \in Holders \ {h} : Holds(k)' = Holds(k)
  BY <1>1 DEF Gains
<1> HIDE DEF h
<1>3. nextId \in Int /\ \A k \in Holders : \A q \in Holds(k) : q.id < nextId /\ q.id \in Int
  <2>1. \A q \in Pointer : q.id \in Int
    BY CountersAssumption DEF Pointer, Ids
  <2>2. \A k \in Holders : \A q \in Holds(k) : q \in Pointer
    BY HoldsType
  <2>3. nextId \in Int
    BY CountersAssumption DEF TypeOK, Ids
  <2> QED
    BY <2>1, <2>2, <2>3 DEF OnePlace, Numbered
<1>4. \A k \in Holders : \A q \in Holds(k) : q # p /\ q.id # p.id
  BY <1>1, <1>3
<1>5. \A k \in Holders : \A q \in Holds(k)' : q \in Holds(k) \/ (q = p /\ k = h)
  BY <1>2
<1>6. Apart'
  BY <1>2, <1>4, <1>5 DEF OnePlace, Apart, Holders
<1>7. ById'
  BY <1>4, <1>5 DEF OnePlace, ById, Holders
<1>8. Numbered'
  BY <1>1, <1>3, <1>5 DEF Numbered, Holders
<1> QED
  BY <1>6, <1>7, <1>8 DEF OnePlace

\* What a step does to the order within the sequences.
LEMMA OrderScheduler ==
  ASSUME TypeOK, InOrder, OnePlace, BatchesHandedOver, Run PROVE InOrder'
<1> USE DEF InOrder
<1>1. CASE CleanOne
  <2>0. PICK c \in Classes : \E i \in DOMAIN queue[c] : queue' = [queue EXCEPT ![c] = RemoveAt(@, i)]
    BY <1>1, CleanOneMoves
  <2>1. PICK i \in DOMAIN queue[c] : queue' = [queue EXCEPT ![c] = RemoveAt(@, i)]
    BY <2>0
  <2>2. Arrived(queue'[c]) /\ \A d \in Classes \ {c} : queue'[d] = queue[d]
    BY <2>1, ArrivedRemoveAt DEF TypeOK
  <2>3. \A k \in DOMAIN queue'[c] : queue'[c][k].cls = c
    BY <2>1 DEF RemoveAt, TypeOK
  <2>4. UNCHANGED <<held, valid, ebatch>>
    BY <1>1 DEF CleanOne
  <2> QED
    BY <2>2, <2>3, <2>4
<1>2. CASE CollectOne
  <2>1. PICK c \in Classes :
           /\ NextClass(c) /\ Head(queue[c]) \in Pointer
           /\ held' = Append(held, Head(queue[c]))
           /\ queue' = [queue EXCEPT ![c] = Tail(@)]
           /\ Moves(<<"queue", c>>, TheHeld, {Head(queue[c])})
    BY <1>2, CollectOneMoves
  <2>2. queue[c] \in Seq(Pointer) /\ queue[c] # << >>
    BY <2>1 DEF TypeOK, NextClass
  <2>3. Arrived(queue'[c]) /\ \A d \in Classes \ {c} : queue'[d] = queue[d]
    BY <2>1, <2>2, ArrivedTail DEF TypeOK
  <2>4. \A k \in DOMAIN queue'[c] : queue'[c][k].cls = c
    BY <2>1, <2>2 DEF TypeOK
  <2>5. Head(queue[c]) \notin Elements(held)
    BY <2>1, HoldsWhat DEF Moves, OnePlace, Apart
  <2>6. Distinct(held')
    BY <2>1, <2>5, DistinctAppend DEF TypeOK
  <2>7. UNCHANGED <<valid, ebatch>>
    BY <1>2 DEF CollectOne
  <2> QED
    BY <2>3, <2>4, <2>6, <2>7
<1>3. CASE Drop \/ FilterExpired
  <2>1. held # << >> /\ held' = Tail(held) /\ UNCHANGED <<queue, valid, ebatch>>
    BY <1>3, GivenUpMoves DEF Drop, FilterExpired
  <2>2. Distinct(held')
    BY <2>1, DistinctTail DEF TypeOK
  <2> QED
    BY <2>1, <2>2
<1>4. CASE FilterValid
  <2>1. /\ held # << >> /\ held' = Tail(held) /\ Head(held) \in Pointer
        /\ valid' = Append(valid, Head(held))
        /\ Moves(TheHeld, TheValid, {Head(held)})
    BY <1>4, FilterValidMoves
  <2>2. Head(held) \notin Elements(valid)
    BY <2>1, HoldsWhat DEF Moves, OnePlace, Apart
  <2>3. Distinct(held') /\ Distinct(valid')
    BY <2>1, <2>2, DistinctTail, DistinctAppend DEF TypeOK
  <2>4. UNCHANGED <<queue, ebatch>>
    BY <1>4 DEF FilterValid
  <2> QED
    BY <2>3, <2>4
<1>5. CASE Spawn
  <2>1. PICK e \in ExecThreads : ebatch' = [ebatch EXCEPT ![e] = valid] /\ valid' = << >>
    BY <1>5, SpawnMoves
  <2>2. UNCHANGED <<queue, held>>
    BY <1>5 DEF Spawn
  <2>3. Distinct(<< >>)
    BY DEF Distinct
  <2> QED
    BY <2>1, <2>2, <2>3 DEF TypeOK
<1>6. CASE SpawnFailure
  <2>1. UNCHANGED <<queue, held, ebatch>> /\ valid' = << >>
    BY <1>6 DEF SpawnFailure
  <2>2. Distinct(<< >>)
    BY DEF Distinct
  <2> QED
    BY <2>1, <2>2
<1>7. CASE ~(CleanOne \/ CollectOne \/ Drop \/ FilterExpired \/ FilterValid \/ Spawn \/ SpawnFailure)
  <2>1. UNCHANGED <<queue, held, valid, ebatch>>
    BY <1>7 DEF Run, SemWait, CleanupExpired, CleanEnd, Window, Sleep, CollectBatch, Take,
       CollectEnd, SlotTaken, SlotWait, SlotFree, DropEnd, FilterBatch, FilterEnd, Dispatch,
       Increment
  <2> QED
    BY <2>1
<1> QED
  BY <1>1, <1>2, <1>3, <1>4, <1>5, <1>6, <1>7

LEMMA OrderStep ==
  ASSUME TypeOK, InOrder, OnePlace, BatchesHandedOver, [Next]_vars PROVE InOrder'
<1>1. ASSUME NEW w \in Workers, Accept(w) PROVE InOrder'
  <2>1. PICK p \in Pointer : /\ Gains(<<"queue", p.cls>>, p) /\ p.cls \in Classes /\ p.id = nextId
                             /\ queue' = [queue EXCEPT ![p.cls] = Append(@, p)]
    BY <1>1, AcceptGains
  <2>2. PICK c \in Classes : p.cls = c
    BY <2>1
  <2>3. queue[c] \in Seq(Pointer) /\ \A d \in Classes \ {c} : queue'[d] = queue[d]
    BY <2>1, <2>2 DEF TypeOK
  <2>4. \A q \in Elements(queue[c]) : q.id < p.id
    BY <2>1, HoldersAre, HoldsWhat DEF OnePlace, Numbered
  <2>5. queue'[c] = Append(queue[c], p)
    BY <2>1, <2>2 DEF TypeOK
  <2>6. Arrived(queue'[c])
    BY <2>3, <2>4, <2>5, ArrivedAppend DEF InOrder
  <2>7. \A k \in DOMAIN queue'[c] : queue'[c][k].cls = c
    BY <2>2, <2>3, <2>5 DEF InOrder
  <2>8. UNCHANGED <<held, valid, ebatch>>
    BY <1>1 DEF Accept
  <2> QED
    BY <2>3, <2>6, <2>7, <2>8 DEF InOrder
<1>2. ASSUME UNCHANGED <<queue, held, valid, ebatch>> PROVE InOrder'
  BY <1>2 DEF InOrder
<1>3. CASE Tick \/ Stop \/ UNCHANGED vars
           \/ (\E t \in Threads : MarkDone(t))
           \/ \E w \in Workers : ~Accept(w) /\
                 (Begin(w) \/ EnqueueTask(w) \/ WaitForTask(w) \/ SpuriousWakeup(w))
  BY <1>2, <1>3 DEF Tick, Stop, StopClear, StopPost, Begin, EnqueueTask, Reject, WaitForTask,
     Post, Wait, TimeOut, Wake, Respond, SpuriousWakeup, MarkDone, MarkComplete, MarkSignal
<1>4. CASE Run
  BY <1>4, OrderScheduler
<1>5. ASSUME NEW e \in ExecThreads, ExecuteBatch(e) \/ Infer(e) \/ Decrement(e) PROVE InOrder'
  <2>1. CASE WriteBack(e)
    <3>1. /\ ebatch[e] # << >> /\ ebatch' = [ebatch EXCEPT ![e] = Tail(@)]
          /\ UNCHANGED <<queue, held, valid>>
      BY <2>1, WriteBackMoves DEF WriteBack
    <3>2. Distinct(Tail(ebatch[e]))
      BY <3>1, DistinctTail DEF TypeOK, InOrder
    <3> QED
      BY <3>1, <3>2 DEF TypeOK, InOrder
  <2>2. CASE ~WriteBack(e)
    BY <1>2, <1>3, <1>5, <2>2 DEF ExecuteBatch, ReadInputs, WriteBackEnd, PostSlot, Infer,
                                  Decrement, Threads
  <2> QED
    BY <2>1, <2>2
<1> QED
  BY <1>1, <1>3, <1>4, <1>5 DEF Next, Threads
\* The places, as long as the ids suffice.
PlacesInv == IdsLeft /\ BatchesHandedOver /\ InOrder /\ OnePlace

LEMMA PlacesInit == IdsSuffice /\ Init => PlacesInv
<1> SUFFICES ASSUME IdsSuffice, Init PROVE PlacesInv
  OBVIOUS
<1>1. \A h \in Holders : Holds(h) = {}
  BY HolderCases, HoldsWhat DEF Init, Elements, Marking
<1>2. OnePlace
  BY <1>1 DEF OnePlace, Apart, ById, Numbered
<1>3. InOrder /\ BatchesHandedOver
  BY DEF Init, InOrder, Arrived, Distinct, BatchesHandedOver
<1> QED
  BY <1>2, <1>3, IdsLeftInit DEF PlacesInv

LEMMA PlacesStep == IdsSuffice /\ TypeOK /\ PlacesInv /\ [Next]_vars => PlacesInv'
<1> SUFFICES ASSUME IdsSuffice, TypeOK, PlacesInv, [Next]_vars PROVE PlacesInv'
  OBVIOUS
<1>1. IdsLeft' /\ BatchesHandedOver' /\ InOrder'
  BY IdsLeftStep, HandedOverStep, OrderStep DEF PlacesInv
<1>2. OnePlace'
  BY PointersStep, PlacesMoved, PlacesAdded, NextIdGrows DEF PlacesInv
<1> QED
  BY <1>1, <1>2 DEF PlacesInv

LEMMA PlacesInvariant == ASSUME IdsSuffice PROVE Spec => []PlacesInv
  BY PlacesInit, PlacesStep, TypeCorrect, PTL DEF Spec

\* The queues together are as long as they have pointers.
LEMMA QueuedCounted ==
  ASSUME TypeOK, InOrder, OnePlace
  PROVE  IsFiniteSet(Queued) /\ Cardinality(Queued) = PendingCount
<1> DEFINE E0 == Elements(queue[0])  E1 == Elements(queue[1])  E2 == Elements(queue[2])
<1>1. ASSUME NEW c \in Classes
      PROVE  /\ IsFiniteSet(Elements(queue[c])) /\ Cardinality(Elements(queue[c])) = Len(queue[c])
             /\ Len(queue[c]) \in Nat
  BY DistinctCardinality, ArrivedDistinct DEF TypeOK, InOrder
<1>2. ASSUME NEW c \in Classes, NEW d \in Classes, c # d
      PROVE  Elements(queue[c]) \cap Elements(queue[d]) = {}
  <2>1. <<"queue", c>> # <<"queue", d>>
    BY <1>2
  <2> QED
    BY <2>1, HoldersAre, HoldsWhat DEF OnePlace, Apart
<1>3. 0 \in Classes /\ 1 \in Classes /\ 2 \in Classes
  BY DEF Classes
<1>4. Queued = (E0 \cup E1) \cup E2
  BY DEF Queued, Classes
<1>5. E0 \cap E1 = {} /\ (E0 \cup E1) \cap E2 = {}
  BY <1>2, <1>3
<1>6. /\ IsFiniteSet(E0) /\ IsFiniteSet(E1) /\ IsFiniteSet(E2)
      /\ Cardinality(E0) = Len(queue[0]) /\ Cardinality(E1) = Len(queue[1])
      /\ Cardinality(E2) = Len(queue[2])
      /\ Len(queue[0]) \in Nat /\ Len(queue[1]) \in Nat /\ Len(queue[2]) \in Nat
  BY <1>1, <1>3
<1> HIDE DEF E0, E1, E2
<1>7. IsFiniteSet(E0 \cup E1) /\ Cardinality(E0 \cup E1) = Len(queue[0]) + Len(queue[1])
  <2>1. /\ IsFiniteSet(E0 \cup E1)
        /\ Cardinality(E0 \cup E1) = Cardinality(E0) + Cardinality(E1) - Cardinality(E0 \cap E1)
    BY <1>6, FS_Union, Zenon
  <2>2. Cardinality(E0 \cap E1) = 0
    BY <1>5, FS_EmptySet
  <2> QED
    BY <1>6, <2>1, <2>2
<1>8. /\ IsFiniteSet((E0 \cup E1) \cup E2)
      /\ Cardinality((E0 \cup E1) \cup E2) = Len(queue[0]) + Len(queue[1]) + Len(queue[2])
  <2>1. /\ IsFiniteSet((E0 \cup E1) \cup E2)
        /\ Cardinality((E0 \cup E1) \cup E2)
             = Cardinality(E0 \cup E1) + Cardinality(E2) - Cardinality((E0 \cup E1) \cap E2)
    BY <1>6, <1>7, FS_Union, Zenon
  <2>2. Cardinality((E0 \cup E1) \cap E2) = 0
    BY <1>5, FS_EmptySet
  <2>3. Cardinality((E0 \cup E1) \cup E2) = Cardinality(E0 \cup E1) + Cardinality(E2) - 0
    BY <2>1, <2>2
  <2>4. Cardinality((E0 \cup E1) \cup E2) = (Len(queue[0]) + Len(queue[1])) + Len(queue[2]) - 0
    BY <1>6, <1>7, <2>3
  <2> QED
    BY <1>6, <2>1, <2>4
<1> QED
  BY <1>4, <1>8 DEF PendingCount

\* Apart, spelled out.
LEMMA ApartCases ==
  ASSUME Apart
  PROVE  /\ Elements(held) \cap Elements(valid) = {}
         /\ \A c \in Classes : /\ Elements(queue[c]) \cap Elements(held) = {}
                              /\ Elements(queue[c]) \cap Elements(valid) = {}
         /\ \A e \in ExecThreads : /\ Elements(held) \cap Batch(e) = {}
                                  /\ Elements(valid) \cap Batch(e) = {}
         /\ \A t \in Threads : /\ Elements(held) \cap Marking(t) = {}
                              /\ Elements(valid) \cap Marking(t) = {}
         /\ \A c \in Classes, e \in ExecThreads : Elements(queue[c]) \cap Batch(e) = {}
         /\ \A c \in Classes, t \in Threads : Elements(queue[c]) \cap Marking(t) = {}
         /\ \A e \in ExecThreads, t \in Threads : Batch(e) \cap Marking(t) = {}
         /\ \A e, f \in ExecThreads : e # f => Batch(e) \cap Batch(f) = {}
<1>1. ASSUME NEW g \in Holders, NEW h \in Holders, g[1] # h[1] PROVE Holds(g) \cap Holds(h) = {}
  BY <1>1 DEF Apart
<1>2. /\ TheHeld[1] = "held" /\ TheValid[1] = "valid"
      /\ \A x : <<"queue", x>>[1] = "queue" /\ <<"batch", x>>[1] = "batch" /\ <<"mark", x>>[1] = "mark"
  BY DEF TheHeld, TheValid
<1>3. \A e \in ExecThreads : Batch(e) = Elements(ebatch[e])
  BY DEF Batch
<1>4. Elements(held) \cap Elements(valid) = {}
  BY <1>1, <1>2, HoldersAre, HoldsWhat
<1>5. ASSUME NEW c \in Classes
      PROVE  Elements(queue[c]) \cap Elements(held) = {} /\ Elements(queue[c]) \cap Elements(valid) = {}
  BY <1>1, <1>2, HoldersAre, HoldsWhat
<1>6. ASSUME NEW e \in ExecThreads
      PROVE  Elements(held) \cap Batch(e) = {} /\ Elements(valid) \cap Batch(e) = {}
  BY <1>1, <1>2, <1>3, HoldersAre, HoldsWhat
<1>7. ASSUME NEW t \in Threads
      PROVE  Elements(held) \cap Marking(t) = {} /\ Elements(valid) \cap Marking(t) = {}
  BY <1>1, <1>2, HoldersAre, HoldsWhat
<1>8. ASSUME NEW c \in Classes, NEW e \in ExecThreads PROVE Elements(queue[c]) \cap Batch(e) = {}
  BY <1>1, <1>2, <1>3, HoldersAre, HoldsWhat
<1>9. ASSUME NEW c \in Classes, NEW t \in Threads PROVE Elements(queue[c]) \cap Marking(t) = {}
  BY <1>1, <1>2, HoldersAre, HoldsWhat
<1>10. ASSUME NEW e \in ExecThreads, NEW t \in Threads PROVE Batch(e) \cap Marking(t) = {}
  BY <1>1, <1>2, <1>3, HoldersAre, HoldsWhat
<1>11. ASSUME NEW e \in ExecThreads, NEW f \in ExecThreads, e # f PROVE Batch(e) \cap Batch(f) = {}
  <2>1. <<"batch", e>> # <<"batch", f>>
    BY <1>11
  <2> QED
    BY <1>3, <2>1, HoldersAre, HoldsWhat DEF Apart
<1> QED
  BY <1>4, <1>5, <1>6, <1>7, <1>8, <1>9, <1>10, <1>11

\* A task is queued, collected, filtered, in one batch or being marked done, never two of these
\* at a time and never twice in a queue: so it is completed once, whichever of expiry, stop and
\* result comes first.
THEOREM TasksInOnePlace == ASSUME IdsSuffice PROVE Spec => []InOnePlace
<1>1. TypeOK /\ PlacesInv => InOnePlace
  <2> SUFFICES ASSUME TypeOK, PlacesInv PROVE InOnePlace
    OBVIOUS
  <2>1. Apart
    BY DEF PlacesInv, OnePlace
  <2>2. Cardinality(Queued) = PendingCount
    BY QueuedCounted DEF PlacesInv
  <2>8. /\ DOMAIN Places = 1..3
        /\ Places[1] = Queued /\ Places[2] = Elements(held) /\ Places[3] = Elements(valid)
    BY DEF Places
  <2>9. ASSUME NEW i \in DOMAIN Places, NEW e \in ExecThreads, NEW t \in Threads
        PROVE  Places[i] \cap (Batch(e) \cup Marking(t)) = {}
    <3>1. Queued \cap (Batch(e) \cup Marking(t)) = {}
      BY <2>1, ApartCases DEF Queued
    <3>2. \A S \in {Elements(held), Elements(valid)} : S \cap (Batch(e) \cup Marking(t)) = {}
      BY <2>1, ApartCases
    <3> QED
      BY <2>8, <3>1, <3>2
  <2>10. ASSUME NEW i \in DOMAIN Places, NEW j \in DOMAIN Places, i # j
         PROVE  Places[i] \cap Places[j] = {}
    <3>1. Queued \cap Elements(held) = {} /\ Queued \cap Elements(valid) = {}
      BY <2>1, ApartCases DEF Queued
    <3>2. Elements(held) \cap Elements(valid) = {}
      BY <2>1, ApartCases
    <3> QED
      BY <2>8, <2>10, <3>1, <3>2
  <2> QED
    BY <2>1, <2>2, <2>9, <2>10, ApartCases DEF InOnePlace
<1> QED
  BY <1>1, PlacesInvariant, TypeCorrect, PTL
-----------------------------------------------------------------------------
(* Only a timeout leaves a pointer behind *)

LEMMA UnmarkedHeld ==
  ASSUME TypeOK, NEW p
  PROVE  p \in Unmarked <=> \E h \in Holders : /\ p \in Holds(h)
                                                  /\ \A t \in Threads : h = <<"mark", t>> => mstage[t] = "lock"
<1>0. \A t \in Threads : /\ <<"mark", t>> # TheHeld /\ <<"mark", t>> # TheValid
                         /\ \A x : <<"mark", t>> # <<"queue", x>> /\ <<"mark", t>> # <<"batch", x>>
  BY DEF TheHeld, TheValid
<1>1. ASSUME p \in Unmarked
      PROVE  \E h \in Holders : /\ p \in Holds(h)
                               /\ \A t \in Threads : h = <<"mark", t>> => mstage[t] = "lock"
  <2>1. CASE \E t \in Threads : mstage[t] = "lock" /\ mptr[t] = p
    BY <2>1, HoldersAre, HoldsWhat DEF Marking
  <2>2. CASE p \in Elements(held) \/ p \in Elements(valid)
    BY <1>0, <2>2, HoldersAre, HoldsWhat
  <2>3. CASE \E c \in Classes : p \in Elements(queue[c])
    BY <1>0, <2>3, HoldersAre, HoldsWhat
  <2>4. CASE \E e \in ExecThreads : p \in Elements(ebatch[e])
    BY <1>0, <2>4, HoldersAre, HoldsWhat
  <2> QED
    BY <1>1, <2>1, <2>2, <2>3, <2>4, UnmarkedCases
<1>2. ASSUME NEW h \in Holders, p \in Holds(h),
             \A t \in Threads : h = <<"mark", t>> => mstage[t] = "lock"
      PROVE  p \in Unmarked
  <2>1. ASSUME NEW t \in Threads, h = <<"mark", t>> PROVE mstage[t] = "lock" /\ mptr[t] = p
    BY <1>2, <2>1, HoldsWhat DEF Marking
  <2>2. ASSUME NEW c \in Classes, h = <<"queue", c>> PROVE p \in Elements(queue[c])
    BY <1>2, <2>2, HoldsWhat
  <2>3. ASSUME NEW e \in ExecThreads, h = <<"batch", e>> PROVE p \in Elements(ebatch[e])
    BY <1>2, <2>3, HoldsWhat
  <2>4. ASSUME h = TheHeld PROVE p \in Elements(held)
    BY <1>2, <2>4, HoldsWhat
  <2>5. ASSUME h = TheValid PROVE p \in Elements(valid)
    BY <1>2, <2>5, HoldsWhat
  <2> QED
    BY <2>1, <2>2, <2>3, <2>4, <2>5, HolderCases, UnmarkedCases
<1> QED
  BY <1>1, <1>2

LEMMA UnmarkedHeldPrime ==
  ASSUME TypeOK', NEW p
  PROVE  p \in Unmarked' => \E h \in Holders : /\ p \in Holds(h)'
                                                  /\ \A t \in Threads : h = <<"mark", t>> => mstage'[t] = "lock"
<1>0. \A t \in Threads : /\ <<"mark", t>> # TheHeld /\ <<"mark", t>> # TheValid
                         /\ \A x : <<"mark", t>> # <<"queue", x>> /\ <<"mark", t>> # <<"batch", x>>
  BY DEF TheHeld, TheValid
<1> SUFFICES ASSUME p \in Unmarked'
             PROVE  \E h \in Holders : /\ p \in Holds(h)'
                                      /\ \A t \in Threads : h = <<"mark", t>> => mstage'[t] = "lock"
  OBVIOUS
<1>1. CASE \E t \in Threads : mstage'[t] = "lock" /\ mptr'[t] = p
  BY <1>1, HoldersAre, HoldsWhatPrime
<1>2. CASE p \in Elements(held') \/ p \in Elements(valid')
  BY <1>0, <1>2, HoldersAre, HoldsWhatPrime
<1>3. CASE \E c \in Classes : p \in Elements(queue'[c])
  BY <1>0, <1>3, HoldersAre, HoldsWhatPrime
<1>4. CASE \E e \in ExecThreads : p \in Elements(ebatch'[e])
  BY <1>0, <1>4, HoldersAre, HoldsWhatPrime
<1> QED
  BY <1>1, <1>2, <1>3, <1>4, UnmarkedCasesPrime

\* A thread calls mark_done only after its last signal.
LEMMA LocksWhenIdle ==
  ASSUME TypeOK, [Next]_vars, NEW t \in Threads, mstage'[t] = "lock" PROVE mstage[t] # "signal"
<1> USE DEF TypeOK, Idle, Expire, CallMarkDone
<1>1. CASE Tick \/ Stop \/ UNCHANGED vars
           \/ \E w \in Workers : Begin(w) \/ EnqueueTask(w) \/ WaitForTask(w) \/ SpuriousWakeup(w)
  BY <1>1 DEF Tick, Stop, StopClear, StopPost, Begin, EnqueueTask, Accept, Reject, WaitForTask,
              Post, Wait, TimeOut, Wake, Respond, SpuriousWakeup
<1>2. CASE Run
  <2>1. \/ UNCHANGED mstage
        \/ Idle(Scheduler) /\ mstage' = [mstage EXCEPT ![Scheduler] = "lock"]
    BY <1>2 DEF Run, SemWait, CleanupExpired, CleanOne, CleanEnd, Window, Sleep, CollectBatch, Take,
       CollectOne, CollectEnd, SlotTaken, SlotWait, SlotFree, Drop, DropEnd, FilterBatch,
       FilterExpired, FilterValid, FilterEnd, Dispatch, Increment, Spawn, SpawnFailure
  <2> QED
    BY <2>1
<1>3. ASSUME NEW u \in Threads, MarkDone(u) PROVE mstage[t] # "signal"
  BY <1>3 DEF MarkDone, MarkComplete, MarkSignal
<1>4. ASSUME NEW e \in ExecThreads, ExecuteBatch(e) \/ Infer(e) \/ Decrement(e)
      PROVE  mstage[t] # "signal"
  BY <1>3, <1>4 DEF ExecuteBatch, ReadInputs, WriteBack, WriteBackEnd, PostSlot, Infer, Decrement,
                    Threads
<1> QED
  BY <1>1, <1>2, <1>3, <1>4 DEF Next, Threads

\* Whoever has a pointer to complete had it before, except for a task just accepted.
LEMMA OwedBefore ==
  ASSUME TypeOK, PlacesInv, [Next]_vars, NEW p, p \in Unmarked'
  PROVE  \/ p \in Unmarked
         \/ \E w \in Workers : Accept(w) /\ p.addr = w /\ p.id = nextId
<1>1. PICK h \in Holders : /\ p \in Holds(h)'
                           /\ \A t \in Threads : h = <<"mark", t>> => mstage'[t] = "lock"
  BY TypeStep, UnmarkedHeldPrime
<1>2. ASSUME p \in Holds(h) PROVE p \in Unmarked
  <2>1. ASSUME NEW t \in Threads, h = <<"mark", t>> PROVE mstage[t] = "lock"
    <3>1. mstage[t] # "none" /\ mstage[t] # "signal"
      BY <1>1, <1>2, <2>1, HoldsWhat, LocksWhenIdle DEF Marking
    <3> QED
      BY <3>1 DEF TypeOK
  <2> QED
    BY <1>2, <2>1, UnmarkedHeld
<1>3. CASE PointersMove
  <2>1. CASE \E g, k \in Holders : \E ps \in SUBSET Pointer : g[1] # "mark" /\ Moves(g, k, ps)
    <3>1. PICK g \in Holders, k \in Holders, ps \in SUBSET Pointer : g[1] # "mark" /\ Moves(g, k, ps)
      BY <2>1
    <3>2. p \in Holds(h) \/ p \in Holds(g)
      BY <1>1, <3>1 DEF Moves
    <3>3. \A t \in Threads : g # <<"mark", t>>
      BY <3>1
    <3> QED
      BY <1>2, <3>2, <3>3, UnmarkedHeld
  <2>2. CASE Keeps \/ \E k \in Holders : Loses(k)
    BY <1>1, <1>2, <2>2 DEF Keeps, Loses
  <2> QED
    BY <1>3, <2>1, <2>2 DEF PointersMove
<1>4. ASSUME NEW w \in Workers, Accept(w), PointersAdded(w)
      PROVE  p \in Unmarked \/ (p.addr = w /\ p.id = nextId)
  BY <1>1, <1>2, <1>4 DEF PointersAdded, Gains
<1> QED
  BY <1>3, <1>4, PointersStep DEF PlacesInv
Waited == {"post", "wait", "waiting", "woken"}
Attached(p) == /\ Live(p.addr) /\ task[p.addr].id = p.id /\ ~task[p.addr].completed
               /\ wpc[p.addr] \in Waited

\* Before the first request can time out every pointer leads to a request that waits.
Limit == TimeoutSec * TicksPerSec
Early == clock < Limit

AllAttached     == \A p \in Unmarked : Attached(p)
NewNotCompleted == \A w \in Workers : wpc[w] = "enqueue" => ~task[w].completed
WaitsLong       == \A w \in Workers : wpc[w] \in {"waiting", "woken"} => wabs[w] >= Limit

AttachedInv == Early => AllAttached /\ NewNotCompleted /\ WaitsLong

LEMMA LimitType == Limit \in Nat
<1>1. TimeoutSec \in Nat /\ TicksPerSec \in Nat
  BY ClockAssumption
<1> QED
  BY <1>1, ProductType, Zenon DEF Limit

\* How a worker moves on while its task is not completed.
LEMMA WorkerMoves ==
  ASSUME TypeOK, [Next]_vars, NEW w \in Workers
  PROVE  /\ wpc[w] \in Waited /\ ~task[w].completed => TimeOut(w) \/ wpc'[w] \in Waited
         /\ wpc'[w] = "enqueue" => wpc[w] = "enqueue" \/ Begin(w)
         /\ wpc'[w] \in {"waiting", "woken"} =>
              Wait(w) \/ (wpc[w] \in {"waiting", "woken"} /\ wabs'[w] = wabs[w])
<1> DEFINE Goal == /\ wpc[w] \in Waited /\ ~task[w].completed => TimeOut(w) \/ wpc'[w] \in Waited
                   /\ wpc'[w] = "enqueue" => wpc[w] = "enqueue" \/ Begin(w)
                   /\ wpc'[w] \in {"waiting", "woken"} =>
                        Wait(w) \/ (wpc[w] \in {"waiting", "woken"} /\ wabs'[w] = wabs[w])
<1> USE DEF TypeOK, Waited
<1>1. CASE Tick \/ Stop \/ UNCHANGED vars
  BY <1>1 DEF Tick, Stop, StopClear, StopPost
<1>2. ASSUME NEW v \in Workers,
             Begin(v) \/ EnqueueTask(v) \/ WaitForTask(v) \/ SpuriousWakeup(v)
      PROVE  Goal
  <2>1. CASE v # w
    <3>1. wpc'[w] = wpc[w] /\ wabs'[w] = wabs[w]
      BY <1>2, <2>1 DEF Begin, EnqueueTask, Accept, Reject, WaitForTask, Post, Wait, TimeOut, Wake,
                        Respond, SpuriousWakeup
    <3> QED
      BY <3>1
  <2>2. CASE v = w
    <3>1. CASE Begin(w) \/ TimeOut(w) \/ Respond(w)
      BY <3>1 DEF Begin, TimeOut, Respond
    <3>2. CASE Accept(w) \/ Reject(w) \/ Post(w)
      BY <3>2 DEF Accept, Reject, Post
    <3>3. CASE Wait(w) \/ Wake(w) \/ SpuriousWakeup(w)
      BY <3>3 DEF Wait, Wake, SpuriousWakeup, AfterLook
    <3> QED
      BY <1>2, <2>2, <3>1, <3>2, <3>3 DEF EnqueueTask, WaitForTask
  <2> QED
    BY <2>1, <2>2
<1>3. CASE Run
  <2>1. UNCHANGED <<wpc, wabs>>
    BY <1>3 DEF Run, SemWait, CleanupExpired, CleanOne, CleanEnd, Window, Sleep, CollectBatch, Take,
       CollectOne, CollectEnd, SlotTaken, SlotWait, SlotFree, Drop, DropEnd, FilterBatch,
       FilterExpired, FilterValid, FilterEnd, Dispatch, Increment, Spawn, SpawnFailure
  <2> QED
    BY <2>1
<1>4. ASSUME NEW t \in Threads, MarkDone(t) PROVE Goal
  BY <1>4 DEF MarkDone, MarkComplete, MarkSignal
<1>5. ASSUME NEW e \in ExecThreads, ExecuteBatch(e) \/ Infer(e) \/ Decrement(e) PROVE Goal
  <2>1. CASE MarkDone(e)
    BY <1>4, <2>1 DEF Threads
  <2>2. CASE ~MarkDone(e)
    <3>1. UNCHANGED <<wpc, wabs>>
      BY <1>5, <2>2 DEF ExecuteBatch, ReadInputs, WriteBack, WriteBackEnd, PostSlot, Infer, Decrement
    <3> QED
      BY <3>1
  <2> QED
    BY <2>1, <2>2
<1> QED
  BY <1>1, <1>2, <1>3, <1>4, <1>5 DEF Next, Threads

\* Nobody's time is up early.
LEMMA NobodyTimesOut ==
  ASSUME TypeOK, Early, WaitsLong, NEW w \in Workers PROVE ~TimeOut(w)
<1> SUFFICES ASSUME TimeOut(w) PROVE FALSE
  OBVIOUS
<1>1. wabs[w] >= Limit /\ clock >= wabs[w]
  BY DEF TimeOut, TimeIsUp, WaitsLong
<1>2. clock \in Nat /\ wabs[w] \in Nat
  BY DEF TypeOK
<1> QED
  BY <1>1, <1>2, LimitType DEF Early

\* A completion of p's frame early is the completion of p, and p is then nowhere else.
LEMMA CompletesOwn ==
  ASSUME TypeOK, PlacesInv, AllAttached, [Next]_vars, NEW p \in Unmarked,
         NEW t \in Threads, Completes(t, p.addr)
  PROVE  p \notin Unmarked'
<1>1. /\ MarkComplete(t) /\ mstage[t] = "lock" /\ mptr[t] \in Pointer /\ mptr[t].addr = p.addr
      /\ UNCHANGED <<queue, held, valid, ebatch, mptr>> /\ mstage'[t] = "signal"
  BY DEF Completes, MarkComplete, TypeOK
<1>2. mptr[t] \in Unmarked
  BY <1>1, UnmarkedCases
<1>3. mptr[t].id = p.id
  BY <1>1, <1>2 DEF AllAttached, Attached
<1>4. mptr[t] \in Holds(<<"mark", t>>) /\ <<"mark", t>> \in Holders
  BY <1>1, HoldersAre, HoldsWhat DEF Marking
<1>5. PICK g \in Holders : p \in Holds(g)
  BY UnmarkedHeld
<1>6. mptr[t] = p
  BY <1>3, <1>4, <1>5 DEF PlacesInv, OnePlace, ById
<1> SUFFICES ASSUME p \in Unmarked' PROVE FALSE
  OBVIOUS
<1>7. PICK h \in Holders : /\ p \in Holds(h)'
                           /\ \A u \in Threads : h = <<"mark", u>> => mstage'[u] = "lock"
  BY TypeStep, UnmarkedHeldPrime
<1>8. h # <<"mark", t>>
  BY <1>1, <1>7
<1>9. p \in Holds(h)
  <2>1. ASSUME NEW u \in Threads, h = <<"mark", u>> PROVE p \in Holds(h)
    <3>1. u # t
      BY <1>8, <2>1
    <3>2. mstage'[u] = mstage[u]
      BY <1>1, <3>1 DEF MarkComplete, TypeOK
    <3> QED
      BY <1>1, <1>7, <2>1, <3>2, HoldsWhat, HoldsWhatPrime DEF Marking
  <2>2. CASE ~\E u \in Threads : h = <<"mark", u>>
    BY <1>1, <1>7, <2>2, HolderCases, HoldsWhat, HoldsWhatPrime
  <2> QED
    BY <2>1, <2>2
<1> QED
  BY <1>4, <1>6, <1>8, <1>9 DEF PlacesInv, OnePlace, Apart

\* A pointer that stays to be completed stays attached.
LEMMA AttachedStays ==
  ASSUME TypeOK, PlacesInv, Early, AllAttached, WaitsLong, [Next]_vars,
         NEW p \in Unmarked, p \in Unmarked'
  PROVE  Attached(p)'
<1> DEFINE w == p.addr
<1>1. Attached(p)
  BY DEF AllAttached
<1>2. w \in Workers
  <2>1. PICK g \in Holders : p \in Holds(g)
    BY UnmarkedHeld
  <2> QED
    BY <2>1, HoldsType DEF Pointer
<1> HIDE DEF w
<1>3. Live(w) /\ task[w].id = p.id /\ ~task[w].completed /\ wpc[w] \in Waited
  BY <1>1 DEF Attached, w
<1>4. wpc'[w] \in Waited
  BY <1>2, <1>3, NobodyTimesOut, WorkerMoves
<1>5. Live(w)'
  BY <1>2, <1>4, TypeStep DEF TypeOK, Live, Waited
<1>6. task[w] \in Task /\ TaskChanges(w)
  BY <1>2, <1>3, <1>5, LiveTask, ChangesStep
<1>7. ~TimeOut(w) /\ ~Begin(w) /\ ~Accept(w)
  BY <1>2, <1>3, NobodyTimesOut DEF Begin, Accept, Waited
<1>8. ~\E t \in Threads : Completes(t, w)
  BY CompletesOwn DEF w
<1>9. \/ task'[w] = task[w]
      \/ task'[w] = [task[w] EXCEPT !.timeout = TRUE]
      \/ \E e \in ExecThreads : Fills(e, w)
  BY <1>6, <1>7, <1>8 DEF TaskChanges, Expires
<1>10. task'[w].id = task[w].id /\ task'[w].completed = task[w].completed
  <2>1. CASE \E e \in ExecThreads : Fills(e, w)
    BY <1>6, <2>1 DEF Fills, Task
  <2>2. CASE task'[w] = task[w] \/ task'[w] = [task[w] EXCEPT !.timeout = TRUE]
    BY <1>6, <2>2 DEF Task
  <2> QED
    BY <1>9, <2>1, <2>2
<1> QED
  BY <1>3, <1>4, <1>5, <1>10 DEF Attached, w

LEMMA AttachedStep ==
  ASSUME TypeOK, PlacesInv, AttachedInv, [Next]_vars PROVE AttachedInv'
<1> SUFFICES ASSUME Early' PROVE AllAttached' /\ NewNotCompleted' /\ WaitsLong'
  BY DEF AttachedInv
<1>1. clock \in Nat /\ clock' \in Nat /\ Limit' = Limit
  BY TypeStep DEF TypeOK, Limit
<1>2. Early
  BY <1>1, LimitType, OnlyForward DEF Early
<1>3. AllAttached /\ NewNotCompleted /\ WaitsLong
  BY <1>2 DEF AttachedInv
<1>4. AllAttached'
  <2> SUFFICES ASSUME NEW p, p \in Unmarked' PROVE Attached(p)'
    BY DEF AllAttached
  <2>1. CASE p \in Unmarked
    BY <1>2, <1>3, <2>1, AttachedStays
  <2>2. ASSUME NEW w \in Workers, Accept(w), p.addr = w, p.id = nextId PROVE Attached(p)'
    <3>1. task[w] \in Task /\ ~task[w].completed
      BY <1>3, <2>2, LiveTask DEF Accept, TypeOK, Live, NewNotCompleted
    <3>2. /\ task'[w] = [task[w] EXCEPT !.id = nextId] /\ wpc'[w] = "post"
      BY <2>2 DEF Accept, TypeOK
    <3>3. task'[w] \in Task /\ task'[w].id = nextId /\ ~task'[w].completed
      BY <3>1, <3>2 DEF Task, TypeOK
    <3> QED
      BY <2>2, <3>2, <3>3, NullFacts DEF Attached, Live, Waited
  <2> QED
    BY <2>1, <2>2, OwedBefore
<1>5. NewNotCompleted'
  <2> SUFFICES ASSUME NEW w \in Workers, wpc'[w] = "enqueue" PROVE ~task'[w].completed
    BY DEF NewNotCompleted
  <2>1. CASE Begin(w)
    BY <2>1 DEF Begin, TypeOK
  <2>2. CASE wpc[w] = "enqueue"
    <3>1. Live(w) /\ Live(w)' /\ ~task[w].completed
      BY <1>3, <2>2, TypeStep DEF TypeOK, Live, NewNotCompleted
    <3>2. task[w] \in Task /\ TaskChanges(w)
      BY <3>1, LiveTask, ChangesStep
    <3>3. ASSUME NEW t \in Threads, Completes(t, w) PROVE FALSE
      <4>1. mptr[t] \in Unmarked /\ mptr[t].addr = w
        BY <3>3, UnmarkedCases DEF Completes, MarkComplete
      <4> QED
        BY <1>3, <2>2, <4>1 DEF AllAttached, Attached, Waited
    <3>4. ~TimeOut(w) /\ ~Begin(w)
      BY <2>2 DEF TimeOut, Begin
    <3>5. \/ task'[w] = task[w] \/ task'[w] = [task[w] EXCEPT !.id = nextId]
          \/ task'[w] = [task[w] EXCEPT !.timeout = TRUE]
          \/ \E e \in ExecThreads : Fills(e, w)
      BY <3>2, <3>3, <3>4 DEF TaskChanges, Expires
    <3>6. CASE \E e \in ExecThreads : Fills(e, w)
      BY <3>1, <3>2, <3>6 DEF Fills, Task
    <3>7. CASE \/ task'[w] = task[w] \/ task'[w] = [task[w] EXCEPT !.id = nextId]
               \/ task'[w] = [task[w] EXCEPT !.timeout = TRUE]
      BY <3>1, <3>2, <3>7 DEF Task
    <3> QED
      BY <3>5, <3>6, <3>7
  <2> QED
    BY <2>1, <2>2, WorkerMoves
<1>6. WaitsLong'
  <2> SUFFICES ASSUME NEW w \in Workers, wpc'[w] \in {"waiting", "woken"} PROVE wabs'[w] >= Limit
    BY <1>1 DEF WaitsLong
  <2>1. CASE Wait(w)
    <3>1. wabs'[w] = clock + Limit
      BY <2>1 DEF Wait, TypeOK, Limit
    <3> QED
      BY <1>1, <3>1, LimitType
  <2>2. CASE wpc[w] \in {"waiting", "woken"} /\ wabs'[w] = wabs[w]
    BY <1>3, <2>2 DEF WaitsLong
  <2> QED
    BY <2>1, <2>2, WorkerMoves
<1> QED
  BY <1>4, <1>5, <1>6

\* A pointer whose task still has to be completed leads to that very task, its frame alive and
\* not reused, unless task_timeout_sec have passed since the start: only a timeout lets
\* do_request return before the scheduler is done with its frame.
THEOREM DanglingNeedsTimeout == ASSUME IdsSuffice PROVE Spec => []OnlyTimeoutsDangle
<1>1. Init => AttachedInv
  <2> SUFFICES ASSUME Init PROVE AllAttached /\ NewNotCompleted /\ WaitsLong
    BY DEF AttachedInv
  <2>1. \A p : p \notin Unmarked
    BY UnmarkedCases DEF Init, Elements
  <2> QED
    BY <2>1 DEF Init, AllAttached, NewNotCompleted, WaitsLong
<1>2. TypeOK /\ AttachedInv => OnlyTimeoutsDangle
  <2> SUFFICES ASSUME TypeOK, AttachedInv, NEW p \in Unmarked, ~(clock >= TimeoutSec * TicksPerSec)
               PROVE  Points(p)
    BY DEF OnlyTimeoutsDangle
  <2>1. clock \in Nat /\ ~(clock >= Limit)
    BY DEF TypeOK, Limit
  <2>2. Early
    BY <2>1, LimitType DEF Early
  <2> QED
    BY <2>2 DEF AttachedInv, AllAttached, Attached, Points
<1>3. TypeOK /\ PlacesInv /\ AttachedInv /\ [Next]_vars => AttachedInv'
  BY AttachedStep
<1> QED
  BY <1>1, <1>2, <1>3, PlacesInvariant, TypeCorrect, PTL DEF Spec
=============================================================================

------------------------ MODULE BatchSchedulerProofs ------------------------
(* Safety of BatchScheduler, for every number of threads, batches and tasks. *)
EXTENDS BatchScheduler, FiniteSetTheorems, TLAPS

USE DEF vars, clientVars, schedVars, execVars, markVars, queueVars

-----------------------------------------------------------------------------
(* Facts about the data *)

LEMMA SecondsType == ASSUME clock \in Nat PROVE Seconds \in Nat
  BY ClockAssumption DEF Seconds

LEMMA ProductType == \A a, b \in Nat : a * b \in Nat
  OBVIOUS

LEMMA NullFacts == /\ \A x \in Inputs : x # Null
                   /\ \A p \in Pointer : p # Null
                   /\ \A t \in Task : t # Null
  BY NullAssumption

LEMMA RemoveAtType ==
  ASSUME NEW S, NEW s \in Seq(S), NEW i \in DOMAIN s
  PROVE  RemoveAt(s, i) \in Seq(S)
  BY DEF RemoveAt

\* A write through a typed pointer keeps the frames typed and destroys or creates none.
LEMMA WriteTaskType ==
  ASSUME NEW p \in Pointer, NEW t, TypeOK, WriteTask(p, t), Live(p.addr) => t \in Task
  PROVE  /\ task' \in [Workers -> Task \cup {Null}]
         /\ \A w \in Workers : (task'[w] = Null) <=> (task[w] = Null)
  BY NullFacts DEF TypeOK, WriteTask, Live, Pointer

\* Assigning to a field of a task leaves a task.
LEMMA TaskFields ==
  ASSUME NEW t \in Task
  PROVE  /\ [t EXCEPT !.completed = TRUE] \in Task
         /\ [t EXCEPT !.timeout = TRUE] \in Task
         /\ [t EXCEPT !.timeout = TRUE, !.completed = TRUE] \in Task
         /\ [t EXCEPT !.success = FALSE] \in Task
         /\ \A r \in Inputs : [t EXCEPT !.success = TRUE, !.output = r] \in Task
         /\ \A n \in Ids : [t EXCEPT !.id = n] \in Task
  BY DEF Task

LEMMA LiveTask ==
  ASSUME TypeOK, NEW w \in Workers, Live(w) PROVE task[w] \in Task
  BY DEF TypeOK, Live

-----------------------------------------------------------------------------
(* The type invariant *)

LEMMA InitType == Init => TypeOK
  BY CountersAssumption DEF Init, TypeOK, WorkerPCs, SchedPCs, ExecPCs, Ids, Classes

LEMMA TypeMarkDone ==
  ASSUME TypeOK, NEW t \in Threads, MarkDone(t) PROVE TypeOK'
<1>1. CASE MarkComplete(t)
  <2>1. mptr[t] \in Pointer
    BY <1>1 DEF TypeOK, MarkComplete
  <2>2. Live(mptr[t].addr) => [task[mptr[t].addr] EXCEPT !.completed = TRUE] \in Task
    BY <2>1, LiveTask, TaskFields DEF Pointer
  <2>3. /\ task' \in [Workers -> Task \cup {Null}]
        /\ \A w \in Workers : (task'[w] = Null) <=> (task[w] = Null)
    BY <1>1, <2>1, <2>2, WriteTaskType DEF MarkComplete
  <2> QED
    BY <1>1, <2>1, <2>3, NullFacts DEF TypeOK, MarkComplete
<1>2. CASE MarkSignal(t)
  <2>1. wpc' \in [Workers -> WorkerPCs] /\ \A w \in Workers : wpc'[w] = "idle" <=> wpc[w] = "idle"
    BY <1>2 DEF TypeOK, MarkSignal, WorkerPCs
  <2> QED
    BY <1>2, <2>1 DEF TypeOK, MarkSignal
<1> QED
  BY <1>1, <1>2 DEF MarkDone

LEMMA TypeWorker ==
  ASSUME TypeOK, NEW w \in Workers,
         Begin(w) \/ EnqueueTask(w) \/ WaitForTask(w) \/ SpuriousWakeup(w)
  PROVE  TypeOK'
<1> USE DEF TypeOK, WorkerPCs
<1>1. CASE Begin(w)
  <2>1. Seconds + TimeoutSec \in Nat
    BY SecondsType, ClockAssumption
  <2>2. PICK x \in Inputs, p \in Priorities :
          task' = [task EXCEPT ![w] =
                  [id |-> 0, input |-> x, priority |-> p, deadline |-> Seconds + TimeoutSec,
                   completed |-> FALSE, timeout |-> FALSE, success |-> FALSE, output |-> Null]]
    BY <1>1 DEF Begin
  <2>3. task'[w] \in Task
    BY <2>1, <2>2 DEF Task
  <2>4. task' \in [Workers -> Task \cup {Null}] /\ \A v \in Workers \ {w} : task'[v] = task[v]
    BY <2>2, <2>3
  <2> QED
    BY <1>1, <2>3, <2>4, NullFacts DEF Begin
<1>2. CASE Accept(w)
  <2> DEFINE c == ClassOf(task[w].priority)
             p == [addr |-> w, id |-> nextId, cls |-> c]
  <2>1. Live(w)
    BY <1>2 DEF Accept, Live
  <2>2. task' = [task EXCEPT ![w] = [task[w] EXCEPT !.id = nextId]]
    BY <1>2 DEF Accept
  <2>3. [task[w] EXCEPT !.id = nextId] \in Task
    BY <2>1, LiveTask, TaskFields
  <2>4. c \in Classes /\ p \in Pointer
    BY DEF ClassOf, Classes, Pointer
  <2>5. queue' \in [Classes -> Seq(Pointer)]
    BY <1>2, <2>4 DEF Accept
  <2>6. nextId' \in Ids
    BY <1>2, CountersAssumption DEF Accept, Ids
  <2> QED
    BY <1>2, <2>2, <2>3, <2>5, <2>6, NullFacts DEF Accept
<1>3. CASE Reject(w)
  BY <1>3 DEF Reject
<1>4. CASE Post(w)
  BY <1>4, CountersAssumption DEF Post, SemPost
<1>5. CASE Wait(w)
  <2>1. TimeoutSec \in Nat /\ TicksPerSec \in Nat
    BY ClockAssumption
  <2>2. TimeoutSec * TicksPerSec \in Nat
    BY <2>1, ProductType, Zenon
  <2>3. clock + TimeoutSec * TicksPerSec \in Nat
    BY <2>2
  <2> QED
    BY <1>5, <2>3 DEF Wait, AfterLook
<1>6. CASE TimeOut(w)
  <2>1. Live(w)
    BY <1>6 DEF TimeOut, Live
  <2>2. task' = [task EXCEPT ![w] = [task[w] EXCEPT !.timeout = TRUE, !.completed = TRUE]]
    BY <1>6 DEF TimeOut
  <2>3. [task[w] EXCEPT !.timeout = TRUE, !.completed = TRUE] \in Task
    BY <2>1, LiveTask, TaskFields
  <2>4. task' \in [Workers -> Task \cup {Null}] /\ task'[w] # Null
        /\ \A v \in Workers \ {w} : task'[v] = task[v]
    BY <2>2, <2>3, NullFacts
  <2> QED
    BY <1>6, <2>4 DEF TimeOut
<1>7. CASE Wake(w)
  BY <1>7 DEF Wake, AfterLook
<1>8. CASE Respond(w)
  BY <1>8 DEF Respond
<1>9. CASE SpuriousWakeup(w)
  BY <1>9 DEF SpuriousWakeup
<1> QED
  BY <1>1, <1>2, <1>3, <1>4, <1>5, <1>6, <1>7, <1>8, <1>9 DEF EnqueueTask, WaitForTask

LEMMA TypeScheduler ==
  ASSUME TypeOK, Run PROVE TypeOK'
<1> USE DEF TypeOK, SchedPCs
<1>1. ASSUME NEW p \in Pointer, Expire(p)
      PROVE  /\ task' \in [Workers -> Task \cup {Null}]
             /\ \A w \in Workers : (task'[w] = Null) <=> (task[w] = Null)
             /\ mstage' \in [Threads -> {"none", "lock", "signal"}]
             /\ mptr' \in [Threads -> Pointer \cup {Null}]
             /\ \A t \in Threads : (mstage'[t] = "none") <=> (mptr'[t] = Null)
  <2>1. Live(p.addr) => [task[p.addr] EXCEPT !.timeout = TRUE] \in Task
    BY LiveTask, TaskFields DEF Pointer
  <2>2. WriteTask(p, [task[p.addr] EXCEPT !.timeout = TRUE]) /\ CallMarkDone(Scheduler, p)
    BY <1>1 DEF Expire
  <2> QED
    BY <2>1, <2>2, WriteTaskType, NullFacts DEF CallMarkDone, Threads
<1>2. CASE SemWait
  BY <1>2, SecondsType DEF SemWait, SemTimedWait
<1>3. CASE CleanOne
  <2>1. PICK c \in Classes : \E i \in DOMAIN queue[c] :
          queue' = [queue EXCEPT ![c] = RemoveAt(@, i)] /\ Expire(queue[c][i])
    BY <1>3 DEF CleanOne
  <2>4. PICK i \in DOMAIN queue[c] :
          queue' = [queue EXCEPT ![c] = RemoveAt(@, i)] /\ Expire(queue[c][i])
    BY <2>1
  <2>2. queue[c][i] \in Pointer
    BY <2>4
  <2>3. queue' \in [Classes -> Seq(Pointer)]
    BY <2>4, RemoveAtType
  <2> QED
    BY <1>1, <1>3, <2>4, <2>2, <2>3 DEF CleanOne
<1>4. CASE CleanEnd
  BY <1>4 DEF CleanEnd
<1>5. CASE Window
  BY <1>5 DEF Window
<1>6. CASE Sleep
  BY <1>6, SecondsType DEF Sleep
<1>7. CASE Take
  BY <1>7 DEF Take
<1>8. CASE CollectOne
  <2>1. PICK c \in Classes : /\ queue[c] # << >>
                             /\ held' = Append(held, Head(queue[c]))
                             /\ queue' = [queue EXCEPT ![c] = Tail(@)]
    BY <1>8 DEF CollectOne, NextClass, Popped
  <2>2. Head(queue[c]) \in Pointer /\ Tail(queue[c]) \in Seq(Pointer)
    BY <2>1
  <2>3. held' \in Seq(Pointer) /\ queue' \in [Classes -> Seq(Pointer)]
    BY <2>1, <2>2
  <2> QED
    BY <1>8, <2>3 DEF CollectOne
<1>9. CASE CollectEnd
  BY <1>9 DEF CollectEnd
<1>10. CASE SlotTaken
  BY <1>10 DEF SlotTaken
<1>11. CASE SlotWait
  BY <1>11 DEF SlotWait, SemTimedWait
<1>12. CASE SlotFree
  BY <1>12, SecondsType DEF SlotFree
<1>13. CASE Drop
  <2>1. Head(held) \in Pointer /\ Tail(held) \in Seq(Pointer)
    BY <1>13 DEF Drop
  <2> QED
    BY <1>1, <1>13, <2>1 DEF Drop
<1>14. CASE DropEnd
  BY <1>14 DEF DropEnd
<1>15. CASE FilterExpired
  <2>1. Head(held) \in Pointer /\ Tail(held) \in Seq(Pointer)
    BY <1>15 DEF FilterExpired
  <2> QED
    BY <1>1, <1>15, <2>1 DEF FilterExpired
<1>16. CASE FilterValid
  <2>1. Head(held) \in Pointer /\ Tail(held) \in Seq(Pointer)
    BY <1>16 DEF FilterValid
  <2> QED
    BY <1>16, <2>1 DEF FilterValid
<1>17. CASE FilterEnd
  BY <1>17 DEF FilterEnd
<1>18. CASE Increment
  BY <1>18 DEF Increment
<1>19. CASE Spawn
  BY <1>19 DEF Spawn, ExecPCs
<1>20. CASE SpawnFailure
  BY <1>20 DEF SpawnFailure
<1> QED
  BY <1>2, <1>3, <1>4, <1>5, <1>6, <1>7, <1>8, <1>9, <1>10, <1>11, <1>12, <1>13, <1>14,
     <1>15, <1>16, <1>17, <1>18, <1>19, <1>20
     DEF Run, CleanupExpired, CollectBatch, FilterBatch, Dispatch

LEMMA TypeExec ==
  ASSUME TypeOK, NEW e \in ExecThreads,
         ReadInputs(e) \/ Infer(e) \/ WriteBack(e) \/ WriteBackEnd(e) \/ Decrement(e) \/ PostSlot(e)
  PROVE  TypeOK'
<1> USE DEF TypeOK, ExecPCs
<1>1. CASE ReadInputs(e)
  <2>1. PICK in \in [DOMAIN ebatch[e] -> Inputs] : edata' = [edata EXCEPT ![e] = in]
    BY <1>1 DEF ReadInputs
  <2>2. in \in Seq(Inputs \cup {Null}) /\ Len(in) = Len(ebatch[e])
    OBVIOUS
  <2> QED
    BY <1>1, <2>1, <2>2 DEF ReadInputs
<1>2. CASE Infer(e)
  <2>1. PICK in \in Seq(Inputs \cup {Null}) :
          Len(in) = Len(ebatch[e]) /\ edata' = [edata EXCEPT ![e] = in]
    <3>1. CASE UNCHANGED edata
      BY <1>2, <3>1 DEF Infer
    <3>2. CASE edata' = [edata EXCEPT ![e] = [i \in DOMAIN edata[e] |-> Null]]
      <4>1. edata[e] \in Seq(Inputs \cup {Null}) /\ Len(edata[e]) = Len(ebatch[e])
        BY <1>2 DEF Infer
      <4>2. DOMAIN edata[e] = 1..Len(edata[e])
        BY <4>1
      <4>3. /\ [i \in 1..Len(edata[e]) |-> Null] \in Seq(Inputs \cup {Null})
            /\ Len([i \in 1..Len(edata[e]) |-> Null]) = Len(ebatch[e])
        BY <4>1
      <4> QED
        BY <3>2, <4>2, <4>3, Zenon
    <3> QED
      BY <1>2, <3>1, <3>2 DEF Infer
  <2> QED
    BY <1>2, <2>1 DEF Infer
<1>3. CASE WriteBack(e)
  <2> DEFINE p == Head(ebatch[e])
             r == Head(edata[e])
             t == IF r = Null THEN [task[p.addr] EXCEPT !.success = FALSE]
                    ELSE [task[p.addr] EXCEPT !.success = TRUE, !.output = r]
  <2>1. /\ ebatch[e] # << >> /\ edata[e] # << >>
        /\ p \in Pointer /\ r \in Inputs \cup {Null}
        /\ Tail(ebatch[e]) \in Seq(Pointer) /\ Tail(edata[e]) \in Seq(Inputs \cup {Null})
        /\ Len(Tail(ebatch[e])) = Len(Tail(edata[e]))
    BY <1>3 DEF WriteBack
  <2>2. WriteTask(p, t) /\ CallMarkDone(e, p)
    BY <1>3 DEF WriteBack, ResultOf
  <2>3. Live(p.addr) => t \in Task
    BY <2>1, LiveTask, TaskFields DEF Pointer
  <2>4. /\ task' \in [Workers -> Task \cup {Null}]
        /\ \A w \in Workers : (task'[w] = Null) <=> (task[w] = Null)
    BY <2>1, <2>2, <2>3, WriteTaskType
  <2>5. /\ mstage' \in [Threads -> {"none", "lock", "signal"}]
        /\ mptr' \in [Threads -> Pointer \cup {Null}]
        /\ \A u \in Threads : (mstage'[u] = "none") <=> (mptr'[u] = Null)
    BY <2>1, <2>2, NullFacts DEF CallMarkDone, Threads
  <2> QED
    BY <1>3, <2>1, <2>4, <2>5 DEF WriteBack
<1>4. CASE WriteBackEnd(e)
  BY <1>4 DEF WriteBackEnd
<1>5. CASE Decrement(e)
  BY <1>5 DEF Decrement
<1>6. CASE PostSlot(e)
  BY <1>6, CountersAssumption DEF PostSlot, SemPost
<1> QED
  BY <1>1, <1>2, <1>3, <1>4, <1>5, <1>6

\* One step of the system is one step of one of its threads.
LEMMA TypeStep == TypeOK /\ [Next]_vars => TypeOK'
<1> SUFFICES ASSUME TypeOK, [Next]_vars PROVE TypeOK'
  OBVIOUS
<1>1. CASE Tick
  BY <1>1 DEF Tick, TypeOK
<1>2. CASE Stop
  BY <1>2, CountersAssumption DEF Stop, StopClear, StopPost, SemPost, TypeOK
<1>3. ASSUME NEW w \in Workers,
             Begin(w) \/ EnqueueTask(w) \/ WaitForTask(w) \/ SpuriousWakeup(w) PROVE TypeOK'
  BY <1>3, TypeWorker
<1>4. CASE Run
  BY <1>4, TypeScheduler
<1>5. ASSUME NEW t \in Threads, MarkDone(t) PROVE TypeOK'
  BY <1>5, TypeMarkDone
<1>6. ASSUME NEW e \in ExecThreads, ExecuteBatch(e) \/ Infer(e) \/ Decrement(e) PROVE TypeOK'
  BY <1>6, <1>5, TypeExec DEF ExecuteBatch, Threads
<1>7. CASE UNCHANGED vars
  BY <1>7 DEF TypeOK
<1> QED
  BY <1>1, <1>2, <1>3, <1>4, <1>5, <1>6, <1>7 DEF Next, Threads

\* Every reachable state is well typed, and a frame is alive exactly while its request is.
THEOREM TypeCorrect == Spec => []TypeOK
  BY InitType, TypeStep, PTL DEF Spec

-----------------------------------------------------------------------------
(* No worker sleeps on a completed task with no signal to come *)

\* What a write through a pointer leaves alone: tasks elsewhere, and completed if t keeps it.
LEMMA WriteTaskKeeps ==
  ASSUME TypeOK, NEW p \in Pointer, NEW t, WriteTask(p, t),
         t.completed = task[p.addr].completed, NEW w \in Workers
  PROVE  task'[w].completed = task[w].completed
  BY DEF TypeOK, WriteTask, Pointer

LEMMA ExpireKeeps ==
  ASSUME TypeOK, NEW p \in Pointer, Expire(p), NEW w \in Workers
  PROVE  task'[w].completed = task[w].completed
<1>1. CASE Live(p.addr)
  <2>1. task[p.addr] \in Task
    BY <1>1, LiveTask DEF Pointer
  <2>2. [task[p.addr] EXCEPT !.timeout = TRUE].completed = task[p.addr].completed
    BY <2>1 DEF Task
  <2> QED
    BY <2>2, WriteTaskKeeps DEF Expire
<1>2. CASE ~Live(p.addr)
  BY <1>2 DEF Expire, WriteTask
<1> QED
  BY <1>1, <1>2

\* A step that wakes nobody, completes nothing and finishes no signal keeps the invariant.
LEMMA QuietStep ==
  ASSUME NoLostWakeup,
         \A w \in Workers : wpc'[w] = "waiting" /\ task'[w].completed =>
                             wpc[w] = "waiting" /\ task[w].completed,
         \A t \in Threads : mstage[t] = "signal" => mstage'[t] = "signal" /\ mptr'[t] = mptr[t]
  PROVE  NoLostWakeup'
  BY DEF NoLostWakeup

LEMMA WakeupMarkDone ==
  ASSUME TypeOK, NoLostWakeup, NEW t \in Threads, MarkDone(t) PROVE NoLostWakeup'
<1>1. CASE MarkComplete(t)
  <2> SUFFICES ASSUME NEW w \in Workers, wpc'[w] = "waiting" /\ task'[w].completed
               PROVE  \E u \in Threads : mstage'[u] = "signal" /\ mptr'[u].addr = w
    BY DEF NoLostWakeup
  <2>1. wpc[w] = "waiting" /\ mptr' = mptr /\ mstage' = [mstage EXCEPT ![t] = "signal"]
    BY <1>1 DEF MarkComplete
  <2>2. CASE mptr[t].addr = w
    BY <2>1, <2>2 DEF TypeOK
  <2>3. CASE mptr[t].addr # w
    <3>1. task'[w] = task[w]
      BY <1>1, <2>3 DEF MarkComplete, WriteTask, TypeOK
    <3>2. PICK u \in Threads : mstage[u] = "signal" /\ mptr[u].addr = w
      BY <2>1, <3>1 DEF NoLostWakeup
    <3> QED
      BY <2>1, <3>2 DEF TypeOK
  <2> QED
    BY <2>2, <2>3
<1>2. CASE MarkSignal(t)
  <2> SUFFICES ASSUME NEW w \in Workers, wpc'[w] = "waiting" /\ task'[w].completed
               PROVE  \E u \in Threads : mstage'[u] = "signal" /\ mptr'[u].addr = w
    BY DEF NoLostWakeup
  <2>1. wpc[w] = "waiting" /\ task[w].completed /\ mptr[t].addr # w
    BY <1>2 DEF MarkSignal
  <2>2. PICK u \in Threads : mstage[u] = "signal" /\ mptr[u].addr = w
    BY <2>1 DEF NoLostWakeup
  <2> QED
    BY <1>2, <2>1, <2>2 DEF MarkSignal, TypeOK
<1> QED
  BY <1>1, <1>2 DEF MarkDone

LEMMA WakeupWorker ==
  ASSUME TypeOK, NoLostWakeup, NEW w \in Workers,
         Begin(w) \/ EnqueueTask(w) \/ WaitForTask(w) \/ SpuriousWakeup(w)
  PROVE  NoLostWakeup'
<1> USE DEF TypeOK
<1>1. UNCHANGED markVars
  BY DEF Begin, EnqueueTask, Accept, Reject, WaitForTask, Post, Wait, TimeOut, Wake, Respond,
         SpuriousWakeup
<1>2. \A v \in Workers \ {w} : wpc'[v] = wpc[v] /\ task'[v] = task[v]
  BY DEF Begin, EnqueueTask, Accept, Reject, WaitForTask, Post, Wait, TimeOut, Wake, Respond,
         SpuriousWakeup
<1>3. ~(wpc'[w] = "waiting" /\ task'[w].completed)
  BY DEF Begin, EnqueueTask, Accept, Reject, WaitForTask, Post, Wait, TimeOut, Wake, Respond,
         SpuriousWakeup, AfterLook
<1> QED
  BY <1>1, <1>2, <1>3, QuietStep

LEMMA WakeupScheduler ==
  ASSUME TypeOK, NoLostWakeup, Run PROVE NoLostWakeup'
<1>1. wpc' = wpc
  BY DEF Run, SemWait, CleanupExpired, CleanOne, CleanEnd, Window, Sleep, CollectBatch, Take,
     CollectOne, CollectEnd, SlotTaken, SlotWait, SlotFree, Drop, DropEnd, FilterBatch,
     FilterExpired, FilterValid, FilterEnd, Dispatch, Increment, Spawn, SpawnFailure
<1>2. ASSUME NEW p \in Pointer, Expire(p), Idle(Scheduler) PROVE NoLostWakeup'
  <2>1. \A t \in Threads : mstage[t] = "signal" => mstage'[t] = "signal" /\ mptr'[t] = mptr[t]
    BY <1>2 DEF Expire, CallMarkDone, Idle, TypeOK
  <2> QED
    BY <1>1, <1>2, <2>1, ExpireKeeps, QuietStep
<1>3. ASSUME UNCHANGED <<task, markVars>> PROVE NoLostWakeup'
  BY <1>1, <1>3, QuietStep
<1>4. CASE CleanOne
  <2>1. PICK c \in Classes : \E i \in DOMAIN queue[c] : Expire(queue[c][i])
    BY <1>4 DEF CleanOne
  <2>2. PICK i \in DOMAIN queue[c] : Expire(queue[c][i])
    BY <2>1
  <2>3. queue[c][i] \in Pointer /\ Idle(Scheduler)
    BY <1>4 DEF TypeOK, CleanOne
  <2> QED
    BY <1>2, <2>2, <2>3
<1>5. CASE Drop \/ FilterExpired
  <2>1. Expire(Head(held)) /\ Idle(Scheduler) /\ Head(held) \in Pointer
    BY <1>5 DEF Drop, FilterExpired, TypeOK
  <2> QED
    BY <1>2, <2>1
<1>6. CASE ~(CleanOne \/ Drop \/ FilterExpired)
  <2>1. UNCHANGED <<task, markVars>>
    BY <1>6 DEF Run, SemWait, CleanupExpired, CleanEnd, Window, Sleep, CollectBatch, Take,
       CollectOne, CollectEnd, SlotTaken, SlotWait, SlotFree, DropEnd, FilterBatch,
       FilterValid, FilterEnd, Dispatch, Increment, Spawn, SpawnFailure
  <2> QED
    BY <1>3, <2>1
<1> QED
  BY <1>4, <1>5, <1>6

LEMMA WakeupExec ==
  ASSUME TypeOK, NoLostWakeup, NEW e \in ExecThreads,
         ReadInputs(e) \/ Infer(e) \/ WriteBack(e) \/ WriteBackEnd(e) \/ Decrement(e) \/ PostSlot(e)
  PROVE  NoLostWakeup'
<1>1. CASE WriteBack(e)
  <2> DEFINE p == Head(ebatch[e])
             r == Head(edata[e])
             t == IF r = Null THEN [task[p.addr] EXCEPT !.success = FALSE]
                    ELSE [task[p.addr] EXCEPT !.success = TRUE, !.output = r]
  <2>1. WriteTask(p, t) /\ CallMarkDone(e, p) /\ Idle(e) /\ wpc' = wpc /\ p \in Pointer
    BY <1>1 DEF WriteBack, ResultOf, TypeOK
  <2>2. \A w \in Workers : task'[w].completed = task[w].completed
    <3>1. CASE Live(p.addr)
      <4>1. task[p.addr] \in Task
        BY <2>1, <3>1, LiveTask DEF Pointer
      <4>2. t.completed = task[p.addr].completed
        BY <4>1 DEF Task
      <4> QED
        BY <2>1, <4>2, WriteTaskKeeps
    <3>2. CASE ~Live(p.addr)
      BY <2>1, <3>2 DEF WriteTask
    <3> QED
      BY <3>1, <3>2
  <2>3. \A u \in Threads : mstage[u] = "signal" => mstage'[u] = "signal" /\ mptr'[u] = mptr[u]
    BY <2>1 DEF CallMarkDone, Idle, TypeOK
  <2> QED
    BY <2>1, <2>2, <2>3, QuietStep
<1>2. CASE ~WriteBack(e)
  BY <1>2, QuietStep DEF ReadInputs, Infer, WriteBackEnd, Decrement, PostSlot
<1> QED
  BY <1>1, <1>2

LEMMA WakeupStep == TypeOK /\ NoLostWakeup /\ [Next]_vars => NoLostWakeup'
<1> SUFFICES ASSUME TypeOK, NoLostWakeup, [Next]_vars PROVE NoLostWakeup'
  OBVIOUS
<1>1. CASE Tick \/ Stop \/ UNCHANGED vars
  BY <1>1, QuietStep DEF Tick, Stop, StopClear, StopPost
<1>2. ASSUME NEW w \in Workers,
             Begin(w) \/ EnqueueTask(w) \/ WaitForTask(w) \/ SpuriousWakeup(w)
      PROVE  NoLostWakeup'
  BY <1>2, WakeupWorker
<1>3. CASE Run
  BY <1>3, WakeupScheduler
<1>4. ASSUME NEW t \in Threads, MarkDone(t) PROVE NoLostWakeup'
  BY <1>4, WakeupMarkDone
<1>5. ASSUME NEW e \in ExecThreads, ExecuteBatch(e) \/ Infer(e) \/ Decrement(e)
      PROVE  NoLostWakeup'
  BY <1>5, <1>4, WakeupExec DEF ExecuteBatch, Threads
<1> QED
  BY <1>1, <1>2, <1>3, <1>4, <1>5 DEF Next, Threads

\* A worker blocked in wait_with_timeout_ms on a completed task has a signal coming, however
\* many threads mark tasks done, time out, or reuse a stack frame.
THEOREM WakeupsNotLost == Spec => []NoLostWakeup
<1>1. Init => NoLostWakeup
  BY DEF Init, NoLostWakeup
<1> QED
  BY <1>1, WakeupStep, TypeCorrect, PTL DEF Spec

-----------------------------------------------------------------------------
(* No accepted task is forgotten *)

LEMMA TailElements ==
  ASSUME NEW S, NEW s \in Seq(S), s # << >>
  PROVE  Elements(s) = {Head(s)} \cup Elements(Tail(s))
<1>1. ASSUME NEW i \in DOMAIN s PROVE s[i] \in {Head(s)} \cup Elements(Tail(s))
  <2>1. CASE i = 1
    BY <2>1
  <2>2. CASE i # 1
    <3>1. i - 1 \in DOMAIN Tail(s) /\ Tail(s)[i - 1] = s[i]
      BY <2>2
    <3> QED
      BY <3>1 DEF Elements
  <2> QED
    BY <2>1, <2>2
<1>2. ASSUME NEW i \in DOMAIN Tail(s) PROVE Tail(s)[i] \in Elements(s)
  <2>1. i + 1 \in DOMAIN s /\ Tail(s)[i] = s[i + 1]
    OBVIOUS
  <2> QED
    BY <2>1 DEF Elements
<1>3. Head(s) \in Elements(s)
  BY DEF Elements
<1> QED
  BY <1>1, <1>2, <1>3 DEF Elements

LEMMA AppendElements ==
  ASSUME NEW S, NEW s \in Seq(S), NEW x \in S
  PROVE  Elements(Append(s, x)) = Elements(s) \cup {x}
<1>1. /\ DOMAIN Append(s, x) = 1..(Len(s) + 1) /\ DOMAIN s = 1..Len(s)
      /\ Append(s, x)[Len(s) + 1] = x /\ \A i \in 1..Len(s) : Append(s, x)[i] = s[i]
  OBVIOUS
<1> QED
  BY <1>1 DEF Elements

LEMMA RemoveAtElements ==
  ASSUME NEW S, NEW s \in Seq(S), NEW i \in DOMAIN s
  PROVE  Elements(s) \subseteq {s[i]} \cup Elements(RemoveAt(s, i))
<1> SUFFICES ASSUME NEW j \in DOMAIN s, j # i
             PROVE  \E k \in 1..(Len(s) - 1) : RemoveAt(s, i)[k] = s[j]
  BY DEF Elements, RemoveAt
<1>1. CASE j < i
  BY <1>1 DEF RemoveAt
<1>2. CASE j > i
  <2>1. j - 1 \in 1..(Len(s) - 1) /\ RemoveAt(s, i)[j - 1] = s[j]
    BY <1>2 DEF RemoveAt
  <2> QED
    BY <2>1
<1> QED
  BY <1>1, <1>2

\* A pointer is held in one of these ways.
LEMMA UnmarkedCases ==
  ASSUME NEW p
  PROVE  p \in Unmarked <=>
           \/ \E c \in Classes : p \in Elements(queue[c])
           \/ p \in Elements(held)
           \/ p \in Elements(valid)
           \/ \E e \in ExecThreads : p \in Elements(ebatch[e])
           \/ \E t \in Threads : mstage[t] = "lock" /\ mptr[t] = p
<1>1. p \in (UNION {Elements(queue[c]) : c \in Classes}) <=> \E c \in Classes : p \in Elements(queue[c])
  BY DEF Elements
<1>2. p \in (UNION {Elements(ebatch[e]) : e \in ExecThreads})
        <=> \E e \in ExecThreads : p \in Elements(ebatch[e])
  BY DEF Elements
<1>3. p \in {mptr[t] : t \in {u \in Threads : mstage[u] = "lock"}}
        <=> \E t \in Threads : mstage[t] = "lock" /\ mptr[t] = p
  OBVIOUS
<1>4. Unmarked =
        (UNION {Elements(queue[c]) : c \in Classes}) \cup Elements(held) \cup Elements(valid)
          \cup (UNION {Elements(ebatch[e]) : e \in ExecThreads})
          \cup {mptr[t] : t \in {u \in Threads : mstage[u] = "lock"}}
  BY DEF Unmarked, Queued, Batch
<1>5. Elements(held) = Elements(held) /\ Elements(valid) = Elements(valid)
  BY DEF Elements
<1> QED
  BY <1>1, <1>2, <1>3, <1>4, <1>5

LEMMA UnmarkedCasesPrime ==
  ASSUME NEW p
  PROVE  p \in Unmarked' <=>
           \/ \E c \in Classes : p \in Elements(queue'[c])
           \/ p \in Elements(held')
           \/ p \in Elements(valid')
           \/ \E e \in ExecThreads : p \in Elements(ebatch'[e])
           \/ \E t \in Threads : mstage'[t] = "lock" /\ mptr'[t] = p
<1>1. p \in (UNION {Elements(queue[c]) : c \in Classes})' <=> \E c \in Classes : p \in Elements(queue'[c])
  BY DEF Elements
<1>2. p \in (UNION {Elements(ebatch[e]) : e \in ExecThreads})'
        <=> \E e \in ExecThreads : p \in Elements(ebatch'[e])
  BY DEF Elements
<1>3. p \in {mptr[t] : t \in {u \in Threads : mstage[u] = "lock"}}'
        <=> \E t \in Threads : mstage'[t] = "lock" /\ mptr'[t] = p
  OBVIOUS
<1>4. Unmarked' =
        (UNION {Elements(queue[c]) : c \in Classes})' \cup Elements(held)' \cup Elements(valid)'
          \cup (UNION {Elements(ebatch[e]) : e \in ExecThreads})'
          \cup {mptr[t] : t \in {u \in Threads : mstage[u] = "lock"}}'
  BY DEF Unmarked, Queued, Batch
<1>5. Elements(held)' = Elements(held') /\ Elements(valid)' = Elements(valid')
  BY DEF Elements
<1> QED
  BY <1>1, <1>2, <1>3, <1>4, <1>5

\* An execution thread without a batch to write back holds none.
BatchesHandedOver ==
  \A e \in ExecThreads : epc[e] \in {"free", "decrement", "post"} => ebatch[e] = << >>

\* Every task that is waited for and not completed is held somewhere.
AllHeld == ~SpawnMayFail => \A w \in Workers : Pending(w) => \E p \in Unmarked : p.addr = w

\* The scheduler thread ends only after a stop, and with empty hands.
EndsEmptyHanded ==
  /\ spc \in {"drop", "done"} => ~Running
  /\ spc \notin {"collect", "slot", "slotwait", "drop", "filter"} => held = << >>
  /\ spc \notin {"filter", "increment", "spawn"} => valid = << >>

\* What a step must do to forget nobody.
LEMMA NobodyForgotten ==
  ASSUME AllHeld,
         \A w \in Workers : Pending(w)' => Pending(w) \/ \E p \in Unmarked' : p.addr = w,
         \A p \in Unmarked : p \in Unmarked' \/ ~Pending(p.addr)'
  PROVE  AllHeld'
  BY DEF AllHeld

LEMMA OrphanMarkDone ==
  ASSUME TypeOK, AllHeld, NEW t \in Threads, MarkDone(t) PROVE AllHeld'
<1>1. UNCHANGED <<queue, held, valid, ebatch>>
  BY DEF MarkDone, MarkComplete, MarkSignal
<1>2. ASSUME NEW w \in Workers, Pending(w)' PROVE Pending(w)
  <2>1. CASE MarkComplete(t)
    <3>1. mptr[t] \in Pointer /\ wpc' = wpc
      BY <2>1 DEF MarkComplete, TypeOK
    <3>2. CASE w = mptr[t].addr /\ Live(w)
      <4>1. task[w] \in Task
        BY <3>2, LiveTask
      <4>2. task'[w] = [task[w] EXCEPT !.completed = TRUE]
        BY <2>1, <3>2 DEF MarkComplete, WriteTask, TypeOK
      <4>3. task'[w].completed
        BY <4>1, <4>2 DEF Task
      <4> QED
        BY <1>2, <4>3 DEF Pending
    <3>3. CASE ~(w = mptr[t].addr /\ Live(w))
      <4>1. task'[w] = task[w]
        BY <2>1, <3>1, <3>3 DEF MarkComplete, WriteTask, TypeOK
      <4> QED
        BY <1>2, <3>1, <4>1 DEF Pending
    <3> QED
      BY <3>2, <3>3
  <2>2. CASE MarkSignal(t)
    BY <1>2, <2>2 DEF MarkSignal, Pending, TypeOK
  <2> QED
    BY <2>1, <2>2 DEF MarkDone
<1>3. ASSUME NEW p \in Unmarked, p \notin Unmarked' PROVE ~Pending(p.addr)'
  <2>1. mstage[t] = "lock" /\ mptr[t] = p
    <3>1. PICK u \in Threads : /\ mstage[u] = "lock" /\ mptr[u] = p
                               /\ ~(mstage'[u] = "lock" /\ mptr'[u] = p)
      BY <1>1, <1>3, UnmarkedCases, UnmarkedCasesPrime
    <3> QED
      BY <3>1 DEF MarkDone, MarkComplete, MarkSignal, TypeOK
  <2>2. MarkComplete(t) /\ p \in Pointer
    BY <2>1 DEF MarkDone, MarkSignal, TypeOK, MarkComplete
  <2>3. CASE Live(p.addr)
    <3>1. task[p.addr] \in Task
      BY <2>2, <2>3, LiveTask DEF Pointer
    <3>2. task'[p.addr] = [task[p.addr] EXCEPT !.completed = TRUE]
      BY <2>1, <2>2, <2>3 DEF MarkComplete, WriteTask, TypeOK, Pointer
    <3>3. task'[p.addr].completed
      BY <3>1, <3>2 DEF Task
    <3> QED
      BY <3>3 DEF Pending
  <2>4. CASE ~Live(p.addr)
    BY <2>2, <2>4 DEF MarkComplete, Pending, Live, TypeOK, Pointer
  <2> QED
    BY <2>3, <2>4
<1> QED
  BY <1>2, <1>3, NobodyForgotten

LEMMA OrphanWorker ==
  ASSUME TypeOK, AllHeld, NEW w \in Workers,
         Begin(w) \/ EnqueueTask(w) \/ WaitForTask(w) \/ SpuriousWakeup(w)
  PROVE  AllHeld'
<1>1. CASE Accept(w)
  <2> DEFINE c == ClassOf(task[w].priority)
             q == [addr |-> w, id |-> nextId, cls |-> c]
  <2>1. /\ c \in Classes /\ q \in Pointer /\ q.addr = w
        /\ queue' = [queue EXCEPT ![c] = Append(@, q)]
        /\ UNCHANGED <<held, valid, ebatch, mstage, mptr>>
    BY <1>1 DEF Accept, ClassOf, Classes, Pointer, TypeOK
  <2>2. /\ Elements(queue'[c]) = Elements(queue[c]) \cup {q}
        /\ \A b \in Classes \ {c} : queue'[b] = queue[b]
    BY <2>1, AppendElements DEF TypeOK
  <2>3. q \in Unmarked'
    BY <2>1, <2>2, UnmarkedCasesPrime
  <2>4. ASSUME NEW p \in Unmarked PROVE p \in Unmarked'
    BY <2>1, <2>2, UnmarkedCases, UnmarkedCasesPrime
  <2>5. ASSUME NEW v \in Workers, Pending(v)' PROVE Pending(v) \/ v = w
    BY <1>1, <2>5 DEF Accept, Pending, TypeOK
  <2> QED
    BY <2>1, <2>3, <2>4, <2>5, NobodyForgotten
<1>2. CASE ~Accept(w)
  <2> USE DEF Begin, EnqueueTask, Reject, WaitForTask, Post, Wait, TimeOut, Wake, Respond,
              SpuriousWakeup
  <2>1. UNCHANGED <<queue, held, valid, ebatch, mstage, mptr>>
    BY <1>2
  <2>2. ASSUME NEW p \in Unmarked PROVE p \in Unmarked'
    BY <2>1, UnmarkedCases, UnmarkedCasesPrime
  <2>3. ASSUME NEW v \in Workers, Pending(v)' PROVE Pending(v)
    BY <1>2, <2>3 DEF Pending, TypeOK, AfterLook
  <2> QED
    BY <2>2, <2>3, NobodyForgotten
<1> QED
  BY <1>1, <1>2

\* A thread that was idle and calls mark_done: nobody becomes pending, and the pointers the
\* other threads are marking stay.
LEMMA OrphanCall ==
  ASSUME TypeOK, NEW t \in Threads, NEW p \in Pointer, Idle(t), CallMarkDone(t, p)
  PROVE  /\ mstage'[t] = "lock" /\ mptr'[t] = p
         /\ \A u \in Threads : mstage[u] = "lock" => mstage'[u] = "lock" /\ mptr'[u] = mptr[u]
  BY DEF TypeOK, Idle, CallMarkDone

LEMMA OrphanScheduler ==
  ASSUME TypeOK, AllHeld, BatchesHandedOver, ~SpawnMayFail, Run PROVE AllHeld'
<1> USE DEF Run, CleanupExpired, CollectBatch, FilterBatch, Dispatch
<1>1. wpc' = wpc
  BY DEF SemWait, CleanOne, CleanEnd, Window, Sleep, Take,
     CollectOne, CollectEnd, SlotTaken, SlotWait, SlotFree, Drop, DropEnd,
     FilterExpired, FilterValid, FilterEnd, Increment, Spawn, SpawnFailure
<1>2. ASSUME UNCHANGED task, NEW w \in Workers, Pending(w)' PROVE Pending(w)
  BY <1>1, <1>2 DEF Pending
<1>3. ASSUME NEW p \in Pointer, Expire(p), NEW w \in Workers, Pending(w)' PROVE Pending(w)
  BY <1>1, <1>3, ExpireKeeps DEF Pending
<1>4. Scheduler \in Threads
  BY DEF Threads
<1>5. CASE CleanOne
  <2>1. PICK c \in Classes : \E i \in DOMAIN queue[c] :
          queue' = [queue EXCEPT ![c] = RemoveAt(@, i)] /\ Expire(queue[c][i])
    BY <1>5 DEF CleanOne
  <2>2. PICK i \in DOMAIN queue[c] :
          queue' = [queue EXCEPT ![c] = RemoveAt(@, i)] /\ Expire(queue[c][i])
    BY <2>1
  <2>3. queue[c][i] \in Pointer /\ Idle(Scheduler) /\ UNCHANGED <<held, valid, ebatch>>
    BY <1>5, <2>2 DEF TypeOK, CleanOne
  <2>4. /\ Elements(queue[c]) \subseteq {queue[c][i]} \cup Elements(queue'[c])
        /\ \A b \in Classes \ {c} : queue'[b] = queue[b]
    BY <2>2, RemoveAtElements DEF TypeOK
  <2>5. ASSUME NEW p \in Unmarked PROVE p \in Unmarked'
    BY <1>4, <2>2, <2>3, <2>4, OrphanCall, UnmarkedCases, UnmarkedCasesPrime DEF Expire
  <2> QED
    BY <1>3, <2>2, <2>3, <2>5, NobodyForgotten
<1>6. CASE CollectOne
  <2>1. PICK c \in Classes : /\ queue[c] # << >>
                             /\ held' = Append(held, Head(queue[c]))
                             /\ queue' = [queue EXCEPT ![c] = Tail(@)]
                             /\ UNCHANGED <<task, valid, ebatch, mstage, mptr>>
    BY <1>6 DEF CollectOne, NextClass, Popped
  <2>2. Head(queue[c]) \in Pointer
    BY <2>1 DEF TypeOK
  <2>3. /\ Elements(queue[c]) = {Head(queue[c])} \cup Elements(queue'[c])
        /\ \A b \in Classes \ {c} : queue'[b] = queue[b]
    BY <2>1, TailElements DEF TypeOK
  <2>4. Elements(held') = Elements(held) \cup {Head(queue[c])}
    BY <2>1, <2>2, AppendElements DEF TypeOK
  <2>5. ASSUME NEW p \in Unmarked PROVE p \in Unmarked'
    BY <2>1, <2>3, <2>4, UnmarkedCases, UnmarkedCasesPrime
  <2> QED
    BY <1>2, <2>1, <2>5, NobodyForgotten
<1>7. CASE Drop \/ FilterExpired
  <2>1. /\ Expire(Head(held)) /\ Idle(Scheduler) /\ Head(held) \in Pointer
        /\ held # << >> /\ held' = Tail(held) /\ UNCHANGED <<queue, valid, ebatch>>
    BY <1>7 DEF Drop, FilterExpired, TypeOK
  <2>2. Elements(held) = {Head(held)} \cup Elements(held')
    BY <2>1, TailElements DEF TypeOK
  <2>3. ASSUME NEW p \in Unmarked PROVE p \in Unmarked'
    BY <1>4, <2>1, <2>2, OrphanCall, UnmarkedCases, UnmarkedCasesPrime DEF Expire
  <2> QED
    BY <1>3, <2>1, <2>3, NobodyForgotten
<1>8. CASE FilterValid
  <2>1. /\ held # << >> /\ Head(held) \in Pointer
        /\ held' = Tail(held) /\ valid' = Append(valid, Head(held))
        /\ UNCHANGED <<task, queue, ebatch, mstage, mptr>>
    BY <1>8 DEF FilterValid, TypeOK
  <2>2. Elements(held) = {Head(held)} \cup Elements(held')
    BY <2>1, TailElements DEF TypeOK
  <2>3. Elements(valid') = Elements(valid) \cup {Head(held)}
    BY <2>1, AppendElements DEF TypeOK
  <2>4. ASSUME NEW p \in Unmarked PROVE p \in Unmarked'
    BY <2>1, <2>2, <2>3, UnmarkedCases, UnmarkedCasesPrime
  <2> QED
    BY <1>2, <2>1, <2>4, NobodyForgotten
<1>9. CASE Spawn
  <2>1. PICK e \in ExecThreads : /\ epc[e] = "free"
                                 /\ ebatch' = [ebatch EXCEPT ![e] = valid]
                                 /\ UNCHANGED <<task, queue, held, mstage, mptr>>
    BY <1>9 DEF Spawn
  <2>2. ebatch[e] = << >>
    BY <2>1 DEF BatchesHandedOver
  <2>3. /\ Elements(ebatch[e]) = {} /\ ebatch'[e] = valid
        /\ \A f \in ExecThreads \ {e} : ebatch'[f] = ebatch[f]
    BY <2>1, <2>2 DEF Elements, TypeOK
  <2>4. ASSUME NEW p \in Unmarked PROVE p \in Unmarked'
    BY <2>1, <2>3, UnmarkedCases, UnmarkedCasesPrime
  <2> QED
    BY <1>2, <2>1, <2>4, NobodyForgotten
<1>10. CASE ~(CleanOne \/ CollectOne \/ Drop \/ FilterExpired \/ FilterValid \/ Spawn)
  <2>1. UNCHANGED <<task, queue, held, valid, ebatch, mstage, mptr>>
    BY <1>10 DEF SemWait, CleanEnd, Window, Sleep, Take, CollectEnd, SlotTaken, SlotWait,
       SlotFree, DropEnd, FilterEnd, Increment, SpawnFailure
  <2>2. ASSUME NEW p \in Unmarked PROVE p \in Unmarked'
    BY <2>1, UnmarkedCases, UnmarkedCasesPrime
  <2> QED
    BY <1>2, <2>1, <2>2, NobodyForgotten
<1> QED
  BY <1>5, <1>6, <1>7, <1>8, <1>9, <1>10

LEMMA OrphanExec ==
  ASSUME TypeOK, AllHeld, NEW e \in ExecThreads,
         ReadInputs(e) \/ Infer(e) \/ WriteBack(e) \/ WriteBackEnd(e) \/ Decrement(e) \/ PostSlot(e)
  PROVE  AllHeld'
<1>1. CASE WriteBack(e)
  <2> DEFINE p == Head(ebatch[e])
             r == Head(edata[e])
             t == IF r = Null THEN [task[p.addr] EXCEPT !.success = FALSE]
                    ELSE [task[p.addr] EXCEPT !.success = TRUE, !.output = r]
  <2>1. /\ WriteTask(p, t) /\ CallMarkDone(e, p) /\ Idle(e) /\ wpc' = wpc /\ p \in Pointer
        /\ ebatch[e] # << >> /\ ebatch' = [ebatch EXCEPT ![e] = Tail(@)]
        /\ UNCHANGED <<queue, held, valid>>
    BY <1>1 DEF WriteBack, ResultOf, TypeOK
  <2>2. \A w \in Workers : task'[w].completed = task[w].completed
    <3>1. CASE Live(p.addr)
      <4>1. task[p.addr] \in Task
        BY <2>1, <3>1, LiveTask DEF Pointer
      <4>2. t.completed = task[p.addr].completed
        BY <4>1 DEF Task
      <4> QED
        BY <2>1, <4>2, WriteTaskKeeps
    <3>2. CASE ~Live(p.addr)
      BY <2>1, <3>2 DEF WriteTask
    <3> QED
      BY <3>1, <3>2
  <2>3. /\ Elements(ebatch[e]) = {p} \cup Elements(ebatch'[e])
        /\ \A f \in ExecThreads \ {e} : ebatch'[f] = ebatch[f]
    BY <2>1, TailElements DEF TypeOK
  <2>4. ASSUME NEW q \in Unmarked PROVE q \in Unmarked'
    BY <2>1, <2>3, OrphanCall, UnmarkedCases, UnmarkedCasesPrime DEF Threads
  <2>5. ASSUME NEW w \in Workers, Pending(w)' PROVE Pending(w)
    BY <2>1, <2>2, <2>5 DEF Pending
  <2> QED
    BY <2>4, <2>5, NobodyForgotten
<1>2. CASE ~WriteBack(e)
  <2>1. UNCHANGED <<task, wpc, queue, held, valid, ebatch, mstage, mptr>>
    BY <1>2 DEF ReadInputs, Infer, WriteBackEnd, Decrement, PostSlot
  <2>2. ASSUME NEW p \in Unmarked PROVE p \in Unmarked'
    BY <2>1, UnmarkedCases, UnmarkedCasesPrime
  <2>3. ASSUME NEW w \in Workers, Pending(w)' PROVE Pending(w)
    BY <2>1, <2>3 DEF Pending
  <2> QED
    BY <2>2, <2>3, NobodyForgotten
<1> QED
  BY <1>1, <1>2

LEMMA HandedOverStep == TypeOK /\ BatchesHandedOver /\ [Next]_vars => BatchesHandedOver'
<1> SUFFICES ASSUME TypeOK, BatchesHandedOver, [Next]_vars PROVE BatchesHandedOver'
  OBVIOUS
<1> USE DEF TypeOK, BatchesHandedOver
<1>1. CASE Tick \/ Stop \/ UNCHANGED vars
  BY <1>1 DEF Tick, Stop, StopClear, StopPost
<1>2. ASSUME NEW w \in Workers,
             Begin(w) \/ EnqueueTask(w) \/ WaitForTask(w) \/ SpuriousWakeup(w)
      PROVE  BatchesHandedOver'
  BY <1>2 DEF Begin, EnqueueTask, Accept, Reject, WaitForTask, Post, Wait, TimeOut, Wake,
     Respond, SpuriousWakeup
<1>3. CASE Run
  <2>1. CASE Spawn
    BY <2>1 DEF Spawn
  <2>2. CASE ~Spawn
    BY <1>3, <2>2 DEF Run, SemWait, CleanupExpired, CleanOne, CleanEnd, Window, Sleep,
       CollectBatch, Take, CollectOne, CollectEnd, SlotTaken, SlotWait, SlotFree, Drop, DropEnd,
       FilterBatch, FilterExpired, FilterValid, FilterEnd, Dispatch, Increment, SpawnFailure
  <2> QED
    BY <2>1, <2>2
<1>4. ASSUME NEW t \in Threads, MarkDone(t) PROVE BatchesHandedOver'
  BY <1>4 DEF MarkDone, MarkComplete, MarkSignal
<1>5. ASSUME NEW e \in ExecThreads, ExecuteBatch(e) \/ Infer(e) \/ Decrement(e)
      PROVE  BatchesHandedOver'
  <2>1. CASE MarkDone(e)
    BY <1>4, <2>1 DEF Threads
  <2>2. CASE ~MarkDone(e)
    BY <1>5, <2>2 DEF ExecuteBatch, ReadInputs, Infer, WriteBack, WriteBackEnd, Decrement, PostSlot
  <2> QED
    BY <2>1, <2>2
<1> QED
  BY <1>1, <1>2, <1>3, <1>4, <1>5 DEF Next, Threads

LEMMA OrphanStep == TypeOK /\ BatchesHandedOver /\ AllHeld /\ [Next]_vars => AllHeld'
<1> SUFFICES ASSUME TypeOK, BatchesHandedOver, AllHeld, [Next]_vars PROVE AllHeld'
  OBVIOUS
<1>1. CASE Tick \/ Stop \/ UNCHANGED vars
  <2>1. UNCHANGED <<task, wpc, queue, held, valid, ebatch, mstage, mptr>>
    BY <1>1 DEF Tick, Stop, StopClear, StopPost
  <2>2. ASSUME NEW p \in Unmarked PROVE p \in Unmarked'
    BY <2>1, UnmarkedCases, UnmarkedCasesPrime
  <2>3. ASSUME NEW w \in Workers, Pending(w)' PROVE Pending(w)
    BY <2>1, <2>3 DEF Pending
  <2> QED
    BY <2>2, <2>3, NobodyForgotten
<1>2. ASSUME NEW w \in Workers,
             Begin(w) \/ EnqueueTask(w) \/ WaitForTask(w) \/ SpuriousWakeup(w)
      PROVE  AllHeld'
  BY <1>2, OrphanWorker
<1>3. CASE Run
  BY <1>3, OrphanScheduler, SwitchesAssumption DEF AllHeld
<1>4. ASSUME NEW t \in Threads, MarkDone(t) PROVE AllHeld'
  BY <1>4, OrphanMarkDone
<1>5. ASSUME NEW e \in ExecThreads, ExecuteBatch(e) \/ Infer(e) \/ Decrement(e) PROVE AllHeld'
  BY <1>4, <1>5, OrphanExec DEF ExecuteBatch, Threads
<1> QED
  BY <1>1, <1>2, <1>3, <1>4, <1>5 DEF Next, Threads

LEMMA HandsStep == TypeOK /\ EndsEmptyHanded /\ [Next]_vars => EndsEmptyHanded'
<1> SUFFICES ASSUME TypeOK, EndsEmptyHanded, [Next]_vars PROVE EndsEmptyHanded'
  OBVIOUS
<1> USE DEF TypeOK, EndsEmptyHanded, Running
<1>1. CASE Tick \/ Stop \/ UNCHANGED vars
  BY <1>1 DEF Tick, Stop, StopClear, StopPost, vars, schedVars
<1>2. ASSUME NEW w \in Workers,
             Begin(w) \/ EnqueueTask(w) \/ WaitForTask(w) \/ SpuriousWakeup(w)
      PROVE  EndsEmptyHanded'
  BY <1>2 DEF Begin, EnqueueTask, Accept, Reject, WaitForTask, Post, Wait, TimeOut, Wake,
     Respond, SpuriousWakeup, schedVars
<1>3. CASE SemWait \/ CleanupExpired \/ Window \/ Sleep
  BY <1>3 DEF SemWait, CleanupExpired, CleanOne, CleanEnd, Window, Sleep
<1>4. CASE CollectBatch \/ SlotTaken \/ SlotWait \/ SlotFree
  BY <1>4 DEF CollectBatch, Take, CollectOne, CollectEnd, SlotTaken, SlotWait, SlotFree
<1>5. CASE Drop \/ DropEnd \/ FilterBatch \/ Dispatch
  BY <1>5 DEF Drop, DropEnd, FilterBatch, FilterExpired, FilterValid, FilterEnd, Dispatch,
     Increment, Spawn, SpawnFailure
<1>6. ASSUME NEW t \in Threads, MarkDone(t) PROVE EndsEmptyHanded'
  BY <1>6 DEF MarkDone, MarkComplete, MarkSignal, schedVars
<1>7. ASSUME NEW e \in ExecThreads, ExecuteBatch(e) \/ Infer(e) \/ Decrement(e)
      PROVE  EndsEmptyHanded'
  <2>1. CASE MarkDone(e)
    BY <1>6, <2>1 DEF Threads
  <2>2. CASE ~MarkDone(e)
    BY <1>7, <2>2 DEF ExecuteBatch, ReadInputs, Infer, WriteBack, WriteBackEnd, Decrement,
       PostSlot, schedVars
  <2> QED
    BY <2>1, <2>2
<1> QED
  BY <1>1, <1>2, <1>3, <1>4, <1>5, <1>6, <1>7 DEF Next, Run, Threads

\* Whenever a request is waiting and its task is not completed, a thread that will mark it
\* done has a pointer to it, or the scheduler thread has and will go on, or it is in a queue
\* of a scheduler that was told to stop -- as long as pthread_create works.
THEOREM NobodyIsOrphaned == Spec => []NoOrphan
<1>1. Init => BatchesHandedOver /\ AllHeld /\ EndsEmptyHanded
  BY DEF Init, BatchesHandedOver, AllHeld, Pending, EndsEmptyHanded
<1>2. AllHeld /\ EndsEmptyHanded => NoOrphan
  <2> SUFFICES ASSUME AllHeld, EndsEmptyHanded, ~SpawnMayFail, NEW w \in Workers, Pending(w),
                      ~LeftInQueue(w)
               PROVE  \E p \in WillComplete : p.addr = w
    BY DEF NoOrphan
  <2>1. PICK p \in Unmarked : p.addr = w
    BY DEF AllHeld
  <2>2. p \in Queued => Running /\ spc # "done"
    BY <2>1 DEF LeftInQueue, EndsEmptyHanded
  <2>3. p \in Elements(held) \/ p \in Elements(valid) => spc # "done"
    BY DEF EndsEmptyHanded, Elements
  <2>4. \/ p \in Queued \/ p \in Elements(held) \/ p \in Elements(valid)
        \/ p \in UNION {Batch(e) : e \in ExecThreads}
        \/ p \in {mptr[t] : t \in {u \in Threads : mstage[u] = "lock"}}
    BY <2>1 DEF Unmarked
  <2>5. p \in WillComplete
    BY <2>2, <2>3, <2>4 DEF WillComplete
  <2> QED
    BY <2>1, <2>5
<1> QED
  BY <1>1, <1>2, HandedOverStep, OrphanStep, HandsStep, TypeCorrect, PTL DEF Spec

-----------------------------------------------------------------------------
(* The batch slots.  active_batch_count_ is tested in one critical section and       *)
(* incremented in a later one; what keeps the limit is that only the scheduler thread *)
(* increments, so that between the two it can only get smaller.                       *)

HandingOver == IF spc = "spawn" THEN 1 ELSE 0

BatchSlots ==
  /\ Cardinality(Counted) + HandingOver <= active
  /\ ~SpawnMayFail => active = Cardinality(Counted) + HandingOver
  /\ active <= MaxConcurrent
  /\ spc \in {"filter", "increment"} => active < MaxConcurrent

LEMMA CountedFinite == IsFiniteSet(Counted) /\ Cardinality(Counted) \in Nat
<1>1. IsFiniteSet(ExecThreads) /\ Counted \subseteq ExecThreads
  BY ThreadsAssumption DEF Counted
<1> QED
  BY <1>1, FS_Subset, FS_CardinalityType, Zenon

LEMMA CountedPrime == Counted' = {e \in ExecThreads : epc'[e] \notin {"free", "post"}}
  BY DEF Counted

\* A step that counts no batch and grants no slot.
LEMMA SlotsUntouched ==
  ASSUME BatchSlots, UNCHANGED active, Counted' = Counted, spc' = "spawn" <=> spc = "spawn",
         spc' \in {"filter", "increment"} => active < MaxConcurrent
  PROVE  BatchSlots'
  BY DEF BatchSlots, HandingOver

LEMMA SlotsInit == Init => BatchSlots
<1> SUFFICES ASSUME Init PROVE BatchSlots
  OBVIOUS
<1>1. Counted = {}
  BY DEF Init, Counted
<1>2. Cardinality(Counted) = 0
  BY <1>1, FS_EmptySet
<1> QED
  BY <1>2, LimitsAssumption DEF Init, BatchSlots, HandingOver

LEMMA SlotsScheduler ==
  ASSUME TypeOK, BatchSlots, Run PROVE BatchSlots'
<1> active \in Int /\ MaxConcurrent \in Nat /\ Cardinality(Counted) \in Nat
  BY CountedFinite, LimitsAssumption DEF TypeOK
<1>1. CASE SemWait \/ CleanupExpired \/ Window \/ Sleep \/ CollectBatch \/ SlotTaken
            \/ SlotWait \/ Drop \/ DropEnd
  <2>1. UNCHANGED <<active, epc>> /\ spc # "spawn" /\ spc' \notin {"spawn", "filter", "increment"}
    BY <1>1 DEF SemWait, CleanupExpired, CleanOne, CleanEnd, Window, Sleep, CollectBatch, Take,
                CollectOne, CollectEnd, SlotTaken, SlotWait, Drop, DropEnd
  <2> QED
    BY <2>1, SlotsUntouched DEF Counted
<1>2. CASE SlotFree
  <2>1. UNCHANGED <<active, epc>> /\ spc # "spawn" /\ spc' # "spawn"
        /\ (spc' \in {"filter", "increment"} => active < MaxConcurrent)
    BY <1>2 DEF SlotFree, SlotGranted
  <2> QED
    BY <2>1, SlotsUntouched DEF Counted
<1>3. CASE FilterBatch
  <2>1. UNCHANGED <<active, epc>> /\ spc = "filter" /\ spc' # "spawn"
    BY <1>3 DEF FilterBatch, FilterExpired, FilterValid, FilterEnd
  <2> QED
    BY <2>1, SlotsUntouched DEF Counted, BatchSlots
<1>4. CASE Increment
  <2>1. active' = active + 1 /\ UNCHANGED epc /\ spc = "increment" /\ spc' = "spawn"
    BY <1>4 DEF Increment
  <2>2. Counted' = Counted
    BY <2>1 DEF Counted
  <2> QED
    BY <2>1, <2>2 DEF BatchSlots, HandingOver
<1>5. CASE Spawn
  <2>1. PICK e \in ExecThreads : epc[e] = "free" /\ epc' = [epc EXCEPT ![e] = "start"]
    BY <1>5 DEF Spawn
  <2>2. UNCHANGED active /\ spc = "spawn" /\ spc' = "sem"
    BY <1>5 DEF Spawn
  <2>3. Counted' = Counted \cup {e} /\ e \notin Counted
    BY <2>1 DEF Counted, TypeOK
  <2>4. Cardinality(Counted') = Cardinality(Counted) + 1
    BY <2>3, CountedFinite, FS_AddElement
  <2> QED
    BY <2>2, <2>4 DEF BatchSlots, HandingOver
<1>6. CASE SpawnFailure
  <2>1. UNCHANGED <<active, epc>> /\ spc = "spawn" /\ spc' = "sem" /\ SpawnMayFail
    BY <1>6 DEF SpawnFailure
  <2>2. Counted' = Counted
    BY <2>1 DEF Counted
  <2> QED
    BY <2>1, <2>2 DEF BatchSlots, HandingOver
<1> QED
  BY <1>1, <1>2, <1>3, <1>4, <1>5, <1>6 DEF Run, Dispatch

LEMMA SlotsExec ==
  ASSUME TypeOK, BatchSlots, NEW e \in ExecThreads, ExecuteBatch(e) \/ Infer(e) \/ Decrement(e)
  PROVE  BatchSlots'
<1> active \in Int /\ MaxConcurrent \in Nat /\ Cardinality(Counted) \in Nat
  BY CountedFinite, LimitsAssumption DEF TypeOK
<1> UNCHANGED spc
  BY DEF ExecuteBatch, ReadInputs, WriteBack, WriteBackEnd, PostSlot, MarkDone, MarkComplete,
         MarkSignal, Infer, Decrement
<1>1. CASE ExecuteBatch(e) \/ Infer(e)
  <2>1. UNCHANGED active
    BY <1>1 DEF ExecuteBatch, ReadInputs, WriteBack, WriteBackEnd, PostSlot, MarkDone,
                MarkComplete, MarkSignal, Infer
  <2>2. \A f \in ExecThreads : epc'[f] \in {"free", "post"} <=> epc[f] \in {"free", "post"}
    BY <1>1 DEF TypeOK, ExecuteBatch, ReadInputs, WriteBack, WriteBackEnd, PostSlot, MarkDone,
                MarkComplete, MarkSignal, Infer
  <2>3. Counted' = Counted
    BY <2>2 DEF Counted
  <2> QED
    BY <2>1, <2>3, SlotsUntouched DEF BatchSlots
<1>2. CASE Decrement(e)
  <2>1. active' = active - 1 /\ epc[e] = "decrement" /\ epc' = [epc EXCEPT ![e] = "post"]
    BY <1>2 DEF Decrement
  <2>2. Counted' = Counted \ {e} /\ e \in Counted
    BY <2>1 DEF Counted, TypeOK
  <2>3. Cardinality(Counted') = Cardinality(Counted) - 1
    BY <2>2, CountedFinite, FS_RemoveElement
  <2> QED
    BY <2>1, <2>3 DEF BatchSlots, HandingOver
<1> QED
  BY <1>1, <1>2

LEMMA SlotsStep == TypeOK /\ BatchSlots /\ [Next]_vars => BatchSlots'
<1> SUFFICES ASSUME TypeOK, BatchSlots, [Next]_vars PROVE BatchSlots'
  OBVIOUS
<1>1. CASE Tick \/ Stop \/ UNCHANGED vars
           \/ (\E w \in Workers : Begin(w) \/ EnqueueTask(w) \/ WaitForTask(w) \/ SpuriousWakeup(w))
           \/ MarkDone(Scheduler)
  <2>1. UNCHANGED <<active, epc, spc>>
    BY <1>1 DEF Tick, Stop, StopClear, StopPost, Begin, EnqueueTask, Accept, Reject, WaitForTask,
                Post, Wait, TimeOut, Wake, Respond, SpuriousWakeup, MarkDone, MarkComplete, MarkSignal
  <2> QED
    BY <2>1, SlotsUntouched DEF Counted, BatchSlots
<1>2. CASE Run
  BY <1>2, SlotsScheduler
<1>3. ASSUME NEW e \in ExecThreads, ExecuteBatch(e) \/ Infer(e) \/ Decrement(e) PROVE BatchSlots'
  BY <1>3, SlotsExec
<1> QED
  BY <1>1, <1>2, <1>3 DEF Next

LEMMA SlotsInvariant == Spec => []BatchSlots
  BY SlotsInit, SlotsStep, TypeCorrect, PTL DEF Spec

\* active_batch_count_ is exactly the number of batches that hold a slot, if every
\* pthread_create succeeds.
THEOREM SlotsAreAccounted == Spec => []SlotsAccounted
<1>1. BatchSlots => SlotsAccounted
  BY DEF BatchSlots, SlotsAccounted, ActiveIsExact, HandingOver
<1> QED
  BY <1>1, SlotsInvariant, PTL

\* There are never more than max_concurrent_batches_ batches with the engine, for any limit
\* and any number of threads, also when pthread_create fails.
THEOREM ConcurrencyIsLimited == Spec => []ConcurrencyLimit
<1>1. BatchSlots /\ TypeOK => ConcurrencyLimit
  <2> SUFFICES ASSUME BatchSlots, TypeOK PROVE ConcurrencyLimit
    OBVIOUS
  <2> DEFINE R == {e \in ExecThreads : epc[e] \in {"start", "infer"}}
  <2>1. R \subseteq Counted
    BY DEF Counted
  <2>2. IsFiniteSet(R) /\ Cardinality(R) <= Cardinality(Counted)
    BY <2>1, CountedFinite, FS_Subset
  <2>3. Cardinality(R) \in Nat /\ Cardinality(Counted) \in Nat
    BY <2>2, CountedFinite, FS_CardinalityType
  <2> HIDE DEF R
  <2>4. Cardinality(R) <= MaxConcurrent
    BY <2>2, <2>3, LimitsAssumption DEF BatchSlots, HandingOver, TypeOK
  <2> QED
    BY <2>4 DEF R, ConcurrencyLimit
<1> QED
  BY <1>1, SlotsInvariant, TypeCorrect, PTL

-----------------------------------------------------------------------------
(* The length of the queues *)

LEMMA RemoveAtLength ==
  ASSUME NEW s \in Seq(Pointer), NEW i \in DOMAIN s PROVE Len(RemoveAt(s, i)) = Len(s) - 1
  BY DEF RemoveAt

\* A step that enqueues nothing leaves no queue longer.
LEMMA QueuesShrink ==
  ASSUME TypeOK, [Next]_vars, ~(\E w \in Workers : Accept(w))
  PROVE  \A c \in Classes : Len(queue'[c]) <= Len(queue[c])
<1> queue \in [Classes -> Seq(Pointer)]
  BY DEF TypeOK
<1>1. CASE UNCHANGED queue
  BY <1>1
<1>2. CASE CleanOne
  <2>1. PICK c \in Classes : \E i \in DOMAIN queue[c] : queue' = [queue EXCEPT ![c] = RemoveAt(@, i)]
    BY <1>2 DEF CleanOne
  <2>2. PICK i \in DOMAIN queue[c] : queue' = [queue EXCEPT ![c] = RemoveAt(@, i)]
    BY <2>1
  <2>3. Len(RemoveAt(queue[c], i)) = Len(queue[c]) - 1
    BY RemoveAtLength
  <2>4. \A d \in Classes : Len(queue[d]) \in Nat
    OBVIOUS
  <2> QED
    BY <2>2, <2>3, <2>4
<1>3. CASE CollectOne
  <2>1. PICK c \in Classes : queue[c] # << >> /\ queue' = [queue EXCEPT ![c] = Tail(@)]
    BY <1>3 DEF CollectOne, NextClass, Popped
  <2> QED
    BY <2>1
<1> QED
  BY <1>1, <1>2, <1>3 DEF Next, Tick, Stop, StopClear, StopPost, Begin, EnqueueTask, Reject,
       WaitForTask, Post, Wait, TimeOut, Wake, Respond, SpuriousWakeup, Run, SemWait,
       CleanupExpired, CleanEnd, Window, Sleep, CollectBatch, Take, CollectEnd, SlotTaken,
       SlotWait, SlotFree, Drop, DropEnd, FilterBatch, FilterExpired, FilterValid, FilterEnd,
       Dispatch, Increment, Spawn, SpawnFailure, MarkDone, MarkComplete, MarkSignal,
       ExecuteBatch, ReadInputs, WriteBack, WriteBackEnd, PostSlot, Infer, Decrement

LEMMA QueueStep == TypeOK /\ QueueLimit /\ [Next]_vars => QueueLimit'
<1> SUFFICES ASSUME TypeOK, QueueLimit, [Next]_vars, MaxQueueSize > 0
             PROVE  PendingCount' <= MaxQueueSize
  BY DEF QueueLimit
<1>1. queue \in [Classes -> Seq(Pointer)] /\ MaxQueueSize \in Nat
  BY LimitsAssumption DEF TypeOK
<1>2. /\ Len(queue[0]) \in Nat /\ Len(queue[1]) \in Nat /\ Len(queue[2]) \in Nat
  BY <1>1 DEF Classes
<1>3. ASSUME NEW w \in Workers, Accept(w) PROVE PendingCount' <= MaxQueueSize
  <2> DEFINE c == ClassOf(task[w].priority)
             p == [addr |-> w, id |-> nextId, cls |-> c]
  <2>1. queue' = [queue EXCEPT ![c] = Append(queue[c], p)] /\ HasRoom
    BY <1>3 DEF Accept
  <2>2. c \in Classes
    BY DEF ClassOf, Classes
  <2>3. p \in Pointer
    BY <1>3, <2>2 DEF Pointer, TypeOK
  <2>4. /\ queue'[c] = Append(queue[c], p)
        /\ \A d \in Classes \ {c} : queue'[d] = queue[d]
    BY <1>1, <2>1, <2>2
  <2>5. Len(queue'[c]) = Len(queue[c]) + 1
    BY <1>1, <2>2, <2>3, <2>4
  <2>t. queue' \in [Classes -> Seq(Pointer)]
    BY TypeStep DEF TypeOK
  <2> HIDE DEF c, p
  <2>6. PendingCount' = PendingCount + 1
    <3>1. c = 0 \/ c = 1 \/ c = 2
      BY <2>2 DEF Classes
    <3>2. CASE c = 0
      <4>1. Len(queue'[1]) = Len(queue[1]) /\ Len(queue'[2]) = Len(queue[2])
        BY <2>4, <3>2 DEF Classes
      <4>2. Len(queue'[0]) = Len(queue[0]) + 1
        BY <2>5, <3>2
      <4> QED
        BY <1>1, <1>2, <2>t, <4>1, <4>2 DEF PendingCount, Classes
    <3>3. CASE c = 1
      <4>1. Len(queue'[0]) = Len(queue[0]) /\ Len(queue'[2]) = Len(queue[2])
        BY <2>4, <3>3 DEF Classes
      <4>2. Len(queue'[1]) = Len(queue[1]) + 1
        BY <2>5, <3>3
      <4> QED
        BY <1>1, <1>2, <2>t, <4>1, <4>2 DEF PendingCount, Classes
    <3>4. CASE c = 2
      <4>1. Len(queue'[0]) = Len(queue[0]) /\ Len(queue'[1]) = Len(queue[1])
        BY <2>4, <3>4 DEF Classes
      <4>2. Len(queue'[2]) = Len(queue[2]) + 1
        BY <2>5, <3>4
      <4> QED
        BY <1>1, <1>2, <2>t, <4>1, <4>2 DEF PendingCount, Classes
    <3> QED
      BY <3>1, <3>2, <3>3, <3>4
  <2>7. PendingCount \in Nat
    BY <1>1, <1>2 DEF PendingCount, Classes
  <2> QED
    BY <1>1, <2>1, <2>6, <2>7 DEF HasRoom
<1>4. CASE ~(\E w \in Workers : Accept(w))
  <2>1. \A c \in Classes : Len(queue'[c]) <= Len(queue[c])
    BY <1>4, QueuesShrink
  <2>2. queue' \in [Classes -> Seq(Pointer)]
    BY TypeStep DEF TypeOK
  <2> QED
    BY <1>1, <1>2, <2>1, <2>2 DEF QueueLimit, PendingCount, Classes
<1> QED
  BY <1>3, <1>4

\* max_queue_size_, if it is not 0, bounds the three queues together, whatever the number of
\* workers that race to enqueue.
THEOREM QueueIsLimited == Spec => []QueueLimit
<1>1. Init => QueueLimit
  BY LimitsAssumption DEF Init, QueueLimit, PendingCount, Classes
<1> QED
  BY <1>1, QueueStep, TypeCorrect, PTL DEF Spec

-----------------------------------------------------------------------------
(* What a step does to a task *)

\* Marking p done: completed of the frame at its address.
Completes(t, w) ==
  /\ MarkComplete(t) /\ mptr[t].addr = w /\ mptr[t] \in Pointer
  /\ task'[w] = [task[w] EXCEPT !.completed = TRUE]

\* Giving p up: timeout of the frame at its address, if its deadline has passed or the
\* scheduler is stopped.
Expires(w) ==
  /\ \E p \in Pointer : Expire(p) /\ p.addr = w
  /\ task'[w] = [task[w] EXCEPT !.timeout = TRUE]
  /\ task[w].deadline < snow \/ spc = "drop"

\* A result: success, and output unless the engine failed.
Fills(e, w) ==
  /\ WriteBack(e) /\ Head(ebatch[e]) \in Pointer /\ Head(ebatch[e]).addr = w
  /\ ebatch[e] # << >> /\ edata[e] # << >>
  /\ task'[w] = IF Head(edata[e]) = Null THEN [task[w] EXCEPT !.success = FALSE]
                ELSE [task[w] EXCEPT !.success = TRUE, !.output = Head(edata[e])]

\* What can happen to a frame that is there and stays there.
TaskChanges(w) ==
  \/ task'[w] = task[w]
  \/ Begin(w)
  \/ Accept(w) /\ task'[w] = [task[w] EXCEPT !.id = nextId]
  \/ TimeOut(w) /\ task'[w] = [task[w] EXCEPT !.timeout = TRUE, !.completed = TRUE]
  \/ \E t \in Threads : Completes(t, w)
  \/ Run /\ Expires(w)
  \/ \E e \in ExecThreads : Fills(e, w)

LEMMA WriteReaches ==
  ASSUME TypeOK, NEW p \in Pointer, NEW t, WriteTask(p, t), NEW w \in Workers, Live(w)
  PROVE  task'[w] = task[w] \/ (p.addr = w /\ task'[w] = t)
  BY DEF TypeOK, WriteTask, Pointer, Live

LEMMA ChangesWorker ==
  ASSUME TypeOK, NEW v \in Workers, NEW w \in Workers, Live(w), Live(w)',
         Begin(v) \/ EnqueueTask(v) \/ WaitForTask(v) \/ SpuriousWakeup(v)
  PROVE  TaskChanges(w)
<1>1. CASE v # w
  <2>1. task'[w] = task[w]
    BY <1>1 DEF TypeOK, Begin, EnqueueTask, Accept, Reject, WaitForTask, Post, Wait, TimeOut, Wake,
                Respond, SpuriousWakeup
  <2> QED
    BY <2>1 DEF TaskChanges
<1>2. CASE v = w
  <2>1. CASE Accept(w)
    <3>1. task'[w] = [task[w] EXCEPT !.id = nextId]
      BY <2>1 DEF Accept, TypeOK
    <3> QED
      BY <2>1, <3>1 DEF TaskChanges
  <2>2. CASE TimeOut(w)
    <3>1. task'[w] = [task[w] EXCEPT !.timeout = TRUE, !.completed = TRUE]
      BY <2>2 DEF TimeOut, TypeOK
    <3> QED
      BY <2>2, <3>1 DEF TaskChanges
  <2>3. CASE Begin(w)
    BY <2>3 DEF TaskChanges
  <2>4. CASE Reject(w) \/ Respond(w)
    BY <2>4 DEF Reject, Respond, Live, TypeOK
  <2>5. CASE Post(w) \/ Wait(w) \/ Wake(w) \/ SpuriousWakeup(w)
    <3>1. task' = task
      BY <2>5 DEF Post, Wait, Wake, SpuriousWakeup
    <3> QED
      BY <3>1 DEF TaskChanges
  <2> QED
    BY <1>2, <2>1, <2>2, <2>3, <2>4, <2>5 DEF EnqueueTask, WaitForTask
<1> QED
  BY <1>1, <1>2

LEMMA ChangesScheduler ==
  ASSUME TypeOK, Run, NEW w \in Workers, Live(w)
  PROVE  TaskChanges(w)
<1>1. ASSUME NEW p \in Pointer, Expire(p), LooksExpired(p) \/ spc = "drop"
      PROVE  TaskChanges(w)
  <2>1. WriteTask(p, [task[p.addr] EXCEPT !.timeout = TRUE])
    BY <1>1 DEF Expire
  <2>2. task'[w] = task[w] \/ (p.addr = w /\ task'[w] = [task[w] EXCEPT !.timeout = TRUE])
    BY <2>1, WriteReaches
  <2>3. p.addr = w => task[w].deadline < snow \/ spc = "drop"
    BY <1>1 DEF LooksExpired
  <2> QED
    BY <1>1, <2>2, <2>3 DEF TaskChanges, Expires
<1>2. CASE CleanOne
  <2>1. PICK c \in Classes : \E i \in DOMAIN queue[c] : LooksExpired(queue[c][i]) /\ Expire(queue[c][i])
    BY <1>2 DEF CleanOne
  <2>2. PICK i \in DOMAIN queue[c] : LooksExpired(queue[c][i]) /\ Expire(queue[c][i])
    BY <2>1
  <2>3. queue[c][i] \in Pointer
    BY DEF TypeOK
  <2> QED
    BY <1>1, <2>2, <2>3
<1>3. CASE Drop \/ FilterExpired
  <2>1. Expire(Head(held)) /\ Head(held) \in Pointer /\ (LooksExpired(Head(held)) \/ spc = "drop")
    BY <1>3 DEF Drop, FilterExpired, TypeOK
  <2> QED
    BY <1>1, <2>1
<1>4. CASE ~(CleanOne \/ Drop \/ FilterExpired)
  <2>1. task' = task
    BY <1>4 DEF Run, SemWait, CleanupExpired, CleanEnd, Window, Sleep, CollectBatch, Take,
       CollectOne, CollectEnd, SlotTaken, SlotWait, SlotFree, DropEnd, FilterBatch,
       FilterValid, FilterEnd, Dispatch, Increment, Spawn, SpawnFailure
  <2> QED
    BY <2>1 DEF TaskChanges
<1> QED
  BY <1>2, <1>3, <1>4

LEMMA ChangesMarkDone ==
  ASSUME TypeOK, NEW t \in Threads, MarkDone(t), NEW w \in Workers, Live(w)
  PROVE  TaskChanges(w)
<1>1. CASE MarkComplete(t)
  <2>1. mptr[t] \in Pointer
        /\ WriteTask(mptr[t], [task[mptr[t].addr] EXCEPT !.completed = TRUE])
    BY <1>1 DEF MarkComplete, TypeOK
  <2>2. task'[w] = task[w]
          \/ (mptr[t].addr = w /\ task'[w] = [task[mptr[t].addr] EXCEPT !.completed = TRUE])
    BY <2>1, WriteReaches
  <2> QED
    BY <1>1, <2>1, <2>2 DEF TaskChanges, Completes
<1>2. CASE MarkSignal(t)
  BY <1>2 DEF MarkSignal, TaskChanges
<1> QED
  BY <1>1, <1>2 DEF MarkDone

LEMMA ChangesExec ==
  ASSUME TypeOK, NEW e \in ExecThreads, NEW w \in Workers, Live(w),
         ReadInputs(e) \/ Infer(e) \/ WriteBack(e) \/ WriteBackEnd(e) \/ Decrement(e) \/ PostSlot(e)
  PROVE  TaskChanges(w)
<1>1. CASE WriteBack(e)
  <2> DEFINE p == Head(ebatch[e])
             r == Head(edata[e])
             t == IF r = Null THEN [task[p.addr] EXCEPT !.success = FALSE]
                    ELSE [task[p.addr] EXCEPT !.success = TRUE, !.output = r]
  <2>1. WriteTask(p, t) /\ p \in Pointer /\ ebatch[e] # << >> /\ edata[e] # << >>
    BY <1>1 DEF WriteBack, ResultOf, TypeOK
  <2>2. task'[w] = task[w] \/ (p.addr = w /\ task'[w] = t)
    BY <2>1, WriteReaches
  <2> QED
    BY <1>1, <2>1, <2>2 DEF TaskChanges, Fills
<1>2. CASE ~WriteBack(e)
  BY <1>2 DEF ReadInputs, Infer, WriteBackEnd, Decrement, PostSlot, TaskChanges
<1> QED
  BY <1>1, <1>2

LEMMA ChangesStep ==
  ASSUME TypeOK, [Next]_vars, NEW w \in Workers, Live(w), Live(w)'
  PROVE  TaskChanges(w)
<1>1. CASE Tick \/ Stop \/ UNCHANGED vars
  BY <1>1 DEF Tick, Stop, StopClear, StopPost, TaskChanges
<1>2. ASSUME NEW v \in Workers,
             Begin(v) \/ EnqueueTask(v) \/ WaitForTask(v) \/ SpuriousWakeup(v)
      PROVE  TaskChanges(w)
  BY <1>2, ChangesWorker
<1>3. CASE Run
  BY <1>3, ChangesScheduler
<1>4. ASSUME NEW t \in Threads, MarkDone(t) PROVE TaskChanges(w)
  BY <1>4, ChangesMarkDone
<1>5. ASSUME NEW e \in ExecThreads, ExecuteBatch(e) \/ Infer(e) \/ Decrement(e)
      PROVE  TaskChanges(w)
  BY <1>4, <1>5, ChangesExec DEF ExecuteBatch, Threads
<1> QED
  BY <1>1, <1>2, <1>3, <1>4, <1>5 DEF Next, Threads

\* A frame comes into being only with a request.
LEMMA FrameBegins ==
  ASSUME TypeOK, [Next]_vars, NEW w \in Workers, ~Live(w), Live(w)'
  PROVE  Begin(w)
<1> USE DEF TypeOK
<1>1. wpc[w] = "idle" /\ wpc'[w] # "idle"
  BY TypeStep DEF Live
<1>2. CASE Tick \/ Stop \/ UNCHANGED vars
  BY <1>1, <1>2 DEF Tick, Stop, StopClear, StopPost
<1>3. ASSUME NEW v \in Workers,
             Begin(v) \/ EnqueueTask(v) \/ WaitForTask(v) \/ SpuriousWakeup(v)
      PROVE  Begin(w)
  BY <1>1, <1>3 DEF Begin, EnqueueTask, Accept, Reject, WaitForTask, Post, Wait, TimeOut, Wake,
                    Respond, SpuriousWakeup
<1>4. CASE Run
  <2>1. wpc' = wpc
    BY <1>4 DEF Run, SemWait, CleanupExpired, CleanOne, CleanEnd, Window, Sleep, CollectBatch, Take,
       CollectOne, CollectEnd, SlotTaken, SlotWait, SlotFree, Drop, DropEnd, FilterBatch,
       FilterExpired, FilterValid, FilterEnd, Dispatch, Increment, Spawn, SpawnFailure
  <2> QED
    BY <1>1, <2>1
<1>5. ASSUME NEW t \in Threads, MarkDone(t) PROVE Begin(w)
  BY <1>1, <1>5 DEF MarkDone, MarkComplete, MarkSignal
<1>6. ASSUME NEW e \in ExecThreads, ExecuteBatch(e) \/ Infer(e) \/ Decrement(e) PROVE Begin(w)
  BY <1>1, <1>5, <1>6 DEF ExecuteBatch, ReadInputs, WriteBack, WriteBackEnd, PostSlot, Infer,
                          Decrement, Threads
<1> QED
  BY <1>2, <1>3, <1>4, <1>5, <1>6 DEF Next, Threads

-----------------------------------------------------------------------------
(* No timeout comes early *)

\* Why timeout is set.  The scheduler's local now is never ahead of the clock, and it drops
\* a batch without a look at the deadlines only when running_ is cleared.
TimeoutReason(w) ==
  \/ Seconds > task[w].deadline
  \/ ~Running
  \/ wpc[w] = "respond" /\ clock >= wabs[w]

TimeoutsHaveReasons ==
  /\ snow <= Seconds
  /\ spc = "drop" => ~Running
  /\ \A w \in Workers : Live(w) /\ task[w].timeout => TimeoutReason(w)

LEMMA SecondsGrow == \A c \in Nat : c \div TicksPerSec \in Nat
                                     /\ (c + 1) \div TicksPerSec >= c \div TicksPerSec
  BY ClockAssumption

\* The clock and stop only go forward; the scheduler's now is read off the clock.
LEMMA OnlyForward ==
  ASSUME TypeOK, [Next]_vars
  PROVE  /\ clock' >= clock /\ Seconds' >= Seconds
         /\ ~Running => ~Running'
         /\ snow' \in {snow, 0, Seconds}
         /\ spc' = "drop" => spc = "drop" \/ ~Running'
<1> USE DEF TypeOK
<1>1. CASE Tick
  BY <1>1, SecondsGrow DEF Tick, Seconds, Running
<1>2. CASE ~Tick
  <2>1. /\ UNCHANGED clock
        /\ mpc = "serving" \/ mpc' # "serving"
        /\ snow' \in {snow, 0, Seconds}
        /\ spc' = "drop" => spc = "drop" \/ (~Running /\ UNCHANGED mpc)
    <3> USE DEF Next, Stop, StopClear, StopPost, Begin, EnqueueTask, Accept, Reject, WaitForTask, Post,
              Wait, TimeOut, Wake, Respond, SpuriousWakeup, Run, SemWait, CleanupExpired,
              CleanOne, CleanEnd, Window, Sleep, CollectBatch, Take, CollectOne,
              CollectEnd, SlotTaken, SlotWait, SlotFree, Drop, DropEnd, FilterBatch,
              FilterExpired, FilterValid, FilterEnd, Dispatch, Increment, Spawn,
              SpawnFailure, MarkDone, MarkComplete, MarkSignal, ExecuteBatch, ReadInputs,
              WriteBack, WriteBackEnd, PostSlot, Infer, Decrement
    <3>1. UNCHANGED clock
      BY <1>2
    <3>2. mpc = "serving" \/ mpc' # "serving"
      BY <1>2
    <3>3. snow' \in {snow, 0, Seconds}
      BY <1>2
    <3>4. spc' = "drop" => spc = "drop" \/ (~Running /\ UNCHANGED mpc)
      BY <1>2
    <3> QED
      BY <3>1, <3>2, <3>3, <3>4
  <2>2. Seconds' = Seconds /\ Seconds \in Nat /\ clock \in Nat
    BY <2>1, SecondsType DEF Seconds
  <2> QED
    BY <2>1, <2>2 DEF Running
<1> QED
  BY <1>1, <1>2

LEMMA TimesType ==
  ASSUME TypeOK, TypeOK'
  PROVE  clock \in Nat /\ clock' \in Nat /\ Seconds \in Nat /\ Seconds' \in Nat /\ snow \in Nat
<1>1. clock \in Nat /\ clock' \in Nat /\ snow \in Nat
  BY DEF TypeOK
<1> QED
  BY <1>1, SecondsGrow DEF Seconds

\* Only the end of the request ends "respond".
LEMMA RespondStays ==
  ASSUME TypeOK, [Next]_vars, NEW w \in Workers, wpc[w] = "respond"
  PROVE  Respond(w) \/ (wpc'[w] = "respond" /\ wabs'[w] = wabs[w])
<1> USE DEF TypeOK
<1>1. CASE Tick \/ Stop \/ UNCHANGED vars
  BY <1>1 DEF Tick, Stop, StopClear, StopPost
<1>2. ASSUME NEW v \in Workers,
             Begin(v) \/ EnqueueTask(v) \/ WaitForTask(v) \/ SpuriousWakeup(v)
      PROVE  Respond(w) \/ (wpc'[w] = "respond" /\ wabs'[w] = wabs[w])
  BY <1>2 DEF Begin, EnqueueTask, Accept, Reject, WaitForTask, Post, Wait, TimeOut, Wake,
              Respond, SpuriousWakeup
<1>3. CASE Run
  <2>1. UNCHANGED <<wpc, wabs>>
    BY <1>3 DEF Run, SemWait, CleanupExpired, CleanOne, CleanEnd, Window, Sleep, CollectBatch, Take,
       CollectOne, CollectEnd, SlotTaken, SlotWait, SlotFree, Drop, DropEnd, FilterBatch,
       FilterExpired, FilterValid, FilterEnd, Dispatch, Increment, Spawn, SpawnFailure
  <2> QED
    BY <2>1
<1>4. ASSUME NEW t \in Threads, MarkDone(t) PROVE wpc'[w] = "respond" /\ wabs'[w] = wabs[w]
  BY <1>4 DEF MarkDone, MarkComplete, MarkSignal
<1>5. ASSUME NEW e \in ExecThreads, ExecuteBatch(e) \/ Infer(e) \/ Decrement(e)
      PROVE  wpc'[w] = "respond" /\ wabs'[w] = wabs[w]
  BY <1>4, <1>5 DEF ExecuteBatch, ReadInputs, WriteBack, WriteBackEnd, PostSlot, Infer,
                    Decrement, Threads
<1> QED
  BY <1>1, <1>2, <1>3, <1>4, <1>5 DEF Next, Threads

\* A frame that was there keeps its deadline; a new one has not timed out.
LEMMA ReasonStep ==
  ASSUME TypeOK, TimeoutsHaveReasons, [Next]_vars, NEW w \in Workers, Live(w)', task'[w].timeout
  PROVE  TimeoutReason(w)'
<1>1. CASE ~Live(w)
  <2>1. Begin(w)
    BY <1>1, FrameBegins
  <2>2. task'[w].timeout = FALSE
    BY <2>1 DEF Begin, TypeOK
  <2> QED
    BY <2>2
<1>2. CASE Live(w)
  <2> task[w] \in Task
    BY <1>2, LiveTask
  <2>0. /\ clock \in Nat /\ clock' \in Nat /\ Seconds \in Nat /\ Seconds' \in Nat
        /\ snow \in Nat
    BY TypeStep, TimesType
  <2>d. task[w].deadline \in Nat /\ wabs[w] \in Nat
    BY DEF Task, TypeOK
  <2>1. TaskChanges(w)
    BY <1>2, ChangesStep
  <2>2. ASSUME task'[w].timeout = task[w].timeout, task'[w].deadline = task[w].deadline,
               wpc[w] = "respond" => wpc'[w] = "respond" /\ wabs'[w] = wabs[w]
        PROVE  TimeoutReason(w)'
    <3>1. TimeoutReason(w)
      BY <1>2, <2>2 DEF TimeoutsHaveReasons
    <3> QED
      BY <2>0, <2>d, <2>2, <3>1, OnlyForward DEF TimeoutReason
  <2>3. wpc[w] = "respond" => wpc'[w] = "respond" /\ wabs'[w] = wabs[w]
    <3>1. ASSUME wpc[w] = "respond" PROVE ~Respond(w)
      BY <1>2 DEF Respond, Live, TypeOK
    <3> QED
      BY <3>1, RespondStays
  <2>4. CASE task'[w] = task[w]
    BY <2>2, <2>3, <2>4
  <2>5. CASE Begin(w)
    BY <1>2, <2>5 DEF Begin, Live, TypeOK
  <2>6. CASE task'[w] = [task[w] EXCEPT !.id = nextId]
    <3>1. task'[w].timeout = task[w].timeout /\ task'[w].deadline = task[w].deadline
      BY <2>6 DEF Task
    <3> QED
      BY <2>2, <2>3, <3>1
  <2>7. CASE TimeOut(w)
    <3>1. /\ wpc'[w] = "respond" /\ clock >= wabs[w] /\ UNCHANGED <<clock, wabs>>
      BY <2>7 DEF TimeOut, TimeIsUp, TypeOK
    <3> QED
      BY <2>0, <2>d, <3>1 DEF TimeoutReason
  <2>8. CASE \E t \in Threads : Completes(t, w)
    <3>1. task'[w] = [task[w] EXCEPT !.completed = TRUE]
      BY <2>8 DEF Completes
    <3>2. task'[w].timeout = task[w].timeout /\ task'[w].deadline = task[w].deadline
      BY <3>1 DEF Task
    <3> QED
      BY <2>2, <2>3, <3>2
  <2>9. CASE Run /\ Expires(w)
    <3>1. task'[w] = [task[w] EXCEPT !.timeout = TRUE]
          /\ (task[w].deadline < snow \/ spc = "drop")
      BY <2>9 DEF Expires
    <3>2. task'[w].deadline = task[w].deadline
      BY <3>1 DEF Task
    <3>3. snow <= Seconds /\ (spc = "drop" => ~Running)
      BY DEF TimeoutsHaveReasons
    <3> QED
      BY <2>0, <2>d, <3>1, <3>2, <3>3, OnlyForward DEF TimeoutReason
  <2>10. CASE \E e \in ExecThreads : Fills(e, w)
    <3>1. PICK e \in ExecThreads : Fills(e, w)
      BY <2>10
    <3>2. task'[w].timeout = task[w].timeout /\ task'[w].deadline = task[w].deadline
      BY <3>1 DEF Fills, Task
    <3> QED
      BY <2>2, <2>3, <3>2
  <2> QED
    BY <2>1, <2>4, <2>5, <2>6, <2>7, <2>8, <2>9, <2>10 DEF TaskChanges
<1> QED
  BY <1>1, <1>2

LEMMA ReasonsStep == TypeOK /\ TimeoutsHaveReasons /\ [Next]_vars => TimeoutsHaveReasons'
<1> SUFFICES ASSUME TypeOK, TimeoutsHaveReasons, [Next]_vars PROVE TimeoutsHaveReasons'
  OBVIOUS
<1>1. Seconds \in Nat /\ Seconds' \in Nat /\ snow \in Nat
  BY TypeStep, TimesType
<1>2. snow' <= Seconds'
  BY <1>1, OnlyForward DEF TimeoutsHaveReasons
<1>3. spc' = "drop" => ~Running'
  BY OnlyForward DEF TimeoutsHaveReasons
<1>4. \A w \in Workers : Live(w)' /\ task'[w].timeout => TimeoutReason(w)'
  BY ReasonStep
<1> QED
  BY <1>2, <1>3, <1>4 DEF TimeoutsHaveReasons

\* "inference timeout" is answered only if the wait of the request has timed out, its deadline
\* has passed by the scheduler's clock, or the scheduler is being stopped; through whatever
\* pointer the scheduler wrote it, also one to an earlier request in the same frame.
THEOREM TimeoutsNotEarly == Spec => []TimeoutNotEarly
<1>1. Init => TimeoutsHaveReasons
  BY SecondsType DEF Init, TimeoutsHaveReasons, Live
<1>2. TypeOK /\ TimeoutsHaveReasons => TimeoutNotEarly
  BY DEF TypeOK, TimeoutsHaveReasons, TimeoutReason, TimeoutNotEarly, Live
<1> QED
  BY <1>1, <1>2, ReasonsStep, TypeCorrect, PTL DEF Spec

-----------------------------------------------------------------------------
(* A fresh request gets its own result, or its own failure.  A request is fresh if *)
(* nothing pointed to its frame when it began, so that whatever points there now    *)
(* has been put there for it.                                                       *)

\* Why a task may be marked done: it timed out, it has a result, or the engine failed.
Explained(w) == task[w].timeout \/ task[w].success \/ EngineMayFail

FreshFrame(w) == fresh[w] /\ Live(w)

\* The result that goes with a pointer to a fresh frame is that of the frame's input.
Matching(e, i, w) ==
  FreshFrame(w) /\ epc[e] \in {"infer", "write"} /\ i \in DOMAIN ebatch[e] /\ ebatch[e][i].addr = w
    => edata[e][i] = task[w].input \/ (EngineMayFail /\ edata[e][i] = Null)

ResultsMatch == \A e \in ExecThreads, i \in Nat, w \in Workers : Matching(e, i, w)

OutputsMatch ==
  \A w \in Workers : FreshFrame(w) /\ task[w].success => task[w].output = task[w].input

MarksExplained ==
  \A t \in Threads, w \in Workers :
    FreshFrame(w) /\ mstage[t] = "lock" /\ mptr[t].addr = w => Explained(w)

CompletionsExplained ==
  \A w \in Workers : FreshFrame(w) /\ task[w].completed => Explained(w)

RespondsWhenCompleted == \A w \in Workers : wpc[w] = "respond" => task[w].completed

OwnInv == ResultsMatch /\ OutputsMatch /\ MarksExplained /\ CompletionsExplained

LEMMA FreshnessStays ==
  ASSUME TypeOK, [Next]_vars, NEW w \in Workers, Live(w), Live(w)'
  PROVE  fresh'[w] = fresh[w]
<1> USE DEF TypeOK
<1>1. CASE Tick \/ Stop \/ UNCHANGED vars
  BY <1>1 DEF Tick, Stop, StopClear, StopPost
<1>2. ASSUME NEW v \in Workers,
             Begin(v) \/ EnqueueTask(v) \/ WaitForTask(v) \/ SpuriousWakeup(v)
      PROVE  fresh'[w] = fresh[w]
  BY <1>2 DEF Begin, EnqueueTask, Accept, Reject, WaitForTask, Post, Wait, TimeOut, Wake,
              Respond, SpuriousWakeup, Live
<1>3. CASE Run
  BY <1>3 DEF Run, SemWait, CleanupExpired, CleanOne, CleanEnd, Window, Sleep, CollectBatch, Take,
     CollectOne, CollectEnd, SlotTaken, SlotWait, SlotFree, Drop, DropEnd, FilterBatch,
     FilterExpired, FilterValid, FilterEnd, Dispatch, Increment, Spawn, SpawnFailure
<1>4. ASSUME NEW t \in Threads, MarkDone(t) PROVE fresh'[w] = fresh[w]
  BY <1>4 DEF MarkDone, MarkComplete, MarkSignal
<1>5. ASSUME NEW e \in ExecThreads, ExecuteBatch(e) \/ Infer(e) \/ Decrement(e)
      PROVE  fresh'[w] = fresh[w]
  BY <1>4, <1>5 DEF ExecuteBatch, ReadInputs, WriteBack, WriteBackEnd, PostSlot, Infer,
                    Decrement, Threads
<1> QED
  BY <1>1, <1>2, <1>3, <1>4, <1>5 DEF Next, Threads

\* What a frame that stays keeps: its input, and why its task may be marked done.
LEMMA FrameStays ==
  ASSUME TypeOK, [Next]_vars, NEW w \in Workers, Live(w), Live(w)'
  PROVE  /\ task'[w].input = task[w].input
         /\ Explained(w) => Explained(w)' \/ \E e \in ExecThreads : Fills(e, w)
         /\ task[w].completed => task'[w].completed
<1> task[w] \in Task
  BY LiveTask
<1>1. TaskChanges(w)
  BY ChangesStep
<1>2. CASE Begin(w)
  BY <1>2 DEF Begin, Live, TypeOK
<1>3. CASE task'[w] = task[w]
  BY <1>3 DEF Explained
<1>4. CASE task'[w] = [task[w] EXCEPT !.id = nextId]
  BY <1>4 DEF Explained, Task
<1>5. CASE TimeOut(w) /\ task'[w] = [task[w] EXCEPT !.timeout = TRUE, !.completed = TRUE]
  BY <1>5 DEF Explained, Task
<1>6. CASE \E t \in Threads : Completes(t, w)
  <2>1. task'[w] = [task[w] EXCEPT !.completed = TRUE]
    BY <1>6 DEF Completes
  <2> QED
    BY <2>1 DEF Explained, Task
<1>7. CASE Expires(w)
  <2>1. task'[w] = [task[w] EXCEPT !.timeout = TRUE]
    BY <1>7 DEF Expires
  <2> QED
    BY <2>1 DEF Explained, Task
<1>8. CASE \E e \in ExecThreads : Fills(e, w)
  <2>1. PICK e \in ExecThreads : Fills(e, w)
    BY <1>8
  <2> QED
    BY <2>1 DEF Fills, Task
<1> QED
  BY <1>1, <1>2, <1>3, <1>4, <1>5, <1>6, <1>7, <1>8 DEF TaskChanges

\* A request that begins fresh has no pointer to it anywhere.
LEMMA BeginsAlone ==
  ASSUME TypeOK, NEW w \in Workers, Begin(w), fresh'[w]
  PROVE  /\ \A e \in ExecThreads : \A i \in DOMAIN ebatch[e] : ebatch[e][i].addr # w
         /\ \A t \in Threads : mstage[t] # "none" => mptr[t].addr # w
         /\ UNCHANGED <<ebatch, mstage, mptr>>
         /\ task'[w].completed = FALSE /\ task'[w].success = FALSE
<1>1. \A p \in Pointers : p.addr # w
  BY DEF Begin, TypeOK
<1>2. ASSUME NEW e \in ExecThreads, NEW i \in DOMAIN ebatch[e] PROVE ebatch[e][i] \in Pointers
  BY DEF Pointers, Batch, Elements
<1>3. ASSUME NEW t \in Threads, mstage[t] # "none" PROVE mptr[t] \in Pointers
  BY <1>3 DEF Pointers, Marking
<1>4. UNCHANGED <<ebatch, mstage, mptr>> /\ task'[w].completed = FALSE /\ task'[w].success = FALSE
  BY DEF Begin, TypeOK
<1> QED
  BY <1>1, <1>2, <1>3, <1>4

\* What happens to a batch that is with the engine or being written back.
LEMMA BatchChanges ==
  ASSUME TypeOK, [Next]_vars, NEW e \in ExecThreads, epc'[e] \in {"infer", "write"}
  PROVE  \/ /\ epc[e] \in {"infer", "write"} /\ ebatch'[e] = ebatch[e] /\ edata'[e] = edata[e]
         \/ ReadInputs(e) \/ Infer(e) \/ WriteBack(e)
<1> USE DEF TypeOK
<1>1. CASE Tick \/ Stop \/ UNCHANGED vars
  BY <1>1 DEF Tick, Stop, StopClear, StopPost
<1>2. CASE \E w \in Workers : Begin(w) \/ EnqueueTask(w) \/ WaitForTask(w) \/ SpuriousWakeup(w)
  BY <1>2 DEF Begin, EnqueueTask, Accept, Reject, WaitForTask, Post, Wait, TimeOut, Wake,
              Respond, SpuriousWakeup
<1>3. CASE Run
  BY <1>3 DEF Run, SemWait, CleanupExpired, CleanOne, CleanEnd, Window, Sleep, CollectBatch, Take,
     CollectOne, CollectEnd, SlotTaken, SlotWait, SlotFree, Drop, DropEnd, FilterBatch,
     FilterExpired, FilterValid, FilterEnd, Dispatch, Increment, Spawn, SpawnFailure
<1>4. CASE \E t \in Threads : MarkDone(t)
  BY <1>4 DEF MarkDone, MarkComplete, MarkSignal
<1>5. ASSUME NEW f \in ExecThreads, ExecuteBatch(f) \/ Infer(f) \/ Decrement(f)
      PROVE  \/ /\ epc[e] \in {"infer", "write"} /\ ebatch'[e] = ebatch[e] /\ edata'[e] = edata[e]
             \/ ReadInputs(e) \/ Infer(e) \/ WriteBack(e)
  <2>1. CASE f = e
    BY <1>4, <1>5, <2>1 DEF ExecuteBatch, WriteBackEnd, PostSlot, Decrement, Threads
  <2>2. CASE f # e
    BY <1>4, <1>5, <2>2 DEF ExecuteBatch, ReadInputs, WriteBack, WriteBackEnd, PostSlot, Infer,
                            Decrement, Threads
  <2> QED
    BY <2>1, <2>2
<1> QED
  BY <1>1, <1>2, <1>3, <1>4, <1>5 DEF Next, Threads

LEMMA ResultsMatchStep ==
  ASSUME TypeOK, ResultsMatch, [Next]_vars,
         NEW e \in ExecThreads, NEW i \in Nat, NEW w \in Workers,
         FreshFrame(w)', epc'[e] \in {"infer", "write"}, i \in DOMAIN ebatch'[e], ebatch'[e][i].addr = w
  PROVE  edata'[e][i] = task'[w].input \/ (EngineMayFail /\ edata'[e][i] = Null)
<1>1. CASE ~Live(w)
  <2>1. Begin(w)
    BY <1>1, FrameBegins DEF FreshFrame
  <2> QED
    BY <2>1, BeginsAlone DEF FreshFrame
<1>2. CASE Live(w)
  <2>1. FreshFrame(w) /\ task'[w].input = task[w].input
    BY <1>2, FreshnessStays, FrameStays DEF FreshFrame
  <2>2. ASSUME NEW j \in Nat, epc[e] \in {"infer", "write"}, j \in DOMAIN ebatch[e], ebatch[e][j].addr = w
        PROVE  edata[e][j] = task[w].input \/ (EngineMayFail /\ edata[e][j] = Null)
    BY <2>1, <2>2 DEF ResultsMatch, Matching
  <2> USE DEF TypeOK
  <2>3. CASE epc[e] \in {"infer", "write"} /\ ebatch'[e] = ebatch[e] /\ edata'[e] = edata[e]
    BY <2>1, <2>2, <2>3
  <2>4. CASE ReadInputs(e)
    <3>1. PICK in \in [DOMAIN ebatch[e] -> Inputs] :
            /\ \A k \in DOMAIN ebatch[e] :
                 Live(ebatch[e][k].addr) => in[k] = task[ebatch[e][k].addr].input
            /\ edata' = [edata EXCEPT ![e] = in]
      BY <2>4 DEF ReadInputs
    <3>2. ebatch'[e] = ebatch[e] /\ task' = task
      BY <2>4 DEF ReadInputs
    <3> QED
      BY <1>2, <3>1, <3>2
  <2>5. CASE Infer(e)
    <3>1. ebatch'[e] = ebatch[e] /\ epc[e] = "infer" /\ task' = task
      BY <2>5 DEF Infer
    <3>2. CASE UNCHANGED edata
      BY <2>2, <3>1, <3>2
    <3>3. CASE EngineMayFail /\ edata' = [edata EXCEPT ![e] = [k \in DOMAIN edata[e] |-> Null]]
      <4>1. i \in DOMAIN edata[e]
        BY <3>1
      <4> QED
        BY <3>3, <4>1
    <3> QED
      BY <2>5, <3>2, <3>3 DEF Infer
  <2>6. CASE WriteBack(e)
    <3>1. /\ epc[e] = "write" /\ ebatch[e] # << >>
          /\ ebatch'[e] = Tail(ebatch[e]) /\ edata'[e] = Tail(edata[e])
      BY <2>6 DEF WriteBack
    <3>2. Len(edata[e]) = Len(ebatch[e]) /\ i \in 1..(Len(ebatch[e]) - 1)
      BY <3>1
    <3>3. /\ i + 1 \in DOMAIN ebatch[e] /\ ebatch'[e][i] = ebatch[e][i + 1]
          /\ edata'[e][i] = edata[e][i + 1]
      BY <3>1, <3>2
    <3> QED
      BY <2>1, <2>2, <3>1, <3>3
  <2> QED
    BY <2>3, <2>4, <2>5, <2>6, BatchChanges
<1> QED
  BY <1>1, <1>2

\* What is written into a fresh frame.
LEMMA FillsOwn ==
  ASSUME TypeOK, ResultsMatch, NEW e \in ExecThreads, NEW w \in Workers, FreshFrame(w), Fills(e, w)
  PROVE  \/ task'[w] = [task[w] EXCEPT !.success = TRUE, !.output = task[w].input]
         \/ EngineMayFail /\ task'[w] = [task[w] EXCEPT !.success = FALSE]
<1>1. /\ ebatch[e] # << >> /\ edata[e] # << >> /\ Head(ebatch[e]).addr = w /\ epc[e] = "write"
      /\ ebatch[e] \in Seq(Pointer) /\ edata[e] \in Seq(Inputs \cup {Null})
  BY DEF Fills, WriteBack, TypeOK
<1>2. 1 \in DOMAIN ebatch[e] /\ ebatch[e][1].addr = w /\ Head(edata[e]) = edata[e][1]
  BY <1>1
<1>3. Head(edata[e]) = task[w].input \/ (EngineMayFail /\ Head(edata[e]) = Null)
  BY <1>1, <1>2 DEF ResultsMatch, Matching
<1>4. task[w].input # Null
  BY LiveTask, NullFacts DEF FreshFrame, Task
<1> QED
  BY <1>3, <1>4 DEF Fills

LEMMA OutputsMatchStep ==
  ASSUME TypeOK, ResultsMatch, OutputsMatch, [Next]_vars,
         NEW w \in Workers, FreshFrame(w)', task'[w].success
  PROVE  task'[w].output = task'[w].input
<1>1. CASE ~Live(w)
  <2>1. Begin(w)
    BY <1>1, FrameBegins DEF FreshFrame
  <2> QED
    BY <2>1, BeginsAlone DEF FreshFrame
<1>2. CASE Live(w)
  <2>1. FreshFrame(w) /\ task[w] \in Task /\ TaskChanges(w)
    BY <1>2, FreshnessStays, LiveTask, ChangesStep DEF FreshFrame
  <2>2. task[w].success => task[w].output = task[w].input
    BY <2>1 DEF OutputsMatch
  <2>3. CASE Begin(w)
    BY <1>2, <2>3 DEF Begin, Live, TypeOK
  <2>4. CASE \E e \in ExecThreads : Fills(e, w)
    <3>1. \/ task'[w] = [task[w] EXCEPT !.success = TRUE, !.output = task[w].input]
          \/ task'[w] = [task[w] EXCEPT !.success = FALSE]
      BY <2>1, <2>4, FillsOwn
    <3> QED
      BY <2>1, <3>1 DEF Task
  <2>5. CASE ~Begin(w) /\ ~(\E e \in ExecThreads : Fills(e, w))
    <3>1. \/ task'[w] = task[w]
          \/ task'[w] = [task[w] EXCEPT !.id = nextId]
          \/ task'[w] = [task[w] EXCEPT !.timeout = TRUE, !.completed = TRUE]
          \/ task'[w] = [task[w] EXCEPT !.completed = TRUE]
          \/ task'[w] = [task[w] EXCEPT !.timeout = TRUE]
      BY <2>1, <2>5 DEF TaskChanges, Completes, Expires
    <3>2. /\ task'[w].success = task[w].success /\ task'[w].output = task[w].output
          /\ task'[w].input = task[w].input
      BY <2>1, <3>1 DEF Task
    <3> QED
      BY <2>2, <3>2
  <2> QED
    BY <2>3, <2>4, <2>5
<1> QED
  BY <1>1, <1>2

\* What an explained frame becomes is explained.
LEMMA ExplainedStays ==
  ASSUME TypeOK, ResultsMatch, [Next]_vars, NEW w \in Workers, FreshFrame(w), Live(w)',
         Explained(w) \/ \E e \in ExecThreads : Fills(e, w)
  PROVE  Explained(w)'
<1>1. ASSUME NEW e \in ExecThreads, Fills(e, w) PROVE Explained(w)'
  <2>1. task[w] \in Task
    BY LiveTask DEF FreshFrame
  <2>2. \/ task'[w] = [task[w] EXCEPT !.success = TRUE, !.output = task[w].input]
        \/ EngineMayFail
    BY <1>1, FillsOwn
  <2> QED
    BY <2>1, <2>2 DEF Explained, Task
<1> QED
  BY <1>1, FrameStays DEF FreshFrame

\* Who is about to mark a task done, and why.
LEMMA MarkChanges ==
  ASSUME TypeOK, [Next]_vars, NEW t \in Threads, mstage'[t] = "lock"
  PROVE  \/ mstage[t] = "lock" /\ mptr'[t] = mptr[t]
         \/ \E p \in Pointer : Expire(p) /\ mptr'[t] = p
         \/ t \in ExecThreads /\ WriteBack(t) /\ mptr'[t] = Head(ebatch[t])
<1> USE DEF TypeOK
<1>1. CASE Tick \/ Stop \/ UNCHANGED vars
  BY <1>1 DEF Tick, Stop, StopClear, StopPost
<1>2. CASE \E w \in Workers : Begin(w) \/ EnqueueTask(w) \/ WaitForTask(w) \/ SpuriousWakeup(w)
  BY <1>2 DEF Begin, EnqueueTask, Accept, Reject, WaitForTask, Post, Wait, TimeOut, Wake,
              Respond, SpuriousWakeup
<1>3. ASSUME NEW p \in Pointer, Expire(p)
      PROVE  \/ mstage[t] = "lock" /\ mptr'[t] = mptr[t]
             \/ \E q \in Pointer : Expire(q) /\ mptr'[t] = q
  <2>1. mptr' = [mptr EXCEPT ![Scheduler] = p] /\ mstage' = [mstage EXCEPT ![Scheduler] = "lock"]
    BY <1>3 DEF Expire, CallMarkDone
  <2>2. (mstage[t] = "lock" /\ mptr'[t] = mptr[t]) \/ mptr'[t] = p
    BY <2>1
  <2> QED
    BY <1>3, <2>2
<1>4. CASE CleanOne
  <2>1. PICK c \in Classes : \E i \in DOMAIN queue[c] : Expire(queue[c][i])
    BY <1>4 DEF CleanOne
  <2>2. PICK i \in DOMAIN queue[c] : Expire(queue[c][i])
    BY <2>1
  <2> QED
    BY <1>3, <2>2
<1>5. CASE Drop \/ FilterExpired
  <2>1. Expire(Head(held)) /\ Head(held) \in Pointer
    BY <1>5 DEF Drop, FilterExpired
  <2> QED
    BY <1>3, <2>1
<1>6. CASE Run /\ ~(CleanOne \/ Drop \/ FilterExpired)
  BY <1>6 DEF Run, SemWait, CleanupExpired, CleanEnd, Window, Sleep, CollectBatch, Take,
     CollectOne, CollectEnd, SlotTaken, SlotWait, SlotFree, DropEnd, FilterBatch,
     FilterValid, FilterEnd, Dispatch, Increment, Spawn, SpawnFailure
<1>7. ASSUME NEW u \in Threads, MarkDone(u) PROVE mstage[t] = "lock" /\ mptr'[t] = mptr[t]
  BY <1>7 DEF MarkDone, MarkComplete, MarkSignal
<1>8. ASSUME NEW e \in ExecThreads, ExecuteBatch(e) \/ Infer(e) \/ Decrement(e)
      PROVE  \/ mstage[t] = "lock" /\ mptr'[t] = mptr[t]
             \/ t \in ExecThreads /\ WriteBack(t) /\ mptr'[t] = Head(ebatch[t])
  <2>1. CASE WriteBack(e)
    <3>1. mptr' = [mptr EXCEPT ![e] = Head(ebatch[e])] /\ mstage' = [mstage EXCEPT ![e] = "lock"]
      BY <2>1 DEF WriteBack, CallMarkDone
    <3>2. CASE e = t
      BY <2>1, <3>1, <3>2
    <3>3. CASE e # t
      BY <3>1, <3>3
    <3> QED
      BY <3>2, <3>3
  <2>2. CASE ~WriteBack(e)
    BY <1>7, <1>8, <2>2 DEF ExecuteBatch, ReadInputs, WriteBackEnd, PostSlot, Infer, Decrement,
                            Threads
  <2> QED
    BY <2>1, <2>2
<1> QED
  BY <1>1, <1>2, <1>4, <1>5, <1>6, <1>7, <1>8 DEF Next, Threads

LEMMA MarksExplainedStep ==
  ASSUME TypeOK, ResultsMatch, MarksExplained, [Next]_vars,
         NEW t \in Threads, NEW w \in Workers, FreshFrame(w)', mstage'[t] = "lock", mptr'[t].addr = w
  PROVE  Explained(w)'
<1>1. CASE ~Live(w)
  <2>1. Begin(w)
    BY <1>1, FrameBegins DEF FreshFrame
  <2> QED
    BY <2>1, BeginsAlone DEF FreshFrame
<1>2. CASE Live(w)
  <2>1. FreshFrame(w) /\ Live(w)' /\ task[w] \in Task
    BY <1>2, FreshnessStays, LiveTask DEF FreshFrame
  <2>2. CASE mstage[t] = "lock" /\ mptr'[t] = mptr[t]
    BY <2>1, <2>2, ExplainedStays DEF MarksExplained
  <2>3. CASE \E p \in Pointer : Expire(p) /\ mptr'[t] = p
    <3>1. task' = [task EXCEPT ![w] = [task[w] EXCEPT !.timeout = TRUE]]
      BY <1>2, <2>3 DEF Expire, WriteTask
    <3> QED
      BY <2>1, <3>1 DEF Explained, Task, TypeOK
  <2>4. CASE t \in ExecThreads /\ WriteBack(t) /\ mptr'[t] = Head(ebatch[t])
    <3>1. Head(ebatch[t]) \in Pointer /\ ebatch[t] # << >> /\ edata[t] # << >>
      BY <2>4 DEF WriteBack, TypeOK
    <3>2. Fills(t, w)
      BY <1>2, <2>4, <3>1 DEF Fills, WriteBack, WriteTask, ResultOf, TypeOK, Live
    <3> QED
      BY <2>1, <2>4, <3>2, ExplainedStays
  <2> QED
    BY <2>2, <2>3, <2>4, MarkChanges
<1> QED
  BY <1>1, <1>2

LEMMA CompletionsExplainedStep ==
  ASSUME TypeOK, ResultsMatch, MarksExplained, CompletionsExplained, [Next]_vars,
         NEW w \in Workers, FreshFrame(w)', task'[w].completed
  PROVE  Explained(w)'
<1>1. CASE ~Live(w)
  <2>1. Begin(w)
    BY <1>1, FrameBegins DEF FreshFrame
  <2> QED
    BY <2>1, BeginsAlone DEF FreshFrame
<1>2. CASE Live(w)
  <2>1. FreshFrame(w) /\ Live(w)' /\ task[w] \in Task /\ TaskChanges(w)
    BY <1>2, FreshnessStays, LiveTask, ChangesStep DEF FreshFrame
  <2>2. CASE task[w].completed
    BY <2>1, <2>2, ExplainedStays DEF CompletionsExplained
  <2>3. CASE ~task[w].completed
    <3>1. CASE \E t \in Threads : Completes(t, w)
      <4>1. Explained(w)
        BY <2>1, <3>1 DEF Completes, MarkComplete, MarksExplained
      <4> QED
        BY <2>1, <4>1, ExplainedStays
    <3>2. CASE TimeOut(w) /\ task'[w] = [task[w] EXCEPT !.timeout = TRUE, !.completed = TRUE]
      BY <2>1, <3>2 DEF Explained, Task
    <3>3. CASE Begin(w)
      BY <1>2, <3>3 DEF Begin, Live, TypeOK
    <3>4. CASE \E e \in ExecThreads : Fills(e, w)
      BY <2>1, <3>4, ExplainedStays
    <3>5. CASE \/ task'[w] = task[w]
               \/ task'[w] = [task[w] EXCEPT !.id = nextId]
               \/ task'[w] = [task[w] EXCEPT !.timeout = TRUE]
      <4>1. /\ [task[w] EXCEPT !.id = nextId].completed = task[w].completed
            /\ [task[w] EXCEPT !.timeout = TRUE].completed = task[w].completed
        BY <2>1 DEF Task
      <4>2. task'[w].completed = task[w].completed
        BY <3>5, <4>1
      <4> QED
        BY <2>3, <4>2
    <3> QED
      BY <2>1, <3>1, <3>2, <3>3, <3>4, <3>5 DEF TaskChanges, Expires
  <2> QED
    BY <2>2, <2>3
<1> QED
  BY <1>1, <1>2

LEMMA OwnStep == TypeOK /\ OwnInv /\ [Next]_vars => OwnInv'
<1> SUFFICES ASSUME TypeOK, OwnInv, [Next]_vars PROVE OwnInv'
  OBVIOUS
<1> USE DEF OwnInv
<1>1. ResultsMatch'
  BY ResultsMatchStep DEF ResultsMatch, Matching
<1>2. OutputsMatch'
  BY OutputsMatchStep DEF OutputsMatch
<1>3. MarksExplained'
  BY MarksExplainedStep DEF MarksExplained
<1>4. CompletionsExplained'
  BY CompletionsExplainedStep DEF CompletionsExplained
<1> QED
  BY <1>1, <1>2, <1>3, <1>4

LEMMA RespondsStep == TypeOK /\ RespondsWhenCompleted /\ [Next]_vars => RespondsWhenCompleted'
<1> SUFFICES ASSUME TypeOK, RespondsWhenCompleted, [Next]_vars, NEW w \in Workers, wpc'[w] = "respond"
             PROVE  task'[w].completed
  BY DEF RespondsWhenCompleted
<1>1. CASE wpc[w] = "respond"
  <2>1. Live(w) /\ Live(w)' /\ task[w].completed
    BY <1>1, TypeStep DEF RespondsWhenCompleted, TypeOK, Live
  <2> QED
    BY <2>1, FrameStays
<1>2. CASE wpc[w] # "respond"
  <2> USE DEF TypeOK
  <2>1. CASE Tick \/ Stop \/ UNCHANGED vars
    BY <1>2, <2>1 DEF Tick, Stop, StopClear, StopPost
  <2>2. ASSUME NEW v \in Workers,
               Begin(v) \/ EnqueueTask(v) \/ WaitForTask(v) \/ SpuriousWakeup(v)
        PROVE  task'[w].completed
    <3>1. CASE TimeOut(v)
      <4>1. v = w /\ task[w] \in Task /\ task' = [task EXCEPT ![w] = [task[w] EXCEPT !.timeout = TRUE, !.completed = TRUE]]
        BY <1>2, <3>1, LiveTask DEF TimeOut, Live
      <4> QED
        BY <4>1 DEF Task
    <3>2. CASE ~TimeOut(v)
      BY <1>2, <2>2, <3>2 DEF Begin, EnqueueTask, Accept, Reject, WaitForTask, Post, Wait, Wake,
                              Respond, SpuriousWakeup, AfterLook
    <3> QED
      BY <3>1, <3>2
  <2>3. CASE Run
    <3>1. wpc' = wpc
      BY <2>3 DEF Run, SemWait, CleanupExpired, CleanOne, CleanEnd, Window, Sleep, CollectBatch,
         Take, CollectOne, CollectEnd, SlotTaken, SlotWait, SlotFree, Drop, DropEnd, FilterBatch,
         FilterExpired, FilterValid, FilterEnd, Dispatch, Increment, Spawn, SpawnFailure
    <3> QED
      BY <1>2, <3>1
  <2>4. ASSUME NEW t \in Threads, MarkDone(t) PROVE FALSE
    BY <1>2, <2>4 DEF MarkDone, MarkComplete, MarkSignal
  <2>5. ASSUME NEW e \in ExecThreads, ExecuteBatch(e) \/ Infer(e) \/ Decrement(e) PROVE FALSE
    BY <1>2, <2>4, <2>5 DEF ExecuteBatch, ReadInputs, WriteBack, WriteBackEnd, PostSlot, Infer,
                            Decrement, Threads
  <2> QED
    BY <2>1, <2>2, <2>3, <2>4, <2>5 DEF Next, Threads
<1> QED
  BY <1>1, <1>2

\* A request whose frame nothing pointed to when it began is answered with the result for its
\* own input, or with a failure only if the engine has failed: batches, their order and their
\* late writes into reused stack frames together.
THEOREM OutcomesAreOwn == Spec => []OwnOutcome
<1>1. Init => OwnInv /\ RespondsWhenCompleted
  BY DEF Init, OwnInv, ResultsMatch, Matching, OutputsMatch, MarksExplained, CompletionsExplained,
         FreshFrame, Live, RespondsWhenCompleted
<1>2. TypeOK /\ OwnInv /\ RespondsWhenCompleted => OwnOutcome
  BY DEF TypeOK, OwnInv, OutputsMatch, CompletionsExplained, FreshFrame, Live, Explained,
         RespondsWhenCompleted, OwnOutcome, OwnAnswer, NoFalseFailure, Succeeded
<1> QED
  BY <1>1, <1>2, OwnStep, RespondsStep, TypeCorrect, PTL DEF Spec
=============================================================================

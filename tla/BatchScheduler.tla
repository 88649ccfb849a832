--------------------------- MODULE BatchScheduler ---------------------------
(***************************************************************************)
(* The dynamic batching scheduler of the inference gateway, with the       *)
(* threads that meet in it:                                                *)
(*                                                                         *)
(*   - the worker threads, which run http_conn::do_request: each builds an *)
(*     InferenceTask on its own stack, enqueues a POINTER to it and blocks *)
(*     in wait_with_timeout_ms until it is completed or its time is up;    *)
(*   - the scheduler thread, BatchScheduler::run;                          *)
(*   - one execution thread per submitted batch, execute_batch;            *)
(*   - the main thread, as far as it stops the scheduler.                  *)
(*                                                                         *)
(* A worker's InferenceTask is always at the same stack address, so an     *)
(* address is the worker itself, and the frame at that address is alive    *)
(* from the moment the request builds its task until do_request returns.   *)
(* What the scheduler's containers hold are pointers: a record with the    *)
(* address, and two ghost fields the code does not have, the id and the    *)
(* class the task had when it was enqueued.  Everything else is read       *)
(* through the address, as in the code, whatever lives there by then: a    *)
(* later request of the worker, or nothing, in which case a read returns   *)
(* any value and a write has no effect that the model follows.             *)
(***************************************************************************)
EXTENDS Integers, Sequences, FiniteSets

CONSTANTS
  Workers,        \* worker threads of the pool, which are also frame addresses
  ExecThreads,    \* execution threads that may exist at the same time (bound)
  Scheduler,      \* the scheduler thread
  Inputs,         \* what a request may ask to be inferred
  Priorities,     \* the "priority" values of the requests
  MaxBatchSize,   \* max_batch_size_
  MaxConcurrent,  \* max_concurrent_batches_
  MaxQueueSize,   \* max_queue_size_, 0 for no limit
  TimeoutSec,     \* http_conn::task_timeout_sec
  TicksPerSec,    \* resolution of the clock behind pthread_cond_timedwait
  IdSpace,        \* ids before next_task_id_ wraps (2^64 in the code)
  SemMax,         \* SEM_VALUE_MAX
  EngineMayFail,  \* infer_batch may report a failed batch
  SpawnMayFail,   \* pthread_create may fail for an execution thread
  StopEnabled,    \* the main thread may stop the scheduler
  MaxTime,        \* bound on the clock
  MaxTasks,       \* bound on the number of ids given out, 0 for no bound
  Null            \* no value: a dead frame, a null pointer, an empty output

ASSUME ThreadsAssumption  == /\ Scheduler \notin ExecThreads
                             /\ IsFiniteSet(ExecThreads) /\ IsFiniteSet(Workers)
ASSUME LimitsAssumption   == /\ MaxBatchSize \in Nat \ {0}
                             /\ MaxConcurrent \in Nat \ {0}
                             /\ MaxQueueSize \in Nat
                             /\ Priorities \subseteq Int
ASSUME ClockAssumption    == /\ TimeoutSec \in Nat
                             /\ TicksPerSec \in Nat \ {0}
                             /\ MaxTime \in Nat
ASSUME CountersAssumption == IdSpace \in Nat \ {0} /\ SemMax \in Nat /\ MaxTasks \in Nat
ASSUME SwitchesAssumption == {EngineMayFail, SpawnMayFail, StopEnabled} \subseteq BOOLEAN

VARIABLES
  clock,    \* CLOCK_REALTIME, in ticks
  mpc,      \* main thread: "serving", "stopping" (running_ cleared), "stopped"
  queue,    \* queue_high_, queue_mid_, queue_low_: class -> pointers
  nextId,   \* next_task_id_
  qsem,     \* value of queue_sem_
  active,   \* active_batch_count_
  task,     \* the InferenceTask at each address
  wpc,      \* where each worker is in do_request
  wabs,     \* the absolute time at which its timed wait expires
  fresh,    \* ghost: nothing pointed to the frame when the request built it
  spc,      \* where the scheduler thread is in run
  snow,     \* its latest time(nullptr)
  held,     \* its local vector batch
  valid,    \* its local vector valid_batch
  epc,      \* where each execution thread is in execute_batch
  ebatch,   \* the pointers it has not written back yet
  edata,    \* the inputs, later the results, that go with them
  mstage,   \* where each thread is in InferenceTask::mark_done
  mptr      \* the task it is marking

clientVars == <<task, wpc, wabs, fresh>>
schedVars  == <<spc, snow, held, valid>>
execVars   == <<epc, ebatch, edata>>
markVars   == <<mstage, mptr>>
queueVars  == <<queue, nextId>>
vars == <<clock, mpc, queueVars, qsem, active, clientVars, schedVars, execVars, markVars>>

-----------------------------------------------------------------------------
(* Data *)

Threads == ExecThreads \cup {Scheduler}
Classes == 0..2
Ids     == 1..IdSpace

Pointer == [addr: Workers, id: Ids, cls: Classes]

Task == [id: Ids \cup {0}, input: Inputs, priority: Priorities, deadline: Nat,
         completed: BOOLEAN, timeout: BOOLEAN, success: BOOLEAN,
         output: Inputs \cup {Null}]

ASSUME NullAssumption == Null \notin Inputs \cup Pointer \cup Task

WorkerPCs == {"idle", "enqueue", "post", "wait", "waiting", "woken", "respond"}
SchedPCs  == {"sem", "clean1", "window", "sleep", "clean2", "take", "collect",
              "slot", "slotwait", "drop", "filter", "increment", "spawn", "done"}
ExecPCs   == {"free", "start", "infer", "write", "decrement", "post"}

Elements(s) == {s[i] : i \in DOMAIN s}
RemoveAt(s, i) == [k \in 1..(Len(s) - 1) |-> IF k < i THEN s[k] ELSE s[k + 1]]

Seconds == clock \div TicksPerSec         \* time(nullptr)
Running == mpc = "serving"                \* running_
QueueLockFree == spc \notin {"clean1", "clean2", "collect"}
PendingCount == Len(queue[0]) + Len(queue[1]) + Len(queue[2])

\* The queue of a priority: 0 and 2 have their own, all other values share one.
ClassOf(p) == IF p \in {0, 2} THEN p ELSE 1

Live(w) == task[w] # Null

\* The pointers the scheduler and its threads still hold, wherever they are.
Queued  == UNION {Elements(queue[c]) : c \in Classes}
Batch(e) == Elements(ebatch[e])
Marking(t) == IF mstage[t] = "none" THEN {} ELSE {mptr[t]}
Pointers == Queued \cup Elements(held) \cup Elements(valid)
              \cup (UNION {Batch(e) : e \in ExecThreads})
              \cup (UNION {Marking(t) : t \in Threads})

-----------------------------------------------------------------------------
Init ==
  /\ clock = 0
  /\ mpc = "serving"
  /\ queue = [c \in Classes |-> << >>]
  /\ nextId = 1
  /\ qsem = 0
  /\ active = 0
  /\ task = [w \in Workers |-> Null]
  /\ wpc = [w \in Workers |-> "idle"]
  /\ wabs = [w \in Workers |-> 0]
  /\ fresh = [w \in Workers |-> TRUE]
  /\ spc = "sem"
  /\ snow = 0
  /\ held = << >>
  /\ valid = << >>
  /\ epc = [e \in ExecThreads |-> "free"]
  /\ ebatch = [e \in ExecThreads |-> << >>]
  /\ edata = [e \in ExecThreads |-> << >>]
  /\ mstage = [t \in Threads |-> "none"]
  /\ mptr = [t \in Threads |-> Null]

-----------------------------------------------------------------------------
(* The clock, and the main thread *)

Tick ==
  /\ clock < MaxTime
  /\ clock' = clock + 1
  /\ UNCHANGED <<mpc, queueVars, qsem, active, clientVars, schedVars, execVars, markVars>>

\* sem::post, at its limit sem_post fails with EOVERFLOW and the result is ignored.
SemPost == qsem' = IF qsem < SemMax THEN qsem + 1 ELSE qsem

\* Mutant: the wait takes a token that is not there.
TakeToken == qsem' = qsem - 1

\* sem::timedwait: takes a token if there is one, otherwise returns some time later.
SemTimedWait == qsem' = IF qsem > 0 THEN qsem - 1 ELSE 0

\* stop: running_ = false, then the post, and no more.
StopClear ==
  /\ StopEnabled
  /\ mpc = "serving"
  /\ mpc' = "stopping"
  /\ UNCHANGED <<clock, queueVars, qsem, active, clientVars, schedVars, execVars, markVars>>

StopPost ==
  /\ mpc = "stopping"
  /\ SemPost
  /\ mpc' = "stopped"
  /\ UNCHANGED <<clock, queueVars, active, clientVars, schedVars, execVars, markVars>>

Stop == StopClear \/ StopPost

-----------------------------------------------------------------------------
(* InferenceTask::mark_done, called by a thread t on a pointer p: it sets   *)
(* completed under the task's mutex and signals the condition variable     *)
(* after it has released the mutex.                                        *)

\* A write through a pointer: it reaches whatever frame is at the address.
WriteTask(p, t) == task' = IF Live(p.addr) THEN [task EXCEPT ![p.addr] = t] ELSE task

CallMarkDone(t, p) ==
  /\ mstage' = [mstage EXCEPT ![t] = "lock"]
  /\ mptr' = [mptr EXCEPT ![t] = p]

MarkComplete(t) ==
  /\ mstage[t] = "lock"
  /\ WriteTask(mptr[t], [task[mptr[t].addr] EXCEPT !.completed = TRUE])
  /\ mstage' = [mstage EXCEPT ![t] = "signal"]
  /\ UNCHANGED <<clock, mpc, queueVars, qsem, active, wpc, wabs, fresh, schedVars, execVars, mptr>>

MarkSignal(t) ==
  /\ mstage[t] = "signal"
  /\ wpc' = [w \in Workers |-> IF w = mptr[t].addr /\ wpc[w] = "waiting"
                                 THEN "woken" ELSE wpc[w]]
  /\ mstage' = [mstage EXCEPT ![t] = "none"]
  /\ mptr' = [mptr EXCEPT ![t] = Null]
  /\ UNCHANGED <<clock, mpc, queueVars, qsem, active, task, wabs, fresh, schedVars, execVars>>

MarkDone(t) == MarkComplete(t) \/ MarkSignal(t)

Idle(t) == mstage[t] = "none"

-----------------------------------------------------------------------------
(* A worker thread in http_conn::do_request *)

\* The request builds its InferenceTask.  MaxTasks bounds the instance.
Begin(w) ==
  /\ wpc[w] = "idle"
  /\ MaxTasks = 0 \/ nextId + Cardinality({v \in Workers : wpc[v] = "enqueue"}) <= MaxTasks
  /\ \E x \in Inputs, p \in Priorities :
       task' = [task EXCEPT ![w] =
                  [id |-> 0, input |-> x, priority |-> p, deadline |-> Seconds + TimeoutSec,
                   completed |-> FALSE, timeout |-> FALSE, success |-> FALSE, output |-> Null]]
  /\ fresh' = [fresh EXCEPT ![w] = \A p \in Pointers : p.addr # w]
  /\ wpc' = [wpc EXCEPT ![w] = "enqueue"]
  /\ UNCHANGED <<clock, mpc, queueVars, qsem, active, wabs, schedVars, execVars, markVars>>

\* Mutant: the limit is tested with > instead of >=.
HasRoomPlusOne == MaxQueueSize = 0 \/ PendingCount <= MaxQueueSize

\* enqueue's test of the limit: 0 is no limit.
HasRoom == MaxQueueSize = 0 \/ PendingCount < MaxQueueSize

\* enqueue, up to the release of queue_lock_: the task gets an id and its class's queue
\* a pointer to it ...
Accept(w) ==
  LET c == ClassOf(task[w].priority)
  IN  /\ wpc[w] = "enqueue"
      /\ QueueLockFree
      /\ HasRoom
      /\ task' = [task EXCEPT ![w].id = nextId]
      /\ queue' = [queue EXCEPT ![c] = Append(@, [addr |-> w, id |-> nextId, cls |-> c])]
      /\ nextId' = IF nextId = IdSpace THEN 1 ELSE nextId + 1
      /\ wpc' = [wpc EXCEPT ![w] = "post"]
      /\ UNCHANGED <<clock, mpc, qsem, active, wabs, fresh, schedVars, execVars, markVars>>

\* ... or the queues are full, and do_request answers 503 and returns.
Reject(w) ==
  /\ wpc[w] = "enqueue"
  /\ QueueLockFree
  /\ ~HasRoom
  /\ task' = [task EXCEPT ![w] = Null]
  /\ wpc' = [wpc EXCEPT ![w] = "idle"]
  /\ UNCHANGED <<clock, mpc, queueVars, qsem, active, wabs, fresh, schedVars, execVars, markVars>>

Post(w) ==
  /\ wpc[w] = "post"
  /\ SemPost
  /\ wpc' = [wpc EXCEPT ![w] = "wait"]
  /\ UNCHANGED <<clock, mpc, queueVars, active, task, wabs, fresh, schedVars, execVars, markVars>>

\* Mutant: the wait begins without a look at completed.
SleepUnseen(w) == IF wpc[w] = "wait" \/ ~task[w].completed THEN "waiting" ELSE "respond"

\* while (!completed): go on to the response, or (again) into the timed wait.
AfterLook(w) == IF task[w].completed THEN "respond" ELSE "waiting"

\* Mutants: the deadline itself does not count as reached; any wakeup counts as a timeout.
TimeIsPast(w) == clock > wabs[w]
TimeIsAnything(w) == wpc[w] = "waiting"

TimeIsUp(w) == clock >= wabs[w]

\* wait_with_timeout_ms: the absolute time, then the first look at completed.
Wait(w) ==
  /\ wpc[w] = "wait"
  /\ wabs' = [wabs EXCEPT ![w] = clock + TimeoutSec * TicksPerSec]
  /\ wpc' = [wpc EXCEPT ![w] = AfterLook(w)]
  /\ UNCHANGED <<clock, mpc, queueVars, qsem, active, task, fresh, schedVars, execVars, markVars>>

\* pthread_cond_timedwait returns ETIMEDOUT: completed is not looked at again.
TimeOut(w) ==
  /\ wpc[w] = "waiting"
  /\ TimeIsUp(w)
  /\ task' = [task EXCEPT ![w].timeout = TRUE, ![w].completed = TRUE]
  /\ wpc' = [wpc EXCEPT ![w] = "respond"]
  /\ UNCHANGED <<clock, mpc, queueVars, qsem, active, wabs, fresh, schedVars, execVars, markVars>>

\* A spurious wakeup; one that finds completed unset goes straight back to waiting.
SpuriousWakeup(w) ==
  /\ wpc[w] = "waiting"
  /\ task[w].completed
  /\ wpc' = [wpc EXCEPT ![w] = "woken"]
  /\ UNCHANGED <<clock, mpc, queueVars, qsem, active, task, wabs, fresh, schedVars, execVars, markVars>>

\* The wait was signalled: the loop looks at completed again.
Wake(w) ==
  /\ wpc[w] = "woken"
  /\ wpc' = [wpc EXCEPT ![w] = AfterLook(w)]
  /\ UNCHANGED <<clock, mpc, queueVars, qsem, active, task, wabs, fresh, schedVars, execVars, markVars>>

\* do_request puts the response together from the task and returns, which destroys it.
Respond(w) ==
  /\ wpc[w] = "respond"
  /\ task' = [task EXCEPT ![w] = Null]
  /\ wpc' = [wpc EXCEPT ![w] = "idle"]
  /\ wabs' = [wabs EXCEPT ![w] = 0]
  /\ UNCHANGED <<clock, mpc, queueVars, qsem, active, fresh, schedVars, execVars, markVars>>

EnqueueTask(w) == Accept(w) \/ Reject(w)
WaitForTask(w) == Post(w) \/ Wait(w) \/ TimeOut(w) \/ Wake(w) \/ Respond(w)

-----------------------------------------------------------------------------
(* The scheduler thread, BatchScheduler::run *)

\* Mutant: the deadline itself counts as expired.
ExpiresOnDeadline(p) == Live(p.addr) => task[p.addr].deadline <= snow

\* What "deadline < now" may evaluate to through a pointer, with the thread's latest now.
LooksExpired(p) == Live(p.addr) => task[p.addr].deadline < snow
LooksValid(p)   == Live(p.addr) => task[p.addr].deadline >= snow

\* Mutant: the task is dropped and nobody is told.
ExpireUnmarked(p) == UNCHANGED <<task, markVars>>

\* timeout = true, then the call of mark_done.
Expire(p) ==
  /\ WriteTask(p, [task[p.addr] EXCEPT !.timeout = TRUE])
  /\ CallMarkDone(Scheduler, p)

\* The head of the loop: the timed wait, the test of running_, and the clock that
\* cleanup_expired reads before it takes queue_lock_.
SemWait ==
  /\ spc = "sem"
  /\ SemTimedWait
  /\ spc' = IF Running THEN "clean1" ELSE "done"
  /\ snow' = IF Running THEN Seconds ELSE 0
  /\ UNCHANGED <<clock, mpc, queueVars, active, clientVars, held, valid, execVars, markVars>>

\* cleanup_expired, queue_lock_ held: the next expired task in queue order is marked and
\* erased, which ends before the scan goes on ...
CleanOne ==
  /\ spc \in {"clean1", "clean2"}
  /\ Idle(Scheduler)
  /\ \E c \in Classes : \E i \in DOMAIN queue[c] :
       /\ LooksExpired(queue[c][i])
       /\ \A j \in 1..(i - 1) : LooksValid(queue[c][j])
       /\ \A b \in 0..(c - 1) : \A j \in DOMAIN queue[b] : LooksValid(queue[b][j])
       /\ queue' = [queue EXCEPT ![c] = RemoveAt(@, i)]
       /\ Expire(queue[c][i])
  /\ UNCHANGED <<clock, mpc, nextId, qsem, active, wpc, wabs, fresh, schedVars, execVars>>

\* ... and when the scan has seen all three queues the lock is released.  (snow goes back
\* to 0 whenever the code's local variable now goes out of scope.)
CleanEnd ==
  /\ spc \in {"clean1", "clean2"}
  /\ Idle(Scheduler)
  /\ \A c \in Classes : \A j \in DOMAIN queue[c] : LooksValid(queue[c][j])
  /\ spc' = IF spc = "clean1" THEN "window" ELSE "take"
  /\ snow' = 0
  /\ UNCHANGED <<clock, mpc, queueVars, qsem, active, clientVars, held, valid, execVars, markVars>>

\* The accumulation window opens only when nothing runs and something is queued.
Window ==
  /\ spc = "window"
  /\ spc' = IF active = 0 /\ PendingCount > 0 THEN "sleep" ELSE "take"
  /\ UNCHANGED <<clock, mpc, queueVars, qsem, active, clientVars, snow, held, valid, execVars, markVars>>

Sleep ==
  /\ spc = "sleep"
  /\ spc' = IF Running THEN "clean2" ELSE "done"
  /\ snow' = IF Running THEN Seconds ELSE 0
  /\ UNCHANGED <<clock, mpc, queueVars, qsem, active, clientVars, held, valid, execVars, markVars>>

\* collect_batch takes queue_lock_ ...
Take ==
  /\ spc = "take"
  /\ spc' = "collect"
  /\ UNCHANGED <<clock, mpc, queueVars, qsem, active, clientVars, snow, held, valid, execVars, markVars>>

\* Mutant: the classes are taken in any order.
AnyClass(c) == queue[c] # << >>

\* collect_from goes through queue_high_, queue_mid_ and queue_low_ in this order.
NextClass(c) == queue[c] # << >> /\ \A b \in 0..(c - 1) : queue[b] = << >>

\* Mutant: front() is read but the back is popped.
PoppedBack(q) == SubSeq(q, 1, Len(q) - 1)

Popped(q) == Tail(q)

\* ... and moves the front of the first non-empty class into the batch, while there is
\* room, whatever the deadline of the task is.
CollectOne ==
  /\ spc = "collect"
  /\ Len(held) < MaxBatchSize
  /\ \E c \in Classes :
       /\ NextClass(c)
       /\ held' = Append(held, Head(queue[c]))
       /\ queue' = [queue EXCEPT ![c] = Popped(@)]
  /\ UNCHANGED <<clock, mpc, nextId, qsem, active, clientVars, spc, snow, valid, execVars, markVars>>

CollectEnd ==
  /\ spc = "collect"
  /\ Len(held) >= MaxBatchSize \/ PendingCount = 0
  /\ spc' = IF held = << >> THEN "sem" ELSE "slot"
  /\ UNCHANGED <<clock, mpc, queueVars, qsem, active, clientVars, snow, held, valid, execVars, markVars>>

\* Mutants: one batch too many; a stopped scheduler goes on waiting.
SlotOffByOne == ~Running \/ active <= MaxConcurrent
SlotIgnoresStop == active < MaxConcurrent

\* The end of the slot loop.
SlotGranted == ~Running \/ active < MaxConcurrent

\* No slot: the collected batch waits outside the queues, and the scheduler in a timed
\* wait on the semaphore that the arriving tasks post, too.
SlotTaken ==
  /\ spc = "slot"
  /\ ~SlotGranted
  /\ spc' = "slotwait"
  /\ UNCHANGED <<clock, mpc, queueVars, qsem, active, clientVars, snow, held, valid, execVars, markVars>>

SlotWait ==
  /\ spc = "slotwait"
  /\ SemTimedWait
  /\ spc' = "slot"
  /\ UNCHANGED <<clock, mpc, queueVars, active, clientVars, snow, held, valid, execVars, markVars>>

SlotFree ==
  /\ spc = "slot"
  /\ SlotGranted
  /\ spc' = IF Running THEN "filter" ELSE "drop"
  /\ snow' = IF Running THEN Seconds ELSE 0
  /\ UNCHANGED <<clock, mpc, queueVars, qsem, active, clientVars, held, valid, execVars, markVars>>

\* Stopped with a batch in hand: every task of it is given up.
Drop ==
  /\ spc = "drop"
  /\ Idle(Scheduler)
  /\ held # << >>
  /\ Expire(Head(held))
  /\ held' = Tail(held)
  /\ UNCHANGED <<clock, mpc, queueVars, qsem, active, wpc, wabs, fresh, spc, snow, valid, execVars>>

DropEnd ==
  /\ spc = "drop"
  /\ Idle(Scheduler)
  /\ held = << >>
  /\ spc' = "done"
  /\ UNCHANGED <<clock, mpc, queueVars, qsem, active, clientVars, snow, held, valid, execVars, markVars>>

\* The last look at the deadlines before the batch is submitted.
FilterExpired ==
  /\ spc = "filter"
  /\ Idle(Scheduler)
  /\ held # << >>
  /\ LooksExpired(Head(held))
  /\ Expire(Head(held))
  /\ held' = Tail(held)
  /\ UNCHANGED <<clock, mpc, queueVars, qsem, active, wpc, wabs, fresh, spc, snow, valid, execVars>>

FilterValid ==
  /\ spc = "filter"
  /\ Idle(Scheduler)
  /\ held # << >>
  /\ LooksValid(Head(held))
  /\ valid' = Append(valid, Head(held))
  /\ held' = Tail(held)
  /\ UNCHANGED <<clock, mpc, queueVars, qsem, active, clientVars, spc, snow, execVars, markVars>>

FilterEnd ==
  /\ spc = "filter"
  /\ Idle(Scheduler)
  /\ held = << >>
  /\ spc' = IF valid = << >> THEN "sem" ELSE "increment"
  /\ snow' = 0
  /\ UNCHANGED <<clock, mpc, queueVars, qsem, active, clientVars, held, valid, execVars, markVars>>

\* Mutant: the batch is not counted.
IncrementForgotten ==
  /\ spc = "increment"
  /\ spc' = "spawn"
  /\ UNCHANGED <<clock, mpc, queueVars, qsem, active, clientVars, snow, held, valid, execVars, markVars>>

Increment ==
  /\ spc = "increment"
  /\ active' = active + 1
  /\ spc' = "spawn"
  /\ UNCHANGED <<clock, mpc, queueVars, qsem, clientVars, snow, held, valid, execVars, markVars>>

\* pthread_create hands the batch to a new thread; nobody looks at its result.
Spawn ==
  /\ spc = "spawn"
  /\ \E e \in ExecThreads :
       /\ epc[e] = "free"
       /\ epc' = [epc EXCEPT ![e] = "start"]
       /\ ebatch' = [ebatch EXCEPT ![e] = valid]
  /\ valid' = << >>
  /\ spc' = "sem"
  /\ UNCHANGED <<clock, mpc, queueVars, qsem, active, clientVars, snow, held, edata, markVars>>

SpawnFailure ==
  /\ SpawnMayFail
  /\ spc = "spawn"
  /\ valid' = << >>
  /\ spc' = "sem"
  /\ UNCHANGED <<clock, mpc, queueVars, qsem, active, clientVars, snow, held, execVars, markVars>>

Dispatch == Increment \/ Spawn \/ SpawnFailure
CleanupExpired == CleanOne \/ CleanEnd
CollectBatch == Take \/ CollectOne \/ CollectEnd
FilterBatch == FilterExpired \/ FilterValid \/ FilterEnd
Run == \/ SemWait \/ CleanupExpired \/ Window \/ Sleep \/ CollectBatch
       \/ SlotTaken \/ SlotWait \/ SlotFree \/ Drop \/ DropEnd \/ FilterBatch \/ Dispatch

-----------------------------------------------------------------------------
(* An execution thread, BatchScheduler::execute_batch *)

\* The inputs are copied out of the tasks; out of a dead frame comes anything.
ReadInputs(e) ==
  /\ epc[e] = "start"
  /\ \E in \in [DOMAIN ebatch[e] -> Inputs] :
       /\ \A i \in DOMAIN ebatch[e] :
            Live(ebatch[e][i].addr) => in[i] = task[ebatch[e][i].addr].input
       /\ edata' = [edata EXCEPT ![e] = in]
  /\ epc' = [epc EXCEPT ![e] = "infer"]
  /\ UNCHANGED <<clock, mpc, queueVars, qsem, active, clientVars, schedVars, ebatch, markVars>>

\* infer_batch returns one result per input, in order, or fails them all.  The result
\* for an input is represented by the input it was computed from.
Infer(e) ==
  /\ epc[e] = "infer"
  /\ \/ UNCHANGED edata
     \/ EngineMayFail /\ edata' = [edata EXCEPT ![e] = [i \in DOMAIN edata[e] |-> Null]]
  /\ epc' = [epc EXCEPT ![e] = "write"]
  /\ UNCHANGED <<clock, mpc, queueVars, qsem, active, clientVars, schedVars, ebatch, markVars>>

\* Mutant: the results are read from the wrong end.
LastResult(e) == edata[e][Len(edata[e])]

\* results[i] for batch[i]: both sequences lose their heads together.
ResultOf(e) == Head(edata[e])

\* One result is written into its task, which is then marked done.
WriteBack(e) ==
  LET p == Head(ebatch[e])
      r == ResultOf(e)
  IN  /\ epc[e] = "write"
      /\ Idle(e)
      /\ ebatch[e] # << >>
      /\ WriteTask(p, IF r = Null THEN [task[p.addr] EXCEPT !.success = FALSE]
                      ELSE [task[p.addr] EXCEPT !.success = TRUE, !.output = r])
      /\ CallMarkDone(e, p)
      /\ ebatch' = [ebatch EXCEPT ![e] = Tail(@)]
      /\ edata' = [edata EXCEPT ![e] = Tail(@)]
      /\ UNCHANGED <<clock, mpc, queueVars, qsem, active, wpc, wabs, fresh, schedVars, epc>>

WriteBackEnd(e) ==
  /\ epc[e] = "write"
  /\ Idle(e)
  /\ ebatch[e] = << >>
  /\ epc' = [epc EXCEPT ![e] = "decrement"]
  /\ UNCHANGED <<clock, mpc, queueVars, qsem, active, clientVars, schedVars, ebatch, edata, markVars>>

Decrement(e) ==
  /\ epc[e] = "decrement"
  /\ QueueLockFree
  /\ active' = active - 1
  /\ epc' = [epc EXCEPT ![e] = "post"]
  /\ UNCHANGED <<clock, mpc, queueVars, qsem, clientVars, schedVars, ebatch, edata, markVars>>

PostSlot(e) ==
  /\ epc[e] = "post"
  /\ SemPost
  /\ epc' = [epc EXCEPT ![e] = "free"]
  /\ UNCHANGED <<clock, mpc, queueVars, active, clientVars, schedVars, ebatch, edata, markVars>>

ExecuteBatch(e) == \/ ReadInputs(e) \/ WriteBack(e) \/ WriteBackEnd(e) \/ PostSlot(e)
                   \/ MarkDone(e)

-----------------------------------------------------------------------------
Next ==
  \/ Tick \/ Stop
  \/ \E w \in Workers : Begin(w) \/ EnqueueTask(w) \/ WaitForTask(w) \/ SpuriousWakeup(w)
  \/ Run \/ MarkDone(Scheduler)
  \/ \E e \in ExecThreads : ExecuteBatch(e) \/ Infer(e) \/ Decrement(e)

\* What every thread guarantees whatever the engine does: a thread that can go on does,
\* and one that waits for queue_lock_ gets it.  Requests, spurious wakeups and stop are
\* not forced.
ThreadFairness ==
  /\ WF_vars(Tick)
  /\ WF_vars(StopPost)
  /\ \A w \in Workers : SF_vars(EnqueueTask(w)) /\ WF_vars(WaitForTask(w))
  /\ WF_vars(Run \/ MarkDone(Scheduler))
  /\ \A e \in ExecThreads : WF_vars(ExecuteBatch(e)) /\ SF_vars(Decrement(e))

\* The engine returns.
EngineFairness == \A e \in ExecThreads : WF_vars(Infer(e))

Spec == Init /\ [][Next]_vars
HangingSpec == Spec /\ ThreadFairness
FairSpec == HangingSpec /\ EngineFairness

-----------------------------------------------------------------------------
(* Properties *)

\* Every variable keeps to its type; a frame is there exactly while its request is.
TypeOK ==
  /\ clock \in Nat
  /\ mpc \in {"serving", "stopping", "stopped"}
  /\ queue \in [Classes -> Seq(Pointer)]
  /\ nextId \in Ids
  /\ qsem \in Nat
  /\ active \in Int
  /\ task \in [Workers -> Task \cup {Null}]
  /\ wpc \in [Workers -> WorkerPCs]
  /\ wabs \in [Workers -> Nat]
  /\ fresh \in [Workers -> BOOLEAN]
  /\ \A w \in Workers : (wpc[w] = "idle") <=> (task[w] = Null)
  /\ spc \in SchedPCs
  /\ snow \in Nat
  /\ held \in Seq(Pointer)
  /\ valid \in Seq(Pointer)
  /\ epc \in [ExecThreads -> ExecPCs]
  /\ ebatch \in [ExecThreads -> Seq(Pointer)]
  /\ edata \in [ExecThreads -> Seq(Inputs \cup {Null})]
  /\ \A e \in ExecThreads : epc[e] \in {"infer", "write"} => Len(edata[e]) = Len(ebatch[e])
  /\ mstage \in [Threads -> {"none", "lock", "signal"}]
  /\ mptr \in [Threads -> Pointer \cup {Null}]
  /\ \A t \in Threads : (mstage[t] = "none") <=> (mptr[t] = Null)

\* active_batch_count_ counts exactly the batches between ++active_batch_count_ in run
\* and --active_batch_count_ in execute_batch, as long as every pthread_create succeeds.
Counted == {e \in ExecThreads : epc[e] \notin {"free", "post"}}
ActiveIsExact == active = Cardinality(Counted) + (IF spc = "spawn" THEN 1 ELSE 0)
SlotsAccounted == ~SpawnMayFail => ActiveIsExact

\* Never more than max_concurrent_batches_ batches with the engine, although the test of
\* the counter and its increment are steps of different critical sections.
ConcurrencyLimit == Cardinality({e \in ExecThreads : epc[e] \in {"start", "infer"}}) <= MaxConcurrent

\* A limit on the queues is a limit, however the workers race to enqueue.
QueueLimit == MaxQueueSize > 0 => PendingCount <= MaxQueueSize

\* The pointers whose tasks have not been marked done, and those among them that somebody
\* will mark: running_ is what makes the scheduler thread empty the queues, and once it
\* has ended its vectors are gone, too.
Unmarked == Queued \cup Elements(held) \cup Elements(valid)
              \cup (UNION {Batch(e) : e \in ExecThreads})
              \cup {mptr[t] : t \in {u \in Threads : mstage[u] = "lock"}}
WillComplete == (UNION {Batch(e) : e \in ExecThreads})
                  \cup {mptr[t] : t \in {u \in Threads : mstage[u] = "lock"}}
                  \cup (IF spc = "done" THEN {} ELSE Elements(held) \cup Elements(valid))
                  \cup (IF spc = "done" \/ ~Running THEN {} ELSE Queued)

\* No accepted task is forgotten: until it is completed, somebody who will complete it
\* holds a pointer to it -- through expiry, filtering, and a reuse of its frame.  The one
\* exception is a stop: it leaves to its own timeout what is still in a queue (the thread
\* ends without a look at the queues), but nothing that was collected before.
Pending(w) == wpc[w] \in {"post", "wait", "waiting", "woken"} /\ ~task[w].completed
LeftInQueue(w) == ~Running /\ \E p \in Queued : p.addr = w
NoOrphan == ~SpawnMayFail =>
  \A w \in Workers : Pending(w) => LeftInQueue(w) \/ \E p \in WillComplete : p.addr = w

\* A worker never sleeps on a completed task unless the signal for it is still to come.
NoLostWakeup ==
  \A w \in Workers : wpc[w] = "waiting" /\ task[w].completed =>
    \E t \in Threads : mstage[t] = "signal" /\ mptr[t].addr = w

\* A task is in one place at a time: two places would complete it twice.
Places == << Queued, Elements(held), Elements(valid) >>
InOnePlace ==
  /\ Cardinality(Queued) = PendingCount
  /\ \A i \in DOMAIN Places, e \in ExecThreads, t \in Threads :
       Places[i] \cap (Batch(e) \cup Marking(t)) = {}
  /\ \A i, j \in DOMAIN Places : i # j => Places[i] \cap Places[j] = {}
  /\ \A e, f \in ExecThreads : e # f => Batch(e) \cap Batch(f) = {}
  /\ \A e \in ExecThreads, t \in Threads : Batch(e) \cap Marking(t) = {}

\* A pointer whose task is not completed yet leads to that task, unless so much time has
\* passed that a request may have timed out: nothing else lets a worker leave its frame.
Points(p) == Live(p.addr) /\ task[p.addr].id = p.id
OnlyTimeoutsDangle ==
  \A p \in Unmarked : Points(p) \/ clock >= TimeoutSec * TicksPerSec

\* What do_request is about to answer, if it is a result, is the result for the input of
\* this very request -- provided nothing pointed to its frame when it began.
Succeeded(w) == wpc[w] = "respond" /\ ~task[w].timeout /\ task[w].success
OwnAnswer == \A w \in Workers : fresh[w] /\ Succeeded(w) => task[w].output = task[w].input

\* With the same proviso a request that is neither answered nor timed out failed in the engine.
NoFalseFailure ==
  \A w \in Workers : fresh[w] /\ wpc[w] = "respond" /\ ~task[w].timeout /\ ~task[w].success
                        => EngineMayFail

\* A late batch of an earlier request of the same worker, or another task of the same batch,
\* gives no request its result or its failure.
OwnOutcome == OwnAnswer /\ NoFalseFailure

\* "inference timeout" is answered only after the time of the request has run out, by the
\* worker's clock or by the scheduler's, or because the scheduler is being stopped.
TimeoutNotEarly ==
  \A w \in Workers : wpc[w] = "respond" /\ task[w].timeout =>
    clock >= wabs[w] \/ Seconds > task[w].deadline \/ ~Running

\* With a live engine every waiting request is answered, without the help of the clock.
Answered == \A w \in Workers : (wpc[w] = "waiting") ~> (wpc[w] = "idle")

\* With an engine that hangs the worker's own timeout still frees it.
TimeoutFreesWorker ==
  \A w \in Workers : (wpc[w] = "waiting" /\ wabs[w] <= MaxTime) ~> (wpc[w] = "idle")

\* stop ends the scheduler thread whatever the engine does, also when it waits for a slot.
StopEndsScheduler == (mpc = "stopping") ~> (spc = "done")

\* What the documentation says and the code does not do.

\* test_phase3.py:98: every response carries the result for its own input.
AlwaysOwnAnswer == \A w \in Workers : Succeeded(w) => task[w].output = task[w].input
=============================================================================

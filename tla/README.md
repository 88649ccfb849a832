# TLA+ models of the AI inference gateway

An HTTP gateway that batches inference requests: one epoll thread, a pool of worker threads
that each block on the request they serve, one scheduler thread that puts queued requests
together, and one execution thread per batch. This directory models its concurrent parts,
checks them with TLC on small instances and proves theorems about each of them with TLAPS, for
all sizes.

- [Inventory](#inventory), [Modules](#modules), [Runs](#runs), [Fairness](#fairness),
  [Proofs](#proofs), [What the code does not keep](#what-the-code-does-not-keep),
  [Abstractions](#abstractions), [Not modelled](#not-modelled), [Plan](#plan)

## Inventory

| component | state | operations | behaviours that are hard |
|---|---|---|---|
| Batching scheduler (`scheduler/batch_scheduler.*`) | three deques of `InferenceTask*`, `next_task_id_`, `active_batch_count_`, `running_`, one semaphore for tasks, slots and stop | `enqueue`, `run` (expiry, window, collection, slot wait, filter, submission), `execute_batch`, `stop` | pointers to stack frames that may be gone; a test and its increment in different critical sections; one semaphore for three purposes |
| Inference task (`scheduler/inference_task.h`) | `completed`, `timeout`, `success`, output, a mutex and a condition | `wait_with_timeout_ms`, `mark_done` | lost wakeup, completion racing the timeout, signal after unlock |
| HTTP connection (`http/http_conn.*`) | buffers and indices, parser state, response and its `iovec`, `improv`, `timer_flag` | `init`, `read_once`, `process` (parse, `do_request`, `process_write`), `write`, `close_conn` | used by the main thread and by workers in turn; reused with its descriptor; partial reads and writes; buffers that grow; fields found by searching the body |
| Event loop (`webserver.*`) | `users`, `users_timer`, epoll registrations, the listening socket | accept, refusal, read, write, hang-up, signal, `deal_timer` | two actor models; two trigger modes; spinning on a flag; stale timer pointers |
| Thread pool (`threadpool/threadpool.h`) | `m_workqueue` with a limit | `append`, `append_p`, `run` | results of a full queue ignored; order of `improv` and `timer_flag` |
| Idle timers (`timer/lst_timer.*`) | sorted doubly linked list | `add_timer`, `adjust_timer`, `del_timer`, `tick`, `cb_func` | pointer surgery, early stop of `tick`, closing under a worker |
| Log (`log/*`) | `m_count`, `m_today`, the file, a ring of lines | `write_log`, `push`, `pop`, `async_write_log` | two critical sections per line, a full ring, rotation |
| Engines (`engine/*`) | `session_`, `model_info_`, `has_batch_dim_`, `initialized_` | `init`, `infer_batch`, `shutdown` | may fail at any step, may not return; a batch of inputs of different lengths in one tensor; loaded again after use |
| Lock wrappers (`lock/locker.h`) | — | `sem`, `locker`, `cond` | |
| Model manager, buffer pool, configuration, tests | | | not used by the server, or sequential; not modelled |

Interaction: the event loop reads a request (itself, or through a worker) and queues the
connection object for the pool. The worker parses, builds an `InferenceTask` on its stack,
enqueues its address and waits. The scheduler thread moves the pointer from a deque into a
batch, and the batch to an execution thread, which calls the engine, writes results through
the pointers and marks the tasks done. The worker builds the response and arms the descriptor
for writing. Beside this the main thread's SIGALRM timer closes quiet connections, and every
thread logs.

What makes each part correct: every accepted task is completed once, in order, within the
limits, and its answer is the one of its request; no thread waits for something that has
happened; every connection is handled by one thread at a time, has its timer and is closed
once; what a request says does not depend on how it arrives, its task has the fields of its
body, and its response arrives whole; batching cannot be noticed in a result; the timer list is
a sorted list; no log line is lost or doubled. The list of hazards in
PROJECT.json gives, line by line, where each of these could go wrong and which property
would notice.

## Modules

| module | models | how state and actions correspond |
|---|---|---|
| `BatchScheduler` | `scheduler/`, and `do_request` from the task it builds to its answer | one action per step between locks, named after the function it belongs to. `queue[c]` are the three deques, `held` and `valid` the local vectors `batch` and `valid_batch`, `active` and `qsem` the counter and the semaphore. `task[w]` is the stack frame of worker `w`, `Null` while `do_request` is not running. A pointer is `[addr, id, cls]`, whose `id` and `cls` are ghosts |
| `TaskDispatch` | what the scheduler promises (abstract) | sets of tasks: queued, chosen, running |
| `BatchSchedulerRefinement` | `BatchScheduler` implements `TaskDispatch` | the mapping: deques to `queued`, local vectors to `chosen`, batches of the execution threads to `running` |
| `TimerList` | `sort_timer_lst` pointer by pointer | `node[t]` is a `util_timer`; the walk of the private `add_timer` and of `tick` is a recursive function |
| `IdleTimers` | what the timers promise (abstract) | when each connection was last active; a sweep ends exactly the idle ones |
| `AsyncLog` | `Log` and `block_queue` | each critical section of `write_log` is an action, `Push`, `Pop` and `PopWait` are the ring's; `asleep` is the flushing thread in `m_cond.wait`, which `Broadcast` ends |
| `HttpRequest` | `read_once`, `process_read` and the `parse_*` functions of one connection | a request is a sequence of units (the text of a line, CR, LF, units of a body) that arrive one by one; the indices count units, one action per round of the parser's loop |
| `JsonFields` | `skip_ws`, `json_get_*` and what `do_request` makes of them | pure operators over a sequence of tokens; below them the bodies a client may send and what they mean, which is the reference. `Inputs`, `Models` and `Priorities` are the values a client may put into a field |
| `HttpResponse` | `set_response_body`, `add_response`, `process_write` and `write` of one connection | `m_write_buf` is as long as the memory allocated; a line of the head is one unit; `m_iv` has base and length, so that the arithmetic of `write` is exact |
| `HttpConnection` | one connection from request to response | composes the three: `HttpRequest` until `pc = "answer"`, a task of the fields of a body, any answer the scheduler may give, `HttpResponse` until the next request |
| `Engines` | `OnnxEngine`, `MockEngine`, and how `thread_pool` chooses | `onnx` has the fields of the engine, a tensor is a sequence of integers and its shape; a float of an output names the floats it was computed from |
| `EventLoop` | `WebServer`, `threadpool`, `http_conn` between them, both actor models | `backlog` and `edge` are the kernel's side of the listening socket, `sock`, `armed`, `hup`, `inbox` that of a descriptor, `obj[fd]` is `users[fd]`, `timer` and `utimer` are the timers and `users_timer`, `main` and `worker` are program counters |
| `BatchSchedulerProofs`, `BatchPlacesProofs`, `BatchDispatchProofs` | theorems about `BatchScheduler` | each extends the one before; the last proves what `BatchSchedulerRefinement` states |
| `EventLoopProofs`, `AsyncLogProofs`, `HttpConnectionProofs`, `TimerListProofs`, `EnginesProofs` | theorems about the module of that name | |
| `MC*` | constants and symmetry for TLC | |

Operators that begin with the comment "Mutant" are deliberately wrong variants of the
definition that follows them. No specification uses them. They document what each property
depends on: PROJECT.json pairs every property with the variant that breaks it.

## Runs

| run | module | bounds | shows |
|---|---|---|---|
| `sched_batches` | scheduler | 2 workers, 3 tasks, 2 execution threads, batches of 2, 1 slot, priorities 0, 2 and 7, no clock | types, slot accounting, concurrency limit, implementation of `TaskDispatch` |
| `sched_timeouts` | scheduler | 2 workers, 2 tasks, a clock of 2 s with a timeout of 1 s, a stop at any moment | everything about timeouts, dangling pointers, lost tasks and lost wakeups |
| `sched_limits` | scheduler | queue limit 1, failing `pthread_create`, an engine that hangs, stop | queue limit, end of the scheduler thread, workers freed by their timeout |
| `sched_answered` | scheduler | 3 tasks, no clock, a live engine, a semaphore that counts to 1 | every waiting worker is answered |
| `sched_otheranswer` | scheduler | | a disagreement with the documentation, see below |
| `timers` | timer list | 4 timers, 6 s | list structure, sortedness, implementation of `IdleTimers` |
| `log` | log | 2 writers, a ring of 2, 2 days | no line lost or reordered, rotation limit, every line lands |
| `http` | connection | requests of 2 headers and 2 body units, a read buffer of 12; bodies with up to 3 fields in any order and 5 styles, an input that is empty or has 2 numbers, a model without a name and one that is called like a field (`MCHttpConnection`), 3 priorities; response buffers that begin with 2 units and outputs of up to 4; parts of every size | same answer however a request is cut, no request that fits is cut off, the task of the body, the whole response, every complete request answered |
| `engines` | engines | batches of 2 inputs of up to 2 floats, models of up to 2 dimensions of -1, 1 or 2, which run with one dimension more in front or do not, good and bad files | results as if each request were alone, an engine used before is like a new one |
| `loop_safety` | event loop | 2 descriptors, 2 connections, 2 pool threads, pool queue of 1, 2 pieces per request | one thread at work per connection, one holder unless `timer_flag` comes late, own answers, exact user count, timers match connections |
| `loop_live` | event loop | 1 descriptor used by 2 connections in turn, 2 pool threads, a limit of 1 user | requests served, no endless spin, nobody left in the backlog, dead connections closed |
| `loop_serial` | event loop | 1 descriptor, 2 connections | a disagreement with the documentation, see below |

Why the bounds are enough for the cases to happen: three tasks and two workers reuse a frame;
batches of two with one slot make the scheduler wait for a slot while tasks arrive; `SemMax`
lets `sem_post` reach its ceiling, and in `sched_answered` keeps a single token, which the wait
for a slot takes from the tasks; four timers give `adjust_timer` a node with two neighbours
on either side; a ring of two is full, and overrun, with two writers; with two connections and
one descriptor the second connection inherits object, buffers and timer slot of the first;
a buffer of 12 units holds all requests but the longest, and the longest
that fits fill it to the end;
response buffers of two units double several times, and outputs of every size around a
doubling occur; two inputs of a batch may be shorter, longer or equal, to each other and to the
model; with a pool queue of one the second request in the proactor model overflows it. Counters of
the code are capped by `MaxTasks`, `IdSpace`, `MaxTime`, `MaxLines`, `MaxDay`, `MaxConns` and
`MaxRequests`, which appear as guards. Runs without deadlock checking are those in which the system
may really come to rest: after `stop`, at the last second of the clock, after the last
connection.

## Fairness

- `BatchScheduler` (`ThreadFairness`): weak fairness for the clock, the scheduler thread, each
  execution thread, each worker's wait and the post of `stop`, as the threads are never suspended
  forever. Strong fairness for `EnqueueTask(w)` and `Decrement(e)`: these take `queue_lock_`, which
  is free again and again, since every thread holds it for a bounded time, but may be taken by the
  scheduler thread in between; a mutex that lets nobody wait forever is what the code relies on.
  `FairSpec` adds that `infer_batch` returns;
  `HangingSpec` does not, and is used where the timeout has to help. Nothing is assumed of
  arrivals. `sched_answered` stops the clock, so that no timeout hides a lost task.
- `AsyncLog`: weak fairness for each writer and for the flushing thread. That a wait ends for no
  reason (`WakesUp`) is possible, and nothing relies on it.
- `HttpConnection`: weak fairness of the server, from `read_once` to `write`; the client need not
  finish its request, and may vanish while it is sent a response.
- `EventLoop`: the pool threads and the main thread are weakly fair. Strong fairness is assumed
  of each descriptor's events, of the listening socket and of the signal pipe, since `epoll_wait` returns all that are
  ready and the main thread deals with each before it asks again; and of sending a response,
  since a socket whose client reads does not stay full. Exceptions, clients and partial writes
  are not fair. Time that stands still (`alarm = "off"`) is a behaviour that ends before the
  first alarm; `Served` is about those, so that an idle timer cannot satisfy it.

## Proofs

Every theorem is about the `Spec` of its module and holds for all constants that satisfy the
named assumptions of that module. TLC checks each property, too, on the instances above. Where a
theorem needs more than those assumptions, it says so as a hypothesis:

- `IdsSuffice` (`BatchPlacesProofs`): `next_task_id_` has not wrapped. Pointers are told apart
  by id in the model, and the counter of the code has 64 bits.
- `~SpawnMayFail` (`BatchDispatchProofs`): `pthread_create` succeeds. When it does not, the
  batch is dropped and its slot leaks, which no step of `TaskDispatch` does.
- `Powers` (`HttpConnectionProofs`): what 2^k is, of which the provers know nothing.

The provisos that a property itself has, "no connection was closed under its worker" (`~Cuts`),
"no worker has closed one" (`~Throws`), "the ring was not overrun" (`~overrun`), are explained
under [What the code does not keep](#what-the-code-does-not-keep) or at the property.

### Scheduler

- `TypeCorrect`. `TypeOK` is inductive. It holds two relations a type would not have: a worker
  is idle exactly when its frame is gone, and an execution thread's `edata` is as long as its
  `ebatch` from the engine call on.
- `WakeupsNotLost`. `NoLostWakeup` is inductive together with `TypeOK`. The steps that set
  `completed` leave the thread about to signal; the ones that begin to wait looked at
  `completed` in the same critical section; a write through an old pointer may complete another
  request, and is followed by a signal to the same address.
- `NobodyIsOrphaned`. `NoOrphan` needs `BatchesHandedOver`: an execution thread that has not
  begun, or has ended, holds no pointers, and `held` and `valid` are empty where the code leaves
  them; and `EndsEmptyHanded`: when the scheduler thread ends after `stop`, it holds no pointers
  either. Each step either keeps a pending worker's pointer or moves it to the next place. A
  pointer in a queue counts only while `running_` is set, since the thread then still comes to it;
  those that a `stop` leaves there are the one exception, `LeftInQueue`.
- `SlotsAreAccounted` and `ConcurrencyIsLimited`. The strengthening `BatchSlots` bounds the
  counter by what is in execution also when thread creation fails (the slot then leaks, and the
  counter stays too high, which is on the safe side of the limit), and says that between the
  test and the increment only decrements can happen, because the scheduler thread is the only
  one that increments.
- `QueueIsLimited`. `QueueLimit` is inductive with `TypeOK`: the test and the append are one
  critical section, and every other step removes or keeps.
- `TimeoutsNotEarly`. The verdict may be written through an old pointer, so
  `TimeoutsHaveReasons` gives the reason at the frame (`TimeoutReason`), and adds that the
  scheduler's own `now` is never ahead of the clock and that it drops a batch unseen only after
  `stop`.
- `OutcomesAreOwn`. `OwnInv` is about requests whose frame nobody pointed to when they began:
  the results of a batch in execution match the inputs of the tasks they will be written to
  (`ResultsMatch`), what has been written matches (`OutputsMatch`), and whoever is about to mark
  such a task done, or has, has a reason (`MarksExplained`, `CompletionsExplained`).
- `TasksInOnePlace`. The places of a pointer (queues, `held`, `valid`, batches, hands of
  `mark_done`) are one family `Holds`; every step moves a set of pointers from one place to
  another, adds a new one or drops some (`PointersStep`), and the inductive `PlacesInv` says
  that places are disjoint, that no sequence has a pointer twice, that queues are in order of
  arrival, and that an id is left for every request that is about to enqueue.
- `DanglingNeedsTimeout`. `AttachedInv`: while the clock has not reached the timeout, every
  pointer leads to a request that waits, with a deadline that has not come.
- `SchedulerDispatches`. With `DispatchInv` (types, places, what the two local vectors hold
  when, and slots) each action of the scheduler maps to one of `TaskDispatch` or to a stutter.

### Event loop

- `TypeCorrect`, `TimersLive`. `LoopInv`: an armed descriptor is open (`ArmedOpen`), an open one
  has the timer of its own connection in `users_timer` (`OwnTimer`), and a timer belongs to the
  descriptor it was made for even where `users_timer` still points to it later (`TimerPlace`).
  The pointer is never reset, but a descriptor that is closed is not armed before the next
  accept, which writes it.
- `UsersAccounted`. The counter moves with the set of open descriptors in each step, and
  `Accounted` adds that a timer in the list belongs to an open connection and that the main
  thread spins only on an open one.
- `HandlersSerial`. `HeldOnce`: an armed descriptor is neither queued nor with a worker, a queued
  one is queued once and not with a worker, and no two workers have the same one; that gives
  `Handlers`. A worker that has only `timer_flag` left to set is no handler, since the descriptor may
  be armed by then. For `Holders`, which counts it, `SpinInv` describes the hand-over: while the main
  thread spins on a connection the pool has that one and no other; and `FlagAlone` follows from it:
  as long as nobody was late, the main thread still waits for whoever has `timer_flag` to set, and
  does not ask epoll.
- `RepliesOwn`. The object of a descriptor has bytes and an answer only of the connection it is
  open for, and a worker in `do_request` is there for the connection that is open (`Owned`).

### Log

- `TypeCorrect` with `LogInv`: a writer in `write_log` has the line it made last, and a push
  that overruns the ring finds one line too many at most.
- `QueueKeepsOrder`. While the ring is not overrun it holds `size` lines from the front on
  (`RingInv`), and of each writer the lines in the files are older than the one the flushing
  thread has, that one older than those in the ring, and these older than the one in the
  writer's hands (`OrderInv`).
- `LinesKept`. `KeptInv` counts: the lines in hand, in the ring and in the files are as many as
  the lines made, and are these lines; so none is missing and none is there twice.
- `FilesSplit`. `SplitInv` bounds the lines of a file together with those that are counted and
  not written yet: a line is counted in one critical section and written in another, and the
  file may be changed in between. The run `log` has fewer
  lines than an asynchronous log may put into one file, so that TLC checks the bound for the
  synchronous one; the theorem covers both.

### HTTP connection

- `FittingIsNotCutOff`. `NotCutOff` is inductive with the types (`ConnInv`); the bound is exact
  for both trigger modes.
- `CutsDoNotMatter`. `ParseInv` says of each parser state what has been parsed: in the header
  state there is an h such that the parser stands behind the h-th header and its fields are what
  the first h headers say. That names no cut, so the answer cannot depend on one.
- `TypeCorrect` needs all of these, and of the zero that `parse_content` writes behind the body
  (`zeroed`) that an edge-triggered read always leaves a unit of room (`ZeroInv`). It bounds it to the
  buffer and the place behind it, and the latter to a request that has filled the buffer.
- `ResponsesAreWhole`. `SendInv`: while a response is built, what is in the
  buffer and what is left to add are the text (`Building`); while it is sent, what the client
  has is the first `bytes_have_send` units, and `m_iv`, if it has anything left, begins there
  (`Sending`), although its length is wrong from the second partial write on. The buffer doubles
  until the text fits; that it always ends up large enough is `PowersGrow`.
- `FieldsAreRead` (`TaskOfTheBody`). `TaskInv`: while `do_request` waits, the task is what it made
  of some body; the rest is a fact about bodies, `TaskRead`. A body is a sequence of joined fields,
  and an array in it one of joined numbers; `JoinedPlaces` says where each part stands and that
  nothing else is there. Each colon is that of a field, so a
  quoted key with a colon right behind it stands at the beginning of its field and nowhere else
  (`KeyPlaces`): `strstr` finds the field or, with a blank before the colon, nothing, and never a
  value that looks like a key (`Searched`). The loop over the array is followed round by round (`NumbersRead`): in a plain
  style it has all the numbers when it gets to the bracket (`PlainArray`), and with a line end
  before the commas it ends behind the first (`OddArray`). The theorem is for inputs of any length,
  any set of names for models that are not punctuation (`FieldsAssumption`), and the styles in
  `PlainStyles` and `OddStyles`.

### Idle timers

- `ListStaysSorted`, `TypeCorrect`. A list is described by a function from positions to
  addresses (`Chain`); there is a lemma for each operation on it: insert at a position, remove,
  drop the first n. Where the walk of the private `add_timer`, and that of `tick`, stops is the
  least position that is late enough, which exists as any set of natural numbers has a least
  element (`Least`), so that no induction over the list is needed. `TimerInv` adds that no timer
  expires later than one set now, which is why `adjust_timer` may look only towards the tail.
- `ListSweepsTheIdle`. Each operation is a step of `IdleTimers`; `tick` ends exactly the idle
  ones, because it stops at the first that is not due and the list is sorted.

### Engines

- `UsedIsLikeNew`. `CleanInv`: `has_batch_dim_`, which `init` only ever sets, is clear while
  nothing is loaded; `init` writes every other field.
- `TypeCorrect`. `SessionInv`: an engine in use has loaded a good model and only where the SDK was
  there to build it, so that its shapes and sizes are those of a model; and each way out of
  `infer_batch`, the failing ones included, has one result for each input (`ResultForEach`).
- `BatchingIsUnnoticed` (`AsAlone`). The products and concatenations in it are recursive;
  `Recursion` shows by a least counterexample that the rounds of such a loop can be followed. Element
  r of row q stands at q * size + r of the tensor, and division finds q and r again
  (`RowOfElement`), whatever was cut off or filled up to make the row (`PackedRows`, `RowBack`). The
  shape that `infer_batch` builds is accepted exactly by the models that take that many rows
  (`RowsAccepted`, `OthersRefuse`), and a model without a batch dimension that runs with one in front
  is one of those (`FrontDims`, `FrontFree`), and `LikeNew` says that a used engine has the fields of the
  model it has loaded.

### Only model-checked

- Liveness (`Answered`, `TimeoutFreesWorker`, `StopEndsScheduler`, `EveryLineLands`,
  `WholeIsAnswered`, `Served`, `SpinEnds`, `BacklogServed`, `GoneIsClosed`): it rests on
  fairness, and with it on ENABLED, which the prover does not handle.

## What the code does not keep

- `sched_otheranswer`: after a timeout the task's pointer stays behind, and the worker's next
  request has its task at the same address; it can be answered with the old result.
  `OwnOutcome` says how far the promise does hold: for requests whose frame nothing pointed to.
- A task that is still queued when `stop` clears `running_` is not answered: the scheduler thread
  drops the batch it has, marking its tasks, and ends without a look at the queues
  (batch_scheduler.cpp:125-131, 153-159), so that the worker waits for its own timeout. `NoOrphan`
  excepts just these (`LeftInQueue`).
- Under a steady load of urgent requests a low-priority one is never chosen, since
  `collect_batch` fills a batch from the highest class first (`NextClass`), although
  docs/面试指南-项目价值与改进方向.md:44 says it will be.
- `stop` does not wait for the batches in execution, though `batch_scheduler.h:40` says so: it
  clears `running_`, posts once and returns (`StopClear`, `StopPost`). `StopEndsScheduler` is about
  the scheduler thread only.
- `loop_serial`: the idle timer (15 s) closes a connection whose worker still waits for its
  task (30 s by default); the descriptor and its object go to the next client, and two workers
  work on one object. `Serial` and `OwnReply` hold as long as that has not happened.
- A worker of the reactor sets `timer_flag` after `improv` (threadpool.h:131-146). The main thread may
  have gone on in between; and after the last write to a connection that is not kept, the descriptor
  has been armed again (http_conn.cpp:506). The flag then comes to an object that another thread may
  have, is read at the connection's next request, which is closed under its worker, or not at all.
  The second half of `Serial` is for behaviours without that (`Late`).
- A line is lost if the ring is overrun: `write_log` asks `full()` and pushes in two critical
  sections, the ring takes one line more than it has room for, which overwrites another, and then
  `push` gives up (block_queue.h:137-142), whose result `write_log` ignores. `NoLineLost`, `QueueOrder`
  and `EveryLineLands` except what follows an overrun.
- `write` subtracts the sum of what was sent from `iov_len` at each partial write. After the
  second one the response cannot be finished and its thread calls `writev` with nothing to
  send, forever. `HttpResponse` has this exactly (`Stalled`), `EventLoop` as a possibility
  (`SendForever`), and their liveness properties except the behaviours in which it happens.
- A request with a badly ended line (`LINE_BAD`) is not answered: `process_read` returns
  `NO_REQUEST` and the connection waits until its idle timer ends it. `Expected` has "none" there.
- An edge-triggered connection needs one byte of buffer more than its request, since a read that
  fills the buffer ends with `recv` of length 0. `NotCutOff` has the exact bound.
- A level-triggered one may fill its buffer to the last byte, and then the zero that `parse_content`
  puts behind the body (http_conn.cpp:324) lies one byte behind the buffer: `ZeroTypeOK`, a part of
  the connection's `TypeOK`, says that this is the only way it gets there.
- With an edge-triggered listening socket, `dealclientdata` stops accepting when it refuses
  somebody; whoever waits behind stays in the backlog until the next client comes. `BacklogServed`
  excepts this; it takes three clients, and the runs, with two, do not get there.
- The fields of a body are found by their keys alone. `"key" :` with a blank before the colon is
  not found; a line end before a comma ends the array of floats; a negative priority is taken for
  none. `TaskOfTheBody` says what holds all the same. A key inside a nested object would be found,
  too; the bodies of the model are flat.
- A model whose first dimension is fixed to 1 gets a batch of several inputs as that many rows all
  the same, which ONNX Runtime refuses: every request of such a batch fails, as none would have
  alone. `AsAlone` says that and how they fail.
- A model without a batch dimension, like the one of shape [4] in README.md:59-68, gets its batches
  with one put in front (onnx_engine.cpp:120-128), also a batch of one. README.md:105-117 and
  test_phase3.py:365-396 expect that to work, alone and together. Whether ONNX Runtime runs a model on
  a tensor of higher rank than the file declares is for that library to decide, and the source cannot
  settle it. The model leaves it open (`front`): `AsAlone` covers both answers; in one of them every
  request to such a model fails, against those two places.
- Of a model that takes a batch of several inputs but has an output whose first dimension is fixed,
  or with a dimension of no known size further in, `AsAlone` says nothing: `unpack_batch_output`
  divides what comes back by a length that the file does not give.
- `http_conn::init()` frees the old write and response buffers, but not `m_read_buf`
  (http_conn.cpp:163 and :185): each request of a kept connection loses 8 MB.

## Abstractions

- Reads through a pointer to a frame that is gone return any value; what writes to such a
  frame destroy elsewhere on the stack is not followed. A frame that is reused is exact.
- `time(nullptr)` is never set back.
- Requests, inputs and log lines are model values; formatting and wording are left out. A body of
  JSON is a sequence of tokens in `JsonFields` and a number of units in `HttpRequest`; the connection
  between the two is `AnswerOfTheWhole`, by which `do_request` sees exactly the body.
- `HttpConnection`: what arrives while a worker has the connection counts as arriving when the
  connection waits again; a socket takes any part of what it is offered. Of negative values of
  Content-length there is -1.
- `Engines`: the computation of a model is a free function of its input rows; ONNX Runtime is
  external (`Accepts`, `OutputDims`, `Tensor`, and `RunsAs` with what the model file says).
- In `HttpRequest` a line is one unit, so the inside of a line is never cut; what the zeros
  overwrite that the parser puts over line ends and behind the body is left out, and where the latter
  lies is not (`zeroed`). The client sends its next
  request after the answer; what it would send before is dropped by `init`.
- `epoll_wait` returns one event at a time, in any order.
- A timer tick may come late, because the main thread is held up by a spin, so a connection
  may expire at any tick after its last activity in `EventLoop`; `TimerList` has exact seconds.
- `improv` and `timer_flag` are plain integers that two threads share. The Makefile's
  default, `DEBUG=1`, builds without optimisation, so that each access is one access to memory, in
  program order; this is what is modelled. With `make DEBUG=0` (`-O2`) the compiler may read `improv`
  once and spin forever: `SpinEnds` says nothing of that build.
- The counter `m_user_count` is changed by workers only in `close_conn`; a lost update there is
  not modelled, since `UsersExact` already excludes those behaviours.

## Not modelled

- SIGTERM, the end of the event loop and `~WebServer`, which deletes the connection objects and
  the pool while its detached threads may still be at work: nothing waits for them, and the process
  ends.
- `model_manager.h` and `buffer_pool.*`: no other code calls them (`set_buffer_pool` stores pointers
  that nothing reads), so there are no callers whose interleavings could be taken from the source.
- Configuration and `main`: sequential, before any thread begins; their values are the constants
  of the modules.
- Two requests sent without waiting for an answer: `init` drops what was read of the second.
- Tests, demos and the benchmark, which are clients.

## Plan

1. Done: the scheduler with its abstract specification and theorems, the timer list, the log, the
   HTTP connection from the first byte of a request to the last of its response, the engines, the
   event loop with its listening socket.
2. Done: theorems about all of them, see [Proofs](#proofs), the two refinements included. Each
   safety property that a run checks is a theorem, too.
3. A composition of `EventLoop` with the scheduler's promise, in which the time a worker waits
   and the idle timer are related; pipelined requests.

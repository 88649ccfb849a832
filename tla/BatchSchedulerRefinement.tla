---------------------- MODULE BatchSchedulerRefinement ----------------------
(***************************************************************************)
(* BatchScheduler implements TaskDispatch: the queued tasks are the        *)
(* pointers in the three deques, the chosen ones those in the scheduler's  *)
(* two local vectors, the running ones those an execution thread has not   *)
(* written back.  A task that is being marked done has left.               *)
(***************************************************************************)
EXTENDS BatchScheduler

AsTasks(ps) == {[id |-> p.id, cls |-> p.cls] : p \in ps}

Dispatched == INSTANCE TaskDispatch WITH
  MaxId   <- IdSpace,
  next    <- nextId,
  queued  <- AsTasks(Queued),
  chosen  <- AsTasks(Elements(held) \cup Elements(valid)),
  running <- AsTasks(UNION {Batch(e) : e \in ExecThreads}),
  batches <- Cardinality(Counted)

\* The scheduler dispatches each accepted task at most once, most urgent class first and
\* in order of arrival within it, in batches within both limits, and gives none up once it
\* runs: run, collect_batch, cleanup_expired, enqueue and execute_batch together.
ImplementsDispatch == Dispatched!DispatchSpec
=============================================================================

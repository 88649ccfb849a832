---------------------------- MODULE TaskDispatch ----------------------------
(***************************************************************************)
(* What the batching scheduler promises about the tasks it accepts,        *)
(* without threads, pointers, locks or semaphores.                         *)
(*                                                                         *)
(* Every accepted task is at any time queued, chosen for the next batch or *)
(* running, and leaves the system once.  The next task to be chosen is     *)
(* always the first of the most urgent class; a batch has at most          *)
(* MaxBatchSize tasks; at most MaxConcurrent batches run; a task may be    *)
(* given up before it runs, never while it runs.                           *)
(***************************************************************************)
EXTENDS Integers, FiniteSets

CONSTANTS MaxBatchSize, MaxConcurrent, MaxQueueSize, MaxId

VARIABLES
  next,     \* the id the next accepted task gets
  queued,   \* accepted tasks that nobody has picked up
  chosen,   \* the batch that is being put together
  running,  \* tasks the engine has not answered
  batches   \* number of batches in execution

dispatchVars == <<next, queued, chosen, running, batches>>

DispatchTask == [id: 1..MaxId, cls: 0..2]

\* Urgency: the class first (0 is the most urgent), then the order of arrival.
MoreUrgent(t, u) == t.cls < u.cls \/ (t.cls = u.cls /\ t.id < u.id)

DispatchInit ==
  /\ next = 1
  /\ queued = {} /\ chosen = {} /\ running = {}
  /\ batches = 0

AcceptTask ==
  /\ next <= MaxId
  /\ MaxQueueSize = 0 \/ Cardinality(queued) < MaxQueueSize
  /\ \E c \in 0..2 : queued' = queued \cup {[id |-> next, cls |-> c]}
  /\ next' = next + 1
  /\ UNCHANGED <<chosen, running, batches>>

\* Given up, from the queue or from the batch that has not started.
GiveUp ==
  /\ \/ \E t \in queued : queued' = queued \ {t} /\ UNCHANGED chosen
     \/ \E t \in chosen : chosen' = chosen \ {t} /\ UNCHANGED queued
  /\ UNCHANGED <<next, running, batches>>

ChooseTask ==
  /\ Cardinality(chosen) < MaxBatchSize
  /\ \E t \in queued :
       /\ \A u \in queued \ {t} : MoreUrgent(t, u)
       /\ queued' = queued \ {t}
       /\ chosen' = chosen \cup {t}
  /\ UNCHANGED <<next, running, batches>>

StartBatch ==
  /\ chosen # {}
  /\ batches < MaxConcurrent
  /\ running' = running \cup chosen
  /\ chosen' = {}
  /\ batches' = batches + 1
  /\ UNCHANGED <<next, queued>>

FinishTask ==
  /\ \E t \in running : running' = running \ {t}
  /\ UNCHANGED <<next, queued, chosen, batches>>

EndBatch ==
  /\ batches > 0
  /\ batches' = batches - 1
  /\ UNCHANGED <<next, queued, chosen, running>>

DispatchNext ==
  AcceptTask \/ GiveUp \/ ChooseTask \/ StartBatch \/ FinishTask \/ EndBatch

DispatchSpec == DispatchInit /\ [][DispatchNext]_dispatchVars
=============================================================================

----------------------------- MODULE IdleTimers -----------------------------
(***************************************************************************)
(* What the idle timers of the event loop promise: a sweep ends exactly    *)
(* the connections that have been quiet for IdleTime seconds or more.      *)
(***************************************************************************)
EXTENDS Integers

CONSTANTS Connections, IdleTime, EndOfTime, Closed

VARIABLES
  now,      \* the time, in seconds
  seen      \* when each open connection was last active, or Closed

timerVars == <<now, seen>>

TimersInit == now = 0 /\ seen = [c \in Connections |-> Closed]

PassSecond == now < EndOfTime /\ now' = now + 1 /\ UNCHANGED seen

Open(c)  == seen[c] = Closed /\ seen' = [seen EXCEPT ![c] = now] /\ UNCHANGED now
Touch(c) == seen[c] # Closed /\ seen' = [seen EXCEPT ![c] = now] /\ UNCHANGED now
Close(c) == seen[c] # Closed /\ seen' = [seen EXCEPT ![c] = Closed] /\ UNCHANGED now

IsIdle(c) == seen[c] # Closed /\ seen[c] + IdleTime <= now

Sweep ==
  /\ seen' = [c \in Connections |-> IF IsIdle(c) THEN Closed ELSE seen[c]]
  /\ UNCHANGED now

TimersNext == PassSecond \/ Sweep \/ \E c \in Connections : Open(c) \/ Touch(c) \/ Close(c)

TimersSpec == TimersInit /\ [][TimersNext]_timerVars
=============================================================================

------------------------------ MODULE AsyncLog ------------------------------
(***************************************************************************)
(* The log: threads that call Log::write_log, the ring buffer block_queue  *)
(* and the thread that empties it into the current file.  Log::m_mutex and *)
(* the queue's own mutex protect each step, and are free between the steps *)
(* of one call: the rotation, the test full(), the push and the write to   *)
(* the file are separate critical sections.                                *)
(*                                                                         *)
(* What a line says is left out; a line is its writer, its number and the  *)
(* day its time stamp shows.  The formatting in m_buf is a critical        *)
(* section that leaves nothing behind, and is no step of its own.          *)
(***************************************************************************)
EXTENDS Integers, Sequences, FiniteSets

CONSTANTS
  Writers,      \* threads that log
  QueueSize,    \* m_max_size of the block_queue
  SplitLines,   \* m_split_lines
  MaxDay,       \* bound on the day
  MaxLines,     \* bound on the lines of one writer
  Null

ASSUME LogAssumption == /\ IsFiniteSet(Writers)
                        /\ QueueSize \in Nat \ {0} /\ SplitLines \in Nat \ {0}
                        /\ MaxDay \in Nat /\ MaxLines \in Nat

VARIABLES
  async,    \* m_is_async, chosen by the configuration
  day,      \* the day of the clock
  today,    \* m_today
  count,    \* m_count
  file,     \* m_fp: the day and the part in its name, and ghost, how many were opened
  out,      \* ghost: the lines in the files, with how and into which opening they came
  ring, size, front, back,   \* m_array, m_size, m_front, m_back
  overrun,  \* ghost: the ring has held more than QueueSize lines
  pc,       \* where each writer is in write_log
  line,     \* the line it is writing
  made,     \* ghost: how many lines it has made
  popped,   \* single_log of the flushing thread
  asleep    \* it waits on the queue's m_cond

fileVars == <<day, today, count, file>>
ringVars == <<ring, size, front, back, overrun>>
writerVars == <<pc, line, made>>
flusherVars == <<popped, asleep>>
vars == <<async, fileVars, out, ringVars, writerVars, flusherVars>>

-----------------------------------------------------------------------------
Line == [by: Writers, n: 1..MaxLines, day: 0..MaxDay]

ASSUME NullAssumption == Null \notin Line

\* Log::init
Init ==
  /\ async \in BOOLEAN
  /\ day = 0 /\ today = 0 /\ count = 0
  /\ file = [day |-> 0, part |-> 0, opened |-> 1]
  /\ out = << >>
  /\ ring = [i \in 0..(QueueSize - 1) |-> Null]
  /\ size = 0 /\ front = -1 /\ back = -1
  /\ overrun = FALSE
  /\ pc = [w \in Writers |-> "idle"]
  /\ line = [w \in Writers |-> Null]
  /\ made = [w \in Writers |-> 0]
  /\ popped = Null /\ asleep = FALSE

Midnight ==
  /\ day < MaxDay
  /\ day' = day + 1
  /\ UNCHANGED <<async, today, count, file, out, ringVars, writerVars, flusherVars>>

\* write_log takes the time ...
Stamp(w) ==
  /\ pc[w] = "idle"
  /\ made[w] < MaxLines
  /\ made' = [made EXCEPT ![w] = @ + 1]
  /\ line' = [line EXCEPT ![w] = [by |-> w, n |-> made[w] + 1, day |-> day]]
  /\ pc' = [pc EXCEPT ![w] = "rotate"]
  /\ UNCHANGED <<async, fileVars, out, ringVars, flusherVars>>

\* Mutant: the count is not compared with the limit.
NewDayOnly(w) == today # line[w].day

MustRotate(w) == today # line[w].day \/ (count + 1) % SplitLines = 0

\* ... counts the line, and opens another file if the line is of another day than the last
\* one -- a later or an earlier one -- or fills the file ...
Rotate(w) ==
  /\ pc[w] = "rotate"
  /\ IF MustRotate(w)
       THEN LET newDay == today # line[w].day
            IN  /\ count' = IF newDay THEN 0 ELSE count + 1
                /\ file' = [day    |-> line[w].day,
                            part   |-> IF newDay THEN 0 ELSE (count + 1) \div SplitLines,
                            opened |-> file.opened + 1]
                /\ today' = line[w].day
       ELSE count' = count + 1 /\ UNCHANGED <<file, today>>
  /\ pc' = [pc EXCEPT ![w] = "route"]
  /\ UNCHANGED <<async, day, out, ringVars, line, made, flusherVars>>

\* ... tests the queue, whose lock it then gives back ...
Route(w) ==
  /\ pc[w] = "route"
  /\ pc' = [pc EXCEPT ![w] = IF async /\ size < QueueSize THEN "push" ELSE "write"]
  /\ UNCHANGED <<async, fileVars, out, ringVars, line, made, flusherVars>>

Return(w) ==
  /\ pc' = [pc EXCEPT ![w] = "idle"]
  /\ line' = [line EXCEPT ![w] = Null]

\* Mutants: the slot of the last line is used again; the index does not wrap.
SameSlot == IF back = -1 THEN 0 ELSE back
SlotPastEnd == back + 1

NextBack == (back + 1) % QueueSize

\* Mutant: whoever waits for a line is not woken.
NoBroadcast == UNCHANGED asleep

\* m_cond.broadcast: it wakes the flushing thread if that waits by now, and is lost otherwise.
Broadcast == asleep' = FALSE

\* ... and pushes the line; push gives up, and the line is lost, only if the ring holds
\* more than it has room for.  It broadcasts either way.
Push(w) ==
  /\ pc[w] = "push"
  /\ IF size > QueueSize
       THEN UNCHANGED ringVars
       ELSE /\ back' = NextBack
            /\ ring' = [ring EXCEPT ![NextBack] = line[w]]
            /\ size' = size + 1
            /\ overrun' = (overrun \/ size + 1 > QueueSize)
            /\ UNCHANGED front
  /\ Broadcast
  /\ Return(w)
  /\ UNCHANGED <<async, fileVars, out, made, popped>>

Written(l, via) == out' = Append(out, [line |-> l, via |-> via, opened |-> file.opened])

\* If the queue was full, or the log is synchronous, it writes the line to the file itself.
Write(w) ==
  /\ pc[w] = "write"
  /\ Written(line[w], "direct")
  /\ Return(w)
  /\ UNCHANGED <<async, fileVars, ringVars, made, flusherVars>>

\* Mutant: the newest line is popped.
NewestSlot == back

FrontSlot == (front + 1) % QueueSize
NonEmpty == size > 0

\* The flushing thread looks for a line under the queue's mutex, and gives the mutex up and
\* falls asleep in one step if there is none; a wait that ends for no reason makes it look again.
Awake == async /\ popped = Null /\ ~asleep

PopWait ==
  /\ Awake
  /\ ~NonEmpty
  /\ asleep' = TRUE
  /\ UNCHANGED <<async, fileVars, out, ringVars, writerVars, popped>>

WakesUp ==
  /\ asleep
  /\ asleep' = FALSE
  /\ UNCHANGED <<async, fileVars, out, ringVars, writerVars, popped>>

Pop ==
  /\ Awake
  /\ NonEmpty
  /\ popped' = ring[FrontSlot]
  /\ front' = FrontSlot
  /\ size' = size - 1
  /\ UNCHANGED <<async, fileVars, out, ring, back, overrun, writerVars, asleep>>

\* async_write_log writes what it has popped.
Flush ==
  /\ popped # Null
  /\ Written(popped, "queue")
  /\ popped' = Null
  /\ UNCHANGED <<async, fileVars, ringVars, writerVars, asleep>>

WriteLog(w) == Rotate(w) \/ Route(w) \/ Push(w) \/ Write(w)
FlushLogThread == PopWait \/ Pop \/ Flush

Next == Midnight \/ WakesUp \/ FlushLogThread \/ \E w \in Writers : Stamp(w) \/ WriteLog(w)

Spec == Init /\ [][Next]_vars

\* Threads that can go on do; that a thread logs, that days pass and that a wait ends for no
\* reason is not forced.
FairSpec == Spec /\ WF_vars(FlushLogThread) /\ \A w \in Writers : WF_vars(WriteLog(w))

-----------------------------------------------------------------------------
(* Properties *)

TypeOK ==
  /\ async \in BOOLEAN
  /\ {day, today} \subseteq 0..MaxDay
  /\ count \in Nat
  /\ file \in [day: 0..MaxDay, part: Nat, opened: Nat]
  /\ out \in Seq([line: Line, via: {"direct", "queue"}, opened: Nat])
  /\ ring \in [0..(QueueSize - 1) -> Line \cup {Null}]
  /\ size \in Nat
  /\ {front, back} \subseteq -1..(QueueSize - 1)
  /\ overrun \in BOOLEAN
  /\ pc \in [Writers -> {"idle", "rotate", "route", "push", "write"}]
  /\ line \in [Writers -> Line \cup {Null}]
  /\ made \in [Writers -> 0..MaxLines]
  /\ popped \in Line \cup {Null}
  /\ asleep \in BOOLEAN

\* Where a line is: in the ring, in the hands of a thread, or in a file.
Waiting   == {ring[(front + i) % QueueSize] : i \in 1..size} \ {Null}
InHand    == {line[w] : w \in {v \in Writers : pc[v] # "idle"}} \cup ({popped} \ {Null})
Landed    == {out[i].line : i \in DOMAIN out}
Lines     == UNION {{<<w, n>> : n \in 1..made[w]} : w \in Writers}

\* As long as the ring never held more than its size, every line is in exactly one place and
\* none was written twice: write_log, push, pop and the fallback to the direct write together.
NoLineLost ==
  ~overrun => /\ {<<l.by, l.n>> : l \in Waiting \cup InHand \cup Landed} = Lines
              /\ size + Cardinality(InHand) + Len(out) = Cardinality(Lines)

\* The lines of one thread that go through the queue reach the files in their order, whatever
\* the other threads and the flushing thread do, if the ring was never overrun.
QueueOrder ==
  ~overrun => \A i, j \in DOMAIN out :
    i < j /\ out[i].via = "queue" /\ out[j].via = "queue" /\ out[i].line.by = out[j].line.by
      => out[i].line.n < out[j].line.n

\* Between two openings a file gets at most SplitLines lines, but for the lines that had been
\* counted for an earlier file and were still on their way: one per other thread, and those in
\* the queue.
OnTheirWay == Cardinality(Writers) - 1 + IF async THEN QueueSize + 2 ELSE 0
SplitLimit ==
  \A f \in 1..file.opened :
    Cardinality({i \in DOMAIN out : out[i].opened = f}) <= SplitLines + OnTheirWay

\* Every line that is being logged reaches a file, unless the ring is overrun: the flushing
\* thread is never left asleep beside a queue with a line in it, however its look at the queue
\* and its falling asleep meet the pushes of the others.
EveryLineLands ==
  \A w \in Writers, n \in 1..MaxLines :
    made[w] = n ~> (overrun \/ \E i \in DOMAIN out : out[i].line.by = w /\ out[i].line.n = n)
=============================================================================

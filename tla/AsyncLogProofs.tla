--------------------------- MODULE AsyncLogProofs ---------------------------
(* Safety of AsyncLog, for every number of writers, queue size and split limit. *)
EXTENDS AsyncLog, FiniteSetTheorems, TLAPS

USE DEF vars, fileVars, ringVars, writerVars, flusherVars

-----------------------------------------------------------------------------
(* Facts about the data *)

LEMMA Numbers ==
  /\ QueueSize \in Nat \ {0} /\ SplitLines \in Nat \ {0} /\ MaxDay \in Nat /\ MaxLines \in Nat
  /\ IsFiniteSet(Writers)
  BY LogAssumption

\* An index that goes round a ring once.
Wrap(x) == IF x < QueueSize THEN x ELSE IF x < 2 * QueueSize THEN x - QueueSize ELSE 0

LEMMA Wraps == \A x \in 0..(2 * QueueSize) : x % QueueSize = Wrap(x)
<1> SUFFICES ASSUME NEW x \in 0..(2 * QueueSize) PROVE x % QueueSize = Wrap(x)
  OBVIOUS
<1>1. QueueSize \in Nat /\ QueueSize > 0
  BY Numbers
<1>2. CASE x < QueueSize
  BY <1>1, <1>2 DEF Wrap
<1>3. CASE ~(x < QueueSize) /\ x < 2 * QueueSize
  BY <1>1, <1>3 DEF Wrap
<1>4. CASE ~(x < 2 * QueueSize)
  BY <1>1, <1>4 DEF Wrap
<1> QED
  BY <1>2, <1>3, <1>4

\* The slot of the i-th line behind the front.
Slot(f, i) == (f + i) % QueueSize

LEMMA SlotAt ==
  ASSUME NEW f \in -1..(QueueSize - 1), NEW i \in 0..(QueueSize + 1), f + i >= 0
  PROVE  Slot(f, i) = Wrap(f + i)
<1>1. f + i \in 0..(2 * QueueSize)
  BY Numbers
<1> QED
  BY <1>1, Wraps DEF Slot

LEMMA SlotType == \A f \in Int, i \in Int : Slot(f, i) \in 0..(QueueSize - 1)
<1>1. \A q \in Nat \ {0}, y \in Int : y % q \in 0..(q - 1)
  OBVIOUS
<1> QED
  BY <1>1, Numbers DEF Slot

\* The lines are in different slots, and have others when the front or the back moves on.
LEMMA Slots ==
  ASSUME NEW f \in -1..(QueueSize - 1)
  PROVE  /\ \A i, j \in 1..QueueSize : Slot(f, i) = Slot(f, j) => i = j
         /\ \A i \in 0..QueueSize : Slot(Slot(f, 1), i) = Slot(f, i + 1)
         /\ \A i \in 1..QueueSize : (Slot(f, i) + 1) % QueueSize = Slot(f, i + 1)
<1>0. QueueSize \in Nat /\ QueueSize > 0 /\ f \in Int
  BY Numbers
<1>1. ASSUME NEW i \in 1..QueueSize, NEW j \in 1..QueueSize, Slot(f, i) = Slot(f, j) PROVE i = j
  <2>1. /\ i \in 0..(QueueSize + 1) /\ f + i >= 0 /\ f + i < 2 * QueueSize
        /\ j \in 0..(QueueSize + 1) /\ f + j >= 0 /\ f + j < 2 * QueueSize
    BY <1>0
  <2>2. Wrap(f + i) = Wrap(f + j)
    BY <1>1, <2>1, SlotAt
  <2> QED
    BY <1>0, <2>1, <2>2 DEF Wrap
<1>2. ASSUME NEW i \in 0..QueueSize PROVE Slot(Slot(f, 1), i) = Slot(f, i + 1)
  <2> DEFINE g == Slot(f, 1)
  <2>1. 1 \in 0..(QueueSize + 1) /\ f + 1 >= 0 /\ f + 1 < 2 * QueueSize
    BY <1>0
  <2>2. g = Wrap(f + 1)
    BY <2>1, SlotAt
  <2>3. g \in -1..(QueueSize - 1) /\ i \in 0..(QueueSize + 1) /\ g + i >= 0
        /\ i + 1 \in 0..(QueueSize + 1) /\ f + (i + 1) >= 0
    BY <1>0, <2>1, <2>2 DEF Wrap
  <2>4. Slot(f, i + 1) = Wrap(f + (i + 1))
    BY <2>3, SlotAt
  <2> HIDE DEF g
  <2>5. Slot(g, i) = Wrap(g + i)
    BY <2>3, SlotAt
  <2>6. Wrap(g + i) = Wrap(f + (i + 1))
    BY <1>0, <2>1, <2>2 DEF Wrap
  <2>7. Slot(g, i) = Slot(f, i + 1)
    BY <2>4, <2>5, <2>6
  <2> QED
    BY <2>7 DEF g
<1>3. ASSUME NEW i \in 1..QueueSize PROVE (Slot(f, i) + 1) % QueueSize = Slot(f, i + 1)
  <2> DEFINE s == Slot(f, i)
  <2>1. /\ i \in 0..(QueueSize + 1) /\ f + i >= 0 /\ f + i < 2 * QueueSize
        /\ i + 1 \in 0..(QueueSize + 1) /\ f + (i + 1) >= 0
    BY <1>0
  <2>2. s = Wrap(f + i)
    BY <2>1, SlotAt
  <2>3. Slot(f, i + 1) = Wrap(f + (i + 1))
    BY <2>1, SlotAt
  <2> HIDE DEF s
  <2>4. s + 1 \in 0..(2 * QueueSize)
    BY <1>0, <2>1, <2>2 DEF Wrap
  <2>5. (s + 1) % QueueSize = Wrap(s + 1)
    BY <2>4, Wraps
  <2>6. Wrap(s + 1) = Wrap(f + (i + 1))
    BY <1>0, <2>1, <2>2 DEF Wrap
  <2>7. (s + 1) % QueueSize = Slot(f, i + 1)
    BY <2>3, <2>5, <2>6
  <2> QED
    BY <2>7 DEF s
<1> QED
  BY <1>1, <1>2, <1>3

-----------------------------------------------------------------------------
(* Types, and what each thread has *)

\* A writer in write_log has the line it made last.
Hands == \A w \in Writers : IF pc[w] = "idle" THEN line[w] = Null
                            ELSE line[w] \in Line /\ line[w].by = w /\ line[w].n = made[w]

\* A synchronous log has no use for the queue, and a push finds at most one line too many.
SyncIdle  == ~async => size = 0 /\ popped = Null /\ \A w \in Writers : pc[w] # "push"
RingLimit == size <= QueueSize + 1

LogInv == TypeOK /\ Hands /\ SyncIdle /\ RingLimit

\* The lines of the ring follow the front, and the next one comes behind them.
InRing(i)  == ring[Slot(front, i)]
RingFits   == size <= QueueSize
RingBack   == NextBack = Slot(front, size + 1)
RingFilled == \A i \in 1..size : InRing(i) \in Line

\* A line that has left its writer's hands is older than the one that is in them now.
Older(l) == l.n <= made[l.by] /\ (pc[l.by] # "idle" => l.n < made[l.by])
RingOlder   == \A i \in 1..size : Older(InRing(i))
PoppedOlder == popped # Null => Older(popped)

RingInv == RingFits /\ RingBack /\ RingFilled /\ RingOlder /\ PoppedOlder

\* From the files over the flushing thread to the ring the lines of one writer get newer.
Sent         == {i \in DOMAIN out : out[i].via = "queue"}
SentOlder    == \A i \in Sent : Older(out[i].line)
SentFirst    == \A i \in Sent, j \in 1..size :
                  out[i].line.by = InRing(j).by => out[i].line.n < InRing(j).n
SentBefore   == \A i \in Sent : popped # Null /\ out[i].line.by = popped.by => out[i].line.n < popped.n
PoppedFirst  == \A j \in 1..size :
                  popped # Null /\ popped.by = InRing(j).by => popped.n < InRing(j).n
RingSorted   == \A i, j \in 1..size :
                  i < j /\ InRing(i).by = InRing(j).by => InRing(i).n < InRing(j).n
SentSorted   == \A i, j \in Sent : i < j /\ out[i].line.by = out[j].line.by => out[i].line.n < out[j].line.n

OrderInv == SentOlder /\ SentFirst /\ SentBefore /\ PoppedFirst /\ RingSorted /\ SentSorted

\* The lines that are counted and in no file yet, and those of one opening.
Counted   == {w \in Writers : pc[w] \in {"route", "push", "write"}}
Underway  == Cardinality(Counted) + size + IF popped = Null THEN 0 ELSE 1
Into(f)   == {i \in DOMAIN out : out[i].opened = f}
OpenedYet == \A i \in DOMAIN out : out[i].opened <= file.opened
Nth       == count % SplitLines
FileLimit == Cardinality(Into(file.opened)) + Underway <= Nth + 1 + OnTheirWay
SplitInv  == OpenedYet /\ FileLimit /\ SplitLimit

LEMMA NullLine == \A l \in Line : l # Null
  BY NullAssumption

LEMMA LogInit == Init => LogInv
<1> SUFFICES ASSUME Init PROVE LogInv
  OBVIOUS
<1>1. TypeOK
  <2>1. /\ -1 \in -1..(QueueSize - 1) /\ 0 \in 0..MaxDay /\ 0 \in 0..MaxLines
    BY Numbers
  <2>2. /\ async \in BOOLEAN /\ {day, today} \subseteq 0..MaxDay /\ count \in Nat
        /\ file \in [day: 0..MaxDay, part: Nat, opened: Nat] /\ size \in Nat
        /\ {front, back} \subseteq -1..(QueueSize - 1) /\ overrun \in BOOLEAN
    BY <2>1 DEF Init
  <2>3. /\ ring \in [0..(QueueSize - 1) -> Line \cup {Null}]
        /\ pc \in [Writers -> {"idle", "rotate", "route", "push", "write"}]
        /\ line \in [Writers -> Line \cup {Null}] /\ made \in [Writers -> 0..MaxLines]
        /\ popped \in Line \cup {Null} /\ asleep \in BOOLEAN
    BY <2>1 DEF Init
  <2>4. out \in Seq([line: Line, via: {"direct", "queue"}, opened: Nat])
    BY DEF Init
  <2> QED
    BY <2>2, <2>3, <2>4 DEF TypeOK
<1>2. Hands /\ SyncIdle /\ RingLimit
  BY Numbers DEF Init, Hands, SyncIdle, RingLimit
<1> QED
  BY <1>1, <1>2 DEF LogInv

\* A writer that has a line puts it at the end of a file.
LEMMA WrittenType ==
  ASSUME TypeOK, NEW l \in Line, NEW via \in {"direct", "queue"}, Written(l, via)
  PROVE  out' \in Seq([line: Line, via: {"direct", "queue"}, opened: Nat])
<1> DEFINE e == [line |-> l, via |-> via, opened |-> file.opened]
           S == [line: Line, via: {"direct", "queue"}, opened: Nat]
<1>1. e \in S /\ out \in Seq(S) /\ out' = Append(out, e)
  BY DEF TypeOK, Written
<1> HIDE DEF e, S
<1>2. Append(out, e) \in Seq(S)
  BY <1>1
<1> QED
  BY <1>1, <1>2 DEF S

LEMMA ReturnType ==
  ASSUME LogInv, NEW w \in Writers, Return(w), UNCHANGED made
  PROVE  /\ pc' \in [Writers -> {"idle", "rotate", "route", "push", "write"}]
         /\ line' \in [Writers -> Line \cup {Null}] /\ Hands'
         /\ \A v \in Writers : pc'[v] = "push" => pc[v] = "push"
  BY DEF LogInv, TypeOK, Return, Hands

LEMMA RotateType ==
  ASSUME LogInv, NEW w \in Writers, Rotate(w)
  PROVE  /\ count' \in Nat /\ today' \in 0..MaxDay
         /\ file' \in [day: 0..MaxDay, part: Nat, opened: Nat]
<1>1. count \in Nat /\ today \in 0..MaxDay /\ file \in [day: 0..MaxDay, part: Nat, opened: Nat]
  BY DEF LogInv, TypeOK
<1>2. line[w].day \in 0..MaxDay
  BY DEF LogInv, Hands, Rotate, Line
<1>3. \A n \in Nat, q \in Nat \ {0} : (n + 1) \div q \in Nat
  OBVIOUS
<1> DEFINE newDay == today # line[w].day
           part == IF newDay THEN 0 ELSE (count + 1) \div SplitLines
<1>4. part \in Nat
  BY <1>1, <1>3, Numbers
<1> HIDE DEF part
<1>5. CASE MustRotate(w)
  <2>1. /\ count' = IF newDay THEN 0 ELSE count + 1
        /\ file' = [day |-> line[w].day, part |-> part, opened |-> file.opened + 1]
        /\ today' = line[w].day
    BY <1>5 DEF Rotate, part
  <2> QED
    BY <1>1, <1>2, <1>4, <2>1
<1>6. CASE ~MustRotate(w)
  BY <1>1, <1>6 DEF Rotate
<1> QED
  BY <1>5, <1>6

LEMMA PushType ==
  ASSUME LogInv, NEW w \in Writers, Push(w)
  PROVE  /\ ring' \in [0..(QueueSize - 1) -> Line \cup {Null}] /\ size' \in Nat
         /\ {front', back'} \subseteq -1..(QueueSize - 1) /\ overrun' \in BOOLEAN /\ RingLimit'
<1>0. TypeOK /\ line[w] \in Line /\ RingLimit
  BY DEF LogInv, Hands, Push
<1>1. CASE size > QueueSize
  BY <1>0, <1>1 DEF Push, TypeOK, RingLimit
<1>2. CASE ~(size > QueueSize)
  <2>1. /\ back' = NextBack /\ ring' = [ring EXCEPT ![NextBack] = line[w]] /\ size' = size + 1
        /\ overrun' = (overrun \/ size + 1 > QueueSize) /\ UNCHANGED front
    BY <1>2 DEF Push
  <2>2. NextBack \in 0..(QueueSize - 1)
    <3>1. back \in Int /\ 1 \in Int
      BY <1>0, Numbers DEF TypeOK
    <3>2. NextBack = Slot(back, 1)
      BY DEF NextBack, Slot
    <3> QED
      BY <3>1, <3>2, SlotType
  <2>3. ring' \in [0..(QueueSize - 1) -> Line \cup {Null}]
    BY <1>0, <2>1, <2>2 DEF TypeOK
  <2>4. size' \in Nat /\ RingLimit'
    BY <1>0, <1>2, <2>1, Numbers DEF TypeOK, RingLimit
  <2>5. {front', back'} \subseteq -1..(QueueSize - 1)
    <3>1. front' \in -1..(QueueSize - 1)
      BY <1>0, <2>1 DEF TypeOK
    <3>2. back' \in -1..(QueueSize - 1)
      BY <2>1, <2>2, Numbers
    <3> QED
      BY <3>1, <3>2
  <2>6. overrun' \in BOOLEAN
    BY <2>1
  <2> QED
    BY <2>3, <2>4, <2>5, <2>6
<1> QED
  BY <1>1, <1>2

LEMMA PopType ==
  ASSUME LogInv, Pop
  PROVE  /\ size' \in Nat /\ size' = size - 1 /\ front' \in 0..(QueueSize - 1) /\ front' = Slot(front, 1)
         /\ popped' \in Line \cup {Null} /\ popped' = InRing(1) /\ size \in Nat \ {0}
<1>0. TypeOK
  BY DEF LogInv
<1>1. size' = size - 1 /\ size \in Nat \ {0}
  BY <1>0 DEF Pop, NonEmpty, TypeOK
<1>2. front' = Slot(front, 1) /\ popped' = InRing(1)
  BY DEF Pop, FrontSlot, Slot, InRing
<1>3. front' \in 0..(QueueSize - 1)
  BY <1>0, <1>2, SlotType, Numbers DEF TypeOK
<1>4. popped' \in Line \cup {Null}
  BY <1>0, <1>2, <1>3 DEF TypeOK, InRing
<1>5. size' \in Nat
  BY <1>1
<1> QED
  BY <1>1, <1>2, <1>3, <1>4, <1>5

LEMMA LogStep ==
  ASSUME LogInv, [Next]_vars PROVE LogInv'
<1>0. TypeOK /\ Hands /\ SyncIdle /\ RingLimit
  BY DEF LogInv
<1>1. CASE UNCHANGED vars
  BY <1>0, <1>1 DEF LogInv, TypeOK, Hands, SyncIdle, RingLimit
<1>2. CASE Midnight
  <2>1. day' \in 0..MaxDay
    BY <1>0, <1>2, Numbers DEF Midnight, PopWait, WakesUp, TypeOK
  <2> QED
    BY <1>0, <1>2, <2>1 DEF Midnight, LogInv, TypeOK, Hands, SyncIdle, RingLimit
<1>3. ASSUME NEW w \in Writers, Stamp(w) PROVE LogInv'
  <2> DEFINE l == [by |-> w, n |-> made[w] + 1, day |-> day]
  <2>1. made[w] + 1 \in 1..MaxLines /\ made[w] + 1 \in 0..MaxLines
    BY <1>0, <1>3, Numbers DEF Stamp, TypeOK
  <2>2. l \in Line /\ l.by = w /\ l.n = made[w] + 1
    BY <1>0, <2>1 DEF Line, TypeOK
  <2> HIDE DEF l
  <2>3. /\ made' = [made EXCEPT ![w] = made[w] + 1] /\ line' = [line EXCEPT ![w] = l]
        /\ pc' = [pc EXCEPT ![w] = "rotate"]
        /\ UNCHANGED <<async, fileVars, out, ringVars, flusherVars>>
    BY <1>3 DEF Stamp, l
  <2>4. TypeOK'
    BY <1>0, <2>1, <2>2, <2>3 DEF TypeOK
  <2>5. Hands'
    BY <1>0, <2>2, <2>3 DEF TypeOK, Hands
  <2>6. SyncIdle' /\ RingLimit'
    BY <1>0, <2>3 DEF TypeOK, SyncIdle, RingLimit
  <2> QED
    BY <2>4, <2>5, <2>6 DEF LogInv
<1>4. ASSUME NEW w \in Writers, Rotate(w) PROVE LogInv'
  <2>1. /\ count' \in Nat /\ today' \in 0..MaxDay
        /\ file' \in [day: 0..MaxDay, part: Nat, opened: Nat]
    BY <1>4, RotateType
  <2>2. pc' = [pc EXCEPT ![w] = "route"] /\ pc[w] = "rotate"
        /\ UNCHANGED <<async, day, out, ringVars, line, made, flusherVars>>
    BY <1>4 DEF Rotate
  <2>3. TypeOK'
    BY <1>0, <2>1, <2>2 DEF TypeOK
  <2>4. Hands' /\ SyncIdle' /\ RingLimit'
    BY <1>0, <2>2 DEF TypeOK, Hands, SyncIdle, RingLimit
  <2> QED
    BY <2>3, <2>4 DEF LogInv
<1>5. ASSUME NEW w \in Writers, Route(w) PROVE LogInv'
  <2>1. /\ pc[w] = "route" /\ UNCHANGED <<async, fileVars, out, ringVars, line, made, flusherVars>>
        /\ \/ pc' = [pc EXCEPT ![w] = "push"] /\ async
           \/ pc' = [pc EXCEPT ![w] = "write"]
    BY <1>0, <1>5 DEF Route, TypeOK
  <2>2. TypeOK'
    BY <1>0, <2>1 DEF TypeOK
  <2>3. Hands' /\ SyncIdle' /\ RingLimit'
    BY <1>0, <2>1 DEF TypeOK, Hands, SyncIdle, RingLimit
  <2> QED
    BY <2>2, <2>3 DEF LogInv
<1>6. ASSUME NEW w \in Writers, Push(w) PROVE LogInv'
  <2>1. /\ ring' \in [0..(QueueSize - 1) -> Line \cup {Null}] /\ size' \in Nat
        /\ {front', back'} \subseteq -1..(QueueSize - 1) /\ overrun' \in BOOLEAN /\ RingLimit'
    BY <1>6, PushType
  <2>2. Return(w) /\ asleep' = FALSE /\ UNCHANGED <<async, fileVars, out, made, popped>> /\ pc[w] = "push"
    BY <1>6 DEF Push, Broadcast
  <2>3. /\ pc' \in [Writers -> {"idle", "rotate", "route", "push", "write"}]
        /\ line' \in [Writers -> Line \cup {Null}] /\ Hands'
    BY <2>2, ReturnType
  <2>4. TypeOK'
    BY <1>0, <2>1, <2>2, <2>3 DEF TypeOK
  <2>5. SyncIdle'
    BY <1>0, <2>2 DEF SyncIdle
  <2> QED
    BY <2>1, <2>3, <2>4, <2>5 DEF LogInv
<1>7. ASSUME NEW w \in Writers, Write(w) PROVE LogInv'
  <2>1. Return(w) /\ Written(line[w], "direct") /\ UNCHANGED <<async, fileVars, ringVars, made, flusherVars>>
        /\ line[w] \in Line
    BY <1>0, <1>7 DEF Write, Hands
  <2>2. /\ pc' \in [Writers -> {"idle", "rotate", "route", "push", "write"}]
        /\ line' \in [Writers -> Line \cup {Null}] /\ Hands'
        /\ \A v \in Writers : pc'[v] = "push" => pc[v] = "push"
    BY <2>1, ReturnType
  <2>3. out' \in Seq([line: Line, via: {"direct", "queue"}, opened: Nat])
    BY <1>0, <2>1, WrittenType
  <2>4. TypeOK'
    BY <1>0, <2>1, <2>2, <2>3 DEF TypeOK
  <2>5. SyncIdle' /\ RingLimit'
    BY <1>0, <2>1, <2>2 DEF SyncIdle, RingLimit
  <2> QED
    BY <2>2, <2>4, <2>5 DEF LogInv
<1>8. CASE Pop
  <2>1. /\ size' \in Nat /\ size' = size - 1 /\ front' \in 0..(QueueSize - 1)
        /\ popped' \in Line \cup {Null} /\ size \in Nat \ {0}
        /\ UNCHANGED <<async, fileVars, out, ring, back, overrun, writerVars, asleep>>
    BY <1>8, PopType DEF Pop
  <2>2. TypeOK'
    BY <1>0, <2>1 DEF TypeOK
  <2>3. Hands' /\ SyncIdle' /\ RingLimit'
    BY <1>0, <2>1, Numbers DEF Hands, SyncIdle, RingLimit
  <2> QED
    BY <2>2, <2>3 DEF LogInv
<1>9. CASE Flush
  <2>1. /\ popped \in Line /\ Written(popped, "queue") /\ popped' = Null
        /\ UNCHANGED <<async, fileVars, ringVars, writerVars, asleep>>
    BY <1>0, <1>9 DEF Flush, TypeOK
  <2>2. out' \in Seq([line: Line, via: {"direct", "queue"}, opened: Nat])
    BY <1>0, <2>1, WrittenType
  <2>3. TypeOK'
    BY <1>0, <2>1, <2>2 DEF TypeOK
  <2>4. Hands' /\ SyncIdle' /\ RingLimit'
    BY <1>0, <2>1 DEF Hands, SyncIdle, RingLimit
  <2> QED
    BY <2>3, <2>4 DEF LogInv
<1>10. CASE PopWait \/ WakesUp
  <2>1. asleep' \in BOOLEAN /\ UNCHANGED <<async, fileVars, out, ringVars, writerVars, popped>>
    BY <1>10 DEF PopWait, WakesUp
  <2> QED
    BY <1>0, <2>1 DEF LogInv, TypeOK, Hands, SyncIdle, RingLimit
<1> QED
  BY <1>1, <1>2, <1>3, <1>4, <1>5, <1>6, <1>7, <1>8, <1>9, <1>10 DEF Next, WriteLog, FlushLogThread

\* The ring is never full again of more than it holds.
LEMMA OverrunStays == ASSUME LogInv, [Next]_vars, overrun PROVE overrun'
<1>1. CASE UNCHANGED vars \/ Midnight \/ PopWait \/ WakesUp \/ Pop \/ Flush
  BY <1>1 DEF Midnight, PopWait, WakesUp, Pop, Flush
<1>2. ASSUME NEW w \in Writers, Stamp(w) \/ Rotate(w) \/ Route(w) \/ Write(w) PROVE overrun'
  BY <1>2 DEF Stamp, Rotate, Route, Write
<1>3. ASSUME NEW w \in Writers, Push(w) PROVE overrun'
  BY <1>3 DEF Push
<1> QED
  BY <1>1, <1>2, <1>3 DEF Next, WriteLog, FlushLogThread

-----------------------------------------------------------------------------
(* The ring *)

\* What a writer has made stays made.
LEMMA OlderKept ==
  ASSUME LogInv, [Next]_vars, NEW l \in Line, Older(l) PROVE Older(l)'
<1>0. TypeOK /\ l.by \in Writers /\ l.n \in Nat /\ made[l.by] \in Nat
  <2>1. TypeOK
    BY DEF LogInv
  <2>2. l.by \in Writers /\ l.n \in Nat
    BY Numbers DEF Line
  <2>3. made \in [Writers -> 0..MaxLines]
    BY <2>1 DEF TypeOK
  <2>4. made[l.by] \in Nat
    BY <2>2, <2>3, Numbers
  <2> QED
    BY <2>1, <2>2, <2>4
<1>1. ASSUME UNCHANGED made, \A w \in Writers : pc'[w] # "idle" => pc[w] # "idle" PROVE Older(l)'
  BY <1>0, <1>1 DEF Older
<1>2. CASE UNCHANGED vars \/ Midnight \/ PopWait \/ WakesUp \/ Pop \/ Flush
  BY <1>1, <1>2 DEF Midnight, PopWait, WakesUp, Pop, Flush
<1>3. ASSUME NEW w \in Writers, Stamp(w) PROVE Older(l)'
  <2>1. made' = [made EXCEPT ![w] = made[w] + 1] /\ pc' = [pc EXCEPT ![w] = "rotate"]
    BY <1>3 DEF Stamp
  <2>2. CASE l.by = w
    <3>1. made'[l.by] = made[l.by] + 1
      BY <1>0, <2>1, <2>2 DEF TypeOK
    <3> QED
      BY <1>0, <3>1 DEF Older
  <2>3. CASE l.by # w
    BY <1>0, <2>1, <2>3 DEF Older, TypeOK
  <2> QED
    BY <2>2, <2>3
<1>4. ASSUME NEW w \in Writers, Rotate(w) \/ Route(w) \/ Push(w) \/ Write(w) PROVE Older(l)'
  <2>1. UNCHANGED made /\ pc[w] # "idle"
    BY <1>4 DEF Rotate, Route, Push, Write
  <2>2. \A v \in Writers : v # w => pc'[v] = pc[v]
    BY <1>0, <1>4 DEF Rotate, Route, Push, Write, Return, TypeOK
  <2> QED
    BY <1>1, <2>1, <2>2
<1> QED
  BY <1>2, <1>3, <1>4 DEF Next, WriteLog, FlushLogThread

\* A push that finds room puts the line behind the others.
LEMMA PushEffect ==
  ASSUME LogInv, RingInv, NEW w \in Writers, Push(w), ~overrun'
  PROVE  /\ size' = size + 1 /\ size + 1 <= QueueSize /\ size \in Nat
         /\ \A i \in 1..size : InRing(i)' = InRing(i)
         /\ \A i \in 1..size' : i \in 1..size \/ (i = size + 1 /\ InRing(i)' = line[w])
         /\ line[w] \in Line
         /\ RingBack'
<1>0. TypeOK /\ line[w] \in Line /\ RingFits /\ RingBack /\ QueueSize \in Nat /\ QueueSize > 0
  BY Numbers DEF LogInv, Hands, Push, RingInv
<1>1. /\ back' = NextBack /\ ring' = [ring EXCEPT ![NextBack] = line[w]] /\ size' = size + 1
      /\ overrun' = (overrun \/ size + 1 > QueueSize) /\ front' = front /\ size \in Nat
  BY <1>0 DEF Push, RingFits, TypeOK
<1>2. size + 1 <= QueueSize /\ size + 1 \in 1..QueueSize
  <2>1. ~(size + 1 > QueueSize)
    BY <1>1, Zenon
  <2> QED
    BY <1>0, <1>1, <2>1
<1>3. NextBack = Slot(front, size + 1) /\ NextBack \in 0..(QueueSize - 1)
      /\ front \in -1..(QueueSize - 1)
  <2>1. front \in -1..(QueueSize - 1) /\ front \in Int /\ size + 1 \in Int
    BY <1>0, <1>1 DEF TypeOK
  <2> QED
    BY <1>0, <2>1, SlotType DEF RingBack
<1>4. \A i \in 1..size : Slot(front, i) # NextBack
  <2> SUFFICES ASSUME NEW i \in 1..size PROVE Slot(front, i) # Slot(front, size + 1)
    BY <1>3
  <2>1. i \in 1..QueueSize /\ i # size + 1
    BY <1>0, <1>1, <1>2
  <2> QED
    BY <1>2, <1>3, <2>1, Slots
<1>5. \A i \in 1..size' : i \in 1..size \/ (i = size + 1 /\ InRing(i)' = line[w])
  <2> SUFFICES ASSUME NEW i \in 1..size', i \notin 1..size PROVE i = size + 1 /\ InRing(i)' = line[w]
    OBVIOUS
  <2>1. i = size + 1
    BY <1>1
  <2>2. ring \in [0..(QueueSize - 1) -> Line \cup {Null}]
    BY <1>0 DEF TypeOK
  <2> QED
    BY <1>1, <1>3, <2>1, <2>2 DEF InRing
<1>6. \A i \in 1..size : InRing(i)' = InRing(i)
  BY <1>0, <1>1, <1>4 DEF InRing, TypeOK
<1>7. RingBack'
  <2>1. NextBack' = (NextBack + 1) % QueueSize
    BY <1>1 DEF NextBack
  <2>2. (Slot(front, size + 1) + 1) % QueueSize = Slot(front, size + 1 + 1)
    BY <1>2, <1>3, Slots
  <2> QED
    BY <1>1, <1>3, <2>1, <2>2 DEF RingBack
<1> QED
  BY <1>0, <1>1, <1>2, <1>5, <1>6, <1>7

\* A pop takes the oldest line, and those behind it move up.
LEMMA PopEffect ==
  ASSUME LogInv, RingInv, Pop
  PROVE  /\ size' = size - 1 /\ size \in Nat \ {0} /\ popped' = InRing(1) /\ InRing(1) \in Line
         /\ \A i \in 1..size' : i + 1 \in 1..size /\ InRing(i)' = InRing(i + 1)
         /\ RingFits' /\ RingBack'
<1>0. TypeOK /\ RingFits /\ RingBack /\ RingFilled /\ QueueSize \in Nat /\ QueueSize > 0
  BY Numbers DEF LogInv, RingInv
<1>1. /\ size' = size - 1 /\ size \in Nat \ {0} /\ front' = Slot(front, 1) /\ popped' = InRing(1)
      /\ UNCHANGED <<ring, back>>
  BY PopType DEF Pop
<1>2. front \in -1..(QueueSize - 1)
  BY <1>0 DEF TypeOK
<1>3. 1 \in 1..size /\ InRing(1) \in Line
  BY <1>0, <1>1 DEF RingFilled
<1>4. \A i \in 0..QueueSize : Slot(front', i) = Slot(front, i + 1)
  BY <1>1, <1>2, Slots
<1>5. \A i \in 1..size' : i + 1 \in 1..size /\ InRing(i)' = InRing(i + 1)
  <2> SUFFICES ASSUME NEW i \in 1..size' PROVE i + 1 \in 1..size /\ InRing(i)' = InRing(i + 1)
    OBVIOUS
  <2>1. i + 1 \in 1..size /\ i \in 0..QueueSize
    BY <1>0, <1>1 DEF RingFits
  <2> QED
    BY <1>1, <1>4, <2>1 DEF InRing
<1>6. RingFits' /\ RingBack'
  <2>1. size' \in 0..QueueSize /\ size' + 1 = size /\ size = size' + 1 /\ (size' + 1) + 1 = size + 1
        /\ RingFits' /\ size \in 0..QueueSize
    BY <1>0, <1>1 DEF RingFits
  <2>2. Slot(front', size) = Slot(front, size + 1)
    BY <1>4, <2>1
  <2>3. NextBack' = NextBack
    BY <1>1 DEF NextBack
  <2> QED
    BY <1>0, <2>1, <2>2, <2>3 DEF RingBack
<1> QED
  BY <1>1, <1>3, <1>5, <1>6

LEMMA RingStep ==
  ASSUME LogInv, RingInv, [Next]_vars, ~overrun' PROVE RingInv'
<1>0. TypeOK /\ RingFits /\ RingBack /\ RingFilled /\ RingOlder /\ PoppedOlder
  BY DEF LogInv, RingInv
<1>1. \A l \in Line : Older(l) => (\A m : m = l => Older(m)')
  BY OlderKept
<1>2. \A i \in 1..size : InRing(i) \in Line /\ Older(InRing(i))
  BY <1>0 DEF RingFilled, RingOlder
<1>3. popped # Null => popped \in Line /\ Older(popped)
  BY <1>0 DEF TypeOK, PoppedOlder
<1>4. ASSUME UNCHANGED ringVars, popped' \in {popped, Null} PROVE RingInv'
  <2>1. RingFits' /\ RingBack' /\ RingFilled'
    BY <1>0, <1>4 DEF RingFits, RingBack, RingFilled, InRing, NextBack
  <2>2. RingOlder'
    <3>1. \A i \in 1..size' : i \in 1..size /\ InRing(i)' = InRing(i)
      BY <1>4 DEF InRing
    <3> QED
      BY <1>1, <1>2, <3>1 DEF RingOlder
  <2>3. PoppedOlder'
    BY <1>1, <1>3, <1>4 DEF PoppedOlder
  <2> QED
    BY <2>1, <2>2, <2>3 DEF RingInv
<1>5. CASE UNCHANGED vars \/ Midnight \/ PopWait \/ WakesUp \/ Flush
  BY <1>4, <1>5 DEF Midnight, PopWait, WakesUp, Flush
<1>6. ASSUME NEW w \in Writers, Stamp(w) \/ Rotate(w) \/ Route(w) \/ Write(w) PROVE RingInv'
  BY <1>4, <1>6 DEF Stamp, Rotate, Route, Write
<1>7. ASSUME NEW w \in Writers, Push(w) PROVE RingInv'
  <2>1. /\ size' = size + 1 /\ size + 1 <= QueueSize /\ size \in Nat
        /\ \A i \in 1..size : InRing(i)' = InRing(i)
        /\ \A i \in 1..size' : i \in 1..size \/ (i = size + 1 /\ InRing(i)' = line[w])
        /\ line[w] \in Line /\ RingBack'
    BY <1>7, PushEffect
  <2>2. popped' = popped /\ \A l : l = line[w] => Older(l)'
    <3>1. popped' = popped /\ UNCHANGED made /\ pc'[w] = "idle"
      BY <1>0, <1>7 DEF Push, Return, TypeOK
    <3>2. line[w].by = w /\ line[w].n = made[w] /\ made[w] \in Nat
      BY <1>0, <1>7, Numbers DEF Push, LogInv, Hands, TypeOK
    <3>3. \A l : l.by = w /\ l.n = made[w] => Older(l)'
      BY <3>1, <3>2 DEF Older
    <3> QED
      BY <3>1, <3>2, <3>3
  <2>3. RingFits' /\ RingFilled'
    BY <1>2, <2>1 DEF RingFits, RingFilled
  <2>4. RingOlder'
    BY <1>1, <1>2, <2>1, <2>2 DEF RingOlder
  <2>5. PoppedOlder'
    BY <1>1, <1>3, <2>2 DEF PoppedOlder
  <2> QED
    BY <2>1, <2>3, <2>4, <2>5 DEF RingInv
<1>8. CASE Pop
  <2>1. /\ size' = size - 1 /\ size \in Nat \ {0} /\ popped' = InRing(1) /\ InRing(1) \in Line
        /\ \A i \in 1..size' : i + 1 \in 1..size /\ InRing(i)' = InRing(i + 1)
        /\ RingFits' /\ RingBack'
    BY <1>8, PopEffect
  <2>2. RingFilled'
    BY <1>2, <2>1 DEF RingFilled
  <2>3. RingOlder'
    BY <1>1, <1>2, <2>1 DEF RingOlder
  <2>4. PoppedOlder'
    BY <1>1, <1>2, <2>1 DEF PoppedOlder
  <2> QED
    BY <2>1, <2>2, <2>3, <2>4 DEF RingInv
<1> QED
  BY <1>5, <1>6, <1>7, <1>8 DEF Next, WriteLog, FlushLogThread

-----------------------------------------------------------------------------
(* The order of the lines that go through the queue *)

\* What a write to the current file does to the files.
LEMMA AppendedOut ==
  ASSUME LogInv, NEW l \in Line, NEW via \in {"direct", "queue"}, Written(l, via)
  PROVE  /\ Len(out) \in Nat /\ DOMAIN out = 1..Len(out) /\ Len(out') = Len(out) + 1
         /\ DOMAIN out' = DOMAIN out \cup {Len(out) + 1} /\ Len(out) + 1 \notin DOMAIN out
         /\ \A i \in DOMAIN out : i \in Nat /\ i < Len(out) + 1 /\ out'[i] = out[i]
         /\ out'[Len(out) + 1] = [line |-> l, via |-> via, opened |-> file.opened]
<1> DEFINE S == [line: Line, via: {"direct", "queue"}, opened: Nat]
           e == [line |-> l, via |-> via, opened |-> file.opened]
<1>1. out \in Seq(S) /\ out' = Append(out, e) /\ e \in S
  BY DEF LogInv, TypeOK, Written
<1> HIDE DEF S, e
<1>2. Len(out) \in Nat /\ DOMAIN out = 1..Len(out) /\ Len(out') = Len(out) + 1
      /\ DOMAIN out' = 1..(Len(out) + 1) /\ out'[Len(out) + 1] = e
      /\ \A i \in 1..Len(out) : out'[i] = out[i]
  BY <1>1
<1>3. DOMAIN out' = DOMAIN out \cup {Len(out) + 1} /\ Len(out) + 1 \notin DOMAIN out
  BY <1>2
<1>4. \A i \in DOMAIN out : i \in Nat /\ i < Len(out) + 1 /\ out'[i] = out[i]
  BY <1>2
<1>5. Len(out) \in Nat /\ DOMAIN out = 1..Len(out) /\ Len(out') = Len(out) + 1
  BY <1>2
<1>6. out'[Len(out) + 1] = [line |-> l, via |-> via, opened |-> file.opened]
  BY <1>2 DEF e
<1> QED
  BY <1>3, <1>4, <1>5, <1>6, Zenon

LEMMA OutType ==
  ASSUME LogInv PROVE \A i \in DOMAIN out : i \in Nat /\ out[i].line \in Line /\ out[i].opened \in Nat
<1>1. out \in Seq([line: Line, via: {"direct", "queue"}, opened: Nat])
  BY DEF LogInv, TypeOK
<1>2. \A S : out \in Seq(S) => Len(out) \in Nat /\ DOMAIN out = 1..Len(out) /\ \A i \in DOMAIN out : out[i] \in S
  OBVIOUS
<1>3. \A i \in DOMAIN out :
        i \in Nat /\ out[i] \in [line: Line, via: {"direct", "queue"}, opened: Nat]
  <2> DEFINE S == [line: Line, via: {"direct", "queue"}, opened: Nat]
  <2>1. out \in Seq(S)
    BY <1>1
  <2> HIDE DEF S
  <2>2. \A i \in DOMAIN out : i \in Nat /\ out[i] \in S
    BY <1>2, <2>1
  <2> QED
    BY <2>2 DEF S
<1> QED
  BY <1>3

LEMMA SentType ==
  ASSUME LogInv PROVE \A i \in Sent : i \in DOMAIN out /\ i \in Nat /\ out[i].line \in Line
  BY OutType DEF Sent

\* The steps that send no line and leave the queue alone.
LEMMA OrderQuiet ==
  ASSUME LogInv, OrderInv, [Next]_vars, UNCHANGED <<ringVars, popped>>,
         Sent' = Sent, \A i \in Sent : out'[i] = out[i]
  PROVE  OrderInv'
<1>0. SentOlder /\ SentFirst /\ SentBefore /\ PoppedFirst /\ RingSorted /\ SentSorted
  BY DEF OrderInv
<1>1. \A i \in 1..size' : i \in 1..size /\ InRing(i)' = InRing(i)
  BY DEF InRing
<1>2. \A i \in Sent' : i \in Sent /\ out'[i] = out[i] /\ out[i].line \in Line
  BY SentType
<1>3. SentOlder'
  <2> SUFFICES ASSUME NEW i \in Sent' PROVE \A l : l = out[i].line => Older(l)'
    BY <1>2 DEF SentOlder
  <2> QED
    BY <1>0, <1>2, OlderKept DEF SentOlder
<1>4. SentFirst' /\ SentBefore'
  BY <1>0, <1>1, <1>2 DEF SentFirst, SentBefore
<1>5. PoppedFirst' /\ RingSorted'
  BY <1>0, <1>1 DEF PoppedFirst, RingSorted
<1>6. SentSorted'
  BY <1>0, <1>2 DEF SentSorted
<1> QED
  BY <1>3, <1>4, <1>5, <1>6 DEF OrderInv

LEMMA OrderFlush == ASSUME LogInv, RingInv, OrderInv, Flush PROVE OrderInv'
<1>0. SentOlder /\ SentFirst /\ SentBefore /\ PoppedFirst /\ RingSorted /\ SentSorted
  BY DEF OrderInv
<1> DEFINE n == Len(out) + 1
<1>1. popped \in Line /\ popped # Null /\ Written(popped, "queue") /\ popped' = Null
      /\ UNCHANGED <<ringVars, writerVars>>
  BY DEF Flush, LogInv, TypeOK
<1>2. /\ DOMAIN out' = DOMAIN out \cup {n} /\ n \in Nat /\ n \notin DOMAIN out
      /\ \A i \in DOMAIN out : i \in Nat /\ i < n /\ out'[i] = out[i]
      /\ out'[n].line = popped /\ out'[n].via = "queue"
  <2>1. /\ Len(out) \in Nat /\ DOMAIN out' = DOMAIN out \cup {n} /\ n \notin DOMAIN out
        /\ \A i \in DOMAIN out : i \in Nat /\ i < n /\ out'[i] = out[i]
        /\ out'[n] = [line |-> popped, via |-> "queue", opened |-> file.opened]
    BY <1>1, AppendedOut
  <2> QED
    BY <2>1
<1> HIDE DEF n
<1>3. Sent' = Sent \cup {n}
  BY <1>2 DEF Sent
<1>4. \A i \in Sent : i \in Nat /\ i < n /\ out'[i] = out[i] /\ out[i].line \in Line
  BY <1>2, SentType DEF Sent
<1>5. \A i \in 1..size' : i \in 1..size /\ InRing(i)' = InRing(i)
  BY <1>1 DEF InRing
<1>6. SentOlder'
  <2>1. \A l : Older(l)' <=> Older(l)
    BY <1>1 DEF Older
  <2>2. Older(popped) /\ \A i \in Sent : Older(out[i].line)
    BY <1>0, <1>1 DEF RingInv, PoppedOlder, SentOlder
  <2> SUFFICES ASSUME NEW i \in Sent' PROVE \A l : l = out'[i].line => Older(l)'
    BY DEF SentOlder
  <2> QED
    BY <1>2, <1>3, <1>4, <2>1, <2>2
<1>7. SentFirst'
  BY <1>0, <1>1, <1>2, <1>3, <1>4, <1>5 DEF SentFirst, PoppedFirst
<1>8. SentBefore' /\ PoppedFirst'
  BY <1>1 DEF SentBefore, PoppedFirst
<1>9. RingSorted'
  BY <1>0, <1>5 DEF RingSorted
<1>10. SentSorted'
  <2> SUFFICES ASSUME NEW i \in Sent', NEW j \in Sent', i < j, out'[i].line.by = out'[j].line.by
               PROVE  out'[i].line.n < out'[j].line.n
    BY DEF SentSorted
  <2>1. i \in Sent
    BY <1>2, <1>3, <1>4
  <2> QED
    BY <1>0, <1>1, <1>2, <1>3, <1>4, <2>1 DEF SentSorted, SentBefore
<1> QED
  BY <1>6, <1>7, <1>8, <1>9, <1>10 DEF OrderInv

LEMMA OrderPush ==
  ASSUME LogInv, RingInv, OrderInv, NEW w \in Writers, Push(w), [Next]_vars, ~overrun' PROVE OrderInv'
<1>0. SentOlder /\ SentFirst /\ SentBefore /\ PoppedFirst /\ RingSorted /\ SentSorted
      /\ RingOlder /\ PoppedOlder /\ RingFilled
  BY DEF OrderInv, RingInv
<1>1. /\ size' = size + 1 /\ size \in Nat
      /\ \A i \in 1..size : InRing(i)' = InRing(i)
      /\ \A i \in 1..size' : i \in 1..size \/ (i = size + 1 /\ InRing(i)' = line[w])
  BY PushEffect
<1>2. UNCHANGED <<out, popped>> /\ pc[w] = "push" /\ line[w].by = w /\ line[w].n = made[w]
  BY DEF Push, LogInv, Hands
<1>3. \A l : Older(l) /\ l.by = line[w].by => l.n < line[w].n
  BY <1>2 DEF Older
<1>4. Sent' = Sent /\ \A i \in Sent : out[i].line \in Line
  BY <1>2, SentType DEF Sent
<1>5. SentOlder'
  <2> SUFFICES ASSUME NEW i \in Sent PROVE \A l : l = out[i].line => Older(l)'
    BY <1>2, <1>4 DEF SentOlder
  <2> QED
    BY <1>0, <1>4, OlderKept DEF SentOlder
<1>6. SentFirst'
  BY <1>0, <1>1, <1>2, <1>3, <1>4 DEF SentFirst, SentOlder
<1>7. SentBefore' /\ SentSorted'
  BY <1>0, <1>2, <1>4 DEF SentBefore, SentSorted
<1>8. PoppedFirst'
  BY <1>0, <1>1, <1>2, <1>3 DEF PoppedFirst, PoppedOlder
<1>9. RingSorted'
  <2> SUFFICES ASSUME NEW i \in 1..size', NEW j \in 1..size', i < j, InRing(i)'.by = InRing(j)'.by
               PROVE  InRing(i)'.n < InRing(j)'.n
    BY DEF RingSorted
  <2>1. i \in 1..size
    BY <1>1
  <2>2. CASE j \in 1..size
    BY <1>0, <1>1, <2>1, <2>2 DEF RingSorted
  <2>3. CASE j \notin 1..size
    BY <1>0, <1>1, <1>3, <2>1, <2>3 DEF RingOlder
  <2> QED
    BY <2>2, <2>3
<1> QED
  BY <1>5, <1>6, <1>7, <1>8, <1>9 DEF OrderInv

LEMMA OrderPop == ASSUME LogInv, RingInv, OrderInv, Pop PROVE OrderInv'
<1>0. SentOlder /\ SentFirst /\ RingSorted /\ SentSorted
  BY DEF OrderInv
<1>1. /\ size' = size - 1 /\ size \in Nat \ {0} /\ popped' = InRing(1)
      /\ \A i \in 1..size' : i + 1 \in 1..size /\ InRing(i)' = InRing(i + 1)
  BY PopEffect
<1>2. UNCHANGED <<out, writerVars>> /\ Sent' = Sent /\ 1 \in 1..size
  BY <1>1 DEF Pop, Sent
<1>3. SentOlder' /\ SentSorted'
  BY <1>0, <1>2 DEF SentOlder, SentSorted, Older
<1>4. SentFirst' /\ SentBefore'
  BY <1>0, <1>1, <1>2 DEF SentFirst, SentBefore
<1>5. PoppedFirst'
  <2> SUFFICES ASSUME NEW j \in 1..size', InRing(1).by = InRing(j)'.by
               PROVE  InRing(1).n < InRing(j)'.n
    BY <1>1 DEF PoppedFirst
  <2>1. 1 < j + 1 /\ j + 1 \in 1..size
    BY <1>1
  <2> QED
    BY <1>0, <1>1, <1>2, <2>1 DEF RingSorted
<1>6. RingSorted'
  <2> SUFFICES ASSUME NEW i \in 1..size', NEW j \in 1..size', i < j, InRing(i)'.by = InRing(j)'.by
               PROVE  InRing(i)'.n < InRing(j)'.n
    BY DEF RingSorted
  <2>1. i + 1 < j + 1 /\ i + 1 \in 1..size /\ j + 1 \in 1..size
    BY <1>1
  <2> QED
    BY <1>0, <1>1, <2>1 DEF RingSorted
<1> QED
  BY <1>3, <1>4, <1>5, <1>6 DEF OrderInv

LEMMA OrderStep ==
  ASSUME LogInv, RingInv, OrderInv, [Next]_vars, ~overrun' PROVE OrderInv'
<1>1. CASE UNCHANGED vars \/ Midnight \/ PopWait \/ WakesUp
  BY <1>1, OrderQuiet DEF Midnight, PopWait, WakesUp, Sent
<1>2. ASSUME NEW w \in Writers, Stamp(w) \/ Rotate(w) \/ Route(w) PROVE OrderInv'
  <2>1. UNCHANGED <<ringVars, popped, out>>
    BY <1>2 DEF Stamp, Rotate, Route
  <2> QED
    BY <2>1, OrderQuiet DEF Sent
<1>3. ASSUME NEW w \in Writers, Write(w) PROVE OrderInv'
  <2>1. Written(line[w], "direct") /\ UNCHANGED <<ringVars, popped>> /\ line[w] \in Line
    BY <1>3 DEF Write, LogInv, Hands
  <2>2. Sent' = Sent /\ \A i \in Sent : out'[i] = out[i]
    <3> DEFINE n == Len(out) + 1
    <3>1. /\ DOMAIN out' = DOMAIN out \cup {n} /\ n \notin DOMAIN out
          /\ \A i \in DOMAIN out : i \in Nat /\ i < n /\ out'[i] = out[i]
          /\ out'[n] = [line |-> line[w], via |-> "direct", opened |-> file.opened]
      BY <2>1, AppendedOut
    <3> HIDE DEF n
    <3>2. out'[n].via = "direct"
      BY <3>1
    <3> QED
      BY <3>1, <3>2 DEF Sent
  <2> QED
    BY <2>1, <2>2, OrderQuiet
<1>4. ASSUME NEW w \in Writers, Push(w) PROVE OrderInv'
  BY <1>4, OrderPush
<1> QED
  BY <1>1, <1>2, <1>3, <1>4, OrderPop, OrderFlush DEF Next, WriteLog, FlushLogThread

\* The types of the log's state.
THEOREM TypeCorrect == Spec => []TypeOK
<1>1. LogInv /\ [Next]_vars => LogInv'
  BY LogStep
<1>2. LogInv => TypeOK
  BY DEF LogInv
<1> QED
  BY <1>1, <1>2, LogInit, PTL DEF Spec

\* The lines of one thread that go through the ring buffer of block_queue and async_write_log
\* are in the files in the order write_log was called, unless the ring was overrun.
THEOREM QueueKeepsOrder == Spec => []QueueOrder
<1> DEFINE I == LogInv /\ (~overrun => RingInv /\ OrderInv)
<1>1. Init => I
  <2> SUFFICES ASSUME Init PROVE RingInv /\ OrderInv
    BY LogInit
  <2>1. size = 0 /\ out = << >> /\ popped = Null /\ back = -1 /\ front = -1
    BY DEF Init
  <2>2. RingBack /\ RingFits
    BY <2>1, Numbers DEF RingBack, RingFits, NextBack, Slot
  <2>3. RingFilled /\ RingOlder /\ PoppedOlder
    BY <2>1 DEF RingFilled, RingOlder, PoppedOlder
  <2>4. Sent = {}
    BY <2>1 DEF Sent
  <2>5. OrderInv
    BY <2>1, <2>4 DEF OrderInv, SentOlder, SentFirst, SentBefore, PoppedFirst, RingSorted, SentSorted
  <2> QED
    BY <2>2, <2>3, <2>5 DEF RingInv
<1>2. I /\ [Next]_vars => I'
  BY LogStep, RingStep, OrderStep, OverrunStays
<1>3. I => QueueOrder
  BY DEF OrderInv, SentSorted, Sent, QueueOrder
<1> QED
  BY <1>1, <1>2, <1>3, PTL DEF Spec

-----------------------------------------------------------------------------
(* The lines between two openings *)

LEMMA SplitSizes ==
  ASSUME LogInv
  PROVE  /\ IsFiniteSet(Counted) /\ Cardinality(Counted) \in Nat
         /\ Cardinality(Writers) \in Nat /\ Cardinality(Counted) <= Cardinality(Writers)
         /\ \A f : IsFiniteSet(Into(f)) /\ Cardinality(Into(f)) \in Nat
         /\ Nth \in 0..(SplitLines - 1) /\ Underway \in Nat /\ OnTheirWay \in Int
         /\ file.opened \in Nat
<1>1. TypeOK
  BY DEF LogInv
<1>2. IsFiniteSet(Counted) /\ Cardinality(Counted) <= Cardinality(Writers)
  <2>1. Counted \subseteq Writers
    BY DEF Counted
  <2> QED
    BY <2>1, Numbers, FS_Subset
<1>3. Cardinality(Counted) \in Nat /\ Cardinality(Writers) \in Nat
  BY <1>2, Numbers, FS_CardinalityType
<1>4. ASSUME NEW f PROVE IsFiniteSet(Into(f)) /\ Cardinality(Into(f)) \in Nat
  <2>1. Len(out) \in Nat /\ DOMAIN out = 1..Len(out)
    BY <1>1 DEF TypeOK
  <2>2. IsFiniteSet(DOMAIN out)
    BY <2>1, FS_Interval
  <2>3. Into(f) \subseteq DOMAIN out
    BY DEF Into
  <2> QED
    BY <2>2, <2>3, FS_Subset, FS_CardinalityType
<1>5. Nth \in 0..(SplitLines - 1)
  <2>1. \A q \in Nat \ {0}, y \in Nat : y % q \in 0..(q - 1)
    OBVIOUS
  <2> QED
    BY <1>1, <2>1, Numbers DEF TypeOK, Nth
<1>6. Underway \in Nat
  BY <1>1, <1>3 DEF TypeOK, Underway
<1>7. OnTheirWay \in Int
  BY <1>3, Numbers DEF OnTheirWay
<1>8. file.opened \in Nat
  BY <1>1 DEF TypeOK
<1> QED
  BY <1>2, <1>3, <1>4, <1>5, <1>6, <1>7, <1>8

\* Steps by which nothing gets into a file and none is opened: a line counts for its file
\* before it is on its way there.
LEMMA SplitMoved ==
  ASSUME LogInv, SplitInv, UNCHANGED <<file, async, out>>,
         Underway' \in Int, Nth' \in Int, Underway' - Nth' <= Underway - Nth
  PROVE  SplitInv'
<1>1. OpenedYet /\ FileLimit /\ SplitLimit
  BY DEF SplitInv
<1>2. OnTheirWay' = OnTheirWay /\ \A f : Into(f)' = Into(f)
  BY DEF OnTheirWay, Into
<1>3. OpenedYet' /\ SplitLimit'
  BY <1>1, <1>2 DEF OpenedYet, SplitLimit
<1>4. FileLimit'
  <2> DEFINE k == Cardinality(Into(file.opened))
  <2>1. /\ k \in Nat /\ Nth \in Int /\ Underway \in Int /\ OnTheirWay \in Int
    BY SplitSizes
  <2>2. k + Underway <= Nth + 1 + OnTheirWay
    BY <1>1 DEF FileLimit
  <2>3. Cardinality(Into(file.opened))' = k
    BY <1>2
  <2> HIDE DEF k
  <2>4. \A u, m \in Int : u - m <= Underway - Nth => k + u <= m + 1 + OnTheirWay
    BY <2>1, <2>2
  <2>5. k + Underway' <= Nth' + 1 + OnTheirWay
    BY <2>4
  <2> QED
    BY <1>2, <2>3, <2>5 DEF FileLimit
<1> QED
  BY <1>3, <1>4 DEF SplitInv

\* A step that writes a line that was on its way.
LEMMA SplitWritten ==
  ASSUME LogInv, SplitInv, UNCHANGED <<file, async, count>>, Underway' = Underway - 1, Underway' \in Nat,
         NEW l \in Line, NEW via \in {"direct", "queue"}, Written(l, via)
  PROVE  SplitInv'
<1>1. OpenedYet /\ FileLimit /\ SplitLimit
  BY DEF SplitInv
<1> DEFINE n == Len(out) + 1
           F == file.opened
<1>2. /\ DOMAIN out' = DOMAIN out \cup {n} /\ n \notin DOMAIN out
      /\ \A i \in DOMAIN out : out'[i] = out[i]
      /\ out'[n].opened = F
  <2>1. /\ DOMAIN out' = DOMAIN out \cup {n} /\ n \notin DOMAIN out
        /\ \A i \in DOMAIN out : out'[i] = out[i]
        /\ out'[n] = [line |-> l, via |-> via, opened |-> F]
    BY AppendedOut
  <2> QED
    BY <2>1
<1>3. F \in Nat /\ F' = F
  BY SplitSizes
<1> HIDE DEF n, F
<1>4. Into(F)' = Into(F) \cup {n} /\ n \notin Into(F)
  BY <1>2, <1>3 DEF Into
<1>5. \A f : f # F => Into(f)' = Into(f)
  BY <1>2 DEF Into
<1>6. Cardinality(Into(F)') = Cardinality(Into(F)) + 1
  BY <1>4, SplitSizes, FS_AddElement
<1>7. OpenedYet'
  BY <1>1, <1>2, <1>3 DEF OpenedYet, F
<1>8. FileLimit' /\ Cardinality(Into(F)') <= SplitLines + OnTheirWay
  <2> DEFINE k == Cardinality(Into(F))
  <2>1. /\ k \in Nat /\ Nth \in 0..(SplitLines - 1) /\ Underway \in Nat /\ OnTheirWay \in Int
        /\ SplitLines \in Nat
    BY SplitSizes, Numbers
  <2>2. k + Underway <= Nth + 1 + OnTheirWay
    BY <1>1 DEF FileLimit, F
  <2>3. Nth' = Nth /\ OnTheirWay' = OnTheirWay
    BY DEF Nth, OnTheirWay
  <2>4. Cardinality(Into(F)') = k + 1
    BY <1>6
  <2> HIDE DEF k
  <2>5. (k + 1) + (Underway - 1) <= Nth + 1 + OnTheirWay /\ k + 1 <= SplitLines + OnTheirWay
    BY <2>1, <2>2
  <2>6. Cardinality(Into(F)') + Underway' <= Nth' + 1 + OnTheirWay'
    BY <2>3, <2>4, <2>5
  <2>7. Into(file.opened)' = Into(F)'
    BY <1>3 DEF F
  <2> QED
    BY <2>4, <2>5, <2>6, <2>7 DEF FileLimit
<1>9. SplitLimit'
  <2> SUFFICES ASSUME NEW f \in 1..F PROVE Cardinality(Into(f)') <= SplitLines + OnTheirWay'
    BY <1>3 DEF SplitLimit, Into, F
  <2>1. OnTheirWay' = OnTheirWay
    BY DEF OnTheirWay
  <2>2. CASE f = F
    <3>1. Into(f)' = Into(F)'
      <4>1. F' = f
        BY <1>3, <2>2
      <4> QED
        BY <4>1 DEF Into
    <3> QED
      BY <1>8, <2>1, <3>1
  <2>3. CASE f # F
    <3>1. Cardinality(Into(f)) <= SplitLines + OnTheirWay
      BY <1>1 DEF SplitLimit, Into, F
    <3>2. Into(f)' = Into(f)
      BY <1>5, <2>3
    <3> QED
      BY <2>1, <3>1, <3>2
  <2> QED
    BY <2>2, <2>3
<1> QED
  BY <1>7, <1>8, <1>9 DEF SplitInv

\* What moving one writer does to the number of those that are on their way.
LEMMA CountedMoves ==
  ASSUME LogInv, NEW w \in Writers
  PROVE  /\ pc[w] = "rotate" /\ pc' = [pc EXCEPT ![w] = "route"]
              => Cardinality(Counted') = Cardinality(Counted) + 1
         /\ pc[w] \in {"push", "write"} /\ pc' = [pc EXCEPT ![w] = "idle"]
              => Cardinality(Counted') = Cardinality(Counted) - 1
<1>0. pc \in [Writers -> {"idle", "rotate", "route", "push", "write"}] /\ IsFiniteSet(Counted)
  BY SplitSizes DEF LogInv, TypeOK
<1>1. ASSUME pc[w] = "rotate", pc' = [pc EXCEPT ![w] = "route"]
      PROVE  Cardinality(Counted') = Cardinality(Counted) + 1
  <2>1. Counted' = Counted \cup {w} /\ w \notin Counted
    BY <1>0, <1>1 DEF Counted
  <2> QED
    BY <1>0, <2>1, FS_AddElement
<1>2. ASSUME pc[w] \in {"push", "write"}, pc' = [pc EXCEPT ![w] = "idle"]
      PROVE  Cardinality(Counted') = Cardinality(Counted) - 1
  <2>1. Counted' = Counted \ {w} /\ w \in Counted
    BY <1>0, <1>2 DEF Counted
  <2> QED
    BY <1>0, <2>1, FS_RemoveElement
<1> QED
  BY <1>1, <1>2

LEMMA NextNth ==
  ASSUME NEW q \in Nat \ {0}, NEW y \in Nat, (y + 1) % q # 0 PROVE (y + 1) % q = (y % q) + 1
<1> DEFINE d == y \div q
           e == (y + 1) \div q
           a == y % q
           b == (y + 1) % q
<1>1. /\ d \in Int /\ e \in Int /\ a \in 0..(q - 1) /\ b \in 1..(q - 1)
      /\ y = q * d + a /\ y + 1 = q * e + b
  OBVIOUS
<1> HIDE DEF d, e, a, b
<1>2. q * (e - d) = a + 1 - b
  BY <1>1
<1>3. e - d = 0
  <2>1. ASSUME NEW k \in Int, k >= 1 PROVE q * k >= q
    BY <2>1
  <2>2. ASSUME NEW k \in Int, k <= -1 PROVE q * k <= -q
    BY <2>2
  <2>3. a + 1 - b < q /\ a + 1 - b > -q
    BY <1>1
  <2> QED
    BY <1>1, <1>2, <2>1, <2>2, <2>3
<1>4. q * (e - d) = 0
  BY <1>3
<1>5. b = a + 1
  BY <1>1, <1>2, <1>4
<1> QED
  BY <1>5 DEF a, b

\* A line is counted for the current file, or opens the next.
LEMMA SplitRotate == ASSUME LogInv, LogInv', SplitInv, NEW w \in Writers, Rotate(w) PROVE SplitInv'
<1> DEFINE P == IF popped = Null THEN 0 ELSE 1
           C == Cardinality(Counted)
<1>0. /\ UNCHANGED <<async, out, size, popped>> /\ Cardinality(Counted') = C + 1 /\ C \in Nat
      /\ size \in Nat /\ P \in 0..1 /\ SplitLines \in Nat \ {0} /\ count \in Nat
      /\ pc[w] = "rotate"
  <2>1. UNCHANGED <<async, out, size, popped>> /\ pc[w] = "rotate" /\ pc' = [pc EXCEPT ![w] = "route"]
    BY DEF Rotate
  <2>2. Cardinality(Counted') = C + 1 /\ C \in Nat
    BY <2>1, CountedMoves, SplitSizes
  <2>3. size \in Nat /\ SplitLines \in Nat \ {0} /\ count \in Nat
    BY Numbers DEF LogInv, TypeOK
  <2>4. P \in 0..1
    OBVIOUS
  <2> QED
    BY <2>1, <2>2, <2>3, <2>4
<1>1. Underway = C + size + P /\ Underway' = Underway + 1
  BY <1>0 DEF Underway
<1>2. CASE ~MustRotate(w)
  <2>1. count' = count + 1 /\ file' = file /\ (count + 1) % SplitLines # 0
    BY <1>2 DEF Rotate, MustRotate
  <2>3. Nth' = Nth + 1
    BY <1>0, <2>1, NextNth DEF Nth
  <2>4. /\ Underway \in Int /\ Nth \in Int /\ Underway' \in Int /\ Nth' \in Int
        /\ Underway' - Nth' <= Underway - Nth
    BY <1>1, <2>3, SplitSizes
  <2> QED
    BY <1>0, <2>1, <2>4, SplitMoved
<1>3. CASE MustRotate(w)
  <2> DEFINE F == file.opened + 1
             W == Cardinality(Writers)
  <2>1. file'.opened = F /\ F \in Nat /\ F = file.opened + 1
    BY <1>3, SplitSizes DEF Rotate
  <2>2. OpenedYet /\ SplitLimit
    BY DEF SplitInv
  <2>3. OpenedYet' /\ \A f : f = F => Into(f)' = {}
    <3>1. \A i \in DOMAIN out : out[i].opened \in Nat /\ out[i].opened <= file.opened
      BY <2>2, OutType DEF OpenedYet
    <3>2. \A i \in DOMAIN out : out[i].opened <= F /\ out[i].opened # F
      BY <2>1, <3>1, SplitSizes
    <3> QED
      BY <1>0, <2>1, <3>2 DEF OpenedYet, Into
  <2>4. \A f : f = F => Cardinality(Into(f)') = 0
    BY <2>3, FS_EmptySet
  <2>5. OnTheirWay' = OnTheirWay /\ OnTheirWay \in Int /\ OnTheirWay >= 0
        /\ C + 1 + size + P <= OnTheirWay + 1
    <3>1. IsFiniteSet(Counted') /\ Cardinality(Counted') <= W /\ W \in Nat
      <4>1. Counted' \subseteq Writers
        BY DEF Counted
      <4> QED
        BY <4>1, Numbers, FS_Subset, FS_CardinalityType
    <3>2. C + 1 <= W
      BY <1>0, <3>1
    <3>3. QueueSize \in Nat
      BY Numbers
    <3> HIDE DEF C, P, W
    <3>4. CASE async
      <4>1. OnTheirWay = W - 1 + (QueueSize + 2)
        BY <3>4 DEF OnTheirWay, W
      <4>2. size <= QueueSize + 1
        BY DEF LogInv, RingLimit
      <4> QED
        BY <1>0, <3>1, <3>2, <3>3, <4>1, <4>2 DEF OnTheirWay
    <3>5. CASE ~async
      <4>1. OnTheirWay = W - 1 + 0
        BY <3>5 DEF OnTheirWay, W
      <4>2. size = 0 /\ P = 0
        BY <3>5 DEF LogInv, SyncIdle, P
      <4> QED
        BY <1>0, <3>1, <3>2, <4>1, <4>2 DEF OnTheirWay
    <3> QED
      BY <3>4, <3>5
  <2>6. SplitLimit'
    <3> SUFFICES ASSUME NEW f \in 1..F PROVE Cardinality(Into(f)') <= SplitLines + OnTheirWay
      BY <2>1, <2>5 DEF SplitLimit, Into
    <3>1. CASE f = F
      BY <1>0, <2>4, <2>5, <3>1
    <3>2. CASE f # F
      <4>1. f \in 1..file.opened
        BY <2>1, <3>2, SplitSizes
      <4>2. Into(f)' = Into(f)
        BY <1>0 DEF Into
      <4>3. Cardinality(Into(f)) <= SplitLines + OnTheirWay
        BY <2>2, <4>1 DEF SplitLimit, Into
      <4> QED
        BY <4>2, <4>3
    <3> QED
      BY <3>1, <3>2
  <2>7. FileLimit'
    <3>1. Nth' \in Nat
      <4>1. \A q \in Nat \ {0}, y \in Nat : y % q \in Nat
        OBVIOUS
      <4> QED
        BY <1>0, <4>1 DEF LogInv, TypeOK, Nth
    <3>2. Cardinality(Into(file.opened))' = 0
      <4>1. \A f : f = F => Into(file.opened)' = Into(f)'
        BY <2>1 DEF Into
      <4> QED
        BY <2>4, <4>1
    <3> HIDE DEF F, C, P
    <3>3. 0 + (Underway + 1) <= Nth' + 1 + OnTheirWay
      <4>1. C \in Int /\ size \in Int /\ P \in Int /\ OnTheirWay \in Int
            /\ Underway = C + size + P /\ C + 1 + size + P <= OnTheirWay + 1
        BY <1>0, <1>1, <2>5
      <4>2. \A m \in Nat : 0 + (Underway + 1) <= m + 1 + OnTheirWay
        BY <4>1
      <4> QED
        BY <3>1, <4>2
    <3> QED
      BY <1>1, <2>5, <3>2, <3>3 DEF FileLimit
  <2> QED
    BY <2>3, <2>6, <2>7 DEF SplitInv
<1> QED
  BY <1>2, <1>3

LEMMA SplitStep == ASSUME LogInv, LogInv', SplitInv, [Next]_vars PROVE SplitInv'
<1> DEFINE P == IF popped = Null THEN 0 ELSE 1
           C == Cardinality(Counted)
<1>0. /\ C \in Nat /\ size \in Nat /\ P \in 0..1 /\ Nth \in Int /\ Underway = C + size + P
      /\ Underway \in Nat
  <2>1. C \in Nat /\ Nth \in Int /\ Underway \in Nat
    BY SplitSizes
  <2>2. size \in Nat
    BY DEF LogInv, TypeOK
  <2>3. P \in 0..1 /\ Underway = C + size + P
    BY DEF Underway
  <2> QED
    BY <2>1, <2>2, <2>3
<1>1. ASSUME UNCHANGED <<file, async, out, count>>, Underway' \in Int, Underway' <= Underway PROVE SplitInv'
  <2>1. Nth' = Nth
    BY <1>1 DEF Nth
  <2> QED
    BY <1>0, <1>1, <2>1, SplitMoved
<1>2. ASSUME UNCHANGED <<file, async, out, count, size, popped>>, Counted' = Counted PROVE SplitInv'
  <2>1. Underway' = Underway
    BY <1>2 DEF Underway
  <2> QED
    BY <1>0, <1>1, <1>2, <2>1
<1>3. CASE UNCHANGED vars \/ Midnight \/ PopWait \/ WakesUp
  BY <1>2, <1>3 DEF Midnight, PopWait, WakesUp, Counted
<1>4. ASSUME NEW w \in Writers, Stamp(w) \/ Route(w) PROVE SplitInv'
  <2>1. Counted' = Counted
    BY <1>4 DEF Stamp, Route, Counted, LogInv, TypeOK
  <2> QED
    BY <1>2, <1>4, <2>1 DEF Stamp, Route
<1>5. ASSUME NEW w \in Writers, Push(w) PROVE SplitInv'
  <2>1. /\ UNCHANGED <<file, async, out, count, popped>> /\ size' \in {size, size + 1}
        /\ pc[w] = "push" /\ pc' = [pc EXCEPT ![w] = "idle"]
    BY <1>5 DEF Push, Return
  <2>2. Cardinality(Counted') = C - 1
    BY <2>1, CountedMoves
  <2>3. Underway' = (C - 1) + size' + P
    BY <2>1, <2>2 DEF Underway
  <2> HIDE DEF C, P
  <2>4. size' \in Int /\ size' <= size + 1
    BY <1>0, <2>1
  <2>5. C \in Int /\ P \in Int /\ size \in Int /\ Underway = C + size + P
    BY <1>0
  <2>6. \A n \in Int : n <= size + 1 => (C - 1) + n + P \in Int /\ (C - 1) + n + P <= Underway
    BY <2>5
  <2>7. Underway' \in Int /\ Underway' <= Underway
    BY <2>3, <2>4, <2>6
  <2> QED
    BY <1>1, <2>1, <2>7
<1>6. ASSUME NEW w \in Writers, Write(w) PROVE SplitInv'
  <2>1. /\ UNCHANGED <<file, async, count, popped, size>> /\ line[w] \in Line
        /\ pc[w] = "write" /\ pc' = [pc EXCEPT ![w] = "idle"] /\ Written(line[w], "direct")
    BY <1>6 DEF Write, Return, LogInv, Hands
  <2>2. Cardinality(Counted') = C - 1 /\ C - 1 \in Nat
    <3>1. Cardinality(Counted') = C - 1
      BY <2>1, CountedMoves
    <3>2. w \in Counted
      BY <2>1 DEF Counted
    <3>3. C # 0
      BY <3>2, SplitSizes, FS_EmptySet
    <3> QED
      BY <1>0, <3>1, <3>3
  <2>3. Underway' = (C - 1) + size + P
    BY <2>1, <2>2 DEF Underway
  <2> HIDE DEF C, P
  <2>4. Underway' = Underway - 1 /\ Underway' \in Nat
    BY <1>0, <2>2, <2>3
  <2> QED
    BY <2>1, <2>4, SplitWritten
<1>7. CASE Pop
  <2>1. /\ UNCHANGED <<file, async, out, count>> /\ size' = size - 1 /\ P = 0 /\ Counted' = Counted
    BY <1>7 DEF Pop, Awake, Counted
  <2>2. (IF popped' = Null THEN 0 ELSE 1) \in 0..1
    OBVIOUS
  <2>3. Underway' = C + (size - 1) + IF popped' = Null THEN 0 ELSE 1
    BY <2>1 DEF Underway
  <2> HIDE DEF C, P
  <2> QED
    BY <1>0, <1>1, <2>1, <2>2, <2>3
<1>8. CASE Flush
  <2>1. /\ UNCHANGED <<file, async, count, size>> /\ popped \in Line /\ P = 1 /\ Counted' = Counted
        /\ popped' = Null /\ Written(popped, "queue")
    BY <1>8 DEF Flush, Counted, LogInv, TypeOK
  <2>2. Underway' = C + size + 0
    BY <2>1 DEF Underway
  <2> HIDE DEF C, P
  <2>3. Underway' = Underway - 1 /\ Underway' \in Nat
    BY <1>0, <2>1, <2>2
  <2> QED
    BY <2>1, <2>3, SplitWritten
<1> QED
  BY <1>3, <1>4, <1>5, <1>6, <1>7, <1>8, SplitRotate DEF Next, WriteLog, FlushLogThread

\* A file gets no more lines between two openings than m_split_lines, but for those that had
\* been counted for an earlier file and were still on their way to it.
THEOREM FilesSplit == Spec => []SplitLimit
<1>1. Init => LogInv /\ SplitInv
  <2> SUFFICES ASSUME Init PROVE SplitInv
    BY LogInit
  <2>0. LogInv
    BY LogInit
  <2>1. /\ out = << >> /\ file.opened = 1 /\ count = 0 /\ size = 0 /\ popped = Null /\ Counted = {}
    BY DEF Init, Counted
  <2>2. OpenedYet /\ \A f : Into(f) = {}
    BY <2>1 DEF OpenedYet, Into
  <2>3. \A f : Cardinality(Into(f)) = 0
    BY <2>2, FS_EmptySet
  <2>4. Cardinality(Counted) = 0
    BY <2>1, FS_EmptySet
  <2>5. Underway = 0
    BY <2>1, <2>4 DEF Underway
  <2>6. Nth \in Nat /\ OnTheirWay \in Int /\ OnTheirWay >= -1 /\ SplitLines \in Nat /\ SplitLines >= 1
    BY <2>0, SplitSizes, Numbers DEF OnTheirWay
  <2>7. FileLimit
    BY <2>3, <2>5, <2>6 DEF FileLimit
  <2>8. SplitLimit
    BY <2>3, <2>6 DEF SplitLimit, Into
  <2> QED
    BY <2>2, <2>7, <2>8 DEF SplitInv
<1>2. LogInv /\ SplitInv /\ [Next]_vars => LogInv' /\ SplitInv'
  BY LogStep, SplitStep
<1>3. SplitInv => SplitLimit
  BY DEF SplitInv
<1> QED
  BY <1>1, <1>2, <1>3, PTL DEF Spec

-----------------------------------------------------------------------------
(* The places of the lines *)

Everywhere == Waiting \cup InHand \cup Landed

\* NoLineLost's two facts, of sets that are finite.
KeptInv ==
  /\ IsFiniteSet(InHand) /\ IsFiniteSet(Lines)
  /\ {<<l.by, l.n>> : l \in Everywhere} = Lines
  /\ size + Cardinality(InHand) + Len(out) = Cardinality(Lines)

LEMMA KeptNumbers ==
  ASSUME LogInv, KeptInv
  PROVE  size \in Nat /\ Cardinality(InHand) \in Nat /\ Len(out) \in Nat /\ Cardinality(Lines) \in Nat
<1>1. size \in Nat /\ Len(out) \in Nat
  BY DEF LogInv, TypeOK
<1> QED
  BY <1>1, FS_CardinalityType DEF KeptInv

\* A step that only moves lines keeps them.
LEMMA KeptMoved ==
  ASSUME KeptInv, UNCHANGED made, Everywhere' = Everywhere, IsFiniteSet(InHand'),
         size' + Cardinality(InHand') + Len(out') = size + Cardinality(InHand) + Len(out)
  PROVE  KeptInv'
<1>1. Lines' = Lines
  BY DEF Lines
<1>2. {<<l.by, l.n>> : l \in Everywhere'} = {<<l.by, l.n>> : l \in Everywhere}
  OBVIOUS
<1> QED
  BY <1>1, <1>2 DEF KeptInv

\* A writer that returns gives up a line that no other thread has.
LEMMA HandsGive ==
  ASSUME LogInv, RingInv, NEW w \in Writers, pc[w] # "idle", Return(w), popped' = popped
  PROVE  line[w] \in InHand /\ InHand' = InHand \ {line[w]}
<1>0. /\ pc \in [Writers -> {"idle", "rotate", "route", "push", "write"}]
      /\ line \in [Writers -> Line \cup {Null}] /\ made \in [Writers -> 0..MaxLines]
      /\ popped \in Line \cup {Null}
  BY DEF LogInv, TypeOK
<1>1. \A v \in Writers : pc[v] # "idle" => line[v] \in Line /\ line[v].by = v /\ line[v].n = made[v]
  BY DEF LogInv, Hands
<1>2. popped # line[w]
  <2> SUFFICES ASSUME popped = line[w] PROVE FALSE
    OBVIOUS
  <2>1. line[w].by = w /\ line[w].n = made[w] /\ popped # Null /\ made[w] \in Nat
    BY <1>0, <1>1, NullLine, Numbers
  <2> QED
    BY <2>1 DEF RingInv, PoppedOlder, Older
<1>3. \A v \in Writers : pc'[v] # "idle" <=> pc[v] # "idle" /\ v # w
  BY <1>0 DEF Return
<1>4. \A v \in Writers : v # w => line'[v] = line[v]
  BY <1>0 DEF Return
<1>5. line[w] \in InHand
  BY DEF InHand
<1>6. \A v \in Writers : pc[v] # "idle" /\ v # w => line[v] # line[w]
  BY <1>1
<1> DEFINE H == {line[v] : v \in {u \in Writers : pc[u] # "idle"}}
           G == {line'[v] : v \in {u \in Writers : pc'[u] # "idle"}}
<1>7. G = H \ {line[w]}
  BY <1>3, <1>4, <1>6
<1>8. InHand = H \cup ({popped} \ {Null}) /\ InHand' = G \cup ({popped} \ {Null})
  BY DEF InHand
<1> HIDE DEF G, H
<1> QED
  BY <1>2, <1>5, <1>7, <1>8

LEMMA LandedMore ==
  ASSUME LogInv, NEW l \in Line, NEW via \in {"direct", "queue"}, Written(l, via)
  PROVE  Landed' = Landed \cup {l} /\ Len(out') = Len(out) + 1
<1> DEFINE n == Len(out) + 1
<1>1. /\ DOMAIN out' = DOMAIN out \cup {n} /\ \A i \in DOMAIN out : i < n /\ i \in Nat /\ out'[i] = out[i]
      /\ out'[n] = [line |-> l, via |-> via, opened |-> file.opened] /\ Len(out') = n
  BY AppendedOut
<1>2. out'[n].line = l
  BY <1>1
<1> HIDE DEF n
<1>3. Landed' = {out'[i].line : i \in DOMAIN out'}
  BY DEF Landed
<1>4. Landed' = Landed \cup {l}
  BY <1>1, <1>2, <1>3 DEF Landed
<1> QED
  BY <1>1, <1>4 DEF n

LEMMA RingLines == RingInv => Waiting = {InRing(i) : i \in 1..size}
<1> SUFFICES ASSUME RingInv PROVE Waiting = {InRing(i) : i \in 1..size}
  OBVIOUS
<1>1. Waiting = {InRing(i) : i \in 1..size} \ {Null}
  BY DEF Waiting, InRing, Slot
<1>2. \A i \in 1..size : InRing(i) # Null
  BY NullLine DEF RingInv, RingFilled
<1> QED
  BY <1>1, <1>2

LEMMA KeptStamp ==
  ASSUME LogInv, RingInv, KeptInv, NEW w \in Writers, Stamp(w) PROVE KeptInv'
<1> DEFINE l == [by |-> w, n |-> made[w] + 1, day |-> day]
<1>0. /\ pc \in [Writers -> {"idle", "rotate", "route", "push", "write"}]
      /\ line \in [Writers -> Line \cup {Null}] /\ made \in [Writers -> 0..MaxLines]
      /\ made[w] \in Nat
  BY Numbers DEF LogInv, TypeOK
<1>1. l.by = w /\ l.n = made[w] + 1
  OBVIOUS
<1>1a. l # Null
  <2>1. day \in 0..MaxDay /\ made[w] + 1 \in 1..MaxLines
    BY <1>0, Numbers DEF LogInv, TypeOK, Stamp
  <2>2. l \in Line
    BY <2>1 DEF Line
  <2> QED
    BY <2>2, NullLine
<1> HIDE DEF l
<1>2. /\ pc[w] = "idle" /\ made' = [made EXCEPT ![w] = made[w] + 1] /\ line' = [line EXCEPT ![w] = l]
      /\ pc' = [pc EXCEPT ![w] = "rotate"] /\ UNCHANGED <<out, ringVars, popped>>
  BY DEF Stamp, l
<1>3. \A v \in Writers : pc[v] # "idle" => line[v].by = v
  BY DEF LogInv, Hands
<1> DEFINE H == {line[v] : v \in {u \in Writers : pc[u] # "idle"}}
           G == {line'[v] : v \in {u \in Writers : pc'[u] # "idle"}}
<1>4. G = H \cup {l} /\ l \notin H
  BY <1>0, <1>1, <1>2, <1>3
<1>5. l # popped
  <2>1. popped # Null /\ popped.by = w => popped.n <= made[w]
    BY DEF RingInv, PoppedOlder, Older
  <2> QED
    BY <1>0, <1>1, <1>1a, <2>1
<1>6. InHand = H \cup ({popped} \ {Null}) /\ InHand' = G \cup ({popped} \ {Null})
  BY <1>2 DEF InHand
<1> HIDE DEF G, H
<1>7. InHand' = InHand \cup {l} /\ l \notin InHand
  BY <1>4, <1>5, <1>6
<1>8. IsFiniteSet(InHand') /\ Cardinality(InHand') = Cardinality(InHand) + 1
  BY <1>7, FS_AddElement DEF KeptInv
<1>9. Lines' = Lines \cup {<<w, made[w] + 1>>} /\ <<w, made[w] + 1>> \notin Lines
  <2>1. \A v, n : <<v, n>> \in Lines <=> v \in Writers /\ n \in 1..made[v]
    BY DEF Lines
  <2>2. \A v, n : <<v, n>> \in Lines' <=> v \in Writers /\ n \in 1..made'[v]
    BY DEF Lines
  <2>3. \A x : x \in Lines \/ x \in Lines' => \E v, n : x = <<v, n>>
    BY DEF Lines
  <2>4. \A v \in Writers : \A n : n \in 1..made'[v] <=> n \in 1..made[v] \/ (v = w /\ n = made[w] + 1)
    BY <1>0, <1>2
  <2>5. \A v, n : <<v, n>> \in Lines' <=> <<v, n>> \in Lines \cup {<<w, made[w] + 1>>}
    BY <2>1, <2>2, <2>4
  <2>6. Lines' = Lines \cup {<<w, made[w] + 1>>}
    BY <2>3, <2>5
  <2>7. <<w, made[w] + 1>> \notin Lines
    BY <1>0, <2>1
  <2> QED
    BY <2>6, <2>7
<1>10. IsFiniteSet(Lines') /\ Cardinality(Lines') = Cardinality(Lines) + 1
  BY <1>9, FS_AddElement DEF KeptInv
<1>11. Everywhere' = Everywhere \cup {l}
  BY <1>2, <1>7 DEF Everywhere, Waiting, Landed
<1>12. {<<m.by, m.n>> : m \in Everywhere'} = {<<m.by, m.n>> : m \in Everywhere} \cup {<<w, made[w] + 1>>}
  BY <1>1, <1>11
<1>13. size' + Cardinality(InHand') + Len(out') = Cardinality(Lines')
  BY <1>2, <1>8, <1>10, KeptNumbers DEF KeptInv
<1> QED
  BY <1>8, <1>9, <1>10, <1>12, <1>13 DEF KeptInv

LEMMA KeptPush ==
  ASSUME LogInv, RingInv, KeptInv, NEW w \in Writers, Push(w), ~overrun' PROVE KeptInv'
<1>1. /\ size' = size + 1 /\ size \in Nat
      /\ \A i \in 1..size : InRing(i)' = InRing(i)
      /\ \A i \in 1..size' : i \in 1..size \/ (i = size + 1 /\ InRing(i)' = line[w])
      /\ line[w] \in Line
  BY PushEffect
<1>2. Return(w) /\ UNCHANGED <<out, popped, made>> /\ pc[w] # "idle"
  BY DEF Push
<1>3. line[w] \in InHand /\ InHand' = InHand \ {line[w]}
  BY <1>2, HandsGive
<1>4. IsFiniteSet(InHand') /\ Cardinality(InHand') = Cardinality(InHand) - 1
  BY <1>3, FS_RemoveElement DEF KeptInv
<1>5. Waiting' = Waiting \cup {line[w]}
  <2>1. Waiting' = {InRing(i)' : i \in 1..size'} \ {Null}
    BY DEF Waiting, InRing, Slot
  <2>2. Waiting = {InRing(i) : i \in 1..size} /\ \A i \in 1..size : InRing(i) # Null
    BY RingLines, NullLine DEF RingInv, RingFilled
  <2>3. size + 1 \in 1..size' /\ 1..size \subseteq 1..size' /\ size + 1 \notin 1..size
    BY <1>1
  <2>4. line[w] # Null
    BY <1>1, NullLine
  <2>5. \A i \in 1..size' : IF i \in 1..size THEN InRing(i)' = InRing(i) ELSE InRing(i)' = line[w]
    BY <1>1
  <2> QED
    BY <2>1, <2>2, <2>3, <2>4, <2>5
<1>6. Everywhere' = Everywhere
  BY <1>2, <1>3, <1>5 DEF Everywhere, Landed
<1>7. size' + Cardinality(InHand') + Len(out') = size + Cardinality(InHand) + Len(out)
  BY <1>1, <1>2, <1>4, KeptNumbers
<1> QED
  BY <1>2, <1>4, <1>6, <1>7, KeptMoved

LEMMA KeptWrite ==
  ASSUME LogInv, RingInv, KeptInv, NEW w \in Writers, Write(w) PROVE KeptInv'
<1>1. /\ Return(w) /\ UNCHANGED <<ringVars, popped, made>> /\ pc[w] # "idle" /\ line[w] \in Line
      /\ Written(line[w], "direct")
  BY DEF Write, LogInv, Hands
<1>2. line[w] \in InHand /\ InHand' = InHand \ {line[w]}
  BY <1>1, HandsGive
<1>3. IsFiniteSet(InHand') /\ Cardinality(InHand') = Cardinality(InHand) - 1
  BY <1>2, FS_RemoveElement DEF KeptInv
<1>4. Landed' = Landed \cup {line[w]} /\ Len(out') = Len(out) + 1
  BY <1>1, LandedMore
<1>5. Everywhere' = Everywhere
  BY <1>1, <1>2, <1>4 DEF Everywhere, Waiting
<1>6. size' + Cardinality(InHand') + Len(out') = size + Cardinality(InHand) + Len(out)
  BY <1>1, <1>3, <1>4, KeptNumbers
<1> QED
  BY <1>1, <1>3, <1>5, <1>6, KeptMoved

LEMMA KeptPop == ASSUME LogInv, RingInv, KeptInv, Pop PROVE KeptInv'
<1>1. /\ size' = size - 1 /\ size \in Nat \ {0} /\ popped' = InRing(1) /\ InRing(1) \in Line
      /\ \A i \in 1..size' : i + 1 \in 1..size /\ InRing(i)' = InRing(i + 1)
  BY PopEffect
<1>2. UNCHANGED <<out, writerVars>> /\ popped = Null
  BY DEF Pop, Awake
<1>3. \A v \in Writers : pc[v] # "idle" => line[v] # InRing(1)
  <2> SUFFICES ASSUME NEW v \in Writers, pc[v] # "idle", line[v] = InRing(1) PROVE FALSE
    OBVIOUS
  <2>1. line[v].by = v /\ line[v].n = made[v] /\ made[v] \in Nat /\ Older(InRing(1))
    BY <1>1, Numbers DEF LogInv, Hands, TypeOK, RingInv, RingOlder
  <2> QED
    BY <2>1 DEF Older
<1>4. InHand' = InHand \cup {InRing(1)} /\ InRing(1) \notin InHand
  BY <1>1, <1>2, <1>3, NullLine DEF InHand
<1>5. IsFiniteSet(InHand') /\ Cardinality(InHand') = Cardinality(InHand) + 1
  BY <1>4, FS_AddElement DEF KeptInv
<1>6. Waiting = Waiting' \cup {InRing(1)}
  <2>1. Waiting' = {InRing(i)' : i \in 1..size'} \ {Null}
    BY DEF Waiting, InRing, Slot
  <2>2. Waiting = {InRing(i) : i \in 1..size} /\ \A i \in 1..size : InRing(i) # Null
    BY RingLines, NullLine DEF RingInv, RingFilled
  <2>3. \A i \in 1..size : i = 1 \/ (i - 1 \in 1..size' /\ InRing(i - 1)' = InRing(i))
    <3> SUFFICES ASSUME NEW i \in 1..size, i # 1 PROVE i - 1 \in 1..size' /\ InRing(i - 1)' = InRing(i)
      OBVIOUS
    <3>1. i - 1 \in 1..size' /\ (i - 1) + 1 = i
      BY <1>1
    <3> QED
      BY <1>1, <3>1
  <2>4. 1 \in 1..size
    BY <1>1
  <2>5. Waiting' = {InRing(i)' : i \in 1..size'}
    BY <1>1, <2>1, <2>2
  <2> QED
    BY <1>1, <2>2, <2>3, <2>4, <2>5
<1>7. Everywhere' = Everywhere
  BY <1>2, <1>4, <1>6 DEF Everywhere, Landed
<1>8. size' + Cardinality(InHand') + Len(out') = size + Cardinality(InHand) + Len(out)
  BY <1>1, <1>2, <1>5, KeptNumbers
<1> QED
  BY <1>2, <1>5, <1>7, <1>8, KeptMoved

LEMMA KeptFlush == ASSUME LogInv, RingInv, KeptInv, Flush PROVE KeptInv'
<1>1. /\ popped \in Line /\ popped # Null /\ popped' = Null /\ Written(popped, "queue")
      /\ UNCHANGED <<ringVars, writerVars>>
  BY DEF Flush, LogInv, TypeOK
<1>2. \A v \in Writers : pc[v] # "idle" => line[v] # popped
  <2> SUFFICES ASSUME NEW v \in Writers, pc[v] # "idle", line[v] = popped PROVE FALSE
    OBVIOUS
  <2>1. line[v].by = v /\ line[v].n = made[v] /\ made[v] \in Nat /\ Older(popped)
    BY <1>1, Numbers DEF LogInv, Hands, TypeOK, RingInv, PoppedOlder
  <2> QED
    BY <2>1 DEF Older
<1>3. popped \in InHand /\ InHand' = InHand \ {popped}
  BY <1>1, <1>2 DEF InHand
<1>4. IsFiniteSet(InHand') /\ Cardinality(InHand') = Cardinality(InHand) - 1
  BY <1>3, FS_RemoveElement DEF KeptInv
<1>5. Landed' = Landed \cup {popped} /\ Len(out') = Len(out) + 1
  BY <1>1, LandedMore
<1>6. Everywhere' = Everywhere
  BY <1>1, <1>3, <1>5 DEF Everywhere, Waiting
<1>7. size' + Cardinality(InHand') + Len(out') = size + Cardinality(InHand) + Len(out)
  BY <1>1, <1>4, <1>5, KeptNumbers
<1> QED
  BY <1>1, <1>4, <1>6, <1>7, KeptMoved

LEMMA KeptStep ==
  ASSUME LogInv, RingInv, KeptInv, [Next]_vars, ~overrun' PROVE KeptInv'
<1>1. ASSUME UNCHANGED <<out, ringVars, made, popped>>, InHand' = InHand PROVE KeptInv'
  <2>1. Everywhere' = Everywhere
    BY <1>1 DEF Everywhere, Waiting, Landed
  <2>2. IsFiniteSet(InHand')
    BY <1>1 DEF KeptInv
  <2> QED
    BY <1>1, <2>1, <2>2, KeptMoved
<1>2. CASE UNCHANGED vars \/ Midnight \/ PopWait \/ WakesUp
  BY <1>1, <1>2 DEF Midnight, PopWait, WakesUp, InHand
<1>3. ASSUME NEW w \in Writers, Rotate(w) \/ Route(w) PROVE KeptInv'
  <2>1. UNCHANGED <<out, ringVars, made, popped, line>>
    BY <1>3 DEF Rotate, Route
  <2>2. \A v \in Writers : pc'[v] # "idle" <=> pc[v] # "idle"
    BY <1>3 DEF Rotate, Route, LogInv, TypeOK
  <2>3. InHand' = InHand
    BY <2>1, <2>2 DEF InHand
  <2> QED
    BY <1>1, <2>1, <2>3
<1> QED
  BY <1>2, <1>3, KeptStamp, KeptPush, KeptWrite, KeptPop, KeptFlush DEF Next, WriteLog, FlushLogThread

\* As long as the ring was not overrun, every line handed to write_log is in the hands of a
\* thread, in block_queue or in a file, and in one of these places once.
THEOREM LinesKept == Spec => []NoLineLost
<1> DEFINE I == LogInv /\ (~overrun => RingInv /\ KeptInv)
<1>1. Init => I
  <2> SUFFICES ASSUME Init PROVE RingInv /\ KeptInv
    BY LogInit
  <2>1. /\ size = 0 /\ out = << >> /\ popped = Null /\ back = -1 /\ front = -1
        /\ \A w \in Writers : pc[w] = "idle" /\ made[w] = 0
    BY DEF Init
  <2>2. RingBack /\ RingFits
    BY <2>1, Numbers DEF RingBack, RingFits, NextBack, Slot
  <2>3. RingFilled /\ RingOlder /\ PoppedOlder
    BY <2>1 DEF RingFilled, RingOlder, PoppedOlder
  <2>4. InHand = {} /\ Lines = {} /\ Waiting = {} /\ Landed = {}
    BY <2>1 DEF InHand, Lines, Waiting, Landed
  <2>5. KeptInv
    <3>1. Len(out) = 0
      BY <2>1
    <3>2. Everywhere = {}
      BY <2>4 DEF Everywhere
    <3> QED
      BY <2>1, <2>4, <3>1, <3>2, FS_EmptySet DEF KeptInv
  <2> QED
    BY <2>2, <2>3, <2>5 DEF RingInv
<1>2. I /\ [Next]_vars => I'
  BY LogStep, RingStep, KeptStep, OverrunStays
<1>3. I => NoLineLost
  BY DEF KeptInv, Everywhere, NoLineLost
<1> QED
  BY <1>1, <1>2, <1>3, PTL DEF Spec
=============================================================================

-------------------------- MODULE EventLoopProofs --------------------------
(* Safety of EventLoop, for every number of descriptors, threads and connections. *)
EXTENDS EventLoop, FiniteSetTheorems, TLAPS

USE DEF vars, listenVars, sockVars, clientVars, timerVars, poolVars

-----------------------------------------------------------------------------
(* Facts about the data *)

LEMMA Numbers ==
  /\ MaxConns \in Nat \ {0} /\ MaxRequests \in Nat \ {0} /\ Pieces \in Nat \ {0}
  /\ MaxQueue \in Nat \ {0} /\ UserLimit \in Nat /\ IdleTicks \in Nat
  /\ IsFiniteSet(Fds) /\ IsFiniteSet(Workers)
  BY LoopAssumption

LEMMA BoundType == InboxBound \in Nat
<1>1. \A a, b \in Nat : a * b \in Nat
  OBVIOUS
<1> QED
  BY <1>1, Numbers, Zenon DEF InboxBound

LEMMA FiniteConns == IsFiniteSet(Conns)
<1>1. IsFiniteSet(1..MaxConns)
  BY FS_Interval, Numbers
<1> QED
  BY <1>1 DEF Conns

LEMMA Connected == \A c \in 0..MaxConns : c # 0 => c \in Conns
  BY Numbers DEF Conns

LEMMA NullFacts == (\A fd \in Fds : fd # Null) /\ (\A t \in Timer : t # Null)
  BY NullAssumption

\* Assigning to the fields of an http_conn leaves an http_conn.
LEMMA ObjectFields ==
  ASSUME NEW o \in Object
  PROVE  /\ Fresh(o) \in Object /\ [Fresh(o) EXCEPT !.attached = TRUE] \in Object
         /\ [Fresh(o) EXCEPT !.improv = TRUE] \in Object
         /\ \A b \in BOOLEAN : /\ [o EXCEPT !.attached = b] \in Object
                               /\ [o EXCEPT !.improv = b] \in Object
                               /\ [o EXCEPT !.flag = b] \in Object
                               /\ [o EXCEPT !.linger = b] \in Object
                               /\ [o EXCEPT !.flag = b, !.improv = b] \in Object
         /\ \A s \in {"read", "write"} : [o EXCEPT !.state = s] \in Object
         /\ \A c \in 0..MaxConns : [o EXCEPT !.answer = c] \in Object
         /\ \A x \in {"none", "right", "short"} : [o EXCEPT !.offset = x] \in Object
         /\ \A n \in 0..Pieces, c \in 0..MaxConns : [o EXCEPT !.got = n, !.of = c] \in Object
         /\ [o EXCEPT !.answer = 0, !.offset = "right"] \in Object
<1>1. 0 \in 0..Pieces /\ 0 \in 0..MaxConns
  BY Numbers
<1>2. \A b \in BOOLEAN : /\ [o EXCEPT !.attached = b] \in Object
                         /\ [o EXCEPT !.improv = b] \in Object
                         /\ [o EXCEPT !.flag = b] \in Object
                         /\ [o EXCEPT !.linger = b] \in Object
                         /\ [o EXCEPT !.flag = b, !.improv = b] \in Object
  BY DEF Object
<1>3. \A s \in {"read", "write"} : [o EXCEPT !.state = s] \in Object
  BY DEF Object
<1>4. \A c \in 0..MaxConns : [o EXCEPT !.answer = c] \in Object
  BY DEF Object
<1>5. /\ \A x \in {"none", "right", "short"} : [o EXCEPT !.offset = x] \in Object
      /\ \A n \in 0..Pieces, c \in 0..MaxConns : [o EXCEPT !.got = n, !.of = c] \in Object
  BY DEF Object
<1>6. [o EXCEPT !.answer = 0, !.offset = "right"] \in Object
  BY <1>1 DEF Object
<1>7. Fresh(o) \in Object
  BY <1>1 DEF Object, Fresh
<1>8. [Fresh(o) EXCEPT !.attached = TRUE] \in Object /\ [Fresh(o) EXCEPT !.improv = TRUE] \in Object
  BY <1>7 DEF Object
<1> QED
  BY <1>2, <1>3, <1>4, <1>5, <1>6, <1>7, <1>8

-----------------------------------------------------------------------------
(* Types, and where the threads are *)

WorkersAt == \A w \in Workers : worker[w].pc = "idle" <=> worker[w].fd = Null
MainAt    == main.pc \in {"spin", "flag"} => main.fd \in Fds

\* A client has no more on its way than it has sent.
BytesSent == \A fd \in Fds : inbox[fd] <= requests[fd] * Pieces + asked[fd]

\* A registered descriptor is open, and an open one has its own timer.  A timer is at the
\* descriptor it was made for, also if users_timer still points to it from there later.
ArmedOpen  == \A fd \in Fds : armed[fd] # "none" => sock[fd] # 0
OwnTimer   == \A fd \in Fds : sock[fd] # 0 => /\ utimer[fd] = sock[fd] /\ timer[sock[fd]] # Null
                                              /\ timer[sock[fd]].fd = fd
TimerPlace == \A fd \in Fds : utimer[fd] # 0 /\ timer[utimer[fd]] # Null => timer[utimer[fd]].fd = fd
Numbered   == /\ \A fd \in Fds : sock[fd] <= conns /\ utimer[fd] <= conns
              /\ \A c \in Conns : c > conns => timer[c] = Null

TimersInv == ArmedOpen /\ OwnTimer /\ TimerPlace /\ Numbered
LoopInv   == TypeOK /\ WorkersAt /\ MainAt /\ BytesSent /\ TimersInv

LEMMA InitInv == Init => LoopInv
<1> SUFFICES ASSUME Init PROVE LoopInv
  OBVIOUS
<1>1. \A fd \in Fds : obj[fd] \in Object
  BY Numbers DEF Init, Object
<1>2. 0 \in 0..MaxConns /\ 0 \in 0..InboxBound /\ 0 \in 0..Pieces
  BY Numbers, BoundType
<1>3. TypeOK
  <2>1. obj \in [Fds -> Object] /\ 0 \in 0..(MaxConns - 0)
    BY <1>1, Numbers DEF Init
  <2>2. /\ sock \in [Fds -> 0..MaxConns] /\ utimer \in [Fds -> 0..MaxConns]
        /\ inbox \in [Fds -> 0..InboxBound] /\ asked \in [Fds -> 0..Pieces]
        /\ reply \in [Conns -> 0..MaxConns] /\ conns \in 0..MaxConns
    BY <1>2 DEF Init
  <2>3. worker \in [Workers -> [pc: WorkerPCs, fd: Fds \cup {Null}, of: 0..MaxConns]]
    BY <1>2 DEF Init, WorkerPCs
  <2>4. workq \in Seq(Fds) /\ Len(workq) <= MaxQueue
    BY Numbers DEF Init
  <2>5. /\ reactor \in BOOLEAN /\ alarm \in {"off", "set", "pipe", "timeout"}
        /\ listenET \in BOOLEAN /\ edge \in BOOLEAN /\ (edge => listenET)
        /\ hup \in [Fds -> BOOLEAN]
    BY DEF Init
  <2>6. /\ armed \in [Fds -> {"none", "in", "out"}] /\ requests \in [Fds -> Nat]
        /\ timer \in [Conns -> Timer \cup {Null}] /\ users \in Int
        /\ backlog \in 0..(MaxConns - conns) /\ mishap = {}
        /\ main \in [pc: {"wait", "accept", "spin", "flag", "stuck"}, fd: Fds \cup {Null}]
    BY <2>1 DEF Init
  <2> QED
    BY <2>1, <2>2, <2>3, <2>4, <2>5, <2>6 DEF TypeOK
<1>4. WorkersAt /\ MainAt /\ TimersInv
  BY <1>3, NullFacts DEF Init, WorkersAt, MainAt, TimersInv, ArmedOpen, OwnTimer, TimerPlace,
                         Numbered, Conns
<1>5. BytesSent
  <2>1. 0 * Pieces = 0
    BY Numbers
  <2> QED
    BY <2>1 DEF Init, BytesSent
<1> QED
  BY <1>3, <1>4, <1>5 DEF LoopInv

\* Closed sockets are sockets.
LEMMA ClosedType ==
  ASSUME TypeOK, NEW fds, CloseSockets(fds)
  PROVE  /\ sock' \in [Fds -> 0..MaxConns] /\ armed' \in [Fds -> {"none", "in", "out"}]
         /\ hup' \in [Fds -> BOOLEAN] /\ inbox' \in [Fds -> 0..InboxBound]
         /\ asked' \in [Fds -> 0..Pieces] /\ requests' \in [Fds -> Nat]
<1>1. 0 \in 0..MaxConns /\ 0 \in 0..InboxBound /\ 0 \in 0..Pieces
  BY Numbers, BoundType
<1> QED
  BY <1>1 DEF TypeOK, CloseSockets

LEMMA RearmType ==
  ASSUME TypeOK, NEW fd \in Fds, NEW ev \in {"in", "out"}, Rearm(fd, ev)
  PROVE  /\ armed' \in [Fds -> {"none", "in", "out"}]
         /\ \A f \in Fds : armed'[f] # armed[f] => f = fd /\ sock[f] # 0
  BY DEF TypeOK, Rearm

\* The timer at a descriptor that has an event is that of its connection.
LEMMA EventTimer ==
  ASSUME LoopInv, NEW fd \in Fds, armed[fd] # "none"
  PROVE  /\ sock[fd] \in Conns /\ TimerAt(fd) = sock[fd]
         /\ timer[sock[fd]] \in Timer /\ timer[sock[fd]].fd = fd
<1>1. sock[fd] # 0 /\ utimer[fd] = sock[fd] /\ timer[sock[fd]] # Null /\ timer[sock[fd]].fd = fd
  BY DEF LoopInv, TimersInv, ArmedOpen, OwnTimer
<1>2. sock[fd] \in 0..MaxConns
  BY DEF LoopInv, TypeOK
<1>3. sock[fd] \in Conns
  BY <1>1, <1>2, Numbers DEF Conns
<1> QED
  BY <1>1, <1>3 DEF LoopInv, TypeOK, TimerAt

LEMMA AdjustType ==
  ASSUME LoopInv, NEW fd \in Fds, armed[fd] # "none", AdjustTimer(fd)
  PROVE  /\ timer' \in [Conns -> Timer \cup {Null}]
         /\ \A c \in Conns : (timer'[c] = Null <=> timer[c] = Null) /\ timer'[c].fd = timer[c].fd
<1> DEFINE c == sock[fd]
<1>1. c \in Conns /\ TimerAt(fd) = c /\ timer[c] \in Timer
  BY EventTimer
<1> HIDE DEF c
<1>2. timer' = [timer EXCEPT ![c] = [timer[c] EXCEPT !.age = 0]]
  BY <1>1 DEF AdjustTimer
<1>3. [timer[c] EXCEPT !.age = 0] \in Timer /\ [timer[c] EXCEPT !.age = 0].fd = timer[c].fd
  BY <1>1, Numbers DEF Timer
<1> QED
  BY <1>1, <1>2, <1>3, NullFacts DEF LoopInv, TypeOK

LEMMA DealTimerType ==
  ASSUME TypeOK, NEW fd \in Fds, DealTimer(fd)
  PROVE  /\ sock' \in [Fds -> 0..MaxConns] /\ armed' \in [Fds -> {"none", "in", "out"}]
         /\ hup' \in [Fds -> BOOLEAN] /\ inbox' \in [Fds -> 0..InboxBound]
         /\ asked' \in [Fds -> 0..Pieces] /\ requests' \in [Fds -> Nat]
         /\ timer' \in [Conns -> Timer \cup {Null}] /\ users' \in Int
<1>1. CloseSockets({fd}) /\ users' = users - 1 /\ timer' = [timer EXCEPT ![TimerAt(fd)] = Null]
  BY DEF DealTimer
<1>2. timer' \in [Conns -> Timer \cup {Null}]
  BY <1>1 DEF TypeOK
<1>3. users' \in Int
  BY <1>1 DEF TypeOK
<1> QED
  BY <1>1, <1>2, <1>3, ClosedType

\* The clients and the signals.
LEMMA TypeOutside ==
  ASSUME LoopInv,
         \/ Connect \/ SigAlrm \/ DealWithSignal
         \/ \E fd \in Fds : Send(fd) \/ HangUp(fd)
  PROVE  TypeOK'
<1> USE DEF TypeOK, LoopInv
<1>1. CASE Connect
  <2>1. backlog' \in 0..(MaxConns - conns') /\ edge' \in BOOLEAN /\ (edge' => listenET')
    BY <1>1, Numbers DEF Connect
  <2> QED
    BY <1>1, <2>1 DEF Connect
<1>2. CASE SigAlrm
  BY <1>2 DEF SigAlrm
<1>5. CASE DealWithSignal
  BY <1>5 DEF DealWithSignal
<1>3. ASSUME NEW fd \in Fds, Send(fd) PROVE TypeOK'
  <2>1. /\ asked' = [asked EXCEPT ![fd] = asked[fd] + 1] /\ asked[fd] < Pieces
        /\ inbox' = [inbox EXCEPT ![fd] = inbox[fd] + 1] /\ requests[fd] < MaxRequests
    BY <1>3 DEF Send
  <2>2. asked[fd] + 1 \in 0..Pieces
    <3>1. asked[fd] \in 0..Pieces
      OBVIOUS
    <3> HIDE DEF TypeOK
    <3> QED
      BY <2>1, <3>1, Numbers
  <2>3. inbox[fd] + 1 \in 0..InboxBound
    <3>1. inbox[fd] <= requests[fd] * Pieces + asked[fd]
      BY DEF BytesSent
    <3>2. \A r, m \in Nat : \A k \in Nat : r < m => r * k + k <= m * k
      OBVIOUS
    <3>3. requests[fd] * Pieces + Pieces <= InboxBound
      BY <2>1, <3>2, Numbers DEF InboxBound
    <3>4. \A a, b \in Nat : a * b \in Nat
      OBVIOUS
    <3>5. requests[fd] \in Nat /\ Pieces \in Nat /\ inbox[fd] \in Nat /\ asked[fd] \in Nat
      BY Numbers, BoundType
    <3>6. requests[fd] * Pieces \in Nat
      BY <3>4, <3>5, Zenon
    <3> DEFINE r == requests[fd] * Pieces
    <3>7. r \in Nat /\ inbox[fd] <= r + asked[fd] /\ r + Pieces <= InboxBound
      BY <3>1, <3>3, <3>6
    <3> HIDE DEF r, TypeOK
    <3> QED
      BY <2>1, <3>5, <3>7, BoundType, Numbers
  <2>4. asked' \in [Fds -> 0..Pieces] /\ inbox' \in [Fds -> 0..InboxBound]
    BY <2>1, <2>2, <2>3
  <2> QED
    BY <1>3, <2>4 DEF Send
<1>4. ASSUME NEW fd \in Fds, HangUp(fd) PROVE TypeOK'
  BY <1>4 DEF HangUp
<1> QED
  BY <1>1, <1>2, <1>3, <1>4, <1>5

LEMMA AcceptNumbers ==
  ASSUME TypeOK, backlog > 0
  PROVE  conns + 1 \in 0..MaxConns /\ conns + 1 \in Conns
         /\ backlog - 1 \in 0..(MaxConns - (conns + 1))
<1>1. backlog \in 0..(MaxConns - conns) /\ conns \in 0..MaxConns
  BY DEF TypeOK
<1> QED
  BY <1>1, Numbers DEF Conns

\* The listening socket.
LEMMA TypeListen ==
  ASSUME LoopInv, Listen \/ AcceptFails PROVE TypeOK'
<1> USE DEF TypeOK, LoopInv
<1>1. CASE EdgeEvent
  BY <1>1 DEF EdgeEvent
<1>2. ASSUME NEW fd \in Fds, DealClientData(fd) PROVE TypeOK'
  <2>1. /\ backlog' = backlog - 1 /\ conns' = conns + 1 /\ backlog > 0
        /\ obj' = [obj EXCEPT ![fd] = [Fresh(obj[fd]) EXCEPT !.attached = TRUE]]
        /\ sock' = [sock EXCEPT ![fd] = conns + 1]
        /\ timer' = [timer EXCEPT ![conns + 1] = [fd |-> fd, age |-> 0]]
        /\ utimer' = [utimer EXCEPT ![fd] = conns + 1]
    BY <1>2 DEF DealClientData, SetTimer
  <2>2. conns + 1 \in 0..MaxConns /\ backlog' \in 0..(MaxConns - conns')
    BY <2>1, AcceptNumbers
  <2>3. obj' \in [Fds -> Object]
    BY <2>1, ObjectFields
  <2>4. [fd |-> fd, age |-> 0] \in Timer
    BY Numbers DEF Timer
  <2>5. timer' \in [Conns -> Timer \cup {Null}] /\ utimer' \in [Fds -> 0..MaxConns]
        /\ sock' \in [Fds -> 0..MaxConns]
    BY <2>1, <2>2, <2>4
  <2>6. users' \in Int /\ armed' \in [Fds -> {"none", "in", "out"}] /\ conns' \in 0..MaxConns
    BY <1>2, <2>1, <2>2 DEF DealClientData
  <2>7. UNCHANGED <<reactor, alarm, listenET, edge, hup, inbox, clientVars, poolVars, mishap, main>>
    BY <1>2 DEF DealClientData, AcceptsOn
  <2> QED
    BY <2>2, <2>3, <2>5, <2>6, <2>7
<1>3. CASE Refuse
  <2>1. conns + 1 \in 0..MaxConns /\ backlog - 1 \in 0..(MaxConns - (conns + 1))
    BY <1>3, AcceptNumbers DEF Refuse
  <2>2. Leftover(backlog') \subseteq {"left"}
    BY DEF Leftover
  <2> QED
    BY <1>3, <2>1, <2>2 DEF Refuse
<1>4. CASE AcceptFails
  <2>1. Leftover(backlog) \subseteq {"left"}
    BY DEF Leftover
  <2> QED
    BY <1>4, <2>1 DEF AcceptFails
<1> QED
  BY <1>1, <1>2, <1>3, <1>4 DEF Listen

LEMMA AfterSendType ==
  ASSUME TypeOK, NEW fd \in Fds
  PROVE  AfterSend(fd) \in Object /\ [AfterSend(fd) EXCEPT !.improv = TRUE] \in Object
<1>1. obj[fd] \in Object
  BY DEF TypeOK
<1>2. AfterSend(fd) \in Object
  BY <1>1, ObjectFields DEF AfterSend
<1> QED
  BY <1>2, ObjectFields

LEMMA AfterPartType ==
  ASSUME TypeOK, NEW fd \in Fds, NEW o \in AfterPart(fd)
  PROVE  o \in Object /\ [o EXCEPT !.improv = TRUE] \in Object
<1>1. obj[fd] \in Object
  BY DEF TypeOK
<1>2. o \in Object
  BY <1>1, ObjectFields DEF AfterPart
<1> QED
  BY <1>2, ObjectFields

LEMMA ReadOnceType ==
  ASSUME TypeOK, NEW fd \in Fds, NEW o \in Object, ReadOnce(fd, o)
  PROVE  /\ obj' \in [Fds -> Object] /\ inbox' \in [Fds -> 0..InboxBound]
         /\ inbox' = [inbox EXCEPT ![fd] = 0]
<1>1. inbox[fd] \in Nat /\ sock[fd] \in 0..MaxConns /\ 0 \in 0..InboxBound /\ obj \in [Fds -> Object]
      /\ inbox \in [Fds -> 0..InboxBound]
  BY BoundType DEF TypeOK
<1>2. o.got \in 0..Pieces /\ o.of \in 0..MaxConns
  BY DEF Object
<1> DEFINE n == IF o.got + inbox[fd] > Pieces THEN Pieces ELSE o.got + inbox[fd]
           c == IF o.got = 0 THEN sock[fd] ELSE o.of
<1>3. n \in 0..Pieces /\ c \in 0..MaxConns
  BY <1>1, <1>2, Numbers
<1>4. obj' = [obj EXCEPT ![fd] = [o EXCEPT !.got = n, !.of = c]]
  BY DEF ReadOnce
<1> HIDE DEF n, c
<1>5. [o EXCEPT !.got = n, !.of = c] \in Object
  BY <1>3, ObjectFields
<1> QED
  BY <1>1, <1>4, <1>5 DEF ReadOnce

\* The response is sent and the client may ask again.
LEMMA SendAllType ==
  ASSUME TypeOK, NEW fd \in Fds, SendAll(fd)
  PROVE  /\ reply' \in [Conns -> 0..MaxConns] /\ asked' \in [Fds -> 0..Pieces]
         /\ requests' \in [Fds -> Nat] /\ armed' \in [Fds -> {"none", "in", "out"}]
<1>1. obj[fd].answer \in 0..MaxConns
  BY DEF TypeOK, Object
<1>2. reply' \in [Conns -> 0..MaxConns]
  BY <1>1 DEF SendAll, TypeOK
<1>3. asked' \in [Fds -> 0..Pieces]
  BY Numbers DEF SendAll, TypeOK
<1>4. requests' \in [Fds -> Nat]
  BY DEF SendAll, TypeOK
<1>5. armed' \in [Fds -> {"none", "in", "out"}]
  BY RearmType DEF SendAll
<1> QED
  BY <1>2, <1>3, <1>4, <1>5

\* The queue of the pool takes a descriptor only if there is room.
LEMMA AppendedType ==
  ASSUME TypeOK, NEW fd \in Fds, ~Full, workq' = Append(workq, fd)
  PROVE  workq' \in Seq(Fds) /\ Len(workq') <= MaxQueue
<1>1. workq \in Seq(Fds) /\ Len(workq) < MaxQueue
  BY Numbers DEF TypeOK, Full
<1> QED
  BY <1>1, Numbers

LEMMA DisarmedType ==
  ASSUME TypeOK, NEW fd \in Fds
  PROVE  Disarmed(fd) \in [Fds -> {"none", "in", "out"}]
  BY DEF TypeOK, Disarmed

\* The events of the descriptors.
LEMMA TypeEvents ==
  ASSUME LoopInv, NEW fd \in Fds,
         EventOn(fd) \/ ProactorSendAll(fd) \/ ProactorSendForever(fd)
  PROVE  TypeOK'
<1> USE DEF TypeOK
<1>0. TypeOK /\ obj[fd] \in Object
  BY DEF LoopInv
<1>1. CASE DealWithHangUp(fd)
  <2>1. DealTimer(fd)
    BY <1>1 DEF DealWithHangUp
  <2> QED
    BY <1>0, <1>1, <2>1, DealTimerType DEF DealWithHangUp
<1>2. CASE ProactorRead(fd)
  <2>1. ReadOnce(fd, obj[fd]) /\ AdjustTimer(fd) /\ armed[fd] # "none" /\ armed' = Disarmed(fd)
    BY <1>2 DEF ProactorRead, Event
  <2>2. obj' \in [Fds -> Object] /\ inbox' \in [Fds -> 0..InboxBound]
    BY <1>0, <2>1, ReadOnceType
  <2>3. timer' \in [Conns -> Timer \cup {Null}] /\ armed' \in [Fds -> {"none", "in", "out"}]
    BY <1>0, <2>1, AdjustType, DisarmedType
  <2>4. workq' \in Seq(Fds) /\ Len(workq') <= MaxQueue
        /\ mishap' \subseteq {"cut", "late", "thrown", "dropped", "stuck", "left"}
    <3>1. CASE Full
      BY <1>0, <1>2, <3>1 DEF ProactorRead
    <3>2. CASE ~Full
      BY <1>0, <1>2, <3>2, AppendedType DEF ProactorRead
    <3> QED
      BY <3>1, <3>2
  <2> QED
    BY <1>0, <1>2, <2>2, <2>3, <2>4 DEF ProactorRead
<1>3. CASE ProactorSendAll(fd)
  <2>1. obj' = [obj EXCEPT ![fd] = AfterSend(fd)] /\ armed[fd] # "none"
        /\ UNCHANGED <<reactor, alarm, listenVars, utimer, conns, poolVars, main, mishap>>
    BY <1>3 DEF ProactorSendAll, Event
  <2>2. obj' \in [Fds -> Object]
    BY <1>0, <2>1, AfterSendType
  <2>3. CASE obj[fd].linger
    <3>1. SendAll(fd) /\ AdjustTimer(fd) /\ UNCHANGED <<sock, hup, inbox, users>>
      BY <1>3, <2>3 DEF ProactorSendAll
    <3>2. timer' \in [Conns -> Timer \cup {Null}]
      BY <2>1, <3>1, AdjustType
    <3> QED
      BY <1>0, <2>1, <2>2, <3>1, <3>2, SendAllType
  <2>4. CASE ~obj[fd].linger
    <3>1. DealTimer(fd) /\ reply' = [reply EXCEPT ![sock[fd]] = obj[fd].answer]
      BY <1>3, <2>4 DEF ProactorSendAll
    <3>2. obj[fd].answer \in 0..MaxConns
      BY <1>0 DEF Object
    <3>3. reply' \in [Conns -> 0..MaxConns]
      BY <1>0, <3>1, <3>2
    <3> QED
      BY <1>0, <2>1, <2>2, <3>1, <3>3, DealTimerType
  <2> QED
    BY <2>3, <2>4
<1>4. CASE ProactorSendRest(fd)
  <2>1. AdjustTimer(fd) /\ armed[fd] # "none"
    BY <1>4 DEF ProactorSendRest, Event
  <2>2. timer' \in [Conns -> Timer \cup {Null}]
    BY <2>1, AdjustType
  <2>3. obj' \in [Fds -> Object]
    <3>1. CASE \E o \in AfterPart(fd) : obj' = [obj EXCEPT ![fd] = o]
      BY <1>0, <3>1, AfterPartType
    <3>2. CASE obj' = [obj EXCEPT ![fd] = Fresh(obj[fd])]
      BY <1>0, <3>2, ObjectFields
    <3> QED
      BY <1>4, <3>1, <3>2 DEF ProactorSendRest
  <2>4. armed' \in [Fds -> {"none", "in", "out"}]
    BY <1>0, <1>4, RearmType DEF ProactorSendRest, SendPart, SendNothing
  <2> QED
    BY <1>0, <1>4, <2>2, <2>3, <2>4 DEF ProactorSendRest
<1>5. CASE ProactorSendForever(fd)
  <2>1. armed' \in [Fds -> {"none", "in", "out"}]
    BY <1>0, <1>5, DisarmedType DEF ProactorSendForever
  <2> QED
    BY <1>0, <1>5, <2>1 DEF ProactorSendForever
<1>6. ASSUME NEW ev \in {"in", "out"}, NEW s \in {"read", "write"}, ReactorAppend(fd, ev, s)
      PROVE  TypeOK'
  <2>1. AdjustTimer(fd) /\ armed[fd] # "none" /\ armed' = Disarmed(fd)
    BY <1>6 DEF ReactorAppend, Event
  <2>2. timer' \in [Conns -> Timer \cup {Null}] /\ armed' \in [Fds -> {"none", "in", "out"}]
    BY <1>0, <2>1, AdjustType, DisarmedType
  <2>3. workq' \in Seq(Fds) /\ Len(workq') <= MaxQueue /\ obj' \in [Fds -> Object]
    <3>1. CASE Full
      BY <1>0, <1>6, <3>1 DEF ReactorAppend
    <3>2. CASE ~Full
      <4>1. workq' = Append(workq, fd) /\ obj' = [obj EXCEPT ![fd] = [obj[fd] EXCEPT !.state = s]]
        BY <1>6, <3>2 DEF ReactorAppend
      <4> QED
        BY <1>0, <3>2, <4>1, AppendedType, ObjectFields
    <3> QED
      BY <3>1, <3>2
  <2> QED
    BY <1>0, <1>6, <2>2, <2>3 DEF ReactorAppend
<1> QED
  BY <1>1, <1>2, <1>3, <1>4, <1>5, <1>6 DEF EventOn

LEMMA CutType == /\ \A fds : Cut(fds) \subseteq {"cut"}
                 /\ \A fd : FlagComesLate(fd) \subseteq {"late"}
  BY DEF Cut, FlagComesLate

\* The flags of the reactor.
LEMMA TypeSpin ==
  ASSUME LoopInv, Spin PROVE TypeOK'
<1> USE DEF TypeOK
<1>0. TypeOK
  BY DEF LoopInv
<1>1. CASE SpinEnd
  BY <1>0, <1>1 DEF SpinEnd
<1>2. CASE ReadFlag
  <2> DEFINE fd == main.fd
  <2>1. fd \in Fds /\ obj[fd] \in Object
    BY <1>0, <1>2 DEF ReadFlag, LoopInv, MainAt
  <2>2. obj' = [obj EXCEPT ![fd] = [obj[fd] EXCEPT !.flag = FALSE, !.improv = FALSE]]
    BY <1>0, <1>2, <2>1 DEF ReadFlag, ClearFlags
  <2> HIDE DEF fd
  <2>3. obj' \in [Fds -> Object]
    BY <1>0, <2>1, <2>2, ObjectFields
  <2>4. /\ main' = [pc |-> "wait", fd |-> Null]
        /\ UNCHANGED <<reactor, alarm, listenVars, reply, utimer, conns, poolVars>>
    BY <1>2 DEF ReadFlag
  <2>5. CASE obj[fd].flag
    <3>1. DealTimer(fd) /\ mishap' = mishap \cup Cut({fd}) \cup FlagComesLate(fd)
      BY <1>2, <2>5 DEF ReadFlag, fd
    <3>2. mishap' \subseteq {"cut", "late", "thrown", "dropped", "stuck", "left"}
      BY <1>0, <3>1, CutType
    <3> QED
      BY <1>0, <2>1, <2>3, <2>4, <3>1, <3>2, DealTimerType
  <2>6. CASE ~obj[fd].flag
    <3>1. /\ UNCHANGED <<sockVars, asked, requests, users, timer>>
          /\ mishap' = mishap \cup FlagComesLate(fd)
      BY <1>2, <2>6 DEF ReadFlag, fd
    <3>2. mishap' \subseteq {"cut", "late", "thrown", "dropped", "stuck", "left"}
      BY <1>0, <3>1, CutType
    <3> QED
      BY <1>0, <2>3, <2>4, <3>1, <3>2
  <2> QED
    BY <2>5, <2>6
<1> QED
  BY <1>1, <1>2 DEF Spin

\* The timers that a tick leaves are those that may still age.
LEMMA AgedType ==
  ASSUME TypeOK, NEW cs \in SUBSET Conns, Expired(cs), NEW c \in Live \ cs
  PROVE  [timer[c] EXCEPT !.age = @ + 1] \in Timer /\ [timer[c] EXCEPT !.age = @ + 1].fd = timer[c].fd
<1>1. timer[c] \in Timer /\ ~(timer[c].age >= IdleTicks)
  BY DEF TypeOK, Live, Expired
<1>2. timer[c].age + 1 \in 0..IdleTicks
  BY <1>1, Numbers DEF Timer
<1> QED
  BY <1>1, <1>2 DEF Timer

LEMMA TypeTick ==
  ASSUME LoopInv, TimerHandler PROVE TypeOK'
<1> USE DEF TypeOK
<1>0. TypeOK
  BY DEF LoopInv
<1>1. PICK cs \in SUBSET Conns :
        /\ Expired(cs)
        /\ CloseSockets({timer[c].fd : c \in cs})
        /\ users' = users - Cardinality(cs)
        /\ timer' = [c \in Conns |-> IF c \in Live \ cs THEN [timer[c] EXCEPT !.age = @ + 1] ELSE Null]
        /\ mishap' = mishap \cup Cut({timer[c].fd : c \in cs})
  BY DEF TimerHandler
<1>2. timer' \in [Conns -> Timer \cup {Null}]
  BY <1>0, <1>1, AgedType DEF Live
<1>3. users' \in Int
  <2>1. IsFiniteSet(cs)
    BY FiniteConns, FS_Subset
  <2>2. Cardinality(cs) \in Nat
    BY <2>1, FS_CardinalityType
  <2> QED
    BY <1>0, <1>1, <2>2
<1>4. mishap' \subseteq {"cut", "late", "thrown", "dropped", "stuck", "left"}
  BY <1>0, <1>1, CutType
<1>5. /\ alarm' = "set"
      /\ UNCHANGED <<reactor, listenVars, reply, obj, utimer, conns, poolVars, main>>
  BY DEF TimerHandler, AlarmAgain
<1> QED
  BY <1>0, <1>1, <1>2, <1>3, <1>4, <1>5, ClosedType

\* A thread of the pool.
LEMMA TypeWorkers ==
  ASSUME LoopInv, NEW w \in Workers,
         Take(w) \/ Work(w) \/ WriteAll(w) \/ WriteForever(w) \/ Throw(w)
  PROVE  TypeOK'
<1> DEFINE fd == worker[w].fd
           PCs == [pc: WorkerPCs, fd: Fds \cup {Null}, of: 0..MaxConns]
<1>0. TypeOK /\ worker[w] \in PCs /\ 0 \in 0..MaxConns
  <2>1. TypeOK
    BY DEF LoopInv
  <2>2. worker \in [Workers -> PCs]
    BY <2>1 DEF TypeOK
  <2> QED
    BY <2>1, <2>2, Numbers
<1> USE DEF TypeOK
<1>1. worker[w].pc # "idle" => fd \in Fds /\ obj[fd] \in Object
  BY <1>0 DEF LoopInv, WorkersAt
<1>2. \A pc \in WorkerPCs : Goes(w, pc) => worker' \in [Workers -> PCs]
  <2> SUFFICES ASSUME NEW pc \in WorkerPCs, Goes(w, pc) PROVE worker' \in [Workers -> PCs]
    OBVIOUS
  <2>1. worker' = [worker EXCEPT ![w] = [worker[w] EXCEPT !.pc = pc]]
    BY <1>0 DEF Goes
  <2>2. [worker[w] EXCEPT !.pc = pc] \in PCs
    BY <1>0
  <2> QED
    BY <1>0, <2>1, <2>2
<1>3. Rests(w) => worker' \in [Workers -> PCs]
  BY <1>0 DEF Rests, WorkerPCs
<1> HIDE DEF fd
<1>4. CASE Take(w)
  <2>1. workq # << >> /\ workq' = Tail(workq) /\ workq \in Seq(Fds) /\ Len(workq) <= MaxQueue
    BY <1>0, <1>4 DEF Take
  <2>2. workq' \in Seq(Fds) /\ Len(workq') <= MaxQueue /\ Head(workq) \in Fds
    BY <2>1, Numbers
  <2>3. worker' \in [Workers -> PCs]
    <3> DEFINE pc == IF ~reactor THEN "process"
                     ELSE IF obj[Head(workq)].state = "read" THEN "read" ELSE "write"
    <3>1. worker' = [worker EXCEPT ![w] = [fd |-> Head(workq), of |-> 0, pc |-> pc]]
      BY <1>4 DEF Take
    <3>2. pc \in WorkerPCs
      BY DEF WorkerPCs
    <3> HIDE DEF pc
    <3> QED
      BY <1>0, <2>2, <3>1, <3>2
  <2> QED
    BY <1>0, <1>4, <2>2, <2>3 DEF Take
<1>5. CASE Read(w)
  <2>1. ReadOnce(fd, [obj[fd] EXCEPT !.improv = TRUE]) /\ fd \in Fds /\ obj[fd] \in Object
    BY <1>1, <1>5 DEF Read, fd
  <2>2. [obj[fd] EXCEPT !.improv = TRUE] \in Object
    BY <2>1, ObjectFields
  <2>3. obj' \in [Fds -> Object] /\ inbox' \in [Fds -> 0..InboxBound]
    BY <1>0, <2>1, <2>2, ReadOnceType
  <2>4. worker' \in [Workers -> PCs]
    BY <1>2, <1>5 DEF Read, WorkerPCs
  <2> QED
    BY <1>0, <1>5, <2>3, <2>4 DEF Read
<1>6. CASE ReadFailure(w)
  <2>1. obj' = [obj EXCEPT ![fd] = [obj[fd] EXCEPT !.improv = TRUE]] /\ fd \in Fds /\ obj[fd] \in Object
    BY <1>0, <1>1, <1>6 DEF ReadFailure, Failed, fd
  <2>2. obj' \in [Fds -> Object]
    BY <1>0, <2>1, ObjectFields
  <2>3. worker' \in [Workers -> PCs]
    BY <1>2, <1>6 DEF ReadFailure, WorkerPCs
  <2> QED
    BY <1>0, <1>6, <2>2, <2>3 DEF ReadFailure
<1>7. CASE WriteAll(w)
  <2>1. obj' = [obj EXCEPT ![fd] = [AfterSend(fd) EXCEPT !.improv = TRUE]] /\ fd \in Fds /\ SendAll(fd)
    BY <1>1, <1>7 DEF WriteAll, fd
  <2>2. obj' \in [Fds -> Object]
    BY <1>0, <2>1, AfterSendType
  <2>3. worker' \in [Workers -> PCs]
    BY <1>2, <1>3, <1>7 DEF WriteAll, WorkerPCs
  <2> QED
    BY <1>0, <1>7, <2>1, <2>2, <2>3, SendAllType DEF WriteAll
<1>8. CASE WriteRest(w)
  <2>1. fd \in Fds /\ obj[fd] \in Object
    BY <1>1, <1>8 DEF WriteRest
  <2>2. obj' \in [Fds -> Object]
    <3>1. CASE \E o \in AfterPart(fd) : obj' = [obj EXCEPT ![fd] = [o EXCEPT !.improv = TRUE]]
      <4>1. PICK o \in AfterPart(fd) : obj' = [obj EXCEPT ![fd] = [o EXCEPT !.improv = TRUE]]
        BY <3>1
      <4>2. [o EXCEPT !.improv = TRUE] \in Object
        BY <1>0, <2>1, AfterPartType
      <4> QED
        BY <1>0, <4>1, <4>2
    <3>2. CASE obj' = [obj EXCEPT ![fd] = [Fresh(obj[fd]) EXCEPT !.improv = TRUE]]
      BY <1>0, <2>1, <3>2, ObjectFields
    <3>3. CASE obj' = [obj EXCEPT ![fd] = [obj[fd] EXCEPT !.improv = TRUE]]
      BY <1>0, <2>1, <3>3, ObjectFields
    <3> QED
      BY <1>0, <1>8, <2>1, <3>1, <3>2, <3>3 DEF WriteRest, Failed, fd
  <2>3. armed' \in [Fds -> {"none", "in", "out"}]
    BY <1>0, <1>8, <2>1, RearmType DEF WriteRest, SendPart, SendNothing, fd
  <2>4. worker' \in [Workers -> PCs]
    BY <1>2, <1>3, <1>8 DEF WriteRest, WorkerPCs
  <2> QED
    BY <1>0, <1>8, <2>2, <2>3, <2>4 DEF WriteRest
<1>9. CASE WriteForever(w)
  <2>1. worker' \in [Workers -> PCs]
    BY <1>2, <1>9 DEF WriteForever, WorkerPCs
  <2> QED
    BY <1>0, <1>9, <2>1 DEF WriteForever
<1>10. CASE SetTimerFlag(w)
  <2>1. obj' = [obj EXCEPT ![fd] = [obj[fd] EXCEPT !.flag = TRUE]] /\ fd \in Fds /\ obj[fd] \in Object
    BY <1>0, <1>1, <1>10 DEF SetTimerFlag, fd
  <2>2. obj' \in [Fds -> Object]
    BY <1>0, <2>1, ObjectFields
  <2> QED
    BY <1>0, <1>3, <1>10, <2>2 DEF SetTimerFlag
<1>11. CASE NeedMore(w)
  <2>1. armed' \in [Fds -> {"none", "in", "out"}]
    BY <1>0, <1>1, <1>11, RearmType DEF NeedMore, fd
  <2> QED
    BY <1>0, <1>3, <1>11, <2>1 DEF NeedMore
<1>12. CASE Parse(w)
  <2>1. PICK b \in BOOLEAN : obj' = [obj EXCEPT ![fd] = [obj[fd] EXCEPT !.linger = b]]
    BY <1>12 DEF Parse, fd
  <2>2. fd \in Fds /\ obj[fd] \in Object
    BY <1>1, <1>12 DEF Parse
  <2>3. obj' \in [Fds -> Object]
    BY <1>0, <2>1, <2>2, ObjectFields
  <2>4. worker' \in [Workers -> PCs]
    <3>1. obj[fd].of \in 0..MaxConns
      BY <2>2 DEF Object
    <3>2. worker' = [worker EXCEPT ![w] = [worker[w] EXCEPT !.pc = "infer", !.of = obj[fd].of]]
      BY <1>0, <1>12 DEF Parse, fd
    <3>3. [worker[w] EXCEPT !.pc = "infer", !.of = obj[fd].of] \in PCs
      BY <1>0, <3>1 DEF WorkerPCs
    <3> QED
      BY <1>0, <3>2, <3>3
  <2> QED
    BY <1>0, <1>12, <2>3, <2>4 DEF Parse
<1>13. CASE Respond(w)
  <2>1. obj' = [obj EXCEPT ![fd] = [obj[fd] EXCEPT !.answer = worker[w].of]]
        /\ fd \in Fds /\ obj[fd] \in Object
    BY <1>0, <1>1, <1>13 DEF Respond, fd
  <2>2. obj' \in [Fds -> Object]
    BY <1>0, <2>1, ObjectFields
  <2>3. armed' \in [Fds -> {"none", "in", "out"}]
    BY <1>0, <1>1, <1>13, RearmType DEF Respond, fd
  <2> QED
    BY <1>0, <1>3, <1>13, <2>2, <2>3 DEF Respond
<1>14. CASE Throw(w)
  <2>1. fd \in Fds /\ obj[fd] \in Object /\ Rests(w) /\ mishap' = mishap \cup {"thrown"}
        /\ UNCHANGED <<reactor, alarm, listenVars, reply, timerVars, conns, workq, main>>
    BY <1>1, <1>14 DEF Throw
  <2>2. CASE obj[fd].attached
    <3>1. CloseSockets({fd}) /\ users' = users - 1
          /\ obj' = [obj EXCEPT ![fd] = [obj[fd] EXCEPT !.attached = FALSE]]
      BY <1>0, <1>14, <2>2 DEF Throw, fd
    <3>2. obj' \in [Fds -> Object]
      BY <1>0, <2>1, <3>1, ObjectFields
    <3>3. users' \in Int
      BY <1>0, <3>1
    <3> QED
      BY <1>0, <1>3, <2>1, <3>1, <3>2, <3>3, ClosedType
  <2>3. CASE ~obj[fd].attached
    <3>1. UNCHANGED <<sockVars, asked, requests, users, obj>>
      BY <1>14, <2>3 DEF Throw, fd
    <3> QED
      BY <1>0, <1>3, <2>1, <3>1
  <2> QED
    BY <2>2, <2>3
<1> QED
  BY <1>4, <1>5, <1>6, <1>7, <1>8, <1>9, <1>10, <1>11, <1>12, <1>13, <1>14 DEF Work

LEMMA TypeStep ==
  ASSUME LoopInv, [Next]_vars PROVE TypeOK'
<1>1. CASE UNCHANGED vars
  BY <1>1 DEF LoopInv, TypeOK
<1> QED
  BY <1>1, TypeOutside, TypeListen, TypeEvents, TypeSpin, TypeTick, TypeWorkers DEF Next

\* A thread has a descriptor exactly while it is not idle, and the main thread while it spins.
LEMMA PlacesStep ==
  ASSUME LoopInv, [Next]_vars PROVE WorkersAt' /\ MainAt'
<1>0. TypeOK /\ TypeOK' /\ WorkersAt /\ MainAt
  BY TypeStep DEF LoopInv
<1>1. ASSUME UNCHANGED worker PROVE WorkersAt'
  BY <1>0, <1>1 DEF WorkersAt
<1>2. ASSUME UNCHANGED main PROVE MainAt'
  BY <1>0, <1>2 DEF MainAt
<1>3. ASSUME main'.pc \notin {"spin", "flag"} PROVE MainAt'
  BY <1>3 DEF MainAt
<1>4. ASSUME NEW w \in Workers, Rests(w) PROVE WorkersAt'
  BY <1>0, <1>4 DEF Rests, WorkersAt, TypeOK
<1>5. ASSUME NEW w \in Workers, NEW pc \in WorkerPCs \ {"idle"}, Goes(w, pc), worker[w].pc # "idle"
      PROVE  WorkersAt'
  BY <1>0, <1>5 DEF Goes, WorkersAt, TypeOK
<1>6. CASE UNCHANGED vars
  BY <1>1, <1>2, <1>6
<1>7. CASE Connect \/ SigAlrm \/ DealWithSignal
  BY <1>1, <1>2, <1>7 DEF Connect, SigAlrm, DealWithSignal
<1>8. ASSUME NEW fd \in Fds, Send(fd) \/ HangUp(fd) PROVE WorkersAt' /\ MainAt'
  BY <1>1, <1>2, <1>8 DEF Send, HangUp
<1>9. CASE Listen \/ AcceptFails
  <2>1. CASE EdgeEvent
    BY <1>1, <1>3, <2>1 DEF EdgeEvent
  <2>2. CASE Refuse
    BY <1>1, <1>3, <2>2 DEF Refuse
  <2>3. CASE AcceptFails
    BY <1>1, <1>3, <2>3 DEF AcceptFails
  <2>4. ASSUME NEW fd \in Fds, DealClientData(fd) PROVE WorkersAt' /\ MainAt'
    BY <1>1, <1>2, <2>4 DEF DealClientData, AcceptsOn
  <2> QED
    BY <1>9, <2>1, <2>2, <2>3, <2>4 DEF Listen
<1>10. ASSUME NEW fd \in Fds, EventOn(fd) \/ ProactorSendAll(fd) \/ ProactorSendForever(fd)
       PROVE  WorkersAt' /\ MainAt'
  <2>1. CASE DealWithHangUp(fd)
    BY <1>1, <1>2, <2>1 DEF DealWithHangUp
  <2>2. CASE ProactorRead(fd)
    BY <1>1, <1>2, <2>2 DEF ProactorRead
  <2>3. CASE ProactorSendAll(fd)
    BY <1>1, <1>2, <2>3 DEF ProactorSendAll
  <2>4. CASE ProactorSendRest(fd)
    BY <1>1, <1>2, <2>4 DEF ProactorSendRest
  <2>5. CASE ProactorSendForever(fd)
    BY <1>1, <1>3, <2>5 DEF ProactorSendForever
  <2>6. ASSUME NEW ev, NEW s, ReactorAppend(fd, ev, s) PROVE WorkersAt' /\ MainAt'
    <3>1. main'.fd \in Fds /\ UNCHANGED worker
      BY <2>6 DEF ReactorAppend
    <3> QED
      BY <1>1, <3>1 DEF MainAt
  <2> QED
    BY <1>10, <2>1, <2>2, <2>3, <2>4, <2>5, <2>6 DEF EventOn
<1>11. CASE Spin
  <2>1. CASE SpinEnd
    <3>1. main' = [main EXCEPT !.pc = "flag"] /\ main.pc = "spin" /\ UNCHANGED worker
      BY <2>1 DEF SpinEnd
    <3>2. main'.fd = main.fd
      BY <1>0, <3>1 DEF TypeOK
    <3> QED
      BY <1>0, <1>1, <3>1, <3>2 DEF MainAt
  <2>2. CASE ReadFlag
    BY <1>1, <1>3, <2>2 DEF ReadFlag
  <2> QED
    BY <1>11, <2>1, <2>2 DEF Spin
<1>12. CASE TimerHandler
  BY <1>1, <1>2, <1>12 DEF TimerHandler
<1>13. ASSUME NEW w \in Workers, Take(w) \/ Work(w) \/ WriteAll(w) \/ WriteForever(w) \/ Throw(w)
       PROVE  WorkersAt' /\ MainAt'
  <2>0. UNCHANGED main
    BY <1>13 DEF Take, Work, Read, ReadFailure, WriteAll, WriteRest, WriteForever, SetTimerFlag,
                 NeedMore, Parse, Respond, Throw
  <2>1. CASE Take(w)
    <3>1. /\ workq # << >> /\ worker'[w].fd = Head(workq) /\ worker'[w].pc # "idle"
          /\ \A v \in Workers \ {w} : worker'[v] = worker[v]
      BY <1>0, <2>1 DEF Take, TypeOK
    <3>2. Head(workq) # Null
      <4>1. workq \in Seq(Fds)
        BY <1>0 DEF TypeOK
      <4> QED
        BY <3>1, <4>1, NullFacts
    <3> QED
      BY <1>0, <1>2, <2>0, <3>1, <3>2 DEF WorkersAt
  <2>2. CASE Read(w) \/ ReadFailure(w) \/ WriteForever(w)
    <3>1. \E pc \in WorkerPCs \ {"idle"} : Goes(w, pc)
      BY <2>2 DEF Read, ReadFailure, WriteForever, WorkerPCs
    <3>2. worker[w].pc # "idle"
      BY <2>2 DEF Read, ReadFailure, WriteForever
    <3> QED
      BY <1>2, <1>5, <2>0, <3>1, <3>2
  <2>3. CASE WriteAll(w) \/ WriteRest(w)
    <3>1. worker[w].pc # "idle" /\ "flag" \in WorkerPCs \ {"idle"}
      BY <2>3 DEF WriteAll, WriteRest, WorkerPCs
    <3>2. Rests(w) \/ Goes(w, "flag")
      BY <2>3 DEF WriteAll, WriteRest
    <3> QED
      BY <1>2, <1>4, <1>5, <2>0, <3>1, <3>2
  <2>4. CASE SetTimerFlag(w) \/ NeedMore(w) \/ Respond(w) \/ Throw(w)
    <3>1. Rests(w)
      BY <2>4 DEF SetTimerFlag, NeedMore, Respond, Throw
    <3> QED
      BY <1>2, <1>4, <2>0, <3>1
  <2>5. CASE Parse(w)
    <3>1. /\ worker[w].pc = "process" /\ worker'[w].pc = "infer" /\ worker'[w].fd = worker[w].fd
          /\ \A v \in Workers \ {w} : worker'[v] = worker[v]
      BY <1>0, <2>5 DEF Parse, TypeOK
    <3> QED
      BY <1>0, <1>2, <2>0, <3>1 DEF WorkersAt
  <2> QED
    BY <1>13, <2>1, <2>2, <2>3, <2>4, <2>5 DEF Work
<1> QED
  BY <1>6, <1>7, <1>8, <1>9, <1>10, <1>11, <1>12, <1>13 DEF Next

\* What a client has sent and the gateway has not read.
LEMMA Sent ==
  ASSUME LoopInv, NEW fd \in Fds
  PROVE  /\ inbox[fd] \in Nat /\ requests[fd] \in Nat /\ asked[fd] \in 0..Pieces
         /\ requests[fd] * Pieces \in Nat
         /\ inbox[fd] <= requests[fd] * Pieces + asked[fd]
         /\ (requests[fd] + 1) * Pieces = requests[fd] * Pieces + Pieces
<1>1. /\ inbox[fd] \in Nat /\ requests[fd] \in Nat /\ asked[fd] \in 0..Pieces
      /\ inbox[fd] <= requests[fd] * Pieces + asked[fd]
  BY BoundType DEF LoopInv, TypeOK, BytesSent
<1>2. \A a, b \in Nat : a * b \in Nat /\ (a + 1) * b = a * b + b
  OBVIOUS
<1> QED
  BY <1>1, <1>2, Numbers, Zenon

LEMMA BytesKept ==
  ASSUME LoopInv, UNCHANGED <<requests, asked>>, \A fd \in Fds : inbox'[fd] \in {0, inbox[fd]}
  PROVE  BytesSent'
<1> SUFFICES ASSUME NEW fd \in Fds PROVE inbox'[fd] <= requests[fd] * Pieces + asked[fd]
  BY DEF BytesSent
<1> DEFINE n == requests[fd] * Pieces
<1>1. n \in Nat /\ inbox[fd] \in Nat /\ asked[fd] \in Nat /\ inbox[fd] <= n + asked[fd]
  BY Sent, Numbers
<1> HIDE DEF n
<1> QED
  BY <1>1 DEF n

LEMMA BytesClosed ==
  ASSUME LoopInv, NEW fds, CloseSockets(fds) PROVE BytesSent'
<1> SUFFICES ASSUME NEW fd \in Fds PROVE inbox'[fd] <= requests'[fd] * Pieces + asked'[fd]
  BY DEF BytesSent
<1>1. CASE fd \in fds
  <2>1. inbox'[fd] = 0 /\ requests'[fd] = 0 /\ asked'[fd] = 0 /\ 0 * Pieces = 0
    BY <1>1, Numbers DEF CloseSockets
  <2> QED
    BY <2>1
<1>2. CASE fd \notin fds
  BY <1>2, Sent DEF CloseSockets
<1> QED
  BY <1>1, <1>2

LEMMA BytesAnswered ==
  ASSUME LoopInv, NEW fd \in Fds, SendAll(fd), UNCHANGED inbox PROVE BytesSent'
<1> SUFFICES ASSUME NEW f \in Fds PROVE inbox[f] <= requests'[f] * Pieces + asked'[f]
  BY DEF BytesSent
<1>1. CASE f = fd
  <2> DEFINE n == requests[fd] * Pieces
  <2>1. requests'[f] = requests[fd] + 1 /\ asked'[f] = 0 /\ requests'[f] * Pieces = n + Pieces
    <3>1. requests'[f] = requests[fd] + 1 /\ asked'[f] = 0
      BY <1>1 DEF SendAll, LoopInv, TypeOK
    <3> QED
      BY <3>1, Sent
  <2>2. n \in Nat /\ inbox[f] \in Nat /\ asked[fd] \in Nat /\ asked[fd] <= Pieces /\ inbox[f] <= n + asked[fd]
    BY <1>1, Sent, Numbers
  <2> HIDE DEF n
  <2> QED
    BY <2>1, <2>2, Numbers
<1>2. CASE f # fd
  BY <1>2, Sent DEF SendAll, LoopInv, TypeOK
<1> QED
  BY <1>1, <1>2

\* A client never has more bytes on their way than its requests so far are long.
LEMMA BytesStep ==
  ASSUME LoopInv, [Next]_vars PROVE BytesSent'
<1>0. TypeOK
  BY DEF LoopInv
<1>1. ASSUME UNCHANGED <<requests, asked, inbox>> PROVE BytesSent'
  BY <1>1, BytesKept
<1>2. ASSUME NEW fd \in Fds, DealTimer(fd) PROVE BytesSent'
  BY <1>2, BytesClosed DEF DealTimer
<1>3. CASE UNCHANGED vars
  BY <1>1, <1>3
<1>4. CASE Connect \/ SigAlrm \/ DealWithSignal
  BY <1>1, <1>4 DEF Connect, SigAlrm, DealWithSignal
<1>5. ASSUME NEW fd \in Fds, Send(fd) PROVE BytesSent'
  <2> SUFFICES ASSUME NEW f \in Fds PROVE inbox'[f] <= requests[f] * Pieces + asked'[f]
    BY <1>5 DEF BytesSent, Send
  <2>1. /\ f = fd => inbox'[f] = inbox[f] + 1 /\ asked'[f] = asked[f] + 1
        /\ f # fd => inbox'[f] = inbox[f] /\ asked'[f] = asked[f]
    BY <1>0, <1>5 DEF Send, TypeOK
  <2> DEFINE n == requests[f] * Pieces
  <2>2. n \in Nat /\ inbox[f] \in Nat /\ asked[f] \in Nat /\ inbox[f] <= n + asked[f]
    BY Sent, Numbers
  <2> HIDE DEF n
  <2> QED
    BY <2>1, <2>2 DEF n
<1>6. ASSUME NEW fd \in Fds, HangUp(fd) PROVE BytesSent'
  BY <1>1, <1>6 DEF HangUp
<1>7. CASE Listen \/ AcceptFails
  BY <1>1, <1>7 DEF Listen, EdgeEvent, Refuse, AcceptFails, DealClientData
<1>8. ASSUME NEW fd \in Fds, EventOn(fd) \/ ProactorSendAll(fd) \/ ProactorSendForever(fd)
      PROVE  BytesSent'
  <2>1. CASE DealWithHangUp(fd)
    BY <1>2, <2>1 DEF DealWithHangUp
  <2>2. CASE ProactorRead(fd)
    <3>1. inbox' = [inbox EXCEPT ![fd] = 0] /\ UNCHANGED <<requests, asked>>
      BY <2>2 DEF ProactorRead, ReadOnce
    <3> QED
      BY <1>0, <3>1, BytesKept DEF TypeOK
  <2>3. CASE ProactorSendAll(fd) /\ obj[fd].linger
    BY <2>3, BytesAnswered DEF ProactorSendAll
  <2>4. CASE ProactorSendAll(fd) /\ ~obj[fd].linger
    BY <1>2, <2>4 DEF ProactorSendAll
  <2>5. CASE ProactorSendRest(fd) \/ ProactorSendForever(fd)
    BY <1>1, <2>5 DEF ProactorSendRest, ProactorSendForever
  <2>6. ASSUME NEW ev, NEW s, ReactorAppend(fd, ev, s) PROVE BytesSent'
    BY <1>1, <2>6 DEF ReactorAppend
  <2> QED
    BY <1>8, <2>1, <2>2, <2>3, <2>4, <2>5, <2>6 DEF EventOn
<1>9. CASE Spin
  <2>1. CASE SpinEnd
    BY <1>1, <2>1 DEF SpinEnd
  <2>2. CASE ReadFlag
    <3>1. main.fd \in Fds
      BY <2>2 DEF ReadFlag, LoopInv, MainAt
    <3> QED
      BY <1>1, <1>2, <2>2, <3>1 DEF ReadFlag
  <2> QED
    BY <1>9, <2>1, <2>2 DEF Spin
<1>10. CASE TimerHandler
  BY <1>10, BytesClosed DEF TimerHandler
<1>11. ASSUME NEW w \in Workers, Take(w) \/ Work(w) \/ WriteAll(w) \/ WriteForever(w) \/ Throw(w)
       PROVE  BytesSent'
  <2>0. worker[w].pc # "idle" => worker[w].fd \in Fds
    BY <1>0 DEF LoopInv, WorkersAt, TypeOK
  <2>1. CASE Read(w)
    <3>1. inbox' = [inbox EXCEPT ![worker[w].fd] = 0] /\ UNCHANGED <<requests, asked>>
      BY <2>1 DEF Read, ReadOnce
    <3> QED
      BY <1>0, <3>1, BytesKept DEF TypeOK
  <2>2. CASE WriteAll(w)
    BY <2>0, <2>2, BytesAnswered DEF WriteAll
  <2>3. CASE Throw(w)
    BY <1>1, <2>3, BytesClosed DEF Throw
  <2>4. CASE Take(w) \/ ReadFailure(w) \/ WriteForever(w) \/ SetTimerFlag(w) \/ Parse(w)
    BY <1>1, <2>4 DEF Take, ReadFailure, WriteForever, SetTimerFlag, Parse
  <2>5. CASE WriteRest(w) \/ NeedMore(w) \/ Respond(w)
    BY <1>1, <2>5 DEF WriteRest, NeedMore, Respond
  <2> QED
    BY <1>11, <2>1, <2>2, <2>3, <2>4, <2>5 DEF Work
<1> QED
  BY <1>3, <1>4, <1>5, <1>6, <1>7, <1>8, <1>9, <1>10, <1>11 DEF Next

-----------------------------------------------------------------------------
(* Timers and sockets *)

\* What every step but an accepted connection does to sockets and timers: it opens nothing and
\* makes no timer, and an open socket keeps its timer.
OpensNothing ==
  /\ utimer' = utimer /\ conns' >= conns
  /\ \A fd \in Fds : sock'[fd] # 0 => sock'[fd] = sock[fd] /\ timer'[sock[fd]] # Null
  /\ \A fd \in Fds : armed'[fd] # "none" => sock'[fd] # 0
  /\ \A c \in Conns : timer'[c] # Null => timer[c] # Null /\ timer'[c].fd = timer[c].fd

LEMMA TimersKept ==
  ASSUME LoopInv, OpensNothing, TypeOK' PROVE TimersInv'
<1>0. TypeOK /\ ArmedOpen /\ OwnTimer /\ TimerPlace /\ Numbered
  BY DEF LoopInv, TimersInv
<1>1. \A fd \in Fds : /\ sock[fd] # 0 => sock[fd] \in Conns
                      /\ utimer[fd] # 0 => utimer[fd] \in Conns
  BY <1>0, Connected DEF TypeOK
<1>2. ArmedOpen'
  BY DEF ArmedOpen, OpensNothing
<1>3. OwnTimer'
  BY <1>0, <1>1 DEF OwnTimer, OpensNothing
<1>4. TimerPlace'
  BY <1>0, <1>1 DEF TimerPlace, OpensNothing
<1>5. Numbered'
  <2>1. conns' >= conns /\ conns' \in Nat /\ conns \in Nat
    BY <1>0, Numbers DEF OpensNothing, TypeOK
  <2>2. \A fd \in Fds : sock'[fd] <= conns' /\ utimer'[fd] <= conns'
    <3> SUFFICES ASSUME NEW fd \in Fds PROVE sock'[fd] <= conns' /\ utimer'[fd] <= conns'
      OBVIOUS
    <3>1. sock[fd] \in Nat /\ utimer[fd] \in Nat /\ sock[fd] <= conns /\ utimer[fd] <= conns
      BY <1>0, Numbers DEF Numbered, TypeOK
    <3>2. utimer'[fd] = utimer[fd] /\ (sock'[fd] = 0 \/ sock'[fd] = sock[fd])
      BY DEF OpensNothing
    <3> QED
      BY <2>1, <3>1, <3>2
  <2>3. \A c \in Conns : c > conns' => timer'[c] = Null
    <3> SUFFICES ASSUME NEW c \in Conns, c > conns' PROVE timer'[c] = Null
      OBVIOUS
    <3>1. c > conns
      BY <2>1 DEF Conns
    <3> QED
      BY <1>0, <3>1 DEF Numbered, OpensNothing
  <2> QED
    BY <2>2, <2>3 DEF Numbered
<1> QED
  BY <1>2, <1>3, <1>4, <1>5 DEF TimersInv

LEMMA QuietTimers ==
  ASSUME LoopInv, UNCHANGED <<sock, timer, utimer, conns>>,
         \A fd \in Fds : armed'[fd] # "none" => armed[fd] # "none" \/ sock[fd] # 0
  PROVE  OpensNothing
<1>1. conns \in Nat
  BY Numbers DEF LoopInv, TypeOK
<1>2. conns >= conns
  BY <1>1
<1> QED
  BY <1>2 DEF LoopInv, TimersInv, ArmedOpen, OwnTimer, OpensNothing

LEMMA AdjustKeeps ==
  ASSUME LoopInv, NEW fd \in Fds, armed[fd] # "none", AdjustTimer(fd),
         UNCHANGED <<sock, utimer, conns>>,
         \A f \in Fds : armed'[f] # "none" => armed[f] # "none" \/ sock[f] # 0
  PROVE  OpensNothing
<1>1. conns \in Nat /\ \A f \in Fds : sock[f] # 0 => sock[f] \in Conns
  BY Connected, Numbers DEF LoopInv, TypeOK
<1>2. conns >= conns
  BY <1>1
<1>3. \A c \in Conns : (timer'[c] = Null <=> timer[c] = Null) /\ timer'[c].fd = timer[c].fd
  BY AdjustType
<1> QED
  BY <1>1, <1>2, <1>3 DEF LoopInv, TimersInv, ArmedOpen, OwnTimer, OpensNothing

\* deal_timer frees no timer but that of the descriptor it closes.
LEMMA DealTimerKeeps ==
  ASSUME LoopInv, NEW fd \in Fds, DealTimer(fd), UNCHANGED <<utimer, conns>>
  PROVE  OpensNothing
<1>0. TypeOK /\ ArmedOpen /\ OwnTimer /\ TimerPlace
  BY DEF LoopInv, TimersInv
<1>1. conns \in Nat /\ \A f \in Fds : sock[f] # 0 => sock[f] \in Conns
  BY <1>0, Connected, Numbers DEF TypeOK
<1>2. conns >= conns
  BY <1>1
<1>3. /\ timer' = [timer EXCEPT ![utimer[fd]] = Null]
      /\ \A f \in Fds : /\ sock'[f] = IF f = fd THEN 0 ELSE sock[f]
                        /\ armed'[f] = IF f = fd THEN "none" ELSE armed[f]
  BY <1>0 DEF DealTimer, CloseSockets, TimerAt
<1>4. ASSUME NEW f \in Fds, sock'[f] # 0 PROVE sock'[f] = sock[f] /\ timer'[sock[f]] # Null
  <2>1. f # fd /\ sock'[f] = sock[f] /\ sock[f] # 0
    BY <1>3, <1>4
  <2>2. sock[f] \in Conns /\ timer[sock[f]] # Null /\ timer[sock[f]].fd = f
    BY <1>0, <1>1, <2>1 DEF OwnTimer
  <2>3. utimer[fd] # sock[f]
    BY <1>0, <2>1, <2>2 DEF TimerPlace
  <2> QED
    BY <1>0, <1>3, <2>1, <2>2, <2>3 DEF TypeOK
<1>5. \A c \in Conns : timer'[c] # Null => timer[c] # Null /\ timer'[c].fd = timer[c].fd
  BY <1>0, <1>3 DEF TypeOK
<1> QED
  BY <1>0, <1>2, <1>3, <1>4, <1>5 DEF OpensNothing, ArmedOpen

\* A tick frees the timers of exactly the descriptors it closes.
LEMMA TickKeeps ==
  ASSUME LoopInv, NEW cs \in SUBSET Conns, Expired(cs),
         CloseSockets({timer[c].fd : c \in cs}),
         timer' = [c \in Conns |-> IF c \in Live \ cs THEN [timer[c] EXCEPT !.age = @ + 1] ELSE Null],
         UNCHANGED <<utimer, conns>>
  PROVE  OpensNothing
<1>0. TypeOK /\ ArmedOpen /\ OwnTimer
  BY DEF LoopInv, TimersInv
<1>1. conns \in Nat /\ \A f \in Fds : sock[f] # 0 => sock[f] \in Conns
  BY <1>0, Connected, Numbers DEF TypeOK
<1>2. conns >= conns
  BY <1>1
<1> DEFINE closed == {timer[c].fd : c \in cs}
<1>3. \A f \in Fds : /\ sock'[f] = IF f \in closed THEN 0 ELSE sock[f]
                     /\ armed'[f] = IF f \in closed THEN "none" ELSE armed[f]
  BY DEF CloseSockets
<1>4. \A c \in Conns : timer'[c] # Null => c \in Live \ cs
  OBVIOUS
<1>5. \A c \in Live \ cs : timer'[c] # Null /\ timer'[c].fd = timer[c].fd
  BY <1>0, AgedType, NullFacts DEF Live
<1>6. ASSUME NEW f \in Fds, sock'[f] # 0 PROVE sock'[f] = sock[f] /\ timer'[sock[f]] # Null
  <2>1. f \notin closed /\ sock'[f] = sock[f] /\ sock[f] # 0
    BY <1>3, <1>6
  <2>2. sock[f] \in Live /\ timer[sock[f]].fd = f
    BY <1>0, <1>1, <2>1 DEF OwnTimer, Live
  <2> QED
    BY <1>5, <2>1, <2>2
<1>7. \A f \in Fds : armed'[f] # "none" => sock'[f] # 0
  BY <1>0, <1>3 DEF ArmedOpen
<1>8. \A c \in Conns : timer'[c] # Null => timer[c] # Null /\ timer'[c].fd = timer[c].fd
  BY <1>4, <1>5 DEF Live
<1> QED
  BY <1>2, <1>6, <1>7, <1>8 DEF OpensNothing

LEMMA ThrowKeeps ==
  ASSUME LoopInv, NEW fd \in Fds, CloseSockets({fd}), UNCHANGED <<timer, utimer, conns>>
  PROVE  OpensNothing
<1>0. TypeOK /\ ArmedOpen /\ OwnTimer
  BY DEF LoopInv, TimersInv
<1>1. conns \in Nat
  BY <1>0, Numbers DEF TypeOK
<1>2. conns >= conns
  BY <1>1
<1> QED
  BY <1>0, <1>2 DEF OpensNothing, CloseSockets, ArmedOpen, OwnTimer

\* Every step but an accepted connection.
LEMMA StepsOpenNothing ==
  ASSUME LoopInv, [Next]_vars, \A fd \in Fds : ~DealClientData(fd) PROVE OpensNothing
<1>0. TypeOK
  BY DEF LoopInv
<1>1. ASSUME UNCHANGED <<sock, timer, utimer, conns, armed>> PROVE OpensNothing
  BY <1>1, QuietTimers
<1>2. \A fd \in Fds : armed' = Disarmed(fd) => \A f \in Fds : armed'[f] # "none" => armed[f] # "none"
  BY <1>0 DEF Disarmed, TypeOK
<1>3. ASSUME NEW fd \in Fds, NEW ev \in {"in", "out"}, Rearm(fd, ev)
      PROVE  \A f \in Fds : armed'[f] # "none" => armed[f] # "none" \/ sock[f] # 0
  BY <1>0, <1>3, RearmType
<1>4. CASE UNCHANGED vars
  BY <1>1, <1>4
<1>5. CASE Connect \/ SigAlrm \/ DealWithSignal
  BY <1>1, <1>5 DEF Connect, SigAlrm, DealWithSignal
<1>6. ASSUME NEW fd \in Fds, Send(fd) \/ HangUp(fd) PROVE OpensNothing
  BY <1>1, <1>6 DEF Send, HangUp
<1>7. CASE Listen \/ AcceptFails
  <2>1. CASE EdgeEvent \/ AcceptFails
    BY <1>1, <2>1 DEF EdgeEvent, AcceptFails
  <2>2. CASE Refuse
    <3>1. conns' = conns + 1 /\ conns \in Nat /\ UNCHANGED <<sock, timer, utimer, armed>>
      BY <1>0, <2>2, Numbers DEF Refuse, TypeOK
    <3>2. conns' >= conns
      BY <3>1
    <3> QED
      BY <3>1, <3>2 DEF OpensNothing, LoopInv, TimersInv, ArmedOpen, OwnTimer
  <2> QED
    BY <1>7, <2>1, <2>2 DEF Listen
<1>8. ASSUME NEW fd \in Fds, EventOn(fd) \/ ProactorSendAll(fd) \/ ProactorSendForever(fd)
      PROVE  OpensNothing
  <2>1. CASE DealWithHangUp(fd)
    BY <2>1, DealTimerKeeps DEF DealWithHangUp
  <2>2. CASE ProactorRead(fd)
    BY <1>2, <2>2, AdjustKeeps DEF ProactorRead, Event
  <2>3. CASE ProactorSendAll(fd) /\ obj[fd].linger
    <3>1. SendAll(fd) /\ AdjustTimer(fd) /\ UNCHANGED <<sock, utimer, conns>> /\ armed[fd] # "none"
      BY <2>3 DEF ProactorSendAll, Event
    <3>2. Rearm(fd, "in")
      BY <3>1 DEF SendAll
    <3> QED
      BY <1>3, <3>1, <3>2, AdjustKeeps
  <2>4. CASE ProactorSendAll(fd) /\ ~obj[fd].linger
    BY <2>4, DealTimerKeeps DEF ProactorSendAll
  <2>5. CASE ProactorSendRest(fd)
    <3>1. Rearm(fd, "out") \/ Rearm(fd, "in")
      BY <2>5 DEF ProactorSendRest, SendPart, SendNothing
    <3> QED
      BY <1>3, <2>5, <3>1, AdjustKeeps DEF ProactorSendRest, Event
  <2>6. CASE ProactorSendForever(fd)
    BY <1>2, <2>6, QuietTimers DEF ProactorSendForever
  <2>7. ASSUME NEW ev \in {"in", "out"}, NEW s, ReactorAppend(fd, ev, s) PROVE OpensNothing
    BY <1>2, <2>7, AdjustKeeps DEF ReactorAppend, Event
  <2> QED
    BY <1>8, <2>1, <2>2, <2>3, <2>4, <2>5, <2>6, <2>7 DEF EventOn
<1>9. CASE Spin
  <2>1. CASE SpinEnd
    BY <1>1, <2>1 DEF SpinEnd
  <2>2. CASE ReadFlag
    <3>1. main.fd \in Fds
      BY <2>2 DEF ReadFlag, LoopInv, MainAt
    <3> QED
      BY <1>1, <2>2, <3>1, DealTimerKeeps DEF ReadFlag
  <2> QED
    BY <1>9, <2>1, <2>2 DEF Spin
<1>10. CASE TimerHandler
  BY <1>10, TickKeeps DEF TimerHandler
<1>11. ASSUME NEW w \in Workers, Take(w) \/ Work(w) \/ WriteAll(w) \/ WriteForever(w) \/ Throw(w)
       PROVE  OpensNothing
  <2>0. worker[w].pc # "idle" => worker[w].fd \in Fds
    BY <1>0 DEF LoopInv, WorkersAt, TypeOK
  <2>1. CASE Take(w) \/ Read(w) \/ ReadFailure(w) \/ WriteForever(w) \/ SetTimerFlag(w) \/ Parse(w)
    BY <1>1, <2>1 DEF Take, Read, ReadFailure, WriteForever, SetTimerFlag, Parse
  <2>2. CASE WriteAll(w) \/ NeedMore(w) \/ Respond(w)
    <3>1. worker[w].fd \in Fds /\ UNCHANGED <<sock, timer, utimer, conns>>
      BY <2>0, <2>2 DEF WriteAll, NeedMore, Respond
    <3>2. \E ev \in {"in", "out"} : Rearm(worker[w].fd, ev)
      BY <2>2 DEF WriteAll, SendAll, NeedMore, Respond
    <3> QED
      BY <1>3, <3>1, <3>2, QuietTimers
  <2>3. CASE WriteRest(w)
    <3>1. worker[w].fd \in Fds /\ UNCHANGED <<sock, timer, utimer, conns>>
      BY <2>0, <2>3 DEF WriteRest
    <3>2. Rearm(worker[w].fd, "in") \/ Rearm(worker[w].fd, "out") \/ UNCHANGED armed
      BY <2>3 DEF WriteRest, SendPart, SendNothing
    <3> QED
      BY <1>1, <1>3, <3>1, <3>2, QuietTimers
  <2>4. CASE Throw(w)
    <3>1. worker[w].fd \in Fds /\ UNCHANGED <<timer, utimer, conns>>
      BY <2>0, <2>4 DEF Throw
    <3>2. CloseSockets({worker[w].fd}) \/ UNCHANGED <<sock, armed>>
      BY <2>4 DEF Throw
    <3> QED
      BY <1>1, <3>1, <3>2, ThrowKeeps
  <2> QED
    BY <1>11, <2>1, <2>2, <2>3, <2>4 DEF Work
<1> QED
  BY <1>4, <1>5, <1>6, <1>7, <1>8, <1>9, <1>10, <1>11 DEF Next

\* An accepted connection gets a descriptor that is closed and a timer of its own.
LEMMA AcceptKeeps ==
  ASSUME LoopInv, NEW fd \in Fds, DealClientData(fd) PROVE TimersInv'
<1> DEFINE n == conns + 1
<1>0. TypeOK /\ ArmedOpen /\ OwnTimer /\ TimerPlace /\ Numbered
  BY DEF LoopInv, TimersInv
<1>1. n \in Conns /\ n # 0 /\ conns \in Nat /\ n = conns + 1
  <2>1. backlog > 0
    BY DEF DealClientData
  <2>2. conns \in Nat
    BY <1>0, Numbers DEF TypeOK
  <2> QED
    BY <1>0, <2>1, <2>2, AcceptNumbers
<1>2. /\ sock[fd] = 0 /\ conns' = n
      /\ sock' = [sock EXCEPT ![fd] = n] /\ armed' = [armed EXCEPT ![fd] = "in"]
      /\ timer' = [timer EXCEPT ![n] = [fd |-> fd, age |-> 0]] /\ utimer' = [utimer EXCEPT ![fd] = n]
  BY DEF DealClientData, SetTimer
<1> HIDE DEF n
<1>3. [fd |-> fd, age |-> 0] # Null
  BY NullFacts, Numbers DEF Timer
<1>4. \A f \in Fds : sock[f] # n /\ utimer[f] # n
  <2> SUFFICES ASSUME NEW f \in Fds PROVE sock[f] # n /\ utimer[f] # n
    OBVIOUS
  <2>1. sock[f] \in Nat /\ utimer[f] \in Nat /\ sock[f] <= conns /\ utimer[f] <= conns
    BY <1>0, Numbers DEF TypeOK, Numbered
  <2> QED
    BY <1>1, <2>1
<1>5. \A f \in Fds : (sock[f] # 0 => sock[f] \in Conns) /\ (utimer[f] # 0 => utimer[f] \in Conns)
  BY <1>0, Connected DEF TypeOK
<1>6. ArmedOpen'
  BY <1>0, <1>1, <1>2 DEF ArmedOpen, TypeOK
<1>7. OwnTimer'
  <2> SUFFICES ASSUME NEW f \in Fds, sock'[f] # 0
               PROVE  utimer'[f] = sock'[f] /\ timer'[sock'[f]] # Null /\ timer'[sock'[f]].fd = f
    BY DEF OwnTimer
  <2>1. CASE f = fd
    BY <1>0, <1>1, <1>2, <1>3, <2>1 DEF TypeOK
  <2>2. CASE f # fd
    <3>1. sock'[f] = sock[f] /\ utimer'[f] = utimer[f] /\ timer'[sock[f]] = timer[sock[f]]
      BY <1>0, <1>2, <1>4, <2>2 DEF TypeOK
    <3> QED
      BY <1>0, <3>1 DEF OwnTimer
  <2> QED
    BY <2>1, <2>2
<1>8. TimerPlace'
  <2> SUFFICES ASSUME NEW f \in Fds, utimer'[f] # 0, timer'[utimer'[f]] # Null
               PROVE  timer'[utimer'[f]].fd = f
    BY DEF TimerPlace
  <2>1. CASE f = fd
    BY <1>0, <1>1, <1>2, <2>1 DEF TypeOK
  <2>2. CASE f # fd
    <3>1. utimer'[f] = utimer[f] /\ timer'[utimer[f]] = timer[utimer[f]]
      BY <1>0, <1>2, <1>4, <1>5, <2>2 DEF TypeOK
    <3> QED
      BY <1>0, <3>1 DEF TimerPlace
  <2> QED
    BY <2>1, <2>2
<1>9. Numbered'
  <2>1. \A f \in Fds : sock'[f] <= conns' /\ utimer'[f] <= conns'
    <3> SUFFICES ASSUME NEW f \in Fds PROVE sock'[f] <= n /\ utimer'[f] <= n
      BY <1>2
    <3>1. sock[f] \in Nat /\ utimer[f] \in Nat /\ sock[f] <= conns /\ utimer[f] <= conns
      BY <1>0, Numbers DEF TypeOK, Numbered
    <3>2. sock'[f] \in {n, sock[f]} /\ utimer'[f] \in {n, utimer[f]}
      BY <1>0, <1>2 DEF TypeOK
    <3> QED
      BY <1>1, <3>1, <3>2
  <2>2. \A c \in Conns : c > conns' => timer'[c] = Null
    <3> SUFFICES ASSUME NEW c \in Conns, c > n PROVE timer'[c] = Null
      BY <1>2
    <3>1. c # n /\ c > conns
      BY <1>1 DEF Conns
    <3> QED
      BY <1>0, <1>2, <3>1 DEF Numbered, TypeOK
  <2> QED
    BY <2>1, <2>2 DEF Numbered
<1> QED
  BY <1>6, <1>7, <1>8, <1>9 DEF TimersInv

LEMMA LoopStep ==
  ASSUME LoopInv, [Next]_vars PROVE LoopInv'
<1>1. TypeOK' /\ WorkersAt' /\ MainAt' /\ BytesSent'
  BY TypeStep, PlacesStep, BytesStep
<1>2. TimersInv'
  BY <1>1, AcceptKeeps, StepsOpenNothing, TimersKept
<1> QED
  BY <1>1, <1>2 DEF LoopInv

LEMMA LoopAlways == Spec => []LoopInv
<1>1. Init => LoopInv
  BY InitInv
<1>2. LoopInv /\ [Next]_vars => LoopInv'
  BY LoopStep
<1> QED
  BY <1>1, <1>2, PTL DEF Spec

\* The state keeps its types whatever clients, threads and signals do: no client has more bytes
\* on their way than it can have sent, a timer that a tick spares is not yet too old, the queue
\* of the pool never exceeds m_max_requests, and more connections than came are never accepted.
THEOREM TypeCorrect == Spec => []TypeOK
<1>1. LoopInv => TypeOK
  BY DEF LoopInv
<1> QED
  BY <1>1, LoopAlways, PTL

\* users_timer[fd].timer, which nobody resets, is never read after its timer was freed: while a
\* descriptor is registered, the entry is the living timer of the connection that is on it, in
\* both actor models, with any number of descriptors and threads.
THEOREM TimersLive == Spec => []TimerAtLives
<1>1. LoopInv => TimerAtLives
  BY DEF LoopInv, TimersInv, ArmedOpen, OwnTimer, TimerAtLives
<1> QED
  BY <1>1, LoopAlways, PTL

-----------------------------------------------------------------------------
(* The number of users *)

OpenAtTimer == \A c \in Conns : timer[c] # Null => sock[timer[c].fd] = c
SpinsOpen   == main.pc \in {"spin", "flag"} => sock[main.fd] # 0
Accounted   == OpenAtTimer /\ SpinsOpen /\ UsersExact
AccountInv  == LoopInv /\ (~Throws => Accounted)

OpenFds == {fd \in Fds : sock[fd] # 0}

LEMMA OpenFinite == IsFiniteSet(OpenFds) /\ IsFiniteSet(OpenFds')
  BY Numbers, FS_Subset DEF OpenFds

\* m_user_count and the timers agree with the sockets as long as neither changes.
LEMMA AccountKept ==
  ASSUME Accounted, UNCHANGED <<sock, users>>, SpinsOpen',
         \A c \in Conns : timer'[c] # Null => timer[c] # Null /\ timer'[c].fd = timer[c].fd
  PROVE  Accounted'
  BY DEF Accounted, OpenAtTimer, UsersExact

LEMMA AccountQuiet ==
  ASSUME Accounted, UNCHANGED <<sock, users, timer, main>> PROVE Accounted'
  BY AccountKept DEF Accounted, SpinsOpen

\* deal_timer, on an open connection, takes the connection, its timer and one from the count.
LEMMA AccountClosed ==
  ASSUME LoopInv, Accounted, NEW fd \in Fds, sock[fd] # 0, DealTimer(fd),
         main'.pc \notin {"spin", "flag"}
  PROVE  Accounted'
<1>0. TypeOK /\ OwnTimer
  BY DEF LoopInv, TimersInv
<1>1. utimer[fd] = sock[fd] /\ sock[fd] \in Conns
  BY <1>0, Connected DEF OwnTimer, TypeOK
<1>2. /\ timer' = [timer EXCEPT ![sock[fd]] = Null] /\ users' = users - 1
      /\ \A f \in Fds : sock'[f] = IF f = fd THEN 0 ELSE sock[f]
  BY <1>0, <1>1 DEF DealTimer, CloseSockets, TimerAt
<1>3. OpenAtTimer'
  <2> SUFFICES ASSUME NEW c \in Conns, timer'[c] # Null PROVE sock'[timer'[c].fd] = c
    BY DEF OpenAtTimer
  <2>1. c # sock[fd] /\ timer'[c] = timer[c]
    BY <1>0, <1>1, <1>2 DEF TypeOK
  <2>2. timer[c] # Null /\ timer[c].fd \in Fds /\ sock[timer[c].fd] = c
    BY <1>0, <2>1 DEF TypeOK, Timer, Accounted, OpenAtTimer
  <2> QED
    BY <1>2, <2>1, <2>2
<1>4. UsersExact'
  <2>1. OpenFds' = OpenFds \ {fd} /\ fd \in OpenFds
    BY <1>2 DEF OpenFds
  <2>2. Cardinality(OpenFds') = Cardinality(OpenFds) - 1
    BY <2>1, OpenFinite, FS_RemoveElement
  <2> QED
    BY <1>2, <2>2 DEF UsersExact, OpenFds, Accounted
<1> QED
  BY <1>3, <1>4 DEF Accounted, SpinsOpen

\* A tick closes one connection for each timer it frees.
LEMMA AccountTick ==
  ASSUME LoopInv, Accounted, NEW cs \in SUBSET Conns, Expired(cs),
         CloseSockets({timer[c].fd : c \in cs}), users' = users - Cardinality(cs),
         timer' = [c \in Conns |-> IF c \in Live \ cs THEN [timer[c] EXCEPT !.age = @ + 1] ELSE Null],
         main'.pc \notin {"spin", "flag"}
  PROVE  Accounted'
<1>0. TypeOK
  BY DEF LoopInv
<1> DEFINE closed == {timer[c].fd : c \in cs}
           at == [c \in cs |-> timer[c].fd]
<1>1. \A c \in Live : timer[c].fd \in Fds /\ sock[timer[c].fd] = c /\ c # 0
  BY <1>0, Numbers DEF TypeOK, Timer, Accounted, OpenAtTimer, Live, Conns
<1>2. cs \subseteq Live /\ IsFiniteSet(cs)
  BY FiniteConns, FS_Subset DEF Expired
<1>3. \A f \in Fds : sock'[f] = IF f \in closed THEN 0 ELSE sock[f]
  BY DEF CloseSockets
<1>4. OpenAtTimer'
  <2> SUFFICES ASSUME NEW c \in Conns, timer'[c] # Null PROVE sock'[timer'[c].fd] = c
    BY DEF OpenAtTimer
  <2>1. c \in Live \ cs /\ timer'[c].fd = timer[c].fd
    BY <1>0, AgedType
  <2>2. timer[c].fd \notin closed
    BY <1>1, <1>2, <2>1
  <2> QED
    BY <1>1, <1>3, <2>1, <2>2
<1>5. Cardinality(closed) = Cardinality(cs)
  <2>1. at \in Bijection(cs, closed)
    BY <1>1, <1>2 DEF Bijection, Injection, Surjection, IsInjective
  <2> QED
    BY <1>2, <2>1, FS_Bijection DEF ExistsBijection
<1>6. OpenFds' = OpenFds \ closed /\ OpenFds \cap closed = closed
  BY <1>1, <1>2, <1>3 DEF OpenFds
<1>7. Cardinality(OpenFds') = Cardinality(OpenFds) - Cardinality(cs)
  <2>1. Cardinality(OpenFds \ closed) = Cardinality(OpenFds) - Cardinality(OpenFds \cap closed)
    BY OpenFinite, FS_Difference, Zenon
  <2> QED
    BY <1>5, <1>6, <2>1
<1>8. UsersExact'
  BY <1>7 DEF UsersExact, OpenFds, Accounted
<1> QED
  BY <1>4, <1>8 DEF Accounted, SpinsOpen

LEMMA AccountAccept ==
  ASSUME LoopInv, Accounted, NEW fd \in Fds, DealClientData(fd) PROVE Accounted'
<1> DEFINE n == conns + 1
<1>0. TypeOK /\ TimersInv /\ LoopInv'
  BY LoopStep DEF LoopInv, Next, Listen
<1>1. n \in Conns
  <2>1. backlog > 0
    BY DEF DealClientData
  <2> QED
    BY <1>0, <2>1, AcceptNumbers
<1>2. n # 0 /\ \A f \in Fds : sock[f] # n
  <2>1. conns \in Nat /\ \A f \in Fds : sock[f] \in Nat /\ sock[f] <= conns
    BY <1>0, Numbers DEF TypeOK, TimersInv, Numbered
  <2> QED
    BY <2>1
<1>3. /\ sock[fd] = 0 /\ users' = users + 1 /\ UNCHANGED main /\ sock' = [sock EXCEPT ![fd] = n]
      /\ timer' = [timer EXCEPT ![n] = [fd |-> fd, age |-> 0]]
  BY DEF DealClientData, SetTimer, AcceptsOn
<1> HIDE DEF n
<1>4. OpenAtTimer'
  <2> SUFFICES ASSUME NEW c \in Conns, timer'[c] # Null PROVE sock'[timer'[c].fd] = c
    BY DEF OpenAtTimer
  <2>1. CASE c = n
    BY <1>0, <1>1, <1>3, <2>1 DEF TypeOK
  <2>2. CASE c # n
    <3>1. timer'[c] = timer[c] /\ timer[c].fd \in Fds /\ sock[timer[c].fd] = c
      BY <1>0, <1>1, <1>3, <2>2 DEF TypeOK, Timer, Accounted, OpenAtTimer
    <3>2. c # 0
      BY DEF Conns
    <3> QED
      BY <1>0, <1>3, <3>1, <3>2 DEF TypeOK
  <2> QED
    BY <2>1, <2>2
<1>5. UsersExact'
  <2>1. OpenFds' = OpenFds \cup {fd} /\ fd \notin OpenFds
    BY <1>0, <1>2, <1>3 DEF OpenFds, TypeOK
  <2>2. Cardinality(OpenFds') = Cardinality(OpenFds) + 1
    BY <2>1, OpenFinite, FS_AddElement
  <2> QED
    BY <1>3, <2>2 DEF UsersExact, OpenFds, Accounted
<1>6. SpinsOpen'
  <2>1. main.pc \notin {"spin", "flag"}
    BY DEF DealClientData, Accepting
  <2> QED
    BY <1>3, <2>1 DEF SpinsOpen
<1> QED
  BY <1>4, <1>5, <1>6 DEF Accounted

\* What has happened has happened.
LEMMA MishapsStay == [Next]_vars => mishap \subseteq mishap'
<1>1. CASE UNCHANGED vars
  BY <1>1
<1>2. ASSUME NEW fd \in Fds,
             Send(fd) \/ HangUp(fd) \/ EventOn(fd) \/ ProactorSendAll(fd) \/ ProactorSendForever(fd)
      PROVE  mishap \subseteq mishap'
  BY <1>2 DEF Send, HangUp, EventOn, DealWithHangUp, ProactorRead, ProactorSendRest, ReactorAppend,
              ProactorSendAll, ProactorSendForever
<1>3. CASE Connect \/ Listen \/ AcceptFails \/ SigAlrm \/ DealWithSignal
  BY <1>3 DEF Connect, Listen, EdgeEvent, Refuse, DealClientData, AcceptFails, SigAlrm, DealWithSignal
<1>4. CASE Spin \/ TimerHandler
  BY <1>4 DEF Spin, SpinEnd, ReadFlag, TimerHandler
<1>5. ASSUME NEW w \in Workers, Take(w) \/ Work(w) \/ WriteAll(w) \/ WriteForever(w) \/ Throw(w)
      PROVE  mishap \subseteq mishap'
  BY <1>5 DEF Take, Work, Read, ReadFailure, WriteRest, SetTimerFlag, NeedMore, Parse, Respond, WriteAll,
              WriteForever, Throw
<1> QED
  BY <1>1, <1>2, <1>3, <1>4, <1>5 DEF Next

LEMMA AccountStep ==
  ASSUME LoopInv, Accounted, [Next]_vars, ~Throws' PROVE Accounted'
<1>0. TypeOK /\ ArmedOpen
  BY DEF LoopInv, TimersInv
<1>1. ASSUME UNCHANGED <<sock, users, timer, main>> PROVE Accounted'
  BY <1>1, AccountQuiet
<1>2. ASSUME NEW fd \in Fds, armed[fd] # "none", AdjustTimer(fd), UNCHANGED <<sock, users>>,
             UNCHANGED main \/ main'.fd = fd
      PROVE  Accounted'
  <2>1. sock[fd] # 0
    BY <1>0, <1>2 DEF ArmedOpen
  <2>2. SpinsOpen'
    BY <1>2, <2>1 DEF SpinsOpen, Accounted
  <2>3. \A c \in Conns : timer'[c] # Null => timer[c] # Null /\ timer'[c].fd = timer[c].fd
    BY <1>2, AdjustType
  <2> QED
    BY <1>2, <2>2, <2>3, AccountKept
<1>3. ASSUME UNCHANGED <<sock, users, timer>>, main'.pc \notin {"spin", "flag"} PROVE Accounted'
  BY <1>3, AccountKept DEF SpinsOpen
<1>4. ASSUME NEW fd \in Fds, armed[fd] # "none", DealTimer(fd), main.pc = "wait", UNCHANGED main
      PROVE  Accounted'
  <2>1. sock[fd] # 0
    BY <1>0, <1>4 DEF ArmedOpen
  <2> QED
    BY <1>4, <2>1, AccountClosed
<1>5. CASE UNCHANGED vars
  BY <1>1, <1>5
<1>6. CASE Connect \/ SigAlrm \/ DealWithSignal
  BY <1>1, <1>6 DEF Connect, SigAlrm, DealWithSignal
<1>7. ASSUME NEW fd \in Fds, Send(fd) \/ HangUp(fd) PROVE Accounted'
  BY <1>1, <1>7 DEF Send, HangUp
<1>8. CASE Listen \/ AcceptFails
  <2>1. CASE EdgeEvent \/ Refuse \/ AcceptFails
    <3>1. main'.pc \in {"accept", "wait"} /\ UNCHANGED <<sock, users, timer>>
      BY <2>1 DEF EdgeEvent, Refuse, AcceptFails
    <3> QED
      BY <1>3, <3>1
  <2> QED
    BY <1>8, <2>1, AccountAccept DEF Listen
<1>9. ASSUME NEW fd \in Fds, EventOn(fd) \/ ProactorSendAll(fd) \/ ProactorSendForever(fd)
      PROVE  Accounted'
  <2>1. CASE DealWithHangUp(fd)
    BY <1>4, <2>1 DEF DealWithHangUp
  <2>2. CASE ProactorRead(fd)
    BY <1>2, <2>2 DEF ProactorRead, Event
  <2>3. CASE ProactorSendAll(fd) /\ obj[fd].linger
    BY <1>2, <2>3 DEF ProactorSendAll, Event
  <2>4. CASE ProactorSendAll(fd) /\ ~obj[fd].linger
    <3>1. armed[fd] # "none" /\ DealTimer(fd) /\ main.pc = "wait" /\ UNCHANGED main
      BY <2>4 DEF ProactorSendAll, Event
    <3> QED
      BY <1>4, <3>1
  <2>5. CASE ProactorSendRest(fd)
    BY <1>2, <2>5 DEF ProactorSendRest, Event
  <2>6. CASE ProactorSendForever(fd)
    BY <1>3, <2>6 DEF ProactorSendForever
  <2>7. ASSUME NEW ev \in {"in", "out"}, NEW s, ReactorAppend(fd, ev, s) PROVE Accounted'
    <3>1. armed[fd] # "none" /\ AdjustTimer(fd) /\ UNCHANGED <<sock, users>> /\ main'.fd = fd
      BY <2>7 DEF ReactorAppend, Event
    <3> QED
      BY <1>2, <3>1
  <2> QED
    BY <1>9, <2>1, <2>2, <2>3, <2>4, <2>5, <2>6, <2>7 DEF EventOn
<1>10. CASE SpinEnd
  <2>1. main' = [main EXCEPT !.pc = "flag"] /\ main.pc = "spin" /\ UNCHANGED <<sock, users, timer>>
    BY <1>10 DEF SpinEnd
  <2>2. main'.fd = main.fd
    BY <1>0, <2>1 DEF TypeOK
  <2>3. SpinsOpen'
    BY <2>1, <2>2 DEF SpinsOpen, Accounted
  <2> QED
    BY <2>1, <2>3, AccountKept
<1>11. CASE ReadFlag
  <2>1. main.fd \in Fds /\ sock[main.fd] # 0 /\ main'.pc = "wait"
    BY <1>11 DEF ReadFlag, LoopInv, MainAt, Accounted, SpinsOpen
  <2>2. DealTimer(main.fd) \/ UNCHANGED <<sock, users, timer>>
    BY <1>11 DEF ReadFlag
  <2> QED
    BY <1>3, <2>1, <2>2, AccountClosed
<1>12. CASE TimerHandler
  BY <1>12, AccountTick DEF TimerHandler
<1>13. ASSUME NEW w \in Workers, Take(w) \/ Work(w) \/ WriteAll(w) \/ WriteForever(w) \/ Throw(w)
       PROVE  Accounted'
  <2>1. ~Throw(w)
    BY DEF Throw, Throws
  <2> QED
    BY <1>1, <1>13, <2>1 DEF Take, Work, Read, ReadFailure, WriteRest, SetTimerFlag, NeedMore, Parse,
                            Respond, WriteAll, WriteForever
<1> QED
  BY <1>5, <1>6, <1>7, <1>8, <1>9, <1>10, <1>11, <1>12, <1>13 DEF Next, Spin

\* As long as no worker closes a connection itself, m_user_count is the number of open
\* connections and every one of them has exactly its own timer in the list, so that none is
\* forgotten and none is closed by another's timer, although cb_func, init and the timer list
\* each keep their part in a place of its own.
THEOREM UsersAccounted == Spec => []ConnsAccounted
<1>1. Init => AccountInv
  <2> SUFFICES ASSUME Init PROVE AccountInv
    OBVIOUS
  <2>1. LoopInv
    BY InitInv
  <2>2. UsersExact
    <3>1. {fd \in Fds : sock[fd] # 0} = {}
      BY DEF Init
    <3> QED
      BY <3>1, FS_EmptySet DEF UsersExact, Init
  <2> QED
    BY <2>1, <2>2 DEF AccountInv, Accounted, OpenAtTimer, SpinsOpen, Init
<1>2. AccountInv /\ [Next]_vars => AccountInv'
  <2>1. [Next]_vars /\ ~Throws' => ~Throws
    BY MishapsStay DEF Throws
  <2> QED
    BY <2>1, LoopStep, AccountStep DEF AccountInv
<1>3. AccountInv => ConnsAccounted
  <2> SUFFICES ASSUME AccountInv, ~Throws PROVE UsersExact /\ TimersExact
    BY DEF ConnsAccounted
  <2>1. TypeOK /\ OwnTimer /\ OpenAtTimer /\ UsersExact
    BY DEF AccountInv, LoopInv, TimersInv, Accounted
  <2>2. \A c \in Conns : timer[c] # Null => \E fd \in Fds : sock[fd] = c
    BY <2>1 DEF TypeOK, Timer, OpenAtTimer
  <2>3. \A c \in Conns : (\E fd \in Fds : sock[fd] = c) => timer[c] # Null
    BY <2>1 DEF OwnTimer, Conns
  <2> QED
    BY <2>1, <2>2, <2>3 DEF TimersExact
<1> QED
  BY <1>1, <1>2, <1>3, PTL DEF Spec

-----------------------------------------------------------------------------
(* Who may touch a connection's object, and whose answer a client gets, as long as no connection *)
(* is closed under a worker                                                                      *)

Busy(w) == worker[w].fd # Null /\ worker[w].pc # "flag"

\* A descriptor is in the queue once, or with one worker, or epoll may hand it out, and it is
\* open while the pool has it.
OnceQueued == \A i, j \in DOMAIN workq : workq[i] = workq[j] => i = j
OnceTaken  == \A v, w \in Workers : Busy(v) /\ Busy(w) /\ worker[v].fd = worker[w].fd => v = w
NotBoth    == \A w \in Workers, i \in DOMAIN workq : Busy(w) => worker[w].fd # workq[i]
ArmedFree  == \A fd \in Fds : armed[fd] # "none" => ~InPool(fd)
PoolOpen   == \A fd \in Fds : InPool(fd) => sock[fd] # 0

HeldOnce == OnceQueued /\ OnceTaken /\ NotBoth /\ ArmedFree /\ PoolOpen

LEMMA PoolMembers ==
  \A fd \in Fds : InPool(fd) <=> \/ \E i \in DOMAIN workq : workq[i] = fd
                                 \/ \E w \in Workers : Busy(w) /\ worker[w].fd = fd
  BY NullFacts DEF InPool, Working, Busy

LEMMA PoolMembersNext ==
  \A fd \in Fds : InPool(fd)' <=> \/ \E i \in DOMAIN workq' : workq'[i] = fd
                                  \/ \E w \in Workers : Busy(w)' /\ worker'[w].fd = fd
  BY NullFacts DEF InPool, Working, Busy

-----------------------------------------------------------------------------
(* How a step changes what the pool has *)

\* Nothing enters the pool; what is in it stays open, and what is not may be registered.
LEMMA PoolShrinks ==
  ASSUME HeldOnce, UNCHANGED workq,
         \A v \in Workers : Busy(v)' => Busy(v) /\ worker'[v].fd = worker[v].fd,
         \A fd \in Fds : armed'[fd] # "none" => armed[fd] # "none" \/ ~InPool(fd)',
         \A fd \in Fds : InPool(fd)' => sock'[fd] # 0
  PROVE  HeldOnce'
<1>1. \A fd \in Fds : InPool(fd)' => InPool(fd)
  BY PoolMembers, PoolMembersNext
<1>2. OnceQueued' /\ OnceTaken' /\ NotBoth'
  BY DEF HeldOnce, OnceQueued, OnceTaken, NotBoth
<1>3. ArmedFree'
  BY <1>1 DEF HeldOnce, ArmedFree
<1>4. PoolOpen'
  BY DEF PoolOpen
<1> QED
  BY <1>2, <1>3, <1>4 DEF HeldOnce

LEMMA PoolSame ==
  ASSUME HeldOnce, UNCHANGED <<workq, worker>>,
         \A fd \in Fds : armed'[fd] # "none" => armed[fd] # "none" \/ ~InPool(fd),
         \A fd \in Fds : InPool(fd) => sock'[fd] # 0
  PROVE  HeldOnce'
<1>1. \A fd \in Fds : InPool(fd)' <=> InPool(fd)
  BY PoolMembers, PoolMembersNext DEF Busy
<1>2. \A v \in Workers : Busy(v)' => Busy(v) /\ worker'[v].fd = worker[v].fd
  BY DEF Busy
<1> QED
  BY <1>1, <1>2, PoolShrinks

\* A registered descriptor goes to the end of the queue.
LEMMA PoolAppends ==
  ASSUME LoopInv, HeldOnce, NEW fd \in Fds, armed[fd] # "none", armed' = Disarmed(fd),
         UNCHANGED <<sock, worker>>, workq' = Append(workq, fd)
  PROVE  HeldOnce'
<1>0. TypeOK /\ ArmedOpen /\ workq \in Seq(Fds)
  BY DEF LoopInv, TimersInv, TypeOK
<1>1. sock[fd] # 0 /\ ~InPool(fd)
  BY <1>0 DEF HeldOnce, ArmedFree, ArmedOpen
<1>2. /\ DOMAIN workq = 1..Len(workq) /\ Len(workq) \in Nat /\ DOMAIN workq' = 1..(Len(workq) + 1)
      /\ workq'[Len(workq) + 1] = fd /\ \A i \in DOMAIN workq : workq'[i] = workq[i]
  BY <1>0
<1>3. \A i \in DOMAIN workq' : i = Len(workq) + 1 \/ i \in DOMAIN workq
  BY <1>2
<1>4. \A w \in Workers : (Busy(w)' <=> Busy(w)) /\ worker'[w] = worker[w]
  BY DEF Busy
<1>5. \A i \in DOMAIN workq : workq[i] # fd
  BY <1>1, PoolMembers
<1>6. \A w \in Workers : Busy(w) => worker[w].fd # fd
  BY <1>1, PoolMembers
<1>7. OnceQueued'
  BY <1>2, <1>3, <1>5 DEF HeldOnce, OnceQueued
<1>8. OnceTaken'
  BY <1>4 DEF HeldOnce, OnceTaken
<1>9. NotBoth'
  BY <1>2, <1>3, <1>4, <1>6 DEF HeldOnce, NotBoth
<1>10. \A f \in Fds : InPool(f)' => InPool(f) \/ f = fd
  BY <1>2, <1>3, <1>4, PoolMembers, PoolMembersNext
<1>11. \A f \in Fds : armed'[f] # "none" => f # fd /\ armed[f] # "none"
  BY <1>0 DEF Disarmed, TypeOK
<1>12. ArmedFree' /\ PoolOpen'
  BY <1>1, <1>10, <1>11 DEF HeldOnce, ArmedFree, PoolOpen
<1> QED
  BY <1>7, <1>8, <1>9, <1>12 DEF HeldOnce

LEMMA PoolTakes ==
  ASSUME LoopInv, HeldOnce, NEW w \in Workers, Take(w) PROVE HeldOnce'
<1>0. TypeOK /\ workq \in Seq(Fds) /\ workq # << >>
  BY DEF LoopInv, TypeOK, Take
<1> DEFINE fd == Head(workq)
<1>1. /\ fd \in Fds /\ fd = workq[1] /\ 1 \in DOMAIN workq /\ UNCHANGED <<sock, armed>>
      /\ \A i \in DOMAIN workq' : i + 1 \in DOMAIN workq /\ workq'[i] = workq[i + 1] /\ i + 1 # 1
  <2>1. workq' = Tail(workq) /\ UNCHANGED <<sock, armed>>
    BY DEF Take
  <2>2. Len(workq) \in Nat \ {0} /\ DOMAIN workq = 1..Len(workq) /\ fd \in Fds /\ fd = workq[1]
    BY <1>0
  <2>3. /\ DOMAIN workq' = 1..(Len(workq) - 1)
        /\ \A i \in 1..(Len(workq) - 1) : workq'[i] = workq[i + 1]
    BY <1>0, <2>1, <2>2
  <2> QED
    BY <2>1, <2>2, <2>3
<1>2. /\ worker'[w].fd = fd /\ \A v \in Workers : v # w => worker'[v] = worker[v]
  BY <1>0 DEF Take, TypeOK
<1> HIDE DEF fd
<1>3. \A v \in Workers : v # w => (Busy(v)' <=> Busy(v))
  BY <1>2 DEF Busy
<1>4. \A i, j \in DOMAIN workq' : i + 1 = j + 1 => i = j
  <2>1. \A i \in DOMAIN workq' : i \in Int
    BY <1>0 DEF Take
  <2> QED
    BY <2>1
<1>5. OnceQueued'
  BY <1>1, <1>4 DEF HeldOnce, OnceQueued
<1>6. OnceTaken'
  BY <1>1, <1>2, <1>3 DEF HeldOnce, OnceTaken, NotBoth
<1>7. NotBoth'
  BY <1>1, <1>2, <1>3 DEF HeldOnce, NotBoth, OnceQueued
<1>8. \A f \in Fds : InPool(f)' => InPool(f)
  BY <1>1, <1>2, <1>3, PoolMembers, PoolMembersNext
<1>9. ArmedFree' /\ PoolOpen'
  BY <1>1, <1>8 DEF HeldOnce, ArmedFree, PoolOpen
<1> QED
  BY <1>5, <1>6, <1>7, <1>9 DEF HeldOnce

\* When a worker is done with a descriptor, the pool is.
LEMMA PoolReturns ==
  ASSUME LoopInv, HeldOnce, NEW w \in Workers, Busy(w), Rests(w) \/ Goes(w, "flag"), UNCHANGED workq
  PROVE  /\ \A v \in Workers : Busy(v)' => v # w /\ Busy(v) /\ worker'[v].fd = worker[v].fd
         /\ \A fd \in Fds : InPool(fd)' => InPool(fd) /\ fd # worker[w].fd
<1>0. TypeOK
  BY DEF LoopInv
<1>1. \A v \in Workers : Busy(v)' => v # w /\ Busy(v) /\ worker'[v].fd = worker[v].fd
  <2>1. worker'[w].fd = Null \/ worker'[w].pc = "flag"
    <3>1. CASE Rests(w)
      BY <1>0, <3>1 DEF Rests, TypeOK
    <3>2. CASE Goes(w, "flag")
      BY <1>0, <3>2 DEF Goes, TypeOK
    <3> QED
      BY <3>1, <3>2
  <2>2. \A v \in Workers : v # w => worker'[v] = worker[v]
    BY <1>0 DEF Rests, Goes, TypeOK
  <2> QED
    BY <2>1, <2>2 DEF Busy
<1>2. ASSUME NEW fd \in Fds, InPool(fd)' PROVE InPool(fd) /\ fd # worker[w].fd
  <2>1. CASE \E i \in DOMAIN workq : workq[i] = fd
    BY <2>1, PoolMembers DEF HeldOnce, NotBoth
  <2>2. CASE \E v \in Workers : Busy(v)' /\ worker'[v].fd = fd
    BY <1>1, <2>2, PoolMembers DEF HeldOnce, OnceTaken
  <2> QED
    BY <1>2, <2>1, <2>2, PoolMembersNext
<1> QED
  BY <1>1, <1>2

LEMMA PoolReturnsTo ==
  ASSUME LoopInv, HeldOnce, NEW w \in Workers, Busy(w), Rests(w) \/ Goes(w, "flag"), UNCHANGED workq,
         \A fd \in Fds : armed'[fd] # "none" => armed[fd] # "none" \/ fd = worker[w].fd,
         \A fd \in Fds : fd # worker[w].fd => (sock[fd] # 0 => sock'[fd] # 0)
  PROVE  HeldOnce'
<1>1. \A v \in Workers : Busy(v)' => Busy(v) /\ worker'[v].fd = worker[v].fd
  BY PoolReturns
<1>2. \A fd \in Fds : InPool(fd)' => InPool(fd) /\ fd # worker[w].fd
  BY PoolReturns
<1>3. \A fd \in Fds : InPool(fd)' => sock'[fd] # 0
  BY <1>2 DEF HeldOnce, PoolOpen
<1>4. \A fd \in Fds : armed'[fd] # "none" => armed[fd] # "none" \/ ~InPool(fd)'
  BY <1>2
<1> QED
  BY <1>1, <1>3, <1>4, PoolShrinks

-----------------------------------------------------------------------------
(* The steps *)

LEMMA EmptyCut == \A fds : "cut" \notin Cut(fds) => \A fd \in fds : ~InPool(fd)
  BY DEF Cut

\* A registered descriptor is disarmed or armed again, and closed at most while it is registered.
LEMMA EventsHold ==
  ASSUME LoopInv, HeldOnce, NEW fd \in Fds,
         EventOn(fd) \/ ProactorSendAll(fd) \/ ProactorSendForever(fd)
  PROVE  HeldOnce'
<1>0. TypeOK /\ ArmedFree /\ PoolOpen
  BY DEF LoopInv, HeldOnce
<1>1. armed[fd] # "none" /\ UNCHANGED worker
  BY DEF EventOn, DealWithHangUp, ProactorRead, ProactorSendRest, ReactorAppend, ProactorSendAll,
         ProactorSendForever, Event
<1>2. ~InPool(fd)
  BY <1>0, <1>1 DEF ArmedFree
<1>3. armed' = Disarmed(fd) => \A f \in Fds : armed'[f] # "none" => armed[f] # "none"
  BY <1>0 DEF Disarmed, TypeOK
<1>4. ASSUME NEW ev \in {"in", "out"}, Rearm(fd, ev)
      PROVE  \A f \in Fds : armed'[f] # "none" => armed[f] # "none" \/ ~InPool(f)
  BY <1>0, <1>2, <1>4, RearmType
<1>5. ASSUME DealTimer(fd), UNCHANGED workq PROVE HeldOnce'
  <2>1. \A f \in Fds : /\ armed'[f] # "none" => armed[f] # "none"
                       /\ InPool(f) => sock'[f] # 0
    BY <1>0, <1>2, <1>5 DEF DealTimer, CloseSockets, PoolOpen
  <2> QED
    BY <1>1, <1>5, <2>1, PoolSame
<1>6. CASE DealWithHangUp(fd)
  BY <1>5, <1>6 DEF DealWithHangUp
<1>7. CASE ProactorRead(fd)
  <2>1. armed' = Disarmed(fd) /\ UNCHANGED sock
    BY <1>7 DEF ProactorRead
  <2>2. UNCHANGED workq \/ workq' = Append(workq, fd)
    BY <1>7 DEF ProactorRead
  <2> QED
    BY <1>0, <1>1, <1>3, <2>1, <2>2, PoolSame, PoolAppends DEF PoolOpen
<1>8. CASE ProactorSendAll(fd) /\ obj[fd].linger
  <2>1. Rearm(fd, "in") /\ UNCHANGED <<sock, workq>>
    BY <1>8 DEF ProactorSendAll, SendAll
  <2> QED
    BY <1>0, <1>1, <1>4, <2>1, PoolSame DEF PoolOpen
<1>9. CASE ProactorSendAll(fd) /\ ~obj[fd].linger
  BY <1>5, <1>9 DEF ProactorSendAll
<1>10. CASE ProactorSendRest(fd)
  <2>1. (Rearm(fd, "in") \/ Rearm(fd, "out")) /\ UNCHANGED <<sock, workq>>
    BY <1>10 DEF ProactorSendRest, SendPart, SendNothing
  <2> QED
    BY <1>0, <1>1, <1>4, <2>1, PoolSame DEF PoolOpen
<1>11. CASE ProactorSendForever(fd)
  BY <1>0, <1>1, <1>3, <1>11, PoolSame DEF ProactorSendForever, PoolOpen
<1>12. ASSUME NEW ev, NEW s, ReactorAppend(fd, ev, s) PROVE HeldOnce'
  <2>1. armed' = Disarmed(fd) /\ UNCHANGED sock
    BY <1>12 DEF ReactorAppend
  <2>2. UNCHANGED workq \/ workq' = Append(workq, fd)
    BY <1>12 DEF ReactorAppend
  <2> QED
    BY <1>0, <1>1, <1>3, <2>1, <2>2, PoolSame, PoolAppends DEF PoolOpen
<1> QED
  BY <1>6, <1>7, <1>8, <1>9, <1>10, <1>11, <1>12 DEF EventOn

\* A worker takes a descriptor from the queue, keeps it, or arms or closes it when it is done.
LEMMA WorkersHold ==
  ASSUME LoopInv, HeldOnce, NEW w \in Workers,
         Take(w) \/ Work(w) \/ WriteAll(w) \/ WriteForever(w) \/ Throw(w)
  PROVE  HeldOnce'
<1> DEFINE fd == worker[w].fd
<1>0. TypeOK /\ WorkersAt /\ PoolOpen
  BY DEF LoopInv, HeldOnce
<1>1. worker[w].pc # "idle" => fd \in Fds
  BY <1>0 DEF WorkersAt, TypeOK
<1>2. worker[w].pc \notin {"idle", "flag"} => Busy(w)
  BY <1>0 DEF WorkersAt, Busy
<1>3. ASSUME UNCHANGED <<workq, sock, armed>>,
             \A v \in Workers : Busy(v)' => Busy(v) /\ worker'[v].fd = worker[v].fd
      PROVE  HeldOnce'
  <2>1. \A f \in Fds : InPool(f)' => InPool(f)
    BY <1>3, PoolMembers, PoolMembersNext
  <2> QED
    BY <1>0, <1>3, <2>1, PoolShrinks DEF PoolOpen
<1>4. ASSUME Busy(w), fd \in Fds, Rests(w) \/ Goes(w, "flag"), UNCHANGED <<workq, sock>>,
             UNCHANGED armed \/ Rearm(fd, "in") \/ Rearm(fd, "out")
      PROVE  HeldOnce'
  <2>1. \A f \in Fds : armed'[f] # "none" => armed[f] # "none" \/ f = fd
    BY <1>0, <1>4, RearmType
  <2> QED
    BY <1>4, <2>1, PoolReturnsTo
<1>5. CASE Take(w)
  BY <1>5, PoolTakes
<1>6. CASE Read(w) \/ Parse(w) \/ WriteForever(w)
  <2>1. /\ Busy(w) /\ worker'[w].fd = fd /\ UNCHANGED <<workq, sock, armed>>
        /\ \A v \in Workers : v # w => worker'[v] = worker[v]
    <3>1. worker[w].pc \notin {"idle", "flag"} /\ UNCHANGED <<workq, sock>>
      BY <1>6 DEF Read, Parse, WriteForever
    <3>2. UNCHANGED armed
      BY <1>6 DEF Read, Parse, WriteForever
    <3>3. worker'[w].fd = fd /\ \A v \in Workers : v # w => worker'[v] = worker[v]
      BY <1>0, <1>6 DEF Read, Parse, WriteForever, Goes, TypeOK
    <3> QED
      BY <1>2, <3>1, <3>2, <3>3
  <2>2. \A v \in Workers : Busy(v)' => Busy(v) /\ worker'[v].fd = worker[v].fd
    BY <2>1 DEF Busy
  <2> QED
    BY <1>3, <2>1, <2>2
<1>7. CASE ReadFailure(w)
  BY <1>1, <1>2, <1>4, <1>7 DEF ReadFailure
<1>8. CASE WriteAll(w)
  BY <1>1, <1>2, <1>4, <1>8 DEF WriteAll, SendAll
<1>9. CASE WriteRest(w)
  <2>1. worker[w].pc = "write" /\ UNCHANGED <<workq, sock>>
    BY <1>9 DEF WriteRest
  <2>2. (Rests(w) \/ Goes(w, "flag")) /\ (UNCHANGED armed \/ Rearm(fd, "in") \/ Rearm(fd, "out"))
    BY <1>9 DEF WriteRest, SendPart, SendNothing
  <2> QED
    BY <1>1, <1>2, <1>4, <2>1, <2>2
<1>10. CASE SetTimerFlag(w)
  <2>1. UNCHANGED <<workq, sock, armed>> /\ Rests(w)
    BY <1>10 DEF SetTimerFlag
  <2>2. \A v \in Workers : Busy(v)' => Busy(v) /\ worker'[v].fd = worker[v].fd
    BY <1>0, <2>1 DEF Rests, Busy, TypeOK
  <2> QED
    BY <1>3, <2>1, <2>2
<1>11. CASE NeedMore(w) \/ Respond(w)
  <2>1. worker[w].pc \notin {"idle", "flag"} /\ Rests(w) /\ UNCHANGED <<workq, sock>>
    BY <1>11 DEF NeedMore, Respond
  <2>2. Rearm(fd, "in") \/ Rearm(fd, "out")
    BY <1>11 DEF NeedMore, Respond
  <2> QED
    BY <1>1, <1>2, <1>4, <2>1, <2>2
<1>12. CASE Throw(w)
  <2>1. worker[w].pc \notin {"idle", "flag"} /\ Rests(w) /\ UNCHANGED workq
    BY <1>12 DEF Throw
  <2>2. CloseSockets({fd}) \/ UNCHANGED <<sock, armed>>
    BY <1>12 DEF Throw
  <2>3. CASE CloseSockets({fd})
    <3>1. /\ \A f \in Fds : armed'[f] # "none" => armed[f] # "none"
          /\ \A f \in Fds : f # fd => sock'[f] = sock[f]
      BY <2>3 DEF CloseSockets
    <3> QED
      BY <1>2, <2>1, <3>1, PoolReturnsTo
  <2> QED
    BY <1>1, <1>2, <1>4, <2>1, <2>2, <2>3
<1> QED
  BY <1>5, <1>6, <1>7, <1>8, <1>9, <1>10, <1>11, <1>12 DEF Work

LEMMA HoldStep ==
  ASSUME LoopInv, HeldOnce, [Next]_vars, ~Cuts' PROVE HeldOnce'
<1>0. TypeOK /\ PoolOpen /\ ArmedFree
  BY DEF LoopInv, HeldOnce
<1>1. ASSUME UNCHANGED <<workq, worker, sock, armed>> PROVE HeldOnce'
  BY <1>0, <1>1, PoolSame DEF PoolOpen
<1>2. ASSUME NEW fds, CloseSockets(fds), Cut(fds) \subseteq mishap', UNCHANGED <<workq, worker>>
      PROVE  HeldOnce'
  <2>1. \A fd \in fds : ~InPool(fd)
    BY <1>2, EmptyCut DEF Cuts
  <2>2. \A fd \in Fds : (armed'[fd] # "none" => armed[fd] # "none") /\ (InPool(fd) => sock'[fd] # 0)
    BY <1>0, <1>2, <2>1 DEF CloseSockets, PoolOpen
  <2> QED
    BY <1>2, <2>2, PoolSame
<1>3. CASE UNCHANGED vars
  BY <1>1, <1>3
<1>4. CASE Connect \/ SigAlrm \/ DealWithSignal
  BY <1>1, <1>4 DEF Connect, SigAlrm, DealWithSignal
<1>5. ASSUME NEW fd \in Fds, Send(fd) \/ HangUp(fd) PROVE HeldOnce'
  BY <1>1, <1>5 DEF Send, HangUp
<1>6. CASE Listen \/ AcceptFails
  <2>1. CASE EdgeEvent \/ Refuse \/ AcceptFails
    BY <1>1, <2>1 DEF EdgeEvent, Refuse, AcceptFails
  <2>2. ASSUME NEW fd \in Fds, DealClientData(fd) PROVE HeldOnce'
    <3>1. /\ sock[fd] = 0 /\ UNCHANGED <<workq, worker>>
          /\ \A f \in Fds : f # fd => sock'[f] = sock[f] /\ armed'[f] = armed[f]
      BY <1>0, <2>2 DEF DealClientData, TypeOK
    <3>2. ~InPool(fd)
      BY <1>0, <3>1 DEF PoolOpen
    <3> QED
      BY <1>0, <3>1, <3>2, PoolSame DEF PoolOpen
  <2> QED
    BY <1>6, <2>1, <2>2 DEF Listen
<1>7. CASE SpinEnd
  BY <1>1, <1>7 DEF SpinEnd
<1>8. CASE ReadFlag
  <2>1. \/ CloseSockets({main.fd}) /\ Cut({main.fd}) \subseteq mishap'
        \/ UNCHANGED <<sock, armed>>
    BY <1>8 DEF ReadFlag, DealTimer
  <2>2. UNCHANGED <<workq, worker>>
    BY <1>8 DEF ReadFlag
  <2> QED
    BY <1>1, <1>2, <2>1, <2>2
<1>9. CASE TimerHandler
  <2>1. \E fds : CloseSockets(fds) /\ Cut(fds) \subseteq mishap'
    BY <1>9 DEF TimerHandler
  <2>2. UNCHANGED <<workq, worker>>
    BY <1>9 DEF TimerHandler
  <2> QED
    BY <1>2, <2>1, <2>2
<1> QED
  BY <1>3, <1>4, <1>5, <1>6, <1>7, <1>8, <1>9, EventsHold, WorkersHold DEF Next, Spin

LEMMA HoldInit == Init => HeldOnce
<1> SUFFICES ASSUME Init PROVE HeldOnce
  OBVIOUS
<1>1. DOMAIN workq = {} /\ \A fd \in Fds : armed[fd] = "none"
  BY DEF Init
<1>2. \A w \in Workers : ~Busy(w)
  BY DEF Init, Busy
<1>3. \A fd \in Fds : ~InPool(fd)
  BY <1>1, <1>2, PoolMembers
<1> QED
  BY <1>1, <1>2, <1>3 DEF HeldOnce, OnceQueued, OnceTaken, NotBoth, ArmedFree, PoolOpen

LEMMA AtMostOne ==
  ASSUME NEW S, \A x, y \in S : x = y PROVE Cardinality(S) = IF S = {} THEN 0 ELSE 1
<1>1. CASE S = {}
  BY <1>1, FS_EmptySet
<1>2. CASE S # {}
  <2>1. PICK x \in S : TRUE
    BY <1>2
  <2>2. S = {x}
    BY <2>1
  <2> QED
    BY <1>2, <2>2, FS_Singleton
<1> QED
  BY <1>1, <1>2

\* A descriptor is worked on in one place at most.
LEMMA OneHandler ==
  ASSUME HeldOnce, NEW fd \in Fds
  PROVE  /\ Handlers(fd) <= 1
         /\ Queueing(fd) + Cardinality({w \in Workers : Working(w, fd)}) \in {0, 1}
         /\ armed[fd] # "none" => Queueing(fd) + Cardinality({w \in Workers : Working(w, fd)}) = 0
         /\ (\A i \in DOMAIN workq : workq[i] # fd) => Queueing(fd) = 0
<1> DEFINE Q == {i \in DOMAIN workq : workq[i] = fd}
           W == {w \in Workers : Working(w, fd)}
<1>1. W = {w \in Workers : Busy(w) /\ worker[w].fd = fd}
  BY NullFacts DEF Busy, Working
<1>2. Cardinality(Q) = IF Q = {} THEN 0 ELSE 1
  <2>1. \A i, j \in Q : i = j
    BY DEF HeldOnce, OnceQueued
  <2> QED
    BY <2>1, AtMostOne
<1>3. Cardinality(W) = IF W = {} THEN 0 ELSE 1
  <2>1. \A v, w \in W : v = w
    BY <1>1 DEF HeldOnce, OnceTaken
  <2> QED
    BY <2>1, AtMostOne
<1>4. Q = {} \/ W = {}
  BY <1>1 DEF HeldOnce, NotBoth
<1>5. armed[fd] # "none" => Q = {} /\ W = {}
  <2>1. armed[fd] # "none" => ~InPool(fd)
    BY DEF HeldOnce, ArmedFree
  <2> QED
    BY <1>1, <2>1, PoolMembers
<1>6. /\ Queueing(fd) = Cardinality(Q)
      /\ Handlers(fd) = Cardinality(Q) + Cardinality(W) + IF armed[fd] # "none" THEN 1 ELSE 0
      /\ (\A i \in DOMAIN workq : workq[i] # fd) => Q = {}
  BY DEF Handlers, Queueing
<1> HIDE DEF Q
<1> QED
  BY <1>2, <1>3, <1>4, <1>5, <1>6

HoldInv == LoopInv /\ (~Cuts => HeldOnce)

LEMMA HoldAlways == Spec => []HoldInv
<1>1. Init => HoldInv
  BY InitInv, HoldInit DEF HoldInv
<1>2. HoldInv /\ [Next]_vars => HoldInv'
  <2>1. [Next]_vars /\ ~Cuts' => ~Cuts
    BY MishapsStay DEF Cuts
  <2> QED
    BY <2>1, LoopStep, HoldStep DEF HoldInv
<1> QED
  BY <1>1, <1>2, PTL DEF Spec

-----------------------------------------------------------------------------
(* The reactor's hand-over: while the main thread spins on a connection the pool has that one and *)
(* no other to read or write, and improv is set from the worker's last word on it to the main     *)
(* thread's answer.                                                                               *)

InHand(w)    == worker[w].pc \in {"read", "write", "stuck"}
WaitsFor(fd) == main.pc = "spin" /\ main.fd = fd /\ ~obj[fd].improv

HandedOver == reactor => /\ \A i \in DOMAIN workq : WaitsFor(workq[i])
                         /\ \A w \in Workers : InHand(w) => WaitsFor(worker[w].fd)
HandedOnce == reactor => /\ Len(workq) <= 1
                         /\ \A v, w \in Workers : InHand(v) /\ InHand(w) => v = w
                         /\ workq # << >> => \A w \in Workers : ~InHand(w)
ImprovAt    == \A fd \in Fds : obj[fd].improv => main.pc \in {"spin", "flag"} /\ main.fd = fd
ImprovStays == main.pc = "flag" => obj[main.fd].improv
ReactorOnly == \A w \in Workers : worker[w].pc \in {"read", "write", "stuck", "flag"} => reactor

SpinInv == HandedOver /\ HandedOnce /\ ImprovAt /\ ImprovStays /\ ReactorOnly

\* Whoever has timer_flag to set is alone with the connection, and the main thread waits for it.
Alone(w) == /\ main.pc \in {"spin", "flag"} /\ main.fd = worker[w].fd /\ obj[worker[w].fd].improv
            /\ \A v \in Workers : v # w => worker[v].fd # worker[w].fd
FlagAlone == ~Cuts /\ ~Late => \A w \in Workers : worker[w].pc = "flag" => Alone(w)

FlagInv == SpinInv /\ FlagAlone

LEMMA LateStays == [Next]_vars => (~Cuts' => ~Cuts) /\ (~Late' => ~Late)
  BY MishapsStay DEF Cuts, Late

\* The main thread does something else than to hand a connection over.
LEMMA SpinElsewhere ==
  ASSUME LoopInv, FlagInv, UNCHANGED <<reactor, worker>>, reactor => UNCHANGED workq,
         main.pc \notin {"spin", "flag"}, main'.pc \notin {"spin", "flag"},
         \A fd \in Fds : obj'[fd].improv => obj[fd].improv,
         ~Cuts' => ~Cuts, ~Late' => ~Late
  PROVE  FlagInv'
<1>1. reactor => workq = << >>
  <2> SUFFICES ASSUME reactor, workq # << >> PROVE FALSE
    OBVIOUS
  <2>1. workq \in Seq(Fds)
    BY DEF LoopInv, TypeOK
  <2>2. 1 \in DOMAIN workq
    BY <2>1
  <2> QED
    BY <2>2 DEF FlagInv, SpinInv, HandedOver, WaitsFor
<1>2. reactor => \A w \in Workers : ~InHand(w)
  BY DEF FlagInv, SpinInv, HandedOver, WaitsFor
<1>3. HandedOver' /\ HandedOnce'
  BY <1>1, <1>2 DEF HandedOver, HandedOnce, InHand
<1>4. ImprovAt' /\ ImprovStays' /\ ReactorOnly'
  BY DEF FlagInv, SpinInv, ImprovAt, ImprovStays, ReactorOnly
<1>5. FlagAlone'
  BY DEF FlagInv, FlagAlone, Alone
<1> QED
  BY <1>3, <1>4, <1>5 DEF FlagInv, SpinInv

\* dealwithread and dealwithwrite in the reactor.
LEMMA SpinBegins ==
  ASSUME LoopInv, FlagInv, NEW fd \in Fds, NEW ev, NEW s, ReactorAppend(fd, ev, s) PROVE FlagInv'
<1>0. TypeOK /\ workq \in Seq(Fds) /\ reactor /\ main.pc = "wait"
  BY DEF LoopInv, TypeOK, ReactorAppend, Event
<1>1. UNCHANGED <<reactor, worker, mishap>> /\ main' = [pc |-> "spin", fd |-> fd]
  BY DEF ReactorAppend
<1>2. workq = << >> /\ \A w \in Workers : ~InHand(w)
  <2>1. \A w \in Workers : ~InHand(w)
    BY <1>0 DEF FlagInv, SpinInv, HandedOver, WaitsFor
  <2>2. ASSUME workq # << >> PROVE FALSE
    <3>1. 1 \in DOMAIN workq
      BY <1>0, <2>2
    <3> QED
      BY <1>0, <3>1 DEF FlagInv, SpinInv, HandedOver, WaitsFor
  <2> QED
    BY <2>1, <2>2
<1>3. \A f \in Fds : obj'[f].improv = obj[f].improv /\ ~obj[f].improv
  <2>1. \A f \in Fds : ~obj[f].improv
    BY <1>0 DEF FlagInv, SpinInv, ImprovAt
  <2>2. obj[fd] \in Object
    BY <1>0 DEF TypeOK
  <2>3. UNCHANGED obj \/ obj' = [obj EXCEPT ![fd].state = s]
    BY DEF ReactorAppend
  <2>4. [obj[fd] EXCEPT !.state = s].improv = obj[fd].improv
    BY <2>2 DEF Object
  <2>5. \A f \in Fds : obj'[f] = obj[f] \/ (f = fd /\ obj'[f] = [obj[fd] EXCEPT !.state = s])
    BY <1>0, <2>3 DEF TypeOK
  <2> QED
    BY <2>1, <2>4, <2>5
<1>4. \A i \in DOMAIN workq' : workq'[i] = fd
  <2>1. UNCHANGED workq \/ workq' = Append(workq, fd)
    BY DEF ReactorAppend
  <2> QED
    BY <1>2, <2>1
<1>5. Len(workq') <= 1
  <2>1. workq' = << >> \/ workq' = Append(<< >>, fd)
    BY <1>2 DEF ReactorAppend
  <2>2. Append(<< >>, fd) = << fd >>
    OBVIOUS
  <2>3. CASE workq' = << >>
    BY <2>3
  <2>4. CASE workq' = << fd >>
    BY <2>4
  <2> QED
    BY <2>1, <2>2, <2>3, <2>4
<1>6. \A w \in Workers : ~InHand(w)'
  BY <1>1, <1>2 DEF InHand
<1>7. HandedOver' /\ HandedOnce'
  BY <1>1, <1>3, <1>4, <1>5, <1>6 DEF HandedOver, HandedOnce, WaitsFor
<1>8. ImprovAt' /\ ImprovStays' /\ ReactorOnly'
  BY <1>1, <1>3 DEF FlagInv, SpinInv, ImprovAt, ImprovStays, ReactorOnly
<1>9. FlagAlone'
  BY <1>0, <1>1 DEF FlagInv, FlagAlone, Alone, Cuts, Late
<1> QED
  BY <1>7, <1>8, <1>9 DEF FlagInv, SpinInv

LEMMA SpinLeft ==
  ASSUME LoopInv, FlagInv, Spin PROVE FlagInv'
<1>0. TypeOK /\ MainAt /\ SpinInv
  BY DEF LoopInv, FlagInv
<1>1. CASE SpinEnd
  <2>1. /\ main.pc = "spin" /\ obj[main.fd].improv /\ main'.pc = "flag" /\ main'.fd = main.fd
        /\ UNCHANGED <<reactor, obj, workq, worker, mishap>>
    BY <1>0, <1>1 DEF SpinEnd, TypeOK
  <2>2. reactor => /\ \A i \in DOMAIN workq : FALSE
                   /\ \A w \in Workers : ~InHand(w)
    BY <1>0, <2>1 DEF SpinInv, HandedOver, WaitsFor
  <2>3. HandedOver' /\ HandedOnce'
    BY <1>0, <2>1, <2>2 DEF HandedOver, HandedOnce, InHand, SpinInv
  <2>4. ImprovAt' /\ ImprovStays' /\ ReactorOnly'
    BY <1>0, <2>1 DEF SpinInv, ImprovAt, ImprovStays, ReactorOnly
  <2>5. FlagAlone'
    BY <2>1 DEF FlagInv, FlagAlone, Alone, Cuts, Late
  <2> QED
    BY <2>3, <2>4, <2>5 DEF FlagInv, SpinInv
<1>2. CASE ReadFlag
  <2>1. /\ main.pc = "flag" /\ main.fd \in Fds /\ main'.pc = "wait"
        /\ UNCHANGED <<reactor, workq, worker>> /\ FlagComesLate(main.fd) \subseteq mishap'
        /\ obj[main.fd].improv
    BY <1>0, <1>2 DEF ReadFlag, MainAt, SpinInv, ImprovStays
  <2>2. reactor => /\ \A i \in DOMAIN workq : FALSE
                   /\ \A w \in Workers : ~InHand(w)
    BY <1>0, <2>1 DEF SpinInv, HandedOver, WaitsFor
  <2>3. HandedOver' /\ HandedOnce'
    BY <1>0, <2>1, <2>2 DEF HandedOver, HandedOnce, InHand, SpinInv
  <2>4. \A fd \in Fds : ~obj'[fd].improv
    <3>1. obj[main.fd] \in Object /\ obj' = [obj EXCEPT ![main.fd].flag = FALSE, ![main.fd].improv = FALSE]
      BY <1>0, <1>2, <2>1 DEF ReadFlag, ClearFlags, TypeOK
    <3>2. ~obj'[main.fd].improv /\ \A fd \in Fds : fd # main.fd => obj'[fd] = obj[fd]
      BY <1>0, <2>1, <3>1 DEF TypeOK, Object
    <3> QED
      BY <1>0, <3>2 DEF SpinInv, ImprovAt
  <2>5. ImprovAt' /\ ImprovStays' /\ ReactorOnly'
    BY <1>0, <2>1, <2>4 DEF SpinInv, ImprovAt, ImprovStays, ReactorOnly
  <2>6. FlagAlone'
    <3> SUFFICES ASSUME ~Cuts', ~Late', NEW w \in Workers, worker[w].pc = "flag" PROVE FALSE
      BY <2>1 DEF FlagAlone
    <3>1. ~Cuts /\ ~Late
      BY <1>2, LateStays DEF Next, Spin
    <3>2. SetsFlag(w, main.fd)
      BY <3>1 DEF FlagInv, FlagAlone, Alone, SetsFlag
    <3>3. "late" \in FlagComesLate(main.fd)
      BY <3>2 DEF FlagComesLate
    <3> QED
      BY <2>1, <3>3 DEF Late
  <2> QED
    BY <2>3, <2>5, <2>6 DEF FlagInv, SpinInv
<1> QED
  BY <1>1, <1>2 DEF Spin

LEMMA SpinTaken ==
  ASSUME LoopInv, FlagInv, NEW w \in Workers, Take(w) PROVE FlagInv'
<1>0. TypeOK /\ SpinInv /\ workq \in Seq(Fds) /\ workq # << >>
  BY DEF LoopInv, FlagInv, TypeOK, Take
<1> DEFINE fd == Head(workq)
<1>1. fd \in Fds /\ fd = workq[1] /\ 1 \in DOMAIN workq /\ workq' = Tail(workq)
  BY <1>0 DEF Take
<1>2. /\ worker'[w].fd = fd /\ worker'[w].pc # "flag"
      /\ (~reactor => worker'[w].pc = "process")
      /\ \A v \in Workers : v # w => worker'[v] = worker[v]
  BY <1>0 DEF Take, TypeOK
<1>3. UNCHANGED <<reactor, obj, main, mishap>> /\ worker[w].pc = "idle"
  BY DEF Take
<1>4. reactor => WaitsFor(fd) /\ workq' = << >> /\ \A v \in Workers : ~InHand(v)
  <2>1. reactor => WaitsFor(fd) /\ \A v \in Workers : ~InHand(v)
    BY <1>0, <1>1 DEF SpinInv, HandedOver, HandedOnce
  <2>2. reactor => workq' = << >>
    <3>1. reactor => Len(workq) <= 1
      BY <1>0 DEF SpinInv, HandedOnce
    <3> QED
      BY <1>0, <1>1, <3>1
  <2> QED
    BY <2>1, <2>2
<1> HIDE DEF fd
<1>5. HandedOver' /\ HandedOnce'
  <2>1. reactor => \A v \in Workers : InHand(v)' => v = w
    BY <1>2, <1>4 DEF InHand
  <2> QED
    BY <1>2, <1>3, <1>4, <2>1 DEF HandedOver, HandedOnce, WaitsFor
<1>6. ImprovAt' /\ ImprovStays' /\ ReactorOnly'
  BY <1>0, <1>2, <1>3 DEF SpinInv, ImprovAt, ImprovStays, ReactorOnly
<1>7. FlagAlone'
  <2> SUFFICES ASSUME ~Cuts, ~Late, NEW v \in Workers, worker'[v].pc = "flag" PROVE Alone(v)'
    BY <1>3 DEF FlagAlone, Cuts, Late
  <2>1. v # w /\ worker'[v] = worker[v] /\ Alone(v) /\ reactor
    BY <1>0, <1>2 DEF FlagInv, FlagAlone, SpinInv, ReactorOnly
  <2>2. worker[v].fd # fd
    BY <1>4, <2>1 DEF Alone, WaitsFor
  <2> QED
    BY <1>2, <1>3, <2>1, <2>2 DEF Alone
<1> QED
  BY <1>5, <1>6, <1>7 DEF FlagInv, SpinInv

\* A worker that has read or written, or has failed to, says so.
LEMMA SpinReported ==
  ASSUME LoopInv, ~Cuts => HeldOnce, FlagInv, NEW w \in Workers, worker[w].pc \in {"read", "write"},
         NEW o \in Object, o.improv, obj' = [obj EXCEPT ![worker[w].fd] = o],
         Rests(w) \/ Goes(w, "process") \/ Goes(w, "flag"),
         UNCHANGED <<reactor, workq, main, mishap>>
  PROVE  FlagInv'
<1> DEFINE fd == worker[w].fd
<1>0. TypeOK /\ SpinInv /\ fd \in Fds
  BY DEF LoopInv, FlagInv, TypeOK, WorkersAt
<1>1. reactor /\ InHand(w) /\ WaitsFor(fd)
  BY <1>0 DEF SpinInv, ReactorOnly, HandedOver, InHand
<1>2. workq = << >> /\ \A v \in Workers : InHand(v) => v = w
  BY <1>0, <1>1 DEF SpinInv, HandedOnce
<1>3. /\ worker'[w].pc \in {"idle", "process", "flag"}
      /\ worker'[w].pc = "flag" => worker'[w].fd = fd
      /\ worker'[w].fd \in {fd, Null}
      /\ \A v \in Workers : v # w => worker'[v] = worker[v]
  <2>1. CASE Rests(w)
    BY <1>0, <2>1 DEF Rests, TypeOK
  <2>2. CASE Goes(w, "process") \/ Goes(w, "flag")
    BY <1>0, <2>2 DEF Goes, TypeOK
  <2> QED
    BY <2>1, <2>2
<1>4. obj'[fd].improv /\ \A f \in Fds : f # fd => obj'[f] = obj[f]
  BY <1>0 DEF TypeOK
<1> HIDE DEF fd
<1>5. \A v \in Workers : ~InHand(v)'
  BY <1>2, <1>3 DEF InHand
<1>6. HandedOver' /\ HandedOnce'
  BY <1>0, <1>2, <1>5 DEF HandedOver, HandedOnce
<1>7. ImprovAt' /\ ImprovStays' /\ ReactorOnly'
  BY <1>0, <1>1, <1>3, <1>4 DEF SpinInv, ImprovAt, ImprovStays, ReactorOnly, WaitsFor
<1>8. FlagAlone'
  <2> SUFFICES ASSUME ~Cuts, ~Late, NEW v \in Workers, worker'[v].pc = "flag" PROVE Alone(v)'
    BY DEF FlagAlone, Cuts, Late
  <2>1. \A u \in Workers : u # w /\ worker[u].pc = "flag" => Alone(u) /\ worker[u].fd # fd
    BY DEF FlagInv, FlagAlone, Alone, fd
  <2>2. \A u \in Workers : u # w /\ worker[u].pc = "flag" => FALSE
    BY <1>1, <2>1 DEF Alone, WaitsFor
  <2>3. v = w
    BY <1>3, <2>2
  <2>4. \A u \in Workers : u # w => worker[u].fd # fd
    <3>1. Busy(w)
      BY <1>0, NullFacts DEF Busy, fd
    <3>2. \A u \in Workers : u # w /\ Busy(u) => worker[u].fd # fd
      BY <3>1 DEF HeldOnce, OnceTaken, fd
    <3>3. \A u \in Workers : u # w => worker[u].pc # "flag"
      BY <2>2
    <3> QED
      BY <1>0, <3>2, <3>3, NullFacts DEF Busy
  <2> QED
    BY <1>1, <1>3, <1>4, <2>3, <2>4 DEF Alone, WaitsFor
<1> QED
  BY <1>6, <1>7, <1>8 DEF FlagInv, SpinInv

\* The rest of a worker's steps does not touch improv, nor what others have.
LEMMA SpinBeside ==
  ASSUME LoopInv, FlagInv, NEW w \in Workers, UNCHANGED <<reactor, workq, main>>,
         \A v \in Workers : v # w => worker'[v] = worker[v],
         worker'[w].fd \in {worker[w].fd, Null}, worker'[w].pc # "flag",
         worker'[w].pc \in {"read", "write", "stuck"} => InHand(w) /\ worker'[w].fd = worker[w].fd,
         \A fd \in Fds : obj'[fd].improv = obj[fd].improv,
         ~Cuts' => ~Cuts, ~Late' => ~Late
  PROVE  FlagInv'
<1>0. TypeOK /\ WorkersAt /\ MainAt /\ SpinInv /\ workq \in Seq(Fds)
  BY DEF LoopInv, FlagInv, TypeOK
<1>1. \A v \in Workers : InHand(v)' => InHand(v) /\ worker'[v].fd = worker[v].fd /\ worker[v].fd \in Fds
  BY <1>0 DEF InHand, TypeOK, WorkersAt
<1>2. \A fd \in Fds : WaitsFor(fd)' <=> WaitsFor(fd)
  BY DEF WaitsFor
<1>3. HandedOver' /\ HandedOnce'
  <2>1. \A i \in DOMAIN workq : workq[i] \in Fds
    BY <1>0
  <2> QED
    BY <1>0, <1>1, <1>2, <2>1 DEF SpinInv, HandedOver, HandedOnce
<1>4. ImprovAt' /\ ImprovStays' /\ ReactorOnly'
  BY <1>0 DEF SpinInv, ImprovAt, ImprovStays, ReactorOnly, MainAt, InHand
<1>5. FlagAlone'
  <2> SUFFICES ASSUME ~Cuts, ~Late, NEW v \in Workers, worker'[v].pc = "flag" PROVE Alone(v)'
    BY DEF FlagAlone
  <2>1. v # w /\ worker'[v] = worker[v] /\ Alone(v)
    BY DEF FlagInv, FlagAlone
  <2>2. worker[v].fd \in Fds
    BY <1>0, <2>1 DEF TypeOK, WorkersAt
  <2> QED
    BY <2>1, <2>2, NullFacts DEF Alone
<1> QED
  BY <1>3, <1>4, <1>5 DEF FlagInv, SpinInv

LEMMA SpinWorkers ==
  ASSUME LoopInv, ~Cuts => HeldOnce, FlagInv, NEW w \in Workers,
         Take(w) \/ Work(w) \/ WriteAll(w) \/ WriteForever(w) \/ Throw(w)
  PROVE  FlagInv'
<1> DEFINE fd == worker[w].fd
<1>0. TypeOK /\ WorkersAt /\ (worker[w].pc # "idle" => fd \in Fds /\ obj[fd] \in Object)
  BY DEF LoopInv, TypeOK, WorkersAt
<1>1. (~Cuts' => ~Cuts) /\ (~Late' => ~Late)
  BY LateStays DEF Next
<1>2. CASE Take(w)
  BY <1>2, SpinTaken
<1>3. CASE Read(w)
  <2> DEFINE q == [obj[fd] EXCEPT !.improv = TRUE]
             o == [q EXCEPT !.got = IF @ + inbox[fd] > Pieces THEN Pieces ELSE @ + inbox[fd],
                            !.of = IF q.got = 0 THEN sock[fd] ELSE @]
  <2>1. worker[w].pc = "read" /\ q \in Object /\ q.improv
    BY <1>0, <1>3 DEF Read, Object
  <2>2. obj' = [obj EXCEPT ![fd] = o] /\ Goes(w, "process") /\ UNCHANGED <<reactor, workq, main, mishap>>
    BY <1>3 DEF Read, ReadOnce
  <2>3. obj' \in [Fds -> Object] /\ fd \in Fds /\ obj \in [Fds -> Object]
    <3>1. ReadOnce(fd, q) /\ fd \in Fds /\ obj \in [Fds -> Object]
      BY <1>0, <1>3, <2>1 DEF Read, TypeOK
    <3> QED
      BY <1>0, <2>1, <3>1, ReadOnceType
  <2> HIDE DEF q
  <2>4. o \in Object /\ o.improv
    <3>1. o = obj'[fd]
      BY <2>2, <2>3
    <3>2. o.improv
      BY <2>1 DEF Object
    <3> QED
      BY <2>3, <3>1, <3>2
  <2> QED
    BY <2>1, <2>2, <2>4, SpinReported
<1>4. CASE ReadFailure(w) \/ (WriteRest(w) /\ Failed(fd) /\ Goes(w, "flag"))
  <2> DEFINE o == [obj[fd] EXCEPT !.improv = TRUE]
  <2>1. /\ worker[w].pc \in {"read", "write"} /\ Goes(w, "flag") /\ obj' = [obj EXCEPT ![fd] = o]
        /\ UNCHANGED <<reactor, workq, main, mishap>>
    BY <1>0, <1>4 DEF ReadFailure, WriteRest, Failed
  <2>2. o \in Object /\ o.improv
    BY <1>0, <2>1 DEF Object
  <2> QED
    BY <2>1, <2>2, SpinReported
<1>5. CASE WriteAll(w)
  <2> DEFINE o == [AfterSend(fd) EXCEPT !.improv = TRUE]
  <2>1. /\ worker[w].pc = "write" /\ (Rests(w) \/ Goes(w, "flag")) /\ obj' = [obj EXCEPT ![fd] = o]
        /\ UNCHANGED <<reactor, workq, main, mishap>>
    BY <1>5 DEF WriteAll
  <2>2. o \in Object /\ o.improv
    <3>1. AfterSend(fd) \in Object
      BY <1>0, <2>1, AfterSendType
    <3>2. o \in Object
      BY <3>1, ObjectFields
    <3> QED
      BY <3>1, <3>2 DEF Object
  <2> QED
    BY <2>1, <2>2, SpinReported
<1>6. CASE WriteRest(w) /\ ~(Failed(fd) /\ Goes(w, "flag"))
  <2>1. worker[w].pc = "write" /\ Rests(w) /\ UNCHANGED <<reactor, workq, main, mishap>>
    BY <1>6 DEF WriteRest
  <2>2. \E r \in AfterPart(fd) \cup {Fresh(obj[fd])} : obj' = [obj EXCEPT ![fd] = [r EXCEPT !.improv = TRUE]]
    <3>1. \/ \E r \in AfterPart(fd) : obj' = [obj EXCEPT ![fd] = [r EXCEPT !.improv = TRUE]]
          \/ obj' = [obj EXCEPT ![fd] = [Fresh(obj[fd]) EXCEPT !.improv = TRUE]]
      BY <1>0, <1>6, <2>1 DEF WriteRest, TypeOK
    <3> QED
      BY <3>1
  <2>3. PICK r \in AfterPart(fd) \cup {Fresh(obj[fd])} :
          obj' = [obj EXCEPT ![fd] = [r EXCEPT !.improv = TRUE]]
    BY <2>2
  <2>4. r \in Object
    BY <1>0, <2>1, <2>3, AfterPartType, ObjectFields
  <2> DEFINE o == [r EXCEPT !.improv = TRUE]
  <2>5. o \in Object /\ o.improv
    BY <2>4 DEF Object
  <2> QED
    BY <2>1, <2>3, <2>5, SpinReported
<1>7. CASE WriteForever(w)
  <2>1. /\ InHand(w) /\ worker'[w].pc = "stuck" /\ worker'[w].fd = fd
        /\ \A v \in Workers : v # w => worker'[v] = worker[v]
    BY <1>0, <1>7 DEF WriteForever, Goes, InHand, TypeOK
  <2>2. UNCHANGED <<reactor, workq, main, obj>>
    BY <1>7 DEF WriteForever
  <2> QED
    BY <1>1, <2>1, <2>2, SpinBeside
<1>8. CASE SetTimerFlag(w) \/ NeedMore(w) \/ Parse(w) \/ Respond(w) \/ Throw(w)
  <2>1. /\ UNCHANGED <<reactor, workq, main>> /\ worker[w].pc \notin {"idle"}
        /\ \A v \in Workers : v # w => worker'[v] = worker[v]
        /\ worker'[w].fd \in {fd, Null} /\ worker'[w].pc \in {"idle", "infer"}
    <3>1. UNCHANGED <<reactor, workq, main>> /\ worker[w].pc # "idle"
      BY <1>8 DEF SetTimerFlag, NeedMore, Parse, Respond, Throw
    <3>2. CASE Rests(w)
      BY <1>0, <3>1, <3>2 DEF Rests, TypeOK
    <3>3. CASE Parse(w)
      BY <1>0, <3>1, <3>3 DEF Parse, TypeOK
    <3> QED
      BY <1>8, <3>2, <3>3 DEF SetTimerFlag, NeedMore, Respond, Throw
  <2>2. \/ UNCHANGED obj
        \/ obj' = [obj EXCEPT ![fd].flag = TRUE]
        \/ \E b \in BOOLEAN : obj' = [obj EXCEPT ![fd].linger = b]
        \/ obj' = [obj EXCEPT ![fd].answer = worker[w].of]
        \/ obj' = [obj EXCEPT ![fd].attached = FALSE]
    BY <1>8 DEF SetTimerFlag, NeedMore, Parse, Respond, Throw
  <2>3. \A f \in Fds : obj'[f].improv = obj[f].improv
    <3>1. fd \in Fds /\ obj[fd] \in Object
      BY <1>0, <2>1
    <3> HIDE DEF fd
    <3>2. \A b \in BOOLEAN : \A c :
                              /\ [obj[fd] EXCEPT !.flag = TRUE].improv = obj[fd].improv
                              /\ [obj[fd] EXCEPT !.linger = b].improv = obj[fd].improv
                              /\ [obj[fd] EXCEPT !.answer = c].improv = obj[fd].improv
                              /\ [obj[fd] EXCEPT !.attached = FALSE].improv = obj[fd].improv
      BY <3>1 DEF Object
    <3>3. \/ UNCHANGED obj
          \/ \E o : obj' = [obj EXCEPT ![fd] = o] /\ o.improv = obj[fd].improv
      BY <2>2, <3>2
    <3> QED
      BY <1>0, <3>3 DEF TypeOK
  <2> QED
    BY <1>1, <2>1, <2>3, SpinBeside
<1> QED
  BY <1>2, <1>3, <1>4, <1>5, <1>6, <1>7, <1>8 DEF Work

\* Objects that the main thread changes by itself get improv from nowhere.
LEMMA FreshSilent ==
  ASSUME NEW o \in Object
  PROVE  ~Fresh(o).improv /\ ~[Fresh(o) EXCEPT !.attached = TRUE].improv
<1>1. Fresh(o) \in Object
  BY ObjectFields
<1>2. ~Fresh(o).improv
  BY DEF Fresh, Object
<1> QED
  BY <1>1, <1>2 DEF Object

LEMMA SpinEvents ==
  ASSUME LoopInv, FlagInv, ~Cuts' => ~Cuts, ~Late' => ~Late, NEW fd \in Fds,
         EventOn(fd) \/ ProactorSendAll(fd) \/ ProactorSendForever(fd)
  PROVE  FlagInv'
<1>0. TypeOK /\ obj[fd] \in Object
  BY DEF LoopInv, TypeOK
<1>1. CASE \E ev, s : ReactorAppend(fd, ev, s)
  BY <1>1, SpinBegins
<1>2. CASE ~\E ev, s : ReactorAppend(fd, ev, s)
  <2>1. main.pc = "wait" /\ main'.pc \notin {"spin", "flag"} /\ UNCHANGED <<reactor, worker>>
    BY <1>2 DEF EventOn, DealWithHangUp, ProactorRead, ProactorSendRest, ProactorSendAll,
                ProactorSendForever, Event
  <2>2. reactor => UNCHANGED workq
    BY <1>2 DEF EventOn, DealWithHangUp, ProactorRead, ProactorSendRest, ProactorSendAll,
                ProactorSendForever
  <2>3. \A f \in Fds : obj'[f].improv => obj[f].improv
    <3>1. CASE ProactorSendAll(fd)
      <4>1. obj' = [obj EXCEPT ![fd] = AfterSend(fd)]
        BY <3>1 DEF ProactorSendAll
      <4>2. AfterSend(fd).improv => obj[fd].improv
        BY <1>0, FreshSilent DEF AfterSend, Object
      <4> QED
        BY <1>0, <4>1, <4>2 DEF TypeOK
    <3>2. CASE ProactorSendRest(fd)
      <4>1. \E o \in AfterPart(fd) \cup {Fresh(obj[fd])} : obj' = [obj EXCEPT ![fd] = o]
        BY <1>0, <3>2 DEF ProactorSendRest, TypeOK
      <4>2. \A o \in AfterPart(fd) \cup {Fresh(obj[fd])} : o.improv => obj[fd].improv
        BY <1>0, FreshSilent DEF AfterPart, Object
      <4> QED
        BY <1>0, <4>1, <4>2 DEF TypeOK
    <3>3. CASE ProactorRead(fd)
      <4>1. PICK n, c : obj' = [obj EXCEPT ![fd] = [obj[fd] EXCEPT !.got = n, !.of = c]]
        BY <3>3 DEF ProactorRead, ReadOnce
      <4>2. [obj[fd] EXCEPT !.got = n, !.of = c].improv = obj[fd].improv
        BY <1>0 DEF Object
      <4> QED
        BY <1>0, <4>1, <4>2 DEF TypeOK
    <3>4. CASE DealWithHangUp(fd) \/ ProactorSendForever(fd)
      BY <3>4 DEF DealWithHangUp, ProactorSendForever
    <3> QED
      BY <1>2, <3>1, <3>2, <3>3, <3>4 DEF EventOn
  <2> QED
    BY <2>1, <2>2, <2>3, SpinElsewhere
<1> QED
  BY <1>1, <1>2

LEMMA SpinStep ==
  ASSUME LoopInv, ~Cuts => HeldOnce, FlagInv, [Next]_vars PROVE FlagInv'
<1>0. TypeOK /\ (~Cuts' => ~Cuts) /\ (~Late' => ~Late)
  BY LateStays DEF LoopInv
<1>1. ASSUME UNCHANGED <<reactor, obj, workq, worker, main>> PROVE FlagInv'
  BY <1>0, <1>1 DEF FlagInv, SpinInv, HandedOver, HandedOnce, ImprovAt, ImprovStays, ReactorOnly,
     InHand, WaitsFor, FlagAlone, Alone
<1>2. CASE UNCHANGED vars
  BY <1>1, <1>2 DEF vars, poolVars
<1>3. CASE Connect \/ SigAlrm \/ DealWithSignal \/ TimerHandler
  BY <1>1, <1>3 DEF Connect, SigAlrm, DealWithSignal, TimerHandler, poolVars
<1>4. ASSUME NEW fd \in Fds, Send(fd) \/ HangUp(fd) PROVE FlagInv'
  BY <1>1, <1>4 DEF Send, HangUp, poolVars
<1>5. CASE EdgeEvent \/ Refuse \/ AcceptFails
  <2>1. /\ main.pc \notin {"spin", "flag"} /\ main'.pc \notin {"spin", "flag"}
        /\ UNCHANGED <<reactor, obj, workq, worker>>
    BY <1>5 DEF EdgeEvent, Refuse, AcceptFails, Accepting, poolVars
  <2> QED
    BY <1>0, <2>1, SpinElsewhere
<1>6. ASSUME NEW fd \in Fds, DealClientData(fd) PROVE FlagInv'
  <2>1. /\ main.pc \notin {"spin", "flag"} /\ main' = main /\ UNCHANGED <<reactor, workq, worker>>
        /\ obj' = [obj EXCEPT ![fd] = [Fresh(obj[fd]) EXCEPT !.attached = TRUE]]
    BY <1>0, <1>6 DEF DealClientData, Accepting, AcceptsOn, poolVars, TypeOK
  <2>2. \A f \in Fds : obj'[f].improv => obj[f].improv
    BY <1>0, <2>1, FreshSilent DEF TypeOK
  <2> QED
    BY <1>0, <2>1, <2>2, SpinElsewhere
<1>7. ASSUME NEW w \in Workers, Take(w) \/ Work(w) \/ WriteAll(w) \/ WriteForever(w) \/ Throw(w)
      PROVE  FlagInv'
  BY <1>7, SpinWorkers
<1>8. CASE Spin
  BY <1>8, SpinLeft
<1> QED
  BY <1>0, <1>2, <1>3, <1>4, <1>5, <1>6, <1>7, <1>8, SpinEvents DEF Next, Listen

LEMMA FlagAlways == Spec => []FlagInv
<1>1. Init => FlagInv
  <2> SUFFICES ASSUME Init PROVE FlagInv
    OBVIOUS
  <2>1. /\ workq = << >> /\ main.pc = "wait" /\ \A w \in Workers : worker[w].pc = "idle"
        /\ \A fd \in Fds : ~obj[fd].improv
    BY DEF Init
  <2> QED
    BY <2>1 DEF FlagInv, SpinInv, HandedOver, HandedOnce, ImprovAt, ImprovStays, ReactorOnly, InHand,
       FlagAlone
<1>2. HoldInv /\ FlagInv /\ [Next]_vars => FlagInv'
  BY SpinStep DEF HoldInv
<1> QED
  BY <1>1, <1>2, HoldAlways, PTL DEF Spec

\* With nobody late a descriptor has one holder at most.
LEMMA OneHolder ==
  ASSUME LoopInv, HeldOnce, FlagInv, ~Cuts, ~Late, NEW fd \in Fds PROVE Holders(fd) <= 1
<1> DEFINE W == {w \in Workers : worker[w].fd = fd}
           U == {w \in Workers : Working(w, fd)}
<1>1. CASE \E w \in Workers : SetsFlag(w, fd)
  <2>1. PICK w \in Workers : worker[w].fd = fd /\ worker[w].pc = "flag"
    BY <1>1 DEF SetsFlag
  <2>2. Alone(w) /\ reactor
    BY <2>1 DEF FlagInv, FlagAlone, SpinInv, ReactorOnly
  <2>3. W = {w} /\ main.fd = fd
    BY <2>1, <2>2 DEF Alone
  <2>4. \A i \in DOMAIN workq : workq[i] # fd
    BY <2>1, <2>2 DEF FlagInv, SpinInv, HandedOver, WaitsFor, Alone
  <2>5. Queueing(fd) = 0 /\ Cardinality(W) = 1
    BY <2>3, <2>4, OneHandler, FS_Singleton
  <2>6. Holders(fd) = Queueing(fd) + Cardinality(W) + 0
    BY <2>3 DEF Holders
  <2> QED
    BY <2>5, <2>6
<1>2. CASE ~\E w \in Workers : SetsFlag(w, fd)
  <2>1. W = U
    BY <1>2 DEF SetsFlag, Working
  <2>2. Holders(fd) = Queueing(fd) + Cardinality(U) + IF armed[fd] # "none" /\ main.fd # fd THEN 1 ELSE 0
    BY <2>1 DEF Holders
  <2> HIDE DEF U
  <2>3. Queueing(fd) + Cardinality(U) \in {0, 1} /\ (armed[fd] # "none" => Queueing(fd) + Cardinality(U) = 0)
    BY OneHandler DEF U
  <2> QED
    BY <2>2, <2>3
<1> QED
  BY <1>1, <1>2

\* One-shot registration serialises the threads that work on one connection: as long as no
\* connection is closed under a worker, its descriptor is registered with epoll, in the queue
\* of the pool, or with one worker, and never in two of these places or twice in one, whatever
\* the number of threads and in both actor models; and if the main thread never goes on before a
\* worker has set timer_flag, that assignment, too, is made by the only thread that has the object.
THEOREM HandlersSerial == Spec => []Serial
<1>1. HoldInv /\ FlagInv => Serial
  BY OneHandler, OneHolder DEF HoldInv, Serial
<1> QED
  BY <1>1, HoldAlways, FlagAlways, PTL

-----------------------------------------------------------------------------
(* Whose answer a client gets *)

\* What an object may hold for the connection c: its answer or none, and its bytes or none.
Clean(o, c) == o.answer \in {0, c} /\ (o.got > 0 => o.of = c)

OwnObjects == \A fd \in Fds : sock[fd] # 0 => Clean(obj[fd], sock[fd])
OwnInfer   == \A w \in Workers : worker[w].pc = "infer" => worker[w].of = sock[worker[w].fd]
OwnReplies == \A c \in Conns : reply[c] \in {0, c}

Owned == OwnObjects /\ OwnInfer /\ OwnReplies

LEMMA CleanFields ==
  ASSUME NEW o \in Object, NEW c, Clean(o, c)
  PROVE  /\ \A b \in BOOLEAN : /\ Clean([o EXCEPT !.attached = b], c)
                               /\ Clean([o EXCEPT !.improv = b], c)
                               /\ Clean([o EXCEPT !.flag = b], c)
                               /\ Clean([o EXCEPT !.linger = b], c)
                               /\ Clean([o EXCEPT !.flag = b, !.improv = b], c)
         /\ \A s : Clean([o EXCEPT !.state = s], c) /\ Clean([o EXCEPT !.offset = s], c)
         /\ Clean([o EXCEPT !.answer = c], c)
         /\ Clean([o EXCEPT !.answer = 0, !.offset = "right"], c)
<1>1. \A b \in BOOLEAN : /\ Clean([o EXCEPT !.attached = b], c)
                         /\ Clean([o EXCEPT !.improv = b], c)
                         /\ Clean([o EXCEPT !.flag = b], c)
                         /\ Clean([o EXCEPT !.linger = b], c)
                         /\ Clean([o EXCEPT !.flag = b, !.improv = b], c)
  BY DEF Clean, Object
<1>2. \A s : Clean([o EXCEPT !.state = s], c) /\ Clean([o EXCEPT !.offset = s], c)
  BY DEF Clean, Object
<1>3. Clean([o EXCEPT !.answer = c], c) /\ Clean([o EXCEPT !.answer = 0, !.offset = "right"], c)
  BY DEF Clean, Object
<1> QED
  BY <1>1, <1>2, <1>3

LEMMA CleanFresh ==
  ASSUME NEW o \in Object, NEW c
  PROVE  Clean(Fresh(o), c) /\ Clean([Fresh(o) EXCEPT !.attached = TRUE], c)
         /\ Clean([Fresh(o) EXCEPT !.improv = TRUE], c)
<1>1. Fresh(o) \in Object /\ Fresh(o).answer = 0 /\ Fresh(o).got = 0
  <2>1. Fresh(o) \in Object
    BY ObjectFields
  <2>2. Fresh(o).answer = 0 /\ Fresh(o).got = 0
    BY DEF Fresh, Object
  <2> QED
    BY <2>1, <2>2
<1>2. Clean(Fresh(o), c)
  BY <1>1 DEF Clean
<1> QED
  BY <1>1, <1>2, CleanFields

LEMMA CleanPart ==
  ASSUME NEW fd, obj[fd] \in Object, NEW c, Clean(obj[fd], c), NEW p \in AfterPart(fd)
  PROVE  Clean(p, c)
<1>1. p = obj[fd] \/ p = [obj[fd] EXCEPT !.offset = "right"] \/ p = [obj[fd] EXCEPT !.offset = "short"]
  BY DEF AfterPart
<1>2. Clean([obj[fd] EXCEPT !.offset = "right"], c) /\ Clean([obj[fd] EXCEPT !.offset = "short"], c)
  BY CleanFields
<1> QED
  BY <1>1, <1>2

\* What is read is the connection's, since what was there before is.
LEMMA CleanRead ==
  ASSUME LoopInv, NEW fd \in Fds, NEW o \in Object, ReadOnce(fd, o), Clean(o, sock[fd])
  PROVE  Clean(obj'[fd], sock[fd])
<1> DEFINE n == IF o.got + inbox[fd] > Pieces THEN Pieces ELSE o.got + inbox[fd]
           c == IF o.got = 0 THEN sock[fd] ELSE o.of
<1>1. obj \in [Fds -> Object] /\ obj' = [obj EXCEPT ![fd] = [o EXCEPT !.got = n, !.of = c]]
  BY DEF ReadOnce, LoopInv, TypeOK
<1>2. c = sock[fd]
  <2>1. o.got \in Nat
    BY Numbers DEF Object
  <2> QED
    BY <2>1 DEF Clean
<1> HIDE DEF n, c
<1> QED
  BY <1>1, <1>2 DEF Clean, Object

\* A step that opens nothing keeps an object clean if it does so where it changes it.
LEMMA ObjectsKept ==
  ASSUME LoopInv, OpensNothing, OwnObjects, NEW fd \in Fds, NEW o,
         obj' = [obj EXCEPT ![fd] = o], sock[fd] # 0 => Clean(o, sock[fd])
  PROVE  OwnObjects'
<1>1. obj \in [Fds -> Object]
  BY DEF LoopInv, TypeOK
<1> QED
  BY <1>1 DEF OwnObjects, OpensNothing

LEMMA ObjectsSame ==
  ASSUME OpensNothing, OwnObjects, UNCHANGED obj PROVE OwnObjects'
  BY DEF OwnObjects, OpensNothing

\* What waits for the engine stays open, and so keeps its connection.
LEMMA InferKept ==
  ASSUME LoopInv, OpensNothing, HeldOnce', OwnInfer,
         \A v \in Workers : worker'[v].pc = "infer" => worker'[v] = worker[v]
  PROVE  OwnInfer'
<1> SUFFICES ASSUME NEW v \in Workers, worker'[v].pc = "infer"
             PROVE  worker'[v].of = sock'[worker'[v].fd]
  BY DEF OwnInfer
<1>1. worker'[v] = worker[v] /\ worker[v].pc = "infer" /\ worker[v].of = sock[worker[v].fd]
  BY DEF OwnInfer
<1>2. worker[v].fd \in Fds
  BY <1>1 DEF LoopInv, WorkersAt, TypeOK
<1>3. InPool(worker[v].fd)'
  BY <1>1, <1>2 DEF InPool, Working
<1>4. sock'[worker[v].fd] # 0
  BY <1>2, <1>3 DEF HeldOnce, PoolOpen
<1> QED
  BY <1>1, <1>2, <1>4 DEF OpensNothing

\* What is sent is what the object of the open connection holds for it.
LEMMA RepliesSent ==
  ASSUME LoopInv, Owned, NEW fd \in Fds, sock[fd] # 0, reply' = [reply EXCEPT ![sock[fd]] = obj[fd].answer]
  PROVE  OwnReplies'
<1>1. reply \in [Conns -> 0..MaxConns] /\ obj[fd].answer \in {0, sock[fd]}
  BY DEF LoopInv, TypeOK, Owned, OwnObjects, Clean
<1> QED
  BY <1>1 DEF Owned, OwnReplies

LEMMA OwnedEvents ==
  ASSUME LoopInv, HeldOnce', Owned, OpensNothing, NEW fd \in Fds,
         EventOn(fd) \/ ProactorSendAll(fd) \/ ProactorSendForever(fd)
  PROVE  Owned'
<1> DEFINE o == obj[fd]
           c == sock[fd]
<1>0. /\ TypeOK /\ o \in Object /\ OwnObjects /\ OwnInfer /\ OwnReplies
      /\ armed[fd] # "none" /\ UNCHANGED worker
  <2>1. armed[fd] # "none" /\ UNCHANGED worker
    BY DEF EventOn, DealWithHangUp, ProactorRead, ProactorSendRest, ReactorAppend, ProactorSendAll,
           ProactorSendForever, Event
  <2> QED
    BY <2>1 DEF LoopInv, TypeOK, Owned
<1>1. c # 0 /\ Clean(o, c)
  BY <1>0 DEF LoopInv, TimersInv, ArmedOpen, OwnObjects
<1>2. OwnInfer'
  BY <1>0, InferKept
<1>3. ASSUME UNCHANGED reply, UNCHANGED obj PROVE Owned'
  BY <1>0, <1>2, <1>3, ObjectsSame DEF Owned, OwnReplies
<1>4. ASSUME UNCHANGED reply, NEW p, obj' = [obj EXCEPT ![fd] = p], Clean(p, c) PROVE Owned'
  BY <1>0, <1>2, <1>4, ObjectsKept DEF Owned, OwnReplies
<1>5. CASE DealWithHangUp(fd) \/ ProactorSendForever(fd)
  BY <1>3, <1>5 DEF DealWithHangUp, ProactorSendForever
<1>6. CASE ProactorRead(fd)
  <2>1. ReadOnce(fd, o) /\ UNCHANGED reply
    BY <1>6 DEF ProactorRead
  <2>2. Clean(obj'[fd], c)
    BY <1>0, <1>1, <2>1, CleanRead
  <2>3. obj' = [obj EXCEPT ![fd] = obj'[fd]]
    BY <1>0, <2>1 DEF ReadOnce, TypeOK
  <2> QED
    BY <1>4, <2>1, <2>2, <2>3
<1>7. CASE ProactorSendAll(fd)
  <2>1. obj' = [obj EXCEPT ![fd] = AfterSend(fd)] /\ reply' = [reply EXCEPT ![c] = o.answer]
    BY <1>7 DEF ProactorSendAll, SendAll
  <2>2. Clean(AfterSend(fd), c)
    BY <1>0, <1>1, CleanFresh, CleanFields DEF AfterSend
  <2>3. OwnObjects'
    BY <1>0, <2>1, <2>2, ObjectsKept
  <2>4. OwnReplies'
    BY <1>1, <2>1, RepliesSent
  <2> QED
    BY <1>2, <2>3, <2>4 DEF Owned
<1>8. CASE ProactorSendRest(fd)
  <2>1. UNCHANGED reply
    BY <1>8 DEF ProactorSendRest
  <2>2. CASE \E p \in AfterPart(fd) : obj' = [obj EXCEPT ![fd] = p]
    <3>1. PICK p \in AfterPart(fd) : obj' = [obj EXCEPT ![fd] = p]
      BY <2>2
    <3>2. Clean(p, c)
      BY <1>0, <1>1, CleanPart
    <3> QED
      BY <1>4, <2>1, <3>1, <3>2
  <2>3. CASE obj' = [obj EXCEPT ![fd] = Fresh(o)]
    BY <1>0, <1>4, <2>1, <2>3, CleanFresh
  <2> QED
    BY <1>8, <2>2, <2>3 DEF ProactorSendRest
<1>9. ASSUME NEW ev, NEW s, ReactorAppend(fd, ev, s) PROVE Owned'
  <2>1. UNCHANGED obj \/ obj' = [obj EXCEPT ![fd] = [o EXCEPT !.state = s]]
    BY <1>0, <1>9 DEF ReactorAppend, TypeOK
  <2>2. UNCHANGED reply /\ Clean([o EXCEPT !.state = s], c)
    BY <1>0, <1>1, <1>9, CleanFields DEF ReactorAppend
  <2> QED
    BY <1>3, <1>4, <2>1, <2>2
<1> QED
  BY <1>5, <1>6, <1>7, <1>8, <1>9 DEF EventOn

LEMMA OwnedWorkers ==
  ASSUME LoopInv, HeldOnce, HeldOnce', Owned, OpensNothing, NEW w \in Workers,
         Take(w) \/ Work(w) \/ WriteAll(w) \/ WriteForever(w) \/ Throw(w)
  PROVE  Owned'
<1> DEFINE fd == worker[w].fd
           o == obj[fd]
           c == sock[fd]
<1>0. TypeOK /\ OwnObjects /\ OwnInfer /\ OwnReplies /\ obj \in [Fds -> Object]
  BY DEF LoopInv, TypeOK, Owned
<1>1. worker[w].pc # "idle" => fd \in Fds /\ o \in Object
  BY <1>0 DEF LoopInv, WorkersAt, TypeOK
<1>2. worker[w].pc \notin {"idle", "flag"} => c # 0
  <2> SUFFICES ASSUME worker[w].pc \notin {"idle", "flag"} PROVE c # 0
    OBVIOUS
  <2>1. InPool(fd) /\ fd \in Fds
    BY <1>1 DEF InPool, Working
  <2> QED
    BY <2>1 DEF HeldOnce, PoolOpen
<1>3. fd \in Fds /\ c # 0 => Clean(o, c)
  BY <1>0 DEF OwnObjects
<1>4. ASSUME NEW pc, pc # "infer", Goes(w, pc) PROVE OwnInfer'
  <2>1. \A v \in Workers : worker'[v].pc = "infer" => worker'[v] = worker[v]
    BY <1>0, <1>4 DEF Goes, TypeOK
  <2> QED
    BY <1>0, <2>1, InferKept
<1>5. ASSUME Rests(w) PROVE OwnInfer'
  <2>1. \A v \in Workers : worker'[v].pc = "infer" => worker'[v] = worker[v]
    BY <1>0, <1>5 DEF Rests, TypeOK
  <2> QED
    BY <1>0, <2>1, InferKept
<1>6. ASSUME UNCHANGED <<obj, reply>>, OwnInfer' PROVE Owned'
  BY <1>0, <1>6, ObjectsSame DEF Owned, OwnReplies
<1>7. ASSUME fd \in Fds, UNCHANGED reply, OwnInfer', NEW p, obj' = [obj EXCEPT ![fd] = p],
             c # 0 => Clean(p, c)
      PROVE  Owned'
  BY <1>0, <1>7, ObjectsKept DEF Owned, OwnReplies
<1>8. CASE Take(w)
  <2>1. \A v \in Workers : worker'[v].pc = "infer" => worker'[v] = worker[v]
    BY <1>0, <1>8 DEF Take, TypeOK
  <2>2. UNCHANGED <<obj, reply>>
    BY <1>8 DEF Take
  <2> QED
    BY <1>0, <1>6, <2>1, <2>2, InferKept
<1>9. CASE Read(w)
  <2>1. /\ ReadOnce(fd, [o EXCEPT !.improv = TRUE]) /\ Goes(w, "process") /\ UNCHANGED reply
        /\ fd \in Fds /\ o \in Object /\ c # 0
    BY <1>1, <1>2, <1>9 DEF Read
  <2>2. [o EXCEPT !.improv = TRUE] \in Object /\ Clean([o EXCEPT !.improv = TRUE], c)
    BY <1>3, <2>1, ObjectFields, CleanFields
  <2>3. Clean(obj'[fd], c)
    BY <2>1, <2>2, CleanRead
  <2>4. obj' = [obj EXCEPT ![fd] = obj'[fd]]
    BY <1>0, <2>1 DEF ReadOnce
  <2> QED
    BY <1>4, <1>7, <2>1, <2>3, <2>4
<1>10. CASE ReadFailure(w)
  <2>1. /\ obj' = [obj EXCEPT ![fd] = [o EXCEPT !.improv = TRUE]] /\ Goes(w, "flag") /\ UNCHANGED reply
        /\ fd \in Fds /\ o \in Object
    BY <1>0, <1>1, <1>10 DEF ReadFailure, Failed
  <2> QED
    BY <1>3, <1>4, <1>7, <2>1, CleanFields
<1>11. CASE WriteAll(w)
  <2>1. /\ SendAll(fd) /\ (Rests(w) \/ Goes(w, "flag")) /\ fd \in Fds /\ o \in Object /\ c # 0
        /\ obj' = [obj EXCEPT ![fd] = [AfterSend(fd) EXCEPT !.improv = TRUE]]
    BY <1>1, <1>2, <1>11 DEF WriteAll
  <2>2. AfterSend(fd) \in Object /\ Clean(AfterSend(fd), c)
    BY <1>0, <1>3, <2>1, AfterSendType, CleanFresh, CleanFields DEF AfterSend
  <2>3. OwnObjects'
    BY <1>0, <2>1, <2>2, CleanFields, ObjectsKept
  <2>4. OwnReplies'
    BY <2>1, RepliesSent DEF SendAll
  <2>5. OwnInfer'
    BY <1>4, <1>5, <2>1
  <2> QED
    BY <2>3, <2>4, <2>5 DEF Owned
<1>12. CASE WriteRest(w)
  <2>1. UNCHANGED reply /\ (Rests(w) \/ Goes(w, "flag")) /\ fd \in Fds /\ o \in Object /\ c # 0
    BY <1>1, <1>2, <1>12 DEF WriteRest
  <2>2. OwnInfer'
    BY <1>4, <1>5, <2>1
  <2>3. CASE \E p \in AfterPart(fd) : obj' = [obj EXCEPT ![fd] = [p EXCEPT !.improv = TRUE]]
    <3>1. PICK p \in AfterPart(fd) : obj' = [obj EXCEPT ![fd] = [p EXCEPT !.improv = TRUE]]
      BY <2>3
    <3>2. p \in Object
      BY <1>0, <2>1, AfterPartType
    <3>3. Clean(p, c)
      BY <1>3, <2>1, CleanPart
    <3>4. Clean([p EXCEPT !.improv = TRUE], c)
      BY <3>2, <3>3, CleanFields
    <3> QED
      BY <1>7, <2>1, <2>2, <3>1, <3>4
  <2>4. CASE obj' = [obj EXCEPT ![fd] = [Fresh(o) EXCEPT !.improv = TRUE]]
    BY <1>7, <2>1, <2>2, <2>4, CleanFresh
  <2>5. CASE obj' = [obj EXCEPT ![fd] = [o EXCEPT !.improv = TRUE]]
    BY <1>3, <1>7, <2>1, <2>2, <2>5, CleanFields
  <2>6. \/ \E p \in AfterPart(fd) : obj' = [obj EXCEPT ![fd] = [p EXCEPT !.improv = TRUE]]
        \/ obj' = [obj EXCEPT ![fd] = [Fresh(o) EXCEPT !.improv = TRUE]]
        \/ obj' = [obj EXCEPT ![fd] = [o EXCEPT !.improv = TRUE]]
    BY <1>0, <1>12, <2>1 DEF WriteRest, Failed
  <2> QED
    BY <2>3, <2>4, <2>5, <2>6
<1>13. CASE WriteForever(w) \/ NeedMore(w)
  <2>1. UNCHANGED <<obj, reply>> /\ (Rests(w) \/ Goes(w, "stuck"))
    BY <1>13 DEF WriteForever, NeedMore
  <2> QED
    BY <1>4, <1>5, <1>6, <2>1
<1>14. CASE SetTimerFlag(w)
  <2>1. /\ obj' = [obj EXCEPT ![fd] = [o EXCEPT !.flag = TRUE]] /\ Rests(w) /\ UNCHANGED reply
        /\ fd \in Fds /\ o \in Object
    BY <1>0, <1>1, <1>14 DEF SetTimerFlag
  <2> QED
    BY <1>3, <1>5, <1>7, <2>1, CleanFields
<1>15. CASE Parse(w)
  <2>1. PICK b \in BOOLEAN : obj' = [obj EXCEPT ![fd] = [o EXCEPT !.linger = b]]
    BY <1>15 DEF Parse
  <2>2. UNCHANGED reply /\ fd \in Fds /\ o \in Object /\ c # 0 /\ o.got = Pieces
    BY <1>1, <1>2, <1>15 DEF Parse
  <2>3. Clean([o EXCEPT !.linger = b], c) /\ o.of = c
    BY <1>3, <2>2, CleanFields, Numbers DEF Clean
  <2>4. OwnInfer'
    <3>1. /\ worker' = [worker EXCEPT ![w] = [worker[w] EXCEPT !.pc = "infer", !.of = o.of]]
          /\ UNCHANGED sock /\ worker \in [Workers -> [pc: WorkerPCs, fd: Fds \cup {Null}, of: 0..MaxConns]]
      BY <1>0, <1>15 DEF Parse, TypeOK
    <3>2. worker'[w].of = c /\ worker'[w].fd = fd /\ \A v \in Workers : v # w => worker'[v] = worker[v]
      BY <2>3, <3>1
    <3> QED
      BY <1>0, <3>1, <3>2 DEF OwnInfer
  <2> QED
    BY <1>7, <2>1, <2>2, <2>3, <2>4
<1>16. CASE Respond(w)
  <2>1. /\ obj' = [obj EXCEPT ![fd] = [o EXCEPT !.answer = worker[w].of]] /\ Rests(w) /\ UNCHANGED reply
        /\ fd \in Fds /\ o \in Object /\ c # 0
    BY <1>0, <1>1, <1>2, <1>16 DEF Respond
  <2>2. worker[w].of = c
    BY <1>0, <1>16 DEF Respond, OwnInfer
  <2> QED
    BY <1>3, <1>5, <1>7, <2>1, <2>2, CleanFields
<1>17. CASE Throw(w)
  <2>1. Rests(w) /\ UNCHANGED reply /\ fd \in Fds /\ o \in Object
    BY <1>1, <1>17 DEF Throw
  <2>2. UNCHANGED obj \/ obj' = [obj EXCEPT ![fd] = [o EXCEPT !.attached = FALSE]]
    BY <1>0, <1>17 DEF Throw
  <2> QED
    BY <1>3, <1>5, <1>6, <1>7, <2>1, <2>2, CleanFields
<1> QED
  BY <1>8, <1>9, <1>10, <1>11, <1>12, <1>13, <1>14, <1>15, <1>16, <1>17 DEF Work

LEMMA OwnedAccept ==
  ASSUME LoopInv, HeldOnce, Owned, NEW fd \in Fds, DealClientData(fd) PROVE Owned'
<1>0. TypeOK /\ obj[fd] \in Object /\ OwnObjects /\ OwnInfer /\ OwnReplies /\ PoolOpen
  BY DEF LoopInv, TypeOK, Owned, HeldOnce
<1>1. /\ sock[fd] = 0 /\ UNCHANGED <<reply, worker>>
      /\ obj' = [obj EXCEPT ![fd] = [Fresh(obj[fd]) EXCEPT !.attached = TRUE]]
      /\ \A f \in Fds : f # fd => sock'[f] = sock[f]
  BY <1>0 DEF DealClientData, TypeOK
<1>2. OwnObjects'
  BY <1>0, <1>1, CleanFresh DEF OwnObjects, TypeOK
<1>3. OwnInfer'
  <2> SUFFICES ASSUME NEW w \in Workers, worker[w].pc = "infer"
               PROVE  worker[w].of = sock'[worker[w].fd]
    BY <1>1 DEF OwnInfer
  <2>1. worker[w].fd \in Fds
    BY DEF LoopInv, WorkersAt, TypeOK
  <2>2. InPool(worker[w].fd)
    BY <2>1 DEF InPool, Working
  <2>3. worker[w].fd # fd
    BY <1>0, <1>1, <2>1, <2>2 DEF PoolOpen
  <2> QED
    BY <1>0, <1>1, <2>1, <2>3 DEF OwnInfer
<1> QED
  BY <1>0, <1>1, <1>2, <1>3 DEF Owned, OwnReplies

LEMMA OwnedStep ==
  ASSUME LoopInv, HeldOnce, Owned, [Next]_vars, ~Cuts' PROVE Owned'
<1>0. HeldOnce' /\ TypeOK /\ OwnObjects /\ OwnInfer /\ OwnReplies
  BY HoldStep DEF Owned, LoopInv
<1>1. ASSUME NEW fd \in Fds, DealClientData(fd) PROVE Owned'
  BY <1>1, OwnedAccept
<1>2. ASSUME \A fd \in Fds : ~DealClientData(fd) PROVE Owned'
  <2>0. OpensNothing
    BY <1>2, StepsOpenNothing
  <2>1. ASSUME UNCHANGED <<reply, obj, worker>> PROVE Owned'
    <3>1. OwnInfer'
      BY <1>0, <2>0, <2>1, InferKept
    <3> QED
      BY <1>0, <2>0, <2>1, <3>1, ObjectsSame DEF Owned, OwnReplies
  <2>2. CASE UNCHANGED vars
    BY <2>1, <2>2
  <2>3. CASE Connect \/ SigAlrm \/ DealWithSignal
    BY <2>1, <2>3 DEF Connect, SigAlrm, DealWithSignal
  <2>4. ASSUME NEW fd \in Fds, Send(fd) \/ HangUp(fd) PROVE Owned'
    BY <2>1, <2>4 DEF Send, HangUp
  <2>5. CASE Listen \/ AcceptFails
    BY <1>2, <2>1, <2>5 DEF Listen, EdgeEvent, Refuse, AcceptFails
  <2>6. CASE SpinEnd \/ TimerHandler
    BY <2>1, <2>6 DEF SpinEnd, TimerHandler
  <2>7. CASE ReadFlag
    <3> DEFINE fd == main.fd
    <3>1. fd \in Fds /\ obj[fd] \in Object /\ UNCHANGED <<reply, worker>>
      BY <1>0, <2>7 DEF ReadFlag, LoopInv, MainAt, TypeOK
    <3>2. obj' = [obj EXCEPT ![fd] = [obj[fd] EXCEPT !.flag = FALSE, !.improv = FALSE]]
      BY <1>0, <2>7, <3>1 DEF ReadFlag, ClearFlags, TypeOK
    <3> HIDE DEF fd
    <3>3. sock[fd] # 0 => Clean([obj[fd] EXCEPT !.flag = FALSE, !.improv = FALSE], sock[fd])
      BY <1>0, <3>1, CleanFields DEF OwnObjects
    <3>4. OwnObjects'
      BY <1>0, <2>0, <3>1, <3>2, <3>3, ObjectsKept
    <3>5. OwnInfer'
      BY <1>0, <2>0, <3>1, InferKept
    <3> QED
      BY <1>0, <3>1, <3>4, <3>5 DEF Owned, OwnReplies
  <2> QED
    BY <1>0, <2>0, <2>2, <2>3, <2>4, <2>5, <2>6, <2>7, OwnedEvents, OwnedWorkers DEF Next, Spin
<1> QED
  BY <1>1, <1>2

\* Each client gets the answer to its own request and no other, although descriptors, http_conns
\* and buffers go from one connection to the next: as long as no connection is closed under a
\* worker, what an object holds, and what a worker has taken to the engine, belongs to the
\* connection that is on the descriptor now.
THEOREM RepliesOwn == Spec => []OwnReply
<1> DEFINE Inv == HoldInv /\ (~Cuts => Owned)
<1>1. Init => Owned
  BY DEF Init, Owned, OwnObjects, OwnInfer, OwnReplies
<1>2. Init => Inv
  BY <1>1, InitInv, HoldInit DEF HoldInv
<1>3. Inv /\ [Next]_vars => Inv'
  <2>1. [Next]_vars /\ ~Cuts' => ~Cuts
    BY MishapsStay DEF Cuts
  <2>2. HoldInv /\ [Next]_vars => HoldInv'
    BY <2>1, LoopStep, HoldStep DEF HoldInv
  <2> QED
    BY <2>1, <2>2, OwnedStep DEF HoldInv
<1>4. Inv => OwnReply
  BY DEF Owned, OwnReplies, OwnReply
<1> QED
  BY <1>2, <1>3, <1>4, PTL DEF Spec
=============================================================================

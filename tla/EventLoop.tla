----------------------------- MODULE EventLoop -----------------------------
(***************************************************************************)
(* The gateway around the scheduler: the main thread's epoll loop with its *)
(* idle timers (WebServer), the pool of worker threads (threadpool) and    *)
(* the connection objects they share (http_conn), in both actor models.    *)
(* The proactor reads and writes in the main thread and leaves process to  *)
(* the pool; in the reactor the pool reads and writes, too, while the main *)
(* thread spins on the object's improv flag.                               *)
(*                                                                         *)
(* A file descriptor is the index of its socket, of its http_conn and of   *)
(* its users_timer entry, and is given again once it is closed.  Each      *)
(* accepted connection has a number, which the code does not know; it      *)
(* stands for the timer allocated for the connection and, in ghost fields, *)
(* for whose bytes and whose answer an object holds.  A request is Pieces  *)
(* reads long; what it says is left out, and so are the engine and the     *)
(* scheduler, which answer sooner or later.                                *)
(*                                                                         *)
(* epoll_wait is taken to return one event at a time, in any order.  Time  *)
(* is counted in ticks of the SIGALRM timer, which come late when the main *)
(* thread is held up: a connection may expire at any tick, and does at the *)
(* one after it has survived IdleTicks of them (three in the code).        *)
(***************************************************************************)
EXTENDS Integers, Sequences, FiniteSets

CONSTANTS
  Fds,          \* descriptors for connections
  Workers,      \* threads of the pool
  MaxConns,     \* bound on the connections accepted
  MaxRequests,  \* bound on the requests of one connection
  Pieces,       \* reads that make a request complete
  MaxQueue,     \* m_max_requests of the pool
  UserLimit,    \* MAX_FD
  IdleTicks,    \* ticks that a quiet connection survives at most
  Null

ASSUME LoopAssumption == /\ IsFiniteSet(Fds) /\ IsFiniteSet(Workers)
                         /\ {MaxConns, MaxRequests, Pieces, MaxQueue} \subseteq Nat \ {0}
                         /\ {UserLimit, IdleTicks} \subseteq Nat

VARIABLES
  reactor,    \* m_actormodel, chosen by the configuration
  listenET,   \* m_LISTENTrigmode: edge-triggered
  alarm,      \* SIGALRM: "set", "pipe" (written to it), "timeout" (read); "off": none comes,
              \*   the behaviour is over before the first one
  backlog,    \* clients that wait to be accepted
  edge,       \* epoll has an edge of the listening socket to report
  sock,       \* the connection on each descriptor, 0 if it is closed
  armed,      \* what epoll waits for on it: "none", "in", "out"; one-shot
  hup,        \* the client has hung up
  inbox,      \* pieces that have arrived and are not read
  asked,      \* client: pieces it has sent of its request
  requests,   \* client: the requests it has completed (bound)
  reply,      \* ghost: for whom the answer was that the client got last
  obj,        \* users: the http_conn of each descriptor
  timer,      \* the util_timer of each connection, Null before and after its life
  utimer,     \* users_timer[fd].timer; not reset when the timer is freed
  users,      \* m_user_count
  conns,      \* ghost: connections accepted or refused
  workq,      \* m_workqueue
  main,       \* the main thread: where it is, and the descriptor it deals with
  worker,     \* each pool thread: where it is, its object and, ghost, whose request
  mishap      \* ghost: what has happened that the properties have to exclude

listenVars == <<listenET, backlog, edge>>
sockVars   == <<sock, armed, hup, inbox>>
clientVars == <<asked, requests, reply>>
timerVars  == <<timer, utimer>>
poolVars   == <<workq, worker>>
vars == <<reactor, alarm, listenVars, sockVars, clientVars, obj, timerVars, users, conns, poolVars, main, mishap>>

-----------------------------------------------------------------------------
Conns == 1..MaxConns

\* http_conn: attached is m_sockfd # -1; got the pieces in m_read_buf, which begin with those
\* of whom; answer is whose response there is to send (bytes_to_send > 0); offset tells whether
\* m_iv[0] fits what is left of it: write subtracts bytes_have_send, which is a sum, from
\* iov_len each time, and so is wrong from the second time on ("short").
Object == [attached: BOOLEAN, got: 0..Pieces, of: 0..MaxConns, answer: 0..MaxConns,
           offset: {"none", "right", "short"}, linger: BOOLEAN, state: {"read", "write"}, improv: BOOLEAN, flag: BOOLEAN]

Timer == [fd: Fds, age: 0..IdleTicks]

ASSUME NullAssumption == Null \notin Fds \cup Timer

WorkerPCs == {"idle", "read", "process", "infer", "write", "flag", "stuck"}

\* Mutant: m_read_idx keeps its value.
FreshKeepsBytes(o) == [o EXCEPT !.answer = 0, !.offset = "none", !.linger = FALSE, !.state = "read",
                                !.improv = FALSE, !.flag = FALSE]

\* http_conn::init()
Fresh(o) == [o EXCEPT !.got = 0, !.of = 0, !.answer = 0, !.offset = "none", !.linger = FALSE,
                      !.state = "read", !.improv = FALSE, !.flag = FALSE]

Init ==
  /\ reactor \in BOOLEAN
  /\ alarm \in {"off", "set"}
  /\ listenET \in BOOLEAN /\ backlog = 0 /\ edge = FALSE
  /\ sock = [fd \in Fds |-> 0]
  /\ armed = [fd \in Fds |-> "none"]
  /\ hup = [fd \in Fds |-> FALSE]
  /\ inbox = [fd \in Fds |-> 0]
  /\ asked = [fd \in Fds |-> 0]
  /\ requests = [fd \in Fds |-> 0]
  /\ reply = [c \in Conns |-> 0]
  /\ obj = [fd \in Fds |-> [attached |-> FALSE, got |-> 0, of |-> 0, answer |-> 0, offset |-> "none",
                            linger |-> FALSE, state |-> "read", improv |-> FALSE, flag |-> FALSE]]
  /\ timer = [c \in Conns |-> Null]
  /\ utimer = [fd \in Fds |-> 0]
  /\ users = 0
  /\ conns = 0
  /\ workq = << >>
  /\ main = [pc |-> "wait", fd |-> Null]
  /\ worker = [w \in Workers |-> [pc |-> "idle", fd |-> Null, of |-> 0]]
  /\ mishap = {}

-----------------------------------------------------------------------------
(* The clients *)

\* A client asks for a connection; the kernel's backlog takes all of them.
Connect ==
  /\ conns + backlog < MaxConns
  /\ backlog' = backlog + 1
  /\ edge' = listenET
  /\ UNCHANGED <<reactor, alarm, listenET, sockVars, clientVars, obj, timerVars, users, conns, poolVars,
                 main, mishap>>

\* The next piece of a request, or the first of another one after the answer.
Send(fd) ==
  /\ sock[fd] # 0 /\ ~hup[fd]
  /\ asked[fd] < Pieces /\ requests[fd] < MaxRequests
  /\ asked' = [asked EXCEPT ![fd] = @ + 1]
  /\ inbox' = [inbox EXCEPT ![fd] = @ + 1]
  /\ UNCHANGED <<reactor, alarm, listenVars, sock, armed, hup, requests, reply, obj, timerVars, users, conns,
                 poolVars, main, mishap>>

HangUp(fd) ==
  /\ sock[fd] # 0 /\ ~hup[fd]
  /\ hup' = [hup EXCEPT ![fd] = TRUE]
  /\ UNCHANGED <<reactor, alarm, listenVars, sock, armed, inbox, clientVars, obj, timerVars, users, conns,
                 poolVars, main, mishap>>

-----------------------------------------------------------------------------
(* What both kinds of threads do to sockets and objects *)

\* Mutant: the descriptor is left as it is.
NotRearmed(fd, ev) == UNCHANGED armed

\* modfd, on a descriptor that is not registered, fails and its result is ignored.
Rearm(fd, ev) == armed' = IF sock[fd] = 0 THEN armed ELSE [armed EXCEPT ![fd] = ev]

\* close, which also ends the registration with epoll.
CloseSockets(fds) ==
  /\ sock'  = [fd \in Fds |-> IF fd \in fds THEN 0 ELSE sock[fd]]
  /\ armed' = [fd \in Fds |-> IF fd \in fds THEN "none" ELSE armed[fd]]
  /\ hup'   = [fd \in Fds |-> IF fd \in fds THEN FALSE ELSE hup[fd]]
  /\ inbox' = [fd \in Fds |-> IF fd \in fds THEN 0 ELSE inbox[fd]]
  /\ asked' = [fd \in Fds |-> IF fd \in fds THEN 0 ELSE asked[fd]]
  /\ requests' = [fd \in Fds |-> IF fd \in fds THEN 0 ELSE requests[fd]]

\* read_once takes what has arrived; it fails if nothing has, or the client may have reset the
\* connection.
ReadOnce(fd, o) ==
  /\ inbox[fd] > 0
  /\ obj' = [obj EXCEPT ![fd] = [o EXCEPT !.got = IF @ + inbox[fd] > Pieces THEN Pieces ELSE @ + inbox[fd],
                                        !.of = IF o.got = 0 THEN sock[fd] ELSE @]]
  /\ inbox' = [inbox EXCEPT ![fd] = 0]

ReadFails(fd) == inbox[fd] = 0 \/ hup[fd]

\* write: the whole response goes out and epoll waits for the next request ...
SendAll(fd) ==
  /\ obj[fd].answer # 0 /\ obj[fd].offset # "short"
  /\ sock[fd] # 0
  /\ reply' = [reply EXCEPT ![sock[fd]] = obj[fd].answer]
  /\ asked' = [asked EXCEPT ![fd] = 0]
  /\ requests' = [requests EXCEPT ![fd] = @ + 1]
  /\ Rearm(fd, "in")

\* ... after which the object starts afresh, if the connection is kept ...
AfterSend(fd) == IF obj[fd].linger THEN Fresh(obj[fd])
                 ELSE [obj[fd] EXCEPT !.answer = 0, !.offset = "right"]

\* ... or a part of it, or nothing, because the socket's buffer is full ...
SendPart(fd)  == obj[fd].answer # 0 /\ sock[fd] # 0 /\ Rearm(fd, "out")
AfterPart(fd) == {obj[fd], [obj[fd] EXCEPT !.offset = IF @ = "none" THEN "right" ELSE "short"]}

\* ... or the part that a second part makes m_iv[0] leave out remains, and writev is called
\* with nothing to send, forever; or there is no response ...
SendForever(fd) == obj[fd].answer # 0 /\ sock[fd] # 0 /\ obj[fd].offset # "none"
SendNothing(fd) == obj[fd].answer = 0 /\ Rearm(fd, "in")

\* ... or writev fails.
SendFails(fd) == obj[fd].answer # 0 /\ (sock[fd] = 0 \/ hup[fd])

-----------------------------------------------------------------------------
(* The main thread *)

\* Mutant: users_timer[fd].timer is not set.
SetTimerOnly(fd, c) ==
  /\ timer' = [timer EXCEPT ![c] = [fd |-> fd, age |-> 0]]
  /\ UNCHANGED utimer

SetTimer(fd, c) ==
  /\ timer' = [timer EXCEPT ![c] = [fd |-> fd, age |-> 0]]
  /\ utimer' = [utimer EXCEPT ![fd] = c]

\* The listening socket.  A level-triggered one is ready while somebody waits, and one is accepted
\* per event; an edge-triggered one is ready once after a client has come, and is emptied.
EdgeEvent ==
  /\ main.pc = "wait"
  /\ edge
  /\ edge' = FALSE
  /\ main' = [pc |-> "accept", fd |-> Null]
  /\ UNCHANGED <<reactor, alarm, listenET, backlog, sockVars, clientVars, obj, timerVars, users,
                 conns, poolVars, mishap>>

Accepting == main.pc = IF listenET THEN "accept" ELSE "wait"

\* Mutant: an edge-triggered socket is treated like the other.
AcceptsOne == main' = [pc |-> "wait", fd |-> Null]

AcceptsOn == UNCHANGED main

\* dealclientdata and timer: the connection gets the descriptor's object and a new timer.
DealClientData(fd) ==
  /\ Accepting
  /\ backlog > 0
  /\ sock[fd] = 0
  /\ users < UserLimit
  /\ backlog' = backlog - 1
  /\ conns' = conns + 1
  /\ sock' = [sock EXCEPT ![fd] = conns + 1]
  /\ armed' = [armed EXCEPT ![fd] = "in"]
  /\ users' = users + 1
  /\ obj' = [obj EXCEPT ![fd] = [Fresh(@) EXCEPT !.attached = TRUE]]
  /\ SetTimer(fd, conns + 1)
  /\ AcceptsOn
  /\ UNCHANGED <<reactor, alarm, listenET, edge, hup, inbox, clientVars, poolVars, mishap>>

\* An edge-triggered socket is left with clients that wait.
Leftover(n) == IF listenET /\ n > 0 THEN {"left"} ELSE {}

\* Too many users: the connection is refused and closed, and the loop ends.
Refuse ==
  /\ Accepting
  /\ backlog > 0
  /\ users >= UserLimit
  /\ backlog' = backlog - 1
  /\ conns' = conns + 1
  /\ main' = [pc |-> "wait", fd |-> Null]
  /\ mishap' = mishap \cup Leftover(backlog')
  /\ UNCHANGED <<reactor, alarm, listenET, edge, sockVars, clientVars, obj, timerVars, users, poolVars>>

\* accept fails, because nobody waits or there is no descriptor left.
AcceptFails ==
  /\ main.pc = "accept"
  /\ backlog = 0 \/ (users < UserLimit /\ \A fd \in Fds : sock[fd] # 0)
  /\ main' = [pc |-> "wait", fd |-> Null]
  /\ mishap' = mishap \cup Leftover(backlog)
  /\ UNCHANGED <<reactor, alarm, listenVars, sockVars, clientVars, obj, timerVars, users, conns, poolVars>>

\* The timer that the main thread finds at a descriptor, and is about to use.
TimerAt(fd) == utimer[fd]

\* adjust_timer
AdjustTimer(fd) == timer' = [timer EXCEPT ![TimerAt(fd)].age = 0]

\* Mutant: del_timer is left out.
CloseKeepTimer(fd) ==
  /\ CloseSockets({fd})
  /\ users' = users - 1
  /\ UNCHANGED timer

\* deal_timer: cb_func, which does not touch the object, and del_timer.
DealTimer(fd) ==
  /\ CloseSockets({fd})
  /\ users' = users - 1
  /\ timer' = [timer EXCEPT ![TimerAt(fd)] = Null]

Event(fd, ev) == main.pc = "wait" /\ armed[fd] = ev

\* Mutant: no EPOLLONESHOT.
NotOneShot(fd) == armed
Disarmed(fd) == [armed EXCEPT ![fd] = "none"]

\* EPOLLRDHUP, EPOLLHUP or EPOLLERR, tested before the others; or read_once or write, in the
\* main thread, finds out.
DealWithHangUp(fd) ==
  /\ main.pc = "wait" /\ armed[fd] # "none" /\ hup[fd]
  /\ DealTimer(fd)
  /\ UNCHANGED <<reactor, alarm, listenVars, reply, obj, utimer, conns, poolVars, main, mishap>>

\* Mutant: one too many.
FullLate == Len(workq) > MaxQueue

\* append and append_p return false, which nobody looks at.
Full == Len(workq) >= MaxQueue

\* dealwithread, proactor: the main thread reads and leaves the object to the pool.
ProactorRead(fd) ==
  /\ ~reactor
  /\ Event(fd, "in") /\ ~hup[fd]
  /\ ReadOnce(fd, obj[fd])
  /\ armed' = Disarmed(fd)
  /\ IF Full
       THEN mishap' = mishap \cup {"dropped"} /\ UNCHANGED workq
       ELSE workq' = Append(workq, fd) /\ UNCHANGED mishap
  /\ AdjustTimer(fd)
  /\ UNCHANGED <<reactor, alarm, listenVars, sock, hup, clientVars, utimer, users, conns, worker, main>>

\* dealwithwrite, proactor: the main thread writes; a response that is sent in full and is the
\* last one of its connection closes it.
ProactorSendAll(fd) ==
  /\ ~reactor
  /\ Event(fd, "out") /\ ~hup[fd]
  /\ obj' = [obj EXCEPT ![fd] = AfterSend(fd)]
  /\ IF obj[fd].linger
       THEN SendAll(fd) /\ AdjustTimer(fd) /\ UNCHANGED <<sock, hup, inbox, users>>
       ELSE /\ obj[fd].answer # 0 /\ obj[fd].offset # "short"
            /\ reply' = [reply EXCEPT ![sock[fd]] = obj[fd].answer]
            /\ DealTimer(fd)
  /\ UNCHANGED <<reactor, alarm, listenVars, utimer, conns, poolVars, main, mishap>>

ProactorSendRest(fd) ==
  /\ ~reactor
  /\ Event(fd, "out") /\ ~hup[fd]
  /\ \/ SendPart(fd) /\ \E o \in AfterPart(fd) : obj' = [obj EXCEPT ![fd] = o]
     \/ SendNothing(fd) /\ obj' = [obj EXCEPT ![fd] = Fresh(@)]
  /\ AdjustTimer(fd)
  /\ UNCHANGED <<reactor, alarm, listenVars, sock, hup, inbox, clientVars, utimer, users, conns, poolVars, main,
                 mishap>>

ProactorSendForever(fd) ==
  /\ ~reactor
  /\ Event(fd, "out") /\ ~hup[fd]
  /\ SendForever(fd)
  /\ armed' = Disarmed(fd)
  /\ main' = [pc |-> "stuck", fd |-> fd]
  /\ mishap' = mishap \cup {"stuck"}
  /\ UNCHANGED <<reactor, alarm, listenVars, sock, hup, inbox, clientVars, obj, timerVars, users, conns, poolVars>>

\* dealwithread and dealwithwrite, reactor: append, then spin until improv is set.
ReactorAppend(fd, ev, s) ==
  /\ reactor
  /\ Event(fd, ev) /\ ~hup[fd]
  /\ ev = "in" => inbox[fd] > 0
  /\ armed' = Disarmed(fd)
  /\ AdjustTimer(fd)
  /\ IF Full
       THEN UNCHANGED <<workq, obj>>
       ELSE workq' = Append(workq, fd) /\ obj' = [obj EXCEPT ![fd].state = s]
  /\ main' = [pc |-> "spin", fd |-> fd]
  /\ UNCHANGED <<reactor, alarm, listenVars, sock, hup, inbox, clientVars, utimer, users, conns, worker, mishap>>

\* improv is set; timer_flag is read after it.
SpinEnd ==
  /\ main.pc = "spin"
  /\ obj[main.fd].improv
  /\ main' = [main EXCEPT !.pc = "flag"]
  /\ UNCHANGED <<reactor, alarm, listenVars, sockVars, clientVars, obj, timerVars, users, conns, poolVars, mishap>>

\* A connection is closed while the pool has it: while it is queued, or a worker reads, handles or
\* writes.  (A worker that has no more to do than to set timer_flag is a case of its own, below.)
Working(w, fd) == worker[w].fd = fd /\ worker[w].pc # "flag"
InPool(fd) == (\E i \in DOMAIN workq : workq[i] = fd) \/ (\E w \in Workers : Working(w, fd))
Cut(fds) == IF \E fd \in fds : InPool(fd) THEN {"cut"} ELSE {}

\* The main thread goes on when improv is set, and timer_flag is set after it: the worker
\* may still have that to do when the connection is in other hands.
SetsFlag(w, fd) == worker[w].fd = fd /\ worker[w].pc = "flag"
FlagComesLate(fd) == IF \E w \in Workers : SetsFlag(w, fd) THEN {"late"} ELSE {}

ClearFlags(fd) == obj' = [obj EXCEPT ![fd].flag = FALSE, ![fd].improv = FALSE]

ReadFlag ==
  LET fd == main.fd
  IN  /\ main.pc = "flag"
      /\ IF obj[fd].flag
           THEN DealTimer(fd) /\ mishap' = mishap \cup Cut({fd}) \cup FlagComesLate(fd)
           ELSE /\ mishap' = mishap \cup FlagComesLate(fd)
                /\ UNCHANGED <<sockVars, asked, requests, users, timer>>
      /\ ClearFlags(fd)
      /\ main' = [pc |-> "wait", fd |-> Null]
      /\ UNCHANGED <<reactor, alarm, listenVars, reply, utimer, conns, poolVars>>

-----------------------------------------------------------------------------
(* SIGALRM: alarm, sig_handle, the pipe, dealwithsingal, timer_handler *)

SigAlrm ==
  /\ alarm = "set"
  /\ alarm' = "pipe"
  /\ UNCHANGED <<reactor, listenVars, sockVars, clientVars, obj, timerVars, users, conns, poolVars, main, mishap>>

DealWithSignal ==
  /\ main.pc = "wait"
  /\ alarm = "pipe"
  /\ alarm' = "timeout"
  /\ UNCHANGED <<reactor, listenVars, sockVars, clientVars, obj, timerVars, users, conns, poolVars, main, mishap>>

Live == {c \in Conns : timer[c] # Null}

\* The sets of timers that may have expired at a tick: all that are old enough, and with one
\* every older one.
Expired(cs) ==
  /\ cs \subseteq Live
  /\ \A c \in Live : timer[c].age >= IdleTicks => c \in cs
  /\ \A c \in cs, d \in Live : timer[d].age > timer[c].age => d \in cs

\* Mutant: the alarm is not set again.
AlarmOnce == alarm' = "off"
AlarmAgain == alarm' = "set"

\* timer_handler: tick runs cb_func for every expired timer and frees it; alarm.
TimerHandler ==
  /\ main.pc = "wait"
  /\ alarm = "timeout"
  /\ \E cs \in SUBSET Conns :
       /\ Expired(cs)
       /\ CloseSockets({timer[c].fd : c \in cs})
       /\ users' = users - Cardinality(cs)
       /\ timer' = [c \in Conns |-> IF c \in Live \ cs THEN [timer[c] EXCEPT !.age = @ + 1]
                                    ELSE Null]
       /\ mishap' = mishap \cup Cut({timer[c].fd : c \in cs})
  /\ AlarmAgain
  /\ UNCHANGED <<reactor, listenVars, reply, obj, utimer, conns, poolVars, main>>

-----------------------------------------------------------------------------
(* A worker thread, threadpool::run *)

Goes(w, pc) == worker' = [worker EXCEPT ![w].pc = pc]
Rests(w) == worker' = [worker EXCEPT ![w] = [pc |-> "idle", fd |-> Null, of |-> 0]]

\* The semaphore m_queuestat counts the queue; wait, lock and pop_front in one step.
Take(w) ==
  /\ worker[w].pc = "idle"
  /\ workq # << >>
  /\ workq' = Tail(workq)
  /\ worker' = [worker EXCEPT ![w] = [fd |-> Head(workq), of |-> 0,
                  pc |-> IF ~reactor THEN "process"
                         ELSE IF obj[Head(workq)].state = "read" THEN "read" ELSE "write"]]
  /\ UNCHANGED <<reactor, alarm, listenVars, sockVars, clientVars, obj, timerVars, users, conns, main, mishap>>

\* Reactor, read_once: improv is set before process begins ...
Read(w) ==
  LET fd == worker[w].fd
  IN  /\ worker[w].pc = "read"
      /\ ReadOnce(fd, [obj[fd] EXCEPT !.improv = TRUE])
      /\ Goes(w, "process")
      /\ UNCHANGED <<reactor, alarm, listenVars, sock, armed, hup, clientVars, timerVars, users, conns, workq,
                     main, mishap>>

\* Mutant: a failure does not set improv.
FailedSilently(fd) == UNCHANGED obj

Failed(fd) == obj' = [obj EXCEPT ![fd].improv = TRUE]

\* ... and, if it fails, before timer_flag.
ReadFailure(w) ==
  LET fd == worker[w].fd
  IN  /\ worker[w].pc = "read"
      /\ ReadFails(fd)
      /\ Failed(fd)
      /\ Goes(w, "flag")
      /\ UNCHANGED <<reactor, alarm, listenVars, sockVars, clientVars, timerVars, users, conns, workq, main, mishap>>

\* Reactor, write: likewise, after write has returned.
WriteAll(w) ==
  LET fd == worker[w].fd
  IN  /\ worker[w].pc = "write"
      /\ SendAll(fd)
      /\ obj' = [obj EXCEPT ![fd] = [AfterSend(fd) EXCEPT !.improv = TRUE]]
      /\ IF obj[fd].linger THEN Rests(w) ELSE Goes(w, "flag")
      /\ UNCHANGED <<reactor, alarm, listenVars, sock, hup, inbox, timerVars, users, conns, workq, main, mishap>>

WriteRest(w) ==
  LET fd == worker[w].fd
  IN  /\ worker[w].pc = "write"
      /\ \/ /\ SendPart(fd)
            /\ \E o \in AfterPart(fd) : obj' = [obj EXCEPT ![fd] = [o EXCEPT !.improv = TRUE]]
            /\ Rests(w)
         \/ /\ SendNothing(fd)
            /\ obj' = [obj EXCEPT ![fd] = [Fresh(@) EXCEPT !.improv = TRUE]]
            /\ Rests(w)
         \/ SendFails(fd) /\ Failed(fd) /\ Goes(w, "flag") /\ UNCHANGED armed
      /\ UNCHANGED <<reactor, alarm, listenVars, sock, hup, inbox, clientVars, timerVars, users, conns, workq,
                     main, mishap>>

WriteForever(w) ==
  /\ worker[w].pc = "write"
  /\ SendForever(worker[w].fd)
  /\ Goes(w, "stuck")
  /\ mishap' = mishap \cup {"stuck"}
  /\ UNCHANGED <<reactor, alarm, listenVars, sockVars, clientVars, obj, timerVars, users, conns, workq, main>>

SetTimerFlag(w) ==
  /\ worker[w].pc = "flag"
  /\ obj' = [obj EXCEPT ![worker[w].fd].flag = TRUE]
  /\ Rests(w)
  /\ UNCHANGED <<reactor, alarm, listenVars, sockVars, clientVars, timerVars, users, conns, workq, main, mishap>>

\* process: an incomplete request waits for more ...
NeedMore(w) ==
  LET fd == worker[w].fd
  IN  /\ worker[w].pc = "process"
      /\ obj[fd].got < Pieces
      /\ Rearm(fd, "in")
      /\ Rests(w)
      /\ UNCHANGED <<reactor, alarm, listenVars, sock, hup, inbox, clientVars, obj, timerVars, users, conns,
                     workq, main, mishap>>

\* ... a complete one goes through do_request, which may wait for the engine ...
Parse(w) ==
  LET fd == worker[w].fd
  IN  /\ worker[w].pc = "process"
      /\ obj[fd].got = Pieces
      /\ \E b \in BOOLEAN : obj' = [obj EXCEPT ![fd].linger = b]
      /\ worker' = [worker EXCEPT ![w].pc = "infer", ![w].of = obj[fd].of]
      /\ UNCHANGED <<reactor, alarm, listenVars, sockVars, clientVars, timerVars, users, conns, workq, main, mishap>>

\* ... and its response into the write buffer, process_write.
Respond(w) ==
  LET fd == worker[w].fd
  IN  /\ worker[w].pc = "infer"
      /\ obj' = [obj EXCEPT ![fd].answer = worker[w].of]
      /\ Rearm(fd, "out")
      /\ Rests(w)
      /\ UNCHANGED <<reactor, alarm, listenVars, sock, hup, inbox, clientVars, timerVars, users, conns, workq,
                     main, mishap>>

\* An exception in process: close_conn, which leaves the timer where it is.
Throw(w) ==
  LET fd == worker[w].fd
  IN  /\ worker[w].pc \in {"process", "infer"}
      /\ IF obj[fd].attached
           THEN /\ CloseSockets({fd})
                /\ users' = users - 1
                /\ obj' = [obj EXCEPT ![fd].attached = FALSE]
           ELSE UNCHANGED <<sockVars, asked, requests, users, obj>>
      /\ Rests(w)
      /\ mishap' = mishap \cup {"thrown"}
      /\ UNCHANGED <<reactor, alarm, listenVars, reply, timerVars, conns, workq, main>>

-----------------------------------------------------------------------------
EventOn(fd) == \/ DealWithHangUp(fd) \/ ProactorRead(fd) \/ ProactorSendRest(fd)
               \/ ReactorAppend(fd, "in", "read") \/ ReactorAppend(fd, "out", "write")
Listen == EdgeEvent \/ Refuse \/ \E fd \in Fds : DealClientData(fd)
Spin == SpinEnd \/ ReadFlag
Work(w) == \/ Read(w) \/ ReadFailure(w) \/ WriteRest(w) \/ SetTimerFlag(w)
           \/ NeedMore(w) \/ Parse(w) \/ Respond(w)

Next ==
  \/ \E fd \in Fds : \/ Send(fd) \/ HangUp(fd) \/ EventOn(fd)
                     \/ ProactorSendAll(fd) \/ ProactorSendForever(fd)
  \/ Connect \/ Listen \/ AcceptFails \/ Spin \/ SigAlrm \/ DealWithSignal \/ TimerHandler
  \/ \E w \in Workers : Take(w) \/ Work(w) \/ WriteAll(w) \/ WriteForever(w) \/ Throw(w)

Spec == Init /\ [][Next]_vars

\* epoll_wait returns every descriptor that is ready, and the kernel delivers every signal; a
\* pool thread that can go on does; do_request returns, since its wait is timed; a socket's
\* buffer does not stay full forever.
SendsAll(fd) == \/ ProactorSendAll(fd) \/ ProactorSendForever(fd)
                \/ \E w \in Workers : worker[w].fd = fd /\ (WriteAll(w) \/ WriteForever(w))

FairSpec ==
  /\ Spec
  /\ \A fd \in Fds : SF_vars(EventOn(fd)) /\ SF_vars(SendsAll(fd))
  /\ SF_vars(Listen) /\ WF_vars(Spin \/ AcceptFails) /\ WF_vars(SigAlrm) /\ SF_vars(DealWithSignal) /\ SF_vars(TimerHandler)
  /\ WF_vars(\E w \in Workers : Take(w))
  /\ \A w \in Workers : WF_vars(Work(w))

-----------------------------------------------------------------------------
(* Properties *)

\* All that a client may send on one connection.
InboxBound == MaxRequests * Pieces

TypeOK ==
  /\ reactor \in BOOLEAN
  /\ alarm \in {"off", "set", "pipe", "timeout"}
  /\ listenET \in BOOLEAN /\ edge \in BOOLEAN /\ (edge => listenET)
  /\ backlog \in 0..(MaxConns - conns)
  /\ sock \in [Fds -> 0..MaxConns]
  /\ armed \in [Fds -> {"none", "in", "out"}]
  /\ hup \in [Fds -> BOOLEAN]
  /\ inbox \in [Fds -> 0..InboxBound] /\ asked \in [Fds -> 0..Pieces]
  /\ requests \in [Fds -> Nat]
  /\ reply \in [Conns -> 0..MaxConns]
  /\ obj \in [Fds -> Object]
  /\ timer \in [Conns -> Timer \cup {Null}]
  /\ utimer \in [Fds -> 0..MaxConns]
  /\ users \in Int
  /\ conns \in 0..MaxConns
  /\ workq \in Seq(Fds) /\ Len(workq) <= MaxQueue
  /\ main \in [pc: {"wait", "accept", "spin", "flag", "stuck"}, fd: Fds \cup {Null}]
  /\ worker \in [Workers -> [pc: WorkerPCs, fd: Fds \cup {Null}, of: 0..MaxConns]]
  /\ mishap \subseteq {"cut", "late", "thrown", "dropped", "stuck", "left"}

Cuts == "cut" \in mishap
Late == "late" \in mishap
Throws == "thrown" \in mishap

\* Who works on a connection's object or is about to: epoll, which hands it out, the queue or a
\* worker; all that may still write to it: those, a worker that has yet to set timer_flag included,
\* and epoll only once the main thread no longer waits for the worker.
Queueing(fd) == Cardinality({i \in DOMAIN workq : workq[i] = fd})
Handlers(fd) == Queueing(fd) + Cardinality({w \in Workers : Working(w, fd)})
                  + IF armed[fd] # "none" THEN 1 ELSE 0
Holders(fd) == Queueing(fd) + Cardinality({w \in Workers : worker[w].fd = fd})
                 + IF armed[fd] # "none" /\ main.fd # fd THEN 1 ELSE 0

\* One-shot registration keeps two threads from working on one connection at the same time -- if no
\* connection is closed under a worker.  If moreover no worker was late with timer_flag, nothing is
\* handed out before its last holder is done with it to the last assignment.
Serial == /\ ~Cuts => \A fd \in Fds : Handlers(fd) <= 1
          /\ ~Cuts /\ ~Late => \A fd \in Fds : Holders(fd) <= 1

\* Unless a connection is closed under a worker each client gets the answer to its own request,
\* although descriptors, objects and buffers go from one connection to the next.
OwnReply == ~Cuts => \A c \in Conns : reply[c] \in {0, c}

\* m_user_count is the number of open connections.
UsersExact == users = Cardinality({fd \in Fds : sock[fd] # 0})

\* Every open connection has its timer in the list, and every timer there has its connection
\* open: no connection can be forgotten, none is closed by another's timer.
TimersExact == \A c \in Conns : timer[c] # Null <=> \E fd \in Fds : sock[fd] = c

\* Both are kept by cb_func, close_conn and init, in two kinds of threads, unless a worker has
\* closed a connection itself (its timer closes it again).
ConnsAccounted == ~Throws => UsersExact /\ TimersExact

\* Whatever happens, users_timer[fd].timer is not read after the timer is freed, although
\* nobody resets it: a descriptor with an event has the timer of its own connection.
TimerAtLives ==
  \A fd \in Fds : armed[fd] # "none" => utimer[fd] = sock[fd] /\ timer[utimer[fd]] # Null

\* A response in three parts or more may keep its thread in write forever; then all bets are off.
Stuck == "stuck" \in mishap

\* With time standing still, so that no idle timer can help, every complete request is answered
\* -- or its client has hung up, or the connection was closed, or the queue of the pool was full.
Served ==
  \A fd \in Fds, c \in Conns :
    (alarm = "off" /\ sock[fd] = c /\ asked[fd] = Pieces)
      ~> (sock[fd] # c \/ asked[fd] # Pieces \/ hup[fd] \/ "dropped" \in mishap \/ Stuck)

\* In the reactor the main thread does not wait for improv forever.
SpinEnds == (main.pc = "spin") ~> (main.pc = "wait" \/ Stuck)

\* A client that waits to be accepted is accepted or refused -- unless the limit of users, or of
\* descriptors, was reached while the edge-triggered socket was emptied: then those who still
\* wait do so until the next client comes.
BacklogServed == (backlog > 0) ~> (backlog = 0 \/ "left" \in mishap \/ Stuck)

\* A connection whose client has gone is closed, by an event or at the latest by its timer, also
\* if no event will ever come because nothing has armed the descriptor again.
GoneIsClosed ==
  \A fd \in Fds, c \in Conns :
    (alarm # "off" /\ sock[fd] = c /\ hup[fd]) ~> (sock[fd] # c \/ Stuck)

\* What the documentation says and the code does not do.

\* README.md:240: EPOLLONESHOT makes the workers' handling of one descriptor serial.  An idle
\* timer closes the connection of a worker that waits for the engine, and the next connection
\* on that descriptor goes to another worker, with the same object.
AlwaysSerial ==
  \A v, w \in Workers : v # w /\ worker[v].fd # Null => worker[v].fd # worker[w].fd
=============================================================================

----------------------------- MODULE TimerList -----------------------------
(***************************************************************************)
(* sort_timer_lst, the doubly linked list of the connections' idle timers, *)
(* at the level of its pointers, as the main thread uses it: one timer per *)
(* connection, added on accept, moved on activity, deleted on close, and   *)
(* swept by tick.  No other thread touches the list.                       *)
(*                                                                         *)
(* A timer is an address.  Its node is Null while it is not allocated; an  *)
(* address that was freed may be allocated again.  The list's tail pointer *)
(* is left dangling when tick empties the list.                            *)
(***************************************************************************)
EXTENDS Integers, FiniteSets

CONSTANTS
  Timers,     \* addresses of timers (bound: connections open at a time)
  IdleTime,   \* 3 * TIMESLOT
  MaxTime,    \* bound on the clock
  Null

\* util_timer
Node == [prev: Timers \cup {Null}, next: Timers \cup {Null}, expire: Nat]

ASSUME TimersAssumption == IsFiniteSet(Timers)
ASSUME NullAssumption   == Null \notin Timers \cup Nat \cup Node
ASSUME TimesAssumption  == IdleTime \in Nat /\ MaxTime \in Nat

VARIABLES
  clock,      \* time(NULL); taken never to be set back
  head,       \* first timer, or Null
  tail,       \* last timer; of an empty list, anything
  node        \* the util_timer at each address: prev, next, expire

vars == <<clock, head, tail, node>>

-----------------------------------------------------------------------------
(* The operations of the list, on a list l with the fields head, tail, node *)

List == [head |-> head, tail |-> tail, node |-> node]
Becomes(l) == head' = l.head /\ tail' = l.tail /\ node' = l.node

\* The pointers met from t on, as a function: the i-th one, and Null after the last.
Walk(nd, t) ==
  LET at[i \in 0..Cardinality(Timers)] ==
        IF i = 0 THEN t ELSE IF at[i - 1] = Null THEN Null ELSE nd[at[i - 1]].next
  IN  at

\* p->prev = t, where there is a p.
SetPrev(nd, p, t) == IF p = Null THEN nd ELSE [nd EXCEPT ![p].prev = t]

\* The private add_timer goes on from lst_head while the next timer expires no later than t.
Place(l, t, lstHead) ==
  LET at == Walk(l.node, lstHead)
      stops(i) == at[i] # Null
                    /\ (at[i + 1] = Null \/ l.node[t].expire < l.node[at[i + 1]].expire)
      i == CHOOSE k \in 0..(Cardinality(Timers) - 1) : stops(k) /\ \A j \in 0..(k - 1) : ~stops(j)
  IN  at[i]

\* Mutant: tail is not moved.
AddAfterKeepTail(l, t, lstHead) ==
  LET p == Place(l, t, lstHead)
      n == l.node[p].next
  IN  [l EXCEPT !.node = SetPrev([@ EXCEPT ![p].next = t, ![t].prev = p, ![t].next = n], n, t)]

AddAfter(l, t, lstHead) ==
  LET p == Place(l, t, lstHead)
      n == l.node[p].next
  IN  [l EXCEPT !.node = SetPrev([@ EXCEPT ![p].next = t, ![t].prev = p, ![t].next = n], n, t),
                !.tail = IF n = Null THEN t ELSE @]

\* The public add_timer.
AddTimer(l, t) ==
  CASE l.head = Null -> [l EXCEPT !.head = t, !.tail = t]
    [] l.head # Null /\ l.node[t].expire < l.node[l.head].expire ->
         [l EXCEPT !.node = [@ EXCEPT ![t].next = l.head, ![l.head].prev = t], !.head = t]
    [] OTHER -> AddAfter(l, t, l.head)

\* t is the last one, or still expires before its successor.
StaysInPlace(l, t) ==
  l.node[t].next = Null \/ l.node[t].expire < l.node[l.node[t].next].expire

AdjustTimer(l, t) ==
  LET n == l.node[t].next
      p == l.node[t].prev
  IN  CASE StaysInPlace(l, t) -> l
        [] ~StaysInPlace(l, t) /\ t = l.head ->
             AddAfter([l EXCEPT !.node = [@ EXCEPT ![n].prev = Null, ![t].next = Null], !.head = n],
                      t, n)
        [] OTHER ->
             AddAfter([l EXCEPT !.node = [@ EXCEPT ![p].next = n, ![n].prev = p]], t, l.head)

\* del_timer up to the delete.
Unlink(l, t) ==
  LET n == l.node[t].next
      p == l.node[t].prev
  IN  CASE t = l.head /\ t = l.tail -> [l EXCEPT !.head = Null, !.tail = Null]
        [] t = l.head /\ t # l.tail -> [l EXCEPT !.head = n, !.node = [@ EXCEPT ![n].prev = Null]]
        [] t # l.head /\ t = l.tail -> [l EXCEPT !.tail = p, !.node = [@ EXCEPT ![p].next = Null]]
        [] OTHER -> [l EXCEPT !.node = [@ EXCEPT ![p].next = n, ![n].prev = p]]

Free(l, ts) == [l EXCEPT !.node = [t \in Timers |-> IF t \in ts THEN Null ELSE @[t]]]

DelTimer(l, t) == Free(Unlink(l, t), {t})

\* Mutant: a timer is not due in the very second it expires.
NotDueYet(l, t) == clock <= l.node[t].expire

\* Where tick breaks off.
NotDue(l, t) == clock < l.node[t].expire

\* tick: the timers are ended and freed from the head on, up to the first that is not due.
Ticked(l) ==
  LET at == Walk(l.node, l.head)
      due(i) == at[i] # Null /\ ~NotDue(l, at[i])
      n == CHOOSE k \in 0..Cardinality(Timers) : ~due(k) /\ \A j \in 0..(k - 1) : due(j)
  IN  Free([l EXCEPT !.head = at[n], !.node = SetPrev(@, at[n], Null)], {at[i] : i \in 0..(n - 1)})

-----------------------------------------------------------------------------
(* The event loop's uses of the list *)

Init ==
  /\ clock = 0
  /\ head = Null /\ tail = Null
  /\ node = [t \in Timers |-> Null]

Second ==
  /\ clock < MaxTime
  /\ clock' = clock + 1
  /\ UNCHANGED <<head, tail, node>>

\* Mutant: the sign is wrong.
ExpiryBefore == clock - IdleTime

\* cur + 3 * TIMESLOT
Expiry == clock + IdleTime

\* WebServer::timer: a new timer for an accepted connection.
Accepted(t) ==
  /\ node[t] = Null
  /\ Becomes(AddTimer([List EXCEPT !.node[t] = [prev |-> Null, next |-> Null, expire |-> Expiry]], t))
  /\ UNCHANGED clock

\* WebServer::adjust_timer: the connection is active.
Active(t) ==
  /\ node[t] # Null
  /\ Becomes(AdjustTimer([List EXCEPT !.node[t].expire = Expiry], t))
  /\ UNCHANGED clock

\* WebServer::deal_timer: the connection is closed.
Dealt(t) ==
  /\ node[t] # Null
  /\ Becomes(DelTimer(List, t))
  /\ UNCHANGED clock

\* Utils::timer_handler
Handled ==
  /\ Becomes(Ticked(List))
  /\ UNCHANGED clock

Next == Second \/ Handled \/ \E t \in Timers : Accepted(t) \/ Active(t) \/ Dealt(t)

Spec == Init /\ [][Next]_vars

-----------------------------------------------------------------------------
(* Properties *)

TypeOK ==
  /\ clock \in Nat
  /\ {head, tail} \subseteq Timers \cup {Null}
  /\ node \in [Timers -> Node \cup {Null}]

\* Both directions agree, the ends are marked, every allocated timer is reached from head, none
\* twice and no freed one, and tail is the last.
Linked ==
  LET at   == Walk(node, head)
      size == Cardinality({t \in Timers : node[t] # Null})
  IN  /\ {at[i] : i \in 0..(size - 1)} = {t \in Timers : node[t] # Null}
      /\ at[size] = Null
      /\ \A i \in 0..(size - 1) : node[at[i]].prev = IF i = 0 THEN Null ELSE at[i - 1]
      /\ size > 0 => tail = at[size - 1]

\* tick may stop at the first timer that is not due, because the list is sorted.
Sorted ==
  \A t \in Timers : node[t] # Null /\ node[t].next # Null =>
    node[t].expire <= node[node[t].next].expire

\* The list is a sorted list, whatever sequence of adds, moves, deletes and ticks made it, also
\* through an empty list with a dangling tail.
SortedList == Linked /\ Sorted

Idle == INSTANCE IdleTimers WITH
  Connections <- Timers,
  EndOfTime   <- MaxTime,
  Closed      <- Null,
  now         <- clock,
  seen        <- [t \in Timers |-> IF node[t] = Null THEN Null ELSE node[t].expire - IdleTime]

\* A tick ends exactly the connections that were quiet for the idle time, and nothing else does
\* anything to a timer other than the connection's own.
SweepsTheIdle == Idle!TimersSpec
=============================================================================

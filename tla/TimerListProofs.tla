-------------------------- MODULE TimerListProofs --------------------------
(***************************************************************************)
(* The list of idle timers, for any number of timers: whatever adds,       *)
(* moves, deletes and ticks did, its pointers are those of a sorted list   *)
(* of the allocated timers, and a tick ends exactly the idle ones.         *)
(*                                                                         *)
(* The argument needs no induction over the list.  A list is described by  *)
(* a function c from positions to addresses, Null from its length m on;    *)
(* each operation inserts, removes or drops positions of that function.    *)
(***************************************************************************)
EXTENDS TimerList, FiniteSetTheorems, FunctionTheorems, WellFoundedInduction, TLAPS

USE DEF vars

Address == Timers \cup {Null}
Nodes == [Timers -> Node \cup {Null}]
Lists == [head: Address, tail: Address, node: Nodes]

-----------------------------------------------------------------------------
(* Nodes *)

\* Null is no timer, no number and no node.
LEMMA NullIsNull == Null \notin Timers /\ Null \notin Nat /\ Null \notin Node
BY NullAssumption

\* The two memories have the same timers, with the same expiry times; the pointers may differ.
SameTimers(nd, nd2) ==
  \A x \in Timers : /\ nd[x] = Null <=> nd2[x] = Null
                    /\ nd[x] # Null => nd[x].expire = nd2[x].expire

\* The memory new is nd after x->next = a, or after x->prev = a; a null pointer is not followed.
NextWritten(nd, new, x, a) ==
  /\ new \in Nodes /\ SameTimers(nd, new)
  /\ \A y \in Timers : nd[y] # Null => /\ new[y].next = IF y = x THEN a ELSE nd[y].next
                                       /\ new[y].prev = nd[y].prev
PrevWritten(nd, new, x, a) ==
  /\ new \in Nodes /\ SameTimers(nd, new)
  /\ \A y \in Timers : nd[y] # Null => /\ new[y].prev = IF y = x THEN a ELSE nd[y].prev
                                       /\ new[y].next = nd[y].next

\* What a node is.
LEMMA NodeFields ==
  ASSUME NEW nd \in Nodes, NEW x \in Timers, nd[x] # Null
  PROVE  nd[x] \in Node /\ nd[x].next \in Address /\ nd[x].prev \in Address /\ nd[x].expire \in Nat
BY DEF Nodes, Node, Address

\* x->next = a
LEMMA WriteNext ==
  ASSUME NEW nd \in Nodes, NEW x \in Timers, nd[x] # Null, NEW a \in Address
  PROVE  NextWritten(nd, [nd EXCEPT ![x].next = a], x, a)
<1> DEFINE r == [nd[x] EXCEPT !.next = a]
           new == [nd EXCEPT ![x] = r]
<1>1. nd[x] \in [prev: Address, next: Address, expire: Nat]
  BY DEF Nodes, Node, Address
<1>2. /\ r \in [prev: Address, next: Address, expire: Nat]
      /\ r.next = a /\ r.prev = nd[x].prev /\ r.expire = nd[x].expire
  BY <1>1
<1>3. r \in Node /\ r # Null
  BY <1>2, NullIsNull DEF Node, Address
<1> HIDE DEF r
<1>4. new \in Nodes /\ new[x] = r /\ \A y \in Timers : y # x => new[y] = nd[y]
  BY <1>3 DEF Nodes
<1>0. new = [nd EXCEPT ![x].next = a]
  BY DEF r
<1> HIDE DEF new
<1>5. SameTimers(nd, new)
  BY <1>2, <1>3, <1>4 DEF SameTimers
<1>6. \A y \in Timers : nd[y] # Null =>
        /\ y = x => new[y].next = a
        /\ y # x => new[y].next = nd[y].next
        /\ new[y].prev = nd[y].prev
  BY <1>2, <1>4
<1> QED
  BY <1>0, <1>4, <1>5, <1>6 DEF NextWritten

\* x->prev = a
LEMMA WritePrev ==
  ASSUME NEW nd \in Nodes, NEW x \in Timers, nd[x] # Null, NEW a \in Address
  PROVE  PrevWritten(nd, [nd EXCEPT ![x].prev = a], x, a)
<1> DEFINE r == [nd[x] EXCEPT !.prev = a]
           new == [nd EXCEPT ![x] = r]
<1>1. nd[x] \in [prev: Address, next: Address, expire: Nat]
  BY DEF Nodes, Node, Address
<1>2. /\ r \in [prev: Address, next: Address, expire: Nat]
      /\ r.prev = a /\ r.next = nd[x].next /\ r.expire = nd[x].expire
  BY <1>1
<1>3. r \in Node /\ r # Null
  BY <1>2, NullIsNull DEF Node, Address
<1> HIDE DEF r
<1>4. new \in Nodes /\ new[x] = r /\ \A y \in Timers : y # x => new[y] = nd[y]
  BY <1>3 DEF Nodes
<1>0. new = [nd EXCEPT ![x].prev = a]
  BY DEF r
<1> HIDE DEF new
<1>5. SameTimers(nd, new)
  BY <1>2, <1>3, <1>4 DEF SameTimers
<1>6. \A y \in Timers : nd[y] # Null =>
        /\ y = x => new[y].prev = a
        /\ y # x => new[y].prev = nd[y].prev
        /\ new[y].next = nd[y].next
  BY <1>2, <1>4
<1> QED
  BY <1>0, <1>4, <1>5, <1>6 DEF PrevWritten

\* if (p) p->prev = a
LEMMA SetPrevWrites ==
  ASSUME NEW nd \in Nodes, NEW p \in Address, p # Null => nd[p] # Null, NEW a \in Address
  PROVE  PrevWritten(nd, SetPrev(nd, p, a), p, a)
<1>1. CASE p = Null
  BY <1>1, NullIsNull DEF SetPrev, SameTimers, PrevWritten
<1>2. CASE p # Null
  <2>1. p \in Timers /\ SetPrev(nd, p, a) = [nd EXCEPT ![p].prev = a]
    BY <1>2 DEF SetPrev, Address
  <2> QED
    BY <1>2, <2>1, WritePrev
<1> QED
  BY <1>1, <1>2

-----------------------------------------------------------------------------
(* Chains *)

\* The list l is the timers S, at c[0], ..., c[m - 1].
Chain(l, c, m, S) ==
  /\ m \in Nat /\ c \in [Nat -> Address]
  /\ l.head = c[0]
  /\ m > 0 => l.tail = c[m - 1]
  /\ \A i \in Nat : c[i] # Null <=> i < m
  /\ \A i \in Nat : i < m => /\ l.node[c[i]] # Null
                             /\ l.node[c[i]].next = c[i + 1]
                             /\ l.node[c[i]].prev = IF i = 0 THEN Null ELSE c[i - 1]
  /\ \A i, j \in Nat : i < m /\ j < m /\ c[i] = c[j] => i = j
  /\ \A t \in Timers : t \in S <=> \E i \in Nat : i < m /\ c[i] = t

\* It is sorted by expiry time.
Ascending(l, c, m) == \A i \in Nat : i + 1 < m => l.node[c[i]].expire <= l.node[c[i + 1]].expire

IsSortedList(l, S) ==
  /\ l \in Lists /\ S \subseteq Timers
  /\ \E m \in Nat, c \in [Nat -> Address] : Chain(l, c, m, S) /\ Ascending(l, c, m)

\* A set of natural numbers has a least one.
LEMMA Least == ASSUME NEW S \in SUBSET Nat, S # {} PROVE \E m \in S : \A k \in S : m <= k
<1> DEFINE R == {ss \in Nat \X Nat : ss[1] < ss[2]}
<1>1. \A i, j \in Nat : i < j => <<i, j>> \in R
  OBVIOUS
<1>2. IsWellFoundedOn(R, Nat)
  BY NatLessThanWellFounded DEF OpToRel
<1> HIDE DEF R
<1>3. \E m \in S : \A y \in S : ~(<<y, m>> \in R)
  BY <1>2, WFMin
<1>4. PICK m \in S : \A y \in S : ~(<<y, m>> \in R)
  BY <1>3
<1>5. ASSUME NEW k \in S PROVE m <= k
  <2>1. k \in Nat /\ m \in Nat /\ ~(k < m)
    BY <1>1, <1>4
  <2> QED
    BY <2>1
<1> QED
  BY <1>5

LEMMA SizeIsNat == Cardinality(Timers) \in Nat
BY TimersAssumption, FS_CardinalityType

\* The length of a chain is the number of its timers, and no more than there are.
LEMMA ChainFits ==
  ASSUME NEW l, NEW S, S \subseteq Timers, NEW m \in Nat, NEW c \in [Nat -> Address], Chain(l, c, m, S)
  PROVE  m = Cardinality(S) /\ m <= Cardinality(Timers)
<1> DEFINE f == [i \in 0..(m - 1) |-> c[i]]
<1>1. \A i \in 0..(m - 1) : i \in Nat /\ i < m
  OBVIOUS
<1>2. \A i \in 0..(m - 1) : c[i] \in Timers /\ c[i] \in S
  BY <1>1 DEF Chain, Address
<1>3. \A t \in S : \E i \in 0..(m - 1) : c[i] = t
  <2>1. \A i \in Nat : i < m => i \in 0..(m - 1)
    OBVIOUS
  <2> QED
    BY <2>1 DEF Chain
<1>4. \A i, j \in 0..(m - 1) : c[i] = c[j] => i = j
  BY <1>1 DEF Chain
<1>5. f \in Bijection(0..(m - 1), S)
  <2>1. f \in [0..(m - 1) -> S]
    BY <1>2
  <2>2. f \in Surjection(0..(m - 1), S)
    BY <1>3, <2>1, Fun_IsSurj
  <2>3. f \in Injection(0..(m - 1), S)
    BY <1>4, <2>1, Fun_IsInj
  <2> QED
    BY <2>2, <2>3, Fun_IsBij
<1> HIDE DEF f
<1>6. IsFiniteSet(0..(m - 1)) /\ Cardinality(0..(m - 1)) = m
  <2>1. 0 \in Int /\ m - 1 \in Int
    OBVIOUS
  <2>2. /\ IsFiniteSet(0..(m - 1))
        /\ Cardinality(0..(m - 1)) = IF 0 > m - 1 THEN 0 ELSE (m - 1) - 0 + 1
    BY ONLY <2>1, FS_Interval
  <2> QED
    BY <2>2
<1>7. IsFiniteSet(S) /\ Cardinality(S) = m
  <2>1. ExistsBijection(0..(m - 1), S)
    BY <1>5 DEF ExistsBijection
  <2> QED
    BY <1>6, <2>1, FS_Bijection
<1>8. Cardinality(S) <= Cardinality(Timers)
  BY TimersAssumption, FS_Subset
<1> QED
  BY <1>7, <1>8

\* Following next from the head meets the chain.
LEMMA WalkFollows ==
  ASSUME NEW l, NEW S, S \subseteq Timers, NEW m \in Nat, NEW c \in [Nat -> Address], Chain(l, c, m, S)
  PROVE  \A i \in 0..Cardinality(Timers) : Walk(l.node, l.head)[i] = c[i]
<1> DEFINE N == Cardinality(Timers)
           step(f, i) == IF i = 0 THEN l.head ELSE IF f[i - 1] = Null THEN Null ELSE l.node[f[i - 1]].next
           IsWalk(f) == f = [i \in 0..N |-> step(f, i)]
           at == CHOOSE f : IsWalk(f)
           e == [i \in 0..N |-> c[i]]
<1>1. N \in Nat
  BY SizeIsNat
<1>2. Walk(l.node, l.head) = at
  BY DEF Walk
<1>3. c[0] = l.head
  BY DEF Chain
<1>4. ASSUME NEW i \in 0..N, i # 0
      PROVE  c[i] = IF c[i - 1] = Null THEN Null ELSE l.node[c[i - 1]].next
  <2>1. i \in Nat /\ i - 1 \in Nat /\ (i - 1) + 1 = i
    BY <1>1, <1>4
  <2>2. CASE i - 1 < m
    <3>1. c[i - 1] # Null /\ l.node[c[i - 1]].next = c[(i - 1) + 1]
      BY <2>1, <2>2 DEF Chain
    <3> QED
      BY <2>1, <3>1
  <2>3. CASE ~(i - 1 < m)
    <3>1. ~(i < m)
      BY <2>1, <2>3
    <3> QED
      BY <2>1, <2>3, <3>1 DEF Chain
  <2> QED
    BY <2>2, <2>3
<1>5. IsWalk(e)
  <2>1. ASSUME NEW i \in 0..N PROVE c[i] = step(e, i)
    <3>1. CASE i = 0
      BY <1>3, <3>1
    <3>2. CASE i # 0
      <4>1. i - 1 \in 0..N
        BY <1>1, <3>2
      <4>2. e[i - 1] = c[i - 1]
        BY <4>1
      <4> QED
        BY <1>4, <3>2, <4>2
    <3> QED
      BY <3>1, <3>2
  <2> QED
    BY <2>1
<1>6. IsWalk(at)
  <2>1. \E f : IsWalk(f)
    BY <1>5
  <2> QED
    BY <2>1
<1>7. at[0] = c[0] /\ \A i \in 0..N : i # 0 =>
        at[i] = IF at[i - 1] = Null THEN Null ELSE l.node[at[i - 1]].next
  <2> HIDE DEF at
  <2>1. \A i \in 0..N : at[i] = step(at, i)
    BY <1>6
  <2>2. 0 \in 0..N
    BY <1>1
  <2> QED
    BY <1>3, <2>1, <2>2
<1> DEFINE Differ == {i \in Nat : i <= N /\ at[i] # c[i]}
<1>8. Differ = {}
  <2> HIDE DEF at
  <2> SUFFICES ASSUME Differ # {} PROVE FALSE
    OBVIOUS
  <2>1. PICK i \in Differ : \A j \in Differ : i <= j
    <3>1. Differ \in SUBSET Nat
      OBVIOUS
    <3> HIDE DEF Differ
    <3> QED
      BY <3>1, Least
  <2>2. i \in 0..N /\ at[i] # c[i] /\ i # 0
    BY <1>1, <1>7, <2>1
  <2>3. i - 1 \in Nat /\ i - 1 <= N /\ ~(i <= i - 1)
    BY <1>1, <2>2
  <2>4. at[i - 1] = c[i - 1]
    BY <2>1, <2>3
  <2> QED
    BY <1>4, <1>7, <2>2, <2>4
<1>9. ASSUME NEW i \in 0..N PROVE at[i] = c[i]
  <2> HIDE DEF at
  <2>1. i \in Nat /\ i <= N
    BY <1>1
  <2> QED
    BY <1>8, <2>1
<1> HIDE DEF at
<1> QED
  BY <1>2, <1>9

\* Where a chain's timers are.
LEMMA ChainTimers ==
  ASSUME NEW l, NEW S, S \subseteq Timers, NEW m \in Nat, NEW c \in [Nat -> Address], Chain(l, c, m, S),
         NEW i \in Nat, i < m
  PROVE  c[i] \in S /\ c[i] \in Timers /\ c[i] # Null
<1>1. c[i] \in Address /\ c[i] # Null
  BY DEF Chain
<1>2. c[i] \in Timers
  BY <1>1 DEF Address
<1> QED
  BY <1>1, <1>2 DEF Chain

-----------------------------------------------------------------------------
(* Inserting, removing and dropping *)

\* r is l with t before position k; of the pointers only those of t and of its neighbours differ.
Inserted(l, r, c, m, S, k, t) ==
  /\ r \in Lists /\ SameTimers(l.node, r.node)
  /\ r.head = IF k = 0 THEN t ELSE l.head
  /\ r.tail = IF k = m THEN t ELSE l.tail
  /\ r.node[t].next = c[k] /\ r.node[t].prev = IF k = 0 THEN Null ELSE c[k - 1]
  /\ \A x \in S : /\ r.node[x].next = IF k > 0 /\ x = c[k - 1] THEN t ELSE l.node[x].next
                  /\ r.node[x].prev = IF x = c[k] THEN t ELSE l.node[x].prev

\* What was inserted between timers that expire no later and no earlier is in a sorted list.
LEMMA InsertedIsSorted ==
  ASSUME NEW l \in Lists, NEW S, S \subseteq Timers,
         NEW m \in Nat, NEW c \in [Nat -> Address], Chain(l, c, m, S), Ascending(l, c, m),
         NEW t \in Timers, t \notin S, l.node[t] # Null,
         NEW k \in Nat, k <= m, NEW r, Inserted(l, r, c, m, S, k, t),
         k > 0 => l.node[c[k - 1]].expire <= l.node[t].expire,
         k < m => l.node[t].expire <= l.node[c[k]].expire
  PROVE  IsSortedList(r, S \cup {t})
<1> DEFINE d == [i \in Nat |-> IF i < k THEN c[i] ELSE IF i = k THEN t ELSE c[i - 1]]
<1>1. d \in [Nat -> Address]
  BY DEF Address
<1>2. /\ \A i \in Nat : i < k => d[i] = c[i]
      /\ d[k] = t
      /\ \A i \in Nat : i > k => d[i] = c[i - 1]
  OBVIOUS
<1> HIDE DEF d
<1>3. t # Null
  BY NullIsNull
<1>4. \A i \in Nat : i < m => c[i] \in S /\ c[i] \in Timers /\ c[i] # Null /\ c[i] # t
  BY ChainTimers
<1>5. \A i \in Nat : d[i] # Null <=> i < m + 1
  <2>1. ASSUME NEW i \in Nat PROVE d[i] # Null <=> i < m + 1
    <3>1. CASE i < k
      BY <1>2, <1>4, <3>1
    <3>2. CASE i = k
      BY <1>2, <1>3, <3>2
    <3>3. CASE i > k
      <4>1. i - 1 \in Nat /\ (c[i - 1] # Null <=> i - 1 < m)
        BY <3>3 DEF Chain
      <4> QED
        BY <1>2, <3>3, <4>1
    <3> QED
      BY <3>1, <3>2, <3>3
  <2> QED
    BY <2>1
<1>6. \A i \in Nat : i < m => l.node[c[i]] # Null /\ l.node[c[i]].next = c[i + 1]
                              /\ l.node[c[i]].prev = IF i = 0 THEN Null ELSE c[i - 1]
  BY DEF Chain
<1>7. \A i, j \in Nat : i < m /\ j < m /\ c[i] = c[j] => i = j
  BY DEF Chain
<1>8. ASSUME NEW i \in Nat, i < m + 1
      PROVE  /\ r.node[d[i]] # Null
             /\ r.node[d[i]].next = d[i + 1]
             /\ r.node[d[i]].prev = IF i = 0 THEN Null ELSE d[i - 1]
  <2>1. CASE i < k
    <3>1. d[i] = c[i] /\ i < m /\ c[i] \in S /\ c[i] \in Timers
      BY <1>2, <1>4, <2>1
    <3>2. r.node[d[i]] # Null
      BY <1>6, <3>1 DEF Inserted, SameTimers
    <3>3. r.node[d[i]].next = d[i + 1]
      <4>1. CASE i + 1 = k
        <5>1. i = k - 1 /\ k > 0
          BY <4>1
        <5> QED
          BY <1>2, <3>1, <4>1, <5>1 DEF Inserted
      <4>2. CASE i + 1 # k
        <5>1. i + 1 < k /\ k - 1 \in Nat /\ k - 1 < m /\ i # k - 1
          BY <2>1, <4>2
        <5>2. c[i] # c[k - 1]
          BY <1>7, <3>1, <5>1
        <5>3. r.node[c[i]].next = l.node[c[i]].next
          BY <3>1, <5>2 DEF Inserted
        <5> QED
          BY <1>2, <1>6, <3>1, <5>1, <5>3
      <4> QED
        BY <4>1, <4>2
    <3>4. r.node[d[i]].prev = IF i = 0 THEN Null ELSE d[i - 1]
      <4>1. c[i] # c[k]
        <5>1. CASE k < m
          BY <1>7, <2>1, <3>1, <5>1
        <5>2. CASE ~(k < m)
          <6>1. c[k] = Null
            BY <5>2 DEF Chain
          <6> QED
            BY <1>4, <3>1, <6>1
        <5> QED
          BY <5>1, <5>2
      <4>2. r.node[c[i]].prev = l.node[c[i]].prev
        BY <3>1, <4>1 DEF Inserted
      <4>3. CASE i = 0
        BY <1>6, <3>1, <4>2, <4>3
      <4>4. CASE i # 0
        <5>1. i - 1 \in Nat /\ i - 1 < k
          BY <2>1, <4>4
        <5> QED
          BY <1>2, <1>6, <3>1, <4>2, <4>4, <5>1
      <4> QED
        BY <4>3, <4>4
    <3> QED
      BY <3>2, <3>3, <3>4
  <2>2. CASE i = k
    <3>1. d[i] = t /\ r.node[t] # Null
      BY <1>2, <2>2 DEF Inserted, SameTimers
    <3>2. d[i + 1] = c[k]
      <4>1. i + 1 > k /\ (i + 1) - 1 = k
        BY <2>2
      <4> QED
        BY <1>2, <4>1
    <3>3. CASE i = 0
      BY <2>2, <3>1, <3>2, <3>3 DEF Inserted
    <3>4. CASE i # 0
      <4>1. i - 1 \in Nat /\ i - 1 < k /\ k # 0
        BY <2>2, <3>4
      <4>2. d[i - 1] = c[k - 1]
        BY <1>2, <2>2, <4>1
      <4> QED
        BY <3>1, <3>2, <3>4, <4>1, <4>2 DEF Inserted
    <3> QED
      BY <3>3, <3>4
  <2>3. CASE i > k
    <3>0. PICK j \in Nat : i = j + 1
      <4>1. i - 1 \in Nat /\ i = (i - 1) + 1
        BY <2>3
      <4> QED
        BY <4>1
    <3>1. j < m /\ j >= k /\ d[i] = c[j] /\ c[j] \in S /\ c[j] \in Timers
      <4>1. j < m /\ j >= k /\ i - 1 = j
        BY <1>8, <2>3, <3>0
      <4> QED
        BY <1>2, <1>4, <2>3, <4>1
    <3>2. r.node[d[i]] # Null
      BY <1>6, <3>1 DEF Inserted, SameTimers
    <3>3. r.node[d[i]].next = d[i + 1]
      <4>1. k > 0 => c[j] # c[k - 1]
        <5>1. k > 0 => k - 1 \in Nat /\ k - 1 < m /\ j # k - 1
          BY <3>1
        <5> QED
          BY <1>7, <3>1, <5>1
      <4>2. r.node[c[j]].next = l.node[c[j]].next
        BY <3>1, <4>1 DEF Inserted
      <4>3. d[i + 1] = c[j + 1]
        <5>1. i + 1 \in Nat /\ i + 1 > k /\ (i + 1) - 1 = j + 1
          BY <2>3, <3>0
        <5> QED
          BY <1>2, <5>1
      <4> QED
        BY <1>6, <3>1, <4>2, <4>3
    <3>4. r.node[d[i]].prev = d[i - 1]
      <4>1. CASE j = k
        <5>1. d[i - 1] = t
          BY <1>2, <3>0, <4>1
        <5> QED
          BY <3>1, <4>1, <5>1 DEF Inserted
      <4>2. CASE j # k
        <5>1. j > k /\ k < m /\ j - 1 \in Nat /\ i - 1 = j /\ j # 0
          BY <3>0, <3>1, <4>2
        <5>2. c[j] # c[k]
          BY <1>7, <3>1, <5>1
        <5>3. r.node[c[j]].prev = l.node[c[j]].prev
          BY <3>1, <5>2 DEF Inserted
        <5>4. d[i - 1] = c[j - 1]
          BY <1>2, <5>1
        <5> QED
          BY <1>6, <3>1, <5>1, <5>3, <5>4
      <4> QED
        BY <4>1, <4>2
    <3> QED
      BY <2>3, <3>2, <3>3, <3>4
  <2> QED
    BY <2>1, <2>2, <2>3
<1>9. ASSUME NEW i \in Nat, NEW j \in Nat, i < m + 1, j < m + 1, d[i] = d[j]
      PROVE  i = j
  <2>1. \A h \in Nat : h < m + 1 /\ h # k => /\ d[h] # t
                                             /\ h < k => h < m /\ d[h] = c[h]
                                             /\ h > k => h - 1 \in Nat /\ h - 1 < m /\ d[h] = c[h - 1]
    <3>1. ASSUME NEW h \in Nat, h < m + 1, h < k PROVE h < m /\ d[h] = c[h] /\ d[h] # t
      BY <1>2, <1>4, <3>1
    <3>2. ASSUME NEW h \in Nat, h < m + 1, h > k
          PROVE  h - 1 \in Nat /\ h - 1 < m /\ d[h] = c[h - 1] /\ d[h] # t
      <4>1. h - 1 \in Nat /\ h - 1 < m
        BY <3>2
      <4> QED
        BY <1>2, <1>4, <3>2, <4>1
    <3> QED
      BY <3>1, <3>2
  <2>2. CASE i = k \/ j = k
    BY <1>2, <1>9, <2>1, <2>2
  <2>3. CASE i < k /\ j < k
    BY <1>7, <1>9, <2>1, <2>3
  <2>4. CASE i < k /\ j > k
    <3>1. i < m /\ j - 1 \in Nat /\ j - 1 < m /\ c[i] = c[j - 1]
      BY <1>9, <2>1, <2>4
    <3>2. i = j - 1
      BY <1>7, <3>1
    <3> QED
      BY <2>4, <3>2
  <2>5. CASE i > k /\ j < k
    <3>1. j < m /\ i - 1 \in Nat /\ i - 1 < m /\ c[j] = c[i - 1]
      BY <1>9, <2>1, <2>5
    <3>2. j = i - 1
      BY <1>7, <3>1
    <3> QED
      BY <2>5, <3>2
  <2>6. CASE i > k /\ j > k
    <3>1. i - 1 \in Nat /\ j - 1 \in Nat /\ i - 1 < m /\ j - 1 < m /\ c[i - 1] = c[j - 1]
      BY <1>9, <2>1, <2>6
    <3>2. i - 1 = j - 1
      BY <1>7, <3>1
    <3> QED
      BY <3>2
  <2> QED
    BY <2>2, <2>3, <2>4, <2>5, <2>6
<1>10. ASSUME NEW x \in Timers PROVE x \in S \cup {t} <=> \E i \in Nat : i < m + 1 /\ d[i] = x
  <2>1. x \in S <=> \E i \in Nat : i < m /\ c[i] = x
    BY DEF Chain
  <2>2. ASSUME NEW i \in Nat, i < m, c[i] = x PROVE \E j \in Nat : j < m + 1 /\ d[j] = x
    <3>1. CASE i < k
      BY <1>2, <2>2, <3>1
    <3>2. CASE ~(i < k)
      <4>1. i + 1 \in Nat /\ i + 1 > k /\ (i + 1) - 1 = i /\ i + 1 < m + 1
        BY <2>2, <3>2
      <4> QED
        BY <1>2, <2>2, <4>1
    <3> QED
      BY <3>1, <3>2
  <2>3. ASSUME NEW i \in Nat, i < m + 1, d[i] = x PROVE x \in S \cup {t}
    <3>1. CASE i < k
      BY <1>2, <1>4, <2>3, <3>1
    <3>2. CASE i = k
      BY <1>2, <2>3, <3>2
    <3>3. CASE i > k
      <4>1. i - 1 \in Nat /\ i - 1 < m
        BY <2>3, <3>3
      <4> QED
        BY <1>2, <1>4, <2>3, <3>3, <4>1
    <3> QED
      BY <3>1, <3>2, <3>3
  <2>4. d[k] = t /\ k < m + 1
    BY <1>2
  <2> QED
    BY <2>1, <2>2, <2>3, <2>4
<1>11. r.head = d[0] /\ r.tail = d[(m + 1) - 1]
  <2>1. r.head = d[0]
    <3>1. CASE k = 0
      BY <1>2, <3>1 DEF Inserted
    <3>2. CASE k # 0
      BY <1>2, <3>2 DEF Inserted, Chain
    <3> QED
      BY <3>1, <3>2
  <2>2. r.tail = d[m]
    <3>1. CASE k = m
      BY <1>2, <3>1 DEF Inserted
    <3>2. CASE k # m
      <4>1. m > k /\ m > 0
        BY <3>2
      <4> QED
        BY <1>2, <3>2, <4>1 DEF Inserted, Chain
    <3> QED
      BY <3>1, <3>2
  <2> QED
    BY <2>1, <2>2
<1>12. m + 1 \in Nat
  OBVIOUS
<1>13. Chain(r, d, m + 1, S \cup {t})
  BY <1>1, <1>5, <1>8, <1>9, <1>10, <1>11, <1>12 DEF Chain
<1>14. Ascending(r, d, m + 1)
  <2>1. ASSUME NEW i \in Nat, i + 1 < m + 1 PROVE r.node[d[i]].expire <= r.node[d[i + 1]].expire
    <3>1. \A x \in Timers : l.node[x] # Null => r.node[x].expire = l.node[x].expire
      BY DEF Inserted, SameTimers
    <3>2. CASE i + 1 < k
      <4>1. d[i] = c[i] /\ d[i + 1] = c[i + 1] /\ i < m /\ i + 1 < m
        BY <1>2, <3>2
      <4>2. l.node[c[i]].expire <= l.node[c[i + 1]].expire
        BY <4>1 DEF Ascending
      <4> QED
        BY <1>4, <1>6, <3>1, <4>1, <4>2
    <3>3. CASE i + 1 = k
      <4>1. i = k - 1 /\ d[i] = c[k - 1] /\ d[i + 1] = t /\ i < m
        BY <1>2, <3>3
      <4> QED
        BY <1>4, <1>6, <3>1, <3>3, <4>1
    <3>4. CASE i = k
      <4>1. (i + 1) - 1 = k /\ i + 1 > k /\ k < m
        BY <2>1, <3>4
      <4>2. d[i] = t /\ d[i + 1] = c[k]
        BY <1>2, <3>4, <4>1
      <4> QED
        BY <1>4, <1>6, <3>1, <4>1, <4>2
    <3>5. CASE i > k
      <4>0. PICK j \in Nat : i = j + 1
        <5>1. i - 1 \in Nat /\ i = (i - 1) + 1
          BY <3>5
        <5> QED
          BY <5>1
      <4>1. j < m /\ j + 1 < m /\ i - 1 = j /\ (i + 1) - 1 = j + 1 /\ i + 1 > k
        BY <2>1, <3>5, <4>0
      <4>2. d[i] = c[j] /\ d[i + 1] = c[j + 1]
        BY <1>2, <3>5, <4>1
      <4>3. l.node[c[j]].expire <= l.node[c[j + 1]].expire
        BY <4>1 DEF Ascending
      <4> QED
        BY <1>4, <1>6, <3>1, <4>1, <4>2, <4>3
    <3> QED
      BY <3>2, <3>3, <3>4, <3>5
  <2> QED
    BY <2>1 DEF Ascending
<1>15. r \in Lists /\ S \cup {t} \subseteq Timers
  BY DEF Inserted
<1> QED
  BY <1>1, <1>12, <1>13, <1>14, <1>15 DEF IsSortedList

\* r is l without the timer t at position k, whose node may be anything now.
Removed(l, r, c, m, S, k, t) ==
  /\ r \in Lists
  /\ r.head = IF k = 0 THEN c[1] ELSE l.head
  /\ m > 1 => r.tail = IF k = m - 1 THEN c[m - 2] ELSE l.tail
  /\ \A x \in S \ {t} : /\ r.node[x] # Null /\ r.node[x].expire = l.node[x].expire
                        /\ r.node[x].next = IF k > 0 /\ x = c[k - 1] THEN c[k + 1] ELSE l.node[x].next
                        /\ r.node[x].prev = IF x # c[k + 1] THEN l.node[x].prev
                                            ELSE IF k = 0 THEN Null ELSE c[k - 1]

\* What is left is a sorted list.
LEMMA RemovedIsSorted ==
  ASSUME NEW l \in Lists, NEW S, S \subseteq Timers,
         NEW m \in Nat, NEW c \in [Nat -> Address], Chain(l, c, m, S), Ascending(l, c, m),
         NEW k \in Nat, k < m, NEW t, t = c[k], NEW r, Removed(l, r, c, m, S, k, t)
  PROVE  IsSortedList(r, S \ {t})
<1> DEFINE d == [i \in Nat |-> IF i < k THEN c[i] ELSE c[i + 1]]
<1>1. d \in [Nat -> Address]
  OBVIOUS
<1>2. /\ \A i \in Nat : i < k => d[i] = c[i]
      /\ \A i \in Nat : i >= k => d[i] = c[i + 1]
  OBVIOUS
<1> HIDE DEF d
<1>3. m - 1 \in Nat
  OBVIOUS
<1>4. \A i, j \in Nat : i < m /\ j < m /\ c[i] = c[j] => i = j
  BY DEF Chain
<1>5. \A i \in Nat : i < m => c[i] \in S /\ c[i] \in Timers /\ c[i] # Null /\ (i # k => c[i] # t)
  BY <1>4, ChainTimers
<1>6. \A i \in Nat : i < m => l.node[c[i]] # Null /\ l.node[c[i]].next = c[i + 1]
                              /\ l.node[c[i]].prev = IF i = 0 THEN Null ELSE c[i - 1]
  BY DEF Chain
<1>7. \A i \in Nat : d[i] # Null <=> i < m - 1
  <2>1. ASSUME NEW i \in Nat PROVE d[i] # Null <=> i < m - 1
    <3>1. CASE i < k
      <4>1. i < m - 1 /\ i < m
        BY <3>1
      <4> QED
        BY <1>2, <1>5, <3>1, <4>1
    <3>2. CASE i >= k
      <4>1. i + 1 \in Nat /\ (c[i + 1] # Null <=> i + 1 < m)
        BY DEF Chain
      <4> QED
        BY <1>2, <3>2, <4>1
    <3> QED
      BY <3>1, <3>2
  <2> QED
    BY <2>1
\* Position i of what is left was position p of the list.
<1> DEFINE p(i) == IF i < k THEN i ELSE i + 1
<1>8. \A i \in Nat : i < m - 1 =>
        p(i) \in Nat /\ p(i) < m /\ p(i) # k /\ d[i] = c[p(i)] /\ d[i] \in S \ {t} /\ d[i] \in Timers
  <2>1. ASSUME NEW i \in Nat, i < m - 1 PROVE p(i) \in Nat /\ p(i) < m /\ p(i) # k
    BY <2>1
  <2>2. ASSUME NEW i \in Nat, i < m - 1 PROVE d[i] = c[p(i)]
    BY <1>2, <2>2
  <2> HIDE DEF p
  <2> QED
    BY <1>5, <2>1, <2>2
<1>9. ASSUME NEW i \in Nat, i < m - 1
      PROVE  /\ r.node[d[i]] # Null
             /\ r.node[d[i]].next = d[i + 1]
             /\ r.node[d[i]].prev = IF i = 0 THEN Null ELSE d[i - 1]
  <2>1. /\ d[i] \in S \ {t} /\ r.node[d[i]] # Null
        /\ r.node[d[i]].next = IF k > 0 /\ d[i] = c[k - 1] THEN c[k + 1] ELSE l.node[d[i]].next
        /\ r.node[d[i]].prev = IF d[i] # c[k + 1] THEN l.node[d[i]].prev
                               ELSE IF k = 0 THEN Null ELSE c[k - 1]
    <3>1. d[i] \in S \ {t}
      BY <1>8, <1>9
    <3> QED
      BY <3>1 DEF Removed
  <2>2. CASE i < k
    <3>1. d[i] = c[i] /\ i < m /\ i # k + 1
      BY <1>2, <2>2
    <3>2. r.node[d[i]].next = d[i + 1]
      <4>1. CASE i + 1 = k
        <5>1. k > 0 /\ i = k - 1 /\ i + 1 >= k /\ (i + 1) + 1 = k + 1
          BY <4>1
        <5> QED
          BY <1>2, <2>1, <3>1, <5>1
      <4>2. CASE i + 1 # k
        <5>1. i + 1 < k /\ k - 1 \in Nat /\ k - 1 < m /\ i # k - 1
          BY <2>2, <4>2
        <5>2. c[i] # c[k - 1]
          BY <1>4, <3>1, <5>1
        <5> QED
          BY <1>2, <1>6, <2>1, <3>1, <5>1, <5>2
      <4> QED
        BY <4>1, <4>2
    <3>3. c[i] # c[k + 1]
      <4>1. CASE k + 1 < m
        BY <1>4, <3>1, <4>1
      <4>2. CASE ~(k + 1 < m)
        <5>1. c[k + 1] = Null
          BY <4>2 DEF Chain
        <5> QED
          BY <1>5, <3>1, <5>1
      <4> QED
        BY <4>1, <4>2
    <3>4. i # 0 => i - 1 \in Nat /\ d[i - 1] = c[i - 1]
      <4>1. i # 0 => i - 1 \in Nat /\ i - 1 < k
        BY <2>2
      <4> QED
        BY <1>2, <4>1
    <3> QED
      BY <1>6, <2>1, <3>1, <3>2, <3>3, <3>4
  <2>3. CASE i >= k
    <3>1. d[i] = c[i + 1] /\ i + 1 \in Nat /\ i + 1 < m
      BY <1>2, <1>9, <2>3
    <3>2. r.node[d[i]].next = d[i + 1]
      <4>1. k > 0 => c[i + 1] # c[k - 1]
        <5>1. k > 0 => k - 1 \in Nat /\ k - 1 < m /\ i + 1 # k - 1
          BY <2>3
        <5> QED
          BY <1>4, <3>1, <5>1
      <4>2. l.node[c[i + 1]].next = c[(i + 1) + 1]
        BY <1>6, <3>1
      <4>3. d[i + 1] = c[(i + 1) + 1]
        BY <1>2, <2>3
      <4> QED
        BY <2>1, <3>1, <4>1, <4>2, <4>3
    <3>3. CASE i = k
      <4>1. r.node[d[i]].prev = IF k = 0 THEN Null ELSE c[k - 1]
        BY <2>1, <3>1, <3>3
      <4>2. k # 0 => d[k - 1] = c[k - 1]
        <5>1. k # 0 => k - 1 \in Nat /\ k - 1 < k
          OBVIOUS
        <5> QED
          BY <1>2, <5>1
      <4> QED
        BY <2>1, <3>2, <3>3, <4>1, <4>2
    <3>4. CASE i # k
      <4>1. i > k /\ i - 1 \in Nat /\ i - 1 >= k /\ (i - 1) + 1 = i /\ k + 1 \in Nat /\ k + 1 < m /\ i + 1 # k + 1
            /\ i + 1 # 0 /\ (i + 1) - 1 = i
        BY <2>3, <3>1, <3>4
      <4>2. c[i + 1] # c[k + 1]
        BY <1>4, <3>1, <4>1
      <4>3. r.node[d[i]].prev = c[i]
        BY <1>6, <2>1, <3>1, <4>1, <4>2
      <4>4. d[i - 1] = c[i]
        BY <1>2, <4>1
      <4> QED
        BY <2>1, <3>2, <4>1, <4>3, <4>4
    <3> QED
      BY <3>3, <3>4
  <2> QED
    BY <2>2, <2>3
<1>10. ASSUME NEW i \in Nat, NEW j \in Nat, i < m - 1, j < m - 1, d[i] = d[j]
       PROVE  i = j
  <2>1. p(i) \in Nat /\ p(j) \in Nat /\ p(i) < m /\ p(j) < m /\ c[p(i)] = c[p(j)]
    BY <1>8, <1>10
  <2>2. p(i) = p(j)
    <3> HIDE DEF p
    <3> QED
      BY <1>4, <2>1
  <2> QED
    BY <2>2
<1>11. ASSUME NEW x \in Timers PROVE x \in S \ {t} <=> \E i \in Nat : i < m - 1 /\ d[i] = x
  <2>1. x \in S <=> \E i \in Nat : i < m /\ c[i] = x
    BY DEF Chain
  <2>2. ASSUME NEW i \in Nat, i < m, c[i] = x, x # t PROVE \E j \in Nat : j < m - 1 /\ d[j] = x
    <3>1. CASE i < k
      <4>1. i < m - 1
        BY <3>1
      <4> QED
        BY <1>2, <2>2, <3>1, <4>1
    <3>2. CASE ~(i < k)
      <4>1. i # k
        BY <2>2
      <4>2. i - 1 \in Nat /\ i - 1 >= k /\ (i - 1) + 1 = i /\ i - 1 < m - 1
        BY <2>2, <3>2, <4>1
      <4>3. d[i - 1] = x
        BY <1>2, <2>2, <4>2
      <4> QED
        BY <4>2, <4>3
    <3> QED
      BY <3>1, <3>2
  <2> HIDE DEF p
  <2>3. ASSUME NEW i \in Nat, i < m - 1, d[i] = x PROVE x \in S \ {t}
    BY <1>8, <2>3
  <2> QED
    BY <2>1, <2>2, <2>3
<1>12. r.head = d[0]
  <2>1. CASE k = 0
    BY <1>2, <2>1 DEF Removed
  <2>2. CASE k # 0
    BY <1>2, <2>2 DEF Removed, Chain
  <2> QED
    BY <2>1, <2>2
<1>13. m - 1 > 0 => r.tail = d[(m - 1) - 1]
  <2> SUFFICES ASSUME m - 1 > 0 PROVE r.tail = d[(m - 1) - 1]
    OBVIOUS
  <2>1. CASE k = m - 1
    <3>1. m - 2 \in Nat /\ m - 2 < k /\ m > 1 /\ (m - 1) - 1 = m - 2
      BY <2>1
    <3> QED
      BY <1>2, <2>1, <3>1 DEF Removed
  <2>2. CASE k # m - 1
    <3>1. m - 2 \in Nat /\ m - 2 >= k /\ m > 1 /\ m > 0 /\ (m - 2) + 1 = m - 1 /\ (m - 1) - 1 = m - 2
      BY <2>2
    <3>2. r.tail = c[m - 1]
      BY <2>2, <3>1 DEF Removed, Chain
    <3> QED
      BY <1>2, <3>1, <3>2
  <2> QED
    BY <2>1, <2>2
<1>14. Chain(r, d, m - 1, S \ {t})
  <2> HIDE DEF p
  <2> QED
    BY <1>1, <1>3, <1>7, <1>9, <1>10, <1>11, <1>12, <1>13 DEF Chain
<1>15. Ascending(r, d, m - 1)
  <2>1. ASSUME NEW i \in Nat, i + 1 < m - 1 PROVE r.node[d[i]].expire <= r.node[d[i + 1]].expire
    <3>1. /\ i + 1 \in Nat /\ i < m - 1
          /\ d[i] \in S \ {t} /\ d[i + 1] \in S \ {t} /\ d[i] = c[p(i)] /\ d[i + 1] = c[p(i + 1)]
      <4>1. i + 1 \in Nat /\ i < m - 1
        BY <2>1
      <4> HIDE DEF p
      <4> QED
        BY <1>8, <2>1, <4>1
    <3>2. r.node[d[i]].expire = l.node[d[i]].expire /\ r.node[d[i + 1]].expire = l.node[d[i + 1]].expire
      BY <3>1 DEF Removed
    <3>3. CASE i + 1 = k
      <4>1. d[i] = c[i] /\ d[i + 1] = c[(i + 1) + 1] /\ i + 1 < m /\ (i + 1) + 1 < m
        BY <1>2, <2>1, <3>3
      <4>2. l.node[c[i]].expire <= l.node[c[i + 1]].expire
        BY <4>1 DEF Ascending
      <4>3. l.node[c[i + 1]].expire <= l.node[c[(i + 1) + 1]].expire
        BY <3>1, <4>1 DEF Ascending
      <4>4. /\ l.node[c[i]].expire \in Nat /\ l.node[c[i + 1]].expire \in Nat
            /\ l.node[c[(i + 1) + 1]].expire \in Nat
        <5>1. \A j \in Nat : j < m => l.node[c[j]].expire \in Nat
          <6>1. l.node \in Nodes
            BY DEF Lists
          <6> QED
            BY <1>5, <1>6, <6>1, NodeFields
        <5>2. i < m /\ (i + 1) + 1 \in Nat
          BY <2>1
        <5> QED
          BY <3>1, <4>1, <5>1, <5>2
      <4> QED
        BY <3>2, <4>1, <4>2, <4>3, <4>4
    <3>4. CASE i + 1 # k
      <4>1. p(i) \in Nat /\ p(i) + 1 < m /\ p(i + 1) = p(i) + 1
        BY <2>1, <3>4
      <4> HIDE DEF p
      <4>2. l.node[c[p(i)]].expire <= l.node[c[p(i) + 1]].expire
        BY <4>1 DEF Ascending
      <4> QED
        BY <3>1, <3>2, <4>1, <4>2
    <3> QED
      BY <3>3, <3>4
  <2> HIDE DEF p
  <2> QED
    BY <2>1 DEF Ascending
<1>16. r \in Lists /\ S \ {t} \subseteq Timers
  BY DEF Removed
<1> HIDE DEF p
<1> QED
  BY <1>1, <1>3, <1>14, <1>15, <1>16 DEF IsSortedList

\* r is l without its first n timers.
Dropped(l, r, c, m, n) ==
  /\ r \in Lists
  /\ r.head = c[n] /\ r.tail = l.tail
  /\ \A i \in Nat : n <= i /\ i < m =>
       /\ r.node[c[i]] # Null /\ r.node[c[i]].expire = l.node[c[i]].expire
       /\ r.node[c[i]].next = l.node[c[i]].next
       /\ r.node[c[i]].prev = IF i = n THEN Null ELSE l.node[c[i]].prev

\* The timers at c[0], ..., c[n - 1].
AreFirst(D, c, n) ==
  D \subseteq Timers /\ \A x \in Timers : x \in D <=> \E i \in Nat : i < n /\ c[i] = x

\* The rest is a sorted list.
LEMMA DroppedIsSorted ==
  ASSUME NEW l \in Lists, NEW S, S \subseteq Timers,
         NEW m \in Nat, NEW c \in [Nat -> Address], Chain(l, c, m, S), Ascending(l, c, m),
         NEW n \in Nat, n <= m, NEW r, Dropped(l, r, c, m, n),
         NEW D, AreFirst(D, c, n)
  PROVE  IsSortedList(r, S \ D)
<1> DEFINE d == [i \in Nat |-> c[i + n]]
<1>1. d \in [Nat -> Address]
  OBVIOUS
<1>2. \A i \in Nat : d[i] = c[i + n] /\ i + n \in Nat /\ n <= i + n /\ (i < m - n <=> i + n < m)
  OBVIOUS
<1> HIDE DEF d
<1>3. m - n \in Nat
  OBVIOUS
<1>4. /\ \A i, j \in Nat : i < m /\ j < m /\ c[i] = c[j] => i = j
      /\ \A i \in Nat : i < m => l.node[c[i]] # Null /\ l.node[c[i]].next = c[i + 1]
                              /\ l.node[c[i]].prev = IF i = 0 THEN Null ELSE c[i - 1]
      /\ \A i \in Nat : c[i] # Null <=> i < m
  BY DEF Chain
<1>5. \A i \in Nat : d[i] # Null <=> i < m - n
  BY <1>2, <1>4
<1>6. ASSUME NEW i \in Nat, i < m - n
      PROVE  /\ r.node[d[i]] # Null
             /\ r.node[d[i]].next = d[i + 1]
             /\ r.node[d[i]].prev = IF i = 0 THEN Null ELSE d[i - 1]
  <2> DEFINE j == i + n
  <2>1. j \in Nat /\ n <= j /\ j < m /\ d[i] = c[j] /\ (j = n <=> i = 0)
    BY <1>2, <1>6
  <2>2. d[i + 1] = c[j + 1]
    <3>1. (i + 1) + n = j + 1 /\ i + 1 \in Nat
      OBVIOUS
    <3> QED
      BY <1>2, <3>1
  <2>3. i # 0 => d[i - 1] = c[j - 1] /\ j # 0
    <3>1. i # 0 => i - 1 \in Nat /\ (i - 1) + n = j - 1
      OBVIOUS
    <3> QED
      BY <1>2, <2>1, <3>1
  <2> HIDE DEF j
  <2> QED
    BY <1>4, <2>1, <2>2, <2>3 DEF Dropped
<1>7. ASSUME NEW i \in Nat, NEW j \in Nat, i < m - n, j < m - n, d[i] = d[j]
      PROVE  i = j
  <2>1. i + n = j + n
    BY <1>2, <1>4, <1>7
  <2> QED
    BY <2>1
<1>8. ASSUME NEW x \in Timers PROVE x \in S \ D <=> \E i \in Nat : i < m - n /\ d[i] = x
  <2>1. x \in S <=> \E i \in Nat : i < m /\ c[i] = x
    BY DEF Chain
  <2>2. x \in D <=> \E i \in Nat : i < n /\ c[i] = x
    BY DEF AreFirst
  <2>3. ASSUME NEW i \in Nat, i < m, c[i] = x, x \notin D PROVE \E j \in Nat : j < m - n /\ d[j] = x
    <3>1. ~(i < n)
      BY <2>2, <2>3
    <3>2. i - n \in Nat /\ (i - n) + n = i /\ i - n < m - n
      BY <2>3, <3>1
    <3>3. d[i - n] = x
      BY <1>2, <2>3, <3>2
    <3> QED
      BY <3>2, <3>3
  <2>4. ASSUME NEW i \in Nat, i < m - n, d[i] = x PROVE x \in S /\ x \notin D
    <3>1. i + n \in Nat /\ i + n < m /\ c[i + n] = x /\ n <= i + n
      BY <1>2, <2>4
    <3>2. \A j \in Nat : j < n => j < m /\ j # i + n
      BY <3>1
    <3> QED
      BY <1>4, <2>1, <2>2, <3>1, <3>2
  <2> QED
    BY <2>1, <2>3, <2>4
<1>9. r.head = d[0]
  <2>1. 0 + n = n /\ 0 \in Nat
    OBVIOUS
  <2> QED
    BY <1>2, <2>1 DEF Dropped
<1>10. m - n > 0 => r.tail = d[(m - n) - 1]
  <2>1. m - n > 0 => (m - n) - 1 \in Nat /\ ((m - n) - 1) + n = m - 1 /\ m > 0
    OBVIOUS
  <2> QED
    BY <1>2, <2>1 DEF Dropped, Chain
<1>11. Chain(r, d, m - n, S \ D)
  BY <1>1, <1>3, <1>5, <1>6, <1>7, <1>8, <1>9, <1>10 DEF Chain
<1>12. Ascending(r, d, m - n)
  <2>1. ASSUME NEW i \in Nat, i + 1 < m - n PROVE r.node[d[i]].expire <= r.node[d[i + 1]].expire
    <3> DEFINE j == i + n
    <3>1. /\ j \in Nat /\ n <= j /\ j < m /\ j + 1 \in Nat /\ n <= j + 1 /\ j + 1 < m
          /\ i + 1 \in Nat /\ (i + 1) + n = j + 1
      BY <2>1
    <3>2. d[i] = c[j] /\ d[i + 1] = c[j + 1]
      BY <1>2, <3>1
    <3> HIDE DEF j
    <3>3. l.node[c[j]].expire <= l.node[c[j + 1]].expire
      BY <3>1 DEF Ascending
    <3> QED
      BY <3>1, <3>2, <3>3 DEF Dropped
  <2> QED
    BY <2>1 DEF Ascending
<1>13. r \in Lists /\ S \ D \subseteq Timers
  BY DEF Dropped
<1> QED
  BY <1>1, <1>3, <1>11, <1>12, <1>13 DEF IsSortedList

-----------------------------------------------------------------------------
(* The operations *)

LEMMA SameTimersChain ==
  ASSUME NEW nd, NEW nd1, NEW nd2, SameTimers(nd, nd1), SameTimers(nd1, nd2)
  PROVE  SameTimers(nd, nd2)
BY DEF SameTimers

\* Fields of a list.
LEMMA ListFields == ASSUME NEW l \in Lists PROVE l.head \in Address /\ l.tail \in Address /\ l.node \in Nodes
BY DEF Lists

\* The private add_timer goes on to the last timer that expires no later, but for the first.
LEMMA PlaceFinds ==
  ASSUME NEW l \in Lists, NEW S, S \subseteq Timers,
         NEW m \in Nat, NEW c \in [Nat -> Address], Chain(l, c, m, S), m > 0,
         NEW t \in Timers, l.node[t] # Null
  PROVE  \E k \in Nat : /\ k < m /\ Place(l, t, l.head) = c[k]
                        /\ k > 0 => l.node[c[k]].expire <= l.node[t].expire
                        /\ k + 1 < m => l.node[t].expire < l.node[c[k + 1]].expire
<1> DEFINE N == Cardinality(Timers)
           at == Walk(l.node, l.head)
           stops(i) == at[i] # Null
                         /\ (at[i + 1] = Null \/ l.node[t].expire < l.node[at[i + 1]].expire)
           First(k) == stops(k) /\ \A j \in 0..(k - 1) : ~stops(j)
           k == CHOOSE i \in 0..(N - 1) : First(i)
           Stops == {i \in Nat : i < m /\ stops(i)}
<1>1. Place(l, t, l.head) = at[k]
  BY DEF Place
<1>2. N \in Nat /\ m <= N
  BY ChainFits, SizeIsNat
<1>3. \A i \in 0..N : at[i] = c[i]
  BY WalkFollows
<1>4. \A i \in Nat : c[i] # Null <=> i < m
  BY DEF Chain
<1> HIDE DEF at, N
<1>5. m - 1 \in Stops
  <2>1. m - 1 \in Nat /\ m - 1 < m /\ (m - 1) + 1 = m /\ m - 1 \in 0..N /\ m \in 0..N
    BY <1>2
  <2> QED
    BY <1>3, <1>4, <2>1
<1>6. \E i \in Stops : \A j \in Stops : i <= j
  <2>1. Stops \in SUBSET Nat
    OBVIOUS
  <2> HIDE DEF Stops
  <2> QED
    BY <1>5, <2>1, Least
<1>7. \E i \in 0..(N - 1) : First(i)
  <2>1. PICK i \in Stops : \A j \in Stops : i <= j
    BY <1>6
  <2>2. i \in 0..(N - 1) /\ stops(i)
    BY <1>2, <2>1
  <2>3. ASSUME NEW j \in 0..(i - 1) PROVE ~stops(j)
    <3>1. j \in Nat /\ j < m /\ ~(i <= j)
      BY <2>1
    <3>2. j \notin Stops
      BY <2>1, <3>1
    <3> HIDE DEF stops
    <3> QED
      BY <3>1, <3>2
  <2> HIDE DEF stops
  <2> QED
    BY <2>2, <2>3
<1>8. k \in 0..(N - 1) /\ First(k)
  <2> HIDE DEF First
  <2> QED
    BY <1>7
<1> HIDE DEF k
<1>9. k \in Nat /\ k \in 0..N /\ k + 1 \in 0..N
  BY <1>2, <1>8
<1>10. at[k] = c[k] /\ k < m
  BY <1>3, <1>4, <1>8, <1>9
<1>11. k + 1 < m => l.node[t].expire < l.node[c[k + 1]].expire
  BY <1>3, <1>4, <1>8, <1>9
<1>12. k > 0 => l.node[c[k]].expire <= l.node[t].expire
  <2> SUFFICES ASSUME k > 0 PROVE l.node[c[k]].expire <= l.node[t].expire
    OBVIOUS
  <2>1. k - 1 \in 0..(k - 1) /\ k - 1 \in Nat /\ k - 1 \in 0..N /\ k - 1 < m /\ (k - 1) + 1 = k
    BY <1>2, <1>9, <1>10
  <2>2. at[k - 1] = c[k - 1] /\ c[k - 1] # Null /\ at[(k - 1) + 1] = c[k] /\ c[k] # Null
    BY <1>3, <1>4, <1>9, <1>10, <2>1
  <2>3. ~(l.node[t].expire < l.node[c[k]].expire)
    BY <1>8, <2>1, <2>2
  <2>4. l.node[c[k]].expire \in Nat /\ l.node[t].expire \in Nat
    <3>1. c[k] \in Timers /\ l.node[c[k]] # Null
      BY <1>9, <1>10, ChainTimers DEF Chain
    <3> QED
      BY <3>1, ListFields, NodeFields
  <2> QED
    BY <2>3, <2>4
<1> QED
  BY <1>1, <1>9, <1>10, <1>11, <1>12

\* The private add_timer, from the head of a list whose first timer expires no later than t.
LEMMA AddAfterAdds ==
  ASSUME NEW l \in Lists, NEW S, S \subseteq Timers, IsSortedList(l, S), l.head # Null,
         NEW t \in Timers, t \notin S, l.node[t] # Null,
         l.node[l.head].expire <= l.node[t].expire
  PROVE  /\ IsSortedList(AddAfter(l, t, l.head), S \cup {t})
         /\ SameTimers(l.node, AddAfter(l, t, l.head).node)
<1>1. PICK m \in Nat, c \in [Nat -> Address] : Chain(l, c, m, S) /\ Ascending(l, c, m)
  BY DEF IsSortedList
<1>2. m > 0
  <2>1. c[0] # Null
    BY <1>1 DEF Chain
  <2>2. 0 < m
    BY <1>1, <2>1 DEF Chain
  <2> QED
    BY <2>2
<1>3. PICK k \in Nat : /\ k < m /\ Place(l, t, l.head) = c[k]
                       /\ k > 0 => l.node[c[k]].expire <= l.node[t].expire
                       /\ k + 1 < m => l.node[t].expire < l.node[c[k + 1]].expire
  BY <1>1, <1>2, PlaceFinds
<1> DEFINE p == c[k]
           n == c[k + 1]
           nd == l.node
           nd1 == [nd EXCEPT ![p].next = t]
           nd2 == [nd1 EXCEPT ![t].prev = p]
           nd3 == [nd2 EXCEPT ![t].next = n]
           nd4 == SetPrev(nd3, n, t)
           r == AddAfter(l, t, l.head)
<1>4. p \in Timers /\ p \in S /\ p # t /\ nd[p] # Null /\ nd[p].next = n /\ n \in Address /\ n # t /\ nd \in Nodes
  <2>1. p \in Timers /\ p \in S /\ p # t
    BY <1>1, <1>3, ChainTimers
  <2>2. nd[p] # Null /\ nd[p].next = n
    BY <1>1, <1>3 DEF Chain
  <2>3. n \in Address /\ n # t
    <3>1. k + 1 \in Nat
      OBVIOUS
    <3>2. CASE k + 1 < m
      BY <1>1, <3>1, <3>2, ChainTimers
    <3>3. CASE ~(k + 1 < m)
      BY <1>1, <3>1, <3>3, NullIsNull DEF Chain
    <3> QED
      BY <3>1, <3>2, <3>3
  <2> QED
    BY <2>1, <2>2, <2>3, ListFields
<1>5. n # Null => n \in Timers /\ n \in S /\ nd[n] # Null
  <2>1. k + 1 \in Nat
    OBVIOUS
  <2>2. n # Null => k + 1 < m
    BY <1>1, <2>1 DEF Chain
  <2> QED
    BY <1>1, <2>1, <2>2, ChainTimers DEF Chain
<1>6. r = [l EXCEPT !.node = nd4, !.tail = IF n = Null THEN t ELSE @]
  BY <1>3, <1>4 DEF AddAfter
<1>7. t \in Address /\ p \in Address
  BY <1>4 DEF Address
<1> HIDE DEF nd, p, n
<1>8. NextWritten(nd, nd1, p, t)
  BY <1>4, <1>7, WriteNext
<1>9. nd1 \in Nodes /\ nd1[t] # Null
  BY <1>8 DEF NextWritten, SameTimers, nd
<1> HIDE DEF nd1
<1>10. PrevWritten(nd1, nd2, t, p)
  BY <1>7, <1>9, WritePrev
<1>11. nd2 \in Nodes /\ nd2[t] # Null
  BY <1>9, <1>10 DEF PrevWritten, SameTimers
<1> HIDE DEF nd2
<1>12. NextWritten(nd2, nd3, t, n)
  BY <1>4, <1>11, WriteNext
<1>13. nd3 \in Nodes /\ (n # Null => nd3[n] # Null)
  BY <1>5, <1>8, <1>10, <1>12 DEF NextWritten, PrevWritten, SameTimers
<1> HIDE DEF nd3
<1>14. PrevWritten(nd3, nd4, n, t)
  BY <1>4, <1>7, <1>13, SetPrevWrites
<1> HIDE DEF nd4
<1>15. nd4 \in Nodes /\ SameTimers(nd, nd4)
  BY <1>8, <1>10, <1>12, <1>14, SameTimersChain DEF NextWritten, PrevWritten
<1>16. ASSUME NEW x \in Timers, nd[x] # Null
       PROVE  /\ nd4[x].next = IF x = t THEN n ELSE IF x = p THEN t ELSE nd[x].next
              /\ nd4[x].prev = IF x = n THEN t ELSE IF x = t THEN p ELSE nd[x].prev
  <2>1. nd1[x] # Null /\ nd2[x] # Null /\ nd3[x] # Null
    BY <1>8, <1>10, <1>12, <1>16 DEF NextWritten, PrevWritten, SameTimers
  <2>2. /\ nd1[x].next = IF x = p THEN t ELSE nd[x].next
        /\ nd1[x].prev = nd[x].prev
    BY <1>8, <1>16 DEF NextWritten
  <2>3. /\ nd2[x].prev = IF x = t THEN p ELSE nd1[x].prev
        /\ nd2[x].next = nd1[x].next
    BY <1>10, <2>1 DEF PrevWritten
  <2>4. /\ nd3[x].next = IF x = t THEN n ELSE nd2[x].next
        /\ nd3[x].prev = nd2[x].prev
    BY <1>12, <2>1 DEF NextWritten
  <2>5. /\ nd4[x].prev = IF x = n THEN t ELSE nd3[x].prev
        /\ nd4[x].next = nd3[x].next
    BY <1>14, <2>1 DEF PrevWritten
  <2> QED
    BY <2>2, <2>3, <2>4, <2>5
<1>17. r \in Lists /\ r.head = l.head /\ r.node = nd4 /\ r.tail = IF n = Null THEN t ELSE l.tail
  <2>1. l \in [head: Address, tail: Address, node: Nodes]
    BY DEF Lists
  <2> HIDE DEF r
  <2> QED
    BY <1>6, <1>7, <1>15, <2>1 DEF Lists
<1> HIDE DEF r
<1>18. Inserted(l, r, c, m, S, k + 1, t)
  <2>1. n = Null <=> k + 1 = m
    <3>1. k + 1 \in Nat /\ (k + 1 < m \/ k + 1 = m)
      BY <1>3
    <3> QED
      BY <1>1, <3>1 DEF Chain, n
  <2>2. k + 1 # 0 /\ k + 1 > 0 /\ (k + 1) - 1 = k
    OBVIOUS
  <2>3. r.node[t].next = n /\ r.node[t].prev = p
    BY <1>4, <1>16, <1>17 DEF nd
  <2>4. ASSUME NEW x \in S
        PROVE  /\ r.node[x].next = IF x = p THEN t ELSE l.node[x].next
               /\ r.node[x].prev = IF x = n THEN t ELSE l.node[x].prev
    <3>1. x \in Timers /\ x # t /\ nd[x] # Null
      <4>1. PICK i \in Nat : i < m /\ c[i] = x
        BY <1>1, <2>4 DEF Chain
      <4> QED
        BY <1>1, <4>1 DEF Chain, nd
    <3> QED
      BY <1>16, <1>17, <3>1 DEF nd
  <2> QED
    BY <1>15, <1>17, <2>1, <2>2, <2>3, <2>4 DEF Inserted, nd, n, p
<1>19. k + 1 \in Nat /\ k + 1 <= m /\ (k + 1) - 1 = k
  BY <1>3
<1>20. l.node[c[k]].expire <= l.node[t].expire
  <2>1. k = 0 => c[k] = l.head
    BY <1>1 DEF Chain
  <2> QED
    BY <1>3, <2>1
<1>21. k + 1 < m => l.node[t].expire <= l.node[c[k + 1]].expire
  <2> SUFFICES ASSUME k + 1 < m PROVE l.node[t].expire <= l.node[c[k + 1]].expire
    OBVIOUS
  <2>1. c[k + 1] \in Timers /\ l.node[c[k + 1]] # Null
    BY <1>1, <1>19, ChainTimers DEF Chain
  <2>2. l.node[t].expire \in Nat /\ l.node[c[k + 1]].expire \in Nat
    BY <2>1, ListFields, NodeFields
  <2> QED
    BY <1>3, <2>2
<1>22. IsSortedList(r, S \cup {t})
  BY <1>1, <1>18, <1>19, <1>20, <1>21, InsertedIsSorted
<1> QED
  BY <1>15, <1>17, <1>22 DEF r, nd

\* The public add_timer, of a node that points nowhere yet.
LEMMA AddTimerAdds ==
  ASSUME NEW l \in Lists, NEW S, S \subseteq Timers, IsSortedList(l, S),
         NEW t \in Timers, t \notin S, l.node[t] # Null,
         l.node[t].next = Null, l.node[t].prev = Null
  PROVE  /\ IsSortedList(AddTimer(l, t), S \cup {t})
         /\ SameTimers(l.node, AddTimer(l, t).node)
<1>1. PICK m \in Nat, c \in [Nat -> Address] : Chain(l, c, m, S) /\ Ascending(l, c, m)
  BY DEF IsSortedList
<1>2. /\ l.head = c[0] /\ c[0] \in Address /\ (m > 0 <=> c[0] # Null)
      /\ m > 0 => c[0] \in Timers /\ c[0] \in S /\ l.node[c[0]] # Null
  <2>1. l.head = c[0] /\ c[0] \in Address
    BY <1>1 DEF Chain
  <2>2. m > 0 <=> c[0] # Null
    <3>1. c[0] # Null <=> 0 < m
      BY <1>1 DEF Chain
    <3> QED
      BY <3>1
  <2>3. m > 0 => c[0] \in Timers /\ c[0] \in S
    BY <1>1, ChainTimers
  <2>4. m > 0 => l.node[c[0]] # Null
    BY <1>1 DEF Chain
  <2> QED
    BY <2>1, <2>2, <2>3, <2>4
<1>3. /\ l \in [head: Address, tail: Address, node: Nodes] /\ Lists = [head: Address, tail: Address, node: Nodes]
      /\ l.node \in Nodes /\ t \in Address
  BY ListFields DEF Lists, Address
<1> DEFINE r == AddTimer(l, t)
<1>4. CASE l.head = Null
  <2>1. r = [l EXCEPT !.head = t, !.tail = t]
    BY <1>4 DEF AddTimer
  <2>2. r \in Lists /\ r.head = t /\ r.tail = t /\ r.node = l.node
    BY <1>3, <2>1
  <2> HIDE DEF r
  <2>3. m = 0 /\ S = {}
    <3>1. m = 0
      BY <1>2, <1>4
    <3> QED
      BY <1>1, <3>1 DEF Chain
  <2>4. Inserted(l, r, c, m, S, 0, t)
    BY <1>2, <1>4, <2>2, <2>3 DEF Inserted, SameTimers
  <2>5. IsSortedList(r, S \cup {t})
    BY <1>1, <2>3, <2>4, InsertedIsSorted
  <2> QED
    BY <2>2, <2>5 DEF r, SameTimers
<1>5. CASE l.head # Null /\ l.node[t].expire < l.node[l.head].expire
  <2> DEFINE nd == l.node
             h == c[0]
             nd1 == [nd EXCEPT ![t].next = h]
             nd2 == [nd1 EXCEPT ![h].prev = t]
  <2>1. r = [l EXCEPT !.node = nd2, !.head = t]
    BY <1>2, <1>5 DEF AddTimer
  <2>2. m > 0 /\ h \in Address /\ h \in Timers /\ h \in S /\ nd[h] # Null /\ nd[t] # Null /\ nd \in Nodes
    BY <1>2, <1>3, <1>5
  <2> HIDE DEF nd, h
  <2>3. NextWritten(nd, nd1, t, h)
    BY <2>2, WriteNext
  <2>4. nd1 \in Nodes /\ nd1[h] # Null
    BY <2>2, <2>3 DEF NextWritten, SameTimers
  <2> HIDE DEF nd1
  <2>5. PrevWritten(nd1, nd2, h, t)
    BY <1>3, <2>2, <2>4, WritePrev
  <2> HIDE DEF nd2
  <2>6. nd2 \in Nodes /\ SameTimers(nd, nd2)
    BY <2>3, <2>5, SameTimersChain DEF NextWritten, PrevWritten
  <2>7. r \in Lists /\ r.head = t /\ r.tail = l.tail /\ r.node = nd2
    <3> HIDE DEF r
    <3> QED
      BY <1>3, <2>1, <2>6
  <2>8. ASSUME NEW x \in Timers, nd[x] # Null
        PROVE  /\ nd2[x].next = IF x = t THEN h ELSE nd[x].next
               /\ nd2[x].prev = IF x = h THEN t ELSE nd[x].prev
    <3>1. nd1[x] # Null
      BY <2>3, <2>8 DEF NextWritten, SameTimers
    <3>2. nd1[x].next = (IF x = t THEN h ELSE nd[x].next) /\ nd1[x].prev = nd[x].prev
      BY <2>3, <2>8 DEF NextWritten
    <3>3. nd2[x].prev = (IF x = h THEN t ELSE nd1[x].prev) /\ nd2[x].next = nd1[x].next
      BY <2>5, <3>1 DEF PrevWritten
    <3> QED
      BY <3>2, <3>3
  <2> HIDE DEF r
  <2>9. Inserted(l, r, c, m, S, 0, t)
    <3>1. nd2[t].next = h /\ nd2[t].prev = Null
      BY <2>2, <2>8 DEF nd
    <3>2. ASSUME NEW x \in S
          PROVE  nd2[x].next = nd[x].next /\ nd2[x].prev = IF x = h THEN t ELSE nd[x].prev
      <4>1. x \in Timers /\ x # t /\ nd[x] # Null
        <5>1. PICK i \in Nat : i < m /\ c[i] = x
          BY <1>1, <3>2 DEF Chain
        <5> QED
          BY <1>1, <5>1 DEF Chain, nd
      <4> QED
        BY <2>8, <4>1
    <3>3. 0 # m
      BY <2>2
    <3> QED
      BY <2>6, <2>7, <3>1, <3>2, <3>3 DEF Inserted, nd, h
  <2>10. 0 < m /\ l.node[t].expire <= l.node[c[0]].expire
    <3>1. l.node[t].expire \in Nat /\ l.node[c[0]].expire \in Nat
      BY <1>2, <1>3, <2>2, NodeFields DEF h, nd
    <3> QED
      BY <1>2, <1>5, <2>2, <3>1
  <2>11. IsSortedList(r, S \cup {t})
    BY <1>1, <2>9, <2>10, InsertedIsSorted
  <2> QED
    BY <2>6, <2>7, <2>11 DEF r, nd
<1>6. CASE l.head # Null /\ ~(l.node[t].expire < l.node[l.head].expire)
  <2>1. r = AddAfter(l, t, l.head)
    BY <1>6 DEF AddTimer
  <2>2. l.node[l.head].expire <= l.node[t].expire
    <3>1. l.head \in Timers /\ l.node[l.head] # Null
      BY <1>2, <1>6
    <3>2. l.node[t].expire \in Nat /\ l.node[l.head].expire \in Nat
      BY <1>3, <3>1, NodeFields
    <3> QED
      BY <1>6, <3>2
  <2> QED
    BY <1>6, <2>1, <2>2, AddAfterAdds
<1> QED
  BY <1>4, <1>5, <1>6

\* The memory new is nd after p->next = n and n->prev = p.
Bypassed(nd, new, p, n) ==
  /\ new \in Nodes /\ SameTimers(nd, new)
  /\ \A x \in Timers : nd[x] # Null => /\ new[x].next = IF x = p THEN n ELSE nd[x].next
                                       /\ new[x].prev = IF x = n THEN p ELSE nd[x].prev
LEMMA BypassWrites ==
  ASSUME NEW nd \in Nodes, NEW p \in Timers, nd[p] # Null, NEW n \in Timers, nd[n] # Null
  PROVE  Bypassed(nd, [nd EXCEPT ![p].next = n, ![n].prev = p], p, n)
<1> DEFINE nd1 == [nd EXCEPT ![p].next = n]
           new == [nd1 EXCEPT ![n].prev = p]
<1>1. new = [nd EXCEPT ![p].next = n, ![n].prev = p]
  OBVIOUS
<1>2. p \in Address /\ n \in Address
  BY DEF Address
<1>3. NextWritten(nd, nd1, p, n)
  BY <1>2, WriteNext
<1>4. nd1 \in Nodes /\ nd1[n] # Null
  BY <1>3 DEF NextWritten, SameTimers
<1> HIDE DEF nd1
<1>5. PrevWritten(nd1, new, n, p)
  BY <1>2, <1>4, WritePrev
<1> HIDE DEF new
<1>6. new \in Nodes /\ SameTimers(nd, new)
  BY <1>3, <1>5, SameTimersChain DEF NextWritten, PrevWritten
<1>7. ASSUME NEW x \in Timers, nd[x] # Null
      PROVE  /\ new[x].next = IF x = p THEN n ELSE nd[x].next
             /\ new[x].prev = IF x = n THEN p ELSE nd[x].prev
  <2>1. nd1[x] # Null
    BY <1>3, <1>7 DEF NextWritten, SameTimers
  <2>2. nd1[x].next = (IF x = p THEN n ELSE nd[x].next) /\ nd1[x].prev = nd[x].prev
    BY <1>3, <1>7 DEF NextWritten
  <2>3. new[x].prev = (IF x = n THEN p ELSE nd1[x].prev) /\ new[x].next = nd1[x].next
    BY <1>5, <2>1 DEF PrevWritten
  <2> QED
    BY <2>2, <2>3
<1> QED
  BY <1>1, <1>6, <1>7 DEF Bypassed

\* del_timer takes a timer out of the list and touches no other but its neighbours.
LEMMA UnlinkRemoves ==
  ASSUME NEW l \in Lists, NEW S, S \subseteq Timers, IsSortedList(l, S), NEW t \in S
  PROVE  IsSortedList(Unlink(l, t), S \ {t}) /\ SameTimers(l.node, Unlink(l, t).node)
<1>1. PICK m \in Nat, c \in [Nat -> Address] : Chain(l, c, m, S) /\ Ascending(l, c, m)
  BY DEF IsSortedList
<1>2. PICK k \in Nat : k < m /\ c[k] = t
  BY <1>1 DEF Chain
<1> DEFINE nd == l.node
           n == nd[t].next
           p == nd[t].prev
           r == Unlink(l, t)
<1>3. t \in Timers /\ t # Null /\ nd[t] # Null /\ nd \in Nodes /\ n = c[k + 1] /\ p = IF k = 0 THEN Null ELSE c[k - 1]
  <2>1. t \in Timers /\ t # Null
    BY <1>1, <1>2, ChainTimers
  <2>2. nd[t] # Null /\ n = c[k + 1] /\ p = IF k = 0 THEN Null ELSE c[k - 1]
    BY <1>1, <1>2 DEF Chain
  <2> QED
    BY <2>1, <2>2, ListFields
<1>4. \A i, j \in Nat : i < m /\ j < m /\ c[i] = c[j] => i = j
  BY <1>1 DEF Chain
<1>5. (t = l.head <=> k = 0) /\ (t = l.tail <=> k = m - 1)
  <2>1. l.head = c[0] /\ l.tail = c[m - 1]
    BY <1>1, <1>2 DEF Chain
  <2>2. 0 < m /\ m - 1 \in Nat /\ m - 1 < m
    BY <1>2
  <2> QED
    BY <1>2, <1>4, <2>1, <2>2
<1>6. k < m - 1 => n \in Timers /\ n \in S /\ nd[n] # Null /\ n # t
  <2>1. k < m - 1 => k + 1 \in Nat /\ k + 1 < m /\ k + 1 # k
    OBVIOUS
  <2>2. k < m - 1 => n \in Timers /\ n \in S
    BY <1>1, <1>3, <2>1, ChainTimers
  <2>3. k < m - 1 => nd[n] # Null
    BY <1>1, <1>3, <2>1 DEF Chain
  <2>4. k < m - 1 => n # t
    BY <1>2, <1>3, <1>4, <2>1
  <2> QED
    BY <2>2, <2>3, <2>4
<1>7. k > 0 => p \in Timers /\ p \in S /\ nd[p] # Null /\ p # t /\ p = c[k - 1]
  <2>1. k > 0 => k - 1 \in Nat /\ k - 1 < m /\ k - 1 # k
    BY <1>2
  <2>2. k > 0 => p \in Timers /\ p \in S
    BY <1>1, <1>3, <2>1, ChainTimers
  <2>3. k > 0 => nd[p] # Null
    BY <1>1, <1>3, <2>1 DEF Chain
  <2>4. k > 0 => p # t /\ p = c[k - 1]
    BY <1>2, <1>3, <1>4, <2>1
  <2> QED
    BY <2>2, <2>3, <2>4
<1>8. k = m - 1 => n = Null
  <2>1. k = m - 1 => k + 1 = m /\ k + 1 \in Nat /\ ~(k + 1 < m)
    OBVIOUS
  <2> QED
    BY <1>1, <1>3, <2>1 DEF Chain
<1>9. \A x \in S : x \in Timers /\ nd[x] # Null
  <2>1. ASSUME NEW x \in S PROVE nd[x] # Null
    <3>1. PICK i \in Nat : i < m /\ c[i] = x
      BY <1>1 DEF Chain
    <3> QED
      BY <1>1, <3>1 DEF Chain
  <2> QED
    BY <2>1
<1>10. /\ l \in [head: Address, tail: Address, node: Nodes] /\ Lists = [head: Address, tail: Address, node: Nodes]
       /\ Null \in Address /\ n \in Address /\ p \in Address
  BY <1>3, NodeFields DEF Lists, Address
\* What each of the four cases has to show.
<1> DEFINE Link(x) == /\ r.node[x].next = IF k > 0 /\ x = c[k - 1] THEN c[k + 1] ELSE nd[x].next
                      /\ r.node[x].prev = IF x # c[k + 1] THEN nd[x].prev
                                          ELSE IF k = 0 THEN Null ELSE c[k - 1]
<1>11. SUFFICES /\ r \in Lists /\ SameTimers(nd, r.node)
                /\ r.head = IF k = 0 THEN c[1] ELSE l.head
                /\ m > 1 => r.tail = IF k = m - 1 THEN c[m - 2] ELSE l.tail
                /\ \A x \in S \ {t} : Link(x)
  <2> HIDE DEF r
  <2>1. \A x \in S \ {t} : r.node[x] # Null /\ r.node[x].expire = l.node[x].expire
    BY <1>9, <1>11 DEF SameTimers
  <2>2. Removed(l, r, c, m, S, k, t)
    BY <1>11, <2>1 DEF Removed
  <2>3. IsSortedList(r, S \ {t})
    BY <1>1, <1>2, <2>2, RemovedIsSorted
  <2> QED
    BY <1>11, <2>3 DEF r
<1>12. CASE t = l.head /\ t = l.tail
  <2>1. r = [l EXCEPT !.head = Null, !.tail = Null]
    BY <1>12 DEF Unlink
  <2> HIDE DEF r
  <2>2. k = 0 /\ m = 1 /\ n = Null /\ n = c[1]
    BY <1>3, <1>5, <1>8, <1>12
  <2>3. r \in Lists /\ r.head = Null /\ r.node = nd
    BY <1>10, <2>1
  <2>4. S \ {t} = {}
    <3>1. ASSUME NEW x \in S PROVE x = t
      <4>1. PICK i \in Nat : i < m /\ c[i] = x
        BY <1>1 DEF Chain
      <4>2. i = k
        BY <2>2, <4>1
      <4> QED
        BY <1>2, <4>1, <4>2
    <3> QED
      BY <3>1
  <2>5. SameTimers(nd, r.node)
    BY <2>3 DEF SameTimers
  <2>6. c[1] = Null /\ k = 0 /\ ~(m > 1)
    BY <2>2
  <2>7. r.head = IF k = 0 THEN c[1] ELSE l.head
    BY <2>3, <2>6
  <2> HIDE DEF Link
  <2> QED
    BY <2>3, <2>4, <2>5, <2>6, <2>7
<1>13. CASE t = l.head /\ t # l.tail
  <2> DEFINE nd1 == [nd EXCEPT ![n].prev = Null]
  <2>1. r = [l EXCEPT !.head = n, !.node = nd1]
    BY <1>13 DEF Unlink
  <2>2. k = 0 /\ k < m - 1 /\ n = c[1] /\ k # m - 1
    BY <1>2, <1>3, <1>5, <1>13
  <2> HIDE DEF r, n, p, nd
  <2>3. PrevWritten(nd, nd1, n, Null)
    BY <1>3, <1>6, <1>10, <2>2, WritePrev
  <2> HIDE DEF nd1
  <2>4. nd1 \in Nodes /\ SameTimers(nd, nd1)
    BY <2>3 DEF PrevWritten
  <2>5. r \in Lists /\ r.head = n /\ r.node = nd1 /\ r.tail = l.tail
    BY <1>10, <2>1, <2>4
  <2>6. ASSUME NEW x \in S \ {t} PROVE Link(x)
    <3>1. nd1[x].next = nd[x].next /\ nd1[x].prev = IF x = n THEN Null ELSE nd[x].prev
      BY <1>9, <2>3 DEF PrevWritten
    <3> QED
      BY <1>3, <2>2, <2>5, <3>1
  <2> HIDE DEF Link
  <2> QED
    BY <2>2, <2>4, <2>5, <2>6
<1>14. CASE t # l.head /\ t = l.tail
  <2> DEFINE nd1 == [nd EXCEPT ![p].next = Null]
  <2>1. r = [l EXCEPT !.tail = p, !.node = nd1]
    BY <1>14 DEF Unlink
  <2>2. k > 0 /\ k = m - 1 /\ k # 0 /\ k - 1 = m - 2
    BY <1>5, <1>14
  <2> HIDE DEF r, n, p, nd
  <2>3. NextWritten(nd, nd1, p, Null)
    BY <1>3, <1>7, <1>10, <2>2, WriteNext
  <2> HIDE DEF nd1
  <2>4. nd1 \in Nodes /\ SameTimers(nd, nd1)
    BY <2>3 DEF NextWritten
  <2>5. r \in Lists /\ r.head = l.head /\ r.node = nd1 /\ r.tail = p
    BY <1>10, <2>1, <2>4
  <2>6. ASSUME NEW x \in S \ {t} PROVE Link(x)
    <3>1. nd1[x].prev = nd[x].prev /\ nd1[x].next = IF x = p THEN Null ELSE nd[x].next
      BY <1>9, <2>3 DEF NextWritten
    <3>2. x # c[k + 1]
      BY <1>3, <1>8, <1>9, <2>2, NullIsNull
    <3> QED
      BY <1>3, <1>7, <1>8, <2>2, <2>5, <3>1, <3>2
  <2> HIDE DEF Link
  <2> QED
    BY <1>7, <2>2, <2>4, <2>5, <2>6
<1>15. CASE t # l.head /\ t # l.tail
  <2> DEFINE nd1 == [nd EXCEPT ![p].next = n, ![n].prev = p]
  <2>1. r = [l EXCEPT !.node = nd1]
    BY <1>15 DEF Unlink
  <2>2. k > 0 /\ k < m - 1 /\ k # 0 /\ k # m - 1
    BY <1>2, <1>5, <1>15
  <2> HIDE DEF r, n, p, nd
  <2>0. Bypassed(nd, nd1, p, n)
    BY <1>3, <1>6, <1>7, <2>2, BypassWrites
  <2> HIDE DEF nd1
  <2>3. /\ nd1 \in Nodes /\ SameTimers(nd, nd1)
        /\ \A x \in Timers : nd[x] # Null => /\ nd1[x].next = IF x = p THEN n ELSE nd[x].next
                                             /\ nd1[x].prev = IF x = n THEN p ELSE nd[x].prev
    BY <2>0 DEF Bypassed
  <2>4. r \in Lists /\ r.head = l.head /\ r.node = nd1 /\ r.tail = l.tail
    BY <1>10, <2>1, <2>3
  <2>5. ASSUME NEW x \in S \ {t} PROVE Link(x)
    <3>1. nd1[x].next = (IF x = p THEN n ELSE nd[x].next) /\ nd1[x].prev = (IF x = n THEN p ELSE nd[x].prev)
      BY <1>9, <2>3
    <3> QED
      BY <1>3, <1>7, <2>2, <2>4, <3>1
  <2> HIDE DEF Link
  <2> QED
    BY <2>2, <2>3, <2>4, <2>5
<1> QED
  BY <1>12, <1>13, <1>14, <1>15

\* Only the expiry time of x is written.
ExpireWritten(nd, new, x, e) ==
  /\ new \in Nodes
  /\ \A y \in Timers : /\ nd[y] = Null <=> new[y] = Null
                       /\ nd[y] # Null => /\ new[y].expire = IF y = x THEN e ELSE nd[y].expire
                                          /\ new[y].next = nd[y].next
                                          /\ new[y].prev = nd[y].prev

LEMMA WriteExpire ==
  ASSUME NEW nd \in Nodes, NEW x \in Timers, nd[x] # Null, NEW e \in Nat
  PROVE  ExpireWritten(nd, [nd EXCEPT ![x].expire = e], x, e)
<1> DEFINE r == [nd[x] EXCEPT !.expire = e]
           new == [nd EXCEPT ![x] = r]
<1>1. nd[x] \in [prev: Address, next: Address, expire: Nat]
  BY DEF Nodes, Node, Address
<1>2. /\ r \in [prev: Address, next: Address, expire: Nat]
      /\ r.prev = nd[x].prev /\ r.next = nd[x].next /\ r.expire = e
  BY <1>1
<1>3. r \in Node /\ r # Null
  BY <1>2, NullIsNull DEF Node, Address
<1> HIDE DEF r
<1>4. new \in Nodes /\ new[x] = r /\ \A y \in Timers : y # x => new[y] = nd[y]
  BY <1>3 DEF Nodes
<1>5. new = [nd EXCEPT ![x].expire = e]
  BY DEF r
<1> HIDE DEF new
<1>6. ASSUME NEW y \in Timers
      PROVE  /\ nd[y] = Null <=> new[y] = Null
             /\ nd[y] # Null => /\ new[y].expire = IF y = x THEN e ELSE nd[y].expire
                                /\ new[y].next = nd[y].next
                                /\ new[y].prev = nd[y].prev
  <2>1. CASE y = x
    BY <1>2, <1>3, <1>4, <2>1
  <2>2. CASE y # x
    BY <1>4, <2>2
  <2> QED
    BY <2>1, <2>2
<1> QED
  BY <1>4, <1>5, <1>6 DEF ExpireWritten

\* adjust_timer puts a timer that now expires last where it belongs.
LEMMA AdjustTimerMoves ==
  ASSUME NEW l \in Lists, NEW S, S \subseteq Timers, IsSortedList(l, S), NEW t \in S,
         NEW e \in Nat, \A s \in S : l.node[s].expire <= e,
         NEW l1 \in Lists, l1.head = l.head, l1.tail = l.tail, ExpireWritten(l.node, l1.node, t, e)
  PROVE  IsSortedList(AdjustTimer(l1, t), S) /\ SameTimers(l1.node, AdjustTimer(l1, t).node)
<1>1. PICK m \in Nat, c \in [Nat -> Address] : Chain(l, c, m, S) /\ Ascending(l, c, m)
  BY DEF IsSortedList
<1>2. PICK k \in Nat : k < m /\ c[k] = t
  BY <1>1 DEF Chain
<1> DEFINE nd == l1.node
           n == nd[t].next
           p == nd[t].prev
           r == AdjustTimer(l1, t)
<1>3. \A x \in S : /\ x \in Timers /\ l.node[x] # Null /\ nd[x] # Null
                   /\ nd[x].next = l.node[x].next /\ nd[x].prev = l.node[x].prev
                   /\ nd[x].expire = IF x = t THEN e ELSE l.node[x].expire
  <2>1. ASSUME NEW x \in S PROVE l.node[x] # Null
    <3>1. PICK i \in Nat : i < m /\ c[i] = x
      BY <1>1 DEF Chain
    <3> QED
      BY <1>1, <3>1 DEF Chain
  <2> QED
    BY <2>1 DEF ExpireWritten
<1>4. t # Null /\ nd \in Nodes /\ n = c[k + 1] /\ p = IF k = 0 THEN Null ELSE c[k - 1]
  <2>1. l.node[t].next = c[k + 1] /\ l.node[t].prev = IF k = 0 THEN Null ELSE c[k - 1]
    BY <1>1, <1>2 DEF Chain
  <2> QED
    BY <1>1, <1>2, <1>3, <2>1, ListFields, ChainTimers
<1>5. \A i, j \in Nat : i < m /\ j < m /\ c[i] = c[j] => i = j
  BY <1>1 DEF Chain
<1>6. n # Null => k < m - 1 /\ n \in Timers /\ n \in S /\ n # t
  <2>1. n # Null => k + 1 \in Nat /\ k + 1 < m /\ k + 1 # k
    BY <1>1, <1>4 DEF Chain
  <2>2. n # Null => n \in Timers /\ n \in S
    BY <1>1, <1>4, <2>1, ChainTimers
  <2>3. n # Null => n # t
    BY <1>2, <1>4, <1>5, <2>1
  <2> QED
    BY <2>1, <2>2, <2>3
<1>7. k > 0 => p \in Timers /\ p \in S /\ p # t /\ p = c[k - 1]
  <2>1. k > 0 => k - 1 \in Nat /\ k - 1 < m /\ k - 1 # k
    BY <1>2
  <2>2. k > 0 => p \in Timers /\ p \in S
    BY <1>1, <1>4, <2>1, ChainTimers
  <2>3. k > 0 => p # t /\ p = c[k - 1]
    BY <1>2, <1>4, <1>5, <2>1
  <2> QED
    BY <2>2, <2>3
<1>8. /\ l1.head = c[0] /\ c[0] \in Timers /\ c[0] \in S /\ c[0] # Null
      /\ t = l1.head <=> k = 0
  <2>1. l.head = c[0] /\ 0 < m
    BY <1>1, <1>2 DEF Chain
  <2>2. c[0] \in Timers /\ c[0] \in S /\ c[0] # Null
    BY <1>1, <2>1, ChainTimers
  <2> QED
    BY <1>2, <1>5, <2>1, <2>2
<1>9. /\ l1 \in [head: Address, tail: Address, node: Nodes] /\ Lists = [head: Address, tail: Address, node: Nodes]
      /\ Null \in Address /\ n \in Address /\ p \in Address
  BY <1>3, <1>4, NodeFields DEF Lists, Address
<1>10. \A x \in S : nd[x].expire \in Nat /\ l.node[x].expire \in Nat
  BY <1>3, <1>4, ListFields, NodeFields
<1>11. \A x \in S : nd[x].expire <= e
  BY <1>3, <1>10
\* What is left without t is a sorted list, and t goes behind its first.
<1>12. ASSUME NEW l2, l2.head # Null, l2.head \in S \ {t}, Removed(l, l2, c, m, S, k, t), SameTimers(nd, l2.node)
       PROVE  /\ IsSortedList(AddAfter(l2, t, l2.head), S)
              /\ SameTimers(nd, AddAfter(l2, t, l2.head).node)
  <2>0. l2 \in Lists
    BY <1>12 DEF Removed
  <2>1. IsSortedList(l2, S \ {t})
    BY <1>1, <1>2, <1>12, RemovedIsSorted
  <2>2. l2.node[t] # Null /\ l2.node[t].expire = e
    BY <1>3, <1>12 DEF SameTimers
  <2>3. l2.node[l2.head].expire <= l2.node[t].expire
    BY <1>3, <1>11, <1>12, <2>2 DEF SameTimers
  <2>4. (S \ {t}) \cup {t} = S /\ S \ {t} \subseteq Timers /\ t \notin S \ {t} /\ t \in Timers
    OBVIOUS
  <2>5. IsSortedList(AddAfter(l2, t, l2.head), (S \ {t}) \cup {t}) /\ SameTimers(l2.node, AddAfter(l2, t, l2.head).node)
    BY <1>12, <2>0, <2>1, <2>2, <2>3, <2>4, AddAfterAdds
  <2> QED
    BY <1>12, <2>4, <2>5, SameTimersChain
<1>13. CASE StaysInPlace(l1, t)
  <2>1. r = l1
    BY <1>13 DEF AdjustTimer
  <2>2. k = m - 1
    <3>1. n = Null
      <4>1. n = Null \/ nd[t].expire < nd[n].expire
        BY <1>13 DEF StaysInPlace
      <4>2. n # Null => nd[n].expire <= e /\ nd[n].expire \in Nat /\ nd[t].expire = e
        BY <1>3, <1>6, <1>10, <1>11
      <4> QED
        BY <4>1, <4>2
    <3>2. k + 1 \in Nat /\ c[k + 1] = Null
      BY <1>4, <3>1
    <3>3. ~(k + 1 < m)
      BY <1>1, <3>2 DEF Chain
    <3> QED
      BY <1>2, <3>3
  <2>3. Chain(l1, c, m, S)
    <3> HIDE DEF n, p, r
    <3>1. \A i \in Nat : i < m => c[i] \in S
      BY <1>1, ChainTimers
    <3>2. \A i \in Nat : i < m => /\ nd[c[i]] # Null
                                  /\ nd[c[i]].next = c[i + 1]
                                  /\ nd[c[i]].prev = IF i = 0 THEN Null ELSE c[i - 1]
      <4>1. \A i \in Nat : i < m => /\ l.node[c[i]].next = c[i + 1]
                                    /\ l.node[c[i]].prev = IF i = 0 THEN Null ELSE c[i - 1]
        BY <1>1 DEF Chain
      <4> QED
        BY <1>3, <3>1, <4>1
    <3> QED
      BY <1>1, <1>8, <3>2 DEF Chain
  <2>4. Ascending(l1, c, m)
    <3> SUFFICES ASSUME NEW i \in Nat, i + 1 < m PROVE nd[c[i]].expire <= nd[c[i + 1]].expire
      BY DEF Ascending
    <3>1. i + 1 \in Nat /\ i < m /\ i # k
      BY <2>2
    <3>2. c[i] \in S /\ c[i + 1] \in S /\ c[i] # t
      BY <1>1, <1>2, <1>5, <3>1, ChainTimers
    <3>3. l.node[c[i]].expire <= l.node[c[i + 1]].expire
      BY <1>1 DEF Ascending
    <3>4. CASE c[i + 1] = t
      BY <1>3, <1>11, <3>2, <3>4
    <3>5. CASE c[i + 1] # t
      BY <1>3, <3>2, <3>3, <3>5
    <3> QED
      BY <3>4, <3>5
  <2>5. IsSortedList(l1, S)
    BY <2>3, <2>4 DEF IsSortedList
  <2> QED
    BY <2>1, <2>5 DEF SameTimers
<1>14. CASE ~StaysInPlace(l1, t) /\ t = l1.head
  <2> DEFINE nd1 == [nd EXCEPT ![n].prev = Null]
             nd2 == [nd1 EXCEPT ![t].next = Null]
             l2 == [l1 EXCEPT !.node = nd2, !.head = n]
  <2>1. r = AddAfter(l2, t, n)
    BY <1>14 DEF AdjustTimer
  <2>2. n # Null /\ k = 0 /\ n = c[1] /\ 0 < m - 1 /\ n \in S /\ n \in Timers /\ nd[n] # Null /\ n # t
    BY <1>3, <1>4, <1>6, <1>8, <1>14 DEF StaysInPlace
  <2> HIDE DEF r, n, p, nd
  <2>3. PrevWritten(nd, nd1, n, Null)
    BY <1>4, <1>9, <2>2, WritePrev
  <2>4. nd1 \in Nodes /\ nd1[t] # Null /\ t \in Timers
    BY <1>3, <2>3 DEF PrevWritten, SameTimers
  <2> HIDE DEF nd1
  <2>5. NextWritten(nd1, nd2, t, Null)
    BY <1>9, <2>4, WriteNext
  <2> HIDE DEF nd2
  <2>6. nd2 \in Nodes /\ SameTimers(nd, nd2)
    BY <2>3, <2>5, SameTimersChain DEF NextWritten, PrevWritten
  <2>7. l2 \in Lists /\ l2.head = n /\ l2.tail = l1.tail /\ l2.node = nd2
    BY <1>9, <2>6
  <2> HIDE DEF l2
  <2>8. Removed(l, l2, c, m, S, k, t)
    <3>1. ASSUME NEW x \in S \ {t}
          PROVE  /\ nd2[x] # Null /\ nd2[x].expire = l.node[x].expire
                 /\ nd2[x].next = l.node[x].next
                 /\ nd2[x].prev = IF x # c[1] THEN l.node[x].prev ELSE Null
      <4>1. x \in Timers /\ nd[x] # Null /\ nd1[x] # Null /\ nd2[x] # Null
        BY <1>3, <2>3, <2>6 DEF PrevWritten, SameTimers
      <4>2. nd2[x].expire = l.node[x].expire
        BY <1>3, <2>6, <4>1 DEF SameTimers
      <4>3. nd1[x].next = nd[x].next /\ nd1[x].prev = IF x = n THEN Null ELSE nd[x].prev
        BY <2>3, <4>1 DEF PrevWritten
      <4>4. nd2[x].next = nd1[x].next /\ nd2[x].prev = nd1[x].prev
        BY <2>5, <4>1 DEF NextWritten
      <4> QED
        BY <1>3, <2>2, <4>1, <4>2, <4>3, <4>4
    <3>2. l2.head = c[1] /\ k = 0 /\ k + 1 = 1 /\ (m > 1 => k # m - 1 /\ l2.tail = l.tail)
      BY <2>2, <2>7
    <3> QED
      BY <2>7, <3>1, <3>2 DEF Removed
  <2>9. IsSortedList(AddAfter(l2, t, n), S) /\ SameTimers(nd, AddAfter(l2, t, n).node)
    BY <1>12, <2>2, <2>6, <2>7, <2>8
  <2> QED
    BY <2>1, <2>9 DEF r, nd
<1>15. CASE ~StaysInPlace(l1, t) /\ t # l1.head
  <2> DEFINE nd1 == [nd EXCEPT ![p].next = n, ![n].prev = p]
             l2 == [l1 EXCEPT !.node = nd1]
  <2>1. r = AddAfter(l2, t, l1.head)
    BY <1>15 DEF AdjustTimer
  <2>2. /\ n # Null /\ k > 0 /\ k # 0 /\ k < m - 1 /\ n \in S /\ n \in Timers /\ nd[n] # Null /\ n # t
        /\ p \in S /\ p \in Timers /\ nd[p] # Null
    BY <1>3, <1>4, <1>6, <1>7, <1>8, <1>15 DEF StaysInPlace
  <2> HIDE DEF r, n, p, nd
  <2>3. Bypassed(nd, nd1, p, n)
    <3>1. nd \in Nodes
      BY <1>4
    <3> QED
      BY <2>2, <3>1, BypassWrites
  <2> HIDE DEF nd1
  <2>4. nd1 \in Nodes /\ SameTimers(nd, nd1)
    BY <2>3 DEF Bypassed
  <2>5. l2 \in Lists /\ l2.head = l1.head /\ l2.tail = l1.tail /\ l2.node = nd1
    BY <1>9, <2>4
  <2> HIDE DEF l2
  <2>6. Removed(l, l2, c, m, S, k, t)
    <3>1. ASSUME NEW x \in S \ {t}
          PROVE  /\ nd1[x] # Null /\ nd1[x].expire = l.node[x].expire
                 /\ nd1[x].next = IF x = c[k - 1] THEN c[k + 1] ELSE l.node[x].next
                 /\ nd1[x].prev = IF x # c[k + 1] THEN l.node[x].prev ELSE c[k - 1]
      <4>1. x \in Timers /\ nd[x] # Null /\ nd1[x] # Null
        BY <1>3, <2>4 DEF SameTimers
      <4>2. nd1[x].expire = l.node[x].expire
        BY <1>3, <2>4, <4>1 DEF SameTimers
      <4>3. nd1[x].next = (IF x = p THEN n ELSE nd[x].next) /\ nd1[x].prev = (IF x = n THEN p ELSE nd[x].prev)
        BY <2>3, <4>1 DEF Bypassed
      <4> QED
        BY <1>3, <1>4, <1>7, <2>2, <4>1, <4>2, <4>3
    <3>2. l2.head = l.head /\ k # 0 /\ k > 0 /\ k # m - 1 /\ l2.tail = l.tail
      BY <2>2, <2>5
    <3> QED
      BY <2>5, <3>1, <3>2 DEF Removed
  <2>7. l2.head # Null /\ l2.head \in S \ {t}
    BY <1>8, <1>15, <2>5
  <2>8. IsSortedList(AddAfter(l2, t, l2.head), S) /\ SameTimers(nd, AddAfter(l2, t, l2.head).node)
    BY <1>12, <2>4, <2>5, <2>6, <2>7
  <2> QED
    BY <2>1, <2>5, <2>8 DEF r, nd
<1> QED
  BY <1>13, <1>14, <1>15

\* Freeing timers that are in no list changes no list.
LEMMA FreeKeeps ==
  ASSUME NEW l \in Lists, NEW S, S \subseteq Timers, IsSortedList(l, S),
         NEW D, D \subseteq Timers, D \cap S = {}
  PROVE  /\ IsSortedList(Free(l, D), S)
         /\ \A x \in Timers : Free(l, D).node[x] = IF x \in D THEN Null ELSE l.node[x]
<1> DEFINE nd == [x \in Timers |-> IF x \in D THEN Null ELSE l.node[x]]
           r == Free(l, D)
<1>1. r = [l EXCEPT !.node = nd]
  BY DEF Free
<1>2. nd \in Nodes
  BY ListFields DEF Nodes
<1>3. \A x \in Timers : nd[x] = IF x \in D THEN Null ELSE l.node[x]
  OBVIOUS
<1> HIDE DEF nd, r
<1>4. r \in Lists /\ r.head = l.head /\ r.tail = l.tail /\ r.node = nd
  <2>1. l \in [head: Address, tail: Address, node: Nodes]
    BY DEF Lists
  <2> QED
    BY <1>1, <1>2, <2>1 DEF Lists
<1>5. PICK m \in Nat, c \in [Nat -> Address] : Chain(l, c, m, S) /\ Ascending(l, c, m)
  BY DEF IsSortedList
<1>6. \A i \in Nat : i < m => r.node[c[i]] = l.node[c[i]]
  <2>1. \A i \in Nat : i < m => c[i] \in S /\ c[i] \in Timers
    BY <1>5, ChainTimers
  <2> QED
    BY <1>3, <1>4, <2>1
<1>7. Chain(r, c, m, S)
  BY <1>4, <1>5, <1>6 DEF Chain
<1>8. Ascending(r, c, m)
  <2>1. \A i \in Nat : i + 1 < m => i < m /\ i + 1 \in Nat
    OBVIOUS
  <2> QED
    BY <1>5, <1>6, <2>1 DEF Ascending
<1>9. IsSortedList(r, S)
  BY <1>4, <1>7, <1>8 DEF IsSortedList
<1> QED
  BY <1>3, <1>4, <1>9 DEF r

\* In a sorted list whatever comes later expires no earlier.
LEMMA LaterExpiresLater ==
  ASSUME NEW l \in Lists, NEW S, S \subseteq Timers,
         NEW m \in Nat, NEW c \in [Nat -> Address], Chain(l, c, m, S), Ascending(l, c, m),
         NEW i \in Nat, NEW j \in Nat, i <= j, j < m
  PROVE  l.node[c[i]].expire <= l.node[c[j]].expire
<1> DEFINE time(k) == l.node[c[k]].expire
           Earlier == {k \in Nat : i <= k /\ k < m /\ ~(time(i) <= time(k))}
<1>1. \A k \in Nat : k < m => time(k) \in Nat
  <2>1. \A k \in Nat : k < m => c[k] \in Timers
    BY ChainTimers
  <2>2. \A k \in Nat : k < m => l.node[c[k]] # Null
    BY DEF Chain
  <2> QED
    BY <2>1, <2>2, ListFields, NodeFields
<1>2. \A k \in Nat : k + 1 < m => time(k) <= time(k + 1)
  BY DEF Ascending
<1> HIDE DEF time
<1>3. Earlier = {}
  <2> SUFFICES ASSUME Earlier # {} PROVE FALSE
    OBVIOUS
  <2>1. \E k \in Earlier : \A h \in Earlier : k <= h
    <3>1. Earlier \in SUBSET Nat
      OBVIOUS
    <3> HIDE DEF Earlier
    <3> QED
      BY <3>1, Least
  <2>2. PICK k \in Earlier : \A h \in Earlier : k <= h
    BY <2>1
  <2>3. k \in Nat /\ i <= k /\ k < m /\ i < m /\ ~(time(i) <= time(k)) /\ time(i) \in Nat /\ time(k) \in Nat
    BY <1>1, <2>2
  <2>4. k # i
    BY <2>3
  <2>5. k - 1 \in Nat /\ i <= k - 1 /\ k - 1 < m /\ (k - 1) + 1 = k /\ ~(k <= k - 1)
    BY <2>3, <2>4
  <2>6. time(i) <= time(k - 1)
    BY <2>2, <2>5
  <2>7. time(k - 1) <= time(k) /\ time(k - 1) \in Nat
    BY <1>1, <1>2, <2>3, <2>5
  <2> QED
    BY <2>3, <2>6, <2>7
<1>4. j \notin Earlier
  BY <1>3
<1>5. time(i) <= time(j)
  BY <1>4
<1> QED
  BY <1>5 DEF time

\* The timers of S that are due.
Due(l, S) == {x \in S : l.node[x].expire <= clock}

\* r is l after tick.
Swept(l, r, S) ==
  /\ IsSortedList(r, S \ Due(l, S))
  /\ \A x \in Due(l, S) : r.node[x] = Null
  /\ \A x \in Timers \ Due(l, S) : /\ l.node[x] = Null <=> r.node[x] = Null
                                   /\ l.node[x] # Null => r.node[x].expire = l.node[x].expire

\* tick frees exactly the timers that are due, and what is left is a sorted list.
LEMMA TickSweeps ==
  ASSUME clock \in Nat,
         NEW l \in Lists, NEW S, S \subseteq Timers, IsSortedList(l, S)
  PROVE  Swept(l, Ticked(l), S)
<1>1. PICK m \in Nat, c \in [Nat -> Address] : Chain(l, c, m, S) /\ Ascending(l, c, m)
  BY DEF IsSortedList
<1> DEFINE N == Cardinality(Timers)
           at == Walk(l.node, l.head)
           due(i) == at[i] # Null /\ ~NotDue(l, at[i])
           First(k) == ~due(k) /\ \A j \in 0..(k - 1) : due(j)
           n == CHOOSE k \in 0..N : First(k)
           cut == {at[i] : i \in 0..(n - 1)}
           nd == SetPrev(l.node, at[n], Null)
           r0 == [l EXCEPT !.head = at[n], !.node = nd]
           r == Ticked(l)
           D == Due(l, S)
<1>0. D = {x \in S : l.node[x].expire <= clock}
  BY DEF Due
<1> HIDE DEF D
<1>2. r = Free(r0, cut)
  BY DEF Ticked
<1>3. N \in Nat /\ m <= N
  BY <1>1, ChainFits, SizeIsNat
<1>4. \A i \in 0..N : at[i] = c[i]
  BY <1>1, WalkFollows
<1>5. \A i \in Nat : c[i] # Null <=> i < m
  BY <1>1 DEF Chain
<1>6. \A i \in Nat : i < m => c[i] \in Timers /\ c[i] \in S
  BY <1>1, ChainTimers
<1>7. \A i \in Nat : i < m => l.node[c[i]] # Null
  BY <1>1 DEF Chain
<1>8. \A i \in Nat : i < m => l.node[c[i]].expire \in Nat
  BY <1>6, <1>7, ListFields, NodeFields
<1> HIDE DEF at, N
\* The first timer that is not due, or the end.
<1>9. \E k \in 0..N : First(k)
  <2> DEFINE Stops == {i \in Nat : i <= N /\ ~due(i)}
  <2>1. m \in Stops
    <3>1. m \in 0..N /\ ~(m < m)
      BY <1>3
    <3> QED
      BY <1>3, <1>4, <1>5, <3>1
  <2>2. \E i \in Stops : \A j \in Stops : i <= j
    <3>1. Stops \in SUBSET Nat
      OBVIOUS
    <3> HIDE DEF Stops
    <3> QED
      BY <2>1, <3>1, Least
  <2>3. PICK i \in Stops : \A j \in Stops : i <= j
    BY <2>2
  <2>4. i \in 0..N /\ ~due(i)
    BY <1>3, <2>3
  <2>5. ASSUME NEW j \in 0..(i - 1) PROVE due(j)
    <3>1. j \in Nat /\ j <= N /\ ~(i <= j)
      BY <1>3, <2>3, <2>4
    <3> HIDE DEF due
    <3> QED
      BY <2>3, <3>1
  <2> HIDE DEF due
  <2> QED
    BY <2>4, <2>5
<1>10. n \in 0..N /\ First(n)
  <2> HIDE DEF First
  <2> QED
    BY <1>9
<1> HIDE DEF n
<1>11. n \in Nat /\ n <= m /\ at[n] = c[n]
  <2>1. n \in Nat /\ n <= N /\ at[n] = c[n]
    BY <1>3, <1>4, <1>10
  <2>2. ASSUME m < n PROVE FALSE
    <3>1. m \in 0..(n - 1) /\ m \in 0..N
      BY <1>3, <2>1, <2>2
    <3>2. at[m] # Null
      BY <1>10, <3>1
    <3> QED
      BY <1>4, <1>5, <3>1, <3>2
  <2> QED
    BY <2>1, <2>2
<1>12. \A i \in Nat : i < n => i < m /\ at[i] = c[i] /\ l.node[c[i]].expire <= clock
  <2> SUFFICES ASSUME NEW i \in Nat, i < n
               PROVE  i < m /\ at[i] = c[i] /\ l.node[c[i]].expire <= clock
    OBVIOUS
  <2>1. i \in 0..(n - 1) /\ i \in 0..N /\ i < m
    BY <1>3, <1>11
  <2>2. at[i] = c[i] /\ ~(clock < l.node[c[i]].expire)
    BY <1>4, <1>10, <2>1 DEF NotDue
  <2> QED
    BY <1>8, <2>1, <2>2
<1>13. n < m => clock < l.node[c[n]].expire
  BY <1>5, <1>10, <1>11 DEF NotDue
<1>14. \A x : x \in cut <=> \E i \in Nat : i < n /\ c[i] = x
  <2>1. \A i : i \in 0..(n - 1) <=> i \in Nat /\ i < n
    BY <1>11
  <2> QED
    BY <1>12, <2>1
<1> HIDE DEF First, cut
<1>15. cut = D
  <2>1. ASSUME NEW i \in Nat, i < n PROVE c[i] \in D
    BY <1>0, <1>6, <1>12, <2>1
  <2>2. ASSUME NEW x \in D PROVE \E i \in Nat : i < n /\ c[i] = x
    <3>1. PICK i \in Nat : i < m /\ c[i] = x
      BY <1>0, <1>1 DEF Chain
    <3>2. CASE i < n
      BY <3>1, <3>2
    <3>3. CASE ~(i < n)
      <4>1. n <= i /\ n < m
        BY <1>11, <3>1, <3>3
      <4>2. l.node[c[n]].expire <= l.node[c[i]].expire
        BY <1>1, <1>11, <3>1, <4>1, LaterExpiresLater
      <4>3. l.node[c[i]].expire <= clock /\ clock < l.node[c[n]].expire
        BY <1>0, <1>13, <3>1, <4>1
      <4>4. l.node[c[i]].expire \in Nat /\ l.node[c[n]].expire \in Nat
        BY <1>8, <1>11, <3>1, <4>1
      <4> QED
        BY <4>2, <4>3, <4>4
    <3> QED
      BY <3>2, <3>3
  <2>3. \A x : x \in cut <=> x \in D
    BY <1>14, <2>1, <2>2
  <2> QED
    BY <2>3
<1>16. PrevWritten(l.node, nd, c[n], Null)
  <2>1. c[n] \in Address /\ Null \in Address /\ l.node \in Nodes
    BY <1>11, ListFields DEF Address
  <2>2. c[n] # Null => l.node[c[n]] # Null
    BY <1>5, <1>7, <1>11
  <2>3. nd = SetPrev(l.node, c[n], Null)
    BY <1>11
  <2> HIDE DEF nd
  <2> QED
    BY <2>1, <2>2, <2>3, SetPrevWrites
<1> HIDE DEF nd
<1>17. nd \in Nodes /\ SameTimers(l.node, nd)
  BY <1>16 DEF PrevWritten
<1>18. r0 \in Lists /\ r0.head = c[n] /\ r0.tail = l.tail /\ r0.node = nd
  <2>1. l \in [head: Address, tail: Address, node: Nodes] /\ c[n] \in Address /\ at[n] = c[n]
    BY <1>11 DEF Lists
  <2> QED
    BY <1>17, <2>1 DEF Lists
<1> HIDE DEF r0
<1>19. Dropped(l, r0, c, m, n)
  <2>1. ASSUME NEW i \in Nat, n <= i, i < m
        PROVE  /\ nd[c[i]] # Null /\ nd[c[i]].expire = l.node[c[i]].expire
               /\ nd[c[i]].next = l.node[c[i]].next
               /\ nd[c[i]].prev = IF i = n THEN Null ELSE l.node[c[i]].prev
    <3>1. c[i] \in Timers /\ l.node[c[i]] # Null
      BY <1>6, <1>7, <2>1
    <3>2. c[i] = c[n] <=> i = n
      <4>1. n < m /\ n \in Nat
        BY <1>11, <2>1
      <4> QED
        BY <1>1, <2>1, <4>1 DEF Chain
    <3>3. nd[c[i]] # Null /\ nd[c[i]].expire = l.node[c[i]].expire
      BY <1>17, <3>1 DEF SameTimers
    <3>4. nd[c[i]].next = l.node[c[i]].next /\ nd[c[i]].prev = IF c[i] = c[n] THEN Null ELSE l.node[c[i]].prev
      BY <1>16, <3>1 DEF PrevWritten
    <3> QED
      BY <3>2, <3>3, <3>4
  <2> QED
    BY <1>18, <2>1 DEF Dropped
<1>20. IsSortedList(r0, S \ D)
  <2>1. cut \subseteq Timers
    BY <1>0, <1>15
  <2>2. AreFirst(cut, c, n)
    BY <1>14, <2>1 DEF AreFirst
  <2>3. n \in Nat /\ n <= m
    BY <1>11
  <2>4. Chain(l, c, m, S) /\ Ascending(l, c, m)
    BY <1>1
  <2>5. IsSortedList(r0, S \ cut)
    BY <1>19, <2>2, <2>3, <2>4, DroppedIsSorted
  <2> QED
    BY <1>15, <2>5
<1>21. /\ IsSortedList(r, S \ D)
       /\ \A x \in Timers : r.node[x] = IF x \in D THEN Null ELSE nd[x]
  <2>1. D \subseteq Timers /\ D \cap (S \ D) = {} /\ S \ D \subseteq Timers
    BY <1>0
  <2>2. r = Free(r0, D)
    BY <1>2, <1>15
  <2> HIDE DEF r
  <2> QED
    BY <1>18, <1>20, <2>1, <2>2, FreeKeeps
<1> HIDE DEF r
<1>22. \A x \in D : r.node[x] = Null
  BY <1>0, <1>21
<1>23. \A x \in Timers \ D : /\ l.node[x] = Null <=> r.node[x] = Null
                             /\ l.node[x] # Null => r.node[x].expire = l.node[x].expire
  BY <1>17, <1>21 DEF SameTimers
<1> QED
  BY <1>21, <1>22, <1>23 DEF r, D, Swept

-----------------------------------------------------------------------------
(* The invariant *)

Allocated == {t \in Timers : node[t] # Null}

\* The list is a sorted list of the allocated timers, and no timer expires later than one set now.
TimerInv ==
  /\ clock \in Nat
  /\ IsSortedList(List, Allocated)
  /\ \A t \in Allocated : IdleTime <= node[t].expire /\ node[t].expire <= clock + IdleTime

LEMMA ListIs == List.head = head /\ List.tail = tail /\ List.node = node
BY DEF List

LEMMA ListIsNext == List'.head = head' /\ List'.tail = tail' /\ List'.node = node'
BY DEF List

\* The list after an operation is what the operation returned.
LEMMA BecomesList == ASSUME NEW l \in Lists, Becomes(l) PROVE List' = l
BY DEF Becomes, List, Lists

\* What the parts of the invariant say.
LEMMA InvFacts ==
  ASSUME TimerInv
  PROVE  /\ clock \in Nat /\ IdleTime \in Nat
         /\ List \in Lists /\ node \in Nodes
         /\ Allocated \subseteq Timers
         /\ \A t \in Allocated : node[t] # Null /\ node[t].expire \in Nat
<1>1. List \in Lists
  BY DEF TimerInv, IsSortedList
<1>2. node \in Nodes
  BY <1>1, ListIs, ListFields
<1>3. \A t \in Allocated : node[t] # Null /\ node[t].expire \in Nat
  BY <1>2, NodeFields DEF Allocated
<1> QED
  BY <1>1, <1>2, <1>3, TimesAssumption DEF TimerInv, Allocated

\* Setting the expiry time of a timer to now + IdleTime, in the record of the list.
LEMMA ExpiryIsLast ==
  ASSUME TimerInv
  PROVE  /\ Expiry \in Nat /\ IdleTime <= Expiry /\ Expiry = clock + IdleTime
         /\ \A t \in Allocated : node[t].expire <= Expiry
BY InvFacts DEF Expiry, TimerInv

-----------------------------------------------------------------------------
(* Every operation keeps it *)

\* accept
LEMMA AcceptedKeeps ==
  ASSUME TimerInv, NEW t \in Timers, Accepted(t)
  PROVE  /\ TimerInv' /\ Allocated' = Allocated \cup {t}
         /\ node'[t] # Null /\ node'[t].expire = Expiry
         /\ \A x \in Timers \ {t} : /\ node[x] = Null <=> node'[x] = Null
                                    /\ node[x] # Null => node'[x].expire = node[x].expire
<1> DEFINE new == [prev |-> Null, next |-> Null, expire |-> Expiry]
           nd == [node EXCEPT ![t] = new]
           l == [List EXCEPT !.node = nd]
           r == AddTimer(l, t)
<1>1. node[t] = Null /\ Becomes(AddTimer([List EXCEPT !.node[t] = new], t)) /\ clock' = clock
  BY DEF Accepted
<1>2. [List EXCEPT !.node[t] = new] = l
  BY ListIs
<1>3. new \in Node /\ new # Null /\ new.next = Null /\ new.prev = Null /\ new.expire = Expiry
  BY ExpiryIsLast, NullIsNull DEF Node
<1> HIDE DEF new
<1>4. /\ nd \in Nodes /\ nd[t] = new
      /\ \A x \in Timers : x # t => nd[x] = node[x]
  BY <1>3, InvFacts DEF Nodes
<1> HIDE DEF nd
<1>5. l \in Lists /\ l.head = head /\ l.tail = tail /\ l.node = nd
  <2>1. List \in [head: Address, tail: Address, node: Nodes]
    BY InvFacts DEF Lists
  <2> QED
    BY <1>4, <2>1, ListIs DEF Lists
<1>6. Becomes(r)
  BY <1>1, <1>2
<1> HIDE DEF l
<1>7. t \notin Allocated /\ Allocated \subseteq Timers
  BY <1>1 DEF Allocated
<1>8. IsSortedList(l, Allocated)
  <2>1. PICK m \in Nat, c \in [Nat -> Address] : Chain(List, c, m, Allocated) /\ Ascending(List, c, m)
    BY DEF TimerInv, IsSortedList
  <2>2. \A i \in Nat : i < m => c[i] \in Allocated /\ c[i] # t
    BY <1>7, <2>1, ChainTimers
  <2>3. \A i \in Nat : i < m => l.node[c[i]] = node[c[i]]
    BY <1>4, <1>5, <1>7, <2>2
  <2>4. Chain(l, c, m, Allocated)
    BY <1>5, <2>1, <2>3, ListIs DEF Chain
  <2>5. Ascending(l, c, m)
    <3>1. \A i \in Nat : i + 1 < m => i < m /\ i + 1 \in Nat
      OBVIOUS
    <3> QED
      BY <2>1, <2>3, <3>1, ListIs DEF Ascending
  <2> QED
    BY <1>5, <1>7, <2>4, <2>5 DEF IsSortedList
<1>9. /\ IsSortedList(r, Allocated \cup {t}) /\ SameTimers(l.node, r.node)
  BY <1>3, <1>4, <1>5, <1>7, <1>8, AddTimerAdds
<1> HIDE DEF r
<1>10. List' = r /\ node' = r.node
  <2>1. r \in Lists
    BY <1>9 DEF IsSortedList
  <2>2. List' = r
    BY <1>6, <2>1, BecomesList
  <2> QED
    BY <2>2, ListIsNext
<1>11. /\ node'[t] # Null /\ node'[t].expire = Expiry
       /\ \A x \in Timers \ {t} : /\ node[x] = Null <=> node'[x] = Null
                                  /\ node[x] # Null => node'[x].expire = node[x].expire
  BY <1>3, <1>4, <1>5, <1>9, <1>10 DEF SameTimers
<1>12. Allocated' = Allocated \cup {t}
  BY <1>11 DEF Allocated
<1>13. \A x \in Allocated' : IdleTime <= node'[x].expire /\ node'[x].expire <= clock' + IdleTime
  BY <1>1, <1>11, <1>12, ExpiryIsLast, InvFacts DEF TimerInv, Allocated
<1>14. IsSortedList(List', Allocated')
  BY <1>9, <1>10, <1>12
<1> QED
  BY <1>1, <1>11, <1>12, <1>13, <1>14, InvFacts DEF TimerInv

\* activity
LEMMA ActiveKeeps ==
  ASSUME TimerInv, NEW t \in Timers, Active(t)
  PROVE  /\ TimerInv' /\ Allocated' = Allocated /\ t \in Allocated
         /\ node'[t] # Null /\ node'[t].expire = Expiry
         /\ \A x \in Timers \ {t} : /\ node[x] = Null <=> node'[x] = Null
                                    /\ node[x] # Null => node'[x].expire = node[x].expire
<1> DEFINE nd == [node EXCEPT ![t].expire = Expiry]
           l == [List EXCEPT !.node = nd]
           r == AdjustTimer(l, t)
<1>1. node[t] # Null /\ Becomes(AdjustTimer([List EXCEPT !.node[t].expire = Expiry], t)) /\ clock' = clock
  BY DEF Active
<1>2. [List EXCEPT !.node[t].expire = Expiry] = l
  BY ListIs
<1>3. t \in Allocated /\ Allocated \subseteq Timers
  BY <1>1 DEF Allocated
<1>4. ExpireWritten(node, nd, t, Expiry)
  BY <1>1, InvFacts, ExpiryIsLast, WriteExpire
<1> HIDE DEF nd
<1>5. l \in Lists /\ l.head = head /\ l.tail = tail /\ l.node = nd
  <2>1. List \in [head: Address, tail: Address, node: Nodes] /\ nd \in Nodes
    BY <1>4, InvFacts DEF Lists, ExpireWritten
  <2> QED
    BY <2>1, ListIs DEF Lists
<1>6. Becomes(r)
  BY <1>1, <1>2
<1> HIDE DEF l
<1>7. /\ IsSortedList(r, Allocated) /\ SameTimers(l.node, r.node)
  <2>1. List \in Lists /\ IsSortedList(List, Allocated) /\ Expiry \in Nat
    BY InvFacts, ExpiryIsLast DEF TimerInv
  <2>2. \A s \in Allocated : List.node[s].expire <= Expiry
    BY ExpiryIsLast, ListIs
  <2>3. l.head = List.head /\ l.tail = List.tail /\ ExpireWritten(List.node, l.node, t, Expiry)
    BY <1>4, <1>5, ListIs
  <2> QED
    BY <1>3, <1>5, <2>1, <2>2, <2>3, AdjustTimerMoves
<1> HIDE DEF r
<1>8. List' = r /\ node' = r.node
  <2>1. r \in Lists
    BY <1>7 DEF IsSortedList
  <2>2. List' = r
    BY <1>6, <2>1, BecomesList
  <2> QED
    BY <2>2, ListIsNext
<1>9. \A x \in Timers : /\ node[x] = Null <=> node'[x] = Null
                        /\ node[x] # Null => node'[x].expire = IF x = t THEN Expiry ELSE node[x].expire
  BY <1>4, <1>5, <1>7, <1>8 DEF SameTimers, ExpireWritten
<1>10. Allocated' = Allocated
  BY <1>9 DEF Allocated
<1>11. \A x \in Allocated' : IdleTime <= node'[x].expire /\ node'[x].expire <= clock' + IdleTime
  BY <1>1, <1>9, <1>10, ExpiryIsLast, InvFacts DEF TimerInv, Allocated
<1>12. IsSortedList(List', Allocated')
  BY <1>7, <1>8, <1>10
<1> QED
  BY <1>1, <1>3, <1>9, <1>10, <1>11, <1>12, InvFacts DEF TimerInv

\* close
LEMMA DealtKeeps ==
  ASSUME TimerInv, NEW t \in Timers, Dealt(t)
  PROVE  /\ TimerInv' /\ Allocated' = Allocated \ {t} /\ t \in Allocated
         /\ node'[t] = Null
         /\ \A x \in Timers \ {t} : /\ node[x] = Null <=> node'[x] = Null
                                    /\ node[x] # Null => node'[x].expire = node[x].expire
<1> DEFINE u == Unlink(List, t)
           r == Free(u, {t})
<1>1. node[t] # Null /\ Becomes(r) /\ clock' = clock
  BY DEF Dealt, DelTimer
<1>2. t \in Allocated /\ Allocated \subseteq Timers
  BY <1>1 DEF Allocated
<1>3. IsSortedList(u, Allocated \ {t}) /\ SameTimers(node, u.node)
  <2>1. List \in Lists /\ IsSortedList(List, Allocated)
    BY InvFacts DEF TimerInv
  <2>2. IsSortedList(u, Allocated \ {t}) /\ SameTimers(List.node, u.node)
    BY <1>2, <2>1, UnlinkRemoves
  <2> QED
    BY <2>2, ListIs
<1> HIDE DEF u
<1>4. /\ IsSortedList(r, Allocated \ {t})
      /\ \A x \in Timers : r.node[x] = IF x \in {t} THEN Null ELSE u.node[x]
  <2>1. u \in Lists /\ Allocated \ {t} \subseteq Timers /\ {t} \subseteq Timers /\ {t} \cap (Allocated \ {t}) = {}
    BY <1>2, <1>3 DEF IsSortedList
  <2> QED
    BY <1>3, <2>1, FreeKeeps
<1> HIDE DEF r
<1>5. List' = r /\ node' = r.node
  <2>1. r \in Lists
    BY <1>4 DEF IsSortedList
  <2>2. List' = r
    BY <1>1, <2>1, BecomesList
  <2> QED
    BY <2>2, ListIsNext
<1>6. /\ node'[t] = Null
      /\ \A x \in Timers \ {t} : /\ node[x] = Null <=> node'[x] = Null
                                 /\ node[x] # Null => node'[x].expire = node[x].expire
  BY <1>3, <1>4, <1>5 DEF SameTimers
<1>7. Allocated' = Allocated \ {t}
  BY <1>6 DEF Allocated
<1>8. \A x \in Allocated' : IdleTime <= node'[x].expire /\ node'[x].expire <= clock' + IdleTime
  BY <1>1, <1>6, <1>7, InvFacts DEF TimerInv, Allocated
<1>9. IsSortedList(List', Allocated')
  BY <1>4, <1>5, <1>7
<1> QED
  BY <1>1, <1>2, <1>6, <1>7, <1>8, <1>9, InvFacts DEF TimerInv

\* the alarm
LEMMA HandledKeeps ==
  ASSUME TimerInv, Handled
  PROVE  /\ TimerInv'
         /\ \A x \in Timers :
              IF node[x] # Null /\ node[x].expire <= clock
                THEN node'[x] = Null
                ELSE /\ node[x] = Null <=> node'[x] = Null
                     /\ node[x] # Null => node'[x].expire = node[x].expire
<1> DEFINE r == Ticked(List)
           D == Due(List, Allocated)
<1>1. Becomes(r) /\ clock' = clock
  BY DEF Handled
<1>2. List \in Lists /\ IsSortedList(List, Allocated) /\ clock \in Nat /\ Allocated \subseteq Timers
  BY InvFacts DEF TimerInv
<1>3. \A x \in Timers : x \in D <=> node[x] # Null /\ node[x].expire <= clock
  BY ListIs DEF Allocated, Due
<1>4. D \subseteq Allocated
  BY DEF Due
<1>5. /\ IsSortedList(r, Allocated \ D)
      /\ \A x \in D : r.node[x] = Null
      /\ \A x \in Timers \ D : /\ node[x] = Null <=> r.node[x] = Null
                               /\ node[x] # Null => r.node[x].expire = node[x].expire
  <2>1. Swept(List, r, Allocated)
    BY <1>2, TickSweeps
  <2> HIDE DEF r
  <2> QED
    BY <2>1, ListIs DEF Swept
<1> HIDE DEF r, D
<1>6. List' = r /\ node' = r.node
  <2>1. r \in Lists
    BY <1>5 DEF IsSortedList
  <2>2. List' = r
    BY <1>1, <2>1, BecomesList
  <2> QED
    BY <2>2, ListIsNext
<1>7. \A x \in Timers : x \notin D => /\ node[x] = Null <=> node'[x] = Null
                                      /\ node[x] # Null => node'[x].expire = node[x].expire
  BY <1>5, <1>6
<1>8. \A x \in D : node'[x] = Null
  BY <1>5, <1>6
<1>9. Allocated' = Allocated \ D
  BY <1>4, <1>7, <1>8 DEF Allocated
<1>10. \A x \in Allocated' : IdleTime <= node'[x].expire /\ node'[x].expire <= clock' + IdleTime
  BY <1>1, <1>2, <1>7, <1>9 DEF TimerInv, Allocated
<1>11. IsSortedList(List', Allocated')
  BY <1>5, <1>6, <1>9
<1>12. TimerInv'
  BY <1>1, <1>2, <1>10, <1>11 DEF TimerInv
<1> QED
  BY <1>3, <1>7, <1>8, <1>12

LEMMA InvInit == ASSUME Init PROVE TimerInv
<1>1. clock = 0 /\ head = Null /\ tail = Null /\ node = [t \in Timers |-> Null]
  BY DEF Init
<1>2. Allocated = {} /\ List \in Lists
  BY <1>1 DEF Allocated, List, Lists, Nodes, Address
<1>3. IsSortedList(List, {})
  <2> DEFINE c == [i \in Nat |-> Null]
  <2>1. c \in [Nat -> Address] /\ \A i \in Nat : c[i] = Null
    BY DEF Address
  <2> HIDE DEF c
  <2>2. Chain(List, c, 0, {})
    BY <1>1, <2>1, ListIs DEF Chain
  <2>3. Ascending(List, c, 0)
    BY DEF Ascending
  <2> QED
    BY <1>2, <2>1, <2>2, <2>3 DEF IsSortedList
<1> QED
  BY <1>1, <1>2, <1>3 DEF TimerInv

LEMMA InvKept == ASSUME TimerInv, [Next]_vars PROVE TimerInv'
<1>1. CASE Second
  <2>1. clock' = clock + 1 /\ UNCHANGED <<head, tail, node>>
    BY <1>1 DEF Second
  <2>2. List' = List /\ Allocated' = Allocated
    BY <2>1 DEF List, Allocated
  <2>3. \A t \in Allocated : node'[t].expire <= clock' + IdleTime
    BY <2>1, InvFacts DEF TimerInv
  <2> QED
    BY <2>1, <2>2, <2>3, InvFacts DEF TimerInv
<1>2. CASE Handled
  BY <1>2, HandledKeeps
<1>3. CASE \E t \in Timers : Accepted(t)
  BY <1>3, AcceptedKeeps
<1>4. CASE \E t \in Timers : Active(t)
  BY <1>4, ActiveKeeps
<1>5. CASE \E t \in Timers : Dealt(t)
  BY <1>5, DealtKeeps
<1>6. CASE UNCHANGED vars
  <2>1. List' = List /\ Allocated' = Allocated /\ node' = node /\ clock' = clock
    BY <1>6 DEF List, Allocated
  <2> QED
    BY <2>1 DEF TimerInv
<1> QED
  BY <1>1, <1>2, <1>3, <1>4, <1>5, <1>6 DEF Next

-----------------------------------------------------------------------------
(* The theorems *)

\* Every pointer of the list is a timer or null, whatever the number of timers, and every allocated
\* address holds a node.
THEOREM TypeCorrect == Spec => []TypeOK
<1>1. Init => TimerInv
  BY InvInit
<1>2. TimerInv /\ [Next]_vars => TimerInv'
  BY InvKept
<1>3. TimerInv => TypeOK
  <2> SUFFICES ASSUME TimerInv PROVE TypeOK
    OBVIOUS
  <2>1. head \in Address /\ tail \in Address
    BY InvFacts, ListFields, ListIs
  <2> QED
    BY <2>1, InvFacts DEF TypeOK, Address, Nodes
<1> QED
  BY <1>1, <1>2, <1>3, PTL DEF Spec

LEMMA InvSorted == ASSUME TimerInv PROVE SortedList
<1>1. PICK m \in Nat, c \in [Nat -> Address] : Chain(List, c, m, Allocated) /\ Ascending(List, c, m)
  BY DEF TimerInv, IsSortedList
<1>2. Allocated \subseteq Timers /\ node \in Nodes
  BY InvFacts
<1> DEFINE N == Cardinality(Timers)
           at == Walk(node, head)
<1>3. N \in Nat /\ m <= N /\ m = Cardinality(Allocated)
  BY <1>1, <1>2, ChainFits, SizeIsNat
<1>4. \A i \in 0..N : at[i] = c[i]
  <2>1. \A i \in 0..N : Walk(List.node, List.head)[i] = c[i]
    BY <1>1, <1>2, WalkFollows
  <2> QED
    BY <2>1, ListIs
<1> HIDE DEF N, at
<1>5. \A i : i \in 0..(m - 1) <=> i \in Nat /\ i < m
  OBVIOUS
<1>6. \A i \in 0..(m - 1) : i \in 0..N /\ i - 1 \in 0..N \cup {-1} /\ (i # 0 => i - 1 \in 0..N)
  BY <1>3
<1>7. \A i \in 0..(m - 1) : at[i] = c[i] /\ (i # 0 => at[i - 1] = c[i - 1])
  BY <1>4, <1>6
<1>8. {at[i] : i \in 0..(m - 1)} = Allocated
  <2>1. ASSUME NEW t \in Allocated PROVE \E i \in 0..(m - 1) : at[i] = t
    <3>1. PICK i \in Nat : i < m /\ c[i] = t
      BY <1>1, <1>2 DEF Chain
    <3> QED
      BY <1>5, <1>7, <3>1
  <2>2. ASSUME NEW i \in 0..(m - 1) PROVE at[i] \in Allocated
    BY <1>1, <1>2, <1>5, <1>7, ChainTimers
  <2> QED
    BY <2>1, <2>2
<1>9. at[m] = Null
  <2>1. m \in 0..N /\ ~(m < m)
    BY <1>3
  <2>2. c[m] = Null
    BY <1>1, <2>1 DEF Chain
  <2> QED
    BY <1>4, <2>1, <2>2
<1>10. \A i \in 0..(m - 1) : node[at[i]].prev = IF i = 0 THEN Null ELSE at[i - 1]
  <2> SUFFICES ASSUME NEW i \in 0..(m - 1)
               PROVE  node[at[i]].prev = IF i = 0 THEN Null ELSE at[i - 1]
    OBVIOUS
  <2>1. i \in Nat /\ i < m
    OBVIOUS
  <2>2. List.node[c[i]].prev = IF i = 0 THEN Null ELSE c[i - 1]
    BY <1>1, <2>1 DEF Chain
  <2> QED
    BY <1>7, <2>2, ListIs
<1>11. m > 0 => tail = at[m - 1]
  <2>1. m > 0 => m - 1 \in 0..(m - 1) /\ tail = c[m - 1]
    BY <1>1, ListIs DEF Chain
  <2> QED
    BY <1>7, <2>1
<1>12. Linked
  <2>1. {t \in Timers : node[t] # Null} = Allocated
    BY DEF Allocated
  <2> QED
    BY <1>3, <1>8, <1>9, <1>10, <1>11, <2>1 DEF Linked, at
<1>13. Sorted
  <2> SUFFICES ASSUME NEW t \in Timers, node[t] # Null, node[t].next # Null
               PROVE  node[t].expire <= node[node[t].next].expire
    BY DEF Sorted
  <2>1. t \in Allocated
    BY DEF Allocated
  <2>2. PICK i \in Nat : i < m /\ c[i] = t
    BY <1>1, <2>1 DEF Chain
  <2>3. node[t].next = c[i + 1]
    BY <1>1, <2>2, ListIs DEF Chain
  <2>4. i + 1 \in Nat /\ i + 1 < m
    BY <1>1, <2>3 DEF Chain
  <2>5. List.node[c[i]].expire <= List.node[c[i + 1]].expire
    BY <1>1, <2>4 DEF Ascending
  <2> QED
    BY <2>2, <2>3, <2>5, ListIs
<1> QED
  BY <1>12, <1>13 DEF SortedList

\* Adds, moves, deletes and ticks in any order leave a doubly linked list of exactly the allocated
\* timers, sorted by expiry, with its tail at its last timer, for any number of timers.
THEOREM ListStaysSorted == Spec => []SortedList
<1>1. Init => TimerInv
  BY InvInit
<1>2. TimerInv /\ [Next]_vars => TimerInv'
  BY InvKept
<1>3. TimerInv => SortedList
  BY InvSorted
<1> QED
  BY <1>1, <1>2, <1>3, PTL DEF Spec

-----------------------------------------------------------------------------
(* The refinement *)

\* When each open connection was last active.
Seen == [t \in Timers |-> IF node[t] = Null THEN Null ELSE node[t].expire - IdleTime]

\* A connection is open in the abstract specification when it has a timer here.
LEMMA SeenFacts ==
  ASSUME TimerInv, NEW t \in Timers
  PROVE  /\ Seen[t] = Null <=> node[t] = Null
         /\ node[t] # Null => Seen[t] \in Nat /\ Seen[t] = node[t].expire - IdleTime
         /\ Idle!IsIdle(t) <=> node[t] # Null /\ node[t].expire <= clock
<1>1. CASE node[t] = Null
  BY <1>1 DEF Seen, Idle!IsIdle
<1>2. CASE node[t] # Null
  <2>1. Seen[t] = node[t].expire - IdleTime
    BY <1>2 DEF Seen
  <2>2. node[t].expire \in Nat /\ IdleTime <= node[t].expire /\ IdleTime \in Nat /\ clock \in Nat
    BY <1>2, InvFacts DEF Allocated, TimerInv
  <2>3. Seen[t] \in Nat /\ Seen[t] # Null
    BY <2>1, <2>2, NullIsNull
  <2>4. Idle!IsIdle(t) <=> Seen[t] # Null /\ Seen[t] + IdleTime <= clock
    BY DEF Idle!IsIdle, Seen
  <2>5. Seen[t] + IdleTime = node[t].expire
    BY <2>1, <2>2
  <2> QED
    BY <1>2, <2>1, <2>3, <2>4, <2>5
<1> QED
  BY <1>1, <1>2

\* Where neither the node nor its expiry time changed, nothing was seen.
LEMMA SeenKept ==
  ASSUME NEW t \in Timers, node[t] = Null <=> node'[t] = Null,
         node[t] # Null => node'[t].expire = node[t].expire
  PROVE  Seen'[t] = Seen[t]
BY DEF Seen

\* A new timer, or one set anew, says that its connection was seen now.
LEMMA SeenNow ==
  ASSUME TimerInv, NEW t \in Timers, node'[t] # Null, node'[t].expire = Expiry
  PROVE  Seen'[t] = clock
BY InvFacts DEF Seen, Expiry

LEMMA StepIsTimers == ASSUME TimerInv, [Next]_vars PROVE [Idle!TimersNext]_(Idle!timerVars)
<1>0. /\ Idle!TimersNext <=> \/ Idle!PassSecond \/ Idle!Sweep
                             \/ \E t \in Timers : Idle!Open(t) \/ Idle!Touch(t) \/ Idle!Close(t)
      /\ Idle!timerVars = <<clock, Seen>>
  BY DEF Idle!TimersNext, Idle!timerVars, Seen
<1>1. CASE Second
  <2>1. clock < MaxTime /\ clock' = clock + 1 /\ node' = node
    BY <1>1 DEF Second
  <2>2. Idle!PassSecond
    BY <2>1 DEF Idle!PassSecond
  <2> QED
    BY <1>0, <2>2
<1>2. CASE Handled
  <2>1. clock' = clock
    BY <1>2 DEF Handled
  <2>2. ASSUME NEW t \in Timers PROVE Seen'[t] = IF Idle!IsIdle(t) THEN Null ELSE Seen[t]
    <3>1. IF node[t] # Null /\ node[t].expire <= clock
            THEN node'[t] = Null
            ELSE /\ node[t] = Null <=> node'[t] = Null
                 /\ node[t] # Null => node'[t].expire = node[t].expire
      BY <1>2, HandledKeeps
    <3>2. CASE node[t] # Null /\ node[t].expire <= clock
      <4>1. Idle!IsIdle(t) /\ node'[t] = Null
        BY <3>1, <3>2, SeenFacts
      <4> QED
        BY <4>1 DEF Seen
    <3>3. CASE ~(node[t] # Null /\ node[t].expire <= clock)
      <4>1. ~Idle!IsIdle(t) /\ Seen'[t] = Seen[t]
        BY <3>1, <3>3, SeenFacts, SeenKept
      <4> QED
        BY <4>1
    <3> QED
      BY <3>2, <3>3
  <2>3. Seen' = [t \in Timers |-> IF Idle!IsIdle(t) THEN Null ELSE Seen[t]]
    BY <2>2 DEF Seen
  <2>4. Idle!Sweep
    BY <2>1, <2>3 DEF Idle!Sweep, Seen
  <2> QED
    BY <1>0, <2>4
<1>3. CASE \E t \in Timers : Accepted(t)
  <2>1. PICK t \in Timers : Accepted(t)
    BY <1>3
  <2>2. clock' = clock /\ node[t] = Null
    BY <2>1 DEF Accepted
  <2>3. Seen[t] = Null /\ Seen'[t] = clock /\ \A x \in Timers \ {t} : Seen'[x] = Seen[x]
    BY <2>1, <2>2, AcceptedKeeps, SeenFacts, SeenKept, SeenNow
  <2>4. Seen' = [Seen EXCEPT ![t] = clock]
    BY <2>3 DEF Seen
  <2>5. Idle!Open(t)
    BY <2>2, <2>3, <2>4 DEF Idle!Open, Seen
  <2> QED
    BY <1>0, <2>5
<1>4. CASE \E t \in Timers : Active(t)
  <2>1. PICK t \in Timers : Active(t)
    BY <1>4
  <2>2. clock' = clock /\ node[t] # Null
    BY <2>1 DEF Active
  <2>3. Seen[t] # Null /\ Seen'[t] = clock /\ \A x \in Timers \ {t} : Seen'[x] = Seen[x]
    BY <2>1, <2>2, ActiveKeeps, SeenFacts, SeenKept, SeenNow
  <2>4. Seen' = [Seen EXCEPT ![t] = clock]
    BY <2>3 DEF Seen
  <2>5. Idle!Touch(t)
    BY <2>2, <2>3, <2>4 DEF Idle!Touch, Seen
  <2> QED
    BY <1>0, <2>5
<1>5. CASE \E t \in Timers : Dealt(t)
  <2>1. PICK t \in Timers : Dealt(t)
    BY <1>5
  <2>2. clock' = clock /\ node[t] # Null
    BY <2>1 DEF Dealt
  <2>3. Seen[t] # Null /\ Seen'[t] = Null /\ \A x \in Timers \ {t} : Seen'[x] = Seen[x]
    <3>1. node'[t] = Null /\ \A x \in Timers \ {t} : Seen'[x] = Seen[x]
      BY <2>1, DealtKeeps, SeenKept
    <3>2. Seen'[t] = Null
      BY <3>1 DEF Seen
    <3> QED
      BY <2>2, <3>1, <3>2, SeenFacts
  <2>4. Seen' = [Seen EXCEPT ![t] = Null]
    BY <2>3 DEF Seen
  <2>5. Idle!Close(t)
    BY <2>2, <2>3, <2>4 DEF Idle!Close, Seen
  <2> QED
    BY <1>0, <2>5
<1>6. CASE UNCHANGED vars
  <2>1. clock' = clock /\ Seen' = Seen
    BY <1>6 DEF Seen
  <2>2. Idle!timerVars' = Idle!timerVars
    BY <2>1 DEF Idle!timerVars, Seen
  <2> QED
    BY <2>2
<1> QED
  BY <1>1, <1>2, <1>3, <1>4, <1>5, <1>6 DEF Next

\* The pointers of the list implement what the timers promise: a tick ends exactly the connections
\* that were quiet for the idle time, although it stops at the first timer that is not due, and
\* whatever is done to one connection's timer leaves the others' as they are.
THEOREM ListSweepsTheIdle == Spec => SweepsTheIdle
<1>1. Init => Idle!TimersInit
  BY DEF Init, Idle!TimersInit
<1>2. Init => TimerInv
  BY InvInit
<1>3. TimerInv /\ [Next]_vars => TimerInv'
  BY InvKept
<1>4. TimerInv /\ [Next]_vars => [Idle!TimersNext]_(Idle!timerVars)
  BY StepIsTimers
<1> QED
  BY <1>1, <1>2, <1>3, <1>4, PTL DEF Spec, SweepsTheIdle, Idle!TimersSpec
=============================================================================

--------------------------- MODULE EnginesProofs ---------------------------
(***************************************************************************)
(* The engines, for models, batches and inputs of any size.                *)
(*                                                                         *)
(* What an engine has been through does not show: init on an engine that   *)
(* is not in use, and shutdown, leave nothing behind that loading a model  *)
(* does not write.  Batching does not show either: rows are put one behind *)
(* the other into a tensor, and division finds each again.                 *)
(***************************************************************************)
EXTENDS Engines, WellFoundedInduction, TLAPS

-----------------------------------------------------------------------------
(* Recursion over the natural numbers.  There is no induction here, but a set of natural numbers *)
(* has a least element: what fails somewhere fails at a least number.                            *)

LEMMA Least == ASSUME NEW S \in SUBSET Nat, S # {} PROVE \E m \in S : \A k \in S : m <= k
<1> DEFINE R == {ss \in Nat \X Nat : ss[1] < ss[2]}
<1>1. \A i, j \in Nat : i < j => <<i, j>> \in R
  OBVIOUS
<1>2. IsWellFoundedOn(R, Nat)
  BY NatLessThanWellFounded DEF OpToRel
<1> HIDE DEF R
<1>3. PICK m \in S : \A y \in S : ~(<<y, m>> \in R)
  BY <1>2, WFMin
<1>4. ASSUME NEW k \in S PROVE m <= k
  <2>1. k \in Nat /\ m \in Nat /\ ~(k < m)
    BY <1>1, <1>3
  <2> QED
    BY <2>1
<1> QED
  BY <1>4

\* A first value and a step, given as a function, can be followed for n rounds.
Follows(f, c, step, n) == f[0] = c /\ \A i \in 1..n : f[i] = step[<<f[i - 1], i>>]

LEMMA Recursion ==
  ASSUME NEW D, NEW c \in D, NEW step \in [D \X Nat -> D], NEW n \in Nat
  PROVE  \E f \in [0..n -> D] : Follows(f, c, step, n)
<1> DEFINE Bad == {m \in Nat : ~\E f \in [0..m -> D] : Follows(f, c, step, m)}
<1> SUFFICES Bad = {}
  OBVIOUS
<1> SUFFICES ASSUME Bad # {} PROVE FALSE
  OBVIOUS
<1>1. PICK m \in Bad : \A k \in Bad : m <= k
  <2>1. Bad \in SUBSET Nat
    OBVIOUS
  <2> HIDE DEF Bad
  <2> QED
    BY <2>1, Least
<1>2. m \in Nat /\ ~\E f \in [0..m -> D] : Follows(f, c, step, m)
  OBVIOUS
<1>3. m # 0
  <2> SUFFICES ASSUME m = 0 PROVE FALSE
    OBVIOUS
  <2>1. [i \in 0..0 |-> c] \in [0..m -> D] /\ Follows([i \in 0..0 |-> c], c, step, m)
    BY DEF Follows
  <2> QED
    BY <1>2, <2>1
<1>4. m - 1 \in Nat /\ m - 1 \notin Bad
  <2>1. m - 1 \in Nat /\ ~(m <= m - 1)
    BY <1>2, <1>3
  <2> HIDE DEF Bad
  <2> QED
    BY <1>1, <2>1
<1>5. PICK f \in [0..(m - 1) -> D] : Follows(f, c, step, m - 1)
  BY <1>4
<1> DEFINE g == [i \in 0..m |-> IF i = m THEN step[<<f[m - 1], m>>] ELSE f[i]]
<1> HIDE DEF Bad
<1>6. f[m - 1] \in D /\ step[<<f[m - 1], m>>] \in D
  BY <1>2, <1>4
<1>7. g \in [0..m -> D]
  BY <1>2, <1>6
<1>8. Follows(g, c, step, m)
  <2>1. g[0] = c /\ g[m] = step[<<f[m - 1], m>>] /\ g[m - 1] = f[m - 1]
    BY <1>2, <1>3, <1>5 DEF Follows
  <2>2. ASSUME NEW i \in 1..(m - 1) PROVE g[i] = step[<<g[i - 1], i>>]
    <3>1. g[i] = f[i] /\ g[i - 1] = f[i - 1] /\ f[i] = step[<<f[i - 1], i>>]
      BY <1>2, <1>5 DEF Follows
    <3> QED
      BY <3>1
  <2> HIDE DEF g
  <2>3. ASSUME NEW i \in 1..m PROVE g[i] = step[<<g[i - 1], i>>]
    <3>1. CASE i = m
      BY <2>1, <3>1
    <3>2. CASE i # m
      BY <1>2, <2>2, <3>2
    <3> QED
      BY <3>1, <3>2
  <2> QED
    BY <2>1, <2>3 DEF Follows
<1> HIDE DEF g
<1> QED
  BY <1>2, <1>7, <1>8

-----------------------------------------------------------------------------
(* Products of dimensions *)

Positive == Nat \ {0}
Factor(d) == IF d > 0 THEN d ELSE 1
Multiplies(p, dims) == p[0] = 1 /\ \A i \in 1..Len(dims) : p[i] = p[i - 1] * Factor(dims[i])

LEMMA PositiveProduct == \A a, b \in Positive : a * b \in Positive
  BY DEF Positive

\* The rounds of the loop that computes a product.
LEMMA ProductRounds ==
  ASSUME NEW dims \in Seq(Int)
  PROVE  \E p \in [0..Len(dims) -> Positive] : Multiplies(p, dims) /\ Product(dims) = p[Len(dims)]
<1> DEFINE n == Len(dims)
           factor(i) == IF i \in 1..n THEN Factor(dims[i]) ELSE 1
           step == [v \in Positive \X Nat |-> v[1] * factor(v[2])]
           body(p, i) == IF i = 0 THEN 1 ELSE p[i - 1] * (IF dims[i] > 0 THEN dims[i] ELSE 1)
           product == CHOOSE p : p = [i \in 0..n |-> body(p, i)]
<1>0. n \in Nat /\ \A i \in 1..n : dims[i] \in Int
  OBVIOUS
<1>1. \A i \in Nat : factor(i) \in Positive
  BY <1>0 DEF Positive, Factor
<1>2. step \in [Positive \X Nat -> Positive]
  <2> HIDE DEF factor
  <2> QED
    BY <1>1, PositiveProduct
<1>3. PICK f \in [0..n -> Positive] : Follows(f, 1, step, n)
  <2>1. 1 \in Positive
    BY DEF Positive
  <2> HIDE DEF step, n
  <2> QED
    BY <1>0, <1>2, <2>1, Recursion
<1>4. f[0] = 1 /\ \A i \in 1..n : f[i] = f[i - 1] * Factor(dims[i])
  <2>1. f[0] = 1
    BY <1>3 DEF Follows
  <2>2. ASSUME NEW i \in 1..n PROVE f[i] = f[i - 1] * Factor(dims[i])
    <3>1. f[i] = step[<<f[i - 1], i>>]
      BY <1>3 DEF Follows
    <3>2. f[i - 1] \in Positive /\ i \in Nat
      BY <1>0
    <3>3. factor(i) = Factor(dims[i])
      OBVIOUS
    <3> HIDE DEF factor
    <3>4. step[<<f[i - 1], i>>] = f[i - 1] * factor(i)
      BY <3>2
    <3> QED
      BY <3>1, <3>3, <3>4
  <2> QED
    BY <2>1, <2>2
<1>5. f = [i \in 0..n |-> body(f, i)]
  <2>1. ASSUME NEW i \in 0..n PROVE f[i] = body(f, i)
    <3>1. CASE i = 0
      BY <1>4, <3>1
    <3>2. CASE i # 0
      <4>1. i \in 1..n
        BY <1>0, <3>2
      <4> QED
        BY <1>4, <3>2, <4>1 DEF Factor
    <3> QED
      BY <3>1, <3>2
  <2> HIDE DEF body
  <2> QED
    BY <2>1
<1>6. product = [i \in 0..n |-> body(product, i)]
  <2> HIDE DEF body
  <2> QED
    BY <1>5
<1>7. Product(dims) = product[n]
  BY DEF Product
<1> HIDE DEF product
<1>8. product[0] = 1 /\ \A i \in 1..n : product[i] = product[i - 1] * Factor(dims[i])
  <2>1. product[0] = body(product, 0)
    <3> HIDE DEF body
    <3> QED
      BY <1>0, <1>6
  <2>2. ASSUME NEW i \in 1..n PROVE product[i] = product[i - 1] * Factor(dims[i])
    <3>1. product[i] = body(product, i)
      <4> HIDE DEF body
      <4> QED
        BY <1>0, <1>6
    <3> QED
      BY <1>0, <3>1 DEF Factor
  <2> QED
    BY <2>1, <2>2
<1>9. \A i \in 0..n : product[i] = f[i]
  <2> DEFINE Bad == {i \in 0..n : product[i] # f[i]}
  <2> SUFFICES ASSUME Bad # {} PROVE FALSE
    OBVIOUS
  <2>1. PICK m \in Bad : \A k \in Bad : m <= k
    <3>1. Bad \in SUBSET Nat
      BY <1>0
    <3> HIDE DEF Bad
    <3> QED
      BY <3>1, Least
  <2>2. m \in 1..n
    BY <1>0, <1>4, <1>8
  <2>3. product[m - 1] = f[m - 1]
    <3>1. m - 1 \in 0..n /\ ~(m <= m - 1)
      BY <1>0, <2>2
    <3> QED
      BY <2>1, <3>1
  <2> QED
    BY <1>4, <1>8, <2>2, <2>3
<1> QED
  BY <1>0, <1>4, <1>7, <1>9 DEF Multiplies

LEMMA ProductType == ASSUME NEW dims \in Seq(Int) PROVE Product(dims) \in Positive
<1>1. PICK p \in [0..Len(dims) -> Positive] : Product(dims) = p[Len(dims)]
  BY ProductRounds
<1> QED
  BY <1>1

LEMMA Associates == \A a, b, c \in Positive : (a * b) * c = a * (b * c)
<1>1. \A a, b, c \in Int : (a * b) * c = a * (b * c)
  BY SMTT(60)
<1> QED
  BY <1>1 DEF Positive

\* Products of dimensions that differ in the first one.
LEMMA FirstFactor ==
  ASSUME NEW a \in Seq(Int), NEW b \in Seq(Int), Len(a) = Len(b), Len(a) > 0, NEW n \in Positive,
         Factor(a[1]) = n * Factor(b[1]), \A i \in 2..Len(a) : Factor(a[i]) = Factor(b[i])
  PROVE  Product(a) = n * Product(b)
<1> DEFINE l == Len(a)
<1>1. PICK p \in [0..l -> Positive] : Multiplies(p, a) /\ Product(a) = p[l]
  BY ProductRounds
<1>2. PICK q \in [0..l -> Positive] : Multiplies(q, b) /\ Product(b) = q[l]
  BY ProductRounds
<1>3. l \in Nat /\ l > 0 /\ \A i \in 1..l : Factor(b[i]) \in Positive
  BY DEF Factor, Positive
<1>4. p[1] = n * q[1]
  <2>1. p[0] = 1 /\ q[0] = 1 /\ p[1] = p[0] * Factor(a[1]) /\ q[1] = q[0] * Factor(b[1])
    BY <1>1, <1>2, <1>3 DEF Multiplies
  <2>2. 1 \in 1..l /\ Factor(b[1]) \in Nat /\ n \in Nat
    BY <1>3 DEF Positive
  <2>3. q[1] = Factor(b[1])
    BY <2>1, <2>2
  <2>4. Factor(a[1]) \in Int
    BY <1>3 DEF Factor
  <2>5. p[1] = Factor(a[1])
    BY <2>1, <2>4
  <2> QED
    BY <2>3, <2>5
<1> DEFINE Bad == {i \in 1..l : p[i] # n * q[i]}
<1>5. Bad = {}
  <2> SUFFICES ASSUME Bad # {} PROVE FALSE
    OBVIOUS
  <2>1. PICK m \in Bad : \A k \in Bad : m <= k
    <3>1. Bad \in SUBSET Nat
      BY <1>3
    <3> HIDE DEF Bad
    <3> QED
      BY <3>1, Least
  <2>2. m \in 2..l
    BY <1>3, <1>4
  <2>3. p[m - 1] = n * q[m - 1]
    <3>1. m - 1 \in 1..l /\ ~(m <= m - 1)
      BY <1>3, <2>2
    <3> QED
      BY <2>1, <3>1
  <2>4. p[m] = p[m - 1] * Factor(a[m]) /\ q[m] = q[m - 1] * Factor(b[m]) /\ Factor(a[m]) = Factor(b[m])
    BY <1>1, <1>2, <1>3, <2>2 DEF Multiplies
  <2>5. q[m - 1] \in Positive /\ Factor(b[m]) \in Positive
    <3>1. m - 1 \in 0..l /\ m \in 1..l
      BY <1>3, <2>2
    <3> HIDE DEF l
    <3> QED
      BY <1>2, <1>3, <3>1
  <2>6. (n * q[m - 1]) * Factor(b[m]) = n * (q[m - 1] * Factor(b[m]))
    BY <2>5, Associates
  <2> QED
    BY <2>3, <2>4, <2>6
<1> QED
  BY <1>1, <1>2, <1>3, <1>5

\* A dimension in front that is not known counts as 1.
LEMMA FrontProduct ==
  ASSUME NEW dims \in Seq(Int), NEW w \in Seq(Int), Len(w) = Len(dims) + 1, Factor(w[1]) = 1,
         \A i \in 1..Len(dims) : w[i + 1] = dims[i]
  PROVE  Product(w) = Product(dims)
<1> DEFINE l == Len(dims)
<1>1. PICK p \in [0..(l + 1) -> Positive] : Multiplies(p, w) /\ Product(w) = p[l + 1]
  BY ProductRounds
<1>2. PICK q \in [0..l -> Positive] : Multiplies(q, dims) /\ Product(dims) = q[l]
  BY ProductRounds
<1>3. l \in Nat
  OBVIOUS
<1>4. p[1] = q[0]
  <2>1. p[0] = 1 /\ q[0] = 1 /\ p[1] = p[0] * Factor(w[1])
    BY <1>1, <1>2, <1>3 DEF Multiplies
  <2> QED
    BY <2>1
<1> DEFINE Bad == {i \in 0..l : p[i + 1] # q[i]}
<1>5. Bad = {}
  <2> SUFFICES ASSUME Bad # {} PROVE FALSE
    OBVIOUS
  <2>1. PICK m \in Bad : \A k \in Bad : m <= k
    <3>1. Bad \in SUBSET Nat
      BY <1>3
    <3> HIDE DEF Bad
    <3> QED
      BY <3>1, Least
  <2>2. m \in 1..l
    BY <1>3, <1>4
  <2>3. p[m] = q[m - 1]
    <3>1. m - 1 \in 0..l /\ ~(m <= m - 1) /\ (m - 1) + 1 = m
      BY <1>3, <2>2
    <3> QED
      BY <2>1, <3>1
  <2>4. q[m] = q[m - 1] * Factor(dims[m])
    BY <1>2, <1>3, <2>2 DEF Multiplies
  <2>5. p[m + 1] = p[m] * Factor(dims[m])
    <3>1. m + 1 \in 1..(l + 1) /\ (m + 1) - 1 = m
      <4> HIDE DEF Bad, l
      <4> QED
        BY <1>3, <2>2
    <3>2. w[m + 1] = dims[m]
      BY <2>2
    <3>3. p[m + 1] = p[(m + 1) - 1] * Factor(w[m + 1])
      BY <1>1, <3>1 DEF Multiplies
    <3> QED
      BY <3>1, <3>2, <3>3
  <2> QED
    BY <2>3, <2>4, <2>5
<1> QED
  BY <1>1, <1>2, <1>3, <1>5

-----------------------------------------------------------------------------
(* Rows in a tensor *)

LEMMA ProductOfNats == \A a, b \in Nat : a * b \in Nat /\ a * b = b * a
  OBVIOUS

LEMMA NextProduct == \A a \in Nat, s \in Nat : (a + 1) * s = a * s + s
  BY SMTT(30)

LEMMA ProductGrows == ASSUME NEW a \in Nat, NEW b \in Nat, a <= b, NEW s \in Nat PROVE a * s <= b * s
<1>1. b - a \in Nat /\ b = a + (b - a)
  OBVIOUS
<1>2. \A d \in Nat : (a + d) * s = a * s + d * s /\ d * s >= 0 /\ a * s \in Nat /\ d * s \in Nat
  BY SMTT(30)
<1>3. b * s = a * s + (b - a) * s /\ (b - a) * s >= 0 /\ a * s \in Nat /\ (b - a) * s \in Nat
  BY <1>1, <1>2
<1> QED
  BY <1>3

\* The element r of row q, both counted from 0, is found again by division.
LEMMA RowOfElement ==
  ASSUME NEW q \in Nat, NEW s \in Positive, NEW r \in 0..(s - 1)
  PROVE  (q * s + r) \div s = q /\ (q * s + r) % s = r
<1> DEFINE x == q * s + r
           d == x \div s
           m == x % s
<1>1. s \in Nat /\ s > 0 /\ q * s \in Nat /\ x \in Nat
  BY ProductOfNats DEF Positive
<1>2. d \in Nat /\ m \in 0..(s - 1) /\ x = s * d + m
  <2> HIDE DEF x
  <2> QED
    BY <1>1
<1>3. x = d * s + m /\ d * s \in Nat
  <2> HIDE DEF x, d, m
  <2>1. s * d = d * s /\ s * d \in Nat
    BY <1>1, <1>2, ProductOfNats
  <2> QED
    BY <1>2, <2>1
<1> HIDE DEF d, m
<1>4. ~(d < q)
  <2> SUFFICES ASSUME d < q PROVE FALSE
    OBVIOUS
  <2>1. (d + 1) * s <= q * s /\ (d + 1) * s = d * s + s
    BY <1>1, <1>2, NextProduct, ProductGrows
  <2> QED
    BY <1>1, <1>2, <1>3, <2>1
<1>5. ~(q < d)
  <2> SUFFICES ASSUME q < d PROVE FALSE
    OBVIOUS
  <2>1. (q + 1) * s <= d * s /\ (q + 1) * s = q * s + s
    BY <1>1, <1>2, NextProduct, ProductGrows
  <2> QED
    BY <1>1, <1>2, <1>3, <2>1
<1>6. d = q
  BY <1>2, <1>4, <1>5
<1>7. m = r
  BY <1>1, <1>2, <1>3, <1>6
<1> QED
  BY <1>6, <1>7 DEF d, m

\* n rows of a tensor are as long as each other.
LEMMA RowLength == ASSUME NEW n \in Positive, NEW s \in Nat PROVE (n * s) \div n = s
<1>1. s * n + 0 = n * s /\ 0 \in 0..(n - 1)
  BY ProductOfNats DEF Positive
<1>2. (s * n + 0) \div n = s
  BY <1>1, RowOfElement
<1> QED
  BY <1>1, <1>2

\* Element j of row i, both counted from 1, lies inside the tensor.
LEMMA ElementPlace ==
  ASSUME NEW n \in Nat, NEW s \in Nat, NEW i \in 1..n, NEW j \in 1..s
  PROVE  (i - 1) * s + j \in 1..(n * s)
<1>1. (i - 1) * s \in Nat /\ n * s \in Nat /\ i - 1 \in Nat
  BY ProductOfNats
<1>2. i * s <= n * s /\ i * s = (i - 1) * s + s
  <2>1. i \in Nat /\ i <= n /\ (i - 1) + 1 = i
    OBVIOUS
  <2> QED
    BY <1>1, <2>1, NextProduct, ProductGrows
<1> QED
  BY <1>1, <1>2

LEMMA Concatenation ==
  ASSUME NEW S, NEW a \in Seq(S), NEW b \in Seq(S)
  PROVE  /\ a \o b \in Seq(S) /\ Len(a \o b) = Len(a) + Len(b) /\ << >> \o b = b
         /\ \A x \in 1..Len(a) : (a \o b)[x] = a[x]
         /\ \A j \in 1..Len(b) : (a \o b)[Len(a) + j] = b[j]
OBVIOUS

\* Rows one behind the other.
RowsOf(floats, rows, k, s) ==
  /\ Len(floats) = k * s
  /\ \A i \in 1..k, j \in 1..s : floats[(i - 1) * s + j] = rows[i][j]

LEMMA OneRowMore ==
  ASSUME NEW S, NEW s \in Nat, NEW n \in Nat, NEW rows \in [1..n -> Seq(S)], \A i \in 1..n : Len(rows[i]) = s,
         NEW k \in 1..n, NEW floats \in Seq(S), RowsOf(floats, rows, k - 1, s)
  PROVE  RowsOf(floats \o rows[k], rows, k, s)
<1> DEFINE more == floats \o rows[k]
<1>1. /\ k - 1 \in Nat /\ rows[k] \in Seq(S) /\ Len(rows[k]) = s
      /\ Len(floats) = (k - 1) * s /\ (k - 1) * s \in Nat
  BY ProductOfNats DEF RowsOf
<1>2. Len(more) = k * s
  <2>1. (k - 1) + 1 = k /\ ((k - 1) + 1) * s = (k - 1) * s + s
    BY <1>1, NextProduct
  <2>2. Len(more) = Len(floats) + Len(rows[k])
    BY <1>1, Concatenation
  <2> QED
    BY <1>1, <2>1, <2>2
<1>3. /\ \A x \in 1..Len(floats) : more[x] = floats[x]
      /\ \A j \in 1..s : more[Len(floats) + j] = rows[k][j]
  <2>1. \A j \in 1..Len(rows[k]) : more[Len(floats) + j] = rows[k][j]
    <3>1. rows[k] \in Seq(S)
      OBVIOUS
    <3>2. \A b \in Seq(S) : \A j \in 1..Len(b) : (floats \o b)[Len(floats) + j] = b[j]
      BY Concatenation
    <3> QED
      BY <3>1, <3>2, Zenon
  <2>2. \A x \in 1..Len(floats) : more[x] = floats[x]
    BY <1>1, Concatenation
  <2> HIDE DEF more
  <2> QED
    BY <1>1, <2>1, <2>2
<1> HIDE DEF more
<1>4. ASSUME NEW i \in 1..k, NEW j \in 1..s PROVE more[(i - 1) * s + j] = rows[i][j]
  <2>1. CASE i = k
    BY <1>1, <1>3, <2>1
  <2>2. CASE i # k
    <3>1. i \in 1..(k - 1)
      BY <2>2
    <3>2. (i - 1) * s + j \in 1..((k - 1) * s)
      BY <1>1, <3>1, ElementPlace
    <3>3. more[(i - 1) * s + j] = floats[(i - 1) * s + j]
      BY <1>1, <1>3, <3>2
    <3> QED
      BY <3>1, <3>3 DEF RowsOf
  <2> QED
    BY <2>1, <2>2
<1> QED
  BY <1>2, <1>4 DEF RowsOf, more

LEMMA FlattenedRows ==
  ASSUME NEW S, NEW s \in Nat, NEW n \in Positive, NEW rows \in [1..n -> Seq(S)],
         \A i \in 1..n : Len(rows[i]) = s
  PROVE  FlattenSeq(rows) \in Seq(S) /\ RowsOf(FlattenSeq(rows), rows, n, s)
<1> DEFINE step == [v \in Seq(S) \X Nat |-> IF v[2] \in 1..n THEN v[1] \o rows[v[2]] ELSE v[1]]
           body(f, i) == IF i = 1 THEN rows[i] ELSE f[i - 1] \o rows[i]
           flatten == CHOOSE f : f = [i \in 1..n |-> body(f, i)]
<1>0. n \in Nat /\ n > 0 /\ Len(rows) = n /\ rows \in Seq(Seq(S))
  BY DEF Positive
<1>1. step \in [Seq(S) \X Nat -> Seq(S)]
  OBVIOUS
<1>2. PICK f \in [0..n -> Seq(S)] : Follows(f, << >>, step, n)
  <2>1. << >> \in Seq(S)
    OBVIOUS
  <2> HIDE DEF step
  <2> QED
    BY <1>0, <1>1, <2>1, Recursion
<1>3. f[0] = << >> /\ \A i \in 1..n : f[i] = f[i - 1] \o rows[i]
  <2>1. ASSUME NEW i \in 1..n PROVE f[i] = f[i - 1] \o rows[i]
    <3>1. f[i] = step[<<f[i - 1], i>>]
      BY <1>2 DEF Follows
    <3>2. f[i - 1] \in Seq(S) /\ i \in Nat
      <4>1. i - 1 \in 0..n
        BY <1>0
      <4> QED
        BY <1>2, <4>1
    <3> QED
      BY <3>1, <3>2
  <2> QED
    BY <1>2, <2>1 DEF Follows
<1>4. [i \in 1..n |-> f[i]] = [i \in 1..n |-> body([j \in 1..n |-> f[j]], i)]
  <2> DEFINE g == [i \in 1..n |-> f[i]]
  <2>1. ASSUME NEW i \in 1..n PROVE g[i] = body(g, i)
    <3>1. CASE i = 1
      <4>1. 1 \in 1..n
        BY <1>0
      <4>2. f[1] = f[0] \o rows[1] /\ << >> \o rows[1] = rows[1]
        <5>1. f[1] = f[1 - 1] \o rows[1] /\ 1 - 1 = 0
          BY <1>3, <4>1
        <5>2. rows[1] \in Seq(S) /\ << >> \in Seq(S)
          BY <4>1
        <5> QED
          BY <5>1, <5>2, Concatenation
      <4> QED
        BY <1>3, <3>1, <4>1, <4>2
    <3>2. CASE i # 1
      <4>1. i - 1 \in 1..n
        BY <1>0, <3>2
      <4> QED
        BY <1>3, <3>2, <4>1
    <3> QED
      BY <3>1, <3>2
  <2> HIDE DEF body
  <2>2. g = [i \in 1..n |-> body(g, i)]
    BY <2>1
  <2> QED
    BY <2>2
<1>5. flatten = [i \in 1..n |-> body(flatten, i)]
  <2> HIDE DEF body
  <2> QED
    BY <1>4
<1>6. FlattenSeq(rows) = flatten[n]
  BY <1>0 DEF FlattenSeq
<1> HIDE DEF flatten
<1>7. ASSUME NEW i \in 1..n PROVE flatten[i] = body(flatten, i)
  <2> HIDE DEF body
  <2> QED
    BY <1>5
<1> DEFINE Bad == {i \in 1..n : ~(flatten[i] \in Seq(S) /\ RowsOf(flatten[i], rows, i, s))}
<1>8. Bad = {}
  <2> SUFFICES ASSUME Bad # {} PROVE FALSE
    OBVIOUS
  <2>1. PICK m \in Bad : \A k \in Bad : m <= k
    <3>1. Bad \in SUBSET Nat
      BY <1>0
    <3> HIDE DEF Bad
    <3> QED
      BY <3>1, Least
  <2>2. PICK before \in Seq(S) : flatten[m] = before \o rows[m] /\ RowsOf(before, rows, m - 1, s)
    <3>1. CASE m = 1
      <4>1. rows[1] \in Seq(S) /\ << >> \o rows[1] = rows[1] /\ << >> \in Seq(S)
        BY <1>0
      <4>2. flatten[m] = << >> \o rows[m]
        BY <1>0, <1>7, <3>1, <4>1
      <4>3. RowsOf(<< >>, rows, m - 1, s)
        <5>1. 0 * s = 0 /\ Len(<< >>) = 0
          OBVIOUS
        <5> QED
          BY <3>1, <5>1 DEF RowsOf
      <4> QED
        BY <4>1, <4>2, <4>3
    <3>2. CASE m # 1
      <4>1. m - 1 \in 1..n /\ ~(m <= m - 1)
        BY <1>0, <3>2
      <4>2. flatten[m] = flatten[m - 1] \o rows[m]
        BY <1>7, <3>2
      <4>3. flatten[m - 1] \in Seq(S) /\ RowsOf(flatten[m - 1], rows, m - 1, s)
        BY <2>1, <4>1
      <4> QED
        BY <4>2, <4>3
    <3> QED
      BY <3>1, <3>2
  <2>3. RowsOf(flatten[m], rows, m, s)
    <3>1. m \in 1..n /\ \A i \in 1..n : Len(rows[i]) = s
      OBVIOUS
    <3> HIDE DEF Bad
    <3>2. RowsOf(before \o rows[m], rows, m, s)
      BY <1>0, <2>2, <3>1, OneRowMore
    <3> QED
      BY <2>2, <3>2
  <2>4. flatten[m] \in Seq(S)
    BY <2>2
  <2> QED
    BY <2>3, <2>4
<1>9. n \in 1..n /\ n \notin Bad
  BY <1>0, <1>8
<1> QED
  BY <1>6, <1>9

-----------------------------------------------------------------------------
(* Shapes and batches *)

Known == {-1, 1, 2}

Dims == Seq(Known)

LEMMA DimsFacts ==
  ASSUME NEW dims \in Dims
  PROVE  /\ dims \in Seq(Int) /\ Len(dims) \in Nat
         /\ DOMAIN dims = 1..Len(dims) /\ \A d \in 1..Len(dims) : dims[d] \in Known
         /\ dims = << >> <=> Len(dims) = 0
BY DEF Dims, Known

\* A shape is a sequence of dimensions that is not too long.
LEMMA ShapeFacts ==
  ASSUME NEW dims \in Shapes
  PROVE  dims \in Dims /\ Len(dims) \in 0..MaxRank /\ MaxRank \in Nat
<1>1. MaxRank \in Nat
  BY SizeAssumption
<1>2. PICK l \in 0..MaxRank : dims \in [1..l -> Known]
  BY DEF Shapes, BoundedSeq, SeqOf, Known
<1>3. dims \in Seq(Known) /\ Len(dims) = l
  BY <1>1, <1>2
<1> QED
  BY <1>1, <1>2, <1>3 DEF Dims

LEMMA IsShape == ASSUME NEW l \in 0..MaxRank, NEW dims \in [1..l -> Known] PROVE dims \in Shapes
BY DEF Shapes, BoundedSeq, SeqOf, Known

LEMMA EmptyShape == << >> \in Shapes
<1>1. 0 \in 0..MaxRank /\ << >> \in [1..0 -> Known]
  BY SizeAssumption
<1> QED
  BY <1>1, IsShape

\* A first dimension that is written over.
LEMMA FirstWritten ==
  ASSUME NEW dims \in Dims, dims # << >>, NEW n \in Int
  PROVE  /\ [dims EXCEPT ![1] = n] \in Seq(Int) /\ Len([dims EXCEPT ![1] = n]) = Len(dims)
         /\ DOMAIN [dims EXCEPT ![1] = n] = 1..Len(dims)
         /\ [dims EXCEPT ![1] = n][1] = n
         /\ \A d \in 2..Len(dims) : [dims EXCEPT ![1] = n][d] = dims[d]
<1>1. dims \in Seq(Int) /\ Len(dims) \in Nat /\ Len(dims) > 0 /\ DOMAIN dims = 1..Len(dims)
  BY DimsFacts
<1> QED
  BY <1>1

\* What is loaded for a shape: the same, but for a first dimension that is not known.
LEMMA StaticShape ==
  ASSUME NEW dims \in Dims
  PROVE  /\ FirstStatic(dims) \in Dims /\ Len(FirstStatic(dims)) = Len(dims)
         /\ \A d \in 1..Len(dims) : FirstStatic(dims)[d] = IF d = 1 /\ dims[1] < 0 THEN 1 ELSE dims[d]
         /\ FirstStatic(dims) # << >> <=> dims # << >>
<1> DEFINE written == [dims EXCEPT ![1] = 1]
<1>1. /\ Len(dims) \in Nat /\ DOMAIN dims = 1..Len(dims) /\ \A d \in 1..Len(dims) : dims[d] \in Known
      /\ dims = << >> <=> Len(dims) = 0
  BY DimsFacts
<1>2. CASE dims # << >> /\ dims[1] < 0
  <2>1. FirstStatic(dims) = written
    BY <1>2 DEF FirstStatic
  <2>2. /\ Len(written) = Len(dims) /\ DOMAIN written = 1..Len(dims) /\ written[1] = 1
        /\ \A d \in 2..Len(dims) : written[d] = dims[d]
    BY <1>2, FirstWritten
  <2>3. written \in [1..Len(dims) -> Known]
    BY <1>1, <1>2 DEF Known
  <2>4. written \in Dims
    BY <1>1, <2>3 DEF Dims
  <2> HIDE DEF written
  <2> QED
    BY <1>1, <1>2, <2>1, <2>2, <2>4, DimsFacts
<1>3. CASE ~(dims # << >> /\ dims[1] < 0)
  <2>1. FirstStatic(dims) = dims
    BY <1>3 DEF FirstStatic
  <2> QED
    BY <1>1, <1>3, <2>1
<1> QED
  BY <1>2, <1>3

LEMMA StaticIsShape == ASSUME NEW dims \in Shapes PROVE FirstStatic(dims) \in Shapes
<1>1. dims \in Dims /\ Len(dims) \in 0..MaxRank
  BY ShapeFacts
<1>2. FirstStatic(dims) \in Dims /\ Len(FirstStatic(dims)) = Len(dims)
  BY <1>1, StaticShape
<1>3. FirstStatic(dims) \in [1..Len(dims) -> Known]
  BY <1>2 DEF Dims
<1> QED
  BY <1>1, <1>3, IsShape

\* A dimension that is not known counts as much as one of 1 ...
LEMMA StaticProduct == ASSUME NEW dims \in Dims PROVE Product(dims) = Product(FirstStatic(dims))
<1>1. CASE dims = << >>
  BY <1>1 DEF FirstStatic
<1>2. CASE dims # << >>
  <2>1. /\ Len(dims) > 0 /\ dims \in Seq(Int) /\ \A d \in 1..Len(dims) : dims[d] \in Known
        /\ Len(dims) \in Nat
    BY <1>2, DimsFacts
  <2>2. FirstStatic(dims) \in Seq(Int) /\ Len(FirstStatic(dims)) = Len(dims)
    BY StaticShape, DimsFacts
  <2>3. \A d \in 1..Len(dims) : Factor(dims[d]) = Factor(FirstStatic(dims)[d]) /\ Factor(dims[d]) \in Nat
    BY <2>1, StaticShape DEF Factor, Known
  <2>4. Factor(dims[1]) = 1 * Factor(FirstStatic(dims)[1]) /\ 1 \in Positive
    BY <2>1, <2>3 DEF Positive
  <2>5. Product(dims) = 1 * Product(FirstStatic(dims))
    BY <2>1, <2>2, <2>3, <2>4, FirstFactor
  <2>6. Product(FirstStatic(dims)) \in Nat
    BY <2>2, ProductType DEF Positive
  <2> QED
    BY <2>5, <2>6
<1> QED
  BY <1>1, <1>2

\* ... and n in the place of the first dimension of 1 gives n times as much.
LEMMA TimesRows ==
  ASSUME NEW dims \in Dims, NEW rows \in Seq(Int), NEW n \in Positive,
         dims # << >>, dims[1] \in {-1, 1}, Len(rows) = Len(dims), rows[1] = n,
         \A d \in 2..Len(dims) : rows[d] = dims[d]
  PROVE  Product(rows) = n * Product(FirstStatic(dims))
<1>1. Len(dims) > 0 /\ Len(dims) \in Nat
  BY DimsFacts
<1>2. FirstStatic(dims) \in Seq(Int) /\ Len(FirstStatic(dims)) = Len(dims)
  BY StaticShape, DimsFacts
<1>3. FirstStatic(dims)[1] = 1 /\ \A d \in 2..Len(dims) : FirstStatic(dims)[d] = dims[d]
  BY <1>1, StaticShape
<1>4. Factor(rows[1]) = n * Factor(FirstStatic(dims)[1])
  BY <1>3 DEF Factor, Positive
<1>5. \A d \in 2..Len(rows) : Factor(rows[d]) = Factor(FirstStatic(dims)[d])
  BY <1>3
<1> QED
  BY <1>1, <1>2, <1>4, <1>5, FirstFactor

LEMMA BatchFacts ==
  ASSUME NEW batch \in Batches
  PROVE  /\ Len(batch) \in Nat /\ DOMAIN batch = 1..Len(batch) /\ batch \in [1..Len(batch) -> Seq(Nat)]
         /\ batch = << >> <=> Len(batch) = 0
<1>1. PICK n \in 0..MaxBatch, size \in [1..MaxBatch -> 0..MaxData] : batch = [r \in 1..n |-> Data(r, size[r])]
  BY DEF Batches
<1>2. MaxBatch \in Nat /\ MaxData \in Nat
  BY SizeAssumption
<1>3. ASSUME NEW r \in 1..n PROVE Data(r, size[r]) \in Seq(Nat)
  <2>1. size[r] \in Nat
    BY <1>1, <1>2
  <2> QED
    BY <2>1 DEF Data
<1>4. batch \in [1..n -> Seq(Nat)]
  BY <1>1, <1>3
<1>5. batch \in Seq(Seq(Nat)) /\ Len(batch) = n
  BY <1>1, <1>2, <1>4
<1> QED
  BY <1>2, <1>4, <1>5

\* The rows that are packed.
LEMMA FitType ==
  ASSUME NEW data \in Seq(Nat), NEW n \in Nat
  PROVE  Fit(data, n) \in Seq(Nat) /\ Len(Fit(data, n)) = n /\ Fit(data, n) \in [1..n -> Nat]
BY DEF Fit

LEMMA PackedRows ==
  ASSUME NEW batch \in Batches, batch # << >>, NEW s \in Nat, onnx.input_size = s
  PROVE  /\ Packed(batch) \in Seq(Nat)
         /\ RowsOf(Packed(batch), [i \in 1..Len(batch) |-> Fit(batch[i], s)], Len(batch), s)
<1> DEFINE n == Len(batch)
           rows == [i \in 1..n |-> Fit(batch[i], s)]
<1>1. n \in Positive /\ batch \in [1..n -> Seq(Nat)] /\ DOMAIN batch = 1..n
  BY BatchFacts DEF Positive
<1>2. \A i \in 1..n : Fit(batch[i], s) \in Seq(Nat) /\ Len(Fit(batch[i], s)) = s
  BY <1>1, FitType
<1>3. Packed(batch) = FlattenSeq(rows)
  BY <1>1 DEF Packed
<1>4. rows \in [1..n -> Seq(Nat)] /\ \A i \in 1..n : Len(rows[i]) = s
  BY <1>2
<1> HIDE DEF n, rows
<1>5. FlattenSeq(rows) \in Seq(Nat) /\ RowsOf(FlattenSeq(rows), rows, n, s)
  BY <1>1, <1>4, FlattenedRows
<1> QED
  BY <1>3, <1>5 DEF n, rows

\* A row is found again where it was packed.
LEMMA RowBack ==
  ASSUME NEW floats \in Seq(Nat), NEW n \in Positive, NEW s \in Nat, NEW rows,
         RowsOf(floats, rows, n, s), NEW i \in 1..n, rows[i] \in [1..s -> Nat]
  PROVE  SubSeq(floats, (i - 1) * s + 1, i * s) = rows[i]
<1> DEFINE part == SubSeq(floats, (i - 1) * s + 1, i * s)
<1>1. n \in Nat /\ (i - 1) * s \in Nat /\ n * s \in Nat /\ i * s = (i - 1) * s + s /\ i * s <= n * s
  <2>1. n \in Nat /\ i \in Nat /\ i - 1 \in Nat /\ i <= n /\ (i - 1) + 1 = i
    BY DEF Positive
  <2> QED
    BY <2>1, ProductOfNats, NextProduct, ProductGrows
<1>2. Len(floats) = n * s
  BY DEF RowsOf
<1>3. Len(part) = s /\ part \in Seq(Nat) /\ \A j \in 1..s : part[j] = floats[(i - 1) * s + j]
  <2> DEFINE a == (i - 1) * s
  <2>1. a \in Nat /\ i * s = a + s /\ a + s <= Len(floats)
    BY <1>1, <1>2
  <2> HIDE DEF a
  <2>2. part = SubSeq(floats, a + 1, a + s)
    BY <2>1 DEF a
  <2>3. LET p == SubSeq(floats, a + 1, a + s)
        IN  Len(p) = s /\ p \in Seq(Nat) /\ \A j \in 1..s : p[j] = floats[a + j]
    BY <2>1
  <2> QED
    BY <2>2, <2>3 DEF a
<1>4. \A j \in 1..s : part[j] = rows[i][j]
  BY <1>3 DEF RowsOf
<1> HIDE DEF part
<1>5. part \in [1..s -> Nat]
  BY <1>3
<1>6. part = rows[i]
  BY <1>4, <1>5
<1> QED
  BY <1>6 DEF part

-----------------------------------------------------------------------------
(* Engines *)

\* What the fields of an engine may hold; of shapes and sizes it is enough that they come from models.
ModelShapes == {FirstStatic(m.input) : m \in Models} \cup {FirstStatic(m.output) : m \in Models} \cup {<< >>}
ModelSizes == {Product(dims) : dims \in ModelShapes} \cup {0}
Engine == [initialized: BOOLEAN, has_batch_dim: BOOLEAN,
           input_shape: ModelShapes, output_shape: ModelShapes,
           input_size: ModelSizes, output_size: ModelSizes]

\* has_batch_dim_, which init only ever sets, is clear while nothing is loaded; init over a loaded
\* model shows in twice.
CleanInv ==
  /\ onnx \in Engine /\ twice \in BOOLEAN
  /\ ~onnx.initialized => ~onnx.has_batch_dim
  /\ ~sdk => ~onnx.initialized
  /\ LikeNew

-----------------------------------------------------------------------------
\* An engine is what its fields are.
LEMMA SameFields ==
  ASSUME NEW e \in Engine, NEW f \in Engine,
         e.initialized = f.initialized, e.has_batch_dim = f.has_batch_dim,
         e.input_shape = f.input_shape, e.output_shape = f.output_shape,
         e.input_size = f.input_size, e.output_size = f.output_size
  PROVE  e = f
<1> DEFINE S == ModelShapes
           T == ModelSizes
<1>1. {e, f} \subseteq [initialized: BOOLEAN, has_batch_dim: BOOLEAN,
                        input_shape: S, output_shape: S, input_size: T, output_size: T]
  BY DEF Engine
<1> HIDE DEF S, T
<1> QED
  BY <1>1

\* A new engine has loaded nothing.
LEMMA NewIsEngine == Constructed \in Engine /\ ~Constructed.initialized /\ ~Constructed.has_batch_dim
BY DEF Engine, Constructed, ModelShapes, ModelSizes

\* The input of a model is written over three fields ...
LEMMA InputFields ==
  ASSUME NEW e \in Engine, NEW m \in Models
  PROVE  LET f == WithInput(e, m)
         IN  /\ f \in Engine
             /\ f.initialized = e.initialized
             /\ f.has_batch_dim = (e.has_batch_dim \/ HasBatchDim(m.input))
             /\ f.input_shape = FirstStatic(m.input)
             /\ f.input_size = Product(FirstStatic(m.input))
<1> DEFINE S == ModelShapes
           T == ModelSizes
           d == e.has_batch_dim \/ HasBatchDim(m.input)
           s == FirstStatic(m.input)
           z == Product(FirstStatic(m.input))
           AnyEngine == [initialized: BOOLEAN, has_batch_dim: BOOLEAN,
                         input_shape: S, output_shape: S, input_size: T, output_size: T]
<1>1. e \in AnyEngine /\ Engine = AnyEngine
  BY DEF Engine
<1>2. d \in BOOLEAN /\ s \in S /\ z \in T
  BY DEF ModelShapes, ModelSizes, HasBatchDim
<1>3. WithInput(e, m) = [e EXCEPT !.input_shape = s, !.has_batch_dim = d, !.input_size = z]
  BY DEF WithInput
<1> HIDE DEF S, T, d, s, z
<1>4. LET f == [e EXCEPT !.input_shape = s, !.has_batch_dim = d, !.input_size = z]
      IN  /\ f \in AnyEngine
          /\ f.initialized = e.initialized /\ f.has_batch_dim = d
          /\ f.input_shape = s /\ f.input_size = z
  BY <1>1, <1>2
<1> QED
  BY <1>1, <1>3, <1>4 DEF d, s, z

\* ... its output over two, and initialized_ is set.
LEMMA LoadedFields ==
  ASSUME NEW e \in Engine, NEW m \in Models
  PROVE  LET f == Loaded(e, m)
         IN  /\ f \in Engine
             /\ f.initialized = TRUE
             /\ f.has_batch_dim = (e.has_batch_dim \/ HasBatchDim(m.input))
             /\ f.input_shape = FirstStatic(m.input)
             /\ f.input_size = Product(FirstStatic(m.input))
             /\ f.output_shape = FirstStatic(m.output)
             /\ f.output_size = Product(FirstStatic(m.output))
<1> DEFINE S == ModelShapes
           T == ModelSizes
           g == WithInput(e, m)
           s == FirstStatic(m.output)
           z == Product(FirstStatic(m.output))
           AnyEngine == [initialized: BOOLEAN, has_batch_dim: BOOLEAN,
                         input_shape: S, output_shape: S, input_size: T, output_size: T]
<1>1. g \in AnyEngine /\ Engine = AnyEngine
  BY InputFields DEF Engine
<1>2. s \in S /\ z \in T
  BY DEF ModelShapes, ModelSizes
<1>3. Loaded(e, m) = [[g EXCEPT !.output_shape = s, !.output_size = z] EXCEPT !.initialized = TRUE]
  BY DEF Loaded, WithOutput
<1>4. /\ g.has_batch_dim = (e.has_batch_dim \/ HasBatchDim(m.input))
      /\ g.input_shape = FirstStatic(m.input) /\ g.input_size = Product(FirstStatic(m.input))
  BY InputFields
<1> HIDE DEF S, T, g, s, z
<1>5. LET f == [[g EXCEPT !.output_shape = s, !.output_size = z] EXCEPT !.initialized = TRUE]
      IN  /\ f \in AnyEngine
          /\ f.initialized = TRUE /\ f.has_batch_dim = g.has_batch_dim
          /\ f.input_shape = g.input_shape /\ f.input_size = g.input_size
          /\ f.output_shape = s /\ f.output_size = z
  BY <1>1, <1>2
<1> QED
  BY <1>1, <1>3, <1>4, <1>5 DEF s, z

\* Loading a model into an engine whose has_batch_dim_ is clear is loading it into a new one.
LEMMA LoadedAsNew ==
  ASSUME NEW e \in Engine, ~e.has_batch_dim, NEW m \in Models
  PROVE  Loaded(e, m) = Loaded(Constructed, m)
<1>1. Constructed \in Engine /\ Constructed.has_batch_dim = FALSE
  BY NewIsEngine DEF Constructed
<1>2. e.has_batch_dim = FALSE
  BY DEF Engine
<1> DEFINE f == Loaded(e, m)
           g == Loaded(Constructed, m)
<1>3. f \in Engine /\ g \in Engine
  BY <1>1, LoadedFields
<1>4. f.has_batch_dim = (FALSE \/ HasBatchDim(m.input)) /\ g.has_batch_dim = (FALSE \/ HasBatchDim(m.input))
  <2>1. f.has_batch_dim = (e.has_batch_dim \/ HasBatchDim(m.input))
    BY LoadedFields
  <2>2. g.has_batch_dim = (Constructed.has_batch_dim \/ HasBatchDim(m.input))
    BY <1>1, LoadedFields
  <2> QED
    BY <1>1, <1>2, <2>1, <2>2
<1>5. /\ f.initialized = g.initialized /\ f.input_shape = g.input_shape /\ f.input_size = g.input_size
      /\ f.output_shape = g.output_shape /\ f.output_size = g.output_size
  BY <1>1, LoadedFields
<1> HIDE DEF f, g
<1>6. f = g
  BY <1>3, <1>4, <1>5, SameFields
<1> QED
  BY <1>6 DEF f, g

\* shutdown clears both flags.
LEMMA ClosedFields ==
  ASSUME NEW e \in Engine
  PROVE  Closed(e) \in Engine /\ ~Closed(e).initialized /\ ~Closed(e).has_batch_dim
BY DEF Closed, Engine

\* The three things init may leave are engines, and one that failed leaves both flags clear.
LEMMA InitLeaves ==
  ASSUME NEW e \in Engine, NEW m \in Models
  PROVE  /\ AfterInit(e, m) \in Engine
         /\ m.file = "good" => AfterInit(e, m) = Loaded(e, m) /\ AfterInit(e, m).initialized
         /\ m.file # "good" =>
              ~AfterInit(e, m).initialized /\ ~AfterInit(e, m).has_batch_dim
<1>1. m.file \in {"good", "badoutput", "unreadable", "nooutput"}
  BY DEF Models
<1>2. CASE m.file = "good"
  <2>1. AfterInit(e, m) = Loaded(e, m)
    BY <1>2 DEF AfterInit
  <2> QED
    BY <1>2, <2>1, LoadedFields
<1>3. CASE m.file \in {"unreadable", "nooutput"}
  <2>1. AfterInit(e, m) = Closed(e)
    BY <1>3 DEF AfterInit
  <2> QED
    BY <1>3, <2>1, ClosedFields
<1>4. CASE m.file = "badoutput"
  <2>1. AfterInit(e, m) = Closed(WithInput(e, m))
    BY <1>4 DEF AfterInit
  <2> QED
    BY <1>4, <2>1, ClosedFields, InputFields
<1> QED
  BY <1>1, <1>2, <1>3, <1>4

\* init on an engine, by the server or by anyone else.
LEMMA InitKeepsClean ==
  ASSUME CleanInv, NEW m \in Models, InitEngine(m)
  PROVE  /\ onnx' \in Engine
         /\ ~onnx'.initialized => ~onnx'.has_batch_dim
         /\ ~sdk => ~onnx'.initialized
         /\ onnx'.initialized /\ ~onnx.initialized => onnx' = Loaded(Constructed, session')
<1>1. CASE sdk
  <2>1. onnx' = AfterInit(onnx, m) /\ session' = IF m.file = "good" THEN m ELSE NoModel
    BY <1>1 DEF InitEngine
  <2>2. onnx'.initialized /\ ~onnx.initialized => onnx' = Loaded(Constructed, session')
    BY <2>1, InitLeaves, LoadedAsNew DEF CleanInv
  <2>3. onnx'.initialized => m.file = "good"
    BY <2>1, InitLeaves DEF CleanInv
  <2> QED
    BY <1>1, <2>1, <2>2, InitLeaves DEF CleanInv
<1>2. CASE ~sdk
  <2>1. onnx' = [onnx EXCEPT !.initialized = FALSE]
    BY <1>2 DEF InitEngine
  <2> QED
    BY <1>2, <2>1 DEF CleanInv, Engine
<1> QED
  BY <1>1, <1>2

-----------------------------------------------------------------------------
LEMMA CleanKept ==
  ASSUME CleanInv, [Next]_vars
  PROVE  CleanInv'
<1>1. CASE \E m \in Models : InitCall(m)
  <2>1. PICK m \in Models : InitCall(m)
    BY <1>1
  <2>2. InitEngine(m) /\ twice' = (twice \/ onnx.initialized) /\ sdk' = sdk
    BY <2>1 DEF InitCall
  <2> QED
    BY <2>2, InitKeepsClean DEF CleanInv, LikeNew
<1>2. CASE \E m \in Models, b \in BOOLEAN : ThreadPool(b, m)
  <2>1. PICK m \in Models, b \in BOOLEAN : ThreadPool(b, m)
    BY <1>2
  <2>2. ~onnx.initialized /\ twice' = twice /\ sdk' = sdk
    BY <2>1 DEF ThreadPool, Constructed
  <2>3. CASE b
    <3>1. InitEngine(m)
      BY <2>1, <2>3 DEF ThreadPool
    <3> QED
      BY <2>2, <3>1, InitKeepsClean DEF CleanInv, LikeNew
  <2>4. CASE ~b
    <3>1. UNCHANGED <<onnx, session>>
      BY <2>1, <2>4 DEF ThreadPool
    <3> QED
      BY <2>2, <3>1 DEF CleanInv, LikeNew
  <2> QED
    BY <2>3, <2>4
<1>3. CASE Shutdown
  BY <1>3, ClosedFields DEF Shutdown, CleanInv, LikeNew
<1>4. CASE \E by \in {"onnx", "mock"}, batch \in Batches : InferBatch(by, batch)
  BY <1>4 DEF InferBatch, CleanInv, LikeNew
<1>5. CASE UNCHANGED vars
  BY <1>5 DEF vars, CleanInv, LikeNew
<1> QED
  BY <1>1, <1>2, <1>3, <1>4, <1>5 DEF Next

\* An engine that was loaded, closed, failed to load and was loaded again is as a new one that has
\* loaded the same model, whatever the models and however often, as long as init is not called on
\* an engine in use.
THEOREM UsedIsLikeNew == Spec => []LikeNew
<1>1. Init => CleanInv
  BY NewIsEngine DEF Init, CleanInv, LikeNew
<1>2. CleanInv /\ [Next]_vars => CleanInv'
  BY CleanKept
<1>3. CleanInv => LikeNew
  BY DEF CleanInv
<1> QED
  BY <1>1, <1>2, <1>3, PTL DEF Spec
-----------------------------------------------------------------------------
(* What a batch is answered *)

\* The engine is as loading m into a new one leaves it.
LoadedWith(m) ==
  /\ onnx.initialized /\ onnx.has_batch_dim = HasBatchDim(m.input)
  /\ onnx.input_shape = FirstStatic(m.input) /\ onnx.input_size = Product(FirstStatic(m.input))
  /\ onnx.output_size = Product(FirstStatic(m.output))

LEMMA LoadedNew == ASSUME NEW m \in Models, onnx = Loaded(Constructed, m) PROVE LoadedWith(m)
<1>1. Constructed \in Engine /\ Constructed.has_batch_dim = FALSE
  BY NewIsEngine DEF Constructed
<1>2. /\ Loaded(Constructed, m).initialized = TRUE
      /\ Loaded(Constructed, m).has_batch_dim = (Constructed.has_batch_dim \/ HasBatchDim(m.input))
      /\ Loaded(Constructed, m).input_shape = FirstStatic(m.input)
      /\ Loaded(Constructed, m).input_size = Product(FirstStatic(m.input))
      /\ Loaded(Constructed, m).output_size = Product(FirstStatic(m.output))
  BY <1>1, LoadedFields
<1>3. (FALSE \/ HasBatchDim(m.input)) = HasBatchDim(m.input)
  BY DEF HasBatchDim
<1> QED
  BY <1>1, <1>2, <1>3 DEF LoadedWith

LEMMA GoodModel ==
  ASSUME NEW m \in Models, m.file = "good"
  PROVE  m.input \in Dims /\ m.output \in Dims /\ m.front \in BOOLEAN
<1>1. m.input \in Shapes /\ m.output \in Shapes /\ m.front \in BOOLEAN
  BY DEF Models
<1> QED
  BY <1>1, ShapeFacts

\* A shape for n rows, and a model that runs on it and gives a row for each.
ShapeFor(shape, dims, n) ==
  /\ shape \in Seq(Int) /\ Len(shape) = Len(dims) /\ DOMAIN shape = 1..Len(dims)
  /\ dims # << >> /\ shape[1] = n /\ \A d \in 2..Len(dims) : shape[d] = dims[d]
RunTakes(r, n) == Inner(r.input) /\ r.input[1] \in {-1, n}
RunGives(r, n) == Inner(r.output) /\ (n = 1 \/ (r.output # << >> /\ r.output[1] < 0))

\* It accepts the batch ...
LEMMA RowsAccepted ==
  ASSUME NEW r, r.input \in Dims, r.input[1] \in {-1, 1}, NEW batch \in Batches, batch # << >>, NEW shape,
         ShapeFor(shape, r.input, Len(batch)), RunTakes(r, Len(batch)),
         onnx.input_size = Product(FirstStatic(r.input))
  PROVE  Accepts(r, shape, Packed(batch))
<1> DEFINE n == Len(batch)
           s == Product(FirstStatic(r.input))
           floats == Packed(batch)
<1>1. n \in Positive
  BY BatchFacts DEF Positive
<1>2. FirstStatic(r.input) \in Seq(Int)
  BY StaticShape, DimsFacts
<1>3. s \in Positive /\ s \in Nat /\ onnx.input_size = s
  BY <1>2, ProductType DEF Positive
<1>4. Len(floats) = n * s
  BY <1>3, PackedRows DEF RowsOf
<1>5. /\ r.input[1] \in {-1, n} /\ \A d \in 2..Len(r.input) : r.input[d] > 0
      /\ Len(r.input) \in Nat
  BY DimsFacts DEF RunTakes, Inner
<1>6. /\ Len(shape) = Len(r.input) /\ DOMAIN shape = 1..Len(r.input) /\ shape \in Seq(Int)
      /\ r.input # << >> /\ shape[1] = n /\ \A d \in 2..Len(r.input) : shape[d] = r.input[d]
  BY DEF ShapeFor
<1> HIDE DEF n, s, floats
<1>8. Product(shape) = n * s
  BY <1>1, <1>6, TimesRows DEF s
<1>9. Len(floats) >= Product(shape)
  BY <1>1, <1>3, <1>4, <1>8, ProductOfNats DEF Positive
<1>10. \A d \in DOMAIN shape : shape[d] > 0 /\ r.input[d] \in {-1, shape[d]}
  BY <1>1, <1>5, <1>6 DEF Positive
<1>11. Accepts(r, shape, floats)
  BY <1>6, <1>9, <1>10 DEF Accepts
<1> QED
  BY <1>11 DEF floats

\* ... and no other model does.
LEMMA OthersRefuse ==
  ASSUME NEW r, r.input \in Dims, NEW n, NEW shape, NEW floats,
         Len(shape) # Len(r.input) \/ (ShapeFor(shape, r.input, n) /\ ~RunTakes(r, n))
  PROVE  ~Accepts(r, shape, floats)
<1>1. Len(r.input) \in Nat /\ (r.input = << >> <=> Len(r.input) = 0)
  BY DimsFacts
<1>2. CASE Len(shape) # Len(r.input)
  BY <1>2 DEF Accepts
<1>3. CASE ShapeFor(shape, r.input, n) /\ ~Inner(r.input)
  <2>1. PICK d \in 2..Len(r.input) : ~(r.input[d] > 0)
    BY <1>3 DEF Inner
  <2>2. d \in DOMAIN shape /\ ~(shape[d] > 0)
    BY <1>1, <1>3, <2>1 DEF ShapeFor
  <2> QED
    BY <2>2 DEF Accepts
<1>4. CASE ShapeFor(shape, r.input, n) /\ r.input[1] \notin {-1, n}
  <2>1. 1 \in DOMAIN shape /\ r.input[1] \notin {-1, shape[1]}
    BY <1>1, <1>4 DEF ShapeFor
  <2> QED
    BY <2>1 DEF Accepts
<1> QED
  BY <1>2, <1>3, <1>4 DEF RunTakes

\* A dimension in front of others.
LEMMA FrontDims ==
  ASSUME NEW dims \in Dims, NEW x \in Int
  PROVE  /\ <<x>> \o dims \in Seq(Int) /\ Len(<<x>> \o dims) = Len(dims) + 1
         /\ DOMAIN (<<x>> \o dims) = 1..(Len(dims) + 1) /\ <<x>> \o dims # << >>
         /\ (<<x>> \o dims)[1] = x /\ \A d \in 1..Len(dims) : (<<x>> \o dims)[d + 1] = dims[d]
<1> DEFINE w == <<x>> \o dims
<1>1. dims \in Seq(Int) /\ <<x>> \in Seq(Int) /\ Len(<<x>>) = 1 /\ <<x>>[1] = x /\ Len(dims) \in Nat
  BY DimsFacts
<1>2. /\ w \in Seq(Int) /\ Len(w) = 1 + Len(dims) /\ w[1] = x
      /\ \A d \in 1..Len(dims) : w[1 + d] = dims[d]
  BY <1>1, Concatenation
<1> HIDE DEF w
<1>3. /\ w \in Seq(Int) /\ Len(w) = Len(dims) + 1 /\ DOMAIN w = 1..(Len(dims) + 1) /\ w # << >>
      /\ w[1] = x /\ \A d \in 1..Len(dims) : w[d + 1] = dims[d]
  BY <1>1, <1>2
<1> QED
  BY <1>3 DEF w

LEMMA FrontFree ==
  ASSUME NEW dims \in Dims
  PROVE  /\ <<-1>> \o dims \in Dims /\ Product(<<-1>> \o dims) = Product(dims)
         /\ (<<-1>> \o dims)[1] = -1
         /\ Inner(<<-1>> \o dims) <=> \A d \in 1..Len(dims) : dims[d] > 0
<1> DEFINE w == <<-1>> \o dims
<1>1. /\ w \in Seq(Int) /\ Len(w) = Len(dims) + 1 /\ DOMAIN w = 1..(Len(dims) + 1)
      /\ w[1] = -1 /\ \A d \in 1..Len(dims) : w[d + 1] = dims[d]
  BY FrontDims
<1>2. dims \in Seq(Int) /\ Len(dims) \in Nat /\ \A d \in 1..Len(dims) : dims[d] \in Known
  BY DimsFacts
<1>3. w \in Dims
  <2>1. <<-1>> \in Seq(Known) /\ dims \in Seq(Known)
    BY DEF Dims, Known
  <2> HIDE DEF w
  <2>2. <<-1>> \o dims \in Seq(Known)
    BY <2>1, Concatenation
  <2> QED
    BY <2>2 DEF Dims, w
<1>4. Product(w) = Product(dims)
  <2> HIDE DEF w
  <2> QED
    BY <1>1, <1>2, FrontProduct DEF Factor
<1>5. Inner(w) <=> \A d \in 1..Len(dims) : dims[d] > 0
  <2> HIDE DEF w
  <2>1. ASSUME \A d \in 1..Len(dims) : dims[d] > 0, NEW d \in 2..Len(w) PROVE w[d] > 0
    <3>1. d - 1 \in 1..Len(dims) /\ (d - 1) + 1 = d
      BY <1>1, <1>2
    <3> QED
      BY <1>1, <2>1, <3>1
  <2>2. ASSUME \A d \in 2..Len(w) : w[d] > 0, NEW d \in 1..Len(dims) PROVE dims[d] > 0
    <3>1. d + 1 \in 2..Len(w)
      BY <1>1, <1>2
    <3> QED
      BY <1>1, <2>2, <3>1
  <2> QED
    BY <2>1, <2>2 DEF Inner
<1> QED
  BY <1>1, <1>3, <1>4, <1>5

LEMMA WidenedFields ==
  ASSUME NEW m \in Models
  PROVE  Widened(m).input = <<-1>> \o m.input /\ Widened(m).output = <<-1>> \o m.output
<1>1. DOMAIN m = {"file", "input", "output", "front"}
  BY DEF Models
<1> HIDE DEF Models
<1> QED
  BY <1>1 DEF Widened

\* What runs on the tensor of a batch: the model, or the model with a dimension in front.
RunOf(m, n) ==
  LET shape == InputShape(n)
      r == RunsAs(m, shape)
  IN  /\ r.input \in Dims /\ r.output \in Dims
      /\ Product(r.input) = Product(m.input) /\ Product(r.output) = Product(m.output)
      /\ TakesRows(m, n) => ShapeFor(shape, r.input, n) /\ RunTakes(r, n) /\ r.input[1] \in {-1, 1}
      /\ ~TakesRows(m, n) => Len(shape) # Len(r.input) \/ (ShapeFor(shape, r.input, n) /\ ~RunTakes(r, n))
      /\ TakesRows(m, n) /\ GivesRows(m, n) => RunGives(r, n)

\* A model with a dimension for rows runs as it is ...
LEMMA RunOfRows ==
  ASSUME NEW m \in Models, m.input \in Dims, m.output \in Dims, LoadedWith(m), NEW n \in Positive,
         HasBatchDim(m.input)
  PROVE  RunOf(m, n)
<1> DEFINE static == FirstStatic(m.input)
           shape == InputShape(n)
<1>1. /\ static \in Dims /\ Len(static) = Len(m.input) /\ n \in Int /\ n \in Nat /\ m.input # << >>
      /\ static # << >> /\ \A d \in 2..Len(m.input) : static[d] = m.input[d]
  BY StaticShape, DimsFacts DEF HasBatchDim, Positive
<1>2. /\ Len(m.input) \in Nat /\ DOMAIN m.input = 1..Len(m.input) /\ Len(m.input) > 0
      /\ m.input[1] \in Known
  BY <1>1, DimsFacts
<1>3. ShapeFor(shape, m.input, n)
  <2>1. shape = [static EXCEPT ![1] = n]
    BY DEF InputShape, LoadedWith
  <2> HIDE DEF static
  <2> QED
    BY <1>1, <2>1, FirstWritten DEF ShapeFor
<1>4. RunsAs(m, shape) = m
  <2>1. Len(shape) # Len(m.input) + 1
    BY <1>2, <1>3 DEF ShapeFor
  <2> QED
    BY <2>1 DEF RunsAs
<1>5. m.input[1] \in {-1, 1} /\ (m.input[1] < 0 \/ (m.input[1] = 1 /\ Len(m.input) > 1))
  BY <1>2 DEF HasBatchDim, Known
<1>6. ~ForOne(m.input)
  BY <1>2, <1>5 DEF ForOne
<1>7. TakesRows(m, n) <=> RunTakes(m, n)
  BY <1>1, <1>5, <1>6 DEF TakesRows, RunTakes
<1>8. GivesRows(m, n) => RunGives(m, n)
  BY <1>6 DEF GivesRows, RunGives
<1> HIDE DEF shape
<1> QED
  BY <1>3, <1>4, <1>5, <1>7, <1>8 DEF RunOf, shape

\* ... and one without has one put in front, if that may be.
LEMMA RunOfOne ==
  ASSUME NEW m \in Models, m.input \in Dims, m.output \in Dims, LoadedWith(m), NEW n \in Positive,
         ~HasBatchDim(m.input)
  PROVE  RunOf(m, n)
<1> DEFINE shape == InputShape(n)
<1>1. /\ Len(m.input) \in Nat /\ DOMAIN m.input = 1..Len(m.input) /\ DOMAIN m.output = 1..Len(m.output)
      /\ \A d \in 1..Len(m.input) : m.input[d] \in Known
      /\ m.input = << >> <=> Len(m.input) = 0
      /\ m.output = << >> <=> Len(m.output) = 0
      /\ Len(m.output) \in Nat /\ n \in Int
  BY DimsFacts DEF Positive
<1>2. shape = <<n>> \o m.input
  <2>1. FirstStatic(m.input) = m.input
    BY DEF FirstStatic, HasBatchDim
  <2> QED
    BY <2>1 DEF InputShape, LoadedWith
<1>3. /\ shape \in Seq(Int) /\ Len(shape) = Len(m.input) + 1 /\ DOMAIN shape = 1..(Len(m.input) + 1)
      /\ shape[1] = n /\ \A d \in 1..Len(m.input) : shape[d + 1] = m.input[d]
  BY <1>1, <1>2, FrontDims
<1> HIDE DEF shape
<1>4. TakesRows(m, n) <=> m.front /\ ForOne(m.input)
  BY DEF TakesRows, HasBatchDim
<1>5. CASE ~m.front
  <2>1. RunsAs(m, shape) = m /\ Len(shape) # Len(m.input)
    BY <1>1, <1>3, <1>5 DEF RunsAs
  <2> QED
    BY <1>4, <1>5, <2>1 DEF RunOf, shape
<1>6. CASE m.front
  <2> DEFINE r == Widened(m)
  <2>1. RunsAs(m, shape) = r
    BY <1>3, <1>6 DEF RunsAs
  <2>2. r.input = <<-1>> \o m.input /\ r.output = <<-1>> \o m.output
    BY WidenedFields
  <2> HIDE DEF r
  <2>3. /\ r.input \in Dims /\ Product(r.input) = Product(m.input) /\ r.input[1] = -1
        /\ Inner(r.input) <=> \A d \in 1..Len(m.input) : m.input[d] > 0
    BY <2>2, FrontFree
  <2>4. /\ r.output \in Dims /\ Product(r.output) = Product(m.output) /\ r.output[1] = -1
        /\ Inner(r.output) <=> \A d \in 1..Len(m.output) : m.output[d] > 0
    BY <2>2, FrontFree
  <2>5. /\ Len(r.input) = Len(m.input) + 1 /\ r.input # << >> /\ r.output # << >>
        /\ \A d \in 1..Len(m.input) : r.input[d + 1] = m.input[d]
    BY <2>2, FrontDims
  <2>6. ShapeFor(shape, r.input, n)
    <3>1. ASSUME NEW d \in 2..Len(r.input) PROVE shape[d] = r.input[d]
      <4>1. d - 1 \in 1..Len(m.input) /\ (d - 1) + 1 = d
        BY <1>1, <2>5
      <4> QED
        BY <1>3, <2>5, <4>1
    <3> QED
      BY <1>3, <2>5, <3>1 DEF ShapeFor
  <2>7. ForOne(m.input) <=> Inner(r.input)
    BY <1>1, <2>3 DEF ForOne, HasBatchDim
  <2>8. RunTakes(r, n) <=> TakesRows(m, n)
    BY <1>4, <1>6, <2>3, <2>7 DEF RunTakes
  <2>9. TakesRows(m, n) /\ GivesRows(m, n) => RunGives(r, n)
    <3> SUFFICES ASSUME ForOne(m.input), GivesRows(m, n) PROVE RunGives(r, n)
      BY <1>4
    <3>1. \A d \in 1..Len(m.output) : m.output[d] > 0
      BY <1>1 DEF GivesRows, Inner
    <3> QED
      BY <2>4, <2>5, <3>1 DEF RunGives
  <2> QED
    BY <2>1, <2>3, <2>4, <2>6, <2>8, <2>9 DEF RunOf, shape
<1> QED
  BY <1>5, <1>6

\* The output has a row of output_size for each row of the input.
LEMMA OutputSize ==
  ASSUME NEW m, m.output \in Dims, NEW n \in Positive, RunGives(m, n), NEW k \in {1, 2}
  PROVE  Product(OutputDims(m, n, k)) = n * Product(FirstStatic(m.output))
<1> DEFINE dims == OutputDims(m, n, k)
<1>1. /\ m.output \in Seq(Int) /\ Len(m.output) \in Nat /\ DOMAIN m.output = 1..Len(m.output)
      /\ \A d \in 1..Len(m.output) : m.output[d] \in Known
      /\ m.output = << >> <=> Len(m.output) = 0
  BY DimsFacts
<1>2. Inner(m.output) /\ (n = 1 \/ (m.output # << >> /\ m.output[1] < 0)) /\ n \in Nat
  BY DEF RunGives, Positive
<1>3. dims = [d \in 1..Len(m.output) |-> IF m.output[d] > 0 THEN m.output[d] ELSE IF d = 1 THEN n ELSE k]
  BY <1>1 DEF OutputDims
<1>4. dims \in Seq(Int) /\ Len(dims) = Len(m.output) /\ \A d \in 2..Len(m.output) : dims[d] = m.output[d]
  BY <1>1, <1>2, <1>3 DEF Inner
<1>5. CASE m.output # << >> /\ m.output[1] < 0
  <2>1. m.output[1] \in {-1, 1} /\ dims[1] = n
    BY <1>1, <1>3, <1>5 DEF Known
  <2> HIDE DEF dims
  <2>2. Product(dims) = n * Product(FirstStatic(m.output))
    BY <1>4, <1>5, <2>1, TimesRows
  <2> QED
    BY <2>2 DEF dims
<1>6. CASE ~(m.output # << >> /\ m.output[1] < 0)
  <2>1. n = 1 /\ FirstStatic(m.output) = m.output
    BY <1>2, <1>6 DEF FirstStatic
  <2>2. ASSUME NEW d \in 1..Len(m.output) PROVE dims[d] = m.output[d]
    <3>1. m.output[d] > 0
      BY <1>1, <1>2, <1>6 DEF Inner, Known
    <3> QED
      BY <1>3, <3>1
  <2>3. dims = m.output
    <3> HIDE DEF dims
    <3> QED
      BY <1>1, <1>4, <2>2
  <2>4. Product(m.output) \in Nat
    BY <1>1, ProductType DEF Positive
  <2> QED
    BY <2>1, <2>3, <2>4
<1> QED
  BY <1>5, <1>6

\* A float of the output, by the row and the place there.
LEMMA FloatGiven ==
  ASSUME NEW m, m.output \in Dims, NEW n \in Positive, RunGives(m, n), NEW k \in {1, 2},
         NEW floats \in Seq(Nat), NEW s \in Nat, NEW rows \in [1..n -> [1..s -> Nat]],
         RowsOf(floats, rows, n, s),
         NEW i \in 1..n, NEW j \in 1..Product(FirstStatic(m.output))
  PROVE  LET x == (i - 1) * Product(FirstStatic(m.output)) + j
         IN  /\ x \in Nat /\ x <= Len(Tensor(m, n, k, floats))
             /\ Tensor(m, n, k, floats)[x] = <<rows[i], j>>
<1> DEFINE o == Product(FirstStatic(m.output))
           x == (i - 1) * o + j
           size == Product(OutputDims(m, n, k))
           width == size \div n
           length == Len(floats) \div n
           row(r) == SubSeq(floats, (r - 1) * length + 1, r * length)
           byRow == m.output # << >> /\ m.output[1] < 0
           tensor == Tensor(m, n, k, floats)
<1>1. o \in Positive /\ o \in Nat /\ n \in Nat /\ j \in 1..o /\ j \in Nat /\ i - 1 \in Nat
  <2>1. FirstStatic(m.output) \in Seq(Int)
    BY StaticShape, DimsFacts
  <2>2. o \in Positive
    BY <2>1, ProductType
  <2>3. o \in Nat
    BY <2>2 DEF Positive
  <2>4. n \in Nat /\ j \in 1..o
    BY DEF Positive
  <2> HIDE DEF o
  <2> QED
    BY <2>2, <2>3, <2>4
<1>2. tensor = [y \in 1..size |-> IF byRow THEN <<row(((y - 1) \div width) + 1), ((y - 1) % width) + 1>>
                                           ELSE <<floats, y>>]
  BY DEF Tensor
<1>3. size = n * o
  BY OutputSize
<1> HIDE DEF size, tensor
<1>4. width = o
  BY <1>1, <1>3, RowLength
<1>5. length = s
  BY RowLength DEF RowsOf
<1>6. x \in 1..size
  <2> HIDE DEF o
  <2> QED
    BY <1>1, <1>3, ElementPlace
<1>7. size \in Nat
  <2> HIDE DEF o
  <2> QED
    BY <1>1, <1>3, ProductOfNats
<1>8. Len(tensor) = size
  <2> HIDE DEF row, byRow, width
  <2> QED
    BY <1>2, <1>7
<1>9. tensor[x] = IF byRow THEN <<row(((x - 1) \div width) + 1), ((x - 1) % width) + 1>> ELSE <<floats, x>>
  <2> HIDE DEF row, byRow, width, x
  <2> QED
    BY <1>2, <1>6
<1>10. CASE byRow
  <2>1. (x - 1) \div o = i - 1 /\ (x - 1) % o = j - 1
    <3>1. i - 1 \in Nat /\ j - 1 \in 0..(o - 1)
      BY <1>1
    <3>2. ((i - 1) * o + (j - 1)) \div o = i - 1 /\ ((i - 1) * o + (j - 1)) % o = j - 1
      <4> HIDE DEF o
      <4> QED
        BY <1>1, <3>1, RowOfElement
    <3>3. (i - 1) * o + (j - 1) = x - 1
      <4> HIDE DEF o
      <4>1. (i - 1) * o \in Nat
        BY <1>1, ProductOfNats
      <4> QED
        BY <1>1, <4>1
    <3> QED
      BY <3>2, <3>3
  <2>2. row(i) = rows[i]
    <3>1. SubSeq(floats, (i - 1) * s + 1, i * s) = rows[i]
      BY RowBack
    <3> HIDE DEF length
    <3> QED
      BY <1>5, <3>1
  <2>3. (i - 1) + 1 = i /\ (j - 1) + 1 = j
    BY <1>1
  <2> HIDE DEF row, width, x, o
  <2>4. tensor[x] = <<row((i - 1) + 1), (j - 1) + 1>>
    BY <1>4, <1>9, <1>10, <2>1
  <2>5. tensor[x] = <<rows[i], j>>
    BY <2>2, <2>3, <2>4
  <2> QED
    BY <1>6, <1>7, <1>8, <2>5 DEF x, o, tensor
<1>11. CASE ~byRow
  <2>1. n = 1 /\ i = 1
    BY <1>11 DEF RunGives
  <2>2. Len(floats) = s /\ \A y \in 1..s : floats[y] = rows[1][y]
    <3>1. 1 * s = s /\ (1 - 1) * s = 0
      OBVIOUS
    <3>2. Len(floats) = 1 * s /\ \A y \in 1..s : floats[(1 - 1) * s + y] = rows[1][y]
      BY <2>1 DEF RowsOf
    <3> QED
      BY <3>1, <3>2
  <2>3. floats = rows[1]
    <3>1. floats \in [1..s -> Nat] /\ rows[1] \in [1..s -> Nat]
      BY <2>1, <2>2
    <3> QED
      BY <2>2, <3>1
  <2>4. x = j
    BY <1>1, <2>1
  <2>5. tensor[x] = <<rows[i], j>>
    <3> HIDE DEF row, width, x, byRow
    <3> QED
      BY <1>9, <1>11, <2>1, <2>3, <2>4
  <2> HIDE DEF x, o
  <2> QED
    BY <1>6, <1>7, <1>8, <2>5 DEF x, o, tensor
<1> QED
  BY <1>10, <1>11

\* Each input is answered as if it were alone.
LEMMA RowsGiven ==
  ASSUME NEW m, m.input \in Dims, m.output \in Dims,
         onnx.input_size = Product(m.input), onnx.output_size = Product(m.output),
         NEW batch \in Batches, batch # << >>, RunGives(m, Len(batch)), NEW k \in {1, 2}
  PROVE  Unpacked(Tensor(m, Len(batch), k, Packed(batch)), Len(batch)) = [i \in 1..Len(batch) |-> Alone(m, batch[i])]
<1> DEFINE n == Len(batch)
           s == Product(m.input)
           o == Product(m.output)
           rows == [i \in 1..n |-> Fit(batch[i], s)]
           floats == Packed(batch)
           tensor == Tensor(m, n, k, floats)
           data(i) == [j \in 1..onnx.output_size |-> LET x == (i - 1) * onnx.output_size + j
                                                     IN  IF x <= Len(tensor) THEN tensor[x] ELSE Outside]
<1>1. n \in Positive /\ batch \in [1..n -> Seq(Nat)]
  BY BatchFacts DEF Positive
<1>2. s = Product(FirstStatic(m.input)) /\ o = Product(FirstStatic(m.output))
  BY StaticProduct
<1>3. s \in Nat
  BY DimsFacts, ProductType DEF Positive
<1>4. onnx.input_size = s /\ onnx.output_size = o
  OBVIOUS
<1>5. rows \in [1..n -> [1..s -> Nat]]
  BY <1>1, <1>3, FitType
<1>6. floats \in Seq(Nat) /\ RowsOf(floats, rows, n, s)
  BY <1>3, <1>4, PackedRows
<1>7. ASSUME NEW i \in 1..n PROVE [success |-> TRUE, data |-> data(i)] = Alone(m, batch[i])
  <2>1. ASSUME NEW j \in 1..o PROVE data(i)[j] = <<Fit(batch[i], s), j>>
    <3> DEFINE x == (i - 1) * o + j
    <3>1. x <= Len(tensor) /\ tensor[x] = <<rows[i], j>>
      <4>1. j \in 1..Product(FirstStatic(m.output)) /\ RunGives(m, n)
        BY <1>2
      <4> HIDE DEF rows, floats, n, s, o
      <4>2. LET y == (i - 1) * Product(FirstStatic(m.output)) + j
            IN  /\ y \in Nat /\ y <= Len(Tensor(m, n, k, floats))
                /\ Tensor(m, n, k, floats)[y] = <<rows[i], j>>
        BY <1>1, <1>3, <1>5, <1>6, <4>1, FloatGiven
      <4> QED
        BY <1>2, <4>2
    <3>2. rows[i] = Fit(batch[i], s)
      OBVIOUS
    <3>3. data(i)[j] = IF x <= Len(tensor) THEN tensor[x] ELSE Outside
      <4> HIDE DEF tensor, o
      <4> QED
        BY <1>4
    <3> QED
      BY <3>1, <3>2, <3>3
  <2>2. DOMAIN data(i) = 1..o
    BY <1>4
  <2>3. data(i) = [j \in 1..o |-> <<Fit(batch[i], s), j>>]
    <3>1. data(i) = [j \in 1..o |-> data(i)[j]]
      BY <1>4
    <3> HIDE DEF data, o
    <3> QED
      BY <2>1, <3>1
  <2> QED
    BY <2>3 DEF Alone
<1>8. Unpacked(tensor, n) = [i \in 1..n |-> [success |-> TRUE, data |-> data(i)]]
  BY DEF Unpacked
<1> HIDE DEF data
<1> QED
  BY <1>7, <1>8

\* What a batch is answered, if the model takes it and if it does not.
LEMMA ResultsAlone ==
  ASSUME sdk, NEW m \in Models, m.file = "good", session = m, LoadedWith(m),
         NEW batch \in Batches, batch # << >>, NEW k \in {1, 2}
  PROVE  LET n == Len(batch)
         IN  /\ TakesRows(m, n) /\ GivesRows(m, n) => OnnxResults(batch, k) = [i \in 1..n |-> Alone(m, batch[i])]
             /\ ~TakesRows(m, n) => OnnxResults(batch, k) = [i \in 1..n |-> NotTaken]
<1> DEFINE n == Len(batch)
           shape == InputShape(n)
           r == RunsAs(m, shape)
           accepted == Accepts(r, shape, Packed(batch))
<1>1. m.input \in Dims /\ m.output \in Dims /\ n \in Positive /\ DOMAIN batch = 1..n
  BY GoodModel, BatchFacts DEF Positive
<1>2. OnnxResults(batch, k) = IF accepted THEN Unpacked(Tensor(r, n, k, Packed(batch)), n) ELSE Failed(batch)
  BY DEF OnnxResults, LoadedWith
<1>3. RunOf(m, n)
  BY <1>1, RunOfRows, RunOfOne
<1>4. /\ r.input \in Dims /\ r.output \in Dims
      /\ Product(r.input) = Product(m.input) /\ Product(r.output) = Product(m.output)
      /\ TakesRows(m, n) => ShapeFor(shape, r.input, n) /\ RunTakes(r, n) /\ r.input[1] \in {-1, 1}
      /\ ~TakesRows(m, n) => Len(shape) # Len(r.input) \/ (ShapeFor(shape, r.input, n) /\ ~RunTakes(r, n))
      /\ TakesRows(m, n) /\ GivesRows(m, n) => RunGives(r, n)
  BY <1>3 DEF RunOf
<1>5. onnx.input_size = Product(r.input) /\ onnx.output_size = Product(r.output)
  BY <1>1, <1>4, StaticProduct DEF LoadedWith
<1> HIDE DEF r, shape
<1>6. CASE TakesRows(m, n) /\ GivesRows(m, n)
  <2>1. accepted
    <3>1. onnx.input_size = Product(FirstStatic(r.input))
      BY <1>4, <1>5, StaticProduct
    <3> QED
      BY <1>4, <1>6, <3>1, RowsAccepted
  <2>2. Unpacked(Tensor(r, n, k, Packed(batch)), n) = [i \in 1..n |-> Alone(r, batch[i])]
    BY <1>4, <1>5, <1>6, RowsGiven
  <2>3. \A i \in 1..n : Alone(r, batch[i]) = Alone(m, batch[i])
    BY <1>4 DEF Alone
  <2> HIDE DEF accepted
  <2> QED
    BY <1>2, <1>6, <2>1, <2>2, <2>3
<1>7. CASE ~TakesRows(m, n)
  <2>1. ~accepted
    BY <1>4, <1>7, OthersRefuse
  <2>2. Failed(batch) = [i \in 1..n |-> NotTaken]
    BY <1>1 DEF Failed, NotTaken
  <2> HIDE DEF accepted
  <2> QED
    BY <1>2, <1>7, <2>1, <2>2
<1> QED
  BY <1>6, <1>7

-----------------------------------------------------------------------------
(* Types *)

\* An engine that is in use has loaded a good model, one that is not has none.
SessionInv ==
  /\ sdk \in BOOLEAN
  /\ onnx.initialized => sdk /\ session \in Models /\ session.file = "good"
  /\ ~onnx.initialized => session = NoModel
  /\ engine \in {"none", "onnx", "mock"} /\ (engine = "onnx" => onnx.initialized)

ResultForEach == last.batch \in Batches /\ Len(last.results) = Len(last.batch)

LEMMA InitKeepsSession ==
  ASSUME CleanInv, SessionInv, NEW m \in Models, InitEngine(m)
  PROVE  /\ onnx'.initialized => sdk /\ session' \in Models /\ session'.file = "good"
         /\ ~onnx'.initialized => session' = NoModel
<1>1. CASE sdk
  <2>1. onnx' = AfterInit(onnx, m) /\ session' = IF m.file = "good" THEN m ELSE NoModel
    BY <1>1 DEF InitEngine
  <2>2. onnx'.initialized <=> m.file = "good"
    BY <2>1, InitLeaves DEF CleanInv
  <2> QED
    BY <1>1, <2>1, <2>2
<1>2. CASE ~sdk
  <2>1. ~onnx.initialized /\ onnx \in Engine
    BY <1>2 DEF CleanInv
  <2>2. onnx' = [onnx EXCEPT !.initialized = FALSE] /\ session' = session
    BY <1>2 DEF InitEngine
  <2>3. ~onnx'.initialized
    BY <2>1, <2>2 DEF Engine
  <2> QED
    BY <2>1, <2>2, <2>3 DEF SessionInv
<1> QED
  BY <1>1, <1>2

LEMMA SessionKept == ASSUME CleanInv, SessionInv, [Next]_vars PROVE SessionInv'
<1>1. CASE \E m \in Models : InitCall(m)
  <2>1. PICK m \in Models : InitCall(m)
    BY <1>1
  <2>2. InitEngine(m) /\ sdk' = sdk /\ engine' = "none"
    BY <2>1 DEF InitCall
  <2> QED
    BY <2>2, InitKeepsSession DEF SessionInv
<1>2. CASE \E m \in Models, b \in BOOLEAN : ThreadPool(b, m)
  <2>1. PICK m \in Models, b \in BOOLEAN : ThreadPool(b, m)
    BY <1>2
  <2>2. sdk' = sdk /\ engine' = IF b /\ onnx'.initialized THEN "onnx" ELSE "mock"
    BY <2>1 DEF ThreadPool
  <2>3. CASE b
    <3>1. InitEngine(m)
      BY <2>1, <2>3 DEF ThreadPool
    <3> QED
      BY <2>2, <2>3, <3>1, InitKeepsSession DEF SessionInv
  <2>4. CASE ~b
    <3>1. UNCHANGED <<onnx, session>>
      BY <2>1, <2>4 DEF ThreadPool
    <3> QED
      BY <2>2, <2>4, <3>1 DEF SessionInv
  <2> QED
    BY <2>3, <2>4
<1>3. CASE Shutdown
  <2>1. ~onnx'.initialized /\ session' = NoModel /\ engine' = "none" /\ sdk' = sdk
    BY <1>3, ClosedFields DEF Shutdown, CleanInv
  <2> QED
    BY <2>1 DEF SessionInv
<1>4. CASE (\E by \in {"onnx", "mock"}, batch \in Batches : InferBatch(by, batch)) \/ UNCHANGED vars
  BY <1>4 DEF InferBatch, vars, SessionInv
<1> QED
  BY <1>1, <1>2, <1>3, <1>4 DEF Next

\* Each way out of infer_batch has a result for each input.
LEMMA ResultsForBatch ==
  ASSUME NEW batch \in Batches, NEW k
  PROVE  Len(OnnxResults(batch, k)) = Len(batch) /\ Len(MockResults(batch)) = Len(batch)
<1> DEFINE n == Len(batch)
<1>1. n \in Nat /\ DOMAIN batch = 1..n /\ (batch = << >> <=> n = 0)
  BY BatchFacts
<1> HIDE DEF n
<1>2. Len(Failed(batch)) = n /\ Len(MockResults(batch)) = n
  BY <1>1 DEF Failed, MockResults
<1>3. ASSUME NEW tensor PROVE Len(Unpacked(tensor, n)) = n
  <2> DEFINE data(i) == [j \in 1..onnx.output_size |->
                           LET x == (i - 1) * onnx.output_size + j
                           IN  IF x <= Len(tensor) THEN tensor[x] ELSE Outside]
  <2>1. Unpacked(tensor, n) = [i \in 1..n |-> [success |-> TRUE, data |-> data(i)]]
    BY DEF Unpacked
  <2> HIDE DEF data
  <2> QED
    BY <1>1, <2>1
<1>4. Len(OnnxResults(batch, k)) = n
  <2>1. CASE ~sdk \/ ~onnx.initialized
    BY <1>2, <2>1 DEF OnnxResults
  <2>2. CASE ~(~sdk \/ ~onnx.initialized) /\ batch = << >>
    BY <1>1, <2>2 DEF OnnxResults
  <2>3. CASE ~(~sdk \/ ~onnx.initialized) /\ batch # << >>
    <3>1. \/ OnnxResults(batch, k) = Failed(batch)
          \/ OnnxResults(batch, k)
               = Unpacked(Tensor(RunsAs(session, InputShape(n)), n, k, Packed(batch)), n)
      BY <2>3 DEF OnnxResults, n
    <3> QED
      BY <1>2, <1>3, <3>1
  <2> QED
    BY <2>1, <2>2, <2>3
<1> QED
  BY <1>2, <1>4 DEF n

LEMMA EmptyBatch == << >> \in Batches
<1>1. MaxBatch \in Nat /\ MaxData \in Nat
  BY SizeAssumption
<1> DEFINE size == [r \in 1..MaxBatch |-> 0]
<1>2. size \in [1..MaxBatch -> 0..MaxData] /\ 0 \in 0..MaxBatch
  BY <1>1
<1> HIDE DEF size
<1>3. << >> = [r \in 1..0 |-> Data(r, size[r])]
  OBVIOUS
<1>4. [r \in 1..0 |-> Data(r, size[r])] \in Batches
  BY <1>2 DEF Batches
<1> QED
  BY <1>3, <1>4

LEMMA ForEachKept == ASSUME ResultForEach, [Next]_vars PROVE ResultForEach'
<1>1. CASE (\E m \in Models : InitCall(m)) \/ Shutdown
  <2>1. last' = NoBatch
    BY <1>1 DEF InitCall, Shutdown
  <2> QED
    BY <2>1, EmptyBatch DEF ResultForEach, NoBatch
<1>2. CASE (\E m \in Models, b \in BOOLEAN : ThreadPool(b, m)) \/ UNCHANGED vars
  BY <1>2 DEF ThreadPool, vars, ResultForEach
<1>3. CASE \E by \in {"onnx", "mock"}, batch \in Batches : InferBatch(by, batch)
  <2>1. PICK by \in {"onnx", "mock"}, batch \in Batches : InferBatch(by, batch)
    BY <1>3
  <2>2. PICK k \in {1, 2} :
          last' = [by |-> by, model |-> session, over |-> twice, batch |-> batch,
                   results |-> IF by = "onnx" THEN OnnxResults(batch, k) ELSE MockResults(batch)]
    BY <2>1 DEF InferBatch
  <2> QED
    BY <2>2, ResultsForBatch DEF ResultForEach
<1> QED
  BY <1>1, <1>2, <1>3 DEF Next

\* What comes from models is a shape, and its product a number.
LEMMA FieldTypes == ModelShapes \subseteq Shapes /\ ModelSizes \subseteq Nat
<1>1. \A m \in Models : m.input \in Shapes /\ m.output \in Shapes
  BY EmptyShape DEF Models
<1>2. ModelShapes \subseteq Shapes
  BY <1>1, StaticIsShape, EmptyShape DEF ModelShapes
<1>3. \A dims \in Shapes : Product(dims) \in Nat
  BY ShapeFacts, DimsFacts, ProductType DEF Positive
<1> QED
  BY <1>2, <1>3 DEF ModelSizes

LEMMA EnginesAlways == Spec => [](CleanInv /\ SessionInv /\ ResultForEach)
<1>1. Init => CleanInv /\ SessionInv /\ ResultForEach
  <2> SUFFICES ASSUME Init PROVE CleanInv /\ SessionInv /\ ResultForEach
    OBVIOUS
  <2>1. CleanInv /\ SessionInv
    BY NewIsEngine DEF Init, CleanInv, LikeNew, SessionInv
  <2>2. ResultForEach
    BY EmptyBatch DEF Init, ResultForEach, NoBatch
  <2> QED
    BY <2>1, <2>2
<1>2. (CleanInv /\ SessionInv /\ ResultForEach) /\ [Next]_vars => (CleanInv /\ SessionInv /\ ResultForEach)'
  BY CleanKept, SessionKept, ForEachKept
<1> QED
  BY <1>1, <1>2, PTL DEF Spec

\* An engine is in use only with a model it could load and only where it was built for it, its shapes
\* and sizes are those of models, and infer_batch returns one result for each input on every path.
THEOREM TypeCorrect == Spec => []TypeOK
<1>1. CleanInv /\ SessionInv /\ ResultForEach => TypeOK
  BY FieldTypes DEF CleanInv, SessionInv, ResultForEach, TypeOK, Engine
<1> QED
  BY <1>1, EnginesAlways, PTL

-----------------------------------------------------------------------------
(* Batching cannot be noticed *)

\* What infer_batch of the engine returns, whether or not it has loaded a model.
LEMMA AnswersAlone ==
  ASSUME CleanInv, SessionInv, ~twice, NEW batch \in Batches, NEW k \in {1, 2}
  PROVE  LET n == Len(batch)
         IN  /\ TakesRows(session, n) /\ GivesRows(session, n) =>
                  OnnxResults(batch, k) = [i \in 1..n |-> Alone(session, batch[i])]
             /\ ~TakesRows(session, n) => OnnxResults(batch, k) = [i \in 1..n |-> NotTaken]
<1>1. DOMAIN batch = 1..Len(batch) /\ (batch = << >> <=> Len(batch) = 0)
  BY BatchFacts
<1>2. CASE ~onnx.initialized
  <2>1. OnnxResults(batch, k) = Failed(batch)
    BY <1>2 DEF OnnxResults
  <2>2. ~TakesRows(session, Len(batch))
    BY <1>2 DEF SessionInv, NoModel, TakesRows
  <2> QED
    BY <1>1, <2>1, <2>2 DEF Failed, NotTaken
<1>3. CASE onnx.initialized /\ batch = << >>
  <2>1. OnnxResults(batch, k) = << >>
    BY <1>3 DEF OnnxResults, Failed
  <2>2. Len(batch) = 0 /\ 1..0 = {}
    BY <1>1, <1>3
  <2> QED
    BY <2>1, <2>2
<1>4. CASE onnx.initialized /\ batch # << >>
  <2>1. sdk /\ session \in Models /\ session.file = "good"
    BY <1>4 DEF SessionInv
  <2>2. LoadedWith(session)
    BY <1>4, <2>1, LoadedNew DEF CleanInv, LikeNew
  <2> QED
    BY <1>4, <2>1, <2>2, ResultsAlone
<1> QED
  BY <1>2, <1>3, <1>4

LEMMA AloneKept == ASSUME CleanInv, SessionInv, AsAlone, [Next]_vars PROVE AsAlone'
<1>1. CASE (\E m \in Models : InitCall(m)) \/ Shutdown
  <2>1. last'.by = "none"
    BY <1>1 DEF InitCall, Shutdown, NoBatch
  <2> QED
    BY <2>1 DEF AsAlone
<1>2. CASE (\E m \in Models, b \in BOOLEAN : ThreadPool(b, m)) \/ UNCHANGED vars
  BY <1>2 DEF ThreadPool, vars, AsAlone
<1>3. CASE \E by \in {"onnx", "mock"}, batch \in Batches : InferBatch(by, batch)
  <2>1. PICK by \in {"onnx", "mock"}, batch \in Batches : InferBatch(by, batch)
    BY <1>3
  <2>2. PICK k \in {1, 2} :
          last' = [by |-> by, model |-> session, over |-> twice, batch |-> batch,
                   results |-> IF by = "onnx" THEN OnnxResults(batch, k) ELSE MockResults(batch)]
    BY <2>1 DEF InferBatch
  <2>3. /\ last'.by = by /\ last'.model = session /\ last'.over = twice /\ last'.batch = batch
        /\ by = "onnx" => last'.results = OnnxResults(batch, k)
    BY <2>2
  <2> DEFINE n == Len(batch)
  <2> SUFFICES ASSUME by = "onnx", ~twice
               PROVE  /\ TakesRows(session, n) /\ GivesRows(session, n) =>
                           OnnxResults(batch, k) = [i \in 1..n |-> Alone(session, batch[i])]
                      /\ ~TakesRows(session, n) => OnnxResults(batch, k) = [i \in 1..n |-> NotTaken]
    BY <2>3 DEF AsAlone
  <2> QED
    BY AnswersAlone
<1> QED
  BY <1>1, <1>2, <1>3 DEF Next

\* Batching cannot be noticed: pack_batch_input and unpack_batch_output give each input of a batch the
\* result it would have alone, if the model takes the batch and gives a row for each, and a batch that
\* the model does not take fails as a whole; for batches and inputs of any length, models of any rank,
\* and whether or not a model without a batch dimension is run with one in front.
THEOREM BatchingIsUnnoticed == Spec => []AsAlone
<1>1. Init => AsAlone
  BY DEF Init, NoBatch, AsAlone
<1>2. CleanInv /\ SessionInv /\ AsAlone /\ [Next]_vars => AsAlone'
  BY AloneKept
<1> QED
  BY <1>1, <1>2, EnginesAlways, PTL DEF Spec
=============================================================================

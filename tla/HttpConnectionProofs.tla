------------------------ MODULE HttpConnectionProofs ------------------------
(***************************************************************************)
(* Safety of HttpConnection, for every size of its buffers, every request, *)
(* body and response: what is parsed does not depend on how it arrives, a  *)
(* task has the fields of its body, and the response arrives whole.        *)
(***************************************************************************)
EXTENDS HttpConnection, WellFoundedInduction, TLAPS

USE DEF allVars, vars, clientVars, parserVars, doVars, responseVars, bufferVars, sendVars

-----------------------------------------------------------------------------
(* Natural numbers *)

LEMMA Numbers ==
  /\ BufferSize \in Nat \ {0} /\ MaxHeaders \in Nat /\ MaxBody \in Nat
  /\ InitBufferSize \in Nat \ {0} /\ MaxOutput \in Nat
  BY SizesAssumption, BuffersAssumption

\* A set of natural numbers has a least one.
LEMMA Least == ASSUME NEW S \in SUBSET Nat, S # {} PROVE \E m \in S : \A k \in S : m <= k
<1> DEFINE R == {ss \in Nat \X Nat : ss[1] < ss[2]}
<1>1. \A i, j \in Nat : i < j => <<i, j>> \in R
  OBVIOUS
<1>2. IsWellFoundedOn(R, Nat)
  BY NatLessThanWellFounded DEF OpToRel
<1> HIDE DEF R
<1>3. \E m \in S : \A y \in S : ~(<<y, m>> \in R)
  BY <1>2, WFMin
<1>4. PICK m \in S : \A y \in S : ~(<<y, m>> \in R)
  BY <1>3
<1>5. ASSUME NEW k \in S PROVE m <= k
  <2>1. k \in Nat /\ m \in Nat /\ ~(k < m)
    BY <1>1, <1>4
  <2> QED
    BY <2>1
<1> QED
  BY <1>5

\* What the powers of two are, of which the provers know nothing.
Powers == 2^0 = 1 /\ \A k \in Nat : 2^(k + 1) = 2 * 2^k

LEMMA PowersGrow == ASSUME Powers PROVE \A n \in Nat : 2^n \in Nat /\ 2^n > n
<1> DEFINE Small == {n \in Nat : ~(2^n \in Nat /\ 2^n > n)}
<1> SUFFICES ASSUME Small # {} PROVE FALSE
  OBVIOUS
<1>1. PICK m \in Small : \A k \in Small : m <= k
  <2>1. Small \in SUBSET Nat
    OBVIOUS
  <2> HIDE DEF Small
  <2> QED
    BY Least, <2>1
<1>2. m # 0
  <2>1. 2^0 \in Nat /\ 2^0 > 0
    <3>1. 2^0 = 1
      BY DEF Powers
    <3> QED
      BY <3>1
  <2>2. 0 \notin Small
    BY <2>1
  <2> QED
    BY <1>1, <2>2
<1>3. m - 1 \in Nat /\ m - 1 \notin Small /\ (m - 1) + 1 = m
  BY <1>1, <1>2
<1>4. 2^(m - 1) \in Nat /\ 2^(m - 1) > m - 1
  BY <1>3
<1>5. 2^m = 2 * 2^(m - 1)
  <2>1. 2^((m - 1) + 1) = 2 * 2^(m - 1)
    BY <1>3 DEF Powers
  <2> QED
    BY <1>3, <2>1
<1> QED
  BY <1>1, <1>3, <1>4, <1>5

\* A buffer that is doubled until a text fits does end.
LEMMA DoubledFits ==
  ASSUME Powers, NEW size \in Nat \ {0}, NEW n \in Nat
  PROVE  Doubled(size, n) \in Nat /\ Doubled(size, n) > n
<1> DEFINE Enough == {k \in Nat : size * 2^k > n}
           P(k) == size * 2^k > n /\ \A j \in 0..(k - 1) : size * 2^j <= n
           d == CHOOSE k \in 0..n : P(k)
<1>1. \A a \in Nat \ {0}, b \in Nat : a * b \in Nat /\ a * b >= b
  OBVIOUS
<1>2. \A k \in Nat : 2^k \in Nat /\ 2^k > k
  BY PowersGrow
<1>3. \A k \in Nat : size * 2^k \in Nat /\ size * 2^k > k
  BY <1>1, <1>2
<1>4. n \in Enough
  BY <1>3
<1>5. PICK k \in Enough : \A j \in Enough : k <= j
  <2>1. Enough \in SUBSET Nat /\ Enough # {}
    BY <1>4
  <2> HIDE DEF Enough
  <2> QED
    BY Least, <2>1
<1>6. k \in 0..n /\ P(k)
  <2>1. k \in Nat /\ k <= n /\ size * 2^k > n
    BY <1>4, <1>5
  <2>2. ASSUME NEW j \in 0..(k - 1) PROVE size * 2^j <= n
    <3>1. j \in Nat /\ j \notin Enough
      BY <1>5, <2>1
    <3> QED
      BY <1>3, <3>1
  <2> QED
    BY <2>1, <2>2
<1> HIDE DEF P
<1>7. d \in 0..n /\ P(d)
  BY <1>6
<1>8. Doubled(size, n) = size * 2^d
  BY DEF Doubled, P
<1> HIDE DEF d
<1> QED
  BY <1>3, <1>7, <1>8 DEF P

-----------------------------------------------------------------------------
(* The write buffer *)

Kinds == {"nul", "raw", "status", "json", "length", "linger", "blank", "form",
          "missing", "overloaded", "timeout", "failed", "ok"}
Units == Kinds \X Nat

\* A text that fits is printed behind what there is.
LEMMA PrintedText ==
  ASSUME NEW buf \in Seq(Units), NEW idx \in Nat, NEW text \in Seq(Units), Len(text) < Len(buf) - idx
  PROVE  /\ Printed(buf, idx, text) \in Seq(Units) /\ Len(Printed(buf, idx, text)) = Len(buf)
         /\ \A i \in 1..idx : Printed(buf, idx, text)[i] = buf[i]
         /\ \A i \in 1..Len(text) : Printed(buf, idx, text)[idx + i] = text[i]
<1> DEFINE n == Len(text)
           f == [i \in DOMAIN buf |-> IF i \in (idx + 1)..(idx + n) THEN text[i - idx]
                                      ELSE IF i = idx + n + 1 THEN Nul ELSE buf[i]]
<1>1. n \in Nat /\ Len(buf) \in Nat /\ DOMAIN buf = 1..Len(buf) /\ n < Len(buf) - idx
      /\ (\A i \in 1..Len(buf) : buf[i] \in Units) /\ (\A i \in 1..n : text[i] \in Units)
  OBVIOUS
<1>2. Printed(buf, idx, text) = f
  BY DEF Printed
<1>3. Nul \in Units
  BY DEF Nul, Units, Kinds
<1> HIDE DEF n
<1>4. \A i \in 1..Len(buf) : i \in (idx + 1)..(idx + n) => i - idx \in 1..n
  BY <1>1
<1>5. \A i \in 1..Len(buf) : f[i] \in Units
  BY <1>1, <1>3, <1>4
<1>6. f \in [1..Len(buf) -> Units]
  BY <1>1, <1>5
<1>7. f \in Seq(Units) /\ Len(f) = Len(buf)
  <2> HIDE DEF f
  <2> QED
    BY <1>1, <1>6
<1>8. \A i \in 1..idx : f[i] = buf[i]
  BY <1>1
<1>9. \A i \in 1..n : f[idx + i] = text[i]
  <2> SUFFICES ASSUME NEW i \in 1..n PROVE f[idx + i] = text[i]
    OBVIOUS
  <2>1. idx + i \in (idx + 1)..(idx + n) /\ idx + i \in 1..Len(buf) /\ (idx + i) - idx = i
    BY <1>1
  <2> QED
    BY <1>1, <2>1
<1> QED
  BY <1>2, <1>7, <1>8, <1>9 DEF n

\* A buffer that grows keeps what there is and has room for the text and its zero.
LEMMA GrownBuffer ==
  ASSUME Powers, m_write_buf \in Seq(Units), m_write_idx \in Nat, m_write_idx < Len(m_write_buf),
         NEW text \in Seq(Units), ~Fits(text)
  PROVE  /\ Grown(text) \in Seq(Units) /\ Len(text) < Len(Grown(text)) - m_write_idx
         /\ \A i \in 1..m_write_idx : Grown(text)[i] = m_write_buf[i]
<1> DEFINE k == m_write_idx
           d == Doubled(Len(m_write_buf), k + Len(text))
           a == SubSeq(m_write_buf, 1, k)
           b == Memory(d - k, Raw)
<1>1. Len(m_write_buf) \in Nat \ {0} /\ Len(text) \in Nat /\ k \in Nat /\ k + Len(text) \in Nat
      /\ k <= Len(m_write_buf)
  OBVIOUS
<1>2. d \in Nat /\ d > k + Len(text)
  BY <1>1, DoubledFits
<1> HIDE DEF d
<1>3. a \in Seq(Units) /\ Len(a) = k /\ \A i \in 1..k : a[i] = m_write_buf[i]
  BY <1>1
<1>4. b \in Seq(Units) /\ Len(b) = d - k
  <2>1. Raw \in Units
    BY DEF Raw, Units, Kinds
  <2>2. d - k \in Nat /\ b = [i \in 1..(d - k) |-> Raw]
    BY <1>1, <1>2 DEF Memory
  <2>3. b \in [1..(d - k) -> Units]
    BY <2>1, <2>2
  <2> HIDE DEF b
  <2> QED
    BY <2>2, <2>3
<1>5. Grown(text) = a \o b
  BY DEF Grown, d
<1> HIDE DEF a, b
<1>6. a \o b \in Seq(Units) /\ Len(a \o b) = k + (d - k)
  <2>1. \A s, t \in Seq(Units) : s \o t \in Seq(Units) /\ Len(s \o t) = Len(s) + Len(t)
    OBVIOUS
  <2>2. a \in Seq(Units) /\ b \in Seq(Units)
    BY <1>3, <1>4
  <2>3. a \o b \in Seq(Units) /\ Len(a \o b) = Len(a) + Len(b)
    BY <2>1, <2>2
  <2> QED
    BY <1>3, <1>4, <2>3
<1>7. \A i \in 1..k : (a \o b)[i] = a[i]
  BY <1>1, <1>3, <1>4
<1> QED
  BY <1>1, <1>2, <1>3, <1>5, <1>6, <1>7

LEMMA ResponseAdded ==
  ASSUME Powers, m_write_buf \in Seq(Units), m_write_idx \in Nat, m_write_idx < Len(m_write_buf),
         NEW text \in Seq(Units)
  PROVE  /\ WithResponse(text) \in Seq(Units) /\ m_write_idx + Len(text) < Len(WithResponse(text))
         /\ \A i \in 1..m_write_idx : WithResponse(text)[i] = m_write_buf[i]
         /\ \A i \in 1..Len(text) : WithResponse(text)[m_write_idx + i] = text[i]
<1> DEFINE buf == IF Fits(text) THEN m_write_buf ELSE Grown(text)
<1>1. /\ buf \in Seq(Units) /\ Len(text) < Len(buf) - m_write_idx
      /\ \A i \in 1..m_write_idx : buf[i] = m_write_buf[i]
  BY GrownBuffer DEF Fits
<1>2. WithResponse(text) = Printed(buf, m_write_idx, text)
  BY DEF WithResponse
<1> HIDE DEF buf
<1>3. /\ Printed(buf, m_write_idx, text) \in Seq(Units)
      /\ Len(Printed(buf, m_write_idx, text)) = Len(buf)
      /\ \A i \in 1..m_write_idx : Printed(buf, m_write_idx, text)[i] = buf[i]
      /\ \A i \in 1..Len(text) : Printed(buf, m_write_idx, text)[m_write_idx + i] = text[i]
  BY <1>1, PrintedText
<1>4. Len(text) \in Nat /\ Len(buf) \in Nat
  BY <1>1
<1> QED
  BY <1>1, <1>2, <1>3, <1>4

-----------------------------------------------------------------------------
(* The request as it is sent *)

Sendable == {"infer", "other", "garbage", "CR", "LF", "length", "keep-alive", "text"}

LEMMA SeqsType ==
  ASSUME NEW S, NEW n \in Nat, NEW s \in SeqsUpTo(S, n)
  PROVE  s \in Seq(S) /\ Len(s) \in 0..n /\ DOMAIN s = 1..Len(s)
<1>1. PICK k \in 0..n : s \in [1..k -> S]
  BY DEF SeqsUpTo
<1>2. s \in Seq(S) /\ Len(s) = k
  BY <1>1
<1> QED
  BY <1>2

LEMMA IsRequest == ASSUME NEW r \in Requests PROVE r # NoRequest
<1>1. DOMAIN r = {"line", "eol", "headers", "length", "body"}
  BY DEF Requests
<1> HIDE DEF Requests
<1>2. "line" \in DOMAIN r
  BY <1>1
<1>3. DOMAIN NoRequest = {}
  BY DEF NoRequest
<1> QED
  BY <1>2, <1>3

LEMMA RequestType ==
  ASSUME NEW r \in Requests
  PROVE  /\ r.line \in {"infer", "other", "garbage"}
         /\ r.eol \in {<<"CR", "LF">>, <<"CR">>, <<"LF">>}
         /\ r.headers \in Seq({"length", "keep-alive"}) /\ Len(r.headers) \in Nat
         /\ DOMAIN r.headers = 1..Len(r.headers)
         /\ r.body \in Seq({"text", "LF"}) /\ Len(r.body) \in Nat
         /\ r.length \in (-1)..(MaxBody + 1)
         /\ r.line = "garbage" \/ r.eol # <<"CR", "LF">> => r.headers = << >>
         /\ IF \E i \in DOMAIN r.headers : r.headers[i] = "length"
              THEN r.length \in {Len(r.body), Len(r.body) + 1} \/ (r.length = -1 /\ r.body = << >>)
              ELSE r.length = 0 /\ r.body = << >>
<1>1. /\ r.line \in {"infer", "other", "garbage"}
      /\ r.eol \in {<<"CR", "LF">>, <<"CR">>, <<"LF">>}
      /\ r.headers \in SeqsUpTo({"length", "keep-alive"}, MaxHeaders)
      /\ r.body \in SeqsUpTo({"text", "LF"}, MaxBody)
      /\ r.length \in (-1)..(MaxBody + 1)
  BY DEF Requests
<1>2. /\ r.line = "garbage" \/ r.eol # <<"CR", "LF">> => r.headers = << >>
      /\ IF "length" \in {r.headers[i] : i \in DOMAIN r.headers}
           THEN r.length \in {Len(r.body), Len(r.body) + 1} \/ (r.length = -1 /\ r.body = << >>)
           ELSE r.length = 0 /\ r.body = << >>
  BY DEF Requests
<1>3. r.headers \in Seq({"length", "keep-alive"}) /\ Len(r.headers) \in 0..MaxHeaders
      /\ DOMAIN r.headers = 1..Len(r.headers)
  BY <1>1, Numbers, SeqsType
<1>4. r.body \in Seq({"text", "LF"}) /\ Len(r.body) \in 0..MaxBody
  BY <1>1, Numbers, SeqsType
<1>5. "length" \in {r.headers[i] : i \in DOMAIN r.headers}
        <=> \E i \in DOMAIN r.headers : r.headers[i] = "length"
  OBVIOUS
<1> QED
  BY <1>1, <1>2, <1>3, <1>4, <1>5

\* Where the parts of a sequence of parts are.
LEMMA Behind ==
  ASSUME NEW S, NEW s \in Seq(S), NEW t \in Seq(S), NEW m \in Nat, Len(s) = m, NEW n \in Nat, Len(t) = n
  PROVE  /\ s \o t \in Seq(S) /\ Len(s \o t) = m + n
         /\ \A i \in 1..m : (s \o t)[i] = s[i]
         /\ \A i \in 1..n : (s \o t)[m + i] = t[i]
<1>2. s \o t \in Seq(S) /\ Len(s \o t) = m + n
  OBVIOUS
<1>3. \A i \in 1..m : (s \o t)[i] = s[i]
  OBVIOUS
<1>4. \A i \in 1..n : (s \o t)[m + i] = t[i]
  OBVIOUS
<1> QED
  BY <1>2, <1>3, <1>4

\* The three units of each header.
LEMMA HeaderUnits ==
  ASSUME NEW hs \in Seq({"length", "keep-alive"})
  PROVE  /\ HeaderLines(hs) \in Seq(Sendable) /\ Len(HeaderLines(hs)) = 3 * Len(hs)
         /\ \A h \in 1..Len(hs) : /\ HeaderLines(hs)[3 * h - 2] = hs[h]
                                  /\ HeaderLines(hs)[3 * h - 1] = "CR"
                                  /\ HeaderLines(hs)[3 * h] = "LF"
<1> DEFINE n == Len(hs)
           f == HeaderLines(hs)
<1>1. n \in Nat /\ \A h \in 1..n : hs[h] \in Sendable
  BY DEF Sendable
<1>2. f = [i \in 1..(3 * n) |-> CASE i % 3 = 1 -> hs[(i + 2) \div 3]
                                  [] i % 3 = 2 -> "CR"
                                  [] i % 3 = 0 -> "LF"]
  BY DEF HeaderLines
<1> HIDE DEF n, f
<1>3. ASSUME NEW i \in 1..(3 * n)
      PROVE  \/ i % 3 = 1 /\ (i + 2) \div 3 \in 1..n
             \/ i % 3 = 2
             \/ i % 3 = 0
  BY <1>1, <1>3
<1>4. \A i \in 1..(3 * n) : f[i] \in Sendable
  <2> SUFFICES ASSUME NEW i \in 1..(3 * n) PROVE f[i] \in Sendable
    OBVIOUS
  <2>1. CASE i % 3 = 1 /\ (i + 2) \div 3 \in 1..n
    BY <1>1, <1>2, <2>1
  <2>2. CASE i % 3 = 2
    BY <1>2, <2>2 DEF Sendable
  <2>3. CASE i % 3 = 0
    BY <1>2, <2>3 DEF Sendable
  <2> QED
    BY <1>3, <2>1, <2>2, <2>3
<1>5. f \in Seq(Sendable) /\ Len(f) = 3 * n
  <2>1. 3 * n \in Nat /\ DOMAIN f = 1..(3 * n)
    BY <1>1, <1>2
  <2>2. f \in [1..(3 * n) -> Sendable]
    BY <1>2, <1>4
  <2> QED
    BY <2>1, <2>2
<1>6. ASSUME NEW h \in 1..n
      PROVE  f[3 * h - 2] = hs[h] /\ f[3 * h - 1] = "CR" /\ f[3 * h] = "LF"
  <2>1. h \in Nat /\ 3 * h - 2 \in 1..(3 * n) /\ 3 * h - 1 \in 1..(3 * n) /\ 3 * h \in 1..(3 * n)
    BY <1>1
  <2>2. (3 * h - 2) % 3 = 1 /\ ((3 * h - 2) + 2) \div 3 = h /\ (3 * h - 1) % 3 = 2 /\ (3 * h) % 3 = 0
    BY <2>1
  <2>3. f[3 * h - 2] = hs[h]
    <3>1. \A i \in 1..(3 * n) : i % 3 = 1 => f[i] = hs[(i + 2) \div 3]
      BY <1>2
    <3> QED
      BY <2>1, <2>2, <3>1
  <2>4. f[3 * h - 1] = "CR"
    BY <1>2, <2>1, <2>2
  <2>5. f[3 * h] = "LF"
    BY <1>2, <2>1, <2>2
  <2> QED
    BY <2>3, <2>4, <2>5
<1> QED
  BY <1>5, <1>6 DEF n, f

\* Where the body begins.
Head3(r) == 1 + Len(r.eol) + 3 * Len(r.headers)
LEMMA WireLayout ==
  ASSUME NEW r \in Requests
  PROVE  /\ Wire(r) \in Seq(Sendable) /\ Len(Wire(r)) = Head3(r) + 2 + Len(r.body)
         /\ Wire(r)[1] = r.line
         /\ \A i \in 1..Len(r.eol) : Wire(r)[1 + i] = r.eol[i]
         /\ \A h \in 1..Len(r.headers) : /\ Wire(r)[1 + Len(r.eol) + 3 * h - 2] = r.headers[h]
                                         /\ Wire(r)[1 + Len(r.eol) + 3 * h - 1] = "CR"
                                         /\ Wire(r)[1 + Len(r.eol) + 3 * h] = "LF"
         /\ Wire(r)[Head3(r) + 1] = "CR" /\ Wire(r)[Head3(r) + 2] = "LF"
         /\ \A i \in 1..Len(r.body) : Wire(r)[Head3(r) + 2 + i] = r.body[i]
<1> DEFINE a == <<r.line>>
           b == a \o r.eol
           c == b \o HeaderLines(r.headers)
           d == c \o <<"CR", "LF">>
           S == Sendable
           e == Len(r.eol)
           H == Len(r.headers)
<1>1. /\ a \in Seq(S) /\ Len(a) = 1 /\ a[1] = r.line
      /\ r.eol \in Seq(S) /\ e \in Nat
      /\ r.body \in Seq(S) /\ Len(r.body) \in Nat /\ H \in Nat
      /\ <<"CR", "LF">> \in Seq(S)
  <2>1. a \in Seq(S) /\ Len(a) = 1 /\ a[1] = r.line
    BY RequestType DEF Sendable
  <2>2. r.eol \in Seq(S) /\ e \in Nat
    <3>1. r.eol \in {<<"CR", "LF">>, <<"CR">>, <<"LF">>}
      BY RequestType
    <3>2. <<"CR", "LF">> \in Seq(S) /\ <<"CR">> \in Seq(S) /\ <<"LF">> \in Seq(S)
      BY DEF Sendable
    <3>3. r.eol \in Seq(S)
      BY <3>1, <3>2
    <3> HIDE DEF S
    <3> QED
      BY <3>3
  <2>3. \A s \in Seq({"text", "LF"}) : s \in Seq(S)
    BY DEF Sendable
  <2>4. r.body \in Seq(S) /\ Len(r.body) \in Nat /\ H \in Nat
    BY <2>3, RequestType
  <2>5. <<"CR", "LF">> \in Seq(S)
    BY DEF Sendable
  <2> QED
    BY <2>1, <2>2, <2>4, <2>5
<1>2. /\ HeaderLines(r.headers) \in Seq(S) /\ Len(HeaderLines(r.headers)) = 3 * H
      /\ \A h \in 1..H : /\ HeaderLines(r.headers)[3 * h - 2] = r.headers[h]
                         /\ HeaderLines(r.headers)[3 * h - 1] = "CR"
                         /\ HeaderLines(r.headers)[3 * h] = "LF"
  BY RequestType, HeaderUnits
<1> HIDE DEF a, S
<1>3. /\ b \in Seq(S) /\ Len(b) = 1 + e /\ b[1] = r.line
      /\ \A i \in 1..e : b[1 + i] = r.eol[i]
  <2> DEFINE t == r.eol
             m == 1
             n == e
  <2>1. t \in Seq(S) /\ Len(t) = n /\ a \in Seq(S) /\ Len(a) = m /\ m \in Nat /\ n \in Nat
    BY <1>1
  <2> HIDE DEF t, m, n
  <2>2. /\ a \o t \in Seq(S) /\ Len(a \o t) = m + n
        /\ \A i \in 1..m : (a \o t)[i] = a[i]
        /\ \A i \in 1..n : (a \o t)[m + i] = t[i]
    BY <2>1, Behind
  <2> QED
    BY <1>1, <2>2 DEF t, m, n
<1> HIDE DEF b
<1>4. /\ c \in Seq(S) /\ Len(c) = (1 + e) + 3 * H
      /\ \A i \in 1..(1 + e) : c[i] = b[i]
      /\ \A i \in 1..(3 * H) : c[(1 + e) + i] = HeaderLines(r.headers)[i]
  <2> DEFINE t == HeaderLines(r.headers)
             m == 1 + e
             n == 3 * H
  <2>1. t \in Seq(S) /\ Len(t) = n /\ b \in Seq(S) /\ Len(b) = m /\ m \in Nat /\ n \in Nat
    BY <1>1, <1>2, <1>3
  <2> HIDE DEF t, m, n
  <2>2. /\ b \o t \in Seq(S) /\ Len(b \o t) = m + n
        /\ \A i \in 1..m : (b \o t)[i] = b[i]
        /\ \A i \in 1..n : (b \o t)[m + i] = t[i]
    BY <2>1, Behind
  <2> QED
    BY <2>2 DEF t, m, n
<1> HIDE DEF c
<1>5. /\ d \in Seq(S) /\ Len(d) = Len(c) + 2
      /\ \A i \in 1..Len(c) : d[i] = c[i]
      /\ \A i \in 1..2 : d[Len(c) + i] = <<"CR", "LF">>[i]
  <2> DEFINE t == <<"CR", "LF">>
             m == Len(c)
             n == 2
  <2>1. t \in Seq(S) /\ Len(t) = n /\ c \in Seq(S) /\ Len(c) = m /\ m \in Nat /\ n \in Nat
    <3>1. t \in Seq(S) /\ Len(t) = n /\ n \in Nat
      BY <1>1
    <3>2. c \in Seq(S)
      BY <1>4
    <3>3. Len(c) \in Nat
      BY <3>2
    <3> QED
      BY <3>1, <3>2, <3>3
  <2> HIDE DEF t, m, n
  <2>2. /\ c \o t \in Seq(S) /\ Len(c \o t) = m + n
        /\ \A i \in 1..m : (c \o t)[i] = c[i]
        /\ \A i \in 1..n : (c \o t)[m + i] = t[i]
    BY <2>1, Behind
  <2> QED
    BY <2>2 DEF t, m, n
<1>6. d[Len(c) + 1] = "CR" /\ d[Len(c) + 2] = "LF"
  BY <1>5
<1> HIDE DEF d
<1>7. Wire(r) = d \o r.body
  BY DEF Wire, d, c, b, a
<1>8. /\ d \o r.body \in Seq(S) /\ Len(d \o r.body) = Len(d) + Len(r.body)
      /\ \A i \in 1..Len(d) : (d \o r.body)[i] = d[i]
      /\ \A i \in 1..Len(r.body) : (d \o r.body)[Len(d) + i] = r.body[i]
  <2> DEFINE t == r.body
             m == Len(d)
             n == Len(t)
  <2>1. t \in Seq(S) /\ Len(t) = n /\ d \in Seq(S) /\ Len(d) = m /\ m \in Nat /\ n \in Nat
    BY <1>1, <1>5
  <2> HIDE DEF t, m, n
  <2>2. /\ d \o t \in Seq(S) /\ Len(d \o t) = m + n
        /\ \A i \in 1..m : (d \o t)[i] = d[i]
        /\ \A i \in 1..n : (d \o t)[m + i] = t[i]
    BY <2>1, Behind
  <2> QED
    BY <2>2 DEF t, m, n
<1>9. e \in Nat /\ H \in Nat /\ Head3(r) = Len(c) /\ Len(c) = (1 + e) + 3 * H /\ Len(d) = Len(c) + 2
  BY <1>1, <1>4, <1>5 DEF Head3
<1> HIDE DEF e, H
<1>10. \A i \in 1..Len(c) : Wire(r)[i] = c[i]
  BY <1>5, <1>7, <1>8, <1>9
<1>11. Wire(r)[1] = r.line /\ \A i \in 1..e : Wire(r)[1 + i] = r.eol[i]
  <2>1. 1 \in 1..(1 + e) /\ 1 \in 1..Len(c)
    BY <1>9
  <2>2. \A i \in 1..e : 1 + i \in 1..(1 + e) /\ 1 + i \in 1..Len(c)
    BY <1>9
  <2> QED
    BY <1>3, <1>4, <1>10, <2>1, <2>2
<1>12. ASSUME NEW h \in 1..H
       PROVE  /\ Wire(r)[1 + e + 3 * h - 2] = r.headers[h]
              /\ Wire(r)[1 + e + 3 * h - 1] = "CR"
              /\ Wire(r)[1 + e + 3 * h] = "LF"
  <2>1. \A j \in {3 * h - 2, 3 * h - 1, 3 * h} : j \in 1..(3 * H) /\ (1 + e) + j \in 1..Len(c)
    BY <1>9
  <2>2. \A j \in {3 * h - 2, 3 * h - 1, 3 * h} : Wire(r)[(1 + e) + j] = HeaderLines(r.headers)[j]
    BY <1>4, <1>10, <2>1
  <2>3. (1 + e) + (3 * h - 2) = 1 + e + 3 * h - 2 /\ (1 + e) + (3 * h - 1) = 1 + e + 3 * h - 1
        /\ (1 + e) + 3 * h = 1 + e + 3 * h
    BY <1>9
  <2> QED
    BY <1>2, <2>2, <2>3
<1>13. Wire(r)[Head3(r) + 1] = "CR" /\ Wire(r)[Head3(r) + 2] = "LF"
  BY <1>6, <1>7, <1>8, <1>9
<1>14. \A i \in 1..Len(r.body) : Wire(r)[Head3(r) + 2 + i] = r.body[i]
  BY <1>7, <1>8, <1>9
<1>15. Wire(r) \in Seq(Sendable) /\ Len(Wire(r)) = Head3(r) + 2 + Len(r.body)
  BY <1>7, <1>8, <1>9 DEF S
<1> QED
  BY <1>11, <1>12, <1>13, <1>14, <1>15 DEF e, H

-----------------------------------------------------------------------------
(* Types of the request *)

Steps == {"wait", "parse", "answer", "task", "respond", "build", "write", "closed", "lost"}

\* A worker has the connection only while there is a request, and knows what to answer from
\* process_read on.
ConnInv ==
  /\ RequestTypeOK
  /\ pc \in Steps
  /\ json \in Bodies \cup {NoJson} /\ (pc = "task" <=> json # NoJson)
  /\ pc \notin {"wait", "closed", "lost"} => Asking
  /\ pc \in {"answer", "task", "respond", "build", "write"} => answer \in {"400", "404", "json"}

LEMMA SizeType == ASSUME NEW r \in Requests PROVE Len(Wire(r)) \in Nat
  BY WireLayout

LEMMA ReadTypes ==
  ASSUME RequestTypeOK
  PROVE  /\ Size \in Nat /\ arrived \in Nat /\ m_read_idx \in Nat /\ m_checked_idx \in Nat
         /\ m_start_line \in Nat /\ m_content_length \in Int
         /\ arrived <= Size /\ m_read_idx <= arrived /\ m_checked_idx <= m_read_idx
         /\ m_start_line <= m_checked_idx
         /\ Asking => request \in Requests
<1>1. Size \in Nat
  BY SizeType DEF Size, RequestTypeOK, Asking
<1>2. arrived \in Nat /\ arrived <= Size
  BY <1>1 DEF RequestTypeOK
<1>3. m_read_idx \in Nat /\ m_read_idx <= arrived
  BY <1>2 DEF RequestTypeOK
<1>4. m_checked_idx \in Nat /\ m_checked_idx <= m_read_idx
  BY <1>3 DEF RequestTypeOK
<1>5. m_start_line \in Nat /\ m_start_line <= m_checked_idx
  BY <1>4 DEF RequestTypeOK
<1>6. m_content_length \in Int /\ (Asking => request \in Requests)
  BY Numbers DEF RequestTypeOK, Asking
<1> QED
  BY <1>1, <1>2, <1>3, <1>4, <1>5, <1>6

\* parse_line stops at the first CR or LF.
LEMMA EndOfLine ==
  ASSUME RequestTypeOK
  PROVE  /\ LineEnd \in m_checked_idx..m_read_idx
         /\ LineEnd < m_read_idx => Unit(LineEnd) \in {"CR", "LF"}
         /\ \A i \in m_checked_idx..(LineEnd - 1) : Unit(i) \notin {"CR", "LF"}
<1> DEFINE buf == Wire(request)
           ends == {i \in m_checked_idx..(m_read_idx - 1) : buf[i + 1] \in {"CR", "LF"}}
           e == CHOOSE i \in ends : \A j \in ends : i <= j
<1>0. m_checked_idx \in Nat /\ m_read_idx \in Nat /\ m_checked_idx <= m_read_idx
  BY ReadTypes
<1>1. CASE ends = {}
  <2>1. LineEnd = m_read_idx
    BY <1>1 DEF LineEnd
  <2>2. \A i \in m_checked_idx..(m_read_idx - 1) : Unit(i) \notin {"CR", "LF"}
    BY <1>1 DEF Unit
  <2> QED
    BY <1>0, <2>1, <2>2
<1>2. CASE ends # {}
  <2>1. LineEnd = e
    BY <1>2 DEF LineEnd
  <2>2. ends \in SUBSET Nat
    BY <1>0
  <2>3. \A i : i \in ends <=> i \in m_checked_idx..(m_read_idx - 1) /\ Unit(i) \in {"CR", "LF"}
    BY DEF Unit
  <2> HIDE DEF ends
  <2>4. \E i \in ends : \A j \in ends : i <= j
    BY <1>2, <2>2, Least
  <2>5. e \in ends /\ \A j \in ends : e <= j
    BY <2>4
  <2> HIDE DEF e
  <2>6. e \in m_checked_idx..(m_read_idx - 1) /\ Unit(e) \in {"CR", "LF"}
    BY <2>3, <2>5
  <2>7. ASSUME NEW i \in m_checked_idx..(e - 1) PROVE Unit(i) \notin {"CR", "LF"}
    <3>1. i \in m_checked_idx..(m_read_idx - 1) /\ ~(e <= i)
      BY <1>0, <2>6
    <3> QED
      BY <2>3, <2>5, <3>1
  <2> QED
    BY <1>0, <2>1, <2>6, <2>7
<1> QED
  BY <1>1, <1>2

LEMMA LineParsed ==
  ASSUME RequestTypeOK
  PROVE  /\ ParsedLine.status \in {"open", "ok", "bad"}
         /\ ParsedLine.checked \in m_checked_idx..m_read_idx
         /\ ParsedLine.status # "ok" => ParsedLine.checked = LineEnd
         /\ ParsedLine.status = "ok" =>
              \/ /\ Unit(LineEnd) = "CR" /\ LineEnd + 1 < m_read_idx /\ Unit(LineEnd + 1) = "LF"
                 /\ ParsedLine.checked = LineEnd + 2
              \/ /\ Unit(LineEnd) = "LF" /\ LineEnd > 1 /\ LineEnd < m_read_idx
                 /\ Unit(LineEnd - 1) = "CR" /\ ParsedLine.checked = LineEnd + 1
<1> DEFINE i == LineEnd
           line(status, checked) == [status |-> status, checked |-> checked]
<1>0. /\ m_checked_idx \in Nat /\ m_read_idx \in Nat /\ i \in m_checked_idx..m_read_idx
      /\ i < m_read_idx => Unit(i) \in {"CR", "LF"}
  BY ReadTypes, EndOfLine
<1>1. ParsedLine = CASE i = m_read_idx -> line("open", i)
                     [] i < m_read_idx /\ Unit(i) = "CR" ->
                          IF i + 1 = m_read_idx THEN line("open", i)
                          ELSE IF Unit(i + 1) = "LF" THEN line("ok", i + 2) ELSE line("bad", i)
                     [] i < m_read_idx /\ Unit(i) = "LF" ->
                          IF i > 1 /\ Unit(i - 1) = "CR" THEN line("ok", i + 1) ELSE line("bad", i)
  BY DEF ParsedLine
<1> HIDE DEF i
<1>2. CASE i = m_read_idx
  <2>1. ~(i < m_read_idx)
    BY <1>0, <1>2
  <2>2. ParsedLine = line("open", i)
    BY <1>1, <1>2, <2>1
  <2> QED
    BY <1>0, <2>1, <2>2 DEF i
<1>3. CASE i < m_read_idx /\ Unit(i) = "CR" /\ (i + 1 = m_read_idx \/ Unit(i + 1) # "LF")
  <2>1. ParsedLine = line("open", i) \/ ParsedLine = line("bad", i)
    BY <1>0, <1>1, <1>3
  <2> QED
    BY <1>0, <2>1 DEF i
<1>4. CASE i < m_read_idx /\ Unit(i) = "CR" /\ i + 1 # m_read_idx /\ Unit(i + 1) = "LF"
  <2>1. ParsedLine = line("ok", i + 2)
    BY <1>0, <1>1, <1>4
  <2>2. i + 2 \in m_checked_idx..m_read_idx /\ i + 1 < m_read_idx
    BY <1>0, <1>4
  <2> QED
    BY <1>4, <2>1, <2>2 DEF i
<1>5. CASE i < m_read_idx /\ Unit(i) = "LF" /\ ~(i > 1 /\ Unit(i - 1) = "CR")
  <2>1. ParsedLine = line("bad", i)
    BY <1>0, <1>1, <1>5
  <2> QED
    BY <1>0, <2>1 DEF i
<1>6. CASE i < m_read_idx /\ Unit(i) = "LF" /\ i > 1 /\ Unit(i - 1) = "CR"
  <2>1. ParsedLine = line("ok", i + 1)
    BY <1>0, <1>1, <1>6
  <2>2. i + 1 \in m_checked_idx..m_read_idx
    BY <1>0, <1>6
  <2> QED
    BY <1>6, <2>1, <2>2 DEF i
<1>7. i = m_read_idx \/ (i < m_read_idx /\ Unit(i) \in {"CR", "LF"})
  BY <1>0
<1> QED
  BY <1>2, <1>3, <1>4, <1>5, <1>6, <1>7

\* A line that begins with none of its ends has a text.
LEMMA TextKnown ==
  ASSUME RequestTypeOK, NEW k \in 0..(Size - 1), Asking
  PROVE  Unit(k) \in Sendable
<1>1. request \in Requests /\ Size = Len(Wire(request)) /\ Wire(request) \in Seq(Sendable)
  BY WireLayout DEF RequestTypeOK, Asking, Size
<1>2. Len(Wire(request)) \in Nat
  BY <1>1
<1>3. k + 1 \in 1..Len(Wire(request))
  BY <1>1, <1>2
<1> DEFINE w == Wire(request)
<1>4. w \in Seq(Sendable) /\ k + 1 \in 1..Len(w)
  BY <1>1, <1>3
<1> HIDE DEF w
<1>5. w[k + 1] \in Sendable
  BY <1>4
<1> QED
  BY <1>5 DEF Unit, w

LEMMA SameRequest ==
  ASSUME request' = request PROVE Size' = Size /\ Asking' = Asking
  BY DEF Size, Asking

LEMMA ConnInit == Init => ConnInv
<1> SUFFICES ASSUME Init PROVE ConnInv
  OBVIOUS
<1>1. request = NoRequest /\ arrived = 0 /\ Size = 0 /\ pc = "wait" /\ answer = "none" /\ m_read_idx = 0
      /\ json = NoJson /\ edge \in BOOLEAN /\ Fresh
  BY DEF Init, RequestInit, Size, Asking
<1>2. RequestTypeOK
  <2>1. 0 \in 0..0 /\ 0 <= BufferSize /\ 0 \in (-1)..(MaxBody + 1)
    BY Numbers
  <2> QED
    BY <1>1, <2>1 DEF RequestTypeOK, Fresh
<1> QED
  BY <1>1, <1>2 DEF ConnInv, Steps

\* A step of the response, or of do_request, leaves what was read alone.
LEMMA ReadKept ==
  ASSUME RequestTypeOK, UNCHANGED <<clientVars, m_read_idx, parserVars>>,
         answer' \in {"none", "400", "404", "json"}
  PROVE  RequestTypeOK'
<1>1. Size' = Size
  BY SameRequest
<1> QED
  BY <1>1 DEF RequestTypeOK

LEMMA DoRequestKnown == ASSUME RequestTypeOK PROVE DoRequest \in {"400", "404", "json"}
<1>1. m_content_length \in Int
  BY Numbers DEF RequestTypeOK
<1>2. m_target # "infer" \/ (m_target = "infer" /\ m_content_length <= 0) \/ (m_target = "infer" /\ ~(m_content_length <= 0))
  OBVIOUS
<1> QED
  BY <1>2 DEF DoRequest

\* One that has parsed a line.
LEMMA LineTaken ==
  ASSUME RequestTypeOK, NEW state, LineOk(state)
  PROVE  /\ m_checked_idx' \in 0..m_read_idx /\ m_start_line' = m_checked_idx'
         /\ m_checked_idx' \in Nat
<1>1. ParsedLine.checked \in m_checked_idx..m_read_idx
  BY LineParsed
<1> QED
  BY <1>1, ReadTypes DEF LineOk

LEMMA ConnStep == ASSUME ConnInv, Next PROVE ConnInv'
<1> USE DEF ConnInv
<1>0. RequestTypeOK /\ pc \in Steps /\ answer \in {"none", "400", "404", "json"}
  BY DEF RequestTypeOK
<1>1. CASE NextRequest
  <2>1. /\ ~Asking /\ pc = "wait" /\ request' \in Requests
        /\ UNCHANGED <<edge, arrived, pc, answer, m_read_idx, parserVars, json>>
    BY <1>1 DEF NextRequest, Ask
  <2>2. arrived = 0 /\ m_read_idx = 0 /\ m_checked_idx = 0 /\ m_start_line = 0
    <3>1. Size = 0
      BY <2>1 DEF Size
    <3> QED
      BY <1>0, <3>1, ReadTypes
  <2>3. request' # NoRequest
    BY <2>1, IsRequest
  <2>4. Size' \in Nat
    BY <2>1, <2>3, SizeType DEF Size, Asking
  <2>5. RequestTypeOK'
    BY <1>0, <2>1, <2>2, <2>4 DEF RequestTypeOK
  <2> QED
    BY <2>1, <2>5
<1>2. CASE Reading
  <2>0. Asking
    <3>1. CASE ~Asking
      <4>1. Size = 0 /\ pc = "wait"
        BY <3>1, <1>2 DEF Size, Reading, Arrive, ReadOnce, ProcessRead, LineNotOk, ParseRequestLine,
                          ParseHeader, ParseBlankLine, ParseContent, LineOk
      <4>2. arrived = 0 /\ m_read_idx = 0
        BY <1>0, <4>1, ReadTypes
      <4>3. ~(arrived < Size) /\ ~(Unread > 0)
        BY <4>1, <4>2 DEF Unread
      <4> QED
        BY <1>2, <4>1, <4>3 DEF Reading, Arrive, ReadOnce, ProcessRead, LineNotOk, ParseRequestLine,
                          ParseHeader, ParseBlankLine, ParseContent, LineOk
    <3> QED
      BY <3>1
  <2>1. UNCHANGED <<edge, request, json>> /\ Size' = Size /\ Asking' = Asking
    BY <1>2, SameRequest DEF Reading, Arrive, ReadOnce, ProcessRead, LineNotOk, ParseRequestLine,
                          ParseHeader, ParseBlankLine, ParseContent, LineOk
  <2>2. /\ Size \in Nat /\ arrived \in Nat /\ m_read_idx \in Nat /\ m_checked_idx \in Nat
        /\ m_start_line \in Nat /\ m_content_length \in Int
        /\ arrived <= Size /\ m_read_idx <= arrived /\ m_checked_idx <= m_read_idx
        /\ m_start_line <= m_checked_idx /\ request \in Requests
        /\ m_content_length \in (-1)..(MaxBody + 1) /\ m_read_idx <= BufferSize
    BY <1>0, <2>0, ReadTypes DEF RequestTypeOK
  <2>3. CASE Arrive
    <3>1. arrived' = arrived + 1 /\ arrived < Size /\ UNCHANGED <<pc, answer, m_read_idx, parserVars>>
      BY <2>3 DEF Arrive
    <3>2. RequestTypeOK'
      BY <1>0, <2>1, <2>2, <3>1 DEF RequestTypeOK
    <3> QED
      BY <2>1, <3>1, <3>2
  <2>4. CASE ReadOnce
    <3>1. /\ pc = "wait" /\ pc' \in {"closed", "parse"}
          /\ m_read_idx' = m_read_idx + (IF Unread < Room THEN Unread ELSE Room)
          /\ UNCHANGED <<arrived, answer, parserVars>>
      BY <2>4 DEF ReadOnce
    <3>2. /\ Unread = arrived - m_read_idx /\ Room = BufferSize - m_read_idx
      BY DEF Unread, Room
    <3>3. m_read_idx' \in 0..arrived /\ m_read_idx' <= BufferSize /\ m_read_idx' >= m_read_idx
      BY <2>2, <3>1, <3>2, Numbers
    <3>4. RequestTypeOK'
      BY <1>0, <2>1, <2>2, <3>1, <3>3 DEF RequestTypeOK
    <3> QED
      BY <2>0, <2>1, <3>1, <3>4 DEF Steps
  <2>5. CASE LineNotOk
    <3>1. /\ pc = "parse" /\ pc' = "wait" /\ m_checked_idx' = ParsedLine.checked
          /\ UNCHANGED <<arrived, answer, m_read_idx, m_start_line, m_check_state, m_target, m_linger,
                         m_content_length>>
      BY <2>5 DEF LineNotOk
    <3>2. m_checked_idx' \in m_checked_idx..m_read_idx
      BY <1>0, <3>1, LineParsed
    <3>3. RequestTypeOK'
      BY <1>0, <2>1, <2>2, <3>1, <3>2 DEF RequestTypeOK
    <3> QED
      BY <2>1, <3>1, <3>3 DEF Steps
  <2>6. CASE ParseRequestLine
    <3>1. /\ pc = "parse"
          /\ \/ pc' = "answer" /\ answer' = "400" /\ UNCHANGED <<m_check_state, m_target>>
             \/ UNCHANGED <<pc, answer>> /\ m_check_state' = "header" /\ m_target' \in {"infer", "other"}
          /\ UNCHANGED <<arrived, m_read_idx, m_linger, m_content_length>>
      BY <2>6 DEF ParseRequestLine, LineOk, Answers, GoesOn
    <3>2. m_checked_idx' \in 0..m_read_idx /\ m_start_line' = m_checked_idx' /\ m_checked_idx' \in Nat
      BY <1>0, <2>6, LineTaken DEF ParseRequestLine
    <3>3. RequestTypeOK'
      BY <1>0, <2>1, <2>2, <3>1, <3>2 DEF RequestTypeOK
    <3> QED
      BY <2>0, <2>1, <3>1, <3>3 DEF Steps
  <2>7. CASE ParseHeader
    <3>1. /\ pc = "parse" /\ m_linger' \in BOOLEAN
          /\ m_content_length' = IF Text = "length" THEN request.length ELSE m_content_length
          /\ UNCHANGED <<arrived, pc, answer, m_read_idx, m_check_state, m_target>>
      BY <2>7 DEF ParseHeader, LineOk, GoesOn
    <3>2. m_checked_idx' \in 0..m_read_idx /\ m_start_line' = m_checked_idx' /\ m_checked_idx' \in Nat
      BY <1>0, <2>7, LineTaken DEF ParseHeader
    <3>3. m_content_length' \in (-1)..(MaxBody + 1)
      BY <2>2, <3>1, RequestType
    <3>4. RequestTypeOK'
      BY <1>0, <2>1, <2>2, <3>1, <3>2, <3>3 DEF RequestTypeOK
    <3> QED
      BY <2>1, <3>1, <3>4 DEF Steps
  <2>8. CASE ParseBlankLine
    <3>1. /\ pc = "parse"
          /\ \/ pc' = "answer" /\ answer' = DoRequest /\ UNCHANGED m_check_state
             \/ UNCHANGED <<pc, answer>> /\ m_check_state' = "content"
          /\ UNCHANGED <<arrived, m_read_idx, m_target, m_linger, m_content_length>>
      BY <2>8 DEF ParseBlankLine, LineOk, Answers, GoesOn
    <3>2. m_checked_idx' \in 0..m_read_idx /\ m_start_line' = m_checked_idx' /\ m_checked_idx' \in Nat
      BY <1>0, <2>8, LineTaken DEF ParseBlankLine
    <3>3. DoRequest \in {"400", "404", "json"}
      BY <1>0, DoRequestKnown
    <3>4. RequestTypeOK'
      BY <1>0, <2>1, <2>2, <3>1, <3>2, <3>3 DEF RequestTypeOK
    <3> QED
      BY <2>0, <2>1, <3>1, <3>3, <3>4 DEF Steps
  <2>9. CASE ParseContent
    <3>1. /\ pc = "parse" /\ m_start_line' = m_checked_idx /\ UNCHANGED m_checked_idx
          /\ \/ pc' = "answer" /\ answer' = DoRequest
             \/ pc' = "wait" /\ UNCHANGED answer
          /\ UNCHANGED <<arrived, m_read_idx, m_check_state, m_target, m_linger, m_content_length>>
      BY <2>9 DEF ParseContent, Answers, BodyLeftAlone
    <3>2. DoRequest \in {"400", "404", "json"}
      BY <1>0, DoRequestKnown
    <3>3. RequestTypeOK'
      BY <1>0, <2>1, <2>2, <3>1, <3>2 DEF RequestTypeOK
    <3> QED
      BY <2>0, <2>1, <3>1, <3>2, <3>3 DEF Steps
  <2> QED
    BY <1>2, <2>3, <2>4, <2>5, <2>6, <2>7, <2>8, <2>9 DEF Reading, ProcessRead
<1>3. CASE NewTask
  <2>1. /\ pc = "answer" /\ answer = "json" /\ pc' = "task" /\ json' \in Bodies
        /\ UNCHANGED <<clientVars, answer, m_read_idx, parserVars>>
    BY <1>3 DEF NewTask
  <2>2. json' # NoJson
    BY <2>1 DEF Bodies, NoJson
  <2>3. RequestTypeOK' /\ Asking' = Asking
    BY <1>0, <2>1, ReadKept, SameRequest
  <2> QED
    BY <2>1, <2>2, <2>3 DEF Steps
<1>4. CASE DoRequestEnds \/ Respond \/ Build
  <2>1. /\ UNCHANGED <<clientVars, answer, m_read_idx, parserVars>>
        /\ answer \in {"400", "404", "json"} /\ Asking
        /\ pc' \in {"respond", "build", "write"} /\ json' = NoJson
    <3>1. CASE DoRequestEnds
      BY <3>1 DEF DoRequestEnds
    <3>2. CASE Respond
      BY <3>2 DEF Respond
    <3>3. CASE Build
      BY <3>3 DEF Build
    <3> QED
      BY <1>4, <3>1, <3>2, <3>3
  <2>2. RequestTypeOK' /\ Asking' = Asking
    BY <1>0, <2>1, ReadKept, SameRequest
  <2> QED
    BY <2>1, <2>2 DEF Steps
<1>5. CASE WriteLast
  <2>1. pc = "write" /\ UNCHANGED <<edge, json>>
    BY <1>5 DEF WriteLast
  <2>2. CASE m_linger
    <3>1. /\ pc' = "wait" /\ answer' = "none" /\ request' = NoRequest /\ arrived' = 0
          /\ m_read_idx' = 0 /\ Renewed
      BY <1>5, <2>2 DEF WriteLast
    <3>2. Size' = 0
      BY <3>1 DEF Size, Asking
    <3>3. RequestTypeOK'
      <4>1. 0 \in 0..0 /\ 0 <= BufferSize /\ 0 \in (-1)..(MaxBody + 1)
        BY Numbers
      <4> QED
        BY <1>0, <2>1, <3>1, <3>2, <4>1 DEF RequestTypeOK, Renewed
    <3> QED
      BY <2>1, <3>1, <3>3 DEF Steps
  <2>3. CASE ~m_linger
    <3>1. pc' = "closed" /\ UNCHANGED <<request, arrived, answer, m_read_idx, parserVars>>
      BY <1>5, <2>3 DEF WriteLast
    <3>2. RequestTypeOK'
      BY <1>0, <2>1, <3>1, ReadKept
    <3> QED
      BY <2>1, <3>1, <3>2 DEF Steps
  <2> QED
    BY <2>2, <2>3
<1>6. CASE WriteFails \/ \E n \in PartSizes : WritePart(n)
  <2>1. /\ UNCHANGED <<clientVars, answer, m_read_idx, parserVars, json>>
        /\ pc = "write" /\ pc' \in {"lost", "write"}
    BY <1>6 DEF WriteFails, WritePart
  <2>2. RequestTypeOK' /\ Asking' = Asking
    BY <1>0, <2>1, ReadKept, SameRequest
  <2> QED
    BY <2>1, <2>2 DEF Steps
<1> QED
  BY <1>1, <1>2, <1>3, <1>4, <1>5, <1>6 DEF Next, Answering

LEMMA ConnUnchanged == ASSUME ConnInv, UNCHANGED allVars PROVE ConnInv'
<1>1. RequestTypeOK' /\ Asking' = Asking
  <2>1. answer' \in {"none", "400", "404", "json"}
    BY DEF ConnInv, RequestTypeOK
  <2> QED
    BY <2>1, ReadKept, SameRequest DEF ConnInv
<1> QED
  BY <1>1 DEF ConnInv

LEMMA ConnAlways == Spec => []ConnInv
<1>1. ConnInv /\ [Next]_allVars => ConnInv'
  BY ConnStep, ConnUnchanged
<1> QED
  BY <1>1, ConnInit, PTL DEF Spec

-----------------------------------------------------------------------------
(* No request that fits is cut off *)

LEMMA ReadToTheEnd == ASSUME ConnInv, ReadOnce PROVE NotCutOff'
<1>1. /\ Size \in Nat /\ arrived \in Nat /\ m_read_idx \in Nat /\ arrived <= Size /\ m_read_idx <= arrived
      /\ m_read_idx <= BufferSize
  BY ReadTypes DEF ConnInv, RequestTypeOK
<1>2. Unread > 0 /\ UNCHANGED <<edge, request>> /\ (pc' = "closed" => ReadFails)
  BY DEF ReadOnce
<1>3. Size' = Size /\ edge \in BOOLEAN
  BY <1>2, SameRequest DEF ConnInv, RequestTypeOK
<1>4. Unread = arrived - m_read_idx /\ Room = BufferSize - m_read_idx
  BY DEF Unread, Room
<1>5. CASE ~ReadFails
  BY <1>2, <1>5 DEF NotCutOff
<1>6. CASE Room <= 0
  <2>1. Size > BufferSize
    BY <1>1, <1>2, <1>4, <1>6, Numbers
  <2>2. \A n \in Nat : n > BufferSize => n + (IF edge' THEN 1 ELSE 0) > BufferSize
    BY Numbers
  <2> QED
    BY <1>1, <1>3, <2>1, <2>2 DEF NotCutOff
<1>7. CASE edge /\ Unread >= Room
  <2>1. Size + 1 > BufferSize
    BY <1>1, <1>4, <1>7, Numbers
  <2>2. edge'
    BY <1>2, <1>7
  <2> QED
    BY <1>3, <2>1, <2>2 DEF NotCutOff
<1> QED
  BY <1>5, <1>6, <1>7 DEF ReadFails

LEMMA CutOffStep == ASSUME ConnInv, NotCutOff, [Next]_allVars PROVE NotCutOff'
<1>1. CASE pc = "closed"
  <2>1. UNCHANGED allVars
    BY <1>1 DEF Next, NextRequest, Ask, Reading, Arrive, ReadOnce, ProcessRead, LineNotOk, ParseRequestLine,
       LineOk, ParseHeader, ParseBlankLine, ParseContent, Answering, NewTask, DoRequestEnds, Respond,
       Build, WriteLast, WritePart, WriteFails
  <2>2. Size' = Size /\ UNCHANGED <<edge, pc, answer>>
    BY <2>1, SameRequest
  <2> QED
    BY <2>2 DEF NotCutOff
<1>2. CASE pc # "closed" /\ ReadOnce
  BY <1>2, ReadToTheEnd
<1>3. CASE pc # "closed" /\ WriteLast
  <2>1. answer \in {"400", "404", "json"} /\ (pc' = "closed" => answer' = answer)
    BY <1>3 DEF WriteLast, ConnInv
  <2> QED
    BY <2>1 DEF NotCutOff
<1>4. CASE pc # "closed" /\ ~ReadOnce /\ ~WriteLast
  <2>1. pc' # "closed"
    BY <1>4 DEF Next, NextRequest, Ask, Reading, Arrive, ProcessRead, LineNotOk, ParseRequestLine,
       LineOk, ParseHeader, ParseBlankLine, ParseContent, Answering, NewTask, DoRequestEnds, Respond,
       Build, WritePart, WriteFails, Answers, GoesOn
  <2> QED
    BY <2>1 DEF NotCutOff
<1> QED
  BY <1>1, <1>2, <1>3, <1>4

\* No connection is closed in the middle of a request that fits the buffer (http_conn::read_once).
THEOREM FittingIsNotCutOff == Spec => []NotCutOff
<1>1. Init => NotCutOff
  BY DEF Init, RequestInit, NotCutOff
<1>2. ConnInv /\ NotCutOff /\ [Next]_allVars => NotCutOff'
  BY CutOffStep
<1> QED
  BY <1>1, <1>2, ConnAlways, PTL DEF Spec

-----------------------------------------------------------------------------
(* However a request is cut, it is answered as a whole *)

Parsable == request.eol = <<"CR", "LF">> /\ request.line \in {"infer", "other"}
KeptOpen(n) == \E i \in 1..n : request.headers[i] = "keep-alive"
Told(n) == IF \E i \in 1..n : request.headers[i] = "length" THEN request.length ELSE 0

\* Where the parser is: in the request line, which it does not leave if that has a bad end, ...
InLine ==
  m_start_line = 0 /\ m_checked_idx \in {0, 1}
  /\ m_target = "none" /\ m_linger = FALSE /\ m_content_length = 0

\* ... behind the h-th header, whose line may have been looked at up to its CR, ...
BehindHeader(h) ==
  /\ m_start_line = 3 + 3 * h
  /\ m_checked_idx = m_start_line
     \/ (h < Len(request.headers) /\ m_checked_idx = m_start_line + 1)
  /\ m_linger <=> KeptOpen(h)
  /\ m_content_length = Told(h)

InHeaders ==
  /\ Asking /\ Parsable /\ m_target = request.line
  /\ \E h \in 0..Len(request.headers) : BehindHeader(h)

\* ... or at the first unit of the body.
AtBody ==
  /\ m_start_line = 5 + 3 * Len(request.headers) /\ m_checked_idx = m_start_line
  /\ m_linger <=> KeptOpen(Len(request.headers))
  /\ m_content_length = request.length

InContent == Asking /\ Parsable /\ m_target = request.line /\ request.length # 0 /\ AtBody

ParseInv ==
  /\ pc \in {"wait", "parse"} => /\ m_check_state = "line" => InLine
                                 /\ m_check_state = "header" => InHeaders
                                 /\ m_check_state = "content" => InContent
  /\ ReadAsAWhole

\* The units around the line ends.
LEMMA UnitsKnown ==
  ASSUME request \in Requests
  PROVE  /\ Unit(0) = request.line
         /\ request.eol = <<"LF">> => Unit(1) = "LF"
         /\ request.eol = <<"CR">> => Unit(1) = "CR" /\ Unit(2) = "CR"
         /\ request.eol = <<"CR", "LF">> => Unit(1) = "CR" /\ Unit(2) = "LF"
<1> DEFINE r == request
           w == Wire(request)
<1>1. /\ r.eol \in {<<"CR", "LF">>, <<"CR">>, <<"LF">>}
      /\ r.eol # <<"CR", "LF">> => r.headers = << >>
  BY RequestType
<1>2. /\ w[1] = r.line
      /\ \A i \in 1..Len(r.eol) : w[1 + i] = r.eol[i]
      /\ w[(1 + Len(r.eol) + 3 * Len(r.headers)) + 1] = "CR"
  BY WireLayout DEF Head3
<1>3. Unit(0) = w[1] /\ Unit(1) = w[2] /\ Unit(2) = w[3]
  BY DEF Unit
<1> HIDE DEF r, w
<1>4. CASE r.eol = <<"LF">>
  BY <1>2, <1>3, <1>4 DEF r
<1>5. CASE r.eol = <<"CR">>
  <2>1. Len(r.eol) = 1 /\ r.eol[1] = "CR" /\ Len(r.headers) = 0
    BY <1>1, <1>5
  <2>2. w[1 + 1] = "CR" /\ w[(1 + 1 + 3 * 0) + 1] = "CR"
    BY <1>2, <2>1
  <2> QED
    BY <1>2, <1>3, <1>5, <2>2 DEF r
<1>6. CASE r.eol = <<"CR", "LF">>
  <2>1. Len(r.eol) = 2 /\ r.eol[1] = "CR" /\ r.eol[2] = "LF"
    BY <1>6
  <2>2. w[1 + 1] = "CR" /\ w[1 + 2] = "LF"
    BY <1>2, <2>1
  <2> QED
    BY <1>2, <1>3, <1>6, <2>2 DEF r
<1> QED
  BY <1>1, <1>4, <1>5, <1>6

LEMMA HeadUnitsKnown ==
  ASSUME request \in Requests, request.eol = <<"CR", "LF">>, NEW H, H = Len(request.headers)
  PROVE  /\ H \in Nat
         /\ \A h \in 0..(H - 1) : /\ Unit(3 + 3 * h) = request.headers[h + 1]
                                  /\ Unit(4 + 3 * h) = "CR" /\ Unit(5 + 3 * h) = "LF"
         /\ Unit(3 + 3 * H) = "CR" /\ Unit(4 + 3 * H) = "LF"
         /\ Size = 5 + 3 * H + Len(request.body)
         /\ \A i \in 1..Len(request.body) : Wire(request)[5 + 3 * H + i] = request.body[i]
<1> DEFINE r == request
           w == Wire(request)
           n == Len(request.body)
<1>1. H \in Nat /\ n \in Nat /\ Len(r.eol) = 2
  BY RequestType
<1>2. /\ Len(w) = 1 + 2 + 3 * H + 2 + n
      /\ \A h \in 1..H : /\ w[1 + 2 + 3 * h - 2] = r.headers[h]
                         /\ w[1 + 2 + 3 * h - 1] = "CR" /\ w[1 + 2 + 3 * h] = "LF"
      /\ w[1 + 2 + 3 * H + 1] = "CR" /\ w[1 + 2 + 3 * H + 2] = "LF"
      /\ \A i \in 1..n : w[1 + 2 + 3 * H + 2 + i] = r.body[i]
  BY <1>1, WireLayout DEF Head3
<1>3. \A i : Unit(i) = w[i + 1]
  BY DEF Unit
<1>4. Size = Len(w)
  BY IsRequest DEF Size, Asking
<1> HIDE DEF r, w, n
<1>5. ASSUME NEW h \in 0..(H - 1)
      PROVE  Unit(3 + 3 * h) = r.headers[h + 1] /\ Unit(4 + 3 * h) = "CR" /\ Unit(5 + 3 * h) = "LF"
  <2>1. h + 1 \in 1..H
    BY <1>1
  <2>2. /\ (3 + 3 * h) + 1 = 1 + 2 + 3 * (h + 1) - 2
        /\ (4 + 3 * h) + 1 = 1 + 2 + 3 * (h + 1) - 1
        /\ (5 + 3 * h) + 1 = 1 + 2 + 3 * (h + 1)
    BY <1>1
  <2> QED
    BY <1>2, <1>3, <2>1, <2>2
<1>6. Unit(3 + 3 * H) = "CR" /\ Unit(4 + 3 * H) = "LF"
  <2>1. (3 + 3 * H) + 1 = 1 + 2 + 3 * H + 1 /\ (4 + 3 * H) + 1 = 1 + 2 + 3 * H + 2
    BY <1>1
  <2> QED
    BY <1>2, <1>3, <2>1
<1>7. \A i \in 1..n : w[5 + 3 * H + i] = r.body[i]
  <2>1. \A i \in 1..n : 5 + 3 * H + i = 1 + 2 + 3 * H + 2 + i
    BY <1>1
  <2> QED
    BY <1>2, <2>1
<1>8. Size = 5 + 3 * H + n
  BY <1>1, <1>2, <1>4
<1> QED
  BY <1>1, <1>5, <1>6, <1>7, <1>8 DEF r, w, n

\* parse_line stops at a CR or LF if it has been read.
LEMMA EndsAt ==
  ASSUME RequestTypeOK, NEW k \in Nat, m_checked_idx <= k, Unit(k) \in {"CR", "LF"},
         \A i \in m_checked_idx..(k - 1) : Unit(i) \notin {"CR", "LF"}
  PROVE  LineEnd = IF k < m_read_idx THEN k ELSE m_read_idx
<1> DEFINE e == LineEnd
<1>1. /\ m_checked_idx \in Nat /\ m_read_idx \in Nat /\ e \in m_checked_idx..m_read_idx
      /\ e < m_read_idx => Unit(e) \in {"CR", "LF"}
      /\ \A i \in m_checked_idx..(e - 1) : Unit(i) \notin {"CR", "LF"}
  BY ReadTypes, EndOfLine
<1> HIDE DEF e
<1>2. ~(e < m_read_idx /\ e < k)
  <2> SUFFICES ASSUME e < m_read_idx, e < k PROVE FALSE
    OBVIOUS
  <2>1. e \in m_checked_idx..(k - 1)
    BY <1>1
  <2> QED
    BY <1>1, <2>1
<1>3. ~(k < e)
  <2> SUFFICES ASSUME k < e PROVE FALSE
    OBVIOUS
  <2>1. k \in m_checked_idx..(e - 1)
    BY <1>1
  <2> QED
    BY <1>1, <2>1
<1>4. e = IF k < m_read_idx THEN k ELSE m_read_idx
  BY <1>1, <1>2, <1>3
<1> QED
  BY <1>4 DEF e

\* The request line.
LEMMA LineStep ==
  ASSUME RequestTypeOK, Asking, InLine
  PROVE  /\ LineEnd \in {0, 1}
         /\ ParsedLine.status = "ok" =>
              request.eol = <<"CR", "LF">> /\ ParsedLine.checked = 3 /\ Text = request.line
<1>1. /\ request \in Requests /\ request.line \in {"infer", "other", "garbage"}
      /\ request.eol \in {<<"CR", "LF">>, <<"CR">>, <<"LF">>}
  BY RequestType, ReadTypes
<1>2. Unit(0) = request.line /\ Unit(1) \in {"CR", "LF"}
  BY <1>1, UnitsKnown
<1>3. m_read_idx \in Nat /\ m_checked_idx \in {0, 1}
  BY ReadTypes DEF InLine
<1>4. LineEnd = IF 1 < m_read_idx THEN 1 ELSE m_read_idx
  <2>1. \A i \in m_checked_idx..(1 - 1) : i = 0 /\ Unit(i) \notin {"CR", "LF"}
    BY <1>1, <1>2, <1>3
  <2> QED
    BY <1>2, <1>3, <2>1, EndsAt
<1>5. LineEnd \in {0, 1}
  BY <1>3, <1>4
<1>6. ASSUME ParsedLine.status = "ok"
      PROVE  request.eol = <<"CR", "LF">> /\ ParsedLine.checked = 3 /\ Text = request.line
  <2>1. Unit(LineEnd) = "CR" /\ Unit(LineEnd + 1) = "LF" /\ ParsedLine.checked = LineEnd + 2
    BY <1>5, <1>6, LineParsed
  <2>2. LineEnd = 1
    BY <1>1, <1>2, <1>5, <2>1
  <2>3. Unit(1) = "CR" /\ Unit(2) = "LF" /\ ParsedLine.checked = 3
    BY <2>1, <2>2
  <2>4. request.eol = <<"CR", "LF">>
    BY <1>1, <2>3, UnitsKnown
  <2>5. Text = request.line
    BY <1>1, <1>2 DEF Text, InLine
  <2> QED
    BY <2>3, <2>4, <2>5
<1> QED
  BY <1>5, <1>6

\* A header, and the blank line behind the last one.
LEMMA HeaderStep ==
  ASSUME RequestTypeOK, Asking, Parsable, NEW H, H = Len(request.headers),
         NEW h \in 0..H, BehindHeader(h)
  PROVE  /\ h < H => /\ LineEnd = m_start_line \/ LineEnd = m_start_line + 1
                     /\ Text = request.headers[h + 1] /\ Text \in {"length", "keep-alive"}
         /\ h = H => LineEnd = m_start_line /\ Text = ""
         /\ ParsedLine.status = "ok" =>
              ParsedLine.checked = IF h < H THEN 3 + 3 * (h + 1) ELSE 5 + 3 * H
<1>1. request \in Requests /\ request.eol = <<"CR", "LF">>
  BY ReadTypes DEF Parsable
<1>2. /\ H \in Nat
      /\ \A i \in 0..(H - 1) : /\ Unit(3 + 3 * i) = request.headers[i + 1]
                               /\ Unit(4 + 3 * i) = "CR" /\ Unit(5 + 3 * i) = "LF"
      /\ Unit(3 + 3 * H) = "CR" /\ Unit(4 + 3 * H) = "LF"
  BY <1>1, HeadUnitsKnown
<1>3. /\ m_start_line = 3 + 3 * h /\ h \in Nat
      /\ m_checked_idx = m_start_line \/ (h < H /\ m_checked_idx = m_start_line + 1)
      /\ m_read_idx \in Nat /\ m_checked_idx <= m_read_idx
  BY <1>2, ReadTypes DEF BehindHeader
<1>4. CASE h < H
  <2>1. h \in 0..(H - 1) /\ h + 1 \in 1..H
    BY <1>2, <1>3, <1>4
  <2>2. /\ Unit(3 + 3 * h) = request.headers[h + 1]
        /\ Unit(4 + 3 * h) = "CR" /\ Unit(5 + 3 * h) = "LF"
    BY <1>2, <2>1
  <2>3. request.headers[h + 1] \in {"length", "keep-alive"}
    <3>1. request.headers \in Seq({"length", "keep-alive"})
      BY <1>1, RequestType
    <3> QED
      BY <2>1, <3>1
  <2>4. Text = request.headers[h + 1]
    BY <1>3, <2>2, <2>3 DEF Text
  <2>5. LineEnd = IF 4 + 3 * h < m_read_idx THEN 4 + 3 * h ELSE m_read_idx
    <3>1. \A i \in m_checked_idx..((4 + 3 * h) - 1) : i = 3 + 3 * h
      BY <1>3
    <3>2. \A i \in m_checked_idx..((4 + 3 * h) - 1) : Unit(i) \notin {"CR", "LF"}
      BY <2>2, <2>3, <3>1
    <3>3. 4 + 3 * h \in Nat /\ m_checked_idx <= 4 + 3 * h
      BY <1>3
    <3> QED
      BY <2>2, <3>2, <3>3, EndsAt
  <2>6. LineEnd = m_start_line \/ LineEnd = m_start_line + 1
    BY <1>3, <2>5
  <2>7. ASSUME ParsedLine.status = "ok" PROVE ParsedLine.checked = 3 + 3 * (h + 1)
    <3>1. Unit(LineEnd) # "LF"
      BY <1>3, <2>2, <2>3, <2>6
    <3>2. Unit(LineEnd) = "CR" /\ ParsedLine.checked = LineEnd + 2
      BY <2>7, <3>1, LineParsed
    <3>3. LineEnd = 4 + 3 * h
      BY <1>3, <2>2, <2>3, <2>6, <3>2
    <3> QED
      BY <1>3, <3>2, <3>3
  <2>8. h # H
    BY <1>2, <1>3, <1>4
  <2>9. ParsedLine.status = "ok" =>
          ParsedLine.checked = IF h < H THEN 3 + 3 * (h + 1) ELSE 5 + 3 * H
    <3> DEFINE p == ParsedLine
    <3>1. p.status = "ok" => p.checked = 3 + 3 * (h + 1)
      BY <2>7
    <3> HIDE DEF p
    <3>2. p.status = "ok" => p.checked = IF h < H THEN 3 + 3 * (h + 1) ELSE 5 + 3 * H
      BY <1>4, <3>1
    <3> QED
      BY <3>2 DEF p
  <2> QED
    BY <1>4, <2>3, <2>4, <2>6, <2>8, <2>9
<1>5. CASE h = H
  <2>1. Text = ""
    BY <1>2, <1>3, <1>5 DEF Text
  <2>2. LineEnd = m_start_line
    <3>1. LineEnd = IF 3 + 3 * H < m_read_idx THEN 3 + 3 * H ELSE m_read_idx
      <4>1. 3 + 3 * H \in Nat /\ m_checked_idx <= 3 + 3 * H /\ Unit(3 + 3 * H) \in {"CR", "LF"}
        BY <1>2, <1>3, <1>5
      <4>2. \A i \in m_checked_idx..((3 + 3 * H) - 1) : Unit(i) \notin {"CR", "LF"}
        BY <1>2, <1>3, <1>5
      <4> QED
        BY <4>1, <4>2, EndsAt
    <3> QED
      BY <1>2, <1>3, <1>5, <3>1
  <2>3. ASSUME ParsedLine.status = "ok" PROVE ParsedLine.checked = 5 + 3 * H
    <3>1. Unit(LineEnd) = "CR"
      BY <1>2, <1>3, <1>5, <2>2
    <3>2. ParsedLine.checked = LineEnd + 2
      BY <2>3, <3>1, LineParsed
    <3> QED
      BY <1>2, <1>3, <1>5, <2>2, <3>2
  <2>4. ~(h < H)
    BY <1>2, <1>5
  <2>5. ParsedLine.status = "ok" =>
          ParsedLine.checked = IF h < H THEN 3 + 3 * (h + 1) ELSE 5 + 3 * H
    <3> DEFINE p == ParsedLine
    <3>1. p.status = "ok" => p.checked = 5 + 3 * H
      BY <2>3
    <3> HIDE DEF p
    <3>2. p.status = "ok" => p.checked = IF h < H THEN 3 + 3 * (h + 1) ELSE 5 + 3 * H
      BY <2>4, <3>1
    <3> QED
      BY <3>2 DEF p
  <2> QED
    BY <1>5, <2>1, <2>2, <2>4, <2>5
<1> QED
  <2>1. h < H \/ h = H
    BY <1>2, <1>3
  <2> QED
    BY <1>4, <1>5, <2>1

\* The headers up to one more.
LEMMA OneMoreHeader ==
  ASSUME NEW h \in Nat
  PROVE  /\ KeptOpen(h + 1) <=> KeptOpen(h) \/ request.headers[h + 1] = "keep-alive"
         /\ Told(h + 1) = IF request.headers[h + 1] = "length" THEN request.length ELSE Told(h)
<1>1. \A i : i \in 1..(h + 1) <=> i \in 1..h \/ i = h + 1
  OBVIOUS
<1> QED
  BY <1>1 DEF KeptOpen, Told

LEMMA AllHeaders ==
  ASSUME request \in Requests, NEW H, H = Len(request.headers)
  PROVE  (KeptOpen(H) <=> Has(request, "keep-alive")) /\ Told(H) = request.length
<1>1. /\ DOMAIN request.headers = 1..H
      /\ IF \E i \in DOMAIN request.headers : request.headers[i] = "length"
           THEN TRUE ELSE request.length = 0
  BY RequestType
<1>2. KeptOpen(H) <=> Has(request, "keep-alive")
  BY <1>1 DEF KeptOpen, Has
<1>3. Told(H) = request.length
  BY <1>1 DEF Told
<1> QED
  BY <1>2, <1>3

\* do_request gives the answer that the whole request is to have.
LEMMA AnswerGiven ==
  ASSUME request \in Requests, Parsable, request.length <= Len(request.body),
         m_target = request.line, m_content_length = request.length
  PROVE  DoRequest = Expected(request) /\ (DoRequest = "json" => request.length > 0)
<1>1. request.length \in Int
  BY RequestType, Numbers
<1>2. WellFormed(request) /\ request.line \in {"infer", "other"}
  BY DEF WellFormed, Parsable
<1>3. CASE request.line = "other"
  BY <1>2, <1>3 DEF DoRequest, Expected
<1>4. CASE request.line = "infer" /\ request.length <= 0
  BY <1>1, <1>2, <1>4 DEF DoRequest, Expected
<1>5. CASE request.line = "infer" /\ ~(request.length <= 0)
  BY <1>1, <1>2, <1>5 DEF DoRequest, Expected
<1> QED
  BY <1>2, <1>3, <1>4, <1>5

LEMMA SameHeaders ==
  ASSUME request' = request
  PROVE  /\ Parsable' <=> Parsable
         /\ \A n : (KeptOpen(n)' <=> KeptOpen(n)) /\ Told(n)' = Told(n)
  BY DEF Parsable, KeptOpen, Told

LEMMA RequestLineParsed == ASSUME ConnInv, ParseInv, ParseRequestLine PROVE ParseInv'
<1>1. /\ RequestTypeOK /\ Asking /\ InLine /\ request \in Requests
      /\ ParsedLine.status = "ok" /\ m_checked_idx' = ParsedLine.checked /\ m_start_line' = ParsedLine.checked
      /\ UNCHANGED <<request, m_read_idx, m_linger, m_content_length>>
  BY ReadTypes DEF ConnInv, ParseInv, ParseRequestLine, LineOk
<1>2. request.eol = <<"CR", "LF">> /\ ParsedLine.checked = 3 /\ Text = request.line
  BY <1>1, LineStep
<1>3. Asking' = Asking /\ (Parsable' <=> Parsable)
      /\ \A n : (KeptOpen(n)' <=> KeptOpen(n)) /\ Told(n)' = Told(n)
  BY <1>1, SameRequest, SameHeaders
<1>4. CASE Text \in {"infer", "other"}
  <2>1. pc' # "answer" /\ m_check_state' = "header" /\ m_target' = request.line
    BY <1>2, <1>4 DEF ParseRequestLine, GoesOn, LineOk
  <2>2. Parsable'
    BY <1>2, <1>3, <1>4 DEF Parsable
  <2>3. BehindHeader(0)'
    <3>1. m_start_line' = 3 + 3 * 0 /\ m_checked_idx' = m_start_line'
      BY <1>1, <1>2
    <3>2. ~KeptOpen(0) /\ Told(0) = 0
      BY DEF KeptOpen, Told
    <3>3. ~KeptOpen(0)' /\ Told(0)' = 0
      BY <1>3, <3>2
    <3>4. m_linger' = FALSE /\ m_content_length' = 0
      BY <1>1 DEF InLine
    <3> QED
      BY <3>1, <3>3, <3>4 DEF BehindHeader
  <2>4. Len(request'.headers) \in Nat
    BY <1>1, RequestType
  <2>5. InHeaders'
    BY <1>1, <1>3, <2>1, <2>2, <2>3, <2>4 DEF InHeaders
  <2> QED
    BY <2>1, <2>5 DEF ParseInv, ReadAsAWhole
<1>5. CASE Text \notin {"infer", "other"}
  <2>1. pc' = "answer" /\ answer' = "400"
    BY <1>5 DEF ParseRequestLine, Answers
  <2>2. request.line = "garbage" /\ request.headers = << >>
    BY <1>1, <1>2, <1>5, RequestType
  <2>3. Expected(request) = "400" /\ ~Has(request, "keep-alive")
    BY <1>2, <2>2 DEF Expected, WellFormed, Has
  <2>4. m_linger' = FALSE
    BY <1>1 DEF InLine
  <2>5. Has(request, "keep-alive")' = FALSE /\ Expected(request)' = "400"
    BY <1>1, <2>3 DEF Expected, WellFormed, Has
  <2>6. ReadAsAWhole'
    BY <2>1, <2>4, <2>5 DEF ReadAsAWhole
  <2> QED
    BY <2>1, <2>6 DEF ParseInv
<1> QED
  BY <1>4, <1>5

LEMMA HeaderParsed == ASSUME ConnInv, ParseInv, ParseHeader PROVE ParseInv'
<1>1. /\ RequestTypeOK /\ Asking /\ InHeaders /\ request \in Requests /\ Parsable /\ m_target = request.line
      /\ ParsedLine.status = "ok" /\ m_checked_idx' = ParsedLine.checked /\ m_start_line' = ParsedLine.checked
      /\ UNCHANGED <<request, pc, m_read_idx, m_check_state, m_target>>
      /\ m_check_state = "header" /\ pc = "parse" /\ m_linger \in BOOLEAN
      /\ Text # "" /\ (m_linger' <=> m_linger \/ Text = "keep-alive")
      /\ m_content_length' = IF Text = "length" THEN request.length ELSE m_content_length
  BY ReadTypes DEF ConnInv, ParseInv, ParseHeader, LineOk, GoesOn, InHeaders, RequestTypeOK
<1> DEFINE H == Len(request.headers)
<1>2. PICK h \in 0..H : BehindHeader(h)
  BY <1>1 DEF InHeaders
<1>3. H \in Nat /\ h \in Nat
  <2>1. H \in Nat
    BY <1>1, RequestType
  <2>2. h \in 0..H
    BY <1>2
  <2> HIDE DEF H
  <2> QED
    BY <2>1, <2>2
<1>4. h < H /\ ParsedLine.checked = 3 + 3 * (h + 1) /\ Text = request.headers[h + 1]
  <2>1. /\ h < H => Text = request.headers[h + 1]
        /\ h = H => Text = ""
        /\ ParsedLine.checked = IF h < H THEN 3 + 3 * (h + 1) ELSE 5 + 3 * H
    BY <1>1, <1>2, HeaderStep
  <2>2. h < H
    <3>1. h < H \/ h = H
      BY <1>2, <1>3
    <3> QED
      BY <1>1, <2>1, <3>1
  <2> QED
    BY <2>1, <2>2
<1>5. Asking' = Asking /\ (Parsable' <=> Parsable)
      /\ \A n : (KeptOpen(n)' <=> KeptOpen(n)) /\ Told(n)' = Told(n)
  BY <1>1, SameRequest, SameHeaders
<1>6. \E k \in 0..H : k = h + 1
  BY <1>3, <1>4
<1>7. PICK k \in 0..H : k = h + 1
  BY <1>6
<1>8. BehindHeader(k)'
  <2>1. m_start_line' = 3 + 3 * k /\ m_checked_idx' = m_start_line'
    BY <1>1, <1>4, <1>7
  <2>2. m_linger' <=> KeptOpen(k)
    BY <1>1, <1>2, <1>3, <1>4, <1>7, OneMoreHeader DEF BehindHeader
  <2>3. m_content_length' = Told(k)
    BY <1>1, <1>2, <1>3, <1>4, <1>7, OneMoreHeader DEF BehindHeader
  <2>4. (m_linger' <=> KeptOpen(k)') /\ m_content_length' = Told(k)'
    BY <1>5, <2>2, <2>3
  <2> QED
    BY <2>1, <2>4 DEF BehindHeader
<1>9. InHeaders'
  <2>1. H' = H
    BY <1>1
  <2> QED
    BY <1>1, <1>5, <1>8, <2>1 DEF InHeaders
<1> QED
  BY <1>1, <1>9 DEF ParseInv, ReadAsAWhole

LEMMA BlankLineParsed == ASSUME ConnInv, ParseInv, ParseBlankLine PROVE ParseInv'
<1>1. /\ RequestTypeOK /\ Asking /\ InHeaders /\ request \in Requests /\ Parsable /\ m_target = request.line
      /\ ParsedLine.status = "ok" /\ m_checked_idx' = ParsedLine.checked /\ m_start_line' = ParsedLine.checked
      /\ UNCHANGED <<request, m_read_idx, m_target, m_linger, m_content_length>>
      /\ m_check_state = "header" /\ pc = "parse" /\ m_linger \in BOOLEAN
      /\ Text = ""
      /\ IF m_content_length # 0
           THEN m_check_state' = "content" /\ UNCHANGED pc
           ELSE pc' = "answer" /\ answer' = DoRequest
  BY ReadTypes DEF ConnInv, ParseInv, ParseBlankLine, LineOk, GoesOn, Answers, InHeaders, RequestTypeOK
<1> DEFINE H == Len(request.headers)
<1>2. PICK h \in 0..H : BehindHeader(h)
  BY <1>1 DEF InHeaders
<1>3. H \in Nat /\ h \in Nat
  <2>1. H \in Nat
    BY <1>1, RequestType
  <2>2. h \in 0..H
    BY <1>2
  <2> HIDE DEF H
  <2> QED
    BY <2>1, <2>2
<1>4. h = H /\ ParsedLine.checked = 5 + 3 * H
  <2>1. /\ h < H => Text \in {"length", "keep-alive"}
        /\ ParsedLine.checked = IF h < H THEN 3 + 3 * (h + 1) ELSE 5 + 3 * H
    BY <1>1, <1>2, HeaderStep
  <2>2. ~(h < H)
    BY <1>1, <2>1
  <2>3. h = H
    BY <1>3, <2>2
  <2> QED
    BY <2>1, <2>2, <2>3
<1>5. Asking' = Asking /\ (Parsable' <=> Parsable)
      /\ \A n : (KeptOpen(n)' <=> KeptOpen(n)) /\ Told(n)' = Told(n)
  BY <1>1, SameRequest, SameHeaders
<1>6. (m_linger <=> KeptOpen(H)) /\ m_content_length = Told(H)
  BY <1>2, <1>4 DEF BehindHeader
<1>7. (KeptOpen(H) <=> Has(request, "keep-alive")) /\ Told(H) = request.length
  BY <1>1, AllHeaders
<1>8. CASE m_content_length # 0
  <2>1. AtBody'
    <3>1. m_start_line' = 5 + 3 * Len(request'.headers) /\ m_checked_idx' = m_start_line'
      BY <1>1, <1>4
    <3>2. m_linger' <=> KeptOpen(H)
      BY <1>1, <1>6
    <3>3. m_linger' <=> KeptOpen(Len(request.headers))'
      BY <1>1, <3>2 DEF KeptOpen
    <3> QED
      BY <1>1, <1>6, <1>7, <3>1, <3>3 DEF AtBody
  <2>2. InContent'
    BY <1>1, <1>5, <1>6, <1>7, <1>8, <2>1 DEF InContent
  <2> QED
    BY <1>1, <1>8, <2>2 DEF ParseInv, ReadAsAWhole
<1>9. CASE m_content_length = 0
  <2>1. request.length = 0 /\ Len(request.body) \in Nat
    BY <1>1, <1>6, <1>7, <1>9, RequestType
  <2>2. DoRequest = Expected(request) /\ DoRequest # "json"
    <3>1. request.length <= Len(request.body)
      BY <2>1
    <3>2. m_content_length = request.length
      BY <1>9, <2>1
    <3>3. DoRequest = Expected(request) /\ (DoRequest = "json" => request.length > 0)
      BY <1>1, <3>1, <3>2, AnswerGiven
    <3>4. ~(request.length > 0)
      BY <2>1
    <3> QED
      BY <3>3, <3>4
  <2>3. m_linger = Has(request, "keep-alive")
    BY <1>1, <1>6, <1>7 DEF Has
  <2>4. Expected(request)' = Expected(request) /\ Has(request, "keep-alive")' = Has(request, "keep-alive")
    BY <1>1 DEF Expected, WellFormed, Has
  <2>5. ReadAsAWhole'
    BY <1>1, <1>9, <2>2, <2>3, <2>4 DEF ReadAsAWhole
  <2> QED
    BY <1>1, <1>9, <2>5 DEF ParseInv
<1> QED
  BY <1>8, <1>9

LEMMA ContentParsed == ASSUME ConnInv, ParseInv, ParseContent PROVE ParseInv'
<1>1. /\ RequestTypeOK /\ Asking /\ InContent /\ request \in Requests /\ Parsable /\ m_target = request.line
      /\ m_start_line' = m_checked_idx /\ m_checked_idx' = m_checked_idx
      /\ UNCHANGED <<request, m_read_idx, m_check_state, m_target, m_linger, m_content_length>>
      /\ m_check_state = "content" /\ pc = "parse" /\ m_linger \in BOOLEAN
      /\ IF ContentComplete THEN pc' = "answer" /\ answer' = DoRequest ELSE pc' = "wait"
  BY ReadTypes DEF ConnInv, ParseInv, ParseContent, Answers, BodyLeftAlone, InContent, RequestTypeOK
<1> DEFINE H == Len(request.headers)
           n == Len(request.body)
<1>2. /\ m_start_line = 5 + 3 * H /\ m_checked_idx = m_start_line
      /\ (m_linger <=> KeptOpen(H)) /\ m_content_length = request.length /\ request.length # 0
  BY <1>1 DEF InContent, AtBody
<1>3. Asking' = Asking /\ (Parsable' <=> Parsable)
      /\ \A k : (KeptOpen(k)' <=> KeptOpen(k)) /\ Told(k)' = Told(k)
  BY <1>1, SameRequest, SameHeaders
<1>4. CASE ~ContentComplete
  <2>1. AtBody'
    BY <1>1, <1>2 DEF AtBody, KeptOpen
  <2>2. InContent'
    BY <1>1, <1>2, <1>3, <2>1 DEF InContent
  <2> QED
    BY <1>1, <1>4, <2>2 DEF ParseInv, ReadAsAWhole
<1>5. CASE ContentComplete
  <2>1. /\ H \in Nat /\ n \in Nat /\ (request.length \in {n, n + 1} \/ request.length = -1)
        /\ request.length \in Int
    BY <1>1, <1>2, RequestType, Numbers
  <2>2. /\ Size = 5 + 3 * H + n
        /\ \A i \in 1..n : Wire(request)[5 + 3 * H + i] = request.body[i]
    BY <1>1, HeadUnitsKnown DEF Parsable
  <2>3. /\ m_read_idx \in Nat /\ m_read_idx <= Size
    BY <1>1, ReadTypes
  <2>4. m_read_idx >= request.length + (5 + 3 * H)
    BY <1>2, <1>5 DEF ContentComplete
  <2>5. request.length <= n /\ (request.length > 0 => request.length = n)
    <3>1. \A a, b, d \in Nat, c \in Int :
            d <= 5 + 3 * a + b /\ (c \in {b, b + 1} \/ c = -1) /\ d >= c + (5 + 3 * a)
              => c <= b /\ (c > 0 => c = b)
      OBVIOUS
    <3> HIDE DEF n, H
    <3> QED
      BY <2>1, <2>2, <2>3, <2>4, <3>1
  <2>6. DoRequest = Expected(request) /\ (DoRequest = "json" => request.length = n)
    BY <1>1, <1>2, <2>5, AnswerGiven
  <2>7. m_linger = Has(request, "keep-alive")
    <3>1. KeptOpen(H) <=> Has(request, "keep-alive")
      BY <1>1, AllHeaders
    <3> QED
      BY <1>1, <1>2, <3>1 DEF Has
  <2>8. m_start_line' + m_content_length' <= m_read_idx'
    BY <1>1, <1>2, <2>1, <2>3, <2>4
  <2>9. ASSUME request.length = n
        PROVE  SubSeq(Wire(request), m_checked_idx + 1, m_checked_idx + m_content_length) = request.body
    <3> DEFINE w == Wire(request)
               b == request.body
               k == m_checked_idx
    <3>1. w \in Seq(Sendable) /\ Len(w) = k + n /\ k \in Nat /\ n = Len(b) /\ m_content_length = n
      <4>1. w \in Seq(Sendable) /\ Len(w) = Size
        BY <1>1, WireLayout DEF Size
      <4>2. k = 5 + 3 * H /\ k \in Nat /\ n \in Nat /\ m_content_length = n
        BY <1>2, <2>1, <2>9
      <4> QED
        BY <2>2, <4>1, <4>2
    <3>2. \A i \in 1..n : w[k + i] = b[i]
      BY <1>2, <2>2
    <3>3. b \in Seq({"text", "LF"})
      BY <1>1, RequestType
    <3> HIDE DEF w, b, k, n
    <3>4. n \in Nat
      BY <3>1, <3>3
    <3>5. /\ Len(SubSeq(w, k + 1, k + n)) = n
          /\ \A i \in 1..n : SubSeq(w, k + 1, k + n)[i] = w[k + i]
          /\ SubSeq(w, k + 1, k + n) \in Seq(Sendable)
      BY <3>1, <3>4
    <3>6. SubSeq(w, k + 1, k + n) = b
      BY <3>1, <3>2, <3>3, <3>5
    <3> QED
      BY <3>1, <3>6 DEF w, b, k
  <2>10. Expected(request)' = Expected(request) /\ Has(request, "keep-alive")' = Has(request, "keep-alive")
         /\ Wire(request)' = Wire(request)
    BY <1>1 DEF Expected, WellFormed, Has, Wire
  <2>11. m_linger' = Has(request', "keep-alive") /\ answer' = Expected(request')
    BY <1>1, <1>5, <2>6, <2>7
  <2>12. answer' = "json" =>
           SubSeq(Wire(request'), m_start_line' + 1, m_start_line' + m_content_length') = request'.body
    BY <1>1, <1>5, <2>6, <2>9
  <2>13. ReadAsAWhole'
    BY <2>8, <2>11, <2>12 DEF ReadAsAWhole
  <2> QED
    BY <1>1, <1>5, <2>13 DEF ParseInv
<1> QED
  BY <1>4, <1>5

LEMMA LineOpenOrBad == ASSUME ConnInv, ParseInv, LineNotOk PROVE ParseInv'
<1>1. /\ RequestTypeOK /\ Asking /\ request \in Requests
      /\ m_checked_idx' = ParsedLine.checked /\ ParsedLine.status # "ok"
      /\ pc = "parse" /\ pc' = "wait" /\ m_check_state # "content" /\ m_check_state \in {"line", "header", "content"}
      /\ UNCHANGED <<request, m_read_idx, m_start_line, m_check_state, m_target, m_linger, m_content_length>>
  BY ReadTypes DEF ConnInv, LineNotOk, RequestTypeOK
<1>2. m_checked_idx' = LineEnd
  BY <1>1, LineParsed
<1>3. CASE m_check_state = "line"
  <2>1. InLine /\ LineEnd \in {0, 1}
    BY <1>1, <1>3, LineStep DEF ParseInv
  <2>2. InLine'
    BY <1>1, <1>2, <2>1 DEF InLine
  <2> QED
    BY <1>1, <1>3, <2>2 DEF ParseInv, ReadAsAWhole
<1>4. CASE m_check_state = "header"
  <2>1. InHeaders
    BY <1>1, <1>4 DEF ParseInv
  <2> DEFINE H == Len(request.headers)
  <2>2. PICK h \in 0..H : BehindHeader(h)
    BY <2>1 DEF InHeaders
  <2>3. H \in Nat
    BY <1>1, RequestType
  <2>4. LineEnd = m_start_line \/ (h < H /\ LineEnd = m_start_line + 1)
    <3>1. /\ h < H => LineEnd = m_start_line \/ LineEnd = m_start_line + 1
          /\ h = H => LineEnd = m_start_line
      BY <1>1, <2>1, <2>2, HeaderStep DEF InHeaders
    <3>2. h < H \/ h = H
      BY <2>2, <2>3
    <3> QED
      BY <3>1, <3>2
  <2>5. BehindHeader(h)'
    <3>1. (KeptOpen(h)' <=> KeptOpen(h)) /\ Told(h)' = Told(h)
      BY <1>1, SameHeaders
    <3>2. m_checked_idx' = m_start_line \/ (h < Len(request.headers) /\ m_checked_idx' = m_start_line + 1)
      BY <1>2, <2>4
    <3> QED
      BY <1>1, <2>2, <3>1, <3>2 DEF BehindHeader
  <2>6. InHeaders'
    <3>1. Asking' = Asking /\ (Parsable' <=> Parsable)
      BY <1>1, SameRequest, SameHeaders
    <3> QED
      BY <1>1, <2>1, <2>2, <2>5, <3>1 DEF InHeaders
  <2> QED
    BY <1>1, <1>4, <2>6 DEF ParseInv, ReadAsAWhole
<1> QED
  BY <1>1, <1>3, <1>4

\* A step that leaves the parser alone.
LEMMA ParserKept ==
  ASSUME ParseInv, UNCHANGED <<request, parserVars>>,
         pc' \in {"wait", "parse"} => pc \in {"wait", "parse"}, pc' # "answer"
  PROVE  ParseInv'
<1>1. Asking' = Asking /\ (Parsable' <=> Parsable)
  BY SameRequest, SameHeaders
<1>2. \A n : (KeptOpen(n)' <=> KeptOpen(n)) /\ Told(n)' = Told(n)
  BY SameHeaders
<1>3. InLine' <=> InLine
  BY DEF InLine
<1>4. \A h : BehindHeader(h)' <=> BehindHeader(h)
  BY <1>2 DEF BehindHeader
<1>5. InHeaders' <=> InHeaders
  BY <1>1, <1>4 DEF InHeaders
<1>6. InContent' <=> InContent
  <2>1. AtBody' <=> AtBody
    BY DEF AtBody, KeptOpen
  <2> QED
    BY <1>1, <2>1 DEF InContent
<1> QED
  BY <1>3, <1>5, <1>6 DEF ParseInv, ReadAsAWhole

LEMMA ParseStep == ASSUME ConnInv, ParseInv, Next PROVE ParseInv'
<1>1. CASE NextRequest
  <2>1. pc = "wait" /\ UNCHANGED <<pc, parserVars>> /\ ~Asking
    BY <1>1 DEF NextRequest, Ask
  <2>2. m_check_state = "line" /\ InLine
    BY <2>1 DEF ParseInv, InHeaders, InContent, ConnInv, RequestTypeOK
  <2>3. InLine'
    BY <2>1, <2>2 DEF InLine
  <2> QED
    BY <2>1, <2>2, <2>3 DEF ParseInv, ReadAsAWhole
<1>2. CASE Arrive \/ ReadOnce
  BY <1>2, ParserKept DEF Arrive, ReadOnce
<1>3. CASE LineNotOk
  BY <1>3, LineOpenOrBad
<1>4. CASE ParseRequestLine
  BY <1>4, RequestLineParsed
<1>5. CASE ParseHeader
  BY <1>5, HeaderParsed
<1>6. CASE ParseBlankLine
  BY <1>6, BlankLineParsed
<1>7. CASE ParseContent
  BY <1>7, ContentParsed
<1>8. CASE NewTask \/ DoRequestEnds \/ Respond \/ Build \/ WriteFails
  BY <1>8, ParserKept DEF NewTask, DoRequestEnds, Respond, Build, WriteFails
<1>9. CASE \E n \in PartSizes : WritePart(n)
  BY <1>9, ParserKept DEF WritePart
<1>10. CASE WriteLast /\ m_linger
  <2>1. pc' = "wait" /\ Renewed
    BY <1>10 DEF WriteLast
  <2>2. m_check_state' = "line" /\ InLine'
    BY <2>1 DEF Renewed, InLine
  <2> QED
    BY <2>1, <2>2 DEF ParseInv, ReadAsAWhole
<1>11. CASE WriteLast /\ ~m_linger
  BY <1>11, ParserKept DEF WriteLast
<1> QED
  BY <1>1, <1>2, <1>3, <1>4, <1>5, <1>6, <1>7, <1>8, <1>9, <1>10, <1>11
     DEF Next, Reading, ProcessRead, Answering

LEMMA ParseUnchanged == ASSUME ParseInv, UNCHANGED allVars PROVE ParseInv'
<1>1. CASE pc # "answer"
  BY <1>1, ParserKept
<1>2. CASE pc = "answer"
  BY <1>2 DEF ParseInv, ReadAsAWhole, Expected, WellFormed, Has, Wire
<1> QED
  BY <1>1, <1>2

LEMMA ParseAlways == Spec => []ParseInv
<1>1. Init => ParseInv
  BY DEF Init, RequestInit, Fresh, ParseInv, InLine, ReadAsAWhole
<1>2. ConnInv /\ ParseInv /\ [Next]_allVars => ParseInv'
  BY ParseStep, ParseUnchanged
<1> QED
  BY <1>1, <1>2, ConnAlways, PTL DEF Spec

\* However a request is cut into reads, the answer, the fate of the connection and the body that
\* do_request is given are those of the whole request (http_conn::process_read).
THEOREM CutsDoNotMatter == Spec => []AnswerOfTheWhole
<1>1. ParseInv => AnswerOfTheWhole
  BY DEF ParseInv, AnswerOfTheWhole
<1> QED
  BY <1>1, ParseAlways, PTL

-----------------------------------------------------------------------------
(* The client has a beginning of the response, and all of it at the end *)

BodyOK ==
  /\ m_response_body.text \in Seq(Units) /\ m_response_body.size \in Nat \ {0}
  /\ Len(m_response_body.text) < m_response_body.size
  /\ m_response_status \in {200, 503}

\* There is room for the zero behind what is in the buffer.
BufferOK == m_write_buf \in Seq(Units) /\ m_write_idx \in Nat /\ m_write_idx < Len(m_write_buf)

InBuffer == \A i \in 1..m_write_idx : m_write_buf[i] = whole[i]

\* No response is under way.
Resting ==
  /\ received = whole /\ unwritten = << >>
  /\ bytes_to_send = 0 /\ bytes_have_send \in 0..m_write_idx
  /\ pc # "closed" => m_write_idx = 0 /\ bytes_have_send = 0

\* What is not in the buffer yet: line by line, and the body at the end.
LeftToAdd ==
  /\ unwritten \in Seq(Seq(Units))
  /\ unwritten = << >> => m_write_idx = Len(whole)
  /\ unwritten # << >> =>
       /\ m_write_idx + Len(unwritten) - 1 <= Len(whole)
       /\ \A j \in 1..(Len(unwritten) - 1) : unwritten[j] = <<whole[m_write_idx + j]>>
       /\ unwritten[Len(unwritten)] = SubSeq(whole, m_write_idx + Len(unwritten), Len(whole))

Building ==
  /\ received = << >> /\ bytes_have_send = 0 /\ bytes_to_send = 0
  /\ m_write_idx <= Len(whole) /\ InBuffer /\ LeftToAdd

\* The client has bytes_have_send units; if anything is offered to the socket then what follows.
Sending ==
  /\ unwritten = << >> /\ m_write_idx = Len(whole) /\ InBuffer
  /\ bytes_have_send \in Nat /\ bytes_to_send \in Nat /\ bytes_have_send + bytes_to_send = m_write_idx
  /\ received \in Seq(Units) /\ Len(received) = bytes_have_send
  /\ \A i \in 1..bytes_have_send : received[i] = whole[i]
  /\ m_iv.base + m_iv.len <= m_write_idx /\ (m_iv.len > 0 => m_iv.base = bytes_have_send)

SendInv ==
  /\ BodyOK /\ BufferOK /\ whole \in Seq(Units) /\ m_iv \in [base : Nat, len : Nat]
  /\ pc \in {"wait", "parse", "answer", "task", "respond", "closed"} => Resting
  /\ pc = "build" => Building
  /\ pc \in {"write", "lost"} => Sending

LEMMA SameSeq ==
  ASSUME NEW S, NEW s \in Seq(S), NEW t \in Seq(S), Len(s) = Len(t), \A i \in 1..Len(s) : s[i] = t[i]
  PROVE  s = t
  OBVIOUS

LEMMA Part ==
  ASSUME NEW S, NEW s \in Seq(S), NEW m \in Nat, NEW n \in Nat, m + n <= Len(s)
  PROVE  /\ SubSeq(s, m + 1, m + n) \in Seq(S) /\ Len(SubSeq(s, m + 1, m + n)) = n
         /\ \A i \in 1..n : SubSeq(s, m + 1, m + n)[i] = s[m + i]
  OBVIOUS

LEMMA SeqLength == ASSUME NEW S, NEW s \in Seq(S) PROVE Len(s) \in Nat
  OBVIOUS

LEMMA Formed ==
  /\ Form \in Seq(Units)
  /\ \A k \in {"missing", "overloaded", "timeout", "failed"} : Texts[k] \in Seq(Units)
  /\ \A text \in Outputs : text \in Seq(Units)
<1>1. Form \in Seq(Units)
  BY DEF Form, Units, Kinds
<1>2. \A k \in {"missing", "overloaded", "timeout", "failed"} : <<<<k, 0>>>> \in Seq(Units)
  BY DEF Units, Kinds
<1>3. /\ Texts["missing"] = <<<<"missing", 0>>>> /\ Texts["overloaded"] = <<<<"overloaded", 0>>>>
      /\ Texts["timeout"] = <<<<"timeout", 0>>>> /\ Texts["failed"] = <<<<"failed", 0>>>>
  BY DEF Texts
<1>4. \A k \in {"missing", "overloaded", "timeout", "failed"} : Texts[k] = <<<<k, 0>>>>
  BY <1>3
<1>5. ASSUME NEW text \in Outputs PROVE text \in Seq(Units)
  <2>1. PICK n \in 0..MaxOutput : text = [j \in 1..(n + 2) |-> <<"ok", j>>]
    BY <1>5 DEF Outputs
  <2>2. n + 2 \in Nat
    BY <2>1, Numbers
  <2>3. \A j \in 1..(n + 2) : <<"ok", j>> \in Units
    BY <2>2 DEF Units, Kinds
  <2>4. text \in [1..(n + 2) -> Units]
    BY <2>1, <2>3
  <2> QED
    BY <2>2, <2>4
<1> QED
  BY <1>1, <1>2, <1>4, <1>5

LEMMA HeadType ==
  ASSUME NEW status \in Nat, NEW n \in Nat, NEW linger
  PROVE  HeadLines(status, n, linger) \in Seq(Units)
<1> DEFINE a == <<<<"status", status>>>>
           b == IF status \in {200, 503} THEN <<<<"json", 0>>>> ELSE << >>
           c == <<<<"length", n>>, <<"linger", IF linger THEN 1 ELSE 0>>, <<"blank", 0>>>>
<1>1. a \in Seq(Units)
  BY DEF Units, Kinds
<1>2. b \in Seq(Units)
  BY DEF Units, Kinds
<1>3. c \in Seq(Units)
  <2>1. <<"length", n>> \in Units /\ <<"blank", 0>> \in Units
        /\ <<"linger", IF linger THEN 1 ELSE 0>> \in Units
    BY DEF Units, Kinds
  <2> QED
    BY <2>1
<1>4. HeadLines(status, n, linger) = a \o b \o c
  BY DEF HeadLines
<1> HIDE DEF a, b, c
<1> QED
  BY <1>1, <1>2, <1>3, <1>4

\* init() of the response
LEMMA NewBuffer ==
  /\ Memory(InitBufferSize, Nul) \in Seq(Units) /\ 0 < Len(Memory(InitBufferSize, Nul))
  /\ NoBody.text \in Seq(Units) /\ NoBody.size \in Nat \ {0} /\ Len(NoBody.text) < NoBody.size
<1>1. Nul \in Units
  BY DEF Nul, Units, Kinds
<1>2. Memory(InitBufferSize, Nul) \in [1..InitBufferSize -> Units] /\ InitBufferSize \in Nat \ {0}
  BY <1>1, Numbers DEF Memory
<1>3. NoBody.text = << >> /\ NoBody.size = InitBufferSize
  BY DEF NoBody
<1> QED
  BY <1>2, <1>3

LEMMA ResponseUnchanged == ASSUME SendInv, UNCHANGED <<responseVars, pc>> PROVE SendInv'
  BY DEF SendInv, BodyOK, BufferOK, Resting, Building, LeftToAdd, InBuffer, Sending

LEMMA RestingStep ==
  ASSUME SendInv, UNCHANGED responseVars,
         pc \in {"wait", "parse", "answer", "task", "respond"},
         pc' \in {"wait", "parse", "answer", "task", "respond", "closed"}
  PROVE  SendInv'
  BY DEF SendInv, BodyOK, BufferOK, Resting

LEMMA NextRequestRests == ASSUME SendInv, NextRequest PROVE SendInv'
<1>1. pc = "wait" /\ pc' = "wait" /\ received' = << >> /\ whole' = << >> /\ UNCHANGED <<bufferVars, sendVars>>
  BY DEF NextRequest, Ask
<1>2. << >> \in Seq(Units)
  OBVIOUS
<1> QED
  BY <1>1, <1>2 DEF SendInv, BodyOK, BufferOK, Resting

LEMMA BodySet ==
  ASSUME Powers, SendInv, pc = "task", DoRequestEnds PROVE SendInv'
<1>1. PICK text \in Seq(Units), status \in {200, 503} : Answered(text, status)
  <2>1. m_response_status \in {200, 503}
    BY DEF SendInv, BodyOK
  <2>2. /\ Texts.missing \in Seq(Units) /\ Texts.overloaded \in Seq(Units)
        /\ Texts.timeout \in Seq(Units) /\ Texts.failed \in Seq(Units)
    BY Formed DEF Texts
  <2>3. CASE Answered(Texts.missing, m_response_status)
    BY <2>1, <2>2, <2>3
  <2>4. CASE Answered(Texts.overloaded, 503)
    BY <2>2, <2>4
  <2>5. ASSUME NEW text \in {Texts.timeout, Texts.failed} \cup Outputs, Answered(text, m_response_status)
        PROVE  \E t \in Seq(Units), status \in {200, 503} : Answered(t, status)
    <3>1. text \in Seq(Units)
      BY <2>2, Formed
    <3> QED
      BY <2>1, <2>5, <3>1
  <2> QED
    BY <2>3, <2>4, <2>5 DEF DoRequestEnds
<1>2. /\ m_response_body'.text = text /\ m_response_body'.size = Doubled(m_response_body.size, Len(text))
      /\ m_response_status' \in {200, 503}
  BY <1>1 DEF Answered, SetResponseBody
<1>3. m_response_body'.size \in Nat /\ m_response_body'.size > Len(text)
  <2>1. Len(text) \in Nat /\ m_response_body.size \in Nat \ {0}
    BY SeqLength DEF SendInv, BodyOK
  <2>2. \A size \in Nat \ {0}, n \in Nat : Doubled(size, n) \in Nat /\ Doubled(size, n) > n
    BY DoubledFits
  <2> DEFINE k == Len(text)
             s == m_response_body.size
  <2> HIDE DEF k, s
  <2>3. k \in Nat /\ s \in Nat \ {0}
    BY <2>1 DEF k, s
  <2>4. Doubled(s, k) \in Nat /\ Doubled(s, k) > k
    BY <2>2, <2>3
  <2> QED
    BY <1>2, <2>4 DEF k, s
<1>4. BodyOK'
  <2>1. Len(text) \in Nat
    BY SeqLength
  <2> QED
    BY <1>2, <1>3, <2>1 DEF BodyOK
<1>5. /\ UNCHANGED <<m_write_buf, m_write_idx, unwritten, sendVars, received, whole>> /\ pc' = "respond"
  BY DEF DoRequestEnds
<1> QED
  BY <1>4, <1>5 DEF SendInv, BufferOK, Resting

LEMMA ResponseBegun == ASSUME ConnInv, SendInv, Respond PROVE SendInv'
<1> DEFINE text  == Content(answer)
           lines == HeadLines(Status(answer), Len(text), m_linger)
           ls == [i \in DOMAIN lines |-> <<lines[i]>>]
           n == Len(lines)
           u == unwritten'
           w == whole'
<1>1. /\ answer \in {"400", "404", "json"} /\ Resting /\ m_write_idx = 0 /\ bytes_have_send = 0
      /\ bytes_to_send = 0
      /\ BodyOK /\ BufferOK /\ m_iv \in [base : Nat, len : Nat]
  BY DEF ConnInv, SendInv, Respond, Resting
<1>2. /\ u = Append(ls, text) /\ w = lines \o text /\ received' = << >> /\ pc' = "build"
      /\ UNCHANGED <<m_response_body, m_response_status, m_write_buf, m_write_idx, sendVars>>
  BY DEF Respond, BeginResponse
<1>3. text \in Seq(Units) /\ Len(text) \in Nat
  <2>1. text \in Seq(Units)
    BY <1>1, Formed DEF Content, BodyOK
  <2> QED
    BY <2>1, SeqLength
<1>4. lines \in Seq(Units) /\ n \in Nat /\ DOMAIN lines = 1..n
  <2>1. Status(answer) \in Nat
    BY <1>1 DEF Status, BodyOK
  <2>2. lines \in Seq(Units)
    BY <1>3, <2>1, HeadType
  <2> HIDE DEF lines
  <2> QED
    BY <2>2
<1> HIDE DEF text, lines, n, u, w
<1>5. ls \in Seq(Seq(Units)) /\ Len(ls) = n /\ \A i \in 1..n : ls[i] = <<lines[i]>>
  <2>1. \A i \in 1..n : lines[i] \in Units
    BY <1>4 DEF n
  <2>2. \A i \in 1..n : <<lines[i]>> \in Seq(Units)
    BY <2>1
  <2>3. ls \in [1..n -> Seq(Units)]
    BY <1>4, <2>2
  <2>4. \A i \in 1..n : ls[i] = <<lines[i]>>
    BY <1>4
  <2> HIDE DEF ls
  <2> QED
    BY <1>4, <2>3, <2>4
<1> HIDE DEF ls
<1>6. /\ u \in Seq(Seq(Units)) /\ Len(u) = n + 1 /\ u[n + 1] = text
      /\ \A i \in 1..n : u[i] = <<lines[i]>>
  <2> DEFINE T == Seq(Units)
  <2>1. ls \in Seq(T) /\ text \in T
    BY <1>3, <1>5
  <2> HIDE DEF T
  <2>2. Append(ls, text) \in Seq(T) /\ Len(Append(ls, text)) = n + 1 /\ Append(ls, text)[n + 1] = text
        /\ \A i \in 1..n : Append(ls, text)[i] = ls[i]
    BY <1>4, <1>5, <2>1
  <2> QED
    BY <1>2, <1>5, <2>2 DEF T
<1>7. /\ w \in Seq(Units) /\ Len(w) = n + Len(text)
      /\ \A i \in 1..n : w[i] = lines[i]
      /\ \A i \in 1..Len(text) : w[n + i] = text[i]
  <2> DEFINE k == Len(text)
  <2>1. k \in Nat /\ n = Len(lines)
    BY <1>3 DEF n
  <2>2. /\ lines \o text \in Seq(Units) /\ Len(lines \o text) = n + k
        /\ \A i \in 1..n : (lines \o text)[i] = lines[i]
        /\ \A i \in 1..k : (lines \o text)[n + i] = text[i]
    BY <1>3, <1>4, <2>1, Behind
  <2> QED
    BY <1>2, <2>2
<1>8. text = SubSeq(w, n + 1, Len(w))
  <2> DEFINE k == Len(text)
             t == SubSeq(w, n + 1, n + k)
  <2>1. k \in Nat /\ n + k <= Len(w)
    BY <1>3, <1>4, <1>7
  <2>2. t \in Seq(Units) /\ Len(t) = k /\ \A i \in 1..k : t[i] = w[n + i]
    BY <1>4, <1>7, <2>1, Part
  <2> HIDE DEF t
  <2>3. t = text
    BY <1>3, <1>7, <2>2, SameSeq
  <2> QED
    BY <1>7, <2>3 DEF t
<1>9. \A j \in 1..n : u[j] = <<w[j]>>
  BY <1>6, <1>7
<1>10. u # << >>
  BY <1>4, <1>6
<1>11. Building'
  <2>1. m_write_idx' = 0 /\ bytes_have_send' = 0 /\ bytes_to_send' = 0 /\ received' = << >>
    BY <1>1, <1>2
  <2>2. InBuffer'
    BY <2>1 DEF InBuffer
  <2>3. LeftToAdd'
    <3>1. 0 + (n + 1) - 1 <= Len(w)
      BY <1>3, <1>4, <1>7
    <3>2. \A j \in 1..((n + 1) - 1) : u[j] = <<w[0 + j]>>
      BY <1>4, <1>9
    <3>3. u[n + 1] = SubSeq(w, 0 + (n + 1), Len(w))
      BY <1>4, <1>6, <1>8
    <3>4. u \in Seq(Seq(Units)) /\ Len(u) = n + 1
      BY <1>6
    <3> QED
      BY <1>10, <2>1, <3>1, <3>2, <3>3, <3>4 DEF LeftToAdd, u, w
  <2>4. 0 <= Len(whole')
    BY <1>7, SeqLength DEF w
  <2> QED
    BY <2>1, <2>2, <2>3, <2>4 DEF Building
<1>12. BodyOK' /\ BufferOK' /\ whole' \in Seq(Units) /\ m_iv' \in [base : Nat, len : Nat]
  BY <1>1, <1>2, <1>7 DEF BodyOK, BufferOK, w
<1> QED
  BY <1>2, <1>11, <1>12 DEF SendInv

LEMMA NextAdded ==
  ASSUME Powers, SendInv, pc = "build", pc' = "build", AddNext PROVE SendInv'
<1> DEFINE text == Head(unwritten)
           m == Len(unwritten)
           k == m_write_idx
           n == Len(text)
           L == Len(whole)
           u == unwritten
           v == unwritten'
           buf == m_write_buf'
<1>1. /\ BodyOK /\ BufferOK /\ whole \in Seq(Units) /\ m_iv \in [base : Nat, len : Nat] /\ Building
      /\ u # << >> /\ buf = WithResponse(text) /\ m_write_idx' = k + n /\ v = Tail(u)
      /\ UNCHANGED <<m_response_body, m_response_status, sendVars, received, whole>>
  BY DEF SendInv, AddNext
<1>2. /\ u \in Seq(Seq(Units)) /\ m \in Nat \ {0} /\ k \in Nat /\ L \in Nat
      /\ k <= L /\ k + m - 1 <= L
      /\ \A j \in 1..(m - 1) : u[j] = <<whole[k + j]>>
      /\ u[m] = SubSeq(whole, k + m, L)
      /\ m_write_buf \in Seq(Units) /\ k < Len(m_write_buf)
      /\ \A i \in 1..k : m_write_buf[i] = whole[i]
  <2>1. u \in Seq(Seq(Units)) /\ u # << >>
    BY <1>1 DEF Building, LeftToAdd
  <2>2. m \in Nat \ {0}
    BY <2>1
  <2>3. L \in Nat
    BY <1>1, SeqLength
  <2> QED
    BY <1>1, <2>1, <2>2, <2>3 DEF Building, LeftToAdd, BufferOK, InBuffer
<1>3. text = u[1] /\ v \in Seq(Seq(Units)) /\ Len(v) = m - 1 /\ \A j \in 1..(m - 1) : v[j] = u[j + 1]
  <2> DEFINE T == Seq(Units)
  <2>1. u \in Seq(T) /\ u # << >> /\ v = Tail(u) /\ m = Len(u)
    BY <1>1, <1>2
  <2> HIDE DEF T, u, v, m
  <2>2. v \in Seq(T) /\ Len(v) = m - 1 /\ \A j \in 1..(m - 1) : v[j] = u[j + 1]
    BY <2>1
  <2>3. Head(u) = u[1]
    BY <2>1
  <2> QED
    BY <2>2, <2>3 DEF T, u
<1>0. n = Len(text) /\ L = Len(whole) /\ m = Len(u) /\ k = m_write_idx
  OBVIOUS
<1> HIDE DEF text, m, k, n, L, u, v, buf
<1>4. /\ text \in Seq(Units) /\ n \in Nat /\ k + n <= L
      /\ \A i \in 1..n : text[i] = whole[k + i]
      /\ m = 1 => k + n = L
      /\ m > 1 => n = 1
  <2>1. CASE m = 1
    <3> DEFINE d == L - k
    <3>1. text = SubSeq(whole, k + 1, L) /\ d \in Nat /\ k + d = L /\ k \in Nat /\ L = Len(whole)
      BY <1>0, <1>2, <1>3, <2>1
    <3> HIDE DEF d
    <3>2. /\ SubSeq(whole, k + 1, k + d) \in Seq(Units) /\ Len(SubSeq(whole, k + 1, k + d)) = d
          /\ \A i \in 1..d : SubSeq(whole, k + 1, k + d)[i] = whole[k + i]
      <4>1. k + d <= Len(whole)
        BY <1>2, <3>1
      <4> QED
        BY <1>1, <3>1, <4>1, Part
    <3>3. text = SubSeq(whole, k + 1, k + d)
      BY <3>1
    <3>4. text \in Seq(Units) /\ n = d /\ \A i \in 1..n : text[i] = whole[k + i]
      BY <1>0, <3>2, <3>3
    <3> QED
      BY <1>2, <2>1, <3>1, <3>4
  <2>2. CASE m > 1
    <3>1. 1 \in 1..(m - 1) /\ k + 1 <= L /\ k + 1 \in 1..L
      BY <1>2, <2>2
    <3>2. text = <<whole[k + 1]>>
      BY <1>2, <1>3, <3>1
    <3>3. whole[k + 1] \in Units
      BY <1>0, <1>1, <3>1
    <3> DEFINE x == whole[k + 1]
    <3> HIDE DEF x
    <3>4. <<x>> \in Seq(Units) /\ Len(<<x>>) = 1 /\ <<x>>[1] = x
      BY <3>3 DEF x
    <3>5. text = <<x>>
      BY <3>2 DEF x
    <3>6. text \in Seq(Units) /\ n = 1 /\ text[1] = whole[k + 1]
      BY <1>0, <3>4, <3>5 DEF x
    <3>7. \A i \in 1..n : i = 1
      BY <3>6
    <3>8. k + n <= L
      BY <3>1, <3>6
    <3> QED
      BY <2>2, <3>6, <3>7, <3>8
  <2>3. m = 1 \/ m > 1
    BY <1>2
  <2> QED
    BY <2>1, <2>2, <2>3
<1>5. /\ buf \in Seq(Units) /\ k + n < Len(buf)
      /\ \A i \in 1..k : buf[i] = whole[i]
      /\ \A i \in 1..n : buf[k + i] = text[i]
  <2>1. /\ WithResponse(text) \in Seq(Units) /\ m_write_idx + Len(text) < Len(WithResponse(text))
        /\ \A i \in 1..m_write_idx : WithResponse(text)[i] = m_write_buf[i]
        /\ \A i \in 1..Len(text) : WithResponse(text)[m_write_idx + i] = text[i]
    BY <1>1, <1>4, ResponseAdded DEF BufferOK
  <2> QED
    BY <1>1, <1>2, <2>1 DEF k, n
<1>6. \A i \in 1..(k + n) : buf[i] = whole[i]
  <2> SUFFICES ASSUME NEW i \in 1..(k + n) PROVE buf[i] = whole[i]
    OBVIOUS
  <2>1. CASE i \in 1..k
    BY <1>5, <2>1
  <2>2. CASE i \notin 1..k
    <3>1. i - k \in 1..n /\ k + (i - k) = i
      BY <1>2, <1>4, <2>2
    <3> QED
      BY <1>4, <1>5, <3>1
  <2> QED
    BY <2>1, <2>2
<1>7. InBuffer'
  BY <1>1, <1>6 DEF InBuffer, buf
<1>8. BufferOK'
  BY <1>1, <1>2, <1>4, <1>5 DEF BufferOK, buf
<1>9. LeftToAdd'
  <2>1. CASE m = 1
    <3>1. v = << >>
      BY <1>3, <2>1
    <3> QED
      BY <1>1, <1>3, <1>4, <2>1, <3>1 DEF LeftToAdd, v, L
  <2>2. CASE m > 1
    <3>1. n = 1 /\ v # << >> /\ m - 1 \in Nat \ {0}
      BY <1>2, <1>3, <1>4, <2>2
    <3>2. (k + 1) + (m - 1) - 1 <= L
      BY <1>2
    <3>3. \A j \in 1..((m - 1) - 1) : v[j] = <<whole[(k + 1) + j]>>
      <4> SUFFICES ASSUME NEW j \in 1..((m - 1) - 1) PROVE v[j] = <<whole[(k + 1) + j]>>
        OBVIOUS
      <4>1. j \in 1..(m - 1) /\ j + 1 \in 1..(m - 1) /\ k + (j + 1) = (k + 1) + j
        BY <1>2
      <4> QED
        BY <1>2, <1>3, <4>1
    <3>4. v[m - 1] = SubSeq(whole, (k + 1) + (m - 1), L)
      <4>1. m - 1 \in 1..(m - 1) /\ (m - 1) + 1 = m /\ (k + 1) + (m - 1) = k + m
        BY <1>2, <3>1
      <4> QED
        BY <1>2, <1>3, <4>1
    <3>5. m_write_idx' = k + 1 /\ Len(v) = m - 1
      BY <1>1, <1>3, <3>1
    <3> QED
      BY <1>1, <1>3, <3>1, <3>2, <3>3, <3>4, <3>5 DEF LeftToAdd, v, L
  <2> QED
    BY <1>2, <2>1, <2>2
<1>10. Building'
  BY <1>1, <1>4, <1>7, <1>9 DEF Building, L
<1> QED
  BY <1>1, <1>8, <1>10 DEF SendInv, BodyOK

LEMMA ResponseEnds ==
  ASSUME SendInv, pc = "build", pc' = "write", EndResponse PROVE SendInv'
<1>1. /\ BodyOK /\ BufferOK /\ whole \in Seq(Units) /\ Building /\ unwritten = << >>
      /\ m_iv' = [base |-> 0, len |-> m_write_idx] /\ bytes_to_send' = m_write_idx
      /\ UNCHANGED <<bufferVars, bytes_have_send, received, whole>>
  BY DEF SendInv, EndResponse
<1>2. m_write_idx \in Nat /\ m_write_idx = Len(whole) /\ InBuffer /\ bytes_have_send = 0 /\ received = << >>
  BY <1>1 DEF Building, LeftToAdd, BufferOK
<1>3. m_iv' \in [base : Nat, len : Nat] /\ m_iv'.base = 0 /\ m_iv'.len = m_write_idx
  BY <1>1, <1>2
<1>4. << >> \in Seq(Units) /\ Len(<< >>) = 0
  OBVIOUS
<1>5. Sending'
  BY <1>1, <1>2, <1>3, <1>4 DEF Sending, InBuffer
<1>6. BodyOK' /\ BufferOK'
  BY <1>1 DEF BodyOK, BufferOK
<1> QED
  BY <1>1, <1>3, <1>5, <1>6 DEF SendInv

\* What the client has after another n units of what is offered.
LEMMA Received ==
  ASSUME BufferOK, whole \in Seq(Units), m_iv \in [base : Nat, len : Nat], Sending,
         NEW n \in Nat, n <= m_iv.len, n <= bytes_to_send,
         received' = received \o SubSeq(Offered, 1, n)
  PROVE  /\ received' \in Seq(Units) /\ Len(received') = bytes_have_send + n
         /\ \A i \in 1..(bytes_have_send + n) : received'[i] = whole[i]
<1> DEFINE h == bytes_have_send
           l == m_iv.len
           b == m_iv.base
           buf == m_write_buf
           r == received
           w == whole
           o == Offered
           p == SubSeq(o, 1, n)
<1>1. /\ h \in Nat /\ l \in Nat /\ b \in Nat /\ buf \in Seq(Units) /\ r \in Seq(Units)
      /\ Len(r) = h /\ m_write_idx \in Nat /\ b + l <= m_write_idx /\ (l > 0 => b = h) /\ n <= l
      /\ m_write_idx < Len(buf) /\ Len(buf) \in Nat
      /\ \A i \in 1..h : r[i] = w[i]
      /\ \A i \in 1..m_write_idx : buf[i] = w[i]
  BY SeqLength DEF BufferOK, Sending, InBuffer
<1>2. o = SubSeq(buf, b + 1, b + l) /\ received' = r \o p
  BY DEF Offered
<1> HIDE DEF h, l, b, buf, r, w, o, p
<1>3. o \in Seq(Units) /\ Len(o) = l /\ \A i \in 1..l : o[i] = buf[b + i]
  <2>1. b \in Nat /\ l \in Nat /\ buf \in Seq(Units) /\ Len(buf) \in Nat /\ b + l <= Len(buf)
    BY <1>1
  <2>2. SubSeq(buf, b + 1, b + l) \in Seq(Units)
    BY <2>1
  <2>3. Len(SubSeq(buf, b + 1, b + l)) = l
    BY <2>1
  <2>4. \A i \in 1..l : SubSeq(buf, b + 1, b + l)[i] = buf[b + i]
    BY <2>1
  <2> QED
    BY <1>2, <2>2, <2>3, <2>4
<1>4. p \in Seq(Units) /\ Len(p) = n /\ \A i \in 1..n : p[i] = o[i]
  BY <1>1, <1>3 DEF p
<1>5. r \o p \in Seq(Units) /\ Len(r \o p) = h + n
  <2>1. r \in Seq(Units) /\ p \in Seq(Units) /\ Len(r) = h /\ Len(p) = n
    BY <1>1, <1>4
  <2>2. r \o p \in Seq(Units)
    BY <2>1
  <2>3. Len(r \o p) = h + n
    BY <2>1
  <2> QED
    BY <2>2, <2>3
<1>6. /\ \A i \in 1..h : (r \o p)[i] = r[i]
      /\ \A i \in 1..n : (r \o p)[h + i] = p[i]
  <2>1. \A i \in 1..h : (r \o p)[i] = r[i]
    BY <1>1, <1>4
  <2>2. \A i \in 1..n : (r \o p)[h + i] = p[i]
    BY <1>1, <1>4
  <2> QED
    BY <2>1, <2>2
<1>7. \A i \in 1..n : p[i] = w[h + i]
  <2> SUFFICES ASSUME NEW i \in 1..n PROVE p[i] = w[h + i]
    OBVIOUS
  <2>1. i \in 1..l /\ b = h /\ b + i \in 1..m_write_idx
    BY <1>1
  <2>2. p[i] = o[i] /\ o[i] = buf[b + i] /\ buf[b + i] = w[b + i]
    BY <1>1, <1>3, <1>4, <2>1
  <2> QED
    BY <2>1, <2>2
<1>8. \A i \in 1..(h + n) : (r \o p)[i] = w[i]
  <2> SUFFICES ASSUME NEW i \in 1..(h + n) PROVE (r \o p)[i] = w[i]
    OBVIOUS
  <2>1. CASE i \in 1..h
    BY <1>1, <1>6, <2>1
  <2>2. CASE i \notin 1..h
    <3>1. i - h \in 1..n /\ h + (i - h) = i
      BY <1>1, <2>2
    <3>2. (r \o p)[h + (i - h)] = p[i - h] /\ p[i - h] = w[h + (i - h)]
      BY <1>6, <1>7, <3>1
    <3> QED
      BY <3>1, <3>2
  <2> QED
    BY <2>1, <2>2
<1> QED
  BY <1>2, <1>5, <1>8 DEF h, w

LEMMA PartSent ==
  ASSUME SendInv, NEW n \in PartSizes, WritePart(n) PROVE SendInv'
<1>1. /\ BodyOK /\ BufferOK /\ whole \in Seq(Units) /\ m_iv \in [base : Nat, len : Nat] /\ Sending
      /\ pc = "write" /\ pc' = pc
      /\ received' = received \o SubSeq(Offered, 1, n)
      /\ bytes_have_send' = bytes_have_send + n /\ bytes_to_send' = bytes_to_send - n
      /\ m_iv' = MovedOn(bytes_have_send')
      /\ UNCHANGED <<bufferVars, whole>> /\ n < bytes_to_send
  BY DEF SendInv, WritePart, Writev
<1>2. n \in 1..m_iv.len /\ m_iv.len \in Nat /\ m_iv.base \in Nat /\ bytes_have_send \in Nat /\ bytes_to_send \in Nat
      /\ bytes_have_send + bytes_to_send = m_write_idx /\ m_write_idx \in Nat
      /\ m_iv.base + m_iv.len <= m_write_idx /\ (m_iv.len > 0 => m_iv.base = bytes_have_send)
  BY <1>1 DEF PartSizes, Sending, BufferOK
<1>3. n \in Nat /\ n <= m_iv.len /\ n <= bytes_to_send /\ n > 0
  BY <1>1, <1>2
<1>4. /\ received' \in Seq(Units) /\ Len(received') = bytes_have_send'
      /\ \A i \in 1..bytes_have_send' : received'[i] = whole[i]
  BY <1>1, <1>3, Received
<1>5. bytes_have_send' \in Nat /\ bytes_to_send' \in Nat /\ bytes_have_send' + bytes_to_send' = m_write_idx
  BY <1>1, <1>2, <1>3
<1>6. /\ m_iv' \in [base : Nat, len : Nat]
      /\ m_iv'.base + m_iv'.len <= m_write_idx /\ (m_iv'.len > 0 => m_iv'.base = bytes_have_send')
  <2>1. CASE bytes_have_send' >= m_iv.len
    <3>1. m_iv' = [m_iv EXCEPT !.len = 0]
      BY <1>1, <2>1 DEF MovedOn
    <3>2. m_iv' \in [base : Nat, len : Nat] /\ m_iv'.base = m_iv.base /\ m_iv'.len = 0
      BY <1>1, <3>1
    <3> QED
      BY <1>2, <3>2
  <2>2. CASE ~(bytes_have_send' >= m_iv.len)
    <3>1. m_iv' = [base |-> bytes_have_send', len |-> m_iv.len - bytes_have_send']
      BY <1>1, <2>2 DEF MovedOn
    <3>2. m_iv'.base = bytes_have_send' /\ m_iv'.len = m_iv.len - bytes_have_send' /\ m_iv'.len \in Nat
      BY <1>2, <1>5, <2>2, <3>1
    <3> QED
      BY <1>2, <1>5, <3>1, <3>2
  <2> QED
    BY <2>1, <2>2
<1>7. Sending'
  BY <1>1, <1>4, <1>5, <1>6 DEF Sending, InBuffer
<1> QED
  BY <1>1, <1>6, <1>7 DEF SendInv, BodyOK, BufferOK

LEMMA LastSent == ASSUME SendInv, WriteLast PROVE SendInv'
<1>1. /\ BodyOK /\ BufferOK /\ whole \in Seq(Units) /\ m_iv \in [base : Nat, len : Nat] /\ Sending
      /\ received' = received \o SubSeq(Offered, 1, bytes_to_send) /\ bytes_to_send <= m_iv.len
      /\ m_iv' = [m_iv EXCEPT !.len = 0] /\ whole' = whole
  BY DEF SendInv, WriteLast
<1>2. /\ bytes_to_send \in Nat /\ bytes_have_send \in Nat /\ bytes_have_send + bytes_to_send = m_write_idx
      /\ m_write_idx = Len(whole) /\ m_write_idx \in Nat /\ unwritten = << >>
  BY <1>1 DEF Sending, BufferOK
<1>3. received' = whole
  <2>1. bytes_to_send <= bytes_to_send
    BY <1>2
  <2>2. /\ received' \in Seq(Units) /\ Len(received') = bytes_have_send + bytes_to_send
        /\ \A i \in 1..(bytes_have_send + bytes_to_send) : received'[i] = whole[i]
    BY <1>1, <1>2, <2>1, Received
  <2> QED
    BY <1>1, <1>2, <2>2, SameSeq
<1>4. m_iv' \in [base : Nat, len : Nat]
  BY <1>1
<1>5. CASE m_linger
  <2>1. pc' = "wait" /\ ResponseRenewed
    BY <1>5 DEF WriteLast
  <2>2. BodyOK' /\ BufferOK'
    BY <2>1, NewBuffer DEF ResponseRenewed, BodyOK, BufferOK
  <2>3. Resting'
    BY <1>1, <1>2, <1>3, <2>1 DEF Resting, ResponseRenewed
  <2> QED
    BY <1>1, <1>4, <2>1, <2>2, <2>3 DEF SendInv
<1>6. CASE ~m_linger
  <2>1. /\ pc' = "closed" /\ bytes_have_send' = bytes_have_send + bytes_to_send /\ bytes_to_send' = 0
        /\ UNCHANGED bufferVars
    BY <1>6 DEF WriteLast
  <2>2. BodyOK' /\ BufferOK'
    BY <1>1, <2>1 DEF BodyOK, BufferOK
  <2>3. Resting'
    BY <1>1, <1>2, <1>3, <2>1 DEF Resting
  <2> QED
    BY <1>1, <1>4, <2>1, <2>2, <2>3 DEF SendInv
<1> QED
  BY <1>5, <1>6

LEMMA SendStep == ASSUME Powers, ConnInv, SendInv, Next PROVE SendInv'
<1>1. CASE NextRequest
  BY <1>1, NextRequestRests
<1>2. CASE Reading
  BY <1>2, RestingStep
     DEF Reading, Arrive, ReadOnce, ProcessRead, LineNotOk, ParseRequestLine, LineOk, ParseHeader,
         ParseBlankLine, ParseContent, Answers, GoesOn
<1>3. CASE NewTask
  BY <1>3, RestingStep DEF NewTask
<1>4. CASE DoRequestEnds
  BY <1>4, BodySet DEF DoRequestEnds
<1>5. CASE Respond
  BY <1>5, ResponseBegun
<1>6. CASE Build
  BY <1>6, NextAdded, ResponseEnds DEF Build
<1>7. CASE WriteLast
  BY <1>7, LastSent
<1>8. CASE \E n \in PartSizes : WritePart(n)
  BY <1>8, PartSent
<1>9. CASE WriteFails
  BY <1>9 DEF WriteFails, SendInv, BodyOK, BufferOK, Sending, InBuffer
<1> QED
  BY <1>1, <1>2, <1>3, <1>4, <1>5, <1>6, <1>7, <1>8, <1>9 DEF Next, Answering

LEMMA SendAlways == ASSUME Powers PROVE Spec => []SendInv
<1>1. Init => SendInv
  <2> SUFFICES ASSUME Init PROVE SendInv
    OBVIOUS
  <2>1. ResponseInit /\ pc = "wait"
    BY DEF Init, RequestInit
  <2>2. BodyOK /\ BufferOK
    BY <2>1, NewBuffer DEF ResponseInit, BodyOK, BufferOK
  <2>3. Resting /\ whole \in Seq(Units) /\ m_iv \in [base : Nat, len : Nat]
    BY <2>1 DEF ResponseInit, Resting, NoSend
  <2> QED
    BY <2>1, <2>2, <2>3 DEF SendInv
<1>2. ConnInv /\ SendInv /\ [Next]_allVars => SendInv'
  BY SendStep, ResponseUnchanged
<1> QED
  BY <1>1, <1>2, ConnAlways, PTL DEF Spec

\* The client has a beginning of the response at any time, and all of it when the connection goes on
\* or is closed, however the response is built and sent (http_conn::process_write, write).
THEOREM ResponsesAreWhole == ASSUME Powers PROVE Spec => []WholeResponse
<1>1. SendInv /\ ConnInv => WholeResponse
  <2> SUFFICES ASSUME SendInv, ConnInv PROVE WholeResponse
    OBVIOUS
  <2>0. \A s \in Seq(Units) : IsPrefix(s, s)
    BY SeqLength DEF IsPrefix
  <2>1. whole \in Seq(Units) /\ Len(whole) \in Nat
    BY SeqLength DEF SendInv
  <2>2. CASE pc \in {"wait", "parse", "answer", "task", "respond", "closed"}
    BY <2>0, <2>1, <2>2 DEF WholeResponse, SendInv, Resting
  <2>3. CASE pc = "build"
    <3>1. received = << >>
      BY <2>3 DEF SendInv, Building
    <3>2. IsPrefix(<< >>, whole)
      <4>1. SubSeq(<< >>, 1, 0) = << >> /\ SubSeq(whole, 1, 0) = << >> /\ Len(<< >>) = 0
        BY <2>1
      <4> QED
        BY <2>1, <4>1 DEF IsPrefix
    <3> QED
      BY <2>3, <3>1, <3>2 DEF WholeResponse
  <2>4. CASE pc \in {"write", "lost"}
    <3> DEFINE r == received
               w == whole
               h == bytes_have_send
    <3>1. /\ r \in Seq(Units) /\ Len(r) = h /\ h \in Nat /\ h <= Len(w) /\ w \in Seq(Units)
          /\ \A i \in 1..h : r[i] = w[i]
      BY <2>1, <2>4 DEF SendInv, Sending
    <3> HIDE DEF r, w, h
    <3>2. 0 + h = h /\ 0 + 1 = 1 /\ 0 \in Nat /\ 0 + h <= Len(r) /\ 0 + h <= Len(w)
      BY <3>1
    <3>3. /\ SubSeq(r, 0 + 1, 0 + h) \in Seq(Units) /\ Len(SubSeq(r, 0 + 1, 0 + h)) = h
          /\ \A i \in 1..h : SubSeq(r, 0 + 1, 0 + h)[i] = r[0 + i]
      BY <3>1, <3>2, Part
    <3>4. /\ SubSeq(w, 0 + 1, 0 + h) \in Seq(Units) /\ Len(SubSeq(w, 0 + 1, 0 + h)) = h
          /\ \A i \in 1..h : SubSeq(w, 0 + 1, 0 + h)[i] = w[0 + i]
      BY <3>1, <3>2, Part
    <3>5. \A i \in 1..h : SubSeq(r, 0 + 1, 0 + h)[i] = SubSeq(w, 0 + 1, 0 + h)[i]
      BY <3>1, <3>3, <3>4
    <3>6. SubSeq(r, 0 + 1, 0 + h) = SubSeq(w, 0 + 1, 0 + h)
      BY <3>3, <3>4, <3>5, SameSeq
    <3>7. IsPrefix(r, w)
      BY <3>1, <3>2, <3>6 DEF IsPrefix
    <3> QED
      BY <2>4, <3>7 DEF WholeResponse, r, w
  <2> QED
    BY <2>2, <2>3, <2>4 DEF ConnInv, Steps
<1> QED
  BY <1>1, ConnAlways, SendAlways, PTL

-----------------------------------------------------------------------------
(* Types *)

\* An edge-triggered read leaves room, and what parse_content has zeroed is not forgotten before the
\* connection starts afresh.
ZeroInv ==
  /\ ZeroTypeOK
  /\ edge /\ pc # "closed" => m_read_idx < BufferSize

LEMMA ZeroKept ==
  ASSUME ZeroInv, UNCHANGED <<edge, m_read_idx, zeroed>>, pc = "closed" => pc' = "closed" PROVE ZeroInv'
  BY DEF ZeroInv, ZeroTypeOK

LEMMA ZeroWritten == ASSUME ConnInv, ParseInv, ZeroInv, ParseContent PROVE ZeroInv'
<1>1. /\ RequestTypeOK /\ Asking /\ InContent /\ pc = "parse" /\ request \in Requests
      /\ UNCHANGED <<edge, m_read_idx>>
      /\ IF ContentComplete THEN zeroed' = {m_checked_idx + m_content_length} ELSE zeroed' = zeroed
  BY ReadTypes DEF ConnInv, ParseInv, ParseContent, InContent
<1>2. CASE ~ContentComplete
  BY <1>1, <1>2 DEF ZeroInv, ZeroTypeOK
<1>3. CASE ContentComplete
  <2> DEFINE z == m_checked_idx + m_content_length
  <2>1. m_checked_idx \in Nat /\ m_checked_idx >= 5 /\ m_content_length \in (-1)..(MaxBody + 1)
    <3>1. Len(request.headers) \in Nat
      BY <1>1, RequestType
    <3> QED
      BY <1>1, <3>1 DEF InContent, AtBody, RequestTypeOK
  <2>2. m_read_idx \in Nat /\ m_read_idx <= BufferSize
    BY <1>1, ReadTypes DEF RequestTypeOK
  <2>3. z \in 0..m_read_idx
    BY <1>3, <2>1, <2>2, Numbers DEF ContentComplete
  <2>4. edge => m_read_idx < BufferSize
    BY <1>1 DEF ZeroInv
  <2> HIDE DEF z
  <2>5. z \in 0..BufferSize /\ (z = BufferSize => m_read_idx = BufferSize /\ ~edge)
    BY <2>2, <2>3, <2>4, Numbers
  <2>6. zeroed' = {z}
    BY <1>1, <1>3 DEF z
  <2> QED
    BY <1>1, <2>4, <2>5, <2>6 DEF ZeroInv, ZeroTypeOK
<1> QED
  BY <1>2, <1>3

LEMMA ZeroStep == ASSUME ConnInv, ParseInv, ZeroInv, [Next]_allVars PROVE ZeroInv'
<1>1. CASE ReadOnce
  <2>1. /\ pc = "wait" /\ UNCHANGED <<edge, zeroed>> /\ edge \in BOOLEAN
        /\ m_read_idx' = m_read_idx + (IF Unread < Room THEN Unread ELSE Room)
        /\ pc' # "closed" => ~ReadFails
    BY <1>1 DEF ReadOnce, ConnInv, RequestTypeOK
  <2>2. /\ arrived \in Nat /\ m_read_idx \in Nat /\ m_read_idx <= arrived /\ m_read_idx <= BufferSize
        /\ Unread = arrived - m_read_idx /\ Room = BufferSize - m_read_idx
    BY ReadTypes DEF ConnInv, RequestTypeOK, Unread, Room
  <2>3. edge' /\ pc' # "closed" => m_read_idx' < BufferSize
    BY <2>1, <2>2, Numbers DEF ReadFails
  <2>4. BufferSize \in zeroed => m_read_idx' = BufferSize
    BY <2>1, <2>2, Numbers DEF ZeroInv, ZeroTypeOK
  <2> QED
    BY <2>1, <2>3, <2>4 DEF ZeroInv, ZeroTypeOK
<1>2. CASE ParseContent
  BY <1>2, ZeroWritten
<1>3. CASE NextRequest \/ Arrive \/ LineNotOk \/ ParseRequestLine \/ ParseHeader \/ ParseBlankLine
  <2>1. UNCHANGED <<edge, m_read_idx, zeroed>> /\ pc # "closed"
    BY <1>3 DEF NextRequest, Ask, Arrive, LineNotOk, ParseRequestLine, ParseHeader, ParseBlankLine, LineOk
  <2> QED
    BY <2>1, ZeroKept
<1>4. CASE \/ NewTask \/ DoRequestEnds \/ Respond \/ Build \/ WriteFails
          \/ \E n \in PartSizes : WritePart(n)
  <2>1. UNCHANGED <<edge, m_read_idx, zeroed>> /\ pc # "closed"
    BY <1>4 DEF NewTask, DoRequestEnds, Respond, Build, WriteFails, WritePart
  <2> QED
    BY <2>1, ZeroKept
<1>5. CASE WriteLast /\ m_linger
  <2>1. m_read_idx' = 0 /\ zeroed' = {}
    BY <1>5 DEF WriteLast, Renewed
  <2> QED
    BY <2>1, Numbers DEF ZeroInv, ZeroTypeOK
<1>6. CASE WriteLast /\ ~m_linger
  <2>1. UNCHANGED <<edge, m_read_idx, zeroed>> /\ pc' = "closed"
    BY <1>6 DEF WriteLast
  <2> QED
    BY <2>1, ZeroKept
<1>7. CASE UNCHANGED allVars
  BY <1>7, ZeroKept
<1> QED
  BY <1>1, <1>2, <1>3, <1>4, <1>5, <1>6, <1>7 DEF Next, Reading, ProcessRead, Answering

LEMMA ZeroAlways == Spec => []ZeroInv
<1>1. Init => ZeroInv
  BY Numbers DEF Init, RequestInit, Fresh, ZeroInv, ZeroTypeOK
<1>2. ConnInv /\ ParseInv /\ ZeroInv /\ [Next]_allVars => ZeroInv'
  BY ZeroStep
<1> QED
  BY <1>1, <1>2, ConnAlways, ParseAlways, PTL DEF Spec

\* No index of a connection leaves its buffers, and the zero that parse_content writes behind the body
\* lies in the read buffer too, or right behind it: which only a request does that fills the buffer to
\* the last unit and is read level-triggered (http_conn.h, http_conn.cpp).
THEOREM TypeCorrect == ASSUME Powers PROVE Spec => []TypeOK
<1>1. SendInv /\ ConnInv /\ ZeroInv => TypeOK
  <2> SUFFICES ASSUME SendInv, ConnInv, ZeroInv PROVE TypeOK
    OBVIOUS
  <2>1. ResponseTypeOK
    <3>0. BodyOK /\ m_write_idx \in Nat /\ Len(m_write_buf) \in Nat /\ m_write_idx < Len(m_write_buf)
      BY SeqLength DEF SendInv, BufferOK
    <3>1. CASE pc \in {"wait", "parse", "answer", "task", "respond", "closed"}
      BY <3>0, <3>1 DEF SendInv, Resting, ResponseTypeOK, BodyOK
    <3>2. CASE pc = "build"
      BY <3>0, <3>2 DEF SendInv, Building, ResponseTypeOK, BodyOK
    <3>3. CASE pc \in {"write", "lost"}
      <4>1. Sending
        BY <3>3 DEF SendInv
      <4>2. bytes_to_send \in 0..m_write_idx /\ bytes_have_send \in 0..m_write_idx
        BY <3>0, <4>1 DEF Sending
      <4> QED
        BY <3>0, <4>1, <4>2 DEF Sending, ResponseTypeOK, BodyOK
    <3> QED
      BY <3>1, <3>2, <3>3 DEF ConnInv, Steps
  <2>2. (pc = "task") = (json # NoJson)
    BY DEF ConnInv
  <2> QED
    BY <2>1, <2>2 DEF TypeOK, ConnInv, ZeroInv, Steps
<1> QED
  BY <1>1, ConnAlways, SendAlways, ZeroAlways, PTL

-----------------------------------------------------------------------------
(* The fields of a body.  A body is several sequences joined, of sequences that are joined.     *)
(* Where the parts stand in it is followed from the first on: there is no induction here, but   *)
(* what fails somewhere fails at a least place.                                                 *)

\* A first value and a step, given as a function, can be followed for n rounds.
Follows(f, c, step, n) == f[0] = c /\ \A i \in 1..n : f[i] = step[<<f[i - 1], i>>]

LEMMA Recursion ==
  ASSUME NEW D, NEW c \in D, NEW step \in [D \X Nat -> D], NEW n \in Nat
  PROVE  \E f \in [0..n -> D] : Follows(f, c, step, n)
<1> DEFINE Bad == {m \in Nat : ~\E f \in [0..m -> D] : Follows(f, c, step, m)}
<1> SUFFICES Bad = {}
  OBVIOUS
<1> SUFFICES ASSUME Bad # {} PROVE FALSE
  OBVIOUS
<1>1. PICK m \in Bad : \A k \in Bad : m <= k
  <2>1. Bad \in SUBSET Nat
    OBVIOUS
  <2> HIDE DEF Bad
  <2> QED
    BY <2>1, Least
<1>2. m \in Nat /\ ~\E f \in [0..m -> D] : Follows(f, c, step, m)
  OBVIOUS
<1>3. m # 0
  <2> SUFFICES ASSUME m = 0 PROVE FALSE
    OBVIOUS
  <2>1. [i \in 0..0 |-> c] \in [0..m -> D] /\ Follows([i \in 0..0 |-> c], c, step, m)
    BY DEF Follows
  <2> QED
    BY <1>2, <2>1
<1>4. m - 1 \in Nat /\ m - 1 \notin Bad
  <2>1. m - 1 \in Nat /\ ~(m <= m - 1)
    BY <1>2, <1>3
  <2> HIDE DEF Bad
  <2> QED
    BY <1>1, <2>1
<1>5. PICK f \in [0..(m - 1) -> D] : Follows(f, c, step, m - 1)
  BY <1>4
<1> DEFINE g == [i \in 0..m |-> IF i = m THEN step[<<f[m - 1], m>>] ELSE f[i]]
<1> HIDE DEF Bad
<1>6. f[m - 1] \in D /\ step[<<f[m - 1], m>>] \in D
  BY <1>2, <1>4
<1>7. g \in [0..m -> D]
  BY <1>2, <1>6
<1>8. Follows(g, c, step, m)
  <2>1. g[0] = c /\ g[m] = step[<<f[m - 1], m>>] /\ g[m - 1] = f[m - 1]
    BY <1>2, <1>3, <1>5 DEF Follows
  <2>2. ASSUME NEW i \in 1..(m - 1) PROVE g[i] = step[<<g[i - 1], i>>]
    <3>1. g[i] = f[i] /\ g[i - 1] = f[i - 1] /\ f[i] = step[<<f[i - 1], i>>]
      BY <1>2, <1>5 DEF Follows
    <3> QED
      BY <3>1
  <2> HIDE DEF g
  <2>3. ASSUME NEW i \in 1..m PROVE g[i] = step[<<g[i - 1], i>>]
    <3>1. CASE i = m
      BY <2>1, <3>1
    <3>2. CASE i # m
      BY <1>2, <2>2, <3>2
    <3> QED
      BY <3>1, <3>2
  <2> QED
    BY <2>1, <2>3 DEF Follows
<1> HIDE DEF g
<1> QED
  BY <1>2, <1>7, <1>8

LEMMA Concatenation ==
  ASSUME NEW S, NEW a \in Seq(S), NEW b \in Seq(S)
  PROVE  /\ a \o b \in Seq(S) /\ Len(a \o b) = Len(a) + Len(b) /\ << >> \o b = b
         /\ \A x \in 1..Len(a) : (a \o b)[x] = a[x]
         /\ \A j \in 1..Len(b) : (a \o b)[Len(a) + j] = b[j]
OBVIOUS


\* The rounds of the loop that flattens.
LEMMA FlattenRounds ==
  ASSUME NEW S, NEW seqs \in Seq(Seq(S))
  PROVE  \E f \in [0..Len(seqs) -> Seq(S)] :
           /\ f[0] = << >>
           /\ \A i \in 1..Len(seqs) : f[i] = f[i - 1] \o seqs[i]
           /\ FlattenSeq(seqs) = f[Len(seqs)]
<1> DEFINE n == Len(seqs)
           step == [v \in Seq(S) \X Nat |-> IF v[2] \in 1..n THEN v[1] \o seqs[v[2]] ELSE v[1]]
           body(f, i) == IF i = 1 THEN seqs[i] ELSE f[i - 1] \o seqs[i]
           flatten == CHOOSE f : f = [i \in 1..n |-> body(f, i)]
<1>0. n \in Nat /\ (\A i \in 1..n : seqs[i] \in Seq(S)) /\ << >> \in Seq(S)
  OBVIOUS
<1>1. step \in [Seq(S) \X Nat -> Seq(S)]
  OBVIOUS
<1>2. PICK f \in [0..n -> Seq(S)] : Follows(f, << >>, step, n)
  <2> HIDE DEF step, n
  <2> QED
    BY <1>0, <1>1, Recursion
<1>3. f[0] = << >> /\ \A i \in 1..n : f[i] = f[i - 1] \o seqs[i]
  <2>1. ASSUME NEW i \in 1..n PROVE f[i] = f[i - 1] \o seqs[i]
    <3>1. f[i] = step[<<f[i - 1], i>>]
      BY <1>2 DEF Follows
    <3>2. f[i - 1] \in Seq(S) /\ i \in Nat
      <4>1. i - 1 \in 0..n /\ i \in Nat
        BY <1>0
      <4> HIDE DEF n
      <4> QED
        BY <1>2, <4>1
    <3> QED
      BY <3>1, <3>2
  <2> QED
    BY <1>2, <2>1 DEF Follows
<1>4. CASE n = 0
  <2>1. FlattenSeq(seqs) = seqs /\ seqs = << >>
    BY <1>4 DEF FlattenSeq
  <2> HIDE DEF n
  <2> QED
    BY <1>3, <1>4, <2>1 DEF n
<1>5. CASE n # 0
  <2>1. FlattenSeq(seqs) = flatten[n]
    BY <1>5 DEF FlattenSeq
  <2>2. ASSUME NEW i \in 1..n PROVE f[i] = body(f, i)
    <3>1. CASE i = 1
      <4>1. f[1] = f[0] \o seqs[1]
        <5>1. f[i] = f[i - 1] \o seqs[i]
          BY <1>3
        <5>2. i - 1 = 0
          BY <3>1
        <5> QED
          BY <3>1, <5>1, <5>2
      <4>2. seqs[1] \in Seq(S)
        BY <1>0, <3>1
      <4> QED
        BY <1>0, <1>3, <3>1, <4>1, <4>2, Concatenation
    <3>2. CASE i # 1
      BY <1>3, <3>2
    <3> QED
      BY <3>1, <3>2
  <2> DEFINE g == [i \in 1..n |-> f[i]]
  <2>3. ASSUME NEW i \in 1..n PROVE g[i] = body(g, i)
    <3>1. CASE i = 1
      BY <2>2, <3>1
    <3>2. CASE i # 1
      <4>1. i - 1 \in 1..n
        BY <1>0, <3>2
      <4> QED
        BY <2>2, <3>2, <4>1
    <3> QED
      BY <3>1, <3>2
  <2>4. g = [i \in 1..n |-> body(g, i)]
    <3> HIDE DEF body
    <3>1. \A i \in 1..n : g[i] = body(g, i)
      BY <2>3
    <3> QED
      BY <3>1
  <2>5. flatten = [i \in 1..n |-> body(flatten, i)]
    <3> HIDE DEF body, g
    <3> QED
      BY <2>4
  <2> HIDE DEF flatten
  <2>6. ASSUME NEW i \in 1..n PROVE flatten[i] = body(flatten, i)
    <3> HIDE DEF body
    <3> QED
      BY <2>5
  <2> DEFINE Bad == {i \in 1..n : flatten[i] # f[i]}
  <2>7. Bad = {}
    <3> SUFFICES ASSUME Bad # {} PROVE FALSE
      OBVIOUS
    <3>1. PICK m \in Bad : \A k \in Bad : m <= k
      <4>1. Bad \in SUBSET Nat
        BY <1>0
      <4> HIDE DEF Bad
      <4> QED
        BY <4>1, Least
    <3>2. m # 1
      BY <2>2, <2>6
    <3>3. m - 1 \in 1..n /\ m - 1 \notin Bad
      <4>1. m - 1 \in 1..n /\ ~(m <= m - 1)
        BY <1>0, <3>2
      <4> HIDE DEF Bad
      <4> QED
        BY <3>1, <4>1
    <3>4. flatten[m - 1] = f[m - 1] /\ m \in 1..n
      BY <3>3
    <3> QED
      BY <2>2, <2>6, <3>2, <3>4
  <2>8. flatten[n] = f[n]
    <3>1. n \in 1..n
      <4> HIDE DEF n
      <4> QED
        BY <1>0, <1>5
    <3> HIDE DEF n, step, body, g
    <3> QED
      BY <2>7, <3>1
  <2> HIDE DEF n
  <2> QED
    BY <1>3, <2>1, <2>8 DEF n
<1> QED
  BY <1>4, <1>5

\* Where the sequences are in the flat one: the ith one ends at ends[i].
Placed(flat, seqs, ends) ==
  /\ ends[0] = 0 /\ ends[Len(seqs)] = Len(flat)
  /\ \A i \in 1..Len(seqs) : ends[i] = ends[i - 1] + Len(seqs[i])
  /\ \A i \in 1..Len(seqs) : \A q \in 1..Len(seqs[i]) : flat[ends[i - 1] + q] = seqs[i][q]
  /\ \A p \in 1..Len(flat) : \E i \in 1..Len(seqs) : p \in (ends[i - 1] + 1)..ends[i]

LEMMA Flattened ==
  ASSUME NEW S, NEW seqs \in Seq(Seq(S))
  PROVE  /\ FlattenSeq(seqs) \in Seq(S)
         /\ \E ends \in [0..Len(seqs) -> Nat] : Placed(FlattenSeq(seqs), seqs, ends)
<1> DEFINE n == Len(seqs)
<1>0. n \in Nat /\ (\A i \in 1..n : seqs[i] \in Seq(S) /\ Len(seqs[i]) \in Nat)
  OBVIOUS
<1>1. PICK f \in [0..n -> Seq(S)] :
        /\ f[0] = << >>
        /\ \A i \in 1..n : f[i] = f[i - 1] \o seqs[i]
        /\ FlattenSeq(seqs) = f[n]
  BY FlattenRounds
<1> DEFINE ends == [i \in 0..n |-> Len(f[i])]
<1>2. ends \in [0..n -> Nat] /\ ends[0] = 0
  BY <1>0, <1>1
<1>3. ASSUME NEW i \in 1..n
      PROVE  /\ ends[i] = ends[i - 1] + Len(seqs[i])
             /\ \A p \in 1..ends[i - 1] : f[i][p] = f[i - 1][p]
             /\ \A q \in 1..Len(seqs[i]) : f[i][ends[i - 1] + q] = seqs[i][q]
  <2>1. i - 1 \in 0..n /\ i \in 0..n
    BY <1>0
  <2>2. f[i - 1] \in Seq(S) /\ seqs[i] \in Seq(S) /\ f[i] = f[i - 1] \o seqs[i]
    BY <1>0, <1>1, <2>1
  <2> DEFINE both == f[i - 1] \o seqs[i]
  <2>3. /\ Len(both) = Len(f[i - 1]) + Len(seqs[i])
        /\ \A p \in 1..Len(f[i - 1]) : both[p] = f[i - 1][p]
        /\ \A q \in 1..Len(seqs[i]) : both[Len(f[i - 1]) + q] = seqs[i][q]
    <3>1. \A a \in Seq(S), b \in Seq(S) :
             /\ Len(a \o b) = Len(a) + Len(b)
             /\ \A p \in 1..Len(a) : (a \o b)[p] = a[p]
             /\ \A q \in 1..Len(b) : (a \o b)[Len(a) + q] = b[q]
      BY Concatenation
    <3> QED
      BY <2>2, <3>1, Zenon
  <2>4. f[i] = both
    BY <2>2
  <2>5. ends[i] = Len(f[i]) /\ ends[i - 1] = Len(f[i - 1])
    BY <2>1
  <2> HIDE DEF both
  <2> QED
    BY <2>3, <2>4, <2>5
<1> DEFINE Good(m) == /\ \A i \in 1..m : \A q \in 1..Len(seqs[i]) :
                           ends[i - 1] + q \in 1..ends[m] /\ f[m][ends[i - 1] + q] = seqs[i][q]
                      /\ \A p \in 1..ends[m] : \E i \in 1..m : p \in (ends[i - 1] + 1)..ends[i]
           Bad == {m \in 0..n : ~Good(m)}
<1> HIDE DEF ends
<1>4. Bad = {}
  <2> SUFFICES ASSUME Bad # {} PROVE FALSE
    OBVIOUS
  <2>1. PICK m \in Bad : \A k \in Bad : m <= k
    <3>1. Bad \in SUBSET Nat
      BY <1>0
    <3> HIDE DEF Bad
    <3> QED
      BY <3>1, Least
  <2>2. m \in 0..n /\ ~Good(m)
    OBVIOUS
  <2> HIDE DEF Good
  <2>3. m # 0
    <3>1. Good(0)
      BY <1>2 DEF Good
    <3> QED
      BY <2>2, <3>1
  <2>4. m \in 1..n /\ m - 1 \in 0..n /\ ~(m <= m - 1)
    BY <1>0, <2>2, <2>3
  <2>5. Good(m - 1)
    <3>1. m - 1 \notin Bad
      <4> HIDE DEF Bad
      <4> QED
        BY <2>1, <2>4
    <3> QED
      BY <2>4, <3>1
  <2>6. ends[m] = ends[m - 1] + Len(seqs[m]) /\ Len(seqs[m]) \in Nat /\ ends[m - 1] \in Nat /\ ends[m] \in Nat
    BY <1>0, <1>2, <1>3, <2>4
  <2>7. ASSUME NEW i \in 1..m, NEW q \in 1..Len(seqs[i])
        PROVE  ends[i - 1] + q \in 1..ends[m] /\ f[m][ends[i - 1] + q] = seqs[i][q]
    <3>1. CASE i = m
      <4>1. f[m][ends[m - 1] + q] = seqs[m][q]
        BY <1>3, <2>4, <3>1
      <4>2. q \in 1..Len(seqs[m])
        BY <3>1
      <4>3. ends[m - 1] + q \in 1..ends[m]
        BY <2>6, <4>2
      <4> QED
        BY <3>1, <4>1, <4>3
    <3>2. CASE i # m
      <4>1. i \in 1..(m - 1)
        BY <2>4, <3>2
      <4>2. ends[i - 1] + q \in 1..ends[m - 1] /\ f[m - 1][ends[i - 1] + q] = seqs[i][q]
        BY <2>5, <4>1 DEF Good
      <4>3. f[m][ends[i - 1] + q] = f[m - 1][ends[i - 1] + q]
        BY <1>3, <2>4, <4>2
      <4>4. 1..ends[m - 1] \subseteq 1..ends[m]
        BY <2>6
      <4>5. ends[i - 1] + q \in 1..ends[m]
        BY <4>2, <4>4
      <4> QED
        BY <4>2, <4>3, <4>5
    <3> QED
      BY <3>1, <3>2
  <2>8. ASSUME NEW p \in 1..ends[m] PROVE \E i \in 1..m : p \in (ends[i - 1] + 1)..ends[i]
    <3>1. CASE p <= ends[m - 1]
      <4>1. p \in 1..ends[m - 1]
        BY <2>6, <3>1
      <4>2. PICK i \in 1..(m - 1) : p \in (ends[i - 1] + 1)..ends[i]
        BY <2>5, <4>1 DEF Good
      <4> QED
        BY <2>4, <4>2
    <3>2. CASE ~(p <= ends[m - 1])
      <4>1. p \in (ends[m - 1] + 1)..ends[m] /\ m \in 1..m
        BY <2>4, <2>6, <3>2
      <4> QED
        BY <4>1
    <3> QED
      BY <3>1, <3>2
  <2>9. Good(m)
    BY <2>7, <2>8 DEF Good
  <2> QED
    BY <2>2, <2>9
<1>5. Good(n)
  BY <1>0, <1>4
<1>6. ends[n] = Len(FlattenSeq(seqs)) /\ FlattenSeq(seqs) \in Seq(S)
  BY <1>0, <1>1 DEF ends
<1>7. Placed(FlattenSeq(seqs), seqs, ends)
  BY <1>1, <1>2, <1>3, <1>5, <1>6 DEF Placed
<1> QED
  BY <1>2, <1>6, <1>7

\* Sequences with something between them: the ith one ends at ends[i].
Gap(between, i) == IF i = 1 THEN 0 ELSE Len(between)
Spread(flat, seqs, between, ends) ==
  /\ ends[0] = 0 /\ ends[Len(seqs)] = Len(flat)
  /\ \A i \in 1..Len(seqs) : ends[i] = ends[i - 1] + Gap(between, i) + Len(seqs[i])
  /\ \A i \in 1..Len(seqs) : \A q \in 1..Len(seqs[i]) :
       ends[i - 1] + Gap(between, i) + q \in 1..Len(flat) /\ flat[ends[i - 1] + Gap(between, i) + q] = seqs[i][q]
  /\ \A i \in 1..Len(seqs) : \A q \in 1..Gap(between, i) : flat[ends[i - 1] + q] = between[q]
  /\ \A p \in 1..Len(flat) : \E i \in 1..Len(seqs) :
       \/ \E q \in 1..Gap(between, i) : p = ends[i - 1] + q
       \/ \E q \in 1..Len(seqs[i]) : p = ends[i - 1] + Gap(between, i) + q

LEMMA Between ==
  ASSUME NEW a \in Nat, NEW g \in Nat, NEW l \in Nat, NEW p \in (a + 1)..(a + g + l)
  PROVE  (\E q \in 1..g : p = a + q) \/ (\E q \in 1..l : p = a + g + q)
<1>1. CASE p <= a + g
  <2>1. p - a \in 1..g /\ p = a + (p - a)
    BY <1>1
  <2> QED
    BY <2>1
<1>2. CASE ~(p <= a + g)
  <2>1. p - a - g \in 1..l /\ p = a + g + (p - a - g)
    BY <1>2
  <2> QED
    BY <2>1
<1> QED
  BY <1>1, <1>2

LEMMA JoinedPlaces ==
  ASSUME NEW S, NEW seqs \in Seq(Seq(S)), NEW between \in Seq(S)
  PROVE  /\ Joined(seqs, between) \in Seq(S)
         /\ \E ends \in [0..Len(seqs) -> Nat] : Spread(Joined(seqs, between), seqs, between, ends)
<1> DEFINE n == Len(seqs)
           segment(i) == IF i = 1 THEN seqs[i] ELSE between \o seqs[i]
           segments == [i \in 1..n |-> segment(i)]
           flat == FlattenSeq(segments)
<1>0. n \in Nat /\ DOMAIN seqs = 1..n /\ (\A i \in 1..n : seqs[i] \in Seq(S) /\ Len(seqs[i]) \in Nat) /\ Len(between) \in Nat
  OBVIOUS
<1>1. Joined(seqs, between) = flat
  BY <1>0 DEF Joined
<1>2. ASSUME NEW i \in 1..n
      PROVE  /\ segment(i) \in Seq(S) /\ Len(segment(i)) = Gap(between, i) + Len(seqs[i])
             /\ \A q \in 1..Gap(between, i) : segment(i)[q] = between[q]
             /\ \A q \in 1..Len(seqs[i]) : segment(i)[Gap(between, i) + q] = seqs[i][q]
  <2>1. CASE i = 1
    BY <1>0, <2>1 DEF Gap
  <2>2. CASE i # 1
    <3> DEFINE both == between \o seqs[i]
    <3>1. /\ both \in Seq(S) /\ Len(both) = Len(between) + Len(seqs[i])
          /\ \A p \in 1..Len(between) : both[p] = between[p]
          /\ \A q \in 1..Len(seqs[i]) : both[Len(between) + q] = seqs[i][q]
      <4>1. \A a \in Seq(S), b \in Seq(S) :
             /\ a \o b \in Seq(S) /\ Len(a \o b) = Len(a) + Len(b)
             /\ \A p \in 1..Len(a) : (a \o b)[p] = a[p]
             /\ \A q \in 1..Len(b) : (a \o b)[Len(a) + q] = b[q]
        BY Concatenation
      <4> QED
        BY <1>0, <4>1, Zenon
    <3>2. segment(i) = both /\ Gap(between, i) = Len(between)
      BY <2>2 DEF Gap
    <3> HIDE DEF both, segment
    <3> QED
      BY <3>1, <3>2
  <2> QED
    BY <2>1, <2>2
<1> HIDE DEF segment
<1>3. segments \in Seq(Seq(S)) /\ Len(segments) = n /\ \A i \in 1..n : segments[i] = segment(i)
  BY <1>0, <1>2
<1> HIDE DEF segments
<1>4. flat \in Seq(S) /\ \E ends \in [0..n -> Nat] : Placed(flat, segments, ends)
  BY <1>3, Flattened
<1> HIDE DEF n
<1>5. PICK ends \in [0..n -> Nat] : Placed(flat, segments, ends)
  BY <1>4
<1> HIDE DEF flat
<1>6. /\ ends[0] = 0 /\ ends[n] = Len(flat)
      /\ \A i \in 1..n : ends[i] = ends[i - 1] + Len(segment(i))
      /\ \A i \in 1..n : \A q \in 1..Len(segment(i)) : flat[ends[i - 1] + q] = segment(i)[q]
      /\ \A p \in 1..Len(flat) : \E i \in 1..n : p \in (ends[i - 1] + 1)..ends[i]
  <2>1. Placed(flat, segments, ends) /\ Len(segments) = n /\ \A i \in 1..n : segments[i] = segment(i)
    BY <1>3, <1>5
  <2>2. \A i \in 1..n : ends[i] = ends[i - 1] + Len(segment(i))
    BY <2>1 DEF Placed
  <2>3. \A i \in 1..n : \A q \in 1..Len(segment(i)) : flat[ends[i - 1] + q] = segment(i)[q]
    BY <2>1 DEF Placed
  <2> QED
    BY <2>1, <2>2, <2>3 DEF Placed
<1>7. \A i \in 1..n : i - 1 \in 0..n /\ ends[i - 1] \in Nat /\ ends[i] \in Nat /\ Gap(between, i) \in Nat
  <2>1. \A i \in 1..n : i - 1 \in 0..n /\ i \in 0..n /\ Gap(between, i) \in Nat
    BY <1>0 DEF Gap
  <2> QED
    BY <2>1
<1>8. \A i \in 1..n : ends[i] = ends[i - 1] + Gap(between, i) + Len(seqs[i])
  <2>1. ASSUME NEW i \in 1..n PROVE ends[i] = ends[i - 1] + Gap(between, i) + Len(seqs[i])
    <3>1. Len(segment(i)) = Gap(between, i) + Len(seqs[i]) /\ ends[i] = ends[i - 1] + Len(segment(i))
      BY <1>2, <1>6
    <3>2. ends[i - 1] \in Nat /\ Gap(between, i) \in Nat /\ Len(seqs[i]) \in Nat
      BY <1>0, <1>7
    <3> QED
      BY <3>1, <3>2
  <2> QED
    BY <2>1
<1>9. \A i \in 0..n : ends[i] <= Len(flat)
  <2> DEFINE Bad == {k \in Nat : k <= n /\ ~(ends[n - k] <= Len(flat))}
  <2>1. Bad = {}
    <3> SUFFICES ASSUME Bad # {} PROVE FALSE
      OBVIOUS
    <3>1. PICK m \in Bad : \A k \in Bad : m <= k
      <4>1. Bad \in SUBSET Nat
        OBVIOUS
      <4> HIDE DEF Bad
      <4> QED
        BY <4>1, Least
    <3>2. m \in Nat /\ m <= n /\ ~(ends[n - m] <= Len(flat))
      OBVIOUS
    <3>3. m # 0
      BY <1>0, <1>4, <1>6, <3>2
    <3>4. m - 1 \in Nat /\ m - 1 <= n /\ ~(m <= m - 1)
      BY <1>0, <3>2, <3>3
    <3>5. ends[n - (m - 1)] <= Len(flat)
      <4>1. m - 1 \notin Bad
        <5> HIDE DEF Bad
        <5> QED
          BY <3>1, <3>4
      <4> QED
        BY <3>4, <4>1
    <3>6. n - (m - 1) \in 1..n /\ (n - (m - 1)) - 1 = n - m
      BY <1>0, <3>2, <3>4
    <3>7. ends[n - m] <= ends[n - (m - 1)]
      BY <1>0, <1>7, <1>8, <3>6
    <3>8. ends[n - m] \in Nat /\ ends[n - (m - 1)] \in Nat /\ Len(flat) \in Nat
      BY <1>4, <1>7, <3>6
    <3> QED
      BY <3>2, <3>5, <3>7, <3>8
  <2>2. ASSUME NEW i \in 0..n PROVE ends[i] <= Len(flat)
    <3>1. n - i \in Nat /\ n - i <= n /\ n - (n - i) = i
      BY <1>0
    <3>2. n - i \notin Bad
      BY <2>1
    <3> QED
      BY <3>1, <3>2
  <2> QED
    BY <2>2
<1>10. ASSUME NEW i \in 1..n, NEW q \in 1..Len(seqs[i])
       PROVE  /\ ends[i - 1] + Gap(between, i) + q \in 1..Len(flat)
              /\ flat[ends[i - 1] + Gap(between, i) + q] = seqs[i][q]
  <2>1. Gap(between, i) + q \in 1..Len(segment(i)) /\ segment(i)[Gap(between, i) + q] = seqs[i][q]
    <3>1. Len(seqs[i]) \in Nat /\ Gap(between, i) \in Nat /\ Len(segment(i)) = Gap(between, i) + Len(seqs[i])
      BY <1>0, <1>2, <1>7
    <3>2. segment(i)[Gap(between, i) + q] = seqs[i][q]
      BY <1>2
    <3> QED
      BY <3>1, <3>2
  <2>2. flat[ends[i - 1] + (Gap(between, i) + q)] = segment(i)[Gap(between, i) + q]
    BY <1>6, <2>1
  <2>3. ends[i - 1] + (Gap(between, i) + q) = ends[i - 1] + Gap(between, i) + q
    BY <1>0, <1>7
  <2>4. ends[i] <= Len(flat) /\ Len(flat) \in Nat
    BY <1>4, <1>7, <1>9
  <2>5. ends[i - 1] + Gap(between, i) + q \in 1..Len(flat)
    <3>1. /\ ends[i - 1] \in Nat /\ Gap(between, i) \in Nat /\ Len(seqs[i]) \in Nat
          /\ ends[i] = ends[i - 1] + Gap(between, i) + Len(seqs[i])
      BY <1>0, <1>7, <1>8
    <3> QED
      BY <2>4, <3>1
  <2> QED
    BY <2>1, <2>2, <2>3, <2>5
<1>11. ASSUME NEW i \in 1..n, NEW q \in 1..Gap(between, i) PROVE flat[ends[i - 1] + q] = between[q]
  <2>1. q \in 1..Len(segment(i)) /\ segment(i)[q] = between[q]
    BY <1>0, <1>2, <1>7
  <2> QED
    BY <1>6, <2>1
<1>12. ASSUME NEW p \in 1..Len(flat)
       PROVE  \E i \in 1..n : \/ \E q \in 1..Gap(between, i) : p = ends[i - 1] + q
                              \/ \E q \in 1..Len(seqs[i]) : p = ends[i - 1] + Gap(between, i) + q
  <2>1. PICK i \in 1..n : p \in (ends[i - 1] + 1)..ends[i]
    BY <1>6
  <2>2. /\ ends[i - 1] \in Nat /\ ends[i] \in Nat /\ Gap(between, i) \in Nat /\ Len(seqs[i]) \in Nat
        /\ ends[i] = ends[i - 1] + Gap(between, i) + Len(seqs[i])
    BY <1>0, <1>7, <1>8
  <2>3. p \in (ends[i - 1] + 1)..(ends[i - 1] + Gap(between, i) + Len(seqs[i]))
    BY <2>1, <2>2
  <2>4. \/ \E q \in 1..Gap(between, i) : p = ends[i - 1] + q
        \/ \E q \in 1..Len(seqs[i]) : p = ends[i - 1] + Gap(between, i) + q
    BY <2>2, <2>3, Between
  <2> QED
    BY <2>4
<1>13. Spread(flat, seqs, between, ends)
  BY <1>6, <1>8, <1>10, <1>11, <1>12 DEF Spread, n
<1>14. ends \in [0..Len(seqs) -> Nat]
  BY DEF n
<1> QED
  BY <1>1, <1>4, <1>13, <1>14

\* A sequence between two brackets.
LEMMA Enclosed ==
  ASSUME NEW S, NEW a \in S, NEW b \in S, NEW s \in Seq(S)
  PROVE  LET all == <<a>> \o s \o <<b>>
         IN  /\ all \in Seq(S) /\ Len(all) = Len(s) + 2
             /\ all[1] = a /\ all[Len(s) + 2] = b
             /\ \A p \in 1..Len(s) : all[p + 1] = s[p]
<1>1. <<a>> \in Seq(S) /\ Len(<<a>>) = 1 /\ <<b>> \in Seq(S) /\ Len(<<b>>) = 1 /\ Len(s) \in Nat
  OBVIOUS
<1> DEFINE first == <<a>> \o s
           all == first \o <<b>>
<1>2. first \in Seq(S) /\ Len(first) = Len(s) + 1 /\ first[1] = a /\ \A p \in 1..Len(s) : first[p + 1] = s[p]
  BY <1>1
<1> HIDE DEF first
<1>3. all \in Seq(S) /\ Len(all) = Len(first) + 1 /\ all[Len(first) + 1] = b /\ \A p \in 1..Len(first) : all[p] = first[p]
  BY <1>1, <1>2
<1> HIDE DEF all
<1>4. /\ all \in Seq(S) /\ Len(all) = Len(s) + 2 /\ all[1] = a /\ all[Len(s) + 2] = b
      /\ \A p \in 1..Len(s) : all[p + 1] = s[p]
  BY <1>1, <1>2, <1>3
<1> QED
  BY <1>4 DEF all, first


-----------------------------------------------------------------------------
(* The search for a field *)

Keys == {"input", "model", "priority"}
Tokens == Punctuation \cup Floats \cup Keys \cup Models

LEMMA SkipIs ==
  ASSUME NEW text \in Seq(Tokens), NEW i \in Nat, NEW S, NEW j \in i..(Len(text) + 1),
         \A k \in i..(j - 1) : text[k] \in S,
         j <= Len(text) => text[j] \notin S
  PROVE  Skip(text, i, S) = j
<1> DEFINE P(m) == (\A k \in i..(m - 1) : text[k] \in S) /\ (m <= Len(text) => text[m] \notin S)
<1>1. Len(text) \in Nat /\ P(j)
  OBVIOUS
<1>2. ASSUME NEW m \in i..(Len(text) + 1), P(m) PROVE m = j
  <2>1. ~(m < j)
    BY <1>1, <1>2
  <2>2. ~(j < m)
    BY <1>1, <1>2
  <2> QED
    BY <1>1, <2>1, <2>2
<1>3. Skip(text, i, S) = CHOOSE m \in i..(Len(text) + 1) : P(m)
  BY DEF Skip
<1> HIDE DEF P
<1> QED
  BY <1>1, <1>2, <1>3

LEMMA FourTokens ==
  ASSUME NEW S, NEW a \in S, NEW b \in S, NEW c \in S, NEW d \in S
  PROVE  <<a, b, c, d>> \in Seq(S)
OBVIOUS

\* Where strstr finds a key.
Stands(text, key, i) ==
  i + 3 <= Len(text) /\ text[i] = "quote" /\ text[i + 1] = key /\ text[i + 2] = "quote" /\ text[i + 3] = ":"

LEMMA Occurs ==
  ASSUME NEW text \in Seq(Tokens), NEW key \in Tokens, NEW i \in 1..Len(text)
  PROVE  IsPrefix(Search(key), SubSeq(text, i, Len(text))) <=> Stands(text, key, i)
<1> DEFINE n == Len(text)
           rest == SubSeq(text, i, n)
           s == Search(key)
<1>1. n \in Nat /\ i \in Nat /\ 1 <= i /\ i <= n
  OBVIOUS
<1>2. rest \in Seq(Tokens) /\ Len(rest) = n - i + 1 /\ \A k \in 1..(n - i + 1) : rest[k] = text[i + k - 1]
  BY <1>1
<1>3. s \in Seq(Tokens) /\ Len(s) = 4 /\ s[1] = "quote" /\ s[2] = key /\ s[3] = "quote" /\ s[4] = ":"
  <2>1. Len(s) = 4 /\ s[1] = "quote" /\ s[2] = key /\ s[3] = "quote" /\ s[4] = ":"
    BY DEF Search
  <2>2. Search(key) \in Seq(Tokens)
    <3>1. "quote" \in Tokens /\ ":" \in Tokens
      BY DEF Tokens, Punctuation
    <3> QED
      BY <3>1, FourTokens DEF Search
  <2> QED
    BY <2>1, <2>2
<1>4. IsPrefix(s, rest) <=> Len(s) <= Len(rest) /\ SubSeq(s, 1, Len(s)) = SubSeq(rest, 1, Len(s))
  BY DEF IsPrefix
<1> HIDE DEF n, rest, s
<1> SUFFICES IsPrefix(s, rest) <=> Stands(text, key, i)
  BY DEF s, rest, n
<1>5. CASE Len(rest) < 4
  BY <1>1, <1>2, <1>3, <1>4, <1>5 DEF Stands, n, rest, s
<1>6. CASE Len(rest) >= 4
  <2>1. SubSeq(s, 1, 4) = s
    BY <1>3
  <2>2. SubSeq(rest, 1, 4) \in Seq(Tokens) /\ Len(SubSeq(rest, 1, 4)) = 4 /\ \A k \in 1..4 : SubSeq(rest, 1, 4)[k] = rest[k]
    BY <1>2, <1>6
  <2>3. s = SubSeq(rest, 1, 4) <=> \A k \in 1..4 : s[k] = rest[k]
    <3>1. ASSUME \A k \in 1..4 : s[k] = rest[k] PROVE s = SubSeq(rest, 1, 4)
      BY <1>3, <2>2, <3>1
    <3> QED
      BY <2>2, <3>1
  <2>4. (\A k \in 1..4 : s[k] = rest[k]) <=> s[1] = rest[1] /\ s[2] = rest[2] /\ s[3] = rest[3] /\ s[4] = rest[4]
    OBVIOUS
  <2>5. rest[1] = text[i] /\ rest[2] = text[i + 1] /\ rest[3] = text[i + 2] /\ rest[4] = text[i + 3]
    BY <1>1, <1>2, <1>6
  <2>6. i + 3 <= n
    BY <1>1, <1>2, <1>6
  <2> QED
    BY <1>3, <1>4, <1>6, <2>1, <2>3, <2>4, <2>5, <2>6 DEF Stands, n, rest, s
<1> QED
  <2>1. Len(rest) < 4 \/ Len(rest) >= 4
    BY <1>1, <1>2
  <2> QED
    BY <2>1, <1>5, <1>6, Zenon

LEMMA KeyFound ==
  ASSUME NEW text \in Seq(Tokens), NEW key \in Tokens, NEW i \in 1..Len(text), Stands(text, key, i),
         \A j \in 1..Len(text) : Stands(text, key, j) => j = i
  PROVE  HasKey(text, key) /\ FirstKey(text, key) = i
<1> DEFINE P(j) == IsPrefix(Search(key), SubSeq(text, j, Len(text)))
<1>1. DOMAIN text = 1..Len(text) /\ Len(text) \in Nat
  OBVIOUS
<1>2. \A j \in 1..Len(text) : P(j) <=> j = i
  BY Occurs
<1>3. HasKey(text, key) <=> \E j \in DOMAIN text : P(j)
  BY DEF HasKey
<1>4. FirstKey(text, key) = CHOOSE j \in DOMAIN text : P(j) /\ \A k \in 1..(j - 1) : ~P(k)
  BY DEF FirstKey
<1> HIDE DEF P
<1>5. \A k \in 1..(i - 1) : ~P(k)
  BY <1>1, <1>2
<1> QED
  BY <1>1, <1>2, <1>3, <1>4, <1>5

LEMMA KeyMissing ==
  ASSUME NEW text \in Seq(Tokens), NEW key \in Tokens, \A j \in 1..Len(text) : ~Stands(text, key, j)
  PROVE  ~HasKey(text, key)
<1>1. DOMAIN text = 1..Len(text)
  OBVIOUS
<1>2. \A j \in 1..Len(text) : ~IsPrefix(Search(key), SubSeq(text, j, Len(text)))
  BY Occurs
<1> QED
  BY <1>1, <1>2 DEF HasKey

\* Without a key every field has its default.
LEMMA Defaults ==
  ASSUME NEW text, NEW key, ~HasKey(text, key)
  PROVE  GetString(text, key) = "" /\ GetFloatArray(text, key) = << >> /\ \A d : GetInt(text, key, d) = d
BY DEF GetString, GetFloatArray, GetInt

-----------------------------------------------------------------------------
(* The array *)

\* The rounds of the loop that reads numbers.
Reads(f, text, first, n) ==
  /\ f[0] = << >>
  /\ \A i \in 1..n : /\ text[first + i - 1] \notin Floats => f[i] = f[i - 1]
                     /\ text[first + i - 1] \in Floats => f[i] = Append(f[i - 1], text[first + i - 1])

LEMMA NumbersRounds ==
  ASSUME NEW text, NEW first \in Nat, NEW n \in Nat
  PROVE  \E f \in [0..n -> Seq(Floats)] : Reads(f, text, first, n) /\ NumbersOf(text, first, n) = f[n]
<1> DEFINE D == Seq(Floats)
           item(i) == text[first + i - 1]
           more(v, i) == IF item(i) \in Floats THEN Append(v, item(i)) ELSE v
           step == [v \in D \X Nat |-> more(v[1], v[2])]
           body(f, i) == IF i = 0 THEN << >> ELSE more(f[i - 1], i)
           numbers == CHOOSE f : f = [i \in 0..n |-> body(f, i)]
<1>1. \A v \in D, i \in Nat : more(v, i) \in D
  <2> HIDE DEF item
  <2> QED
    OBVIOUS
<1>2. NumbersOf(text, first, n) = numbers[n]
  BY DEF NumbersOf
<1>3. << >> \in D
  OBVIOUS
<1> HIDE DEF D, more
<1>4. PICK f \in [0..n -> D] : Follows(f, << >>, step, n)
  <2>1. step \in [D \X Nat -> D]
    BY <1>1
  <2> HIDE DEF step
  <2> QED
    BY <1>3, <2>1, Recursion
<1>5. f[0] = << >> /\ \A i \in 1..n : f[i] = more(f[i - 1], i)
  <2>1. ASSUME NEW i \in 1..n PROVE f[i] = more(f[i - 1], i)
    <3>1. f[i] = step[<<f[i - 1], i>>]
      BY <1>4 DEF Follows
    <3>2. f[i - 1] \in D /\ i \in Nat
      BY <1>4
    <3> QED
      BY <3>1, <3>2
  <2> QED
    BY <1>4, <2>1 DEF Follows
<1>6. f = [i \in 0..n |-> body(f, i)]
  <2>1. ASSUME NEW i \in 0..n PROVE f[i] = body(f, i)
    <3>1. CASE i = 0
      BY <1>5, <3>1
    <3>2. CASE i # 0
      <4>1. i \in 1..n
        BY <3>2
      <4> QED
        BY <1>5, <3>2, <4>1
    <3> QED
      BY <3>1, <3>2
  <2> HIDE DEF body
  <2> QED
    BY <1>4, <2>1
<1>7. numbers = [i \in 0..n |-> body(numbers, i)]
  <2> HIDE DEF body
  <2> QED
    BY <1>6
<1> HIDE DEF numbers
<1>8. numbers[0] = << >> /\ \A i \in 1..n : numbers[i] = more(numbers[i - 1], i)
  <2>1. \A i \in 0..n : numbers[i] = body(numbers, i)
    <3> HIDE DEF body
    <3> QED
      BY <1>7
  <2>2. ASSUME NEW i \in 1..n PROVE numbers[i] = more(numbers[i - 1], i)
    <3>1. i \in 0..n /\ i # 0
      OBVIOUS
    <3> QED
      BY <2>1, <3>1
  <2>3. 0 \in 0..n
    OBVIOUS
  <2> QED
    BY <2>1, <2>2, <2>3
<1> DEFINE Bad == {i \in 0..n : numbers[i] # f[i]}
<1>9. Bad = {}
  <2> SUFFICES ASSUME Bad # {} PROVE FALSE
    OBVIOUS
  <2>1. PICK m \in Bad : \A k \in Bad : m <= k
    <3>1. Bad \in SUBSET Nat
      OBVIOUS
    <3> HIDE DEF Bad
    <3> QED
      BY <3>1, Least
  <2>2. m # 0
    BY <1>5, <1>8
  <2>3. m \in 1..n /\ m - 1 \in 0..n /\ ~(m <= m - 1)
    BY <2>2
  <2>4. m - 1 \notin Bad
    <3> HIDE DEF Bad
    <3> QED
      BY <2>1, <2>3
  <2>5. numbers[m - 1] = f[m - 1]
    BY <2>3, <2>4
  <2> QED
    BY <1>5, <1>8, <2>3, <2>5
<1>10. numbers[n] = f[n]
  BY <1>9
<1>11. f \in [0..n -> Seq(Floats)] /\ Reads(f, text, first, n)
  BY <1>4, <1>5 DEF more, D, Reads
<1> QED
  BY <1>2, <1>10, <1>11

LEMMA StaysSame ==
  ASSUME NEW f, NEW a \in Nat, NEW g \in Nat, \A q \in 1..g : f[a + q] = f[a + q - 1]
  PROVE  f[a + g] = f[a]
<1> DEFINE Bad == {q \in 0..g : f[a + q] # f[a]}
<1> SUFFICES ASSUME f[a + g] # f[a] PROVE FALSE
  OBVIOUS
<1>0. Bad # {}
  <2>1. g \in 0..g
    OBVIOUS
  <2> QED
    BY <2>1
<1>1. PICK m \in Bad : \A k \in Bad : m <= k
  <2>1. Bad \in SUBSET Nat
    OBVIOUS
  <2> HIDE DEF Bad
  <2> QED
    BY <1>0, <2>1, Least
<1>2. m \in 0..g /\ f[a + m] # f[a] /\ m # 0
  <2>1. a + 0 = a
    OBVIOUS
  <2> QED
    BY <2>1
<1>3. m \in 1..g /\ m - 1 \in 0..g /\ ~(m <= m - 1) /\ a + (m - 1) = a + m - 1
  BY <1>2
<1>4. m - 1 \notin Bad
  <2> HIDE DEF Bad
  <2> QED
    BY <1>1, <1>3
<1>5. f[a + (m - 1)] = f[a]
  BY <1>3, <1>4
<1> QED
  BY <1>2, <1>3, <1>5

Singles(x) == [i \in DOMAIN x |-> <<x[i]>>]

\* What stands in the array is read, whatever is between the numbers.
LEMMA NumbersRead ==
  ASSUME NEW text, NEW first \in Nat, NEW x \in Seq(Floats), NEW between, Len(between) \in Nat,
         \A q \in 1..Len(between) : between[q] \notin Floats,
         NEW flat, Len(flat) \in Nat, NEW ends \in [0..Len(x) -> Nat], Spread(flat, Singles(x), between, ends),
         \A p \in 1..Len(flat) : text[first + p - 1] = flat[p]
  PROVE  NumbersOf(text, first, Len(flat)) = x
<1> DEFINE n == Len(x)
           end == Len(flat)
<1>0. n \in Nat /\ end \in Nat /\ (\A i \in 1..n : x[i] \in Floats /\ Gap(between, i) \in Nat)
      /\ \A i \in 1..n : \A q \in 1..Gap(between, i) : between[q] \notin Floats
  BY DEF Gap
<1>1. PICK f \in [0..end -> Seq(Floats)] : Reads(f, text, first, end) /\ NumbersOf(text, first, end) = f[end]
  <2> HIDE DEF end
  <2>1. end \in Nat
    BY <1>0
  <2> QED
    BY <2>1, NumbersRounds
<1>2. Len(Singles(x)) = n /\ \A i \in 1..n : Singles(x)[i] = <<x[i]>> /\ Len(Singles(x)[i]) = 1 /\ Singles(x)[i][1] = x[i]
  BY <1>0 DEF Singles
<1> HIDE DEF end, n
<1>3. /\ ends[0] = 0 /\ ends[n] = end
      /\ \A i \in 1..n : ends[i] = ends[i - 1] + Gap(between, i) + 1
      /\ \A i \in 1..n : ends[i - 1] + Gap(between, i) + 1 \in 1..end /\ flat[ends[i - 1] + Gap(between, i) + 1] = x[i]
      /\ \A i \in 1..n : \A q \in 1..Gap(between, i) : flat[ends[i - 1] + q] = between[q]
  <2>1. Spread(flat, Singles(x), between, ends) /\ 1 \in 1..1
    OBVIOUS
  <2>2. \A i \in 1..n : ends[i] = ends[i - 1] + Gap(between, i) + 1
    BY <1>2, <2>1 DEF Spread
  <2>3. \A i \in 1..n : ends[i - 1] + Gap(between, i) + 1 \in 1..end /\ flat[ends[i - 1] + Gap(between, i) + 1] = x[i]
    BY <1>2, <2>1 DEF Spread, end
  <2> QED
    BY <1>2, <2>1, <2>2, <2>3 DEF Spread, end
<1>4. \A p \in 1..end : /\ flat[p] \notin Floats => f[p] = f[p - 1]
                        /\ flat[p] \in Floats => f[p] = Append(f[p - 1], flat[p])
  BY <1>1 DEF Reads, end
<1>5. \A i \in 1..n : i - 1 \in 0..n /\ ends[i - 1] \in Nat /\ ends[i] \in Nat /\ Gap(between, i) \in Nat
  <2>1. \A i \in 1..n : i - 1 \in 0..n /\ i \in 0..n
    BY <1>0
  <2> QED
    BY <1>0, <2>1 DEF n
<1> DEFINE Bad == {i \in 0..n : f[ends[i]] # SubSeq(x, 1, i)}
<1>6. Bad = {}
  <2> SUFFICES ASSUME Bad # {} PROVE FALSE
    OBVIOUS
  <2>1. PICK m \in Bad : \A k \in Bad : m <= k
    <3>1. Bad \in SUBSET Nat
      BY <1>0
    <3> HIDE DEF Bad
    <3> QED
      BY <3>1, Least
  <2>2. m \in 0..n /\ f[ends[m]] # SubSeq(x, 1, m) /\ m # 0
    <3>1. SubSeq(x, 1, 0) = << >>
      OBVIOUS
    <3> QED
      BY <1>1, <1>3, <3>1 DEF Reads
  <2>3. m \in 1..n /\ m - 1 \in 0..n /\ ~(m <= m - 1)
    BY <1>0, <2>2
  <2>4. m - 1 \notin Bad
    <3> HIDE DEF Bad
    <3> QED
      BY <2>1, <2>3
  <2>5. f[ends[m - 1]] = SubSeq(x, 1, m - 1)
    BY <2>3, <2>4
  <2> DEFINE a == ends[m - 1]
             g == Gap(between, m)
  <2>6. a \in Nat /\ g \in Nat /\ ends[m] = a + g + 1 /\ a + g + 1 \in 1..end /\ flat[a + g + 1] = x[m] /\ x[m] \in Floats
    BY <1>0, <1>3, <1>5, <2>3
  <2> HIDE DEF a
  <2>7. ASSUME NEW q \in 1..g PROVE f[a + q] = f[a + q - 1]
    <3>1. a + q \in 1..end
      BY <1>0, <2>6
    <3>2. flat[a + q] = between[q] /\ between[q] \notin Floats
      BY <1>0, <1>3, <2>3 DEF a
    <3>3. flat[a + q] \notin Floats
      BY <3>2
    <3>4. f[a + q] = f[(a + q) - 1]
      BY <1>4, <3>1, <3>3
    <3>5. (a + q) - 1 = a + q - 1
      BY <2>6
    <3> QED
      BY <3>4, <3>5
  <2> HIDE DEF g
  <2>8. f[a + g] = f[a]
    BY <2>6, <2>7, StaysSame
  <2>9. f[a + g + 1] = Append(f[a + g], x[m])
    <3> DEFINE p == a + g + 1
    <3>1. p - 1 = a + g
      BY <2>6
    <3>2. p \in 1..end /\ flat[p] = x[m] /\ flat[p] \in Floats
      BY <2>6
    <3> HIDE DEF p
    <3>3. f[p] = Append(f[p - 1], x[m])
      BY <1>4, <3>2
    <3>4. f[p] = Append(f[a + g], x[m])
      BY <3>1, <3>3
    <3> QED
      BY <3>4 DEF p
  <2>10. Append(SubSeq(x, 1, m - 1), x[m]) = SubSeq(x, 1, m)
    BY <2>3 DEF n
  <2>11. f[ends[m]] = Append(f[a + g], x[m])
    BY <2>6, <2>9
  <2> QED
    BY <2>2, <2>5, <2>8, <2>10, <2>11 DEF a
<1>7. f[end] = SubSeq(x, 1, n)
  <2>1. n \in 0..n
    BY <1>0
  <2>2. f[ends[n]] = SubSeq(x, 1, n)
    BY <1>6, <2>1
  <2> QED
    BY <1>3, <2>2
<1>8. SubSeq(x, 1, n) = x
  BY DEF n
<1> QED
  BY <1>1, <1>7, <1>8 DEF end

\* Where an array that is written with its numbers in flat begins.
ArrayAt(text, first, flat) ==
  /\ first \in Nat \ {0} /\ Len(flat) \in Nat /\ first + Len(flat) <= Len(text)
  /\ text[first + Len(flat)] = "]"
  /\ \A p \in 1..Len(flat) : text[first + p - 1] = flat[p]

LEMMA EndIs ==
  ASSUME NEW text, NEW first \in Nat, Len(text) \in Nat, NEW e \in first..(Len(text) + 1), Ends(text, e),
         \A j \in first..(e - 1) : ~Ends(text, j)
  PROVE  ArrayEnd(text, first) = e
<1> DEFINE P(i) == Ends(text, i) /\ \A j \in first..(i - 1) : ~Ends(text, j)
<1>1. ASSUME NEW m \in first..(Len(text) + 1), P(m) PROVE m = e
  BY <1>1
<1>2. ArrayEnd(text, first) = CHOOSE i \in first..(Len(text) + 1) : P(i)
  BY DEF ArrayEnd
<1>3. P(e)
  OBVIOUS
<1> HIDE DEF P
<1> QED
  BY <1>1, <1>2, <1>3

\* What ends an array and what does not.
LEMMA WhatEnds ==
  ASSUME NEW text \in Seq(Tokens), NEW i \in 1..Len(text)
  PROVE  /\ text[i] \in Floats \cup {"comma", "space"} => ~Ends(text, i)
         /\ text[i] = "]" => Ends(text, i)
         /\ i + 2 <= Len(text) /\ text[i] = "newline" /\ text[i + 1] = "space" /\ text[i + 2] \in Floats => ~Ends(text, i)
         /\ i + 1 <= Len(text) /\ text[i] = "newline" /\ text[i + 1] = "comma" => Ends(text, i)
<1>1. At(text, i) = text[i] /\ Len(text) \in Nat
  BY DEF At
<1>2. text[i] \in Floats \cup {"comma", "space"} => ~Ends(text, i)
  BY <1>1 DEF Ends, Blanks, Floats
<1>3. text[i] = "]" => Ends(text, i)
  BY <1>1 DEF Ends, Blanks, Floats
<1>4. ASSUME i + 2 <= Len(text), text[i] = "newline", text[i + 1] = "space", text[i + 2] \in Floats
      PROVE  ~Ends(text, i)
  <2>1. Skip(text, i, Blanks) = i + 2
    <3>1. i + 2 \in i..(Len(text) + 1) /\ i \in Nat
      BY <1>1, <1>4
    <3>2. \A k \in i..(i + 2 - 1) : text[k] \in Blanks
      <4>1. \A k \in i..(i + 2 - 1) : k = i \/ k = i + 1
        OBVIOUS
      <4> QED
        BY <1>4, <4>1 DEF Blanks
    <3>3. text[i + 2] \notin Blanks
      BY <1>4 DEF Blanks, Floats
    <3> QED
      BY <3>1, <3>2, <3>3, SkipIs
  <2>2. At(text, i + 2) \in Floats
    BY <1>4 DEF At
  <2> QED
    BY <1>1, <1>4, <2>1, <2>2 DEF Ends, Blanks
<1>5. ASSUME i + 1 <= Len(text), text[i] = "newline", text[i + 1] = "comma" PROVE Ends(text, i)
  <2>1. Skip(text, i, Blanks) = i + 1
    <3>1. i + 1 \in i..(Len(text) + 1) /\ i \in Nat
      BY <1>1, <1>5
    <3>2. \A k \in i..(i + 1 - 1) : text[k] \in Blanks
      <4>1. \A k \in i..(i + 1 - 1) : k = i
        OBVIOUS
      <4> QED
        BY <1>5, <4>1 DEF Blanks
    <3>3. text[i + 1] \notin Blanks
      BY <1>5 DEF Blanks
    <3> QED
      BY <3>1, <3>2, <3>3, SkipIs
  <2>2. At(text, i + 1) \notin Floats
    BY <1>5 DEF At, Floats
  <2> QED
    BY <1>1, <1>5, <2>1, <2>2 DEF Ends
<1> QED
  BY <1>2, <1>3, <1>4, <1>5

PlainCommas == {<<"comma">>, <<"comma", "space">>, <<"comma", "newline", "space">>}

LEMMA PlainArray ==
  ASSUME NEW text \in Seq(Tokens), NEW first, NEW flat, ArrayAt(text, first, flat),
         NEW x \in Seq(Floats), NEW between \in Seq(Tokens), between \in PlainCommas, NEW ends \in [0..Len(x) -> Nat],
         Spread(flat, Singles(x), between, ends)
  PROVE  NumbersOf(text, first, ArrayEnd(text, first) - first) = x
<1> DEFINE n == Len(x)
           end == first + Len(flat)
<1>0. /\ n \in Nat /\ Len(text) \in Nat /\ first \in Nat /\ first > 0 /\ Len(flat) \in Nat /\ end <= Len(text)
      /\ text[end] = "]" /\ \A p \in 1..Len(flat) : text[first + p - 1] = flat[p]
  BY DEF ArrayAt
<1>1. /\ Len(between) \in 1..3 /\ between[1] = "comma"
      /\ \/ Len(between) = 1
         \/ Len(between) = 2 /\ between[2] = "space"
         \/ Len(between) = 3 /\ between[2] = "newline" /\ between[3] = "space"
  <2>1. CASE between = <<"comma">>
    BY <2>1
  <2>2. CASE between = <<"comma", "space">>
    BY <2>2
  <2>3. CASE between = <<"comma", "newline", "space">>
    BY <2>3
  <2> QED
    BY <2>1, <2>2, <2>3 DEF PlainCommas
<1>2. \A i \in 1..n : Gap(between, i) \in {0, Len(between)}
  BY DEF Gap
<1>3. Len(Singles(x)) = n /\ \A i \in 1..n : x[i] \in Floats /\ Len(Singles(x)[i]) = 1 /\ Singles(x)[i][1] = x[i]
  BY DEF Singles
<1> HIDE DEF n, end
<1>4. /\ \A i \in 1..n : ends[i - 1] + Gap(between, i) + 1 \in 1..Len(flat) /\ flat[ends[i - 1] + Gap(between, i) + 1] = x[i]
      /\ \A i \in 1..n : \A q \in 1..Gap(between, i) : flat[ends[i - 1] + q] = between[q]
      /\ \A p \in 1..Len(flat) : \E i \in 1..n :
           (\E q \in 1..Gap(between, i) : p = ends[i - 1] + q) \/ p = ends[i - 1] + Gap(between, i) + 1
  <2>1. Spread(flat, Singles(x), between, ends) /\ 1 \in 1..1 /\ \A q \in 1..1 : q = 1
    OBVIOUS
  <2>2. \A i \in 1..n : ends[i - 1] + Gap(between, i) + 1 \in 1..Len(flat) /\ flat[ends[i - 1] + Gap(between, i) + 1] = x[i]
    BY <1>3, <2>1 DEF Spread
  <2>3. \A i \in 1..n : \A q \in 1..Gap(between, i) : flat[ends[i - 1] + q] = between[q]
    BY <1>3, <2>1 DEF Spread
  <2>4. ASSUME NEW p \in 1..Len(flat)
        PROVE  \E i \in 1..n : (\E q \in 1..Gap(between, i) : p = ends[i - 1] + q) \/ p = ends[i - 1] + Gap(between, i) + 1
    <3>1. PICK i \in 1..n : \/ \E q \in 1..Gap(between, i) : p = ends[i - 1] + q
                            \/ \E q \in 1..Len(Singles(x)[i]) : p = ends[i - 1] + Gap(between, i) + q
      BY <1>3, <2>1 DEF Spread
    <3>2. Len(Singles(x)[i]) = 1
      BY <1>3
    <3> QED
      BY <2>1, <3>1, <3>2
  <2> QED
    BY <2>2, <2>3, <2>4
<1>5. ASSUME NEW p \in 1..Len(flat) PROVE ~Ends(text, first + p - 1)
  <2> DEFINE j == first + p - 1
  <2>1. j \in 1..Len(text) /\ j + 2 = first + (p + 2) - 1 /\ j + 1 = first + (p + 1) - 1 /\ text[j] = flat[p]
    BY <1>0 DEF end
  <2> HIDE DEF j
  <2>2. PICK i \in 1..n : (\E q \in 1..Gap(between, i) : p = ends[i - 1] + q) \/ p = ends[i - 1] + Gap(between, i) + 1
    BY <1>4
  <2>3. i - 1 \in 0..n /\ ends[i - 1] \in Nat
    <3>1. i - 1 \in 0..n
      BY <1>0
    <3> QED
      BY <3>1 DEF n
  <2>4. CASE p = ends[i - 1] + Gap(between, i) + 1
    <3>1. text[j] \in Floats
      BY <1>3, <1>4, <2>1, <2>4
    <3> QED
      BY <2>1, <3>1, WhatEnds DEF j
  <2>5. CASE \E q \in 1..Gap(between, i) : p = ends[i - 1] + q
    <3>1. PICK q \in 1..Gap(between, i) : p = ends[i - 1] + q
      BY <2>5
    <3>2. Gap(between, i) = Len(between) /\ text[j] = between[q]
      <4>1. Gap(between, i) = Len(between)
        BY <1>2
      <4>2. flat[ends[i - 1] + q] = between[q]
        BY <1>4
      <4> QED
        BY <2>1, <3>1, <4>1, <4>2
    <3>3. CASE between[q] # "newline"
      <4>1. q \in 1..Len(between)
        BY <3>2
      <4>2. between[q] \in {"comma", "space"}
        BY <1>1, <3>3, <4>1
      <4>3. text[j] \in {"comma", "space"}
        BY <3>2, <4>2
      <4> QED
        BY <2>1, <4>3, WhatEnds DEF j
    <3>4. CASE between[q] = "newline"
      <4>1. q = 2 /\ Len(between) = 3 /\ between[3] = "space"
        <5>1. q \in 1..Len(between)
          BY <3>2
        <5> HIDE DEF n, end
        <5>2. q # 1
          BY <1>1, <3>4
        <5>3. Len(between) = 1 => q = 1
          BY <5>1
        <5>4. Len(between) = 2 => q = 1 \/ q = 2
          BY <5>1
        <5>5. Len(between) = 3 => q = 1 \/ q = 2 \/ q = 3
          BY <5>1
        <5>6. CASE Len(between) = 2 /\ between[2] = "space"
          BY <3>4, <5>2, <5>4, <5>6
        <5>7. CASE Len(between) = 3 /\ between[2] = "newline" /\ between[3] = "space"
          BY <3>4, <5>2, <5>5, <5>7
        <5> QED
          BY <1>1, <5>2, <5>3, <5>6, <5>7
      <4>2. 3 \in 1..Gap(between, i) /\ p + 1 = ends[i - 1] + 3 /\ p + 2 = ends[i - 1] + Gap(between, i) + 1
        BY <2>3, <3>1, <3>2, <4>1
      <4>3. flat[p + 1] = "space" /\ flat[p + 2] \in Floats /\ p + 2 \in 1..Len(flat)
        <5>1. flat[ends[i - 1] + 3] = between[3]
          BY <1>4, <4>2
        <5>2. p + 2 \in 1..Len(flat) /\ flat[p + 2] = x[i]
          BY <1>4, <4>2
        <5> QED
          BY <1>3, <4>1, <4>2, <5>1, <5>2
      <4>4. p + 1 \in 1..Len(flat)
        BY <1>0, <4>3
      <4>5. text[j + 1] = "space" /\ text[j + 2] \in Floats /\ text[j] = "newline"
        BY <1>0, <2>1, <3>2, <3>4, <4>3, <4>4
      <4>6. j + 2 <= Len(text)
        BY <1>0, <2>1, <4>3 DEF end
      <4> QED
        BY <2>1, <4>5, <4>6, WhatEnds DEF j
    <3> QED
      BY <3>3, <3>4
  <2> QED
    BY <2>2, <2>4, <2>5
<1>6. ArrayEnd(text, first) = end
  <2>1. end \in first..(Len(text) + 1) /\ end \in 1..Len(text)
    BY <1>0 DEF end
  <2>2. Ends(text, end)
    BY <1>0, <2>1, WhatEnds
  <2>3. ASSUME NEW j \in first..(end - 1) PROVE ~Ends(text, j)
    <3>1. j - first + 1 \in 1..Len(flat) /\ first + (j - first + 1) - 1 = j
      BY <1>0 DEF end
    <3> QED
      BY <1>5, <3>1
  <2> QED
    BY <1>0, <2>1, <2>2, <2>3, EndIs
<1>7. end - first = Len(flat)
  BY <1>0 DEF end
<1>8. NumbersOf(text, first, Len(flat)) = x
  <2> HIDE DEF n, end
  <2>1. Len(between) \in Nat /\ \A q \in 1..Len(between) : between[q] \notin Floats
    <3>1. {"comma", "space", "newline"} \cap Floats = {}
      BY DEF Floats
    <3>2. Len(between) \in 1..3
      BY <1>1
    <3>3. \A q \in 1..Len(between) : between[q] \in {"comma", "space", "newline"}
      <4>1. CASE Len(between) = 1
        BY <1>1, <4>1
      <4>2. CASE Len(between) = 2
        BY <1>1, <4>2
      <4>3. CASE Len(between) = 3
        BY <1>1, <4>3
      <4> QED
        BY <1>1, <4>1, <4>2, <4>3
    <3> QED
      BY <3>1, <3>2, <3>3
  <2>2. first \in Nat /\ Len(flat) \in Nat /\ \A p \in 1..Len(flat) : text[first + p - 1] = flat[p]
    BY <1>0
  <2> QED
    BY <2>1, <2>2, NumbersRead
<1> QED
  BY <1>6, <1>7, <1>8

\* With line ends before its commas an array has its first number at most.
LEMMA OddArray ==
  ASSUME NEW text \in Seq(Tokens), NEW first, NEW flat, ArrayAt(text, first, flat),
         NEW x \in Seq(Floats), NEW between \in Seq(Tokens),
         Len(between) = 2, between[1] = "newline", between[2] = "comma",
         NEW ends \in [0..Len(x) -> Nat], Spread(flat, Singles(x), between, ends)
  PROVE  IsPrefix(NumbersOf(text, first, ArrayEnd(text, first) - first), x)
<1> DEFINE n == Len(x)
<1>0. /\ n \in Nat /\ Len(text) \in Nat /\ first \in Nat /\ first > 0 /\ Len(flat) \in Nat /\ first + Len(flat) <= Len(text)
      /\ text[first + Len(flat)] = "]" /\ \A p \in 1..Len(flat) : text[first + p - 1] = flat[p]
  BY DEF ArrayAt
<1>1. Len(Singles(x)) = n /\ \A i \in 1..n : x[i] \in Floats /\ Len(Singles(x)[i]) = 1 /\ Singles(x)[i][1] = x[i]
  BY DEF Singles
<1>2. Gap(between, 1) = 0 /\ Gap(between, 2) = 2 /\ between[1] = "newline" /\ between[2] = "comma" /\ 1 \in 1..1 /\ 1 \in 1..2 /\ 2 \in 1..2
  BY DEF Gap
<1>3. Spread(flat, Singles(x), between, ends)
  OBVIOUS
<1> HIDE DEF n
<1>4. CASE n = 0
  <2>1. Len(flat) = 0
    BY <1>1, <1>3, <1>4 DEF Spread
  <2>2. first \in first..(Len(text) + 1) /\ first \in 1..Len(text) /\ text[first] = "]"
    BY <1>0, <2>1
  <2>3. Ends(text, first)
    BY <2>2, WhatEnds
  <2>4. ArrayEnd(text, first) = first
    <3>1. \A j \in first..(first - 1) : ~Ends(text, j)
      BY <1>0
    <3> QED
      BY <1>0, <2>2, <2>3, <3>1, EndIs
  <2>5. NumbersOf(text, first, 0) = << >>
    <3>1. \A m \in Nat : \E f \in [0..m -> Seq(Floats)] : Reads(f, text, first, m) /\ NumbersOf(text, first, m) = f[m]
      BY <1>0, NumbersRounds
    <3>2. PICK f \in [0..0 -> Seq(Floats)] : Reads(f, text, first, 0) /\ NumbersOf(text, first, 0) = f[0]
      <4>1. 0 \in Nat
        OBVIOUS
      <4> QED
        BY <3>1, <4>1, Zenon
    <3> QED
      BY <3>2 DEF Reads
  <2>6. first - first = 0 /\ IsPrefix(<< >>, x)
    BY <1>0 DEF IsPrefix
  <2> QED
    BY <2>4, <2>5, <2>6
<1>5. CASE n # 0
  <2>1. 1 \in 1..n /\ 1 - 1 = 0
    BY <1>0, <1>5
  <2>2. ends[0] = 0 /\ ends[1] = ends[0] + Gap(between, 1) + 1 /\ ends[n] = Len(flat)
        /\ ends[0] + Gap(between, 1) + 1 \in 1..Len(flat) /\ flat[ends[0] + Gap(between, 1) + 1] = x[1]
    <3>1. ends[0] = 0 /\ ends[n] = Len(flat)
      BY <1>1, <1>3 DEF Spread
    <3>2. ends[1] = ends[1 - 1] + Gap(between, 1) + Len(Singles(x)[1])
      BY <1>1, <1>3, <2>1 DEF Spread
    <3>3. \A q \in 1..Len(Singles(x)[1]) :
            ends[1 - 1] + Gap(between, 1) + q \in 1..Len(flat) /\ flat[ends[1 - 1] + Gap(between, 1) + q] = Singles(x)[1][q]
      BY <1>1, <1>3, <2>1 DEF Spread
    <3> QED
      BY <1>1, <1>2, <2>1, <3>1, <3>2, <3>3
  <2>3. ends[1] = 1 /\ flat[1] = x[1] /\ 1 \in 1..Len(flat) /\ x[1] \in Floats
    BY <1>1, <1>2, <2>1, <2>2
  <2>4. text[first] = x[1] /\ first \in 1..Len(text)
    <3>1. text[first + 1 - 1] = x[1] /\ first + 1 - 1 = first
      BY <1>0, <2>3
    <3> QED
      BY <1>0, <3>1
  <2>5. ~Ends(text, first)
    BY <2>3, <2>4, WhatEnds
  <2>6. first + 1 \in 1..Len(text) /\ Ends(text, first + 1)
    <3>1. CASE n = 1
      <4>1. Len(flat) = 1
        BY <2>2, <2>3, <3>1
      <4>2. first + 1 \in 1..Len(text) /\ text[first + 1] = "]"
        BY <1>0, <4>1
      <4> QED
        BY <4>2, WhatEnds
    <3>2. CASE n # 1
      <4>1. 2 \in 1..n /\ 2 - 1 = 1
        BY <1>0, <1>5, <3>2
      <4>2. \A q \in 1..Gap(between, 2) : flat[ends[2 - 1] + q] = between[q]
        BY <1>1, <1>3, <4>1 DEF Spread
      <4>3. \A q \in 1..Len(Singles(x)[2]) : ends[2 - 1] + Gap(between, 2) + q \in 1..Len(flat)
        BY <1>1, <1>3, <4>1 DEF Spread
      <4>4. flat[2] = "newline" /\ flat[3] = "comma" /\ 4 \in 1..Len(flat)
        <5>1. flat[1 + 1] = "newline" /\ flat[1 + 2] = "comma" /\ 1 + 2 + 1 \in 1..Len(flat)
          BY <1>1, <1>2, <2>3, <4>1, <4>2, <4>3
        <5> QED
          BY <5>1
      <4>5. text[first + 2 - 1] = "newline" /\ text[first + 3 - 1] = "comma" /\ first + 2 <= Len(text)
        <5>1. 2 \in 1..Len(flat) /\ 3 \in 1..Len(flat) /\ first + 2 <= Len(text)
          BY <1>0, <4>4
        <5> QED
          BY <1>0, <4>4, <5>1
      <4>6. first + 2 - 1 = first + 1 /\ first + 3 - 1 = (first + 1) + 1 /\ first + 1 \in 1..Len(text) /\ (first + 1) + 1 <= Len(text)
        BY <1>0, <4>5
      <4>7. text[first + 1] = "newline" /\ text[(first + 1) + 1] = "comma"
        BY <4>5, <4>6
      <4> QED
        BY <4>6, <4>7, WhatEnds
    <3> QED
      BY <3>1, <3>2
  <2>7. ArrayEnd(text, first) = first + 1
    <3>1. first + 1 \in first..(Len(text) + 1) /\ \A j \in first..(first + 1 - 1) : j = first
      BY <1>0, <2>6
    <3> QED
      BY <1>0, <2>5, <2>6, <3>1, EndIs
  <2>8. NumbersOf(text, first, 1) = <<x[1]>>
    <3>0. \A m \in Nat : \E f \in [0..m -> Seq(Floats)] : Reads(f, text, first, m) /\ NumbersOf(text, first, m) = f[m]
      BY <1>0, NumbersRounds
    <3>1. PICK f \in [0..1 -> Seq(Floats)] : Reads(f, text, first, 1) /\ NumbersOf(text, first, 1) = f[1]
      <4>1. 1 \in Nat
        OBVIOUS
      <4> QED
        BY <3>0, <4>1, Zenon
    <3>2. f[0] = << >> /\ f[1] = Append(f[0], x[1])
      <4>1. text[first + 1 - 1] = x[1] /\ 1 - 1 = 0 /\ 1 \in 1..1
        BY <1>0, <2>4
      <4> QED
        BY <2>3, <3>1, <4>1 DEF Reads
    <3> QED
      BY <3>1, <3>2
  <2>9. IsPrefix(<<x[1]>>, x)
    <3>1. SubSeq(x, 1, 1) = <<x[1]>> /\ SubSeq(<<x[1]>>, 1, 1) = <<x[1]>> /\ Len(<<x[1]>>) = 1
      BY <2>1
    <3>2. 1 <= Len(x)
      BY <1>0, <2>1 DEF n
    <3> QED
      BY <3>1, <3>2 DEF IsPrefix
  <2>10. (first + 1) - first = 1
    BY <1>0
  <2> QED
    BY <2>7, <2>8, <2>9, <2>10
<1> QED
  BY <1>4, <1>5

-----------------------------------------------------------------------------
(* Bodies *)

Styles == PlainStyles \cup OddStyles

\* Tokens strung together.
LEMMA Strung ==
  ASSUME NEW a, NEW b, NEW c
  PROVE  <<a>> \o <<b>> = <<a, b>> /\ <<a>> \o <<b, c>> = <<a, b, c>>
<1> DEFINE s2 == <<a>> \o <<b>>
           t2 == <<a, b>>
           s3 == <<a>> \o <<b, c>>
           t3 == <<a, b, c>>
<1>1. /\ s2 \in Seq({a, b}) /\ Len(s2) = 2 /\ s2[1] = a /\ s2[2] = b
      /\ t2 \in Seq({a, b}) /\ Len(t2) = 2 /\ t2[1] = a /\ t2[2] = b
  OBVIOUS
<1>2. /\ s3 \in Seq({a, b, c}) /\ Len(s3) = 3 /\ s3[1] = a /\ s3[2] = b /\ s3[3] = c
      /\ t3 \in Seq({a, b, c}) /\ Len(t3) = 3 /\ t3[1] = a /\ t3[2] = b /\ t3[3] = c
  OBVIOUS
<1>3. (\A i \in 1..2 : i = 1 \/ i = 2) /\ (\A i \in 1..3 : i = 1 \/ i = 2 \/ i = 3)
  OBVIOUS
<1> HIDE DEF s2, t2, s3, t3
<1>4. s2 = [i \in 1..2 |-> s2[i]] /\ t2 = [i \in 1..2 |-> t2[i]]
  BY <1>1
<1>5. s3 = [i \in 1..3 |-> s3[i]] /\ t3 = [i \in 1..3 |-> t3[i]]
  BY <1>2
<1>6. [i \in 1..2 |-> s2[i]] = [i \in 1..2 |-> t2[i]]
  BY <1>1, <1>3
<1>7. [i \in 1..3 |-> s3[i]] = [i \in 1..3 |-> t3[i]]
  BY <1>2, <1>3
<1>8. s2 = t2 /\ s3 = t3
  BY <1>4, <1>5, <1>6, <1>7
<1> QED
  BY <1>8 DEF s2, t2, s3, t3

LEMMA StrungWithNone ==
  ASSUME NEW a, NEW b, NEW c
  PROVE  /\ << >> \o <<a>> \o << >> = <<a>>
         /\ << >> \o <<a>> \o <<b>> = <<a, b>>
         /\ <<a>> \o <<b>> \o << >> = <<a, b>>
         /\ << >> \o <<a>> \o <<b, c>> = <<a, b, c>>
<1>1. << >> \o <<a>> = <<a>> /\ <<a>> \o << >> = <<a>> /\ <<a, b>> \o << >> = <<a, b>>
  OBVIOUS
<1> QED
  BY <1>1, Strung

LEMMA ThreeTokens == ASSUME NEW S, NEW a \in S, NEW b \in S, NEW c \in S PROVE <<a, b, c>> \in Seq(S)
OBVIOUS

LEMMA ColonShapes ==
  /\ \A style \in PlainStyles : style.colon = <<":">> \/ style.colon = <<":", "space">>
  /\ \A style \in OddStyles : style.colon = <<"space", ":">> \/ style.colon = <<":">>
<1>1. << >> \o <<":">> \o << >> = <<":">>
  BY StrungWithNone
<1>2. << >> \o <<":">> \o <<"space">> = <<":", "space">>
  BY StrungWithNone
<1>3. <<"space">> \o <<":">> \o << >> = <<"space", ":">>
  BY StrungWithNone
<1> QED
  BY <1>1, <1>2, <1>3 DEF PlainStyles, OddStyles, Style

LEMMA CommaShapes ==
  /\ \A style \in PlainStyles : style.comma \in PlainCommas
  /\ \A style \in OddStyles : style.colon = <<"space", ":">> \/ style.comma = <<"newline", "comma">>
  /\ \A style \in OddStyles : style.comma \in PlainCommas \/ style.comma = <<"newline", "comma">>
<1>1. << >> \o <<"comma">> \o << >> = <<"comma">>
  BY StrungWithNone
<1>2. << >> \o <<"comma">> \o <<"space">> = <<"comma", "space">>
  BY StrungWithNone
<1>3. << >> \o <<"comma">> \o <<"newline", "space">> = <<"comma", "newline", "space">>
  BY StrungWithNone
<1>4. <<"newline">> \o <<"comma">> \o << >> = <<"newline", "comma">>
  BY StrungWithNone
<1>5. <<"space">> \o <<":">> \o << >> = <<"space", ":">>
  BY StrungWithNone
<1> QED
  BY <1>1, <1>2, <1>3, <1>4, <1>5 DEF PlainStyles, OddStyles, Style, PlainCommas

\* The tokens but the colon.
Others == Tokens \ {":"}

LEMMA CommaType == \A style \in Styles : style.comma \in Seq(Others) /\ Len(style.comma) \in Nat
<1>1. "comma" \in Others /\ "space" \in Others /\ "newline" \in Others
  BY DEF Others, Tokens, Punctuation, Blanks
<1>2. /\ <<"comma">> \in Seq(Others) /\ <<"comma", "space">> \in Seq(Others)
      /\ <<"comma", "newline", "space">> \in Seq(Others) /\ <<"newline", "comma">> \in Seq(Others)
  BY <1>1
<1>3. \A style \in Styles : style.comma \in Seq(Others)
  BY <1>2, CommaShapes DEF Styles, PlainCommas
<1> QED
  BY <1>3

LEMMA ColonType == \A style \in Styles : style.colon \in Seq(Tokens) /\ Len(style.colon) \in {1, 2}
<1>1. ":" \in Tokens /\ "space" \in Tokens
  BY DEF Tokens, Punctuation, Blanks
<1>2. <<":">> \in Seq(Tokens) /\ <<":", "space">> \in Seq(Tokens) /\ <<"space", ":">> \in Seq(Tokens)
  BY <1>1
<1>3. Len(<<":">>) = 1 /\ Len(<<":", "space">>) = 2 /\ Len(<<"space", ":">>) = 2
  OBVIOUS
<1> QED
  BY <1>2, <1>3, ColonShapes DEF Styles

LEMMA FieldShapes ==
  ASSUME NEW f \in Fields
  PROVE  /\ f.key \in Keys
         /\ f.key = "input" => f.value \in Inputs
         /\ f.key = "model" => \E word \in Models : f.value = <<word>>
         /\ f.key = "priority" => \E number \in Priorities : f.value = <<number>>
BY DEF Fields, Keys

LEMMA ObjectShapes ==
  ASSUME NEW object \in Objects
  PROVE  /\ object \in Seq(Fields) /\ DOMAIN object = 1..Len(object) /\ Len(object) \in Nat
         /\ \A i \in 1..Len(object) : object[i] \in Fields
         /\ \A i, j \in 1..Len(object) : object[i].key = object[j].key => i = j
<1>1. object \in BoundedSeq(Fields, 3) /\ \A i, j \in DOMAIN object : object[i].key = object[j].key => i = j
  BY DEF Objects
<1>2. PICK m \in 0..3 : object \in [1..m -> Fields]
  BY <1>1 DEF BoundedSeq, SeqOf
<1>3. object \in Seq(Fields) /\ Len(object) = m /\ DOMAIN object = 1..m
  BY <1>2
<1> QED
  BY <1>1, <1>2, <1>3

\* The array of an input as it is written.
Array(x, style) == Joined(Singles(x), style.comma)

LEMMA ArrayWritten ==
  ASSUME NEW x \in Seq(Floats), NEW style \in Styles
  PROVE  /\ Array(x, style) \in Seq(Others)
         /\ \E ends \in [0..Len(x) -> Nat] : Spread(Array(x, style), Singles(x), style.comma, ends)
<1>1. Floats \subseteq Others
  BY DEF Floats, Others, Tokens
<1>2. Singles(x) \in Seq(Seq(Others)) /\ Len(Singles(x)) = Len(x)
  <2>1. \A i \in 1..Len(x) : <<x[i]>> \in Seq(Others)
    <3>1. \A i \in 1..Len(x) : x[i] \in Others
      BY <1>1
    <3> QED
      BY <3>1
  <2>2. DOMAIN x = 1..Len(x) /\ Len(x) \in Nat
    OBVIOUS
  <2> QED
    BY <2>1, <2>2 DEF Singles
<1>3. style.comma \in Seq(Others)
  BY CommaType
<1> QED
  BY <1>2, <1>3, JoinedPlaces DEF Array

LEMMA ValueType ==
  ASSUME NEW f \in Fields, NEW style \in Styles
  PROVE  /\ Value(f, style) \in Seq(Others) /\ Len(Value(f, style)) \in Nat \ {0}
         /\ Value(f, style)[1] \notin Blanks
<1>1. CASE f.key = "input"
  <2> DEFINE array == Array(f.value, style)
             all == <<"[">> \o array \o <<"]">>
  <2>1. f.value \in Seq(Floats)
    BY <1>1, FieldShapes, FieldsAssumption
  <2>2. array \in Seq(Others)
    BY <2>1, ArrayWritten
  <2>3. Value(f, style) = all
    BY <1>1 DEF Value, Array, Singles
  <2>4. "[" \in Others /\ "]" \in Others /\ "[" \notin Blanks
    BY DEF Others, Tokens, Punctuation, Blanks
  <2> HIDE DEF array
  <2>5. all \in Seq(Others) /\ Len(all) = Len(array) + 2 /\ all[1] = "["
    BY <2>2, <2>4, Enclosed
  <2>6. Len(array) \in Nat
    BY <2>2
  <2> HIDE DEF all
  <2> QED
    BY <2>3, <2>4, <2>5, <2>6
<1>2. CASE f.key = "model"
  <2>1. PICK word \in Models : f.value = <<word>>
    BY <1>2, FieldShapes
  <2>2. Value(f, style) = Quoted(word)
    BY <1>2, <2>1 DEF Value
  <2>3. word \in Others /\ "quote" \in Others /\ "quote" \notin Blanks
    BY FieldsAssumption DEF Others, Tokens, Punctuation, Blanks
  <2>4. <<"quote", "quote">> \in Seq(Others) /\ <<"quote", word, "quote">> \in Seq(Others)
    BY <2>3
  <2>5. <<"quote", "quote">>[1] = "quote" /\ <<"quote", word, "quote">>[1] = "quote"
        /\ Len(<<"quote", "quote">>) \in Nat \ {0} /\ Len(<<"quote", word, "quote">>) \in Nat \ {0}
    OBVIOUS
  <2>6. Value(f, style) = <<"quote", "quote">> \/ Value(f, style) = <<"quote", word, "quote">>
    BY <2>2 DEF Quoted
  <2>7. CASE Value(f, style) = <<"quote", "quote">>
    BY <2>3, <2>4, <2>5, <2>7, Zenon
  <2>8. CASE Value(f, style) = <<"quote", word, "quote">>
    BY <2>3, <2>4, <2>5, <2>8, Zenon
  <2> QED
    BY <2>6, <2>7, <2>8
<1>3. CASE f.key = "priority"
  <2>1. PICK number \in Priorities : f.value = <<number>>
    BY <1>3, FieldShapes
  <2>2. Value(f, style) = <<number>>
    BY <1>3, <2>1 DEF Value
  <2>3. number \in Others /\ number \notin Blanks
    BY FieldsAssumption DEF Others, Tokens, Floats, Blanks
  <2> QED
    BY <2>2, <2>3
<1> QED
  BY <1>1, <1>2, <1>3, FieldShapes DEF Keys

\* A field: its key, a colon in some style, its value.
LEMMA WrittenForm ==
  ASSUME NEW f \in Fields, NEW style \in Styles
  PROVE  LET w == Written(f, style)
             l == Len(style.colon)
         IN  /\ w \in Seq(Tokens) /\ Len(w) = 3 + l + Len(Value(f, style))
             /\ w[1] = "quote" /\ w[2] = f.key /\ w[3] = "quote"
             /\ \A c \in 1..l : w[3 + c] = style.colon[c]
             /\ \A r \in 1..Len(Value(f, style)) : w[3 + l + r] = Value(f, style)[r]
<1> DEFINE quoted == <<"quote", f.key, "quote">>
           l == Len(style.colon)
           colon == style.colon
           value == Value(f, style)
           front == quoted \o colon
<1>1. f.key \in Tokens /\ f.key # "" /\ "quote" \in Tokens
  BY FieldShapes DEF Keys, Tokens, Punctuation
<1>2. Quoted(f.key) = quoted /\ quoted \in Seq(Tokens) /\ Len(quoted) = 3
      /\ quoted[1] = "quote" /\ quoted[2] = f.key /\ quoted[3] = "quote"
  <2>1. Quoted(f.key) = quoted
    BY <1>1 DEF Quoted
  <2>2. quoted \in Seq(Tokens)
    BY <1>1, ThreeTokens
  <2>3. Len(quoted) = 3 /\ quoted[1] = "quote" /\ quoted[2] = f.key /\ quoted[3] = "quote"
    OBVIOUS
  <2> QED
    BY <2>1, <2>2, <2>3
<1>3. colon \in Seq(Tokens) /\ l \in Nat /\ value \in Seq(Tokens) /\ Len(value) \in Nat
  <2>1. Others \subseteq Tokens
    BY DEF Others
  <2>2. value \in Seq(Others)
    BY ValueType
  <2> HIDE DEF value
  <2>3. value \in Seq(Tokens)
    BY <2>1, <2>2
  <2> QED
    BY <2>3, ColonType
<1>4. Written(f, style) = front \o value
  BY <1>2 DEF Written
<1> HIDE DEF quoted, colon, value, l
<1>0. \A a \in Seq(Tokens), b \in Seq(Tokens) :
        /\ a \o b \in Seq(Tokens) /\ Len(a \o b) = Len(a) + Len(b)
        /\ \A q \in 1..Len(a) : (a \o b)[q] = a[q]
        /\ \A c \in 1..Len(b) : (a \o b)[Len(a) + c] = b[c]
  BY Concatenation
<1>5. /\ front \in Seq(Tokens) /\ Len(front) = Len(quoted) + Len(colon)
      /\ \A q \in 1..Len(quoted) : front[q] = quoted[q]
      /\ \A c \in 1..Len(colon) : front[Len(quoted) + c] = colon[c]
  BY <1>0, <1>2, <1>3, Zenon
<1>7. Len(colon) = l
  BY DEF l, colon
<1> HIDE DEF front
<1> DEFINE w == front \o value
<1>8. /\ w \in Seq(Tokens) /\ Len(w) = Len(front) + Len(value)
      /\ \A q \in 1..Len(front) : w[q] = front[q]
      /\ \A r \in 1..Len(value) : w[Len(front) + r] = value[r]
  BY <1>0, <1>3, <1>5, Zenon
<1> HIDE DEF w
<1>10. Len(front) = 3 + l /\ Len(w) = 3 + l + Len(value)
  BY <1>2, <1>3, <1>5, <1>7, <1>8
<1>11. w[1] = "quote" /\ w[2] = f.key /\ w[3] = "quote"
  <2>1. 1 \in 1..Len(front) /\ 2 \in 1..Len(front) /\ 3 \in 1..Len(front) /\ 1 \in 1..Len(quoted) /\ 2 \in 1..Len(quoted) /\ 3 \in 1..Len(quoted)
    BY <1>2, <1>3, <1>10
  <2> QED
    BY <1>2, <1>5, <1>8, <2>1
<1>12. ASSUME NEW c \in 1..l PROVE w[3 + c] = colon[c]
  <2>1. 3 + c \in 1..Len(front) /\ c \in 1..Len(colon)
    BY <1>3, <1>7, <1>10
  <2> QED
    BY <1>2, <1>5, <1>8, <2>1
<1>13. ASSUME NEW r \in 1..Len(value) PROVE w[3 + l + r] = value[r]
  BY <1>8, <1>10
<1>14. Written(f, style) = w
  BY <1>4 DEF w
<1> QED
  BY <1>8, <1>10, <1>11, <1>12, <1>13, <1>14 DEF l, colon, value

\* Where the fields of a body stand, and that there is no colon but theirs.
Laid(text, object, style, at) ==
  /\ \A i \in 1..Len(object) : \A q \in 1..Len(Written(object[i], style)) :
       at[i] + q \in 1..Len(text) /\ text[at[i] + q] = Written(object[i], style)[q]
  /\ \A p \in 1..Len(text) : text[p] = ":" =>
       \E i \in 1..Len(object) : \E q \in 1..Len(Written(object[i], style)) : p = at[i] + q

LEMMA BodyForm ==
  ASSUME NEW object \in Objects, NEW style \in Styles
  PROVE  /\ Body(object, style) \in Seq(Tokens)
         /\ \E at \in [1..Len(object) -> Nat] : Laid(Body(object, style), object, style, at)
<1> DEFINE n == Len(object)
           fields == [i \in 1..n |-> Written(object[i], style)]
           comma == style.comma
           flat == Joined(fields, comma)
           text == <<"begin">> \o flat \o <<"end">>
<1>1. n \in Nat /\ DOMAIN object = 1..n /\ \A i \in 1..n : object[i] \in Fields
  BY ObjectShapes
<1>2. Body(object, style) = text
  BY <1>1 DEF Body
<1>3. \A i \in 1..n : Written(object[i], style) \in Seq(Tokens)
  BY <1>1, WrittenForm
<1> HIDE DEF n
<1>4. fields \in Seq(Seq(Tokens)) /\ Len(fields) = n /\ \A i \in 1..n : fields[i] = Written(object[i], style)
  BY <1>1, <1>3
<1>5. comma \in Seq(Others) /\ comma \in Seq(Tokens) /\ Len(comma) \in Nat
  <2>1. Others \subseteq Tokens
    BY DEF Others
  <2>2. style.comma \in Seq(Others) /\ Len(style.comma) \in Nat
    BY CommaType
  <2>3. \A s \in Seq(Others) : s \in Seq(Tokens)
    BY <2>1
  <2> QED
    BY <2>2, <2>3
<1> HIDE DEF fields, comma
<1>6. flat \in Seq(Tokens) /\ \E ends \in [0..n -> Nat] : Spread(flat, fields, comma, ends)
  <2>1. flat \in Seq(Tokens) /\ \E ends \in [0..Len(fields) -> Nat] : Spread(flat, fields, comma, ends)
    BY <1>4, <1>5, JoinedPlaces
  <2> QED
    BY <1>4, <2>1
<1>7. PICK ends \in [0..n -> Nat] : Spread(flat, fields, comma, ends)
  BY <1>6
<1> HIDE DEF flat
<1>8. /\ text \in Seq(Tokens) /\ Len(text) = Len(flat) + 2 /\ text[1] = "begin" /\ text[Len(flat) + 2] = "end"
      /\ \A p \in 1..Len(flat) : text[p + 1] = flat[p]
  <2>1. "begin" \in Tokens /\ "end" \in Tokens
    BY DEF Tokens, Punctuation
  <2> QED
    BY <1>6, <2>1, Enclosed
<1> HIDE DEF text
<1> DEFINE gap(i) == Gap(comma, i)
           at == [i \in 1..n |-> 1 + (ends[i - 1] + gap(i))]
<1>9. \A i \in 1..n : i - 1 \in 0..n /\ gap(i) \in Nat /\ ends[i - 1] \in Nat /\ Len(fields[i]) \in Nat
  <2>1. \A i \in 1..n : i - 1 \in 0..n /\ gap(i) \in Nat
    BY <1>1, <1>5 DEF Gap
  <2>2. \A i \in 1..n : Len(fields[i]) \in Nat
    BY <1>3, <1>4
  <2> QED
    BY <2>1, <2>2
<1>10. /\ \A i \in 1..n : \A q \in 1..Len(fields[i]) :
            ends[i - 1] + gap(i) + q \in 1..Len(flat) /\ flat[ends[i - 1] + gap(i) + q] = fields[i][q]
       /\ \A i \in 1..n : \A q \in 1..gap(i) : flat[ends[i - 1] + q] = comma[q]
       /\ \A p \in 1..Len(flat) : \E i \in 1..n :
            (\E q \in 1..gap(i) : p = ends[i - 1] + q) \/ \E q \in 1..Len(fields[i]) : p = ends[i - 1] + gap(i) + q
  BY <1>4, <1>7 DEF Spread
<1>11. \A i \in 1..n : gap(i) \in {0, Len(comma)}
  BY DEF Gap
<1> HIDE DEF gap
<1>12. ASSUME NEW i \in 1..n, NEW q \in 1..Len(fields[i])
       PROVE  at[i] + q \in 1..Len(text) /\ text[at[i] + q] = fields[i][q]
  <2> DEFINE p == ends[i - 1] + gap(i) + q
  <2>1. p \in 1..Len(flat) /\ flat[p] = fields[i][q]
    BY <1>10
  <2>2. at[i] + q = p + 1 /\ Len(flat) \in Nat
    BY <1>6, <1>9
  <2> HIDE DEF p, at
  <2>3. p + 1 \in 1..Len(text) /\ text[p + 1] = flat[p]
    BY <1>8, <2>1, <2>2
  <2> QED
    BY <2>1, <2>2, <2>3
<1>13. ASSUME NEW p \in 1..Len(text), text[p] = ":"
       PROVE  \E i \in 1..n : \E q \in 1..Len(fields[i]) : p = at[i] + q
  <2>1. p # 1 /\ p # Len(flat) + 2
    BY <1>8, <1>13
  <2>2. Len(flat) \in Nat
    BY <1>6
  <2>3. p - 1 \in 1..Len(flat) /\ (p - 1) + 1 = p
    BY <1>8, <2>1, <2>2
  <2>4. flat[p - 1] = ":"
    BY <1>8, <1>13, <2>3
  <2>5. PICK i \in 1..n : \/ \E q \in 1..gap(i) : p - 1 = ends[i - 1] + q
                          \/ \E q \in 1..Len(fields[i]) : p - 1 = ends[i - 1] + gap(i) + q
    BY <1>10, <2>3
  <2>6. ASSUME NEW q \in 1..gap(i), p - 1 = ends[i - 1] + q PROVE FALSE
    <3>1. flat[p - 1] = comma[q]
      BY <1>10, <2>6
    <3>2. q \in 1..Len(comma)
      BY <1>5, <1>11
    <3>3. comma[q] \in Others
      BY <1>5, <3>2
    <3> QED
      BY <2>4, <3>1, <3>3 DEF Others
  <2>7. PICK q \in 1..Len(fields[i]) : p - 1 = ends[i - 1] + gap(i) + q
    BY <2>5, <2>6
  <2>8. p = at[i] + q
    <3>1. at[i] = 1 + (ends[i - 1] + gap(i))
      OBVIOUS
    <3>2. ends[i - 1] \in Nat /\ gap(i) \in Nat /\ q \in Nat
      BY <1>9
    <3> HIDE DEF at
    <3> QED
      BY <2>7, <3>1, <3>2
  <2> QED
    BY <2>8
<1>14. at \in [1..n -> Nat]
  BY <1>9
<1> HIDE DEF at
<1>15. Laid(text, object, style, at)
  <2>1. \A i \in 1..n : \A q \in 1..Len(Written(object[i], style)) :
          at[i] + q \in 1..Len(text) /\ text[at[i] + q] = Written(object[i], style)[q]
    BY <1>4, <1>12
  <2>2. \A p \in 1..Len(text) : text[p] = ":" =>
          \E i \in 1..n : \E q \in 1..Len(Written(object[i], style)) : p = at[i] + q
    BY <1>4, <1>13
  <2> QED
    BY <2>1, <2>2 DEF Laid, n
<1> QED
  BY <1>2, <1>8, <1>14, <1>15 DEF n

LEMMA ColonKinds ==
  ASSUME NEW style \in Styles
  PROVE  \/ Len(style.colon) = 1 /\ style.colon[1] = ":"
         \/ Len(style.colon) = 2 /\ style.colon[1] = ":" /\ style.colon[2] = "space"
         \/ Len(style.colon) = 2 /\ style.colon[1] = "space" /\ style.colon[2] = ":"
<1>1. style.colon = <<":">> \/ style.colon = <<":", "space">> \/ style.colon = <<"space", ":">>
  BY ColonShapes DEF Styles
<1>2. Len(<<":">>) = 1 /\ <<":">>[1] = ":"
  OBVIOUS
<1>3. Len(<<":", "space">>) = 2 /\ <<":", "space">>[1] = ":" /\ <<":", "space">>[2] = "space"
  OBVIOUS
<1>4. Len(<<"space", ":">>) = 2 /\ <<"space", ":">>[1] = "space" /\ <<"space", ":">>[2] = ":"
  OBVIOUS
<1> QED
  BY <1>1, <1>2, <1>3, <1>4, Zenon

Direct(style) == style.colon[1] = ":"

\* A key with its colon stands nowhere but at the beginning of its field.
LEMMA KeyPlaces ==
  ASSUME NEW text \in Seq(Tokens), NEW object \in Objects, NEW style \in Styles,
         NEW at \in [1..Len(object) -> Nat], Laid(text, object, style, at),
         NEW key \in Keys, NEW p \in 1..Len(text)
  PROVE  Stands(text, key, p) <=> \E i \in 1..Len(object) : object[i].key = key /\ Direct(style) /\ p = at[i] + 1
<1> DEFINE n == Len(object)
           w(i) == Written(object[i], style)
           l == Len(style.colon)
           v(i) == Value(object[i], style)
<1>1. n \in Nat /\ \A i \in 1..n : object[i] \in Fields /\ object[i].key \in Keys /\ at[i] \in Nat
  BY ObjectShapes, FieldShapes
<1>2. ASSUME NEW i \in 1..n
      PROVE  /\ Len(w(i)) = 3 + l + Len(v(i)) /\ w(i)[1] = "quote" /\ w(i)[2] = object[i].key /\ w(i)[3] = "quote"
             /\ \A c \in 1..l : w(i)[3 + c] = style.colon[c]
             /\ \A r \in 1..Len(v(i)) : w(i)[3 + l + r] = v(i)[r] /\ v(i)[r] # ":"
             /\ Len(v(i)) \in Nat \ {0}
  <2>1. object[i] \in Fields
    BY <1>1
  <2>2. v(i) \in Seq(Others) /\ Len(v(i)) \in Nat \ {0}
    BY <2>1, ValueType
  <2>3. \A r \in 1..Len(v(i)) : v(i)[r] # ":"
    <3> HIDE DEF v
    <3>1. \A r \in 1..Len(v(i)) : v(i)[r] \in Others
      BY <2>2
    <3> QED
      BY <3>1 DEF Others
  <2> QED
    BY <2>1, <2>2, <2>3, WrittenForm
<1>3. \/ l = 1 /\ style.colon[1] = ":"
      \/ l = 2 /\ style.colon[1] = ":" /\ style.colon[2] = "space"
      \/ l = 2 /\ style.colon[1] = "space" /\ style.colon[2] = ":"
  BY ColonKinds
<1>4. /\ \A i \in 1..n : \A q \in 1..Len(w(i)) : at[i] + q \in 1..Len(text) /\ text[at[i] + q] = w(i)[q]
      /\ \A x \in 1..Len(text) : text[x] = ":" => \E i \in 1..n : \E q \in 1..Len(w(i)) : x = at[i] + q
  BY DEF Laid
<1> HIDE DEF n, w, l, v
<1>5. \A i \in 1..n : \A q \in 1..5 : q <= 3 + l + 1 => q \in 1..Len(w(i))
  BY <1>2, <1>3
<1>6. ASSUME Stands(text, key, p) PROVE \E i \in 1..n : object[i].key = key /\ Direct(style) /\ p = at[i] + 1
  <2>1. p + 3 \in 1..Len(text) /\ text[p + 3] = ":" /\ text[p + 2] = "quote" /\ text[p + 1] = key
    BY <1>6 DEF Stands
  <2>2. PICK i \in 1..n : \E q \in 1..Len(w(i)) : p + 3 = at[i] + q
    BY <1>4, <2>1
  <2>3. PICK q \in 1..Len(w(i)) : p + 3 = at[i] + q
    BY <2>2
  <2>4. w(i)[q] = ":"
    BY <1>4, <2>1, <2>3
  <2>5. q # 1 /\ q # 2 /\ q # 3
    BY <1>1, <1>2, <2>4 DEF Keys
  <2>6. ~(q > 3 + l)
    <3> SUFFICES ASSUME q > 3 + l PROVE FALSE
      OBVIOUS
    <3>1. q - 3 - l \in 1..Len(v(i)) /\ 3 + l + (q - 3 - l) = q
      BY <1>2, <1>3
    <3>2. w(i)[3 + l + (q - 3 - l)] = v(i)[q - 3 - l] /\ v(i)[q - 3 - l] # ":"
      BY <1>2, <3>1
    <3> QED
      BY <2>4, <3>1, <3>2
  <2>7. q - 3 \in 1..l /\ 3 + (q - 3) = q
    BY <1>3, <2>5, <2>6
  <2>8. style.colon[q - 3] = ":"
    BY <1>2, <2>4, <2>7
  <2>9. CASE style.colon[1] = ":"
    <3>1. q - 3 = 1 /\ q = 4
      BY <1>3, <2>7, <2>8, <2>9
    <3>2. p = at[i] + 1 /\ p + 1 = at[i] + 2 /\ 2 \in 1..Len(w(i))
      <4>1. at[i] \in Nat /\ p \in Nat /\ p + 3 = at[i] + 4
        BY <1>1, <2>3, <3>1
      <4>2. 2 \in 1..Len(w(i))
        BY <1>3, <1>5
      <4> QED
        BY <4>1, <4>2
    <3>3. object[i].key = key
      <4>1. text[at[i] + 2] = w(i)[2]
        BY <1>4, <3>2
      <4> QED
        BY <1>2, <2>1, <3>2, <4>1
    <3> QED
      BY <2>9, <3>2, <3>3 DEF Direct
  <2>10. CASE style.colon[1] # ":"
    <3>1. l = 2 /\ style.colon[1] = "space" /\ q = 5
      BY <1>3, <2>7, <2>8, <2>10
    <3>2. p + 2 = at[i] + 4 /\ 4 \in 1..Len(w(i))
      BY <1>1, <1>3, <1>5, <2>3, <3>1
    <3>3. w(i)[4] = "space"
      <4>1. 1 \in 1..l /\ 3 + 1 = 4
        BY <3>1
      <4> QED
        BY <1>2, <3>1, <4>1
    <3> QED
      BY <1>4, <2>1, <3>2, <3>3
  <2> QED
    BY <2>9, <2>10
<1>7. ASSUME NEW i \in 1..n, object[i].key = key, Direct(style), p = at[i] + 1 PROVE Stands(text, key, p)
  <2>1. 1 \in 1..Len(w(i)) /\ 2 \in 1..Len(w(i)) /\ 3 \in 1..Len(w(i)) /\ 4 \in 1..Len(w(i))
    BY <1>3, <1>5
  <2>2. w(i)[4] = ":"
    <3>1. 1 \in 1..l /\ 3 + 1 = 4
      BY <1>3
    <3> QED
      BY <1>2, <1>7, <3>1 DEF Direct
  <2>3. at[i] + 4 \in 1..Len(text) /\ text[at[i] + 1] = "quote" /\ text[at[i] + 2] = key
        /\ text[at[i] + 3] = "quote" /\ text[at[i] + 4] = ":"
    BY <1>2, <1>4, <1>7, <2>1, <2>2
  <2>4. p + 1 = at[i] + 2 /\ p + 2 = at[i] + 3 /\ p + 3 = at[i] + 4
    BY <1>1, <1>7
  <2> QED
    BY <1>7, <2>3, <2>4 DEF Stands
<1> QED
  BY <1>6, <1>7 DEF n

\* The search for a key has come to a value.
Found(text, key, value) ==
  /\ HasKey(text, key) /\ ValueOf(text, key) \in Nat \ {0}
  /\ \A r \in 1..Len(value) : /\ ValueOf(text, key) + r - 1 \in 1..Len(text)
                              /\ text[ValueOf(text, key) + r - 1] = value[r]

LEMMA Searched ==
  ASSUME NEW object \in Objects, NEW style \in Styles, NEW key \in Keys
  PROVE  LET text == Body(object, style)
         IN  \/ \E i \in 1..Len(object) :
                  object[i].key = key /\ Direct(style) /\ Found(text, key, Value(object[i], style))
             \/ ~HasKey(text, key) /\ (Direct(style) => \A i \in 1..Len(object) : object[i].key # key)
<1> DEFINE n == Len(object)
           text == Body(object, style)
           l == Len(style.colon)
<1>1. text \in Seq(Tokens) /\ Len(text) \in Nat /\ key \in Tokens
  <2>1. text \in Seq(Tokens)
    BY BodyForm
  <2> HIDE DEF text
  <2> QED
    BY <2>1 DEF Tokens
<1>2. PICK at \in [1..n -> Nat] : Laid(text, object, style, at)
  BY BodyForm
<1> HIDE DEF text, l
<1>3. \A p \in 1..Len(text) :
        Stands(text, key, p) <=> \E i \in 1..n : object[i].key = key /\ Direct(style) /\ p = at[i] + 1
  BY <1>1, <1>2, KeyPlaces
<1>4. /\ n \in Nat /\ \A i \in 1..n : object[i] \in Fields /\ at[i] \in Nat
      /\ \A i, j \in 1..n : object[i].key = object[j].key => i = j
  BY ObjectShapes
<1> HIDE DEF n
<1>5. CASE \E i \in 1..n : object[i].key = key /\ Direct(style)
  <2>1. PICK i \in 1..n : object[i].key = key /\ Direct(style)
    BY <1>5
  <2> DEFINE w == Written(object[i], style)
             v == Value(object[i], style)
             a == at[i]
  <2>2. /\ Len(w) = 3 + l + Len(v)
        /\ \A c \in 1..l : w[3 + c] = style.colon[c]
        /\ \A r \in 1..Len(v) : w[3 + l + r] = v[r]
    <3>1. object[i] \in Fields
      BY <1>4
    <3>2. /\ Len(w) = 3 + Len(style.colon) + Len(v)
          /\ \A c \in 1..Len(style.colon) : w[3 + c] = style.colon[c]
          /\ \A r \in 1..Len(v) : w[3 + Len(style.colon) + r] = v[r]
      BY <3>1, WrittenForm
    <3> HIDE DEF w, v
    <3> QED
      BY <3>2 DEF l
  <2>3. Len(v) \in Nat \ {0} /\ v[1] \notin Blanks
    BY <1>4, ValueType
  <2>4. \A q \in 1..Len(w) : a + q \in 1..Len(text) /\ text[a + q] = w[q]
    BY <1>2 DEF Laid, n
  <2>5. l = 1 \/ (l = 2 /\ style.colon[2] = "space")
    <3>1. style.colon[1] = ":"
      BY <2>1 DEF Direct
    <3>2. Len(style.colon) = 1 \/ (Len(style.colon) = 2 /\ style.colon[2] = "space")
      <4>1. \/ Len(style.colon) = 1 /\ style.colon[1] = ":"
            \/ Len(style.colon) = 2 /\ style.colon[1] = ":" /\ style.colon[2] = "space"
            \/ Len(style.colon) = 2 /\ style.colon[1] = "space" /\ style.colon[2] = ":"
        BY ColonKinds
      <4>2. style.colon[1] # "space"
        BY <3>1
      <4> QED
        BY <4>1, <4>2, Zenon
    <3> QED
      BY <3>2 DEF l
  <2>6. a \in Nat
    BY <1>4
  <2> HIDE DEF w, v, a
  <2>7. a + 1 \in 1..Len(text)
    <3>1. 1 \in 1..Len(w)
      BY <2>2, <2>3, <2>5
    <3> QED
      BY <2>4, <3>1
  <2>8. Stands(text, key, a + 1) /\ \A j \in 1..Len(text) : Stands(text, key, j) => j = a + 1
    <3>1. Stands(text, key, a + 1)
      BY <1>3, <2>1, <2>7 DEF a
    <3>2. ASSUME NEW j \in 1..Len(text), Stands(text, key, j) PROVE j = a + 1
      <4>1. PICK k \in 1..n : object[k].key = key /\ j = at[k] + 1
        BY <1>3, <3>2
      <4>2. k = i
        BY <1>4, <2>1, <4>1
      <4> QED
        BY <4>1, <4>2 DEF a
    <3> QED
      BY <3>1, <3>2
  <2>9. HasKey(text, key) /\ FirstKey(text, key) = a + 1
    BY <1>1, <2>7, <2>8, KeyFound
  <2> DEFINE place == a + 4 + l
             behind == a + 1 + 4
  <2>10. Len(Search(key)) = 4
    BY DEF Search
  <2>11. ValueOf(text, key) = Skip(text, behind, Blanks)
    BY <2>9, <2>10 DEF ValueOf
  <2>12. ASSUME NEW r \in 1..Len(v) PROVE place + r - 1 \in 1..Len(text) /\ text[place + r - 1] = v[r]
    <3>1. 3 + l + r \in 1..Len(w) /\ place + r - 1 = a + (3 + l + r)
      <4>1. Len(w) = 3 + l + Len(v) /\ (l = 1 \/ l = 2) /\ a \in Nat /\ Len(v) \in Nat
        BY <2>2, <2>3, <2>5, <2>6
      <4> QED
        BY <4>1
    <3>2. w[3 + l + r] = v[r]
      BY <2>2
    <3>3. a + (3 + l + r) \in 1..Len(text) /\ text[a + (3 + l + r)] = w[3 + l + r]
      BY <2>4, <3>1
    <3> HIDE DEF place
    <3> QED
      BY <3>1, <3>2, <3>3
  <2>13. place + 1 - 1 = place /\ 1 \in 1..Len(v) /\ place \in Nat \ {0} /\ behind \in Nat /\ behind <= place
    BY <2>3, <2>5, <2>6
  <2>14. place \in 1..Len(text) /\ text[place] = v[1]
    <3>1. place + 1 - 1 \in 1..Len(text) /\ text[place + 1 - 1] = v[1]
      <4> HIDE DEF place
      <4> QED
        BY <2>12, <2>13
    <3> HIDE DEF place
    <3> QED
      BY <2>13, <3>1
  <2>15. ASSUME NEW k \in behind..(place - 1) PROVE text[k] \in Blanks
    <3>1. l = 2 /\ k = a + 5
      BY <2>5, <2>6
    <3>2. 2 \in 1..l /\ 3 + 2 \in 1..Len(w) /\ 3 + 2 = 5
      BY <2>2, <2>3, <3>1
    <3>3. w[5] = style.colon[2] /\ text[a + 5] = w[5]
      <4>1. w[3 + 2] = style.colon[2] /\ text[a + (3 + 2)] = w[3 + 2]
        BY <2>2, <2>4, <3>2
      <4> QED
        BY <3>2, <4>1
    <3> QED
      BY <2>5, <3>1, <3>3 DEF Blanks
  <2>16. Skip(text, behind, Blanks) = place
    <3>1. place \in behind..(Len(text) + 1)
      BY <1>1, <2>13, <2>14
    <3> HIDE DEF place, behind
    <3>2. text[place] \notin Blanks
      BY <2>3, <2>14
    <3> QED
      BY <1>1, <2>13, <2>15, <3>1, <3>2, SkipIs
  <2>17. Found(text, key, v)
    <3> HIDE DEF place, behind
    <3> QED
      BY <2>9, <2>11, <2>12, <2>13, <2>16 DEF Found
  <2> QED
    BY <2>1, <2>17 DEF v, text, n
<1>6. CASE ~\E i \in 1..n : object[i].key = key /\ Direct(style)
  <2>1. \A p \in 1..Len(text) : ~Stands(text, key, p)
    BY <1>3, <1>6
  <2>2. ~HasKey(text, key)
    BY <1>1, <2>1, KeyMissing
  <2> QED
    BY <1>6, <2>2 DEF text, n
<1> QED
  BY <1>5, <1>6

LEMMA GivenIs ==
  ASSUME NEW object \in Objects, NEW key
  PROVE  /\ \A i \in 1..Len(object) : object[i].key = key => \A d : Given(object, key, d) = object[i].value
         /\ (\A i \in 1..Len(object) : object[i].key # key) => \A d : Given(object, key, d) = d
<1>1. DOMAIN object = 1..Len(object) /\ \A i, j \in 1..Len(object) : object[i].key = object[j].key => i = j
  BY ObjectShapes
<1>2. ASSUME NEW i \in 1..Len(object), object[i].key = key, NEW d PROVE Given(object, key, d) = object[i].value
  <2>1. (CHOOSE j \in DOMAIN object : object[j].key = key) = i
    BY <1>1, <1>2
  <2>2. \E j \in DOMAIN object : object[j].key = key
    BY <1>1, <1>2
  <2> QED
    BY <2>1, <2>2 DEF Given
<1>3. ASSUME \A i \in 1..Len(object) : object[i].key # key, NEW d PROVE Given(object, key, d) = d
  BY <1>1, <1>3 DEF Given
<1> QED
  BY <1>2, <1>3

LEMMA InputRead ==
  ASSUME NEW object \in Objects, NEW style \in Styles
  PROVE  LET given == Given(object, "input", << >>)
             got == GetFloatArray(Body(object, style), "input")
         IN  IsPrefix(got, given) /\ (style \in PlainStyles => got = given)
<1> DEFINE text == Body(object, style)
           key == "input"
<1>1. key \in Keys /\ text \in Seq(Tokens) /\ Len(text) \in Nat
  <2>1. text \in Seq(Tokens)
    BY BodyForm
  <2> HIDE DEF text
  <2> QED
    BY <2>1 DEF Keys
<1>2. CASE ~HasKey(text, key) /\ (Direct(style) => \A i \in 1..Len(object) : object[i].key # key)
  <2>1. GetFloatArray(text, key) = << >>
    BY <1>2, Defaults
  <2>2. Given(object, key, << >>) \in Seq(Floats)
    <3>1. CASE \E i \in 1..Len(object) : object[i].key = key
      <4>1. PICK i \in 1..Len(object) : object[i].key = key
        BY <3>1
      <4>2. object[i].value \in Seq(Floats)
        BY <4>1, ObjectShapes, FieldShapes, FieldsAssumption
      <4>3. Given(object, key, << >>) = object[i].value
        BY <4>1, GivenIs
      <4> QED
        BY <4>2, <4>3
    <3>2. CASE ~\E i \in 1..Len(object) : object[i].key = key
      <4>1. Given(object, key, << >>) = << >>
        BY <3>2, GivenIs
      <4>2. << >> \in Seq(Floats)
        OBVIOUS
      <4> QED
        BY <4>1, <4>2, Zenon
    <3> QED
      BY <3>1, <3>2
  <2>3. IsPrefix(<< >>, Given(object, key, << >>))
    <3> DEFINE given == Given(object, key, << >>)
    <3> HIDE DEF given
    <3>1. given \in Seq(Floats)
      BY <2>2 DEF given
    <3>2. IsPrefix(<< >>, given)
      BY <3>1 DEF IsPrefix
    <3> QED
      BY <3>2 DEF given
  <2>4. style \in PlainStyles => Given(object, key, << >>) = << >>
    <3>1. style \in PlainStyles => Direct(style)
      <4>1. <<":">>[1] = ":" /\ <<":", "space">>[1] = ":"
        OBVIOUS
      <4> QED
        BY <4>1, ColonShapes, Zenon DEF Direct
    <3> QED
      BY <1>2, <3>1, GivenIs
  <2> QED
    BY <2>1, <2>3, <2>4
<1>3. ASSUME NEW i \in 1..Len(object), object[i].key = key, Direct(style), Found(text, key, Value(object[i], style))
      PROVE  LET given == Given(object, key, << >>)
                 got == GetFloatArray(text, key)
             IN  IsPrefix(got, given) /\ (style \in PlainStyles => got = given)
  <2> DEFINE x == object[i].value
             flat == Array(x, style)
             value == Value(object[i], style)
             v == ValueOf(text, key)
             first == v + 1
  <2>1. x \in Seq(Floats) /\ Given(object, key, << >>) = x
    BY <1>3, ObjectShapes, FieldShapes, FieldsAssumption, GivenIs
  <2>2. flat \in Seq(Others) /\ \E ends \in [0..Len(x) -> Nat] : Spread(flat, Singles(x), style.comma, ends)
    BY <2>1, ArrayWritten
  <2>3. PICK ends \in [0..Len(x) -> Nat] : Spread(flat, Singles(x), style.comma, ends)
    BY <2>2
  <2>4. value = <<"[">> \o flat \o <<"]">>
    BY <1>3 DEF Value, Array, Singles
  <2> HIDE DEF flat, value
  <2>5. /\ Len(value) = Len(flat) + 2 /\ value[1] = "[" /\ value[Len(flat) + 2] = "]"
        /\ \A p \in 1..Len(flat) : value[p + 1] = flat[p]
    <3>1. "[" \in Others /\ "]" \in Others
      BY DEF Others, Tokens, Punctuation
    <3> QED
      BY <2>2, <2>4, <3>1, Enclosed
  <2>6. /\ HasKey(text, key) /\ v \in Nat \ {0}
        /\ \A r \in 1..Len(value) : v + r - 1 \in 1..Len(text) /\ text[v + r - 1] = value[r]
    BY <1>3 DEF Found, value
  <2>7. Len(flat) \in Nat
    BY <2>2
  <2> HIDE DEF text, key, x, v
  <2>8. v \in 1..Len(text) /\ text[v] = "["
    <3>1. 1 \in 1..Len(value) /\ v + 1 - 1 = v
      BY <2>5, <2>6, <2>7
    <3> QED
      BY <2>5, <2>6, <3>1
  <2>9. ArrayAt(text, first, flat)
    <3>1. first \in Nat \ {0}
      BY <2>6
    <3>2. first + Len(flat) \in 1..Len(text) /\ text[first + Len(flat)] = "]"
      <4>1. Len(flat) + 2 \in 1..Len(value) /\ v + (Len(flat) + 2) - 1 = first + Len(flat)
        BY <2>5, <2>6, <2>7
      <4> HIDE DEF first
      <4>2. v + (Len(flat) + 2) - 1 \in 1..Len(text) /\ text[v + (Len(flat) + 2) - 1] = value[Len(flat) + 2]
        BY <2>6, <4>1
      <4> QED
        BY <2>5, <4>1, <4>2
    <3>3. ASSUME NEW p \in 1..Len(flat) PROVE text[first + p - 1] = flat[p]
      <4>1. p + 1 \in 1..Len(value) /\ v + (p + 1) - 1 = first + p - 1
        BY <2>5, <2>6, <2>7
      <4> HIDE DEF first
      <4>2. text[v + (p + 1) - 1] = value[p + 1]
        BY <2>6, <4>1
      <4> QED
        BY <2>5, <4>1, <4>2
    <3> HIDE DEF first
    <3>4. first + Len(flat) <= Len(text)
      BY <1>1, <3>2
    <3> QED
      BY <2>7, <3>1, <3>2, <3>3, <3>4 DEF ArrayAt
  <2>10. GetFloatArray(text, key) = NumbersOf(text, first, ArrayEnd(text, first) - first)
    <3>1. At(text, v) = "["
      BY <1>1, <2>8 DEF At
    <3> QED
      BY <2>6, <3>1 DEF GetFloatArray, v
  <2> HIDE DEF first
  <2>11. style.comma \in Seq(Tokens)
    <3>1. style.comma \in Seq(Others) /\ Others \subseteq Tokens
      BY CommaType DEF Others
    <3> QED
      BY <3>1
  <2>12. IsPrefix(x, x)
    BY <2>1 DEF IsPrefix
  <2>13. CASE style.comma \in PlainCommas
    <3>1. GetFloatArray(text, key) = x
      BY <1>1, <2>1, <2>3, <2>9, <2>10, <2>11, <2>13, PlainArray
    <3> QED
      BY <2>1, <2>12, <3>1
  <2>14. CASE style.comma = <<"newline", "comma">>
    <3>1. Len(style.comma) = 2 /\ style.comma[1] = "newline" /\ style.comma[2] = "comma"
      <4>1. Len(<<"newline", "comma">>) = 2 /\ <<"newline", "comma">>[1] = "newline" /\ <<"newline", "comma">>[2] = "comma"
        OBVIOUS
      <4> QED
        BY <2>14, <4>1, Zenon
    <3>2. IsPrefix(GetFloatArray(text, key), x)
      BY <1>1, <2>1, <2>3, <2>9, <2>10, <2>11, <3>1, OddArray
    <3>3. style.comma \notin PlainCommas
      <4>1. <<"comma">>[1] = "comma" /\ <<"comma", "space">>[1] = "comma" /\ <<"comma", "newline", "space">>[1] = "comma"
        OBVIOUS
      <4>2. \A c \in PlainCommas : c[1] = "comma"
        BY <4>1, Zenon DEF PlainCommas
      <4> QED
        BY <3>1, <4>2
    <3>4. style \notin PlainStyles
      BY <3>3, CommaShapes
    <3> QED
      BY <2>1, <3>2, <3>4
  <2> QED
    BY <2>13, <2>14, CommaShapes DEF Styles
<1> QED
  BY <1>1, <1>2, <1>3, Searched

LEMMA PlainIsDirect == ASSUME NEW style \in PlainStyles PROVE Direct(style) /\ style \in Styles
<1>1. <<":">>[1] = ":" /\ <<":", "space">>[1] = ":"
  OBVIOUS
<1> QED
  BY <1>1, ColonShapes, Zenon DEF Direct, Styles

LEMMA ModelRead ==
  ASSUME NEW object \in Objects, NEW style \in Styles
  PROVE  LET given == Given(object, "model", <<"">>)
             got == GetString(Body(object, style), "model")
         IN  (got = "" \/ given = <<got>>) /\ (style \in PlainStyles => given = <<got>>)
<1> DEFINE text == Body(object, style)
           key == "model"
<1>1. key \in Keys /\ text \in Seq(Tokens) /\ Len(text) \in Nat
  <2>1. text \in Seq(Tokens)
    BY BodyForm
  <2> HIDE DEF text
  <2> QED
    BY <2>1 DEF Keys
<1>2. CASE ~HasKey(text, key) /\ (Direct(style) => \A i \in 1..Len(object) : object[i].key # key)
  <2>1. GetString(text, key) = ""
    BY <1>2, Defaults
  <2>2. style \in PlainStyles => Given(object, key, <<"">>) = <<"">>
    BY <1>2, PlainIsDirect, GivenIs
  <2> QED
    BY <2>1, <2>2
<1>3. ASSUME NEW i \in 1..Len(object), object[i].key = key, Found(text, key, Value(object[i], style))
      PROVE  Given(object, key, <<"">>) = <<GetString(text, key)>>
  <2> DEFINE value == Value(object[i], style)
             v == ValueOf(text, key)
  <2>1. PICK word \in Models : object[i].value = <<word>>
    BY <1>3, ObjectShapes, FieldShapes
  <2>2. Given(object, key, <<"">>) = <<word>>
    BY <1>3, <2>1, GivenIs
  <2>3. value = Quoted(word)
    BY <1>3, <2>1 DEF Value
  <2>4. word # "quote"
    BY FieldsAssumption DEF Punctuation
  <2> HIDE DEF value
  <2>5. /\ HasKey(text, key) /\ v \in Nat \ {0}
        /\ \A r \in 1..Len(value) : v + r - 1 \in 1..Len(text) /\ text[v + r - 1] = value[r]
    BY <1>3 DEF Found, value
  <2> HIDE DEF text, key, v
  <2>6. v + 1 - 1 = v /\ v + 2 - 1 = v + 1 /\ v + 3 - 1 = v + 2
    BY <2>5
  <2>7. CASE word = ""
    <3>1. value = <<"quote", "quote">>
      BY <2>3, <2>7 DEF Quoted
    <3>2. Len(<<"quote", "quote">>) = 2 /\ <<"quote", "quote">>[2] = "quote"
      OBVIOUS
    <3>3. Len(value) = 2 /\ value[2] = "quote"
      BY <3>1, <3>2, Zenon
    <3>4. 2 \in 1..Len(value)
      BY <3>3
    <3>5. text[v + 1] = "quote" /\ v + 1 \in 1..Len(text)
      BY <2>5, <2>6, <3>3, <3>4
    <3>6. At(text, v + 1) = "quote"
      BY <1>1, <3>5 DEF At
    <3> QED
      BY <2>2, <2>7, <3>6 DEF GetString, v
  <2>8. CASE word # ""
    <3>1. value = <<"quote", word, "quote">>
      BY <2>3, <2>8 DEF Quoted
    <3>2. /\ Len(<<"quote", word, "quote">>) = 3 /\ <<"quote", word, "quote">>[1] = "quote"
          /\ <<"quote", word, "quote">>[2] = word /\ <<"quote", word, "quote">>[3] = "quote"
      OBVIOUS
    <3>3. Len(value) = 3 /\ value[1] = "quote" /\ value[2] = word /\ value[3] = "quote"
      BY <3>1, <3>2, Zenon
    <3>4. 1 \in 1..Len(value) /\ 2 \in 1..Len(value) /\ 3 \in 1..Len(value)
      BY <3>3
    <3>5. /\ v \in 1..Len(text) /\ v + 1 \in 1..Len(text) /\ v + 2 \in 1..Len(text)
          /\ text[v] = "quote" /\ text[v + 1] = word /\ text[v + 2] = "quote"
      BY <2>5, <2>6, <3>3, <3>4
    <3>6. At(text, v) = "quote" /\ At(text, v + 1) = word
      BY <1>1, <3>5 DEF At
    <3>7. v + 2 \in (v + 1)..Len(text)
      BY <1>1, <2>5, <3>5
    <3>8. \E q \in (v + 1)..Len(text) : text[q] = "quote"
      BY <3>5, <3>7
    <3>9. GetString(text, key) = word
      BY <2>4, <2>5, <3>5, <3>6, <3>8 DEF GetString, v
    <3> QED
      BY <2>2, <3>9
  <2> QED
    BY <2>7, <2>8
<1> HIDE DEF text, key
<1>4. ASSUME NEW i \in 1..Len(object), object[i].key = key, Direct(style), Found(text, key, Value(object[i], style))
      PROVE  Given(object, key, <<"">>) = <<GetString(text, key)>>
  BY <1>3, <1>4
<1>5. \/ \E i \in 1..Len(object) :
           object[i].key = key /\ Direct(style) /\ Found(text, key, Value(object[i], style))
      \/ ~HasKey(text, key) /\ (Direct(style) => \A i \in 1..Len(object) : object[i].key # key)
  BY <1>1, Searched DEF text
<1>6. LET given == Given(object, key, <<"">>)
          got == GetString(text, key)
      IN  (got = "" \/ given = <<got>>) /\ (style \in PlainStyles => given = <<got>>)
  <2> USE DEF text, key
  <2>1. CASE \E i \in 1..Len(object) : object[i].key = key /\ Direct(style) /\ Found(text, key, Value(object[i], style))
    <3> HIDE DEF text, key
    <3> QED
      BY <1>4, <2>1
  <2>2. CASE ~HasKey(text, key) /\ (Direct(style) => \A i \in 1..Len(object) : object[i].key # key)
    BY <1>2, <2>2
  <2> HIDE DEF text, key
  <2> QED
    BY <1>5, <2>1, <2>2
<1> QED
  BY <1>6 DEF text, key

LEMMA PriorityRead ==
  ASSUME NEW object \in Objects, NEW style \in Styles
  PROVE  LET number == Given(object, "priority", <<"-1">>)[1]
             given == IF number \in DOMAIN Whole THEN Whole[number] ELSE 1
             got == GetInt(Body(object, style), "priority", 1)
         IN  got \in {given, 1} /\ (style \in PlainStyles => got = given)
<1> DEFINE text == Body(object, style)
           key == "priority"
           number == Given(object, key, <<"-1">>)[1]
           given == IF number \in DOMAIN Whole THEN Whole[number] ELSE 1
<1>1. key \in Keys /\ text \in Seq(Tokens) /\ Len(text) \in Nat
  <2>1. text \in Seq(Tokens)
    BY BodyForm
  <2> HIDE DEF text
  <2> QED
    BY <2>1 DEF Keys
<1>2. CASE ~HasKey(text, key) /\ (Direct(style) => \A i \in 1..Len(object) : object[i].key # key)
  <2>1. GetInt(text, key, 1) = 1
    BY <1>2, Defaults
  <2>2. style \in PlainStyles => given = 1
    <3>1. style \in PlainStyles => Given(object, key, <<"-1">>) = <<"-1">>
      BY <1>2, PlainIsDirect, GivenIs
    <3>2. <<"-1">>[1] = "-1" /\ "-1" \notin DOMAIN Whole
      BY DEF Whole
    <3> QED
      BY <3>1, <3>2
  <2> HIDE DEF given
  <2> QED
    BY <2>1, <2>2 DEF given
<1>3. ASSUME NEW i \in 1..Len(object), object[i].key = key, Found(text, key, Value(object[i], style))
      PROVE  GetInt(text, key, 1) = given
  <2> DEFINE value == Value(object[i], style)
             v == ValueOf(text, key)
  <2>1. PICK p \in Priorities : object[i].value = <<p>>
    BY <1>3, ObjectShapes, FieldShapes
  <2>2. Given(object, key, <<"-1">>) = <<p>>
    BY <1>3, <2>1, GivenIs
  <2>3. value = <<p>>
    BY <1>3, <2>1 DEF Value
  <2>4. number = p /\ Len(<<p>>) = 1 /\ <<p>>[1] = p
    BY <2>2
  <2> HIDE DEF value
  <2>5. /\ HasKey(text, key) /\ v \in Nat \ {0}
        /\ \A r \in 1..Len(value) : v + r - 1 \in 1..Len(text) /\ text[v + r - 1] = value[r]
    BY <1>3 DEF Found, value
  <2> HIDE DEF text, key, v, number
  <2>6. v \in 1..Len(text) /\ text[v] = p
    <3>1. 1 \in 1..Len(value) /\ v + 1 - 1 = v
      BY <2>3, <2>4, <2>5
    <3> QED
      BY <2>3, <2>4, <2>5, <3>1
  <2>7. At(text, v) = p
    BY <1>1, <2>6 DEF At
  <2> QED
    BY <2>4, <2>5, <2>7 DEF GetInt, v
<1> HIDE DEF text, key, given
<1>4. ASSUME NEW i \in 1..Len(object), object[i].key = key, Direct(style), Found(text, key, Value(object[i], style))
      PROVE  GetInt(text, key, 1) = given
  BY <1>3, <1>4
<1>5. \/ \E i \in 1..Len(object) :
           object[i].key = key /\ Direct(style) /\ Found(text, key, Value(object[i], style))
      \/ ~HasKey(text, key) /\ (Direct(style) => \A i \in 1..Len(object) : object[i].key # key)
  BY <1>1, Searched DEF text
<1>6. GetInt(text, key, 1) \in {given, 1} /\ (style \in PlainStyles => GetInt(text, key, 1) = given)
  <2> USE DEF given, text, key
  <2>1. CASE \E i \in 1..Len(object) : object[i].key = key /\ Direct(style) /\ Found(text, key, Value(object[i], style))
    <3> HIDE DEF given, text, key
    <3> QED
      BY <1>4, <2>1
  <2>2. CASE ~HasKey(text, key) /\ (Direct(style) => \A i \in 1..Len(object) : object[i].key # key)
    BY <1>2, <2>2
  <2> HIDE DEF given, text, key
  <2> QED
    BY <1>5, <2>1, <2>2
<1> QED
  BY <1>6 DEF given, text, key

\* The task is made of what the body says.
LEMMA TaskRead ==
  ASSUME NEW b \in Bodies
  PROVE  LET meant == Meant(b.object)
             made == TaskOf(b.tokens)
         IN  /\ b.style \in PlainStyles => made = meant
             /\ IsPrefix(made.input, meant.input)
             /\ made.model \in {meant.model, "default"}
             /\ made.priority \in {meant.priority, 1}
<1>1. PICK o \in Objects, s \in Styles : b = [object |-> o, style |-> s, tokens |-> Body(o, s)]
  BY DEF Bodies, Styles
<1> DEFINE text == Body(o, s)
           input == Given(o, "input", << >>)
           model == Given(o, "model", <<"">>)
           number == Given(o, "priority", <<"-1">>)[1]
           priority == IF number \in DOMAIN Whole THEN Whole[number] ELSE 1
           name == IF model = <<"">> THEN "default" ELSE model[1]
           got == GetString(text, "model")
           nameGot == IF got = "" THEN "default" ELSE got
<1>2. b.object = o /\ b.style = s /\ b.tokens = text
  BY <1>1
<1>3. /\ IsPrefix(GetFloatArray(text, "input"), input)
      /\ s \in PlainStyles => GetFloatArray(text, "input") = input
  BY InputRead
<1>4. (got = "" \/ model = <<got>>) /\ (s \in PlainStyles => model = <<got>>)
  BY ModelRead
<1>5. GetInt(text, "priority", 1) \in {priority, 1} /\ (s \in PlainStyles => GetInt(text, "priority", 1) = priority)
  BY PriorityRead
<1>6. Meant(o) = [input |-> input, model |-> name, priority |-> priority]
  BY DEF Meant
<1>7. TaskOf(text) = [input |-> GetFloatArray(text, "input"), model |-> nameGot, priority |-> GetInt(text, "priority", 1)]
  BY DEF TaskOf
<1> HIDE DEF text, input, model, priority, got
<1>8. nameGot \in {name, "default"} /\ (s \in PlainStyles => nameGot = name)
  <2>1. \A w : <<w>>[1] = w
    OBVIOUS
  <2>2. model = <<got>> => nameGot = name
    <3>1. CASE got = ""
      BY <3>1
    <3>2. CASE got # ""
      <4>1. model = <<got>> => model[1] = got /\ model # <<"">>
        <5>1. <<"">>[1] = ""
          BY <2>1
        <5> QED
          BY <2>1, <3>2, <5>1, Zenon
      <4> QED
        BY <3>2, <4>1
    <3> QED
      BY <3>1, <3>2
  <2>3. got = "" => nameGot = "default"
    OBVIOUS
  <2> HIDE DEF nameGot, name
  <2> QED
    BY <1>4, <2>2, <2>3
<1> HIDE DEF name, nameGot
<1>9. s \in PlainStyles => TaskOf(text) = Meant(o)
  BY <1>3, <1>5, <1>6, <1>7, <1>8
<1>10. IsPrefix(TaskOf(text).input, Meant(o).input)
  <2>1. TaskOf(text).input = GetFloatArray(text, "input") /\ Meant(o).input = input
    BY <1>6, <1>7
  <2> QED
    BY <1>3, <2>1
<1>11. TaskOf(text).model \in {Meant(o).model, "default"}
  BY <1>6, <1>7, <1>8
<1>12. TaskOf(text).priority \in {Meant(o).priority, 1}
  BY <1>5, <1>6, <1>7
<1> QED
  BY <1>2, <1>9, <1>10, <1>11, <1>12

\* What do_request has while it waits for the scheduler is the task it made of a body.
TaskInv == pc = "task" => \E b \in Bodies : json = b /\ task = TaskOf(b.tokens)

LEMMA TaskStep == ASSUME TaskInv, [Next]_allVars PROVE TaskInv'
<1>1. CASE NewTask
  BY <1>1 DEF NewTask, TaskInv
<1>2. CASE UNCHANGED <<pc, json, task>>
  BY <1>2 DEF TaskInv
<1>3. ASSUME ~NewTask, ~UNCHANGED <<pc, json, task>> PROVE pc' # "task"
  <2>1. CASE Reading
    BY <2>1 DEF Reading, Arrive, ReadOnce, ProcessRead, LineNotOk, ParseRequestLine, LineOk, ParseHeader,
       ParseBlankLine, ParseContent, Answers, GoesOn
  <2>2. CASE DoRequestEnds \/ Respond \/ Build \/ WriteLast \/ WriteFails
    BY <2>2 DEF DoRequestEnds, Respond, Build, WriteLast, WriteFails
  <2>3. CASE NextRequest \/ (\E n \in PartSizes : WritePart(n)) \/ UNCHANGED allVars
    BY <1>3, <2>3 DEF NextRequest, Ask, WritePart
  <2> QED
    BY <1>3, <2>1, <2>2, <2>3 DEF Next, Answering
<1> QED
  BY <1>1, <1>2, <1>3 DEF TaskInv

\* The task has the fields that the body means, in whatever order they stand, and no field is
\* taken for another one in a style that the search for a key does not expect (do_request).
THEOREM FieldsAreRead == Spec => []TaskOfTheBody
<1>1. Init => TaskInv
  BY DEF Init, RequestInit, TaskInv
<1>2. TaskInv => TaskOfTheBody
  <2> SUFFICES ASSUME TaskInv, pc = "task" PROVE TaskOfTheBody
    BY DEF TaskOfTheBody
  <2>1. PICK b \in Bodies : json = b /\ task = TaskOf(b.tokens)
    BY DEF TaskInv
  <2> QED
    BY <2>1, TaskRead DEF TaskOfTheBody
<1>3. TaskInv /\ [Next]_allVars => TaskInv'
  BY TaskStep
<1> QED
  BY <1>1, <1>2, <1>3, PTL DEF Spec
=============================================================================

---------------------------- MODULE HttpResponse ----------------------------
(***************************************************************************)
(* How a connection object (http_conn) builds a response in a buffer that  *)
(* grows (set_response_body, add_response, process_write) and sends it in  *)
(* as many parts as the socket takes (write).                              *)
(*                                                                         *)
(* Bytes are counted in units: a line of the head is one, the text of a    *)
(* body any number of them.  A unit is a pair, of its kind and what it     *)
(* says.                                                                   *)
(***************************************************************************)
EXTENDS Integers, Sequences

CONSTANTS
  InitBufferSize,   \* INIT_BUFFER_SIZE
  MaxOutput         \* bound on the floats of an output

ASSUME BuffersAssumption == InitBufferSize \in Nat \ {0} /\ MaxOutput \in Nat

VARIABLES
  m_response_body,      \* the string and the size of the memory it is in
  m_response_status,
  m_write_buf,          \* as long as m_write_buf_size
  m_write_idx,
  m_iv,                 \* m_iv[0]: where it begins in m_write_buf, and its length
  bytes_to_send, bytes_have_send,
  unwritten,            \* what process_write has yet to give to add_response
  received,             \* what the client has got of the response
  whole                 \* ghost: the response it is to get

bufferVars   == <<m_response_body, m_response_status, m_write_buf, m_write_idx, unwritten>>
sendVars     == <<m_iv, bytes_to_send, bytes_have_send>>
responseVars == <<bufferVars, sendVars, received, whole>>

-----------------------------------------------------------------------------
Nul == <<"nul", 0>>
Raw == <<"raw", 0>>    \* what new memory holds
Memory(n, unit) == [i \in 1..n |-> unit]

NoBody == [text |-> << >>, size |-> InitBufferSize]
NoSend == [base |-> 0, len |-> 0]

\* http_conn::init()
ResponseInit ==
  /\ m_response_body = NoBody
  /\ m_response_status = 200
  /\ m_write_buf = Memory(InitBufferSize, Nul)
  /\ m_write_idx = 0
  /\ m_iv = NoSend
  /\ bytes_to_send = 0 /\ bytes_have_send = 0
  /\ unwritten = << >> /\ received = << >> /\ whole = << >>

\* ... which does not touch m_iv.
ResponseRenewed ==
  /\ m_response_body' = NoBody
  /\ m_response_status' = 200
  /\ m_write_buf' = Memory(InitBufferSize, Nul)
  /\ m_write_idx' = 0
  /\ bytes_to_send' = 0 /\ bytes_have_send' = 0
  /\ UNCHANGED unwritten

-----------------------------------------------------------------------------
(* set_response_body and add_response *)

\* The first of size, 2 size, 4 size, ... that is larger than n.
Doubled(size, n) ==
  LET k == CHOOSE k \in 0..n : size * 2^k > n /\ \A j \in 0..(k - 1) : size * 2^j <= n
  IN  size * 2^k

SetResponseBody(text) ==
  m_response_body' = [text |-> text, size |-> Doubled(m_response_body.size, Len(text))]

\* vsnprintf: a text that is too long is cut to make room for the zero.
Printed(buf, idx, text) ==
  LET n == IF Len(text) < Len(buf) - idx THEN Len(text) ELSE Len(buf) - idx - 1
  IN  [i \in DOMAIN buf |-> IF i \in (idx + 1)..(idx + n) THEN text[i - idx]
                            ELSE IF i = idx + n + 1 THEN Nul ELSE buf[i]]

\* Mutant: a text that fills the buffer without its zero is taken to fit.
FitsWithoutZero(text) == Len(text) <= Len(m_write_buf) - m_write_idx

Fits(text) == Len(text) < Len(m_write_buf) - m_write_idx

\* A buffer of twice the size, or more, into which what there is is copied.
Grown(text) ==
  SubSeq(m_write_buf, 1, m_write_idx)
    \o Memory(Doubled(Len(m_write_buf), m_write_idx + Len(text)) - m_write_idx, Raw)

\* add_response, which formats a text that does not fit once more into the new buffer.
WithResponse(text) == Printed(IF Fits(text) THEN m_write_buf ELSE Grown(text), m_write_idx, text)

\* The head of each kind of response, and its body.
HeadLines(status, n, linger) ==
  <<<<"status", status>>>> \o
  (IF status \in {200, 503} THEN <<<<"json", 0>>>> ELSE << >>) \o
  <<<<"length", n>>, <<"linger", IF linger THEN 1 ELSE 0>>, <<"blank", 0>>>>

\* The HTTP_CODEs that process_read may come to.
Status(code) == CASE code = "400" -> 400
                  [] code = "404" -> 404
                  [] code = "json" -> m_response_status

Form == <<<<"form", 1>>, <<"form", 2>>>>
Content(code) == IF code = "json" THEN m_response_body.text ELSE Form

\* process_write: the lines of the head and then the body ...
BeginResponse(code, linger) ==
  LET text  == Content(code)
      lines == HeadLines(Status(code), Len(text), linger)
  IN  /\ unwritten' = Append([i \in DOMAIN lines |-> <<lines[i]>>], text)
      /\ whole' = lines \o text
      /\ received' = << >>
      /\ UNCHANGED <<m_response_body, m_response_status, m_write_buf, m_write_idx, sendVars>>

\* ... go into the buffer one by one ...
AddNext ==
  /\ unwritten # << >>
  /\ LET text == Head(unwritten)
     IN  m_write_buf' = WithResponse(text) /\ m_write_idx' = m_write_idx + Len(text)
  /\ unwritten' = Tail(unwritten)
  /\ UNCHANGED <<m_response_body, m_response_status, sendVars, received, whole>>

\* ... which is then ready to be sent.
EndResponse ==
  /\ unwritten = << >>
  /\ m_iv' = [base |-> 0, len |-> m_write_idx]
  /\ bytes_to_send' = m_write_idx
  /\ UNCHANGED <<bufferVars, bytes_have_send, received, whole>>

-----------------------------------------------------------------------------
(* write *)

\* What writev is given.
Offered == SubSeq(m_write_buf, m_iv.base + 1, m_iv.base + m_iv.len)

\* m_iv[0] after another part: bytes_have_send is a sum, but is taken from what is left.
MovedOn(have) ==
  IF have >= m_iv.len THEN [m_iv EXCEPT !.len = 0]
  ELSE [base |-> have, len |-> m_iv.len - have]

\* How much of it the socket may take.
PartSizes == 1..m_iv.len

\* The socket takes n units.
Writev(n) ==
  /\ received' = received \o SubSeq(Offered, 1, n)
  /\ bytes_have_send' = bytes_have_send + n
  /\ bytes_to_send' = bytes_to_send - n
  /\ m_iv' = MovedOn(bytes_have_send')
  /\ UNCHANGED <<bufferVars, whole>>

\* Nothing is offered although not all was sent: write calls writev for ever.
Stalled == bytes_to_send > 0 /\ m_iv.len = 0

-----------------------------------------------------------------------------
ResponseTypeOK ==
  /\ Len(m_response_body.text) < m_response_body.size
  /\ m_response_status \in {200, 503}
  /\ m_write_idx \in 0..Len(m_write_buf)
  /\ bytes_to_send \in 0..m_write_idx /\ bytes_have_send \in 0..m_write_idx
  /\ unwritten # << >> => bytes_to_send = 0
  /\ bytes_to_send > 0 => m_iv.base + m_iv.len <= m_write_idx
=============================================================================

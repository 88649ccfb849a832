---------------------------- MODULE HttpRequest ----------------------------
(***************************************************************************)
(* How a connection object (http_conn) reads and parses requests: the      *)
(* bytes of a request arrive in pieces of any size, read_once puts them    *)
(* into a buffer of fixed size, and process_read goes on where it stopped, *)
(* line by line and then for a body of Content-length bytes.  The client   *)
(* sends its next request after the answer to the last one.  What the body *)
(* says and what becomes of an answer is in HttpConnection.                *)
(*                                                                         *)
(* The unit in which bytes are counted is coarser than a byte, except at   *)
(* line ends: the text of a line is one unit, its CR and its LF are one    *)
(* each, and a body consists of units that may again be CR and LF.  The    *)
(* buffer holds the first m_read_idx units of the request; what the zeros  *)
(* overwrite that the parser puts behind a line and behind the body is     *)
(* left out, since it never goes back there, but not where the latter one  *)
(* lies.                                                                   *)
(***************************************************************************)
EXTENDS Integers, Sequences, FiniteSets

CONSTANTS
  BufferSize,   \* m_read_buf_size
  MaxHeaders,   \* bound on the headers of a request
  MaxBody       \* bound on the units of a body

ASSUME SizesAssumption == BufferSize \in Nat \ {0} /\ MaxHeaders \in Nat /\ MaxBody \in Nat

VARIABLES
  edge,         \* m_TRIGMode: edge-triggered reads
  request,      \* client: the request it sends; no request at all between two of them
  arrived,      \* units of it that have reached the server
  pc,           \* "wait" for data, "parse", "answer"; and what follows the answer
  answer,       \* the HTTP_CODE process_read came to
  m_read_idx, m_checked_idx, m_start_line,
  m_check_state, m_target, m_linger, m_content_length,
  zeroed        \* ghost: where parse_content has put its zero, if it has

parserVars == <<m_checked_idx, m_start_line, m_check_state, m_target, m_linger, m_content_length, zeroed>>
clientVars == <<edge, request, arrived>>
vars == <<clientVars, pc, answer, m_read_idx, parserVars>>

-----------------------------------------------------------------------------
(* Requests *)

SeqsUpTo(S, n) == UNION {[1..k -> S] : k \in 0..n}

\* line: POST /infer, a request line for something else, or none; eol: what ends it (behind
\* garbage or a bad line end nothing is ever looked at, so no headers follow there).
\* length: what the Content-length header says, if there is one.  Of those that are negative there
\* is -1: one of more than the head has bytes makes parse_content write before the buffer.
Requests ==
  {r \in [line: {"infer", "other", "garbage"},
          eol: {<<"CR", "LF">>, <<"CR">>, <<"LF">>},
          headers: SeqsUpTo({"length", "keep-alive"}, MaxHeaders),
          length: (-1)..(MaxBody + 1),
          body: SeqsUpTo({"text", "LF"}, MaxBody)] :
     /\ r.line = "garbage" \/ r.eol # <<"CR", "LF">> => r.headers = << >>
     /\ IF "length" \in {r.headers[i] : i \in DOMAIN r.headers}
          THEN r.length \in {Len(r.body), Len(r.body) + 1} \/ (r.length = -1 /\ r.body = << >>)
          ELSE r.length = 0 /\ r.body = << >>}

NoRequest == << >>
Asking == request # NoRequest

HeaderLines(hs) ==
  [i \in 1..(3 * Len(hs)) |-> CASE i % 3 = 1 -> hs[(i + 2) \div 3]
                                [] i % 3 = 2 -> "CR"
                                [] i % 3 = 0 -> "LF"]

\* A request as it is sent.
Wire(r) == <<r.line>> \o r.eol \o HeaderLines(r.headers) \o <<"CR", "LF">> \o r.body
Size == IF Asking THEN Len(Wire(request)) ELSE 0

\* m_read_buf[i]; the indices of the code begin at 0.
Unit(i) == Wire(request)[i + 1]

-----------------------------------------------------------------------------
\* http_conn::init(), for a new connection and between two requests of one.
Fresh ==
  /\ m_checked_idx = 0 /\ m_start_line = 0
  /\ m_check_state = "line"
  /\ m_target = "none" /\ m_linger = FALSE /\ m_content_length = 0
  /\ zeroed = {}

Renewed ==
  /\ m_checked_idx' = 0 /\ m_start_line' = 0
  /\ m_check_state' = "line"
  /\ m_target' = "none" /\ m_linger' = FALSE /\ m_content_length' = 0
  /\ zeroed' = {}

RequestInit ==
  /\ edge \in BOOLEAN
  /\ request = NoRequest /\ arrived = 0
  /\ pc = "wait" /\ answer = "none"
  /\ m_read_idx = 0
  /\ Fresh

\* The client begins a request ...
Ask ==
  /\ pc = "wait" /\ ~Asking
  /\ request' \in Requests
  /\ UNCHANGED <<edge, arrived, pc, answer, m_read_idx, parserVars>>

\* ... and the next unit of it arrives; what does so while a worker has the connection is not
\* read before the connection waits again, and counts as arriving then.
Arrive ==
  /\ pc = "wait"
  /\ arrived < Size
  /\ arrived' = arrived + 1
  /\ UNCHANGED <<edge, request, pc, answer, m_read_idx, parserVars>>

-----------------------------------------------------------------------------
(* read_once *)

\* Mutants: one unit too many, one too few.
RoomPlusOne  == BufferSize + 1 - m_read_idx
RoomMinusOne == BufferSize - 1 - m_read_idx

\* What the buffer has room for.
Room == BufferSize - m_read_idx

\* What has arrived and is not read.
Unread == arrived - m_read_idx

\* An edge-triggered read ends with recv = -1; with no room left it ends with recv = 0.
ReadFails == Room <= 0 \/ (edge /\ Unread >= Room)

ReadOnce ==
  /\ pc = "wait"
  /\ Unread > 0
  /\ m_read_idx' = m_read_idx + (IF Unread < Room THEN Unread ELSE Room)
  /\ pc' = IF ReadFails THEN "closed" ELSE "parse"
  /\ UNCHANGED <<clientVars, answer, parserVars>>

-----------------------------------------------------------------------------
(* process_read *)

\* Where parse_line stops: at the first CR or LF, or at the end of what there is.
LineEnd ==
  LET buf == Wire(request)
      ends == {i \in m_checked_idx..(m_read_idx - 1) : buf[i + 1] \in {"CR", "LF"}}
  IN  IF ends = {} THEN m_read_idx ELSE CHOOSE i \in ends : \A j \in ends : i <= j

\* parse_line: the line status, and m_checked_idx after it.
ParsedLine ==
  LET i == LineEnd
      line(status, checked) == [status |-> status, checked |-> checked]
  IN  CASE i = m_read_idx -> line("open", i)
        [] i < m_read_idx /\ Unit(i) = "CR" ->
             IF i + 1 = m_read_idx THEN line("open", i)
             ELSE IF Unit(i + 1) = "LF" THEN line("ok", i + 2) ELSE line("bad", i)
        [] i < m_read_idx /\ Unit(i) = "LF" ->
             IF i > 1 /\ Unit(i - 1) = "CR" THEN line("ok", i + 1) ELSE line("bad", i)

\* The text of the line just parsed; "" if it is empty.
Text == IF Unit(m_start_line) \in {"CR", "LF"} THEN "" ELSE Unit(m_start_line)

\* No complete line: process_read returns NO_REQUEST, for a bad one, too.
LineNotOk ==
  /\ pc = "parse" /\ m_check_state # "content"
  /\ ParsedLine.status # "ok"
  /\ m_checked_idx' = ParsedLine.checked
  /\ pc' = "wait"
  /\ UNCHANGED <<clientVars, answer, m_read_idx, m_start_line, m_check_state, m_target, m_linger,
                 m_content_length, zeroed>>

LineOk(state) ==
  /\ pc = "parse" /\ m_check_state = state
  /\ ParsedLine.status = "ok"
  /\ m_checked_idx' = ParsedLine.checked
  /\ m_start_line' = ParsedLine.checked

Answers(code) == pc' = "answer" /\ answer' = code
GoesOn == UNCHANGED <<pc, answer>>

ParseRequestLine ==
  /\ LineOk("line")
  /\ IF Text \in {"infer", "other"}
       THEN m_check_state' = "header" /\ m_target' = Text /\ GoesOn
       ELSE Answers("400") /\ UNCHANGED <<m_check_state, m_target>>
  /\ UNCHANGED <<clientVars, m_read_idx, m_linger, m_content_length, zeroed>>

\* do_request, up to the answer it gives without the scheduler or by it.
DoRequest == CASE m_target # "infer" -> "404"
               [] m_target = "infer" /\ m_content_length <= 0 -> "400"
               [] OTHER -> "json"

ParseHeader ==
  /\ LineOk("header")
  /\ Text # ""
  /\ m_linger' = (m_linger \/ Text = "keep-alive")
  /\ m_content_length' = IF Text = "length" THEN request.length ELSE m_content_length
  /\ GoesOn
  /\ UNCHANGED <<clientVars, m_read_idx, m_check_state, m_target, zeroed>>

ParseBlankLine ==
  /\ LineOk("header")
  /\ Text = ""
  /\ IF m_content_length # 0
       THEN m_check_state' = "content" /\ GoesOn
       ELSE Answers(DoRequest) /\ UNCHANGED m_check_state
  /\ UNCHANGED <<clientVars, m_read_idx, m_target, m_linger, m_content_length, zeroed>>

\* Mutant: the last unit is not waited for.
AlmostComplete == m_read_idx + 1 >= m_content_length + m_checked_idx

\* parse_content
ContentComplete == m_read_idx >= m_content_length + m_checked_idx

\* Mutant: parse_line is called in a body that is not complete.
BodyScanned == m_checked_idx' = ParsedLine.checked

\* Nothing changes while a body is not complete.
BodyLeftAlone == UNCHANGED m_checked_idx

ParseContent ==
  /\ pc = "parse" /\ m_check_state = "content"
  /\ m_start_line' = m_checked_idx
  /\ IF ContentComplete
       THEN Answers(DoRequest) /\ UNCHANGED m_checked_idx /\ zeroed' = {m_checked_idx + m_content_length}
       ELSE pc' = "wait" /\ UNCHANGED answer /\ BodyLeftAlone /\ UNCHANGED zeroed
  /\ UNCHANGED <<clientVars, m_read_idx, m_check_state, m_target, m_linger, m_content_length>>

ProcessRead == LineNotOk \/ ParseRequestLine \/ ParseHeader \/ ParseBlankLine \/ ParseContent

-----------------------------------------------------------------------------
RequestTypeOK ==
  /\ edge \in BOOLEAN
  /\ request \in Requests \cup {NoRequest}
  /\ arrived \in 0..Size
  /\ answer \in {"none", "400", "404", "json"}
  /\ m_read_idx \in 0..arrived /\ m_read_idx <= BufferSize
  /\ m_checked_idx \in 0..m_read_idx
  /\ m_start_line \in 0..m_checked_idx
  /\ m_check_state \in {"line", "header", "content"}
  /\ m_target \in {"none", "infer", "other"}
  /\ m_linger \in BOOLEAN
  /\ m_content_length \in (-1)..(MaxBody + 1)

\* The zero behind the body is put into the buffer, or right behind it by a request that fills the
\* buffer to the last unit; an edge-triggered read does not let it come that far.
ZeroTypeOK ==
  /\ zeroed \subseteq 0..BufferSize
  /\ BufferSize \in zeroed => m_read_idx = BufferSize /\ ~edge

\* What a request is to be answered with, all of it seen at once.
Has(r, h) == \E i \in DOMAIN r.headers : r.headers[i] = h
WellFormed(r) == r.eol = <<"CR", "LF">> /\ (r.line = "garbage" \/ r.length <= Len(r.body))
Expected(r) ==
  CASE ~WellFormed(r) -> "none"
    [] WellFormed(r) /\ r.line = "garbage" -> "400"
    [] WellFormed(r) /\ r.line = "other" -> "404"
    [] WellFormed(r) /\ r.line = "infer" -> IF r.length <= 0 THEN "400" ELSE "json"

\* The answer and the fate of the connection are those of the whole request, and do_request looks
\* at its body, all of it and nothing else.
ReadAsAWhole ==
  pc = "answer" =>
    /\ answer = Expected(request)
    /\ m_linger = Has(request, "keep-alive")
    /\ answer = "json" => /\ m_start_line + m_content_length <= m_read_idx
                          /\ SubSeq(Wire(request), m_start_line + 1, m_start_line + m_content_length)
                               = request.body
=============================================================================

--------------------------- MODULE HttpConnection ---------------------------
(***************************************************************************)
(* A connection from the request to the end of its response: HttpRequest   *)
(* reads and parses it; do_request makes a task of the fields that         *)
(* JsonFields finds in the body, and waits for the scheduler; HttpResponse *)
(* builds the response and sends it.  All but the reads and the writes is  *)
(* one call of process, in one thread.                                     *)
(*                                                                         *)
(* HttpRequest counts the units of a body and does not say what is in      *)
(* them; what do_request finds in one is chosen when it looks.             *)
(***************************************************************************)
EXTENDS HttpRequest, HttpResponse, JsonFields

VARIABLES
  json,      \* ghost: the body, while do_request has it
  task       \* the InferenceTask

NoJson == << >>
NoTask == << >>

doVars == <<json, task>>
allVars == <<vars, responseVars, doVars>>

Init ==
  /\ RequestInit
  /\ ResponseInit
  /\ json = NoJson /\ task = NoTask

-----------------------------------------------------------------------------
(* do_request, from the body on *)

NewTask ==
  /\ pc = "answer" /\ answer = "json"
  /\ \E b \in Bodies : json' = b /\ task' = TaskOf(b.tokens)
  /\ pc' = "task"
  /\ UNCHANGED <<clientVars, answer, m_read_idx, parserVars, responseVars>>

Texts == [missing |-> <<<<"missing", 0>>>>,
          overloaded |-> <<<<"overloaded", 0>>>>,
          timeout |-> <<<<"timeout", 0>>>>,
          failed |-> <<<<"failed", 0>>>>]

\* What the scheduler may do to a task: see BatchScheduler.
Outputs == {[j \in 1..(n + 2) |-> <<"ok", j>>] : n \in 0..MaxOutput}

Answered(text, status) ==
  /\ SetResponseBody(text)
  /\ m_response_status' = status

DoRequestEnds ==
  /\ pc = "task"
  /\ IF task.input = << >>
       THEN Answered(Texts.missing, m_response_status)
       ELSE \/ Answered(Texts.overloaded, 503)
            \/ \E text \in {Texts.timeout, Texts.failed} \cup Outputs : Answered(text, m_response_status)
  /\ pc' = "respond"
  /\ json' = NoJson /\ task' = NoTask
  /\ UNCHANGED <<clientVars, answer, m_read_idx, parserVars,
                 m_write_buf, m_write_idx, unwritten, sendVars, received, whole>>

-----------------------------------------------------------------------------
(* The response *)

\* process_write, as HttpResponse has it
Respond ==
  /\ pc = "respond" \/ (pc = "answer" /\ answer # "json")
  /\ BeginResponse(answer, m_linger)
  /\ pc' = "build"
  /\ UNCHANGED <<clientVars, answer, m_read_idx, parserVars, doVars>>

Build ==
  /\ pc = "build"
  /\ \/ AddNext /\ UNCHANGED pc
     \/ EndResponse /\ pc' = "write"
  /\ UNCHANGED <<clientVars, answer, m_read_idx, parserVars, doVars>>

\* A part of the response goes out; EAGAIN and the call of write that follows it change nothing.
WritePart(n) ==
  /\ pc = "write"
  /\ n < bytes_to_send
  /\ Writev(n)
  /\ UNCHANGED <<vars, doVars>>

\* The last part.  A connection that is not kept is closed, one that is kept starts afresh.
WriteLast ==
  /\ pc = "write"
  /\ bytes_to_send <= m_iv.len
  /\ received' = received \o SubSeq(Offered, 1, bytes_to_send)
  /\ IF m_linger
       THEN /\ pc' = "wait" /\ answer' = "none" /\ request' = NoRequest /\ arrived' = 0
            /\ m_read_idx' = 0 /\ Renewed
            /\ ResponseRenewed
       ELSE /\ pc' = "closed"
            /\ bytes_have_send' = bytes_have_send + bytes_to_send /\ bytes_to_send' = 0
            /\ UNCHANGED <<request, arrived, answer, m_read_idx, parserVars, bufferVars>>
  /\ m_iv' = [m_iv EXCEPT !.len = 0]
  /\ UNCHANGED <<edge, whole, doVars>>

\* writev fails, because the client has gone.
WriteFails ==
  /\ pc = "write"
  /\ pc' = "lost"
  /\ UNCHANGED <<clientVars, answer, m_read_idx, parserVars, responseVars, doVars>>

-----------------------------------------------------------------------------
\* A new request; what the client got before is no longer looked at.
NextRequest ==
  /\ Ask
  /\ received' = << >> /\ whole' = << >>
  /\ UNCHANGED <<bufferVars, sendVars, doVars>>

Reading == (Arrive \/ ReadOnce \/ ProcessRead) /\ UNCHANGED <<responseVars, doVars>>

Answering == \/ NewTask \/ DoRequestEnds \/ Respond \/ Build
             \/ WriteLast \/ \E n \in PartSizes : WritePart(n)

Next == NextRequest \/ Reading \/ Answering \/ WriteFails

Spec == Init /\ [][Next]_allVars

\* The event loop and the pool serve a connection that can be read or written (EventLoop); the
\* wait for the scheduler is timed, and a socket whose client reads does not stay full.
FairSpec ==
  Spec /\ WF_allVars(((ReadOnce \/ ProcessRead) /\ UNCHANGED <<responseVars, doVars>>) \/ Answering)

-----------------------------------------------------------------------------
(* Properties *)

TypeOK ==
  /\ RequestTypeOK /\ ZeroTypeOK
  /\ ResponseTypeOK
  /\ pc \in {"wait", "parse", "answer", "task", "respond", "build", "write", "closed", "lost"}
  /\ json \in Bodies \cup {NoJson}
  /\ (pc = "task") = (json # NoJson)

\* However a request is cut into reads, also between CR and LF and inside a body with line ends,
\* it is answered as if it had come at once.
AnswerOfTheWhole == ReadAsAWhole

\* The task has the fields of the body, whatever their order and the blanks between them.  In a
\* style that the search for a key does not expect a field may be overlooked, or the input may
\* be cut short, but none is taken for another one.
TaskOfTheBody ==
  pc = "task" =>
    LET meant == Meant(json.object)
    IN  /\ json.style \in PlainStyles => task = meant
        /\ IsPrefix(task.input, meant.input)
        /\ task.model \in {meant.model, "default"}
        /\ task.priority \in {meant.priority, 1}

\* No response is cut short or written over itself, however large it is and in however many
\* parts it is sent (docs/bug-large-output-truncation.md): the client has a beginning of the
\* whole response at any time, and all of it when the connection goes on or is closed.
WholeResponse ==
  /\ IsPrefix(received, whole)
  /\ pc \in {"wait", "closed"} => received = whole

\* No connection is closed in the middle of a request that fits the buffer; the edge-triggered
\* read wants room for one unit more.
NotCutOff == pc = "closed" /\ answer = "none" => Size + (IF edge THEN 1 ELSE 0) > BufferSize

\* A request that has arrived is answered to the end, also if it came in many pieces
\* (docs/bug-large-request-disconnect.md) -- unless it is too long for the buffer, the client has
\* gone, or write has nothing left to offer although the response is not finished.
WholeIsAnswered ==
  (Asking /\ arrived = Size /\ Expected(request) # "none")
    ~> (~Asking \/ pc \in {"closed", "lost"} \/ Stalled)
=============================================================================

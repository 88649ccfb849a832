------------------------------ MODULE Engines ------------------------------
(***************************************************************************)
(* The inference engines behind IInferenceEngine: OnnxEngine, which packs  *)
(* the inputs of a batch into one tensor, runs a model that some file      *)
(* describes and takes the output apart again, and MockEngine; and how     *)
(* WebServer::thread_pool chooses between them.                            *)
(*                                                                         *)
(* A float is an integer, 0 is the one that pads, and the floats of an     *)
(* input name the input they belong to.  What a model computes is left     *)
(* out: a float of an output is a pair of what it was computed from and    *)
(* its place in there.  ONNX Runtime is external: Accepts, OutputDims and  *)
(* Tensor say what the code relies on.                                     *)
(***************************************************************************)
EXTENDS Integers, Sequences, SequencesExt

CONSTANTS
  MaxBatch,   \* bound on the inputs of a batch
  MaxData,    \* bound on the floats of an input
  MaxRank,    \* bound on the dimensions of a tensor
  MockSize    \* set_io_size of the mock engine

ASSUME SizeAssumption == {MaxBatch, MaxData, MaxRank, MockSize} \subseteq Nat

VARIABLES
  sdk,       \* HAS_ONNXRUNTIME
  onnx,      \* the fields of the OnnxEngine
  session,   \* session_: the model it has loaded, or NoModel
  engine,    \* m_engine of the server: "none", "onnx", "mock"
  last,      \* the batch given last: by which engine it was run, with which model, whether that was
             \*   loaded over another one, and the results
  twice      \* ghost: init has been called on an engine in use

vars == <<sdk, onnx, session, engine, last, twice>>

-----------------------------------------------------------------------------
(* Files, shapes and inputs *)

\* -1 is a dimension that each run may choose.
Shapes == BoundedSeq({-1, 1, 2}, MaxRank)
\* What a file may hold: a model to serve; one whose output cannot be described, so that asking
\* throws; one without an output; or nothing that can be loaded.  What is not looked at is left out.
\* Whether ONNX Runtime lets a model run on a tensor with one dimension more in front than the file
\* declares is left open (front): infer_batch counts on it for models without a batch dimension.
Models == [file: {"good"}, input: Shapes, output: Shapes, front: BOOLEAN]
          \cup [file: {"badoutput"}, input: Shapes, output: {<< >>}, front: {FALSE}]
          \cup [file: {"unreadable", "nooutput"}, input: {<< >>}, output: {<< >>}, front: {FALSE}]
NoModel == [file |-> "none", input |-> << >>, output |-> << >>, front |-> FALSE]

\* The inputs of requests 1, 2, ...: request r has the floats 10 r + 1, 10 r + 2, ...
Data(r, n) == [j \in 1..n |-> 10 * r + j]
Batches == {[r \in 1..n |-> Data(r, size[r])] : n \in 0..MaxBatch, size \in [1..MaxBatch -> 0..MaxData]}

\* The number of floats; dimensions that are not known do not count.
Product(dims) ==
  LET product[i \in 0..Len(dims)] ==
        IF i = 0 THEN 1 ELSE product[i - 1] * (IF dims[i] > 0 THEN dims[i] ELSE 1)
  IN  product[Len(dims)]

\* OnnxEngine::OnnxEngine()
Constructed == [initialized |-> FALSE, has_batch_dim |-> FALSE,
                input_shape |-> << >>, output_shape |-> << >>, input_size |-> 0, output_size |-> 0]

-----------------------------------------------------------------------------
(* OnnxEngine::init and shutdown *)

FirstStatic(dims) == IF dims # << >> /\ dims[1] < 0 THEN [dims EXCEPT ![1] = 1] ELSE dims

HasBatchDim(dims) == dims # << >> /\ (dims[1] < 0 \/ (Len(dims) > 1 /\ dims[1] = 1))

\* extract_model_metadata, first the input ...
WithInput(e, m) == [e EXCEPT !.input_shape = FirstStatic(m.input),
                             !.has_batch_dim = @ \/ HasBatchDim(m.input),
                             !.input_size = Product(FirstStatic(m.input))]

\* ... and then the output.
WithOutput(e, m) == [e EXCEPT !.output_shape = FirstStatic(m.output),
                              !.output_size = Product(FirstStatic(m.output))]

Loaded(e, m) == [WithOutput(WithInput(e, m), m) EXCEPT !.initialized = TRUE]

\* Mutant: has_batch_dim_ is left as it is.
ClosedKeepsDim(e) == [e EXCEPT !.initialized = FALSE]

\* shutdown, which leaves model_info_ as it is
Closed(e) == [e EXCEPT !.initialized = FALSE, !.has_batch_dim = FALSE]

\* Mutant: an init that fails does not end in shutdown.
AfterInitHalfway(e, m) == CASE m.file = "good" -> Loaded(e, m)
                            [] m.file \in {"unreadable", "nooutput"} -> e
                            [] m.file = "badoutput" -> WithInput(e, m)

\* What init leaves, by how far it gets: a model without an output is found out before anything
\* is written, an output that cannot be described behind the input; both end in shutdown.
AfterInit(e, m) == CASE m.file = "good" -> Loaded(e, m)
                     [] m.file \in {"unreadable", "nooutput"} -> Closed(e)
                     [] m.file = "badoutput" -> Closed(WithInput(e, m))

InitEngine(m) ==
  IF sdk THEN /\ onnx' = AfterInit(onnx, m)
              /\ session' = IF m.file = "good" THEN m ELSE NoModel
         ELSE onnx' = [onnx EXCEPT !.initialized = FALSE] /\ UNCHANGED session

-----------------------------------------------------------------------------
(* ONNX Runtime *)

\* A model with a dimension in front runs as one for any number of its inputs.
Widened(m) == [m EXCEPT !.input = <<-1>> \o m.input, !.output = <<-1>> \o m.output]

\* The model as it runs on a tensor of a shape.
RunsAs(m, shape) == IF m.front /\ Len(shape) = Len(m.input) + 1 THEN Widened(m) ELSE m

\* CreateTensor wants enough floats and no negative dimension, Run a shape of the model.
Accepts(m, shape, floats) ==
  /\ \A d \in DOMAIN shape : shape[d] > 0
  /\ Len(floats) >= Product(shape)
  /\ Len(shape) = Len(m.input)
  /\ \A d \in DOMAIN shape : m.input[d] \in {-1, shape[d]}

\* The dimensions of the output for n rows; k is what the run chooses for the inner ones.
OutputDims(m, n, k) ==
  [d \in DOMAIN m.output |-> IF m.output[d] > 0 THEN m.output[d] ELSE IF d = 1 THEN n ELSE k]

\* A model with a first dimension of any size computes row by row, others from all there is.
Tensor(m, n, k, floats) ==
  LET size == Product(OutputDims(m, n, k))
      width == size \div n
      row(r) == SubSeq(floats, (r - 1) * (Len(floats) \div n) + 1, r * (Len(floats) \div n))
  IN  [x \in 1..size |->
         IF m.output # << >> /\ m.output[1] < 0
           THEN <<row(((x - 1) \div width) + 1), ((x - 1) % width) + 1>>
           ELSE <<floats, x>>]

-----------------------------------------------------------------------------
(* infer_batch *)

\* Mutant: short inputs are not padded.
FitUnpadded(data, n) == IF Len(data) >= n THEN SubSeq(data, 1, n) ELSE data

\* The first n floats of an input, with zeros behind a short one.
Fit(data, n) == [j \in 1..n |-> IF j <= Len(data) THEN data[j] ELSE 0]

\* pack_batch_input
Packed(batch) == FlattenSeq([i \in DOMAIN batch |-> Fit(batch[i], onnx.input_size)])

InputShape(n) ==
  IF onnx.has_batch_dim THEN [onnx.input_shape EXCEPT ![1] = n] ELSE <<n>> \o onnx.input_shape

\* No batch dimension is written into a shape without dimensions, which would end the process:
\* a has_batch_dim_ that remains from the model before may ask for it (see LikeNew).
ShapeCanBeSet == onnx.initialized /\ onnx.has_batch_dim => onnx.input_shape # << >>

Failed(batch) == [i \in DOMAIN batch |-> [success |-> FALSE, data |-> << >>]]

\* What lies behind the end of a tensor.
Outside == << << >>, 0>>

\* unpack_batch_output
Unpacked(tensor, n) ==
  [i \in 1..n |->
     [success |-> TRUE,
      data |-> [j \in 1..onnx.output_size |->
                  LET x == (i - 1) * onnx.output_size + j
                  IN  IF x <= Len(tensor) THEN tensor[x] ELSE Outside]]]

OnnxResults(batch, k) ==
  LET n == Len(batch)
      m == RunsAs(session, InputShape(n))
  IN  IF ~sdk \/ ~onnx.initialized THEN Failed(batch)
      ELSE IF batch = << >> THEN << >>
      ELSE IF Accepts(m, InputShape(n), Packed(batch))
        THEN Unpacked(Tensor(m, n, k, Packed(batch)), n)
        ELSE Failed(batch)

\* MockEngine::infer_batch
MockResults(batch) ==
  [i \in DOMAIN batch |->
     [success |-> TRUE,
      data |-> [j \in 1..MockSize |-> IF j <= Len(batch[i]) THEN 2 * batch[i][j] ELSE 0]]]

-----------------------------------------------------------------------------
NoBatch == [by |-> "none", model |-> NoModel, over |-> FALSE, batch |-> << >>, results |-> << >>]

Init ==
  /\ sdk \in BOOLEAN
  /\ onnx = Constructed
  /\ session = NoModel
  /\ engine = "none"
  /\ last = NoBatch
  /\ twice = FALSE

\* Whoever has an OnnxEngine of their own ...
InitCall(m) ==
  /\ engine = "none"
  /\ InitEngine(m)
  /\ twice' = (twice \/ onnx.initialized)
  /\ last' = NoBatch
  /\ UNCHANGED <<sdk, engine>>

Shutdown ==
  /\ engine = "none"
  /\ onnx' = Closed(onnx)
  /\ session' = NoModel
  /\ twice' = FALSE
  /\ last' = NoBatch
  /\ UNCHANGED <<sdk, engine>>

\* ... and the server, which has one engine for its whole life; if the model cannot be loaded
\* or none is named, it is the mock engine.
ThreadPool(onnxWanted, m) ==
  /\ engine = "none" /\ onnx = Constructed
  /\ IF onnxWanted THEN InitEngine(m) ELSE UNCHANGED <<onnx, session>>
  /\ engine' = IF onnxWanted /\ onnx'.initialized THEN "onnx" ELSE "mock"
  /\ UNCHANGED <<sdk, last, twice>>

InferBatch(by, batch) ==
  /\ IF engine = "none" THEN by \in {"onnx", "mock"} ELSE by = engine
  /\ by = "onnx" /\ batch # << >> => ShapeCanBeSet
  /\ \E k \in {1, 2} :
       last' = [by |-> by, model |-> session, over |-> twice, batch |-> batch,
                results |-> IF by = "onnx" THEN OnnxResults(batch, k) ELSE MockResults(batch)]
  /\ UNCHANGED <<sdk, onnx, session, engine, twice>>

Next ==
  \/ \E m \in Models : InitCall(m) \/ \E b \in BOOLEAN : ThreadPool(b, m)
  \/ Shutdown
  \/ \E by \in {"onnx", "mock"}, batch \in Batches : InferBatch(by, batch)

Spec == Init /\ [][Next]_vars

-----------------------------------------------------------------------------
(* Properties *)

TypeOK ==
  /\ sdk \in BOOLEAN
  /\ onnx.initialized => sdk /\ session \in Models
  /\ {onnx.has_batch_dim, onnx.initialized} \subseteq BOOLEAN
  /\ {onnx.input_shape, onnx.output_shape} \subseteq Shapes
  /\ {onnx.input_size, onnx.output_size} \subseteq Nat
  /\ session \in Models \cup {NoModel}
  /\ engine \in {"none", "onnx", "mock"} /\ (engine = "onnx" => onnx.initialized)
  /\ last.batch \in Batches /\ Len(last.results) = Len(last.batch)
  /\ twice \in BOOLEAN

\* A model may be for rows, however many or one at a time; or for one input, without a dimension for
\* more, and then takes more only as ONNX Runtime lets it.
Inner(dims) == \A d \in 2..Len(dims) : dims[d] > 0
ForOne(dims) == (\A d \in DOMAIN dims : dims[d] > 0) /\ ~(Len(dims) > 1 /\ dims[1] = 1)

TakesRows(m, n) ==
  \/ /\ m.input # << >> /\ Inner(m.input)
     /\ m.input[1] < 0 \/ (m.input[1] = 1 /\ n = 1 /\ Len(m.input) > 1)
  \/ m.front /\ ForOne(m.input)

\* It gives a row of a known size for each, and nothing else.
GivesRows(m, n) ==
  /\ Inner(m.output)
  /\ IF ForOne(m.input) THEN m.output = << >> \/ m.output[1] > 0
                        ELSE n = 1 \/ (m.output # << >> /\ m.output[1] < 0)

Alone(m, data) ==
  [success |-> TRUE, data |-> [j \in 1..Product(m.output) |-> <<Fit(data, Product(m.input)), j>>]]
NotTaken == [success |-> FALSE, data |-> << >>]

\* Batching cannot be noticed: if the model takes the batch, each input gets the result it would get
\* alone, in its place, also if inputs around it are too short or too long; and if it does not, all
\* of the batch fails.  Nothing is said of a model that takes a batch of many and does not promise a
\* row for each: whose first output dimension is fixed, or whose rows have no known size.
AsAlone ==
  LET n == Len(last.batch)
  IN  last.by = "onnx" /\ ~last.over =>
        /\ TakesRows(last.model, n) /\ GivesRows(last.model, n) =>
             last.results = [i \in 1..n |-> Alone(last.model, last.batch[i])]
        /\ ~TakesRows(last.model, n) => last.results = [i \in 1..n |-> NotTaken]

\* What an engine has been through does not show: one that has loaded a model is as a new one
\* that has loaded it -- unless init is called again without shutdown, when has_batch_dim_
\* remains from the model before.
LikeNew == onnx.initialized /\ ~twice => onnx = Loaded(Constructed, session)
=============================================================================

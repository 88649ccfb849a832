----------------------------- MODULE JsonFields -----------------------------
(***************************************************************************)
(* How do_request takes the fields of a request out of its body: not with  *)
(* a parser, but by looking for the first place where "key": stands.       *)
(*                                                                         *)
(* A body is a sequence of tokens: the punctuation of JSON ("begin" and    *)
(* "end" are the braces around it), "quote", "space", "newline", words,    *)
(* which are the insides of strings, and numbers.                          *)
(***************************************************************************)
EXTENDS Integers, Sequences, SequencesExt

CONSTANTS
  Inputs,       \* what clients send as input: sequences of numbers
  Models,       \* the names of models, "" among them
  Priorities    \* the numbers they send as priorities

\* The numbers of a body, with what strtol makes of those that begin with a digit.
Floats == {"0", "1.5", "2", "-1"}
Whole == [n \in {"0", "1.5", "2"} |-> CASE n = "0" -> 0 [] n = "1.5" -> 1 [] n = "2" -> 2]

Blanks == {"space", "newline"}
Punctuation == {"begin", "end", "[", "]", ":", "comma", "quote"} \cup Blanks

\* A name is a word; what a client writes as a number is one.
ASSUME FieldsAssumption ==
  /\ \A v \in Inputs : v \in Seq(Floats)
  /\ Models \cap Punctuation = {}
  /\ Priorities \subseteq Floats

\* The first token from i on that is not in S, or the one behind the last.
Skip(json, i, S) == CHOOSE j \in i..(Len(json) + 1) :
                      /\ \A k \in i..(j - 1) : json[k] \in S
                      /\ j <= Len(json) => json[j] \notin S

\* *p; "" is the zero behind the body.
At(json, i) == IF i <= Len(json) THEN json[i] ELSE ""

Search(key) == <<"quote", key, "quote", ":">>

\* strstr
HasKey(json, key) == \E i \in DOMAIN json : IsPrefix(Search(key), SubSeq(json, i, Len(json)))
FirstKey(json, key) ==
  CHOOSE i \in DOMAIN json : /\ IsPrefix(Search(key), SubSeq(json, i, Len(json)))
                             /\ \A j \in 1..(i - 1) :
                                  ~IsPrefix(Search(key), SubSeq(json, j, Len(json)))

\* Mutant: skip_ws is left out.
ValueRightBehind(json, key) == FirstKey(json, key) + Len(Search(key))

\* The place of the value.
ValueOf(json, key) == Skip(json, FirstKey(json, key) + Len(Search(key)), Blanks)

\* json_get_string; the words between two quotes, as one.
GetString(json, key) ==
  LET v == ValueOf(json, key)
  IN  IF HasKey(json, key) /\ At(json, v) = "quote" /\ At(json, v + 1) # "quote"
            /\ \E i \in (v + 1)..Len(json) : json[i] = "quote"
        THEN json[v + 1]
        ELSE ""

\* json_get_int
GetInt(json, key, default) ==
  IF HasKey(json, key) /\ At(json, ValueOf(json, key)) \in DOMAIN Whole
    THEN Whole[At(json, ValueOf(json, key))]
    ELSE default

\* strtof skips whatever is blank, but the loop around it nothing but spaces and commas, so that
\* a line end before a comma ends the array.
Ends(json, i) ==
  \/ At(json, i) \notin Floats \cup Blanks \cup {"comma"}
  \/ At(json, i) = "newline" /\ At(json, Skip(json, i, Blanks)) \notin Floats

ArrayEnd(json, first) ==
  CHOOSE i \in first..(Len(json) + 1) : Ends(json, i) /\ \A j \in first..(i - 1) : ~Ends(json, j)

\* The numbers of the n tokens from first on.
NumbersOf(json, first, n) ==
  LET numbers[i \in 0..n] ==
        IF i = 0 THEN << >>
        ELSE IF json[first + i - 1] \in Floats THEN Append(numbers[i - 1], json[first + i - 1])
        ELSE numbers[i - 1]
  IN  numbers[n]

\* json_get_float_array
GetFloatArray(json, key) ==
  LET first == ValueOf(json, key) + 1
  IN  IF HasKey(json, key) /\ At(json, ValueOf(json, key)) = "["
        THEN NumbersOf(json, first, ArrayEnd(json, first) - first)
        ELSE << >>

\* The fields of the task that do_request makes of a body.
TaskOf(json) ==
  [input    |-> GetFloatArray(json, "input"),
   model    |-> IF GetString(json, "model") = "" THEN "default" ELSE GetString(json, "model"),
   priority |-> GetInt(json, "priority", 1)]

-----------------------------------------------------------------------------
(* Bodies that a client may send: an object with some of the fields, in any order and written in *)
(* some style, and what it means                                                                 *)

Fields == {[key |-> "input", value |-> v] : v \in Inputs}
          \cup {[key |-> "model", value |-> <<v>>] : v \in Models}
          \cup {[key |-> "priority", value |-> <<v>>] : v \in Priorities}

Objects == {fs \in BoundedSeq(Fields, 3) :
              \A i, j \in DOMAIN fs : fs[i].key = fs[j].key => i = j}

\* What stands before and behind a colon, and before and behind a comma of the array.
Style(beforeColon, behindColon, beforeComma, behindComma) ==
  [colon |-> beforeColon \o <<":">> \o behindColon, comma |-> beforeComma \o <<"comma">> \o behindComma]

PlainStyles == {Style(<< >>, << >>, << >>, << >>), Style(<< >>, <<"space">>, << >>, <<"space">>),
                Style(<< >>, <<"space">>, << >>, <<"newline", "space">>)}
OddStyles   == {Style(<<"space">>, << >>, << >>, << >>), Style(<< >>, << >>, <<"newline">>, << >>)}

Quoted(word) == IF word = "" THEN <<"quote", "quote">> ELSE <<"quote", word, "quote">>

\* Elements with something between them.
Joined(seqs, between) ==
  FlattenSeq([i \in DOMAIN seqs |-> IF i = 1 THEN seqs[i] ELSE between \o seqs[i]])

Value(f, style) ==
  CASE f.key = "input" -> <<"[">> \o Joined([i \in DOMAIN f.value |-> <<f.value[i]>>], style.comma) \o <<"]">>
    [] f.key = "model" -> Quoted(f.value[1])
    [] f.key = "priority" -> f.value

Written(f, style) == Quoted(f.key) \o style.colon \o Value(f, style)

Body(object, style) ==
  <<"begin">> \o Joined([i \in DOMAIN object |-> Written(object[i], style)], style.comma) \o <<"end">>

Bodies == {[object |-> o, style |-> s, tokens |-> Body(o, s)] :
             o \in Objects, s \in PlainStyles \cup OddStyles}

\* The value of a field, or what stands for it.
Given(object, key, default) ==
  IF \E i \in DOMAIN object : object[i].key = key
    THEN object[CHOOSE i \in DOMAIN object : object[i].key = key].value
    ELSE default

\* What a body means.  A priority that is no natural number is none.
Meant(object) ==
  [input    |-> Given(object, "input", << >>),
   model    |-> IF Given(object, "model", <<"">>) = <<"">> THEN "default" ELSE Given(object, "model", <<"">>)[1],
   priority |-> LET p == Given(object, "priority", <<"-1">>)[1]
                IN  IF p \in DOMAIN Whole THEN Whole[p] ELSE 1]
=============================================================================

-------------------------- MODULE MCHttpConnection --------------------------
(* An instance of HttpConnection for TLC. *)
EXTENDS HttpConnection

MCInputs == {<< >>, <<"-1", "1.5">>}
=============================================================================

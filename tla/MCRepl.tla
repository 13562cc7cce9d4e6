------------------------------- MODULE MCRepl -------------------------------
(***************************************************************************)
(* Repl with a few pieces: a number, a word, and all that separates them.  *)
(***************************************************************************)
EXTENDS Repl
=============================================================================

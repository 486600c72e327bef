------------------------------- MODULE MCNemu -------------------------------
(***************************************************************************)
(* A small instance of Nemu, with the expressions of its debugger.         *)
(***************************************************************************)
EXTENDS Sdb

\* A memory in which every address holds something else.
ReadWord(a) == a + 5

=============================================================================

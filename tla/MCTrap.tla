------------------------------- MODULE MCTrap -------------------------------
(***************************************************************************)
(* A small instance of Trap, with two programs: a menu of one segment with *)
(* uninitialised data, and a game of two segments and a header that is not *)
(* loaded, where the menu's code was.                                      *)
(***************************************************************************)
EXTENDS Trap

Seg(load, vaddr, file, memsz) == [load |-> load, vaddr |-> vaddr, file |-> file, memsz |-> memsz]

\* The first word of the programs.
Base == MemSize - 4

TwoPrograms(p) ==
    IF p = "menu" THEN <<Seg(TRUE, Base, <<1>>, 2)>>
    ELSE <<Seg(TRUE, Base, <<2>>, 1), Seg(FALSE, Base + 3, << >>, 0), Seg(TRUE, Base + 1, << >>, 2)>>

=============================================================================

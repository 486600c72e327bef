------------------------------- MODULE MCExu -------------------------------
(***************************************************************************)
(* Small instances of Exu.                                                 *)
(***************************************************************************)
EXTENDS Exu

\* The ends of the unsigned range, the smallest signed number, a word of
\* alternating bits, whose Booth digits are all different from zero, and 3.
SomeWords == {0, 3, 2^W \div 3, 2^(W - 1), 2^W - 1}

=============================================================================

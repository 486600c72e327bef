------------------------------- MODULE MCInput -------------------------------
(***************************************************************************)
(* Two keys, one of whose names begins with the other, and a third one     *)
(* that NEMU does not map.                                                 *)
(***************************************************************************)
EXTENDS Input

McKeyName == << <<"F">>, <<"F", "1">> >>
McSdlName == << <<"F", "1">>, <<"F">> >>

=============================================================================

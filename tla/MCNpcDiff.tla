------------------------------ MODULE MCNpcDiff ------------------------------
(***************************************************************************)
(* Small instances of NpcDiff.                                             *)
(***************************************************************************)
EXTENDS NpcDiff

=============================================================================

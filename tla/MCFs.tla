-------------------------------- MODULE MCFs --------------------------------
(***************************************************************************)
(* A ramdisk of two files, side by side, and a screen of one pixel.        *)
(***************************************************************************)
EXTENDS Fs, TLC

TwoFiles == {6, 7}
TwoSizes == (6 :> 2) @@ (7 :> 1)
TwoOffsets == (6 :> 0) @@ (7 :> 2)

\* Back to the start, one forward, and one back.
SomeSeeks == {0, 1, M - 1}

=============================================================================

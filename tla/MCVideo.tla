------------------------------ MODULE MCVideo ------------------------------
(***************************************************************************)
(* A screen of three columns and two rows, and canvases of several sizes   *)
(* on it, one of them too large.                                           *)
(***************************************************************************)
EXTENDS Video, TLC

SomeModes == {<<0, 0>>, <<1, 2>>, <<5, 1>>}
\* On the three columns and two rows the last rectangle is cut at the bottom, on one
\* column the last two are cut on the right.  The second can be filled on a surface
\* with a palette; the fill of any other goes on behind the pixels there.
SomeRects == {<<0, 0, 0, 0>>, <<0, 0, 1, 1>>, <<1, 0, 2, 1>>, <<0, 1, 2, 2>>}
SomeSprites == {[w |-> 2, h |-> 3, pixels |-> [k \in 0 .. 5 |-> (k + k \div 2) % 2]]}

\* Alternating pixels, so that neighbours differ.
SomeGarbage(n) == {[k \in 0 .. n - 1 |-> k % 2]}

NoFiles == [f \in {} |-> 0]

=============================================================================

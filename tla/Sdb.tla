-------------------------------- MODULE Sdb ---------------------------------
(***************************************************************************)
(* NEMU with the expressions of its debugger: at every prompt p may be     *)
(* given any text, whose value is that of Expr.  The machine that a        *)
(* program runs on does not depend on them, so Nemu stays free of Expr.    *)
(***************************************************************************)
EXTENDS Nemu, Expr

\* p prints the value of the expression, at any prompt: what expr computes is
\* what the grammar says.
PrintsValue == loop = "sdb" => AllRight

=============================================================================

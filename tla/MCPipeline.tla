----------------------------- MODULE MCPipeline ----------------------------
(***************************************************************************)
(* Small instances of Pipeline: x0 and two registers, values of one bit.   *)
(***************************************************************************)
EXTENDS Pipeline

CONSTANTS a, b

Op(rs1, rs2, rd) ==
    [kind |-> "op", rs1 |-> rs1, rs2 |-> rs2, rd |-> rd, wen |-> TRUE, csr |-> "mepc"]
\* A store or branch.
NoRd(rs1, rs2) ==
    [kind |-> "op", rs1 |-> rs1, rs2 |-> rs2, rd |-> Zero, wen |-> FALSE, csr |-> "mepc"]
Csr(k, c, rs1, rd) ==
    [kind |-> k, rs1 |-> rs1, rs2 |-> Zero, rd |-> rd, wen |-> TRUE, csr |-> c]
\* The rs2 field of ebreak and mret happens to name x1 and x2.
Sys(k, rs2) == [kind |-> k, rs1 |-> Zero, rs2 |-> rs2, rd |-> Zero, wen |-> TRUE, csr |-> "mepc"]

\* Every combination of fields of ordinary instructions, a CSR read and ebreak.
OpInsts ==
    {Op(x, y, z) : x, y, z \in {Zero, a, b}} \cup {NoRd(a, b)}
      \cup {Csr("csrrs", "mepc", a, b), Sys("ebreak", a)}

\* CSR writes, traps and returns.
CsrInsts ==
    {NoRd(a, Zero), Csr("csrrw", "mepc", a, Zero),
     Csr("csrrw", "mtvec", a, Zero), Csr("csrrs", "mepc", Zero, b), Sys("ecall", Zero), Sys("mret", b)}

AllInsts == OpInsts \union CsrInsts

\* Programs without the two adjacent pairs the pipeline has no interlock for,
\* and with the first of them.
Careful(p, i) == ~Overwrites(p, i) /\ ~TrapsAfter(p, i)
Overwriting(p, i) == ~TrapsAfter(p, i)

=============================================================================

------------------------------ MODULE Pipeline -----------------------------
(***************************************************************************)
(* How instructions move through the NPC pipeline and where they get their *)
(* operands: IF_ID, ID_EX, EX_LS and LS_WB of ysyx_22050550.v, the         *)
(* scoreboard, the write-back bypass, the register file and the CSRs.      *)
(*                                                                         *)
(* One step is one clock edge.  Chosen freely in each cycle: whether the   *)
(* instruction in EX is a multiplication or division still running         *)
(* (alubusy), whether the one in LS still waits for the cache (lsubusy),   *)
(* whether the ICache answers, with which instruction, and the result of   *)
(* an instruction, which is abstracted to a value fixed at issue.          *)
(*                                                                         *)
(* A value is a set of bits.  The rs1, rs2 and rd fields are read from     *)
(* every instruction, as the code does, whatever its format means by them. *)
(***************************************************************************)
EXTENDS Naturals

CONSTANTS
    Regs, Zero,   \* the integer registers and x0
    Bits,         \* bits of a register
    Insts,        \* the instructions the program is made of
    Adjacent(_, _),  \* which of them it may run right after which
    None          \* an empty pipeline register

VARIABLES
    icache,     \* the instruction cache: idle, or working on a fetch
    ifid,       \* the instruction in Rif_id, if valid
    idex, exls, lswb,  \* the pipeline registers behind it: instruction, result
    busy,       \* ScoreBoard.busy
    regs,       \* REGS.regs[0..31]
    csrs,       \* mepc and mtvec of REGS.regs[33..38]
    arch, archcsr,  \* history: regs and csrs after all issued instructions
    prev        \* history: the instruction that entered ID last

vars == <<icache, ifid, idex, exls, lswb, busy, regs, csrs, arch, archcsr, prev>>

Val == SUBSET Bits
Csrs == {"mepc", "mtvec"}
Kinds == {"op", "csrrw", "csrrs", "ecall", "mret", "ebreak"}
Inst == [kind : Kinds, rs1 : Regs, rs2 : Regs, rd : Regs, wen : BOOLEAN, csr : Csrs]
Slot == [inst : Insts, val : Val]

ASSUME RegsAssumption == Zero \in Regs
\* rd is 0 in the encodings of ecall, mret and ebreak.
ASSUME InstsAssumption ==
    Insts \subseteq {i \in Inst : i.kind \in {"ecall", "mret", "ebreak"} => i.rd = Zero}
ASSUME NoneAssumption == None \notin Insts \cup Slot
ASSUME AdjacentAssumption == \A p, i \in Insts : Adjacent(p, i) \in BOOLEAN

\* x0 is never busy and always zero.
TypeOK ==
    /\ icache \in {"idle", "busy"}
    /\ ifid \in Insts \cup {None}
    /\ idex \in Slot \cup {None} /\ exls \in Slot \cup {None} /\ lswb \in Slot \cup {None}
    /\ busy \in [Regs -> BOOLEAN]
    /\ regs \in [Regs -> Val] /\ arch \in [Regs -> Val]
    /\ csrs \in [Csrs -> Val] /\ archcsr \in [Csrs -> Val]
    /\ prev \in Insts \cup {None}
    /\ ~busy[Zero] /\ regs[Zero] = {}

Init ==
    /\ icache = "idle"
    /\ ifid = None /\ idex = None /\ exls = None /\ lswb = None
    /\ busy = [r \in Regs |-> FALSE]
    /\ regs = [r \in Regs |-> {}] /\ arch = regs
    /\ csrs = [c \in Csrs |-> {}] /\ archcsr = csrs
    /\ prev = None

----------------------------------------------------------------------------
(* WBU and REGS *)

csrflag(i) == i.kind \in {"csrrw", "csrrs"}
Writes(s, r) == s # None /\ s.inst.wen /\ s.inst.rd = r /\ r # Zero

\* What slot s writes to its rd, given the CSRs: a CSR instruction reads the
\* old CSR, everything else brings its result along.
writebackdata(C, s) == IF csrflag(s.inst) THEN C[s.inst.csr] ELSE s.val

RegsAfter(R, C, s) == [r \in Regs |-> IF Writes(s, r) THEN writebackdata(C, s) ELSE R[r]]

\* csrrw writes rs1, csrrs ors it in, ecall writes its pc to mepc.
CsrsAfter(C, s) ==
    [c \in Csrs |->
        IF s = None THEN C[c]
        ELSE IF s.inst.kind = "csrrw" /\ s.inst.csr = c THEN s.val
        ELSE IF s.inst.kind = "csrrs" /\ s.inst.csr = c THEN C[c] \cup s.val
        ELSE IF s.inst.kind = "ecall" /\ c = "mepc" THEN s.val
        ELSE C[c]]

Wbu_wen == lswb # None /\ lswb.inst.wen
Wbu_wdata == writebackdata(csrs, lswb)

----------------------------------------------------------------------------
(* ScoreBoard, ByPass and IDU *)

ebreak == ifid # None /\ ifid.kind = "ebreak"

RScore_busy(r) == ifid # None /\ ~ebreak /\ busy[r]
pass(r) == ifid # None /\ Wbu_wen /\ lswb.inst.rd = r
realbusy(r) == RScore_busy(r) /\ ~pass(r)

\* Variant for mutation testing: the bypass is used whenever the address matches.
rDataBypassFirst(r) == IF pass(r) THEN Wbu_wdata ELSE regs[r]

\* The bypass is used for busy registers only, so that x0 is never bypassed.
rData(r) == IF RScore_busy(r) /\ pass(r) THEN Wbu_wdata ELSE regs[r]

idex_valid == ifid # None /\ ~realbusy(ifid.rs1) /\ ~realbusy(ifid.rs2)

LS_ready(lsubusy) == ~lsubusy
EX_ready(alubusy, lsubusy) == LS_ready(lsubusy) /\ ~alubusy
\* Variant for mutation testing: ebreak does not hold up the instructions after it.
Id_readyPastEbreak(EXready) ==
    /\ EXready
    /\ ifid # None => ~realbusy(ifid.rs1) /\ ~realbusy(ifid.rs2)
Id_ready(EXready) ==
    /\ EXready /\ ~ebreak
    /\ ifid # None => ~realbusy(ifid.rs1) /\ ~realbusy(ifid.rs2)

\* ID moves an instruction into ID_EX.
Issues(EXready) == idex_valid /\ EXready

\* ID marks register r busy in this cycle.
Iduwen(EXready, r) == Issues(EXready) /\ ifid.wen /\ ifid.rd = r /\ r # Zero

\* Variants for mutation testing: clearing a bit wins over setting it; an
\* instruction that ID issues keeps write-back from clearing any other bit.
ScoreStepWbFirst(EXready) ==
    busy' = [r \in Regs |-> ~Writes(lswb, r) /\ (busy[r] \/ Iduwen(EXready, r))]
ScoreStepNoCompare(EXready) ==
    busy' = [r \in Regs |->
                \/ Iduwen(EXready, r)
                \/ busy[r] /\ ~(Writes(lswb, r) /\ ~Issues(EXready))]

\* Setting a bit wins over clearing it.
ScoreStep(EXready) ==
    busy' = [r \in Regs |-> Iduwen(EXready, r) \/ (busy[r] /\ ~Writes(lswb, r))]

----------------------------------------------------------------------------
(* Pipeline registers *)

\* A CSR instruction carries rs1 along, the others a result.
Results == IF ifid # None /\ csrflag(ifid) THEN {rData(ifid.rs1)} ELSE Val

\* ID_EX loads whenever EX is ready, an empty entry included; the history
\* follows the program in issue order.
IdExStep(EXready) ==
    \/ /\ Issues(EXready)
       /\ \E v \in Results :
             LET s == [inst |-> ifid, val |-> v]
             IN  /\ idex' = s
                 /\ arch' = RegsAfter(arch, archcsr, s)
                 /\ archcsr' = CsrsAfter(archcsr, s)
    \/ /\ EXready /\ ~idex_valid
       /\ idex' = None
       /\ UNCHANGED <<arch, archcsr>>
    \/ /\ ~EXready
       /\ UNCHANGED <<idex, arch, archcsr>>

\* Variant for mutation testing: EX_LS takes an unfinished multiplication.
ExLsStepUnfinished(alubusy, lsubusy) ==
    exls' = IF LS_ready(lsubusy) THEN idex ELSE exls

\* EX_LS loads whenever LS is ready, nothing while EX is still busy.
ExLsStep(alubusy, lsubusy) ==
    exls' = IF ~LS_ready(lsubusy) THEN exls ELSE IF alubusy THEN None ELSE idex

\* LS_WB loads in every cycle; WB is always ready.
LsWbStep(lsubusy) ==
    /\ lswb' = IF lsubusy THEN None ELSE exls
    /\ regs' = RegsAfter(regs, csrs, lswb)
    /\ csrs' = CsrsAfter(csrs, lswb)

Follows(i) == prev = None \/ Adjacent(prev, i)

\* Variant for mutation testing: the ICache answers in the cycle it is asked.
FetchStepSameCycle(ready) ==
    \/ /\ ready /\ UNCHANGED icache
       /\ \E i \in {j \in Insts : Follows(j)} : ifid' = i /\ prev' = i
    \/ /\ UNCHANGED <<icache, prev>>
       /\ ifid' = IF ready THEN None ELSE ifid

\* ICache and IF_ID: a fetch starts when ID is ready and takes at least one more
\* cycle; an answer that ID is not ready for is dropped and fetched again.
FetchStep(ready) ==
    \/ /\ icache = "busy" /\ icache' = "idle" /\ ready
       /\ \E i \in {j \in Insts : Follows(j)} : ifid' = i /\ prev' = i
    \/ /\ icache = "busy" /\ icache' = "idle" /\ ~ready
       /\ UNCHANGED <<ifid, prev>>
    \/ /\ icache' = IF icache = "busy" \/ ready THEN "busy" ELSE "idle"
       /\ ifid' = IF ready THEN None ELSE ifid
       /\ UNCHANGED prev

Tick(alubusy, lsubusy) ==
    LET EXready == EX_ready(alubusy, lsubusy)
    IN  /\ alubusy => idex # None
        /\ lsubusy => exls # None
        /\ FetchStep(Id_ready(EXready))
        /\ IdExStep(EXready)
        /\ ExLsStep(alubusy, lsubusy)
        /\ LsWbStep(lsubusy)
        /\ ScoreStep(EXready)

Next == \E alubusy, lsubusy \in BOOLEAN : Tick(alubusy, lsubusy)

Spec == Init /\ [][Next]_vars

\* The clock runs, and neither the multiplier nor the cache is busy for ever.
FairSpec == Spec /\ WF_vars(Tick(FALSE, FALSE))

----------------------------------------------------------------------------
(* Properties *)

\* Instruction i overwrites what p has just written, without reading it.
Overwrites(p, i) ==
    p.wen /\ i.wen /\ p.rd = i.rd /\ p.rd # Zero /\ p.rd \notin {i.rs1, i.rs2}

\* Instruction i jumps to the CSR that p has just written.
TrapsAfter(p, i) ==
    \/ i.kind = "mret" /\ csrflag(p) /\ p.csr = "mepc"
    \/ i.kind = "mret" /\ p.kind = "ecall"
    \/ i.kind = "ecall" /\ csrflag(p) /\ p.csr = "mtvec"

NoAdjacentOverwrite == \A p, i \in Insts : Adjacent(p, i) => ~Overwrites(p, i)
NoAdjacentTrap == \A p, i \in Insts : Adjacent(p, i) => ~TrapsAfter(p, i)

\* What ID reads, from the register file or from the bypass, is what the
\* instructions before it leave in the register, in program order.  It holds
\* from the cycle the operands are taken for ready on, for a jump drives the
\* program counter from then on.
OperandsArchitectural ==
    idex_valid /\ ~ebreak =>
        rData(ifid.rs1) = arch[ifid.rs1] /\ rData(ifid.rs2) = arch[ifid.rs2]

\* ecall and mret jump to the mtvec and mepc that the instructions before them
\* leave behind, although ID reads these CSRs without an interlock.
TrapTargetArchitectural ==
    /\ idex_valid /\ ifid.kind = "mret" => csrs["mepc"] = archcsr["mepc"]
    /\ idex_valid /\ ifid.kind = "ecall" => csrs["mtvec"] = archcsr["mtvec"]

\* Write-back is in program order: regs and csrs plus what LS_WB, EX_LS and ID_EX
\* still hold, oldest first, is the state after all issued instructions.
InOrder ==
    LET C1 == CsrsAfter(csrs, lswb)
        C2 == CsrsAfter(C1, exls)
    IN  /\ arch = RegsAfter(RegsAfter(RegsAfter(regs, csrs, lswb), C1, exls), C2, idex)
        /\ archcsr = CsrsAfter(C2, idex)

\* A register is marked busy exactly while one instruction behind ID, and only
\* one, is going to write it.
BusyExact ==
    \A r \in Regs :
        /\ busy[r] <=> Writes(idex, r) \/ Writes(exls, r) \/ Writes(lswb, r)
        /\ ~(Writes(idex, r) /\ Writes(exls, r))
        /\ ~(Writes(idex, r) /\ Writes(lswb, r))
        /\ ~(Writes(exls, r) /\ Writes(lswb, r))

\* Because a fetch takes two cycles and stalls never close a gap, no two
\* neighbouring stages hold an instruction at the same time; ebreak is the
\* exception, which ID issues again and again until the simulation stops.
Holds(s) == s # None /\ s.inst.kind # "ebreak"
Spaced ==
    /\ ifid # None => icache = "idle" /\ ~Holds(idex)
    /\ ~(Holds(idex) /\ Holds(exls))
    /\ ~(Holds(exls) /\ Holds(lswb))

\* ebreak hands a0 to the simulation when it reaches WB: all earlier writes of
\* the program are in the register file by then.
HaltSeesResults ==
    lswb # None /\ lswb.inst.kind = "ebreak" => regs = arch

\* The instruction that entered ID last is prev, wherever it is by now; ID's
\* neighbour in the pipeline is its neighbour in the program; behind ebreak
\* there is nothing but ebreak.
Neighbours ==
    /\ ifid # None => prev = ifid
    /\ ifid = None /\ Holds(idex) => prev = idex.inst
    /\ ifid = None /\ ~Holds(idex) /\ Holds(exls) => prev = exls.inst
    /\ ifid = None /\ ~Holds(idex) /\ ~Holds(exls) /\ Holds(lswb) => prev = lswb.inst
    /\ ifid # None /\ Holds(exls) => Adjacent(exls.inst, ifid)
    /\ ifid # None /\ Holds(lswb) => Adjacent(lswb.inst, ifid)
    /\ idex # None /\ ~Holds(idex) => ebreak
    /\ exls # None /\ ~Holds(exls) => ebreak
    /\ lswb # None /\ ~Holds(lswb) => ebreak /\ ~Holds(exls)

IInv == TypeOK /\ InOrder /\ Spaced /\ Neighbours

\* No instruction waits for its operands for ever.
OperandsArrive == ifid # None ~> idex_valid

=============================================================================

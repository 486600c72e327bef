--------------------------- MODULE PipelineProofs --------------------------
(***************************************************************************)
(* Proofs about Pipeline, for any set of registers, any width of values    *)
(* and any program, given as which instruction may follow which.           *)
(***************************************************************************)
EXTENDS Pipeline, TLAPS

\* Slots carry instructions of the program, whose fields are what Inst says.
LEMMA SlotFacts ==
    ASSUME NEW s \in Slot \cup {None}, s # None
    PROVE  /\ s \in Slot /\ s.inst \in Insts /\ s.inst \in Inst /\ s.val \in Val
           /\ s.inst.kind \in {"ecall", "mret", "ebreak"} => s.inst.rd = Zero
  BY InstsAssumption DEF Slot

\* An empty slot, and one that holds ebreak, changes no register and no CSR.
LEMMA NoEffect ==
    ASSUME NEW s \in Slot \cup {None}, ~Holds(s),
           NEW R \in [Regs -> Val], NEW C \in [Csrs -> Val]
    PROVE  RegsAfter(R, C, s) = R /\ CsrsAfter(C, s) = C
  <1>1. \A r \in Regs : ~Writes(s, r)
    BY SlotFacts DEF Writes, Holds
  <1>2. s # None => s.inst.kind = "ebreak"
    BY DEF Holds
  <1> QED
    BY <1>1, <1>2 DEF RegsAfter, CsrsAfter

\* Writing back keeps register file and CSRs well typed, and x0 zero.
LEMMA AfterType ==
    ASSUME NEW s \in Slot \cup {None}, NEW R \in [Regs -> Val], NEW C \in [Csrs -> Val]
    PROVE  /\ RegsAfter(R, C, s) \in [Regs -> Val] /\ CsrsAfter(C, s) \in [Csrs -> Val]
           /\ RegsAfter(R, C, s)[Zero] = R[Zero]
  <1>1. s # None => s.val \in Val /\ writebackdata(C, s) \in Val
    BY SlotFacts DEF writebackdata, Inst
  <1>2. RegsAfter(R, C, s) \in [Regs -> Val]
    BY <1>1 DEF RegsAfter, Writes
  <1>3. CsrsAfter(C, s) \in [Csrs -> Val]
    <2>1. \A x, y \in Val : x \cup y \in Val
      BY DEF Val
    <2> QED
      BY <1>1, <2>1 DEF CsrsAfter
  <1>4. RegsAfter(R, C, s)[Zero] = R[Zero]
    BY RegsAssumption DEF RegsAfter, Writes
  <1> QED
    BY <1>2, <1>3, <1>4

----------------------------------------------------------------------------
(* One edge *)

\* What ID_EX, EX_LS and LS_WB hold after an edge: everything moves on, or EX
\* stays where it is, or EX and LS do.
LEMMA Moves ==
    ASSUME TypeOK, NEW alubusy \in BOOLEAN, NEW lsubusy \in BOOLEAN, Tick(alubusy, lsubusy)
    PROVE  LET EXready == EX_ready(alubusy, lsubusy)
           IN  /\ EXready => exls' = idex /\ lswb' = exls
               /\ ~EXready => idex' = idex /\ arch' = arch /\ archcsr' = archcsr
               /\ ~EXready => (lswb' = exls /\ exls' = None) \/ (lswb' = None /\ exls' = exls)
               /\ EXready /\ ~idex_valid => idex' = None /\ arch' = arch /\ archcsr' = archcsr
               /\ EXready /\ idex_valid =>
                     \E v \in Val : /\ idex' = [inst |-> ifid, val |-> v]
                                    /\ idex' \in Slot
                                    /\ arch' = RegsAfter(arch, archcsr, idex')
                                    /\ archcsr' = CsrsAfter(archcsr, idex')
               /\ idex' \in Slot \cup {None}
  <1> DEFINE EXready == EX_ready(alubusy, lsubusy)
  <1>1. IdExStep(EXready) /\ ExLsStep(alubusy, lsubusy) /\ LsWbStep(lsubusy)
    BY DEF Tick
  <1>2. EXready <=> ~alubusy /\ ~lsubusy
    BY DEF EX_ready, LS_ready
  <1>3. EXready => exls' = idex /\ lswb' = exls
    BY <1>1, <1>2 DEF ExLsStep, LsWbStep, LS_ready
  <1>4. ~EXready => (lswb' = exls /\ exls' = None) \/ (lswb' = None /\ exls' = exls)
    BY <1>1, <1>2 DEF ExLsStep, LsWbStep, LS_ready
  <1>5. ~EXready => idex' = idex /\ arch' = arch /\ archcsr' = archcsr
    BY <1>1 DEF IdExStep, Issues
  <1>6. EXready /\ ~idex_valid => idex' = None /\ arch' = arch /\ archcsr' = archcsr
    BY <1>1 DEF IdExStep, Issues
  <1>7. ASSUME EXready, idex_valid
        PROVE  \E v \in Val : /\ idex' = [inst |-> ifid, val |-> v]
                              /\ idex' \in Slot
                              /\ arch' = RegsAfter(arch, archcsr, idex')
                              /\ archcsr' = CsrsAfter(archcsr, idex')
    <2>1. PICK v \in Results : /\ idex' = [inst |-> ifid, val |-> v]
                               /\ arch' = RegsAfter(arch, archcsr, [inst |-> ifid, val |-> v])
                               /\ archcsr' = CsrsAfter(archcsr, [inst |-> ifid, val |-> v])
      BY <1>1, <1>7 DEF IdExStep, Issues
    <2>2. ifid \in Insts
      BY <1>7 DEF idex_valid, TypeOK
    <2>3. \A r \in Regs : rData(r) \in Val
      <3>1. lswb # None => Wbu_wdata \in Val
        BY SlotFacts DEF TypeOK, Wbu_wdata, writebackdata, Inst
      <3> QED
        BY <3>1 DEF TypeOK, rData, pass, Wbu_wen
    <2>4. v \in Val
      BY <2>1, <2>2, <2>3, InstsAssumption DEF Results, Inst
    <2> QED
      BY <2>1, <2>2, <2>4 DEF Slot
  <1>8. idex' \in Slot \cup {None}
    BY <1>5, <1>6, <1>7 DEF TypeOK
  <1> QED
    BY <1>3, <1>4, <1>5, <1>6, <1>7, <1>8

\* IF_ID after an edge, when a fetch is never under way while ID is occupied.
LEMMA Fetches ==
    ASSUME TypeOK, Spaced, NEW ready \in BOOLEAN, FetchStep(ready)
    PROVE  /\ ifid' \in Insts \cup {None} /\ icache' \in {"idle", "busy"}
           /\ prev' \in Insts \cup {None}
           /\ ifid' # None => icache' = "idle"
           /\ ~ready => ifid' = ifid /\ prev' = prev
           /\ ready /\ ifid' = None => prev' = prev
           /\ ifid' # None /\ ready => ifid = None /\ Follows(ifid') /\ prev' = ifid'
  BY NoneAssumption DEF TypeOK, Spaced, FetchStep

\* The type invariant is preserved.
LEMMA TypeEdge ==
    ASSUME TypeOK, Spaced, NEW alubusy \in BOOLEAN, NEW lsubusy \in BOOLEAN, Tick(alubusy, lsubusy)
    PROVE  TypeOK'
  <1> DEFINE EXready == EX_ready(alubusy, lsubusy)
  <1>1. Id_ready(EXready) \in BOOLEAN /\ FetchStep(Id_ready(EXready))
    BY DEF Tick, Id_ready
  <1>2. /\ ifid' \in Insts \cup {None} /\ icache' \in {"idle", "busy"}
        /\ prev' \in Insts \cup {None}
    BY <1>1, Fetches
  <1>3. /\ idex' \in Slot \cup {None} /\ exls' \in Slot \cup {None} /\ lswb' \in Slot \cup {None}
    BY Moves DEF TypeOK
  <1>4. regs' \in [Regs -> Val] /\ csrs' \in [Csrs -> Val] /\ regs'[Zero] = {}
    BY AfterType DEF TypeOK, Tick, LsWbStep
  <1>5. arch' \in [Regs -> Val] /\ archcsr' \in [Csrs -> Val]
    BY Moves, AfterType DEF TypeOK
  <1>6. busy' \in [Regs -> BOOLEAN] /\ ~busy'[Zero]
    BY RegsAssumption DEF TypeOK, Tick, ScoreStep, Iduwen, Issues, idex_valid
  <1> QED
    BY <1>2, <1>3, <1>4, <1>5, <1>6 DEF TypeOK

\* Neighbouring stages stay apart.
LEMMA SpacedEdge ==
    ASSUME TypeOK, Spaced, Neighbours,
           NEW alubusy \in BOOLEAN, NEW lsubusy \in BOOLEAN, Tick(alubusy, lsubusy)
    PROVE  Spaced'
  <1> DEFINE EXready == EX_ready(alubusy, lsubusy)
             ready == Id_ready(EXready)
  <1>1. ready \in BOOLEAN /\ FetchStep(ready)
    BY DEF Tick, Id_ready
  <1>2. ifid' # None => icache' = "idle"
    BY <1>1, Fetches
  <1>3. CASE EXready /\ idex_valid
    <2>1. PICK v \in Val : idex' = [inst |-> ifid, val |-> v]
      BY <1>3, Moves
    <2>2. exls' = idex /\ lswb' = exls /\ ifid # None
      BY <1>3, Moves DEF idex_valid
    <2>3. ~Holds(exls')
      BY <2>2 DEF Spaced, Holds
    <2>4. ifid' # None => ~Holds(idex')
      <3>1. ready <=> ~ebreak
        BY <1>3 DEF Id_ready, idex_valid
      <3>2. ~ebreak => ifid' = None
        BY <1>1, <2>2, <3>1, Fetches
      <3>3. ebreak => ~Holds(idex')
        BY <2>1 DEF ebreak, Holds
      <3> QED
        BY <3>2, <3>3
    <2> QED
      BY <1>2, <2>3, <2>4 DEF Spaced
  <1>4. CASE EXready /\ ~idex_valid
    <2>1. idex' = None /\ exls' = idex /\ lswb' = exls
      BY <1>4, Moves
    <2>2. ~Holds(idex') /\ ~(Holds(exls') /\ Holds(lswb'))
      BY <2>1 DEF Spaced, Holds
    <2> QED
      BY <1>2, <2>2 DEF Spaced
  <1>5. CASE ~EXready
    <2>1. idex' = idex
      BY <1>5, Moves
    <2>2. (lswb' = exls /\ exls' = None) \/ (lswb' = None /\ exls' = exls)
      BY <1>5, Moves
    <2>3. ifid' = ifid
      BY <1>1, <1>5, Fetches DEF Id_ready
    <2>4. ~(Holds(idex') /\ Holds(exls')) /\ ~(Holds(exls') /\ Holds(lswb'))
      BY <2>1, <2>2 DEF Spaced, Holds
    <2>5. ifid' # None => ~Holds(idex')
      BY <2>1, <2>3 DEF Spaced, Holds
    <2> QED
      BY <1>2, <2>4, <2>5 DEF Spaced
  <1> QED
    BY <1>3, <1>4, <1>5

\* Neighbours in the pipeline stay neighbours in the program.
LEMMA NeighboursEdge ==
    ASSUME TypeOK, Spaced, Neighbours,
           NEW alubusy \in BOOLEAN, NEW lsubusy \in BOOLEAN, Tick(alubusy, lsubusy)
    PROVE  Neighbours'
  <1> DEFINE EXready == EX_ready(alubusy, lsubusy)
             ready == Id_ready(EXready)
  <1>1. ready \in BOOLEAN /\ FetchStep(ready) /\ (ready => EXready /\ ~ebreak)
    BY DEF Tick, Id_ready
  <1>2. CASE EXready /\ idex_valid
    <2>1. PICK v \in Val : idex' = [inst |-> ifid, val |-> v] /\ idex' \in Slot
      BY <1>2, Moves
    <2>2. exls' = idex /\ lswb' = exls /\ ifid # None /\ idex' # None /\ idex'.inst = ifid
      BY <1>2, <2>1, Moves, NoneAssumption DEF idex_valid
    <2>3. ~Holds(exls')
      BY <2>2 DEF Spaced, Holds
    <2>4. CASE ebreak
      <3>1. ~ready
        BY <2>4 DEF Id_ready
      <3>2. ifid' = ifid /\ prev' = prev
        BY <1>1, <3>1, Fetches
      <3>3. ~Holds(idex') /\ ebreak'
        BY <2>2, <2>4, <3>2 DEF ebreak, Holds
      <3>4. Holds(lswb') => Adjacent(lswb'.inst, ifid')
        BY <2>2, <3>2 DEF Neighbours, Holds
      <3> QED
        BY <2>2, <2>3, <3>2, <3>3, <3>4 DEF Neighbours
    <2>5. CASE ~ebreak
      <3>1. ready
        BY <1>2, <2>5 DEF Id_ready, idex_valid
      <3>2. ifid' = None /\ prev' = prev
        BY <1>1, <2>2, <3>1, Fetches
      <3>3. Holds(idex') /\ prev' = idex'.inst
        BY <2>2, <2>5, <3>2 DEF ebreak, Holds, Neighbours
      <3>4. exls' = None /\ (lswb' # None => Holds(lswb'))
        BY <2>2, <2>3, <2>5 DEF Neighbours, Holds
      <3> QED
        BY <3>2, <3>3, <3>4 DEF Neighbours, Holds
    <2> QED
      BY <2>4, <2>5
  <1>3. CASE EXready /\ ~idex_valid
    <2>1. idex' = None /\ exls' = idex /\ lswb' = exls
      BY <1>3, Moves
    <2>2. ~ebreak
      BY <1>3 DEF idex_valid, realbusy, RScore_busy, ebreak
    <2>3. /\ idex # None => Holds(idex)
          /\ exls # None => Holds(exls)
      BY <2>2 DEF Neighbours
    <2>4. CASE ifid' = None
      <3>1. ifid = None
        <4>1. ifid # None => ~ready
          BY <1>3 DEF Id_ready, idex_valid
        <4> QED
          BY <1>1, <2>4, <4>1, Fetches
      <3>2. prev' = prev
        BY <1>1, <2>4, Fetches
      <3> QED
        BY <2>1, <2>3, <2>4, <3>1, <3>2 DEF Neighbours, Holds
    <2>5. CASE ifid' # None
      <3>1. CASE ready
        <4>1. ifid = None /\ Follows(ifid') /\ prev' = ifid'
          BY <1>1, <2>5, <3>1, Fetches
        <4>2. Holds(idex) => Adjacent(idex.inst, ifid')
          BY <4>1, SlotFacts, NoneAssumption DEF Neighbours, Follows, TypeOK, Holds
        <4>3. Holds(exls) => Adjacent(exls.inst, ifid')
          BY <4>1, SlotFacts, NoneAssumption DEF Neighbours, Follows, TypeOK, Holds, Spaced
        <4> QED
          BY <2>1, <2>3, <2>5, <4>1, <4>2, <4>3 DEF Neighbours, Holds
      <3>2. CASE ~ready
        <4>1. ifid' = ifid /\ prev' = prev
          BY <1>1, <3>2, Fetches
        <4>2. ~Holds(idex) /\ (Holds(exls) => Adjacent(exls.inst, ifid)) /\ prev = ifid
          BY <2>5, <4>1 DEF Spaced, Neighbours
        <4> QED
          BY <2>1, <2>3, <2>5, <4>1, <4>2 DEF Neighbours, Holds
      <3> QED
        BY <3>1, <3>2
    <2> QED
      BY <2>4, <2>5
  <1>4. CASE ~EXready
    <2>1. idex' = idex
      BY <1>4, Moves
    <2>2. (lswb' = exls /\ exls' = None) \/ (lswb' = None /\ exls' = exls)
      BY <1>4, Moves
    <2>3. ifid' = ifid /\ prev' = prev
      BY <1>1, <1>4, Fetches
    <2>4. CASE lswb' = exls /\ exls' = None
      BY <2>1, <2>3, <2>4 DEF Neighbours, Spaced, Holds, ebreak
    <2>5. CASE lswb' = None /\ exls' = exls
      BY <2>1, <2>3, <2>5 DEF Neighbours, Spaced, Holds, ebreak
    <2> QED
      BY <2>2, <2>4, <2>5
  <1> QED
    BY <1>2, <1>3, <1>4

\* Write-back stays in program order.
LEMMA InOrderEdge ==
    ASSUME TypeOK, InOrder, NEW alubusy \in BOOLEAN, NEW lsubusy \in BOOLEAN, Tick(alubusy, lsubusy)
    PROVE  InOrder'
  <1> DEFINE EXready == EX_ready(alubusy, lsubusy)
             C1 == CsrsAfter(csrs, lswb)
             C2 == CsrsAfter(C1, exls)
             C3 == CsrsAfter(C2, idex)
             R1 == RegsAfter(regs, csrs, lswb)
             R2 == RegsAfter(R1, C1, exls)
             R3 == RegsAfter(R2, C2, idex)
  <1>1. regs' = R1 /\ csrs' = C1
    BY DEF Tick, LsWbStep
  <1>2. arch = R3 /\ archcsr = C3
    BY DEF InOrder
  <1>3. /\ R1 \in [Regs -> Val] /\ C1 \in [Csrs -> Val]
        /\ R2 \in [Regs -> Val] /\ C2 \in [Csrs -> Val]
        /\ R3 \in [Regs -> Val] /\ C3 \in [Csrs -> Val]
    BY AfterType DEF TypeOK
  <1>4. /\ RegsAfter(R1, C1, None) = R1 /\ CsrsAfter(C1, None) = C1
        /\ RegsAfter(R2, C2, None) = R2 /\ CsrsAfter(C2, None) = C2
        /\ RegsAfter(R3, C3, None) = R3 /\ CsrsAfter(C3, None) = C3
    BY <1>3, NoEffect DEF Holds
  <1> HIDE DEF R1, R2, R3, C1, C2, C3
  <1>5. InOrder' <=> /\ arch' = RegsAfter(RegsAfter(RegsAfter(R1, C1, lswb'), CsrsAfter(C1, lswb'), exls'),
                                          CsrsAfter(CsrsAfter(C1, lswb'), exls'), idex')
                     /\ archcsr' = CsrsAfter(CsrsAfter(CsrsAfter(C1, lswb'), exls'), idex')
    BY <1>1 DEF InOrder
  <1>6. CASE EXready
    <2>1. exls' = idex /\ lswb' = exls
      BY <1>6, Moves
    <2>2. /\ arch' = RegsAfter(R3, C3, idex') /\ archcsr' = CsrsAfter(C3, idex')
      BY <1>2, <1>4, <1>6, Moves
    <2> QED
      BY <1>5, <2>1, <2>2 DEF R3, R2, C3, C2
  <1>7. CASE ~EXready
    <2>1. idex' = idex /\ arch' = arch /\ archcsr' = archcsr
      BY <1>7, Moves
    <2>2. (lswb' = exls /\ exls' = None) \/ (lswb' = None /\ exls' = exls)
      BY <1>7, Moves
    <2> QED
      BY <1>2, <1>4, <1>5, <2>1, <2>2 DEF R3, R2, C3, C2
  <1> QED
    BY <1>6, <1>7

----------------------------------------------------------------------------
(* The invariant, for every program *)

\* The reset state satisfies the invariant.
LEMMA InitIInv == Init => IInv
  <1> SUFFICES ASSUME Init PROVE IInv
    OBVIOUS
  <1>1. {} \in Val
    BY DEF Val
  <1>2. TypeOK
    BY <1>1, RegsAssumption DEF Init, TypeOK
  <1>3. ~Holds(None)
    BY DEF Holds
  <1>4. RegsAfter(regs, csrs, None) = regs /\ CsrsAfter(csrs, None) = csrs
    BY <1>2, <1>3, NoEffect DEF TypeOK
  <1>5. InOrder
    BY <1>4 DEF Init, InOrder
  <1>6. Spaced /\ Neighbours
    BY <1>3 DEF Init, Spaced, Neighbours
  <1> QED
    BY <1>2, <1>5, <1>6 DEF IInv

\* A clock edge preserves the invariant.
LEMMA NextIInv == IInv /\ [Next]_vars => IInv'
  <1> SUFFICES ASSUME IInv, [Next]_vars PROVE IInv'
    OBVIOUS
  <1>1. CASE Next
    <2>1. PICK alubusy \in BOOLEAN, lsubusy \in BOOLEAN : Tick(alubusy, lsubusy)
      BY <1>1 DEF Next
    <2> QED
      BY <2>1, TypeEdge, SpacedEdge, NeighboursEdge, InOrderEdge DEF IInv
  <1>2. CASE UNCHANGED vars
    <2>1. TypeOK'
      BY <1>2 DEF vars, IInv, TypeOK
    <2>2. InOrder'
      BY <1>2 DEF vars, IInv, InOrder
    <2>3. Spaced'
      BY <1>2 DEF vars, IInv, Spaced
    <2>4. Neighbours'
      BY <1>2 DEF vars, IInv, Neighbours, ebreak
    <2> QED
      BY <2>1, <2>2, <2>3, <2>4 DEF IInv
  <1> QED
    BY <1>1, <1>2

\* The invariant holds at every clock edge of every program.
THEOREM Invariance == Spec => []IInv
  BY InitIInv, NextIInv, PTL DEF Spec

\* Every pipeline register keeps its type, and x0 stays zero and is never busy.
THEOREM TypeCorrect == Spec => []TypeOK
  <1>1. IInv => TypeOK
    BY DEF IInv
  <1> QED
    BY <1>1, Invariance, PTL

\* Every instruction writes back once, in program order, for every pattern of
\* stalls.
THEOREM WriteBackInOrder == Spec => []InOrder
  <1>1. IInv => InOrder
    BY DEF IInv
  <1> QED
    BY <1>1, Invariance, PTL

\* No two neighbouring stages ever hold an instruction at the same time.
THEOREM StagesApart == Spec => []Spaced
  <1>1. IInv => Spaced
    BY DEF IInv
  <1> QED
    BY <1>1, Invariance, PTL

\* When ebreak reaches WB the register file is complete.
THEOREM HaltComplete == Spec => []HaltSeesResults
  <1>1. IInv => HaltSeesResults
    <2> SUFFICES ASSUME IInv, lswb # None, lswb.inst.kind = "ebreak"
                 PROVE  regs = arch
      BY DEF HaltSeesResults
    <2>1. ~Holds(lswb) /\ ebreak /\ ~Holds(exls) /\ ~Holds(idex)
      BY DEF Holds, IInv, Neighbours, Spaced, ebreak
    <2>2. /\ regs \in [Regs -> Val] /\ csrs \in [Csrs -> Val]
          /\ lswb \in Slot \cup {None} /\ exls \in Slot \cup {None} /\ idex \in Slot \cup {None}
      BY DEF IInv, TypeOK
    <2>3. /\ RegsAfter(regs, csrs, lswb) = regs /\ CsrsAfter(csrs, lswb) = csrs
          /\ RegsAfter(regs, csrs, exls) = regs /\ CsrsAfter(csrs, exls) = csrs
          /\ RegsAfter(regs, csrs, idex) = regs
      BY <2>1, <2>2, NoEffect
    <2> QED
      BY <2>3 DEF IInv, InOrder
  <1> QED
    BY <1>1, Invariance, PTL

----------------------------------------------------------------------------
(* Programs without the pairs that have no interlock *)

\* The scoreboard bit of a register and its one writer come and go together.
LEMMA BusyEdge ==
    ASSUME NoAdjacentOverwrite, IInv, BusyExact,
           NEW alubusy \in BOOLEAN, NEW lsubusy \in BOOLEAN, Tick(alubusy, lsubusy)
    PROVE  BusyExact'
  <1> DEFINE EXready == EX_ready(alubusy, lsubusy)
  <1> SUFFICES ASSUME NEW r \in Regs
               PROVE  /\ busy'[r] => Writes(idex, r)' \/ Writes(exls, r)' \/ Writes(lswb, r)'
                      /\ Writes(idex, r)' \/ Writes(exls, r)' \/ Writes(lswb, r)' => busy'[r]
                      /\ ~(Writes(idex, r)' /\ Writes(exls, r)')
                      /\ ~(Writes(idex, r)' /\ Writes(lswb, r)')
                      /\ ~(Writes(exls, r)' /\ Writes(lswb, r)')
    BY DEF BusyExact
  <1>1. busy'[r] <=> Iduwen(EXready, r) \/ (busy[r] /\ ~Writes(lswb, r))
    BY DEF Tick, ScoreStep
  <1>2. /\ busy[r] <=> Writes(idex, r) \/ Writes(exls, r) \/ Writes(lswb, r)
        /\ ~(Writes(idex, r) /\ Writes(exls, r))
        /\ ~(Writes(idex, r) /\ Writes(lswb, r))
        /\ ~(Writes(exls, r) /\ Writes(lswb, r))
    BY DEF BusyExact
  <1>3. ~Writes(None, r)
    BY DEF Writes
  <1>4. TypeOK /\ Spaced /\ Neighbours
    BY DEF IInv
  <1>5. CASE EXready /\ idex_valid
    <2>1. PICK v \in Val : idex' = [inst |-> ifid, val |-> v] /\ idex' \in Slot
      BY <1>4, <1>5, Moves
    <2>2. exls' = idex /\ lswb' = exls /\ ifid # None
      BY <1>4, <1>5, Moves DEF idex_valid
    <2>3. Writes(idex, r)' <=> Iduwen(EXready, r)
      BY <1>5, <2>1, NoneAssumption DEF Writes, Iduwen, Issues
    <2>4. ~Writes(idex, r)
      BY <1>4, <2>2, SlotFacts DEF Spaced, Holds, Writes, TypeOK
    <2>5. ~(Iduwen(EXready, r) /\ Writes(exls, r))
      <3> SUFFICES ASSUME Iduwen(EXready, r), Writes(exls, r) PROVE FALSE
        OBVIOUS
      <3>1. ifid \in Insts /\ exls.inst \in Insts /\ Holds(exls) /\ Adjacent(exls.inst, ifid)
        BY <1>4, <2>2, SlotFacts DEF TypeOK, Writes, Holds, Neighbours
      <3>2. r \in {ifid.rs1, ifid.rs2} /\ r # Zero
        BY <3>1 DEF NoAdjacentOverwrite, Overwrites, Iduwen, Writes
      <3>3. ~ebreak
        BY <3>1, <3>2, InstsAssumption DEF Iduwen, ebreak
      <3>4. busy[r] /\ ~pass(r)
        BY <1>2, <3>2 DEF pass, Wbu_wen, Writes
      <3>5. realbusy(r)
        BY <2>2, <3>3, <3>4 DEF realbusy, RScore_busy
      <3> QED
        BY <1>5, <3>2, <3>5 DEF idex_valid
    <2>6. Writes(exls, r)' <=> Writes(idex, r)
      BY <2>2 DEF Writes
    <2>7. Writes(lswb, r)' <=> Writes(exls, r)
      BY <2>2 DEF Writes
    <2> QED
      BY <1>1, <1>2, <2>3, <2>4, <2>5, <2>6, <2>7
  <1>6. CASE ~(EXready /\ idex_valid)
    <2>1. ~Iduwen(EXready, r)
      BY <1>6 DEF Iduwen, Issues
    <2>2. CASE EXready
      <3>1. idex' = None /\ exls' = idex /\ lswb' = exls
        BY <1>4, <1>6, <2>2, Moves
      <3>2. /\ ~Writes(idex, r)' /\ (Writes(exls, r)' <=> Writes(idex, r))
            /\ (Writes(lswb, r)' <=> Writes(exls, r))
        BY <3>1 DEF Writes
      <3> QED
        BY <1>1, <1>2, <2>1, <3>2
    <2>3. CASE ~EXready
      <3>1. idex' = idex
        BY <1>4, <2>3, Moves
      <3>2. (lswb' = exls /\ exls' = None) \/ (lswb' = None /\ exls' = exls)
        BY <1>4, <2>3, Moves
      <3>3. CASE lswb' = exls /\ exls' = None
        <4>1. /\ (Writes(idex, r)' <=> Writes(idex, r)) /\ ~Writes(exls, r)'
              /\ (Writes(lswb, r)' <=> Writes(exls, r))
          BY <3>1, <3>3 DEF Writes
        <4> QED
          BY <1>1, <1>2, <2>1, <4>1
      <3>4. CASE lswb' = None /\ exls' = exls
        <4>1. /\ (Writes(idex, r)' <=> Writes(idex, r)) /\ ~Writes(lswb, r)'
              /\ (Writes(exls, r)' <=> Writes(exls, r))
          BY <3>1, <3>4 DEF Writes
        <4> QED
          BY <1>1, <1>2, <2>1, <4>1
      <3> QED
        BY <3>2, <3>3, <3>4
    <2> QED
      BY <2>2, <2>3
  <1> QED
    BY <1>5, <1>6

\* Unless the program overwrites a register right after writing it, a busy bit
\* means one writer and one only.
THEOREM ScoreboardExact == NoAdjacentOverwrite => (Spec => []BusyExact)
  <1> SUFFICES ASSUME NoAdjacentOverwrite PROVE Spec => []BusyExact
    OBVIOUS
  <1>1. Init => BusyExact
    BY DEF Init, BusyExact, Writes
  <1>2. IInv /\ BusyExact /\ [Next]_vars => BusyExact'
    <2> SUFFICES ASSUME IInv, BusyExact, [Next]_vars PROVE BusyExact'
      OBVIOUS
    <2>1. CASE Next
      BY <2>1, BusyEdge DEF Next
    <2>2. CASE UNCHANGED vars
      BY <2>2 DEF vars, BusyExact, Writes
    <2> QED
      BY <2>1, <2>2
  <1> QED
    BY <1>1, <1>2, Invariance, PTL DEF Spec

\* For such programs scoreboard and bypass give every instruction the operands
\* that the instructions before it leave behind.
THEOREM OperandsCorrect == NoAdjacentOverwrite => (Spec => []OperandsArchitectural)
  <1> SUFFICES ASSUME NoAdjacentOverwrite PROVE Spec => []OperandsArchitectural
    OBVIOUS
  <1>1. IInv /\ BusyExact => OperandsArchitectural
    <2> SUFFICES ASSUME IInv, BusyExact, idex_valid, ~ebreak
                 PROVE  rData(ifid.rs1) = arch[ifid.rs1] /\ rData(ifid.rs2) = arch[ifid.rs2]
      BY DEF OperandsArchitectural
    <2> DEFINE C1 == CsrsAfter(csrs, lswb)
               C2 == CsrsAfter(C1, exls)
    <2>1. ifid # None /\ ifid.rs1 \in Regs /\ ifid.rs2 \in Regs
      BY InstsAssumption DEF idex_valid, IInv, TypeOK, Inst
    <2>2. ASSUME NEW r \in Regs, ~realbusy(r)
          PROVE  rData(r) = arch[r]
      <3>1. arch[r] = IF Writes(idex, r) THEN writebackdata(C2, idex)
                      ELSE IF Writes(exls, r) THEN writebackdata(C1, exls)
                      ELSE IF Writes(lswb, r) THEN writebackdata(csrs, lswb)
                      ELSE regs[r]
        BY DEF IInv, InOrder, RegsAfter
      <3>2. /\ busy[r] <=> Writes(idex, r) \/ Writes(exls, r) \/ Writes(lswb, r)
            /\ ~(Writes(idex, r) /\ Writes(lswb, r))
            /\ ~(Writes(exls, r) /\ Writes(lswb, r))
        BY DEF BusyExact
      <3>3. CASE busy[r]
        <4>1. pass(r)
          BY <2>1, <2>2, <3>3 DEF realbusy, RScore_busy
        <4>2. r # Zero
          BY <3>3 DEF IInv, TypeOK
        <4>3. Writes(lswb, r)
          BY <4>1, <4>2 DEF pass, Wbu_wen, Writes
        <4>4. rData(r) = writebackdata(csrs, lswb)
          BY <2>1, <3>3, <4>1 DEF rData, RScore_busy, Wbu_wdata
        <4> QED
          BY <3>1, <3>2, <4>3, <4>4
      <3>4. CASE ~busy[r]
        BY <3>1, <3>2, <3>4 DEF rData, RScore_busy
      <3> QED
        BY <3>3, <3>4
    <2> QED
      BY <2>1, <2>2 DEF idex_valid
  <1> QED
    BY <1>1, Invariance, ScoreboardExact, PTL

\* Unless ecall or mret comes right after the instruction that writes mtvec or
\* mepc, it jumps to the right place.
THEOREM TrapTargetsCorrect == NoAdjacentTrap => (Spec => []TrapTargetArchitectural)
  <1> SUFFICES ASSUME NoAdjacentTrap PROVE Spec => []TrapTargetArchitectural
    OBVIOUS
  <1>1. IInv => TrapTargetArchitectural
    <2> SUFFICES ASSUME IInv, ifid # None
                 PROVE  /\ ifid.kind = "mret" => csrs["mepc"] = archcsr["mepc"]
                        /\ ifid.kind = "ecall" => csrs["mtvec"] = archcsr["mtvec"]
      BY DEF TrapTargetArchitectural, idex_valid
    <2>1. /\ lswb \in Slot \cup {None} /\ exls \in Slot \cup {None} /\ idex \in Slot \cup {None}
          /\ ifid \in Insts /\ csrs \in [Csrs -> Val]
      BY DEF IInv, TypeOK
    <2>2. ~Holds(idex)
      BY DEF IInv, Spaced
    <2>3. ASSUME NEW s \in Slot \cup {None}, Holds(s) => Adjacent(s.inst, ifid),
                 NEW C \in [Csrs -> Val]
          PROVE  /\ ifid.kind = "mret" => CsrsAfter(C, s)["mepc"] = C["mepc"]
                 /\ ifid.kind = "ecall" => CsrsAfter(C, s)["mtvec"] = C["mtvec"]
      <3>1. CASE Holds(s)
        <4>1. s # None /\ s.inst \in Insts /\ ~TrapsAfter(s.inst, ifid)
          BY <2>1, <2>3, <3>1, SlotFacts DEF Holds, NoAdjacentTrap
        <4> QED
          BY <4>1 DEF TrapsAfter, csrflag, CsrsAfter, Csrs
      <3>2. CASE ~Holds(s)
        BY <3>2 DEF Holds, CsrsAfter, Csrs
      <3> QED
        BY <3>1, <3>2
    <2>4. Holds(idex) => Adjacent(idex.inst, ifid)
      BY <2>2
    <2>5. /\ Holds(exls) => Adjacent(exls.inst, ifid)
          /\ Holds(lswb) => Adjacent(lswb.inst, ifid)
      BY DEF IInv, Neighbours
    <2> DEFINE C1 == CsrsAfter(csrs, lswb)
               C2 == CsrsAfter(C1, exls)
    <2>6. C1 \in [Csrs -> Val] /\ C2 \in [Csrs -> Val]
      BY <2>1, AfterType DEF IInv, TypeOK
    <2>7. archcsr = CsrsAfter(C2, idex)
      BY DEF IInv, InOrder
    <2> HIDE DEF C1, C2
    <2>8. /\ ifid.kind = "mret" => archcsr["mepc"] = C2["mepc"]
          /\ ifid.kind = "ecall" => archcsr["mtvec"] = C2["mtvec"]
      BY <2>1, <2>3, <2>4, <2>6, <2>7
    <2>9. /\ ifid.kind = "mret" => C2["mepc"] = C1["mepc"]
          /\ ifid.kind = "ecall" => C2["mtvec"] = C1["mtvec"]
      BY <2>1, <2>3, <2>5, <2>6 DEF C2
    <2>10. /\ ifid.kind = "mret" => C1["mepc"] = csrs["mepc"]
           /\ ifid.kind = "ecall" => C1["mtvec"] = csrs["mtvec"]
      BY <2>1, <2>3, <2>5 DEF C1
    <2> QED
      BY <2>8, <2>9, <2>10
  <1> QED
    BY <1>1, Invariance, PTL

----------------------------------------------------------------------------
(* How long ID waits *)

\* An instruction in ID waits for an operand.
Waits == ifid # None /\ ~idex_valid

\* It waits for the instruction in LS and for nothing else: ID_EX and LS_WB are
\* empty.
LEMMA WaitsForLs ==
    ASSUME IInv, BusyExact, Waits
    PROVE  ifid \in Insts /\ ~ebreak /\ idex = None /\ exls # None /\ lswb = None
  <1>1. ifid \in Insts /\ ifid.rs1 \in Regs /\ ifid.rs2 \in Regs
    BY InstsAssumption DEF Waits, IInv, TypeOK, Inst
  <1>2. PICK r \in {ifid.rs1, ifid.rs2} : busy[r] /\ ~pass(r) /\ ~ebreak
    BY DEF Waits, idex_valid, realbusy, RScore_busy
  <1>3. idex = None
    BY <1>2 DEF Waits, IInv, Spaced, Neighbours
  <1>4. ~Writes(lswb, r)
    BY <1>2 DEF Waits, pass, Wbu_wen, Writes
  <1>5. exls # None
    BY <1>1, <1>2, <1>3, <1>4 DEF BusyExact, Writes
  <1>6. lswb = None
    BY <1>2, <1>5 DEF IInv, Spaced, Neighbours
  <1> QED
    BY <1>1, <1>2, <1>3, <1>5, <1>6

\* While LS waits for the cache, the pipeline stands still around it.
LEMMA WaitsStill ==
    ASSUME IInv, BusyExact, Waits, NEW alubusy \in BOOLEAN, Tick(alubusy, TRUE)
    PROVE  UNCHANGED vars
  <1> DEFINE EXready == EX_ready(alubusy, TRUE)
  <1>1. TypeOK /\ Spaced /\ ifid # None /\ lswb = None /\ idex = None
    BY WaitsForLs DEF IInv, Waits
  <1>2. ~EXready /\ ~Id_ready(EXready) /\ ~LS_ready(TRUE)
    BY DEF EX_ready, LS_ready, Id_ready
  <1>3. UNCHANGED <<icache, ifid, prev>>
    BY <1>1, <1>2 DEF Tick, FetchStep, Spaced
  <1>4. UNCHANGED <<idex, exls, arch, archcsr>> /\ lswb' = None
    BY <1>2 DEF Tick, IdExStep, Issues, ExLsStep, LsWbStep
  <1>5. UNCHANGED <<regs, csrs>>
    BY <1>1, NoEffect DEF Tick, LsWbStep, TypeOK, Holds
  <1>6. busy' = busy
    BY <1>1, <1>2 DEF Tick, ScoreStep, Iduwen, Issues, Writes, TypeOK
  <1> QED
    BY <1>1, <1>3, <1>4, <1>5, <1>6 DEF vars

\* On the edge on which LS passes its instruction to WB, the operands are there.
LEMMA WaitsEnd ==
    ASSUME NoAdjacentOverwrite, IInv, BusyExact, Waits,
           NEW alubusy \in BOOLEAN, Tick(alubusy, FALSE)
    PROVE  ifid' = ifid /\ lswb' = exls /\ idex_valid'
  <1> DEFINE EXready == EX_ready(alubusy, FALSE)
  <1>1. ifid \in Insts /\ ~ebreak /\ idex = None /\ TypeOK /\ Spaced
    BY WaitsForLs DEF IInv
  <1>2. EXready /\ ~Id_ready(EXready) /\ FetchStep(Id_ready(EXready))
    BY <1>1 DEF Tick, EX_ready, LS_ready, Id_ready, Waits, idex_valid
  <1>3. ifid' = ifid
    <2>1. Id_ready(EXready) = FALSE /\ FetchStep(FALSE)
      BY <1>2 DEF Id_ready
    <2> QED
      BY <1>1, <2>1, Fetches
  <1>4. exls' = None /\ lswb' = exls /\ idex' = None
    BY <1>1, <1>2, Moves DEF Waits
  <1>5. BusyExact'
    BY BusyEdge
  <1>6. ifid.rs1 \in Regs /\ ifid.rs2 \in Regs /\ ifid # None
    BY <1>1, InstsAssumption DEF Waits, Inst
  <1>7. ASSUME NEW r \in Regs, busy'[r]
        PROVE  lswb' # None /\ lswb'.inst.wen /\ lswb'.inst.rd = r
    BY <1>4, <1>5, <1>7 DEF BusyExact, Writes
  <1>8. ASSUME NEW r \in Regs
        PROVE  ~realbusy(r)'
    BY <1>7 DEF realbusy, RScore_busy, pass, Wbu_wen
  <1> QED
    BY <1>3, <1>4, <1>6, <1>8 DEF idex_valid

\* An instruction that waits for its operands waits for the load or store in LS
\* alone: nothing moves until that one goes on to WB, and then they are there.
THEOREM OperandsInTime ==
    NoAdjacentOverwrite =>
        (Spec => [][Waits => exls # None /\ ifid' = ifid /\ lswb' = exls /\ idex_valid']_vars)
  <1> SUFFICES ASSUME NoAdjacentOverwrite
               PROVE  Spec => [][Waits => exls # None /\ ifid' = ifid /\ lswb' = exls /\ idex_valid']_vars
    OBVIOUS
  <1>1. IInv /\ BusyExact /\ [Next]_vars =>
            [Waits => exls # None /\ ifid' = ifid /\ lswb' = exls /\ idex_valid']_vars
    <2> SUFFICES ASSUME IInv, BusyExact, Waits, Next
                 PROVE  \/ exls # None /\ ifid' = ifid /\ lswb' = exls /\ idex_valid'
                        \/ UNCHANGED vars
      OBVIOUS
    <2>1. PICK alubusy \in BOOLEAN, lsubusy \in BOOLEAN : Tick(alubusy, lsubusy)
      BY DEF Next
    <2>2. CASE lsubusy = TRUE
      BY <2>1, <2>2, WaitsStill
    <2>3. CASE lsubusy = FALSE
      BY <2>1, <2>3, WaitsForLs, WaitsEnd
    <2> QED
      BY <2>2, <2>3
  <1> QED
    BY <1>1, Invariance, ScoreboardExact, PTL DEF Spec

=============================================================================

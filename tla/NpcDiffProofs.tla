---------------------------- MODULE NpcDiffProofs ----------------------------
(***************************************************************************)
(* For every program, register value and pattern of bubbles: what the      *)
(* differential test of the NPC reports and when.                          *)
(***************************************************************************)
EXTENDS NpcDiff, TLAPS

\* execute leaves its loop when the state is no longer RUNNING.
LoopInv ==
    /\ TypeOK
    /\ loop = "run" => npc_state = "RUNNING" \/ (npc_state = "ABORT" /\ n = 0)
    /\ loop = "sdb" => npc_state \in {"STOP", "ABORT"}
    /\ loop = "exit" => npc_state = "QUIT"

Inv == LoopInv /\ RegistersAgree

-----------------------------------------------------------------------------
(* Types of the operators.                                                 *)

\* Instructions make machines of machines.
LEMMA WriteType ==
    ASSUME NEW m \in Machine, NEW i \in Instructions
    PROVE  /\ Write(m, i) \in Machine
           /\ Write(m, i).pc = m.pc
           /\ [Write(m, i) EXCEPT !.pc = i.npc] \in Machine
           /\ [Write(m, i) EXCEPT !.pc = i.pc] \in Machine
<1>1. i.v \in Val /\ i.pc \in Pcs /\ i.npc \in Pcs
  BY DEF Instructions
<1>2. Write(m, i) \in Machine /\ Write(m, i).pc = m.pc
  BY <1>1 DEF Write, Machine
<1>3. QED
  BY <1>1, <1>2 DEF Machine

\* A bubble is no instruction.
LEMMA WbType ==
    ASSUME TypeOK, wb # Bubble
    PROVE  wb \in Instructions
BY DEF TypeOK

\* What the core delivers, wrong or right.
LEMMA RetiresType ==
    ASSUME TypeOK, NEW i \in Instructions, NEW done \in Retires(i)
    PROVE  done.gpr \in Machine /\ done.npc \in Pcs
<1> DEFINE right == [gpr |-> [Write(cpu_gpr, i) EXCEPT !.pc = i.pc], npc |-> i.npc]
<1>1. right.gpr \in Machine /\ right.npc \in Pcs
  BY WriteType DEF TypeOK, Instructions
<1>2. done = right \/ (\E v \in Val : done = [right EXCEPT !.gpr.r = v])
                   \/ (\E p \in Pcs : done = [right EXCEPT !.npc = p])
  BY DEF Retires
<1> HIDE DEF right
<1>3. CASE done = right
  BY <1>1, <1>3
<1>4. ASSUME NEW v \in Val, done = [right EXCEPT !.gpr.r = v] PROVE done.gpr \in Machine /\ done.npc \in Pcs
  BY <1>1, <1>4 DEF Machine, right
<1>5. ASSUME NEW p \in Pcs, done = [right EXCEPT !.npc = p] PROVE done.gpr \in Machine /\ done.npc \in Pcs
  BY <1>1, <1>5 DEF right
<1>6. QED
  BY <1>2, <1>3, <1>4, <1>5

\* The reference stays a machine.
LEMMA RefType ==
    ASSUME TypeOK, NEW i \in Instructions, NEW m \in RefExec(i)
    PROVE  m \in Machine
<1>1. CASE ref.pc # i.pc
  BY <1>1 DEF RefExec
<1>2. CASE ref.pc = i.pc /\ i.op = "in"
  <2>1. ref \in Machine /\ i.npc \in Pcs
    BY DEF TypeOK, Instructions
  <2>2. PICK v \in Val : m = [ref EXCEPT !.r = v, !.pc = i.npc]
    BY <1>2 DEF RefExec
  <2>3. QED
    BY <2>1, <2>2 DEF Machine
<1>3. CASE ref.pc = i.pc /\ i.op # "in"
  BY <1>3, WriteType DEF RefExec, TypeOK
<1>4. QED
  BY <1>1, <1>2, <1>3

\* The copy for a skipped instruction.
LEMMA CopyType ==
    ASSUME TypeOK, NEW m \in Machine, NEW i, NEW p \in Pcs
    PROVE  Copy(m, i, p) \in Machine /\ Copy(m, i, p).r = m.r /\ Copy(m, i, p).pc = p
           /\ Copy(m, i, p).mie = npc_r.mie
BY DEF Copy, Machine, TypeOK

\* What enters write-back is an instruction or a bubble.
LEMMA RefillType ==
    ASSUME TypeOK, Refill
    PROVE  wb' \in Instructions \union {Bubble} /\ nextPc' \in Pcs
BY DEF Refill, TypeOK, Instructions

\* The counter of execute stays in its range.
LEMMA TurnType ==
    ASSUME TypeOK, n # 0
    PROVE  Turn \in -1 .. MaxCycles
BY NpcDiffAssumption DEF TypeOK, Turn

-----------------------------------------------------------------------------
(* What the commands and the cycles do to the invariants.                  *)

\* One instruction retires.
LEMMA RetireKeeps ==
    ASSUME Inv, CycleRetire
    PROVE  Inv'
<1>1. wb \in Instructions /\ npc_state = "RUNNING" /\ loop = "run" /\ n # 0
  BY WbType DEF CycleRetire, Inv, LoopInv
<1>2. PICK done \in Retires(wb) :
         /\ Refill /\ cpu_gpr' = done.gpr /\ localnpc' = done.npc
         /\ npc_r' = Copy(done.gpr, wb, done.npc)
         /\ \/ ref' = npc_r' /\ UNCHANGED <<npc_state, difftestfail>>
            \/ difftest_step(wb, done.gpr, done.npc)
         /\ wrong' \in BOOLEAN /\ uncopied' \in BOOLEAN
  BY DEF CycleRetire
<1>3. done.gpr \in Machine /\ done.npc \in Pcs
  BY <1>1, RetiresType DEF Inv, LoopInv
<1>4. npc_r' \in Machine /\ npc_r'.r = done.gpr.r
  BY <1>2, <1>3, CopyType DEF Inv, LoopInv
<1>5. /\ npc_state' \in {"RUNNING", "ABORT"} /\ difftestfail' \in BOOLEAN /\ ref' \in Machine
      /\ npc_state' = "RUNNING" => ref'.r = done.gpr.r
  <2>1. CASE ref' = npc_r' /\ UNCHANGED <<npc_state, difftestfail>>
    BY <1>1, <1>4, <2>1 DEF Inv, LoopInv, TypeOK
  <2>2. CASE difftest_step(wb, done.gpr, done.npc)
    <3>1. ref' \in Machine
      BY <1>1, <2>2, RefType DEF difftest_step, Inv, LoopInv
    <3>2. QED
      BY <1>1, <2>2, <3>1 DEF difftest_step, SameMachine, Inv, LoopInv, TypeOK
  <2>3. QED
    BY <1>2, <2>1, <2>2
<1>6. n' \in -1 .. MaxCycles /\ (npc_state' # "RUNNING" => n' = 0)
  <2>1. Turn \in -1 .. MaxCycles
    BY <1>1, TurnType DEF Inv, LoopInv
  <2>2. n' = IF npc_state' # "RUNNING" THEN 0 ELSE Turn
    BY DEF CycleRetire
  <2>3. QED
    BY <2>1, <2>2, NpcDiffAssumption
<1>7. wb' \in Instructions \union {Bubble} /\ nextPc' \in Pcs
  BY <1>2, RefillType DEF Inv, LoopInv
<1>8. loop' = "run" /\ open_difftest' \in BOOLEAN
  BY <1>1 DEF CycleRetire, Inv, LoopInv, TypeOK
<1>9. TypeOK'
  BY <1>2, <1>3, <1>4, <1>5, <1>6, <1>7, <1>8 DEF TypeOK
<1>10. QED
  BY <1>2, <1>5, <1>6, <1>8, <1>9 DEF Inv, LoopInv, RegistersAgree, Alive

\* init_difftest makes all copies of the machine alike.
LEMMA InitInv == Init => Inv
<1>1. SUFFICES ASSUME Init PROVE Inv
  OBVIOUS
<1>2. cpu_gpr \in Machine /\ npc_r = cpu_gpr /\ ref = cpu_gpr
  BY <1>1, NpcDiffAssumption DEF Init, Machine
<1>3. 0 \in -1 .. MaxCycles /\ 0 \in Pcs
  BY NpcDiffAssumption
<1>4. TypeOK
  BY <1>1, <1>2, <1>3 DEF Init, TypeOK
<1>5. QED
  BY <1>1, <1>2, <1>4 DEF Init, Inv, LoopInv, RegistersAgree, Alive

\* The inductive invariant: execute stops with the state, and the register of
\* the reference is that of the core until it does.
THEOREM Invariance == Spec => []Inv
<1>1. Init => Inv
  BY InitInv
<1>2. Inv /\ [Next]_vars => Inv'
  <2>1. SUFFICES ASSUME Inv, [Next]_vars PROVE Inv'
    OBVIOUS
  <2> USE DEF Inv, LoopInv, RegistersAgree, Alive
  <2>2. CASE CycleBubble
    <3>1. wb' \in Instructions \union {Bubble} /\ nextPc' \in Pcs
      BY <2>1, <2>2, RefillType DEF CycleBubble
    <3>2. n' \in -1 .. MaxCycles
      BY <2>1, <2>2, TurnType DEF CycleBubble
    <3>3. QED
      BY <2>1, <2>2, <3>1, <3>2 DEF CycleBubble, TypeOK
  <2>3. CASE CycleStop
    <3>1. wb \in Instructions /\ wb.npc \in Pcs /\ 0 \in -1 .. MaxCycles
      BY <2>1, <2>3, WbType, NpcDiffAssumption DEF CycleStop, Instructions
    <3>2. QED
      BY <2>1, <2>3, <3>1 DEF CycleStop, TypeOK
  <2>4. CASE CycleRetire
    BY <2>1, <2>4, RetireKeeps
  <2>5. CASE Close
    BY <2>1, <2>5 DEF Close, TypeOK
  <2>6. CASE Return
    <3>1. npc_state' = (IF npc_state = "RUNNING" THEN "STOP" ELSE npc_state) /\ loop' = "sdb"
      BY <2>6 DEF Return
    <3>2. npc_state \in {"RUNNING", "ABORT"}
      BY <2>1, <2>6 DEF Return, TypeOK
    <3>3. QED
      BY <2>1, <2>6, <3>1, <3>2 DEF Return, TypeOK
  <2>7. CASE cmd_c \/ cmd_si
    <3>1. PICK cycles \in -1 .. MaxCycles : execute(cycles) /\ loop = "sdb"
      BY <2>7, NpcDiffAssumption DEF cmd_c, cmd_si, Command
    <3>2. QED
      BY <2>1, <3>1 DEF execute, TypeOK
  <2>8. CASE cmd_q
    BY <2>1, <2>8 DEF cmd_q, TypeOK
  <2>9. CASE cmd_attach
    BY <2>1, <2>9 DEF cmd_attach, TypeOK
  <2>10. CASE cmd_detach
    BY <2>1, <2>10 DEF cmd_detach, TypeOK
  <2>11. CASE UNCHANGED vars
    BY <2>1, <2>11 DEF vars, TypeOK
  <2>12. QED
    BY <2>1, <2>2, <2>3, <2>4, <2>5, <2>6, <2>7, <2>8, <2>9, <2>10, <2>11 DEF Next
<1>3. QED
  BY <1>1, <1>2, PTL DEF Spec

\* The counter of execute and the copies of the machine keep their ranges.
THEOREM TypeCorrect == Spec => []TypeOK
BY Invariance, PTL DEF Inv, LoopInv

\* No wrong register survives the instruction that wrote it unreported, with
\* any commands given at any time.
THEOREM WrongRegisterReported == Spec => []RegistersAgree
BY Invariance, PTL DEF Inv

-----------------------------------------------------------------------------
(* As long as attach is not given and mie not written.                     *)

\* The address that the harness expects next is where the core goes on.
Expected ==
    /\ wb # Bubble => nextPc = wb.npc
    /\ Alive /\ ~wrong => localnpc = IF wb = Bubble THEN nextPc ELSE wb.pc

\* mie stays 0, in the core and in what is copied to the reference.
NoMie ==
    /\ cpu_gpr.mie = 0 /\ npc_r.mie = 0
    /\ Alive => ref.mie = 0

Sync == Inv /\ InStep /\ (~uncopied => Expected /\ NoMie) /\ NoFalseAlarm

\* The instruction that follows the one that retires is the expected one.
LEMMA RefillExpected ==
    ASSUME TypeOK, Refill, NEW p, p = nextPc
    PROVE  /\ wb' # Bubble => nextPc' = wb'.npc
           /\ p = IF wb' = Bubble THEN nextPc' ELSE wb'.pc
<1>1. \A i \in Instructions : i # Bubble
  BY DEF Instructions, Bubble
<1>2. QED
  BY <1>1 DEF Refill

\* One instruction retires while core and reference are in step.
LEMMA RetireSync ==
    ASSUME Sync, CycleRetire, ~uncopied'
    PROVE  Sync'
<1>1. /\ wb \in Instructions /\ wb # Bubble /\ npc_state = "RUNNING"
      /\ wb.op # "csr" /\ wb.op \in {"li", "in", "csr", "stop"} /\ ~uncopied
  BY WbType DEF CycleRetire, Sync, Inv, LoopInv, Instructions
<1>2. cpu_gpr \in Machine /\ npc_r \in Machine /\ ref \in Machine
  BY DEF Sync, Inv, LoopInv, TypeOK
<1>3. PICK done \in Retires(wb) :
         /\ Refill /\ cpu_gpr' = done.gpr /\ localnpc' = done.npc
         /\ npc_r' = Copy(done.gpr, wb, done.npc)
         /\ IF Skips(wb, wb') THEN ref' = npc_r' /\ UNCHANGED <<npc_state, difftestfail>>
            ELSE difftest_step(wb, done.gpr, done.npc)
         /\ wrong' = (wrong \/ done.gpr # [Write(cpu_gpr, wb) EXCEPT !.pc = wb.pc] \/ done.npc # wb.npc)
  BY DEF CycleRetire
<1>4. done.gpr \in Machine /\ done.npc \in Pcs
  BY <1>1, RetiresType DEF Sync, Inv, LoopInv
<1>5. done.gpr.mie = 0
  <2> DEFINE right == [gpr |-> [Write(cpu_gpr, wb) EXCEPT !.pc = wb.pc], npc |-> wb.npc]
  <2>1. Write(cpu_gpr, wb).mie = 0 /\ Write(cpu_gpr, wb) \in Machine
    BY <1>1, <1>2, WriteType DEF Write, Machine, Sync, NoMie
  <2>2. right.gpr.mie = 0 /\ right.gpr \in Machine
    BY <1>1, <2>1, WriteType, <1>2 DEF Machine
  <2>3. done = right \/ (\E v \in Val : done = [right EXCEPT !.gpr.r = v])
                     \/ (\E p \in Pcs : done = [right EXCEPT !.npc = p])
    BY <1>3 DEF Retires
  <2>4. ASSUME NEW v \in Val, done = [right EXCEPT !.gpr.r = v] PROVE done.gpr.mie = 0
    <3>1. done.gpr = [right.gpr EXCEPT !.r = v]
      BY <2>4
    <3> HIDE DEF right
    <3>2. QED
      BY <2>2, <3>1 DEF Machine
  <2>5. ASSUME NEW p \in Pcs, done = [right EXCEPT !.npc = p] PROVE done.gpr.mie = 0
    BY <2>2, <2>5
  <2> HIDE DEF right
  <2>6. QED
    BY <2>2, <2>3, <2>4, <2>5
<1>6. /\ npc_r'.r = done.gpr.r /\ npc_r'.pc = done.npc /\ npc_r'.mie = 0
  BY <1>1, <1>3, <1>4, CopyType DEF Sync, NoMie, Inv, LoopInv
<1>7. Inv' /\ npc_state' \in {"RUNNING", "STOP", "ABORT", "QUIT"}
  BY RetireKeeps DEF Sync, Inv, LoopInv, TypeOK
<1>8. npc_state' \in {"RUNNING", "STOP"} =>
         ref'.r = done.gpr.r /\ ref'.pc = done.npc /\ ref'.mie = 0
  <2>1. CASE Skips(wb, wb')
    BY <1>3, <1>6, <2>1
  <2>2. CASE difftest_step(wb, done.gpr, done.npc)
    BY <1>5, <2>2 DEF difftest_step, SameMachine
  <2>3. QED
    BY <1>3, <2>1, <2>2
<1>9. InStep' /\ NoMie'
  BY <1>3, <1>5, <1>6, <1>8 DEF InStep, NoMie, Alive
<1>10. Expected'
  <2>1. nextPc = wb.npc
    BY <1>1 DEF Sync, Expected
  <2>2. /\ wb' # Bubble => nextPc' = wb'.npc
        /\ wb.npc = IF wb' = Bubble THEN nextPc' ELSE wb'.pc
    BY <1>3, <2>1, RefillExpected DEF Sync, Inv, LoopInv
  <2>3. ~wrong' => localnpc' = wb.npc
    BY <1>3
  <2>4. QED
    BY <2>2, <2>3 DEF Expected
<1>11. NoFalseAlarm'
  <2>1. SUFFICES ASSUME ~wrong', difftestfail' PROVE FALSE
    BY DEF NoFalseAlarm
  <2>2. ~wrong /\ done.gpr = [Write(cpu_gpr, wb) EXCEPT !.pc = wb.pc] /\ done.npc = wb.npc
    BY <1>3, <2>1
  <2>3. ~difftestfail
    BY <1>1, <2>2 DEF Sync, NoFalseAlarm
  <2>4. ~Skips(wb, wb') /\ difftest_step(wb, done.gpr, done.npc)
    BY <1>3, <2>1, <2>3
  <2>5. ref.pc = wb.pc /\ ref.r = cpu_gpr.r /\ ref.mie = cpu_gpr.mie
    BY <1>1, <2>2 DEF Sync, InStep, Expected, NoMie, Alive
  <2>6. ref' = [Write(ref, wb) EXCEPT !.pc = wb.npc]
    BY <2>4, <2>5 DEF difftest_step, RefExec, Skips
  <2>7. Write(ref, wb) \in Machine /\ Write(cpu_gpr, wb) \in Machine
    BY <1>1, <1>2, WriteType
  <2>8. Write(ref, wb).r = Write(cpu_gpr, wb).r /\ Write(ref, wb).mie = Write(cpu_gpr, wb).mie
    BY <1>1, <1>2, <2>5 DEF Write, Machine
  <2>9. SameMachine(done.gpr, done.npc)
    BY <2>2, <2>6, <2>7, <2>8 DEF SameMachine, Machine
  <2>10. QED
    BY <2>1, <2>3, <2>4, <2>9 DEF difftest_step
<1>12. QED
  BY <1>7, <1>9, <1>10, <1>11 DEF Sync

\* Until attach is given or mie is written, core, harness and reference stay
\* in step through every pattern of bubbles, skips and stops.
THEOREM SyncInvariance == Spec => []Sync
<1>1. Init => Sync
  BY InitInv DEF Init, Sync, InStep, Expected, NoMie, NoFalseAlarm
<1>2. Inv' /\ Sync /\ [Next]_vars => Sync'
  <2>0. ASSUME Inv', uncopied' PROVE Sync'
    BY <2>0 DEF Sync, InStep, NoFalseAlarm
  <2>1. SUFFICES ASSUME Inv', Sync, [Next]_vars, ~uncopied' PROVE Sync'
    BY <2>0
  <2> USE DEF Sync, InStep, Expected, NoMie, NoFalseAlarm, Alive
  <2>2. CASE CycleBubble
    <3>1. /\ wb' # Bubble => nextPc' = wb'.npc
          /\ nextPc = IF wb' = Bubble THEN nextPc' ELSE wb'.pc
      BY <2>1, <2>2, RefillExpected DEF CycleBubble, Inv, LoopInv
    <3>2. QED
      BY <2>1, <2>2, <3>1 DEF CycleBubble
  <2>3. CASE CycleStop
    BY <2>1, <2>3 DEF CycleStop
  <2>4. CASE CycleRetire
    BY <2>1, <2>4, RetireSync
  <2>5. CASE Close
    BY <2>1, <2>5 DEF Close
  <2>6. CASE Return
    BY <2>1, <2>6 DEF Return
  <2>7. CASE cmd_c \/ cmd_si
    <3>1. npc_state = "STOP"
      BY <2>1, <2>7 DEF cmd_c, cmd_si, Command, execute, Inv, LoopInv
    <3>2. QED
      BY <2>1, <2>7, <3>1 DEF cmd_c, cmd_si, execute
  <2>8. CASE cmd_q
    BY <2>1, <2>8 DEF cmd_q
  <2>9. CASE cmd_attach
    BY <2>1, <2>9 DEF cmd_attach
  <2>10. CASE cmd_detach
    BY <2>1, <2>10 DEF cmd_detach
  <2>11. CASE UNCHANGED vars
    BY <2>1, <2>11 DEF vars
  <2>12. QED
    BY <2>1, <2>2, <2>3, <2>4, <2>5, <2>6, <2>7, <2>8, <2>9, <2>10, <2>11 DEF Next
<1>3. QED
  BY <1>1, <1>2, Invariance, PTL DEF Spec

\* What is sampled around a clock edge belongs to one instruction, for every
\* pattern of bubbles, until attach is given or mie written.
THEOREM HarnessInStep == Spec => []InStep
BY SyncInvariance, PTL DEF Sync

\* Only a core that has computed something wrong is reported, unless attach was
\* given or mie written.
THEOREM AlarmsTrue == Spec => []NoFalseAlarm
BY SyncInvariance, PTL DEF Sync

=============================================================================

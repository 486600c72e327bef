------------------------------- MODULE NpcDiff -------------------------------
(***************************************************************************)
(* The simulation harness of the NPC (npc/csrc) built with                 *)
(* CONFIG_DIFFTEST: the debugger's commands, the loop that clocks the core *)
(* (npc-exec.h) and the comparison of every retired instruction with NEMU  *)
(* (difftest.h).  The core is a stream of instructions and bubbles in its  *)
(* write-back stage; the machine is one register, mie and the pc.          *)
(***************************************************************************)
EXTENDS Integers

CONSTANTS Val,         \* values of the register and of mie
          Pcs,         \* addresses of instructions
          MaxCycles    \* the largest number given to si

ASSUME NpcDiffAssumption == 0 \in Val /\ 0 \in Pcs /\ MaxCycles \in Nat \ {0}

VARIABLES npc_state, loop, n,   \* n: cycles execute still has to do, -1 for all
          wb,             \* the instruction in the write-back stage, or Bubble
          nextPc,         \* the address of the instruction behind it
          cpu_gpr,        \* the register file; its pc is that of the last retired
          npc_r,          \* the copy sim_once keeps for skips
          localnpc,
          ref,            \* the reference
          difftestfail, open_difftest,
          wrong,          \* history: the core has computed something wrong
          uncopied        \* history: attach was given or mie written, of which
                          \* the copies for the reference do not keep track

vars == <<npc_state, loop, n, wb, nextPc, cpu_gpr, npc_r, localnpc, ref, difftestfail,
          open_difftest, wrong, uncopied>>

Machine == [r : Val, mie : Val, pc : Pcs]
Bubble == [op |-> "bubble"]
Instructions == [op : {"li", "in", "csr", "stop"}, v : Val, pc : Pcs, npc : Pcs]

\* What an instruction makes of the registers.
Write(m, i) ==
    CASE i.op \in {"li", "in"} -> [m EXCEPT !.r = i.v]
      [] i.op = "csr" -> [m EXCEPT !.mie = i.v]
      [] OTHER -> m

TypeOK ==
    /\ npc_state \in {"RUNNING", "STOP", "ABORT", "QUIT"}
    /\ loop \in {"sdb", "run", "exit"}
    /\ n \in -1 .. MaxCycles
    /\ wb \in Instructions \union {Bubble} /\ nextPc \in Pcs
    /\ cpu_gpr \in Machine /\ npc_r \in Machine /\ ref \in Machine /\ localnpc \in Pcs
    /\ difftestfail \in BOOLEAN /\ open_difftest \in BOOLEAN
    /\ wrong \in BOOLEAN /\ uncopied \in BOOLEAN

\* init_difftest, with the program at address 0.
Init ==
    /\ npc_state = "STOP" /\ loop = "sdb" /\ n = 0
    /\ wb = Bubble /\ nextPc = 0
    /\ cpu_gpr = [r |-> 0, mie |-> 0, pc |-> 0]
    /\ npc_r = cpu_gpr /\ localnpc = 0 /\ ref = cpu_gpr
    /\ difftestfail = FALSE /\ open_difftest = TRUE /\ wrong = FALSE
    /\ uncopied = FALSE

-----------------------------------------------------------------------------
(***************************************************************************)
(* One turn of the loop in execute.                                        *)
(***************************************************************************)
\* while (n--): 2^64 - 1 turns do not end.
Turn == IF n = -1 THEN n ELSE n - 1

\* What enters write-back next: a bubble, or the next instruction.
Refill ==
    \/ wb' = Bubble /\ UNCHANGED nextPc
    \/ \E i \in Instructions : i.pc = nextPc /\ wb' = i /\ nextPc' = i.npc

\* What the core, right or wrong, makes of instruction i: the registers after the clock edge
\* and the address it reports as the next one.
Retires(i) ==
    LET right == [gpr |-> [Write(cpu_gpr, i) EXCEPT !.pc = i.pc], npc |-> i.npc]
    IN  {right} \union {[right EXCEPT !.gpr.r = v] : v \in Val}
                \union {[right EXCEPT !.npc = p] : p \in Pcs}

\* io_SkipRef is registered like io_difftestvalid, so it is about the
\* instruction that has just retired.
SkipsUnregistered(i, nxt) == nxt.op = "in"
Skips(i, nxt) == i.op = "in"

\* npc_r for a skipped instruction: mie and mip are not copied.
CopyPc(m, i, npc) == [m EXCEPT !.pc = i.pc, !.mie = npc_r.mie]
Copy(m, i, npc) == [m EXCEPT !.pc = npc, !.mie = npc_r.mie]

\* ref_difftest_exec(1): the reference executes what is at its pc, and reads
\* what it likes from a device.
RefExec(i) ==
    IF ref.pc # i.pc THEN Machine
    ELSE IF i.op = "in" THEN {[ref EXCEPT !.r = v, !.pc = i.npc] : v \in Val}
    ELSE {[Write(ref, i) EXCEPT !.pc = i.npc]}

\* isa_difftest_checkregs
SameMachine(m, npc) == ref'.r = m.r /\ ref'.mie = m.mie /\ ref'.pc = npc

difftest_stepPcOnly(i, m, npc) ==
    /\ ref' \in RefExec(i)
    /\ IF ref'.pc = npc THEN UNCHANGED <<npc_state, difftestfail>>
       ELSE npc_state' = "ABORT" /\ difftestfail' = TRUE

difftest_step(i, m, npc) ==
    /\ ref' \in RefExec(i)
    /\ IF SameMachine(m, npc) THEN UNCHANGED <<npc_state, difftestfail>>
       ELSE npc_state' = "ABORT" /\ difftestfail' = TRUE

\* A clock edge without an instruction in write-back.
CycleBubble ==
    /\ loop = "run" /\ n # 0 /\ wb = Bubble
    /\ Refill
    /\ n' = Turn
    /\ UNCHANGED <<npc_state, loop, cpu_gpr, npc_r, localnpc, ref, difftestfail, open_difftest, wrong, uncopied>>

\* ebreak, or an instruction the core does not know: sim_once returns before
\* the clock edge.
CycleStop ==
    /\ loop = "run" /\ n # 0 /\ wb # Bubble /\ wb.op = "stop"
    /\ npc_state' = "ABORT" /\ localnpc' = wb.npc /\ n' = 0
    /\ UNCHANGED <<loop, wb, nextPc, cpu_gpr, npc_r, ref, difftestfail, open_difftest, wrong, uncopied>>

\* An instruction retires; execute looks at it in the same turn.
CycleRetire ==
    /\ loop = "run" /\ n # 0 /\ wb # Bubble /\ wb.op # "stop"
    /\ \E done \in Retires(wb) :
          /\ Refill
          /\ cpu_gpr' = done.gpr
          /\ localnpc' = done.npc
          /\ npc_r' = Copy(done.gpr, wb, done.npc)
          /\ IF Skips(wb, wb') THEN ref' = npc_r' /\ UNCHANGED <<npc_state, difftestfail>>
             ELSE difftest_step(wb, done.gpr, done.npc)
          /\ wrong' = (wrong \/ done.gpr # [Write(cpu_gpr, wb) EXCEPT !.pc = wb.pc] \/ done.npc # wb.npc)
    /\ uncopied' = (uncopied \/ wb.op = "csr")
    /\ n' = IF npc_state' # "RUNNING" THEN 0 ELSE Turn
    /\ UNCHANGED <<loop, open_difftest>>

\* device_update: the user closes the window.
Close ==
    /\ loop = "run" /\ npc_state = "RUNNING"
    /\ npc_state' = "QUIT" /\ loop' = "exit"
    /\ UNCHANGED <<n, wb, nextPc, cpu_gpr, npc_r, localnpc, ref, difftestfail, open_difftest, wrong, uncopied>>

\* The end of execute.
Return ==
    /\ loop = "run" /\ n = 0
    /\ loop' = "sdb"
    /\ npc_state' = IF npc_state = "RUNNING" THEN "STOP" ELSE npc_state
    /\ UNCHANGED <<n, wb, nextPc, cpu_gpr, npc_r, localnpc, ref, difftestfail, open_difftest, wrong, uncopied>>

-----------------------------------------------------------------------------
(***************************************************************************)
(* The commands.                                                           *)
(***************************************************************************)
Command == loop = "sdb"

execute(cycles) ==
    /\ npc_state # "ABORT"
    /\ npc_state' = "RUNNING" /\ loop' = "run" /\ n' = cycles
    /\ UNCHANGED <<wb, nextPc, cpu_gpr, npc_r, localnpc, ref, difftestfail, open_difftest, wrong, uncopied>>

cmd_c == Command /\ execute(-1)
cmd_si == Command /\ \E cycles \in 1 .. MaxCycles : execute(cycles)

cmd_q ==
    /\ Command
    /\ npc_state' = "QUIT" /\ loop' = "exit"
    /\ UNCHANGED <<n, wb, nextPc, cpu_gpr, npc_r, localnpc, ref, difftestfail, open_difftest, wrong, uncopied>>

cmd_attach ==
    /\ Command
    /\ open_difftest' = TRUE /\ ref' = cpu_gpr
    /\ UNCHANGED <<npc_state, loop, n, wb, nextPc, cpu_gpr, npc_r, localnpc, difftestfail, wrong>>
    /\ uncopied' = TRUE

cmd_detach ==
    /\ Command
    /\ open_difftest' = FALSE
    /\ UNCHANGED <<npc_state, loop, n, wb, nextPc, cpu_gpr, npc_r, localnpc, ref, difftestfail, wrong,
                   uncopied>>

Next ==
    \/ CycleBubble \/ CycleStop \/ CycleRetire \/ Close \/ Return
    \/ cmd_c \/ cmd_si \/ cmd_q \/ cmd_attach \/ cmd_detach

Spec == Init /\ [][Next]_vars

-----------------------------------------------------------------------------
(***************************************************************************)
(* Properties                                                              *)
(***************************************************************************)
Alive == npc_state \in {"RUNNING", "STOP"}

\* The harness samples pc, next pc, skip flag and registers at different
\* moments around a clock edge.  Whatever the pattern of bubbles, they belong
\* to one instruction: until the core stops the reference has its register and
\* the address of its next instruction.  attach sets the reference to the
\* retired instruction instead (difftest.h:32) and is left out.
InStep == Alive /\ ~uncopied => ref.r = cpu_gpr.r /\ ref.pc = localnpc

\* A wrong register is reported with the instruction that wrote it, also when
\* the reference is attached again and again.
RegistersAgree == Alive => ref.r = cpu_gpr.r

\* Only a core that has gone wrong is reported, but for the two things that
\* npc_r and attach do not copy (npc-exec.h:262, difftest.h:32).
NoFalseAlarm == difftestfail => wrong \/ uncopied

=============================================================================

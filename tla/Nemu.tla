-------------------------------- MODULE Nemu --------------------------------
(***************************************************************************)
(* The monitor of NEMU: the debugger's commands (sdb.c), the loop that     *)
(* executes instructions (cpu-exec.c), watchpoints (watchpoint.c), and the *)
(* differential test against a reference (cpu/difftest/dut.c).  The        *)
(* machine is one register and some memory cells; the program is any       *)
(* sequence of instructions.  An interpreter that errs in one of them is   *)
(* what the differential test is there for.                                *)
(***************************************************************************)
EXTENDS WatchPool

CONSTANTS ImgCells,     \* memory cells of the image
          HeapCells,    \* and of the memory behind it
          MaxSteps      \* the largest number given to si

Cells == ImgCells \union HeapCells

\* An expression that reads a device, and one that cannot be evaluated.
Dev == "dev"
Bad == "bad"

ASSUME NemuAssumption ==
    /\ MaxSteps \in Nat \ {0}
    /\ Exprs \subseteq Cells \union {Dev, Bad}
    /\ ImgCells \intersect HeapCells = {}

VARIABLES state,          \* nemu_state.state
          loop,           \* "sdb" at the prompt, "exec" in execute, "exit" after exit
          n,              \* instructions execute still has to do; -1 for all
          dut, ref,       \* register and memory of NEMU and of the reference
          is_skip_ref, open_difftest,
          ended,          \* history: the program has stopped itself, with no watchpoint
                          \* reporting a change at the same instruction
          missed,         \* history: the cells whose last store the reference has not
                          \* executed, and attach has not copied since
          wrong,          \* history: the state became ABORT at an instruction that was
                          \* executed wrongly
          misled          \* history: it did so at a load of one of the cells missed

history == <<ended, missed, wrong, misled>>
vars == <<state, loop, n, dut, ref, is_skip_ref, open_difftest, history, poolVars>>

Machine == [r : Val, mem : [Cells -> Val]]

Instructions ==
    [op : {"li"}, v : Val] \union [op : {"load", "store"}, a : Cells]
        \union [op : {"in"}, v : Val] \union [op : {"out", "ebreak", "invalid"}]

\* The instructions the reference cannot execute as NEMU does: those that
\* access a device, and those that stop the program.
Unlike(i) == i.op \in {"in", "out", "ebreak", "invalid"}

\* isa_exec_once.  Stopping instructions and output change nothing that is
\* compared.
Result(m, i) ==
    CASE i.op \in {"li", "in"} -> [m EXCEPT !.r = i.v]
      [] i.op = "load" -> [m EXCEPT !.r = m.mem[i.a]]
      [] i.op = "store" -> [m EXCEPT !.mem[i.a] = m.r]
      [] OTHER -> m

\* ref_difftest_exec: the reference has no devices, and reads there what it likes.
RefResults(i) ==
    IF i.op = "in" THEN {[ref EXCEPT !.r = v] : v \in Val} ELSE {Result(ref, i)}

TypeOK ==
    /\ state \in {"RUNNING", "STOP", "END", "ABORT", "QUIT"}
    /\ loop \in {"sdb", "exec", "device", "exit"}
    /\ n \in -1 .. MaxSteps
    /\ dut \in Machine /\ ref \in Machine
    /\ is_skip_ref \in BOOLEAN /\ open_difftest \in BOOLEAN
    /\ ended \in BOOLEAN /\ wrong \in BOOLEAN /\ missed \subseteq Cells /\ misled \in BOOLEAN
    /\ watch \in [Pool -> Watch \union {Free}] /\ halt \in {"no", "assert", "segv"}

\* init_difftest has copied image and registers; the reference's other memory
\* is zero like NEMU's.
Init ==
    /\ state = "STOP" /\ loop = "sdb" /\ n = 0
    /\ dut \in [r : {0}, mem : [Cells -> {0}]] /\ ref = dut
    /\ is_skip_ref = FALSE /\ open_difftest = TRUE
    /\ ended = FALSE /\ wrong = FALSE /\ missed = {} /\ misled = FALSE
    /\ PoolInit

-----------------------------------------------------------------------------
(***************************************************************************)
(* One instruction: exec_once, then trace_and_difftest.                    *)
(***************************************************************************)
\* expr: a device expression reads the device, whose value is d.
Eval(e, m, d) == IF e = Dev THEN d ELSE m.mem[e]

\* What the device may hold when the expressions es are evaluated; it makes no
\* difference to those that do not read it.
Readings(es) == IF Dev \in es THEN Val ELSE {0}

\* difftest_skip_ref, called from find_mapid_by_addr and set_nemu_state.
SkipRefNever(skip, called) == skip
SkipRef(skip, called) == skip \/ (called /\ open_difftest)

StateAfter(i) ==
    CASE i.op = "ebreak" -> "END" [] i.op = "invalid" -> "ABORT" [] OTHER -> state

\* test_change follows the list used up to the first watchpoint that differs, or
\* to the end; it leaves the old value.
Looked(used, m, d) ==
    LET Same(wp) == Eval(wp.e, m, d) = wp.value
    IN  {watch[used[k]] : k \in {k \in DOMAIN used : \A j \in 1 .. k - 1 : Same(watch[used[j]])}}

test_change(looked, m, d) == \E wp \in looked : Eval(wp.e, m, d) # wp.value

ReadsDevice(looked) == \E wp \in looked : wp.e = Dev

\* difftest_step with the skip flag skip and the state s before it.
difftest_step(m, i, skip, s) ==
    \/ /\ ~open_difftest
       /\ state' = s /\ ref' = ref /\ is_skip_ref' = skip
    \/ /\ open_difftest /\ skip
       /\ state' = s /\ ref' = [ref EXCEPT !.r = m.r] /\ is_skip_ref' = FALSE
    \/ /\ open_difftest /\ ~skip
       /\ ref' \in RefResults(i) /\ is_skip_ref' = skip
       /\ state' = IF ref'.r = m.r THEN s ELSE "ABORT"

\* The reference misses the stores that the program makes while the test is off,
\* and those it skips because a device has been read for the debugger.
Missed(i, executed) ==
    CASE i.op = "store" /\ executed -> missed \ {i.a}
      [] i.op = "store" /\ ~executed -> missed \union {i.a}
      [] OTHER -> missed

\* One turn of the loop in execute up to the test of nemu_state.  m is what
\* NEMU makes of instruction i, d what a device holds, used the list at head.
Execute(i, m, d, used) ==
    LET looked == Looked(used, m, d)
        changed == test_change(looked, m, d)
        reads == ReadsDevice(looked)
        skip == SkipRef(is_skip_ref, Unlike(i) \/ reads)
        s == IF changed THEN "STOP" ELSE StateAfter(i)
    IN  /\ dut' = m
        /\ difftest_step(m, i, skip, s)
        /\ ended' = (ended \/ (i.op \in {"ebreak", "invalid"} /\ ~changed))
        /\ wrong' = (state' = "ABORT" /\ m # Result(dut, i))
        /\ missed' = Missed(i, open_difftest /\ ~skip)
        /\ misled' = (state' = "ABORT" /\ i.op = "load" /\ i.a \in missed)

ExecOnce ==
    /\ loop = "exec" /\ n # 0
    /\ LET used == List(head) IN
          \E i \in Instructions, d \in Readings({watch[used[k]].e : k \in DOMAIN used}) :
              \E m \in {Result(dut, i)} \union
                       IF i.op \in {"li", "load"} THEN {[dut EXCEPT !.r = v] : v \in Val} ELSE {} :
                  Execute(i, m, d, used)
    /\ \/ state' # "RUNNING" /\ n' = 0 /\ UNCHANGED loop
       \/ state' = "RUNNING" /\ loop' = "device" /\ UNCHANGED n
    /\ UNCHANGED <<open_difftest, poolVars>>

\* The user may have closed the window; the loop finds out after one more
\* instruction.
device_update ==
    /\ loop = "device"
    /\ state' \in {state, "QUIT"}
    /\ loop' = "exec"
    /\ n' = IF n = -1 THEN n ELSE n - 1
    /\ UNCHANGED <<dut, ref, is_skip_ref, open_difftest, history, poolVars>>

\* The end of cpu_exec.
Return ==
    /\ loop = "exec" /\ n = 0
    /\ loop' = "sdb"
    /\ state' = IF state = "RUNNING" THEN "STOP" ELSE state
    /\ UNCHANGED <<n, dut, ref, is_skip_ref, open_difftest, history, poolVars>>

-----------------------------------------------------------------------------
(***************************************************************************)
(* The commands.                                                           *)
(***************************************************************************)
Command == loop = "sdb" /\ halt = "no"

\* cmd_c and cmd_si: cpu_exec refuses a program that has ended.
cpu_execAlways(steps) ==
    /\ state' = "RUNNING" /\ loop' = "exec" /\ n' = steps
    /\ UNCHANGED <<dut, ref, is_skip_ref, open_difftest, history, poolVars>>

cpu_exec(steps) ==
    /\ state \notin {"END", "ABORT"}
    /\ state' = "RUNNING" /\ loop' = "exec" /\ n' = steps
    /\ UNCHANGED <<dut, ref, is_skip_ref, open_difftest, history, poolVars>>

cmd_c == Command /\ cpu_exec(-1)
cmd_si == Command /\ \E steps \in 0 .. MaxSteps : cpu_exec(steps)

cmd_q ==
    /\ Command
    /\ state' = "ABORT" /\ loop' = "exit"
    /\ UNCHANGED <<n, dut, ref, is_skip_ref, open_difftest, history, poolVars>>

\* cmd_p and cmd_x on the address of a device read it like an instruction.
cmd_p ==
    /\ Command
    /\ is_skip_ref' = SkipRef(is_skip_ref, TRUE)
    /\ UNCHANGED <<state, loop, n, dut, ref, open_difftest, history, poolVars>>

cmd_w ==
    /\ Command
    /\ \E e \in Exprs : \E d \in Readings({e}) :
          /\ new_wp(e, IF e = Bad THEN {} ELSE {Eval(e, dut, d)})
          /\ is_skip_ref' = SkipRef(is_skip_ref, e = Dev)
    /\ UNCHANGED <<state, loop, n, dut, ref, open_difftest, history>>

cmd_d ==
    /\ Command
    /\ \E NO \in Pool : delete_wp(NO)
    /\ UNCHANGED <<state, loop, n, dut, ref, is_skip_ref, open_difftest, history>>

\* isa_difftest_attach copies the image and the registers.
cmd_attachRegisters ==
    /\ Command
    /\ open_difftest' = TRUE
    /\ ref' = [ref EXCEPT !.r = dut.r]
    /\ missed' = missed \ ImgCells
    /\ UNCHANGED <<state, loop, n, dut, is_skip_ref, ended, wrong, misled, poolVars>>

cmd_attach ==
    /\ Command
    /\ open_difftest' = TRUE
    /\ ref' = [r |-> dut.r,
               mem |-> [a \in Cells |-> IF a \in ImgCells THEN dut.mem[a] ELSE ref.mem[a]]]
    /\ missed' = missed \ ImgCells
    /\ UNCHANGED <<state, loop, n, dut, is_skip_ref, ended, wrong, misled, poolVars>>

cmd_detach ==
    /\ Command
    /\ open_difftest' = FALSE
    /\ UNCHANGED <<state, loop, n, dut, ref, is_skip_ref, history, poolVars>>

Next ==
    \/ ExecOnce \/ device_update \/ Return
    \/ cmd_c \/ cmd_si \/ cmd_q \/ cmd_p \/ cmd_w \/ cmd_d \/ cmd_attach \/ cmd_detach

Spec == Init /\ [][Next]_vars

-----------------------------------------------------------------------------
(***************************************************************************)
(* Properties                                                              *)
(***************************************************************************)
\* A wrong register never gets past the instruction that computed it: while the
\* test is on, a program that is not aborted has the registers of the
\* reference, through skips, detaching and attaching.  It has its memory too,
\* cell by cell, but for those of which the reference has missed the last store:
\* dut.c:36 says that the reference skips the instructions that cannot behave
\* the same in both, and a store to memory is not one of them.
ReferenceAgrees ==
    open_difftest /\ state # "ABORT" =>
        ref.r = dut.r /\ \A a \in Cells \ missed : ref.mem[a] = dut.mem[a]

\* The test aborts the program only at an instruction that was executed wrongly,
\* or at the load of a cell whose last store the reference has missed; the latter
\* is the one false alarm there is.  Else it takes an illegal instruction or the
\* q command to make the state ABORT.
NoFalseAlarm == state = "ABORT" => ended \/ loop = "exit" \/ wrong \/ misled

\* cpu-exec.c:149 tells the user that the execution has ended and that only a
\* new run of NEMU restarts it: in the states END and ABORT no command executes
\* more of the program, and ebreak or an illegal instruction leads to them, unless
\* a watchpoint reports a change at the same instruction (cpu-exec.c:52).
EndIsFinal == [][ended \/ state \in {"END", "ABORT"} => UNCHANGED dut]_vars

-----------------------------------------------------------------------------
(***************************************************************************)
(* What makes these properties inductive.                                  *)
(***************************************************************************)
\* Where the loop of execute can be in which state.
Turn ==
    /\ loop = "device" => state = "RUNNING" /\ n # 0
    /\ loop = "exec" /\ n # 0 => state \in {"RUNNING", "QUIT"}
    /\ ended => state \in {"END", "ABORT"}

\* The cells that agree do so while the test is off, too.
Agree ==
    state # "ABORT" =>
        /\ open_difftest => ref.r = dut.r
        /\ \A a \in Cells \ missed : ref.mem[a] = dut.mem[a]

IInv == TypeOK /\ PoolShape /\ Turn /\ Agree /\ NoFalseAlarm

=============================================================================

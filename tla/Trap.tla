-------------------------------- MODULE Trap --------------------------------
(***************************************************************************)
(* System calls of Nanos-lite on NEMU: ecall and mret (system/intr.c,      *)
(* inst.c), the entry and exit code of the abstract machine (trap.S,       *)
(* cte.c), and the handlers of the kernel (irq.c, syscall.c, loader.c).    *)
(* The kernel itself may trap in the middle of a handler, and a program    *)
(* that exits or calls execve leaves its trap unfinished for ever: the     *)
(* next one is loaded over it (Loader) and starts on the same stack.       *)
(*                                                                         *)
(* General registers are a0, a7 and s, which stands for all others.        *)
(***************************************************************************)
EXTENDS Loader, SequencesExt

CONSTANTS Val,        \* values of a0 and s
          Results,    \* what fs_open, fs_read and the like return
          Menu,       \* the program sys_exit names: /bin/menu
          UserPcs,    \* addresses of ecalls in programs
          MaxFrames   \* bound on the contexts programs leave on the stack

Yield == "minus1"     \* a7 of yield()
Calls == {"exit", "yield", "file", "brk", "execve", "unknown"}

Entry == 0            \* entry of the programs
KYield == 1000        \* the ecall in the kernel's yield()

ASSUME TrapAssumption ==
    /\ UserPcs \subseteq 0 .. KYield - 1 /\ Entry \in UserPcs
    /\ Menu \in Programs /\ MaxFrames \in Nat /\ 0 \in Val /\ 0 \in Results

VARIABLES at,       \* "load", "run", "push", "handle", "pop", "mret" or "panic"
          pc, regs,
          mepc, mcause, mstatus,
          stack,    \* the contexts trap.S has pushed
          calls     \* the ecalls that have not returned: pc, registers and mstatus

trapVars == <<at, pc, regs, mepc, mcause, mstatus, stack, calls>>
kernelVars == <<trapVars, loaderVars>>

Regs == [a0 : Val \union Results, a7 : Calls \union {Yield}, s : Val]
Status == [mie : BOOLEAN, mpie : BOOLEAN, mprv : BOOLEAN]
Context == [regs : Regs, mcause : {0, 11}, mstatus : Status, mepc : Nat]

TrapTypeOK ==
    /\ at \in {"load", "run", "push", "handle", "pop", "mret", "panic"}
    /\ pc \in Nat /\ regs \in Regs
    /\ mepc \in Nat /\ mcause \in {0, 11} /\ mstatus \in Status
    /\ stack \in Seq(Context) /\ Len(stack) <= MaxFrames + 1
    /\ calls \in Seq([pc : Nat, regs : Regs, mstatus : Status])
    /\ mem \in [Addrs -> Nat] /\ hbrk \in Addrs /\ program \in Programs /\ ph \in Nat \ {0}
    /\ phase \in {"exit", "load", "run", "abort"}

\* init_proc loads the first program.
TrapInit ==
    /\ LoaderInit
    /\ at = "load" /\ pc = Entry
    /\ regs \in [a0 : {0}, a7 : {Yield}, s : {0}]
    /\ mepc = 0 /\ mcause = 0
    /\ mstatus = [mie |-> FALSE, mpie |-> FALSE, mprv |-> FALSE]
    /\ stack = << >> /\ calls = << >>

-----------------------------------------------------------------------------
(***************************************************************************)
(* NEMU.                                                                   *)
(***************************************************************************)
\* An a7 above 19 leaves mcause as it is.
Cause(a7) == IF a7 = "unknown" THEN mcause ELSE 11

\* isa_raise_intr
Ecall(from, r) ==
    /\ pc' = from /\ regs' = r
    /\ mepc' = from
    /\ mcause' = Cause(r.a7)
    /\ mstatus' = [mstatus EXCEPT !.mpie = mstatus.mie, !.mie = FALSE]
    /\ at' = "push"
    /\ calls' = Append(calls, [pc |-> from, regs |-> r, mstatus |-> mstatus])
    /\ UNCHANGED stack

\* A program computes, and makes a system call from any of its ecalls.
Program ==
    /\ at = "run" /\ Len(stack) < MaxFrames
    /\ \E from \in UserPcs, r \in [a0 : Val, a7 : Calls \union {Yield}, s : Val] : Ecall(from, r)

\* mret_inst
Mret ==
    /\ mstatus' = [mstatus EXCEPT !.mie = mstatus.mpie, !.mpie = TRUE]
    /\ calls' = Front(calls)

-----------------------------------------------------------------------------
(***************************************************************************)
(* trap.S                                                                  *)
(***************************************************************************)
\* Registers and CSRs are saved; MPRV is set for the differential test.  The
\* handler, compiled C, uses the registers.
Push ==
    /\ at = "push"
    /\ stack' = Append(stack, [regs |-> regs, mcause |-> mcause, mstatus |-> mstatus, mepc |-> mepc])
    /\ mstatus' = [mstatus EXCEPT !.mprv = TRUE]
    /\ regs' \in [a0 : {0}, a7 : {regs.a7}, s : Val]
    /\ at' = "handle"
    /\ UNCHANGED <<pc, mepc, mcause, calls>>

PopCsr ==
    /\ at = "pop"
    /\ mstatus' = Last(stack).mstatus
    /\ mepc' = mepc + 4
    /\ regs' = Last(stack).regs
    /\ stack' = Front(stack)
    /\ at' = "mret"
    /\ UNCHANGED <<pc, mcause, calls>>

Pop ==
    /\ at = "pop"
    /\ mstatus' = Last(stack).mstatus
    /\ mepc' = Last(stack).mepc + 4
    /\ regs' = Last(stack).regs
    /\ stack' = Front(stack)
    /\ at' = "mret"
    /\ UNCHANGED <<pc, mcause, calls>>

\* Back in a program, or in the handler of SYS_yield, which returns 0.
ReturnToProgram ==
    /\ at = "mret" /\ mepc # KYield + 4
    /\ Mret
    /\ pc' = mepc /\ at' = "run"
    /\ UNCHANGED <<regs, mepc, mcause, stack>>

SetResult(ret) == stack' = [stack EXCEPT ![Len(stack)].regs.a0 = ret]

ReturnToHandlerAgain ==
    /\ at = "mret" /\ mepc = KYield + 4
    /\ Mret
    /\ SetResult(0) /\ at' = "handle"
    /\ UNCHANGED <<pc, regs, mepc, mcause>>

ReturnToHandler ==
    /\ at = "mret" /\ mepc = KYield + 4
    /\ Mret
    /\ SetResult(0) /\ at' = "pop"
    /\ UNCHANGED <<pc, regs, mepc, mcause>>

-----------------------------------------------------------------------------
(***************************************************************************)
(* __am_irq_handle, do_event and do_syscall, by what a7 of the context     *)
(* asks for.                                                               *)
(***************************************************************************)
Handling(a7) == at = "handle" /\ Last(stack).mcause = 11 /\ Last(stack).regs.a7 = a7

DoEventYield ==
    /\ Handling(Yield)
    /\ at' = "pop"
    /\ UNCHANGED <<pc, regs, mepc, mcause, mstatus, stack, calls>>

sys_yield ==
    /\ Handling("yield")
    /\ Ecall(KYield, [regs EXCEPT !.a7 = Yield])

sys_file ==
    /\ Handling("file")
    /\ \E ret \in Results : SetResult(ret)
    /\ at' = "pop"
    /\ UNCHANGED <<pc, regs, mepc, mcause, mstatus, calls>>

sys_sbrk ==
    /\ Handling("brk")
    /\ SetResult(0) /\ at' = "pop"
    /\ UNCHANGED <<pc, regs, mepc, mcause, mstatus, calls>>

\* sys_exit loads the menu, sys_execve any program of the file system.  Both
\* call naive_uload like a function, on the stack the trap has left.
sys_execve ==
    /\ \/ Handling("exit") /\ Unload(Menu)
       \/ Handling("execve") /\ \E p \in Programs : Unload(p)
    /\ at' = "load"
    /\ UNCHANGED <<pc, regs, mepc, mcause, mstatus, stack, calls>>

Load ==
    /\ at = "load"
    /\ ReadHeaders \/ LoadSegment
    /\ UNCHANGED trapVars

naive_uload ==
    /\ at = "load" /\ EndLoad
    /\ at' = "run" /\ pc' = Entry
    /\ regs' \in [a0 : {0}, a7 : {regs.a7}, s : {0}]
    /\ UNCHANGED <<mepc, mcause, mstatus, stack, calls>>

\* A system call do_syscall does not know, a file fs_open does not find, or an
\* event do_event does not know.
KernelPanic ==
    /\ \/ Handling("unknown") \/ Handling("execve") \/ Handling("file")
       \/ (at = "handle" /\ Last(stack).mcause # 11)
    /\ at' = "panic"
    /\ UNCHANGED <<pc, regs, mepc, mcause, mstatus, stack, calls>>

\* The steps of trap handling leave memory alone as far as it is modelled.
Handle ==
    /\ \/ Push \/ Pop \/ ReturnToProgram \/ ReturnToHandler
       \/ DoEventYield \/ sys_yield \/ sys_file \/ sys_sbrk \/ KernelPanic
    /\ UNCHANGED loaderVars

TrapNext ==
    \/ Program /\ UNCHANGED loaderVars
    \/ at = "run" /\ Store /\ UNCHANGED trapVars
    \/ Handle
    \/ sys_execve \/ Load \/ naive_uload

TrapSpec == TrapInit /\ [][TrapNext]_kernelVars

\* A trap that has begun goes on; nothing else runs.
TrapFairSpec == TrapSpec /\ WF_kernelVars(TrapNext /\ at # "run")

-----------------------------------------------------------------------------
(***************************************************************************)
(* Properties                                                              *)
(***************************************************************************)
Result(call, a0) ==
    CASE call.regs.a7 = Yield -> a0 = call.regs.a0
      [] call.regs.a7 \in {"yield", "brk"} -> a0 = 0
      [] call.regs.a7 = "file" -> a0 \in Results
      [] OTHER -> FALSE

\* Every mret goes behind the ecall it belongs to, although traps nest and
\* there is one mepc for all of them: the registers are those of the ecall but
\* for the result in a0, interrupts are enabled and MPRV is set as they were.
\* exit, execve and unknown calls do not return.
ContextRestored ==
    at = "mret" =>
        LET call == Last(calls)
        IN  /\ mepc = call.pc + 4
            /\ regs.s = call.regs.s /\ regs.a7 = call.regs.a7 /\ Result(call, regs.a0)
            /\ mstatus.mpie = call.mstatus.mie /\ mstatus.mprv = call.mstatus.mprv

\* A program starts with its file in place and zeros in the rest of its
\* areas, whatever the programs before it left there (loader.c:81), as long as
\* the heap, which contains these areas, has not grown into them.
ProgramLoaded == [][at = "load" /\ at' = "run" /\ HeapBelow => InPlace(mem)]_kernelVars

\* A system call comes back to a program, its own or the next one, or ends in
\* a panic or in malloc's assertion; it never stays in the kernel.
CallsEnd == (at = "push") ~> (at \in {"run", "panic"} \/ phase = "abort")

-----------------------------------------------------------------------------
(***************************************************************************)
(* What makes these properties inductive.                                  *)
(***************************************************************************)
\* Context c holds what is to be restored after an ecall.
Saves(c, call) ==
    /\ c.mepc = call.pc
    /\ c.regs.s = call.regs.s /\ c.regs.a7 = call.regs.a7
    /\ c.mstatus.mpie = call.mstatus.mie /\ c.mstatus.mprv = call.mstatus.mprv

\* The contexts on the stack are those of the ecalls that have not returned;
\* between ecall and Push, and between Pop and mret, one is in the CSRs.
Frames ==
    /\ Len(calls) = Len(stack) + IF at \in {"push", "mret"} THEN 1 ELSE 0
    /\ at \in {"handle", "pop"} => Len(stack) > 0
    /\ \A k \in 1 .. Len(stack) : Saves(stack[k], calls[k])
    /\ at = "push" => /\ Saves([mepc |-> mepc, regs |-> regs, mstatus |-> mstatus], Last(calls))
                      /\ regs.a0 = Last(calls).regs.a0
    /\ at = "handle" => Last(stack).regs.a0 = Last(calls).regs.a0
    /\ at = "pop" => Result(Last(calls), Last(stack).regs.a0)

\* The kernel traps only in the handler of SYS_yield.
Nested ==
    \A k \in 1 .. Len(calls) :
        /\ k <= MaxFrames \/ (k = MaxFrames + 1 /\ calls[k].pc = KYield)
        /\ calls[k].pc \in UserPcs \union {KYield}
        /\ calls[k].pc = KYield =>
              k > 1 /\ calls[k].regs.a7 = Yield /\ calls[k - 1].regs.a7 = "yield"

TrapIInv == TrapTypeOK /\ Frames /\ Nested /\ ContextRestored /\ LoadedSoFar

=============================================================================

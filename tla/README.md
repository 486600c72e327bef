# TLA+ models of ysyx-exam: a RISC-V core, its simulators and its small OS

This directory specifies and verifies the parts of the repository whose
correctness depends on what happens *when*, or on long sequences of calls: the
NPC core under `npc/vsrc` and the harness that compares it with a reference, the
monitor, differential test and keyboard of NEMU, the file system, traps and
loader of Nanos-lite with the parts of abstract-machine below and of navy-apps
above, and the cache simulator of lab 4. The modules are checked by TLC on small
instances, and the main safety properties are proved by TLAPS for every instance.

## 1. The system

The repository is a computer built from scratch. `nemu` is an instruction set
simulator, `npc` a processor in Verilog (with an older Chisel version in
`npc/playground`), `abstract-machine` the run-time layer that programs see,
`nanos-lite` a small operating system on top of it, `navy-apps` and `am-kernels`
the programs. `nemu` is also the reference the NPC is compared with, instruction
by instruction. The other directories are exercises, of which the cache
simulator of lab 4 has state and a correctness argument of its own.

| Component | State | Operations | Interacts by |
|---|---|---|---|
| Caches (`CACHE.v`, `S011HD1P_X32Y2D128_BW.v`) | five-state machine, tags, valid, dirty, data RAM and its output register, victim way, beat counter | lookup, hit, miss, write back, refill | request wires from IFU/LSU, AXI to the arbiter |
| Arbiter, SRAM (`RamArbiter.v`, `SRAM.v`) | read and write burst machines, address registers, counters, pmem | two-beat read and write bursts | AXI; DPI calls to `pmem_read`/`pmem_write` |
| Fetch (`PCREG.v`, `IFU.v`, IF_ID) | RegPc, IF_ID | advance, jump, drop and refetch | ICache, jump wires from ID |
| LSU (`LSU.v`, EX_LS, LS_WB) | Cachewait/CacheBusy, EX_LS | load, store | DCache; stalls EX |
| Pipeline control (`ysyx_22050550.v`, `IDU.v`, `ScoreBoard.v`, `ByPass.v`, `REGS.v`, `WBU.v`) | four pipeline registers, busy bits, register file, CSRs | issue, stall, forward, write back | valid/ready handshakes between stages |
| Execute stage (`EXU.v`, `Multi.v`, `Diver.v`) | a machine each for EX, multiplier and divider, partial results, last result | start, iterate, deliver | valid and ready wires between EX and the units |
| Harness (`npc/csrc`) | simulation state, sampled pc and registers, copy for skips, reference | clock, sample, compare, skip, debugger commands | DPI, one cycle behind write-back; calls into the reference |
| NEMU monitor (`sdb.c`, `watchpoint.c`, `expr.c`, `cpu-exec.c`) | run state, instruction count, two linked lists of watchpoints | debugger commands, the execution loop, evaluation of expressions | calls; devices set the skip flag |
| NEMU differential test (`dut.c`) | skip flag, on/off, the reference | step and compare, attach, detach | called after each instruction |
| Keyboard (`device.c`, `keyboard.c`, AM's `input.c`, `event.c`) | host's queue, ring buffer, key states | poll, enqueue, dequeue, match names | MMIO register, `/dev/events` |
| File system (`fs.c`, `ramdisk.c`, `device.c`) | file table with offsets, ramdisk, frame buffer | open, close, read, write, lseek | system calls |
| Drawing (`video.c`, `NDL.c`, AM's `gpu.c`) | surface, palette, canvas | set mode, fill, blit, update, set palette | one lseek and one write of `/dev/fb` per row |
| Traps (`intr.c`, `inst.c`, `trap.S`, `cte.c`, `irq.c`, `syscall.c`) | registers, mepc, mcause, mstatus, contexts on the stack | ecall, save, handle, restore, mret | calls; nested ecalls |
| Loader, allocator (`loader.c`, klib) | memory, end of the heap | load a program over another, malloc | called by exit and execve |
| Cache simulator (`cachesim`) | lines, memory, second memory | cached and uncached read and write, final comparison | calls |

What is hard here. In hardware every block is a state machine of its own on a
common clock, they talk through combinational wires, and nothing keeps a copy of
a request. A miss in one cache overlaps stalls, jumps, and a miss in the other.
In software little runs concurrently (the user of the window and the guest do),
but one flag, offset or list is shared by parties that do not know of each
other: the skip flag by instructions, watchpoints and debugger commands; the
offset of `/dev/fb` by all rows of a picture; `mepc` by nested traps; the heap by
the loader and the programs it loads. The tests run whole programs; they do not
choose interleavings or sequences of calls. `PROJECT.json` lists each hazard
with its line.

What makes the components correct:

* caches and bus: to the load/store unit they are one flat byte array, to the
  fetch unit the program image; no line in two ways; both ends of a burst agree;
  nobody starves;
* fetch: the instructions handed to ID are those of the program, in order, once;
* pipeline: each instruction reads what the instructions before it wrote; each
  writes back once and in order; a wait for an operand ends; traps go where the
  CSRs say; `ebreak` reports the finished state;
* execute stage: what leaves it is the product or quotient of its operands,
  whatever was computed before, and every operation ends;
* both differential tests: a wrong result is reported with the instruction that
  made it, and nothing else is reported (but for deviations 3 and 5);
* watchpoints: one numbered list to the user, no node lost or shared; an ended
  program stays ended; expressions have the value their grammar gives;
* keyboard: a queue that loses nothing and ends NEMU when full; key states that
  settle at the keys held down, unless the debugger threw their last event away; a
  waiting program gets its event;
* files: independent byte arrays with one offset each; no access outside;
* drawing: the rectangle asked for, at its place, and nothing else (but for
  deviations 10 and 11);
* traps: each mret returns behind its own ecall with its own registers; each
  program starts with its file in place and zeros behind it; no call is stuck;
* cache simulator: the answers of a memory without a cache.

## 2. Modules

| Module | What it is |
|---|---|
| `CacheGeometry`, `Cache`, `Sram` | constants of the NPC's caches; one cache, with the lemmas about its clock edge; the AXI slave |
| `NpcMem` | composition: `ICache`, `DCache`, `RamArbiter`, `PSRAM`, `PCREG`, `IFU`, IF_ID, `LSU`, EX_LS |
| `FlatMemory` | abstract: a byte array with one access at a time; implemented by `NpcMem` |
| `Pipeline` | pipeline registers, scoreboard, bypass, register file, CSRs, write-back |
| `Multi`, `Diver`, `Exu` | Booth multiplier, shift-subtract divider, and the machine of EX with both |
| `NpcDiff` | harness of the NPC: clock loop, sampling, reference, debugger commands |
| `WatchPool`, `Nemu` | watchpoint lists; NEMU's monitor with them, the execution loop and the differential test |
| `Expr`, `Sdb` | expressions of NEMU's debugger; the monitor with them |
| `WatchList` | abstract: a numbered list of watchpoints; implemented by `WatchPool` |
| `Input` | a key's way from the window to miniSDL |
| `KeyFifo` | abstract: a bounded queue; implemented by the ring buffer in `Input` |
| `Gpu`, `Fs` | frame buffer; file system over it |
| `Files` | abstract: independent byte arrays; implemented by `Fs` |
| `Video` | miniSDL and NDL over `Fs` |
| `Loader`, `Trap` | loader and allocator; traps and system calls over them |
| `CacheSim` | cache simulator of lab 4 with its random test |
| `*Proofs` | theorems about `NpcMem`, `Pipeline`, `Exu`, `NpcDiff`, `Nemu` with `Sdb`, `CacheSim`; `NanosProofs` about `Fs`, `Video`, `Trap` with `Loader`, and `Input` |
| `MC*` | instances for TLC |

Definitions that stand before another one with its name and a suffix
(`hitWithoutLastWay` before `hit`) are variants with a plausible mistake; each
property is violated when one of them takes the place of the original.

### How the state corresponds to the code

**The core.** One action is one rising clock edge, because every register of the
design is clocked by the same edge. `NpcMem!Tick` is the conjunction of the steps
of the blocks; wires are operators of the state with the names they have in the
Verilog. A register that a block does not load in a cycle is UNCHANGED in the
disjunct for that cycle. The models follow the build that `npc/Makefile` makes:
`ysyx_22050550_FAST` with `UseArbiter`, `CacheUseLFSR`, `LSUUSECACHE` and
`IFUUSECACHE`, tags in registers.

`Cache`. `state`, `valid`, `dirty`, `Tag`, `ram`, `Q`, `chooseway` and `Reglen`
are the registers of the same names. Its disjuncts are the branches of the
`case (state)` block with everything else that is enabled in that state: the
tag write with the first refill beat, the valid bit with the last, the dirty bit
on a store hit and on the last write-back beat, and the conditions under which
the data RAM loads its output register (`DataCen`). The victim way comes from a
free-running LFSR in the code and is arbitrary here. Bytes are kept separate so
that shifts and byte masks mean what they mean in the code.

`Sram`. Two machines with eight-bit counters, which wrap. `io_ar_len`,
`io_aw_len`, the sizes and `io_w_strb` are tied to constants in
`ysyx_22050550.v`, so every burst has two full beats.

`NpcMem`. What the rest of the core decides is arbitrary in each cycle: whether
ID is ready, whether it waits for an operand, whether the instruction it holds
is a taken jump and to where, and which access enters EX_LS. `archpc` is a
history variable: the address of the instruction that the program runs next.

`Pipeline`. A slot is an instruction and its result. The result of an
instruction is an arbitrary value, except that a CSR instruction carries its
`rs1` operand; `rs1`, `rs2` and `rd` are taken from every instruction, as the
decoder does, so false dependencies are there too. Stalls of EX (multiplier,
divider) and of LS (cache) come at any time and for any time. `arch` and
`archcsr` are history variables: registers and CSRs after all issued
instructions, in program order. The program is a relation `Adjacent`: which
instruction may directly follow which. The CSRs kept are `mepc` and `mtvec`, the
only ones the hardware itself reads.

`Exu`. `Multi` and `Diver` are bit-exact: `Prod`, `Sum` and `DivRes` have `2 * W`
bits and wrap, the Booth digits come from the table of `PartProductGen`, and each
machine moves only while its operation is valid in EX, as in the code, while
`Prod`, `ind`, `DivRes` and `divcount` move in every cycle of `Busy`. The wires that
`EXU.v` ties to constants (`Flush`, `MulSigned`, `Divw`) are left out with the
branches they select. Any operation or bubble may follow any other; in the core
there is always a bubble in between. `LS` is ready whenever EX holds an
instruction; that is what `StagesApart` proves of `Pipeline`, and why the state
`swaitlsu` is never entered. If LS could stall then, a unit would start again and
be left in the middle of its work.

**The harness.** `NpcDiff` is the build with `CONFIG_DIFFTEST`, which is off by
default. The core is a stream of instructions and bubbles in write-back, in any
pattern, and may compute a wrong register or a wrong next address. `wb` and
`nextPc` are what the core shows before the clock edge, `cpu_gpr` what it shows
after it, `npc_r` the copy for skipped instructions. Two history variables: `wrong`,
the core has erred; `uncopied`, attach was given or `mie` was written, of which
the copies do not keep track.

**NEMU.** `Nemu` is the build with `CONFIG_WATHCPOINT` (as `Kconfig` spells it) and
`CONFIG_DIFFTEST`. What one instruction computes is abstract: a register, a load,
a store, a device access, the end of the program; an erring interpreter gets the
register of a computation or a load wrong. A turn of `execute` is `ExecOnce`
(`exec_once`, watchpoints, difftest, in the order of `trace_and_difftest`) and
`device_update`; the commands are actions at the prompt. attach copies only the
image, as the code does; cells behind it are `HeapCells`. What a device holds is
chosen only where an expression reads it (`Readings`), as no other result depends on
it. History variables: `ended`, the program stopped itself with no watchpoint
reporting at the same instruction; `missed`, the cells whose last store the reference
has not executed, because the test was off or the store was skipped after a device had
been read for the debugger; `wrong` and `misled`, the test aborted the program at an
instruction that was executed wrongly, or at the load of a missed cell. `WatchPool` keeps the pointers
`next`, `head`, `free_` node by node; a failed assertion and a null pointer
followed are `halt`. `Expr` is `expr` and `eval` on tokens: marking of unary
operators, parentheses, precedence, dominant operator, C's division; its
reference is a grammar. `PrintsValue` (in `Sdb`: the program that runs does not
depend on expressions) quantifies over all expressions a user can type up to
`MaxTokens`. Values are integers without a width: that a result leaves the range of
an int is not modelled, nor is the array of 256 tokens. The operators & and | and the
regular expressions of the tokenizer are left out.

`Input`. The host's queue, the loop of `device_update`, the ring buffer with its
two indices, the guest's register read, and the lookup of names in miniSDL, which
compares with the length of a name. Names are sequences of letters, because one
can be a prefix of another. `dropped` is history: keys whose last event went to
`sdl_clear_event_queue`.

**Nanos-lite and the libraries.** `Fs`. A descriptor is an index of the file table;
`open_offset` is the field of that name for `/dev/fb` and the files; offsets are
`size_t`, that is modulo `M`. A panic or failed assertion is `halt`. What the
event and display devices return is text of any length up to the buffer. Each
call is one action: Nanos-lite runs with interrupts off. `Files` says what is
promised: each file is an array of its own with a position, which only its own calls
move, and each to where the code puts it.

`Video` extends `Fs` with NDL and miniSDL; their calls are its only steps. `NDL_DrawRect` is a sequence of steps,
an lseek and a write for every row. Calls of `SDL_UpdateRect` are those that work:
whole 32-bit surfaces or parts of 8-bit ones, because the 32-bit path hands NDL the
pixels from index 0 whatever the rectangle, and rectangles that lie on the surface, so
NDL's own clipping of a row has nothing to clip. Fills and copies are made
on surfaces of both kinds and with rectangles that go over the edge. `SDL_FillRect`
stores words of 32 bits whatever the surface: one with a palette gets the colour in the
first byte of each and zeros in the other three. `overrun` says that a store went behind
the pixels; the heap there is not modelled, and the model goes no further.

`Trap`. `at` is where the processor is between ecall and mret. The registers are
a0, a7 and `s`, which stands for all others; `trap.S` pushes a context, sets MPRV
and adds 4 to the saved `mepc` on the way out. The kernel traps itself in
`sys_yield`, so contexts nest. exit and execve call `naive_uload` like a function:
the context is never popped, and `MaxFrames` bounds how many are left. `calls` is a
history variable: the ecalls not yet returned. `Loader` is extended by `Trap`:
`exit` and `execve` start its phases. Memory is counted in words of eight bytes,
the unit of malloc; programs are linked to addresses inside the kernel's heap, as
in the repository, and free does nothing.

`CacheSim`. Lines in one array, as in the code; the victim of the random
replacement is arbitrary; memory is word by word with bytes apart. Statistics and
trace files are left out. The random test is `trace_exec`, the final comparison
`check_diff`.

### Assumptions

* Registers without a reset start as zeros, which is what the simulator build
  does; DPI reads are combinational and each DPI write happens once.
* `always @(signal)` blocks without an edge are combinational, as Verilator
  treats them.
* Loads and stores of the NPC stay inside a cache line (naturally aligned ones do).
* `FetchReturnsImage` is about lines that no store goes to; the core has no
  `fence.i`, so a program that stores into code it has run keeps running the old one.
* `ResultRight` is about divisors other than zero: nothing in the repository says
  what a signed quotient by zero should be.
* Files are packed on the ramdisk without overlap, as the Makefile of navy-apps
  packs them; buffers are shorter than the range of `size_t` less a file.
* Segments of a program lie in the heap of the machine and do not overlap each other,
  and each is at least as long as its part of the file.
* The tables of AM and miniSDL name the same keys, each key once.

## 3. Runs

| Run | Instance | Shows |
|---|---|---|
| `npc_mem` | 1 group, 2 ways, 2 data lines and 1 code line, 2-byte beats, accesses of 1 and 2 bytes at an odd offset | `TypeOK` (the eight-bit counters wrap), `UniqueWays`; `IsFlatMemory`: the data path implements `FlatMemory` |
| `npc_mem_contention` | 1 way, 2 data lines, 2 code lines | `FetchReturnsImage`, `FetchInOrder`, `BusInStep`, `RequestStable`, and with fairness `AccessCompletes`, `FetchCompletes` |
| `pipeline` | x0 and two registers, one bit each, every choice of rs1, rs2, rd, a store, CSR reads and writes, traps and returns, ebreak | `OperandsArchitectural`, `InOrder`, `BusyExact`, `HaltSeesResults`, `TrapTargetArchitectural`, and with fairness `OperandsArrive` |
| `pipeline_overwrite` | as `pipeline` without traps, adjacent overwrites allowed | violation of `OperandsArchitectural` |
| `exu` | width 8, five operand words | `ResultRight`, `UnitsInStep`, and with fairness `OperationEnds` |
| `npc_diff` | 3 addresses, one bit, up to 2 cycles per si, all commands, a core that may err | `RegistersAgree`, `InStep`, `NoFalseAlarm` |
| `nemu` | a pool of 3 watchpoints on memory, on a device and on nonsense; one cell; all commands; expressions of up to 6 tokens | `PoolSplit`, `ReferenceAgrees`, `NoFalseAlarm`, `PrintsValue`, `IsWatchList`, `EndIsFinal` |
| `input` | keys F and F1 and a scancode without a key, a ring of 3 slots | `KeysSettle`, `IsFifo`, and with fairness `WaitEventReturns` |
| `fs` | files of 2 and 1 bytes side by side, a screen of one pixel, offsets modulo 8, seeks by 0, 1 and -1 | `RamdiskInBounds`, `IsFiles` |
| `video` | a screen of 3 by 2, canvases of the whole screen, of part of it and too large | `SurfaceShown`, `OnlyCanvasAsserts`, `DrawsInRectangle` |
| `trap` | two programs of one and two segments over each other, two contexts left behind | `ContextRestored`, `ProgramLoaded`, and with fairness `CallsEnd` |
| `cache_sim` | 1 group, 2 ways, 3 tags, words of 2 bytes | `SameAnswers`, `Overlay` |

Refinements. `NpcMem` implements `FlatMemory`: the array is `Contents`, for each
line the DCache way that holds it, or pmem if none does; a way that is being
refilled does not count, for its tag changes before its data is complete. The
access is EX_LS and the answer what LS_WB takes. So evictions and refills are
stuttering steps, a store takes effect in the cycle it hits, and a load returns
the bytes of that cycle. `Fs` implements `Files`: the content of a file is its piece
of the ramdisk. `WatchPool` (inside `Nemu`) implements `WatchList`: the list is
what is reached from `head`. The ring in `Input` implements `KeyFifo` with one
place less than it has slots.

Why the bounds are enough. *NPC memory*: groups never interact, each access reads
and writes slots of one group only. Two ways and two data lines beside one of code
give hits in either way, clean and dirty victims, and evictions of the line just
refilled; one way and two lines per side make every access a miss, so that the two
caches meet on the bus in all combinations of their states. Two byte values tell
old data from new; a beat of two bytes with an odd offset needs both the shift and
the mask. *Pipeline*: no instruction sees more than the three before it, and a
value needs one bit to be right or wrong. *Execute*: at width 8 the multiplier has
first, inner and last digits and `mulw` has two; the words are the ends of the
unsigned and signed ranges, alternating bits and 3. *npc_diff*: three addresses
separate the retired instruction, its successor and a wrong one. *nemu*: with three
nodes a middle one can be deleted and both lists can be in any order; one bit per
value; six tokens reach a product inside a sum, unary signs before either, and
parentheses around both. There are no cells behind the image in this instance;
with one (`HeapCells`) and two nodes the properties hold too. *input*: three slots
wrap and fill. *fs*: a neighbour on either side of a file boundary, and offsets
that wrap. *video*: one rectangle is cut at the bottom on the whole screen and two on
the right on one column; a fill of one pixel stays in the pixels of an 8-bit surface and
larger ones do not; the sprite is higher than the screen. *trap*: a
program that traps on top of the contexts of two others. *cache_sim*: one tag
more than ways, so that every access can evict; groups and block sizes are left
to the proofs, which hold for all of them.

Fairness. `NpcMem!FairSpec` is WF of `Next`: the clock runs; nothing else is
assumed, not even that ID is ever ready, because `FetchCompletes` and
`AccessCompletes` start from a request that is already accepted. For `Pipeline`
it is WF of the edge at which neither EX nor LS is busy: `OperationEnds` says that
the units end (after 34 cycles for a product and 66 for a quotient, at width 64),
and `AccessCompletes` that the cache answers. `Exu!FairSpec` is WF of `Next`. In
`Input` the loop of `device_update` goes on (WF) and ends (SF: a user presses keys
more slowly than a loop empties the queue), and NEMU's loop comes to the device
poll and to the guest's polling again and again while it runs (SF, because the
prompt disables them in between). In `Trap` the processor goes on executing the
kernel: WF of `Next` while no program runs.

The other specifications are safety only, and state no fairness. Deadlock is
checked except where the system may really stop: a panic, a failed assertion, the
q command, the closed window.

### Finding

`pipeline_overwrite`. The scoreboard keeps one bit per register. Two adjacent
instructions that write the same register without the second reading it (a dead
write, such as `li a0,1; li a0,2`) share the bit: the write-back of the first
clears it while the second is in EX, and an instruction that reads the register
then gets the first value. Compilers seldom emit such pairs, which is why running
programs does not show it.

### Deviations met while modelling

The models follow the code in these places, and the properties are stated so that
they hold beside them. Each disappears from a property by one condition, named here.

1. NPC, `IDU.v:578`: ID reads `mtvec` and `mepc` for `ecall` and `mret` without
   looking at instructions in flight, although the comment at line 206 says that
   CSRs are read in WB; `csrw mepc, t0; mret` returns to the old `mepc`. (`Careful` in
   `MCPipeline`; without `TrapsAfter`, `TrapTargetArchitectural` fails.)
2. NPC, `CACHE.v:215`: an access across the end of a line is shifted out of it,
   although line 213 says that unaligned accesses are solved by shifting.
   (`InLineAccesses` in `MCNpcMem`; with `AllAccesses`, `IsFlatMemory` fails.)
3. NPC harness, `difftest.h:32`: attach copies the pc of the retired instruction,
   while `npc-exec.h:256` says that the next pc is to be copied; and `npc-exec.h:262`
   copies neither `mie` nor `mip`, which are compared. (`uncopied` in `NoFalseAlarm`.)
   detach clears `open_difftest`, which nothing reads: the comparison goes on.
4. NEMU, `cpu-exec.c:52`: a watchpoint that differs makes NEMU_STOP out of the
   NEMU_END or NEMU_ABORT of the same instruction, and c runs on behind the end, against
   the message at line 149. The stored value is never updated (`watchpoint.c:151`).
   (`EndIsFinal` therefore speaks of the states END and ABORT, and of ends at which no
   watchpoint reports, `ended`.)
5. NEMU, `map.h:41`: reading a device with p, x or a watchpoint makes the reference
   skip the next instruction of the program, a store among them, against the comment at
   `dut.c:36`; and attach does not copy what the program stored behind the image. A load
   of such a cell is then a false alarm, the only one: `missed` and `misled` in
   `ReferenceAgrees` and `NoFalseAlarm`. A device read that makes the reference skip
   anything but a store does no harm.
6. NEMU, `watchpoint.c:109`: d with a number that is not in use follows the list
   over its end; the answer at `sdb.c:226` is never given. (`halt = "segv"`.)
7. NEMU, `expr.c:334`: `*` after a unary `*` is taken for a product; `expr.c:653`: eval
   has no case for `<=` and `>=`; comparisons and shifts bind tighter than sums. A `-`
   that is the first token stays binary, with 0 before it. (`BinaryOps` and `UnaryOps` of
   the instance.)
8. Nanos-lite, `fs.c:207`: a write sets the offset to the number of bytes written,
   while the comment at line 58 says that it advances by that number; and all who have
   a file open share its offset, which the next open sets to 0. (`Files` follows the code:
   `Write` sets the position to the length written, `Move` to 0 or to the target of a
   seek.)
9. klib, `stdlib.c:58`: free is empty and the loader allocates headers and segments
   anew, so programs started one after the other use up the heap, which also
   contains the area they are loaded to. (`HeapBelow` in `ProgramLoaded`, the abort in
   `CallsEnd`.)
10. miniSDL, `video.c:209`: a partial update of a 32-bit surface draws from the first
    pixel of the surface. (The calls of `Video`, `UpdateCall`.)
11. miniSDL, `video.c:172`: `SDL_FillRect` stores words of 32 bits on 8-bit surfaces too,
    at four times the index of the pixel, while the comment at line 135 says that it fills
    the given rectangle. PAL sets up an 8-bit screen (`video.c:72` of its device directory)
    and fills it (lines 249, 431 and 674, and other files): the fill leaves the rectangle,
    and one that reaches beyond the first quarter of the surface goes on behind its pixels.
    (`~surface.pal` at the fill in `DrawsInRectangle`; without it the property fails.
    `SurfaceShown` and `OnlyCanvasAsserts` hold after such fills as well, as long as
    `overrun` is false.)

## 4. Proofs

`NpcMemProofs` proves for every number of ways, groups, tags and bytes, every
image and every program: `TypeCorrect`, `NoDuplicateLines` (`UniqueWays`),
`BurstsInStep` (`BusInStep`), `InstructionsInOrder` (`FetchInOrder`),
`StableRequests` (`RequestStable`), `FetchesCorrect` (`FetchReturnsImage`) and
`MemoryIsFlat` (`IsFlatMemory`). None of these is inductive alone: that a
refill does not duplicate a tag depends on the address not changing since the
lookup missed, which depends on ID being empty while a fetch is under way and on
EX_LS being held while the LSU is busy; that the last beat comes after the first
depends on the counters at both ends. `InFlight` collects what is true in the
middle of a transfer. `DataInPlace` says where the contents of a line are: a clean
way holds what memory holds (in the ICache, what the image holds), and so does the
half of a way that a refill has loaded; only lines that stores go to are dirty; and
the addresses the SRAM has latched are those of the victim and of the miss.
`IInv = TypeOK /\ UniqueWays /\ BusInStep /\ InFlight /\ DataInPlace` is inductive.

`Cache` proves once, for arbitrary inputs, what a clock edge preserves, and
`NpcMemProofs` the same of the memory; it instantiates these lemmas for the two
caches and shows that the inputs meet their hypotheses. The two theorems about
contents have a hypothesis on the program each: `PcsInLine`, that an instruction
does not cross the end of a line (they are aligned), and `AccessesInLine`, that a load
or store does not (deviation 2 is what happens otherwise). The refinement is proved
edge by edge: `ContentsKept` says that no edge changes the contents of a line except
a store that hits, `StorePuts` and `LoadGets` what such a store and load do to the
bytes.

`AccessesInTime` and `FetchesInTime` say how long the caches take, for every geometry.
`AccessEdges` counts from the state of DCache and the SRAM how many clock edges an
access can still take, at most ten; `FetchEdges` how many a fetch that missed can, at
most six. The theorems say that every edge lowers the measure and that the request stays
the same until it is zero. The LSU wins every channel, so this is where one cache could
starve the other: an access waits for at most one burst of ICache, because ICache's last
beat puts the SRAM back to idle and DCache is asked first; a fetch waits for at most one
of DCache, because the access hits at the lookup that follows its refill, and by then the
channel is ICache's. `ReadCounts` and `Grants` are the steps of the read channel both
arguments share.

`PipelineProofs` proves for every set of registers, width and program:
`TypeCorrect`, `WriteBackInOrder` (`InOrder`), `StagesApart` (`Spaced`) and
`HaltComplete` (`HaltSeesResults`). The invariant adds `Neighbours`, which says
which instruction of the program is next to which in the pipeline. Under
`NoAdjacentOverwrite` it also proves `ScoreboardExact` (`BusyExact`) and, from it,
`OperandsCorrect` (`OperandsArchitectural`); under `NoAdjacentTrap`,
`TrapTargetsCorrect` (`TrapTargetArchitectural`). So the pairs of the finding and of
deviation 1 are the only ones that go wrong. The argument rests on `Spaced`: a
fetch takes two cycles and stalls never close a gap, so of the three stages
behind ID at most two hold instructions, and ID's distance to the nearest is at
least two; a faster fetch would break all three, which is what the variant
`FetchStepSameCycle` does. `OperandsInTime` says what an instruction in ID waits for:
`Spaced` leaves LS as the only place of the writer, nothing else in the pipeline moves,
and on the edge on which LS passes it on, the bypass has the operand.

`ExuProofs` proves for every width and every sequence of operations `StaysInStep`
(`UnitsInStep`) and `ResultsRight` (`ResultRight`). Three machines that stand still at
different times can only agree because each of them sees the operation of ID_EX
until EX delivers; the invariant says which unit is in which state while EX waits,
and that a unit at rest has no partial product left. The loops of the units run over
clock edges, so what they compute needs no induction over data: it is part of the
invariant. `Multiplied` says that the partial product is that of the Booth digits done
so far, modulo `2^(2 * W - ind)`. The modulus shrinks with each digit, because the
shift brings in zeros where the sum is negative; after the last digit it is still
`2^W`, which is why the lower half is right. The upper half need not be, and nothing
reads it. `Divided` says how remainder, bits to come and quotient share `DivRes`; for a
divisor of zero there is no such split, and `ResultRight` says nothing. The provers do
not know what `2^n` is; the lemmas on powers get it from the library's theorem on the
number of subsets of a finite set. `AnswersInTime` counts how long EX takes
(`EdgesLeft`, from the multiplier's index and the divider's counter): exactly `W/2 + 1`
edges for a multiplication, `W/4 + 1` for mulw and `W + 1` for a division, each of which
lowers the count by one.

`NanosProofs` is about `Fs` with `Video` on it, `Trap` with `Loader`, and `Input`.

*Files.* For every set of files, sizes, places on the ramdisk and range of `size_t`:
`TypeCorrect`, `RamdiskSafe` (`RamdiskInBounds`) and `FilesImplemented` (`IsFiles`). `Inv = TypeOK /\ RamdiskInBounds`; the point is that an offset may be
anything after a seek that wraps, and that a transfer happens only from an offset
inside the file and is cut at its end, so that with the packing of the files it
neither leaves the ramdisk nor reaches a neighbour. The refinement is proved call
by call: a write changes the content of its own file as `Files` says, and of every
other file not at all, by `Apart`; an offset moves by the calls on its own entry only,
to the place that `Files` names (`MoveStep`).

*Traps and loading.* For every set of programs, system calls, memory size and bound on
the contexts left behind: `ContextsRestored` (`ContextRestored`) and `ProgramsLoaded`
(`ProgramLoaded`). `ContextRestored` speaks of the moment of mret only and is not
inductive. `Frames` says that the stack of contexts and the history `calls` go in step,
frame by frame: one longer between ecall and Push and between Pop and mret, where the
context is in the CSRs, and equal otherwise. `Nested` says why the kernel's own ecall is
the only one on top of a handler, and bounds the depth. `LoadedSoFar` says that the
segments before the current header are in place; the next segment keeps them
because areas are disjoint, and malloc because the heap is below the area.
`TrapIInv = TrapTypeOK /\ Frames /\ Nested /\ ContextRestored /\ LoadedSoFar`. The
loader's memcpy is a loop upwards, word by word, in which a source that overlaps the
destination is read after it has been written. `MemcpyIs` gives its result in closed
form for every overlap, again by the least step that differs. `CallsGetDone` says
that the kernel always gets on: `Stage` counts the stages a system call has still to go
through, at most nine, since the kernel's own ecall makes the way of SYS_yield twice as
long but cannot do so twice (`YieldOnce`, from `Nested`); `Rounds` counts those of the
loader. Every step lowers one of them.

*Keyboard.* For every table of names, number of slots and length of the host's queue:
`KeysAlwaysSettle` (`KeysSettle`) and `KeyboardIsFifo` (`IsFifo`). An event passes the
host's queue, the ring and the guest's register before it reaches `keystates`.
`Settling` follows the newest event of a key along this way: its last event in the
host's queue tells whether the key is held; if there is none, the last one in the
ring does; then the one just read; then the state in miniSDL.
`InputIInv = InputTypeOK /\ Settling`. The ring lemmas replace the two indices modulo
`KEY_QUEUE_LEN` by cases on whether the used part wraps, and show that an enqueue
appends to `Pending` and a dequeue takes its head; `NamesFound`, that the lookup with the
length of each name finds the one entry that is meant, which needs that no name occurs
twice.

*Drawing.* For every size of screen and surface, every rectangle and sequence of calls:
`SurfaceAlwaysShown` (`SurfaceShown`), `OnlyCanvasStops` (`OnlyCanvasAsserts`) and
`DrawsInside` (`DrawsInRectangle`). `SurfaceShown` speaks of a finished drawing;
`RowsShown` says the same of the rows written so far, and that the picture handed to NDL
has the colours of the surface. `CanvasFits` and `DrawingFits` say that the canvas lies on
the screen and the rectangle on the canvas, so that neither NDL, `fs_write` nor `fbdraw`
cuts a row, and that between lseek and write the offset of `/dev/fb` is that of the row.
`DrawsInside` is about copies on every surface and about fills of surfaces without a
palette, and says that they store nothing behind the pixels either; of the other fills it
says nothing, because there it is false (deviation 11).
`VideoIInv = VideoTypeOK /\ CanvasFits /\ DrawingFits /\ RowsShown /\ OnlyCanvasAsserts`.
`RowDrawn` is the arithmetic underneath: `fb_write` takes column and row from the
offset and `fbdraw` makes the offset again; a row that ends at the right edge stays in
its line. What the theorems assume of programs is in `UpdateCall` (deviation 10) and the
guards of the calls.

`NpcDiffProofs` proves for every program, core and sequence of commands:
`TypeCorrect`, `WrongRegisterReported` (`RegistersAgree`), `HarnessInStep` (`InStep`)
and `AlarmsTrue` (`NoFalseAlarm`). The first two are inductive with what holds of
the loop (`Inv`); for the other two `Sync` says, until attach or a write of `mie`,
where each of the sampled values stands relative to the instruction in write-back.

`NemuProofs` proves for every size of the pool, memory and sequence of instructions
and commands: `PoolNeverLeaks` (`PoolSplit`), `PoolIsWatchList` (`IsWatchList`),
`DiffTestAgrees` (`ReferenceAgrees`), `AlarmsAreTrue` (`NoFalseAlarm`) and
`EndStaysFinal` (`EndIsFinal`). `IInv = TypeOK /\ PoolShape /\ Turn /\ Agree /\
NoFalseAlarm`. `PoolShape` replaces following the pointers by two sequences along
which they lead; `ListOfLinked` shows that `List`, which follows them, finds
these sequences. `List` is computed by a recursive function, and instead of an induction
the proof takes the least step at which it leaves the sequence (`LeastNumber`, from the
well-foundedness of the numbers). Given that, w and d are index arithmetic on the
sequences (`AppendShape`, `FreeShape`), and the refinement of `WatchList` reads off
the same sequences. For the differential test `Agree` is stronger than
`ReferenceAgrees` where the test is off: attach copies only the image, so cells
behind it that were not stored to have to have stayed equal; `Turn` says that an ended
program is in a state that `cpu_exec` refuses.

`PrintsRightValue` (`PrintsValue`), in the same module, is about arithmetic expressions
of any length: numbers, parentheses, the binary + - * / and the sign. Those are the
operators of the run, and two hypotheses of the theorem (`BinaryOps`, `UnaryOps`); the
grammar does not give comparisons and shifts a value, and with a unary `*` the statement
is false (deviation 7). `eval` works on positions and the grammar on phrases, and the
proof brings them together in four steps:

1. `EvalIs` and `MeaningIs`: the recursive functions of the two sides exist, that is,
   they satisfy their own definitions; each value depends on shorter ranges or lower
   phrases only.
2. `TextsFit` and `MarkFacts`: in what a user types operands and operators alternate,
   and the loop of `expr` marks the signs where an operand starts, the first token
   apart.
3. `AllShaped`: a phrase is balanced, has one value, and its last + or - (or, without
   these, * or /) outside of parentheses is the only place to split it at, by an
   induction over its length.
4. `AllComputed`: `eval` takes only bracketed phrases for bracketed ones
   (`ParenthesesRight`), and its dominant operator is that place (`DominantSum`,
   `DominantProduct`, `DominantSign`). A sign at the very beginning passes for binary
   and is applied after * and /; the value is the same because -(a*b) = (-a)*b and
   division rounds towards zero (`SignedProduct`, `DominantFirst`).

The inductions are over numbers and taken as for `List`, by a least counterexample.

`CacheSimProofs` proves for every geometry, number of ways and choice of victims:
`AssertionsHold` (`SameAnswers`), `OverlayExact` (`Overlay`), `OneCopyOnly` (`OneCopy`)
and `TypeCorrect`. `IInv` is coherence (types, one copy, overlay) and the answers;
the arithmetic of tags, groups and blocks is in lemmas about quotient and
remainder. An eviction is right because the victim's block is put together from its
tag and the group it shares with the access that replaces it.

The assumptions on the constants are the ASSUMEs of `CacheGeometry`, `NpcMem`,
`Pipeline`, `Exu`, `Fs`, `Gpu`, `Video`, `Loader`, `Trap`, `Input`, `NpcDiff`, `WatchPool`, `Nemu`,
`Expr` and `CacheSim`; TLC evaluates them in the runs. `TypeOK` of `Exu` and `Nemu`, `TrapTypeOK`,
`InputTypeOK` and `VideoTypeOK` state the types of their variables and are not among the properties of a
run.

Only model-checked: the liveness properties `AccessCompletes`, `FetchCompletes`,
`OperandsArrive`, `OperationEnds`, `WaitEventReturns` and `CallsEnd`, which are outside
what TLAPS proves here. For all but `WaitEventReturns` the part that is about the code is
a theorem: `AccessesInTime`, `FetchesInTime`, `AnswersInTime` and `CallsGetDone` say that
each step brings the end nearer, and `OperandsInTime` which step is waited for. What TLC adds
is that the step comes, that is, `ENABLED` and fairness. `WaitEventReturns` has no such
measure: the guest may poll in vain any number of times while NEMU does not look at the
window, so the property rests on strong fairness, and the part of it that is about the
code, that no event is lost on the way, is `KeyboardIsFifo`. Every other property of a
passing run is also the statement of a theorem.

## 5. Plan

Every theorem planned is proved. What could come next is more of the code: the device
path of the LSU, should it get a handshake, and the scheduler and paging of
Nanos-lite, should they be filled in.

## 6. Not modelled

The map covers the control logic named above. Most lines of the repository are
programs and libraries from elsewhere (newlib, stb, SDL ports, PAL, Spike),
generated tables, or exercises; modelling them would say nothing about this system.

* Decoder, ALU and NEMU's interpreter: functions of one instruction, with
  nothing to interleave; the differential tests cover them opcode by opcode.
* The set-associative cache in NEMU's `paddr.c` under `CONFIG_CACHE`, which is off.
* The device path of the LSU and `raddr.h`: DPI calls without a protocol, whose
  number of evaluations depends on Verilator.
* Serial port, timers, audio stubs, traces, the tokenizer, info and help.
* printf and the string functions of klib other than memcpy and memset: pure
  functions without state.
* Scheduling, kernel threads and paging in Nanos-lite: empty frames at this commit.
* The Chisel version, which is not built any more.

`PROJECT.json` names each part and the reason.

------------------------------- MODULE Sram --------------------------------
(***************************************************************************)
(* The memory behind the caches: npc/vsrc/ysyx_22050550_SRAM.v, an AXI     *)
(* slave with independent read and write machines whose storage is         *)
(* pmem_read/pmem_write of npc/csrc/raddr.h.  The core ties io_ar_len and  *)
(* io_aw_len to 1, io_ar_size and io_aw_size to 4 and io_w_strb to 8'hff,  *)
(* so every burst is two full beats.                                       *)
(*                                                                         *)
(* The input wires are parameters; a step is one rising clock edge.        *)
(***************************************************************************)
EXTENDS CacheGeometry

VARIABLES
    ReadState, RReglen, raddrReg,    \* read machine
    WriteState, WReglen, waddrReg,   \* write machine
    mem                              \* pmem, line by line

sramVars == <<ReadState, RReglen, raddrReg, WriteState, WReglen, waddrReg, mem>>

Address == [line : Lines, beat : 0 .. 1]
Len8 == 0 .. 255

TypeOK ==
    /\ ReadState \in {"readwait", "read"}
    /\ RReglen \in Len8
    /\ raddrReg \in Address
    /\ WriteState \in {"writewait", "write"}
    /\ WReglen \in Len8
    /\ waddrReg \in Address
    /\ mem \in [Lines -> LineData]

Init(image, line0) ==
    /\ ReadState = "readwait" /\ RReglen = 0 /\ raddrReg = [line |-> line0, beat |-> 0]
    /\ WriteState = "writewait" /\ WReglen = 0 /\ waddrReg = [line |-> line0, beat |-> 0]
    /\ mem = image

----------------------------------------------------------------------------
ar_ready == ReadState = "readwait"
r_valid == ReadState = "read"
r_last == ReadState = "read" /\ RReglen = 0
aw_ready == WriteState = "writewait"
w_ready == WriteState = "write"

\* Variant for mutation testing: a counter that does not wrap.
Minus1NoWrap(n) == n - 1

\* The eight-bit down counters wrap below zero.
Minus1(n) == (n + 255) % 256

\* Byte k of the beat that an address register and its counter select: the
\* register itself while the counter is 1, 8 bytes further otherwise.  A
\* register that held beat 1 would carry into the next line; the composition
\* shows that none ever does.
BeatOf(addr, len) == IF len = 1 THEN addr.beat ELSE addr.beat + 1
r_data == [k \in InBeat |-> mem[raddrReg.line][k + BeatOf(raddrReg, RReglen) * BeatBytes]]

AcceptRead(arv, addr) ==
    /\ ReadState = "readwait" /\ arv
    /\ ReadState' = "read"
    /\ RReglen' = 1
    /\ raddrReg' = addr

ReadWait(arv) ==
    /\ ReadState = "readwait" /\ ~arv
    /\ UNCHANGED <<ReadState, RReglen, raddrReg>>

\* The machine leaves read when the counter is zero, without looking at
\* r_ready; the counter moves only when r_ready is high.
ReadBeat(rr) ==
    /\ ReadState = "read"
    /\ ReadState' = IF RReglen # 0 THEN "read" ELSE "readwait"
    /\ RReglen' = IF rr THEN Minus1(RReglen) ELSE RReglen
    /\ UNCHANGED raddrReg

AcceptWrite(awv, addr) ==
    /\ WriteState = "writewait" /\ awv
    /\ WriteState' = "write"
    /\ WReglen' = 1
    /\ waddrReg' = addr
    /\ UNCHANGED mem

WriteWait(awv) ==
    /\ WriteState = "writewait" /\ ~awv
    /\ UNCHANGED <<WriteState, WReglen, waddrReg, mem>>

\* pmem_write stores a whole beat.
StoreBeat(line, beat, data) ==
    [i \in InLine |-> IF i >= beat * BeatBytes /\ i < (beat + 1) * BeatBytes
                      THEN data[i - beat * BeatBytes] ELSE line[i]]

WriteBeat(wv, data) ==
    /\ WriteState = "write"
    /\ WriteState' = IF WReglen # 0 THEN "write" ELSE "writewait"
    /\ WReglen' = IF wv THEN Minus1(WReglen) ELSE WReglen
    /\ mem' = IF wv
              THEN [mem EXCEPT ![waddrReg.line] =
                        StoreBeat(@, BeatOf(waddrReg, WReglen), data)]
              ELSE mem
    /\ UNCHANGED waddrReg

ReadStep(arv, araddr, rr) == AcceptRead(arv, araddr) \/ ReadWait(arv) \/ ReadBeat(rr)
WriteStep(awv, awaddr, wv, data) ==
    AcceptWrite(awv, awaddr) \/ WriteWait(awv) \/ WriteBeat(wv, data)

=============================================================================

------------------------------- MODULE NpcMem ------------------------------
(***************************************************************************)
(* The memory side of the NPC core, as ysyx_22050550.v wires it: the fetch *)
(* front end (PCREG, IFU and the IF_ID register), the load/store unit, the *)
(* two caches, RamArbiter and the SRAM.  Every register is clocked by the  *)
(* same edge, so one action, Tick, steps all of them.                      *)
(*                                                                         *)
(* What the rest of the pipeline decides is chosen freely in each cycle:   *)
(* Id_ready and realbusy (stalls), the kind of the instruction that enters *)
(* ID (a jump that is taken, with its target, or anything else) and the    *)
(* operation that enters EX_LS (a load or store to pmem, or neither).      *)
(***************************************************************************)
EXTENDS CacheGeometry

CONSTANTS
    InstBytes,  \* bytes of an instruction, 4 in the code
    Image,      \* contents of pmem after load_img, by line
    Pcs,        \* instruction addresses the program runs through
    ResetPc,    \* 64'h80000000
    Pc_4(_),    \* the following instruction address
    NextLine(_), \* the following line address
    None,       \* no jump, no access, no data
    Accesses    \* the loads and stores the program makes

VARIABLES
    istate, ivalid, idirty, itag, iram, iq, iway, ilen,     \* ICache
    dstate, dvalid, ddirty, dtag, dram, dq, dway, dlen,     \* DCache
    ReadState, RReglen, raddrReg, WriteState, WReglen, waddrReg, mem,  \* PSRAM
    RegPc,      \* PCREG.RegPc
    ifid,       \* Rif_id_valid, and whether that instruction jumps
    realbusy,   \* wire: ID waits for an operand in this cycle
    exls,       \* the pmem access in the EX_LS register
    lsu,        \* LSU.Cache, Cachewait or CacheBusy
    lswb,       \* the bytes a load has just put into the LS_WB register
    archpc      \* history: the address of the next instruction the program runs

ivars == <<istate, ivalid, idirty, itag, iram, iq, iway, ilen>>
dvars == <<dstate, dvalid, ddirty, dtag, dram, dq, dway, dlen>>
svars == <<ReadState, RReglen, raddrReg, WriteState, WReglen, waddrReg, mem>>
vars == <<ivars, dvars, svars, RegPc, ifid, realbusy, exls, lsu, lswb, archpc>>

IC == INSTANCE Cache WITH state <- istate, valid <- ivalid, dirty <- idirty,
          Tag <- itag, ram <- iram, Q <- iq, chooseway <- iway, Reglen <- ilen
DC == INSTANCE Cache WITH state <- dstate, valid <- dvalid, dirty <- ddirty,
          Tag <- dtag, ram <- dram, Q <- dq, chooseway <- dway, Reglen <- dlen
SR == INSTANCE Sram

ASSUME InstAssumption == InstBytes \in 1 .. BeatBytes
ASSUME ImageAssumption == Image \in [Lines -> LineData]
ASSUME PcAssumption ==
    /\ Pcs \subseteq [tag : Tags, group : Groups, off : InLine]
    /\ ResetPc \in Pcs
    /\ \A p \in Pcs : Pc_4(p) \in Pcs
ASSUME AccessAssumption == Accesses \subseteq Request
ASSUME NoneAssumption == None \notin Pcs \cup Accesses

TypeOK ==
    /\ IC!TypeOK /\ DC!TypeOK /\ SR!TypeOK
    /\ RegPc \in Pcs
    /\ ifid \in [valid : BOOLEAN, jump : Pcs \cup {None}]
    /\ realbusy \in BOOLEAN
    /\ exls \in Accesses \cup {None}
    /\ lsu \in {"Cachewait", "CacheBusy"}
    /\ lswb \in {None} \cup UNION {[0 .. r.size - 1 -> Val] : r \in Accesses}
    /\ archpc \in Pcs

Init ==
    /\ IC!Init /\ DC!Init
    /\ SR!Init(Image, <<ResetPc.tag, ResetPc.group>>)
    /\ RegPc = ResetPc
    /\ ifid = [valid |-> FALSE, jump |-> None]
    /\ realbusy = FALSE
    /\ exls = None
    /\ lsu = "Cachewait"
    /\ lswb = None
    /\ archpc = ResetPc

----------------------------------------------------------------------------
(* PCREG and IFU *)

\* A taken jump whose operands are there (Id_valid) drives the fetch address
\* before RegPc holds it.
jumping == ifid.valid /\ ~realbusy /\ ifid.jump # None
npc == IF jumping THEN ifid.jump ELSE RegPc

\* ICache is wired with op, wdata and wmask 0.
ireq == [op |-> FALSE, tag |-> npc.tag, group |-> npc.group, off |-> npc.off,
         size |-> InstBytes, wdata |-> [k \in InBeat |-> 0]]

if_valid == IC!dataok(ireq)
ICache_valid(Id_ready) == Id_ready /\ ~if_valid

\* Variants for mutation testing: RegPc moves although ID does not take the
\* instruction; RegPc moves before the cache has answered.
PcStepIgnoresStall(Id_ready) ==
    RegPc' = IF jumping THEN ifid.jump ELSE IF if_valid THEN Pc_4(RegPc) ELSE RegPc
PcStepIgnoresMiss(Id_ready) ==
    RegPc' = IF jumping THEN ifid.jump ELSE IF Id_ready THEN Pc_4(RegPc) ELSE RegPc

\* RegPc is written when the fetched instruction is taken or when ID jumps.
PcStep(Id_ready) ==
    RegPc' = IF jumping THEN ifid.jump
             ELSE IF if_valid /\ Id_ready THEN Pc_4(RegPc) ELSE RegPc

\* IF_ID loads in every cycle ID is ready, an invalid entry included.
IfIdStep(Id_ready) ==
    \/ /\ Id_ready /\ if_valid
       /\ \E j \in Pcs \cup {None} :
             /\ ifid' = [valid |-> TRUE, jump |-> j]
             /\ archpc' = IF j = None THEN Pc_4(archpc) ELSE j
    \/ /\ Id_ready /\ ~if_valid
       /\ ifid' = [valid |-> FALSE, jump |-> None]
       /\ UNCHANGED archpc
    \/ /\ ~Id_ready
       /\ UNCHANGED <<ifid, archpc>>

\* realbusy1 and realbusy2 of ID after the edge: only a valid instruction waits.
IdWaits == realbusy' \in BOOLEAN /\ (realbusy' => ifid'.valid)

----------------------------------------------------------------------------
(* LSU *)

pmemop == exls # None

\* The request wires of an EX_LS register without a pmem access are never
\* looked at while io_Cache_valid is low and the cache is idle.
idlereq == [op |-> FALSE, tag |-> 0, group |-> CHOOSE g \in Groups : TRUE, off |-> 0,
            size |-> 0, wdata |-> [k \in InBeat |-> 0]]
dreq == IF pmemop THEN exls ELSE idlereq

Lsu_dataok == DC!dataok(dreq)
Lsu_Cache_valid == pmemop /\ ~Lsu_dataok
lsubusy == \/ lsu = "Cachewait" /\ Lsu_Cache_valid
           \/ lsu = "CacheBusy" /\ ~Lsu_dataok

\* The bytes of the line that the width of the load selects; sign extension is
\* left to the reader of LS_WB.
maskData == [k \in 0 .. exls.size - 1 |-> DC!DataOut(dreq)[k]]

LsuStep ==
    /\ lsu' = IF ~pmemop THEN lsu
              ELSE IF lsu = "Cachewait"
                   THEN IF Lsu_Cache_valid THEN "CacheBusy" ELSE "Cachewait"
                   ELSE IF Lsu_dataok THEN "Cachewait" ELSE "CacheBusy"
    /\ \/ lsubusy /\ UNCHANGED exls
       \/ ~lsubusy /\ exls' \in Accesses \cup {None}
    /\ lswb' = IF pmemop /\ ~lsubusy /\ ~exls.op THEN maskData ELSE None

----------------------------------------------------------------------------
(* RamArbiter: the LSU wins every channel *)

lsu_ar_valid == DC!ar_valid(dreq)
ifu_ar_valid == IC!ar_valid(ireq)

\* Variants for mutation testing: no priority on the read address channel;
\* the instruction side waits for an empty EX_LS register.
ibusNoPriority ==
    [ar_ready |-> ifu_ar_valid /\ SR!ar_ready, aw_ready |-> FALSE, w_ready |-> FALSE,
     r_valid |-> IC!r_ready /\ SR!r_valid /\ ~DC!r_ready,
     r_last |-> SR!r_last, r_rdata |-> SR!r_data]
ibusStarved ==
    [ar_ready |-> ifu_ar_valid /\ SR!ar_ready /\ ~pmemop, aw_ready |-> FALSE, w_ready |-> FALSE,
     r_valid |-> IC!r_ready /\ SR!r_valid /\ ~DC!r_ready,
     r_last |-> SR!r_last, r_rdata |-> SR!r_data]

ibus == [ar_ready |-> ifu_ar_valid /\ SR!ar_ready /\ ~lsu_ar_valid,
         aw_ready |-> FALSE, w_ready |-> FALSE,
         r_valid |-> IC!r_ready /\ SR!r_valid /\ ~DC!r_ready,
         r_last |-> SR!r_last, r_rdata |-> SR!r_data]

dbus == [ar_ready |-> lsu_ar_valid /\ SR!ar_ready,
         aw_ready |-> DC!aw_valid(dreq) /\ SR!aw_ready,
         w_ready |-> DC!w_valid /\ SR!w_ready,
         r_valid |-> DC!r_ready /\ SR!r_valid,
         r_last |-> SR!r_last, r_rdata |-> SR!r_data]

sram_ar_addr == IF dbus.ar_ready THEN DC!ar_addr(dreq) ELSE IC!ar_addr(ireq)

SramStep ==
    /\ SR!ReadStep(ifu_ar_valid \/ lsu_ar_valid, sram_ar_addr, IC!r_ready \/ DC!r_ready)
    /\ SR!WriteStep(DC!aw_valid(dreq), DC!aw_addr(dreq), DC!w_valid, DC!w_data)

\* ID is not ready while it waits for an operand.
Tick(Id_ready) ==
    /\ Id_ready => ~realbusy
    /\ IC!Step(ICache_valid(Id_ready), ireq, ibus)
    /\ DC!Step(Lsu_Cache_valid, dreq, dbus)
    /\ SramStep
    /\ PcStep(Id_ready)
    /\ IfIdStep(Id_ready) /\ IdWaits
    /\ LsuStep

Next == \E Id_ready \in BOOLEAN : Tick(Id_ready)

Spec == Init /\ [][Next]_vars
FairSpec == Spec /\ WF_vars(Next)

----------------------------------------------------------------------------
(* Properties *)

StoreLines == {<<r.tag, r.group>> : r \in {a \in Accesses : a.op}}

\* The contents of line l as the load/store unit sees it: the DCache way that
\* holds it, unless that way is being refilled, else pmem.
Held(l) == {w \in Ways : /\ dvalid[<<l[2], w>>] /\ dtag[<<l[2], w>>] = l[1]
                            /\ ~(dstate = "refill" /\ w = dway /\ l[2] = dreq.group)}
Contents == [l \in Lines |-> IF Held(l) = {} THEN mem[l]
                             ELSE dram[<<l[2], CHOOSE w \in Held(l) : TRUE>>]]

\* DCache, arbiter and SRAM together are a flat byte memory to the LSU: every
\* access that EX_LS holds is performed once, in order, a load puts the bytes
\* last stored into LS_WB, and evictions and refills change nothing.
Flat == INSTANCE FlatMemory WITH store <- Contents, pending <- exls, answer <- lswb
IsFlatMemory == Flat!Spec

\* An instruction that ICache hands over is the one the image holds at its
\* address, for code that no store overwrites (the core has no fence.i),
\* whatever the DCache does on the shared bus meanwhile.
FetchReturnsImage ==
    if_valid /\ <<npc.tag, npc.group>> \notin StoreLines =>
        \A k \in 0 .. InstBytes - 1 :
            IC!DataOut(ireq)[k] = Image[<<npc.tag, npc.group>>][npc.off + k]

\* Stalls, jumps and misses neither lose nor repeat nor reorder an
\* instruction: what ICache hands over is always the next one of the program.
FetchInOrder == if_valid => npc = archpc

\* While a cache works on a request the address on its wires stays the same:
\* no jump reaches ID and EX_LS does not advance in mid-flight.
RequestStable ==
    [][/\ istate # "idle" /\ istate' # "idle" => npc' = npc
       /\ dstate # "idle" /\ dstate' # "idle" => exls' = exls]_vars

\* No line is in two ways of a cache at once, although the victim's tag is
\* overwritten a beat before its valid bit.
UniqueWays ==
    \A g \in Groups : \A v, w \in Ways :
        /\ ivalid[<<g, v>>] /\ ivalid[<<g, w>>] /\ itag[<<g, v>>] = itag[<<g, w>>] => v = w
        /\ dvalid[<<g, v>>] /\ dvalid[<<g, w>>] /\ dtag[<<g, v>>] = dtag[<<g, w>>] => v = w

\* Both ends of a burst agree on it: the SRAM reads for exactly one cache that
\* is in refill, writes exactly while DCache is in replace, and the two beat
\* counters of a write burst stay equal.
BusInStep ==
    /\ (ReadState = "read") <=> (istate = "refill" \/ dstate = "refill")
    /\ ~(istate = "refill" /\ dstate = "refill")
    /\ (WriteState = "write") <=> (dstate = "replace")
    /\ dstate = "replace" => WReglen = dlen

\* The program's next instruction is the one RegPc or the jump in ID names.
PcDue == archpc = IF ifid.valid /\ ifid.jump # None THEN ifid.jump ELSE RegPc

\* What holds in the middle of a transfer, and makes the properties above
\* inductive.  A cache outside idle serves an instruction that ID has not seen
\* yet or the access that EX_LS holds; the instruction side never writes back;
\* no burst starts in the middle of a line or outlives its two beats.
InFlight ==
    /\ raddrReg.beat = 0 /\ waddrReg.beat = 0
    /\ ReadState = "read" => RReglen \in {0, 1}
    /\ IC!Filling(ireq, SR!r_last)
    /\ DC!Filling(dreq, SR!r_last)
    /\ istate # "replace" /\ \A s \in Slots : ~idirty[s]
    /\ istate # "idle" => ~ifid.valid
    /\ dstate # "idle" <=> lsu = "CacheBusy"
    /\ dstate # "idle" => pmemop
    /\ dstate # "replace" => dlen = 0
    /\ PcDue

\* What holds of the bytes.  Every cache is backed by the memory it reads, the
\* instruction side as far as no store reaches it; each burst goes to the line
\* its cache asked for; only lines that are stored to are dirty or written.
FetchLines == Lines \ StoreLines

DataInPlace ==
    /\ IC!Backed(ireq, SR!r_last, Image, FetchLines)
    /\ DC!Backed(dreq, SR!r_last, mem, Lines)
    /\ \A g \in Groups, w \in Ways : ddirty[<<g, w>>] => <<dtag[<<g, w>>], g>> \in StoreLines
    /\ \A l \in FetchLines : mem[l] = Image[l]
    /\ dstate = "replace" => waddrReg.line = <<dtag[<<dreq.group, dway>>], dreq.group>>
    /\ istate = "refill" => raddrReg.line = <<ireq.tag, ireq.group>>
    /\ dstate = "refill" => raddrReg.line = <<dreq.tag, dreq.group>>

IInv == TypeOK /\ UniqueWays /\ BusInStep /\ InFlight /\ DataInPlace

\* What the theorems about data ask of the program: no instruction and no
\* access crosses the end of a line, as naturally aligned ones do not.
PcsInLine == \A p \in Pcs : p.off + InstBytes <= LineBytes
AccessesInLine == \A r \in Accesses : r.off + r.size <= LineBytes

\* Every pmem access leaves the LSU, however the two caches compete.
AccessCompletes == pmemop ~> ~lsubusy

\* The instruction side is not starved although the LSU wins every channel.
FetchCompletes == (istate = "miss") ~> if_valid

=============================================================================

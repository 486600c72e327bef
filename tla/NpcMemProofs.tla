---------------------------- MODULE NpcMemProofs ---------------------------
(***************************************************************************)
(* Proofs about NpcMem, for every cache geometry, program and pattern of   *)
(* stalls: IInv of NpcMem is inductive, and the invariants it implies.     *)
(*                                                                         *)
(* An edge clocks everything at once, so a step is taken apart by          *)
(* component, not by action: each lemma below says what one edge does to   *)
(* one part of IInv, from the lemmas of Cache about one cache.             *)
(***************************************************************************)
EXTENDS NpcMem, TLAPS

\* The two instances of Cache and the one of Sram share one geometry.
LEMMA SameGeometry ==
    /\ IC!Request = Request /\ IC!Slots = Slots /\ IC!Ways = Ways
    /\ DC!Request = Request /\ DC!Slots = Slots /\ DC!Ways = Ways
    /\ IC!BeatData = BeatData /\ DC!BeatData = BeatData /\ SR!BeatData = BeatData
    /\ IC!LineData = LineData /\ DC!LineData = LineData /\ SR!LineData = LineData
    /\ SR!Lines = Lines
  BY DEF IC!Request, IC!Slots, IC!Ways, IC!BeatData, IC!LineData, IC!InLine, IC!InBeat,
     IC!LineBytes, DC!Request, DC!Slots, DC!Ways, DC!BeatData, DC!LineData, DC!InLine,
     DC!InBeat, DC!LineBytes, SR!BeatData, SR!LineData, SR!InLine, SR!InBeat, SR!LineBytes,
     SR!Lines, Request, Slots, Ways, BeatData, LineData, InLine, InBeat, LineBytes, Lines

\* What the front end and EX_LS put on the request wires is a request.
LEMMA RequestTypes ==
    ASSUME TypeOK
    PROVE  ireq \in Request /\ dreq \in Request
  <1>1. npc \in [tag : Tags, group : Groups, off : InLine]
    BY PcAssumption DEF TypeOK, npc, jumping
  <1>2. [k \in InBeat |-> 0] \in BeatData
    BY ValAssumption DEF BeatData
  <1>3. ireq \in Request
    BY <1>1, <1>2, InstAssumption, BeatBytesAssumption DEF ireq, Request
  <1>4. idlereq \in Request
    <2>1. (CHOOSE g \in Groups : TRUE) \in Groups
      BY PcAssumption
    <2>2. 0 \in InLine /\ 0 \in 0 .. BeatBytes
      BY BeatBytesAssumption DEF InLine, LineBytes
    <2> QED
      BY <1>2, <2>1, <2>2, TagsAssumption DEF idlereq, Request
  <1> QED
    BY <1>3, <1>4, AccessAssumption DEF TypeOK, dreq, pmemop

\* A read beat is a beat, as long as no burst starts in the middle of a line.
LEMMA BusTypes ==
    ASSUME TypeOK, raddrReg.beat = 0
    PROVE  ibus \in IC!Bus /\ dbus \in DC!Bus
  <1>1. SR!r_data \in BeatData
    <2>1. mem[raddrReg.line] \in LineData
      BY SameGeometry DEF TypeOK, SR!TypeOK, SR!Address
    <2>2. CASE RReglen = 1
      BY <2>1, <2>2, BeatBytesAssumption
      DEF SR!r_data, SR!BeatOf, LineData, BeatData, InLine, InBeat, LineBytes, SR!InBeat
    <2>3. CASE RReglen # 1
      BY <2>1, <2>3, BeatBytesAssumption
      DEF SR!r_data, SR!BeatOf, LineData, BeatData, InLine, InBeat, LineBytes, SR!InBeat
    <2> QED
      BY <2>2, <2>3
  <1>2. SR!r_last \in BOOLEAN
    BY DEF SR!r_last
  <1>3. ibus \in IC!Bus
    BY <1>1, <1>2, SameGeometry DEF ibus, IC!Bus, ifu_ar_valid, IC!ar_valid, IC!r_ready
  <1>4. dbus \in DC!Bus
    BY <1>1, <1>2, SameGeometry
    DEF dbus, DC!Bus, lsu_ar_valid, DC!ar_valid, DC!aw_valid, DC!w_valid, DC!r_ready
  <1> QED
    BY <1>3, <1>4

----------------------------------------------------------------------------
(* The SRAM: what its two machines do in one edge *)

\* A beat written to either half of a line leaves a line.
LEMMA StoreBeatType ==
    ASSUME NEW line \in LineData, NEW beat \in 0 .. 1, NEW data \in BeatData
    PROVE  SR!StoreBeat(line, beat, data) \in LineData
  <1> USE BeatBytesAssumption DEF SR!StoreBeat, LineData, BeatData, SR!InLine, SR!LineBytes,
          InLine, InBeat, LineBytes
  <1>1. CASE beat = 0
    BY <1>1
  <1>2. CASE beat = 1
    BY <1>2
  <1> QED
    BY <1>1, <1>2

\* The read machine keeps its types, starts where it is asked to, and is out of
\* read two beats after it entered.
LEMMA ReadStepInv ==
    ASSUME NEW arv \in BOOLEAN, NEW addr \in SR!Address, NEW rr \in BOOLEAN,
           ReadState \in {"readwait", "read"}, RReglen \in SR!Len8, raddrReg \in SR!Address,
           ReadState = "read" => RReglen \in {0, 1},
           SR!ReadStep(arv, addr, rr)
    PROVE  /\ ReadState' \in {"readwait", "read"} /\ RReglen' \in SR!Len8 /\ raddrReg' \in SR!Address
           /\ raddrReg' = IF ReadState = "readwait" /\ arv THEN addr ELSE raddrReg
           /\ ReadState = "readwait" => ReadState' = (IF arv THEN "read" ELSE "readwait")
           /\ ReadState = "readwait" /\ ReadState' = "read" => RReglen' = 1
           /\ ReadState = "read" => ReadState' = (IF RReglen = 0 THEN "readwait" ELSE "read")
           /\ ReadState' = "read" => RReglen' \in {0, 1}
  <1>1. CASE SR!AcceptRead(arv, addr)
    BY <1>1 DEF SR!AcceptRead, SR!Len8
  <1>2. CASE SR!ReadWait(arv)
    BY <1>2 DEF SR!ReadWait
  <1>3. CASE SR!ReadBeat(rr)
    BY <1>3 DEF SR!ReadBeat, SR!Len8, SR!Minus1
  <1> QED
    BY <1>1, <1>2, <1>3 DEF SR!ReadStep

\* The same for the write machine, and the beat it writes into memory.
LEMMA WriteStepInv ==
    ASSUME NEW awv \in BOOLEAN, NEW addr \in SR!Address, NEW wv \in BOOLEAN, NEW data \in BeatData,
           WriteState \in {"writewait", "write"}, WReglen \in SR!Len8, waddrReg \in SR!Address,
           mem \in [Lines -> LineData], waddrReg.beat = 0,
           SR!WriteStep(awv, addr, wv, data)
    PROVE  /\ WriteState' \in {"writewait", "write"} /\ WReglen' \in SR!Len8 /\ waddrReg' \in SR!Address
           /\ mem' \in [Lines -> LineData]
           /\ waddrReg' = IF WriteState = "writewait" /\ awv THEN addr ELSE waddrReg
           /\ WriteState = "writewait" => WriteState' = (IF awv THEN "write" ELSE "writewait")
           /\ WriteState = "writewait" /\ awv => WReglen' = 1
           /\ WriteState = "write" => WriteState' = (IF WReglen = 0 THEN "writewait" ELSE "write")
           /\ WriteState = "write" /\ wv /\ WReglen = 1 => WReglen' = 0
           /\ mem' = IF WriteState = "write" /\ wv
                     THEN [mem EXCEPT ![waddrReg.line] =
                               SR!StoreBeat(@, IF WReglen = 1 THEN 0 ELSE 1, data)]
                     ELSE mem
  <1>1. CASE SR!AcceptWrite(awv, addr)
    BY <1>1 DEF SR!AcceptWrite, SR!Len8
  <1>2. CASE SR!WriteWait(awv)
    BY <1>2 DEF SR!WriteWait
  <1>3. CASE SR!WriteBeat(wv, data)
    <2> DEFINE beat == IF WReglen = 1 THEN 0 ELSE 1
    <2>1. SR!BeatOf(waddrReg, WReglen) = beat /\ beat \in 0 .. 1
      BY DEF SR!BeatOf
    <2>2. mem' = IF wv THEN [mem EXCEPT ![waddrReg.line] = SR!StoreBeat(@, beat, data)] ELSE mem
      BY <1>3, <2>1 DEF SR!WriteBeat
    <2>3. mem' \in [Lines -> LineData]
      <3>1. waddrReg.line \in Lines
        BY SameGeometry DEF SR!Address
      <3>2. SR!StoreBeat(mem[waddrReg.line], beat, data) \in LineData
        BY <2>1, <3>1, StoreBeatType
      <3> HIDE DEF beat
      <3> QED
        BY <2>2, <3>1, <3>2
    <2>4. /\ WriteState = "write" /\ waddrReg' = waddrReg /\ WReglen' \in SR!Len8
          /\ WriteState' = IF WReglen = 0 THEN "writewait" ELSE "write"
          /\ wv /\ WReglen = 1 => WReglen' = 0
      BY <1>3 DEF SR!WriteBeat, SR!Len8, SR!Minus1
    <2> QED
      BY <2>2, <2>3, <2>4
  <1> QED
    BY <1>1, <1>2, <1>3 DEF SR!WriteStep

----------------------------------------------------------------------------
(* One edge, component by component *)


\* The parts of IInv and of an edge that the lemmas about one cache ask for.
LEMMA EdgeFacts ==
    ASSUME IInv, NEW Id_ready \in BOOLEAN, Tick(Id_ready)
    PROVE  /\ ireq \in IC!Request /\ ibus \in IC!Bus /\ ICache_valid(Id_ready) \in BOOLEAN
           /\ dreq \in DC!Request /\ dbus \in DC!Bus /\ Lsu_Cache_valid \in BOOLEAN
           /\ IC!TypeOK /\ IC!Unique /\ IC!Filling(ireq, ibus.r_last)
           /\ DC!TypeOK /\ DC!Unique /\ DC!Filling(dreq, dbus.r_last)
           /\ IC!Step(ICache_valid(Id_ready), ireq, ibus)
           /\ DC!Step(Lsu_Cache_valid, dreq, dbus)
  <1>1. ireq \in IC!Request /\ dreq \in DC!Request
    BY RequestTypes, SameGeometry DEF IInv
  <1>2. ibus \in IC!Bus /\ dbus \in DC!Bus
    BY BusTypes DEF IInv, InFlight
  <1>3. ICache_valid(Id_ready) \in BOOLEAN /\ Lsu_Cache_valid \in BOOLEAN
    BY DEF ICache_valid, if_valid, IC!dataok, Lsu_Cache_valid, pmemop, Lsu_dataok, DC!dataok
  <1>4. IC!Unique /\ DC!Unique
    BY SameGeometry DEF IInv, UniqueWays, IC!Unique, DC!Unique
  <1>5. ibus.r_last = SR!r_last /\ dbus.r_last = SR!r_last
    BY DEF ibus, dbus
  <1>6. IC!Filling(ireq, ibus.r_last) /\ DC!Filling(dreq, dbus.r_last)
    BY <1>5 DEF IInv, InFlight
  <1>7. IC!TypeOK /\ DC!TypeOK
    BY DEF IInv, TypeOK
  <1>8. IC!Step(ICache_valid(Id_ready), ireq, ibus) /\ DC!Step(Lsu_Cache_valid, dreq, dbus)
    BY DEF Tick
  <1> QED
    BY <1>1, <1>2, <1>3, <1>4, <1>6, <1>7, <1>8

\* The instruction cache after an edge.
LEMMA ICacheEdge ==
    ASSUME IInv, NEW Id_ready \in BOOLEAN, Tick(Id_ready)
    PROVE  /\ IC!TypeOK' /\ IC!Unique'
           /\ istate = "idle" => istate' = (IF Id_ready THEN "lookup" ELSE "idle")
           /\ istate = "lookup" => istate' = (IF if_valid THEN "idle" ELSE "miss")
           /\ istate = "miss" => istate' = (IF ibus.ar_ready THEN "refill" ELSE "miss")
           /\ istate = "refill" =>
                 istate' = (IF ibus.r_valid /\ ibus.r_last THEN "lookup" ELSE "refill")
           /\ istate' # "replace" /\ \A s \in Slots : ~idirty'[s]
  <1> USE TagsAssumption, NWaysAssumption, BeatBytesAssumption, ValAssumption
  <1>1. IC!TypeOK' /\ IC!Unique'
    BY EdgeFacts, IC!CacheStepType, IC!CacheStepUnique
  <1>2. ~IC!aw_valid(ireq) /\ ~ireq.op
    <2>1. IC!chooseaddr(ireq) \in Slots
      BY EdgeFacts, SameGeometry DEF IC!TypeOK, IC!chooseaddr, Slots, IC!Request
    <2> QED
      BY <2>1 DEF IInv, InFlight, IC!aw_valid, IC!axivalid, ireq
  <1>3. istate = "idle" => ICache_valid(Id_ready) = Id_ready
    BY DEF ICache_valid, if_valid, IC!dataok
  <1>4. IC!dataok(ireq) = if_valid
    BY DEF if_valid
  <1>5. istate \in {"idle", "lookup", "miss", "refill"}
    BY DEF IInv, TypeOK, IC!TypeOK, IC!States, InFlight
  <1>6. \A s \in Slots : ~idirty'[s]
    BY <1>2, EdgeFacts, IC!CacheArcs, SameGeometry DEF IInv, InFlight
  <1> QED
    BY <1>1, <1>2, <1>3, <1>4, <1>5, <1>6, EdgeFacts, IC!CacheArcs

\* The data cache after an edge.
LEMMA DCacheEdge ==
    ASSUME IInv, NEW Id_ready \in BOOLEAN, Tick(Id_ready)
    PROVE  /\ DC!TypeOK' /\ DC!Unique'
           /\ dstate = "idle" => dstate' = (IF pmemop THEN "lookup" ELSE "idle")
           /\ dstate = "lookup" => dstate' = (IF Lsu_dataok THEN "idle" ELSE "miss")
           /\ dstate = "miss" /\ DC!aw_valid(dreq) =>
                 dstate' = (IF dbus.aw_ready THEN "replace" ELSE "miss")
           /\ dstate = "miss" /\ ~DC!aw_valid(dreq) =>
                 dstate' = (IF dbus.ar_ready THEN "refill" ELSE "miss")
           /\ dstate = "replace" =>
                 dstate' = (IF dbus.w_ready /\ dlen = 0 THEN "miss" ELSE "replace")
           /\ dstate = "refill" =>
                 dstate' = (IF dbus.r_valid /\ dbus.r_last THEN "lookup" ELSE "refill")
           /\ dstate = "miss" /\ DC!aw_valid(dreq) /\ dbus.aw_ready => dlen' = 1
           /\ dstate = "replace" /\ dbus.w_ready => dlen' = 0
           /\ dstate # "replace" /\ dstate' # "replace" => dlen' = dlen
  <1> USE TagsAssumption, NWaysAssumption, BeatBytesAssumption, ValAssumption
  <1>1. DC!TypeOK' /\ DC!Unique'
    BY EdgeFacts, DC!CacheStepType, DC!CacheStepUnique
  <1>2. dstate = "idle" => Lsu_Cache_valid = pmemop
    BY DEF Lsu_Cache_valid, Lsu_dataok, DC!dataok, pmemop
  <1>3. DC!dataok(dreq) = Lsu_dataok
    BY DEF Lsu_dataok
  <1> QED
    BY <1>1, <1>2, <1>3, EdgeFacts, DC!CacheArcs

\* The front end after an edge: what it hands over next is the program's next
\* instruction, and its request does not change unless ICache is idle after.
LEMMA FrontEdge ==
    ASSUME IInv, NEW Id_ready \in BOOLEAN, Tick(Id_ready)
    PROVE  /\ RegPc' \in Pcs /\ archpc' \in Pcs
           /\ ifid' \in [valid : BOOLEAN, jump : Pcs \cup {None}]
           /\ realbusy' \in BOOLEAN
           /\ PcDue'
           /\ istate' # "idle" => ~ifid'.valid
           /\ istate' # "idle" => npc' = npc
  <1>1. /\ RegPc \in Pcs /\ archpc \in Pcs /\ ifid \in [valid : BOOLEAN, jump : Pcs \cup {None}]
        /\ PcDue /\ (istate # "idle" => ~ifid.valid)
        /\ istate \in {"idle", "lookup", "miss", "refill"}
    BY DEF IInv, TypeOK, InFlight, IC!TypeOK, IC!States
  <1>2. PcStep(Id_ready) /\ IfIdStep(Id_ready) /\ (Id_ready => ~realbusy)
    BY DEF Tick
  <1>3. if_valid => istate = "lookup" /\ istate' = "idle"
    BY ICacheEdge DEF if_valid, IC!dataok
  <1>4. istate = "idle" => istate' = (IF Id_ready THEN "lookup" ELSE "idle")
    BY ICacheEdge
  <1>5. realbusy' \in BOOLEAN
    BY DEF Tick, IdWaits
  <1>6. CASE Id_ready /\ if_valid
    <2>1. PICK j \in Pcs \cup {None} :
             /\ ifid' = [valid |-> TRUE, jump |-> j]
             /\ archpc' = IF j = None THEN Pc_4(archpc) ELSE j
      BY <1>2, <1>6 DEF IfIdStep
    <2>2. archpc = RegPc /\ RegPc' = Pc_4(RegPc)
      BY <1>1, <1>2, <1>3, <1>6 DEF PcStep, jumping, PcDue
    <2>3. ifid'.valid /\ ifid'.jump = j
      BY <2>1
    <2>4. PcDue'
      BY <2>1, <2>2, <2>3 DEF PcDue
    <2> QED
      BY <1>1, <1>3, <1>5, <1>6, <2>1, <2>2, <2>4, PcAssumption
  <1>7. CASE Id_ready /\ ~if_valid
    <2>1. ifid' = [valid |-> FALSE, jump |-> None] /\ archpc' = archpc
      BY <1>2, <1>7 DEF IfIdStep
    <2>2. ~ifid'.valid
      BY <2>1
    <2>3. npc = archpc /\ npc' = RegPc' /\ RegPc' = archpc
      BY <1>1, <1>2, <1>7, <2>2 DEF PcStep, jumping, npc, PcDue
    <2>4. PcDue'
      BY <2>1, <2>2, <2>3 DEF PcDue
    <2> QED
      BY <1>1, <1>5, <2>1, <2>2, <2>3, <2>4
  <1>8. CASE ~Id_ready
    <2>1. ifid' = ifid /\ archpc' = archpc
      BY <1>2, <1>8 DEF IfIdStep
    <2>2. RegPc' = IF jumping THEN ifid.jump ELSE RegPc
      BY <1>2, <1>8 DEF PcStep
    <2>3. RegPc' \in Pcs /\ PcDue'
      BY <1>1, <2>1, <2>2 DEF jumping, PcDue
    <2>4. istate' # "idle" => ~ifid.valid
      BY <1>1, <1>4, <1>8
    <2>5. istate' # "idle" => npc' = npc
      BY <2>1, <2>2, <2>4 DEF jumping, npc
    <2> QED
      BY <1>1, <1>5, <2>1, <2>3, <2>4, <2>5
  <1> QED
    BY <1>6, <1>7, <1>8

\* The load/store unit after an edge: EX_LS does not advance unless DCache is
\* idle after, and its own machine mirrors whether DCache is busy.
LEMMA LsuEdge ==
    ASSUME IInv, NEW Id_ready \in BOOLEAN, Tick(Id_ready)
    PROVE  /\ exls' \in Accesses \cup {None}
           /\ lsu' \in {"Cachewait", "CacheBusy"}
           /\ lswb' \in {None} \cup UNION {[0 .. r.size - 1 -> Val] : r \in Accesses}
           /\ dstate' # "idle" => exls' = exls /\ exls # None
           /\ dstate' # "idle" <=> lsu' = "CacheBusy"
  <1>1. /\ exls \in Accesses \cup {None} /\ lsu \in {"Cachewait", "CacheBusy"}
        /\ (dstate # "idle" <=> lsu = "CacheBusy") /\ (dstate # "idle" => pmemop)
        /\ dstate \in {"idle", "lookup", "miss", "replace", "refill"}
    BY DEF IInv, TypeOK, InFlight, DC!TypeOK, DC!States
  <1>2. LsuStep
    BY DEF Tick
  <1>3. Lsu_dataok <=> dstate = "lookup" /\ dstate' = "idle"
    BY DCacheEdge DEF Lsu_dataok, DC!dataok
  <1>4. dstate # "idle" /\ dstate' = "idle" => dstate = "lookup"
    BY <1>1, DCacheEdge
  <1>5. dstate = "idle" => (dstate' # "idle" <=> pmemop)
    BY DCacheEdge DEF pmemop
  <1>6. /\ exls' \in Accesses \cup {None} /\ lsu' \in {"Cachewait", "CacheBusy"}
        /\ (dstate' # "idle" => exls' = exls /\ exls # None)
        /\ (dstate' # "idle" <=> lsu' = "CacheBusy")
    BY <1>1, <1>2, <1>3, <1>4, <1>5 DEF LsuStep, pmemop, Lsu_Cache_valid, lsubusy
  <1>7. lswb' \in {None} \cup UNION {[0 .. r.size - 1 -> Val] : r \in Accesses}
    <2>1. CASE pmemop /\ ~lsubusy /\ ~exls.op
      <3>1. exls \in Accesses /\ exls \in Request /\ dreq = exls
        BY <1>1, <2>1, AccessAssumption DEF pmemop, dreq
      <3>2. \A k \in 0 .. exls.size - 1 : DC!DataOut(dreq)[k] \in Val
        BY <3>1, ValAssumption, BeatBytesAssumption
        DEF IInv, TypeOK, DC!TypeOK, DC!DataOut, DC!LineData, DC!InLine, DC!InBeat, Request, InLine,
            LineBytes, DC!LineBytes
      <3>3. lswb' = [k \in 0 .. exls.size - 1 |-> DC!DataOut(dreq)[k]]
        BY <1>2, <2>1 DEF LsuStep, maskData
      <3>4. lswb' \in [0 .. exls.size - 1 -> Val]
        BY <3>2, <3>3
      <3> QED
        BY <3>1, <3>4
    <2>2. CASE ~(pmemop /\ ~lsubusy /\ ~exls.op)
      BY <1>2, <2>2 DEF LsuStep, maskData
    <2> QED
      BY <2>1, <2>2
  <1> QED
    BY <1>6, <1>7

\* The SRAM after an edge.
LEMMA SramEdge ==
    ASSUME IInv, NEW Id_ready \in BOOLEAN, Tick(Id_ready)
    PROVE  /\ SR!TypeOK'
           /\ raddrReg'.beat = 0 /\ waddrReg'.beat = 0
           /\ ReadState = "readwait" =>
                 ReadState' = (IF ifu_ar_valid \/ lsu_ar_valid THEN "read" ELSE "readwait")
           /\ ReadState = "readwait" /\ ReadState' = "read" => RReglen' = 1
           /\ ReadState = "read" => ReadState' = (IF RReglen = 0 THEN "readwait" ELSE "read")
           /\ ReadState' = "read" => RReglen' \in {0, 1}
           /\ WriteState = "writewait" =>
                 WriteState' = (IF DC!aw_valid(dreq) THEN "write" ELSE "writewait")
           /\ WriteState = "writewait" /\ DC!aw_valid(dreq) => WReglen' = 1
           /\ WriteState = "write" => WriteState' = (IF WReglen = 0 THEN "writewait" ELSE "write")
           /\ WriteState = "write" /\ WReglen = 1 => WReglen' = 0
           /\ raddrReg' = IF ReadState = "readwait" /\ (ifu_ar_valid \/ lsu_ar_valid)
                          THEN sram_ar_addr ELSE raddrReg
           /\ waddrReg' = IF WriteState = "writewait" /\ DC!aw_valid(dreq)
                          THEN DC!aw_addr(dreq) ELSE waddrReg
           /\ mem' = IF WriteState = "write"
                     THEN [mem EXCEPT ![waddrReg.line] =
                               SR!StoreBeat(@, IF WReglen = 1 THEN 0 ELSE 1, DC!w_data)]
                     ELSE mem
  <1> USE TagsAssumption, NWaysAssumption, BeatBytesAssumption, ValAssumption
  <1>1. /\ SR!TypeOK /\ DC!TypeOK /\ dreq \in Request /\ ireq \in Request
        /\ raddrReg.beat = 0 /\ waddrReg.beat = 0
        /\ (ReadState = "read" => RReglen \in {0, 1})
        /\ ((WriteState = "write") <=> (dstate = "replace"))
        /\ (dstate # "replace" => dlen = 0)
    BY RequestTypes DEF IInv, TypeOK, InFlight, BusInStep
  <1>2. /\ SR!ReadStep(ifu_ar_valid \/ lsu_ar_valid, sram_ar_addr, IC!r_ready \/ DC!r_ready)
        /\ SR!WriteStep(DC!aw_valid(dreq), DC!aw_addr(dreq), DC!w_valid, DC!w_data)
    BY DEF Tick, SramStep
  <1>3. sram_ar_addr \in SR!Address /\ sram_ar_addr.beat = 0
    BY <1>1 DEF sram_ar_addr, IC!ar_addr, DC!ar_addr, SR!Address, SR!Lines, Request
  <1>4. DC!aw_addr(dreq) \in SR!Address /\ (DC!aw_valid(dreq) => DC!aw_addr(dreq).beat = 0)
    BY <1>1, SameGeometry
    DEF DC!aw_addr, DC!chooseaddr, DC!aw_valid, DC!TypeOK, SR!Address, SR!Lines, Request, Slots
  <1>5. DC!w_data \in SR!BeatData
    BY <1>1, SameGeometry
    DEF DC!w_data, DC!TypeOK, LineData, BeatData, DC!InBeat, InBeat, InLine, LineBytes
  <1>6. /\ (ifu_ar_valid \/ lsu_ar_valid) \in BOOLEAN /\ (IC!r_ready \/ DC!r_ready) \in BOOLEAN
        /\ DC!aw_valid(dreq) \in BOOLEAN /\ DC!w_valid \in BOOLEAN
    BY DEF DC!aw_valid, DC!w_valid
  <1>7. /\ ReadState' \in {"readwait", "read"} /\ RReglen' \in SR!Len8 /\ raddrReg' \in SR!Address
        /\ raddrReg' = IF ReadState = "readwait" /\ (ifu_ar_valid \/ lsu_ar_valid)
                       THEN sram_ar_addr ELSE raddrReg
        /\ ReadState = "readwait" =>
              ReadState' = (IF ifu_ar_valid \/ lsu_ar_valid THEN "read" ELSE "readwait")
        /\ ReadState = "readwait" /\ ReadState' = "read" => RReglen' = 1
        /\ ReadState = "read" => ReadState' = (IF RReglen = 0 THEN "readwait" ELSE "read")
        /\ ReadState' = "read" => RReglen' \in {0, 1}
    BY <1>1, <1>2, <1>3, <1>6, ReadStepInv DEF SR!TypeOK
  <1>8. /\ WriteState' \in {"writewait", "write"} /\ WReglen' \in SR!Len8 /\ waddrReg' \in SR!Address
        /\ mem' \in [Lines -> LineData]
        /\ waddrReg' = IF WriteState = "writewait" /\ DC!aw_valid(dreq)
                       THEN DC!aw_addr(dreq) ELSE waddrReg
        /\ WriteState = "writewait" =>
              WriteState' = (IF DC!aw_valid(dreq) THEN "write" ELSE "writewait")
        /\ WriteState = "writewait" /\ DC!aw_valid(dreq) => WReglen' = 1
        /\ WriteState = "write" => WriteState' = (IF WReglen = 0 THEN "writewait" ELSE "write")
        /\ WriteState = "write" /\ DC!w_valid /\ WReglen = 1 => WReglen' = 0
        /\ mem' = IF WriteState = "write" /\ DC!w_valid
                  THEN [mem EXCEPT ![waddrReg.line] =
                            SR!StoreBeat(@, IF WReglen = 1 THEN 0 ELSE 1, DC!w_data)]
                  ELSE mem
    BY <1>1, <1>2, <1>4, <1>5, <1>6, SameGeometry, WriteStepInv DEF SR!TypeOK
  <1>9. WriteState = "write" => DC!w_valid
    BY <1>1 DEF DC!w_valid
  <1>10. raddrReg'.beat = 0 /\ waddrReg'.beat = 0
    BY <1>1, <1>3, <1>4, <1>7, <1>8
  <1>11. SR!TypeOK'
    BY <1>7, <1>8, SameGeometry DEF SR!TypeOK
  <1> QED
    BY <1>7, <1>8, <1>9, <1>10, <1>11

\* The two ends of every burst move together.
LEMMA BusEdge ==
    ASSUME IInv, NEW Id_ready \in BOOLEAN, Tick(Id_ready)
    PROVE  /\ BusInStep'
           /\ dstate' # "replace" => dlen' = 0
           /\ SR!r_last' /\ istate' = "refill" => istate = "refill" /\ ibus.r_valid
           /\ SR!r_last' /\ dstate' = "refill" => dstate = "refill" /\ dbus.r_valid
  <1>1. /\ istate \in {"idle", "lookup", "miss", "refill"}
        /\ dstate \in {"idle", "lookup", "miss", "replace", "refill"}
        /\ ReadState \in {"readwait", "read"} /\ WriteState \in {"writewait", "write"}
        /\ WReglen \in SR!Len8 /\ dlen \in 0 .. 1
        /\ BusInStep /\ (dstate # "replace" => dlen = 0)
        /\ (ReadState = "read" => RReglen \in {0, 1})
    BY DEF IInv, TypeOK, InFlight, IC!TypeOK, IC!States, DC!TypeOK, DC!States, SR!TypeOK
  <1>2. /\ ibus.ar_ready <=> (ifu_ar_valid /\ ReadState = "readwait" /\ ~lsu_ar_valid)
        /\ ibus.r_valid <=> (istate = "refill" /\ ReadState = "read" /\ dstate # "refill")
        /\ ibus.r_last <=> (ReadState = "read" /\ RReglen = 0)
        /\ dbus.ar_ready <=> (lsu_ar_valid /\ ReadState = "readwait")
        /\ dbus.aw_ready <=> (DC!aw_valid(dreq) /\ WriteState = "writewait")
        /\ dbus.w_ready <=> (dstate = "replace" /\ WriteState = "write")
        /\ dbus.r_valid <=> (dstate = "refill" /\ ReadState = "read")
        /\ dbus.r_last <=> (ReadState = "read" /\ RReglen = 0)
    BY DEF ibus, dbus, SR!ar_ready, SR!r_valid, SR!r_last, SR!aw_ready, SR!w_ready, IC!r_ready,
       DC!r_ready, DC!w_valid
  <1>3. /\ lsu_ar_valid <=> (dstate = "miss" /\ ~DC!aw_valid(dreq))
        /\ (DC!aw_valid(dreq) => dstate = "miss")
        /\ ifu_ar_valid <=> (istate = "miss")
    <2>1. IC!chooseaddr(ireq) \in Slots
      BY EdgeFacts, SameGeometry DEF IC!TypeOK, IC!chooseaddr, Slots, IC!Request
    <2> QED
      BY <2>1 DEF lsu_ar_valid, ifu_ar_valid, DC!ar_valid, DC!aw_valid, IC!ar_valid, IC!axivalid,
         IInv, InFlight
  <1>4. SR!r_last' <=> (ReadState' = "read" /\ RReglen' = 0)
    BY DEF SR!r_last
  <1>5. /\ istate = "refill" <=> ReadState = "read" /\ dstate # "refill"
        /\ dstate = "refill" => ReadState = "read"
        /\ dstate = "replace" <=> WriteState = "write"
        /\ dstate = "replace" => WReglen = dlen
    BY <1>1 DEF BusInStep
  <1>6. /\ istate = "refill" /\ RReglen # 0 => istate' = "refill"
        /\ ifu_ar_valid /\ ReadState = "readwait" /\ ~lsu_ar_valid => istate' = "refill"
        /\ istate' = "refill" =>
               (istate = "refill" /\ RReglen # 0)
                 \/ (ifu_ar_valid /\ ReadState = "readwait" /\ ~lsu_ar_valid)
    BY <1>1, <1>2, <1>3, <1>5, ICacheEdge
  <1>7. /\ dstate = "refill" /\ RReglen # 0 => dstate' = "refill"
        /\ lsu_ar_valid /\ ReadState = "readwait" => dstate' = "refill"
        /\ dstate' = "refill" =>
               (dstate = "refill" /\ RReglen # 0) \/ (lsu_ar_valid /\ ReadState = "readwait")
    BY <1>1, <1>2, <1>3, <1>5, DCacheEdge
  <1>8. /\ ReadState = "read" /\ RReglen # 0 => ReadState' = "read"
        /\ ReadState = "readwait" /\ (ifu_ar_valid \/ lsu_ar_valid) => ReadState' = "read"
        /\ ReadState' = "read" =>
               (ReadState = "read" /\ RReglen # 0)
                 \/ (ReadState = "readwait" /\ (ifu_ar_valid \/ lsu_ar_valid))
    BY <1>1, SramEdge
  <1>9. ReadState = "readwait" /\ ReadState' = "read" => RReglen' = 1
    BY SramEdge
  <1>10. /\ dstate = "replace" /\ dlen # 0 => dstate' = "replace"
         /\ DC!aw_valid(dreq) => dstate' = "replace"
         /\ dstate' = "replace" => (dstate = "replace" /\ dlen # 0) \/ DC!aw_valid(dreq)
    BY <1>1, <1>2, <1>3, <1>5, DCacheEdge
  <1>11. /\ WriteState = "write" /\ WReglen # 0 => WriteState' = "write"
         /\ WriteState = "writewait" /\ DC!aw_valid(dreq) => WriteState' = "write"
         /\ WriteState' = "write" =>
               (WriteState = "write" /\ WReglen # 0)
                 \/ (WriteState = "writewait" /\ DC!aw_valid(dreq))
    BY <1>1, SramEdge
  <1>12. dstate' = "replace" => WReglen' = dlen'
    BY <1>1, <1>2, <1>3, <1>5, <1>10, DCacheEdge, SramEdge
  <1>13. dstate' # "replace" => dlen' = 0
    BY <1>1, <1>2, <1>3, <1>5, <1>10, DCacheEdge
  <1>14. /\ ReadState' = "read" => istate' = "refill" \/ dstate' = "refill"
         /\ istate' = "refill" \/ dstate' = "refill" => ReadState' = "read"
    BY <1>1, <1>3, <1>5, <1>6, <1>7, <1>8
  <1>15. ~(istate' = "refill" /\ dstate' = "refill")
    BY <1>1, <1>3, <1>5, <1>6, <1>7
  <1>16. /\ WriteState' = "write" => dstate' = "replace"
         /\ dstate' = "replace" => WriteState' = "write"
    BY <1>1, <1>3, <1>5, <1>10, <1>11
  <1>17. /\ SR!r_last' /\ istate' = "refill" => istate = "refill" /\ ibus.r_valid
         /\ SR!r_last' /\ dstate' = "refill" => dstate = "refill" /\ dbus.r_valid
    BY <1>1, <1>2, <1>4, <1>5, <1>6, <1>7, <1>8, <1>9
  <1> QED
    BY <1>12, <1>13, <1>14, <1>15, <1>16, <1>17 DEF BusInStep

\* A miss in flight stays one.
LEMMA FillingEdge ==
    ASSUME IInv, NEW Id_ready \in BOOLEAN, Tick(Id_ready)
    PROVE  IC!Filling(ireq, SR!r_last)' /\ DC!Filling(dreq, SR!r_last)'
  <1> USE TagsAssumption, NWaysAssumption, BeatBytesAssumption, ValAssumption
  <1> DEFINE last == SR!r_last'
  <1>1. last \in BOOLEAN
    BY DEF SR!r_last
  <1>2. /\ last /\ istate' = "refill" => istate = "refill" /\ ibus.r_valid
        /\ last /\ dstate' = "refill" => dstate = "refill" /\ dbus.r_valid
    BY BusEdge
  <1>3. IC!Filling(ireq, SR!r_last)'
    <2>1. CASE istate' = "idle"
      BY <2>1 DEF IC!Filling
    <2>2. CASE istate' # "idle"
      <3>1. ireq' = ireq
        BY <2>2, FrontEdge DEF ireq
      <3> HIDE DEF last
      <3>2. /\ istate' \in {"miss", "replace"} =>
                  {w \in Ways : ivalid'[<<ireq.group, w>>] /\ itag'[<<ireq.group, w>>] = ireq.tag} = {}
            /\ istate' = "refill" =>
                  {w \in Ways : ivalid'[<<ireq.group, w>>] /\ itag'[<<ireq.group, w>>] = ireq.tag}
                     \subseteq {iway'}
            /\ istate' = "refill" /\ last => itag'[<<ireq.group, iway'>>] = ireq.tag
        BY <1>1, <1>2, EdgeFacts, IC!CacheStepFilling, SameGeometry DEF IC!Filling, IC!hit, IC!chooseaddr
      <3> QED
        BY <3>1, <3>2, SameGeometry DEF IC!Filling, IC!hit, IC!chooseaddr, last
    <2> QED
      BY <2>1, <2>2
  <1>4. DC!Filling(dreq, SR!r_last)'
    <2>1. CASE dstate' = "idle"
      BY <2>1 DEF DC!Filling
    <2>2. CASE dstate' # "idle"
      <3>1. dreq' = dreq
        BY <2>2, LsuEdge DEF dreq, pmemop, idlereq
      <3> HIDE DEF last
      <3>2. /\ dstate' \in {"miss", "replace"} =>
                  {w \in Ways : dvalid'[<<dreq.group, w>>] /\ dtag'[<<dreq.group, w>>] = dreq.tag} = {}
            /\ dstate' = "refill" =>
                  {w \in Ways : dvalid'[<<dreq.group, w>>] /\ dtag'[<<dreq.group, w>>] = dreq.tag}
                     \subseteq {dway'}
            /\ dstate' = "refill" /\ last => dtag'[<<dreq.group, dway'>>] = dreq.tag
        BY <1>1, <1>2, EdgeFacts, DC!CacheStepFilling, SameGeometry DEF DC!Filling, DC!hit, DC!chooseaddr
      <3> QED
        BY <3>1, <3>2, SameGeometry DEF DC!Filling, DC!hit, DC!chooseaddr, last
    <2> QED
      BY <2>1, <2>2
  <1> QED
    BY <1>3, <1>4

----------------------------------------------------------------------------
(* One edge, the data *)

\* Every burst goes to the line its cache asked for.
LEMMA BurstEdge ==
    ASSUME IInv, NEW Id_ready \in BOOLEAN, Tick(Id_ready)
    PROVE  /\ dstate' = "replace" => waddrReg'.line = <<dtag'[<<dreq.group, dway'>>], dreq.group>>
           /\ istate' = "refill" => raddrReg'.line = <<ireq.tag, ireq.group>>
           /\ dstate' = "refill" => raddrReg'.line = <<dreq.tag, dreq.group>>
  <1> USE TagsAssumption, NWaysAssumption, BeatBytesAssumption, ValAssumption
  <1>1. /\ istate \in {"idle", "lookup", "miss", "refill"}
        /\ dstate \in {"idle", "lookup", "miss", "replace", "refill"}
        /\ ReadState \in {"readwait", "read"} /\ WriteState \in {"writewait", "write"}
        /\ BusInStep
    BY DEF IInv, TypeOK, InFlight, IC!TypeOK, IC!States, DC!TypeOK, DC!States, SR!TypeOK
  <1>2. /\ dstate = "replace" => waddrReg.line = <<dtag[<<dreq.group, dway>>], dreq.group>>
        /\ istate = "refill" => raddrReg.line = <<ireq.tag, ireq.group>>
        /\ dstate = "refill" => raddrReg.line = <<dreq.tag, dreq.group>>
    BY DEF IInv, DataInPlace
  <1>3. /\ ibus.ar_ready => ifu_ar_valid /\ ReadState = "readwait" /\ ~lsu_ar_valid
        /\ dbus.ar_ready <=> lsu_ar_valid /\ ReadState = "readwait"
        /\ dbus.aw_ready <=> DC!aw_valid(dreq) /\ WriteState = "writewait"
    BY DEF ibus, dbus, SR!ar_ready, SR!aw_ready
  <1>4. istate' = "refill" => raddrReg'.line = <<ireq.tag, ireq.group>>
    <2> SUFFICES ASSUME istate' = "refill" PROVE raddrReg'.line = <<ireq.tag, ireq.group>>
      OBVIOUS
    <2>1. istate = "refill" \/ (istate = "miss" /\ ibus.ar_ready)
      BY <1>1, ICacheEdge
    <2>2. CASE istate = "refill"
      BY <1>1, <1>2, <2>2, SramEdge DEF BusInStep
    <2>3. CASE istate = "miss" /\ ibus.ar_ready
      <3>1. raddrReg' = IC!ar_addr(ireq)
        BY <1>3, <2>3, SramEdge DEF sram_ar_addr
      <3> QED
        BY <3>1 DEF IC!ar_addr
    <2> QED
      BY <2>1, <2>2, <2>3
  <1>5. dstate' = "refill" => raddrReg'.line = <<dreq.tag, dreq.group>>
    <2> SUFFICES ASSUME dstate' = "refill" PROVE raddrReg'.line = <<dreq.tag, dreq.group>>
      OBVIOUS
    <2>1. dstate = "refill" \/ (dstate = "miss" /\ dbus.ar_ready)
      BY <1>1, DCacheEdge
    <2>2. CASE dstate = "refill"
      BY <1>1, <1>2, <2>2, SramEdge DEF BusInStep
    <2>3. CASE dstate = "miss" /\ dbus.ar_ready
      <3>1. raddrReg' = DC!ar_addr(dreq)
        BY <1>3, <2>3, SramEdge DEF sram_ar_addr
      <3> QED
        BY <3>1 DEF DC!ar_addr
    <2> QED
      BY <2>1, <2>2, <2>3
  <1>6. dstate' = "replace" => waddrReg'.line = <<dtag'[<<dreq.group, dway'>>], dreq.group>>
    <2> SUFFICES ASSUME dstate' = "replace"
                 PROVE  waddrReg'.line = <<dtag'[<<dreq.group, dway'>>], dreq.group>>
      OBVIOUS
    <2>1. dstate = "replace" \/ (dstate = "miss" /\ DC!aw_valid(dreq) /\ dbus.aw_ready)
      BY <1>1, DCacheEdge
    <2>2. dtag' = dtag /\ dway' = dway
      BY <2>1, EdgeFacts, DC!CacheKeeps
    <2>3. CASE dstate = "replace"
      BY <1>1, <1>2, <2>2, <2>3, SramEdge DEF BusInStep
    <2>4. CASE dstate = "miss" /\ DC!aw_valid(dreq) /\ dbus.aw_ready
      <3>1. waddrReg' = DC!aw_addr(dreq)
        BY <1>3, <2>4, SramEdge
      <3> QED
        BY <2>2, <3>1 DEF DC!aw_addr, DC!chooseaddr
    <2> QED
      BY <2>1, <2>3, <2>4
  <1> QED
    BY <1>4, <1>5, <1>6

\* A read beat is the half of the line that the address register names.
LEMMA ReadBeatData ==
    ASSUME IInv, ReadState = "read", NEW k \in InBeat
    PROVE  SR!r_data[k] = mem[raddrReg.line][IF SR!r_last THEN k + BeatBytes ELSE k]
  <1>1. raddrReg.beat = 0 /\ RReglen \in {0, 1} /\ k \in Nat /\ k \in SR!InBeat
    BY BeatBytesAssumption DEF IInv, InFlight, InBeat, SR!InBeat
  <1>2. CASE RReglen = 1
    BY <1>1, <1>2, BeatBytesAssumption DEF SR!r_data, SR!BeatOf, SR!r_last
  <1>3. CASE RReglen = 0
    BY <1>1, <1>3, BeatBytesAssumption DEF SR!r_data, SR!BeatOf, SR!r_last
  <1> QED
    BY <1>1, <1>2, <1>3

\* Memory changes by write-backs only, a beat at a time.
LEMMA WriteBeatData ==
    ASSUME IInv, NEW Id_ready \in BOOLEAN, Tick(Id_ready)
    PROVE  /\ dstate # "replace" => mem' = mem
           /\ dstate = "replace" =>
                 LET victim == <<dtag[<<dreq.group, dway>>], dreq.group>>
                 IN  /\ \A l \in Lines \ {victim} : mem'[l] = mem[l]
                     /\ \A k \in InBeat :
                           /\ mem'[victim][k] = IF dlen = 1 THEN dq[k] ELSE mem[victim][k]
                           /\ mem'[victim][k + BeatBytes] =
                                 IF dlen = 1 THEN mem[victim][k + BeatBytes] ELSE dq[k + BeatBytes]
  <1> DEFINE victim == <<dtag[<<dreq.group, dway>>], dreq.group>>
  <1>1. /\ WriteState \in {"writewait", "write"} /\ dlen \in 0 .. 1
        /\ (WriteState = "write") <=> (dstate = "replace")
        /\ dstate = "replace" => WReglen = dlen /\ waddrReg.line = victim
        /\ mem \in [Lines -> LineData]
    BY SameGeometry DEF IInv, TypeOK, SR!TypeOK, DC!TypeOK, BusInStep, DataInPlace
  <1>2. mem' = IF WriteState = "write"
               THEN [mem EXCEPT ![waddrReg.line] =
                         SR!StoreBeat(@, IF WReglen = 1 THEN 0 ELSE 1, DC!w_data)]
               ELSE mem
    BY SramEdge
  <1>3. CASE dstate = "replace"
    <2>1. victim \in Lines
      BY EdgeFacts, SameGeometry DEF DC!TypeOK, Lines, DC!Request, Slots
    <2> HIDE DEF victim
    <2>2. mem' = [mem EXCEPT ![victim] =
                      SR!StoreBeat(mem[victim], IF dlen = 1 THEN 0 ELSE 1, DC!w_data)]
      BY <1>1, <1>2, <1>3
    <2>3. mem'[victim] = SR!StoreBeat(mem[victim], IF dlen = 1 THEN 0 ELSE 1, DC!w_data)
      BY <1>1, <2>1, <2>2
    <2>4. ASSUME NEW k \in InBeat
          PROVE  /\ mem'[victim][k] = IF dlen = 1 THEN dq[k] ELSE mem[victim][k]
                 /\ mem'[victim][k + BeatBytes] =
                       IF dlen = 1 THEN mem[victim][k + BeatBytes] ELSE dq[k + BeatBytes]
      <3>1. /\ k \in Nat /\ k < BeatBytes /\ k \in SR!InLine /\ k + BeatBytes \in SR!InLine
            /\ k \in DC!InBeat /\ k - 0 * BeatBytes = k /\ (k + BeatBytes) - 1 * BeatBytes = k
        BY BeatBytesAssumption DEF InBeat, DC!InBeat, SR!InLine, SR!LineBytes
      <3>2. CASE dlen = 1
        BY <2>3, <3>1, <3>2, BeatBytesAssumption DEF SR!StoreBeat, DC!w_data
      <3>3. CASE dlen = 0
        BY <2>3, <3>1, <3>3, BeatBytesAssumption DEF SR!StoreBeat, DC!w_data
      <3> QED
        BY <1>1, <3>2, <3>3
    <2>5. \A l \in Lines \ {victim} : mem'[l] = mem[l]
      BY <1>1, <2>2
    <2> QED
      BY <1>3, <2>4, <2>5 DEF victim
  <1>4. CASE dstate # "replace"
    BY <1>1, <1>2, <1>4
  <1> QED
    BY <1>3, <1>4

\* The bus serves the instruction cache from the image, outside the lines that
\* stores reach.
LEMMA IServed ==
    ASSUME IInv
    PROVE  IC!Served(ireq, ibus, Image, Image, FetchLines)
  <1>1. /\ istate # "replace" /\ (istate = "refill" => ReadState = "read")
        /\ (istate = "refill" => raddrReg.line = <<ireq.tag, ireq.group>>)
        /\ \A l \in FetchLines : mem[l] = Image[l]
    BY DEF IInv, InFlight, BusInStep, DataInPlace
  <1>2. ibus.r_rdata = SR!r_data /\ ibus.r_last = SR!r_last
    BY DEF ibus
  <1>3. IC!InBeat = InBeat
    BY DEF IC!InBeat, InBeat
  <1> QED
    BY <1>1, <1>2, <1>3, ReadBeatData DEF IC!Served

\* The bus serves the data cache from memory, which only its write-backs change.
LEMMA DServed ==
    ASSUME IInv, NEW Id_ready \in BOOLEAN, Tick(Id_ready)
    PROVE  DC!Served(dreq, dbus, mem, mem', Lines)
  <1>1. /\ dstate = "refill" => ReadState = "read" /\ raddrReg.line = <<dreq.tag, dreq.group>>
        /\ dstate = "replace" => WriteState = "write"
    BY DEF IInv, BusInStep, DataInPlace
  <1>2. /\ dbus.r_rdata = SR!r_data /\ dbus.r_last = SR!r_last
        /\ dstate = "replace" => dbus.w_ready
    BY <1>1 DEF dbus, DC!w_valid, SR!w_ready
  <1>3. DC!InBeat = InBeat /\ DC!Lines = Lines /\ DC!chooseaddr(dreq) = <<dreq.group, dway>>
    BY DEF DC!InBeat, InBeat, DC!Lines, Lines, DC!chooseaddr
  <1>4. dstate = "refill" => \A k \in InBeat :
           dbus.r_rdata[k] =
               mem[<<dreq.tag, dreq.group>>][IF dbus.r_last THEN k + BeatBytes ELSE k]
    BY <1>1, <1>2, ReadBeatData
  <1>5. /\ dstate # "replace" => mem' = mem
        /\ dstate = "replace" =>
              LET victim == <<dtag[<<dreq.group, dway>>], dreq.group>>
              IN  /\ \A l \in Lines \ {victim} : mem'[l] = mem[l]
                  /\ \A k \in InBeat :
                        /\ mem'[victim][k] = IF dlen = 1 THEN dq[k] ELSE mem[victim][k]
                        /\ mem'[victim][k + BeatBytes] =
                              IF dlen = 1 THEN mem[victim][k + BeatBytes] ELSE dq[k + BeatBytes]
    BY WriteBeatData
  <1> QED
    BY <1>2, <1>3, <1>4, <1>5 DEF DC!Served

\* The instruction cache stays backed by the image.
LEMMA IBackedEdge ==
    ASSUME IInv, NEW Id_ready \in BOOLEAN, Tick(Id_ready)
    PROVE  IC!Backed(ireq, SR!r_last, Image, FetchLines)'
  <1> USE TagsAssumption, NWaysAssumption, BeatBytesAssumption, ValAssumption
  <1>1. PICK last \in BOOLEAN : last = SR!r_last'
    BY DEF SR!r_last
  <1>2. last /\ istate' = "refill" => istate = "refill" /\ ibus.r_valid
    BY <1>1, BusEdge
  <1>3. IC!Backed(ireq, ibus.r_last, Image, FetchLines)
    BY DEF IInv, DataInPlace, ibus
  <1>4. Image \in [IC!Lines -> IC!LineData]
    BY ImageAssumption, SameGeometry DEF IC!Lines, Lines
  <1>5. PICK req \in IC!Request : req = ireq
    BY EdgeFacts
  <1>6. PICK bus \in IC!Bus : bus = ibus
    BY EdgeFacts
  <1>7. PICK L : L = FetchLines
    OBVIOUS
  <1>8. PICK en \in BOOLEAN : en = ICache_valid(Id_ready)
    BY EdgeFacts
  <1>9. IC!Backed(req, last, Image, L)'
    <2>1. /\ IC!TypeOK /\ IC!Unique /\ IC!Filling(req, bus.r_last) /\ IC!Step(en, req, bus)
      BY <1>5, <1>6, <1>8, EdgeFacts
    <2>2. IC!Backed(req, bus.r_last, Image, L)
      BY <1>3, <1>5, <1>6, <1>7
    <2>3. IC!Served(req, bus, Image, Image, L)
      BY <1>5, <1>6, <1>7, IServed
    <2>4. last /\ istate' = "refill" => istate = "refill" /\ bus.r_valid
      BY <1>2, <1>6
    <2> QED
      BY <1>4, <2>1, <2>2, <2>3, <2>4, IC!CacheStepBacked
  <1>10. istate' # "idle" => ireq' = req
    BY <1>5, FrontEdge DEF ireq
  <1>11. istate' # "replace" /\ SR!r_last' = last /\ FetchLines = L /\ FetchLines' = FetchLines
    BY <1>1, <1>7, ICacheEdge DEF FetchLines, StoreLines
  <1> QED
    BY <1>9, <1>10, <1>11
    DEF IC!Backed, IC!CleanBacked, IC!LookupRead, IC!WritingBack, IC!Refilling, IC!hit,
        IC!chooseaddr, IC!axivalid

\* The data cache stays backed by memory.
LEMMA DBackedEdge ==
    ASSUME IInv, NEW Id_ready \in BOOLEAN, Tick(Id_ready)
    PROVE  DC!Backed(dreq, SR!r_last, mem, Lines)'
  <1> USE TagsAssumption, NWaysAssumption, BeatBytesAssumption, ValAssumption
  <1>1. PICK last \in BOOLEAN : last = SR!r_last'
    BY DEF SR!r_last
  <1>2. last /\ dstate' = "refill" => dstate = "refill" /\ dbus.r_valid
    BY <1>1, BusEdge
  <1>3. DC!Backed(dreq, dbus.r_last, mem, Lines)
    BY DEF IInv, DataInPlace, dbus
  <1>4. mem \in [DC!Lines -> DC!LineData] /\ mem' \in [DC!Lines -> DC!LineData]
    BY SramEdge, SameGeometry DEF DC!Lines, Lines, SR!TypeOK, IInv, TypeOK
  <1>5. PICK req \in DC!Request : req = dreq
    BY EdgeFacts
  <1>6. PICK bus \in DC!Bus : bus = dbus
    BY EdgeFacts
  <1>7. PICK m \in [DC!Lines -> DC!LineData] : m = mem
    BY <1>4
  <1>8. PICK m2 \in [DC!Lines -> DC!LineData] : m2 = mem'
    BY <1>4
  <1>9. PICK en \in BOOLEAN : en = Lsu_Cache_valid
    BY EdgeFacts
  <1>10. DC!Backed(req, last, m2, Lines)'
    <2>1. /\ DC!TypeOK /\ DC!Unique /\ DC!Filling(req, bus.r_last) /\ DC!Step(en, req, bus)
      BY <1>5, <1>6, <1>9, EdgeFacts
    <2>2. DC!Backed(req, bus.r_last, m, Lines)
      BY <1>3, <1>5, <1>6, <1>7
    <2>3. DC!Served(req, bus, m, m2, Lines)
      BY <1>5, <1>6, <1>7, <1>8, DServed
    <2>4. last /\ dstate' = "refill" => dstate = "refill" /\ bus.r_valid
      BY <1>2, <1>6
    <2> QED
      BY <1>4, <2>1, <2>2, <2>3, <2>4, DC!CacheStepBacked
  <1>11. dstate' # "idle" => dreq' = req
    BY <1>5, LsuEdge DEF dreq, pmemop, idlereq
  <1> QED
    BY <1>1, <1>8, <1>10, <1>11
    DEF DC!Backed, DC!CleanBacked, DC!LookupRead, DC!WritingBack, DC!Refilling, DC!hit,
        DC!chooseaddr, DC!axivalid, Lines

\* Only lines that the program stores to are dirty, and only they are written
\* back.
LEMMA StoresEdge ==
    ASSUME IInv, NEW Id_ready \in BOOLEAN, Tick(Id_ready)
    PROVE  /\ \A g \in Groups, w \in Ways :
                 ddirty'[<<g, w>>] => <<dtag'[<<g, w>>], g>> \in StoreLines
           /\ \A l \in FetchLines : mem'[l] = Image[l]
  <1> USE TagsAssumption, NWaysAssumption, BeatBytesAssumption, ValAssumption
  <1>1. /\ \A g \in Groups, w \in Ways : ddirty[<<g, w>>] => <<dtag[<<g, w>>], g>> \in StoreLines
        /\ \A l \in FetchLines : mem[l] = Image[l]
        /\ DC!Backed(dreq, SR!r_last, mem, Lines)
    BY DEF IInv, DataInPlace
  <1>2. dreq.op => <<dreq.tag, dreq.group>> \in StoreLines
    <2> SUFFICES ASSUME dreq.op PROVE <<dreq.tag, dreq.group>> \in StoreLines
      OBVIOUS
    <2>1. pmemop /\ dreq = exls /\ exls \in Accesses
      BY DEF dreq, idlereq, pmemop, IInv, TypeOK
    <2> QED
      BY <2>1 DEF StoreLines
  <1>3. dstate = "refill" => ~ddirty[DC!chooseaddr(dreq)]
    BY <1>1 DEF DC!Backed, DC!Refilling
  <1>4. \A g \in Groups, w \in Ways :
           ddirty'[<<g, w>>] => <<dtag'[<<g, w>>], g>> \in StoreLines
    BY <1>1, <1>2, <1>3, EdgeFacts, SameGeometry, DC!CacheStepDirty
  <1>5. dstate = "replace" => <<dtag[<<dreq.group, dway>>], dreq.group>> \in StoreLines
    <2>1. dreq.group \in Groups /\ dway \in Ways
      BY EdgeFacts, SameGeometry DEF DC!TypeOK, DC!Request
    <2> QED
      BY <1>1, <2>1 DEF DC!Backed, DC!WritingBack, DC!axivalid, DC!chooseaddr
  <1>6. \A l \in FetchLines : mem'[l] = Image[l]
    BY <1>1, <1>5, WriteBeatData DEF FetchLines
  <1> QED
    BY <1>4, <1>6

----------------------------------------------------------------------------
(* The invariant and what it implies *)

\* The reset state satisfies the invariant.
LEMMA InitIInv == Init => IInv
  <1> SUFFICES ASSUME Init PROVE IInv
    OBVIOUS
  <1> USE TagsAssumption, NWaysAssumption, BeatBytesAssumption, ValAssumption
  <1>1. IC!TypeOK
    BY DEF Init, IC!Init, IC!TypeOK, IC!States, IC!Ways, IC!LineData
  <1>2. DC!TypeOK
    BY DEF Init, DC!Init, DC!TypeOK, DC!States, DC!Ways, DC!LineData
  <1>3. SR!TypeOK
    BY ImageAssumption, PcAssumption, SameGeometry
    DEF Init, SR!Init, SR!TypeOK, SR!Address, SR!Len8, SR!Lines
  <1>4. TypeOK
    BY <1>1, <1>2, <1>3, PcAssumption DEF Init, TypeOK
  <1>5. UniqueWays
    BY DEF Init, IC!Init, DC!Init, UniqueWays, IC!Slots, DC!Slots, IC!Ways, DC!Ways, Ways
  <1>6. BusInStep
    BY DEF Init, IC!Init, DC!Init, SR!Init, BusInStep
  <1>7. InFlight
    BY DEF Init, IC!Init, DC!Init, SR!Init, InFlight, IC!Filling, DC!Filling, npc, jumping,
       IC!Slots, IC!Ways, Slots, Ways, PcDue
  <1>8. DataInPlace
    <2>1. /\ istate = "idle" /\ dstate = "idle" /\ mem = Image
          /\ \A s \in Slots : ~ivalid[s] /\ ~idirty[s] /\ ~dvalid[s] /\ ~ddirty[s]
      BY SameGeometry DEF Init, IC!Init, DC!Init, SR!Init
    <2>2. IC!Backed(ireq, SR!r_last, Image, FetchLines)
      BY <2>1, SameGeometry
      DEF IC!Backed, IC!CleanBacked, IC!LookupRead, IC!WritingBack, IC!Refilling, Slots
    <2>3. DC!Backed(dreq, SR!r_last, mem, Lines)
      BY <2>1, SameGeometry
      DEF DC!Backed, DC!CleanBacked, DC!LookupRead, DC!WritingBack, DC!Refilling, Slots
    <2> QED
      BY <2>1, <2>2, <2>3 DEF DataInPlace, Slots
  <1> QED
    BY <1>4, <1>5, <1>6, <1>7, <1>8 DEF IInv

\* A clock edge preserves the invariant, part by part.
LEMMA NextIInv == IInv /\ [Next]_vars => IInv'
  <1> SUFFICES ASSUME IInv, [Next]_vars PROVE IInv'
    OBVIOUS
  <1>1. CASE Next
    <2>1. PICK Id_ready \in BOOLEAN : Tick(Id_ready)
      BY <1>1 DEF Next
    <2>2. TypeOK'
      BY <2>1, ICacheEdge, DCacheEdge, SramEdge, FrontEdge, LsuEdge DEF TypeOK
    <2>3. UniqueWays'
      BY <2>1, ICacheEdge, DCacheEdge, SameGeometry DEF UniqueWays, IC!Unique, DC!Unique
    <2>4. BusInStep'
      BY <2>1, BusEdge
    <2>5. InFlight'
      <3>1. dstate' # "idle" => exls' # None
        BY <2>1, LsuEdge
      <3> QED
        BY <2>1, <3>1, ICacheEdge, SramEdge, BusEdge, FillingEdge, FrontEdge, LsuEdge
        DEF InFlight, pmemop
    <2>6. DataInPlace'
      <3>1. /\ istate' # "idle" => ireq' = ireq
            /\ dstate' # "idle" => dreq' = dreq
        BY <2>1, FrontEdge, LsuEdge DEF ireq, dreq, pmemop, idlereq
      <3>2. FetchLines' = FetchLines /\ StoreLines' = StoreLines
        BY DEF FetchLines, StoreLines
      <3> QED
        BY <2>1, <3>1, <3>2, IBackedEdge, DBackedEdge, StoresEdge, BurstEdge DEF DataInPlace
    <2> QED
      BY <2>2, <2>3, <2>4, <2>5, <2>6 DEF IInv
  <1>2. CASE UNCHANGED vars
    <2>1. DataInPlace'
      <3>1. /\ ireq' = ireq /\ dreq' = dreq /\ SR!r_last' = SR!r_last
            /\ FetchLines' = FetchLines /\ StoreLines' = StoreLines
            /\ UNCHANGED <<ivars, dvars, svars>>
        BY <1>2 DEF vars, svars, ireq, dreq, idlereq, npc, jumping, pmemop, SR!r_last, FetchLines,
           StoreLines
      <3>2. DataInPlace
        BY DEF IInv
      <3>3. IC!Backed(ireq, SR!r_last, Image, FetchLines)'
        BY <3>1, <3>2
        DEF ivars, DataInPlace, IC!Backed, IC!CleanBacked, IC!LookupRead, IC!WritingBack,
            IC!Refilling, IC!axivalid, IC!hit, IC!chooseaddr
      <3>4. DC!Backed(dreq, SR!r_last, mem, Lines)'
        BY <3>1, <3>2
        DEF dvars, svars, DataInPlace, DC!Backed, DC!CleanBacked, DC!LookupRead, DC!WritingBack,
            DC!Refilling, DC!axivalid, DC!hit, DC!chooseaddr
      <3> QED
        BY <3>1, <3>2, <3>3, <3>4 DEF DataInPlace, ivars, dvars, svars
    <2> QED
      BY <1>2, <2>1
      DEF vars, ivars, dvars, svars, IInv, TypeOK, IC!TypeOK, DC!TypeOK, SR!TypeOK, UniqueWays,
          BusInStep, InFlight, IC!Filling, DC!Filling, IC!hit, DC!hit, IC!chooseaddr,
          DC!chooseaddr, SR!r_last, ireq, dreq, idlereq, npc, jumping, pmemop, PcDue
  <1> QED
    BY <1>1, <1>2

\* The inductive invariant holds at every clock edge.
THEOREM Invariance == Spec => []IInv
  BY InitIInv, NextIInv, PTL DEF Spec

\* Every register of caches, SRAM, front end and LSU keeps its type: the beat
\* counters do not leave their width, and load data are bytes of the memory.
THEOREM TypeCorrect == Spec => []TypeOK
  <1>1. IInv => TypeOK
    BY DEF IInv
  <1> QED
    BY <1>1, Invariance, PTL

\* No line is in two ways of a cache, for any number of ways and any choice of
\* victims by the LFSR.
THEOREM NoDuplicateLines == Spec => []UniqueWays
  <1>1. IInv => UniqueWays
    BY DEF IInv
  <1> QED
    BY <1>1, Invariance, PTL

\* Cache and SRAM agree on every burst of RamArbiter, and only one cache at a
\* time receives read beats.
THEOREM BurstsInStep == Spec => []BusInStep
  <1>1. IInv => BusInStep
    BY DEF IInv
  <1> QED
    BY <1>1, Invariance, PTL

\* The fetch front end hands every instruction of the program to ID once and
\* in order, for every pattern of stalls, jumps and misses.
THEOREM InstructionsInOrder == Spec => []FetchInOrder
  <1>1. IInv => FetchInOrder
    BY DEF IInv, InFlight, FetchInOrder, PcDue, npc, jumping, if_valid, IC!dataok
  <1> QED
    BY <1>1, Invariance, PTL

\* The request on the wires of a busy cache does not change under it.
THEOREM StableRequests == Spec => RequestStable
  <1> DEFINE A == /\ istate # "idle" /\ istate' # "idle" => npc' = npc
                  /\ dstate # "idle" /\ dstate' # "idle" => exls' = exls
  <1>1. IInv /\ [Next]_vars => [A]_vars
    <2> SUFFICES ASSUME IInv, Next PROVE A
      OBVIOUS
    <2>1. PICK Id_ready \in BOOLEAN : Tick(Id_ready)
      BY DEF Next
    <2> QED
      BY <2>1, FrontEdge, LsuEdge
  <1> QED
    BY <1>1, Invariance, PTL DEF Spec, RequestStable

\* An instruction that the cache hands over is the one of the image, for every
\* geometry and whatever the data side does on the shared bus meanwhile.
THEOREM FetchesCorrect ==
    ASSUME PcsInLine
    PROVE  Spec => []FetchReturnsImage
  <1>1. IInv => FetchReturnsImage
    <2> SUFFICES ASSUME IInv, if_valid, <<npc.tag, npc.group>> \notin StoreLines,
                        NEW k \in 0 .. InstBytes - 1
                 PROVE  IC!DataOut(ireq)[k] = Image[<<npc.tag, npc.group>>][npc.off + k]
      BY DEF FetchReturnsImage
    <2>1. ireq \in Request /\ ireq.tag = npc.tag /\ ireq.group = npc.group /\ ireq.off = npc.off
      BY RequestTypes DEF IInv, ireq
    <2>2. npc \in Pcs
      BY DEF IInv, TypeOK, npc, jumping
    <2>3. /\ npc.off + k \in InLine /\ k \in InBeat
          /\ IC!InLine = InLine /\ IC!InBeat = InBeat
      BY <2>2, PcAssumption, InstAssumption, BeatBytesAssumption
      DEF PcsInLine, InLine, InBeat, LineBytes, IC!InLine, IC!InBeat, IC!LineBytes
    <2>4. PICK w \in Ways : /\ ivalid[<<npc.group, w>>] /\ itag[<<npc.group, w>>] = npc.tag
                            /\ istate = "lookup" /\ w \in IC!hit(ireq)
      BY <2>1, SameGeometry DEF if_valid, IC!dataok, IC!hit
    <2>5. iq = iram[<<npc.group, w>>]
      BY <2>1, <2>4 DEF IInv, DataInPlace, IC!Backed, IC!LookupRead
    <2>6. <<npc.tag, npc.group>> \in FetchLines /\ npc.group \in Groups
      BY <2>1 DEF FetchLines, Lines, Request
    <2>7. ~idirty[<<npc.group, w>>]
      BY <2>6 DEF IInv, InFlight, Slots
    <2>8. iram[<<npc.group, w>>] = Image[<<npc.tag, npc.group>>]
      BY <2>4, <2>6, <2>7, SameGeometry DEF IInv, DataInPlace, IC!Backed, IC!CleanBacked
    <2> QED
      BY <2>1, <2>3, <2>5, <2>8 DEF IC!DataOut
  <1> QED
    BY <1>1, Invariance, PTL

----------------------------------------------------------------------------
(* The data side implements a flat memory *)

\* What a line contains is what any way that holds it has, else what memory has.
LEMMA HeldContents ==
    IInv => \A l \in Lines : /\ Held(l) = {} => Contents[l] = mem[l]
                            /\ \A w \in Held(l) : Contents[l] = dram[<<l[2], w>>]
  <1> SUFFICES ASSUME IInv, NEW l \in Lines
               PROVE  /\ Held(l) = {} => Contents[l] = mem[l]
                      /\ \A w \in Held(l) : Contents[l] = dram[<<l[2], w>>]
    OBVIOUS
  <1>1. Contents[l] = IF Held(l) = {} THEN mem[l] ELSE dram[<<l[2], CHOOSE w \in Held(l) : TRUE>>]
    BY DEF Contents
  <1>2. \A v, w \in Held(l) : v = w
    BY DEF Held, IInv, UniqueWays, Lines
  <1>3. ASSUME NEW w \in Held(l) PROVE Contents[l] = dram[<<l[2], w>>]
    <2>1. (CHOOSE v \in Held(l) : TRUE) = w
      BY <1>2, <1>3
    <2> QED
      BY <1>1, <1>3, <2>1
  <1> QED
    BY <1>1, <1>3

\* The same after an edge.
LEMMA HeldContentsNext ==
    IInv' => (\A l \in Lines : /\ Held(l) = {} => Contents[l] = mem[l]
                              /\ \A w \in Held(l) : Contents[l] = dram[<<l[2], w>>])'
  BY HeldContents, PTL

\* What an edge does to the ways that hold line l.
LEMMA HeldEdge ==
    ASSUME IInv, NEW Id_ready \in BOOLEAN, Tick(Id_ready), NEW l \in Lines
    PROVE  /\ Held(l) = {w \in Ways : /\ dvalid[<<l[2], w>>] /\ dtag[<<l[2], w>>] = l[1]
                                      /\ ~(dstate = "refill" /\ w = dway /\ l[2] = dreq.group)}
           /\ Held(l)' = {w \in Ways : /\ dvalid'[<<l[2], w>>] /\ dtag'[<<l[2], w>>] = l[1]
                                       /\ ~(dstate' = "refill" /\ w = dway' /\ l[2] = dreq.group)}
  <1>1. dstate' # "idle" => dreq' = dreq
    BY LsuEdge DEF dreq, pmemop, idlereq
  <1> QED
    BY <1>1 DEF Held

\* An edge that performs no store changes the contents of no line: not when a
\* line is evicted, written back or refilled.
LEMMA ContentsKept ==
    ASSUME IInv, IInv', NEW Id_ready \in BOOLEAN, Tick(Id_ready), ~(Lsu_dataok /\ dreq.op)
    PROVE  Contents' = Contents
  <1> USE TagsAssumption, NWaysAssumption, BeatBytesAssumption, ValAssumption
  <1>1. /\ dreq.group \in Groups /\ dway \in Ways
        /\ dstate \in {"idle", "lookup", "miss", "replace", "refill"}
    BY EdgeFacts, SameGeometry DEF DC!TypeOK, DC!States, DC!Request
  <1>2. /\ dstate # "refill" => UNCHANGED <<dvalid, dtag, dram>>
        /\ dstate # "lookup" => UNCHANGED dway
        /\ dstate = "refill" => \A s \in Slots \ {<<dreq.group, dway>>} :
              dvalid'[s] = dvalid[s] /\ dtag'[s] = dtag[s] /\ dram'[s] = dram[s]
    BY EdgeFacts, DC!CacheKeeps, SameGeometry DEF Lsu_dataok, DC!chooseaddr
  <1>3. ASSUME NEW l \in Lines PROVE Contents'[l] = Contents[l]
    <2> DEFINE c == <<dreq.group, dway>>
    <2>1. PICK H : /\ H = Held(l) /\ H \subseteq Ways
                   /\ \A w \in Ways : w \in H <=>
                         /\ dvalid[<<l[2], w>>] /\ dtag[<<l[2], w>>] = l[1]
                         /\ ~(dstate = "refill" /\ w = dway /\ l[2] = dreq.group)
      BY HeldEdge
    <2>2. PICK H2 : /\ H2 = Held(l)' /\ H2 \subseteq Ways
                    /\ \A w \in Ways : w \in H2 <=>
                          /\ dvalid'[<<l[2], w>>] /\ dtag'[<<l[2], w>>] = l[1]
                          /\ ~(dstate' = "refill" /\ w = dway' /\ l[2] = dreq.group)
      BY HeldEdge
    <2>3. /\ H = {} => Contents[l] = mem[l]
          /\ \A w \in H : Contents[l] = dram[<<l[2], w>>]
      BY <2>1, HeldContents
    <2>4. /\ H2 = {} => Contents'[l] = mem'[l]
          /\ \A w \in H2 : Contents'[l] = dram'[<<l[2], w>>]
      BY <2>2, HeldContentsNext
    <2>5. l[1] \in Tags /\ l[2] \in Groups /\ l = <<l[1], l[2]>>
      BY DEF Lines
    <2>6. /\ \A v, w \in H : v = w
          /\ \A v, w \in H2 : v = w
      <3>1. \A v, w \in Ways :
               /\ dvalid[<<l[2], v>>] /\ dvalid[<<l[2], w>>] /\ dtag[<<l[2], v>>] = dtag[<<l[2], w>>]
                  => v = w
               /\ dvalid'[<<l[2], v>>] /\ dvalid'[<<l[2], w>>] /\ dtag'[<<l[2], v>>] = dtag'[<<l[2], w>>]
                  => v = w
        BY <2>5 DEF IInv, UniqueWays
      <3>2. \A v, w \in H : v = w
        BY <2>1, <3>1
      <3>3. \A v, w \in H2 : v = w
        BY <2>2, <3>1
      <3> QED
        BY <3>2, <3>3
    <2>7. ASSUME \A w \in Ways : w \in H2 <=> w \in H,
                 \A w \in H : dram'[<<l[2], w>>] = dram[<<l[2], w>>],
                 H = {} => mem'[l] = mem[l]
          PROVE  Contents'[l] = Contents[l]
      <3>1. CASE H = {}
        BY <2>2, <2>3, <2>4, <2>7, <3>1
      <3>2. CASE H # {}
        BY <2>1, <2>3, <2>4, <2>7, <3>2
      <3> QED
        BY <3>1, <3>2
    <2>8. CASE dstate = "replace"
      <3>1. dstate' # "refill" /\ UNCHANGED <<dvalid, dtag, dram>>
        BY <1>2, <2>8, DCacheEdge
      <3>2. l = <<dtag[c], dreq.group>> => dway \in H
        <4>1. dvalid[c]
          BY <2>8 DEF IInv, DataInPlace, DC!Backed, DC!WritingBack, DC!axivalid, DC!chooseaddr
        <4> QED
          BY <1>1, <2>1, <2>5, <2>8, <4>1
      <3>3. l # <<dtag[c], dreq.group>> => mem'[l] = mem[l]
        BY <2>8, WriteBeatData
      <3>4. H = {} => mem'[l] = mem[l]
        BY <3>2, <3>3
      <3>5. \A w \in Ways : w \in H2 <=> w \in H
        BY <2>1, <2>2, <2>8, <3>1
      <3> QED
        BY <2>7, <3>1, <3>4, <3>5
    <2>9. CASE dstate = "refill"
      <3>1. mem' = mem /\ dway' = dway /\ dstate' \in {"refill", "lookup"}
        BY <1>2, <2>9, WriteBeatData, DCacheEdge
      <3>2. \A w \in Ways : <<l[2], w>> # c =>
               /\ w \in H2 <=> w \in H
               /\ dram'[<<l[2], w>>] = dram[<<l[2], w>>]
        BY <1>2, <2>1, <2>2, <2>5, <2>9, <3>1 DEF Slots
      <3>3. l[2] = dreq.group => dway \notin H
        BY <1>1, <2>1, <2>9
      <3>4. CASE l[2] = dreq.group /\ dway \in H2
        <4>1. /\ dstate' = "lookup" /\ dvalid'[<<l[2], dway>>] /\ dtag'[<<l[2], dway>>] = l[1]
              /\ Contents'[l] = dram'[<<l[2], dway>>]
          BY <1>1, <2>2, <2>4, <3>1, <3>4
        <4>2. ~ddirty'[<<l[2], dway>>]
          <5>1. ~ddirty[<<l[2], dway>>]
            BY <2>9, <3>4 DEF IInv, DataInPlace, DC!Backed, DC!Refilling, DC!chooseaddr
          <5>2. ddirty' = ddirty
            BY <2>9, EdgeFacts
            DEF DC!Step, DC!Rest, DC!Accept, DC!ReadHit, DC!WriteHit, DC!LookupMiss, DC!MissWriteBack,
                DC!MissFetch, DC!Replace, DC!Refill, DC!dataok, DC!aw_valid, DC!ar_valid
          <5> QED
            BY <5>1, <5>2
        <4>3. dram'[<<l[2], dway>>] = mem'[l]
          BY <1>1, <2>5, <4>1, <4>2, SameGeometry DEF IInv, DataInPlace, DC!Backed, DC!CleanBacked
        <4>4. H = {}
          BY <2>1, <2>6, <3>2, <3>3, <3>4
        <4> QED
          BY <2>3, <3>1, <4>1, <4>3, <4>4
      <3>5. CASE ~(l[2] = dreq.group /\ dway \in H2)
        <4>1. \A w \in Ways : w \in H2 <=> w \in H
          BY <3>2, <3>3, <3>5
        <4>2. \A w \in H : dram'[<<l[2], w>>] = dram[<<l[2], w>>]
          BY <2>1, <3>2, <3>3
        <4> QED
          BY <2>7, <3>1, <4>1, <4>2
      <3> QED
        BY <3>4, <3>5
    <2>10. CASE dstate \notin {"replace", "refill"} /\ dstate' = "refill"
      <3>1. /\ dstate = "miss" /\ ~DC!aw_valid(dreq) /\ mem' = mem
            /\ UNCHANGED <<dvalid, dtag, dram, dway>>
        BY <1>1, <1>2, <2>10, WriteBeatData, DCacheEdge
      <3>2. \A w \in Ways : w \in H2 <=> w \in H /\ ~(w = dway /\ l[2] = dreq.group)
        BY <2>1, <2>2, <2>10, <3>1
      <3>3. CASE l[2] = dreq.group /\ dway \in H
        <4>1. dvalid[<<l[2], dway>>] /\ dtag[<<l[2], dway>>] = l[1]
          BY <1>1, <2>1, <3>3
        <4>2. ~ddirty[<<l[2], dway>>]
          BY <3>1, <3>3, <4>1 DEF DC!aw_valid, DC!axivalid, DC!chooseaddr
        <4>3. dram[<<l[2], dway>>] = mem[l]
          BY <1>1, <2>5, <3>1, <4>1, <4>2, SameGeometry DEF IInv, DataInPlace, DC!Backed, DC!CleanBacked
        <4>4. H2 = {}
          BY <2>1, <2>2, <2>6, <3>2, <3>3
        <4> QED
          BY <2>3, <2>4, <3>1, <3>3, <4>3, <4>4
      <3>4. CASE ~(l[2] = dreq.group /\ dway \in H)
        <4>1. \A w \in Ways : w \in H2 <=> w \in H
          BY <3>2, <3>4
        <4> QED
          BY <2>7, <3>1, <4>1
      <3> QED
        BY <3>3, <3>4
    <2>11. CASE dstate \notin {"replace", "refill"} /\ dstate' # "refill"
      <3>1. mem' = mem /\ UNCHANGED <<dvalid, dtag, dram>>
        BY <1>2, <2>11, WriteBeatData
      <3>2. \A w \in Ways : w \in H2 <=> w \in H
        BY <2>1, <2>2, <2>11, <3>1
      <3> QED
        BY <2>7, <3>1, <3>2
    <2> QED
      BY <2>8, <2>9, <2>10, <2>11
  <1>4. Contents = [l \in Lines |-> Contents[l]] /\ Contents' = [l \in Lines |-> Contents'[l]]
    BY DEF Contents
  <1> QED
    BY <1>3, <1>4

\* The contents of a line are a line.
LEMMA ContentsType ==
    ASSUME IInv, NEW l \in Lines
    PROVE  Contents[l] \in LineData
  <1>1. mem[l] \in LineData /\ \A w \in Ways : dram[<<l[2], w>>] \in LineData
    BY SameGeometry DEF IInv, TypeOK, DC!TypeOK, SR!TypeOK, Slots, Lines
  <1>2. Held(l) \subseteq Ways
    BY DEF Held
  <1>3. CASE Held(l) = {}
    BY <1>1, <1>3, HeldContents
  <1>4. CASE Held(l) # {}
    BY <1>1, <1>2, <1>4, HeldContents
  <1> QED
    BY <1>3, <1>4

\* What the data cache answers from: the line of the access, in the way that
\* hits, which its output register has a copy of.
LEMMA HitContents ==
    ASSUME IInv, Lsu_dataok
    PROVE  /\ dstate = "lookup" /\ DC!hitway(dreq) \in Ways
           /\ dvalid[DC!hitaddr(dreq)] /\ dtag[DC!hitaddr(dreq)] = dreq.tag
           /\ DC!hitaddr(dreq) = <<dreq.group, DC!hitway(dreq)>>
           /\ Contents[<<dreq.tag, dreq.group>>] = dram[DC!hitaddr(dreq)]
           /\ dq = dram[DC!hitaddr(dreq)]
  <1> USE TagsAssumption, NWaysAssumption, BeatBytesAssumption, ValAssumption
  <1>1. dstate = "lookup" /\ DC!hit(dreq) # {}
    BY DEF Lsu_dataok, DC!dataok
  <1>2. dreq \in DC!Request /\ DC!Unique
    BY RequestTypes, SameGeometry DEF IInv, UniqueWays, DC!Unique
  <1>3. DC!hitway(dreq) \in DC!hit(dreq)
    BY <1>1, <1>2, DC!HitwayType
  <1>4. DC!hitaddr(dreq) = <<dreq.group, DC!hitway(dreq)>>
    BY DEF DC!hitaddr
  <1>5. /\ DC!hitway(dreq) \in Ways
        /\ dvalid[DC!hitaddr(dreq)] /\ dtag[DC!hitaddr(dreq)] = dreq.tag
    BY <1>3, <1>4, SameGeometry DEF DC!hit
  <1>6. dq = dram[DC!hitaddr(dreq)]
    BY <1>1, <1>3, <1>4 DEF IInv, DataInPlace, DC!Backed, DC!LookupRead
  <1>7. <<dreq.tag, dreq.group>> \in Lines
    BY <1>2 DEF Lines, DC!Request
  <1>8. DC!hitway(dreq) \in Held(<<dreq.tag, dreq.group>>)
    BY <1>1, <1>4, <1>5 DEF Held
  <1>9. Contents[<<dreq.tag, dreq.group>>] = dram[DC!hitaddr(dreq)]
    BY <1>4, <1>7, <1>8, HeldContents
  <1> QED
    BY <1>1, <1>4, <1>5, <1>6, <1>9

\* Where the bytes of an access are that stays in its line.
LEMMA InLineBytes ==
    ASSUME AccessesInLine, NEW r \in Accesses, NEW k \in 0 .. r.size - 1
    PROVE  /\ Flat!LineOf(r, k) = <<r.tag, r.group>> /\ Flat!ByteOf(r, k) = r.off + k
           /\ r.off \in Nat /\ r.size \in 0 .. BeatBytes /\ r.off + k \in InLine /\ k \in InBeat
  <1>1. r.off \in InLine /\ r.size \in 0 .. BeatBytes /\ r.off + r.size <= LineBytes
    BY AccessAssumption DEF AccessesInLine, Request
  <1>2. r.off + k \in InLine /\ r.off \in Nat /\ k \in InBeat
    BY <1>1, BeatBytesAssumption DEF InLine, InBeat, LineBytes
  <1> QED
    BY <1>1, <1>2 DEF Flat!LineOf, Flat!ByteOf, Flat!InLine, InLine

\* A load that hits returns the bytes the flat memory has at its address.
LEMMA LoadGets ==
    ASSUME AccessesInLine, IInv, Lsu_dataok, exls \in Accesses, dreq = exls
    PROVE  maskData = Flat!Get(exls)
  <1>1. ASSUME NEW k \in 0 .. exls.size - 1
        PROVE  DC!DataOut(dreq)[k] = Contents[Flat!LineOf(exls, k)][Flat!ByteOf(exls, k)]
    <2>1. DC!DataOut(dreq)[k] = dq[exls.off + k]
      BY InLineBytes DEF DC!DataOut, DC!InLine, DC!InBeat, DC!LineBytes, InLine, InBeat, LineBytes
    <2> QED
      BY <2>1, InLineBytes, HitContents
  <1> QED
    BY <1>1 DEF maskData, Flat!Get

\* A store that hits changes the bytes the flat memory changes, and no others.
LEMMA StorePuts ==
    ASSUME AccessesInLine, IInv, IInv', NEW Id_ready \in BOOLEAN, Tick(Id_ready),
           Lsu_dataok, exls \in Accesses, dreq = exls, exls.op
    PROVE  Contents' = Flat!Put(exls)
  <1> USE TagsAssumption, NWaysAssumption, BeatBytesAssumption, ValAssumption
  <1> DEFINE home == <<dreq.tag, dreq.group>>
             a == DC!hitaddr(dreq)
  <1>1. /\ UNCHANGED <<dvalid, dtag>> /\ mem' = mem
        /\ dram' = [dram EXCEPT ![a] = DC!hitDataWrite(dreq, dram[a])]
    BY HitContents, EdgeFacts, DC!CacheKeeps, WriteBeatData DEF Lsu_dataok
  <1>2. dstate = "lookup" /\ dstate' = "idle"
    BY HitContents, DCacheEdge
  <1>3. dram \in [Slots -> LineData] /\ a \in Slots /\ home \in Lines
    BY HitContents, EdgeFacts, SameGeometry DEF DC!TypeOK, Slots, Lines, DC!Request
  <1>4. a = <<dreq.group, DC!hitway(dreq)>> /\ DC!hitway(dreq) \in Ways /\ dvalid[a] /\ dtag[a] = dreq.tag
    BY HitContents
  <1>5. ASSUME NEW l \in Lines
        PROVE  Contents'[l] = IF l = home THEN DC!hitDataWrite(dreq, Contents[l]) ELSE Contents[l]
    <2>1. l[1] \in Tags /\ l[2] \in Groups /\ l = <<l[1], l[2]>>
      BY DEF Lines
    <2>2. PICK H : H = Held(l) /\ H \subseteq Ways
                   /\ \A w \in Ways : w \in H <=> dvalid[<<l[2], w>>] /\ dtag[<<l[2], w>>] = l[1]
      BY <1>2, HeldEdge
    <2>3. PICK H2 : H2 = Held(l)' /\ H2 \subseteq Ways
                    /\ \A w \in Ways : w \in H2 <=> dvalid[<<l[2], w>>] /\ dtag[<<l[2], w>>] = l[1]
      BY <1>1, <1>2, HeldEdge
    <2>4. /\ H2 = {} => Contents'[l] = mem'[l]
          /\ \A w \in H2 : Contents'[l] = dram'[<<l[2], w>>]
          /\ H = {} => Contents[l] = mem[l]
          /\ \A w \in H : Contents[l] = dram[<<l[2], w>>]
      BY <2>2, <2>3, HeldContents, HeldContentsNext
    <2> HIDE DEF a
    <2>5. CASE l = home
      <3>1. DC!hitway(dreq) \in H2 /\ l[2] = dreq.group
        BY <1>4, <2>3, <2>5
      <3>2. Contents'[l] = dram'[a] /\ Contents[l] = dram[a]
        BY <1>4, <2>4, <2>5, <3>1, HitContents DEF a
      <3> QED
        BY <1>1, <1>3, <2>5, <3>2
    <2>6. CASE l # home
      <3>1. \A w \in H2 : <<l[2], w>> # a /\ <<l[2], w>> \in Slots
        BY <1>4, <2>1, <2>3, <2>6 DEF Slots
      <3>2. \A w \in H2 : dram'[<<l[2], w>>] = dram[<<l[2], w>>]
        BY <1>1, <1>3, <3>1
      <3>3. CASE H = {}
        BY <1>1, <2>2, <2>3, <2>4, <2>6, <3>3
      <3>4. CASE H # {}
        BY <2>2, <2>3, <2>4, <2>6, <3>2, <3>4
      <3> QED
        BY <3>3, <3>4
    <2> QED
      BY <2>5, <2>6
  <1>6. ASSUME NEW l \in Lines, NEW i \in InLine
        PROVE  Contents'[l][i] = IF Flat!Touched(exls, l, i) = {} THEN Contents[l][i]
                                 ELSE exls.wdata[CHOOSE k \in Flat!Touched(exls, l, i) : TRUE]
    <2>1. /\ \A k \in Flat!Touched(exls, l, i) :
                k \in 0 .. exls.size - 1 /\ l = home /\ i = exls.off + k
          /\ \A k \in 0 .. exls.size - 1 :
                l = home /\ i = exls.off + k => k \in Flat!Touched(exls, l, i)
      BY InLineBytes DEF Flat!Touched
    <2>2. exls.off \in Nat /\ exls.size \in Nat /\ i \in Nat
      BY AccessAssumption, BeatBytesAssumption DEF Request, InLine, LineBytes
    <2>3. i \in DC!InLine
      BY DEF InLine, LineBytes, DC!InLine, DC!LineBytes
    <2>4. CASE l = home /\ i >= exls.off /\ i < exls.off + exls.size
      <3>1. i - exls.off \in Flat!Touched(exls, l, i)
        BY <2>1, <2>2, <2>4
      <3>2. \A k \in Flat!Touched(exls, l, i) : k = i - exls.off
        BY <2>1, <2>2
      <3>3. (CHOOSE k \in Flat!Touched(exls, l, i) : TRUE) = i - exls.off
        BY <3>1, <3>2
      <3>4. Contents'[l][i] = exls.wdata[i - exls.off]
        BY <1>5, <2>3, <2>4 DEF DC!hitDataWrite
      <3> QED
        BY <3>1, <3>3, <3>4
    <2>5. CASE ~(l = home /\ i >= exls.off /\ i < exls.off + exls.size)
      <3>1. Flat!Touched(exls, l, i) = {}
        BY <2>1, <2>2, <2>5
      <3>2. Contents'[l][i] = Contents[l][i]
        BY <1>5, <2>3, <2>5 DEF DC!hitDataWrite
      <3> QED
        BY <3>1, <3>2
    <2> QED
      BY <2>4, <2>5
  <1>7. \A l \in Lines : Contents'[l] = [i \in InLine |-> Contents'[l][i]]
    <2>1. ASSUME NEW l \in Lines PROVE Contents'[l] \in [InLine -> Val] \/ l = home
      BY <1>5, ContentsType DEF LineData
    <2>2. Contents'[home] = [i \in InLine |-> Contents'[home][i]]
      BY <1>3, <1>5 DEF DC!hitDataWrite, DC!InLine, DC!LineBytes, InLine, LineBytes
    <2> QED
      BY <2>1, <2>2
  <1>8. Contents' = [l \in Lines |-> Contents'[l]]
    BY DEF Contents
  <1>9. Contents' = [l \in Lines |-> [i \in InLine |-> Contents'[l][i]]]
    BY <1>7, <1>8
  <1> QED
    BY <1>6, <1>9 DEF Flat!Put, Flat!InLine, InLine

\* A clock edge is a step of the flat memory or leaves it alone.
LEMMA EdgeIsFlat ==
    ASSUME AccessesInLine, IInv, IInv', NEW Id_ready \in BOOLEAN, Tick(Id_ready)
    PROVE  Flat!Next
  <1>1. /\ LsuStep /\ exls' \in Accesses \cup {None} /\ exls \in Accesses \cup {None}
        /\ lsu \in {"Cachewait", "CacheBusy"}
    BY LsuEdge DEF Tick, IInv, TypeOK
  <1>2. /\ Lsu_dataok => dstate = "lookup"
        /\ (dstate # "idle" <=> lsu = "CacheBusy") /\ (dstate # "idle" => pmemop)
    BY DEF Lsu_dataok, DC!dataok, IInv, InFlight
  <1>3. CASE ~pmemop
    <2>1. ~Lsu_dataok /\ lswb' = None
      BY <1>1, <1>2, <1>3 DEF LsuStep
    <2>2. Contents' = Contents
      BY <2>1, ContentsKept
    <2>3. Flat!Idle
      BY <1>1, <1>3, <2>1, <2>2 DEF Flat!Idle, Flat!Present, pmemop
    <2> QED
      BY <2>3 DEF Flat!Next
  <1>4. CASE pmemop /\ ~Lsu_dataok
    <2>1. lsubusy
      BY <1>1, <1>4 DEF lsubusy, Lsu_Cache_valid
    <2>2. exls' = exls /\ lswb' = None
      BY <1>1, <2>1 DEF LsuStep
    <2>3. Contents' = Contents
      BY <1>4, ContentsKept
    <2>4. Flat!Wait
      BY <2>2, <2>3 DEF Flat!Wait
    <2> QED
      BY <2>4 DEF Flat!Next
  <1>5. CASE pmemop /\ Lsu_dataok
    <2>1. ~lsubusy /\ exls \in Accesses /\ dreq = exls /\ exls # None
      BY <1>1, <1>2, <1>5 DEF lsubusy, pmemop, dreq
    <2>2. lswb' = IF ~exls.op THEN maskData ELSE None
      BY <1>1, <1>5, <2>1 DEF LsuStep
    <2>3. CASE exls.op
      <3>1. Contents' = Flat!Put(exls)
        BY <1>5, <2>1, <2>3, StorePuts
      <3>2. Flat!Store
        BY <1>1, <2>1, <2>2, <2>3, <3>1 DEF Flat!Store, Flat!Present
      <3> QED
        BY <3>2 DEF Flat!Next
    <2>4. CASE ~exls.op
      <3>1. Contents' = Contents
        BY <2>1, <2>4, ContentsKept
      <3>2. maskData = Flat!Get(exls)
        BY <1>5, <2>1, LoadGets
      <3>3. Flat!Load
        BY <1>1, <2>1, <2>2, <2>4, <3>1, <3>2 DEF Flat!Load, Flat!Present
      <3> QED
        BY <3>3 DEF Flat!Next
    <2> QED
      BY <2>3, <2>4
  <1> QED
    BY <1>3, <1>4, <1>5

\* DCache, RamArbiter and SRAM together are a flat memory to the load/store
\* unit: for every geometry and every sequence of accesses each one is performed
\* once, in order, on the bytes last stored, and evictions, write-backs and
\* refills are invisible.
THEOREM MemoryIsFlat ==
    ASSUME AccessesInLine
    PROVE  Spec => IsFlatMemory
  <1>1. Init => Flat!Init
    <2> SUFFICES ASSUME Init PROVE Flat!Init
      OBVIOUS
    <2>1. /\ exls = None /\ lswb = None /\ mem = Image
          /\ \A s \in Slots : ~dvalid[s]
      BY SameGeometry DEF Init, DC!Init, SR!Init
    <2>2. \A l \in Lines : Held(l) = {}
      BY <2>1 DEF Held, Lines, Slots
    <2>3. Contents = [l \in Lines |-> mem[l]]
      BY <2>2 DEF Contents
    <2> QED
      BY <2>1, <2>3, ImageAssumption DEF Flat!Init
  <1>2. IInv /\ IInv' /\ [Next]_vars => [Flat!Next]_(Flat!flatVars)
    <2> SUFFICES ASSUME IInv, IInv', [Next]_vars PROVE [Flat!Next]_(Flat!flatVars)
      OBVIOUS
    <2>1. CASE Next
      <3>1. PICK Id_ready \in BOOLEAN : Tick(Id_ready)
        BY <2>1 DEF Next
      <3> QED
        BY <3>1, EdgeIsFlat
    <2>2. CASE UNCHANGED vars
      BY <2>2 DEF vars, dvars, svars, Flat!flatVars, Contents, Held, dreq, idlereq, pmemop
    <2> QED
      BY <2>1, <2>2
  <1> QED
    BY <1>1, <1>2, Invariance, PTL DEF Spec, IsFlatMemory, Flat!Spec

----------------------------------------------------------------------------
(* How long an access and a fetch take *)

\* At most so many clock edges pass until the access in EX_LS is answered: one
\* to accept it, one for the lookup, three to write the victim back, at most two
\* while ICache has the read channel, three to refill, and none for the lookup
\* that hits.
AccessEdges ==
    CASE ~pmemop -> 0
      [] pmemop /\ dstate = "idle" -> 10
      [] dstate = "lookup" -> IF Lsu_dataok THEN 0 ELSE 9
      [] dstate = "miss" /\ DC!aw_valid(dreq) -> 8
      [] dstate = "replace" -> 6 + dlen
      [] dstate = "miss" /\ ~DC!aw_valid(dreq) -> IF ReadState = "read" THEN 4 + RReglen ELSE 3
      [] dstate = "refill" -> 1 + RReglen

\* At most so many pass until ICache, once it has missed, has the instruction:
\* DCache may start one burst before it, and is in lookup when that one ends.
FetchEdges ==
    CASE istate = "miss" /\ ReadState = "read" -> 4 + RReglen
      [] istate = "miss" /\ ReadState # "read" -> IF lsu_ar_valid THEN 6 ELSE 3
      [] istate = "refill" -> 1 + RReglen
      [] OTHER -> 0

\* The read burst of the SRAM counts down, since one of the caches takes each beat.
LEMMA ReadCounts ==
    ASSUME IInv, NEW Id_ready \in BOOLEAN, Tick(Id_ready)
    PROVE  /\ ReadState \in {"readwait", "read"} /\ (ReadState = "read" => RReglen \in {0, 1})
           /\ ReadState = "read" /\ RReglen = 1 => ReadState' = "read" /\ RReglen' = 0
           /\ ReadState = "read" /\ RReglen = 0 => ReadState' = "readwait"
  <1>1. /\ ReadState \in {"readwait", "read"} /\ (ReadState = "read" => RReglen \in {0, 1})
        /\ ReadState = "read" => (IC!r_ready \/ DC!r_ready)
    BY DEF IInv, TypeOK, SR!TypeOK, InFlight, BusInStep, IC!r_ready, DC!r_ready
  <1>2. SR!ReadStep(ifu_ar_valid \/ lsu_ar_valid, sram_ar_addr, IC!r_ready \/ DC!r_ready)
    BY DEF Tick, SramStep
  <1> QED
    BY <1>1, <1>2 DEF SR!ReadStep, SR!AcceptRead, SR!ReadWait, SR!ReadBeat, SR!Minus1

\* What the arbiter and the SRAM make of the requests of the two caches.
LEMMA Grants ==
    ASSUME IInv
    PROVE  /\ ibus.ar_ready <=> istate = "miss" /\ ReadState = "readwait" /\ ~lsu_ar_valid
           /\ istate = "refill" => ibus.r_valid /\ ReadState = "read"
           /\ ibus.r_last <=> ReadState = "read" /\ RReglen = 0
           /\ dbus.ar_ready <=> lsu_ar_valid /\ ReadState = "readwait"
           /\ DC!aw_valid(dreq) => dbus.aw_ready
           /\ dstate = "replace" => dbus.w_ready
           /\ dstate = "refill" => dbus.r_valid /\ ReadState = "read"
           /\ dbus.r_last <=> ReadState = "read" /\ RReglen = 0
           /\ lsu_ar_valid <=> dstate = "miss" /\ ~DC!aw_valid(dreq)
           /\ DC!aw_valid(dreq) => dstate = "miss"
  <1>1. /\ ReadState \in {"readwait", "read"} /\ WriteState \in {"writewait", "write"}
        /\ BusInStep
    BY DEF IInv, TypeOK, SR!TypeOK
  <1>2. /\ lsu_ar_valid <=> dstate = "miss" /\ ~DC!aw_valid(dreq)
        /\ DC!aw_valid(dreq) => dstate = "miss"
    BY DEF lsu_ar_valid, DC!ar_valid, DC!aw_valid
  <1>3. ifu_ar_valid <=> istate = "miss"
    <2>1. ireq \in Request /\ IC!TypeOK
      BY RequestTypes DEF IInv, TypeOK
    <2>2. IC!chooseaddr(ireq) \in Slots
      BY <2>1, SameGeometry DEF IC!TypeOK, IC!chooseaddr, Slots, Request
    <2> QED
      BY <2>2 DEF ifu_ar_valid, IC!ar_valid, IC!axivalid, IInv, InFlight
  <1> QED
    BY <1>1, <1>2, <1>3
    DEF BusInStep, ibus, dbus, SR!ar_ready, SR!r_valid, SR!r_last, SR!aw_ready, SR!w_ready,
        IC!r_ready, DC!r_ready, DC!w_valid

\* Where an edge takes DCache, once the bus is taken into account.
LEMMA DCacheMoves ==
    ASSUME IInv, NEW Id_ready \in BOOLEAN, Tick(Id_ready)
    PROVE  /\ dstate = "idle" /\ pmemop => dstate' = "lookup"
           /\ dstate = "lookup" => dstate' = IF Lsu_dataok THEN "idle" ELSE "miss"
           /\ dstate = "miss" /\ DC!aw_valid(dreq) => dstate' = "replace" /\ dlen' = 1
           /\ dstate = "replace" => /\ dstate' = IF dlen = 0 THEN "miss" ELSE "replace"
                                    /\ dlen' = 0
           /\ dstate = "miss" /\ ~DC!aw_valid(dreq) =>
                 dstate' = IF ReadState = "readwait" THEN "refill" ELSE "miss"
           /\ dstate = "refill" => dstate' = IF RReglen = 0 THEN "lookup" ELSE "refill"
  BY DCacheEdge, Grants

\* After a write-back there is no second one, and after a refill the lookup hits.
LEMMA DVictim ==
    ASSUME IInv, NEW Id_ready \in BOOLEAN, Tick(Id_ready)
    PROVE  /\ dstate' = "miss" /\ dstate \in {"miss", "replace"} => ~DC!aw_valid(dreq)'
           /\ dstate = "refill" /\ dstate' = "lookup" => Lsu_dataok'
  <1> USE TagsAssumption, NWaysAssumption, BeatBytesAssumption, ValAssumption
  <1> DEFINE c == <<dreq.group, dway>>
  <1>1. /\ dstate \in {"miss", "replace", "refill"} => dway' = dway
        /\ dstate = "refill" /\ dstate' = "lookup" => dvalid'[c] /\ dtag'[c] = dreq.tag
        /\ dstate = "replace" /\ dstate' = "miss" => ~ddirty'[c]
        /\ dstate = "miss" /\ dstate' = "miss" => dvalid' = dvalid /\ ddirty' = ddirty
    BY EdgeFacts, DC!CacheVictim DEF DC!chooseaddr
  <1>2. dstate' # "idle" => dreq' = dreq
    BY LsuEdge DEF dreq, pmemop, idlereq
  <1>3. ASSUME dstate' = "miss", dstate = "miss" PROVE ~DC!aw_valid(dreq)'
    <2>1. ~DC!aw_valid(dreq)
      BY <1>3, DCacheMoves
    <2> QED
      BY <1>1, <1>2, <1>3, <2>1 DEF DC!aw_valid, DC!axivalid, DC!chooseaddr
  <1>4. ASSUME dstate' = "miss", dstate = "replace" PROVE ~DC!aw_valid(dreq)'
    BY <1>1, <1>2, <1>4 DEF DC!aw_valid, DC!axivalid, DC!chooseaddr
  <1>5. ASSUME dstate = "refill", dstate' = "lookup" PROVE Lsu_dataok'
    <2>1. dway \in DC!Ways
      BY DEF IInv, TypeOK, DC!TypeOK
    <2> QED
      BY <1>1, <1>2, <1>5, <2>1, SameGeometry DEF Lsu_dataok, DC!dataok, DC!hit
  <1> QED
    BY <1>3, <1>4, <1>5

\* The LSU is busy exactly while clock edges are left.
LEMMA AccessBusy ==
    ASSUME IInv
    PROVE  AccessEdges \in 0 .. 10 /\ (pmemop => (lsubusy <=> AccessEdges > 0)) /\ (lsubusy => pmemop)
  <1>1. /\ dstate \in {"idle", "lookup", "miss", "replace", "refill"} /\ dlen \in 0 .. 1
        /\ (ReadState = "read" => RReglen \in {0, 1}) /\ (dstate = "refill" => ReadState = "read")
        /\ lsu \in {"Cachewait", "CacheBusy"}
        /\ (dstate # "idle" <=> lsu = "CacheBusy") /\ (dstate # "idle" => pmemop)
    BY DEF IInv, TypeOK, InFlight, BusInStep, DC!TypeOK, DC!States
  <1>2. Lsu_dataok => dstate = "lookup"
    BY DEF Lsu_dataok, DC!dataok
  <1>3. lsubusy <=> pmemop /\ ~Lsu_dataok
    BY <1>1, <1>2 DEF lsubusy, Lsu_Cache_valid
  <1>4. AccessEdges \in 0 .. 10 /\ (AccessEdges > 0 <=> pmemop /\ ~Lsu_dataok)
    BY <1>1, <1>2 DEF AccessEdges
  <1> QED
    BY <1>3, <1>4

\* Every clock edge brings the access that the LSU works on nearer to its end.
LEMMA AccessNears ==
    ASSUME IInv, NEW Id_ready \in BOOLEAN, Tick(Id_ready), lsubusy
    PROVE  exls' = exls /\ AccessEdges' < AccessEdges
  <1>1. pmemop /\ ~Lsu_dataok /\ IInv' /\ AccessEdges > 0
    <2>1. IInv'
      BY NextIInv DEF Next
    <2>2. pmemop /\ AccessEdges > 0
      BY AccessBusy
    <2> QED
      BY <2>1, <2>2 DEF lsubusy, Lsu_Cache_valid
  <1>2. exls' = exls /\ pmemop'
    BY <1>1 DEF Tick, LsuStep, pmemop
  <1>3. /\ dstate \in {"idle", "lookup", "miss", "replace", "refill"} /\ dlen \in 0 .. 1
        /\ (ReadState' = "read" => RReglen' \in {0, 1})
    BY <1>1 DEF IInv, TypeOK, InFlight, DC!TypeOK, DC!States
  <1>4. CASE dstate = "idle"
    <2>1. dstate' = "lookup" /\ AccessEdges = 10
      BY <1>1, <1>4, DCacheMoves DEF AccessEdges
    <2>2. AccessEdges' \in {0, 9}
      BY <1>2, <2>1 DEF AccessEdges
    <2> QED
      BY <1>2, <2>1, <2>2
  <1>5. CASE dstate = "lookup"
    <2>1. dstate' = "miss" /\ AccessEdges = 9
      BY <1>1, <1>5, DCacheMoves DEF AccessEdges
    <2> QED
      BY <1>2, <1>3, <2>1 DEF AccessEdges
  <1>6. CASE dstate = "miss" /\ DC!aw_valid(dreq)
    <2>1. dstate' = "replace" /\ dlen' = 1 /\ AccessEdges = 8
      BY <1>1, <1>6, DCacheMoves DEF AccessEdges
    <2>2. AccessEdges' = 7
      BY <1>2, <2>1 DEF AccessEdges
    <2> QED
      BY <1>2, <2>1, <2>2
  <1>7. CASE dstate = "replace"
    <2>1. /\ dstate' = (IF dlen = 0 THEN "miss" ELSE "replace") /\ dlen' = 0
          /\ AccessEdges = 6 + dlen
      BY <1>1, <1>7, DCacheMoves DEF AccessEdges
    <2>2. dstate' = "miss" => ~DC!aw_valid(dreq)'
      BY <1>7, DVictim
    <2> QED
      BY <1>2, <1>3, <2>1, <2>2 DEF AccessEdges
  <1>8. CASE dstate = "miss" /\ ~DC!aw_valid(dreq)
    <2>1. /\ dstate' = (IF ReadState = "readwait" THEN "refill" ELSE "miss")
          /\ AccessEdges = IF ReadState = "read" THEN 4 + RReglen ELSE 3
      BY <1>1, <1>8, DCacheMoves DEF AccessEdges
    <2>2. dstate' = "miss" => ~DC!aw_valid(dreq)'
      BY <1>8, DVictim
    <2>3. ReadState = "readwait" => RReglen' = 1
      BY <1>8, SramEdge, Grants
    <2> QED
      BY <1>2, <1>3, <2>1, <2>2, <2>3, ReadCounts DEF AccessEdges
  <1>9. CASE dstate = "refill"
    <2>1. dstate' = (IF RReglen = 0 THEN "lookup" ELSE "refill") /\ AccessEdges = 1 + RReglen
      BY <1>1, <1>9, DCacheMoves DEF AccessEdges
    <2>2. ReadState = "read"
      BY <1>9, Grants
    <2>3. dstate' = "lookup" => Lsu_dataok'
      BY <1>9, DVictim
    <2>4. RReglen = 0 => AccessEdges' = 0
      BY <1>2, <2>1, <2>3 DEF AccessEdges
    <2>5. RReglen = 1 => AccessEdges' = 1
      BY <1>2, <2>1, <2>2, ReadCounts DEF AccessEdges
    <2> QED
      BY <1>2, <2>1, <2>2, <2>4, <2>5, ReadCounts
  <1> QED
    BY <1>3, <1>4, <1>5, <1>6, <1>7, <1>8, <1>9

\* Every load and store leaves the LSU after at most ten clock edges, at every
\* geometry and whatever ICache does: a dirty victim is written back once, a
\* burst of ICache is waited for once, and the refilled line is there at the
\* lookup that follows.
THEOREM AccessesInTime ==
    Spec => /\ [](AccessEdges \in 0 .. 10 /\ (pmemop => (lsubusy <=> AccessEdges > 0)))
            /\ [][lsubusy => exls' = exls /\ AccessEdges' < AccessEdges]_vars
  <1>1. IInv => AccessEdges \in 0 .. 10 /\ (pmemop => (lsubusy <=> AccessEdges > 0))
    BY AccessBusy
  <1>2. IInv /\ [Next]_vars => [lsubusy => exls' = exls /\ AccessEdges' < AccessEdges]_vars
    BY AccessNears DEF Next
  <1> QED
    BY <1>1, <1>2, Invariance, PTL DEF Spec

\* What ICache waits for is counted from the miss to the end of the refill.
LEMMA FetchBusy ==
    ASSUME IInv
    PROVE  FetchEdges \in 0 .. 6 /\ (FetchEdges > 0 <=> istate \in {"miss", "refill"})
  <1>1. (ReadState = "read" => RReglen \in {0, 1}) /\ (istate = "refill" => ReadState = "read")
    BY DEF IInv, InFlight, BusInStep
  <1> QED
    BY <1>1 DEF FetchEdges

\* Every clock edge brings the refill nearer, and the lookup after it hits.
LEMMA FetchNears ==
    ASSUME IInv, NEW Id_ready \in BOOLEAN, Tick(Id_ready), FetchEdges > 0
    PROVE  npc' = npc /\ FetchEdges' < FetchEdges /\ (FetchEdges' = 0 => if_valid')
  <1> USE TagsAssumption, NWaysAssumption, BeatBytesAssumption, ValAssumption
  <1>1. /\ istate \in {"miss", "refill"} /\ IInv'
        /\ ReadState' = "read" => RReglen' \in {0, 1}
        /\ istate = "refill" => ReadState = "read"
    <2>1. IInv'
      BY NextIInv DEF Next
    <2> QED
      BY <2>1, FetchBusy DEF IInv, InFlight, BusInStep
  <1>2. /\ istate = "miss" => istate' = (IF ReadState = "readwait" /\ ~lsu_ar_valid
                                         THEN "refill" ELSE "miss")
        /\ istate = "refill" => istate' = (IF RReglen = 0 THEN "lookup" ELSE "refill")
    BY ICacheEdge, Grants
  <1>3. npc' = npc /\ ireq' = ireq
    BY <1>1, <1>2, FrontEdge DEF ireq
  <1>4. istate = "refill" /\ istate' = "lookup" => if_valid'
    <2> DEFINE c == <<ireq.group, iway>>
    <2>1. /\ istate = "refill" /\ istate' = "lookup" => ivalid'[c] /\ itag'[c] = ireq.tag
          /\ iway \in IC!Ways
      BY EdgeFacts, IC!CacheVictim DEF IC!chooseaddr, IC!TypeOK
    <2> QED
      BY <1>3, <2>1, SameGeometry DEF if_valid, IC!dataok, IC!hit
  <1>5. CASE istate = "refill"
    <2>1. FetchEdges = 1 + RReglen
      BY <1>5 DEF FetchEdges
    <2> QED
      BY <1>1, <1>2, <1>3, <1>4, <1>5, <2>1, ReadCounts DEF FetchEdges
  <1>6. CASE istate = "miss" /\ ReadState = "read"
    <2>1. FetchEdges = 4 + RReglen /\ istate' = "miss"
      BY <1>2, <1>6 DEF FetchEdges
    <2>2. dstate = "refill"
      BY <1>6 DEF IInv, BusInStep
    <2>3. RReglen = 0 => ~lsu_ar_valid'
      <3>1. RReglen = 0 => dstate' = "lookup"
        BY <2>2, DCacheMoves
      <3> QED
        BY <3>1 DEF lsu_ar_valid, DC!ar_valid
    <2> QED
      BY <1>3, <1>6, <2>1, <2>3, ReadCounts DEF FetchEdges
  <1>7. CASE istate = "miss" /\ ReadState = "readwait" /\ lsu_ar_valid
    <2>1. FetchEdges = 6 /\ istate' = "miss"
      BY <1>2, <1>7 DEF FetchEdges
    <2>2. ReadState' = "read" /\ RReglen' = 1
      BY <1>7, SramEdge
    <2> QED
      BY <1>3, <2>1, <2>2 DEF FetchEdges
  <1>8. CASE istate = "miss" /\ ReadState = "readwait" /\ ~lsu_ar_valid
    <2>1. FetchEdges = 3 /\ istate' = "refill"
      BY <1>2, <1>8 DEF FetchEdges
    <2>2. ReadState' = "read" /\ RReglen' = 1
      <3>1. ReadState' = "read"
        BY <1>1, <2>1, Grants DEF IInv, BusInStep
      <3> QED
        BY <1>8, <3>1, SramEdge
    <2> QED
      BY <1>3, <2>1, <2>2 DEF FetchEdges
  <1> QED
    BY <1>1, <1>5, <1>6, <1>7, <1>8, ReadCounts

\* ICache is not starved although the LSU wins every channel: from the edge on
\* which it misses it has the instruction after at most six, because DCache gets
\* one burst ahead of it and not two.
THEOREM FetchesInTime ==
    Spec => /\ [](FetchEdges \in 0 .. 6 /\ (FetchEdges > 0 <=> istate \in {"miss", "refill"}))
            /\ [][FetchEdges > 0 => /\ npc' = npc /\ FetchEdges' < FetchEdges
                                    /\ FetchEdges' = 0 => if_valid']_vars
  <1>1. IInv => FetchEdges \in 0 .. 6 /\ (FetchEdges > 0 <=> istate \in {"miss", "refill"})
    BY FetchBusy
  <1>2. IInv /\ [Next]_vars => [FetchEdges > 0 => /\ npc' = npc /\ FetchEdges' < FetchEdges
                                                  /\ FetchEdges' = 0 => if_valid']_vars
    BY FetchNears DEF Next
  <1> QED
    BY <1>1, <1>2, Invariance, PTL DEF Spec

============================================================================

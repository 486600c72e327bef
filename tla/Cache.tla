------------------------------- MODULE Cache -------------------------------
(***************************************************************************)
(* One set-associative write-back cache of the NPC core                    *)
(* (npc/vsrc/ysyx_22050550_CACHE.v with its data RAM                       *)
(* ysyx_22050550_S011HD1P_X32Y2D128_BW.v), in the configuration that       *)
(* ysyx_22050550_define.v builds: FAST, CacheUseLFSR, tags in registers.   *)
(*                                                                         *)
(* A step of this module is one rising clock edge.  The wires that enter   *)
(* the cache are parameters of the actions:                                *)
(*   en   io_Cache_valid                                                   *)
(*   req  io_Cache_op/addr/wdata/wmask, the address split as the code      *)
(*        splits it into tag, group and offset in the line                 *)
(*   bus  io_ar_ready, io_aw_ready, io_w_ready, io_r_valid, io_r_last and  *)
(*        io_r_rdata                                                       *)
(* The wires that leave it are operators of the state and of req.          *)
(*                                                                         *)
(* A line is two beats of BeatBytes bytes (16 = 2 * 8 in the code).  The   *)
(* victim way comes from a free-running LFSR; here any way may come.       *)
(***************************************************************************)
EXTENDS CacheGeometry, TLAPS

VARIABLES
    state,      \* the five-state machine
    valid,      \* valid[{AddrGroup, way}]
    dirty,      \* dirty[{AddrGroup, way}]
    Tag,        \* Tag0..Tag3
    ram,        \* Data_Array.ram
    Q,          \* Data_Array.Q, its output register (DataRead)
    chooseway,  \* the way saved when a lookup misses
    Reglen      \* beats of the write-back burst still to send

cacheVars == <<state, valid, dirty, Tag, ram, Q, chooseway, Reglen>>

States == {"idle", "lookup", "miss", "replace", "refill"}

\* What the bus side presents to the cache.
Bus == [ar_ready : BOOLEAN, aw_ready : BOOLEAN, w_ready : BOOLEAN,
        r_valid : BOOLEAN, r_last : BOOLEAN, r_rdata : BeatData]

TypeOK ==
    /\ state \in States
    /\ valid \in [Slots -> BOOLEAN]
    /\ dirty \in [Slots -> BOOLEAN]
    /\ Tag \in [Slots -> Tags]
    /\ ram \in [Slots -> LineData]
    /\ Q \in LineData
    /\ chooseway \in Ways
    /\ Reglen \in 0 .. 1

\* state is the only register that reset writes; the others start as the
\* zeros of the simulator build (--x-initial fast).
Init ==
    /\ state = "idle"
    /\ valid = [s \in Slots |-> FALSE]
    /\ dirty = [s \in Slots |-> FALSE]
    /\ Tag = [s \in Slots |-> 0]
    /\ ram = [s \in Slots |-> [i \in InLine |-> 0]]
    /\ Q = [i \in InLine |-> 0]
    /\ chooseway = 0
    /\ Reglen = 0

----------------------------------------------------------------------------
(* Wires *)

\* Variant for mutation testing: the comparator of the last way is missing.
hitWithoutLastWay(req) ==
    {w \in Ways : w + 1 < NWays /\ valid[<<req.group, w>>] /\ Tag[<<req.group, w>>] = req.tag}

hit(req) == {w \in Ways : valid[<<req.group, w>>] /\ Tag[<<req.group, w>>] = req.tag}

\* The highest hitting way, way 0 when none hits.
hitway(req) ==
    IF hit(req) = {} THEN 0
    ELSE CHOOSE w \in hit(req) : \A v \in hit(req) : v <= w

hitaddr(req) == <<req.group, hitway(req)>>
chooseaddr(req) == <<req.group, chooseway>>

dataok(req) == state = "lookup" /\ hit(req) # {}

\* DataRead shifted right by the offset: bytes past the line read as zero.
DataOut(req) ==
    [k \in InBeat |-> IF req.off + k \in InLine THEN Q[req.off + k] ELSE 0]

axivalid(req) == valid[chooseaddr(req)] /\ dirty[chooseaddr(req)]
ar_valid(req) == state = "miss" /\ ~axivalid(req)
aw_valid(req) == state = "miss" /\ axivalid(req)
w_valid == state = "replace"
w_last == state = "replace" /\ Reglen = 0
r_ready == state = "refill"

\* A bus address is a line and one of its two beats.
ar_addr(req) == [line |-> <<req.tag, req.group>>, beat |-> 0]
aw_addr(req) == [line |-> <<Tag[chooseaddr(req)], req.group>>, beat |-> Reglen]
w_data == [k \in InBeat |-> IF Reglen = 1 THEN Q[k] ELSE Q[k + BeatBytes]]

\* Variant for mutation testing: store data not shifted to the offset.
hitDataUnshifted(req, line) ==
    [i \in InLine |-> IF i < req.size THEN req.wdata[i] ELSE line[i]]

\* The line a store leaves behind: wdata and its mask shifted left by the
\* offset; bytes shifted past the line are lost.
hitDataWrite(req, line) ==
    [i \in InLine |-> IF i >= req.off /\ i < req.off + req.size
                      THEN req.wdata[i - req.off] ELSE line[i]]

\* The tag is written with the first refill beat, the valid bit with the last.
TagWen(bus) == state = "refill" /\ bus.r_valid /\ ~bus.r_last
validWriteEn(bus) == state = "refill" /\ bus.r_valid /\ bus.r_last

\* The line one refill beat leaves behind: the first beat is the low half.
refilldata(bus, line) ==
    [i \in InLine |-> IF bus.r_last
                      THEN IF i >= BeatBytes THEN bus.r_rdata[i - BeatBytes] ELSE line[i]
                      ELSE IF i < BeatBytes THEN bus.r_rdata[i] ELSE line[i]]

----------------------------------------------------------------------------
(* Clock edges, by state *)

\* idle, no request: the FAST build does not even clock the state register.
Rest(en) ==
    /\ state = "idle" /\ ~en
    /\ UNCHANGED cacheVars

\* idle with a request: the data RAM is read at the way that hits now.
Accept(en, req) ==
    /\ state = "idle" /\ en
    /\ state' = "lookup"
    /\ Q' = ram[hitaddr(req)]
    /\ UNCHANGED <<valid, dirty, Tag, ram, chooseway, Reglen>>

ReadHit(req) ==
    /\ dataok(req) /\ ~req.op
    /\ state' = "idle"
    /\ UNCHANGED <<valid, dirty, Tag, ram, Q, chooseway, Reglen>>

WriteHit(req) ==
    /\ dataok(req) /\ req.op
    /\ state' = "idle"
    /\ ram' = [ram EXCEPT ![hitaddr(req)] = hitDataWrite(req, @)]
    /\ dirty' = [dirty EXCEPT ![hitaddr(req)] = TRUE]
    /\ UNCHANGED <<valid, Tag, Q, chooseway, Reglen>>

LookupMiss(req) ==
    /\ state = "lookup" /\ hit(req) = {}
    /\ state' = "miss"
    /\ chooseway' \in Ways
    /\ UNCHANGED <<valid, dirty, Tag, ram, Q, Reglen>>

\* miss, victim valid and dirty: ask for the write channel.
MissWriteBack(req, bus) ==
    /\ aw_valid(req)
    /\ state' = IF bus.aw_ready THEN "replace" ELSE "miss"
    /\ Reglen' = IF bus.aw_ready THEN 1 ELSE Reglen
    /\ Q' = IF bus.aw_ready THEN ram[chooseaddr(req)] ELSE Q
    /\ UNCHANGED <<valid, dirty, Tag, ram, chooseway>>

\* miss, nothing to write back: ask for the read channel.
MissFetch(req, bus) ==
    /\ ar_valid(req)
    /\ state' = IF bus.ar_ready THEN "refill" ELSE "miss"
    /\ UNCHANGED <<valid, dirty, Tag, ram, Q, chooseway, Reglen>>

\* Variant for mutation testing: the write-back leaves the victim dirty.
ReplaceKeepsDirty(req, bus) ==
    /\ state = "replace"
    /\ state' = IF bus.w_ready /\ w_last THEN "miss" ELSE "replace"
    /\ Reglen' = IF ~bus.w_ready THEN Reglen ELSE IF w_last THEN 0 ELSE Reglen - 1
    /\ Q' = IF w_last THEN Q ELSE ram[chooseaddr(req)]
    /\ UNCHANGED <<valid, dirty, Tag, ram, chooseway>>

\* The dirty bit falls in the last beat, whether or not w_ready is high.
Replace(req, bus) ==
    /\ state = "replace"
    /\ state' = IF bus.w_ready /\ w_last THEN "miss" ELSE "replace"
    /\ Reglen' = IF ~bus.w_ready THEN Reglen ELSE IF w_last THEN 0 ELSE Reglen - 1
    /\ dirty' = [dirty EXCEPT ![chooseaddr(req)] = @ /\ ~w_last]
    /\ Q' = IF w_last THEN Q ELSE ram[chooseaddr(req)]
    /\ UNCHANGED <<valid, Tag, ram, chooseway>>

\* Variant for mutation testing: the data RAM is not read with the last beat.
RefillWithoutRead(req, bus) ==
    LET line == ram[chooseaddr(req)]
        new == IF bus.r_valid THEN refilldata(bus, line) ELSE line
    IN  /\ state = "refill"
        /\ state' = IF bus.r_valid /\ bus.r_last THEN "lookup" ELSE "refill"
        /\ ram' = [ram EXCEPT ![chooseaddr(req)] = new]
        /\ Tag' = IF TagWen(bus) THEN [Tag EXCEPT ![chooseaddr(req)] = req.tag] ELSE Tag
        /\ valid' = IF validWriteEn(bus) THEN [valid EXCEPT ![chooseaddr(req)] = TRUE] ELSE valid
        /\ UNCHANGED <<dirty, Q, chooseway, Reglen>>

\* The data RAM returns the merged line in the cycle of the last beat.
Refill(req, bus) ==
    LET line == ram[chooseaddr(req)]
        new == IF bus.r_valid THEN refilldata(bus, line) ELSE line
    IN  /\ state = "refill"
        /\ state' = IF bus.r_valid /\ bus.r_last THEN "lookup" ELSE "refill"
        /\ ram' = [ram EXCEPT ![chooseaddr(req)] = new]
        /\ Tag' = IF TagWen(bus) THEN [Tag EXCEPT ![chooseaddr(req)] = req.tag] ELSE Tag
        /\ valid' = IF validWriteEn(bus) THEN [valid EXCEPT ![chooseaddr(req)] = TRUE] ELSE valid
        /\ Q' = IF bus.r_last THEN new ELSE Q
        /\ UNCHANGED <<dirty, chooseway, Reglen>>

Step(en, req, bus) ==
    \/ Rest(en)
    \/ Accept(en, req)
    \/ ReadHit(req)
    \/ WriteHit(req)
    \/ LookupMiss(req)
    \/ MissWriteBack(req, bus)
    \/ MissFetch(req, bus)
    \/ Replace(req, bus)
    \/ Refill(req, bus)

----------------------------------------------------------------------------
(* What the edges preserve, whatever the bus and the requester present *)

\* At most one way of each group holds a tag.
Unique ==
    \A g \in Groups : \A v, w \in Ways :
        valid[<<g, v>>] /\ valid[<<g, w>>] /\ Tag[<<g, v>>] = Tag[<<g, w>>] => v = w

\* What a miss in flight keeps true of the group it works on: no way holds the
\* tag until the victim does, and before the last beat (last) of the refill the
\* victim has the tag.
Filling(req, last) ==
    /\ state \in {"miss", "replace"} => hit(req) = {}
    /\ state = "refill" => hit(req) \subseteq {chooseway}
    /\ state = "refill" /\ last => Tag[chooseaddr(req)] = req.tag

\* What the data of a cache keep true of the memory m below it, for the lines
\* in L.  A clean line agrees with m, unless it is the victim of a refill.
CleanBacked(req, m, L) ==
    /\ \A s \in Slots : ~valid[s] => ~dirty[s]
    /\ \A g \in Groups, w \in Ways :
          /\ valid[<<g, w>>] /\ ~dirty[<<g, w>>] /\ <<Tag[<<g, w>>], g>> \in L
          /\ ~(state = "refill" /\ g = req.group /\ w = chooseway)
          => ram[<<g, w>>] = m[<<Tag[<<g, w>>], g>>]

\* A lookup that hits has the line in the output register of the data RAM.
LookupRead(req) == state = "lookup" => \A w \in hit(req) : Q = ram[<<req.group, w>>]

\* A write-back sends a dirty line; before its last beat m has the first one.
WritingBack(req, m) ==
    state = "replace" =>
        /\ axivalid(req) /\ Q = ram[chooseaddr(req)]
        /\ Reglen = 0 => \A i \in InBeat :
              m[<<Tag[chooseaddr(req)], req.group>>][i] = ram[chooseaddr(req)][i]

\* A refill loses nothing; before its last beat the victim has the first one.
Refilling(req, last, m, L) ==
    state = "refill" =>
        /\ ~dirty[chooseaddr(req)]
        /\ last /\ <<req.tag, req.group>> \in L => \A i \in InBeat :
              ram[chooseaddr(req)][i] = m[<<req.tag, req.group>>][i]

Backed(req, last, m, L) ==
    CleanBacked(req, m, L) /\ LookupRead(req) /\ WritingBack(req, m) /\ Refilling(req, last, m, L)

\* What the bus owes a cache: a refill beat is its half of the line in m, and
\* m2, the memory after the edge, is m but for the beat of a write-back.
Served(req, bus, m, m2, L) ==
    /\ state = "refill" /\ bus.r_valid /\ <<req.tag, req.group>> \in L => \A k \in InBeat :
          bus.r_rdata[k] = m[<<req.tag, req.group>>][IF bus.r_last THEN k + BeatBytes ELSE k]
    /\ state # "replace" => m2 = m
    /\ state = "replace" =>
          LET victim == <<Tag[chooseaddr(req)], req.group>>
          IN  /\ bus.w_ready
              /\ \A l \in Lines \ {victim} : m2[l] = m[l]
              /\ \A k \in InBeat :
                    /\ m2[victim][k] = IF Reglen = 1 THEN Q[k] ELSE m[victim][k]
                    /\ m2[victim][k + BeatBytes] =
                          IF Reglen = 1 THEN m[victim][k + BeatBytes] ELSE Q[k + BeatBytes]

\* The way that a lookup selects is a way of the cache, and a hitting one when
\* some way hits; with unique tags the priority among hits never matters.
LEMMA HitwayType ==
    ASSUME NEW req \in Request, Unique
    PROVE  /\ hitway(req) \in Ways
           /\ hit(req) # {} => hit(req) = {hitway(req)}
  <1>1. CASE hit(req) = {}
    BY <1>1, NWaysAssumption DEF hitway, Ways
  <1>2. CASE hit(req) # {}
    <2>1. PICK w \in hit(req) : hit(req) = {w}
      BY <1>2 DEF hit, Unique, Request
    <2>2. w \in Nat /\ w \in Ways
      BY <2>1 DEF hit, Ways
    <2>3. hitway(req) = w
      BY <2>1, <2>2 DEF hitway
    <2> QED
      BY <2>1, <2>2, <2>3
  <1> QED
    BY <1>1, <1>2

\* A store hit turns a line into a line.
LEMMA HitDataType ==
    ASSUME NEW req \in Request, NEW line \in LineData
    PROVE  hitDataWrite(req, line) \in LineData
  BY BeatBytesAssumption
  DEF hitDataWrite, Request, LineData, BeatData, InLine, InBeat, LineBytes

\* A refill beat turns a line into a line.
LEMMA RefillDataType ==
    ASSUME NEW bus \in Bus, NEW line \in LineData
    PROVE  refilldata(bus, line) \in LineData
  BY BeatBytesAssumption
  DEF refilldata, Bus, LineData, BeatData, InLine, InBeat, LineBytes

\* Every clock edge keeps the registers of the cache in their types.
LEMMA CacheStepType ==
    ASSUME NEW en \in BOOLEAN, NEW req \in Request, NEW bus \in Bus,
           TypeOK, Unique, Step(en, req, bus)
    PROVE  TypeOK'
  <1> USE DEF TypeOK
  <1>1. CASE Rest(en)
    BY <1>1 DEF Rest, cacheVars
  <1>2. CASE Accept(en, req)
    BY <1>2, HitwayType DEF Accept, hitaddr, Slots, Request, States
  <1>3. CASE ReadHit(req)
    BY <1>3 DEF ReadHit, States
  <1>4. CASE WriteHit(req)
    BY <1>4, HitwayType, HitDataType DEF WriteHit, hitaddr, Slots, Request, States
  <1>5. CASE LookupMiss(req)
    BY <1>5 DEF LookupMiss, States
  <1>6. CASE MissWriteBack(req, bus)
    BY <1>6 DEF MissWriteBack, States, Slots, chooseaddr, Request
  <1>7. CASE MissFetch(req, bus)
    BY <1>7 DEF MissFetch, States
  <1>8. CASE Replace(req, bus)
    BY <1>8 DEF Replace, States, w_last, Slots, chooseaddr, Request
  <1>9. CASE Refill(req, bus)
    BY <1>9, RefillDataType DEF Refill, TagWen, validWriteEn, States, Slots, chooseaddr, Request
  <1> QED
    BY <1>1, <1>2, <1>3, <1>4, <1>5, <1>6, <1>7, <1>8, <1>9 DEF Step

\* Refilling a way never duplicates a tag, and never gives a way two owners.
LEMMA CacheStepUnique ==
    ASSUME NEW en \in BOOLEAN, NEW req \in Request, NEW bus \in Bus,
           TypeOK, Unique, Filling(req, bus.r_last), Step(en, req, bus)
    PROVE  Unique'
  <1> USE DEF Unique
  <1>1. CASE UNCHANGED <<valid, Tag>>
    BY <1>1
  <1>2. CASE Refill(req, bus)
    <2>1. chooseaddr(req) \in Slots /\ chooseway \in Ways
      BY DEF TypeOK, chooseaddr, Slots, Request
    <2>2. CASE bus.r_valid /\ bus.r_last
      <3>1. Tag' = Tag /\ valid' = [valid EXCEPT ![chooseaddr(req)] = TRUE]
        BY <1>2, <2>2 DEF Refill, TagWen, validWriteEn
      <3>2. Tag[chooseaddr(req)] = req.tag /\ hit(req) \subseteq {chooseway}
        BY <1>2, <2>2 DEF Refill, Filling
      <3>3. \A g \in Groups, w \in Ways :
               valid'[<<g, w>>] => valid[<<g, w>>] \/ (g = req.group /\ w = chooseway)
        BY <2>1, <3>1 DEF TypeOK, chooseaddr, Slots
      <3> QED
        BY <3>1, <3>2, <3>3 DEF hit, chooseaddr
    <2>3. CASE bus.r_valid /\ ~bus.r_last
      <3>1. valid' = valid /\ Tag' = [Tag EXCEPT ![chooseaddr(req)] = req.tag]
        BY <1>2, <2>3 DEF Refill, TagWen, validWriteEn
      <3>2. hit(req) \subseteq {chooseway}
        BY <1>2, <2>3 DEF Refill, Filling
      <3> QED
        BY <2>1, <3>1, <3>2 DEF TypeOK, hit, chooseaddr, Slots
    <2>4. CASE ~bus.r_valid
      BY <1>2, <2>4 DEF Refill, TagWen, validWriteEn
    <2> QED
      BY <2>2, <2>3, <2>4
  <1> QED
    BY <1>1, <1>2 DEF Step, Rest, Accept, ReadHit, WriteHit, LookupMiss, MissWriteBack,
       MissFetch, Replace, cacheVars

\* A miss in flight stays one, if the request does not change and a last beat
\* only comes after a first one.
LEMMA CacheStepFilling ==
    ASSUME NEW en \in BOOLEAN, NEW req \in Request, NEW bus \in Bus, NEW last \in BOOLEAN,
           TypeOK, Unique, Filling(req, bus.r_last), Step(en, req, bus),
           last /\ state' = "refill" => state = "refill" /\ bus.r_valid
    PROVE  Filling(req, last)'
  <1> USE DEF Filling, hit, chooseaddr
  <1>1. CASE Refill(req, bus)
    <2>1. chooseaddr(req) \in Slots /\ chooseway \in Ways
      BY DEF TypeOK, Slots, Request
    <2>2. valid' \in [Slots -> BOOLEAN] /\ state' \in {"refill", "lookup"} /\ chooseway' = chooseway
      BY <1>1, <2>1 DEF Refill, validWriteEn, TypeOK
    <2>3. CASE bus.r_valid /\ ~bus.r_last
      <3>1. valid' = valid /\ Tag' = [Tag EXCEPT ![chooseaddr(req)] = req.tag]
        BY <1>1, <2>3 DEF Refill, TagWen, validWriteEn
      <3> QED
        BY <1>1, <2>1, <2>2, <3>1 DEF TypeOK, Slots, Refill, Request
    <2>4. CASE bus.r_valid /\ bus.r_last
      BY <1>1, <2>2, <2>4 DEF Refill, TagWen, validWriteEn
    <2>5. CASE ~bus.r_valid
      BY <1>1, <2>2, <2>5 DEF Refill, TagWen, validWriteEn
    <2> QED
      BY <2>3, <2>4, <2>5
  <1>2. CASE LookupMiss(req)
    BY <1>2 DEF LookupMiss
  <1>3. CASE MissWriteBack(req, bus) \/ MissFetch(req, bus)
    BY <1>3 DEF MissWriteBack, MissFetch, aw_valid, ar_valid
  <1>4. CASE Replace(req, bus)
    BY <1>4 DEF Replace
  <1>5. CASE Rest(en) \/ Accept(en, req) \/ ReadHit(req) \/ WriteHit(req)
    BY <1>5 DEF Rest, Accept, ReadHit, WriteHit, cacheVars
  <1> QED
    BY <1>1, <1>2, <1>3, <1>4, <1>5 DEF Step

\* Where each edge takes the state machine and the write-back counter.
LEMMA CacheArcs ==
    ASSUME NEW en \in BOOLEAN, NEW req \in Request, NEW bus \in Bus,
           TypeOK, Step(en, req, bus)
    PROVE  /\ state = "idle" => state' = (IF en THEN "lookup" ELSE "idle")
           /\ state = "lookup" => state' = (IF dataok(req) THEN "idle" ELSE "miss")
           /\ state = "miss" /\ aw_valid(req) =>
                 state' = (IF bus.aw_ready THEN "replace" ELSE "miss")
           /\ state = "miss" /\ ~aw_valid(req) =>
                 state' = (IF bus.ar_ready THEN "refill" ELSE "miss")
           /\ state = "replace" =>
                 state' = (IF bus.w_ready /\ Reglen = 0 THEN "miss" ELSE "replace")
           /\ state = "refill" =>
                 state' = (IF bus.r_valid /\ bus.r_last THEN "lookup" ELSE "refill")
           /\ state = "miss" /\ aw_valid(req) /\ bus.aw_ready => Reglen' = 1
           /\ state = "replace" /\ bus.w_ready => Reglen' = 0
           /\ state # "replace" /\ state' # "replace" => Reglen' = Reglen
           /\ ~req.op /\ (\A s \in Slots : ~dirty[s]) => \A s \in Slots : ~dirty'[s]
  <1> USE DEF TypeOK, States
  <1>1. CASE Rest(en)
    BY <1>1 DEF Rest, cacheVars
  <1>2. CASE Accept(en, req)
    BY <1>2 DEF Accept
  <1>3. CASE ReadHit(req)
    BY <1>3 DEF ReadHit, dataok
  <1>4. CASE WriteHit(req)
    BY <1>4 DEF WriteHit, dataok
  <1>5. CASE LookupMiss(req)
    BY <1>5 DEF LookupMiss, dataok
  <1>6. CASE MissWriteBack(req, bus)
    BY <1>6 DEF MissWriteBack, aw_valid
  <1>7. CASE MissFetch(req, bus)
    BY <1>7 DEF MissFetch, ar_valid, aw_valid
  <1>8. CASE Replace(req, bus)
    BY <1>8 DEF Replace, w_last
  <1>9. CASE Refill(req, bus)
    BY <1>9 DEF Refill, TagWen, validWriteEn
  <1> QED
    BY <1>1, <1>2, <1>3, <1>4, <1>5, <1>6, <1>7, <1>8, <1>9 DEF Step

\* What becomes of the victim: a refill leaves it with the tag it was for, a
\* write-back leaves it clean, and waiting for the bus leaves it as it is.
LEMMA CacheVictim ==
    ASSUME NEW en \in BOOLEAN, NEW req \in Request, NEW bus \in Bus,
           TypeOK, Filling(req, bus.r_last), Step(en, req, bus)
    PROVE  /\ state \in {"miss", "replace", "refill"} => chooseway' = chooseway
           /\ state = "refill" /\ state' = "lookup" =>
                 valid'[chooseaddr(req)] /\ Tag'[chooseaddr(req)] = req.tag
           /\ state = "replace" /\ state' = "miss" => ~dirty'[chooseaddr(req)]
           /\ state = "miss" /\ state' = "miss" => valid' = valid /\ dirty' = dirty
  <1>1. chooseaddr(req) \in Slots
    BY DEF TypeOK, Slots, Request, chooseaddr
  <1>2. CASE MissWriteBack(req, bus)
    BY <1>2 DEF MissWriteBack, aw_valid
  <1>3. CASE MissFetch(req, bus)
    BY <1>3 DEF MissFetch, ar_valid
  <1>4. CASE Replace(req, bus)
    BY <1>1, <1>4 DEF Replace, w_last, TypeOK
  <1>5. CASE Refill(req, bus)
    BY <1>1, <1>5 DEF Refill, TagWen, validWriteEn, TypeOK, Filling
  <1> QED
    BY <1>2, <1>3, <1>4, <1>5 DEF Step, Rest, Accept, ReadHit, WriteHit, LookupMiss, dataok

\* Two lines with the same halves are the same.
LEMMA LineHalves ==
    ASSUME NEW a \in LineData, NEW b \in LineData,
           \A k \in InBeat : a[k] = b[k],
           \A k \in InBeat : a[k + BeatBytes] = b[k + BeatBytes]
    PROVE  a = b
  <1>1. ASSUME NEW i \in InLine PROVE a[i] = b[i]
    <2>1. CASE i \in InBeat
      BY <2>1
    <2>2. CASE i \notin InBeat
      <3>1. i - BeatBytes \in InBeat /\ (i - BeatBytes) + BeatBytes = i
        BY <2>2, BeatBytesAssumption DEF InLine, InBeat, LineBytes
      <3> QED
        BY <3>1
    <2> QED
      BY <2>1, <2>2
  <1> QED
    BY <1>1 DEF LineData

\* A clock edge leaves the data of a cache backed by the memory after it, if
\* the bus serves it.
LEMMA CacheStepBacked ==
    ASSUME NEW en \in BOOLEAN, NEW req \in Request, NEW bus \in Bus, NEW last \in BOOLEAN,
           NEW L, NEW m \in [Lines -> LineData], NEW m2 \in [Lines -> LineData],
           TypeOK, Unique, Filling(req, bus.r_last), Backed(req, bus.r_last, m, L),
           Served(req, bus, m, m2, L), Step(en, req, bus),
           last /\ state' = "refill" => state = "refill" /\ bus.r_valid
    PROVE  Backed(req, last, m2, L)'
  <1> DEFINE c == chooseaddr(req)
  <1>1. c = <<req.group, chooseway>> /\ c \in Slots /\ chooseway \in Ways /\ req.group \in Groups
    BY DEF TypeOK, chooseaddr, Slots, Request
  <1>2. hitway(req) \in Ways /\ (hit(req) # {} => hit(req) = {hitway(req)})
    BY HitwayType
  <1> USE DEF Backed, CleanBacked, LookupRead, WritingBack, Refilling
  <1>3. CASE Rest(en)
    BY <1>3 DEF Rest, cacheVars, Served, hit, chooseaddr, axivalid
  <1>4. CASE Accept(en, req)
    BY <1>2, <1>4 DEF Accept, Served, hit, hitaddr
  <1>5. CASE ReadHit(req)
    BY <1>5 DEF ReadHit, Served, dataok
  <1>6. CASE WriteHit(req)
    <2>1. hitaddr(req) \in Slots /\ valid[hitaddr(req)]
      BY <1>1, <1>2, <1>6 DEF WriteHit, dataok, hit, hitaddr, Slots
    <2>2. /\ state = "lookup" /\ state' = "idle" /\ valid' = valid /\ Tag' = Tag /\ m2 = m
          /\ ram' = [ram EXCEPT ![hitaddr(req)] = hitDataWrite(req, @)]
          /\ dirty' = [dirty EXCEPT ![hitaddr(req)] = TRUE]
      BY <1>6 DEF WriteHit, dataok, Served
    <2>3. \A s \in Slots : s # hitaddr(req) => ram'[s] = ram[s] /\ dirty'[s] = dirty[s]
      BY <2>2 DEF TypeOK
    <2>4. dirty'[hitaddr(req)]
      BY <2>1, <2>2 DEF TypeOK
    <2> QED
      BY <2>1, <2>2, <2>3, <2>4 DEF Slots
  <1>7. CASE LookupMiss(req)
    BY <1>7 DEF LookupMiss, Served
  <1>8. CASE MissWriteBack(req, bus)
    BY <1>8 DEF MissWriteBack, aw_valid, Served, axivalid, chooseaddr
  <1>9. CASE MissFetch(req, bus)
    <2>1. ~dirty[c]
      BY <1>1, <1>9 DEF MissFetch, ar_valid, axivalid
    <2>2. /\ state = "miss" /\ state' \in {"miss", "refill"} /\ m2 = m
          /\ UNCHANGED <<valid, dirty, Tag, ram, Q, chooseway, Reglen>>
      BY <1>9 DEF MissFetch, ar_valid, Served
    <2>3. ~(last /\ state' = "refill")
      BY <2>2
    <2> QED
      BY <2>1, <2>2, <2>3 DEF chooseaddr
  <1>10. CASE Replace(req, bus)
    <2> DEFINE victim == <<Tag[c], req.group>>
    <2>1. /\ state = "replace" /\ bus.w_ready /\ valid[c] /\ dirty[c] /\ Q = ram[c]
          /\ victim \in Lines /\ Reglen \in {0, 1}
          /\ UNCHANGED <<valid, Tag, ram, chooseway>>
      BY <1>1, <1>10 DEF Replace, Served, axivalid, TypeOK, Lines
    <2>2. \A g \in Groups, w \in Ways :
             valid[<<g, w>>] /\ <<Tag[<<g, w>>], g>> = victim => g = req.group /\ w = chooseway
      BY <1>1, <2>1 DEF Unique
    <2>3. /\ \A l \in Lines \ {victim} : m2[l] = m[l]
          /\ \A k \in InBeat :
                /\ m2[victim][k] = IF Reglen = 1 THEN Q[k] ELSE m[victim][k]
                /\ m2[victim][k + BeatBytes] =
                      IF Reglen = 1 THEN m[victim][k + BeatBytes] ELSE Q[k + BeatBytes]
      BY <2>1 DEF Served
    <2>4. CASE Reglen = 1
      <3>1. state' = "replace" /\ Reglen' = 0 /\ Q' = ram[c]
        BY <1>1, <1>10, <2>1, <2>4 DEF Replace, w_last
      <3>2. dirty' = dirty
        <4>1. dirty' = [dirty EXCEPT ![c] = dirty[c] /\ ~w_last]
          BY <1>10 DEF Replace
        <4>2. (dirty[c] /\ ~w_last) = dirty[c]
          <5>1. dirty[c] \in BOOLEAN
            BY <1>1 DEF TypeOK
          <5>2. ~w_last
            BY <2>4 DEF w_last
          <5> HIDE DEF c
          <5> QED
            BY <5>1, <5>2, Zenon
        <4> QED
          BY <1>1, <4>1, <4>2 DEF TypeOK
      <3>3. CleanBacked(req, m2, L)'
        <4>1. ASSUME NEW g \in Groups, NEW w \in Ways, valid[<<g, w>>], ~dirty[<<g, w>>]
              PROVE  m2[<<Tag[<<g, w>>], g>>] = m[<<Tag[<<g, w>>], g>>]
          <5>1. <<Tag[<<g, w>>], g>> \in Lines
            BY DEF TypeOK, Slots, Lines
          <5>2. <<Tag[<<g, w>>], g>> # victim
            BY <1>1, <2>1, <2>2, <4>1
          <5> QED
            BY <2>3, <5>1, <5>2
        <4> QED
          BY <2>1, <3>1, <3>2, <4>1
      <3>4. WritingBack(req, m2)'
        BY <1>1, <2>1, <2>3, <2>4, <3>1, <3>2 DEF axivalid, chooseaddr
      <3> QED
        BY <3>1, <3>3, <3>4
    <2>5. CASE Reglen = 0
      <3>1. state' = "miss" /\ dirty' = [dirty EXCEPT ![c] = FALSE]
        BY <1>1, <1>10, <2>1, <2>5 DEF Replace, w_last, TypeOK
      <3>2. m2[victim] = ram[c]
        <4>1. m2[victim] \in LineData /\ ram[c] \in LineData
          BY <1>1, <2>1 DEF TypeOK
        <4>2. \A i \in InBeat : m2[victim][i] = ram[c][i]
          BY <2>1, <2>3, <2>5
        <4>3. \A k \in InBeat : m2[victim][k + BeatBytes] = ram[c][k + BeatBytes]
          BY <2>1, <2>3, <2>5
        <4> HIDE DEF victim, c
        <4> QED
          BY <4>1, <4>2, <4>3, LineHalves
      <3>3. CleanBacked(req, m2, L)'
        <4>1. \A s \in Slots : dirty'[s] = (dirty[s] /\ s # c)
          BY <3>1 DEF TypeOK
        <4>2. ASSUME NEW g \in Groups, NEW w \in Ways, valid[<<g, w>>], ~dirty[<<g, w>>]
              PROVE  m2[<<Tag[<<g, w>>], g>>] = m[<<Tag[<<g, w>>], g>>]
          <5>1. <<Tag[<<g, w>>], g>> \in Lines
            BY DEF TypeOK, Slots, Lines
          <5>2. <<Tag[<<g, w>>], g>> # victim
            BY <1>1, <2>1, <2>2, <4>2
          <5> QED
            BY <2>3, <5>1, <5>2
        <4> QED
          BY <1>1, <2>1, <3>1, <3>2, <4>1, <4>2 DEF Slots
      <3> QED
        BY <3>1, <3>3
    <2> QED
      BY <2>1, <2>4, <2>5
  <1>11. CASE Refill(req, bus)
    <2> DEFINE home == <<req.tag, req.group>>
               new == IF bus.r_valid THEN refilldata(bus, ram[c]) ELSE ram[c]
    <2>1. /\ state = "refill" /\ ram' = [ram EXCEPT ![c] = new] /\ dirty' = dirty /\ ~dirty[c]
          /\ chooseway' = chooseway /\ m2 = m
      BY <1>11 DEF Refill, Served
    <2>2. \A s \in Slots : ram'[s] = IF s = c THEN new ELSE ram[s]
      BY <1>1, <2>1 DEF TypeOK
    <2>3. CASE ~bus.r_valid
      <3>1. state' = "refill" /\ UNCHANGED <<valid, Tag>> /\ ~last
        BY <1>11, <2>3 DEF Refill, TagWen, validWriteEn
      <3> QED
        BY <1>1, <2>1, <2>2, <2>3, <3>1 DEF chooseaddr, Slots
    <2>4. CASE bus.r_valid /\ ~bus.r_last
      <3>1. state' = "refill" /\ valid' = valid /\ Tag' = [Tag EXCEPT ![c] = req.tag]
        BY <1>11, <2>4 DEF Refill, TagWen, validWriteEn
      <3>2. home \in L => \A i \in InBeat : new[i] = m[home][i]
        BY <2>1, <2>4, BeatBytesAssumption DEF Served, refilldata, InLine, InBeat, LineBytes
      <3>3. \A s \in Slots : s # c => Tag'[s] = Tag[s]
        BY <3>1 DEF TypeOK
      <3> HIDE DEF new
      <3>4. CleanBacked(req, m2, L)'
        BY <1>1, <2>1, <2>2, <3>1, <3>3 DEF Slots
      <3>5. Refilling(req, last, m2, L)'
        BY <1>1, <2>1, <2>2, <3>2 DEF chooseaddr
      <3> QED
        BY <3>1, <3>4, <3>5
    <2>5. CASE bus.r_valid /\ bus.r_last
      <3>1. /\ state' = "lookup" /\ Tag' = Tag /\ valid' = [valid EXCEPT ![c] = TRUE]
            /\ Q' = new
        BY <1>11, <2>5 DEF Refill, TagWen, validWriteEn
      <3>2. Tag[c] = req.tag /\ hit(req) \subseteq {chooseway}
        BY <2>1, <2>5 DEF Filling
      <3>3. home \in L => new = m[home]
        <4> SUFFICES ASSUME home \in L PROVE new = m[home]
          OBVIOUS
        <4>1. ram[c] \in LineData /\ home \in Lines
          BY <1>1 DEF TypeOK, Lines, Request
        <4>2. new \in LineData /\ m[home] \in LineData
          BY <4>1, RefillDataType
        <4>3. \A i \in InBeat : new[i] = m[home][i]
          BY <2>1, <2>5, BeatBytesAssumption DEF refilldata, InLine, InBeat, LineBytes
        <4>4. ASSUME NEW k \in InBeat PROVE new[k + BeatBytes] = m[home][k + BeatBytes]
          <5>1. /\ k + BeatBytes \in InLine /\ k + BeatBytes >= BeatBytes
                /\ (k + BeatBytes) - BeatBytes = k
            BY BeatBytesAssumption DEF InLine, InBeat, LineBytes
          <5>2. new[k + BeatBytes] = bus.r_rdata[k]
            BY <2>5, <5>1 DEF refilldata
          <5> QED
            BY <2>1, <2>5, <5>2 DEF Served
        <4> HIDE DEF new, home
        <4> QED
          BY <4>2, <4>3, <4>4, LineHalves
      <3>4. \A s \in Slots : valid'[s] = (valid[s] \/ s = c)
        BY <1>1, <3>1 DEF TypeOK
      <3> HIDE DEF new
      <3>5. CleanBacked(req, m2, L)'
        BY <1>1, <2>1, <2>2, <3>1, <3>2, <3>3, <3>4 DEF Slots
      <3>6. LookupRead(req)'
        BY <1>1, <2>2, <3>1, <3>2, <3>4 DEF hit, Slots
      <3> QED
        BY <3>1, <3>5, <3>6
    <2> QED
      BY <2>3, <2>4, <2>5
  <1> HIDE DEF Backed, CleanBacked, LookupRead, WritingBack, Refilling
  <1> QED
    BY <1>3, <1>4, <1>5, <1>6, <1>7, <1>8, <1>9, <1>10, <1>11 DEF Step

\* What an edge leaves alone: only a store that hits writes the data of a line,
\* apart from a refill, which works on the victim; the victim is chosen by a
\* lookup that misses.
LEMMA CacheKeeps ==
    ASSUME NEW en \in BOOLEAN, NEW req \in Request, NEW bus \in Bus,
           TypeOK, Step(en, req, bus)
    PROVE  /\ state # "refill" => UNCHANGED <<valid, Tag>>
           /\ state # "refill" /\ ~(dataok(req) /\ req.op) => UNCHANGED ram
           /\ state # "lookup" => UNCHANGED chooseway
           /\ state = "refill" => \A s \in Slots \ {chooseaddr(req)} :
                 valid'[s] = valid[s] /\ Tag'[s] = Tag[s] /\ ram'[s] = ram[s]
           /\ dataok(req) /\ req.op =>
                 ram' = [ram EXCEPT ![hitaddr(req)] = hitDataWrite(req, @)]
  <1>1. CASE Refill(req, bus)
    BY <1>1 DEF Refill, dataok, TypeOK
  <1>2. CASE WriteHit(req)
    BY <1>2 DEF WriteHit, dataok
  <1>3. CASE LookupMiss(req) \/ ReadHit(req)
    BY <1>3 DEF LookupMiss, ReadHit, dataok
  <1>4. CASE Rest(en) \/ Accept(en, req) \/ MissWriteBack(req, bus) \/ MissFetch(req, bus)
                \/ Replace(req, bus)
    BY <1>4 DEF Rest, Accept, MissWriteBack, MissFetch, Replace, dataok, cacheVars, aw_valid, ar_valid
  <1> QED
    BY <1>1, <1>2, <1>3, <1>4 DEF Step

\* Only lines that are stored to become dirty.
LEMMA CacheStepDirty ==
    ASSUME NEW en \in BOOLEAN, NEW req \in Request, NEW bus \in Bus, NEW S,
           TypeOK, Unique, Step(en, req, bus),
           req.op => <<req.tag, req.group>> \in S,
           state = "refill" => ~dirty[chooseaddr(req)],
           \A g \in Groups, w \in Ways : dirty[<<g, w>>] => <<Tag[<<g, w>>], g>> \in S
    PROVE  \A g \in Groups, w \in Ways : dirty'[<<g, w>>] => <<Tag'[<<g, w>>], g>> \in S
  <1>1. CASE UNCHANGED <<dirty, Tag>>
    BY <1>1
  <1>2. CASE WriteHit(req)
    <2>1. hitaddr(req) \in Slots /\ Tag[hitaddr(req)] = req.tag
      BY <1>2, HitwayType DEF WriteHit, dataok, hit, hitaddr, Slots, Request
    <2>2. \A s \in Slots : dirty'[s] => dirty[s] \/ s = hitaddr(req)
      BY <1>2, <2>1 DEF WriteHit, TypeOK
    <2> QED
      BY <1>2, <2>1, <2>2 DEF WriteHit, hitaddr, Slots
  <1>3. CASE Replace(req, bus)
    <2>1. \A s \in Slots : dirty'[s] => dirty[s]
      BY <1>3 DEF Replace, TypeOK
    <2> QED
      BY <1>3, <2>1 DEF Replace, Slots
  <1>4. CASE Refill(req, bus)
    <2>1. \A s \in Slots : s # chooseaddr(req) => Tag'[s] = Tag[s]
      BY <1>4 DEF Refill, TypeOK
    <2> QED
      BY <1>4, <2>1 DEF Refill, Slots
  <1> QED
    BY <1>1, <1>2, <1>3, <1>4
    DEF Step, Rest, Accept, ReadHit, LookupMiss, MissWriteBack, MissFetch, cacheVars

=============================================================================

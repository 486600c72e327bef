--------------------------- MODULE CacheSimProofs ---------------------------
(***************************************************************************)
(* For every geometry of the cache simulator: the assertions of main.c     *)
(* never fail.                                                             *)
(***************************************************************************)
EXTENDS CacheSim, Integers, TLAPS

-----------------------------------------------------------------------------
(* Division with remainder.                                                *)

\* Quotient and remainder of the shifts and masks that split an address.
LEMMA DivMod ==
    ASSUME NEW n \in Nat, NEW d \in Nat \ {0}
    PROVE  /\ n \div d \in Nat
           /\ n % d \in 0 .. d - 1
           /\ n = (n \div d) * d + (n % d)
<1>1. n \div d \in Int
  OBVIOUS
<1>2. n % d \in 0 .. d - 1
  OBVIOUS
<1>3. n = (n \div d) * d + (n % d)
  OBVIOUS
<1>4. n \div d >= 0
  BY <1>1, <1>2, <1>3
<1>5. QED
  BY <1>1, <1>2, <1>3, <1>4

\* They are the only ones.
LEMMA DivModUnique ==
    ASSUME NEW d \in Nat \ {0}, NEW q \in Nat, NEW r \in 0 .. d - 1,
           NEW p \in Nat, NEW s \in 0 .. d - 1,
           q * d + r = p * d + s
    PROVE  q = p /\ r = s
<1>1. CASE q < p
  <2>1. (q + 1) * d <= p * d
    BY <1>1
  <2>2. QED
    BY <2>1
<1>2. CASE p < q
  <2>1. (p + 1) * d <= q * d
    BY <1>2
  <2>2. QED
    BY <2>1
<1>3. QED
  BY <1>1, <1>2

\* A quotient is below t if the number is below t times the divisor.
LEMMA DivBound ==
    ASSUME NEW n \in Nat, NEW d \in Nat \ {0}, NEW t \in Nat, n < t * d
    PROVE  n \div d \in 0 .. t - 1
<1>1. ASSUME NEW q \in Nat, NEW r \in 0 .. d - 1, n = q * d + r PROVE q < t
  <2>1. SUFFICES ASSUME t <= q PROVE FALSE
    OBVIOUS
  <2>2. t * d <= q * d
    BY <2>1
  <2>3. QED
    BY <2>2, <1>1
<1>2. n \div d < t
  BY <1>1, DivMod
<1>3. QED
  BY <1>2, DivMod

\* A quotient below t and a remainder make a number below t times the divisor.
LEMMA MulBound ==
    ASSUME NEW d \in Nat \ {0}, NEW t \in Nat, NEW q \in 0 .. t - 1, NEW r \in 0 .. d - 1
    PROVE  q * d + r \in 0 .. t * d - 1
<1>1. (q + 1) * d <= t * d
  OBVIOUS
<1>2. q * d \in Nat /\ t * d \in Nat
  OBVIOUS
<1>3. QED
  BY <1>1, <1>2

-----------------------------------------------------------------------------
(* Where a word is, in memory and in the cache.                            *)

Groups == 0 .. NGroups - 1
Lines == 0 .. NLines - 1

\* The products are numbers.
LEMMA Sizes ==
    /\ NLines \in Nat /\ NBlocks \in Nat /\ NWords \in Nat
    /\ Words \subseteq Nat
BY WidthAssumption DEF NLines, NBlocks, NWords, Words

\* get_blocknum and get_block take a word number apart, get_tag and get_group
\* its block number; get_blocknum_cache puts the latter together again.
LEMMA Place ==
    ASSUME NEW w \in Words
    PROVE  /\ get_blocknum(w) \in 0 .. NBlocks - 1
           /\ get_block(w) \in InBlock
           /\ w = get_blocknum(w) * BlockWords + get_block(w)
           /\ get_tag(w) \in Tags
           /\ get_group(w) \in Groups
           /\ get_blocknum(w) = get_blocknum_cache(get_tag(w), get_group(w))
<1>1. w \in Nat /\ w < NBlocks * BlockWords /\ NBlocks \in Nat
  BY Sizes DEF Words, NWords
<1>2. get_blocknum(w) \in 0 .. NBlocks - 1
  BY <1>1, DivBound, WidthAssumption DEF get_blocknum
<1>3. get_block(w) \in InBlock /\ w = get_blocknum(w) * BlockWords + get_block(w)
  BY <1>1, DivMod, WidthAssumption DEF get_blocknum, get_block, InBlock
<1>4. get_blocknum(w) \in Nat /\ get_blocknum(w) < NTags * NGroups
  BY <1>1, <1>2 DEF NBlocks
<1>5. get_tag(w) \in Tags
  BY <1>4, DivBound, WidthAssumption DEF get_tag, Tags
<1>6. /\ get_group(w) \in Groups
      /\ get_blocknum(w) = get_blocknum_cache(get_tag(w), get_group(w))
  BY <1>4, DivMod, WidthAssumption DEF get_tag, get_group, get_blocknum_cache, Groups
<1>7. QED
  BY <1>2, <1>3, <1>5, <1>6

\* The lines that cache_line_addr computes belong to the group of the word.
LEMMA LinePlace ==
    ASSUME NEW w \in Words, NEW line \in Ways
    PROVE  /\ cache_line_addr(w, line) \in Lines
           /\ cache_line_addr(w, line) \div NWays = get_group(w)
<1>1. get_group(w) \in Groups /\ NGroups \in Nat /\ NWays \in Nat \ {0}
  BY Place, WidthAssumption
<1>2. cache_line_addr(w, line) \in Lines
  BY <1>1, MulBound DEF cache_line_addr, Lines, NLines, Groups, Ways
<1>3. cache_line_addr(w, line) \in Nat
  BY <1>2, Sizes DEF Lines
<1>4. /\ cache_line_addr(w, line) \div NWays \in Nat
      /\ cache_line_addr(w, line) % NWays \in 0 .. NWays - 1
      /\ cache_line_addr(w, line) = (cache_line_addr(w, line) \div NWays) * NWays
                                       + (cache_line_addr(w, line) % NWays)
  BY <1>1, <1>3, DivMod
<1>5. get_group(w) \in Nat /\ line \in 0 .. NWays - 1
  BY <1>1 DEF Groups, Ways
<1>6. get_group(w) * NWays + line = (cache_line_addr(w, line) \div NWays) * NWays
                                       + (cache_line_addr(w, line) % NWays)
  BY <1>4 DEF cache_line_addr
<1>7. QED
  BY <1>1, <1>2, <1>4, <1>5, <1>6, DivModUnique

\* Every line of the array is a line of one group.
LEMMA LineGroup ==
    ASSUME NEW i \in Lines
    PROVE  /\ i \div NWays \in Groups
           /\ \E line \in Ways : i = (i \div NWays) * NWays + line
<1>1. i \in Nat /\ i < NGroups * NWays
  BY Sizes DEF Lines, NLines
<1>2. i \div NWays \in Groups
  BY <1>1, DivBound, WidthAssumption DEF Groups
<1>3. i % NWays \in Ways /\ i = (i \div NWays) * NWays + (i % NWays)
  BY <1>1, DivMod, WidthAssumption DEF Ways
<1>4. QED
  BY <1>2, <1>3

\* A tag and a group determine the block number and the other way round.
LEMMA BlockUnique ==
    ASSUME NEW w \in Words, NEW tag \in Tags, NEW group \in Groups
    PROVE  get_blocknum_cache(tag, group) = get_blocknum(w)
              <=> tag = get_tag(w) /\ group = get_group(w)
<1>1. /\ get_tag(w) \in Nat /\ get_group(w) \in 0 .. NGroups - 1
      /\ get_blocknum(w) = get_tag(w) * NGroups + get_group(w)
  BY Place DEF get_blocknum_cache, Tags, Groups
<1>2. tag \in Nat /\ group \in 0 .. NGroups - 1
  BY DEF Tags, Groups
<1>3. ASSUME tag * NGroups + group = get_tag(w) * NGroups + get_group(w)
      PROVE  tag = get_tag(w) /\ group = get_group(w)
  <2>1. NGroups \in Nat \ {0}
    BY WidthAssumption
  <2>2. QED
    BY <1>1, <1>2, <1>3, <2>1, DivModUnique, ZenonT(30)
<1>4. QED
  BY <1>1, <1>3 DEF get_blocknum_cache

\* A word is one of a block exactly if it is at the distance of its offset.
LEMMA InBlockIff ==
    ASSUME NEW x \in Words, NEW block \in Nat
    PROVE  /\ x - block * BlockWords \in InBlock <=> block = get_blocknum(x)
           /\ block = get_blocknum(x) => x - block * BlockWords = get_block(x)
<1>1. /\ get_blocknum(x) \in Nat /\ get_block(x) \in 0 .. BlockWords - 1
      /\ x = get_blocknum(x) * BlockWords + get_block(x)
  BY Place, Sizes DEF InBlock
<1>2. get_blocknum(x) * BlockWords \in Nat /\ block * BlockWords \in Nat
  BY <1>1, WidthAssumption
<1>3. block = get_blocknum(x) => x - block * BlockWords = get_block(x)
  <2>1. SUFFICES ASSUME block = get_blocknum(x)
                 PROVE  x - block * BlockWords = get_block(x)
    OBVIOUS
  <2> DEFINE first == block * BlockWords
  <2>2. first \in Nat /\ get_block(x) \in Nat /\ x = first + get_block(x)
    BY <1>1, <1>2, <2>1
  <2>3. SUFFICES x - first = get_block(x)
    OBVIOUS
  <2> HIDE DEF first
  <2>4. QED
    BY <2>2
<1>4. ASSUME x - block * BlockWords \in InBlock PROVE block = get_blocknum(x)
  <2>1. PICK r \in 0 .. BlockWords - 1 : r = x - block * BlockWords
    BY <1>4 DEF InBlock
  <2>2. x = block * BlockWords + r
    <3> DEFINE first == block * BlockWords
    <3>1. first \in Int /\ x \in Int /\ BlockWords \in Int /\ r = x - first
      BY <1>2, <2>1, Sizes, WidthAssumption
    <3>2. SUFFICES x = first + r
      OBVIOUS
    <3> HIDE DEF first
    <3>3. QED
      BY <3>1
  <2>3. QED
    BY <1>1, <2>2, DivModUnique, WidthAssumption
<1>5. QED
  BY <1>1, <1>3, <1>4 DEF InBlock

-----------------------------------------------------------------------------
(* What a state says about the lines of the cache.                         *)

Coherent == TypeOK /\ OneCopy /\ Overlay

\* Membership in Holders without arithmetic.
LEMMA HoldersIff ==
    ASSUME TypeOK, NEW w \in Words, NEW i \in Lines
    PROVE  i \in Holders(w) <=> /\ cache[i].valid
                                /\ cache[i].tag = get_tag(w)
                                /\ i \div NWays = get_group(w)
<1>1. cache[i].tag \in Tags /\ i \div NWays \in Groups
  BY LineGroup DEF TypeOK, Line, Lines
<1>2. QED
  BY <1>1, BlockUnique DEF Holders, Lines

\* The words of a block are in the same lines.
LEMMA SameBlock ==
    ASSUME TypeOK, NEW w \in Words, NEW x \in Words, NEW i \in Holders(w)
    PROVE  i \in Holders(x) <=> get_blocknum(x) = get_blocknum(w)
BY DEF Holders

\* Hits finds a line exactly if there is one.
LEMMA HitsHold ==
    ASSUME TypeOK, NEW w \in Words
    PROVE  /\ \A line \in Hits(w) : cache_line_addr(w, line) \in Holders(w)
           /\ Hits(w) = {} => Holders(w) = {}
<1>1. ASSUME NEW line \in Hits(w) PROVE cache_line_addr(w, line) \in Holders(w)
  <2>1. line \in Ways
    BY DEF Hits
  <2>2. /\ cache_line_addr(w, line) \in Lines
        /\ cache_line_addr(w, line) \div NWays = get_group(w)
    BY <2>1, LinePlace
  <2>3. QED
    BY <2>1, <2>2, HoldersIff DEF Hits
<1>2. ASSUME NEW i \in Holders(w) PROVE Hits(w) # {}
  <2>1. i \in Lines
    BY DEF Holders, Lines
  <2>2. cache[i].valid /\ cache[i].tag = get_tag(w) /\ i \div NWays = get_group(w)
    BY <2>1, HoldersIff
  <2>3. PICK line \in Ways : i = (i \div NWays) * NWays + line
    BY <2>1, LineGroup
  <2>4. i = cache_line_addr(w, line)
    BY <2>2, <2>3 DEF cache_line_addr
  <2>5. QED
    BY <2>2, <2>4 DEF Hits
<1>3. QED
  BY <1>1, <1>2

\* The line an access works on: in the group of the word, and one that holds
\* it if there is any.
LEMMA WhereIs ==
    ASSUME Coherent, NEW w \in Words, NEW line \in Ways
    PROVE  /\ Where(w, line) \in Lines
           /\ Where(w, line) \div NWays = get_group(w)
           /\ Hits(w) # {} => Where(w, line) \in Holders(w)
           /\ Hits(w) = {} => Holders(w) = {}
<1>1. CASE Hits(w) = {}
  BY <1>1, LinePlace, HitsHold DEF Where, Coherent
<1>2. CASE Hits(w) # {}
  <2>1. \A a, b \in Hits(w) : a = b
    <3>1. SUFFICES ASSUME NEW a \in Hits(w), NEW b \in Hits(w) PROVE a = b
      OBVIOUS
    <3>2. cache_line_addr(w, a) = cache_line_addr(w, b)
      BY HitsHold DEF Coherent, OneCopy
    <3>3. a \in Nat /\ b \in Nat /\ get_group(w) * NWays \in Nat
      BY Place, WidthAssumption DEF Hits, Ways, Groups
    <3>4. QED
      BY <3>2, <3>3 DEF cache_line_addr
  <2>2. \A a \in Hits(w) : a \in Nat
    BY DEF Hits, Ways
  <2>3. HitLine(w) \in Hits(w)
    <3>1. PICK a \in Hits(w) : TRUE
      BY <1>2
    <3>2. \A other \in Hits(w) : a <= other
      BY <2>1, <2>2
    <3>3. QED
      BY <3>1, <3>2 DEF HitLine
  <2>4. HitLine(w) \in Ways
    BY <2>3 DEF Hits
  <2>5. Where(w, line) = cache_line_addr(w, HitLine(w))
    BY <1>2 DEF Where
  <2>6. QED
    BY <1>2, <2>3, <2>4, <2>5, LinePlace, HitsHold DEF Coherent
<1>3. QED
  BY <1>1, <1>2

\* Memory after the victim is gone: a block that only the victim held newly is
\* there, everything else is as before.
LEMMA MemoryAfter ==
    ASSUME Coherent, NEW w \in Words, NEW line \in Ways
    PROVE  /\ MemAfter(w, line) \in [Words -> Word]
           /\ \A x \in Words : MemAfter(w, line)[x] =
                 IF /\ Hits(w) = {} /\ cache[Where(w, line)].dirty
                    /\ Where(w, line) \in Holders(x)
                 THEN cache[Where(w, line)].data[get_block(x)] ELSE mem[x]
<1> DEFINE j == Where(w, line)
           block == get_blocknum_cache(cache[j].tag, get_group(w))
<1>1. j \in Lines /\ j \div NWays = get_group(w) /\ (Hits(w) # {} => j \in Holders(w))
  BY WhereIs
<1>2. cache[j] \in Line /\ mem \in [Words -> Word]
  BY <1>1 DEF Coherent, TypeOK, Lines
<1>3. block \in Nat
  <2>1. cache[j].tag \in Nat /\ get_group(w) \in Nat
    BY <1>2, Place DEF Line, Tags, Groups
  <2>2. QED
    BY <2>1, WidthAssumption DEF get_blocknum_cache
<1>4. CASE Hits(w) = {} /\ cache[j].dirty /\ cache[j].valid
  <2> DEFINE new == [x \in Words |-> IF x - block * BlockWords \in InBlock
                                     THEN cache[j].data[x - block * BlockWords] ELSE mem[x]]
  <2>1. MemAfter(w, line) = new
    BY <1>4 DEF MemAfter, Evicted, WriteBack
  <2>2. ASSUME NEW x \in Words
        PROVE  /\ new[x] \in Word
               /\ new[x] = IF j \in Holders(x) THEN cache[j].data[get_block(x)] ELSE mem[x]
    <3> HIDE DEF j
    <3>1. j \in Holders(x) <=> block = get_blocknum(x)
      BY <1>1, <1>4 DEF Holders, Lines, j
    <3>2. /\ x - block * BlockWords \in InBlock <=> block = get_blocknum(x)
          /\ block = get_blocknum(x) => x - block * BlockWords = get_block(x)
      BY <1>3, InBlockIff
    <3> HIDE DEF block
    <3>3. new[x] = IF j \in Holders(x) THEN cache[j].data[get_block(x)] ELSE mem[x]
      BY <3>1, <3>2
    <3>4. cache[j].data[get_block(x)] \in Word
      BY <1>2, Place DEF Line, Data
    <3>5. QED
      BY <1>2, <3>3, <3>4
  <2>3. QED
    BY <1>4, <2>1, <2>2
<1>5. CASE ~(Hits(w) = {} /\ cache[j].dirty /\ cache[j].valid)
  <2>1. MemAfter(w, line) = mem
    BY <1>5 DEF MemAfter, Evicted
  <2>2. \A x \in Words : j \in Holders(x) => cache[j].valid
    BY DEF Holders
  <2>3. QED
    BY <1>2, <1>5, <2>1, <2>2
<1>6. QED
  BY <1>4, <1>5

\* The line an access finds or brings in holds the block of the word, with the
\* contents of the memory without a cache.
LEMMA BroughtIn ==
    ASSUME Coherent, NEW w \in Words, NEW line \in Ways
    PROVE  /\ Brought(w, line) \in Line
           /\ Brought(w, line).valid
           /\ Brought(w, line).tag = get_tag(w)
           /\ \A x \in Words : get_blocknum(x) = get_blocknum(w) =>
                 /\ Brought(w, line).data[get_block(x)] = mem_diff[x]
                 /\ ~Brought(w, line).dirty => MemAfter(w, line)[x] = mem_diff[x]
<1> DEFINE j == Where(w, line)
           new == MemAfter(w, line)
<1>1. j \in Lines /\ (Hits(w) # {} => j \in Holders(w)) /\ (Hits(w) = {} => Holders(w) = {})
  BY WhereIs
<1>2. CASE Hits(w) # {}
  <2>1. Brought(w, line) = cache[j] /\ MemAfter(w, line) = mem
    BY <1>2 DEF Brought, MemAfter
  <2>2. cache[j] \in Line
    BY <1>1 DEF Coherent, TypeOK, Lines
  <2>3. cache[j].valid /\ cache[j].tag = get_tag(w)
    BY <1>1, <1>2, HoldersIff DEF Coherent
  <2>4. \A x \in Words : get_blocknum(x) = get_blocknum(w) => j \in Holders(x)
    BY <1>1, <1>2, SameBlock DEF Coherent
  <2> HIDE DEF j
  <2>5. QED
    BY <2>1, <2>2, <2>3, <2>4 DEF Coherent, Overlay
<1>3. CASE Hits(w) = {}
  <2>1. Brought(w, line) = Refilled(new, w)
    BY <1>3 DEF Brought
  <2>2. new \in [Words -> Word]
    BY MemoryAfter
  <2>3. ASSUME NEW x \in Words, get_blocknum(x) = get_blocknum(w)
        PROVE  new[x] = mem_diff[x] /\ get_blocknum(w) * BlockWords + get_block(x) = x
    <3>1. Holders(x) = {}
      BY <1>1, <1>3, <2>3 DEF Holders
    <3>2. new[x] = mem[x]
      BY <3>1, MemoryAfter
    <3>3. QED
      BY <3>1, <3>2, <2>3, Place DEF Coherent, Overlay
  <2>4. ASSUME NEW i \in InBlock
        PROVE  get_blocknum(w) * BlockWords + i \in Words
    <3>1. get_blocknum(w) \in 0 .. NBlocks - 1 /\ NBlocks \in Nat
      BY Place, Sizes
    <3>2. QED
      BY <3>1, MulBound, WidthAssumption DEF InBlock, Words, NWords
  <2> HIDE DEF new
  <2>5. Refilled(new, w).data \in Data
    BY <2>2, <2>4 DEF Refilled, Data
  <2>6. Refilled(new, w) \in Line
    BY <2>5, Place DEF Refilled, Line
  <2>7. \A x \in Words : get_blocknum(x) = get_blocknum(w) =>
            Refilled(new, w).data[get_block(x)] = mem_diff[x]
    BY <2>3, Place DEF Refilled
  <2>8. Refilled(new, w).valid /\ Refilled(new, w).tag = get_tag(w)
    BY DEF Refilled
  <2>9. QED
    BY <2>1, <2>3, <2>6, <2>7, <2>8 DEF new
<1>4. QED
  BY <1>2, <1>3

\* A line put in place of the victim, or of the line that was found, keeps the
\* cache coherent if it agrees with the memory without a cache.
LEMMA Install ==
    ASSUME Coherent, NEW w \in Words, NEW line \in Ways, NEW l \in Line,
           l.valid, l.tag = get_tag(w),
           mem_diff' \in [Words -> Word],
           \A x \in Words :
              IF get_blocknum(x) = get_blocknum(w)
              THEN /\ l.data[get_block(x)] = mem_diff'[x]
                   /\ ~l.dirty => MemAfter(w, line)[x] = mem_diff'[x]
              ELSE mem_diff'[x] = mem_diff[x],
           cache' = [cache EXCEPT ![Where(w, line)] = l],
           mem' = MemAfter(w, line),
           step' \in {"random", "diff"}, addr' \in 0 .. NWords,
           ret' \in [cached : Word, uncached : Word]
    PROVE  Coherent'
<1> DEFINE j == Where(w, line)
<1>1. /\ j \in Lines /\ j \div NWays = get_group(w)
      /\ Hits(w) # {} => j \in Holders(w)
      /\ Hits(w) = {} => Holders(w) = {}
  BY WhereIs
<1>2. /\ cache' \in [Lines -> Line]
      /\ cache'[j] = l
      /\ \A i \in Lines : i # j => cache'[i] = cache[i]
  BY <1>1 DEF Coherent, TypeOK, Lines
<1>3. TypeOK'
  BY <1>2, MemoryAfter DEF TypeOK, Lines
<1>4. ASSUME NEW x \in Words, NEW i \in Lines
      PROVE  i \in Holders(x)' <=>
                IF i = j THEN get_blocknum(x) = get_blocknum(w) ELSE i \in Holders(x)
  <2>1. i \in Holders(x)' <=> /\ cache'[i].valid
                              /\ get_blocknum_cache(cache'[i].tag, i \div NWays) = get_blocknum(x)
    BY DEF Holders, Lines
  <2>2. get_blocknum_cache(get_tag(w), get_group(w)) = get_blocknum(w)
    BY Place
  <2> HIDE DEF j
  <2>3. QED
    BY <1>1, <1>2, <2>1, <2>2 DEF Holders, Lines
<1>5. \A x \in Words : Holders(x) \subseteq Lines /\ Holders(x)' \subseteq Lines
  BY DEF Holders, Lines
<1>6. ASSUME NEW x \in Words, get_blocknum(x) = get_blocknum(w), NEW i \in Holders(x)
      PROVE  i = j
  <2>1. i \in Holders(w)
    BY <1>6 DEF Holders
  <2>2. QED
    BY <1>1, <2>1 DEF Coherent, OneCopy
<1> HIDE DEF j
<1>7. OneCopy'
  <2>1. SUFFICES ASSUME NEW x \in Words, NEW a \in Holders(x)', NEW b \in Holders(x)'
                 PROVE  a = b
    BY DEF OneCopy
  <2>2. a \in Lines /\ b \in Lines
    BY <1>5
  <2>3. QED
    BY <1>4, <1>6, <2>2 DEF Coherent, OneCopy
<1>8. Overlay'
  <2>1. SUFFICES ASSUME NEW x \in Words
                 PROVE  /\ \A i \in Holders(x)' :
                              /\ cache'[i].data[get_block(x)] = mem_diff'[x]
                              /\ ~cache'[i].dirty => mem'[x] = mem_diff'[x]
                        /\ Holders(x)' = {} => mem'[x] = mem_diff'[x]
    BY DEF Overlay
  <2>2. mem'[x] = IF Hits(w) = {} /\ cache[j].dirty /\ j \in Holders(x)
                  THEN cache[j].data[get_block(x)] ELSE mem[x]
    BY MemoryAfter DEF j
  <2>3. ASSUME NEW i \in Holders(x)', i = j
        PROVE  /\ cache'[i].data[get_block(x)] = mem_diff'[x]
               /\ ~cache'[i].dirty => mem'[x] = mem_diff'[x]
    BY <1>1, <1>2, <1>4, <2>3
  <2>4. ASSUME NEW i \in Holders(x)', i # j
        PROVE  /\ cache'[i].data[get_block(x)] = mem_diff'[x]
               /\ ~cache'[i].dirty => mem'[x] = mem_diff'[x]
    <3>1. i \in Lines /\ i \in Holders(x) /\ cache'[i] = cache[i]
      BY <1>2, <1>4, <1>5, <2>4
    <3>2. get_blocknum(x) # get_blocknum(w)
      BY <1>6, <2>4, <3>1
    <3>3. j \notin Holders(x)
      BY <2>4, <3>1 DEF Coherent, OneCopy
    <3>4. QED
      BY <2>2, <3>1, <3>2, <3>3 DEF Coherent, Overlay
  <2>5. ASSUME Holders(x)' = {} PROVE mem'[x] = mem_diff'[x]
    <3>1. j \notin Holders(x)'
      BY <2>5
    <3>2. get_blocknum(x) # get_blocknum(w)
      BY <1>1, <1>4, <3>1
    <3>3. \A i \in Holders(x) : i = j
      BY <1>4, <1>5, <2>5
    <3>4. CASE j \in Holders(x)
      <4>1. Hits(w) = {}
        BY <1>1, <3>2, <3>4, SameBlock DEF Coherent
      <4>2. QED
        BY <2>2, <3>2, <3>4, <4>1 DEF Coherent, Overlay
    <3>5. CASE j \notin Holders(x)
      <4>1. Holders(x) = {}
        BY <3>3, <3>5
      <4>2. QED
        BY <2>2, <3>2, <3>5, <4>1 DEF Coherent, Overlay
    <3>6. QED
      BY <3>4, <3>5
  <2>6. QED
    BY <2>3, <2>4, <2>5
<1>9. QED
  BY <1>3, <1>7, <1>8 DEF Coherent

-----------------------------------------------------------------------------
(* The steps of main.c.                                                    *)

IInv == Coherent /\ SameAnswers

\* Shifts and masks make words of words.
LEMMA WordTypes ==
    ASSUME NEW v \in Word, NEW u \in Word, NEW off \in Nat, NEW len \in Nat, NEW wmask
    PROVE  /\ ShiftDown(v, off, len) \in Word
           /\ ShiftUp(v, off) \in Word
           /\ Masked(u, v, wmask) \in Word
<1>1. WordBytes \in Nat
  BY WidthAssumption
<1>2. ShiftDown(v, off, len) \in Word
  BY BytesAssumption DEF ShiftDown, Word
<1>3. \A k \in Lanes : k >= off => k - off \in Lanes
  BY <1>1 DEF Lanes
<1>4. ShiftUp(v, off) \in Word
  BY <1>3, BytesAssumption DEF ShiftUp, Word
<1>5. Masked(u, v, wmask) \in Word
  BY DEF Masked, Word
<1>6. QED
  BY <1>2, <1>4, <1>5

\* A read keeps the cache coherent and gives both answers alike.
LEMMA ReadStep ==
    ASSUME IInv, NEW w \in Words, NEW line \in Ways, NEW off \in Nat, NEW len \in Nat,
           cpu_read(w, line, off, len),
           step' \in {"random", "diff"}, addr' \in 0 .. NWords
    PROVE  IInv'
<1>1. mem_diff \in [Words -> Word] /\ mem_diff' = mem_diff
  BY DEF IInv, Coherent, TypeOK, cpu_read
<1>2. Brought(w, line).data[get_block(w)] = mem_diff[w]
  BY BroughtIn DEF IInv
<1>3. ret' = [cached |-> ShiftDown(mem_diff[w], off, len),
              uncached |-> ShiftDown(mem_diff[w], off, len)]
  BY <1>2 DEF cpu_read
<1>4. ret' \in [cached : Word, uncached : Word] /\ SameAnswers'
  BY <1>1, <1>3, WordTypes DEF SameAnswers
<1>5. cache' = [cache EXCEPT ![Where(w, line)] = Brought(w, line)] /\ mem' = MemAfter(w, line)
  BY DEF cpu_read, cache_read
<1> DEFINE l == Brought(w, line)
<1>6. Coherent'
  <2>1. Coherent
    BY DEF IInv
  <2>2. l \in Line /\ l.valid /\ l.tag = get_tag(w)
    BY <2>1, BroughtIn
  <2>3. ASSUME NEW x \in Words
        PROVE  IF get_blocknum(x) = get_blocknum(w)
               THEN /\ l.data[get_block(x)] = mem_diff'[x]
                    /\ ~l.dirty => MemAfter(w, line)[x] = mem_diff'[x]
               ELSE mem_diff'[x] = mem_diff[x]
    BY <1>1, <2>1, BroughtIn
  <2>4. cache' = [cache EXCEPT ![Where(w, line)] = l]
    BY <1>5
  <2> HIDE DEF l
  <2>5. QED
    BY <1>1, <1>4, <1>5, <2>1, <2>2, <2>3, <2>4, Install
<1>7. QED
  BY <1>4, <1>6 DEF IInv

\* A write does, too: the line and the memory without a cache change alike.
LEMMA WriteStep ==
    ASSUME IInv, NEW w \in Words, NEW line \in Ways, NEW off \in Nat, NEW len \in Nat,
           NEW data \in Word, cpu_write(w, line, off, len, data),
           step' \in {"random", "diff"}, addr' \in 0 .. NWords
    PROVE  IInv'
<1> DEFINE old == Brought(w, line)
           value == Masked(mem_diff[w], ShiftUp(data, off), Mask(off, len))
           l == [old EXCEPT !.data[get_block(w)] =
                    Masked(@, ShiftUp(data, off), Mask(off, len)), !.dirty = TRUE]
<1>1. /\ old \in Line /\ old.valid /\ old.tag = get_tag(w)
      /\ \A x \in Words : get_blocknum(x) = get_blocknum(w) =>
             old.data[get_block(x)] = mem_diff[x]
  BY BroughtIn DEF IInv
<1>2. mem_diff \in [Words -> Word] /\ ret' \in [cached : Word, uncached : Word] /\ SameAnswers'
  BY DEF IInv, Coherent, TypeOK, SameAnswers, cpu_write
<1>3. value \in Word
  BY <1>2, WordTypes
<1>4. mem_diff' = [mem_diff EXCEPT ![w] = value]
  BY DEF cpu_write
<1>5. cache' = [cache EXCEPT ![Where(w, line)] = l] /\ mem' = MemAfter(w, line)
  BY DEF cpu_write, cache_write
<1>6. l = [old EXCEPT !.data = [old.data EXCEPT ![get_block(w)] = value], !.dirty = TRUE]
  BY <1>1
<1> HIDE DEF old, value, l
<1>7. /\ l \in Line /\ l.valid /\ l.tag = get_tag(w) /\ l.dirty
      /\ l.data = [old.data EXCEPT ![get_block(w)] = value]
  <2>1. old.data \in Data
    BY <1>1 DEF Line
  <2>2. [old.data EXCEPT ![get_block(w)] = value] \in Data
    BY <1>3, <2>1 DEF Data
  <2>3. QED
    BY <1>1, <1>6, <2>2 DEF Line
<1>8. ASSUME NEW x \in Words
      PROVE  IF get_blocknum(x) = get_blocknum(w)
             THEN l.data[get_block(x)] = mem_diff'[x]
             ELSE mem_diff'[x] = mem_diff[x]
  <2>1. old.data \in [InBlock -> Word] /\ get_block(x) \in InBlock
    BY <1>1, Place DEF Line, Data
  <2>2. CASE x = w
    BY <1>2, <1>4, <1>7, <2>1, <2>2
  <2>3. CASE x # w
    <3>1. get_blocknum(x) = get_blocknum(w) => get_block(x) # get_block(w)
      BY <2>3, Place
    <3>2. QED
      BY <1>1, <1>2, <1>4, <1>7, <2>1, <2>3, <3>1
  <2>4. QED
    BY <2>2, <2>3
<1>9. Coherent'
  <2>1. mem_diff' \in [Words -> Word]
    BY <1>2, <1>3, <1>4
  <2>2. QED
    BY <1>2, <1>5, <1>7, <1>8, <2>1, Install DEF IInv
<1>10. QED
  BY <1>2, <1>9 DEF IInv

\* The inductive invariant of the cache simulator: no block is in two lines,
\* and the valid lines laid over mem are mem_diff.
THEOREM Invariance == Spec => []IInv
<1>1. Init => IInv
  <2>1. SUFFICES ASSUME Init PROVE IInv
    OBVIOUS
  <2>2. Zero \in Word
    BY BytesAssumption DEF Zero, Word
  <2> DEFINE Empty == [valid : {FALSE}, dirty : {FALSE}, tag : Tags,
                       data : {[i \in InBlock |-> Zero]}]
  <2>3. cache \in [0 .. NLines - 1 -> Empty]
    BY <2>1 DEF Init
  <2>4. Empty \subseteq Line /\ \A l \in Empty : ~l.valid
    BY <2>2 DEF Line, Data
  <2> HIDE DEF Empty
  <2>5. TypeOK
    <3>1. cache \in [0 .. NLines - 1 -> Line]
      BY <2>3, <2>4
    <3>2. addr \in 0 .. NWords
      BY <2>1, Sizes DEF Init
    <3>3. ret \in [cached : Word, uncached : Word]
      BY <2>1, <2>2 DEF Init
    <3>4. QED
      BY <2>1, <3>1, <3>2, <3>3 DEF Init, TypeOK
  <2>6. \A w \in Words : Holders(w) = {}
    BY <2>3, <2>4 DEF Holders
  <2>7. OneCopy /\ Overlay
    BY <2>1, <2>6 DEF Init, OneCopy, Overlay
  <2>8. SameAnswers
    BY <2>1 DEF Init, SameAnswers
  <2>9. QED
    BY <2>5, <2>7, <2>8 DEF IInv, Coherent
<1>2. IInv /\ [Next]_vars => IInv'
  <2>1. SUFFICES ASSUME IInv, [Next]_vars PROVE IInv'
    OBVIOUS
  <2>2. CASE trace_exec
    <3>1. PICK w \in Words, line \in Ways, off \in Lanes, len \in Lens :
             \/ cpu_read(w, line, off, len)
             \/ \E data \in Word : cpu_write(w, line, off, len, data)
      BY <2>2 DEF trace_exec
    <3>2. off \in Nat /\ len \in Nat
      BY LensAssumption, WidthAssumption DEF Lanes
    <3>3. step' \in {"random", "diff"} /\ addr' \in 0 .. NWords
      BY <2>1, <2>2 DEF trace_exec, IInv, Coherent, TypeOK
    <3>4. QED
      BY <2>1, <3>1, <3>2, <3>3, ReadStep, WriteStep
  <2>3. CASE StartDiff
    BY <2>1, <2>3 DEF StartDiff, IInv, Coherent, TypeOK, OneCopy, Overlay, Holders, SameAnswers
  <2>4. CASE check_diff
    <3>1. addr \in Words /\ step' \in {"random", "diff"} /\ addr' \in 0 .. NWords
      BY <2>1, <2>4, Sizes DEF check_diff, IInv, Coherent, TypeOK, Words
    <3>2. PICK line \in Ways : cpu_read(addr, line, 0, WordBytes)
      BY <2>4 DEF check_diff
    <3>3. QED
      BY <2>1, <3>1, <3>2, ReadStep, WidthAssumption
  <2>5. CASE UNCHANGED vars
    BY <2>1, <2>5 DEF vars, IInv, Coherent, TypeOK, OneCopy, Overlay, Holders, SameAnswers
  <2>6. QED
    BY <2>1, <2>2, <2>3, <2>4, <2>5 DEF Next
<1>3. QED
  BY <1>1, <1>2, PTL DEF Spec

\* The assertion of trace_exec and of check_diff never fails, for any number
\* of groups, ways, blocks and bytes, any victims and any accesses.
THEOREM AssertionsHold == Spec => []SameAnswers
BY Invariance, PTL DEF IInv

\* No block is ever in two lines of the cache.
THEOREM OneCopyOnly == Spec => []OneCopy
BY Invariance, PTL DEF IInv, Coherent

\* Memory and the lines of the cache together are always the memory that the
\* accesses without a cache would have made.
THEOREM OverlayExact == Spec => []Overlay
BY Invariance, PTL DEF IInv, Coherent

\* Lines, memories and answers keep their types.
THEOREM TypeCorrect == Spec => []TypeOK
BY Invariance, PTL DEF IInv, Coherent

=============================================================================

------------------------------ MODULE CacheSim ------------------------------
(***************************************************************************)
(* The cache simulator of lab 4 (ics-workbench-lab4/cachesim): a write-    *)
(* back, write-allocate cache with random replacement between cpu_read and *)
(* cpu_write and the memory mem, driven by random accesses that are done   *)
(* in a second memory, mem_diff, as well.  Statistics and cycle counts are *)
(* left out.                                                               *)
(***************************************************************************)
EXTENDS Naturals

CONSTANTS
    WordBytes,   \* bytes of a word: 4 in the code
    BlockWords,  \* words of a block: 16 in the code
    NGroups,     \* groups of the cache: 64 in the code, init_cache(14, 2)
    NWays,       \* lines of a group: 4 in the code
    NTags,       \* blocks of memory that share a group
    Bytes,       \* contents of a byte
    Lens         \* lengths of an access: 1, 2 and 4 in the code

ASSUME WidthAssumption ==
    /\ WordBytes \in Nat \ {0} /\ BlockWords \in Nat \ {0} /\ NGroups \in Nat \ {0}
    /\ NWays \in Nat \ {0} /\ NTags \in Nat \ {0}
ASSUME BytesAssumption == 0 \in Bytes
ASSUME LensAssumption == Lens \subseteq 1 .. WordBytes

VARIABLES
    cache,     \* cache[i], the lines of all groups in one array
    mem,       \* mem[w], the memory below the cache, word by word
    mem_diff,  \* the memory of the uncached accesses
    step,      \* the part of replay_trace that runs: "random" or "diff"
    addr,      \* the word check_diff comes to
    ret        \* [cached, uncached]: the two answers trace_exec or check_diff compares

vars == <<cache, mem, mem_diff, step, addr, ret>>

Lanes == 0 .. WordBytes - 1
Word == [Lanes -> Bytes]
Zero == [k \in Lanes |-> 0]
InBlock == 0 .. BlockWords - 1
Data == [InBlock -> Word]
Tags == 0 .. NTags - 1
Ways == 0 .. NWays - 1
NLines == NGroups * NWays
NBlocks == NTags * NGroups
NWords == NBlocks * BlockWords
Words == 0 .. NWords - 1
Line == [valid : BOOLEAN, dirty : BOOLEAN, tag : Tags, data : Data]

-----------------------------------------------------------------------------
(* Where an address is: w is the number of its word in memory, all that    *)
(* these functions look at of an address.                                  *)

get_blocknum(w) == w \div BlockWords
get_block(w) == w % BlockWords
get_tag(w) == get_blocknum(w) \div NGroups
get_group(w) == get_blocknum(w) % NGroups
get_blocknum_cache(tag, group) == tag * NGroups + group
cache_line_addr(w, line) == get_group(w) * NWays + line

Hits(w) == {line \in Ways : LET l == cache[cache_line_addr(w, line)]
                            IN  l.valid /\ l.tag = get_tag(w)}

\* The loop over the group ends at the first line that matches.
HitLine(w) == CHOOSE line \in Hits(w) : \A other \in Hits(w) : line <= other

Masked(old, data, wmask) == [k \in Lanes |-> IF k \in wmask THEN data[k] ELSE old[k]]

\* A word as the CPU sends and gets it: len bytes at byte off of the word.
Mask(off, len) == {k \in Lanes : off <= k /\ k < off + len}
ShiftUp(data, off) == [k \in Lanes |-> IF k >= off THEN data[k - off] ELSE 0]
ShiftDown(word, off, len) ==
    [k \in Lanes |-> IF k < len /\ k + off \in Lanes THEN word[k + off] ELSE 0]

\* init_mem fills both memories with the same random bytes; malloc leaves the
\* tags of the cache as they are.
Init ==
    /\ cache \in [0 .. NLines - 1 -> [valid : {FALSE}, dirty : {FALSE}, tag : Tags,
                                      data : {[i \in InBlock |-> Zero]}]]
    /\ mem \in [Words -> Word]
    /\ mem_diff = mem
    /\ step = "random"
    /\ addr = 0
    /\ ret = [cached |-> Zero, uncached |-> Zero]

\* As if the block went where the new one comes from.
WriteBackToNew(l, w) ==
    LET first == get_blocknum(w) * BlockWords
    IN  [x \in Words |-> IF x - first \in InBlock THEN l.data[x - first] ELSE mem[x]]

\* mem_write of the block a line holds, with the group of the address that
\* takes its place.
WriteBack(l, w) ==
    LET first == get_blocknum_cache(l.tag, get_group(w)) * BlockWords
    IN  [x \in Words |-> IF x - first \in InBlock THEN l.data[x - first] ELSE mem[x]]

\* As if the test of the dirty bit were inverted.
EvictedClean(l, w) == IF ~l.dirty /\ l.valid THEN WriteBack(l, w) ELSE mem

\* wirte_cache if the line must be kept; the memory after it.
Evicted(l, w) == IF l.dirty /\ l.valid THEN WriteBack(l, w) ELSE mem

\* read_cache: the block of w out of the memory m.
Refilled(m, w) ==
    [valid |-> TRUE, dirty |-> FALSE, tag |-> get_tag(w),
     data |-> [i \in InBlock |-> m[get_blocknum(w) * BlockWords + i]]]

-----------------------------------------------------------------------------
(* cache_read and cache_write; line is the victim that ramdchoose picks,   *)
(* used only if no line matches.                                           *)

Where(w, line) == cache_line_addr(w, IF Hits(w) # {} THEN HitLine(w) ELSE line)

MemAfter(w, line) == IF Hits(w) # {} THEN mem ELSE Evicted(cache[Where(w, line)], w)

Brought(w, line) ==
    IF Hits(w) # {} THEN cache[Where(w, line)] ELSE Refilled(MemAfter(w, line), w)

cache_read(w, line) ==
    /\ mem' = MemAfter(w, line)
    /\ cache' = [cache EXCEPT ![Where(w, line)] = Brought(w, line)]

cache_write(w, line, data, wmask) ==
    /\ mem' = MemAfter(w, line)
    /\ cache' = [cache EXCEPT ![Where(w, line)] =
                    [Brought(w, line) EXCEPT
                        !.data[get_block(w)] = Masked(@, data, wmask), !.dirty = TRUE]]

cpu_read(w, line, off, len) ==
    /\ cache_read(w, line)
    /\ ret' = [cached   |-> ShiftDown(Brought(w, line).data[get_block(w)], off, len),
               uncached |-> ShiftDown(mem_diff[w], off, len)]
    /\ UNCHANGED mem_diff

cpu_write(w, line, off, len, data) ==
    /\ cache_write(w, line, ShiftUp(data, off), Mask(off, len))
    /\ mem_diff' = [mem_diff EXCEPT ![w] = Masked(@, ShiftUp(data, off), Mask(off, len))]
    /\ UNCHANGED ret

-----------------------------------------------------------------------------
(* replay_trace without a file: any number of aligned accesses, then every *)
(* word in order.                                                          *)

Aligned(off, len) == off % len = 0

trace_exec ==
    /\ step = "random"
    /\ \E w \in Words, line \in Ways, off \in Lanes, len \in Lens :
          /\ Aligned(off, len)
          /\ \/ cpu_read(w, line, off, len)
             \/ \E data \in Word : cpu_write(w, line, off, len, data)
    /\ UNCHANGED <<step, addr>>

StartDiff ==
    /\ step = "random"
    /\ step' = "diff"
    /\ UNCHANGED <<cache, mem, mem_diff, addr, ret>>

check_diff ==
    /\ step = "diff"
    /\ addr < NWords
    /\ \E line \in Ways : cpu_read(addr, line, 0, WordBytes)
    /\ addr' = addr + 1
    /\ UNCHANGED step

Next == trace_exec \/ StartDiff \/ check_diff

Spec == Init /\ [][Next]_vars

-----------------------------------------------------------------------------

TypeOK ==
    /\ cache \in [0 .. NLines - 1 -> Line]
    /\ mem \in [Words -> Word]
    /\ mem_diff \in [Words -> Word]
    /\ step \in {"random", "diff"}
    /\ addr \in 0 .. NWords
    /\ ret \in [cached : Word, uncached : Word]

\* The assertion of trace_exec and of check_diff: what is read through the
\* cache is what is read from the memory without one.
SameAnswers == ret.cached = ret.uncached

\* The lines that hold word w.
Holders(w) == {i \in 0 .. NLines - 1 :
                  /\ cache[i].valid
                  /\ get_blocknum_cache(cache[i].tag, i \div NWays) = get_blocknum(w)}

\* No block is in two lines: a copy that is written would leave another stale,
\* and the loop would go on finding the first of them.
OneCopy == \A w \in Words : \A a, b \in Holders(w) : a = b

\* Memory with the valid lines laid over it is the memory of the uncached
\* accesses, and a clean line is the same as memory: the state the answers of
\* every later access depend on.
Overlay ==
    \A w \in Words :
        /\ \A i \in Holders(w) :
              /\ cache[i].data[get_block(w)] = mem_diff[w]
              /\ ~cache[i].dirty => mem[w] = mem_diff[w]
        /\ Holders(w) = {} => mem[w] = mem_diff[w]

=============================================================================

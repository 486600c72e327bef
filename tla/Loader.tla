------------------------------- MODULE Loader -------------------------------
(***************************************************************************)
(* Nanos-lite's loader (loader.c) and the allocator it uses (klib's        *)
(* malloc, whose free does nothing): one program after another is loaded   *)
(* over the one before and runs until it exits or executes the next.  The  *)
(* heap is all memory after the kernel, the programs' area included.       *)
(* Memory and files are counted in words of eight bytes, the unit of the   *)
(* allocator.                                                              *)
(***************************************************************************)
EXTENDS Integers, Sequences

CONSTANTS MemSize,     \* words of the memory
          Words,       \* what a program may store in them
          Programs,    \* the executables of the ramdisk
          Headers(_),  \* the program headers of one: a sequence of records
                       \* [load, vaddr, file, memsz]
          HeapStart,   \* heap.start; heap.end is MemSize
          PhdrWords    \* words of a program header

Addrs == 0 .. MemSize - 1

NoOverlap(a, n, b, k) == a + n <= b \/ b + k <= a

\* The segments lie in the memory after the start of the heap, and no two of
\* a program overlap.
ASSUME LoaderAssumption ==
    /\ MemSize \in Nat /\ HeapStart \in Addrs /\ PhdrWords \in Nat /\ Words \subseteq Nat
    /\ \A p \in Programs :
          LET segs == Headers(p)
          IN  /\ segs \in Seq([load : BOOLEAN, vaddr : Nat, file : Seq(Nat), memsz : Nat])
              /\ \A i \in DOMAIN segs :
                 /\ segs[i].vaddr >= HeapStart /\ segs[i].vaddr + segs[i].memsz <= MemSize
                 /\ Len(segs[i].file) <= segs[i].memsz
                 /\ \A j \in DOMAIN segs \ {i} :
                       NoOverlap(segs[i].vaddr, segs[i].memsz, segs[j].vaddr, segs[j].memsz)

VARIABLES mem,      \* the memory
          hbrk,     \* the end of what malloc has given out
          program,  \* the program being loaded or running
          ph,       \* the next of its headers
          phase     \* "exit": between programs, "load", "run", "abort": an assertion failed

loaderVars == <<mem, hbrk, program, ph, phase>>

-----------------------------------------------------------------------------
(* klib's string.c and stdlib.c.                                           *)

\* From the first word to the last.
memcpy(m, dst, src, n) ==
    LET copied[k \in 0 .. n] ==
            IF k = 0 THEN m
            ELSE LET c == copied[k - 1] IN [c EXCEPT ![dst + k - 1] = c[src + k - 1]]
    IN  copied[n]

memset(m, s, c, n) == [a \in DOMAIN m |-> IF a \in s .. s + n - 1 THEN c ELSE m[a]]

\* malloc's assertion.
Room(n) == hbrk + n < MemSize

\* The memory after malloc(n), which starts at hbrk.
malloc(m, n) == memset(m, hbrk, 0, n)

-----------------------------------------------------------------------------
(* loader                                                                  *)

LoaderInit ==
    /\ mem = [a \in Addrs |-> 0]
    /\ hbrk = HeapStart
    /\ program \in Programs
    /\ ph = 1 /\ phase = "exit"

Abort == phase' = "abort" /\ UNCHANGED <<mem, hbrk, program, ph>>

\* loader up to its loop: the headers are read into memory from malloc.
\* Their contents are not looked at again as memory.
ReadHeaders ==
    /\ phase = "exit"
    /\ LET n == PhdrWords * Len(Headers(program))
       IN  IF ~Room(n) THEN Abort
           ELSE /\ mem' = malloc(mem, n)
                /\ hbrk' = hbrk + n
                /\ ph' = 1 /\ phase' = "load"
                /\ UNCHANGED program

\* fs_read of the whole file part into the buffer at b.
Filled(m, b, file) ==
    [a \in Addrs |-> IF a \in b .. b + Len(file) - 1 THEN file[a - b + 1] ELSE m[a]]

LoadedNoBss(m, seg, b) == memcpy(Filled(m, b, seg.file), seg.vaddr, b, Len(seg.file))

\* The file part through the buffer at b to its place, and zeros behind it.
Loaded(m, seg, b) ==
    LET size == Len(seg.file)
    IN  memset(memcpy(Filled(m, b, seg.file), seg.vaddr, b, size),
               seg.vaddr + size, 0, seg.memsz - size)

\* One round of the loop.  The buffer is one byte longer than the file part, which
\* malloc rounds up to a word.
LoadSegment ==
    /\ phase = "load" /\ ph <= Len(Headers(program))
    /\ LET seg == Headers(program)[ph]
           n == Len(seg.file) + 1
       IN  IF ~seg.load THEN ph' = ph + 1 /\ UNCHANGED <<mem, hbrk, program, phase>>
           ELSE IF ~Room(n) THEN Abort
           ELSE /\ mem' = Loaded(malloc(mem, n), seg, hbrk)
                /\ hbrk' = hbrk + n
                /\ ph' = ph + 1
                /\ UNCHANGED <<program, phase>>

\* All segments are in place; naive_uload can jump to e_entry.
EndLoad ==
    /\ phase = "load" /\ ph > Len(Headers(program))
    /\ phase' = "run"
    /\ UNCHANGED <<mem, hbrk, program, ph>>

\* The areas of a program.
Area(p) == UNION {seg.vaddr .. seg.vaddr + seg.memsz - 1
                  : seg \in {Headers(p)[k] : k \in {k \in DOMAIN Headers(p) : Headers(p)[k].load}}}

\* The program writes to its own memory.
Store ==
    /\ phase = "run"
    /\ \E a \in Area(program), c \in Words : mem' = [mem EXCEPT ![a] = c]
    /\ UNCHANGED <<hbrk, program, ph, phase>>

\* naive_uload is called for program p.
Unload(p) ==
    /\ phase = "run"
    /\ program' = p
    /\ phase' = "exit"
    /\ UNCHANGED <<mem, hbrk, ph>>

-----------------------------------------------------------------------------
\* A segment is in memory: its file part in place, zeros in the rest.
SegmentInPlace(m, seg) ==
    seg.load => \A a \in 0 .. seg.memsz - 1 :
        m[seg.vaddr + a] = IF a < Len(seg.file) THEN seg.file[a + 1] ELSE 0

\* The program is in memory.
InPlace(m) == \A k \in DOMAIN Headers(program) : SegmentInPlace(m, Headers(program)[k])

\* The heap has not grown into the areas of the program.
HeapBelow == \A a \in Area(program) : hbrk <= a

\* While a program is loaded, the segments before the next one are in place.
LoadedSoFar ==
    phase = "load" /\ HeapBelow =>
        \A k \in DOMAIN Headers(program) : k < ph => SegmentInPlace(mem, Headers(program)[k])

=============================================================================

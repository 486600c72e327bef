------------------------------ MODULE MCNpcMem -----------------------------
(***************************************************************************)
(* Small instances of NpcMem.  In one group, data lines that evict each    *)
(* other, dirty and clean, share the set index with the lines of code.     *)
(***************************************************************************)
EXTENDS NpcMem

CONSTANTS CodeTags, DataTags, Offsets, Sizes, Values, StartTag, PcOffsets

Zeros == [k \in InBeat |-> 0]

\* Code lines hold 1, data lines 0.
MCImage == [l \in Lines |-> [i \in InLine |-> IF l[1] \in CodeTags THEN 1 ELSE 0]]

MCPcs == [tag : CodeTags, group : Groups, off : PcOffsets]
MCResetPc == [tag |-> StartTag, group |-> 0, off |-> 0]

\* The next instruction of the line, at its end the first of the next code line.
MCPc_4(p) ==
    IF p.off + InstBytes \in PcOffsets THEN [p EXCEPT !.off = @ + InstBytes]
    ELSE [p EXCEPT !.off = 0,
                   !.tag = IF p.tag + 1 \in CodeTags THEN p.tag + 1 ELSE StartTag]

MCNextLine(l) == <<IF l[1] + 1 \in Tags THEN l[1] + 1 ELSE 0, l[2]>>

Within(r) == r.off + r.size <= LineBytes

Load(t, g, o, n) == [op |-> FALSE, tag |-> t, group |-> g, off |-> o, size |-> n, wdata |-> Zeros]
Store(t, g, o, n, d) == [op |-> TRUE, tag |-> t, group |-> g, off |-> o, size |-> n, wdata |-> d]

AllAccesses ==
    {Load(t, g, o, n) : t \in DataTags, g \in Groups, o \in Offsets, n \in Sizes}
      \cup {Store(t, g, o, n, [k \in InBeat |-> v]) :
               t \in DataTags, g \in Groups, o \in Offsets, n \in Sizes, v \in Values}

\* Accesses that stay inside one cache line, as naturally aligned ones do.
InLineAccesses == {r \in AllAccesses : Within(r)}

=============================================================================

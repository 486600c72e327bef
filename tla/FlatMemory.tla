----------------------------- MODULE FlatMemory ----------------------------
(***************************************************************************)
(* What a load/store unit expects of the memory below it: one byte array,  *)
(* accesses performed one at a time in the order they are presented.       *)
(***************************************************************************)
EXTENDS Naturals

CONSTANTS Lines, LineBytes, Image, Accesses, NextLine(_), None

VARIABLES
    store,    \* store[line][i], byte i of a line
    pending,  \* the access presented now
    answer    \* the bytes the last access loaded

flatVars == <<store, pending, answer>>

InLine == 0 .. LineBytes - 1

\* Line and position of byte k of access r, which may lie in the next line.
LineOf(r, k) == IF r.off + k \in InLine THEN <<r.tag, r.group>>
                ELSE NextLine(<<r.tag, r.group>>)
ByteOf(r, k) == IF r.off + k \in InLine THEN r.off + k ELSE r.off + k - LineBytes

Get(r) == [k \in 0 .. r.size - 1 |-> store[LineOf(r, k)][ByteOf(r, k)]]

Touched(r, l, i) == {k \in 0 .. r.size - 1 : LineOf(r, k) = l /\ ByteOf(r, k) = i}
Put(r) == [l \in Lines |-> [i \in InLine |->
              IF Touched(r, l, i) = {} THEN store[l][i]
              ELSE r.wdata[CHOOSE k \in Touched(r, l, i) : TRUE]]]

Init == store = Image /\ pending = None /\ answer = None

Present == pending' \in Accesses \cup {None}

Idle == pending = None /\ Present /\ answer' = None /\ UNCHANGED store
Wait == answer' = None /\ UNCHANGED <<store, pending>>
Load == pending # None /\ ~pending.op /\ Present /\ answer' = Get(pending) /\ UNCHANGED store
Store == pending # None /\ pending.op /\ Present /\ store' = Put(pending) /\ answer' = None

Next == Idle \/ Wait \/ Load \/ Store

Spec == Init /\ [][Next]_flatVars

=============================================================================

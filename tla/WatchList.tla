------------------------------ MODULE WatchList ------------------------------
(***************************************************************************)
(* What the user of the debugger sees of the watchpoints: a numbered list  *)
(* in the order in which they were set, with at most Limit entries.        *)
(***************************************************************************)
EXTENDS Naturals, Sequences, SequencesExt

CONSTANTS Limit, Exprs

VARIABLE watches  \* sequence of [NO, expre]

InUse == {watches[k].NO : k \in DOMAIN watches}

Init == watches = << >>

\* A new watchpoint comes last and has a number no other one has.
Set ==
    /\ Len(watches') = Len(watches) + 1 /\ Len(watches) < Limit
    /\ LET new == Last(watches')
       IN  /\ new.NO \in 0 .. Limit - 1 /\ new.NO \notin InUse /\ new.expre \in Exprs
           /\ watches' = Append(watches, new)

Delete ==
    /\ Len(watches') < Len(watches)
    /\ \E k \in DOMAIN watches : watches' = RemoveAt(watches, k)

\* A command that is refused changes nothing.
Refuse == UNCHANGED watches

Next == Refuse \/ Set \/ Delete

Spec == Init /\ [][Next]_watches

=============================================================================

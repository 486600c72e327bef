------------------------------ MODULE WatchPool ------------------------------
(***************************************************************************)
(* The watchpoints of NEMU's debugger (monitor/sdb/watchpoint.c): a pool   *)
(* of nodes that are linked into two lists, the watchpoints in use and the *)
(* free ones.  Nodes are named by their number.  What is left in a free    *)
(* node is never read, and not kept.                                       *)
(***************************************************************************)
EXTENDS Integers, Sequences

CONSTANTS NR_WP,     \* size of the pool
          Exprs,     \* expressions given to the w command
          Val        \* their values

ASSUME WatchPoolAssumption == NR_WP \in Nat \ {0} /\ 0 \in Val

Pool == 0 .. NR_WP - 1
NULL == -1

VARIABLES next,    \* wp_pool[i].next
          watch,   \* expre and value of wp_pool[i]
          head, free_,
          halt     \* "no", or how NEMU died: "assert" or "segv"

poolVars == <<next, watch, head, free_, halt>>

Watch == [e : Exprs, value : Val]
Free == [e |-> "free", value |-> 0]

\* init_wp_pool
PoolInit ==
    /\ next = [i \in Pool |-> IF i = NR_WP - 1 THEN NULL ELSE i + 1]
    /\ watch = [i \in Pool |-> Free]
    /\ head = NULL /\ free_ = 0
    /\ halt = "no"

-----------------------------------------------------------------------------
(***************************************************************************)
(* Following the pointers.                                                 *)
(***************************************************************************)
\* From the list s of nodes, the first of which is p, one node on.
Longer(p) ==
    [s \in Seq(Pool) |->
        LET wp == IF s = << >> THEN p ELSE next[s[Len(s)]]
        IN  IF wp = NULL THEN s ELSE Append(s, wp)]

\* The nodes from p on, in order; on a cycle, the first NR_WP of them.
List(p) ==
    LET from[k \in 0 .. NR_WP] == IF k = 0 THEN << >> ELSE Longer(p)[from[k - 1]]
    IN  from[NR_WP]

Nodes(p) == LET l == List(p) IN {l[k] : k \in DOMAIN l}

Last(p) == LET l == List(p) IN l[Len(l)]

Ends(p) == p = NULL \/ next[Last(p)] = NULL

-----------------------------------------------------------------------------
Die(how) == halt' = how /\ UNCHANGED <<next, watch, head, free_>>

\* The new node goes behind the last one in use.  A version that puts it in
\* front of head, and one that leaves its link into the free list.
AppendNodeFront(temp) ==
    /\ head' = temp
    /\ next' = [next EXCEPT ![temp] = head]

AppendNodeLinked(temp) ==
    IF head = NULL THEN head' = temp /\ UNCHANGED next
    ELSE UNCHANGED head /\ next' = [next EXCEPT ![Last(head)] = temp]

AppendNode(temp) ==
    IF head = NULL THEN head' = temp /\ next' = [next EXCEPT ![temp] = NULL]
    ELSE UNCHANGED head /\ next' = [next EXCEPT ![temp] = NULL, ![Last(head)] = temp]

\* new_wp, called by cmd_w with an expression that has the values vals, none
\* if expr cannot evaluate it.
new_wp(e, vals) ==
    \/ /\ free_ = NULL \/ vals = {}
       /\ Die("assert")
    \/ /\ free_ # NULL
       /\ free_' = next[free_]
       /\ \E v \in vals : watch' = [watch EXCEPT ![free_] = [e |-> e, value |-> v]]
       /\ AppendNode(free_)
       /\ UNCHANGED halt

\* free_wp for a node that is in use.
free_wp(wp) ==
    /\ IF wp = head THEN head' = next[head] /\ next' = [next EXCEPT ![wp] = free_]
       ELSE LET temp == CHOOSE t \in Nodes(head) : next[t] = wp
            IN  /\ UNCHANGED head
                /\ next' = [next EXCEPT ![temp] = next[wp], ![wp] = free_]
    /\ free_' = wp
    /\ watch' = [watch EXCEPT ![wp] = Free]
    /\ UNCHANGED halt

\* delete_wp, called by cmd_d: the search runs over the end of a list that has
\* no such watchpoint.
delete_wp(NO) ==
    \/ head = NULL /\ UNCHANGED poolVars
    \/ head # NULL /\ NO \notin Nodes(head) /\ Die("segv")
    \/ NO \in Nodes(head) /\ free_wp(NO)

-----------------------------------------------------------------------------
(***************************************************************************)
(* Properties                                                              *)
(***************************************************************************)
\* Every node of the pool is in exactly one of the two lists, and both lists
\* end: no sequence of w and d commands leaks a node, shares one or closes a
\* cycle on which new_wp and test_change would run for ever.
PoolSplit ==
    LET used == Nodes(head)
        unused == Nodes(free_)
    IN  /\ Ends(head) /\ Ends(free_)
        /\ used \union unused = Pool
        /\ used \intersect unused = {}

\* From p on, the pointers lead along s and then to NULL.
Linked(p, s) ==
    /\ p = IF 1 \in DOMAIN s THEN s[1] ELSE NULL
    /\ \A k \in DOMAIN s : next[s[k]] = IF k + 1 \in DOMAIN s THEN s[k + 1] ELSE NULL

\* The shape of the pool, which makes PoolSplit inductive: the pointers run
\* along two sequences of nodes in which every node of the pool occurs once.
Shape(used, unused) ==
    /\ Linked(head, used) /\ Linked(free_, unused)
    /\ \A i, j \in DOMAIN used : used[i] = used[j] => i = j
    /\ \A i, j \in DOMAIN unused : unused[i] = unused[j] => i = j
    /\ \A i \in DOMAIN used, j \in DOMAIN unused : used[i] # unused[j]
    /\ \A a \in Pool : \/ \E i \in DOMAIN used : used[i] = a
                       \/ \E j \in DOMAIN unused : unused[j] = a

PoolShape ==
    /\ next \in [Pool -> Pool \union {NULL}]
    /\ \E h \in 0 .. NR_WP :
          \E used \in [1 .. h -> Pool], unused \in [1 .. NR_WP - h -> Pool] : Shape(used, unused)

\* To the user the lists are one list of watchpoints: w appends with a number
\* that is not in use, d removes that one entry and keeps the order and the
\* expressions of the others.
Watches ==
    LET used == List(head)
        entry == [NO \in Pool |-> [NO |-> NO, expre |-> watch[NO].e]]
    IN  [k \in DOMAIN used |-> entry[used[k]]]

WL == INSTANCE WatchList WITH Limit <- NR_WP, watches <- Watches

IsWatchList == WL!Spec

=============================================================================

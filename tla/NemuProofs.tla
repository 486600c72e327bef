----------------------------- MODULE NemuProofs -----------------------------
(***************************************************************************)
(* Proofs about Nemu: the watchpoint pool keeps its two lists for every    *)
(* size and every sequence of commands, the differential test neither      *)
(* misses a wrong register nor raises a false alarm, and the debugger      *)
(* prints the value of an arithmetic expression of any length.             *)
(***************************************************************************)
EXTENDS Sdb, TLAPS, WellFoundedInduction, NaturalsInduction, SequenceTheorems, FiniteSetTheorems

-----------------------------------------------------------------------------
(* Following the pointers *)

\* Every nonempty set of numbers has a least one.
LEMMA LeastNumber ==
    ASSUME NEW S \in SUBSET Nat, S # {}
    PROVE  \E m \in S : \A k \in S : m <= k
  <1> DEFINE R == {ss \in Nat \X Nat : ss[1] < ss[2]}
  <1>1. IsWellFoundedOn(R, Nat)
    BY NatLessThanWellFounded, Zenon DEF OpToRel
  <1>2. PICK m \in S : \A k \in S : ~(<<k, m>> \in R)
    <2> HIDE DEF R
    <2> QED
      BY <1>1, WFMin, Zenon
  <1>3. ASSUME NEW k \in S PROVE m <= k
    <2>1. k < m => <<k, m>> \in R
      <3> DEFINE pair == <<k, m>>
      <3>1. pair \in Nat \X Nat /\ pair[1] = k /\ pair[2] = m
        OBVIOUS
      <3> HIDE DEF pair
      <3>2. k < m => pair \in R
        BY <3>1
      <3> QED
        BY <3>2 DEF pair
    <2> QED
      BY <1>2, <2>1
  <1> QED
    BY <1>3

\* A list along which the pointers lead is the one that List finds.
LEMMA ListOfLinked ==
    \A len \in 0 .. NR_WP : \A s \in [1 .. len -> Pool], p \in Pool \union {NULL} :
        Linked(p, s) => Ends(p) /\ List(p) = s
  <1> SUFFICES ASSUME NEW len \in 0 .. NR_WP, NEW s \in [1 .. len -> Pool],
                      NEW p \in Pool \union {NULL}, Linked(p, s)
               PROVE  Ends(p) /\ List(p) = s
    OBVIOUS
  <1> USE WatchPoolAssumption
  <1> DEFINE D == 0 .. NR_WP
             Hop(from) == [k \in D |-> IF k = 0 THEN << >> ELSE Longer(p)[from[k - 1]]]
             g == [k \in D |-> [i \in 1 .. (IF k < len THEN k ELSE len) |-> s[i]]]
             from == CHOOSE f : f = Hop(f)
  <1>1. List(p) = from[NR_WP]
    BY DEF List
  <1>2. g = Hop(g)
    <2> SUFFICES ASSUME NEW k \in D
                 PROVE  g[k] = IF k = 0 THEN << >> ELSE Longer(p)[g[k - 1]]
      OBVIOUS
    <2>1. CASE k = 0
      BY <2>1
    <2>2. CASE k > 0
      <3>1. PICK h \in 0 .. len : h = IF k - 1 < len THEN k - 1 ELSE len
        BY <2>2
      <3>2. PICK l : l = [i \in 1 .. h |-> s[i]]
        OBVIOUS
      <3>3. g[k - 1] = l /\ l \in Seq(Pool) /\ Len(l) = h /\ (l = << >> <=> h = 0)
        <4>1. g[k - 1] = l
          BY <2>2, <3>1, <3>2
        <4>2. l \in Seq(Pool) /\ Len(l) = h
          BY <3>2
        <4> QED
          BY <4>1, <4>2, EmptySeq
      <3> HIDE DEF g
      <3>4. PICK wp : wp = IF l = << >> THEN p ELSE next[l[Len(l)]]
        OBVIOUS
      <3>5. Longer(p)[l] = IF wp = NULL THEN l ELSE Append(l, wp)
        BY <3>3, <3>4 DEF Longer
      <3>6. wp = IF h + 1 \in 1 .. len THEN s[h + 1] ELSE NULL
        <4>1. CASE h = 0
          BY <3>3, <3>4, <4>1 DEF Linked
        <4>2. CASE h # 0
          <5>1. wp = next[s[h]] /\ h \in 1 .. len
            BY <3>2, <3>3, <3>4, <4>2
          <5> QED
            BY <5>1 DEF Linked
        <4> QED
          BY <4>1, <4>2
      <3>7. CASE k - 1 < len
        <4>1. h = k - 1 /\ wp = s[k] /\ s[k] \in Pool /\ wp # NULL
          BY <2>2, <3>1, <3>6, <3>7 DEF Pool, NULL
        <4>2. g[k] = [i \in 1 .. k |-> s[i]]
          BY <2>2, <3>7 DEF g
        <4>3. Append(l, s[k]) = [i \in 1 .. k |-> s[i]]
          BY <3>2, <3>3, <4>1, <2>2, <3>7
        <4> QED
          BY <2>2, <3>3, <3>5, <4>1, <4>2, <4>3
      <3>8. CASE k - 1 >= len
        <4>1. wp = NULL
          BY <2>2, <3>1, <3>6, <3>8
        <4>2. g[k] = l
          BY <2>2, <3>1, <3>2, <3>8 DEF g
        <4> QED
          BY <2>2, <3>3, <3>5, <4>1, <4>2
      <3> QED
        BY <3>7, <3>8
    <2> QED
      BY <2>1, <2>2
  <1>3. from = Hop(from)
    <2> HIDE DEF g, Hop
    <2> QED
      BY <1>2
  <1>4. ASSUME NEW k \in D PROVE from[k] = g[k]
    <2> DEFINE S == {i \in D : from[i] # g[i]}
    <2> HIDE DEF from, g
    <2>1. CASE S # {}
      <3>0. S \in SUBSET Nat
        OBVIOUS
      <3>1. PICK m \in S : \A i \in S : m <= i
        <4> HIDE DEF S
        <4> QED
          BY <2>1, <3>0, LeastNumber
      <3>2. m \in D /\ from[m] # g[m]
        BY <3>1
      <3>3. m # 0
        BY <1>2, <1>3, <3>2
      <3>4. m - 1 \in D /\ from[m - 1] = g[m - 1]
        BY <3>1, <3>2, <3>3
      <3>5. from[m] = Longer(p)[from[m - 1]] /\ g[m] = Longer(p)[g[m - 1]]
        BY <1>2, <1>3, <3>2, <3>3
      <3> QED
        BY <3>2, <3>4, <3>5
    <2> QED
      BY <2>1
  <1> HIDE DEF from
  <1>5. List(p) = s
    <2>1. g[NR_WP] = s
      OBVIOUS
    <2> QED
      BY <1>1, <1>4, <2>1
  <1>6. Ends(p)
    <2>1. CASE len = 0
      BY <2>1 DEF Ends, Linked
    <2>2. CASE len # 0
      <3>1. Last(p) = s[len] /\ len \in 1 .. len
        BY <1>5, <2>2 DEF Last
      <3> QED
        BY <3>1 DEF Ends, Linked
    <2> QED
      BY <2>1, <2>2
  <1> QED
    BY <1>5, <1>6

\* The two sequences of the shape are the two lists.
LEMMA ShapeLists ==
    \A h \in 0 .. NR_WP : \A used \in [1 .. h -> Pool], unused \in [1 .. NR_WP - h -> Pool] :
        Shape(used, unused) => /\ Ends(head) /\ List(head) = used
                               /\ Ends(free_) /\ List(free_) = unused
  <1> SUFFICES ASSUME NEW h \in 0 .. NR_WP, NEW used \in [1 .. h -> Pool],
                      NEW unused \in [1 .. NR_WP - h -> Pool], Shape(used, unused)
               PROVE  /\ Ends(head) /\ List(head) = used
                      /\ Ends(free_) /\ List(free_) = unused
    OBVIOUS
  <1>1. Linked(head, used) /\ Linked(free_, unused)
    BY DEF Shape
  <1>2. /\ head \in Pool \union {NULL} /\ free_ \in Pool \union {NULL}
        /\ NR_WP - h \in 0 .. NR_WP
    BY <1>1, WatchPoolAssumption DEF Linked
  <1> QED
    BY <1>1, <1>2, ListOfLinked

\* The same after a step.
LEMMA ShapeListsNext ==
    (\A h \in 0 .. NR_WP : \A used \in [1 .. h -> Pool], unused \in [1 .. NR_WP - h -> Pool] :
        Shape(used, unused) => /\ Ends(head) /\ List(head) = used
                               /\ Ends(free_) /\ List(free_) = unused)'
  BY ShapeLists, PTL

\* A pool of that shape is split into its two lists.
LEMMA ShapeSplit == PoolShape => PoolSplit
  <1> SUFFICES ASSUME PoolShape PROVE PoolSplit
    OBVIOUS
  <1>1. PICK h \in 0 .. NR_WP : \E used \in [1 .. h -> Pool], unused \in [1 .. NR_WP - h -> Pool] :
                                   Shape(used, unused)
    BY DEF PoolShape
  <1>2. PICK used \in [1 .. h -> Pool], unused \in [1 .. NR_WP - h -> Pool] : Shape(used, unused)
    BY <1>1
  <1>3. /\ Ends(head) /\ List(head) = used
        /\ Ends(free_) /\ List(free_) = unused
    BY <1>2, ShapeLists
  <1>4. /\ Nodes(head) = {used[k] : k \in DOMAIN used}
        /\ Nodes(free_) = {unused[k] : k \in DOMAIN unused}
    BY <1>3 DEF Nodes
  <1> QED
    BY <1>2, <1>3, <1>4 DEF PoolSplit, Shape

\* init_wp_pool chains all nodes into the free list.
LEMMA InitShape == PoolInit => PoolShape
  <1> SUFFICES ASSUME PoolInit PROVE PoolShape
    OBVIOUS
  <1> USE WatchPoolAssumption DEF Pool, NULL
  <1> DEFINE used == [k \in 1 .. 0 |-> 0]
             unused == [k \in 1 .. NR_WP - 0 |-> k - 1]
  <1>1. used \in [1 .. 0 -> Pool] /\ unused \in [1 .. NR_WP - 0 -> Pool] /\ 0 \in 0 .. NR_WP
    OBVIOUS
  <1>2. Linked(head, used)
    BY DEF PoolInit, Linked
  <1>3. Linked(free_, unused)
    BY DEF PoolInit, Linked
  <1>4. \A a \in Pool : \E j \in DOMAIN unused : unused[j] = a
    <2> TAKE a \in Pool
    <2>1. a + 1 \in DOMAIN unused /\ unused[a + 1] = a
      OBVIOUS
    <2> QED
      BY <2>1
  <1>5. \A i, j \in DOMAIN unused : unused[i] = unused[j] => i = j
    OBVIOUS
  <1>6. DOMAIN used = {}
    OBVIOUS
  <1>7. next \in [Pool -> Pool \union {NULL}]
    BY DEF PoolInit
  <1> HIDE DEF used, unused
  <1>8. Shape(used, unused)
    BY <1>2, <1>3, <1>4, <1>5, <1>6 DEF Shape
  <1> QED
    BY <1>1, <1>7, <1>8 DEF PoolShape

\* new_wp takes the first free node and appends it to the list in use.
LEMMA AppendShape ==
    ASSUME NEW h \in 0 .. NR_WP, NEW used \in [1 .. h -> Pool],
           NEW unused \in [1 .. NR_WP - h -> Pool], Shape(used, unused),
           next \in [Pool -> Pool \union {NULL}],
           NEW new, new = free_, new # NULL, free_' = next[new], AppendNode(new)
    PROVE  /\ h + 1 \in 0 .. NR_WP /\ new \in Pool
           /\ next' \in [Pool -> Pool \union {NULL}]
           /\ \A k \in 1 .. h : used[k] # new
           /\ \E used2 \in [1 .. h + 1 -> Pool], unused2 \in [1 .. NR_WP - (h + 1) -> Pool] :
                 /\ Shape(used2, unused2)'
                 /\ used2[h + 1] = new /\ \A k \in 1 .. h : used2[k] = used[k]
  <1> USE WatchPoolAssumption
  <1>1. 1 \in DOMAIN unused /\ free_ = unused[1]
    BY DEF Shape, Linked
  <1>2. new \in Pool /\ new = unused[1]
    BY <1>1
  <1>3. h + 1 \in 0 .. NR_WP /\ new # NULL
    BY <1>1, <1>2
  <1>4. \A k \in 1 .. h : used[k] # new
    BY <1>1, <1>2 DEF Shape
  <1> DEFINE used2 == [k \in 1 .. h + 1 |-> IF k = h + 1 THEN new ELSE used[k]]
             unused2 == [k \in 1 .. NR_WP - (h + 1) |-> unused[k + 1]]
  <1>5. used2 \in [1 .. h + 1 -> Pool] /\ unused2 \in [1 .. NR_WP - (h + 1) -> Pool]
    BY <1>2, <1>3
  <1>6. next' = [a \in Pool |-> IF a = new THEN NULL ELSE IF h > 0 /\ a = used[h] THEN new ELSE next[a]]
    <2>1. CASE h = 0
      <3>1. head = NULL
        BY <2>1 DEF Shape, Linked
      <3> QED
        BY <1>2, <2>1, <3>1 DEF AppendNode
    <2>2. CASE h > 0
      <3>1. head # NULL /\ used[h] \in Pool /\ used[h] # new
        BY <1>4, <2>2 DEF Shape, Linked, Pool, NULL
      <3>2. Last(head) = used[h]
        <4>1. List(head) = used
          BY ShapeLists
        <4>2. Len(used) = h
          OBVIOUS
        <4> QED
          BY <4>1, <4>2 DEF Last
      <3>3. next' = [next EXCEPT ![new] = NULL, ![used[h]] = new]
        BY <1>2, <3>1, <3>2 DEF AppendNode
      <3> QED
        BY <2>2, <3>1, <3>3
    <2> QED
      BY <2>1, <2>2
  <1>7. next' \in [Pool -> Pool \union {NULL}]
    BY <1>2, <1>6
  <1>8. Linked(head, used2)'
    <2>1. head' = used2[1]
      <3>1. CASE h = 0
        BY <1>2, <3>1 DEF AppendNode, Shape, Linked
      <3>2. CASE h > 0
        BY <3>2 DEF AppendNode, Shape, Linked, Pool, NULL
      <3> QED
        BY <3>1, <3>2
    <2>2. ASSUME NEW k \in 1 .. h + 1
          PROVE  next'[used2[k]] = IF k + 1 \in 1 .. h + 1 THEN used2[k + 1] ELSE NULL
      <3>1. CASE k = h + 1
        BY <1>2, <1>6, <3>1
      <3>2. CASE k = h
        BY <1>4, <1>6, <3>2
      <3>3. CASE k < h
        <4>1. used[k] \in Pool /\ used[k] # used[h] /\ used[k] # new
          BY <1>4, <3>3 DEF Shape
        <4>2. next[used[k]] = used[k + 1]
          BY <3>3 DEF Shape, Linked
        <4> QED
          BY <1>6, <3>3, <4>1, <4>2
      <3> QED
        BY <3>1, <3>2, <3>3
    <2>3. DOMAIN used2 = 1 .. h + 1 /\ 1 \in DOMAIN used2
      OBVIOUS
    <2> HIDE DEF used2
    <2> QED
      BY <2>1, <2>2, <2>3 DEF Linked
  <1>9. Linked(free_, unused2)'
    <2>1. free_' = IF 2 \in 1 .. NR_WP - h THEN unused[2] ELSE NULL
      BY <1>1, <1>2 DEF Shape, Linked
    <2>2. ASSUME NEW k \in 1 .. NR_WP - (h + 1)
          PROVE  next'[unused2[k]] = IF k + 1 \in 1 .. NR_WP - (h + 1) THEN unused2[k + 1] ELSE NULL
      <3>1. k + 1 \in 1 .. NR_WP - h /\ unused[k + 1] \in Pool
        OBVIOUS
      <3>2. unused[k + 1] # new /\ (h > 0 => unused[k + 1] # used[h])
        BY <1>1, <1>2, <3>1 DEF Shape
      <3>3. next[unused[k + 1]] = IF k + 2 \in 1 .. NR_WP - h THEN unused[k + 2] ELSE NULL
        BY <3>1 DEF Shape, Linked
      <3> QED
        BY <1>6, <3>1, <3>2, <3>3
    <2>3. free_' = IF 1 \in 1 .. NR_WP - (h + 1) THEN unused2[1] ELSE NULL
      BY <2>1
    <2>4. DOMAIN unused2 = 1 .. NR_WP - (h + 1)
      OBVIOUS
    <2> HIDE DEF unused2
    <2> QED
      BY <2>2, <2>3, <2>4 DEF Linked
  <1>10. /\ \A i, j \in DOMAIN used2 : used2[i] = used2[j] => i = j
         /\ \A i, j \in DOMAIN unused2 : unused2[i] = unused2[j] => i = j
    BY <1>3, <1>4 DEF Shape
  <1>11. \A i \in DOMAIN used2, j \in DOMAIN unused2 : used2[i] # unused2[j]
    BY <1>1, <1>2, <1>3 DEF Shape
  <1>12. ASSUME NEW a \in Pool
         PROVE  \/ \E i \in DOMAIN used2 : used2[i] = a
                \/ \E j \in DOMAIN unused2 : unused2[j] = a
    <2>1. CASE \E i \in DOMAIN used : used[i] = a
      BY <2>1
    <2>2. CASE \E j \in DOMAIN unused : unused[j] = a
      <3>1. PICK j \in 1 .. NR_WP - h : unused[j] = a
        BY <2>2
      <3>2. CASE j = 1
        BY <1>2, <3>1, <3>2
      <3>3. CASE j > 1
        <4>1. j - 1 \in 1 .. NR_WP - (h + 1) /\ unused2[j - 1] = a
          BY <3>1, <3>3
        <4> QED
          BY <4>1
      <3> QED
        BY <3>2, <3>3
    <2> QED
      BY <2>1, <2>2 DEF Shape
  <1>13. used2[h + 1] = new /\ \A k \in 1 .. h : used2[k] = used[k]
    OBVIOUS
  <1> HIDE DEF used2, unused2
  <1>14. Shape(used2, unused2)'
    BY <1>8, <1>9, <1>10, <1>11, <1>12 DEF Shape
  <1> QED
    BY <1>2, <1>3, <1>4, <1>5, <1>7, <1>13, <1>14

\* free_wp takes a node out of the list in use and puts it before the free ones.
LEMMA FreeShape ==
    ASSUME NEW h \in 0 .. NR_WP, NEW used \in [1 .. h -> Pool],
           NEW unused \in [1 .. NR_WP - h -> Pool], Shape(used, unused),
           next \in [Pool -> Pool \union {NULL}],
           NEW j \in 1 .. h, NEW wp \in Pool, wp = used[j], free_wp(wp)
    PROVE  /\ h - 1 \in 0 .. NR_WP
           /\ next' \in [Pool -> Pool \union {NULL}]
           /\ [k \in 1 .. h - 1 |-> IF k < j THEN used[k] ELSE used[k + 1]] \in [1 .. h - 1 -> Pool]
           /\ [k \in 1 .. NR_WP - (h - 1) |-> IF k = 1 THEN wp ELSE unused[k - 1]]
                 \in [1 .. NR_WP - (h - 1) -> Pool]
           /\ Shape([k \in 1 .. h - 1 |-> IF k < j THEN used[k] ELSE used[k + 1]],
                    [k \in 1 .. NR_WP - (h - 1) |-> IF k = 1 THEN wp ELSE unused[k - 1]])'
  <1> USE WatchPoolAssumption
  <1> DEFINE used2 == [k \in 1 .. h - 1 |-> IF k < j THEN used[k] ELSE used[k + 1]]
             unused2 == [k \in 1 .. NR_WP - (h - 1) |-> IF k = 1 THEN wp ELSE unused[k - 1]]
  <1>1. h - 1 \in 0 .. NR_WP /\ wp # NULL
    BY DEF Pool, NULL
  <1>2. used2 \in [1 .. h - 1 -> Pool] /\ unused2 \in [1 .. NR_WP - (h - 1) -> Pool]
    <2>1. \A k \in 1 .. NR_WP - (h - 1) : k # 1 => k - 1 \in 1 .. NR_WP - h
      OBVIOUS
    <2> QED
      BY <2>1
  <1>3. /\ head = used[1]
        /\ free_ = IF 1 \in 1 .. NR_WP - h THEN unused[1] ELSE NULL
        /\ \A k \in 1 .. h : next[used[k]] = IF k + 1 \in 1 .. h THEN used[k + 1] ELSE NULL
        /\ \A k \in 1 .. NR_WP - h :
              next[unused[k]] = IF k + 1 \in 1 .. NR_WP - h THEN unused[k + 1] ELSE NULL
    BY DEF Shape, Linked
  <1>4. /\ \A i, k \in 1 .. h : used[i] = used[k] => i = k
        /\ \A i, k \in 1 .. NR_WP - h : unused[i] = unused[k] => i = k
        /\ \A i \in 1 .. h, k \in 1 .. NR_WP - h : used[i] # unused[k]
        /\ \A a \in Pool : (\E i \in 1 .. h : used[i] = a) \/ (\E k \in 1 .. NR_WP - h : unused[k] = a)
    BY DEF Shape
  <1>5. free_ \in Pool \union {NULL}
    BY <1>3
  <1>6. /\ next' = [a \in Pool |-> IF a = wp THEN free_
                                  ELSE IF j > 1 /\ a = used[j - 1] THEN next[wp] ELSE next[a]]
        /\ head' = IF j = 1 THEN next[wp] ELSE head
        /\ free_' = wp
    <2>1. CASE j = 1
      BY <1>3, <2>1 DEF free_wp
    <2>2. CASE j > 1
      <3>1. wp # head /\ j - 1 \in 1 .. h /\ used[j - 1] \in Pool /\ used[j - 1] # wp
        BY <1>3, <1>4, <2>2
      <3>2. Nodes(head) = {used[k] : k \in 1 .. h}
        BY ShapeLists DEF Nodes
      <3>3. ASSUME NEW a \in Nodes(head) PROVE next[a] = wp <=> a = used[j - 1]
        <4>1. PICK k \in 1 .. h : a = used[k]
          BY <3>2
        <4>2. next[a] = IF k + 1 \in 1 .. h THEN used[k + 1] ELSE NULL
          BY <1>3, <4>1
        <4>3. next[a] = wp <=> k + 1 \in 1 .. h /\ k + 1 = j
          BY <1>1, <1>4, <4>2
        <4>4. a = used[j - 1] <=> k = j - 1
          BY <1>4, <3>1, <4>1
        <4> QED
          BY <4>3, <4>4
      <3>4. (CHOOSE a \in Nodes(head) : next[a] = wp) = used[j - 1]
        <4>1. used[j - 1] \in Nodes(head)
          BY <3>1, <3>2
        <4> QED
          BY <3>3, <4>1
      <3>5. next' = [next EXCEPT ![used[j - 1]] = next[wp], ![wp] = free_] /\ head' = head /\ free_' = wp
        BY <3>1, <3>4 DEF free_wp
      <3>6. next' = [a \in Pool |-> IF a = wp THEN free_
                                   ELSE IF a = used[j - 1] THEN next[wp] ELSE next[a]]
        <4> DEFINE b == used[j - 1]
        <4>1. b \in Pool /\ b # wp
          BY <3>1
        <4>2. next' = [next EXCEPT ![b] = next[wp], ![wp] = free_]
          BY <3>5
        <4> HIDE DEF b
        <4>3. next' = [a \in Pool |-> IF a = wp THEN free_ ELSE IF a = b THEN next[wp] ELSE next[a]]
          BY <4>1, <4>2
        <4> QED
          BY <4>3 DEF b
      <3>7. head' = IF j = 1 THEN next[wp] ELSE head
        BY <2>2, <3>5
      <3>8. next' = [a \in Pool |-> IF a = wp THEN free_
                                   ELSE IF j > 1 /\ a = used[j - 1] THEN next[wp] ELSE next[a]]
        BY <2>2, <3>6
      <3> QED
        BY <3>5, <3>7, <3>8
    <2> QED
      BY <2>1, <2>2
  <1>7. next' \in [Pool -> Pool \union {NULL}]
    BY <1>5, <1>6
  <1>8. Linked(head, used2)'
    <2>1. head' = IF 1 \in 1 .. h - 1 THEN used2[1] ELSE NULL
      <3>1. CASE j = 1
        BY <1>3, <1>6, <3>1
      <3>2. CASE j > 1
        BY <1>3, <1>6, <3>2
      <3> QED
        BY <3>1, <3>2
    <2>2. ASSUME NEW k \in 1 .. h - 1
          PROVE  next'[used2[k]] = IF k + 1 \in 1 .. h - 1 THEN used2[k + 1] ELSE NULL
      <3>1. CASE k >= j
        <4>1. /\ k + 1 \in 1 .. h /\ used2[k] = used[k + 1] /\ used[k + 1] \in Pool /\ used[k + 1] # wp
              /\ j > 1 => used[k + 1] # used[j - 1]
          BY <1>4, <3>1
        <4>2. next'[used2[k]] = next[used[k + 1]]
          BY <1>6, <4>1
        <4> QED
          BY <1>3, <3>1, <4>1, <4>2
      <3>2. CASE k = j - 1
        <4>1. k \in 1 .. h /\ j > 1 /\ used2[k] = used[j - 1] /\ used[j - 1] \in Pool /\ used[j - 1] # wp
          BY <1>4, <3>2
        <4>2. next'[used2[k]] = next[used[j]]
          BY <1>6, <4>1
        <4>3. next[used[j]] = IF j + 1 \in 1 .. h THEN used[j + 1] ELSE NULL
          BY <1>3
        <4>4. k + 1 = j /\ (j \in 1 .. h - 1 <=> j + 1 \in 1 .. h)
          BY <3>2
        <4>5. j \in 1 .. h - 1 => used2[j] = used[j + 1]
          OBVIOUS
        <4> HIDE DEF used2
        <4> QED
          BY <4>2, <4>3, <4>4, <4>5
      <3>3. CASE k < j - 1
        <4>1. /\ k \in 1 .. h /\ used2[k] = used[k] /\ used[k] \in Pool /\ used[k] # wp
              /\ used[k] # used[j - 1]
          BY <1>4, <3>3
        <4>2. next'[used2[k]] = next[used[k]]
          BY <1>6, <4>1
        <4> QED
          BY <1>3, <3>3, <4>1, <4>2
      <3> QED
        BY <3>1, <3>2, <3>3
    <2>3. DOMAIN used2 = 1 .. h - 1
      OBVIOUS
    <2> HIDE DEF used2
    <2> QED
      BY <2>1, <2>2, <2>3 DEF Linked
  <1>9. Linked(free_, unused2)'
    <2>1. 1 \in 1 .. NR_WP - (h - 1) /\ free_' = unused2[1]
      BY <1>6
    <2>2. ASSUME NEW k \in 1 .. NR_WP - (h - 1)
          PROVE  next'[unused2[k]] = IF k + 1 \in 1 .. NR_WP - (h - 1) THEN unused2[k + 1] ELSE NULL
      <3>1. CASE k = 1
        BY <1>3, <1>6, <3>1
      <3>2. CASE k > 1
        <4>1. /\ k - 1 \in 1 .. NR_WP - h /\ unused2[k] = unused[k - 1] /\ unused[k - 1] \in Pool
              /\ unused[k - 1] # wp /\ (j > 1 => unused[k - 1] # used[j - 1])
          BY <1>4, <3>2
        <4>2. next'[unused2[k]] = next[unused[k - 1]]
          BY <1>6, <4>1
        <4>3. next[unused[k - 1]] = IF k \in 1 .. NR_WP - h THEN unused[k] ELSE NULL
          BY <1>3, <4>1
        <4> QED
          BY <3>2, <4>2, <4>3
      <3> QED
        BY <3>1, <3>2
    <2>3. DOMAIN unused2 = 1 .. NR_WP - (h - 1)
      OBVIOUS
    <2> HIDE DEF unused2
    <2> QED
      BY <2>1, <2>2, <2>3 DEF Linked
  <1>10. \A i, k \in DOMAIN used2 : used2[i] = used2[k] => i = k
    BY <1>4
  <1>11. \A i, k \in DOMAIN unused2 : unused2[i] = unused2[k] => i = k
    <2>1. \A i \in DOMAIN unused2 : i # 1 => i - 1 \in 1 .. NR_WP - h
      OBVIOUS
    <2> QED
      BY <1>4, <2>1
  <1>12. \A i \in DOMAIN used2, k \in DOMAIN unused2 : used2[i] # unused2[k]
    <2> TAKE i \in DOMAIN used2, k \in DOMAIN unused2
    <2>1. PICK m \in 1 .. h : used2[i] = used[m] /\ m # j
      OBVIOUS
    <2>2. CASE k = 1
      BY <1>4, <2>1, <2>2
    <2>3. CASE k # 1
      <3>1. k - 1 \in 1 .. NR_WP - h /\ unused2[k] = unused[k - 1]
        BY <2>3
      <3> QED
        BY <1>4, <2>1, <3>1
    <2> QED
      BY <2>2, <2>3
  <1>13. ASSUME NEW a \in Pool
         PROVE  \/ \E i \in DOMAIN used2 : used2[i] = a
                \/ \E k \in DOMAIN unused2 : unused2[k] = a
    <2>1. CASE \E i \in 1 .. h : used[i] = a
      <3>1. PICK i \in 1 .. h : used[i] = a
        BY <2>1
      <3>2. CASE i < j
        <4>1. i \in DOMAIN used2 /\ used2[i] = a
          BY <3>1, <3>2
        <4> QED
          BY <4>1
      <3>3. CASE i = j
        <4>1. 1 \in DOMAIN unused2 /\ unused2[1] = a
          BY <3>1, <3>3
        <4> QED
          BY <4>1
      <3>4. CASE i > j
        <4>1. i - 1 \in DOMAIN used2 /\ used2[i - 1] = a
          BY <3>1, <3>4
        <4> QED
          BY <4>1
      <3> QED
        BY <3>2, <3>3, <3>4
    <2>2. CASE \E k \in 1 .. NR_WP - h : unused[k] = a
      <3>1. PICK k \in 1 .. NR_WP - h : unused[k] = a
        BY <2>2
      <3>2. k + 1 \in DOMAIN unused2 /\ unused2[k + 1] = a
        BY <3>1
      <3> QED
        BY <3>2
    <2> QED
      BY <1>4, <2>1, <2>2
  <1> HIDE DEF used2, unused2
  <1>14. Shape(used2, unused2)'
    BY <1>8, <1>9, <1>10, <1>11, <1>12, <1>13 DEF Shape
  <1> QED
    BY <1>1, <1>2, <1>7, <1>14 DEF used2, unused2

\* The commands w and d keep the shape of the pool.
LEMMA CommandShape ==
    ASSUME PoolShape, NEW e, NEW vals, NEW NO \in Pool,
           new_wp(e, vals) \/ delete_wp(NO) \/ UNCHANGED poolVars
    PROVE  PoolShape'
  <1>1. PICK h \in 0 .. NR_WP : \E used \in [1 .. h -> Pool], unused \in [1 .. NR_WP - h -> Pool] :
                                   Shape(used, unused)
    BY DEF PoolShape
  <1>2. PICK used \in [1 .. h -> Pool], unused \in [1 .. NR_WP - h -> Pool] : Shape(used, unused)
    BY <1>1
  <1>3. next \in [Pool -> Pool \union {NULL}]
    BY DEF PoolShape
  <1>4. CASE UNCHANGED <<next, head, free_>>
    <2>1. Shape(used, unused)'
      BY <1>2, <1>4 DEF Shape, Linked
    <2> QED
      BY <1>3, <1>4, <2>1 DEF PoolShape
  <1>5. CASE free_ # NULL /\ free_' = next[free_] /\ AppendNode(free_)
    <2>1. PICK new : new = free_
      OBVIOUS
    <2>2. PICK h2 \in 0 .. NR_WP : h2 = h + 1
      BY <1>2, <1>3, <1>5, <2>1, AppendShape
    <2>3. \E used2 \in [1 .. h2 -> Pool], unused2 \in [1 .. NR_WP - h2 -> Pool] :
             Shape(used2, unused2)'
      BY <1>2, <1>3, <1>5, <2>1, <2>2, AppendShape
    <2>4. next' \in [Pool -> Pool \union {NULL}]
      BY <1>2, <1>3, <1>5, <2>1, AppendShape
    <2> QED
      BY <2>3, <2>4 DEF PoolShape
  <1>6. CASE NO \in Nodes(head) /\ free_wp(NO)
    <2>1. PICK j \in 1 .. h : NO = used[j]
      BY <1>2, <1>6, ShapeLists DEF Nodes
    <2>2. PICK h2 \in 0 .. NR_WP : h2 = h - 1
      BY <1>2, <1>3, <1>6, <2>1, FreeShape
    <2>3. \E used2 \in [1 .. h2 -> Pool], unused2 \in [1 .. NR_WP - h2 -> Pool] :
             Shape(used2, unused2)'
      BY <1>2, <1>3, <1>6, <2>1, <2>2, FreeShape
    <2>4. next' \in [Pool -> Pool \union {NULL}]
      BY <1>2, <1>3, <1>6, <2>1, FreeShape
    <2> QED
      BY <2>3, <2>4 DEF PoolShape
  <1> QED
    BY <1>4, <1>5, <1>6 DEF new_wp, delete_wp, Die, poolVars

-----------------------------------------------------------------------------
(* The differential test *)

\* What isa_exec_once does to register and memory.
LEMMA ResultCases ==
    ASSUME NEW mc \in Machine, NEW i \in Instructions
    PROVE  /\ Result(mc, i) \in Machine
           /\ i.op \in {"li", "in", "load", "store", "out", "ebreak", "invalid"}
           /\ i.op \in {"li", "in"} => i.v \in Val /\ Result(mc, i).r = i.v
           /\ i.op \in {"load", "store"} => i.a \in Cells
           /\ i.op = "load" => Result(mc, i).r = mc.mem[i.a]
           /\ i.op \notin {"li", "in", "load"} => Result(mc, i).r = mc.r
           /\ i.op = "store" => Result(mc, i).mem = [mc.mem EXCEPT ![i.a] = mc.r]
           /\ i.op # "store" => Result(mc, i).mem = mc.mem
  <1>1. mc.r \in Val /\ mc.mem \in [Cells -> Val] /\ mc = [r |-> mc.r, mem |-> mc.mem]
    BY DEF Machine
  <1>2. CASE i \in [op : {"li"}, v : Val] \union [op : {"in"}, v : Val]
    <2>1. i.op \in {"li", "in"} /\ i.v \in Val
      BY <1>2
    <2>2. Result(mc, i) = [r |-> i.v, mem |-> mc.mem]
      BY <1>1, <2>1 DEF Result
    <2> QED
      BY <1>1, <2>1, <2>2 DEF Machine
  <1>3. CASE i \in [op : {"load", "store"}, a : Cells]
    <2>1. i.op \in {"load", "store"} /\ i.a \in Cells
      BY <1>3
    <2>2. CASE i.op = "load"
      <3>1. Result(mc, i) = [r |-> mc.mem[i.a], mem |-> mc.mem]
        BY <1>1, <2>2 DEF Result
      <3> QED
        BY <1>1, <2>1, <2>2, <3>1 DEF Machine
    <2>3. CASE i.op = "store"
      <3>1. Result(mc, i) = [r |-> mc.r, mem |-> [mc.mem EXCEPT ![i.a] = mc.r]]
        BY <1>1, <2>3 DEF Result
      <3>2. [mc.mem EXCEPT ![i.a] = mc.r] \in [Cells -> Val]
        BY <1>1, <2>1
      <3> QED
        BY <1>1, <2>1, <2>3, <3>1, <3>2 DEF Machine
    <2> QED
      BY <2>1, <2>2, <2>3
  <1>4. CASE i \in [op : {"out", "ebreak", "invalid"}]
    <2>1. i.op \in {"out", "ebreak", "invalid"}
      BY <1>4
    <2>2. Result(mc, i) = mc
      BY <2>1 DEF Result
    <2> QED
      BY <2>1, <2>2
  <1> QED
    BY <1>2, <1>3, <1>4 DEF Instructions

\* One instruction: if it is executed rightly the reference follows, and if
\* not the registers differ and the state is ABORT.
LEMMA ExecStep ==
    ASSUME IInv, ExecOnce
    PROVE  IInv'
  <1>1. PICK i \in Instructions, d \in Val :
           \E m \in {Result(dut, i)} \union
                    IF i.op \in {"li", "load"} THEN {[dut EXCEPT !.r = v] : v \in Val} ELSE {} :
               Execute(i, m, d, List(head))
    BY WatchPoolAssumption DEF ExecOnce, Readings
  <1>2. PICK m : /\ \/ m = Result(dut, i)
                    \/ i.op \in {"li", "load"} /\ \E v \in Val : m = [dut EXCEPT !.r = v]
                 /\ Execute(i, m, d, List(head))
    BY <1>1
  <1>3. PICK changed \in BOOLEAN, reads \in BOOLEAN :
           /\ changed = test_change(Looked(List(head), m, d), m, d)
           /\ reads = ReadsDevice(Looked(List(head), m, d))
    BY DEF test_change, ReadsDevice
  <1>4. PICK skip : skip = SkipRef(is_skip_ref, Unlike(i) \/ reads)
    OBVIOUS
  <1>5. PICK s : s = IF changed THEN "STOP" ELSE StateAfter(i)
    OBVIOUS
  <1>6. /\ dut' = m
        /\ difftest_step(m, i, skip, s)
        /\ ended' = (ended \/ (i.op \in {"ebreak", "invalid"} /\ ~changed))
        /\ wrong' = (state' = "ABORT" /\ m # Result(dut, i))
        /\ missed' = Missed(i, open_difftest /\ ~skip)
        /\ misled' = (state' = "ABORT" /\ i.op = "load" /\ i.a \in missed)
    BY <1>2, <1>3, <1>4, <1>5 DEF Execute
  <1>7. /\ dut \in Machine /\ ref \in Machine /\ n \in -1 .. MaxSteps /\ state \in {"RUNNING", "QUIT"}
        /\ is_skip_ref \in BOOLEAN /\ open_difftest \in BOOLEAN /\ ended = FALSE
        /\ missed \subseteq Cells
    BY DEF IInv, TypeOK, Turn, ExecOnce
  <1>8. /\ open_difftest => ref.r = dut.r
        /\ \A a \in Cells \ missed : ref.mem[a] = dut.mem[a]
    BY <1>7 DEF IInv, Agree
  <1>9. /\ skip <=> is_skip_ref \/ ((Unlike(i) \/ reads) /\ open_difftest)
        /\ skip \in BOOLEAN
    BY <1>4, <1>7 DEF SkipRef
  <1>10. /\ i.op = "ebreak" /\ ~changed => s = "END"
         /\ i.op = "invalid" /\ ~changed => s = "ABORT"
         /\ s = "ABORT" => i.op = "invalid" /\ ~changed
         /\ s \in {"RUNNING", "STOP", "END", "ABORT", "QUIT"}
    BY <1>5, <1>7 DEF StateAfter
  <1>11. /\ m \in Machine
         /\ i.op # "store" => m.mem = dut.mem
         /\ i.op = "store" => m.mem = [dut.mem EXCEPT ![i.a] = dut.r] /\ m.r = dut.r /\ i.a \in Cells
    <2>1. CASE m = Result(dut, i)
      BY <1>7, <2>1, ResultCases
    <2>2. CASE i.op \in {"li", "load"} /\ \E v \in Val : m = [dut EXCEPT !.r = v]
      BY <1>7, <2>2 DEF Machine
    <2> QED
      BY <1>2, <2>1, <2>2
  <1>12. /\ wrong' \in BOOLEAN /\ misled' \in BOOLEAN /\ ended' \in BOOLEAN /\ missed' \subseteq Cells
    BY <1>6, <1>7, <1>11 DEF Missed
  <1>13. /\ state' \in {"RUNNING", "STOP", "END", "ABORT", "QUIT"} /\ ref' \in Machine
         /\ is_skip_ref' \in BOOLEAN
         /\ ended' => state' \in {"END", "ABORT"}
         /\ state' # "ABORT" /\ open_difftest => ref'.r = m.r
         /\ \A a \in Cells \ missed' : ref'.mem[a] = m.mem[a]
         /\ state' = "ABORT" => ended' \/ wrong' \/ misled'
    <2>1. CASE ~open_difftest
      <3>1. state' = s /\ ref' = ref /\ is_skip_ref' = is_skip_ref
        BY <1>6, <1>7, <1>9, <2>1, Zenon DEF difftest_step
      <3>2. \A a \in Cells \ missed' : a \in Cells \ missed /\ m.mem[a] = dut.mem[a]
        BY <1>6, <1>7, <1>11, <2>1 DEF Missed, Machine
      <3>3. is_skip_ref' \in BOOLEAN
        BY <1>7, <3>1
      <3>4. ended' => state' \in {"END", "ABORT"}
        BY <1>6, <1>7, <1>10, <3>1
      <3>5. state' = "ABORT" => ended'
        BY <1>6, <1>10, <3>1
      <3> QED
        BY <1>7, <1>8, <1>10, <2>1, <3>1, <3>2, <3>3, <3>4, <3>5
    <2>2. CASE open_difftest /\ skip
      <3>1. state' = s /\ ref' = [ref EXCEPT !.r = m.r] /\ is_skip_ref' = FALSE
        BY <1>6, <2>2 DEF difftest_step
      <3>2. ref' \in Machine /\ ref'.r = m.r /\ ref'.mem = ref.mem
        BY <1>7, <1>11, <3>1 DEF Machine
      <3>3. \A a \in Cells \ missed' : a \in Cells \ missed /\ m.mem[a] = dut.mem[a]
        BY <1>6, <1>7, <1>9, <1>11, <2>2 DEF Missed, Machine
      <3>4. ended' => state' \in {"END", "ABORT"}
        BY <1>6, <1>7, <1>10, <3>1
      <3>5. state' = "ABORT" => ended'
        BY <1>6, <1>10, <3>1
      <3>6. is_skip_ref' \in BOOLEAN
        BY <3>1
      <3> QED
        BY <1>8, <1>10, <2>2, <3>1, <3>2, <3>3, <3>4, <3>5, <3>6
    <2>3. CASE open_difftest /\ ~skip
      <3>1. /\ ref' \in RefResults(i) /\ is_skip_ref' = skip
            /\ state' = IF ref'.r = m.r THEN s ELSE "ABORT"
        BY <1>6, <2>3 DEF difftest_step
      <3>2. ~Unlike(i)
        BY <1>9, <2>3
      <3>3. i.op \in {"li", "load", "store"}
        BY <3>2, ResultCases, <1>7 DEF Unlike
      <3>4. ref' = Result(ref, i)
        BY <3>1, <3>3 DEF RefResults
      <3>5. ref' \in Machine
        BY <1>7, <3>4, ResultCases
      <3>6. m = Result(dut, i) /\ ~(i.op = "load" /\ i.a \in missed) => ref'.r = m.r
        <4> SUFFICES ASSUME m = Result(dut, i), i.op = "load" => i.a \notin missed
                     PROVE  ref'.r = m.r
          OBVIOUS
        <4>1. i.op = "load" => i.a \in Cells \ missed
          BY <1>6, <1>7, <2>3, ResultCases
        <4> QED
          BY <1>7, <1>8, <2>3, <3>3, <3>4, <4>1, ResultCases
      <3>7. \A a \in Cells \ missed' : ref'.mem[a] = m.mem[a]
        <4> SUFFICES ASSUME NEW a \in Cells \ missed' PROVE ref'.mem[a] = m.mem[a]
          OBVIOUS
        <4>1. ref.r = dut.r /\ ref.mem \in [Cells -> Val] /\ dut.mem \in [Cells -> Val]
          BY <1>7, <1>8, <2>3 DEF Machine
        <4>2. CASE i.op = "store"
          <5>1. ref'.mem = [ref.mem EXCEPT ![i.a] = ref.r] /\ missed' = missed \ {i.a}
            BY <1>6, <1>7, <2>3, <3>4, <4>2, ResultCases DEF Missed
          <5>2. a # i.a => ref.mem[a] = dut.mem[a]
            BY <1>8, <5>1
          <5> QED
            BY <1>11, <4>1, <4>2, <5>1, <5>2
        <4>3. CASE i.op # "store"
          <5>1. ref'.mem = ref.mem /\ missed' = missed
            BY <1>6, <1>7, <3>4, <4>3, ResultCases DEF Missed
          <5> QED
            BY <1>8, <1>11, <4>3, <5>1
        <4> QED
          BY <4>2, <4>3
      <3>8. ended' = FALSE /\ s # "ABORT"
        BY <1>6, <1>7, <1>10, <3>3
      <3>9. state' = "ABORT" => wrong' \/ misled'
        BY <1>6, <3>1, <3>6, <3>8
      <3> QED
        BY <1>9, <1>10, <2>3, <3>1, <3>5, <3>7, <3>8, <3>9
    <2> QED
      BY <1>7, <2>1, <2>2, <2>3
  <1>14. /\ open_difftest' = open_difftest /\ UNCHANGED poolVars
         /\ \/ state' # "RUNNING" /\ n' = 0 /\ loop' = loop
            \/ state' = "RUNNING" /\ loop' = "device" /\ n' = n
         /\ loop = "exec" /\ n # 0
    BY DEF ExecOnce
  <1>15. TypeOK'
    BY <1>6, <1>7, <1>11, <1>12, <1>13, <1>14, NemuAssumption DEF IInv, TypeOK, poolVars
  <1>16. PoolShape'
    BY <1>14, CommandShape, WatchPoolAssumption DEF IInv, Pool
  <1>17. Turn'
    BY <1>13, <1>14 DEF Turn
  <1>18. Agree'
    BY <1>6, <1>13, <1>14 DEF Agree
  <1>19. NoFalseAlarm'
    BY <1>13 DEF NoFalseAlarm
  <1> QED
    BY <1>15, <1>16, <1>17, <1>18, <1>19 DEF IInv

\* Init and the steps that leave the pool alone.
LEMMA InitIInv == Init => IInv
  <1> SUFFICES ASSUME Init PROVE IInv
    OBVIOUS
  <1>1. dut \in Machine /\ ref = dut
    BY WatchPoolAssumption DEF Init, Machine
  <1>2. watch \in [Pool -> Watch \union {Free}] /\ halt = "no"
    BY DEF Init, PoolInit
  <1>3. TypeOK
    <2>1. n \in -1 .. MaxSteps
      BY NemuAssumption DEF Init
    <2>2. /\ is_skip_ref \in BOOLEAN /\ open_difftest \in BOOLEAN
          /\ ended \in BOOLEAN /\ missed \subseteq Cells /\ wrong \in BOOLEAN /\ misled \in BOOLEAN
      BY DEF Init
    <2>3. state = "STOP" /\ loop = "sdb"
      BY DEF Init
    <2> QED
      BY <1>1, <1>2, <2>1, <2>2, <2>3 DEF TypeOK
  <1>4. PoolShape
    BY InitShape DEF Init
  <1>5. Turn /\ Agree /\ NoFalseAlarm
    BY <1>1 DEF Init, Turn, Agree, NoFalseAlarm
  <1> QED
    BY <1>3, <1>4, <1>5 DEF IInv

LEMMA PoolKept ==
    ASSUME IInv, UNCHANGED poolVars
    PROVE  PoolShape' /\ watch' \in [Pool -> Watch \union {Free}] /\ halt' \in {"no", "assert", "segv"}
  <1>1. 0 \in Pool
    BY WatchPoolAssumption DEF Pool
  <1>2. PoolShape'
    BY <1>1, CommandShape DEF IInv
  <1> QED
    BY <1>2 DEF IInv, TypeOK, poolVars

\* device_update, the end of cpu_exec, and the commands that start it.
LEMMA LoopStep ==
    ASSUME IInv, device_update \/ Return \/ cmd_c \/ cmd_si \/ cmd_q
    PROVE  IInv'
  <1>1. UNCHANGED <<dut, ref, is_skip_ref, open_difftest>> /\ UNCHANGED history /\ UNCHANGED poolVars
    BY DEF device_update, Return, cmd_c, cmd_si, cmd_q, cpu_exec, history
  <1>2. PoolShape' /\ watch' \in [Pool -> Watch \union {Free}] /\ halt' \in {"no", "assert", "segv"}
    BY <1>1, PoolKept
  <1>3. /\ state' \in {"RUNNING", "STOP", "END", "ABORT", "QUIT"}
        /\ loop' \in {"sdb", "exec", "device", "exit"} /\ n' \in -1 .. MaxSteps
        /\ loop' = "device" => state' = "RUNNING" /\ n' # 0
        /\ loop' = "exec" /\ n' # 0 => state' \in {"RUNNING", "QUIT"}
        /\ ended => state' \in {"END", "ABORT"}
        /\ state = "ABORT" => state' = "ABORT"
        /\ state' = "ABORT" => state = "ABORT" \/ loop' = "exit"
        /\ loop # "exit"
    <2>1. CASE device_update
      BY <2>1, NemuAssumption DEF device_update, IInv, TypeOK, Turn
    <2>2. CASE Return
      BY <2>2, NemuAssumption DEF Return, IInv, TypeOK, Turn
    <2>3. CASE cmd_c
      BY <2>3, NemuAssumption DEF cmd_c, cpu_exec, Command, IInv, TypeOK, Turn
    <2>4. CASE cmd_si
      BY <2>4, NemuAssumption DEF cmd_si, cpu_exec, Command, IInv, TypeOK, Turn
    <2>5. CASE cmd_q
      BY <2>5, NemuAssumption DEF cmd_q, Command, IInv, TypeOK, Turn
    <2> QED
      BY <2>1, <2>2, <2>3, <2>4, <2>5
  <1>4. TypeOK'
    BY <1>1, <1>2, <1>3 DEF IInv, TypeOK, history
  <1>5. Turn'
    BY <1>1, <1>3 DEF IInv, Turn, history
  <1>6. Agree'
    BY <1>1, <1>3 DEF IInv, Agree, history
  <1>7. NoFalseAlarm'
    BY <1>1, <1>3 DEF IInv, NoFalseAlarm, history
  <1> QED
    BY <1>2, <1>4, <1>5, <1>6, <1>7 DEF IInv

\* Printing, setting and deleting a watchpoint.
LEMMA CommandStep ==
    ASSUME IInv, cmd_p \/ cmd_w \/ cmd_d
    PROVE  IInv'
  <1>1. UNCHANGED <<state, loop, n, dut, ref, open_difftest>> /\ UNCHANGED history
    BY DEF cmd_p, cmd_w, cmd_d
  <1>2. 0 \in Pool
    BY WatchPoolAssumption DEF Pool
  <1>3. PoolShape' /\ watch' \in [Pool -> Watch \union {Free}] /\ halt' \in {"no", "assert", "segv"}
    <2>1. CASE cmd_p
      BY <2>1, PoolKept DEF cmd_p
    <2>2. CASE cmd_w
      <3>1. PICK e \in Exprs, d \in Val : new_wp(e, IF e = Bad THEN {} ELSE {Eval(e, dut, d)})
        BY <2>2, WatchPoolAssumption DEF cmd_w, Readings
      <3>2. PoolShape'
        BY <1>2, <3>1, CommandShape DEF IInv
      <3>3. e # Bad => Eval(e, dut, d) \in Val
        BY NemuAssumption DEF Eval, IInv, TypeOK, Machine
      <3>4. watch \in [Pool -> Watch \union {Free}] /\ halt \in {"no", "assert", "segv"}
        BY DEF IInv, TypeOK
      <3>5. CASE Die("assert")
        BY <3>2, <3>4, <3>5 DEF Die
      <3>6. CASE /\ \E v \in IF e = Bad THEN {} ELSE {Eval(e, dut, d)} :
                        watch' = [watch EXCEPT ![free_] = [e |-> e, value |-> v]]
                 /\ UNCHANGED halt
        <4>1. PICK v \in Val : watch' = [watch EXCEPT ![free_] = [e |-> e, value |-> v]]
          BY <3>3, <3>6
        <4>2. [e |-> e, value |-> v] \in Watch
          BY DEF Watch
        <4> QED
          BY <3>2, <3>4, <3>6, <4>1, <4>2
      <3> QED
        BY <3>1, <3>5, <3>6 DEF new_wp
    <2>3. CASE cmd_d
      <3>1. PICK NO \in Pool : delete_wp(NO)
        BY <2>3 DEF cmd_d
      <3>2. PoolShape'
        BY <3>1, CommandShape DEF IInv
      <3> QED
        BY <3>1, <3>2 DEF delete_wp, Die, free_wp, poolVars, IInv, TypeOK
    <2> QED
      BY <2>1, <2>2, <2>3
  <1>4. is_skip_ref' \in BOOLEAN
    <2>1. is_skip_ref \in BOOLEAN
      BY DEF IInv, TypeOK
    <2>2. CASE cmd_p
      BY <2>1, <2>2 DEF cmd_p, SkipRef
    <2>3. CASE cmd_w
      <3>1. PICK e \in Exprs : is_skip_ref' = SkipRef(is_skip_ref, e = Dev)
        BY <2>3 DEF cmd_w
      <3> QED
        BY <2>1, <3>1 DEF SkipRef
    <2>4. CASE cmd_d
      BY <2>1, <2>4 DEF cmd_d
    <2> QED
      BY <2>2, <2>3, <2>4
  <1>5. TypeOK'
    BY <1>1, <1>3, <1>4 DEF IInv, TypeOK, history
  <1>6. Turn'
    BY <1>1 DEF IInv, Turn, history
  <1>7. Agree'
    BY <1>1 DEF IInv, Agree, history
  <1>8. NoFalseAlarm'
    BY <1>1 DEF IInv, NoFalseAlarm, history
  <1> QED
    BY <1>3, <1>5, <1>6, <1>7, <1>8 DEF IInv

\* Switching the differential test on and off.
LEMMA AttachStep ==
    ASSUME IInv, cmd_attach \/ cmd_detach
    PROVE  IInv'
  <1>1. /\ UNCHANGED <<state, loop, n, dut, is_skip_ref, ended, wrong, misled>> /\ UNCHANGED poolVars
        /\ open_difftest' \in BOOLEAN
        /\ missed' \in {missed, missed \ ImgCells} /\ missed \subseteq Cells
    BY DEF cmd_attach, cmd_detach, history, IInv, TypeOK
  <1>2. PoolShape' /\ watch' \in [Pool -> Watch \union {Free}] /\ halt' \in {"no", "assert", "segv"}
    BY <1>1, PoolKept
  <1>3. /\ dut \in Machine /\ ref \in Machine
        /\ dut.r \in Val /\ dut.mem \in [Cells -> Val] /\ ref.mem \in [Cells -> Val]
    BY DEF IInv, TypeOK, Machine
  <1>4. ref' \in Machine /\ Agree'
    <2>1. CASE cmd_attach
      <3>1. /\ ref'.r = dut.r
            /\ ref'.mem = [a \in Cells |-> IF a \in ImgCells THEN dut.mem[a] ELSE ref.mem[a]]
        BY <2>1 DEF cmd_attach
      <3>2. ref' \in Machine
        BY <1>3, <2>1 DEF cmd_attach, Machine
      <3>3. missed' = missed \ ImgCells
        BY <2>1 DEF cmd_attach
      <3>4. state' # "ABORT" => \A a \in Cells \ missed' : ref'.mem[a] = dut'.mem[a]
        BY <1>1, <3>1, <3>3 DEF IInv, Agree
      <3> QED
        BY <1>1, <3>1, <3>2, <3>4 DEF Agree
    <2>2. CASE cmd_detach
      BY <1>1, <1>3, <2>2 DEF cmd_detach, history, IInv, Agree
    <2> QED
      BY <2>1, <2>2
  <1>5. TypeOK'
    BY <1>1, <1>2, <1>4 DEF IInv, TypeOK
  <1>6. Turn' /\ NoFalseAlarm'
    BY <1>1 DEF IInv, Turn, NoFalseAlarm
  <1> QED
    BY <1>2, <1>4, <1>5, <1>6 DEF IInv

LEMMA NextIInv ==
    ASSUME IInv, [Next]_vars
    PROVE  IInv'
  <1>1. CASE UNCHANGED vars
    <2>1. PoolShape'
      BY <1>1, PoolKept DEF vars
    <2>2. TypeOK'
      BY <1>1 DEF vars, history, poolVars, IInv, TypeOK
    <2> QED
      BY <1>1, <2>1, <2>2 DEF vars, history, IInv, Turn, Agree, NoFalseAlarm
  <1> QED
    BY <1>1, ExecStep, LoopStep, CommandStep, AttachStep DEF Next

\* The invariant of the monitor, for a pool, a memory and a set of values of
\* any size.
THEOREM Invariance == Spec => []IInv
  <1>1. Init => IInv
    BY InitIInv
  <1>2. IInv /\ [Next]_vars => IInv'
    BY NextIInv
  <1> QED
    BY <1>1, <1>2, PTL DEF Spec

\* No sequence of w and d commands leaks, shares or loses a watchpoint node
\* (new_wp, free_wp).
THEOREM PoolNeverLeaks == Spec => []PoolSplit
  <1>1. IInv => PoolSplit
    BY ShapeSplit DEF IInv
  <1> QED
    BY <1>1, Invariance, PTL

\* While the test is on, a program that has not been aborted has the
\* reference's registers and, but for the cells whose last store the reference has
\* missed, its memory (difftest_step).
THEOREM DiffTestAgrees == Spec => []ReferenceAgrees
  <1>1. IInv => ReferenceAgrees
    BY DEF IInv, Agree, ReferenceAgrees
  <1> QED
    BY <1>1, Invariance, PTL

\* The state ABORT comes from an illegal instruction, from q, from an instruction
\* executed wrongly, or from the load of a cell whose last store the reference has
\* missed: because the test was off, or because it skipped the store after a device
\* had been read for the debugger (map.h:41).
THEOREM AlarmsAreTrue == Spec => []NoFalseAlarm
  <1>1. IInv => NoFalseAlarm
    BY DEF IInv
  <1> QED
    BY <1>1, Invariance, PTL

\* In the states END and ABORT cpu_exec executes nothing more, and ebreak or an
\* illegal instruction ends the program for good unless a watchpoint reports a
\* change at the same instruction, which makes STOP of its end (cpu-exec.c:52).
THEOREM EndStaysFinal == Spec => EndIsFinal
  <1>1. ASSUME IInv, [Next]_vars, ended \/ state \in {"END", "ABORT"} PROVE UNCHANGED dut
    <2>1. ~ExecOnce
      BY <1>1 DEF IInv, Turn, ExecOnce
    <2> QED
      BY <1>1, <2>1 DEF Next, vars, device_update, Return, cmd_c, cmd_si, cpu_exec, cmd_q, cmd_p,
                        cmd_w, cmd_d, cmd_attach, cmd_detach
  <1>2. IInv /\ [Next]_vars => [ended \/ state \in {"END", "ABORT"} => UNCHANGED dut]_vars
    BY <1>1
  <1> QED
    BY <1>2, Invariance, PTL DEF Spec, EndIsFinal

-----------------------------------------------------------------------------
(* The list the user sees *)

\* Appending to a sequence that is given as a function.
LEMMA AppendIs ==
    ASSUME NEW S, NEW h \in Nat, NEW w \in [1 .. h -> S], NEW x \in S, NEW w2 \in [1 .. h + 1 -> S],
           \A k \in 1 .. h : w2[k] = w[k], w2[h + 1] = x
    PROVE  Len(w) = h /\ Len(w2) = h + 1 /\ w2 = Append(w, x)
  <1>1. w \in Seq(S) /\ w2 \in Seq(S)
    OBVIOUS
  <1>2. Len(w) = h /\ Len(w2) = h + 1
    OBVIOUS
  <1>3. w2 = Append(w, x)
    BY <1>1, <1>2
  <1> QED
    BY <1>2, <1>3

\* The shape of the pool gives the entries of the list, before and after a step.
LEMMA ShapeWatches ==
    \A h \in 0 .. NR_WP : \A used \in [1 .. h -> Pool], unused \in [1 .. NR_WP - h -> Pool] :
        Shape(used, unused) =>
            Watches = [k \in 1 .. h |-> [NO |-> used[k], expre |-> watch[used[k]].e]]
  <1> SUFFICES ASSUME NEW h \in 0 .. NR_WP, NEW used \in [1 .. h -> Pool],
                      NEW unused \in [1 .. NR_WP - h -> Pool], Shape(used, unused)
               PROVE  Watches = [k \in 1 .. h |-> [NO |-> used[k], expre |-> watch[used[k]].e]]
    OBVIOUS
  <1>1. List(head) = used
    BY ShapeLists
  <1>2. DOMAIN used = 1 .. h /\ \A k \in 1 .. h : used[k] \in Pool
    OBVIOUS
  <1> QED
    BY <1>1, <1>2 DEF Watches

LEMMA ShapeWatchesNext ==
    (\A h \in 0 .. NR_WP : \A used \in [1 .. h -> Pool], unused \in [1 .. NR_WP - h -> Pool] :
        Shape(used, unused) =>
            Watches = [k \in 1 .. h |-> [NO |-> used[k], expre |-> watch[used[k]].e]])'
  BY ShapeWatches, PTL

\* new_wp that does not die appends.
LEMMA SetStep ==
    ASSUME IInv, NEW e \in Exprs, NEW v \in Val
    PROVE  /\ free_ # NULL /\ free_' = next[free_] /\ AppendNode(free_)
           /\ watch' = [watch EXCEPT ![free_] = [e |-> e, value |-> v]]
           => WL!Set
  <1>0. SUFFICES ASSUME free_ # NULL, free_' = next[free_], AppendNode(free_),
                        watch' = [watch EXCEPT ![free_] = [e |-> e, value |-> v]]
                 PROVE  WL!Set
    OBVIOUS
  <1>1. PICK h \in 0 .. NR_WP : \E used \in [1 .. h -> Pool], unused \in [1 .. NR_WP - h -> Pool] :
                                   Shape(used, unused)
    BY DEF IInv, PoolShape
  <1>2. PICK used \in [1 .. h -> Pool], unused \in [1 .. NR_WP - h -> Pool] : Shape(used, unused)
    BY <1>1
  <1>3. next \in [Pool -> Pool \union {NULL}]
    BY DEF IInv, PoolShape
  <1>3a. watch \in [Pool -> Watch \union {Free}]
    BY DEF IInv, TypeOK
  <1>4. PICK new : new = free_
    OBVIOUS
  <1>5. h + 1 \in 0 .. NR_WP /\ new \in Pool /\ \A k \in 1 .. h : used[k] # new
    BY <1>0, <1>2, <1>3, <1>4, AppendShape
  <1>5a. PICK h2 \in 0 .. NR_WP : h2 = h + 1
    BY <1>5
  <1>6. PICK used2 \in [1 .. h2 -> Pool], unused2 \in [1 .. NR_WP - h2 -> Pool] :
           /\ Shape(used2, unused2)'
           /\ used2[h2] = new /\ \A k \in 1 .. h : used2[k] = used[k]
    BY <1>0, <1>2, <1>3, <1>4, <1>5a, AppendShape
  <1> DEFINE S == [NO : Pool, expre : Exprs \union {"free"}]
  <1>7. PICK w : w = Watches
    OBVIOUS
  <1>8. PICK w2 : w2 = Watches'
    OBVIOUS
  <1>9. w = [k \in 1 .. h |-> [NO |-> used[k], expre |-> watch[used[k]].e]]
    BY <1>2, <1>7, ShapeWatches
  <1>10. w2 = [k \in 1 .. h + 1 |-> [NO |-> used2[k], expre |-> watch'[used2[k]].e]]
    BY <1>6, <1>5a, <1>8, ShapeWatchesNext
  <1>11. \A a \in Pool : watch[a].e \in Exprs \union {"free"}
    BY <1>3a DEF Watch, Free
  <1>12. w \in [1 .. h -> S]
    BY <1>9, <1>11
  <1>13. w2[h + 1] = [NO |-> new, expre |-> e] /\ \A k \in 1 .. h : w2[k] = w[k]
    BY <1>0, <1>3a, <1>4, <1>5, <1>6, <1>5a, <1>9, <1>10
  <1>14. [NO |-> new, expre |-> e] \in S /\ w2 \in [1 .. h + 1 -> S]
    <2>1. [NO |-> new, expre |-> e] \in S
      BY <1>5
    <2> HIDE DEF S
    <2>2. ASSUME NEW k \in 1 .. h + 1 PROVE w2[k] \in S
      <3>1. CASE k = h + 1
        BY <1>13, <2>1, <3>1
      <3>2. CASE k \in 1 .. h
        BY <1>12, <1>13, <3>2
      <3> QED
        BY <3>1, <3>2
    <2>3. w2 = [k \in 1 .. h + 1 |-> w2[k]]
      BY <1>5a, <1>10
    <2> QED
      BY <2>1, <2>2, <2>3
  <1>15. Len(w) = h /\ Len(w2) = h + 1 /\ w2 = Append(w, w2[h + 1])
    <2> HIDE DEF S
    <2> QED
      BY <1>12, <1>13, <1>14, AppendIs
  <1>16. new \notin {w[k].NO : k \in DOMAIN w}
    BY <1>5, <1>9
  <1>17. WL!Last(w2) = w2[h + 1]
    BY <1>15 DEF WL!Last
  <1>18. new \in 0 .. NR_WP - 1 /\ h < NR_WP
    BY <1>5, WatchPoolAssumption DEF Pool
  <1> QED
    BY <1>7, <1>8, <1>13, <1>15, <1>16, <1>17, <1>18 DEF WL!Set, WL!InUse

\* free_wp removes one entry.
LEMMA DeleteStep ==
    ASSUME IInv, NEW NO \in Pool, NO \in Nodes(head), free_wp(NO)
    PROVE  WL!Delete
  <1>1. PICK h \in 0 .. NR_WP : \E used \in [1 .. h -> Pool], unused \in [1 .. NR_WP - h -> Pool] :
                                   Shape(used, unused)
    BY DEF IInv, PoolShape
  <1>2. PICK used \in [1 .. h -> Pool], unused \in [1 .. NR_WP - h -> Pool] : Shape(used, unused)
    BY <1>1
  <1>3. next \in [Pool -> Pool \union {NULL}] /\ watch \in [Pool -> Watch \union {Free}]
    BY DEF IInv, PoolShape, TypeOK
  <1>4. PICK j \in 1 .. h : NO = used[j]
    BY <1>2, ShapeLists DEF Nodes
  <1>5. h - 1 \in 0 .. NR_WP
    BY <1>2, <1>3, <1>4, FreeShape
  <1>6. PICK used2 \in [1 .. h - 1 -> Pool], unused2 \in [1 .. NR_WP - (h - 1) -> Pool] :
           /\ Shape(used2, unused2)'
           /\ \A k \in 1 .. h - 1 : used2[k] = IF k < j THEN used[k] ELSE used[k + 1]
    BY <1>2, <1>3, <1>4, FreeShape
  <1> DEFINE S == [NO : Pool, expre : Exprs \union {"free"}]
  <1>7. PICK w : w = Watches
    OBVIOUS
  <1>8. PICK w2 : w2 = Watches'
    OBVIOUS
  <1>9. w = [k \in 1 .. h |-> [NO |-> used[k], expre |-> watch[used[k]].e]]
    BY <1>2, <1>7, ShapeWatches
  <1>10. w2 = [k \in 1 .. h - 1 |-> [NO |-> used2[k], expre |-> watch'[used2[k]].e]]
    BY <1>5, <1>6, <1>8, ShapeWatchesNext
  <1>11. \A a \in Pool : watch[a].e \in Exprs \union {"free"}
    BY <1>3 DEF Watch, Free
  <1>12. w \in [1 .. h -> S]
    BY <1>9, <1>11
  <1>13. ASSUME NEW k \in 1 .. h - 1 PROVE w2[k] = IF k < j THEN w[k] ELSE w[k + 1]
    <2>1. PICK i \in 1 .. h : i # j /\ used2[k] = used[i] /\ i = IF k < j THEN k ELSE k + 1
      BY <1>6
    <2>2. used[i] # NO
      BY <1>2, <1>4, <2>1 DEF Shape
    <2>3. watch'[used[i]] = watch[used[i]]
      BY <1>3, <2>2 DEF free_wp
    <2> QED
      BY <1>9, <1>10, <2>1, <2>3
  <1>14. w2 \in [1 .. h - 1 -> S]
    <2> HIDE DEF S
    <2>1. ASSUME NEW k \in 1 .. h - 1 PROVE w2[k] \in S
      <3>1. w[k] \in S /\ w[k + 1] \in S
        BY <1>12
      <3> QED
        BY <1>13, <3>1
    <2> QED
      BY <1>10, <2>1
  <1>15. Len(w) = h /\ Len(w2) = h - 1 /\ w2 = SubSeq(w, 1, j - 1) \o SubSeq(w, j + 1, Len(w))
    <2> HIDE DEF S
    <2>0. \A k \in 1 .. h - 1 : w2[k] = IF k < j THEN w[k] ELSE w[k + 1]
      BY <1>13
    <2>1. w \in Seq(S) /\ w2 \in Seq(S)
      BY <1>12, <1>14
    <2>2. Len(w) = h /\ Len(w2) = h - 1
      BY <1>12, <1>14
    <2> DEFINE front == SubSeq(w, 1, j - 1)
               back == SubSeq(w, j + 1, h)
    <2>3. front \in Seq(S) /\ Len(front) = j - 1 /\ \A k \in 1 .. j - 1 : front[k] = w[k]
      BY <2>1, <2>2
    <2>4. back \in Seq(S) /\ Len(back) = h - j /\ \A k \in 1 .. h - j : back[k] = w[k + j]
      BY <2>1, <2>2
    <2> HIDE DEF front, back
    <2>5. w2 = front \o back
      <3>1. PICK c \in Seq(S) : c = front \o back
        BY <2>3, <2>4, ConcatProperties
      <3>2. Len(c) = h - 1 /\ \A k \in 1 .. h - 1 : c[k] = IF k <= j - 1 THEN front[k] ELSE back[k - (j - 1)]
        BY <2>3, <2>4, <3>1, ConcatProperties
      <3>3. ASSUME NEW k \in 1 .. h - 1 PROVE c[k] = w2[k]
        <4>1. CASE k < j
          BY <2>0, <2>3, <3>2, <4>1
        <4>2. CASE k >= j
          <5>1. k - (j - 1) \in 1 .. h - j /\ c[k] = back[k - (j - 1)]
            BY <3>2, <4>2
          <5>2. back[k - (j - 1)] = w[k + 1]
            BY <2>4, <5>1
          <5> QED
            BY <2>0, <4>2, <5>1, <5>2
        <4> QED
          BY <4>1, <4>2
      <3>4. c = w2
        BY <2>1, <2>2, <3>2, <3>3, SeqEqual
      <3> QED
        BY <3>1, <3>4
    <2> QED
      BY <2>2, <2>5 DEF front, back
  <1>16. j \in DOMAIN w /\ w2 = WL!RemoveAt(w, j) /\ Len(w2) < Len(w)
    BY <1>9, <1>15 DEF WL!RemoveAt
  <1> QED
    BY <1>7, <1>8, <1>16 DEF WL!Delete

\* To the user the two linked lists are one list of watchpoints (new_wp,
\* free_wp): w appends a new number, d removes one entry and keeps the rest.
THEOREM PoolIsWatchList == Spec => IsWatchList
  <1>1. Init => WL!Init
    <2> SUFFICES ASSUME Init PROVE Watches = << >>
      BY DEF WL!Init
    <2>1. head = NULL
      BY DEF Init, PoolInit
    <2>2. PoolShape
      BY InitIInv DEF IInv
    <2>3. PICK h \in 0 .. NR_WP : \E used \in [1 .. h -> Pool], unused \in [1 .. NR_WP - h -> Pool] :
                                     Shape(used, unused)
      BY <2>2 DEF PoolShape
    <2>4. PICK used \in [1 .. h -> Pool], unused \in [1 .. NR_WP - h -> Pool] : Shape(used, unused)
      BY <2>3
    <2>5. h = 0
      BY <2>1, <2>4 DEF Shape, Linked, Pool, NULL
    <2>6. Watches = [k \in 1 .. h |-> [NO |-> used[k], expre |-> watch[used[k]].e]]
      BY <2>4, ShapeWatches
    <2> QED
      BY <2>5, <2>6
  <1>2. ASSUME IInv, [Next]_vars PROVE [WL!Next]_Watches
    <2>1. CASE UNCHANGED <<next, watch, head>>
      <3>1. List(head)' = List(head)
        BY <2>1 DEF List, Longer
      <3> QED
        BY <2>1, <3>1 DEF Watches
    <2>2. CASE cmd_w
      <3>1. PICK e \in Exprs, d \in Val : new_wp(e, IF e = Bad THEN {} ELSE {Eval(e, dut, d)})
        BY <2>2, WatchPoolAssumption DEF cmd_w, Readings
      <3>2. CASE Die("assert")
        BY <2>1, <3>2 DEF Die
      <3>3. CASE ~Die("assert")
        <4>1. e # Bad => Eval(e, dut, d) \in Val
          BY <1>2, NemuAssumption DEF Eval, IInv, TypeOK, Machine
        <4>2. PICK v \in Val : /\ free_ # NULL /\ free_' = next[free_] /\ AppendNode(free_)
                               /\ watch' = [watch EXCEPT ![free_] = [e |-> e, value |-> v]]
          BY <3>1, <3>3, <4>1 DEF new_wp
        <4> QED
          BY <1>2, <4>2, SetStep DEF WL!Next
      <3> QED
        BY <3>2, <3>3
    <2>3. CASE cmd_d
      <3>1. PICK NO \in Pool : delete_wp(NO)
        BY <2>3 DEF cmd_d
      <3>2. CASE NO \in Nodes(head) /\ free_wp(NO)
        BY <1>2, <3>2, DeleteStep DEF WL!Next
      <3>3. CASE ~(NO \in Nodes(head) /\ free_wp(NO))
        BY <2>1, <3>1, <3>3 DEF delete_wp, Die, poolVars
      <3> QED
        BY <3>2, <3>3
    <2> QED
      BY <1>2, <2>1, <2>2, <2>3 DEF Next, vars, poolVars, ExecOnce, device_update, Return, cmd_c, cmd_si,
                                  cpu_exec, cmd_q, cmd_p, cmd_attach, cmd_detach
  <1> QED
    BY <1>1, <1>2, Invariance, PTL DEF Spec, IsWatchList, WL!Spec

-----------------------------------------------------------------------------
(* The value of an expression.  A phrase of the grammar has matching       *)
(* parentheses and one value, and the operator it is split at is the last  *)
(* of the loosest outside of them, which is where eval splits; a sign that *)
(* starts the text passes for binary, but -(a*b) is (-a)*b.                *)

\* A nonempty set of places has a first and a last one.
LEMMA FirstAndLast ==
    ASSUME NEW p \in Int, NEW q \in Int, NEW S \in SUBSET (p .. q), S # {}
    PROVE  /\ \E i \in S : \A k \in S : i <= k
           /\ \E i \in S : \A k \in S : k <= i
  <1>1. \E i \in S : \A k \in S : i <= k
    <2> DEFINE N == {len \in Nat : p + len \in S}
    <2>1. N \in SUBSET Nat /\ N # {}
      <3>1. PICK k \in S : TRUE
        OBVIOUS
      <3>2. k - p \in Nat /\ p + (k - p) = k
        BY <3>1
      <3>3. k - p \in N
        BY <3>1, <3>2
      <3> QED
        BY <3>3
    <2>2. PICK m \in N : \A len \in N : m <= len
      <3> HIDE DEF N
      <3> QED
        BY <2>1, LeastNumber
    <2>3. ASSUME NEW k \in S PROVE p + m <= k
      <3>1. k - p \in Nat /\ p + (k - p) = k
        OBVIOUS
      <3>2. k - p \in N
        BY <3>1
      <3> QED
        BY <2>2, <3>1, <3>2
    <2>4. p + m \in S
      BY <2>2
    <2> QED
      BY <2>3, <2>4
  <1>2. \E i \in S : \A k \in S : k <= i
    <2> DEFINE N == {len \in Nat : q - len \in S}
    <2>1. N \in SUBSET Nat /\ N # {}
      <3>1. PICK k \in S : TRUE
        OBVIOUS
      <3>2. q - k \in Nat /\ q - (q - k) = k
        BY <3>1
      <3>3. q - k \in N
        BY <3>1, <3>2
      <3> QED
        BY <3>3
    <2>2. PICK m \in N : \A len \in N : m <= len
      <3> HIDE DEF N
      <3> QED
        BY <2>1, LeastNumber
    <2>3. ASSUME NEW k \in S PROVE k <= q - m
      <3>1. q - k \in Nat /\ q - (q - k) = k
        OBVIOUS
      <3>2. q - k \in N
        BY <3>1
      <3> QED
        BY <2>2, <3>1, <3>2
    <2>4. q - m \in S
      BY <2>2
    <2> QED
      BY <2>3, <2>4
  <1> QED
    BY <1>1, <1>2

-----------------------------------------------------------------------------
(* Parentheses.                                                            *)

\* Both sets that the depth counts are finite.
LEMMA BracketsFinite ==
    ASSUME NEW t, NEW p \in Int, NEW i \in Int
    PROVE  /\ IsFiniteSet(Opened(t, p, i)) /\ Cardinality(Opened(t, p, i)) \in Nat
           /\ IsFiniteSet(Closed(t, p, i)) /\ Cardinality(Closed(t, p, i)) \in Nat
           /\ Depth(t, p, i) \in Int
  <1>1. IsFiniteSet(p .. i)
    BY FS_Interval
  <1>2. Opened(t, p, i) \in SUBSET (p .. i) /\ Closed(t, p, i) \in SUBSET (p .. i)
    BY DEF Opened, Closed
  <1>3. IsFiniteSet(Opened(t, p, i)) /\ IsFiniteSet(Closed(t, p, i))
    BY <1>1, <1>2, FS_Subset
  <1>4. Cardinality(Opened(t, p, i)) \in Nat /\ Cardinality(Closed(t, p, i)) \in Nat
    BY <1>3, FS_CardinalityType
  <1> QED
    BY <1>3, <1>4 DEF Depth

\* The number of elements of two sets without a common one.
LEMMA CountJoin ==
    ASSUME NEW S, IsFiniteSet(S), NEW T, IsFiniteSet(T), S \cap T = {}
    PROVE  Cardinality(S \union T) = Cardinality(S) + Cardinality(T)
  <1>1. Cardinality(S \union T) = Cardinality(S) + Cardinality(T) - Cardinality(S \cap T)
    BY FS_Union
  <1>2. Cardinality(S \cap T) = 0
    BY FS_EmptySet, Zenon
  <1>3. Cardinality(S) \in Nat /\ Cardinality(T) \in Nat
    BY FS_CardinalityType
  <1> HIDE DEF IsFiniteSet
  <1> QED
    BY <1>1, <1>2, <1>3

\* The depth at i, counted from p, is that at k - 1 and what comes from k on.
LEMMA DepthJoin ==
    ASSUME NEW t, NEW p \in Int, NEW i \in Int, NEW k \in p .. i + 1
    PROVE  Depth(t, p, i) = Depth(t, p, k - 1) + Depth(t, k, i)
  <1>1. /\ Opened(t, p, i) = Opened(t, p, k - 1) \union Opened(t, k, i)
        /\ Opened(t, p, k - 1) \cap Opened(t, k, i) = {}
        /\ Closed(t, p, i) = Closed(t, p, k - 1) \union Closed(t, k, i)
        /\ Closed(t, p, k - 1) \cap Closed(t, k, i) = {}
    BY DEF Opened, Closed
  <1>2. k \in Int /\ k - 1 \in Int
    OBVIOUS
  <1>3. /\ IsFiniteSet(Opened(t, p, k - 1)) /\ IsFiniteSet(Opened(t, k, i))
        /\ IsFiniteSet(Closed(t, p, k - 1)) /\ IsFiniteSet(Closed(t, k, i))
    BY <1>2, BracketsFinite
  <1>4. /\ Cardinality(Opened(t, p, i))
             = Cardinality(Opened(t, p, k - 1)) + Cardinality(Opened(t, k, i))
        /\ Cardinality(Closed(t, p, i))
             = Cardinality(Closed(t, p, k - 1)) + Cardinality(Closed(t, k, i))
    BY <1>1, <1>3, CountJoin, Zenon
  <1>5. /\ Cardinality(Opened(t, p, k - 1)) \in Nat /\ Cardinality(Opened(t, k, i)) \in Nat
        /\ Cardinality(Closed(t, p, k - 1)) \in Nat /\ Cardinality(Closed(t, k, i)) \in Nat
    BY <1>3, FS_CardinalityType
  <1> QED
    BY <1>4, <1>5 DEF Depth

\* One token.
LEMMA DepthOne ==
    ASSUME NEW t, NEW i \in Int
    PROVE  /\ Depth(t, i, i - 1) = 0
           /\ Depth(t, i, i) = IF t[i].type = "(" THEN 1 ELSE IF t[i].type = ")" THEN -1 ELSE 0
  <1>1. Cardinality({}) = 0 /\ Cardinality({i}) = 1
    BY FS_EmptySet, FS_Singleton
  <1>2. Opened(t, i, i - 1) = {} /\ Closed(t, i, i - 1) = {}
    BY DEF Opened, Closed
  <1>3. /\ Opened(t, i, i) = IF t[i].type = "(" THEN {i} ELSE {}
        /\ Closed(t, i, i) = IF t[i].type = ")" THEN {i} ELSE {}
    BY DEF Opened, Closed
  <1>4. "(" # ")"
    OBVIOUS
  <1> QED
    BY <1>1, <1>2, <1>3, <1>4 DEF Depth

\* The depth only depends on the parentheses.
LEMMA DepthSame ==
    ASSUME NEW s, NEW t, NEW p \in Int, NEW i \in Int,
           \A k \in p .. i : /\ s[k].type = "(" <=> t[k].type = "("
                             /\ s[k].type = ")" <=> t[k].type = ")"
    PROVE  Depth(s, p, i) = Depth(t, p, i)
  <1>1. Opened(s, p, i) = Opened(t, p, i) /\ Closed(s, p, i) = Closed(t, p, i)
    BY DEF Opened, Closed
  <1> QED
    BY <1>1 DEF Depth

-----------------------------------------------------------------------------
(* The dominant operator.                                                  *)

\* The precedences that prior gives.
LEMMA PriorRange == \A type : prior(type) \in {-1, 0, 2, 3, 4}
BY DEF prior

Loosest(t, p, q) ==
    {i \in Outside(t, p, q) :
        \A k \in Outside(t, p, q) : prior(t[k].type) <= prior(t[i].type)}

\* Of the operators outside of parentheses one is the loosest.
LEMMA LoosestExists ==
    ASSUME NEW t, NEW p \in Int, NEW q \in Int, Outside(t, p, q) # {}
    PROVE  Loosest(t, p, q) # {}
  <1> DEFINE O == Outside(t, p, q)
             N == {len \in Nat : \E i \in O : len = 4 - prior(t[i].type)}
  <1>1. \A i \in O : 4 - prior(t[i].type) \in Nat
    BY PriorRange
  <1>2. N \in SUBSET Nat /\ N # {}
    <2>1. PICK i \in O : TRUE
      OBVIOUS
    <2> QED
      BY <1>1, <2>1
  <1>3. PICK m \in N : \A len \in N : m <= len
    <2> HIDE DEF N
    <2> QED
      BY <1>2, LeastNumber
  <1>4. PICK i \in O : m = 4 - prior(t[i].type)
    BY <1>3
  <1>5. ASSUME NEW k \in O PROVE prior(t[k].type) <= prior(t[i].type)
    <2>1. 4 - prior(t[k].type) \in N
      BY <1>1
    <2>2. m <= 4 - prior(t[k].type)
      BY <1>3, <2>1
    <2>3. prior(t[k].type) \in Int /\ prior(t[i].type) \in Int
      BY PriorRange
    <2> QED
      BY <1>4, <2>2, <2>3
  <1> QED
    BY <1>4, <1>5 DEF Loosest

\* The dominant operator is the last or the first of the loosest ones.
LEMMA DominantIs ==
    ASSUME NEW t, NEW p \in Int, NEW q \in Int, Outside(t, p, q) # {}
    PROVE  LET op == dominant_operator(t, p, q)
           IN  /\ op \in Loosest(t, p, q)
               /\ prior(t[op].type) >= 2 => \A k \in Loosest(t, p, q) : k <= op
               /\ ~(prior(t[op].type) >= 2) => \A k \in Loosest(t, p, q) : op <= k
  <1> DEFINE L == Loosest(t, p, q)
             Right(i) == IF prior(t[i].type) >= 2 THEN \A k \in L : k <= i ELSE \A k \in L : i <= k
  <1>1. L \in SUBSET (p .. q) /\ L # {}
    BY LoosestExists DEF Loosest, Outside
  <1>2. \A i \in L, k \in L : prior(t[i].type) = prior(t[k].type)
    <2>1. \A i \in L, k \in L : prior(t[i].type) <= prior(t[k].type) /\ prior(t[k].type) <= prior(t[i].type)
      BY DEF Loosest
    <2> QED
      BY <2>1, PriorRange
  <1>3. \E i \in L : Right(i)
    <2>1. PICK i \in L : \A k \in L : i <= k
      BY <1>1, FirstAndLast
    <2>2. PICK j \in L : \A k \in L : k <= j
      BY <1>1, FirstAndLast
    <2>3. prior(t[i].type) = prior(t[j].type)
      BY <1>2
    <2> QED
      BY <2>1, <2>2, <2>3
  <1>4. dominant_operator(t, p, q) = CHOOSE i \in L : Right(i)
    BY DEF dominant_operator, Loosest
  <1> HIDE DEF L, Right
  <1>5. LET op == dominant_operator(t, p, q) IN op \in L /\ Right(op)
    BY <1>3, <1>4
  <1> QED
    BY <1>5 DEF L, Right

\* The dominant operator is one of those outside of parentheses.
LEMMA DominantIn ==
    ASSUME NEW t, NEW p \in Int, NEW q \in Int, p <= q
    PROVE  dominant_operator(t, p, q) \in p .. q
  <1>1. CASE Outside(t, p, q) = {}
    BY <1>1 DEF dominant_operator
  <1>2. CASE Outside(t, p, q) # {}
    BY <1>2, DominantIs DEF Loosest, Outside
  <1> QED
    BY <1>1, <1>2

-----------------------------------------------------------------------------
(* The recursive functions are what their rules say.                       *)

\* One call of eval looks at shorter ranges only.
LEMMA EvalLocal ==
    ASSUME NEW t, Len(t) \in Nat, NEW f, NEW g, NEW r \in Ranges(t),
           \A x \in Ranges(t) : x[2] - x[1] < r[2] - r[1] => f[x] = g[x]
    PROVE  EvalStep(t, f, r[1], r[2]) = EvalStep(t, g, r[1], r[2])
  <1> DEFINE p == r[1]
             q == r[2]
             op == dominant_operator(t, p, q)
  <1>1. p \in 1 .. Len(t) + 1 /\ q \in 0 .. Len(t)
    BY DEF Ranges
  <1> HIDE DEF p, q
  <1>2. ASSUME NEW a \in 1 .. Len(t) + 1, NEW b \in 0 .. Len(t), b - a < q - p
        PROVE  f[<<a, b>>] = g[<<a, b>>]
    <2>1. <<a, b>> \in Ranges(t) /\ <<a, b>>[1] = a /\ <<a, b>>[2] = b
      BY DEF Ranges
    <2> QED
      BY <1>2, <2>1 DEF p, q
  <1>3. CASE p > q \/ p = q
    BY <1>3 DEF EvalStep, p, q
  <1>4. CASE p < q
    <2>1. op \in p .. q
      BY <1>1, <1>4, DominantIn
    <2> HIDE DEF op
    <2>2. /\ f[<<p + 1, q - 1>>] = g[<<p + 1, q - 1>>]
          /\ f[<<p, op - 1>>] = g[<<p, op - 1>>]
          /\ f[<<op + 1, q>>] = g[<<op + 1, q>>]
      BY <1>1, <1>2, <1>4, <2>1
    <2>3. AtOperator(t, f, p, op, q) = AtOperator(t, g, p, op, q)
      <3> DEFINE Join(A, B) == UNION {Apply(t[op].type, a, b) : a \in A, b \in B}
      <3>1. \A h : AtOperator(t, h, p, op, q) = Join(h[<<p, op - 1>>], h[<<op + 1, q>>])
        BY DEF AtOperator
      <3> HIDE DEF Join
      <3> QED
        BY <2>2, <3>1, Zenon
    <2> USE DEF op
    <2>4. EvalStep(t, f, p, q) = EvalStep(t, g, p, q)
      BY <2>2, <2>3, Zenon DEF EvalStep
    <2> QED
      BY <2>4 DEF p, q
  <1> QED
    BY <1>1, <1>3, <1>4

\* There is a function with the values of eval, on ranges longer and longer.
LEMMA EvalUpTo ==
    ASSUME NEW t, Len(t) \in Nat, NEW len \in Nat
    PROVE  \E f : \A r \in Ranges(t) :
               r[2] - r[1] <= len - Len(t) - 1 => f[r] = EvalStep(t, f, r[1], r[2])
  <1> DEFINE UpTo(k, f) == \A r \in Ranges(t) :
                 r[2] - r[1] <= k - Len(t) - 1 => f[r] = EvalStep(t, f, r[1], r[2])
             N == {k \in Nat : ~\E f : UpTo(k, f)}
  <1>1. SUFFICES ASSUME N # {} PROVE FALSE
    OBVIOUS
  <1>2. PICK k \in N : \A i \in N : k <= i
    <2>1. N \in SUBSET Nat
      OBVIOUS
    <2> HIDE DEF N
    <2> QED
      BY <1>1, <2>1, LeastNumber
  <1>3. k \in Nat /\ ~\E f : UpTo(k, f)
    BY <1>2
  <1>4. \A r \in Ranges(t) : r[1] \in 1 .. Len(t) + 1 /\ r[2] \in 0 .. Len(t)
    BY DEF Ranges
  <1>5. k # 0
    <2>1. ASSUME k = 0 PROVE FALSE
      <3> DEFINE f == [r \in Ranges(t) |-> {0}]
      <3>1. UpTo(k, f)
        <4>1. ASSUME NEW r \in Ranges(t), r[2] - r[1] <= k - Len(t) - 1
              PROVE  f[r] = EvalStep(t, f, r[1], r[2])
          <5>1. r[1] > r[2]
            BY <1>4, <2>1, <4>1
          <5> QED
            BY <5>1 DEF EvalStep
        <4> QED
          BY <4>1
      <3> HIDE DEF UpTo
      <3> QED
        BY <1>3, <3>1
    <2> QED
      BY <2>1
  <1>6. PICK f : UpTo(k - 1, f)
    <2>1. k - 1 \in Nat /\ ~(k <= k - 1)
      BY <1>3, <1>5
    <2>2. k - 1 \notin N
      BY <1>2, <2>1
    <2> HIDE DEF UpTo
    <2> QED
      BY <2>1, <2>2
  <1> DEFINE g == [r \in Ranges(t) |->
                      IF r[2] - r[1] <= k - 1 - Len(t) - 1 THEN f[r] ELSE EvalStep(t, f, r[1], r[2])]
  <1>7. UpTo(k, g)
    <2>1. ASSUME NEW r \in Ranges(t), r[2] - r[1] <= k - Len(t) - 1
          PROVE  g[r] = EvalStep(t, g, r[1], r[2])
      <3>1. ASSUME NEW x \in Ranges(t), x[2] - x[1] < r[2] - r[1] PROVE f[x] = g[x]
        <4>1. x[2] - x[1] <= k - 1 - Len(t) - 1
          <5> HIDE DEF UpTo, N, g
          <5>1. /\ x[1] \in Int /\ x[2] \in Int /\ r[1] \in Int /\ r[2] \in Int
                /\ k \in Int /\ Len(t) \in Int
            BY <1>3, <1>4
          <5> QED
            BY <2>1, <3>1, <5>1
        <4> QED
          BY <4>1
      <3>2. g[r] = EvalStep(t, f, r[1], r[2])
        <4>1. r[2] - r[1] <= k - 1 - Len(t) - 1 => f[r] = EvalStep(t, f, r[1], r[2])
          BY <1>6, <2>1
        <4> QED
          BY <2>1, <4>1, Zenon
      <3> HIDE DEF g, UpTo
      <3>3. EvalStep(t, f, r[1], r[2]) = EvalStep(t, g, r[1], r[2])
        BY <3>1, EvalLocal
      <3> QED
        BY <3>2, <3>3
    <2> HIDE DEF g
    <2> QED
      BY <2>1
  <1> HIDE DEF UpTo, g
  <1> QED
    BY <1>3, <1>7

\* eval does what one of its calls does, at every range.
LEMMA EvalIs ==
    ASSUME NEW t, Len(t) \in Nat, NEW p \in 1 .. Len(t) + 1, NEW q \in 0 .. Len(t)
    PROVE  eval(t)[<<p, q>>] = EvalStep(t, eval(t), p, q)
  <1> DEFINE Good(f) == f = [r \in Ranges(t) |-> EvalStep(t, f, r[1], r[2])]
  <1>1. \E f : Good(f)
    <2>1. PICK len \in Nat : len - Len(t) - 1 = Len(t)
      <3>1. 2 * Len(t) + 1 \in Nat /\ 2 * Len(t) + 1 - Len(t) - 1 = Len(t)
        OBVIOUS
      <3> QED
        BY <3>1
    <2>2. PICK f : \A r \in Ranges(t) :
              r[2] - r[1] <= len - Len(t) - 1 => f[r] = EvalStep(t, f, r[1], r[2])
      BY EvalUpTo, Zenon
    <2>3. \A r \in Ranges(t) : r[2] - r[1] <= len - Len(t) - 1
      BY <2>1 DEF Ranges
    <2> DEFINE g == [r \in Ranges(t) |-> f[r]]
    <2>4. \A x \in Ranges(t) : f[x] = g[x]
      OBVIOUS
    <2>5. \A r \in Ranges(t) : g[r] = EvalStep(t, g, r[1], r[2])
      <3>1. ASSUME NEW r \in Ranges(t) PROVE g[r] = EvalStep(t, g, r[1], r[2])
        <4>1. f[r] = EvalStep(t, f, r[1], r[2]) /\ f[r] = g[r]
          BY <2>2, <2>3
        <4>2. EvalStep(t, f, r[1], r[2]) = EvalStep(t, g, r[1], r[2])
          <5> HIDE DEF g
          <5> QED
            BY <2>4, EvalLocal
        <4> HIDE DEF g
        <4> QED
          BY <4>1, <4>2
      <3> HIDE DEF g
      <3> QED
        BY <3>1
    <2>6. g = [r \in Ranges(t) |-> g[r]]
      OBVIOUS
    <2> HIDE DEF g
    <2>7. Good(g)
      BY <2>5, <2>6
    <2> QED
      BY <2>7
  <1>2. eval(t) = CHOOSE f : Good(f)
    BY DEF eval
  <1> HIDE DEF Good
  <1>3. Good(eval(t))
    BY <1>1, <1>2
  <1>4. <<p, q>> \in Ranges(t) /\ <<p, q>>[1] = p /\ <<p, q>>[2] = q
    BY DEF Ranges
  <1>5. eval(t) = [r \in Ranges(t) |-> EvalStep(t, eval(t), r[1], r[2])]
    BY <1>3 DEF Good
  <1> QED
    BY <1>4, <1>5

SumValue(t, m, p, q, v) ==
    \/ v \in m[<<"Product", p, q>>]
    \/ \E i \in p + 1 .. q - 1 :
          /\ t[i].type \in {"+", "-"}
          /\ \E a \in m[<<"Sum", p, i - 1>>], b \in m[<<"Product", i + 1, q>>] :
                v = Joined(t[i].type, a, b)

\* The values of a sum, one by one.
LEMMA SumRuleValue ==
    ASSUME NEW t, NEW m, NEW p, NEW q, NEW v
    PROVE  v \in SumRule(t, m, p, q) <=> SumValue(t, m, p, q, v)
  <1> DEFINE I == {i \in p + 1 .. q - 1 : t[i].type \in {"+", "-"}}
             Low == m[<<"Product", p, q>>]
             At(i) == {Joined(t[i].type, a, b) :
                       a \in m[<<"Sum", p, i - 1>>], b \in m[<<"Product", i + 1, q>>]}
  <1>1. SumRule(t, m, p, q) = Low \union UNION {At(i) : i \in I}
    BY DEF SumRule
  <1>2. \A i : v \in At(i) <=> \E a \in m[<<"Sum", p, i - 1>>], b \in m[<<"Product", i + 1, q>>] :
                                  v = Joined(t[i].type, a, b)
    OBVIOUS
  <1> HIDE DEF At, Low
  <1>3. v \in UNION {At(i) : i \in I} <=> \E i \in I : v \in At(i)
    OBVIOUS
  <1>4. v \in SumRule(t, m, p, q) <=> v \in Low \/ \E i \in I : v \in At(i)
    BY <1>1, <1>3
  <1> QED
    BY <1>2, <1>4, Zenon DEF Low, SumValue

ProductValue(t, m, p, q, v) ==
     \/ v \in m[<<"Factor", p, q>>]
    \/ \E i \in p + 1 .. q - 1 :
          /\ t[i].type \in {"*", "/"}
          /\ \E a \in m[<<"Product", p, i - 1>>], b \in m[<<"Factor", i + 1, q>>] :
                /\ t[i].type = "/" => b # 0
                /\ v = Joined(t[i].type, a, b)

\* The values of a product, one by one.
LEMMA ProductRuleValue ==
    ASSUME NEW t, NEW m, NEW p, NEW q, NEW v
    PROVE  v \in ProductRule(t, m, p, q) <=> ProductValue(t, m, p, q, v)
  <1> DEFINE I == {i \in p + 1 .. q - 1 : t[i].type \in {"*", "/"}}
             Low == m[<<"Factor", p, q>>]
             At(i) == {Joined(t[i].type, a, b) :
                       a \in m[<<"Product", p, i - 1>>],
                       b \in {b \in m[<<"Factor", i + 1, q>>] : t[i].type = "/" => b # 0}}
  <1>1. ProductRule(t, m, p, q) = Low \union UNION {At(i) : i \in I}
    BY DEF ProductRule
  <1>2. \A i : v \in At(i) <=>
                \E a \in m[<<"Product", p, i - 1>>],
                   b \in {b \in m[<<"Factor", i + 1, q>>] : t[i].type = "/" => b # 0} :
                  v = Joined(t[i].type, a, b)
    OBVIOUS
  <1> HIDE DEF At, Low
  <1>3. v \in UNION {At(i) : i \in I} <=> \E i \in I : v \in At(i)
    OBVIOUS
  <1>4. v \in ProductRule(t, m, p, q) <=> v \in Low \/ \E i \in I : v \in At(i)
    BY <1>1, <1>3
  <1> QED
    BY <1>2, <1>4, Zenon DEF Low, ProductValue

Level(kind) == CASE kind = "Sum" -> 2 [] kind = "Product" -> 1 [] OTHER -> 0

Rank(r) == 3 * (r[3] - r[2]) + Level(r[1])

\* A rule looks at lower phrases only.
LEMMA RuleLocal ==
    ASSUME NEW t, Len(t) \in Nat, NEW f, NEW g, NEW r \in Phrases(t),
           \A x \in Phrases(t) : Rank(x) < Rank(r) => f[x] = g[x]
    PROVE  Rule(t, f, r[1], r[2], r[3]) = Rule(t, g, r[1], r[2], r[3])
  <1> DEFINE kind == r[1]
             p == r[2]
             q == r[3]
  <1>1. kind \in Kinds /\ p \in 1 .. Len(t) /\ q \in 1 .. Len(t)
    BY DEF Phrases
  <1>2. Rank(r) = 3 * (q - p) + Level(kind)
    BY DEF Rank
  <1> HIDE DEF kind, p, q
  <1>3. ASSUME NEW k \in Kinds, NEW a \in 1 .. Len(t), NEW b \in 1 .. Len(t),
               3 * (b - a) + Level(k) < 3 * (q - p) + Level(kind)
        PROVE  f[<<k, a, b>>] = g[<<k, a, b>>]
    <2>1. <<k, a, b>> \in Phrases(t) /\ Rank(<<k, a, b>>) = 3 * (b - a) + Level(k)
      BY DEF Phrases, Rank
    <2> QED
      BY <1>2, <1>3, <2>1
  <1>4. ASSUME NEW k \in Kinds, NEW a \in 1 .. Len(t), NEW b \in 1 .. Len(t), b - a < q - p
        PROVE  f[<<k, a, b>>] = g[<<k, a, b>>]
    <2>1. Level(k) <= 2 /\ Level(kind) >= 0 /\ Level(k) \in Int /\ Level(kind) \in Int
      BY DEF Level
    <2>2. 3 * (b - a) + Level(k) < 3 * (q - p) + Level(kind)
      BY <1>1, <1>4, <2>1
    <2> QED
      BY <1>3, <2>2
  <1>5. CASE kind = "Sum"
    <2>1. f[<<"Product", p, q>>] = g[<<"Product", p, q>>]
      BY <1>1, <1>3, <1>5 DEF Kinds, Level
    <2>2. ASSUME NEW i \in p + 1 .. q - 1
          PROVE  /\ f[<<"Sum", p, i - 1>>] = g[<<"Sum", p, i - 1>>]
                 /\ f[<<"Product", i + 1, q>>] = g[<<"Product", i + 1, q>>]
      <3>1. /\ i - 1 \in 1 .. Len(t) /\ i + 1 \in 1 .. Len(t)
            /\ i - 1 - p < q - p /\ q - (i + 1) < q - p
        BY <1>1
      <3> QED
        BY <1>1, <1>4, <3>1, Zenon DEF Kinds
    <2> DEFINE Same(h, k) ==
                 /\ h[<<"Product", p, q>>] = k[<<"Product", p, q>>]
                 /\ \A i \in p + 1 .. q - 1 :
                       /\ h[<<"Sum", p, i - 1>>] = k[<<"Sum", p, i - 1>>]
                       /\ h[<<"Product", i + 1, q>>] = k[<<"Product", i + 1, q>>]
    <2>3. ASSUME NEW h, NEW k, Same(h, k), NEW v, v \in SumRule(t, h, p, q)
          PROVE  v \in SumRule(t, k, p, q)
      <3>1. CASE v \in h[<<"Product", p, q>>]
        BY <2>3, <3>1, SumRuleValue, Zenon DEF SumValue
      <3>2. CASE v \notin h[<<"Product", p, q>>]
        <4>1. PICK i \in p + 1 .. q - 1 :
                /\ t[i].type \in {"+", "-"}
                /\ \E a \in h[<<"Sum", p, i - 1>>], b \in h[<<"Product", i + 1, q>>] :
                      v = Joined(t[i].type, a, b)
          <5>1. SumValue(t, h, p, q, v)
            BY <2>3, SumRuleValue, Zenon
          <5> QED
            BY <3>2, <5>1, Zenon DEF SumValue
        <4>2. \E a \in k[<<"Sum", p, i - 1>>], b \in k[<<"Product", i + 1, q>>] :
                 v = Joined(t[i].type, a, b)
          BY <2>3, <4>1, Zenon
        <4> QED
          BY <4>1, <4>2, SumRuleValue, Zenon DEF SumValue
      <3> QED
        BY <3>1, <3>2
    <2>4. SumRule(t, f, p, q) = SumRule(t, g, p, q)
      <3>1. Same(f, g) /\ Same(g, f)
        BY <2>1, <2>2, Zenon
      <3> HIDE DEF Same
      <3>2. \A v : v \in SumRule(t, f, p, q) <=> v \in SumRule(t, g, p, q)
        BY <2>3, <3>1, Zenon
      <3> QED
        BY <3>2
    <2> QED
      BY <1>5, <2>4, Zenon DEF Rule, kind, p, q
  <1>6. CASE kind = "Product"
    <2>1. f[<<"Factor", p, q>>] = g[<<"Factor", p, q>>]
      BY <1>1, <1>3, <1>6 DEF Kinds, Level
    <2>2. ASSUME NEW i \in p + 1 .. q - 1
          PROVE  /\ f[<<"Product", p, i - 1>>] = g[<<"Product", p, i - 1>>]
                 /\ f[<<"Factor", i + 1, q>>] = g[<<"Factor", i + 1, q>>]
      <3>1. /\ i - 1 \in 1 .. Len(t) /\ i + 1 \in 1 .. Len(t)
            /\ i - 1 - p < q - p /\ q - (i + 1) < q - p
        BY <1>1
      <3> QED
        BY <1>1, <1>4, <3>1, Zenon DEF Kinds
    <2> DEFINE Same(h, k) ==
                 /\ h[<<"Factor", p, q>>] = k[<<"Factor", p, q>>]
                 /\ \A i \in p + 1 .. q - 1 :
                       /\ h[<<"Product", p, i - 1>>] = k[<<"Product", p, i - 1>>]
                       /\ h[<<"Factor", i + 1, q>>] = k[<<"Factor", i + 1, q>>]
    <2>3. ASSUME NEW h, NEW k, Same(h, k), NEW v, v \in ProductRule(t, h, p, q)
          PROVE  v \in ProductRule(t, k, p, q)
      <3>1. CASE v \in h[<<"Factor", p, q>>]
        BY <2>3, <3>1, ProductRuleValue, Zenon DEF ProductValue
      <3>2. CASE v \notin h[<<"Factor", p, q>>]
        <4>1. PICK i \in p + 1 .. q - 1 :
                /\ t[i].type \in {"*", "/"}
                /\ \E a \in h[<<"Product", p, i - 1>>], b \in h[<<"Factor", i + 1, q>>] :
                      /\ t[i].type = "/" => b # 0
                      /\ v = Joined(t[i].type, a, b)
          <5>1. ProductValue(t, h, p, q, v)
            BY <2>3, ProductRuleValue, Zenon
          <5> QED
            BY <3>2, <5>1, Zenon DEF ProductValue
        <4>2. \E a \in k[<<"Product", p, i - 1>>], b \in k[<<"Factor", i + 1, q>>] :
                 /\ t[i].type = "/" => b # 0
                 /\ v = Joined(t[i].type, a, b)
          BY <2>3, <4>1, Zenon
        <4> QED
          BY <4>1, <4>2, ProductRuleValue, Zenon DEF ProductValue
      <3> QED
        BY <3>1, <3>2
    <2>4. ProductRule(t, f, p, q) = ProductRule(t, g, p, q)
      <3>1. Same(f, g) /\ Same(g, f)
        BY <2>1, <2>2, Zenon
      <3> HIDE DEF Same
      <3>2. \A v : v \in ProductRule(t, f, p, q) <=> v \in ProductRule(t, g, p, q)
        BY <2>3, <3>1, Zenon
      <3> QED
        BY <3>2
    <2> QED
      BY <1>6, <2>4 DEF Rule, kind, p, q
  <1>7. CASE kind = "Factor"
    <2>1. ASSUME p < q
          PROVE  /\ f[<<"Sum", p + 1, q - 1>>] = g[<<"Sum", p + 1, q - 1>>]
                 /\ f[<<"Factor", p + 1, q>>] = g[<<"Factor", p + 1, q>>]
      <3>1. /\ p + 1 \in 1 .. Len(t) /\ q - 1 \in 1 .. Len(t)
            /\ q - 1 - (p + 1) < q - p /\ q - (p + 1) < q - p
        BY <1>1, <2>1
      <3> QED
        BY <1>1, <1>4, <3>1, Zenon DEF Kinds
    <2>2. FactorRule(t, f, p, q) = FactorRule(t, g, p, q)
      <3>1. CASE p < q
        <4>1. p # q
          BY <1>1, <3>1
        <4> QED
          BY <2>1, <3>1, <4>1 DEF FactorRule
      <3>2. CASE ~(p < q)
        BY <3>2 DEF FactorRule
      <3> QED
        BY <3>1, <3>2
    <2> QED
      BY <1>7, <2>2 DEF Rule, kind, p, q
  <1> QED
    BY <1>1, <1>5, <1>6, <1>7 DEF Kinds

\* The order in which phrases are built is one of numbers.
LEMMA RankType ==
    ASSUME NEW t, Len(t) \in Nat, NEW r \in Phrases(t)
    PROVE  Rank(r) \in Int /\ -3 * Len(t) <= Rank(r) /\ Rank(r) <= 3 * Len(t)
  <1>1. r[2] \in 1 .. Len(t) /\ r[3] \in 1 .. Len(t)
    BY DEF Phrases
  <1>2. Level(r[1]) \in {0, 1, 2}
    BY DEF Level
  <1> QED
    BY <1>1, <1>2 DEF Rank

\* There is a function with the values of the grammar, for phrases longer and longer.
LEMMA RuleUpTo ==
    ASSUME NEW t, Len(t) \in Nat, NEW len \in Nat
    PROVE  \E f : \A r \in Phrases(t) :
               Rank(r) < len - 3 * Len(t) => f[r] = Rule(t, f, r[1], r[2], r[3])
  <1> DEFINE UpTo(k, f) == \A r \in Phrases(t) :
                 Rank(r) < k - 3 * Len(t) => f[r] = Rule(t, f, r[1], r[2], r[3])
             N == {k \in Nat : ~\E f : UpTo(k, f)}
  <1>1. SUFFICES ASSUME N # {} PROVE FALSE
    OBVIOUS
  <1>2. PICK k \in N : \A i \in N : k <= i
    <2>1. N \in SUBSET Nat
      OBVIOUS
    <2> HIDE DEF N
    <2> QED
      BY <1>1, <2>1, LeastNumber
  <1>3. k \in Nat /\ ~\E f : UpTo(k, f)
    BY <1>2
  <1> HIDE DEF N
  <1>4. k # 0
    <2>1. ASSUME k = 0 PROVE UpTo(k, [r \in Phrases(t) |-> {}])
      <3>1. \A r \in Phrases(t) : ~(Rank(r) < k - 3 * Len(t))
        BY <2>1, RankType
      <3> QED
        BY <3>1
    <2> HIDE DEF UpTo
    <2> QED
      BY <1>3, <2>1
  <1>5. PICK f : UpTo(k - 1, f)
    <2>1. k - 1 \in Nat /\ ~(k <= k - 1)
      BY <1>3, <1>4
    <2>2. k - 1 \notin N
      BY <1>2, <2>1
    <2> HIDE DEF UpTo
    <2> QED
      BY <2>1, <2>2 DEF N
  <1> DEFINE g == [r \in Phrases(t) |->
                      IF Rank(r) < k - 1 - 3 * Len(t) THEN f[r] ELSE Rule(t, f, r[1], r[2], r[3])]
  <1>6. UpTo(k, g)
    <2>1. ASSUME NEW r \in Phrases(t), Rank(r) < k - 3 * Len(t)
          PROVE  g[r] = Rule(t, g, r[1], r[2], r[3])
      <3>1. ASSUME NEW x \in Phrases(t), Rank(x) < Rank(r) PROVE f[x] = g[x]
        <4>1. Rank(x) < k - 1 - 3 * Len(t)
          <5> HIDE DEF UpTo, g
          <5>1. Rank(x) \in Int /\ Rank(r) \in Int
            BY RankType
          <5> QED
            BY <1>3, <2>1, <3>1, <5>1
        <4> QED
          BY <4>1
      <3>2. g[r] = Rule(t, f, r[1], r[2], r[3])
        <4>1. Rank(r) < k - 1 - 3 * Len(t) => f[r] = Rule(t, f, r[1], r[2], r[3])
          BY <1>5, <2>1
        <4> QED
          BY <2>1, <4>1, Zenon
      <3> HIDE DEF g, UpTo
      <3>3. Rule(t, f, r[1], r[2], r[3]) = Rule(t, g, r[1], r[2], r[3])
        BY <3>1, RuleLocal
      <3> QED
        BY <3>2, <3>3
    <2> HIDE DEF g
    <2> QED
      BY <2>1
  <1> HIDE DEF UpTo, g
  <1> QED
    BY <1>3, <1>6

\* The grammar holds at every phrase.
LEMMA MeaningIs ==
    ASSUME NEW t, Len(t) \in Nat, NEW kind \in Kinds, NEW p \in 1 .. Len(t), NEW q \in 1 .. Len(t)
    PROVE  Meaning(t)[<<kind, p, q>>] = Rule(t, Meaning(t), kind, p, q)
  <1> DEFINE Good(f) == f = [r \in Phrases(t) |-> Rule(t, f, r[1], r[2], r[3])]
  <1>1. \E f : Good(f)
    <2>1. PICK len \in Nat : len - 3 * Len(t) = 3 * Len(t) + 1
      <3>1. 6 * Len(t) + 1 \in Nat /\ 6 * Len(t) + 1 - 3 * Len(t) = 3 * Len(t) + 1
        OBVIOUS
      <3> QED
        BY <3>1
    <2>2. PICK f : \A r \in Phrases(t) :
              Rank(r) < len - 3 * Len(t) => f[r] = Rule(t, f, r[1], r[2], r[3])
      BY RuleUpTo, Zenon
    <2>3. \A r \in Phrases(t) : Rank(r) < len - 3 * Len(t)
      BY <2>1, RankType
    <2> DEFINE g == [r \in Phrases(t) |-> f[r]]
    <2>4. \A x \in Phrases(t) : f[x] = g[x]
      OBVIOUS
    <2>5. \A r \in Phrases(t) : g[r] = Rule(t, g, r[1], r[2], r[3])
      <3>1. ASSUME NEW r \in Phrases(t) PROVE g[r] = Rule(t, g, r[1], r[2], r[3])
        <4>1. f[r] = Rule(t, f, r[1], r[2], r[3]) /\ f[r] = g[r]
          BY <2>2, <2>3
        <4>2. Rule(t, f, r[1], r[2], r[3]) = Rule(t, g, r[1], r[2], r[3])
          <5> HIDE DEF g
          <5> QED
            BY <2>4, RuleLocal
        <4> HIDE DEF g
        <4> QED
          BY <4>1, <4>2
      <3> HIDE DEF g
      <3> QED
        BY <3>1
    <2>6. g = [r \in Phrases(t) |-> g[r]]
      OBVIOUS
    <2> HIDE DEF g
    <2>7. Good(g)
      BY <2>5, <2>6
    <2> QED
      BY <2>7
  <1>2. Meaning(t) = CHOOSE f : Good(f)
    BY DEF Meaning
  <1> HIDE DEF Good
  <1>3. Good(Meaning(t))
    BY <1>1, <1>2
  <1>4. /\ <<kind, p, q>> \in Phrases(t)
        /\ <<kind, p, q>>[1] = kind /\ <<kind, p, q>>[2] = p /\ <<kind, p, q>>[3] = q
    BY DEF Phrases
  <1>5. Meaning(t) = [r \in Phrases(t) |-> Rule(t, Meaning(t), r[1], r[2], r[3])]
    BY <1>3 DEF Good
  <1> QED
    BY <1>4, <1>5

-----------------------------------------------------------------------------
(* The grammar, a phrase at a time.                                        *)

SumOf(t, p, q) == Meaning(t)[<<"Sum", p, q>>]
ProductOf(t, p, q) == Meaning(t)[<<"Product", p, q>>]
FactorOf(t, p, q) == Meaning(t)[<<"Factor", p, q>>]

\* v is the value of a sum split at an operator.
SumAtOperator(t, p, q, v) ==
    \E i \in p + 1 .. q - 1 :
       /\ t[i].type \in {"+", "-"}
       /\ \E a \in SumOf(t, p, i - 1), b \in ProductOf(t, i + 1, q) :
             v = Joined(t[i].type, a, b)

\* The values of a sum are those of a product and those of its splits.
LEMMA SumIs ==
    ASSUME NEW t, Len(t) \in Nat, NEW p \in 1 .. Len(t), NEW q \in 1 .. Len(t), NEW v
    PROVE  v \in SumOf(t, p, q) <=> v \in ProductOf(t, p, q) \/ SumAtOperator(t, p, q, v)
  <1>1. SumOf(t, p, q) = SumRule(t, Meaning(t), p, q)
    <2>1. "Sum" \in Kinds
      BY DEF Kinds
    <2> QED
      BY <2>1, MeaningIs, Zenon DEF SumOf, Rule
  <1>2. v \in SumOf(t, p, q) <=> SumValue(t, Meaning(t), p, q, v)
    BY <1>1, SumRuleValue, Zenon
  <1> QED
    BY <1>2, Zenon DEF SumValue, SumAtOperator, SumOf, ProductOf

\* v is the value of a product split at an operator.
ProductAtOperator(t, p, q, v) ==
    \E i \in p + 1 .. q - 1 :
       /\ t[i].type \in {"*", "/"}
       /\ \E a \in ProductOf(t, p, i - 1), b \in FactorOf(t, i + 1, q) :
             /\ t[i].type = "/" => b # 0
             /\ v = Joined(t[i].type, a, b)

\* The values of a product are those of a factor and those of its splits.
LEMMA ProductIs ==
    ASSUME NEW t, Len(t) \in Nat, NEW p \in 1 .. Len(t), NEW q \in 1 .. Len(t), NEW v
    PROVE  v \in ProductOf(t, p, q) <=> v \in FactorOf(t, p, q) \/ ProductAtOperator(t, p, q, v)
  <1>1. ProductOf(t, p, q) = ProductRule(t, Meaning(t), p, q)
    <2>1. "Product" \in Kinds
      BY DEF Kinds
    <2> QED
      BY <2>1, MeaningIs DEF ProductOf, Rule
  <1>2. v \in ProductOf(t, p, q) <=> ProductValue(t, Meaning(t), p, q, v)
    BY <1>1, ProductRuleValue, Zenon
  <1> QED
    BY <1>2, Zenon DEF ProductValue, ProductAtOperator, ProductOf, FactorOf

\* The forms of a factor, with their values.
LEMMA FactorIs ==
    ASSUME NEW t, Len(t) \in Nat, NEW p \in 1 .. Len(t), NEW q \in 1 .. Len(t)
    PROVE  FactorOf(t, p, q) =
             CASE p = q -> IF t[p].type = "num" THEN {t[p].val} ELSE {}
               [] p < q /\ t[p].type = "(" /\ t[q].type = ")" -> SumOf(t, p + 1, q - 1)
               [] p < q /\ t[p].type = "-" -> {-v : v \in FactorOf(t, p + 1, q)}
               [] p < q /\ t[p].type = "*" -> {vaddr_read(v) : v \in FactorOf(t, p + 1, q)}
               [] OTHER -> {}
  <1>1. FactorOf(t, p, q) = FactorRule(t, Meaning(t), p, q)
    <2>1. "Factor" \in Kinds
      BY DEF Kinds
    <2> QED
      BY <2>1, MeaningIs DEF FactorOf, Rule
  <1> QED
    BY <1>1 DEF FactorRule, FactorOf, SumOf

-----------------------------------------------------------------------------
(* The tokens of a text and their marks.                                   *)

\* At p an operand starts.
Starts(t, p) == p = 1 \/ t[p - 1].type \notin {"num", ")"}

Types == {"num", "+", "-", "*", "/", "(", ")"}

\* Operands where they are wanted and operators elsewhere.
Fits(t) ==
    /\ t \in Seq([type : Types, val : Int])
    /\ \A i \in 1 .. Len(t) : IF Starts(t, i) THEN t[i].type \in {"num", "-", "("}
                              ELSE t[i].type \in {"+", "-", "*", "/", ")"}

Sign(t, i) == t[i].type = "-" /\ i > 1 /\ Starts(t, i)

MarkedToken(t, i) == IF Sign(t, i) THEN [t[i] EXCEPT !.type = "TK_SUB"] ELSE t[i]

\* A token once its round is over.
LEMMA MarkedTokenIs ==
    ASSUME NEW t, Fits(t), NEW i \in 1 .. Len(t)
    PROVE  /\ t[i].type \in Types /\ t[i].val \in Int
           /\ MarkedToken(t, i).type = IF Sign(t, i) THEN "TK_SUB" ELSE t[i].type
           /\ MarkedToken(t, i).val = t[i].val
  <1>1. t[i] \in [type : Types, val : Int]
    <2>1. t \in Seq([type : Types, val : Int])
      BY DEF Fits
    <2> QED
      BY <2>1, ElementOfSeq, Zenon
  <1>2. CASE Sign(t, i)
    BY <1>1, <1>2 DEF MarkedToken
  <1>3. CASE ~Sign(t, i)
    BY <1>1, <1>3 DEF MarkedToken
  <1> QED
    BY <1>2, <1>3

\* The tokens after the rounds for the first len of them.
MarkedUpTo(t, len) == [i \in 1 .. Len(t) |-> IF i <= len THEN MarkedToken(t, i) ELSE t[i]]

\* One more round marks one more token.
LEMMA MarkRound ==
    ASSUME NEW t, Fits(t), NEW i \in 1 .. Len(t)
    PROVE  MarkToken(MarkedUpTo(t, i - 1), i) = MarkedUpTo(t, i)
  <1> DEFINE w == MarkedUpTo(t, i - 1)
             after == i > 1 /\ w[i - 1].type \in Marking
  <1>1. w[i] = t[i] /\ i \in 1 .. Len(t) /\ i \in Int /\ Len(t) \in Nat /\ DOMAIN w = 1 .. Len(t)
    BY DEF MarkedUpTo, Fits
  <1>2. after <=> i > 1 /\ Starts(t, i)
    <2>1. CASE i = 1
      BY <2>1
    <2>2. CASE i > 1
      <3>1. i - 1 \in 1 .. Len(t) /\ i - 1 <= i - 1 /\ i # 1
        BY <1>1, <2>2
      <3>2. w[i - 1] = MarkedToken(t, i - 1)
        BY <3>1 DEF MarkedUpTo
      <3>3. /\ t[i - 1].type \in Types
            /\ w[i - 1].type = IF Sign(t, i - 1) THEN "TK_SUB" ELSE t[i - 1].type
        BY <3>1, <3>2, MarkedTokenIs
      <3> HIDE DEF w
      <3>4. w[i - 1].type \in Marking <=> t[i - 1].type \notin {"num", ")"}
        BY <3>3 DEF Marking, Types, Sign
      <3> QED
        BY <2>2, <3>1, <3>4 DEF Starts
    <2> QED
      BY <1>1, <2>1, <2>2
  <1>3. t[i].type = "*" => ~(i = 1 \/ after)
    BY <1>1, <1>2 DEF Fits, Starts
  <1>4. CASE Sign(t, i)
    <2>1. MarkToken(w, i) = [w EXCEPT ![i].type = "TK_SUB"]
      <3>1. w[i].type = "-" /\ after
        BY <1>1, <1>2, <1>4 DEF Sign
      <3>2. w[i].type # "*"
        BY <3>1
      <3> HIDE DEF w
      <3> QED
        BY <3>1, <3>2 DEF MarkToken
    <2>2. [w EXCEPT ![i].type = "TK_SUB"] = [w EXCEPT ![i] = MarkedToken(t, i)]
      BY <1>1, <1>4 DEF MarkedToken
    <2>3. [w EXCEPT ![i] = MarkedToken(t, i)] = MarkedUpTo(t, i)
      <3>1. ASSUME NEW k \in 1 .. Len(t)
            PROVE  (IF k = i THEN MarkedToken(t, i) ELSE w[k])
                     = IF k <= i THEN MarkedToken(t, k) ELSE t[k]
        <4>1. k <= i <=> (k = i \/ k <= i - 1)
          BY <1>1
        <4>2. w[k] = IF k <= i - 1 THEN MarkedToken(t, k) ELSE t[k]
          BY DEF MarkedUpTo
        <4> HIDE DEF w
        <4>3. ~(i <= i - 1)
          BY <1>1
        <4> QED
          BY <4>1, <4>2, <4>3
      <3>2. [w EXCEPT ![i] = MarkedToken(t, i)]
              = [k \in 1 .. Len(t) |-> IF k = i THEN MarkedToken(t, i) ELSE w[k]]
        <4> HIDE DEF w
        <4>1. w = [k \in 1 .. Len(t) |-> w[k]]
          BY DEF w, MarkedUpTo
        <4> QED
          BY <1>1, <4>1
      <3> HIDE DEF w
      <3> QED
        BY <3>1, <3>2 DEF MarkedUpTo
    <2> QED
      BY <2>1, <2>2, <2>3
  <1>5. CASE ~Sign(t, i)
    <2>1. MarkToken(w, i) = w
      <3>1. ~(w[i].type = "-" /\ after) /\ ~(w[i].type = "*" /\ (i = 1 \/ after))
        BY <1>1, <1>2, <1>3, <1>5 DEF Sign
      <3> HIDE DEF w
      <3> QED
        BY <3>1 DEF MarkToken
    <2>2. w = MarkedUpTo(t, i)
      BY <1>1, <1>5 DEF MarkedUpTo, MarkedToken
    <2> QED
      BY <2>1, <2>2
  <1> QED
    BY <1>4, <1>5

\* What the loop of expr leaves.
LEMMA MarkIs ==
    ASSUME NEW t, Fits(t)
    PROVE  Mark(t) = [i \in 1 .. Len(t) |-> MarkedToken(t, i)]
  <1> DEFINE Good(f) == f = [i \in 0 .. Len(t) |-> IF i = 0 THEN t ELSE MarkToken(f[i - 1], i)]
             w == [i \in 0 .. Len(t) |-> MarkedUpTo(t, i)]
             m == CHOOSE f : Good(f)
  <1>1. Len(t) \in Nat /\ t = [i \in 1 .. Len(t) |-> t[i]]
    BY DEF Fits
  <1>2. MarkedUpTo(t, 0) = t
    BY <1>1 DEF MarkedUpTo
  <1>3. Good(w)
    <2>1. ASSUME NEW i \in 0 .. Len(t)
          PROVE  w[i] = IF i = 0 THEN t ELSE MarkToken(w[i - 1], i)
      <3>1. CASE i = 0
        BY <1>2, <3>1
      <3>2. CASE i # 0
        <4>1. i \in 1 .. Len(t) /\ i - 1 \in 0 .. Len(t)
          BY <1>1, <3>2
        <4> QED
          BY <3>2, <4>1, MarkRound
      <3> QED
        BY <3>1, <3>2
    <2> QED
      BY <2>1
  <1>4. Good(m)
    <2> HIDE DEF Good, w
    <2> QED
      BY <1>3
  <1> HIDE DEF m
  <1>5. \A i \in 0 .. Len(t) : m[i] = IF i = 0 THEN t ELSE MarkToken(m[i - 1], i)
    BY <1>4, Zenon
  <1>6. \A i \in 0 .. Len(t) : m[i] = MarkedUpTo(t, i)
    <2> DEFINE N == {i \in Nat : i <= Len(t) /\ m[i] # MarkedUpTo(t, i)}
    <2>1. SUFFICES ASSUME N # {} PROVE FALSE
      BY <1>1
    <2>2. PICK k \in N : \A i \in N : k <= i
      <3>1. N \in SUBSET Nat
        OBVIOUS
      <3> HIDE DEF N
      <3> QED
        BY <2>1, <3>1, LeastNumber
    <2>3. k # 0
      BY <1>1, <1>2, <1>5, <2>2
    <2>4. k \in 1 .. Len(t) /\ k - 1 \in 0 .. Len(t) /\ k - 1 \in Nat /\ ~(k <= k - 1)
      BY <1>1, <2>2, <2>3
    <2>5. m[k - 1] = MarkedUpTo(t, k - 1)
      BY <2>2, <2>4
    <2>6. m[k] = MarkToken(m[k - 1], k)
      BY <1>5, <2>3, <2>4
    <2> QED
      BY <2>2, <2>4, <2>5, <2>6, MarkRound
  <1>7. Mark(t) = m[Len(t)]
    BY Zenon DEF Mark, m
  <1>8. Mark(t) = MarkedUpTo(t, Len(t))
    BY <1>1, <1>6, <1>7
  <1> HIDE DEF Good
  <1> QED
    BY <1>1, <1>8 DEF MarkedUpTo

\* What the marking leaves alone, and what it makes of a sign.
LEMMA MarkFacts ==
    ASSUME NEW t, Fits(t)
    PROVE  /\ Len(Mark(t)) = Len(t)
           /\ \A i \in 1 .. Len(t) :
                 /\ Mark(t)[i].val = t[i].val
                 /\ Mark(t)[i].type = IF Sign(t, i) THEN "TK_SUB" ELSE t[i].type
           /\ \A p \in 1 .. Len(t), i \in 0 .. Len(t) : Depth(Mark(t), p, i) = Depth(t, p, i)
  <1>1. Len(t) \in Nat
    BY DEF Fits
  <1>2. \A i \in 1 .. Len(t) : Mark(t)[i] = MarkedToken(t, i)
    BY MarkIs
  <1>3. \A i \in 1 .. Len(t) :
          /\ Mark(t)[i].val = t[i].val
          /\ Mark(t)[i].type = IF Sign(t, i) THEN "TK_SUB" ELSE t[i].type
    BY <1>2, MarkedTokenIs
  <1>4. Len(Mark(t)) = Len(t)
    BY <1>1, MarkIs
  <1>5. ASSUME NEW p \in 1 .. Len(t), NEW i \in 0 .. Len(t)
        PROVE  Depth(Mark(t), p, i) = Depth(t, p, i)
    <2>1. \A k \in p .. i : k \in 1 .. Len(t)
      BY <1>1
    <2>2. \A k \in p .. i : /\ Mark(t)[k].type = "(" <=> t[k].type = "("
                            /\ Mark(t)[k].type = ")" <=> t[k].type = ")"
      BY <1>3, <2>1 DEF Sign
    <2>3. p \in Int /\ i \in Int
      BY <1>1
    <2> QED
      BY <2>2, <2>3, DepthSame
  <1> QED
    BY <1>3, <1>4, <1>5

-----------------------------------------------------------------------------
(* What a phrase looks like.                                               *)

\* Division of C gives an integer, and its sign goes with that of the dividend.
LEMMA QuotientIs ==
    ASSUME NEW a \in Int, NEW b \in Int, b # 0
    PROVE  Quotient(a, b) \in Int /\ Quotient(-a, b) = -Quotient(a, b)
  <1> DEFINE Abs(x) == IF x < 0 THEN -x ELSE x
             d(x) == Abs(x) \div Abs(b)
  <1>1. \A x \in Int : d(x) \in Int /\ d(-x) = d(x) /\ (x = 0 => d(x) = 0)
    <2>1. Abs(b) \in Int /\ Abs(b) > 0
      OBVIOUS
    <2>2. \A x \in Int : Abs(x) \in Int /\ Abs(-x) = Abs(x) /\ Abs(0) = 0
      OBVIOUS
    <2> HIDE DEF Abs
    <2>3. \A y \in Int : y \div Abs(b) \in Int /\ 0 \div Abs(b) = 0
      BY <2>1
    <2> QED
      BY <2>2, <2>3
  <1>2. \A x : Quotient(x, b) = IF (x < 0) = (b < 0) THEN d(x) ELSE -d(x)
    BY DEF Quotient
  <1> HIDE DEF d
  <1> QED
    BY <1>1, <1>2

\* Operators give integers.
LEMMA JoinedInt ==
    ASSUME NEW type \in {"+", "-", "*", "/"}, NEW a \in Int, NEW b \in Int, type = "/" => b # 0
    PROVE  Joined(type, a, b) \in Int
  <1>1. CASE type = "/"
    BY <1>1, QuotientIs DEF Joined
  <1>2. CASE type # "/"
    BY <1>2 DEF Joined
  <1> QED
    BY <1>1, <1>2

\* The parentheses from p to q match.
Balanced(t, p, q) == Depth(t, p, q) = 0 /\ \A i \in p .. q : Depth(t, p, i) >= 0

\* The binary operators outside of parentheses.
Top(t, p, q, ops) == {i \in p + 1 .. q : /\ t[i].type \in ops /\ ~Starts(t, i)
                                        /\ Depth(t, p, i) = 0}

Shaped(t, p, q, values) ==
    values # {} => /\ p <= q /\ Balanced(t, p, q) /\ t[q].type \in {"num", ")"}
                   /\ values \subseteq Int /\ \A v \in values, w \in values : v = w

ShapedAt(t, p, q) ==
    /\ Shaped(t, p, q, FactorOf(t, p, q))
    /\ Shaped(t, p, q, ProductOf(t, p, q))
    /\ Shaped(t, p, q, SumOf(t, p, q))
    /\ FactorOf(t, p, q) # {} => Top(t, p, q, {"+", "-", "*", "/"}) = {}
    /\ ProductOf(t, p, q) # {} => Top(t, p, q, {"+", "-"}) = {}

\* It holds for all shorter phrases.
ShapedBelow(t, len) ==
    \A p \in 1 .. Len(t), q \in 1 .. Len(t) : q - p < len /\ Starts(t, p) => ShapedAt(t, p, q)

\* What kind of tokens a text has.
LEMMA FitsFacts ==
    ASSUME NEW t, Fits(t)
    PROVE  /\ Len(t) \in Nat
           /\ \A i \in 1 .. Len(t) : t[i].val \in Int /\ t[i].type \in Types
           /\ \A i \in 1 .. Len(t) : IF Starts(t, i) THEN t[i].type \in {"num", "-", "("}
                                     ELSE t[i].type \in {"+", "-", "*", "/", ")"}
  <1>1. \A i \in 1 .. Len(t) : t[i].val \in Int /\ t[i].type \in Types
    BY MarkedTokenIs, Zenon
  <1>2. Len(t) \in Nat
    BY DEF Fits
  <1> QED
    BY <1>1, <1>2, Zenon DEF Fits

\* After an operator or an opening parenthesis an operand starts.
LEMMA StartsAfter ==
    ASSUME NEW t, NEW i \in Int
    PROVE  Starts(t, i + 1) <=> i = 0 \/ t[i].type \notin {"num", ")"}
  <1>1. i + 1 - 1 = i /\ (i + 1 = 1 <=> i = 0)
    OBVIOUS
  <1> QED
    BY <1>1 DEF Starts

\* A phrase with an operator between two balanced ones.
LEMMA SplitBalanced ==
    ASSUME NEW t, NEW p \in Int, NEW q \in Int, NEW i \in p + 1 .. q - 1, p >= 1,
           Balanced(t, p, i - 1), t[i - 1].type \in {"num", ")"},
           t[i].type \in {"+", "-", "*", "/"}, Balanced(t, i + 1, q)
    PROVE  /\ ~Starts(t, i) /\ Starts(t, i + 1) /\ Balanced(t, p, q)
           /\ \A ops : t[i].type \in ops => i \in Top(t, p, q, ops)
           /\ \A ops : Top(t, i + 1, q, ops) = {} => \A k \in Top(t, p, q, ops) : k <= i
  <1>0. i \in Int /\ i - 1 \in Int /\ i + 1 \in Int /\ p < i /\ i < q
    OBVIOUS
  <1>1. ~Starts(t, i) /\ Starts(t, i + 1)
    <2>1. i # 1 /\ i # 0
      BY <1>0
    <2>2. Starts(t, i + 1)
      BY <1>0, StartsAfter
    <2> QED
      BY <2>1, <2>2 DEF Starts
  <1>2. \A k \in p .. q : Depth(t, p, k) \in Int /\ Depth(t, i + 1, k) \in Int /\ Depth(t, k, k) \in Int
    BY BracketsFinite, <1>0
  <1>3. Depth(t, p, i) = 0
    <2>1. Depth(t, p, i) = Depth(t, p, i - 1) + Depth(t, i, i)
      BY <1>0, DepthJoin
    <2>2. Depth(t, i, i) = 0
      BY <1>0, DepthOne
    <2>3. Depth(t, p, i - 1) = 0
      BY DEF Balanced
    <2> QED
      BY <2>1, <2>2, <2>3
  <1>4. ASSUME NEW k \in i .. q PROVE Depth(t, p, k) = Depth(t, i + 1, k)
    <2>1. k \in Int /\ i + 1 \in p .. k + 1 /\ i + 1 - 1 = i /\ k \in p .. q
      BY <1>0
    <2>2. Depth(t, p, k) = Depth(t, p, i + 1 - 1) + Depth(t, i + 1, k)
      BY <2>1, DepthJoin
    <2>3. Depth(t, i + 1, k) \in Int
      BY <1>2, <2>1
    <2> QED
      BY <1>3, <2>1, <2>2, <2>3
  <1>5. Balanced(t, p, q)
    <2>1. ASSUME NEW k \in p .. q PROVE Depth(t, p, k) >= 0
      <3>1. CASE k \in p .. i - 1
        BY <3>1 DEF Balanced
      <3>2. CASE k = i
        BY <1>3, <3>2
      <3>3. CASE k \in i + 1 .. q
        <4>1. Depth(t, i + 1, k) >= 0
          BY <3>3 DEF Balanced
        <4> QED
          BY <1>0, <1>4, <3>3, <4>1
      <3> QED
        BY <1>0, <3>1, <3>2, <3>3
    <2>2. Depth(t, p, q) = 0
      BY <1>0, <1>4 DEF Balanced
    <2> QED
      BY <2>1, <2>2 DEF Balanced
  <1>6. ASSUME NEW ops, t[i].type \in ops PROVE i \in Top(t, p, q, ops)
    BY <1>0, <1>1, <1>3, <1>6 DEF Top
  <1>7. ASSUME NEW ops, Top(t, i + 1, q, ops) = {}, NEW k \in Top(t, p, q, ops) PROVE k <= i
    <2>1. k \in p + 1 .. q /\ t[k].type \in ops /\ ~Starts(t, k) /\ Depth(t, p, k) = 0
      BY DEF Top
    <2>2. k # i + 1
      BY <1>1, <2>1
    <2>3. ASSUME k > i PROVE FALSE
      <3>1. k \in i + 1 + 1 .. q /\ k \in i .. q
        BY <1>0, <2>1, <2>2, <2>3
      <3>2. Depth(t, i + 1, k) = 0
        BY <1>4, <2>1, <3>1
      <3>3. k \in Top(t, i + 1, q, ops)
        BY <2>1, <3>1, <3>2 DEF Top
      <3> QED
        BY <1>7, <3>3
    <2> QED
      BY <1>0, <2>1, <2>3
  <1> QED
    BY <1>1, <1>5, <1>6, <1>7

\* The depth from p is that from p + 1 and what p adds.
LEMMA DepthFirst ==
    ASSUME NEW t, NEW p \in Int, NEW i \in Int, p <= i
    PROVE  /\ Depth(t, p, i) = Depth(t, p, p) + Depth(t, p + 1, i)
           /\ Depth(t, p + 1, i) \in Int
  <1>1. p + 1 \in p .. i + 1 /\ p + 1 \in Int /\ p + 1 - 1 = p
    OBVIOUS
  <1>2. Depth(t, p, i) = Depth(t, p, p + 1 - 1) + Depth(t, p + 1, i)
    BY <1>1, DepthJoin
  <1>3. Depth(t, p + 1, i) \in Int
    BY <1>1, BracketsFinite, Zenon
  <1> QED
    BY <1>1, <1>2, <1>3, Zenon

\* A sign before a factor, and a sum in parentheses.
LEMMA SignBalanced ==
    ASSUME NEW t, NEW p \in Int, NEW q \in Int, p < q, p >= 1, t[p].type = "-", Balanced(t, p + 1, q)
    PROVE  /\ Starts(t, p + 1) /\ Balanced(t, p, q)
           /\ \A k \in p .. q : Depth(t, p, k) = Depth(t, p + 1, k)
  <1>1. Starts(t, p + 1)
    BY StartsAfter
  <1>2. \A k \in p .. q : Depth(t, p + 1, k) \in Int
    BY BracketsFinite
  <1>3. Depth(t, p, p) = 0 /\ Depth(t, p + 1, p) = 0
    <2>1. Depth(t, p, p) = 0
      BY DepthOne
    <2>2. p + 1 \in Int /\ p + 1 - 1 = p
      OBVIOUS
    <2>3. Depth(t, p + 1, p + 1 - 1) = 0
      BY <2>2, DepthOne
    <2> QED
      BY <2>1, <2>2, <2>3
  <1>4. ASSUME NEW k \in p .. q PROVE Depth(t, p, k) = Depth(t, p + 1, k)
    <2>1. k \in Int /\ p <= k
      OBVIOUS
    <2>2. Depth(t, p, k) = Depth(t, p, p) + Depth(t, p + 1, k) /\ Depth(t, p + 1, k) \in Int
      BY <2>1, DepthFirst, Zenon
    <2> QED
      BY <1>3, <2>2
  <1>5. Balanced(t, p, q)
    <2>1. ASSUME NEW k \in p .. q PROVE Depth(t, p, k) >= 0
      <3>1. CASE k = p
        BY <1>3, <3>1
      <3>2. CASE k # p
        <4>1. k \in p + 1 .. q
          BY <3>2
        <4>2. Depth(t, p + 1, k) >= 0
          BY <4>1 DEF Balanced
        <4> QED
          BY <1>4, <4>2
      <3> QED
        BY <3>1, <3>2
    <2> QED
      BY <1>4, <2>1 DEF Balanced
  <1> QED
    BY <1>1, <1>4, <1>5

\* A balanced phrase in parentheses is balanced.
LEMMA BracketBalanced ==
    ASSUME NEW t, NEW p \in Int, NEW q \in Int, p + 1 <= q - 1, p >= 1,
           t[p].type = "(", t[q].type = ")", Balanced(t, p + 1, q - 1)
    PROVE  /\ Starts(t, p + 1) /\ Balanced(t, p, q)
           /\ \A k \in p .. q - 1 : Depth(t, p, k) >= 1
  <1>1. Starts(t, p + 1)
    BY StartsAfter
  <1>2. Depth(t, p, p) = 1 /\ Depth(t, q, q) = -1 /\ Depth(t, p + 1, q - 1) = 0
    BY DepthOne DEF Balanced
  <1>3. ASSUME NEW k \in p + 1 .. q - 1
        PROVE  /\ Depth(t, p, k) = 1 + Depth(t, p + 1, k)
               /\ Depth(t, p + 1, k) \in Int /\ Depth(t, p + 1, k) >= 0
    <2>1. k \in Int /\ p <= k
      OBVIOUS
    <2>2. Depth(t, p, k) = Depth(t, p, p) + Depth(t, p + 1, k) /\ Depth(t, p + 1, k) \in Int
      BY <2>1, DepthFirst, Zenon
    <2> QED
      BY <1>2, <2>2 DEF Balanced
  <1>4. \A k \in p .. q - 1 : Depth(t, p, k) >= 1
    <2>1. ASSUME NEW k \in p .. q - 1 PROVE Depth(t, p, k) >= 1
      <3>1. k = p \/ k \in p + 1 .. q - 1
        OBVIOUS
      <3>2. CASE k = p
        BY <1>2, <3>2
      <3>3. CASE k \in p + 1 .. q - 1
        BY <1>3, <3>3
      <3> QED
        BY <3>1, <3>2, <3>3
    <2> QED
      BY <2>1
  <1>5. Depth(t, p, q) = 0
    <2>1. q \in p .. q + 1 /\ q - 1 \in p + 1 .. q - 1
      OBVIOUS
    <2>2. Depth(t, p, q) = Depth(t, p, q - 1) + Depth(t, q, q)
      BY <2>1, DepthJoin
    <2>3. Depth(t, p, q - 1) = 1
      BY <1>2, <1>3, <2>1
    <2> QED
      BY <1>2, <2>2, <2>3
  <1>6. Balanced(t, p, q)
    <2>1. ASSUME NEW k \in p .. q PROVE Depth(t, p, k) >= 0
      <3>1. k = q \/ k \in p .. q - 1
        OBVIOUS
      <3>2. CASE k = q
        BY <1>5, <3>2
      <3>3. CASE k \in p .. q - 1
        <4>1. Depth(t, p, k) >= 1 /\ Depth(t, p, k) \in Int
          BY <1>4, <3>3, BracketsFinite
        <4> QED
          BY <4>1
      <3> QED
        BY <3>1, <3>2, <3>3
    <2> QED
      BY <1>5, <2>1 DEF Balanced
  <1> QED
    BY <1>1, <1>4, <1>6

\* The forms of a factor.
LEMMA FactorForms ==
    ASSUME NEW t, Fits(t), NEW p \in 1 .. Len(t), NEW q \in 1 .. Len(t), Starts(t, p),
           FactorOf(t, p, q) # {}
    PROVE  \/ p = q /\ t[p].type = "num" /\ FactorOf(t, p, q) = {t[p].val}
           \/ p < q /\ t[p].type = "(" /\ t[q].type = ")" /\ FactorOf(t, p, q) = SumOf(t, p + 1, q - 1)
           \/ p < q /\ t[p].type = "-" /\ FactorOf(t, p, q) = {-v : v \in FactorOf(t, p + 1, q)}
  <1>1. Len(t) \in Nat /\ t[p].type # "*" /\ p \in Int /\ q \in Int
    BY FitsFacts
  <1>2. FactorOf(t, p, q) =
             CASE p = q -> IF t[p].type = "num" THEN {t[p].val} ELSE {}
               [] p < q /\ t[p].type = "(" /\ t[q].type = ")" -> SumOf(t, p + 1, q - 1)
               [] p < q /\ t[p].type = "-" -> {-v : v \in FactorOf(t, p + 1, q)}
               [] p < q /\ t[p].type = "*" -> {vaddr_read(v) : v \in FactorOf(t, p + 1, q)}
               [] OTHER -> {}
    BY <1>1, FactorIs
  <1>3. p = q => ~(p < q)
    OBVIOUS
  <1> HIDE DEF Fits
  <1>4. CASE p = q
    BY <1>2, <1>3, <1>4
  <1>5. CASE p # q /\ p < q /\ t[p].type = "(" /\ t[q].type = ")"
    <2>1. FactorOf(t, p, q) = SumOf(t, p + 1, q - 1)
      BY <1>2, <1>5
    <2> QED
      BY <1>5, <2>1
  <1>6. CASE p # q /\ p < q /\ t[p].type = "-"
    <2>1. FactorOf(t, p, q) = {-v : v \in FactorOf(t, p + 1, q)}
      BY <1>2, <1>6
    <2> QED
      BY <1>6, <2>1
  <1> QED
    BY <1>1, <1>2, <1>4, <1>5, <1>6

\* No phrase is empty.
LEMMA PhraseEmpty ==
    ASSUME NEW t, Len(t) \in Nat, NEW p \in 1 .. Len(t), NEW q \in 1 .. Len(t), q < p
    PROVE  SumOf(t, p, q) = {} /\ ProductOf(t, p, q) = {} /\ FactorOf(t, p, q) = {}
  <1>1. p # q /\ ~(p < q) /\ p + 1 .. q - 1 = {}
    OBVIOUS
  <1>2. FactorOf(t, p, q) = {}
    BY <1>1, FactorIs
  <1>3. ASSUME NEW v PROVE v \notin ProductOf(t, p, q)
    BY <1>1, <1>2, ProductIs DEF ProductAtOperator
  <1>4. ASSUME NEW v PROVE v \notin SumOf(t, p, q)
    BY <1>1, <1>3, SumIs DEF SumAtOperator
  <1> QED
    BY <1>2, <1>3, <1>4

\* A factor is balanced and has one value, if shorter phrases are.
LEMMA FactorShape ==
    ASSUME NEW t, Fits(t), NEW p \in 1 .. Len(t), NEW q \in 1 .. Len(t), Starts(t, p),
           ShapedBelow(t, q - p), FactorOf(t, p, q) # {}
    PROVE  /\ Shaped(t, p, q, FactorOf(t, p, q))
           /\ Top(t, p, q, {"+", "-", "*", "/"}) = {}
  <1>1. Len(t) \in Nat /\ p \in Int /\ q \in Int /\ p >= 1 /\ t[p].val \in Int
    BY FitsFacts
  <1>2. CASE p = q /\ t[p].type = "num" /\ FactorOf(t, p, q) = {t[p].val}
    <2>1. Depth(t, p, p) = 0
      BY <1>1, <1>2, DepthOne
    <2>2. Balanced(t, p, q)
      BY <1>1, <1>2, <2>1 DEF Balanced
    <2>3. Top(t, p, q, {"+", "-", "*", "/"}) = {}
      BY <1>1, <1>2 DEF Top
    <2> QED
      BY <1>1, <1>2, <2>2, <2>3 DEF Shaped
  <1>3. CASE p < q /\ t[p].type = "(" /\ t[q].type = ")" /\ FactorOf(t, p, q) = SumOf(t, p + 1, q - 1)
    <2>1. Starts(t, p + 1)
      BY <1>1, <1>3, StartsAfter
    <2>2. p + 1 \in 1 .. Len(t) /\ q - 1 \in 1 .. Len(t) /\ q - 1 - (p + 1) < q - p
      BY <1>1, <1>3
    <2>3. Shaped(t, p + 1, q - 1, SumOf(t, p + 1, q - 1))
      BY <2>1, <2>2, Zenon DEF ShapedBelow, ShapedAt
    <2>4. /\ p + 1 <= q - 1 /\ Balanced(t, p + 1, q - 1) /\ FactorOf(t, p, q) \subseteq Int
          /\ \A v \in FactorOf(t, p, q), w \in FactorOf(t, p, q) : v = w
      BY <1>3, <2>3, Zenon DEF Shaped
    <2>5. Balanced(t, p, q) /\ \A k \in p .. q - 1 : Depth(t, p, k) >= 1
      BY <1>1, <1>3, <2>4, BracketBalanced, Zenon
    <2>6. Top(t, p, q, {"+", "-", "*", "/"}) = {}
      <3>1. ASSUME NEW k \in Top(t, p, q, {"+", "-", "*", "/"}) PROVE FALSE
        <4>1. k \in p + 1 .. q /\ t[k].type \in {"+", "-", "*", "/"} /\ Depth(t, p, k) = 0
          BY DEF Top
        <4>2. k # q
          BY <1>3, <4>1
        <4>3. k \in p .. q - 1
          BY <1>1, <4>1, <4>2
        <4> QED
          BY <2>5, <4>1, <4>3
      <3> QED
        BY <3>1
    <2> QED
      BY <1>3, <2>4, <2>5, <2>6 DEF Shaped
  <1>4. CASE p < q /\ t[p].type = "-" /\ FactorOf(t, p, q) = {-v : v \in FactorOf(t, p + 1, q)}
    <2>1. Starts(t, p + 1)
      BY <1>1, <1>4, StartsAfter
    <2>2. p + 1 \in 1 .. Len(t) /\ q - (p + 1) < q - p /\ FactorOf(t, p + 1, q) # {}
      BY <1>1, <1>4
    <2>3. ShapedAt(t, p + 1, q)
      BY <2>1, <2>2, Zenon DEF ShapedBelow
    <2>4. /\ Balanced(t, p + 1, q) /\ FactorOf(t, p + 1, q) \subseteq Int
          /\ \A v \in FactorOf(t, p + 1, q), w \in FactorOf(t, p + 1, q) : v = w
          /\ t[q].type \in {"num", ")"} /\ Top(t, p + 1, q, {"+", "-", "*", "/"}) = {}
      BY <2>2, <2>3, Zenon DEF Shaped, ShapedAt
    <2>5. /\ FactorOf(t, p, q) \subseteq Int
          /\ \A v \in FactorOf(t, p, q), w \in FactorOf(t, p, q) : v = w
      BY <1>4, <2>4
    <2>6. Balanced(t, p, q) /\ \A k \in p .. q : Depth(t, p, k) = Depth(t, p + 1, k)
      BY <1>1, <1>4, <2>4, SignBalanced
    <2>7. Top(t, p, q, {"+", "-", "*", "/"}) = {}
      <3>1. ASSUME NEW k \in Top(t, p, q, {"+", "-", "*", "/"}) PROVE FALSE
        <4>1. /\ k \in p + 1 .. q /\ t[k].type \in {"+", "-", "*", "/"}
              /\ ~Starts(t, k) /\ Depth(t, p, k) = 0
          BY DEF Top
        <4>2. k # p + 1
          BY <2>1, <4>1
        <4>3. k \in p + 1 + 1 .. q /\ k \in p .. q
          BY <1>1, <4>1, <4>2
        <4>4. k \in Top(t, p + 1, q, {"+", "-", "*", "/"})
          BY <2>6, <4>1, <4>3 DEF Top
        <4> QED
          BY <2>4, <4>4
      <3> QED
        BY <3>1
    <2> QED
      BY <1>4, <2>4, <2>5, <2>6, <2>7 DEF Shaped
  <1> QED
    BY <1>2, <1>3, <1>4, FactorForms

\* A product split at i: what comes before and after it.
LEMMA ProductSplit ==
    ASSUME NEW t, Fits(t), NEW p \in 1 .. Len(t), NEW q \in 1 .. Len(t), Starts(t, p),
           ShapedBelow(t, q - p), NEW i \in p + 1 .. q - 1, t[i].type \in {"*", "/"},
           NEW a \in ProductOf(t, p, i - 1), NEW b \in FactorOf(t, i + 1, q),
           t[i].type = "/" => b # 0
    PROVE  /\ i - 1 \in 1 .. Len(t) /\ i + 1 \in 1 .. Len(t)
           /\ i - 1 - p < q - p /\ q - (i + 1) < q - p
           /\ a \in Int /\ b \in Int /\ Joined(t[i].type, a, b) \in Int
           /\ \A c \in ProductOf(t, p, i - 1) : c = a
           /\ \A c \in FactorOf(t, i + 1, q) : c = b
           /\ Starts(t, i + 1) /\ ~Starts(t, i)
           /\ Balanced(t, p, q) /\ t[q].type \in {"num", ")"}
           /\ i \in Top(t, p, q, {"*", "/"}) /\ i \in Top(t, p, q, {"+", "-", "*", "/"})
           /\ \A k \in Top(t, p, q, {"*", "/"}) : k <= i
           /\ Top(t, p, q, {"+", "-"}) = {}
  <1>1. /\ i - 1 \in 1 .. Len(t) /\ i + 1 \in 1 .. Len(t)
        /\ i - 1 - p < q - p /\ q - (i + 1) < q - p
        /\ p \in Int /\ q \in Int /\ i \in Int /\ p >= 1 /\ i # 0
    BY FitsFacts
  <1>2. Starts(t, i + 1)
    BY <1>1, StartsAfter
  <1>3. ShapedAt(t, p, i - 1) /\ ShapedAt(t, i + 1, q)
    BY <1>1, <1>2, Zenon DEF ShapedBelow
  <1>4. /\ Balanced(t, p, i - 1) /\ t[i - 1].type \in {"num", ")"} /\ ProductOf(t, p, i - 1) \subseteq Int
        /\ \A v \in ProductOf(t, p, i - 1), w \in ProductOf(t, p, i - 1) : v = w
        /\ Top(t, p, i - 1, {"+", "-"}) = {}
    BY <1>3 DEF ShapedAt, Shaped
  <1>5. /\ Balanced(t, i + 1, q) /\ t[q].type \in {"num", ")"} /\ FactorOf(t, i + 1, q) \subseteq Int
        /\ \A v \in FactorOf(t, i + 1, q), w \in FactorOf(t, i + 1, q) : v = w
        /\ Top(t, i + 1, q, {"+", "-", "*", "/"}) = {}
    BY <1>3 DEF ShapedAt, Shaped
  <1>6. a \in Int /\ b \in Int
    BY <1>4, <1>5
  <1>7. Joined(t[i].type, a, b) \in Int
    BY <1>6, JoinedInt
  <1>8. t[i].type \in {"+", "-", "*", "/"}
    OBVIOUS
  <1>9. /\ ~Starts(t, i) /\ Balanced(t, p, q)
        /\ \A ops : t[i].type \in ops => i \in Top(t, p, q, ops)
        /\ \A ops : Top(t, i + 1, q, ops) = {} => \A k \in Top(t, p, q, ops) : k <= i
    BY <1>1, <1>4, <1>5, <1>8, SplitBalanced, Zenon
  <1>10. Top(t, i + 1, q, {"*", "/"}) = {} /\ Top(t, i + 1, q, {"+", "-"}) = {}
    BY <1>5 DEF Top
  <1>11. Top(t, p, q, {"+", "-"}) = {}
    <2>1. ASSUME NEW k \in Top(t, p, q, {"+", "-"}) PROVE FALSE
      <3>1. k <= i
        BY <1>9, <1>10, Zenon
      <3>2. /\ k \in p + 1 .. q /\ t[k].type \in {"+", "-"} /\ ~Starts(t, k) /\ Depth(t, p, k) = 0
        BY DEF Top
      <3>3. k # i
        BY <3>2
      <3>4. k \in p + 1 .. i - 1
        BY <1>1, <3>1, <3>2, <3>3
      <3>5. k \in Top(t, p, i - 1, {"+", "-"})
        BY <3>2, <3>4, Zenon DEF Top
      <3> QED
        BY <1>4, <3>5
    <2> QED
      BY <2>1
  <1> QED
    BY <1>1, <1>2, <1>4, <1>5, <1>6, <1>7, <1>8, <1>9, <1>10, <1>11, Zenon

\* A product is balanced and has one value, if shorter phrases are.
LEMMA ProductShape ==
    ASSUME NEW t, Fits(t), NEW p \in 1 .. Len(t), NEW q \in 1 .. Len(t), Starts(t, p),
           ShapedBelow(t, q - p), ProductOf(t, p, q) # {}
    PROVE  /\ Shaped(t, p, q, ProductOf(t, p, q))
           /\ Top(t, p, q, {"+", "-"}) = {}
  <1>1. Len(t) \in Nat /\ p \in Int /\ q \in Int
    BY FitsFacts
  <1>2. ASSUME FactorOf(t, p, q) # {}
        PROVE  /\ Shaped(t, p, q, FactorOf(t, p, q)) /\ Top(t, p, q, {"+", "-"}) = {}
               /\ Top(t, p, q, {"*", "/"}) = {}
    <2>1. Shaped(t, p, q, FactorOf(t, p, q)) /\ Top(t, p, q, {"+", "-", "*", "/"}) = {}
      BY <1>2, FactorShape
    <2> QED
      BY <2>1 DEF Top
  <1>3. \A v \in ProductOf(t, p, q) : v \in FactorOf(t, p, q) \/ ProductAtOperator(t, p, q, v)
    BY <1>1, ProductIs, Zenon
  <1>4. ASSUME NEW v \in ProductOf(t, p, q)
        PROVE  /\ p <= q /\ Balanced(t, p, q) /\ t[q].type \in {"num", ")"} /\ v \in Int
               /\ Top(t, p, q, {"+", "-"}) = {}
    <2>1. CASE v \in FactorOf(t, p, q)
      BY <1>2, <2>1, Zenon DEF Shaped
    <2>2. CASE v \notin FactorOf(t, p, q)
      <3>1. PICK i \in p + 1 .. q - 1 :
                 /\ t[i].type \in {"*", "/"}
                 /\ \E a \in ProductOf(t, p, i - 1), b \in FactorOf(t, i + 1, q) :
                       /\ t[i].type = "/" => b # 0
                       /\ v = Joined(t[i].type, a, b)
        BY <1>3, <2>2, Zenon DEF ProductAtOperator
      <3>2. PICK a \in ProductOf(t, p, i - 1), b \in FactorOf(t, i + 1, q) :
                       /\ t[i].type = "/" => b # 0
                       /\ v = Joined(t[i].type, a, b)
        BY <3>1
      <3>3. /\ Joined(t[i].type, a, b) \in Int /\ Balanced(t, p, q)
            /\ t[q].type \in {"num", ")"} /\ Top(t, p, q, {"+", "-"}) = {}
        BY <3>1, <3>2, ProductSplit
      <3>4. p <= q
        BY <1>1
      <3> QED
        BY <3>2, <3>3, <3>4
    <2> QED
      BY <2>1, <2>2
  <1>5. ASSUME NEW v \in ProductOf(t, p, q), NEW w \in ProductOf(t, p, q) PROVE v = w
    <2>1. CASE v \in FactorOf(t, p, q) /\ w \in FactorOf(t, p, q)
      BY <1>2, <2>1, Zenon DEF Shaped
    <2>2. CASE v \notin FactorOf(t, p, q)
      <3>1. PICK i \in p + 1 .. q - 1 :
                 /\ t[i].type \in {"*", "/"}
                 /\ \E a \in ProductOf(t, p, i - 1), b \in FactorOf(t, i + 1, q) :
                       /\ t[i].type = "/" => b # 0
                       /\ v = Joined(t[i].type, a, b)
        BY <1>3, <2>2, Zenon DEF ProductAtOperator
      <3>2. PICK a \in ProductOf(t, p, i - 1), b \in FactorOf(t, i + 1, q) :
                       /\ t[i].type = "/" => b # 0
                       /\ v = Joined(t[i].type, a, b)
        BY <3>1
      <3>3. /\ \A c \in ProductOf(t, p, i - 1) : c = a
            /\ \A c \in FactorOf(t, i + 1, q) : c = b
            /\ i \in Top(t, p, q, {"*", "/"}) /\ \A k \in Top(t, p, q, {"*", "/"}) : k <= i
        BY <3>1, <3>2, ProductSplit
      <3>4. w \notin FactorOf(t, p, q)
        BY <1>2, <3>3
      <3>5. PICK j \in p + 1 .. q - 1 :
                 /\ t[j].type \in {"*", "/"}
                 /\ \E a_1 \in ProductOf(t, p, j - 1), b_1 \in FactorOf(t, j + 1, q) :
                       /\ t[j].type = "/" => b_1 # 0
                       /\ w = Joined(t[j].type, a_1, b_1)
        BY <1>3, <3>4, Zenon DEF ProductAtOperator
      <3>6. PICK a_1 \in ProductOf(t, p, j - 1), b_1 \in FactorOf(t, j + 1, q) :
                       /\ t[j].type = "/" => b_1 # 0
                       /\ w = Joined(t[j].type, a_1, b_1)
        BY <3>5
      <3>7. j \in Top(t, p, q, {"*", "/"}) /\ \A k \in Top(t, p, q, {"*", "/"}) : k <= j
        BY <3>5, <3>6, ProductSplit
      <3>8. i = j
        <4>1. i <= j /\ j <= i
          BY <3>3, <3>7
        <4> QED
          BY <4>1
      <3> QED
        BY <3>2, <3>3, <3>6, <3>8, Zenon
    <2>3. CASE w \notin FactorOf(t, p, q) /\ v \in FactorOf(t, p, q)
      <3>1. PICK j \in p + 1 .. q - 1 :
                 /\ t[j].type \in {"*", "/"}
                 /\ \E a \in ProductOf(t, p, j - 1), b \in FactorOf(t, j + 1, q) :
                       /\ t[j].type = "/" => b # 0
                       /\ w = Joined(t[j].type, a, b)
        BY <1>3, <2>3, Zenon DEF ProductAtOperator
      <3>2. PICK a \in ProductOf(t, p, j - 1), b \in FactorOf(t, j + 1, q) :
                       /\ t[j].type = "/" => b # 0
                       /\ w = Joined(t[j].type, a, b)
        BY <3>1
      <3>3. j \in Top(t, p, q, {"*", "/"})
        BY <3>1, <3>2, ProductSplit
      <3> QED
        BY <1>2, <2>3, <3>3
    <2> QED
      BY <2>1, <2>2, <2>3
  <1>6. Shaped(t, p, q, ProductOf(t, p, q))
    BY <1>4, <1>5 DEF Shaped
  <1> QED
    BY <1>4, <1>6

\* A sum split at i: what comes before and after it.
LEMMA SumSplit ==
    ASSUME NEW t, Fits(t), NEW p \in 1 .. Len(t), NEW q \in 1 .. Len(t), Starts(t, p),
           ShapedBelow(t, q - p), NEW i \in p + 1 .. q - 1, t[i].type \in {"+", "-"},
           NEW a \in SumOf(t, p, i - 1), NEW b \in ProductOf(t, i + 1, q)
    PROVE  /\ i - 1 \in 1 .. Len(t) /\ i + 1 \in 1 .. Len(t)
           /\ i - 1 - p < q - p /\ q - (i + 1) < q - p
           /\ a \in Int /\ b \in Int /\ Joined(t[i].type, a, b) \in Int
           /\ \A c \in SumOf(t, p, i - 1) : c = a
           /\ \A c \in ProductOf(t, i + 1, q) : c = b
           /\ Starts(t, i + 1) /\ ~Starts(t, i)
           /\ Balanced(t, p, q) /\ t[q].type \in {"num", ")"}
           /\ i \in Top(t, p, q, {"+", "-"})
           /\ \A k \in Top(t, p, q, {"+", "-"}) : k <= i
  <1>1. /\ i - 1 \in 1 .. Len(t) /\ i + 1 \in 1 .. Len(t)
        /\ i - 1 - p < q - p /\ q - (i + 1) < q - p
        /\ p \in Int /\ q \in Int /\ i \in Int /\ p >= 1 /\ i # 0
    BY FitsFacts
  <1>2. Starts(t, i + 1)
    BY <1>1, StartsAfter
  <1>3. ShapedAt(t, p, i - 1) /\ ShapedAt(t, i + 1, q)
    BY <1>1, <1>2, Zenon DEF ShapedBelow
  <1>4. /\ Balanced(t, p, i - 1) /\ t[i - 1].type \in {"num", ")"} /\ SumOf(t, p, i - 1) \subseteq Int
        /\ \A v \in SumOf(t, p, i - 1), w \in SumOf(t, p, i - 1) : v = w
    BY <1>3 DEF ShapedAt, Shaped
  <1>5. /\ Balanced(t, i + 1, q) /\ t[q].type \in {"num", ")"} /\ ProductOf(t, i + 1, q) \subseteq Int
        /\ \A v \in ProductOf(t, i + 1, q), w \in ProductOf(t, i + 1, q) : v = w
        /\ Top(t, i + 1, q, {"+", "-"}) = {}
    BY <1>3 DEF ShapedAt, Shaped
  <1>6. a \in Int /\ b \in Int
    BY <1>4, <1>5
  <1>7. t[i].type \in {"+", "-", "*", "/"} /\ t[i].type # "/"
    OBVIOUS
  <1>8. Joined(t[i].type, a, b) \in Int
    BY <1>6, <1>7, JoinedInt
  <1>9. /\ ~Starts(t, i) /\ Balanced(t, p, q)
        /\ \A ops : t[i].type \in ops => i \in Top(t, p, q, ops)
        /\ \A ops : Top(t, i + 1, q, ops) = {} => \A k \in Top(t, p, q, ops) : k <= i
    BY <1>1, <1>4, <1>5, <1>7, SplitBalanced, Zenon
  <1> QED
    BY <1>1, <1>2, <1>4, <1>5, <1>6, <1>8, <1>9, Zenon

\* A sum is balanced and has one value, if shorter phrases are.
LEMMA SumShape ==
    ASSUME NEW t, Fits(t), NEW p \in 1 .. Len(t), NEW q \in 1 .. Len(t), Starts(t, p),
           ShapedBelow(t, q - p), SumOf(t, p, q) # {}
    PROVE  Shaped(t, p, q, SumOf(t, p, q))
  <1>1. Len(t) \in Nat /\ p \in Int /\ q \in Int
    BY FitsFacts
  <1>2. ASSUME ProductOf(t, p, q) # {}
        PROVE  Shaped(t, p, q, ProductOf(t, p, q)) /\ Top(t, p, q, {"+", "-"}) = {}
    BY <1>2, ProductShape
  <1>3. \A v \in SumOf(t, p, q) : v \in ProductOf(t, p, q) \/ SumAtOperator(t, p, q, v)
    BY <1>1, SumIs, Zenon
  <1>4. ASSUME NEW v, SumAtOperator(t, p, q, v)
        PROVE  /\ p <= q /\ Balanced(t, p, q) /\ t[q].type \in {"num", ")"} /\ v \in Int
               /\ Top(t, p, q, {"+", "-"}) # {}
    <2>1. PICK i \in p + 1 .. q - 1 :
               /\ t[i].type \in {"+", "-"}
               /\ \E a \in SumOf(t, p, i - 1), b \in ProductOf(t, i + 1, q) : v = Joined(t[i].type, a, b)
      BY <1>4, Zenon DEF SumAtOperator
    <2>2. PICK a \in SumOf(t, p, i - 1), b \in ProductOf(t, i + 1, q) : v = Joined(t[i].type, a, b)
      BY <2>1
    <2>3. /\ Joined(t[i].type, a, b) \in Int /\ Balanced(t, p, q)
          /\ t[q].type \in {"num", ")"} /\ i \in Top(t, p, q, {"+", "-"})
      BY <2>1, <2>2, SumSplit
    <2>4. p <= q
      BY <1>1
    <2> QED
      BY <2>2, <2>3, <2>4
  <1>5. ASSUME NEW v, SumAtOperator(t, p, q, v), NEW w, SumAtOperator(t, p, q, w) PROVE v = w
    <2>1. PICK i \in p + 1 .. q - 1 :
               /\ t[i].type \in {"+", "-"}
               /\ \E a \in SumOf(t, p, i - 1), b \in ProductOf(t, i + 1, q) : v = Joined(t[i].type, a, b)
      BY <1>5, Zenon DEF SumAtOperator
    <2>2. PICK a \in SumOf(t, p, i - 1), b \in ProductOf(t, i + 1, q) : v = Joined(t[i].type, a, b)
      BY <2>1
    <2>3. /\ \A c \in SumOf(t, p, i - 1) : c = a
          /\ \A c \in ProductOf(t, i + 1, q) : c = b
          /\ i \in Top(t, p, q, {"+", "-"}) /\ \A k \in Top(t, p, q, {"+", "-"}) : k <= i
      BY <2>1, <2>2, SumSplit
    <2>4. PICK j \in p + 1 .. q - 1 :
               /\ t[j].type \in {"+", "-"}
               /\ \E a_1 \in SumOf(t, p, j - 1), b_1 \in ProductOf(t, j + 1, q) :
                     w = Joined(t[j].type, a_1, b_1)
      BY <1>5, Zenon DEF SumAtOperator
    <2>5. PICK a_1 \in SumOf(t, p, j - 1), b_1 \in ProductOf(t, j + 1, q) : w = Joined(t[j].type, a_1, b_1)
      BY <2>4
    <2>6. j \in Top(t, p, q, {"+", "-"}) /\ \A k \in Top(t, p, q, {"+", "-"}) : k <= j
      BY <2>4, <2>5, SumSplit
    <2>7. i = j
      <3>1. i <= j /\ j <= i
        BY <2>3, <2>6
      <3> QED
        BY <3>1
    <2> QED
      BY <2>2, <2>3, <2>5, <2>7, Zenon
  <1>6. ASSUME NEW v \in SumOf(t, p, q)
        PROVE  p <= q /\ Balanced(t, p, q) /\ t[q].type \in {"num", ")"} /\ v \in Int
    <2>1. CASE v \in ProductOf(t, p, q)
      BY <1>2, <2>1 DEF Shaped
    <2>2. CASE SumAtOperator(t, p, q, v)
      BY <1>4, <2>2
    <2> QED
      BY <1>3, <2>1, <2>2
  <1>7. ASSUME NEW v \in SumOf(t, p, q), NEW w \in SumOf(t, p, q) PROVE v = w
    <2>1. CASE v \in ProductOf(t, p, q) /\ w \in ProductOf(t, p, q)
      BY <1>2, <2>1, Zenon DEF Shaped
    <2>2. CASE SumAtOperator(t, p, q, v) /\ SumAtOperator(t, p, q, w)
      BY <1>5, <2>2
    <2>3. ~(ProductOf(t, p, q) # {} /\ (SumAtOperator(t, p, q, v) \/ SumAtOperator(t, p, q, w)))
      BY <1>2, <1>4, Zenon
    <2> QED
      BY <1>3, <2>1, <2>2, <2>3, Zenon
  <1> QED
    BY <1>6, <1>7 DEF Shaped

\* Every phrase of a text is as described.
LEMMA AllShaped ==
    ASSUME NEW t, Fits(t), NEW p \in 1 .. Len(t), NEW q \in 1 .. Len(t), Starts(t, p)
    PROVE  ShapedAt(t, p, q)
  <1>1. Len(t) \in Nat
    BY FitsFacts
  <1>2. \A len \in Nat : ShapedBelow(t, len)
    <2> DEFINE N == {len \in Nat : ~ShapedBelow(t, len)}
    <2>1. SUFFICES ASSUME N # {} PROVE FALSE
      OBVIOUS
    <2>2. PICK len \in N : \A i \in N : len <= i
      <3>1. N \in SUBSET Nat
        OBVIOUS
      <3> HIDE DEF N
      <3> QED
        BY <2>1, <3>1, LeastNumber
    <2>3. PICK a \in 1 .. Len(t), b \in 1 .. Len(t) :
             b - a < len /\ Starts(t, a) /\ ~ShapedAt(t, a, b)
      BY <2>2 DEF ShapedBelow
    <2>4. ASSUME FactorOf(t, a, b) # {} \/ ProductOf(t, a, b) # {} \/ SumOf(t, a, b) # {}
          PROVE  ShapedBelow(t, b - a)
      <3>1. b >= a
        BY <1>1, <2>4, PhraseEmpty
      <3>2. b - a \in Nat /\ ~(len <= b - a)
        BY <1>1, <2>2, <2>3, <3>1
      <3> QED
        BY <2>2, <3>2
    <2>5. ShapedAt(t, a, b)
      <3>1. FactorOf(t, a, b) # {} =>
              Shaped(t, a, b, FactorOf(t, a, b)) /\ Top(t, a, b, {"+", "-", "*", "/"}) = {}
        BY <2>3, <2>4, FactorShape
      <3>2. ProductOf(t, a, b) # {} =>
              Shaped(t, a, b, ProductOf(t, a, b)) /\ Top(t, a, b, {"+", "-"}) = {}
        BY <2>3, <2>4, ProductShape
      <3>3. SumOf(t, a, b) # {} => Shaped(t, a, b, SumOf(t, a, b))
        BY <2>3, <2>4, SumShape
      <3>4. Shaped(t, a, b, {})
        BY DEF Shaped
      <3> QED
        BY <3>1, <3>2, <3>3, <3>4 DEF ShapedAt
    <2> QED
      BY <2>3, <2>5
  <1>3. CASE q < p
    BY <1>1, <1>3, PhraseEmpty DEF ShapedAt, Shaped
  <1>4. CASE ~(q < p)
    <2>1. q - p + 1 \in Nat /\ q - p < q - p + 1
      BY <1>1, <1>4
    <2>2. ShapedBelow(t, q - p + 1)
      BY <1>2, <2>1
    <2> QED
      BY <2>1, <2>2, Zenon DEF ShapedBelow
  <1> QED
    BY <1>3, <1>4

\* Every shorter phrase is as described, too.
LEMMA AllShapedBelow ==
    ASSUME NEW t, Fits(t), NEW len
    PROVE  ShapedBelow(t, len)
BY AllShaped, Zenon DEF ShapedBelow

\* A sign before a product is one before its first factor.
LEMMA SignedProduct ==
    ASSUME NEW t, Fits(t), NEW p \in 1 .. Len(t), NEW q \in 1 .. Len(t), Starts(t, p),
           t[p].type = "-", NEW v \in ProductOf(t, p, q)
    PROVE  p < q /\ \E w \in ProductOf(t, p + 1, q) : w \in Int /\ v = -w
  <1> DEFINE Signed(len) == \A r \in 1 .. Len(t) : r - p = len =>
                 \A x \in ProductOf(t, p, r) :
                     p < r /\ \E w \in ProductOf(t, p + 1, r) : w \in Int /\ x = -w
             N == {len \in Nat : ~Signed(len)}
  <1>1. Len(t) \in Nat /\ p \in Int /\ q \in Int /\ Starts(t, p + 1)
    BY FitsFacts, StartsAfter
  <1>2. N = {}
    <2>1. SUFFICES ASSUME N # {} PROVE FALSE
      OBVIOUS
    <2>2. PICK len \in N : \A i \in N : len <= i
      <3>1. N \in SUBSET Nat
        OBVIOUS
      <3> HIDE DEF N
      <3> QED
        BY <2>1, <3>1, LeastNumber
    <2>3. len \in Nat /\ ~Signed(len) /\ \A i \in Nat : i < len => Signed(i)
      BY <2>2
    <2> HIDE DEF N
    <2>4. ASSUME NEW r \in 1 .. Len(t), r - p = len, NEW x \in ProductOf(t, p, r)
          PROVE  p < r /\ \E w \in ProductOf(t, p + 1, r) : w \in Int /\ x = -w
      <3> HIDE DEF Signed
      <3>1. ShapedBelow(t, r - p)
        BY AllShapedBelow
      <3>2. CASE x \in FactorOf(t, p, r)
        <4>1. p < r /\ FactorOf(t, p, r) = {-w : w \in FactorOf(t, p + 1, r)}
          BY <3>2, FactorForms
        <4>2. PICK w \in FactorOf(t, p + 1, r) : x = -w
          BY <3>2, <4>1
        <4>3. p + 1 \in 1 .. Len(t)
          BY <1>1, <4>1
        <4>4. w \in ProductOf(t, p + 1, r)
          BY <1>1, <4>3, ProductIs
        <4>5. Shaped(t, p + 1, r, FactorOf(t, p + 1, r))
          BY <1>1, <4>3, AllShaped DEF ShapedAt
        <4>6. w \in Int
          BY <4>5 DEF Shaped
        <4> QED
          BY <4>1, <4>2, <4>4, <4>6
      <3>3. CASE ProductAtOperator(t, p, r, x)
        <4>1. PICK i \in p + 1 .. r - 1 :
                 /\ t[i].type \in {"*", "/"}
                 /\ \E a \in ProductOf(t, p, i - 1), b \in FactorOf(t, i + 1, r) :
                       /\ t[i].type = "/" => b # 0
                       /\ x = Joined(t[i].type, a, b)
          BY <3>3, Zenon DEF ProductAtOperator
        <4>2. PICK a \in ProductOf(t, p, i - 1), b \in FactorOf(t, i + 1, r) :
                       /\ t[i].type = "/" => b # 0
                       /\ x = Joined(t[i].type, a, b)
          BY <4>1
        <4>3. /\ i - 1 \in 1 .. Len(t) /\ i - 1 - p < r - p
              /\ a \in Int /\ b \in Int
          BY <3>1, <4>1, <4>2, ProductSplit
        <4>4. i - 1 - p \in Nat /\ i - 1 - p < len
          BY <1>1, <2>4, <4>1, <4>3
        <4>5. Signed(i - 1 - p)
          BY <2>3, <4>4
        <4>6. p < i - 1 /\ \E w \in ProductOf(t, p + 1, i - 1) : w \in Int /\ a = -w
          BY <4>3, <4>5, Zenon DEF Signed
        <4>7. PICK w \in ProductOf(t, p + 1, i - 1) : w \in Int /\ a = -w
          BY <4>6
        <4>8. p < r /\ p + 1 \in 1 .. Len(t) /\ i \in p + 1 + 1 .. r - 1
          BY <1>1, <4>1, <4>6
        <4>9. ProductAtOperator(t, p + 1, r, Joined(t[i].type, w, b))
          BY <4>1, <4>2, <4>7, <4>8, Zenon DEF ProductAtOperator
        <4>10. Joined(t[i].type, w, b) \in ProductOf(t, p + 1, r)
          BY <1>1, <4>8, <4>9, ProductIs, Zenon
        <4>11. Joined(t[i].type, w, b) \in Int
          BY <4>1, <4>2, <4>3, <4>7, JoinedInt
        <4>12. x = -Joined(t[i].type, w, b)
          <5>1. CASE t[i].type = "*"
            <6>1. x = (-w) * b /\ Joined(t[i].type, w, b) = w * b
              BY <4>2, <4>7, <5>1 DEF Joined
            <6>2. (-w) * b = -(w * b)
              BY <4>3, <4>7
            <6> QED
              BY <6>1, <6>2
          <5>2. CASE t[i].type = "/"
            <6>1. x = Quotient(-w, b) /\ Joined(t[i].type, w, b) = Quotient(w, b) /\ b # 0
              BY <4>2, <4>7, <5>2 DEF Joined
            <6> QED
              BY <4>3, <4>7, <6>1, QuotientIs
          <5> QED
            BY <4>1, <5>1, <5>2
        <4> QED
          BY <4>8, <4>10, <4>11, <4>12
      <3> QED
        BY <1>1, <3>2, <3>3, ProductIs, Zenon
    <2> QED
      BY <2>3, <2>4
  <1>3. q - p \in Nat
    BY <1>1, PhraseEmpty
  <1>4. Signed(q - p)
    <2> HIDE DEF Signed
    <2> QED
      BY <1>2, <1>3
  <1> QED
    BY <1>4, Zenon

-----------------------------------------------------------------------------
(* Where eval splits.                                                      *)

\* The precedences of the arithmetic operators and the signs.
LEMMA PriorIs ==
    /\ prior("+") = 4 /\ prior("-") = 4 /\ prior("*") = 3 /\ prior("/") = 3 /\ prior("TK_SUB") = -1
BY DEF prior

\* What eval finds outside of parentheses: binary operators and signs, of which
\* a first one still passes for binary.
LEMMA OutsideIs ==
    ASSUME NEW t, Fits(t), NEW p \in 1 .. Len(t), NEW q \in 1 .. Len(t), Starts(t, p)
    PROVE  /\ \A k \in Outside(Mark(t), p, q) :
                 \/ Mark(t)[k].type \in {"+", "-"} /\ k \in Top(t, p, q, {"+", "-"})
                 \/ Mark(t)[k].type \in {"*", "/"} /\ k \in Top(t, p, q, {"*", "/"})
                 \/ Mark(t)[k].type = "TK_SUB"
                 \/ k = 1 /\ p = 1 /\ Mark(t)[k].type = "-"
           /\ \A k \in Top(t, p, q, {"+", "-"}) :
                 k \in Outside(Mark(t), p, q) /\ Mark(t)[k].type \in {"+", "-"} /\ k > p
           /\ \A k \in Top(t, p, q, {"*", "/"}) :
                 k \in Outside(Mark(t), p, q) /\ Mark(t)[k].type \in {"*", "/"} /\ k > p
  <1>1. Len(t) \in Nat /\ p \in Int /\ q \in Int
    BY FitsFacts
  <1>2. ASSUME NEW k \in p .. q
        PROVE  /\ Mark(t)[k].type = IF Sign(t, k) THEN "TK_SUB" ELSE t[k].type
               /\ Depth(Mark(t), p, k) = Depth(t, p, k) /\ t[k].type \in Types
               /\ IF Starts(t, k) THEN t[k].type \in {"num", "-", "("}
                  ELSE t[k].type \in {"+", "-", "*", "/", ")"}
    <2>1. k \in 1 .. Len(t) /\ k \in 0 .. Len(t)
      BY <1>1
    <2> QED
      BY <2>1, MarkFacts, FitsFacts, Zenon
  <1>3. ASSUME NEW k \in Outside(Mark(t), p, q), Mark(t)[k].type # "TK_SUB"
        PROVE  \/ Mark(t)[k].type \in {"+", "-"} /\ k \in Top(t, p, q, {"+", "-"})
               \/ Mark(t)[k].type \in {"*", "/"} /\ k \in Top(t, p, q, {"*", "/"})
               \/ k = 1 /\ p = 1 /\ Mark(t)[k].type = "-"
    <2>1. /\ k \in p .. q /\ Mark(t)[k].type \notin {"num", "(", ")"}
          /\ Depth(Mark(t), p, k) = 0
      BY DEF Outside
    <2>2. /\ ~Sign(t, k) /\ Mark(t)[k].type = t[k].type /\ Depth(t, p, k) = 0
          /\ t[k].type \in {"+", "-", "*", "/"}
      BY <1>2, <1>3, <2>1 DEF Types
    <2>3. CASE Starts(t, k)
      <3>1. t[k].type = "-"
        BY <1>2, <2>1, <2>2, <2>3
      <3>2. ~(k > 1)
        BY <2>2, <2>3, <3>1 DEF Sign
      <3> QED
        BY <1>1, <2>1, <2>2, <3>1, <3>2
    <2>4. CASE ~Starts(t, k)
      <3>1. k # p
        BY <2>4
      <3>2. k \in p + 1 .. q
        BY <1>1, <2>1, <3>1
      <3> QED
        BY <2>2, <2>4, <3>2 DEF Top
    <2> QED
      BY <2>3, <2>4
  <1>4. ASSUME NEW ops, ops \in {{"+", "-"}, {"*", "/"}}, NEW k \in Top(t, p, q, ops)
        PROVE  k \in Outside(Mark(t), p, q) /\ Mark(t)[k].type \in ops /\ k > p
    <2>1. k \in p + 1 .. q /\ t[k].type \in ops /\ ~Starts(t, k) /\ Depth(t, p, k) = 0
      BY DEF Top
    <2>2. k \in p .. q /\ k > p
      BY <1>1, <2>1
    <2>3. Mark(t)[k].type = t[k].type /\ Depth(Mark(t), p, k) = 0
      BY <1>2, <2>1, <2>2 DEF Sign
    <2>4. t[k].type \notin {"num", "(", ")"}
      BY <1>4, <2>1
    <2> QED
      BY <2>1, <2>2, <2>3, <2>4 DEF Outside
  <1>5. \A k \in Top(t, p, q, {"+", "-"}) :
           k \in Outside(Mark(t), p, q) /\ Mark(t)[k].type \in {"+", "-"} /\ k > p
    BY <1>4
  <1>6. \A k \in Top(t, p, q, {"*", "/"}) :
           k \in Outside(Mark(t), p, q) /\ Mark(t)[k].type \in {"*", "/"} /\ k > p
    BY <1>4
  <1> QED
    BY <1>3, <1>5, <1>6

\* The last binary + or - is dominant.
LEMMA DominantSum ==
    ASSUME NEW t, Fits(t), NEW p \in 1 .. Len(t), NEW q \in 1 .. Len(t), Starts(t, p),
           NEW i \in Top(t, p, q, {"+", "-"}), \A k \in Top(t, p, q, {"+", "-"}) : k <= i
    PROVE  dominant_operator(Mark(t), p, q) = i
  <1> DEFINE O == Outside(Mark(t), p, q)
             pr(k) == prior(Mark(t)[k].type)
             op == dominant_operator(Mark(t), p, q)
  <1>1. p \in Int /\ q \in Int /\ i \in Int
    BY FitsFacts DEF Top
  <1>2. i \in O /\ pr(i) = 4 /\ i > p
    BY OutsideIs, PriorIs
  <1>3. /\ op \in Loosest(Mark(t), p, q)
        /\ pr(op) >= 2 => \A k \in Loosest(Mark(t), p, q) : k <= op
    BY <1>1, <1>2, DominantIs
  <1>4. op \in O /\ \A k \in O : pr(k) <= pr(op)
    BY <1>3 DEF Loosest
  <1>5. \A k \in O : pr(k) \in {-1, 0, 2, 3, 4}
    BY PriorRange
  <1> HIDE DEF op
  <1>6. pr(op) = 4
    <2>1. pr(i) <= pr(op) /\ pr(op) \in {-1, 0, 2, 3, 4}
      BY <1>2, <1>4, <1>5
    <2> HIDE DEF pr
    <2> QED
      BY <1>2, <2>1
  <1>7. i \in Loosest(Mark(t), p, q)
    <2>1. \A k \in O : pr(k) <= pr(i)
      <3> HIDE DEF pr
      <3> QED
        BY <1>2, <1>4, <1>6
    <2> QED
      BY <1>2, <2>1 DEF Loosest
  <1>8. i <= op
    BY <1>3, <1>6, <1>7
  <1>9. op \in Top(t, p, q, {"+", "-"})
    <2>1. Mark(t)[op].type \notin {"*", "/", "TK_SUB"}
      BY <1>6, PriorIs
    <2>2. op # 1 \/ p # 1
      BY <1>1, <1>2, <1>8
    <2> QED
      BY <1>4, <2>1, <2>2, OutsideIs
  <1>10. op <= i /\ op \in Int
    BY <1>9 DEF Top
  <1> QED
    BY <1>1, <1>8, <1>10 DEF op

\* Without one, a - at the very beginning is.
LEMMA DominantFirst ==
    ASSUME NEW t, Fits(t), NEW q \in 1 .. Len(t), t[1].type = "-", Top(t, 1, q, {"+", "-"}) = {}
    PROVE  dominant_operator(Mark(t), 1, q) = 1
  <1> DEFINE O == Outside(Mark(t), 1, q)
             pr(k) == prior(Mark(t)[k].type)
             op == dominant_operator(Mark(t), 1, q)
  <1>1. q \in Int /\ 1 \in 1 .. Len(t) /\ Len(t) \in Nat /\ Starts(t, 1) /\ 1 \in 1 .. q
    BY FitsFacts DEF Starts
  <1>2. 1 \in O /\ pr(1) = 4
    <2>1. Mark(t)[1].type = "-"
      BY <1>1, MarkFacts DEF Sign
    <2>2. Depth(Mark(t), 1, 1) = 0
      BY <2>1, DepthOne
    <2> QED
      BY <1>1, <2>1, <2>2, PriorIs DEF Outside
  <1>3. /\ op \in Loosest(Mark(t), 1, q)
    BY <1>1, <1>2, DominantIs
  <1>4. op \in O /\ \A k \in O : pr(k) <= pr(op)
    BY <1>3 DEF Loosest
  <1>5. \A k \in O : pr(k) \in {-1, 0, 2, 3, 4}
    BY PriorRange
  <1> HIDE DEF op
  <1>6. pr(op) = 4
    <2>1. pr(1) <= pr(op) /\ pr(op) \in {-1, 0, 2, 3, 4}
      BY <1>2, <1>4, <1>5
    <2> HIDE DEF pr
    <2> QED
      BY <1>2, <2>1
  <1>7. Mark(t)[op].type \notin {"*", "/", "TK_SUB"}
    BY <1>6, PriorIs
  <1>8. op = 1
    BY <1>1, <1>4, <1>7, OutsideIs
  <1> QED
    BY <1>8 DEF op

\* Without these, the last * or / is.
LEMMA DominantProduct ==
    ASSUME NEW t, Fits(t), NEW p \in 1 .. Len(t), NEW q \in 1 .. Len(t), Starts(t, p),
           Top(t, p, q, {"+", "-"}) = {}, ~(p = 1 /\ t[1].type = "-"),
           NEW i \in Top(t, p, q, {"*", "/"}), \A k \in Top(t, p, q, {"*", "/"}) : k <= i
    PROVE  dominant_operator(Mark(t), p, q) = i
  <1> DEFINE O == Outside(Mark(t), p, q)
             pr(k) == prior(Mark(t)[k].type)
             op == dominant_operator(Mark(t), p, q)
  <1>1. p \in Int /\ q \in Int /\ i \in Int
    BY FitsFacts DEF Top
  <1>2. i \in O /\ pr(i) = 3 /\ i > p
    BY OutsideIs, PriorIs
  <1>3. /\ op \in Loosest(Mark(t), p, q)
        /\ pr(op) >= 2 => \A k \in Loosest(Mark(t), p, q) : k <= op
    BY <1>1, <1>2, DominantIs
  <1>4. op \in O /\ \A k \in O : pr(k) <= pr(op)
    BY <1>3 DEF Loosest
  <1>5. ASSUME NEW k \in O
        PROVE  \/ pr(k) = 3 /\ k \in Top(t, p, q, {"*", "/"})
               \/ pr(k) = -1
    <2>1. ~(k = 1 /\ p = 1 /\ Mark(t)[k].type = "-")
      BY MarkFacts DEF Sign
    <2> QED
      BY <2>1, OutsideIs, PriorIs
  <1> HIDE DEF op
  <1>6. pr(op) = 3 /\ op \in Top(t, p, q, {"*", "/"})
    <2>1. pr(i) <= pr(op)
      BY <1>2, <1>4
    <2> HIDE DEF pr
    <2> QED
      BY <1>2, <1>4, <1>5, <2>1
  <1>7. i \in Loosest(Mark(t), p, q)
    <2>1. \A k \in O : pr(k) <= pr(i)
      <3> HIDE DEF pr
      <3> QED
        BY <1>2, <1>4, <1>6
    <2> QED
      BY <1>2, <2>1 DEF Loosest
  <1>8. i <= op
    BY <1>3, <1>6, <1>7
  <1>9. op <= i /\ op \in Int
    BY <1>6 DEF Top
  <1> QED
    BY <1>1, <1>8, <1>9 DEF op

\* And without any, the first sign.
LEMMA DominantSign ==
    ASSUME NEW t, Fits(t), NEW p \in 1 .. Len(t), NEW q \in 1 .. Len(t), Starts(t, p),
           Top(t, p, q, {"+", "-"}) = {}, Top(t, p, q, {"*", "/"}) = {},
           p <= q, p > 1, t[p].type = "-"
    PROVE  dominant_operator(Mark(t), p, q) = p /\ Mark(t)[p].type = "TK_SUB"
  <1> DEFINE O == Outside(Mark(t), p, q)
             pr(k) == prior(Mark(t)[k].type)
             op == dominant_operator(Mark(t), p, q)
  <1>1. p \in Int /\ q \in Int /\ Len(t) \in Nat
    BY FitsFacts
  <1>2. Mark(t)[p].type = "TK_SUB"
    BY MarkFacts DEF Sign
  <1>3. p \in O
    <2>1. Depth(Mark(t), p, p) = 0
      BY <1>1, <1>2, DepthOne
    <2> QED
      BY <1>1, <1>2, <2>1 DEF Outside
  <1>4. \A k \in O : pr(k) = -1
    <2>1. \A k \in O : Mark(t)[k].type = "TK_SUB"
      BY <1>1, OutsideIs
    <2> QED
      BY <2>1, PriorIs
  <1>5. /\ op \in Loosest(Mark(t), p, q)
        /\ ~(pr(op) >= 2) => \A k \in Loosest(Mark(t), p, q) : op <= k
    BY <1>1, <1>3, DominantIs
  <1>6. op \in O /\ op \in p .. q
    BY <1>5 DEF Loosest, Outside
  <1>7. p \in Loosest(Mark(t), p, q)
    BY <1>3, <1>4 DEF Loosest
  <1> HIDE DEF op
  <1>8. op <= p
    BY <1>4, <1>5, <1>6, <1>7
  <1> QED
    BY <1>1, <1>2, <1>6, <1>8 DEF op

-----------------------------------------------------------------------------
(* eval computes what the grammar says.                                    *)

Computed(t, p, q) == eval(Mark(t))[<<p, q>>]

\* The cases of eval on a marked text.
LEMMA ComputedIs ==
    ASSUME NEW t, Fits(t), NEW p \in 1 .. Len(t) + 1, NEW q \in 0 .. Len(t)
    PROVE  /\ p > q => Computed(t, p, q) = {0}
           /\ p = q => Computed(t, p, q) = {t[p].val}
           /\ p < q /\ check_parentheses(t, p, q) => Computed(t, p, q) = Computed(t, p + 1, q - 1)
           /\ p < q /\ ~check_parentheses(t, p, q) =>
                 Computed(t, p, q) = AtOperator(Mark(t), eval(Mark(t)), p, dominant_operator(Mark(t), p, q), q)
  <1>1. Len(t) \in Nat /\ Len(Mark(t)) = Len(t)
    BY FitsFacts, MarkFacts
  <1>2. Computed(t, p, q) = EvalStep(Mark(t), eval(Mark(t)), p, q)
    BY <1>1, EvalIs DEF Computed
  <1>3. ASSUME p = q PROVE Mark(t)[p].val = t[p].val
    BY <1>1, <1>3, MarkFacts
  <1>4. ASSUME p < q PROVE check_parentheses(Mark(t), p, q) <=> check_parentheses(t, p, q)
    <2>1. p \in 1 .. Len(t) /\ q \in 1 .. Len(t) /\ q \in 0 .. Len(t)
      BY <1>1, <1>4
    <2>2. \A i \in p .. q - 1 : i \in 0 .. Len(t)
      BY <1>1, <2>1
    <2>3. /\ Mark(t)[p].type = "(" <=> t[p].type = "("
          /\ Mark(t)[q].type = ")" <=> t[q].type = ")"
      BY <2>1, MarkFacts DEF Sign
    <2>4. /\ \A i \in p .. q - 1 : Depth(Mark(t), p, i) = Depth(t, p, i)
          /\ Depth(Mark(t), p, q) = Depth(t, p, q)
      BY <2>1, <2>2, MarkFacts
    <2> QED
      BY <2>3, <2>4, Zenon DEF check_parentheses
  <1>5. p > q => Computed(t, p, q) = {0}
    BY <1>2, Zenon DEF EvalStep
  <1>6. p = q => Computed(t, p, q) = {t[p].val}
    <2>1. p = q => ~(p > q)
      BY <1>1
    <2> QED
      BY <1>2, <1>3, <2>1, Zenon DEF EvalStep
  <1>7. p < q => ~(p > q) /\ p # q
    BY <1>1
  <1> QED
    BY <1>2, <1>4, <1>5, <1>6, <1>7, Zenon DEF EvalStep, Computed

\* The value of the tokens from p to q is v, and eval splits them at op into
\* those up to l and those from r on.
Gives(t, p, q, v) == Computed(t, p, q) = {v}
SplitsAt(t, p, l, op, r, q) ==
    /\ Fits(t) /\ p \in 1 .. Len(t) /\ q \in 1 .. Len(t) /\ p < q
    /\ ~check_parentheses(t, p, q) /\ dominant_operator(Mark(t), p, q) = op
    /\ l = op - 1 /\ r = op + 1

\* Where eval splits, its value is the operator applied to the values of the parts.
LEMMA ComputedAt ==
    ASSUME NEW t, NEW p, NEW q, NEW op, NEW l, NEW r, SplitsAt(t, p, l, op, r, q),
           NEW a, NEW b, Gives(t, p, l, a), Gives(t, r, q, b)
    PROVE  Computed(t, p, q) = Apply(Mark(t)[op].type, a, b)
  <1> DEFINE Join(A, B) == UNION {Apply(Mark(t)[op].type, x, y) : x \in A, y \in B}
  <1>1. p \in 1 .. Len(t) + 1 /\ q \in 0 .. Len(t)
    BY FitsFacts DEF SplitsAt
  <1>2. Computed(t, p, q) = AtOperator(Mark(t), eval(Mark(t)), p, op, q)
    BY <1>1, ComputedIs, Zenon DEF SplitsAt
  <1>3. AtOperator(Mark(t), eval(Mark(t)), p, op, q) = Join(Computed(t, p, l), Computed(t, r, q))
    BY DEF AtOperator, Computed, SplitsAt
  <1>4. Join({a}, {b}) = Apply(Mark(t)[op].type, a, b)
    OBVIOUS
  <1> HIDE DEF Join
  <1> QED
    BY <1>2, <1>3, <1>4 DEF Gives

\* The parts of a text are parts of its phrases.
LEMMA Lift ==
    ASSUME NEW t, Fits(t), NEW p \in 1 .. Len(t), NEW q \in 1 .. Len(t)
    PROVE  /\ \A v \in FactorOf(t, p, q) : v \in ProductOf(t, p, q)
           /\ \A v \in ProductOf(t, p, q) : v \in SumOf(t, p, q)
BY FitsFacts, ProductIs, SumIs

\* All phrases of fewer than len + 1 tokens are computed.
RightBelow(t, len) ==
    \A p \in 1 .. Len(t), q \in 1 .. Len(t) :
        q - p < len /\ Starts(t, p) => \A v \in SumOf(t, p, q) : Gives(t, p, q, v)

\* A phrase that eval takes for parentheses is one.
LEMMA ParenthesesRight ==
    ASSUME NEW t, Fits(t), NEW p \in 1 .. Len(t), NEW q \in 1 .. Len(t), Starts(t, p), p < q,
           RightBelow(t, q - p), check_parentheses(t, p, q), NEW v \in SumOf(t, p, q)
    PROVE  Gives(t, p, q, v)
  <1>1. Len(t) \in Nat /\ p \in Int /\ q \in Int /\ q \in 0 .. Len(t) /\ p \in 1 .. Len(t) + 1
    BY FitsFacts
  <1>2. t[p].type = "(" /\ t[q].type = ")" /\ \A i \in p .. q - 1 : Depth(t, p, i) # 0
    BY DEF check_parentheses
  <1>3. \A ops \in {{"+", "-"}, {"*", "/"}} : Top(t, p, q, ops) = {}
    <2>1. ASSUME NEW ops \in {{"+", "-"}, {"*", "/"}}, NEW k \in Top(t, p, q, ops) PROVE FALSE
      <3>1. k \in p + 1 .. q /\ t[k].type \in ops /\ Depth(t, p, k) = 0
        BY DEF Top
      <3>2. k # q
        BY <1>2, <3>1
      <3>3. k \in p .. q - 1
        BY <1>1, <3>1, <3>2
      <3> QED
        BY <1>2, <3>1, <3>3
    <2> QED
      BY <2>1
  <1>4. ShapedBelow(t, q - p)
    BY AllShapedBelow
  <1>5. v \in ProductOf(t, p, q)
    <2>1. ~SumAtOperator(t, p, q, v)
      <3>1. ASSUME SumAtOperator(t, p, q, v) PROVE FALSE
        <4>1. PICK i \in p + 1 .. q - 1 :
                 /\ t[i].type \in {"+", "-"}
                 /\ \E a \in SumOf(t, p, i - 1), b \in ProductOf(t, i + 1, q) :
                       v = Joined(t[i].type, a, b)
          BY <3>1, Zenon DEF SumAtOperator
        <4>2. PICK a \in SumOf(t, p, i - 1), b \in ProductOf(t, i + 1, q) : TRUE
          BY <4>1
        <4>3. i \in Top(t, p, q, {"+", "-"})
          BY <1>4, <4>1, <4>2, SumSplit
        <4> QED
          BY <1>3, <4>3
      <3> QED
        BY <3>1
    <2> QED
      BY <1>1, <2>1, SumIs, Zenon
  <1>6. v \in FactorOf(t, p, q)
    <2>1. ~ProductAtOperator(t, p, q, v)
      <3>1. ASSUME ProductAtOperator(t, p, q, v) PROVE FALSE
        <4>1. PICK i \in p + 1 .. q - 1 :
                 /\ t[i].type \in {"*", "/"}
                 /\ \E a \in ProductOf(t, p, i - 1), b \in FactorOf(t, i + 1, q) :
                       /\ t[i].type = "/" => b # 0
                       /\ v = Joined(t[i].type, a, b)
          BY <3>1, Zenon DEF ProductAtOperator
        <4>2. PICK a \in ProductOf(t, p, i - 1), b \in FactorOf(t, i + 1, q) :
                       t[i].type = "/" => b # 0
          BY <4>1
        <4>3. i \in Top(t, p, q, {"*", "/"})
          BY <1>4, <4>1, <4>2, ProductSplit
        <4> QED
          BY <1>3, <4>3
      <3> QED
        BY <3>1
    <2> QED
      BY <1>1, <1>5, <2>1, ProductIs, Zenon
  <1>7. v \in SumOf(t, p + 1, q - 1)
    <2>1. p # q /\ t[p].type # "num" /\ t[p].type # "-"
      BY <1>1, <1>2
    <2> QED
      BY <1>2, <1>6, <2>1, FactorForms
  <1>8. p + 1 \in 1 .. Len(t) /\ q - 1 \in 1 .. Len(t) /\ q - 1 - (p + 1) < q - p
    BY <1>1
  <1>9. Starts(t, p + 1)
    BY <1>1, <1>2, StartsAfter
  <1>10. Gives(t, p + 1, q - 1, v)
    BY <1>7, <1>8, <1>9, Zenon DEF RightBelow
  <1> QED
    BY <1>1, <1>10, ComputedIs DEF Gives

\* A phrase with + or - outside of parentheses.
LEMMA SumRight ==
    ASSUME NEW t, Fits(t), NEW p \in 1 .. Len(t), NEW q \in 1 .. Len(t), Starts(t, p), p < q,
           RightBelow(t, q - p), ~check_parentheses(t, p, q), NEW v, SumAtOperator(t, p, q, v)
    PROVE  Gives(t, p, q, v)
  <1>1. /\ Len(t) \in Nat /\ p \in Int /\ q \in Int /\ q \in 0 .. Len(t) /\ p \in 1 .. Len(t) + 1
        /\ ShapedBelow(t, q - p)
    BY FitsFacts, AllShapedBelow
  <1>2. PICK i \in p + 1 .. q - 1 :
             /\ t[i].type \in {"+", "-"}
             /\ \E a \in SumOf(t, p, i - 1), b \in ProductOf(t, i + 1, q) : v = Joined(t[i].type, a, b)
    BY Zenon DEF SumAtOperator
  <1>3. PICK a \in SumOf(t, p, i - 1), b \in ProductOf(t, i + 1, q) : v = Joined(t[i].type, a, b)
    BY <1>2
  <1>4. /\ i - 1 \in 1 .. Len(t) /\ i + 1 \in 1 .. Len(t)
        /\ i - 1 - p < q - p /\ q - (i + 1) < q - p /\ Starts(t, i + 1) /\ ~Starts(t, i)
        /\ i \in Top(t, p, q, {"+", "-"}) /\ \A k \in Top(t, p, q, {"+", "-"}) : k <= i
    BY <1>1, <1>2, <1>3, SumSplit
  <1>5. SplitsAt(t, p, i - 1, i, i + 1, q)
    BY <1>4, DominantSum DEF SplitsAt
  <1>6. Gives(t, p, i - 1, a)
    BY <1>4, Zenon DEF RightBelow
  <1>7. Gives(t, i + 1, q, b)
    <2>1. b \in SumOf(t, i + 1, q)
      BY <1>4, Lift
    <2> QED
      BY <1>4, <2>1, Zenon DEF RightBelow
  <1>8. Computed(t, p, q) = Apply(Mark(t)[i].type, a, b)
    BY <1>5, <1>6, <1>7, ComputedAt
  <1>9. Mark(t)[i].type = t[i].type
    <2>1. i \in 1 .. Len(t)
      BY <1>1
    <2> QED
      BY <1>4, <2>1, MarkFacts DEF Sign
  <1>10. Apply(t[i].type, a, b) = {Joined(t[i].type, a, b)}
    BY <1>2 DEF Apply, Joined
  <1> QED
    BY <1>3, <1>8, <1>9, <1>10 DEF Gives

\* A first sign before a product.
LEMMA FirstSignRight ==
    ASSUME NEW t, Fits(t), NEW q \in 1 .. Len(t), 1 < q, t[1].type = "-",
           RightBelow(t, q - 1), NEW v \in ProductOf(t, 1, q)
    PROVE  Gives(t, 1, q, v)
  <1>1. /\ Len(t) \in Nat /\ q \in Int /\ q \in 0 .. Len(t) /\ 1 \in 1 .. Len(t)
        /\ 1 \in 1 .. Len(t) + 1 /\ 0 \in 0 .. Len(t) /\ Starts(t, 1) /\ 1 > 0 /\ 1 - 1 = 0
        /\ 2 \in 1 .. Len(t) /\ 1 + 1 = 2 /\ q - 2 < q - 1
    BY FitsFacts DEF Starts
  <1>2. Starts(t, 2)
    BY <1>1 DEF Starts
  <1>3. Top(t, 1, q, {"+", "-"}) = {}
    BY <1>1, AllShaped DEF ShapedAt
  <1>4. dominant_operator(Mark(t), 1, q) = 1
    BY <1>3, DominantFirst
  <1>5. PICK w \in ProductOf(t, 2, q) : w \in Int /\ v = -w
    BY <1>1, SignedProduct
  <1>6. Gives(t, 2, q, w)
    <2>1. w \in SumOf(t, 2, q)
      BY <1>1, Lift
    <2> QED
      BY <1>1, <1>2, <2>1, Zenon DEF RightBelow
  <1>7. Gives(t, 1, 0, 0)
    BY <1>1, ComputedIs, Zenon DEF Gives
  <1>8. SplitsAt(t, 1, 0, 1, 2, q)
    BY <1>1, <1>4 DEF SplitsAt, check_parentheses
  <1>9. Computed(t, 1, q) = Apply(Mark(t)[1].type, 0, w)
    BY <1>6, <1>7, <1>8, ComputedAt
  <1>10. Mark(t)[1].type = "-"
    BY <1>1, MarkFacts DEF Sign
  <1>11. Apply("-", 0, w) = {0 - w}
    BY DEF Apply
  <1>12. 0 - w = v
    BY <1>5
  <1> QED
    BY <1>9, <1>10, <1>11, <1>12 DEF Gives

\* A product with * or / outside of parentheses.
LEMMA ProductRight ==
    ASSUME NEW t, Fits(t), NEW p \in 1 .. Len(t), NEW q \in 1 .. Len(t), Starts(t, p), p < q,
           RightBelow(t, q - p), ~check_parentheses(t, p, q), ~(p = 1 /\ t[1].type = "-"),
           NEW v, ProductAtOperator(t, p, q, v)
    PROVE  Gives(t, p, q, v)
  <1>1. /\ Len(t) \in Nat /\ p \in Int /\ q \in Int /\ q \in 0 .. Len(t) /\ p \in 1 .. Len(t) + 1
        /\ ShapedBelow(t, q - p)
    BY FitsFacts, AllShapedBelow
  <1>2. PICK i \in p + 1 .. q - 1 :
             /\ t[i].type \in {"*", "/"}
             /\ \E a \in ProductOf(t, p, i - 1), b \in FactorOf(t, i + 1, q) :
                   /\ t[i].type = "/" => b # 0
                   /\ v = Joined(t[i].type, a, b)
    BY Zenon DEF ProductAtOperator
  <1>3. PICK a \in ProductOf(t, p, i - 1), b \in FactorOf(t, i + 1, q) :
                   /\ t[i].type = "/" => b # 0
                   /\ v = Joined(t[i].type, a, b)
    BY <1>2
  <1>4. /\ i - 1 \in 1 .. Len(t) /\ i + 1 \in 1 .. Len(t)
        /\ i - 1 - p < q - p /\ q - (i + 1) < q - p /\ Starts(t, i + 1) /\ ~Starts(t, i)
        /\ i \in Top(t, p, q, {"*", "/"}) /\ \A k \in Top(t, p, q, {"*", "/"}) : k <= i
        /\ Top(t, p, q, {"+", "-"}) = {}
    BY <1>1, <1>2, <1>3, ProductSplit
  <1>5. SplitsAt(t, p, i - 1, i, i + 1, q)
    BY <1>4, DominantProduct DEF SplitsAt
  <1>6. Gives(t, p, i - 1, a)
    <2>1. a \in SumOf(t, p, i - 1)
      BY <1>4, Lift
    <2> QED
      BY <1>4, <2>1, Zenon DEF RightBelow
  <1>7. Gives(t, i + 1, q, b)
    <2>1. b \in SumOf(t, i + 1, q)
      BY <1>4, Lift
    <2> QED
      BY <1>4, <2>1, Zenon DEF RightBelow
  <1>8. Computed(t, p, q) = Apply(Mark(t)[i].type, a, b)
    BY <1>5, <1>6, <1>7, ComputedAt
  <1>9. Mark(t)[i].type = t[i].type
    <2>1. i \in 1 .. Len(t)
      BY <1>1
    <2> QED
      BY <1>4, <2>1, MarkFacts DEF Sign
  <1>10. Apply(t[i].type, a, b) = {Joined(t[i].type, a, b)}
    <2>1. CASE t[i].type = "*"
      BY <2>1 DEF Apply, Joined
    <2>2. CASE t[i].type = "/"
      BY <1>3, <2>2 DEF Apply, Joined
    <2> QED
      BY <1>2, <2>1, <2>2
  <1> QED
    BY <1>3, <1>8, <1>9, <1>10 DEF Gives

\* A factor of several tokens.
LEMMA FactorRight ==
    ASSUME NEW t, Fits(t), NEW p \in 1 .. Len(t), NEW q \in 1 .. Len(t), Starts(t, p), p < q,
           RightBelow(t, q - p), ~check_parentheses(t, p, q), ~(p = 1 /\ t[1].type = "-"),
           NEW v \in FactorOf(t, p, q)
    PROVE  Gives(t, p, q, v)
  <1>1. /\ Len(t) \in Nat /\ p \in Int /\ q \in Int /\ p # q /\ p >= 1
        /\ p + 1 \in 1 .. Len(t) /\ q - (p + 1) < q - p
    BY FitsFacts
  <1>2. CASE t[p].type = "(" /\ t[q].type = ")" /\ FactorOf(t, p, q) = SumOf(t, p + 1, q - 1)
    <2>1. Starts(t, p + 1) /\ q - 1 \in 1 .. Len(t)
      BY <1>1, <1>2, StartsAfter
    <2>2. Shaped(t, p + 1, q - 1, SumOf(t, p + 1, q - 1))
      BY <1>1, <2>1, AllShaped DEF ShapedAt
    <2>3. p + 1 <= q - 1 /\ Balanced(t, p + 1, q - 1)
      BY <1>2, <2>2 DEF Shaped
    <2>4. Balanced(t, p, q) /\ \A k \in p .. q - 1 : Depth(t, p, k) >= 1
      BY <1>1, <1>2, <2>3, BracketBalanced, Zenon
    <2>5. check_parentheses(t, p, q)
      <3>1. \A k \in p .. q - 1 : Depth(t, p, k) # 0
        BY <2>4
      <3> QED
        BY <1>2, <2>4, <3>1 DEF check_parentheses, Balanced
    <2> QED
      BY <2>5
  <1>3. CASE t[p].type = "-" /\ FactorOf(t, p, q) = {-w : w \in FactorOf(t, p + 1, q)}
    <2>1. PICK w \in FactorOf(t, p + 1, q) : v = -w
      BY <1>3
    <2>2. Starts(t, p + 1)
      BY <1>1, <1>3, StartsAfter
    <2>3. Gives(t, p + 1, q, w)
      <3>1. w \in SumOf(t, p + 1, q)
        BY <1>1, Lift
      <3> QED
        BY <1>1, <2>2, <3>1, Zenon DEF RightBelow
    <2>4. Top(t, p, q, {"+", "-"}) = {} /\ Top(t, p, q, {"*", "/"}) = {}
      <3>1. Top(t, p, q, {"+", "-", "*", "/"}) = {}
        BY AllShaped DEF ShapedAt
      <3> QED
        BY <3>1 DEF Top
    <2>5. SplitsAt(t, p, p - 1, p, p + 1, q) /\ Mark(t)[p].type = "TK_SUB"
      <3>1. p > 1 /\ p <= q
        BY <1>1, <1>3
      <3> QED
        BY <1>3, <2>4, <3>1, DominantSign DEF SplitsAt
    <2>6. Gives(t, p, p - 1, 0)
      <3>1. p \in 1 .. Len(t) + 1 /\ p - 1 \in 0 .. Len(t) /\ p > p - 1
        BY <1>1
      <3> QED
        BY <3>1, ComputedIs, Zenon DEF Gives
    <2>7. Computed(t, p, q) = Apply("TK_SUB", 0, w)
      BY <2>3, <2>5, <2>6, ComputedAt
    <2>8. Apply("TK_SUB", 0, w) = {-w}
      BY DEF Apply
    <2> QED
      BY <2>1, <2>7, <2>8 DEF Gives
  <1> QED
    BY <1>1, <1>2, <1>3, FactorForms

\* eval computes the value of every phrase.
LEMMA AllComputed ==
    ASSUME NEW t, Fits(t), NEW p \in 1 .. Len(t), NEW q \in 1 .. Len(t), Starts(t, p),
           NEW v \in SumOf(t, p, q)
    PROVE  Gives(t, p, q, v)
  <1>1. Len(t) \in Nat
    BY FitsFacts
  <1>2. ASSUME NEW a \in 1 .. Len(t), NEW b \in 1 .. Len(t), Starts(t, a), RightBelow(t, b - a),
               NEW x \in SumOf(t, a, b)
        PROVE  Gives(t, a, b, x)
    <2>1. a <= b /\ a \in Int /\ b \in Int /\ a \in 1 .. Len(t) + 1 /\ b \in 0 .. Len(t)
      BY <1>1, PhraseEmpty
    <2>2. x \in FactorOf(t, a, b) \/ ProductAtOperator(t, a, b, x) \/ SumAtOperator(t, a, b, x)
      BY <1>1, SumIs, ProductIs, Zenon
    <2>3. CASE a = b
      <3>1. x \in FactorOf(t, a, b)
        <4>1. a + 1 .. b - 1 = {}
          BY <2>1, <2>3
        <4> QED
          BY <2>2, <4>1 DEF ProductAtOperator, SumAtOperator
      <3>2. ~(a < b)
        BY <2>1, <2>3
      <3>3. x = t[a].val
        BY <1>2, <3>1, <3>2, FactorForms
      <3> QED
        BY <1>2, <2>1, <2>3, <3>3, ComputedIs, Zenon DEF Gives
    <2>4. CASE a # b
      <3>1. a < b
        BY <2>1, <2>4
      <3>2. CASE check_parentheses(t, a, b)
        BY <1>2, <3>1, <3>2, ParenthesesRight
      <3>3. CASE ~check_parentheses(t, a, b) /\ SumAtOperator(t, a, b, x)
        BY <1>2, <3>1, <3>3, SumRight
      <3>4. CASE ~check_parentheses(t, a, b) /\ ~SumAtOperator(t, a, b, x) /\ a = 1 /\ t[1].type = "-"
        <4>1. x \in ProductOf(t, a, b)
          BY <1>1, <2>2, <3>4, ProductIs, Zenon
        <4> QED
          BY <1>2, <3>1, <3>4, <4>1, FirstSignRight
      <3>5. CASE /\ ~check_parentheses(t, a, b) /\ ~(a = 1 /\ t[1].type = "-")
                 /\ ProductAtOperator(t, a, b, x)
        BY <1>2, <3>1, <3>5, ProductRight
      <3>6. CASE /\ ~check_parentheses(t, a, b) /\ ~(a = 1 /\ t[1].type = "-")
                 /\ x \in FactorOf(t, a, b)
        BY <1>2, <3>1, <3>6, FactorRight
      <3> QED
        BY <2>2, <3>2, <3>3, <3>4, <3>5, <3>6
    <2> QED
      BY <2>3, <2>4
  <1>3. \A len \in Nat : RightBelow(t, len)
    <2> DEFINE N == {len \in Nat : ~RightBelow(t, len)}
    <2>1. SUFFICES ASSUME N # {} PROVE FALSE
      OBVIOUS
    <2>2. PICK len \in N : \A i \in N : len <= i
      <3>1. N \in SUBSET Nat
        OBVIOUS
      <3> HIDE DEF N
      <3> QED
        BY <2>1, <3>1, LeastNumber
    <2>3. PICK a \in 1 .. Len(t), b \in 1 .. Len(t) :
             b - a < len /\ Starts(t, a) /\ \E x \in SumOf(t, a, b) : ~Gives(t, a, b, x)
      BY <2>2 DEF RightBelow
    <2>4. b >= a
      BY <1>1, <2>3, PhraseEmpty
    <2>5. b - a \in Nat /\ ~(len <= b - a)
      BY <1>1, <2>2, <2>3, <2>4
    <2>6. RightBelow(t, b - a)
      BY <2>2, <2>5
    <2> QED
      BY <1>2, <2>3, <2>6
  <1>4. q - p \in Nat
    BY <1>1, PhraseEmpty
  <1> QED
    BY <1>2, <1>3, <1>4

\* What a user types alternates operands and operators, and its parentheses match.
LEMMA TextsFit ==
    ASSUME BinaryOps \subseteq {"+", "-", "*", "/"}, UnaryOps \subseteq {"-"}, NEW t \in Texts
    PROVE  Fits(t) /\ Len(t) >= 1
  <1>1. PICK k \in 1 .. MaxTokens : t \in [1 .. k -> Tokens]
    BY DEF Texts
  <1>2. k \in Nat /\ k >= 1
    BY ExprAssumption
  <1>3. Tokens \subseteq [type : Types, val : Int]
    <2>1. ASSUME NEW v \in Numbers PROVE Num(v) \in [type : Types, val : Int]
      BY ExprAssumption DEF Num, Types
    <2>2. ASSUME NEW o \in BinaryOps \union UnaryOps \union {"(", ")"}
          PROVE  Op(o) \in [type : Types, val : Int]
      <3>1. o \in Types
        BY DEF Types
      <3> QED
        BY <3>1 DEF Op
    <2> QED
      BY <2>1, <2>2 DEF Tokens
  <1>4. t \in [1 .. k -> [type : Types, val : Int]]
    BY <1>1, <1>3
  <1> HIDE DEF Types
  <1>5. t \in Seq([type : Types, val : Int]) /\ Len(t) = k
    <2>1. t \in Seq([type : Types, val : Int])
      <3> DEFINE X == [type : Types, val : Int]
      <3>1. t \in [1 .. k -> X] /\ k \in Nat
        BY <1>2, <1>4
      <3> HIDE DEF X
      <3>2. t \in UNION {[1 .. len -> X] : len \in Nat}
        BY <3>1
      <3>3. t \in Seq(X)
        BY <3>2, SeqDef, Zenon
      <3> QED
        BY <3>3 DEF X
    <2>2. Len(t) \in Nat /\ DOMAIN t = 1 .. Len(t)
      BY <2>1, LenProperties, Zenon
    <2>3. 1 .. Len(t) = 1 .. k
      BY <1>4, <2>2
    <2>4. Len(t) = k
      <3> DEFINE len == Len(t)
      <3>1. len \in Nat /\ 1 .. len = 1 .. k
        BY <2>2, <2>3
      <3> HIDE DEF len
      <3>2. k \in 1 .. k
        BY <1>2
      <3>3. k \in 1 .. len
        BY <3>1, <3>2, Zenon
      <3>4. len \in 1 .. len
        BY <3>1, <3>3
      <3>5. len \in 1 .. k
        BY <3>1, <3>4, Zenon
      <3>6. len <= k /\ k <= len
        BY <3>3, <3>5
      <3>7. len = k
        BY <1>2, <3>1, <3>6
      <3> QED
        BY <3>7, Zenon DEF len
    <2> QED
      BY <2>1, <2>4
  <1>6. ASSUME NEW i \in 1 .. k
        PROVE  IF Starts(t, i) THEN t[i].type \in {"num", "-", "("}
               ELSE t[i].type \in {"+", "-", "*", "/", ")"}
    <2> DEFINE s == SubSeq(t, 1, i - 1)
    <2>1. t[i] \in NextTokens(s)
      BY <1>1 DEF Texts
    <2>2. WantsOperand(s) <=> Starts(t, i)
      <3>1. Len(s) = i - 1 /\ (i > 1 => s[i - 1] = t[i - 1])
        <4>1. i \in Int /\ i - 1 \in Int /\ \A j \in 1 .. i - 1 : t[j] \in [type : Types, val : Int]
          BY <1>2, <1>4
        <4>2. /\ Len(s) = IF 1 <= i - 1 THEN i - 1 - 1 + 1 ELSE 0
              /\ \A j \in 1 .. i - 1 - 1 + 1 : s[j] = t[1 + j - 1]
          BY <4>1, SubSeqProperties
        <4> HIDE DEF s
        <4>3. i > 1 => i - 1 \in 1 .. i - 1 - 1 + 1 /\ 1 + (i - 1) - 1 = i - 1
          BY <4>1
        <4>4. Len(s) = i - 1
          BY <1>2, <4>1, <4>2
        <4> QED
          BY <4>2, <4>3, <4>4
      <3>2. i = 1 => s = << >>
        BY SubSeqEmpty
      <3>3. i # 1 => s # << >> /\ i > 1
        <4> HIDE DEF s
        <4>1. i \in Int /\ i >= 1 /\ Len(<< >>) = 0
          BY <1>2, EmptySeq
        <4> QED
          BY <3>1, <4>1
      <3> HIDE DEF s
      <3> QED
        BY <3>1, <3>2, <3>3 DEF WantsOperand, Starts
    <2> HIDE DEF s
    <2>3. CASE Starts(t, i)
      BY <2>1, <2>2, <2>3 DEF NextTokens, Num, Op
    <2>4. CASE ~Starts(t, i)
      BY <2>1, <2>2, <2>4 DEF NextTokens, Num, Op
    <2> QED
      BY <2>3, <2>4
  <1> QED
    BY <1>2, <1>5, <1>6 DEF Fits

\* expr computes the value of every text that has one.
LEMMA ComputesValue ==
    ASSUME BinaryOps \subseteq {"+", "-", "*", "/"}, UnaryOps \subseteq {"-"}
    PROVE  AllRight
  <1>1. ASSUME NEW t \in Texts, NEW v \in SumOf(t, 1, Len(t))
        PROVE  expr(t) = SumOf(t, 1, Len(t))
    <2>1. Fits(t) /\ Len(t) >= 1
      BY TextsFit
    <2>2. Len(t) \in Nat /\ 1 \in 1 .. Len(t) /\ Len(t) \in 1 .. Len(t) /\ Starts(t, 1)
      BY <2>1, FitsFacts DEF Starts
    <2>3. Gives(t, 1, Len(t), v)
      BY <2>1, <2>2, AllComputed
    <2>4. expr(t) = {v}
      BY <2>1, <2>3, MarkFacts DEF Gives, Computed, expr
    <2>5. SumOf(t, 1, Len(t)) = {v}
      BY <2>1, <2>2, AllShaped DEF ShapedAt, Shaped
    <2> QED
      BY <2>4, <2>5
  <1> QED
    BY <1>1 DEF AllRight, SumOf

\* Whatever arithmetic expression is typed at a prompt, p prints its value:
\* prior, dominant_operator and the marking of signs find the structure of the
\* grammar, for every length and nesting.
THEOREM PrintsRightValue ==
    ASSUME BinaryOps \subseteq {"+", "-", "*", "/"}, UnaryOps \subseteq {"-"}
    PROVE  Spec => []PrintsValue
  <1>1. AllRight
    BY ComputesValue
  <1>2. PrintsValue
    BY <1>1 DEF PrintsValue
  <1> QED
    BY <1>2, PTL

=============================================================================

----------------------------- MODULE ExuProofs -----------------------------
(***************************************************************************)
(* That the execute stage and its units stay in step and that their        *)
(* results are right, at every width and for every sequence of operations. *)
(***************************************************************************)
EXTENDS Exu, TLAPS, FiniteSetTheorems, FunctionTheorems, WellFoundedInduction, NaturalsInduction

\* The units at rest, and each of them while EX waits for it.
Kinds ==
    /\ idex \in [valid : BOOLEAN, op : Ops, src1 : Operands, src2 : Operands]
    /\ mstate \in {"Idle", "Busy", "Valid"}
    /\ dstate \in {"Idle", "Busy", "Valid"}

IInv == Kinds /\ UnitsInStep

\* One clock edge of the multiplier: where its state goes, and that a delivered
\* product is cleared.
LEMMA MulArcs ==
    ASSUME NEW v \in BOOLEAN, NEW w, NEW x, NEW y, Kinds,
           mstate = "Idle" => Prod = 0, Mul!Step(v, w, x, y)
    PROVE  /\ mstate = "Idle" => mstate' = (IF v THEN "Busy" ELSE "Idle")
           /\ mstate = "Busy" => mstate' \in {"Busy", "Valid"}
           /\ mstate = "Valid" => mstate' = (IF v THEN "Idle" ELSE "Valid")
           /\ mstate' = "Idle" => Prod' = 0
  BY DEF Kinds, Mul!Step, Mul!Rest, Mul!Start, Mul!Iterate, Mul!Deliver

\* One clock edge of the divider: where its state goes.
LEMMA DivArcs ==
    ASSUME NEW v \in BOOLEAN, NEW s, NEW x, NEW y, Kinds, Div!Step(v, s, x, y)
    PROVE  /\ dstate = "Idle" => dstate' = (IF v THEN "Busy" ELSE "Idle")
           /\ dstate = "Busy" => dstate' \in {"Busy", "Valid"}
           /\ dstate = "Valid" => dstate' = (IF v THEN "Idle" ELSE "Valid")
  BY DEF Kinds, Div!Step, Div!Rest, Div!Start, Div!Iterate, Div!Deliver

\* ID_EX holds an operation or a bubble, and keeps it while EX is not ready.
LEMMA IdExKeeps ==
    ASSUME Kinds, NEW ready \in BOOLEAN, IdExStep(ready)
    PROVE  /\ idex' \in [valid : BOOLEAN, op : Ops, src1 : Operands, src2 : Operands]
           /\ ~ready => idex' = idex
  <1>1. CASE idex' \in Issued /\ ready
    BY <1>1 DEF Issued
  <1>2. CASE idex' = Bubble /\ ready
    BY <1>2, OperandsAssumption DEF Bubble, Ops
  <1>3. CASE idex' = idex /\ ~ready
    BY <1>3 DEF Kinds
  <1> QED
    BY <1>1, <1>2, <1>3 DEF IdExStep

\* Every clock edge keeps the machines in step.
LEMMA TickInStep ==
    ASSUME IInv, NEW ls \in BOOLEAN, Tick(ls)
    PROVE  IInv'
  <1>1. /\ mulvalid \in BOOLEAN /\ divvalid \in BOOLEAN /\ ~(mulvalid /\ divvalid)
        /\ ReadyID_ready(ls) \in BOOLEAN
        /\ mulvalid \/ divvalid => ls
    BY DEF IInv, Kinds, Tick, mulvalid, divvalid, ReadyID_ready, alubusy, Ops
  <1>2. /\ mstate = "Idle" => mstate' = (IF mulvalid THEN "Busy" ELSE "Idle")
        /\ mstate = "Busy" => mstate' \in {"Busy", "Valid"}
        /\ mstate = "Valid" => mstate' = (IF mulvalid THEN "Idle" ELSE "Valid")
        /\ mstate' = "Idle" => Prod' = 0
    BY <1>1, MulArcs DEF IInv, UnitsInStep, Tick
  <1>3. /\ dstate = "Idle" => dstate' = (IF divvalid THEN "Busy" ELSE "Idle")
        /\ dstate = "Busy" => dstate' \in {"Busy", "Valid"}
        /\ dstate = "Valid" => dstate' = (IF divvalid THEN "Idle" ELSE "Valid")
    BY <1>1, DivArcs DEF IInv, Tick
  <1>4. /\ idex' \in [valid : BOOLEAN, op : Ops, src1 : Operands, src2 : Operands]
        /\ ~ReadyID_ready(ls) => idex' = idex
    BY <1>1, IdExKeeps DEF IInv, Tick
  <1>5. Kinds'
    BY <1>2, <1>3, <1>4 DEF IInv, Kinds
  <1>6. CASE ~(mulvalid \/ divvalid)
    <2>1. state' = state /\ state = "swait" /\ mstate = "Idle" /\ dstate = "Idle"
      BY <1>6 DEF IInv, UnitsInStep, Tick, ControlStep
    <2>2. mstate' = "Idle" /\ dstate' = "Idle" /\ state' = "swait"
      BY <1>1, <1>2, <1>3, <1>6, <2>1
    <2> QED
      BY <1>2, <1>5, <2>2 DEF IInv, UnitsInStep
  <1>7. CASE (mulvalid \/ divvalid) /\ state = "swait"
    <2>1. mstate = "Idle" /\ dstate = "Idle" /\ alubusy /\ state' = "sdoing"
      BY <1>7 DEF IInv, UnitsInStep, Tick, ControlStep, next, unitready, Mul!MulReady,
         Div!DivReady, alubusy
    <2>2. idex' = idex
      BY <1>4, <2>1 DEF ReadyID_ready
    <2> QED
      BY <1>1, <1>2, <1>3, <1>5, <1>7, <2>1, <2>2 DEF IInv, UnitsInStep, mulvalid, divvalid
  <1>8. CASE (mulvalid \/ divvalid) /\ state = "sdoing" /\ ~outvalid
    <2>1. alubusy /\ state' = "sdoing"
      BY <1>8 DEF Tick, ControlStep, next, alubusy
    <2>2. idex' = idex
      BY <1>4, <2>1 DEF ReadyID_ready
    <2> QED
      BY <1>1, <1>2, <1>3, <1>5, <1>8, <2>1, <2>2
      DEF IInv, UnitsInStep, mulvalid, divvalid, outvalid, Mul!OutValid, Div!OutValid
  <1>9. CASE (mulvalid \/ divvalid) /\ state = "sdoing" /\ outvalid
    <2>1. state' = "swait"
      BY <1>1, <1>9 DEF Tick, ControlStep, next
    <2>2. mstate' = "Idle" /\ dstate' = "Idle"
      BY <1>1, <1>2, <1>3, <1>9
      DEF IInv, UnitsInStep, outvalid, Mul!OutValid, Div!OutValid
    <2> QED
      BY <1>2, <1>5, <2>1, <2>2 DEF IInv, UnitsInStep
  <1> QED
    BY <1>6, <1>7, <1>8, <1>9 DEF IInv, UnitsInStep

\* For every width and every set of operands: the machine in EX and the two
\* units work on the same operation from its first cycle to its last, and the
\* states in which EX would wait for a unit or for LS are never entered.
THEOREM StaysInStep == Spec => []UnitsInStep
  <1>1. Init => IInv
    BY OperandsAssumption
    DEF Init, IInv, Kinds, UnitsInStep, Bubble, Ops, Mul!Init, Div!Init
  <1>2. IInv /\ [Next]_vars => IInv'
    <2>1. ASSUME IInv, Next PROVE IInv'
      BY <2>1, TickInStep DEF Next
    <2>2. ASSUME IInv, UNCHANGED vars PROVE IInv'
      BY <2>2 DEF vars, mulVars, divVars, IInv, Kinds, UnitsInStep, mulvalid, divvalid
    <2> QED
      BY <2>1, <2>2
  <1>3. IInv => UnitsInStep
    BY DEF IInv
  <1> QED
    BY <1>1, <1>2, <1>3, PTL DEF Spec

-----------------------------------------------------------------------------
(* Powers of two.  No prover knows them; that 2^n is the number of subsets  *)
(* of a set of n elements is the way to what is needed.                     *)

\* 2^n is the number of sets of numbers from 1 to n.
LEMMA PowerIsCard ==
    ASSUME NEW n \in Nat
    PROVE  /\ IsFiniteSet(SUBSET (1 .. n))
           /\ Cardinality(SUBSET (1 .. n)) = 2^n
           /\ 2^n \in Nat
  <1>1. IsFiniteSet(1 .. n) /\ Cardinality(1 .. n) = n
    BY FS_Interval
  <1>2. IsFiniteSet(SUBSET (1 .. n)) /\ Cardinality(SUBSET (1 .. n)) = 2^Cardinality(1 .. n)
    BY <1>1, FS_SUBSET
  <1>3. Cardinality(SUBSET (1 .. n)) \in Nat
    BY <1>2, FS_CardinalityType
  <1> QED
    BY <1>1, <1>2, <1>3

\* Such a set either has its last element or it has not.
LEMMA PowerStep ==
    ASSUME NEW n \in Nat
    PROVE  2^(n + 1) = 2 * 2^n
  <1> DEFINE A == SUBSET (1 .. n)
             B == {T \cup {n + 1} : T \in A}
             f == [T \in A |-> T \cup {n + 1}]
  <1>1. IsFiniteSet(A) /\ Cardinality(A) = 2^n
    BY PowerIsCard
  <1>2. f \in Bijection(A, B)
    <2>1. \A T \in A : T \subseteq 1 .. n /\ n + 1 \notin T
      OBVIOUS
    <2>2. \A T, U \in A : T \cup {n + 1} = U \cup {n + 1} => T = U
      BY <2>1
    <2>3. f \in [A -> B] /\ (\A T \in A : f[T] = T \cup {n + 1})
      BY Zenon
    <2>4. \A U \in B : \E T \in A : f[T] = U
      BY <2>3, Zenon
    <2>5. \A T, U \in A : f[T] = f[U] => T = U
      BY <2>2, <2>3, Zenon
    <2> HIDE DEF A, B, f
    <2> QED
      BY <2>3, <2>4, <2>5, Zenon DEF Bijection, Injection, IsInjective, Surjection
  <1>3. IsFiniteSet(B) /\ Cardinality(B) = 2^n
    BY <1>1, <1>2, FS_Bijection DEF ExistsBijection
  <1>4. A \cap B = {}
    <2>1. ASSUME NEW T \in A, NEW U \in A, T = U \cup {n + 1} PROVE FALSE
      <3>1. n + 1 \in T
        BY <2>1
      <3> QED
        BY <3>1
    <2> QED
      BY <2>1
  <1>5. SUBSET (1 .. n + 1) = A \cup B
    <2>1. ASSUME NEW T \in SUBSET (1 .. n + 1) PROVE T \in A \cup B
      <3>1. CASE n + 1 \in T
        <4>1. T \ {n + 1} \in A
          OBVIOUS
        <4>2. T = (T \ {n + 1}) \cup {n + 1}
          BY <3>1
        <4> QED
          BY <4>1, <4>2, Zenon
      <3>2. CASE n + 1 \notin T
        BY <3>2
      <3> QED
        BY <3>1, <3>2
    <2>2. ASSUME NEW T \in A \cup B PROVE T \in SUBSET (1 .. n + 1)
      OBVIOUS
    <2> QED
      BY <2>1, <2>2
  <1>6. Cardinality(A \cap B) = 0
    BY <1>4, FS_EmptySet
  <1>7. Cardinality(A \cup B) = Cardinality(A) + Cardinality(B) - Cardinality(A \cap B)
    <2> HIDE DEF A, B
    <2> QED
      BY <1>1, <1>3, FS_Union, Zenon
  <1>8. Cardinality(SUBSET (1 .. n + 1)) = 2^(n + 1) /\ 2^n \in Nat
    <2>1. n + 1 \in Nat
      OBVIOUS
    <2> QED
      BY <2>1, PowerIsCard, Zenon
  <1>9. Cardinality(A \cup B) = 2^(n + 1)
    BY <1>5, <1>8, Zenon
  <1> HIDE DEF A, B
  <1> QED
    BY <1>1, <1>3, <1>6, <1>7, <1>8, <1>9

\* Every nonempty set of numbers has a least one.
LEMMA LeastNumber ==
    ASSUME NEW S \in SUBSET Nat, S # {}
    PROVE  \E m \in S : \A k \in S : m <= k
  <1> DEFINE R == {ss \in Nat \X Nat : ss[1] < ss[2]}
  <1>1. IsWellFoundedOn(R, Nat)
    BY NatLessThanWellFounded, Zenon DEF OpToRel
  <1>2. PICK m \in S : \A k \in S : ~(<<k, m>> \in R)
    <2> HIDE DEF R
    <2> QED
      BY <1>1, WFMin, Zenon
  <1>3. ASSUME NEW k \in S PROVE m <= k
    <2>1. k < m => <<k, m>> \in R
      <3> DEFINE pair == <<k, m>>
      <3>1. pair \in Nat \X Nat /\ pair[1] = k /\ pair[2] = m
        OBVIOUS
      <3> HIDE DEF pair
      <3>2. k < m => pair \in R
        BY <3>1
      <3> QED
        BY <3>2 DEF pair
    <2> QED
      BY <1>2, <2>1
  <1> QED
    BY <1>3

\* What the proofs use of powers of two.
LEMMA Power ==
    /\ 2^0 = 1
    /\ \A n \in Nat : 2^n \in Nat /\ 2^n >= 1 /\ 2^(n + 1) = 2 * 2^n
    /\ \A n \in Nat : n > 0 => 2^n = 2 * 2^(n - 1)
  <1>1. 2^0 = 1
    OBVIOUS
  <1>2. ASSUME NEW n \in Nat PROVE 2^n \in Nat /\ 2^n >= 1 /\ 2^(n + 1) = 2 * 2^n
    <2>1. SUBSET (1 .. n) # {}
      OBVIOUS
    <2>2. Cardinality(SUBSET (1 .. n)) # 0
      BY <2>1, PowerIsCard, FS_EmptySet, Zenon
    <2>3. 2^n \in Nat /\ 2^n # 0
      BY <2>2, PowerIsCard, Zenon
    <2> QED
      BY <2>3, PowerStep
  <1>3. ASSUME NEW n \in Nat, n > 0 PROVE 2^n = 2 * 2^(n - 1)
    <2>1. n - 1 \in Nat /\ (n - 1) + 1 = n
      BY <1>3
    <2>2. 2^((n - 1) + 1) = 2 * 2^(n - 1)
      BY <2>1, <1>2
    <2> QED
      BY <2>1, <2>2
  <1> QED
    BY <1>1, <1>2, <1>3

\* The sum of exponents.
LEMMA PowerSum ==
    ASSUME NEW a \in Nat, NEW b \in Nat
    PROVE  2^(a + b) = 2^a * 2^b
  <1> DEFINE Bad == {n \in Nat : 2^(a + n) # 2^a * 2^n}
  <1>1. SUFFICES Bad = {}
    OBVIOUS
  <1>2. SUFFICES ASSUME Bad # {} PROVE FALSE
    OBVIOUS
  <1>3. PICK m \in Bad : \A k \in Bad : m <= k
    <2>1. Bad \in SUBSET Nat
      OBVIOUS
    <2> HIDE DEF Bad
    <2> QED
      BY <1>2, <2>1, LeastNumber
  <1>4. m \in Nat /\ 2^(a + m) # 2^a * 2^m
    OBVIOUS
  <1>5. m # 0
    <2>1. 2^(a + 0) = 2^a * 2^0
      <3>1. a + 0 = a /\ 2^a \in Nat /\ 2^0 = 1
        BY Power
      <3>2. 2^(a + 0) = 2^a
        BY <3>1
      <3> QED
        BY <3>1, <3>2
    <2> HIDE DEF Bad
    <2> QED
      BY <1>4, <2>1
  <1>6. m - 1 \in Nat /\ m - 1 \notin Bad
    BY <1>3, <1>4, <1>5
  <1>7. 2^(a + (m - 1)) = 2^a * 2^(m - 1)
    BY <1>6
  <1>8. 2^m = 2 * 2^(m - 1) /\ 2^(m - 1) \in Nat /\ 2^a \in Nat
    BY <1>4, <1>5, <1>6, Power
  <1>9. 2^(a + m) = 2 * 2^(a + (m - 1))
    <2>1. a + m \in Nat /\ a + m > 0 /\ (a + m) - 1 = a + (m - 1)
      BY <1>4, <1>5
    <2> QED
      BY <2>1, Power
  <1>10. 2^(a + m) = 2^a * 2^m
    BY <1>7, <1>8, <1>9
  <1> QED
    BY <1>4, <1>10

-----------------------------------------------------------------------------
(* Quotients and remainders.                                               *)

\* Quotient and remainder make the number.
LEMMA DivMod ==
    ASSUME NEW n \in Int, NEW d \in Nat \ {0}
    PROVE  /\ n \div d \in Int
           /\ n % d \in 0 .. d - 1
           /\ n = d * (n \div d) + (n % d)
  <1>1. n \div d \in Int
    OBVIOUS
  <1>2. n % d \in 0 .. d - 1
    OBVIOUS
  <1>3. n = d * (n \div d) + (n % d)
    OBVIOUS
  <1> QED
    BY <1>1, <1>2, <1>3

\* They are the only numbers that do.
LEMMA DivModIs ==
    ASSUME NEW n \in Int, NEW d \in Nat \ {0}, NEW q \in Int, NEW r \in 0 .. d - 1, n = d * q + r
    PROVE  n \div d = q /\ n % d = r
  <1>1. n \div d \in Int /\ n % d \in 0 .. d - 1 /\ n = d * (n \div d) + (n % d)
    BY DivMod
  <1>2. ASSUME NEW p \in Int, NEW s \in 0 .. d - 1, d * p + s = d * q + r PROVE p = q
    <2>1. CASE p < q
      <3>1. d * (p + 1) <= d * q
        BY <2>1
      <3> QED
        BY <1>2, <3>1
    <2>2. CASE q < p
      <3>1. d * (q + 1) <= d * p
        BY <2>2
      <3> QED
        BY <1>2, <3>1
    <2> QED
      BY <2>1, <2>2
  <1>3. n \div d = q
    BY <1>1, <1>2
  <1> QED
    BY <1>1, <1>3

\* Numbers that differ by a multiple of d have the same remainder.
LEMMA SameRemainder ==
    ASSUME NEW m \in Int, NEW n \in Int, NEW d \in Nat \ {0}, (m - n) % d = 0
    PROVE  m % d = n % d
  <1> DEFINE k == m - n
             t == k \div d
             u == n \div d
             r == n % d
  <1>1. k \in Int
    OBVIOUS
  <1>2. t \in Int /\ k = d * t
    <2> HIDE DEF k
    <2>1. t \in Int /\ k = d * t + (k % d)
      BY <1>1, DivMod
    <2> QED
      BY <2>1, <1>1 DEF k
  <1>3. u \in Int /\ r \in 0 .. d - 1 /\ n = d * u + r
    BY DivMod
  <1> HIDE DEF t, u, r
  <1>4. m = d * (t + u) + r /\ t + u \in Int
    BY <1>2, <1>3
  <1>5. m % d = r
    BY <1>3, <1>4, DivModIs
  <1> QED
    BY <1>5 DEF r

\* A number of two digits is less than the product of their bases.
LEMMA Below ==
    ASSUME NEW A \in Nat \ {0}, NEW B \in Nat \ {0}, NEW l \in 0 .. A - 1, NEW n \in 0 .. B - 1
    PROVE  l * B + n \in 0 .. A * B - 1
  <1>1. l * B <= (A - 1) * B
    OBVIOUS
  <1>2. l * B >= 0 /\ l * B \in Int
    OBVIOUS
  <1> QED
    BY <1>1, <1>2

-----------------------------------------------------------------------------
(* The divider.                                                            *)

\* One subtraction and shift of the divider (Diver.v) adds a bit to the
\* quotient; the last one completes it.
LEMMA DivIterate ==
    ASSUME NEW c \in 0 .. W - 1, NEW x \in 0 .. 2^W - 1, NEW y \in 1 .. 2^W - 1,
           NEW R, PartialQuotient(x, y, c, R)
    PROVE  LET d == IF R \div 2^W >= y THEN R - y * 2^W + 1 ELSE R
           IN  /\ c = 0 => d % 2^W = x \div y
               /\ c > 0 => PartialQuotient(x, y, c - 1, (2 * d) % 2^(2 * W))
  <1>0. PICK q \in 0 .. 2^(W - 1 - c) - 1, r \in 0 .. 2 * y - 1, l \in 0 .. 2^c - 1 :
            /\ x = (2 * q * y + r) * 2^c + l
            /\ R = r * 2^W + l * 2^(W - c) + 2 * q
    BY DEF PartialQuotient
  <1> DEFINE d == IF R \div 2^W >= y THEN R - y * 2^W + 1 ELSE R
             A == 2^c
             B == 2^(W - c)
             P == 2^W
             b == IF r >= y THEN 1 ELSE 0
             r1 == r - b * y
             q1 == 2 * q + b
  <1>1. /\ c \in Nat /\ W \in Nat /\ W - c \in Nat /\ W - c > 0 /\ W - 1 - c \in Nat
        /\ W = c + (W - c) /\ (W - c) - 1 = W - 1 - c
    BY WAssumption
  <1>2. A \in Nat /\ A >= 1 /\ B \in Nat /\ B >= 1 /\ P \in Nat /\ P >= 1
    BY <1>1, Power
  <1>3. P = A * B
    BY <1>1, PowerSum
  <1>4. B = 2 * 2^(W - 1 - c) /\ 2^(W - 1 - c) \in Nat
    BY <1>1, Power
  <1>5. /\ x \in Nat /\ x < P /\ y \in Nat /\ y >= 1 /\ q \in Nat /\ 2 * q <= B - 2
        /\ r \in Nat /\ r < 2 * y /\ l \in 0 .. A - 1
        /\ x = (2 * q * y + r) * A + l
        /\ R = r * P + l * B + 2 * q
        /\ d = IF R \div P >= y THEN R - y * P + 1 ELSE R
    BY <1>0, <1>2, <1>4
  <1>6. P * P = 2^(2 * W)
    <2>1. 2 * W = W + W
      BY <1>1
    <2> QED
      BY <1>1, <2>1, PowerSum
  <1>7. /\ c = 0 => A = 1 /\ B = P
        /\ c > 0 => /\ 2^(c - 1) \in Nat /\ 2^(c - 1) >= 1 /\ A = 2 * 2^(c - 1)
                    /\ 2^(W - (c - 1)) = 2 * B
                    /\ 2^(W - 1 - (c - 1)) = B
    <2>1. c = 0 => A = 1 /\ B = P
      BY <1>1, Power
    <2>2. ASSUME c > 0 PROVE /\ 2^(c - 1) \in Nat /\ 2^(c - 1) >= 1 /\ A = 2 * 2^(c - 1)
                             /\ 2^(W - (c - 1)) = 2 * B
                             /\ 2^(W - 1 - (c - 1)) = B
      <3>1. c - 1 \in Nat /\ W - (c - 1) = (W - c) + 1 /\ W - 1 - (c - 1) = W - c
        BY <1>1, <2>2
      <3> QED
        BY <1>1, <2>2, <3>1, Power
    <2> QED
      BY <2>1, <2>2
  <1> HIDE DEF A, B, P, d
  <1>8. l * B + 2 * q \in 0 .. P - 1
    <2>1. 2 * q \in 0 .. B - 1 /\ A \in Nat \ {0} /\ B \in Nat \ {0} /\ l \in 0 .. A - 1
      BY <1>2, <1>5
    <2> DEFINE n == 2 * q
    <2> HIDE DEF n
    <2>2. l * B + n \in 0 .. A * B - 1
      BY <2>1, Below DEF n
    <2> QED
      BY <1>3, <2>2 DEF n
  <1>9. R \div P = r
    <2> DEFINE low == l * B + 2 * q
    <2>1. R = P * r + low /\ R \in Int /\ P \in Nat \ {0} /\ r \in Int /\ low \in 0 .. P - 1
      BY <1>2, <1>5, <1>8
    <2> HIDE DEF low
    <2> QED
      BY <2>1, DivModIs
  <1>10. /\ r1 \in 0 .. y - 1 /\ q1 \in 0 .. B - 1 /\ b \in {0, 1}
         /\ d = r1 * P + l * B + q1
    BY <1>2, <1>5, <1>9
  <1>11. x = (q1 * y + r1) * A + l
    BY <1>2, <1>5
  <1> HIDE DEF b, r1, q1
  <1>12. CASE c = 0
    <2>1. l = 0 /\ A = 1 /\ B = P
      BY <1>5, <1>7, <1>12
    <2>2. x = y * q1 + r1 /\ d = P * r1 + q1 /\ d \in Int
      BY <1>2, <1>5, <1>10, <1>11, <2>1
    <2>3. x \div y = q1
      <3>1. x \in Int /\ y \in Nat \ {0} /\ q1 \in Int /\ r1 \in 0 .. y - 1
        BY <1>5, <1>10, <1>2
      <3> QED
        BY <2>2, <3>1, DivModIs
    <2>4. d % P = q1
      <3>1. P \in Nat \ {0} /\ r1 \in Int /\ q1 \in 0 .. P - 1
        BY <1>2, <1>5, <1>10, <2>1
      <3> QED
        BY <2>2, <3>1, DivModIs
    <2> QED
      BY <1>12, <2>3, <2>4 DEF P, d
  <1>13. CASE c > 0
    <2> DEFINE A1 == 2^(c - 1)
               lb == IF l >= A1 THEN 1 ELSE 0
               l1 == l - lb * A1
               r2 == 2 * r1 + lb
    <2>1. A1 \in Nat /\ A1 >= 1 /\ A = 2 * A1 /\ 2^(W - (c - 1)) = 2 * B
          /\ 2^(W - 1 - (c - 1)) = B
      BY <1>7, <1>13
    <2> HIDE DEF A1
    <2>2. l1 \in 0 .. A1 - 1 /\ r2 \in 0 .. 2 * y - 1 /\ l = lb * A1 + l1 /\ lb \in {0, 1}
      BY <1>5, <1>10, <2>1
    <2>3. x = (2 * q1 * y + r2) * A1 + l1
      BY <1>5, <1>10, <1>11, <2>1, <2>2
    <2>4. P = A1 * (2 * B)
      BY <1>2, <1>3, <2>1
    <2> HIDE DEF lb, l1
    <2>5. 2 * d = r2 * P + l1 * (2 * B) + 2 * q1
      BY <1>2, <1>5, <1>10, <2>1, <2>2, <2>4
    <2> HIDE DEF r2
    <2>6. l1 * (2 * B) + 2 * q1 \in 0 .. P - 1
      <3>1. 2 * B \in Nat \ {0} /\ 2 * q1 \in 0 .. 2 * B - 1 /\ A1 \in Nat \ {0}
        BY <1>2, <1>10, <2>1
      <3>2. l1 \in 0 .. A1 - 1
        BY <2>2
      <3>3. l1 * (2 * B) + 2 * q1 \in 0 .. A1 * (2 * B) - 1
        BY <3>1, <3>2, Below
      <3> QED
        BY <2>4, <3>3
    <2>7. r2 <= P - 1
      <3> DEFINE z == (2 * q1 * y + r2) * A1
      <3>1. z >= r2 /\ z \in Int
        <4>1. 2 * q1 * y \in Nat
          BY <1>5, <1>10
        <4>2. 2 * q1 * y + r2 \in Nat /\ 2 * q1 * y + r2 >= r2 /\ r2 \in Nat
          BY <2>2, <4>1
        <4>3. \A s \in Nat : s * A1 >= s
          BY <2>1
        <4>4. (2 * q1 * y + r2) * A1 >= 2 * q1 * y + r2
          BY <4>2, <4>3
        <4> QED
          BY <4>2, <4>4, <2>1
      <3> QED
        <4>1. x = z + l1 /\ l1 >= 0 /\ l1 \in Int
          BY <2>2, <2>3, <2>1
        <4> HIDE DEF z
        <4>2. r2 \in Int
          BY <2>2, <1>5
        <4> QED
          BY <1>2, <1>5, <3>1, <4>1, <4>2
    <2>8. 2 * d \in 0 .. P * P - 1
      <3>1. r2 \in 0 .. P - 1
        BY <1>2, <2>2, <2>7
      <3>2. r2 * P + (l1 * (2 * B) + 2 * q1) \in 0 .. P * P - 1
        BY <1>2, <2>6, <3>1, Below
      <3> QED
        BY <1>2, <2>5, <3>2, <2>2, <1>10, <2>1
    <2>9. (2 * d) % (P * P) = 2 * d
      <3>1. P * P \in Nat \ {0} /\ 2 * d \in Int /\ 2 * d = (P * P) * 0 + 2 * d
        BY <1>2, <2>8
      <3> DEFINE PP == P * P
                 dd == 2 * d
      <3>2. PP \in Nat \ {0} /\ dd \in 0 .. PP - 1
        BY <2>8, <3>1
      <3> HIDE DEF PP, dd
      <3>3. dd % PP = dd
        BY <3>2
      <3> QED
        BY <3>3 DEF PP, dd
    <2>10. /\ x = (2 * q1 * y + r2) * A1 + l1
           /\ (2 * d) % 2^(2 * W) = r2 * 2^W + l1 * 2^(W - (c - 1)) + 2 * q1
      BY <1>6, <2>1, <2>3, <2>5, <2>9 DEF P
    <2>11. q1 \in 0 .. 2^(W - 1 - (c - 1)) - 1
      BY <1>10, <2>1
    <2>12. PartialQuotient(x, y, c - 1, (2 * d) % 2^(2 * W))
      BY <2>2, <2>10, <2>11 DEF A1, PartialQuotient
    <2> QED
      BY <1>13, <2>12 DEF d
  <1> QED
    BY <1>5, <1>12, <1>13

-----------------------------------------------------------------------------
(* The multiplier.                                                         *)

\* One bit more of a number.
LEMMA BitSplit ==
    ASSUME NEW y \in Nat, NEW i \in Nat
    PROVE  /\ Mul!Bit(y, i) \in {0, 1}
           /\ y % 2^(i + 1) = (y % 2^i) + 2^i * Mul!Bit(y, i)
           /\ y % 2^i \in Nat
  <1> DEFINE E == 2^i
             u == y \div E
             t == u \div 2
             b == u % 2
             e == y % E
  <1>1. E \in Nat \ {0} /\ 2^(i + 1) = 2 * E
    BY Power
  <1>2. b = Mul!Bit(y, i)
    BY DEF Mul!Bit
  <1> HIDE DEF E
  <1>3. u \in Int /\ e \in 0 .. E - 1 /\ y = E * u + e
    BY <1>1, DivMod
  <1> HIDE DEF u, e
  <1>4. t \in Int /\ b \in {0, 1} /\ u = 2 * t + b
    BY <1>3
  <1> HIDE DEF t, b
  <1>5. y = (2 * E) * t + (E * b + e) /\ E * b + e \in 0 .. 2 * E - 1
    BY <1>1, <1>3, <1>4
  <1>6. y % (2 * E) = E * b + e
    <2> DEFINE EE == 2 * E
               g == E * b + e
    <2>1. EE \in Nat \ {0} /\ g \in 0 .. EE - 1 /\ y = EE * t + g
      BY <1>1, <1>5
    <2> HIDE DEF EE, g
    <2>2. y % EE = g
      BY <1>4, <2>1, DivModIs
    <2> QED
      BY <2>2 DEF EE, g
  <1>7. y % 2^(i + 1) = e + E * b
    BY <1>1, <1>3, <1>4, <1>6
  <1>8. y % 2^(i + 1) = e + E * Mul!Bit(y, i) /\ Mul!Bit(y, i) \in {0, 1} /\ e \in Nat
    BY <1>1, <1>2, <1>3, <1>4, <1>7
  <1> QED
    BY <1>8 DEF E, e

\* Adding a multiple of the multiplicand and shifting by two: the carries that
\* are lost beyond 2 * W bits, and the zeros shifted in for them, only concern
\* multiples of Q.
LEMMA ShiftStep ==
    ASSUME NEW x \in Int, NEW D \in Int, NEW E \in Nat \ {0}, NEW dg \in Int, NEW Pr \in Int,
           NEW G \in Nat, NEW Q \in Nat \ {0},
           (Pr - x * (4 * G) * D) % (4 * Q) = 0
    PROVE  LET N == ((Pr + x * (4 * G * E) * dg) % (4 * Q * E)) \div 4
           IN  N \in Int /\ (N - x * G * (D + E * dg)) % Q = 0
  <1> DEFINE T == Pr + x * (4 * G * E) * dg
             N == (T % (4 * Q * E)) \div 4
             a == Pr - x * (4 * G) * D
             m == a \div (4 * Q)
             Z == 4 * Q * E
             t == T \div Z
             v == x * G * (D + E * dg)
  <1>1. 4 * Q \in Nat \ {0} /\ a \in Int
    OBVIOUS
  <1>2. m \in Int /\ a = (4 * Q) * m
    <2>1. a = (4 * Q) * m + (a % (4 * Q)) /\ m \in Int
      <3> HIDE DEF a
      <3> QED
        BY <1>1, DivMod
    <2> QED
      BY <2>1, <1>1
  <1>3. Z \in Nat \ {0} /\ T \in Int
    <2>1. Q * E \in Nat \ {0}
      OBVIOUS
    <2> QED
      BY <2>1
  <1>4. t \in Int /\ T = Z * t + (T % Z)
    <2> HIDE DEF Z
    <2> QED
      BY <1>3, DivMod
  <1> HIDE DEF m, t
  <1>5. T = 4 * (v + Q * m)
    BY <1>2
  <1>6. T % Z = 4 * (v + Q * m - Q * E * t)
    <2>1. T % Z = T - Z * t
      <3> HIDE DEF Z
      <3>1. T % Z \in Int
        BY <1>3
      <3> QED
        BY <1>3, <1>4, <3>1
    <2>2. Z * t = 4 * (Q * E * t)
      BY <1>4
    <2> DEFINE f == Q * E * t
               g == Q * m
    <2>3. f \in Int /\ g \in Int /\ v \in Int
      BY <1>2, <1>4
    <2> HIDE DEF f, g, v, Z
    <2>4. T - Z * t = 4 * (v + g - f)
      BY <1>5, <2>2, <2>3 DEF f, g
    <2> QED
      BY <2>1, <2>4 DEF f, g
  <1>7. N = v + Q * (m - E * t)
    <2> DEFINE f == v + Q * m - Q * E * t
    <2>1. f \in Int /\ f = v + Q * (m - E * t)
      BY <1>2, <1>4
    <2>2. N = (4 * f) \div 4
      BY <1>6
    <2> HIDE DEF f
    <2>3. N = f
      BY <2>1, <2>2
    <2> QED
      BY <2>1, <2>3
  <1>8. m - E * t \in Int /\ v \in Int
    BY <1>2, <1>4
  <1> DEFINE k == m - E * t
  <1> HIDE DEF k, v
  <1>9. N - v = Q * k + 0 /\ N \in Int /\ k \in Int
    BY <1>7, <1>8 DEF k
  <1>10. (N - v) % Q = 0
    <2> DEFINE n == N - v
    <2>1. n \in Int /\ n = Q * k + 0 /\ 0 \in 0 .. Q - 1
      BY <1>8, <1>9
    <2> HIDE DEF n
    <2>2. n % Q = 0
      BY <1>9, <2>1, DivModIs
    <2> QED
      BY <2>2 DEF n
  <1> QED
    BY <1>9, <1>10 DEF v

\* The table of PartProductGen, as a formula in the three bits.
LEMMA Digit ==
    ASSUME NEW y \in Nat, ind \in Nat, Sum \in Int
    PROVE  LET b2 == Mul!Bit(y, ind + 1)
               b1 == Mul!Bit(y, ind)
               b0 == IF ind = 0 THEN 0 ELSE Mul!Bit(y, ind - 1)
           IN  /\ Mul!add(y, FALSE) = Sum * (b1 + b0 - 2 * b2)
               /\ Mul!add(y, TRUE) = Sum * (b1 + b0 + 2 * b2)
  <1> DEFINE b2 == Mul!Bit(y, ind + 1)
             b1 == Mul!Bit(y, ind)
             b0 == IF ind = 0 THEN 0 ELSE Mul!Bit(y, ind - 1)
             c == 4 * b2 + 2 * b1 + b0
  <1>1. ind + 1 \in Nat /\ (ind # 0 => ind - 1 \in Nat)
    OBVIOUS
  <1>2. b2 \in {0, 1} /\ b1 \in {0, 1} /\ b0 \in {0, 1}
    BY <1>1, BitSplit
  <1>3. Mul!chooseSignal(y) = c
    BY DEF Mul!chooseSignal
  <1> HIDE DEF b2, b1, b0
  <1>4. /\ <<0, 1, 1, 2, 2, 3, 3, 4>>[c + 1] = b1 + b0 + 2 * b2
        /\ <<0, 1, 1, 2, -2, -1, -1, 0>>[c + 1] = b1 + b0 - 2 * b2
    <2>1. CASE b2 = 0
      BY <1>2, <2>1
    <2>2. CASE b2 = 1
      BY <1>2, <2>2
    <2> QED
      BY <1>2, <2>1, <2>2
  <1> HIDE DEF c
  <1>5. /\ Mul!add(y, FALSE) = Sum * (b1 + b0 - 2 * b2)
        /\ Mul!add(y, TRUE) = Sum * (b1 + b0 + 2 * b2)
    BY <1>3, <1>4 DEF Mul!add
  <1> QED
    BY <1>5 DEF b2, b1, b0

\* Two bits more: with the Booth digit the upper one is negative, with the last
\* digit it is not.
LEMMA RecodedStep ==
    ASSUME NEW y \in Nat, NEW i \in Nat
    PROVE  LET b2 == Mul!Bit(y, i + 1)
               b1 == Mul!Bit(y, i)
               b0 == IF i = 0 THEN 0 ELSE Mul!Bit(y, i - 1)
           IN  /\ Recoded(y, i) \in Int
               /\ Recoded(y, i + 2) = Recoded(y, i) + 2^i * (b1 + b0 - 2 * b2)
               /\ y % 2^(i + 2) = Recoded(y, i) + 2^i * (b1 + b0 + 2 * b2)
               /\ b1 + b0 - 2 * b2 \in Int /\ b1 + b0 + 2 * b2 \in Int
  <1> DEFINE b2 == Mul!Bit(y, i + 1)
             b1 == Mul!Bit(y, i)
             b0 == IF i = 0 THEN 0 ELSE Mul!Bit(y, i - 1)
             E == 2^i
             e == y % E
  <1>1. i + 1 \in Nat /\ (i + 1) + 1 = i + 2 /\ i + 2 # 0 /\ (i + 2) - 1 = i + 1 /\ (i # 0 => i - 1 \in Nat)
    OBVIOUS
  <1>2. b2 \in {0, 1} /\ b1 \in {0, 1} /\ b0 \in {0, 1} /\ e \in Nat
    BY <1>1, BitSplit
  <1>3. E \in Nat /\ 2^(i + 1) = 2 * E /\ 2^(i + 2) = 4 * E
    <2>1. 2^(i + 1) = 2 * E /\ E \in Nat
      BY Power
    <2>2. 2^((i + 1) + 1) = 2 * 2^(i + 1)
      BY <1>1, Power
    <2> QED
      BY <1>1, <2>1, <2>2
  <1>4. y % 2^(i + 1) = e + E * b1
    BY BitSplit
  <1>5. y % 2^(i + 2) = (y % 2^(i + 1)) + 2^(i + 1) * b2
    <2>1. y % 2^((i + 1) + 1) = (y % 2^(i + 1)) + 2^(i + 1) * Mul!Bit(y, i + 1)
      BY <1>1, BitSplit
    <2> QED
      BY <1>1, <2>1
  <1>6. Recoded(y, i) = e - (IF i = 0 THEN 0 ELSE E * b0)
    BY DEF Recoded
  <1>7. Recoded(y, i + 2) = (y % 2^(i + 2)) - 2^(i + 2) * b2
    BY <1>1 DEF Recoded
  <1>8. i = 0 => b0 = 0
    OBVIOUS
  <1> HIDE DEF b2, b1, b0, E, e
  <1>9. Recoded(y, i) = e - E * b0
    BY <1>2, <1>3, <1>6, <1>8
  <1>10. y % 2^(i + 2) = e + E * b1 + 2 * E * b2
    BY <1>2, <1>3, <1>4, <1>5
  <1>11. /\ Recoded(y, i) \in Int
         /\ Recoded(y, i + 2) = Recoded(y, i) + E * (b1 + b0 - 2 * b2)
         /\ y % 2^(i + 2) = Recoded(y, i) + E * (b1 + b0 + 2 * b2)
         /\ b1 + b0 - 2 * b2 \in Int /\ b1 + b0 + 2 * b2 \in Int
    BY <1>2, <1>3, <1>7, <1>9, <1>10
  <1> QED
    BY <1>11 DEF b2, b1, b0, E

\* One cycle of the multiplier (Multi.v) adds a digit to the partial product;
\* the last one completes it.
LEMMA MulIterate ==
    ASSUME NEW w \in BOOLEAN, NEW h, h = IF w THEN W \div 2 ELSE W,
           NEW x \in Nat, NEW y \in Nat, Prod \in Int,
           Sum = x * 2^h, ind \in 0 .. h - 2, ind % 2 = 0,
           (Prod - x * 2^(h - ind) * Recoded(y, ind)) % 2^(2 * W - ind) = 0
    PROVE  LET N == Mul!PartProdOut(w, y)
           IN  /\ N \in Int
               /\ ind = Mul!maxind(w) => (N - x * (y % 2^h)) % 2^(2 * W - h) = 0
               /\ ind # Mul!maxind(w) =>
                     /\ (ind + 2) % W = ind + 2 /\ ind + 2 \in 0 .. h - 2 /\ (ind + 2) % 2 = 0
                     /\ (N - x * 2^(h - (ind + 2)) * Recoded(y, ind + 2)) % 2^(2 * W - (ind + 2)) = 0
  <1> DEFINE last == ind = Mul!maxind(w)
             b2 == Mul!Bit(y, ind + 1)
             b1 == Mul!Bit(y, ind)
             b0 == IF ind = 0 THEN 0 ELSE Mul!Bit(y, ind - 1)
             dg == IF last THEN b1 + b0 + 2 * b2 ELSE b1 + b0 - 2 * b2
             E == 2^ind
             G == 2^(h - (ind + 2))
             Q == 2^(2 * W - (ind + 2))
             D == Recoded(y, ind)
             T == Prod + x * (4 * G * E) * dg
             N == Mul!PartProdOut(w, y)
  <1>1. /\ h \in Nat /\ h <= W /\ h % 2 = 0 /\ W \in Nat /\ Mul!maxind(w) = h - 2 /\ h >= 2
        /\ ind \in Nat /\ ind + 2 <= h
    BY WAssumption DEF Mul!maxind
  <1>2. /\ h - (ind + 2) \in Nat /\ 2 * W - (ind + 2) \in Nat
        /\ h - ind = ((h - (ind + 2)) + 1) + 1
        /\ 2 * W - ind = ((2 * W - (ind + 2)) + 1) + 1
        /\ h = (h - ind) + ind /\ h - ind \in Nat
        /\ 2 * W = (2 * W - ind) + ind /\ 2 * W - ind \in Nat
    BY <1>1
  <1>3. \A n \in Nat : 2^((n + 1) + 1) = 4 * 2^n
    <2> TAKE n \in Nat
    <2>1. n + 1 \in Nat /\ 2^(n + 1) = 2 * 2^n /\ 2^n \in Nat
      BY Power
    <2>2. 2^((n + 1) + 1) = 2 * 2^(n + 1)
      BY <2>1, Power
    <2> QED
      BY <2>1, <2>2
  <1>4. /\ E \in Nat \ {0} /\ G \in Nat /\ Q \in Nat \ {0}
        /\ 2^(h - ind) = 4 * G /\ 2^(2 * W - ind) = 4 * Q
    BY <1>1, <1>2, <1>3, Power
  <1>5. 2^h = 2^(h - ind) * E /\ 2^(2 * W) = 2^(2 * W - ind) * E
    <2>1. 2^((h - ind) + ind) = 2^(h - ind) * 2^ind
      BY <1>1, <1>2, PowerSum, Zenon
    <2>2. 2^((2 * W - ind) + ind) = 2^(2 * W - ind) * 2^ind
      BY <1>1, <1>2, PowerSum, Zenon
    <2> QED
      BY <1>2, <2>1, <2>2, Zenon
  <1>6. 2^h = 4 * G * E /\ 2^(2 * W) = 4 * Q * E
    BY <1>4, <1>5
  <1>7. /\ D \in Int
        /\ Recoded(y, ind + 2) = D + E * (b1 + b0 - 2 * b2)
        /\ y % 2^(ind + 2) = D + E * (b1 + b0 + 2 * b2)
        /\ b1 + b0 - 2 * b2 \in Int /\ b1 + b0 + 2 * b2 \in Int
    BY <1>1, RecodedStep
  <1>8. dg \in Int /\ last \in BOOLEAN
    BY <1>7
  <1>9. Mul!add(y, last) = Sum * dg
    <2>1. 2^h \in Nat /\ Sum \in Int
      BY <1>1, Power
    <2>2. /\ Mul!add(y, FALSE) = Sum * (b1 + b0 - 2 * b2)
          /\ Mul!add(y, TRUE) = Sum * (b1 + b0 + 2 * b2)
      BY <1>1, <2>1, Digit
    <2>3. CASE last
      <3>1. Mul!add(y, last) = Mul!add(y, TRUE) /\ dg = b1 + b0 + 2 * b2
        BY <2>3 DEF Mul!add
      <3> QED
        BY <2>2, <3>1
    <2>4. CASE ~last
      <3>1. Mul!add(y, last) = Mul!add(y, FALSE) /\ dg = b1 + b0 - 2 * b2
        BY <2>4 DEF Mul!add
      <3> QED
        BY <2>2, <3>1
    <2> QED
      BY <2>3, <2>4
  <1>10. N = (T % (4 * Q * E)) \div 4
    <2>1. N = ((Prod + Mul!add(y, last)) % 2^(2 * W)) \div 4
      BY DEF Mul!PartProdOut
    <2>2. Prod + Mul!add(y, last) = T
      BY <1>6, <1>9
    <2> QED
      BY <1>6, <2>1, <2>2
  <1>11. (Prod - x * (4 * G) * D) % (4 * Q) = 0
    BY <1>4
  <1>12. N \in Int /\ (N - x * G * (D + E * dg)) % Q = 0
    <2> HIDE DEF dg, E, G, Q, D, N, b0, b1, b2, last
    <2>1. x \in Int
      OBVIOUS
    <2>2. LET n == (T % (4 * Q * E)) \div 4
          IN  n \in Int /\ (n - x * G * (D + E * dg)) % Q = 0
      BY <1>4, <1>7, <1>8, <1>11, <2>1, ShiftStep
    <2> QED
      BY <1>10, <2>2
  <1>13. ASSUME last PROVE (N - x * (y % 2^h)) % 2^(2 * W - h) = 0
    <2>1. ind + 2 = h /\ dg = b1 + b0 + 2 * b2
      <3>1. dg = b1 + b0 + 2 * b2
        BY <1>13
      <3>2. ind + 2 = h
        BY <1>1, <1>13
      <3> QED
        BY <3>1, <3>2
    <2>2. G = 1 /\ Q = 2^(2 * W - h)
      <3>1. h - (ind + 2) = 0
        BY <1>1, <2>1
      <3> QED
        BY <2>1, <3>1, Power, Zenon
    <2>3. y % 2^h = D + E * dg
      BY <1>7, <2>1
    <2>4. x * G * (D + E * dg) = x * (y % 2^h)
      <3> DEFINE z == D + E * dg
      <3>1. z \in Int
        BY <1>4, <1>7, <1>8
      <3> HIDE DEF z, G
      <3>2. x * G * z = x * z
        BY <2>2, <3>1
      <3> QED
        BY <2>3, <3>2 DEF z
    <2> HIDE DEF G, Q, N, D, E, dg
    <2> QED
      BY <1>12, <2>2, <2>4
  <1>14. ASSUME ~last
         PROVE  /\ (ind + 2) % W = ind + 2 /\ ind + 2 \in 0 .. h - 2 /\ (ind + 2) % 2 = 0
                /\ (N - x * G * Recoded(y, ind + 2)) % Q = 0
    <2>1. dg = b1 + b0 - 2 * b2 /\ ind # h - 2
      BY <1>1, <1>14
    <2>2. ind + 2 \in 0 .. h - 2 /\ (ind + 2) % 2 = 0
      BY <1>1, <2>1
    <2>3. (ind + 2) % W = ind + 2
      BY <1>1, <2>2
    <2>4. Recoded(y, ind + 2) = D + E * dg
      BY <1>7, <2>1
    <2> HIDE DEF G, Q, N, D, E, dg
    <2> QED
      BY <1>12, <2>2, <2>3, <2>4
  <1> QED
    BY <1>12, <1>13, <1>14

\* The sign and the magnitude of a word in two's complement.
LEMMA Signs ==
    ASSUME NEW x \in 0 .. 2^W - 1
    PROVE  LET mag == IF Div!sign(x) THEN Div!Neg(x) ELSE x
           IN  /\ Div!sign(x) <=> Signed(x) < 0
               /\ mag = Abs(Signed(x))
               /\ mag \in 0 .. 2^W - 1
               /\ x # 0 => mag # 0
  <1> DEFINE H == 2^(W - 1)
             P == 2^W
  <1>1. H \in Nat /\ H >= 1 /\ P = 2 * H /\ P \in Nat
    BY WAssumption, Power
  <1>2. x \in Nat /\ x < P
    BY <1>1
  <1>3. Signed(x) = IF x < H THEN x ELSE x - P
    BY DEF Signed
  <1>4. Div!sign(x) <=> x \div H = 1
    BY DEF Div!sign
  <1>5. Div!Neg(x) = (P - x) % P
    BY DEF Div!Neg
  <1> HIDE DEF H, P
  <1>6. CASE x < H
    <2>1. x \div H = 0
      BY <1>1, <1>2, <1>6
    <2> QED
      BY <1>1, <1>2, <1>3, <1>4, <1>6, <2>1 DEF Abs, P
  <1>7. CASE x >= H
    <2>1. x \div H = 1
      <3>1. x = H * 1 + (x - H) /\ x - H \in 0 .. H - 1
        BY <1>1, <1>2, <1>7
      <3> QED
        BY <1>1, <1>2, <3>1, DivModIs
    <2>2. (P - x) % P = P - x
      BY <1>1, <1>2, <1>7
    <2>3. Signed(x) = x - P /\ x - P < 0
      BY <1>1, <1>2, <1>3, <1>7
    <2> QED
      BY <1>1, <1>2, <1>4, <1>5, <1>7, <2>1, <2>2, <2>3 DEF Abs, P
  <1> QED
    BY <1>1, <1>2, <1>6, <1>7

\* The quotient of the magnitudes with the sign put back is the quotient
\* rounded towards zero.
LEMMA QuotientRight ==
    ASSUME NEW x \in 0 .. 2^W - 1, NEW y \in 0 .. 2^W - 1, y # 0,
           LET mx == IF Div!sign(x) THEN Div!Neg(x) ELSE x
               my == IF Div!sign(y) THEN Div!Neg(y) ELSE y
           IN  DivRes % 2^W = mx \div my
    PROVE  Div!Quotient(TRUE, x, y) = Truncated(Signed(x), Signed(y)) % 2^W
  <1> DEFINE P == 2^W
             mx == IF Div!sign(x) THEN Div!Neg(x) ELSE x
             my == IF Div!sign(y) THEN Div!Neg(y) ELSE y
             q == mx \div my
  <1>1. P \in Nat /\ P >= 1
    BY WAssumption, Power
  <1>2. /\ Div!sign(x) <=> Signed(x) < 0
        /\ mx = Abs(Signed(x)) /\ mx \in 0 .. P - 1
    BY Signs
  <1>3. /\ Div!sign(y) <=> Signed(y) < 0
        /\ my = Abs(Signed(y)) /\ my \in 0 .. P - 1 /\ my # 0
    BY Signs
  <1>4. DivRes % P = q
    OBVIOUS
  <1> HIDE DEF mx, my
  <1>5. q \in 0 .. P - 1
    <2>1. q \in Int /\ mx % my \in 0 .. my - 1 /\ mx = my * q + (mx % my)
      <3>1. mx \in Int /\ my \in Nat \ {0}
        BY <1>1, <1>2, <1>3
      <3> QED
        BY <3>1, DivMod
    <2> HIDE DEF q, P
    <2>2. q >= 0
      <3>1. q < 0 => my * q <= my * (-1)
        BY <1>1, <1>3, <2>1
      <3> QED
        BY <1>1, <1>2, <1>3, <2>1, <3>1
    <2>3. q <= my * q
      BY <1>1, <1>3, <2>1, <2>2
    <2> QED
      BY <1>1, <1>2, <1>3, <2>1, <2>2, <2>3
  <1>6. Truncated(Signed(x), Signed(y)) = IF Div!sign(x) = Div!sign(y) THEN q ELSE -q
    <2>1. Truncated(Signed(x), Signed(y)) =
             IF (Signed(x) < 0) = (Signed(y) < 0) THEN q ELSE -q
      BY <1>2, <1>3 DEF Truncated
    <2>2. Div!sign(x) \in BOOLEAN /\ Div!sign(y) \in BOOLEAN
      BY DEF Div!sign
    <2>3. (Signed(x) < 0) = Div!sign(x) /\ (Signed(y) < 0) = Div!sign(y)
      BY <1>2, <1>3, <2>2
    <2> QED
      BY <2>1, <2>3
  <1>7. Div!Quotient(TRUE, x, y) = IF Div!sign(x) # Div!sign(y) THEN (P - q) % P ELSE q
    BY <1>4 DEF Div!Quotient, Div!Neg
  <1> HIDE DEF q, P
  <1>8. q % P = q
    BY <1>1, <1>5
  <1>9. (P - q) % P = (-q) % P
    <2>1. CASE q = 0
      <3>1. P % P = 0 /\ 0 % P = 0
        <4>1. P = P * 1 + 0 /\ 0 = P * 0 + 0 /\ 0 \in 0 .. P - 1 /\ P \in Nat \ {0}
          BY <1>1
        <4> QED
          BY <4>1, DivModIs
      <3> QED
        BY <1>1, <2>1, <3>1
    <2>2. CASE q # 0
      <3>1. P - q \in 0 .. P - 1 /\ -q = P * (-1) + (P - q) /\ -q \in Int
        BY <1>1, <1>5, <2>2
      <3>2. (-q) % P = P - q
        <4> DEFINE n == -q
                   m == P - q
        <4>1. n \in Int /\ P \in Nat \ {0} /\ m \in 0 .. P - 1 /\ n = P * (-1) + m /\ -1 \in Int
          BY <1>1, <3>1
        <4> HIDE DEF n, m
        <4>2. n % P = m
          BY <4>1, DivModIs
        <4> QED
          BY <4>2 DEF n, m
      <3>3. (P - q) % P = P - q
        BY <1>1, <3>1
      <3> QED
        BY <3>2, <3>3
    <2> QED
      BY <2>1, <2>2
  <1> QED
    BY <1>6, <1>7, <1>8, <1>9 DEF P

-----------------------------------------------------------------------------
(* The units in EX.                                                        *)

\* What holds of the contents of the units, beside being in step.
Computed == Prod \in Int /\ Multiplied /\ Divided

\* While a unit works ID_EX keeps its operation.
LEMMA Kept ==
    ASSUME IInv, NEW ls \in BOOLEAN, Tick(ls), mstate' # "Idle" \/ dstate' # "Idle"
    PROVE  /\ idex' = idex
           /\ mstate' # "Idle" => mulvalid
           /\ dstate' # "Idle" => divvalid
  <1>1. IInv'
    BY TickInStep
  <1>2. state' = "sdoing"
    BY <1>1 DEF IInv, UnitsInStep, Kinds
  <1>3. alubusy
    <2>1. /\ state \in {"swait", "sdoing"}
          /\ state = "sdoing" => mulvalid \/ divvalid
      BY DEF IInv, UnitsInStep
    <2>2. CASE ~(mulvalid \/ divvalid)
      BY <1>2, <2>1, <2>2 DEF Tick, ControlStep
    <2>3. CASE (mulvalid \/ divvalid) /\ state = "swait"
      BY <2>3 DEF alubusy
    <2>4. CASE (mulvalid \/ divvalid) /\ state = "sdoing"
      BY <1>2, <2>4 DEF Tick, ControlStep, next, alubusy
    <2> QED
      BY <2>1, <2>2, <2>3, <2>4
  <1>4. idex' = idex
    <2>1. ~ReadyID_ready(ls) /\ ReadyID_ready(ls) \in BOOLEAN
      BY <1>3 DEF ReadyID_ready
    <2> QED
      BY <2>1, IdExKeeps DEF IInv, Tick
  <1>5. mulvalid' = mulvalid /\ divvalid' = divvalid
    BY <1>4 DEF mulvalid, divvalid
  <1>6. /\ mulvalid \/ divvalid
        /\ mulvalid => dstate' = "Idle"
        /\ divvalid => mstate' = "Idle"
    BY <1>1, <1>2, <1>5 DEF IInv, UnitsInStep
  <1> QED
    BY <1>4, <1>6

\* Every clock edge keeps the partial product right.
LEMMA MultipliedStep ==
    ASSUME IInv, Computed, NEW ls \in BOOLEAN, Tick(ls)
    PROVE  Prod' \in Int /\ Multiplied'
  <1> DEFINE x == idex.src1
             y == idex.src2
             h == FactorBits
  <1>1. /\ mstate \in {"Idle", "Busy", "Valid"} /\ mulw \in BOOLEAN
        /\ Mul!Step(mulvalid, mulw, msrc1, msrc2)
    BY DEF IInv, Kinds, Tick, mulw
  <1>2. x \in Nat /\ y \in Nat /\ h = (IF mulw THEN W \div 2 ELSE W)
    <2>1. x \in Operands /\ y \in Operands
      BY DEF IInv, Kinds
    <2>2. 2^W \in Nat
      BY WAssumption, Power
    <2>3. x \in 0 .. 2^W - 1 /\ y \in 0 .. 2^W - 1
      BY <2>1, OperandsAssumption, Zenon
    <2>4. h = (IF mulw THEN W \div 2 ELSE W)
      BY Zenon DEF FactorBits
    <2> HIDE DEF x, y, h
    <2> QED
      BY <2>2, <2>3, <2>4
  <1>3. /\ h \in Nat /\ h % 2 = 0 /\ h >= 2 /\ h <= W /\ W \in Nat
    BY <1>1, <1>2, WAssumption
  <1>4. ASSUME mstate' # "Idle"
        PROVE  idex' = idex /\ mulvalid /\ msrc1 = x /\ msrc2 = y
    BY <1>4, Kept DEF msrc1, msrc2
  <1>5. CASE Mul!Rest(mulvalid)
    BY <1>5 DEF Mul!Rest, Multiplied, Computed
  <1>6. CASE Mul!Start(mulvalid, mulw, msrc1)
    <2>1. mstate' = "Busy" /\ Sum' = x * 2^h /\ ind' = 0 /\ Prod' = Prod /\ Prod = 0
          /\ idex' = idex
      BY <1>2, <1>4, <1>6 DEF Mul!Start, IInv, UnitsInStep
    <2>2. Recoded(y, 0) = 0
      <3>1. 2^0 = 1 /\ y % 1 = 0
        BY <1>2, Power
      <3> QED
        BY <3>1 DEF Recoded
    <2>3. (0 - x * 2^(h - 0) * Recoded(y, 0)) % 2^(2 * W - 0) = 0
      <3>1. /\ 2^(h - 0) \in Nat /\ 2^(2 * W - 0) \in Nat \ {0}
        <4>1. h - 0 \in Nat /\ 2 * W - 0 \in Nat
          BY <1>3
        <4> QED
          BY <4>1, Power
      <3> DEFINE g == 2^(h - 0)
                 z == 2^(2 * W - 0)
      <3> HIDE DEF g, z
      <3>2. x * g * 0 = 0 /\ 0 % z = 0 /\ 0 - 0 = 0
        BY <1>2, <3>1 DEF g, z
      <3>3. (0 - x * g * Recoded(y, 0)) % z = 0
        BY <2>2, <3>2
      <3> QED
        BY <3>3 DEF g, z
    <2>4. 0 \in 0 .. h - 2 /\ 0 % 2 = 0
      BY <1>3
    <2>5. FactorBits' = h
      BY <2>1 DEF FactorBits, mulw
    <2> HIDE DEF h
    <2> QED
      BY <2>1, <2>3, <2>4, <2>5 DEF Multiplied, Recoded, Mul!Bit
  <1>7. CASE Mul!Iterate(mulvalid, mulw, msrc2)
    <2>1. mstate = "Busy" /\ mstate' # "Idle" /\ Prod' = Mul!PartProdOut(mulw, msrc2)
          /\ ind' = (ind + 2) % W /\ Sum' = Sum
          /\ mstate' = IF mulvalid /\ ind = Mul!maxind(mulw) THEN "Valid" ELSE "Busy"
      BY <1>7 DEF Mul!Iterate
    <2>2. idex' = idex /\ mulvalid /\ msrc2 = y /\ FactorBits' = h
      BY <1>4, <2>1 DEF FactorBits, mulw
    <2>3. /\ Sum = x * 2^h
          /\ ind \in 0 .. h - 2 /\ ind % 2 = 0
          /\ (Prod - x * 2^(h - ind) * Recoded(y, ind)) % 2^(2 * W - ind) = 0
          /\ Prod \in Int
      BY <2>1 DEF Computed, Multiplied
    <2> HIDE DEF h, x, y
    <2>4. /\ Prod' \in Int
          /\ ind = Mul!maxind(mulw) => (Prod' - x * (y % 2^h)) % 2^(2 * W - h) = 0
          /\ ind # Mul!maxind(mulw) =>
                /\ (ind + 2) % W = ind + 2 /\ ind + 2 \in 0 .. h - 2 /\ (ind + 2) % 2 = 0
                /\ (Prod' - x * 2^(h - (ind + 2)) * Recoded(y, ind + 2)) % 2^(2 * W - (ind + 2)) = 0
      BY <1>1, <1>2, <2>1, <2>2, <2>3, MulIterate
    <2>5. x = idex'.src1 /\ y = idex'.src2
      BY <2>2 DEF x, y
    <2>6. CASE ind = Mul!maxind(mulw)
      <3>1. mstate' = "Valid" /\ Prod' \in Int /\ (Prod' - x * (y % 2^h)) % 2^(2 * W - h) = 0
        BY <2>1, <2>2, <2>4, <2>6
      <3> QED
        BY <2>2, <2>5, <3>1 DEF Multiplied
    <2>7. CASE ind # Mul!maxind(mulw)
      <3>1. /\ mstate' = "Busy" /\ Prod' \in Int /\ ind' = ind + 2 /\ Sum' = x * 2^h
            /\ ind' \in 0 .. h - 2 /\ ind' % 2 = 0
            /\ (Prod' - x * 2^(h - ind') * Recoded(y, ind')) % 2^(2 * W - ind') = 0
        BY <2>1, <2>3, <2>4, <2>7
      <3> QED
        BY <2>2, <2>5, <3>1 DEF Multiplied, Recoded, Mul!Bit
    <2> QED
      BY <2>6, <2>7
  <1>8. CASE Mul!Deliver(mulvalid)
    <2>1. mstate' = "Idle"
      <3>1. mstate = "Valid" => mulvalid
        BY DEF IInv, UnitsInStep, Kinds
      <3> QED
        BY <1>8, <3>1 DEF Mul!Deliver
    <2> QED
      BY <1>8, <2>1 DEF Mul!Deliver, Multiplied
  <1> QED
    BY <1>1, <1>5, <1>6, <1>7, <1>8 DEF Mul!Step

\* Every clock edge keeps the partial quotient right.
LEMMA DividedStep ==
    ASSUME IInv, Computed, NEW ls \in BOOLEAN, Tick(ls)
    PROVE  Divided'
  <1> DEFINE s == divsigned
             x == Magnitude(idex.src1)
             y == Magnitude(idex.src2)
             v == idex.src2
  <1>1. /\ dstate \in {"Idle", "Busy", "Valid"}
        /\ Div!Step(divvalid, divsigned, dsrc1, dsrc2)
    BY DEF IInv, Kinds, Tick
  <1>2. idex.src1 \in 0 .. 2^W - 1 /\ v \in 0 .. 2^W - 1
    <2>1. idex.src1 \in Operands /\ v \in Operands
      BY DEF IInv, Kinds
    <2> QED
      BY <2>1, OperandsAssumption, Zenon
  <1>3. x \in 0 .. 2^W - 1 /\ y \in 0 .. 2^W - 1 /\ (v # 0 => y # 0)
    <2>1. CASE s
      BY <1>2, <2>1, Signs DEF Magnitude
    <2>2. CASE ~s
      BY <1>2, <2>2 DEF Magnitude
    <2> QED
      BY <2>1, <2>2
  <1>4. ASSUME dstate' # "Idle"
        PROVE  /\ idex' = idex /\ divvalid /\ dsrc1 = idex.src1 /\ dsrc2 = v
               /\ Magnitude(idex.src1)' = x /\ Magnitude(idex.src2)' = y
    <2>1. idex' = idex /\ divvalid
      BY <1>4, Kept
    <2> QED
      BY <2>1 DEF dsrc1, dsrc2, Magnitude, divsigned, Div!sign, Div!Neg
  <1>5. W \in Nat /\ W > 0 /\ 2^W \in Nat /\ 2^W >= 1
    BY WAssumption, Power
  <1>6. CASE Div!Rest(divvalid)
    BY <1>6 DEF Div!Rest, Divided
  <1>7. CASE Div!Start(divvalid, divsigned, dsrc1)
    <2>1. dstate' = "Busy" /\ divcount' = W - 1 /\ DivRes' = (2 * x) % 2^(2 * W)
      <3>1. dstate' = "Busy" /\ divcount' = W - 1 /\ DivRes' = Div!Shifted(Div!choosdivend(s, dsrc1))
        BY <1>7 DEF Div!Start
      <3>2. Div!choosdivend(s, dsrc1) = x
        BY <1>4, <3>1 DEF Div!choosdivend, Magnitude
      <3> QED
        BY <3>1, <3>2 DEF Div!Shifted
    <2> DEFINE A == 2^(W - 1)
               r == IF x >= A THEN 1 ELSE 0
               l == x - r * A
    <2>2. A \in Nat /\ A >= 1 /\ 2^W = 2 * A
      BY <1>5, Power
    <2>3. 2^(2 * W) = 2^W * 2^W
      <3>1. 2 * W = W + W
        BY <1>5
      <3> QED
        BY <1>5, <3>1, PowerSum
    <2>4. 2^(W - 1 - (W - 1)) = 1 /\ 2^(W - (W - 1)) = 2
      <3>1. W - 1 - (W - 1) = 0 /\ W - (W - 1) = 0 + 1 /\ 0 \in Nat
        BY <1>5
      <3>2. 2^(0 + 1) = 2
        BY Power
      <3> QED
        BY <3>1, <3>2, Power
    <2>5. ASSUME v # 0
          PROVE  PartialQuotient(x, y, W - 1, DivRes')
      <3> HIDE DEF A, x, y, v
      <3>1. y \in Nat /\ y >= 1 /\ x \in Nat /\ x < 2 * A
        BY <1>3, <1>5, <2>2, <2>5
      <3>2. /\ r \in 0 .. 2 * y - 1 /\ l \in 0 .. A - 1 /\ r \in {0, 1}
            /\ x = r * A + l
        BY <2>2, <3>1
      <3>3. 2 * x = r * (2 * A) + l * 2
        BY <2>2, <3>1, <3>2
      <3>4. (2 * x) % 2^(2 * W) = 2 * x
        <4> DEFINE P == 2^W
                   PP == P * P
                   n == 2 * x
        <4>1. P \in Nat /\ P >= 2 /\ n < 2 * P /\ n \in Nat
          BY <1>5, <2>2, <3>1
        <4> HIDE DEF P
        <4>2. P * P >= 2 * P /\ PP \in Nat
          BY <4>1
        <4>3. n \in 0 .. PP - 1 /\ PP \in Nat \ {0}
          BY <4>1, <4>2
        <4> HIDE DEF n, PP
        <4>4. n % PP = n
          BY <4>3
        <4> QED
          BY <2>3, <4>4 DEF n, PP, P
      <3> HIDE DEF r, l
      <3>5. x = (2 * 0 * y + r) * A + l
        BY <2>2, <3>1, <3>2
      <3>6. DivRes' = r * 2^W + l * 2^(W - (W - 1)) + 2 * 0
        BY <2>1, <2>2, <2>4, <3>1, <3>2, <3>3, <3>4
      <3>7. 0 \in 0 .. 2^(W - 1 - (W - 1)) - 1
        BY <2>4
      <3> QED
        BY <3>2, <3>5, <3>6, <3>7 DEF A, PartialQuotient
    <2>6. /\ idex' = idex
          /\ Magnitude(idex.src1)' = x /\ Magnitude(idex.src2)' = y
      BY <1>4, <2>1
    <2>7. W - 1 \in 0 .. W - 1
      BY <1>5
    <2> HIDE DEF x, y
    <2> QED
      BY <2>1, <2>5, <2>6, <2>7 DEF Divided, PartialQuotient
  <1>8. CASE Div!Iterate(divvalid, divsigned, dsrc2)
    <2> DEFINE d == IF Div!Fits(s, dsrc2) THEN DivRes - Div!Divsor(s, dsrc2) + 1 ELSE DivRes
    <2>1. /\ dstate = "Busy" /\ dstate' # "Idle"
          /\ dstate' = IF divvalid /\ divcount = 0 THEN "Valid" ELSE "Busy"
          /\ DivRes' = IF divcount = 0 THEN d ELSE Div!Shifted(d)
          /\ divcount' = IF divcount = 0 THEN 0 ELSE divcount - 1
      BY <1>8 DEF Div!Iterate
    <2>2. /\ idex' = idex /\ divvalid /\ dsrc2 = v
          /\ Magnitude(idex.src1)' = x /\ Magnitude(idex.src2)' = y
      BY <1>4, <2>1
    <2>3. SUFFICES ASSUME v # 0 PROVE Divided'
      BY <2>2 DEF Divided
    <2>4. divcount \in 0 .. W - 1
      BY <2>1, <2>3 DEF Computed, Divided
    <2>5. PartialQuotient(x, y, divcount, DivRes)
      BY <2>1, <2>3 DEF Computed, Divided
    <2>6. Div!Divsor(s, dsrc2) = y * 2^W
      BY <2>2 DEF Div!Divsor, Magnitude
    <2> HIDE DEF x, y
    <2>7. y \in 1 .. 2^W - 1
      BY <1>3, <1>5, <2>3
    <2>8. (y * 2^W) \div 2^W = y
      <3> DEFINE P == 2^W
                 z == y * P
      <3>1. P \in Nat \ {0} /\ z \in Int /\ z = P * y + 0 /\ 0 \in 0 .. P - 1 /\ y \in Int
        BY <1>5, <2>7
      <3> HIDE DEF P, z
      <3>2. z \div P = y
        BY <3>1, DivModIs
      <3> QED
        BY <3>2 DEF z, P
    <2>9. d = IF DivRes \div 2^W >= y THEN DivRes - y * 2^W + 1 ELSE DivRes
      BY <2>6, <2>8 DEF Div!Fits
    <2> HIDE DEF d
    <2>10. /\ divcount = 0 => d % 2^W = x \div y
           /\ divcount > 0 => PartialQuotient(x, y, divcount - 1, (2 * d) % 2^(2 * W))
      BY <1>3, <2>4, <2>5, <2>7, <2>9, DivIterate
    <2>11. CASE divcount = 0
      <3>1. dstate' = "Valid" /\ DivRes' % 2^W = x \div y
        BY <2>1, <2>2, <2>10, <2>11
      <3> QED
        BY <2>2, <3>1 DEF Divided
    <2>12. CASE divcount # 0
      <3>1. /\ dstate' = "Busy" /\ divcount' = divcount - 1 /\ divcount > 0
            /\ DivRes' = (2 * d) % 2^(2 * W) /\ divcount' \in 0 .. W - 1
        BY <1>5, <2>1, <2>4, <2>12 DEF Div!Shifted
      <3>2. PartialQuotient(x, y, divcount', DivRes')
        BY <2>10, <3>1
      <3> QED
        BY <2>2, <3>1, <3>2 DEF Divided, PartialQuotient
    <2> QED
      BY <2>11, <2>12
  <1>9. CASE Div!Deliver(divvalid)
    <2>1. dstate' = "Idle"
      <3>1. dstate = "Valid" => divvalid
        BY DEF IInv, UnitsInStep, Kinds
      <3> QED
        BY <1>9, <3>1 DEF Div!Deliver
    <2> QED
      BY <2>1 DEF Divided
  <1> QED
    BY <1>1, <1>6, <1>7, <1>8, <1>9 DEF Div!Step

\* What EX hands over when a unit is done is right.
LEMMA ResultFollows == IInv /\ Computed => ResultRight
  <1> SUFFICES ASSUME IInv, Computed, EXLS_valid PROVE ResultRight
    BY DEF ResultRight
  <1> DEFINE x == idex.src1
             y == idex.src2
             P == 2^W
  <1>1. idex.op \in Ops /\ x \in 0 .. 2^W - 1 /\ y \in 0 .. 2^W - 1 /\ idex.valid /\ ~alubusy
    <2>1. x \in Operands /\ y \in Operands
      BY DEF IInv, Kinds
    <2> QED
      BY <2>1, OperandsAssumption, Zenon DEF EXLS_valid, IInv, Kinds
  <1>2. W \in Nat /\ W > 0 /\ P \in Nat /\ P >= 1
    BY WAssumption, Power
  <1>3. ASSUME mulvalid PROVE mstate = "Valid" /\ MulDivRes = Prod % P
    BY <1>1, <1>3 DEF IInv, UnitsInStep, Kinds, alubusy, outvalid, mulvalid, divvalid, MulDivRes,
         Mul!OutValid, Div!OutValid, Mul!ResultL
  <1>4. ASSUME divvalid PROVE dstate = "Valid" /\ MulDivRes = divres /\ dsrc1 = x /\ dsrc2 = y
    BY <1>1, <1>4 DEF IInv, UnitsInStep, Kinds, alubusy, outvalid, mulvalid, divvalid, MulDivRes,
         Mul!OutValid, Div!OutValid, dsrc1, dsrc2
  <1>5. ASSUME idex.op = "MUL" PROVE MulDivRes = (x * y) % P
    <2>1. mulvalid /\ ~mulw
      BY <1>1, <1>5 DEF mulvalid, mulw
    <2>2. (Prod - x * (y % 2^W)) % 2^(2 * W - W) = 0 /\ Prod \in Int
      BY <1>3, <2>1 DEF Computed, Multiplied, FactorBits
    <2>3. 2 * W - W = W /\ y % 2^W = y /\ x * y \in Int
      BY <1>1, <1>2
    <2>4. (Prod - x * y) % P = 0
      BY <2>2, <2>3
    <2> HIDE DEF P, x, y
    <2>5. Prod % P = (x * y) % P
      <3> DEFINE z == x * y
      <3>1. z \in Int /\ P \in Nat \ {0} /\ Prod \in Int /\ (Prod - z) % P = 0
        BY <1>2, <2>2, <2>3, <2>4
      <3> HIDE DEF z
      <3>2. Prod % P = z % P
        BY <3>1, SameRemainder
      <3> QED
        BY <3>2 DEF z
    <2> QED
      BY <1>3, <2>1, <2>5
  <1>6. ASSUME idex.op = "MULW" PROVE (MulDivRes - x * y) % 2^(W \div 2) = 0
    <2> DEFINE h == W \div 2
               H == 2^h
               e == y % H
    <2>1. mulvalid /\ mulw
      BY <1>1, <1>6 DEF mulvalid, mulw
    <2>2. (Prod - x * e) % 2^(2 * W - h) = 0 /\ Prod \in Int
      BY <1>3, <2>1 DEF Computed, Multiplied, FactorBits
    <2>3. h \in Nat /\ h <= W /\ W - h \in Nat /\ W = h + (W - h) /\ 2 * W - h = h + (2 * W - 2 * h)
          /\ 2 * W - 2 * h \in Nat
      BY WAssumption
    <2> HIDE DEF h
    <2>4. H \in Nat \ {0} /\ 2^(W - h) \in Nat /\ 2^(2 * W - 2 * h) \in Nat \ {0}
      BY <2>3, Power
    <2>5. 2^W = H * 2^(W - h) /\ 2^(2 * W - h) = H * 2^(2 * W - 2 * h)
      <3>1. 2^(h + (W - h)) = 2^h * 2^(W - h)
        BY <2>3, PowerSum, Zenon
      <3>2. 2^(h + (2 * W - 2 * h)) = 2^h * 2^(2 * W - 2 * h)
        BY <2>3, PowerSum, Zenon
      <3> QED
        BY <2>3, <3>1, <3>2, Zenon
    <2> DEFINE g == y \div H
               a == 2^(W - h)
               b == 2^(2 * W - 2 * h)
               m == (Prod - x * e) \div (H * b)
               t == Prod \div (H * a)
    <2> HIDE DEF H, a, b
    <2>6. x \in Int /\ y \in Int
      BY <1>1, <1>2
    <2> HIDE DEF x, y
    <2>7. g \in Int /\ e \in Int /\ y = H * g + e
      <3>1. e \in 0 .. H - 1 /\ g \in Int /\ y = H * g + e
        BY <2>4, <2>6, DivMod
      <3> QED
        BY <2>4, <3>1
    <2> HIDE DEF g, e
    <2>8. H * a \in Nat \ {0} /\ H * b \in Nat \ {0}
      <3>1. H * a = P /\ a \in Nat
        BY <2>4, <2>5 DEF a
      <3>2. b \in Nat \ {0}
        BY <2>4 DEF b
      <3> QED
        BY <1>2, <2>4, <3>1, <3>2
    <2>9. m \in Int /\ Prod - x * e = (H * b) * m
      <3> DEFINE n == Prod - x * e
                 z == H * b
      <3>1. n \in Int /\ z \in Nat \ {0} /\ n % z = 0
        BY <2>2, <2>5, <2>6, <2>7, <2>8 DEF b
      <3> HIDE DEF n, z
      <3>2. n \div z \in Int /\ n = z * (n \div z)
        BY <3>1, DivMod
      <3> QED
        BY <3>2 DEF n, z
    <2>10. t \in Int /\ MulDivRes = Prod - (H * a) * t
      <3> DEFINE z == H * a
      <3>1. z \in Nat \ {0} /\ MulDivRes = Prod % z
        BY <1>3, <2>1, <2>5, <2>8 DEF a
      <3> HIDE DEF z
      <3>2. Prod \div z \in Int /\ Prod = z * (Prod \div z) + (Prod % z) /\ Prod % z \in Int
        BY <2>2, <3>1, DivMod
      <3> DEFINE u == z * (Prod \div z)
      <3>3. u \in Int
        BY <3>1, <3>2
      <3> HIDE DEF u
      <3>4. Prod % z = Prod - u
        BY <2>2, <3>2, <3>3 DEF u
      <3> QED
        BY <3>1, <3>2, <3>4 DEF z, u
    <2> HIDE DEF m, t
    <2>11. a \in Int /\ b \in Int /\ H \in Int
      BY <2>4 DEF a, b
    <2>12. MulDivRes - x * y = H * (b * m - a * t - x * g)
      BY <2>2, <2>6, <2>7, <2>9, <2>10, <2>11
    <2> DEFINE k == b * m - a * t - x * g
               n == MulDivRes - x * y
    <2>13. k \in Int /\ n = H * k + 0 /\ n \in Int
      BY <2>6, <2>7, <2>9, <2>10, <2>11, <2>12
    <2> HIDE DEF k, n
    <2>14. n % H = 0
      <3>1. 0 \in 0 .. H - 1
        BY <2>4
      <3> QED
        BY <2>4, <2>13, <3>1, DivModIs
    <2> QED
      BY <2>14 DEF n, H, h
  <1>7. ASSUME idex.op = "DIV", y # 0 PROVE MulDivRes = x \div y
    <2>1. divvalid /\ ~divsigned
      BY <1>1, <1>7 DEF divvalid, divsigned
    <2>2. DivRes % 2^W = x \div y
      BY <1>4, <1>7, <2>1 DEF Computed, Divided, Magnitude
    <2> QED
      BY <1>4, <2>1, <2>2 DEF divres, Div!Quotient
  <1>8. ASSUME idex.op = "DIVS", y # 0
        PROVE  MulDivRes = Truncated(Signed(x), Signed(y)) % P
    <2>1. divvalid /\ divsigned
      BY <1>1, <1>8 DEF divvalid, divsigned
    <2>2. DivRes % 2^W = Magnitude(x) \div Magnitude(y)
      BY <1>4, <1>8, <2>1 DEF Computed, Divided
    <2>3. /\ Magnitude(x) = IF Div!sign(x) THEN Div!Neg(x) ELSE x
          /\ Magnitude(y) = IF Div!sign(y) THEN Div!Neg(y) ELSE y
      BY <2>1 DEF Magnitude
    <2>4. Div!Quotient(TRUE, x, y) = Truncated(Signed(x), Signed(y)) % 2^W
      BY <1>1, <1>8, <2>2, <2>3, QuotientRight
    <2>5. divres = Div!Quotient(TRUE, x, y)
      BY <1>4, <2>1 DEF divres, Div!Quotient
    <2> QED
      BY <1>4, <2>1, <2>4, <2>5
  <1> QED
    BY <1>5, <1>6, <1>7, <1>8 DEF ResultRight

\* At every width and for every sequence of operations: what EX hands to LS is
\* the product or the quotient of the operands in ID_EX (ResultRight), by the
\* Booth digits of Multi.v and the shifts and subtractions of Diver.v.
THEOREM ResultsRight == Spec => []ResultRight
  <1>1. Init => IInv /\ Computed
    BY OperandsAssumption
    DEF Init, IInv, Computed, Multiplied, Divided, Kinds, UnitsInStep, Bubble, Ops, Mul!Init, Div!Init
  <1>2. IInv /\ Computed /\ [Next]_vars => (IInv /\ Computed)'
    <2>1. ASSUME IInv, Computed, Next PROVE (IInv /\ Computed)'
      <3>1. PICK ls \in BOOLEAN : Tick(ls)
        BY <2>1 DEF Next
      <3> QED
        BY <2>1, <3>1, TickInStep, MultipliedStep, DividedStep DEF Computed
    <2>2. ASSUME IInv, Computed, UNCHANGED vars PROVE (IInv /\ Computed)'
      BY <2>2
      DEF vars, mulVars, divVars, IInv, Kinds, UnitsInStep, mulvalid, divvalid, Computed,
          Multiplied, Divided, FactorBits, mulw, Recoded, Mul!Bit, Magnitude, divsigned,
          Div!sign, Div!Neg, PartialQuotient
    <2> QED
      BY <2>1, <2>2
  <1> QED
    BY <1>1, <1>2, ResultFollows, PTL DEF Spec

-----------------------------------------------------------------------------
(* How long an operation takes.                                            *)

\* The counters of the units, which only say something while a unit works.
Counters ==
    /\ mstate = "Busy" => ind \in 0 .. FactorBits - 2 /\ ind % 2 = 0
    /\ dstate = "Busy" => divcount \in 0 .. W - 1

\* Clock edges until EX hands its operation on: the multiplier takes one for
\* two bits, the divider one for each, and both one to start.
EdgesLeft ==
    IF state = "swait" THEN IF mulvalid THEN FactorBits \div 2 + 1
                            ELSE IF divvalid THEN W + 1
                            ELSE 0
    ELSE IF mstate = "Busy" THEN (FactorBits - ind) \div 2
    ELSE IF dstate = "Busy" THEN divcount + 1
    ELSE 0

\* The number of bits the digits cover is even.
LEMMA FactorBitsEven ==
    /\ FactorBits \in 2 .. W /\ FactorBits % 2 = 0
    /\ Mul!maxind(mulw) = FactorBits - 2
  <1>1. W \in Nat /\ W >= 4 /\ (W \div 2) % 2 = 0 /\ W % 2 = 0 /\ W \div 2 \in 2 .. W
    BY WAssumption
  <1> QED
    BY <1>1 DEF FactorBits, Mul!maxind

\* Clock edges are left exactly as long as EX is busy.
LEMMA EdgesOfBusy ==
    ASSUME IInv, Counters
    PROVE  /\ EdgesLeft \in 0 .. W + 1
           /\ idex.valid => (EXLS_valid <=> EdgesLeft = 0)
  <1>1. W \in Nat /\ FactorBits \in 2 .. W /\ FactorBits \div 2 \in 1 .. W
    BY FactorBitsEven, WAssumption
  <1>2. mstate = "Busy" => (FactorBits - ind) \div 2 \in 1 .. W
    BY <1>1 DEF Counters
  <1>3. dstate = "Busy" => divcount + 1 \in 1 .. W
    BY <1>1 DEF Counters
  <1>4. CASE state = "swait"
    <2>1. alubusy <=> mulvalid \/ divvalid
      BY <1>4 DEF alubusy
    <2>2. EdgesLeft = IF mulvalid THEN FactorBits \div 2 + 1 ELSE IF divvalid THEN W + 1 ELSE 0
      BY <1>4 DEF EdgesLeft
    <2> QED
      BY <1>1, <2>1, <2>2 DEF EXLS_valid
  <1>5. CASE state = "sdoing"
    <2>1. alubusy <=> mstate = "Busy" \/ dstate = "Busy"
      BY <1>5 DEF IInv, UnitsInStep, alubusy, outvalid, Mul!OutValid, Div!OutValid
    <2>2. EdgesLeft = IF mstate = "Busy" THEN (FactorBits - ind) \div 2
                      ELSE IF dstate = "Busy" THEN divcount + 1 ELSE 0
      BY <1>5 DEF EdgesLeft
    <2> QED
      BY <1>1, <1>2, <1>3, <2>1, <2>2 DEF EXLS_valid
  <1> QED
    BY <1>4, <1>5 DEF IInv, UnitsInStep

\* Every clock edge keeps the counters within the operation.
LEMMA CountersStep ==
    ASSUME IInv, Counters, NEW ls \in BOOLEAN, Tick(ls)
    PROVE  Counters'
  <1>1. ASSUME mstate' = "Busy" PROVE ind' \in 0 .. FactorBits' - 2 /\ ind' % 2 = 0
    <2>1. idex' = idex /\ mulvalid
      BY <1>1, Kept
    <2>2. FactorBits' = FactorBits
      BY <2>1 DEF FactorBits, mulw
    <2>3. CASE Mul!Start(mulvalid, mulw, msrc1)
      BY <2>2, <2>3, FactorBitsEven DEF Mul!Start
    <2>4. CASE Mul!Iterate(mulvalid, mulw, msrc2)
      <3>1. ind # FactorBits - 2 /\ ind \in 0 .. FactorBits - 2 /\ ind % 2 = 0 /\ ind' = (ind + 2) % W
        BY <1>1, <2>1, <2>4, FactorBitsEven DEF Mul!Iterate, Counters
      <3>2. ind + 2 \in 0 .. FactorBits - 2 /\ (ind + 2) % 2 = 0
        BY <3>1, FactorBitsEven
      <3>3. ind' = ind + 2
        BY <3>1, <3>2, FactorBitsEven, WAssumption
      <3> QED
        BY <2>2, <3>2, <3>3
    <2> QED
      BY <1>1, <2>3, <2>4 DEF Tick, Mul!Step, Mul!Rest, Mul!Deliver
  <1>2. ASSUME dstate' = "Busy" PROVE divcount' \in 0 .. W - 1
    BY <1>2, WAssumption
    DEF Counters, Tick, Div!Step, Div!Rest, Div!Start, Div!Iterate, Div!Deliver
  <1> QED
    BY <1>1, <1>2 DEF Counters

\* While EX is busy each clock edge brings the answer nearer by one.
LEMMA EdgesStep ==
    ASSUME IInv, Counters, NEW ls \in BOOLEAN, Tick(ls), idex.valid, ~EXLS_valid
    PROVE  idex' = idex /\ EdgesLeft' = EdgesLeft - 1
  <1>1. alubusy /\ IInv' /\ W \in Nat /\ W >= 4
    BY TickInStep, WAssumption DEF EXLS_valid
  <1>2. idex' = idex
    <2>1. ~ReadyID_ready(ls) /\ ReadyID_ready(ls) \in BOOLEAN
      BY <1>1 DEF ReadyID_ready
    <2> QED
      BY <2>1, IdExKeeps DEF IInv, Tick
  <1>3. /\ mulvalid' = mulvalid /\ divvalid' = divvalid /\ FactorBits' = FactorBits
        /\ ~(mulvalid /\ divvalid)
    BY <1>2 DEF mulvalid, divvalid, FactorBits, mulw
  <1>4. CASE state = "swait"
    <2>1. /\ mulvalid \/ divvalid
          /\ mstate = "Idle" /\ dstate = "Idle" /\ state' = "sdoing"
      BY <1>1, <1>4 DEF IInv, UnitsInStep, Tick, ControlStep, next, unitready, Mul!MulReady,
         Div!DivReady, alubusy
    <2>2. mulvalid => mstate' = "Busy" /\ ind' = 0
      BY <2>1 DEF Tick, Mul!Step, Mul!Rest, Mul!Start, Mul!Iterate, Mul!Deliver
    <2>3. divvalid => mstate' = "Idle" /\ dstate' = "Busy" /\ divcount' = W - 1
      BY <1>3, <2>1 DEF Tick, Mul!Step, Mul!Rest, Mul!Start, Mul!Iterate, Mul!Deliver,
         Div!Step, Div!Rest, Div!Start, Div!Iterate, Div!Deliver
    <2>4. EdgesLeft = IF mulvalid THEN FactorBits \div 2 + 1 ELSE W + 1
      BY <1>4, <2>1 DEF EdgesLeft
    <2>5. EdgesLeft' = IF mulvalid THEN FactorBits \div 2 ELSE W
      BY <1>1, <1>3, <2>1, <2>2, <2>3, FactorBitsEven DEF EdgesLeft
    <2> QED
      BY <1>1, <1>2, <2>4, <2>5, FactorBitsEven
  <1>5. CASE state = "sdoing" /\ mulvalid
    <2>1. mstate = "Busy" /\ dstate = "Idle" /\ state' = "sdoing"
      BY <1>1, <1>5 DEF IInv, UnitsInStep, Tick, ControlStep, next, alubusy, outvalid,
         Mul!OutValid, Div!OutValid
    <2>2. /\ ind \in 0 .. FactorBits - 2 /\ ind % 2 = 0 /\ ind' = (ind + 2) % W
          /\ mstate' = IF ind = FactorBits - 2 THEN "Valid" ELSE "Busy"
      BY <1>5, <2>1, FactorBitsEven
      DEF Counters, Tick, Mul!Step, Mul!Rest, Mul!Start, Mul!Iterate, Mul!Deliver
    <2>3. dstate' = "Idle"
      BY <1>1, <1>3, <1>5, <2>1 DEF IInv, UnitsInStep
    <2>4. EdgesLeft = (FactorBits - ind) \div 2
      BY <2>1 , <1>5 DEF EdgesLeft
    <2>5. CASE ind = FactorBits - 2
      <3>1. EdgesLeft' = 0
        BY <2>1, <2>2, <2>3, <2>5 DEF EdgesLeft
      <3> QED
        BY <1>2, <2>4, <2>5, <3>1, FactorBitsEven
    <2>6. CASE ind # FactorBits - 2
      <3>1. ind' = ind + 2
        BY <2>2, <2>6, FactorBitsEven, WAssumption
      <3>2. EdgesLeft' = (FactorBits - (ind + 2)) \div 2
        BY <1>3, <2>1, <2>2, <2>6, <3>1 DEF EdgesLeft
      <3> QED
        BY <1>2, <2>2, <2>4, <3>2, FactorBitsEven
    <2> QED
      BY <2>5, <2>6
  <1>6. CASE state = "sdoing" /\ divvalid
    <2>1. dstate = "Busy" /\ mstate = "Idle" /\ state' = "sdoing"
      BY <1>1, <1>6 DEF IInv, UnitsInStep, Tick, ControlStep, next, alubusy, outvalid,
         Mul!OutValid, Div!OutValid
    <2>2. /\ divcount \in 0 .. W - 1 /\ divcount' = IF divcount = 0 THEN 0 ELSE divcount - 1
          /\ dstate' = IF divcount = 0 THEN "Valid" ELSE "Busy"
      BY <1>6, <2>1 DEF Counters, Tick, Div!Step, Div!Rest, Div!Start, Div!Iterate, Div!Deliver
    <2>3. mstate' = "Idle"
      BY <1>1, <1>3, <1>6, <2>1 DEF IInv, UnitsInStep
    <2>4. EdgesLeft = divcount + 1 /\ EdgesLeft' = IF divcount = 0 THEN 0 ELSE divcount' + 1
      BY <1>6, <2>1, <2>2, <2>3 DEF EdgesLeft
    <2> QED
      BY <1>2, <2>2, <2>4
  <1> QED
    BY <1>1, <1>4, <1>5, <1>6 DEF IInv, UnitsInStep

\* At every width: a multiplication is handed to LS after W / 2 + 1 clock edges, for
\* mulw after W / 4 + 1, and a division after W + 1.  ID_EX keeps the operation, and
\* no edge passes without bringing the answer nearer; with the clock running, no
\* operation stays in EX.
THEOREM AnswersInTime ==
    Spec => /\ [](EdgesLeft \in 0 .. W + 1 /\ (idex.valid => (EXLS_valid <=> EdgesLeft = 0)))
            /\ [][idex.valid /\ ~EXLS_valid => idex' = idex /\ EdgesLeft' = EdgesLeft - 1]_vars
  <1>1. Init => IInv /\ Counters
    BY OperandsAssumption
    DEF Init, IInv, Kinds, UnitsInStep, Bubble, Ops, Mul!Init, Div!Init, Counters
  <1>2. IInv /\ Counters /\ [Next]_vars => (IInv /\ Counters)'
    <2>1. ASSUME IInv, Counters, Next PROVE (IInv /\ Counters)'
      BY <2>1, TickInStep, CountersStep DEF Next
    <2>2. ASSUME IInv, Counters, UNCHANGED vars PROVE (IInv /\ Counters)'
      BY <2>2 DEF vars, mulVars, divVars, IInv, Kinds, UnitsInStep, mulvalid, divvalid, Counters,
         FactorBits, mulw
    <2> QED
      BY <2>1, <2>2
  <1>3. IInv /\ Counters => EdgesLeft \in 0 .. W + 1 /\ (idex.valid => (EXLS_valid <=> EdgesLeft = 0))
    BY EdgesOfBusy
  <1>4. IInv /\ Counters /\ [Next]_vars =>
          [idex.valid /\ ~EXLS_valid => idex' = idex /\ EdgesLeft' = EdgesLeft - 1]_vars
    BY EdgesStep DEF Next
  <1> QED
    BY <1>1, <1>2, <1>3, <1>4, PTL DEF Spec

=============================================================================

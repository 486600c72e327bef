------------------------------- MODULE Multi -------------------------------
(***************************************************************************)
(* The radix-4 Booth multiplier (npc/vsrc/ysyx_22050550_Multi.v), FAST     *)
(* build, at width W (64 in the code).  A step is one rising clock edge;   *)
(* the input wires are the parameters: v is io_Exu_MulValid, w is          *)
(* io_Exu_Mulw, x and y are multiplicand and multiplier.  io_Exu_MulSigned *)
(* is wired to 00 and io_Exu_Flush is not used.                            *)
(***************************************************************************)
EXTENDS Integers

CONSTANT W

VARIABLES
    state,  \* Idle, Busy or Valid
    Prod,   \* partial product, 2 * W bits
    Sum,    \* the multiplicand in the upper half (shifted by W/2 for mulw)
    ind     \* the bit of the multiplier that is next

Word == 0 .. 2^W - 1
DoubleWord == 0 .. 2^(2 * W) - 1

TypeOK ==
    /\ state \in {"Idle", "Busy", "Valid"}
    /\ Prod \in DoubleWord
    /\ Sum \in DoubleWord
    /\ ind \in 0 .. W - 1

Init ==
    /\ state = "Idle"
    /\ Prod = 0 /\ Sum = 0 /\ ind = 0

MulReady == state = "Idle"
OutValid == state = "Valid"
ResultL == Prod % 2^W

\* Variant for mutation testing: the last bit, which ind steps over.
maxindOdd(w) == IF w THEN W \div 2 - 1 ELSE W - 1
maxind(w) == IF w THEN W \div 2 - 2 ELSE W - 2

\* Bsub, B and Badd, as the number that chooseSignal is.
Bit(y, i) == (y \div 2^i) % 2
chooseSignal(y) ==
    4 * Bit(y, ind + 1) + 2 * Bit(y, ind) + (IF ind = 0 THEN 0 ELSE Bit(y, ind - 1))

\* The multiple of Sum to add: the Booth digit, and for the last digit, as the
\* operands are unsigned, the plain one.
add(y, highUsign) ==
    Sum * (IF highUsign THEN <<0, 1, 1, 2, 2, 3, 3, 4>>
                        ELSE <<0, 1, 1, 2, -2, -1, -1, 0>>)[chooseSignal(y) + 1]

\* Variant for mutation testing: every digit is treated as the last one.
PartProdOutPlain(w, y) == ((Prod + add(y, TRUE)) % 2^(2 * W)) \div 4

\* The shift brings in zeros although the sum may be negative: the bits that
\* this leaves wrong never get down to the lower half.
PartProdOut(w, y) == ((Prod + add(y, ind = maxind(w))) % 2^(2 * W)) \div 4

Rest(v) ==
    /\ state = "Idle" /\ ~v
    /\ UNCHANGED <<state, Prod, Sum, ind>>

Start(v, w, x) ==
    /\ state = "Idle" /\ v
    /\ state' = "Busy"
    /\ Sum' = x * 2^(IF w THEN W \div 2 ELSE W)
    /\ ind' = 0
    /\ UNCHANGED Prod

\* Prod and ind move in every cycle of Busy, state only while v is high.
Iterate(v, w, y) ==
    /\ state = "Busy"
    /\ state' = IF v /\ ind = maxind(w) THEN "Valid" ELSE "Busy"
    /\ Prod' = PartProdOut(w, y)
    /\ ind' = (ind + 2) % W
    /\ UNCHANGED Sum

\* Variant for mutation testing: the partial product is kept.
DeliverKeepsProd(v) ==
    /\ state = "Valid"
    /\ state' = IF v THEN "Idle" ELSE "Valid"
    /\ UNCHANGED <<Prod, Sum, ind>>

Deliver(v) ==
    /\ state = "Valid"
    /\ state' = IF v THEN "Idle" ELSE "Valid"
    /\ Prod' = 0
    /\ UNCHANGED <<Sum, ind>>

Step(v, w, x, y) == Rest(v) \/ Start(v, w, x) \/ Iterate(v, w, y) \/ Deliver(v)

=============================================================================

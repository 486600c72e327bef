------------------------------- MODULE Diver -------------------------------
(***************************************************************************)
(* The shift-subtract divider (npc/vsrc/ysyx_22050550_Diver.v), FAST       *)
(* build, at width W (64 in the code).  A step is one rising clock edge;   *)
(* v is io_Exu_DivValid, s says that io_Exu_DivSigned is 11, x and y are   *)
(* dividend and divisor.  io_Exu_Divw and io_Exu_Flush are wired to 0 and  *)
(* the remainder is not connected.                                         *)
(***************************************************************************)
EXTENDS Integers

CONSTANT W

VARIABLES
    state,    \* Idle, Busy or Valid
    DivRes,   \* remainder in the upper half, quotient growing in the lower
    divcount  \* iterations still to do

TypeOK ==
    /\ state \in {"Idle", "Busy", "Valid"}
    /\ DivRes \in 0 .. 2^(2 * W) - 1
    /\ divcount \in 0 .. W - 1

Init ==
    /\ state = "Idle"
    /\ DivRes = 0 /\ divcount = 0

DivReady == state = "Idle"
OutValid == state = "Valid"

sign(x) == x \div 2^(W - 1) = 1
Neg(x) == (2^W - x) % 2^W

choosdivend(s, x) == IF s /\ sign(x) THEN Neg(x) ELSE x
Divsor(s, y) == (IF s /\ sign(y) THEN Neg(y) ELSE y) * 2^W

\* cmpRes >= cmpDivs compares the upper halves.
Fits(s, y) == DivRes \div 2^W >= Divsor(s, y) \div 2^W
Shifted(d) == (2 * d) % 2^(2 * W)

Quotient(s, x, y) ==
    LET quotient == DivRes % 2^W
    IN  IF s /\ sign(x) # sign(y) THEN Neg(quotient) ELSE quotient

Rest(v) ==
    /\ state = "Idle" /\ ~v
    /\ UNCHANGED <<state, DivRes, divcount>>

Start(v, s, x) ==
    /\ state = "Idle" /\ v
    /\ state' = "Busy"
    /\ DivRes' = Shifted(choosdivend(s, x))
    /\ divcount' = W - 1

\* The quotient bit comes in before the shift, and the last iteration does not
\* shift.
Iterate(v, s, y) ==
    LET d == IF Fits(s, y) THEN DivRes - Divsor(s, y) + 1 ELSE DivRes
    IN  /\ state = "Busy"
        /\ state' = IF v /\ divcount = 0 THEN "Valid" ELSE "Busy"
        /\ DivRes' = IF divcount = 0 THEN d ELSE Shifted(d)
        /\ divcount' = IF divcount = 0 THEN 0 ELSE divcount - 1

Deliver(v) ==
    /\ state = "Valid"
    /\ state' = IF v THEN "Idle" ELSE "Valid"
    /\ UNCHANGED <<DivRes, divcount>>

Step(v, s, x, y) == Rest(v) \/ Start(v, s, x) \/ Iterate(v, s, y) \/ Deliver(v)

=============================================================================

-------------------------------- MODULE Exu --------------------------------
(***************************************************************************)
(* The execute stage with its multiplier and divider                       *)
(* (npc/vsrc/ysyx_22050550_EXU.v), between ID_EX and EX_LS.  An operation   *)
(* that needs neither unit is answered in the same cycle and is "other".   *)
(*                                                                         *)
(* LS is ready whenever EX holds an instruction: Pipeline proves that no   *)
(* two neighbouring stages do (StagesApart), and LS is only busy with an   *)
(* instruction.                                                            *)
(***************************************************************************)
EXTENDS Integers

CONSTANTS W, Operands

VARIABLES
    idex,       \* ID_EX: operation and operands
    state,      \* swait, swaitready, sdoing, swaitlsu
    RegMulDiv,  \* result of the last multiplication or division
    mstate, Prod, Sum, ind,
    dstate, DivRes, divcount

Mul == INSTANCE Multi WITH state <- mstate
Div == INSTANCE Diver WITH state <- dstate

ASSUME OperandsAssumption == Operands \subseteq 0 .. 2^W - 1 /\ 0 \in Operands
ASSUME WAssumption == W \in Nat /\ W > 0 /\ W % 4 = 0

mulVars == <<mstate, Prod, Sum, ind>>
divVars == <<dstate, DivRes, divcount>>
vars == <<idex, state, RegMulDiv, mulVars, divVars>>

Ops == {"MUL", "MULW", "DIV", "DIVS", "other"}
Bubble == [valid |-> FALSE, op |-> "other", src1 |-> 0, src2 |-> 0]
Issued == [valid : {TRUE}, op : Ops, src1 : Operands, src2 : Operands]

TypeOK ==
    /\ idex \in Issued \cup {Bubble}
    /\ state \in {"swait", "swaitready", "sdoing", "swaitlsu"}
    /\ RegMulDiv \in Mul!Word
    /\ Mul!TypeOK
    /\ Div!TypeOK

Init ==
    /\ idex = Bubble
    /\ state = "swait"
    /\ RegMulDiv = 0
    /\ Mul!Init
    /\ Div!Init

----------------------------------------------------------------------------
(* Wires *)

mulvalid == idex.valid /\ idex.op \in {"MUL", "MULW"}
divvalid == idex.valid /\ idex.op \in {"DIV", "DIVS"}
mulw == idex.op = "MULW"
divsigned == idex.op = "DIVS"

\* The operands reach a unit only while it is asked.
msrc1 == IF mulvalid THEN idex.src1 ELSE 0
msrc2 == IF mulvalid THEN idex.src2 ELSE 0
dsrc1 == IF divvalid THEN idex.src1 ELSE 0
dsrc2 == IF divvalid THEN idex.src2 ELSE 0

divres == Div!Quotient(divsigned, dsrc1, dsrc2)
outvalid == Mul!OutValid \/ Div!OutValid
unitready == (mulvalid /\ Mul!MulReady) \/ (divvalid /\ Div!DivReady)

MulDivRes ==
    IF Mul!OutValid THEN Mul!ResultL
    ELSE IF Div!OutValid THEN divres
    ELSE RegMulDiv

alubusy ==
    \/ state = "swait" /\ (mulvalid \/ divvalid)
    \/ state = "swaitready"
    \/ state = "sdoing" /\ ~outvalid

EXLS_valid == idex.valid /\ ~alubusy
ReadyID_ready(ReadyLS_ready) == ReadyLS_ready /\ ~alubusy

----------------------------------------------------------------------------
(* Clock edges *)

next(ReadyLS_ready) ==
    CASE state \in {"swait", "swaitready"} -> IF unitready THEN "sdoing" ELSE "swaitready"
      [] state = "sdoing" -> IF ~outvalid THEN "sdoing"
                             ELSE IF ReadyLS_ready THEN "swait" ELSE "swaitlsu"
      [] state = "swaitlsu" -> IF ReadyLS_ready THEN "swait" ELSE "swaitlsu"

\* The state only moves while an operation for a unit is in EX.
ControlStep(ReadyLS_ready) ==
    /\ state' = IF mulvalid \/ divvalid THEN next(ReadyLS_ready) ELSE state
    /\ RegMulDiv' = IF outvalid THEN MulDivRes ELSE RegMulDiv

\* ID_EX loads whenever EX is ready, an invalid entry included.
IdExStep(ready) ==
    \/ ready /\ idex' \in Issued
    \/ ready /\ idex' = Bubble
    \/ ~ready /\ UNCHANGED idex

Tick(ReadyLS_ready) ==
    /\ idex.valid => ReadyLS_ready
    /\ ControlStep(ReadyLS_ready)
    /\ Mul!Step(mulvalid, mulw, msrc1, msrc2)
    /\ Div!Step(divvalid, divsigned, dsrc1, dsrc2)
    /\ IdExStep(ReadyID_ready(ReadyLS_ready))

Next == \E ReadyLS_ready \in BOOLEAN : Tick(ReadyLS_ready)

Spec == Init /\ [][Next]_vars
FairSpec == Spec /\ WF_vars(Next)

----------------------------------------------------------------------------
(* Properties *)

\* Two's complement.
Signed(x) == IF x < 2^(W - 1) THEN x ELSE x - 2^W
Abs(x) == IF x < 0 THEN -x ELSE x

\* The quotient rounded towards zero.
Truncated(x, y) ==
    IF (x < 0) = (y < 0) THEN Abs(x) \div Abs(y) ELSE -(Abs(x) \div Abs(y))

\* What EX hands to LS is the product, its lower half for MULW, or the quotient
\* of the operands that ID_EX holds, in every sequence of operations, each of
\* which finds the registers as the ones before it left them; a divisor of zero
\* is left open.
ResultRight ==
    EXLS_valid =>
        /\ idex.op = "MUL" => MulDivRes = (idex.src1 * idex.src2) % 2^W
        /\ idex.op = "MULW" =>
              (MulDivRes - idex.src1 * idex.src2) % 2^(W \div 2) = 0
        /\ idex.op = "DIV" /\ idex.src2 # 0 => MulDivRes = idex.src1 \div idex.src2
        /\ idex.op = "DIVS" /\ idex.src2 # 0 =>
              MulDivRes = Truncated(Signed(idex.src1), Signed(idex.src2)) % 2^W

\* The machine in EX and the machines of the units agree, although each of them
\* stands still when its operation is not in EX: a unit works exactly while EX
\* does, on the operation that ID_EX holds; at rest both are ready and no
\* partial product is left over; neither waiting state of EX is ever needed.
UnitsInStep ==
    /\ state \in {"swait", "sdoing"}
    /\ state = "swait" => mstate = "Idle" /\ dstate = "Idle"
    /\ state = "sdoing" => mulvalid \/ divvalid
    /\ state = "sdoing" /\ mulvalid => mstate \in {"Busy", "Valid"} /\ dstate = "Idle"
    /\ state = "sdoing" /\ divvalid => dstate \in {"Busy", "Valid"} /\ mstate = "Idle"
    /\ mstate = "Idle" => Prod = 0

\* Every operation leaves EX: both counters reach their end.
OperationEnds == idex.valid ~> EXLS_valid

----------------------------------------------------------------------------
(* What makes ResultRight inductive. *)

\* The bits of the multiplier that the Booth digits cover.
FactorBits == IF mulw THEN W \div 2 ELSE W

\* The number that the Booth digits of the lower i bits of y stand for: the
\* topmost of these bits counts as negative until the next digit.
Recoded(y, i) == (y % 2^i) - (IF i = 0 THEN 0 ELSE 2^i * Mul!Bit(y, i - 1))

\* The partial product is that of the digits done so far.  The zeros that the
\* shifts bring in from the left make it wrong above its lower 2 * W - ind bits.
Multiplied ==
    LET x == idex.src1
        y == idex.src2
        h == FactorBits
    IN  /\ mstate = "Busy" =>
              /\ Sum = x * 2^h
              /\ ind \in 0 .. h - 2 /\ ind % 2 = 0
              /\ (Prod - x * 2^(h - ind) * Recoded(y, ind)) % 2^(2 * W - ind) = 0
        /\ mstate = "Valid" => (Prod - x * (y % 2^h)) % 2^(2 * W - h) = 0

\* The number that the divider works with in the place of a signed operand.
Magnitude(x) == IF divsigned /\ Div!sign(x) THEN Div!Neg(x) ELSE x

\* R is, from left to right, the remainder r before the next subtraction, the c
\* bits l of x that are still to come, and the quotient q of the other bits.
PartialQuotient(x, y, c, R) ==
    \E q \in 0 .. 2^(W - 1 - c) - 1, r \in 0 .. 2 * y - 1, l \in 0 .. 2^c - 1 :
        /\ x = (2 * q * y + r) * 2^c + l
        /\ R = r * 2^W + l * 2^(W - c) + 2 * q

Divided ==
    LET x == Magnitude(idex.src1)
        y == Magnitude(idex.src2)
    IN  idex.src2 # 0 =>
        /\ dstate = "Busy" => divcount \in 0 .. W - 1 /\ PartialQuotient(x, y, divcount, DivRes)
        /\ dstate = "Valid" => DivRes % 2^W = x \div y

=============================================================================

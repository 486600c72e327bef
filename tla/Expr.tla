-------------------------------- MODULE Expr --------------------------------
(***************************************************************************)
(* The expressions of NEMU's debugger (sdb/expr.c): the marking of unary   *)
(* operators and the evaluation by splitting at the dominant operator,     *)
(* against a grammar.  A token is its type and, for numbers of all kinds,  *)
(* its value; the regular expressions of make_token are left out.          *)
(***************************************************************************)
EXTENDS Integers, Sequences, FiniteSets

CONSTANTS Numbers,        \* values of the numbers typed
          BinaryOps,      \* the operators typed
          UnaryOps,
          MaxTokens,      \* bound: tokens of an expression
          vaddr_read(_)   \* the memory of the program

\* The operators modelled: all but & and |.  Values stay far from the ends of
\* an int.
ASSUME ExprAssumption ==
    /\ BinaryOps \subseteq {"+", "-", "*", "/", "==", "!=", "<", "<=", ">", ">=", "&&", "||",
                            "<<", ">>"}
    /\ UnaryOps \subseteq {"-", "*", "!"}
    /\ Numbers \subseteq Int /\ MaxTokens \in Nat

Num(v) == [type |-> "num", val |-> v]
Op(t) == [type |-> t, val |-> 0]

-----------------------------------------------------------------------------
(* expr: which of the signs are unary.                                     *)

\* The tokens after which - and * are unary.
Marking == {"+", "-", "*", "/", "TK_SUB", "(", ">=", "<=", "!=", ">", "<", "&&", "||", "!",
            "<<", ">>"}

\* One round of the loop of expr: token i.  The if (i != 0) covers the assignment
\* to a first -, which stays binary.
MarkToken(t, i) ==
    LET after == i > 1 /\ t[i - 1].type \in Marking
    IN  CASE t[i].type = "-" /\ after -> [t EXCEPT ![i].type = "TK_SUB"]
          [] t[i].type = "*" /\ (i = 1 \/ after) -> [t EXCEPT ![i].type = "TK_POINT"]
          [] OTHER -> t

\* The tokens after the rounds for all of them.
Mark(t) ==
    LET marked[i \in 0 .. Len(t)] == IF i = 0 THEN t ELSE MarkToken(marked[i - 1], i)
    IN  marked[Len(t)]

-----------------------------------------------------------------------------
(* eval                                                                    *)

Opened(t, p, i) == {k \in p .. i : t[k].type = "("}
Closed(t, p, i) == {k \in p .. i : t[k].type = ")"}

Depth(t, p, i) == Cardinality(Opened(t, p, i)) - Cardinality(Closed(t, p, i))

check_parentheses(t, p, q) ==
    /\ t[p].type = "(" /\ t[q].type = ")"
    /\ \A i \in p .. q - 1 : Depth(t, p, i) # 0
    /\ Depth(t, p, q) = 0

priorMulLow(type) ==
    CASE type \in {"+", "-", "*", "/"} -> 4
      [] type \in {"==", "!=", "&&", "||", ">=", "<=", ">", "<"} -> 2
      [] type \in {"<<", ">>"} -> 0
      [] OTHER -> -1

\* The smaller, the tighter an operator binds.
prior(type) ==
    CASE type \in {"+", "-"} -> 4
      [] type \in {"*", "/"} -> 3
      [] type \in {"==", "!=", "&&", "||", ">=", "<=", ">", "<"} -> 2
      [] type \in {"<<", ">>"} -> 0
      [] OTHER -> -1

\* The operators outside of parentheses.
Outside(t, p, q) == {i \in p .. q : /\ t[i].type \notin {"num", "(", ")"}
                                    /\ Depth(t, p, i) = 0}

\* The one evaluated last: the loosest, and among equals the last of the
\* binary and the first of the others.
dominant_operator(t, p, q) ==
    LET outside == Outside(t, p, q)
        loosest == {i \in outside : \A k \in outside : prior(t[k].type) <= prior(t[i].type)}
    IN  IF outside = {} THEN p
        ELSE CHOOSE i \in loosest :
                IF prior(t[i].type) >= 2 THEN \A k \in loosest : k <= i
                                         ELSE \A k \in loosest : i <= k

\* Division of C rounds towards zero.
Quotient(a, b) ==
    LET Abs(x) == IF x < 0 THEN -x ELSE x
    IN  IF (a < 0) = (b < 0) THEN Abs(a) \div Abs(b) ELSE -(Abs(a) \div Abs(b))

Bool(b) == IF b THEN 1 ELSE 0

\* The switch of eval: the value, or nothing where it asserts.
Apply(type, a, b) ==
    CASE type = "+" -> {a + b}
      [] type = "-" -> {a - b}
      [] type = "*" -> {a * b}
      [] type = "/" -> {IF b = 0 THEN -b ELSE Quotient(a, b)}
      [] type = "TK_SUB" -> {-b}
      [] type = "TK_POINT" -> {vaddr_read(b)}
      [] type = "==" -> {Bool(a = b)}
      [] type = "!=" -> {Bool(a # b)}
      [] type = "<" -> {Bool(a < b)}
      [] type = ">" -> {Bool(a > b)}
      [] type = "&&" -> {Bool(a # 0 /\ b # 0)}
      [] type = "||" -> {Bool(a # 0 \/ b # 0)}
      [] type = "!" -> {Bool(b = 0)}
      [] type = "<<" /\ b >= 0 -> {a * 2 ^ b}
      [] type = ">>" /\ b >= 0 -> {a \div 2 ^ b}
      [] OTHER -> {}

\* The operator op of the tokens from p to q, applied to the values of the two
\* sides.
AtOperator(t, ev, p, op, q) ==
    UNION {Apply(t[op].type, a, b) : a \in ev[<<p, op - 1>>], b \in ev[<<op + 1, q>>]}

\* One call of eval, given the values of the shorter ranges.
EvalStep(t, ev, p, q) ==
    IF p > q THEN {0}
    ELSE IF p = q THEN {t[p].val}
    ELSE IF check_parentheses(t, p, q) THEN ev[<<p + 1, q - 1>>]
    ELSE AtOperator(t, ev, p, dominant_operator(t, p, q), q)

Ranges(t) == (1 .. Len(t) + 1) \X (0 .. Len(t))

eval(t) == LET ev[r \in Ranges(t)] == EvalStep(t, ev, r[1], r[2]) IN ev

expr(t) == eval(Mark(t))[<<1, Len(t)>>]

-----------------------------------------------------------------------------
(* What a user may type.                                                   *)

\* An operand comes next.
WantsOperand(t) == t = << >> \/ t[Len(t)].type \notin {"num", ")"}

\* The tokens that can come next.
NextTokens(t) ==
    IF WantsOperand(t) THEN {Num(v) : v \in Numbers} \union {Op(o) : o \in UnaryOps \union {"("}}
    ELSE {Op(o) : o \in BinaryOps \union IF Depth(t, 1, Len(t)) > 0 THEN {")"} ELSE {}}

Tokens == {Num(v) : v \in Numbers} \union {Op(o) : o \in BinaryOps \union UnaryOps \union {"(", ")"}}

\* The complete ones.
Texts == {t \in UNION {[1 .. k -> Tokens] : k \in 1 .. MaxTokens} :
             /\ \A i \in DOMAIN t : t[i] \in NextTokens(SubSeq(t, 1, i - 1))
             /\ ~WantsOperand(t) /\ Depth(t, 1, Len(t)) = 0}

-----------------------------------------------------------------------------
(* What an expression means: the grammar                                   *)
(*   Sum     = Product, or Sum and Product joined by + or -                *)
(*   Product = Factor, or Product and Factor joined by * or /              *)
(*   Factor  = a number, a Sum in parentheses, or - or * before a Factor   *)
(* with the values as sets, empty where there is none: for tokens that are *)
(* not of that form, and for a division by zero.                           *)

Joined(type, a, b) ==
    CASE type = "+" -> a + b
      [] type = "-" -> a - b
      [] type = "*" -> a * b
      [] type = "/" -> Quotient(a, b)

SumRule(t, m, p, q) ==
    m[<<"Product", p, q>>] \union
    UNION {{Joined(t[i].type, a, b) : a \in m[<<"Sum", p, i - 1>>], b \in m[<<"Product", i + 1, q>>]}
           : i \in {i \in p + 1 .. q - 1 : t[i].type \in {"+", "-"}}}

ProductRule(t, m, p, q) ==
    m[<<"Factor", p, q>>] \union
    UNION {{Joined(t[i].type, a, b) : a \in m[<<"Product", p, i - 1>>],
              b \in {b \in m[<<"Factor", i + 1, q>>] : t[i].type = "/" => b # 0}}
           : i \in {i \in p + 1 .. q - 1 : t[i].type \in {"*", "/"}}}

FactorRule(t, m, p, q) ==
    CASE p = q -> IF t[p].type = "num" THEN {t[p].val} ELSE {}
      [] p < q /\ t[p].type = "(" /\ t[q].type = ")" -> m[<<"Sum", p + 1, q - 1>>]
      [] p < q /\ t[p].type = "-" -> {-v : v \in m[<<"Factor", p + 1, q>>]}
      [] p < q /\ t[p].type = "*" -> {vaddr_read(v) : v \in m[<<"Factor", p + 1, q>>]}
      [] OTHER -> {}

Kinds == {"Sum", "Product", "Factor"}
Phrases(t) == Kinds \X (1 .. Len(t)) \X (1 .. Len(t))

\* The values of the tokens from p to q as a phrase of a kind.
Rule(t, m, kind, p, q) ==
    CASE kind = "Sum" -> SumRule(t, m, p, q)
      [] kind = "Product" -> ProductRule(t, m, p, q)
      [] kind = "Factor" -> FactorRule(t, m, p, q)

Meaning(t) == LET m[r \in Phrases(t)] == Rule(t, m, r[1], r[2], r[3]) IN m

\* The value of the expression is what expr computes: precedence,
\* associativity, parentheses and the signs that are unary by their place come
\* out right.  expr.c:513: of unary operators the first is applied last, of
\* binary ones the first is applied first, and binary ones before unary ones.
AllRight ==
    \A t \in Texts :
        LET meant == Meaning(t)[<<"Sum", 1, Len(t)>>] IN meant # {} => expr(t) = meant

=============================================================================

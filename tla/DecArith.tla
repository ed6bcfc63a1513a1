------------------------------ MODULE DecArith ------------------------------
(***************************************************************************)
(* A caller computes with Decs: every result is an operand of the next     *)
(* latest, until one overflows, divides by zero, or is enough.          *)
(***************************************************************************)
EXTENDS Decimals

CONSTANTS Starts,     \* Decs to start from
          Operands,   \* second operands
          MaxOps      \* bound: operations in a row

ASSUME ArithAssumption == /\ Operands \subseteq Int
                          /\ Starts \subseteq {x \in Int : Abs(x) < Limit}

VARIABLES acc,        \* the Dec computed so far
          latest,     \* the last operation: name, operands, exact result before the checks
          ops,        \* number of operations
          panicked

arithVars == <<acc, latest, ops, panicked>>

Names == {"Add", "Sub", "Mul", "MulTruncate", "MulInt", "Quo", "QuoTruncate", "QuoRoundUp",
          "QuoInt", "RoundInt", "TruncateInt", "TruncateDec", "Ceil"}

Result(op, a, b) ==
    CASE op = "Add" -> Add(a, b)               [] op = "Sub" -> Sub(a, b)
      [] op = "Mul" -> Mul(a, b)               [] op = "MulTruncate" -> MulTruncate(a, b)
      [] op = "MulInt" -> MulInt(a, b)         [] op = "Quo" -> Quo(a, b)
      [] op = "QuoTruncate" -> QuoTruncate(a, b)
      [] op = "QuoRoundUp" -> QuoRoundUp(a, b) [] op = "QuoInt" -> QuoInt(a, b)
      [] op = "RoundInt" -> RoundInt(a)        [] op = "TruncateInt" -> TruncateInt(a)
      [] op = "TruncateDec" -> TruncateDec(a)  [] op = "Ceil" -> Ceil(a)

Quotients == {"Quo", "QuoTruncate", "QuoRoundUp", "QuoInt"}

\* The operations that compare the result with the limit.
Checked == {"Add", "Sub", "Mul", "MulTruncate", "MulInt", "Quo", "QuoTruncate", "QuoRoundUp"}

ArithInit == /\ acc \in Starts
             /\ latest = [op |-> "none", a |-> 0, b |-> 0, r |-> 0]
             /\ ops = 0 /\ panicked = FALSE

Operate(op, b) ==
    /\ ~ panicked /\ ops < MaxOps
    /\ ops' = ops + 1
    /\ IF op \in Quotients /\ b = 0
       THEN panicked' = TRUE /\ UNCHANGED <<acc, latest>>
       ELSE LET r == Result(op, acc, b)
            IN  /\ panicked' = (op \in Checked /\ Overflows(r))
                /\ acc' = IF panicked' THEN acc ELSE r
                /\ latest' = [op |-> op, a |-> acc, b |-> b, r |-> r]

ArithNext == \E op \in Names, b \in Operands : Operate(op, b)

ArithSpec == ArithInit /\ [][ArithNext]_arithVars

-----------------------------------------------------------------------------
(* Properties *)

\* No sequence of operations leaves a Dec at or above the limit in use: Quo, Mul,
\* Add and Sub panic, and the unchecked ones (QuoInt, Ceil, the truncations) do
\* not lead past it from a number below it, but for Ceil by less than one.
BelowLimit == Abs(acc) < Limit + One

\* Mul is the nearest Dec, and the even one of two that are equally near.
MulNearest ==
    latest.op = "Mul" =>
        LET e == 2 * Abs(latest.r * One - latest.a * latest.b)
        IN  e <= One /\ (e = One => latest.r % 2 = 0)

\* Quo rounds twice: it is off by half a unit and by less than one unit of the
\* doubled precision.
QuoNear ==
    latest.op = "Quo" =>
        2 * One * Abs(latest.r * latest.b - latest.a * One) <= (One + 2) * Abs(latest.b)

\* Truncated products and quotients never exceed the exact one and are less than
\* a unit short of it, on either side of zero.
TruncatesTowardsZero ==
    /\ latest.op = "MulTruncate" =>
          LET short == Abs(latest.a * latest.b) - Abs(latest.r) * One IN 0 <= short /\ short < One
    /\ latest.op = "QuoTruncate" =>
          LET short == Abs(latest.a) * One - Abs(latest.r * latest.b)
          IN  0 <= short /\ short < Abs(latest.b)

\* Ceil is the least whole number that is not below the Dec.
CeilLeast == latest.op = "Ceil" =>
    latest.r % One = 0 /\ latest.r >= latest.a /\ latest.r - One < latest.a

\* Chains of operations on a Dec: Mul is the nearest Dec and the even one of two, Quo
\* is off by half a unit and what its first division cuts off, truncation falls
\* short by less than a unit, Ceil is least, and none is left beyond the limit.
DecExact == MulNearest /\ QuoNear /\ TruncatesTowardsZero /\ CeilLeast /\ BelowLimit
=============================================================================

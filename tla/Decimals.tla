------------------------------ MODULE Decimals ------------------------------
(***************************************************************************)
(* The arithmetic of types/dec.go.  A Dec is its integer: the number of    *)
(* smallest units.  The code fixes ten to the power of 18 units to one and *)
(* 315 bits to a number; both are constants here.                          *)
(***************************************************************************)
EXTENDS Integers

CONSTANTS One,     \* precisionReuse, the number of units of 1
          Limit    \* the first magnitude that is an overflow

ASSUME DecimalsAssumption == /\ One \in Nat /\ One >= 2 /\ One % 2 = 0
                             /\ Limit \in Nat /\ Limit > One

Abs(a) == IF a < 0 THEN - a ELSE a

\* Quo of big.Int, which truncates towards zero, and its remainder.
BigQuo(a, b) == IF (a < 0) = (b < 0) THEN Abs(a) \div Abs(b) ELSE - (Abs(a) \div Abs(b))
BigRem(a, b) == a - b * BigQuo(a, b)

\* Mutant: a half is always rounded up.
chopHalfUp(d) == LET a == (Abs(d) + One \div 2) \div One IN IF d < 0 THEN - a ELSE a

chopPrecisionAndRound(d) ==
    LET quo == Abs(d) \div One
        rem == Abs(d) % One
        up == 2 * rem > One \/ (2 * rem = One /\ quo % 2 = 1)
        a == IF up THEN quo + 1 ELSE quo
    IN  IF d < 0 THEN - a ELSE a

\* Mutant: rounds down.
chopFloor(d) == d \div One

chopPrecisionAndTruncate(d) == BigQuo(d, One)

chopPrecisionAndRoundUp(d) ==
    IF d < 0 \/ d % One = 0 THEN chopPrecisionAndTruncate(d) ELSE BigQuo(d, One) + 1

\* Mutant: the sign is left in.
OverflowsAbove(d) == d >= Limit

Overflows(d) == Abs(d) >= Limit

Add(a, b) == a + b
Sub(a, b) == a - b
Mul(a, b) == chopPrecisionAndRound(a * b)
MulTruncate(a, b) == chopPrecisionAndTruncate(a * b)
MulInt(a, i) == a * i

\* Mutant: the precision is multiplied once.
QuoOnce(a, b) == chopPrecisionAndRound(BigQuo(a * One, b))

\* The quotient is first cut to twice the precision and then chopped.
Quo(a, b) == chopPrecisionAndRound(BigQuo(a * One * One, b))
QuoTruncate(a, b) == chopPrecisionAndTruncate(BigQuo(a * One * One, b))
QuoRoundUp(a, b) == chopPrecisionAndRoundUp(BigQuo(a * One * One, b))
QuoInt(a, i) == BigQuo(a, i)

\* Both up to the limit of NewIntFromBigInt.
RoundInt(d) == chopPrecisionAndRound(d)
TruncateInt(d) == chopPrecisionAndTruncate(d)
TruncateDec(d) == One * chopPrecisionAndTruncate(d)

\* Mutant: the sign of the remainder is not looked at.
CeilAway(d) == One * (IF BigRem(d, One) = 0 THEN BigQuo(d, One) ELSE BigQuo(d, One) + 1)

Ceil(d) == One * (IF BigRem(d, One) <= 0 THEN BigQuo(d, One) ELSE BigQuo(d, One) + 1)

MinDec(a, b) == IF a < b THEN a ELSE b
=============================================================================

------------------------------ MODULE DecCoins ------------------------------
(***************************************************************************)
(* Sequences of calls on the sets of types/dec_coin.go: a caller holds two *)
(* sets and replaces the first by the result of a call.                    *)
(***************************************************************************)
EXTENDS CoinSets, Decimals

CONSTANTS Sets,       \* sets to start from, of valid denominations
          Factors,    \* Decs to multiply and divide by
          IntCoins,   \* lists of whole Coins
          MaxCalls    \* bound: calls

VARIABLES a, b,       \* the two sets
          last,       \* history: the last call, its operands, its result
          calls

vars == <<a, b, last, calls>>

NoCoin == Coin(0, 0)

\* Mutant: the coins keep their order.
FromCoinsUnsorted(cs) == [k \in DOMAIN cs |-> Coin(cs[k].denom, One * cs[k].amount)]

\* NewDecCoinsFromCoins: the list has the length of the argument, not of the set
\* that NewCoins makes of it; NoCoin stands for DecCoin{}, with its nil amount.
NewDecCoinsFromCoins(cs) ==
    LET new == Sort(SelectSeq(cs, NonZero))
    IN  [k \in DOMAIN cs |-> IF k <= Len(new) THEN Coin(new[k].denom, One * new[k].amount)
                             ELSE NoCoin]

negative(cs) == [k \in DOMAIN cs |-> Coin(cs[k].denom, - cs[k].amount)]

SafeSub(xs, ys) == safeAdd(xs, negative(ys))

\* Mutant: only the first coin is looked at.
IsFirstNegative(cs) == cs # << >> /\ cs[1].amount < 0

IsAnyNegative(cs) == \E k \in DOMAIN cs : cs[k].amount < 0

\* Mutant: the larger amount.
IntersectMax(xs, ys) ==
    SelectSeq([k \in DOMAIN xs |->
                  LET m == AmountOf(ys, xs[k].denom)
                  IN  Coin(xs[k].denom, IF xs[k].amount < m THEN m ELSE xs[k].amount)], NonZero)

Intersect(xs, ys) ==
    SelectSeq([k \in DOMAIN xs |-> Coin(xs[k].denom,
                                        MinDec(xs[k].amount, AmountOf(ys, xs[k].denom)))], NonZero)

\* The loop of MulDec, MulDecTruncate, QuoDec and QuoDecTruncate: the results that
\* are not zero are added up.
AddUp(cs) ==
    FoldLeft(LAMBDA res, c : IF NonZero(c) THEN safeAdd(res, <<c>>) ELSE res, << >>, cs)

ScaledAmount(name, x, d) ==
    CASE name = "MulDec" -> Mul(x, d)
      [] name = "MulDecTruncate" -> MulTruncate(x, d)
      [] name = "QuoDec" -> Quo(x, d)
      [] name = "QuoDecTruncate" -> QuoTruncate(x, d)

Scaled(name, cs, d) ==
    AddUp([k \in DOMAIN cs |-> Coin(cs[k].denom, ScaledAmount(name, cs[k].amount, d))])

\* TruncateDecimal: the whole coins, and the change.
Truncated(cs) == AddUp([k \in DOMAIN cs |-> Coin(cs[k].denom, TruncateInt(cs[k].amount))])

\* Mutant: the change is what rounding leaves.
ChangeOfRound(cs) ==
    AddUp([k \in DOMAIN cs |-> Coin(cs[k].denom, cs[k].amount - One * RoundInt(cs[k].amount))])

Change(cs) ==
    AddUp([k \in DOMAIN cs |-> Coin(cs[k].denom, cs[k].amount - One * TruncateInt(cs[k].amount))])

-----------------------------------------------------------------------------
Init == /\ a \in Sets /\ b \in Sets
        /\ last = [op |-> "none", x |-> << >>, y |-> << >>, d |-> 0, r |-> << >>, panic |-> FALSE]
        /\ calls = 0

Call == calls < MaxCalls /\ calls' = calls + 1 /\ UNCHANGED b

\* A call that returns r, or panics.
Returns(op, y, d, r, panic) ==
    /\ last' = [op |-> op, x |-> a, y |-> y, d |-> d, r |-> r, panic |-> panic]
    /\ a' = IF panic THEN a ELSE r

Empty(cs) == NoCoin \in Range(cs)

\* Calls that look at the amounts of an empty DecCoin{} dereference nil.
AddDecs == Call /\ Returns("Add", b, 0, safeAdd(a, b), Empty(a))

SubDecs == /\ Call
           /\ LET diff == SafeSub(a, b)
              IN  Returns("Sub", b, 0, diff, Empty(a) \/ IsAnyNegative(diff))

IntersectDecs == Call /\ Returns("Intersect", b, 0, Intersect(a, b), Empty(a))

Scale(name, d) ==
    /\ Call
    /\ LET div == name \in {"QuoDec", "QuoDecTruncate"}
           zero == div /\ d = 0
       IN  Returns(name, << >>, d, IF zero THEN << >> ELSE Scaled(name, a, d), zero \/ Empty(a))

TruncateDecimal ==
    /\ Call
    /\ Returns("TruncateDecimal", Truncated(a), 0, Change(a),
               Empty(a) \/ IsAnyNegative(a))

NewDecCoins ==
    LET new == Sort(SelectSeq(a, NonZero))
    IN  Call /\ Returns("NewDecCoins", << >>, 0, new,
                        Empty(a) \/ HasDup(new) \/ ~ IsValid(new))

FromCoins(cs) ==
    LET new == Sort(SelectSeq(cs, NonZero))
    IN  Call /\ Returns("NewDecCoinsFromCoins", cs, 0, NewDecCoinsFromCoins(cs),
                        HasDup(new) \/ ~ IsValid(new))

Next == \/ AddDecs \/ SubDecs \/ IntersectDecs \/ TruncateDecimal \/ NewDecCoins
        \/ \E name \in {"MulDec", "MulDecTruncate", "QuoDec", "QuoDecTruncate"}, d \in Factors :
              Scale(name, d)
        \/ \E cs \in IntCoins : FromCoins(cs)

Spec == Init /\ [][Next]_vars

-----------------------------------------------------------------------------
(* Properties *)

Held(cs, denom) == FoldLeft(LAMBDA n, c : IF c.denom = denom THEN n + c.amount ELSE n, 0, cs)

Done(op) == last.op = op /\ ~ last.panic

\* What is truncated and the change make up the set, no zero is in either, and no
\* change is as large as one.
TruncateConserves == Done("TruncateDecimal") /\ Validate(last.x) =>
    /\ \A n \in Denoms : One * Held(last.y, n) + Held(last.r, n) = Held(last.x, n)
    /\ Validate(last.y) /\ Validate(last.r)
    /\ \A k \in DOMAIN last.r : last.r[k].amount < One

\* A difference that does not panic is a valid set again, and adding what was
\* subtracted gives back the set.
SubInvertsAdd == Done("Sub") /\ Validate(last.x) /\ Validate(last.y) =>
    Validate(last.r) /\ safeAdd(last.r, last.y) = last.x

\* The intersection is a valid set within both sets, and no larger one is.
IntersectIsMeet == Done("Intersect") /\ Validate(last.x) /\ Validate(last.y) =>
    /\ Validate(last.r)
    /\ \A n \in Denoms \ BadDenoms :
          Held(last.r, n) = MinDec(Held(last.x, n), Held(last.y, n))

\* From valid sets and positive factors every call makes valid sets, in any order
\* of calls, but for the empty coins that NewDecCoinsFromCoins leaves behind the
\* others when it drops zeros, and what is computed from those.
StaysValid == Validate(last.x) /\ Validate(last.y) /\ last.d >= 0
              /\ last.op \notin {"none", "NewDecCoinsFromCoins"} /\ ~ last.panic => Validate(last.r)

\* NewDecCoinsFromCoins of coins none of which is zero is a valid set with the
\* same amounts.
FromCoinsKeeps ==
    Done("NewDecCoinsFromCoins") =>
        IF \A k \in DOMAIN last.y : NonZero(last.y[k])
        THEN Validate(last.r) /\ \A n \in Denoms : Held(last.r, n) = One * Held(last.y, n)
        ELSE Empty(last.r)
=============================================================================

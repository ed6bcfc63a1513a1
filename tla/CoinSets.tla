------------------------------ MODULE CoinSets ------------------------------
(***************************************************************************)
(* What types/coin.go and types/dec_coin.go compute from lists of coins.   *)
(* The two files have the same code for Coins and for DecCoins; amounts    *)
(* are integers, those of a DecCoin in smallest units.  Denominations are  *)
(* the numbers of their order: the upper-case ones come first.             *)
(***************************************************************************)
EXTENDS Integers, Sequences, SequencesExt

CONSTANTS Denoms,      \* denominations
          UpperDenoms, \* those with an upper-case letter
          BadDenoms    \* those that ValidateDenom refuses

ASSUME DenomsAssumption == /\ Denoms \subseteq Nat \ {0}
                           /\ UpperDenoms \subseteq Denoms /\ BadDenoms \subseteq Denoms

ValidateDenom(denom) == denom \notin BadDenoms

Coin(denom, amount) == [denom |-> denom, amount |-> amount]

\* Sort, which is stable for the short lists that it sorts by insertion.
Sort(cs) == SortSeq(cs, LAMBDA x, y : x.denom < y.denom)

NonZero(c) == c.amount # 0

\* findDup, on a sorted list.
HasDup(cs) == \E k \in 2 .. Len(cs) : cs[k].denom = cs[k - 1].denom

IsValid(cs) ==
    cs # << >> =>
        /\ ValidateDenom(cs[1].denom) /\ cs[1].amount > 0
        /\ \A k \in 2 .. Len(cs) :
              /\ cs[k].denom \notin UpperDenoms
              /\ cs[k].denom > cs[k - 1].denom
              /\ cs[k].amount > 0

\* Mutant: the order is not checked.
ValidateUnordered(cs) ==
    \A k \in DOMAIN cs :
        /\ ValidateDenom(cs[k].denom) /\ cs[k].amount > 0
        /\ \A j \in 1 .. k - 1 : cs[j].denom # cs[k].denom

Validate(cs) ==
    \A k \in DOMAIN cs :
        /\ ValidateDenom(cs[k].denom) /\ cs[k].amount > 0
        /\ \A j \in 1 .. k - 1 : cs[j].denom # cs[k].denom
        /\ k > 1 => cs[k].denom > cs[k - 1].denom

\* Mutant: the lower half loses its last coin.
AmountOfShort(cs, denom) ==
    LET find[lo \in 1 .. Len(cs) + 1, hi \in 0 .. Len(cs)] ==
            LET n == hi - lo + 1
                mid == lo + n \div 2
            IN  CASE n <= 0 -> 0
                  [] n = 1 -> IF cs[lo].denom = denom THEN cs[lo].amount ELSE 0
                  [] n > 1 -> IF denom < cs[mid].denom
                              THEN find[lo, IF mid - 2 < lo - 1 THEN lo - 1 ELSE mid - 2]
                              ELSE IF denom = cs[mid].denom THEN cs[mid].amount
                              ELSE find[mid + 1, hi]
    IN  find[1, Len(cs)]

\* AmountOf, a binary search: find[lo, hi] is AmountOf of coins[lo .. hi].
AmountOf(cs, denom) ==
    LET find[lo \in 1 .. Len(cs) + 1, hi \in 0 .. Len(cs)] ==
            LET n == hi - lo + 1
                mid == lo + n \div 2
            IN  CASE n <= 0 -> 0
                  [] n = 1 -> IF cs[lo].denom = denom THEN cs[lo].amount ELSE 0
                  [] n > 1 -> IF denom < cs[mid].denom THEN find[lo, mid - 1]
                              ELSE IF denom = cs[mid].denom THEN cs[mid].amount
                              ELSE find[mid + 1, hi]
    IN  find[1, Len(cs)]

\* Mutant: zeros stay.
KeepAll(c) == <<c>>

Keep(c) == IF NonZero(c) THEN <<c>> ELSE << >>

\* Mutant: of two equal denominations only the first index moves on.
safeAddTwice(as, bs) ==
    LET merge[i \in 1 .. Len(as) + 1, j \in 1 .. Len(bs) + 1] ==
            IF i > Len(as) THEN SelectSeq(SubSeq(bs, j, Len(bs)), NonZero)
            ELSE IF j > Len(bs) THEN SelectSeq(SubSeq(as, i, Len(as)), NonZero)
            ELSE IF as[i].denom < bs[j].denom THEN Keep(as[i]) \o merge[i + 1, j]
            ELSE IF as[i].denom > bs[j].denom THEN Keep(bs[j]) \o merge[i, j + 1]
            ELSE Keep(Coin(as[i].denom, as[i].amount + bs[j].amount)) \o merge[i + 1, j]
    IN  merge[1, 1]

\* safeAdd: merge[i, j] is the sum of as[i ..] and bs[j ..].
safeAdd(as, bs) ==
    LET merge[i \in 1 .. Len(as) + 1, j \in 1 .. Len(bs) + 1] ==
            IF i > Len(as) THEN SelectSeq(SubSeq(bs, j, Len(bs)), NonZero)
            ELSE IF j > Len(bs) THEN SelectSeq(SubSeq(as, i, Len(as)), NonZero)
            ELSE IF as[i].denom < bs[j].denom THEN Keep(as[i]) \o merge[i + 1, j]
            ELSE IF as[i].denom > bs[j].denom THEN Keep(bs[j]) \o merge[i, j + 1]
            ELSE Keep(Coin(as[i].denom, as[i].amount + bs[j].amount)) \o merge[i + 1, j + 1]
    IN  merge[1, 1]

\* The indices at which the loop of safeAdd leaves a list: from there on the
\* list is handed to removeZeroCoins, which works in place.
\* <<i, j>> with i past the end of as or j past the end of bs.
Rest(as, bs) ==
    LET walk[i \in 1 .. Len(as) + 1, j \in 1 .. Len(bs) + 1] ==
            IF i > Len(as) \/ j > Len(bs) THEN <<i, j>>
            ELSE walk[IF as[i].denom <= bs[j].denom THEN i + 1 ELSE i,
                      IF as[i].denom >= bs[j].denom THEN j + 1 ELSE j]
    IN  walk[1, 1]

\* The loop of removeZeroCoins on cs[from ..], in the array of cs: the coins that
\* stay move down, the places behind them are not cleared.
Compacted(cs, from) ==
    LET round(s, k) ==
            IF NonZero(s.cs[s.i]) THEN [s EXCEPT !.i = @ + 1]
            ELSE [s EXCEPT !.l = @ - 1,
                           !.cs = [n \in DOMAIN cs |->
                                      IF s.i <= n /\ n < s.l THEN s.cs[n + 1] ELSE s.cs[n]]]
    IN  FoldLeft(round, [cs |-> cs, i |-> from, l |-> Len(cs)], SubSeq(cs, from, Len(cs))).cs
=============================================================================

-------------------------------- MODULE Coins --------------------------------
(***************************************************************************)
(* Callers of types/coin.go and the memory they share with it.  A Coins is *)
(* a slice: an array and a length.  NewCoins and removeZeroCoins work in   *)
(* the array of the slice they are given, IsEqual sorts both of its        *)
(* slices, safeAdd builds a new array.                                     *)
(***************************************************************************)
EXTENDS CoinSets

CONSTANTS Slots,      \* variables of the caller that hold a Coins: 1 .. n
          Literals,   \* the lists of coins that the caller starts with
          Parsed,     \* lists of coins that ParseCoins finds in a text
          MaxCalls    \* bound: calls

VARIABLES arrays,     \* the arrays
          slots,      \* slots[x] = [array, len]
          built,      \* history: what a call returned to x, and whether it was given zeros
          last,       \* history: the last call
          calls

vars == <<arrays, slots, built, last, calls>>

Value(x) == SubSeq(arrays[slots[x].array], 1, slots[x].len)

Nothing == [by |-> "none", cs |-> << >>, zeros |-> FALSE]

Init == /\ arrays \in [Slots -> Literals]
        /\ slots = [x \in Slots |-> [array |-> x, len |-> Len(arrays[x])]]
        /\ built = [x \in Slots |-> Nothing]
        /\ last = [op |-> "none", a |-> << >>, b |-> << >>, r |-> << >>, panic |-> FALSE]
        /\ calls = 0

Call == calls < MaxCalls /\ calls' = calls + 1

\* x becomes a new array.
Fresh(x, cs) == /\ arrays' = Append(arrays, cs)
                /\ slots' = [slots EXCEPT ![x] = [array |-> Len(arrays) + 1, len |-> Len(cs)]]

Did(op, a, b, r, panic) == last' = [op |-> op, a |-> a, b |-> b, r |-> r, panic |-> panic]

\* Mutant: the set keeps the length of the slice it was made from, plus one.
NewCoinsLonger(x, y) ==
    /\ Call
    /\ Did("NewCoins", Value(y), << >>, Value(y), FALSE)
    /\ slots' = [slots EXCEPT ![x] = [array |-> slots[y].array, len |-> slots[y].len + 1]]
    /\ UNCHANGED <<arrays, built>>

\* x = NewCoins(y...)
NewCoins(x, y) ==
    LET cs == Value(y)
        n == Len(SelectSeq(cs, NonZero))
        compact == Compacted(cs, 1)
        sorted == Sort(SubSeq(compact, 1, n))
        panic == HasDup(sorted) \/ ~ IsValid(sorted)
        tail == SubSeq(arrays[slots[y].array], Len(cs) + 1, Len(arrays[slots[y].array]))
    IN  /\ Call
        /\ Did("NewCoins", cs, << >>, sorted, panic)
        /\ arrays' = [arrays EXCEPT ![slots[y].array] =
                          sorted \o SubSeq(compact, n + 1, Len(compact)) \o tail]
        /\ IF panic THEN UNCHANGED <<slots, built>>
           ELSE /\ slots' = [slots EXCEPT ![x] = [array |-> slots[y].array, len |-> n]]
                /\ built' = [built EXCEPT ![x] = [by |-> "NewCoins", cs |-> sorted,
                                                  zeros |-> n < Len(cs) \/ built[y].zeros]]

\* The array of y after the part of it from an index on was given to removeZeroCoins.
Swept(as, y, from) ==
    IF from > slots[y].len THEN as
    ELSE LET a == slots[y].array
             cs == SubSeq(as[a], 1, slots[y].len)
         IN  [as EXCEPT ![a] = Compacted(cs, from) \o SubSeq(@, slots[y].len + 1, Len(@))]

\* Mutant: a sum that fits is written over the coins of the receiver.
AddInPlace(x, y, z) ==
    LET r == safeAdd(Value(y), Value(z))
        a == slots[y].array
        fits == Len(r) <= slots[y].len
    IN  /\ Call
        /\ Did("Add", Value(y), Value(z), r, FALSE)
        /\ arrays' = IF fits THEN [arrays EXCEPT ![a] = r \o SubSeq(@, Len(r) + 1, Len(@))]
                     ELSE Append(arrays, r)
        /\ slots' = [slots EXCEPT ![x] = [array |-> IF fits THEN a ELSE Len(arrays) + 1,
                                          len |-> Len(r)]]
        /\ built' = [built EXCEPT ![x] = [by |-> "Add", cs |-> r, zeros |-> FALSE]]

\* x = y.Add(z...)
Add(x, y, z) ==
    LET r == safeAdd(Value(y), Value(z))
        ends == Rest(Value(y), Value(z))
        swept == IF ends[1] > slots[y].len THEN Swept(arrays, z, ends[2])
                 ELSE Swept(arrays, y, ends[1])
    IN  /\ Call
        /\ Did("Add", Value(y), Value(z), r, FALSE)
        /\ arrays' = Append(swept, r)
        /\ slots' = [slots EXCEPT ![x] = [array |-> Len(arrays) + 1, len |-> Len(r)]]
        /\ built' = [built EXCEPT ![x] = [by |-> "Add", cs |-> r, zeros |-> FALSE]]

\* The array of y after its slice was sorted.
Sorted(as, y) ==
    [as EXCEPT ![slots[y].array] = Sort(SubSeq(@, 1, slots[y].len))
                                   \o SubSeq(@, slots[y].len + 1, Len(@))]

\* y.IsEqual(z), which panics at the first pair of different denominations.
IsEqual(y, z) ==
    LET as == Sorted(Sorted(arrays, y), z)
        ys == SubSeq(as[slots[y].array], 1, slots[y].len)
        zs == SubSeq(as[slots[z].array], 1, slots[z].len)
        first == {k \in DOMAIN ys : ys[k] # zs[k] /\ \A j \in 1 .. k - 1 : ys[j] = zs[j]}
    IN  /\ Call
        /\ IF slots[y].len # slots[z].len
           THEN Did("IsEqual", Value(y), Value(z), << >>, FALSE) /\ UNCHANGED arrays
           ELSE /\ arrays' = as
                /\ Did("IsEqual", ys, zs, << >>, \E k \in first : ys[k].denom # zs[k].denom)
        /\ UNCHANGED <<slots, built>>

\* x = ParseCoins of a text with the coins cs; an error leaves x as it is.
ParseCoins(x, cs) ==
    LET sorted == Sort(cs)
    IN  /\ Call
        /\ Did("ParseCoins", cs, << >>, sorted, FALSE)
        /\ IF (\E k \in DOMAIN cs : ~ ValidateDenom(cs[k].denom)) \/ ~ IsValid(sorted)
           THEN UNCHANGED <<arrays, slots, built>>
           ELSE /\ Fresh(x, sorted)
                /\ built' = [built EXCEPT ![x] = [by |-> "ParseCoins", cs |-> sorted,
                                                  zeros |-> FALSE]]

Next == \/ \E x, y \in Slots : NewCoins(x, y)
        \/ \E x, y, z \in Slots : Add(x, y, z)
        \/ \E y, z \in Slots : IsEqual(y, z)
        \/ \E x \in Slots, cs \in Parsed : ParseCoins(x, cs)

Spec == Init /\ [][Next]_vars

-----------------------------------------------------------------------------
(* Properties *)

TypeOK == /\ \A k \in DOMAIN arrays : arrays[k] \in Seq([denom : Denoms, amount : Int])
          /\ \A x \in Slots : slots[x].array \in DOMAIN arrays
                              /\ slots[x].len \in 0 .. Len(arrays[slots[x].array])

\* A valid set that NewCoins, Add or ParseCoins returned does not change in the hands
\* of its holder, whatever is done with the other slices, unless NewCoins was
\* given a slice that held a zero: that slice keeps the array and its old length,
\* and sorting it moves its stale tail into the set.
ResultsKept == \A x \in Slots :
    Validate(built[x].cs) /\ built[x].by # "none" /\ ~ built[x].zeros => Value(x) = built[x].cs

\* The sum of two valid sets is a valid set that holds the sum of the amounts of
\* each denomination.
Held(cs, denom) == FoldLeft(LAMBDA n, c : IF c.denom = denom THEN n + c.amount ELSE n, 0, cs)

AddIsSum == last.op = "Add" /\ Validate(last.a) /\ Validate(last.b) =>
    /\ Validate(last.r)
    /\ \A d \in Denoms : Held(last.r, d) = Held(last.a, d) + Held(last.b, d)

\* The binary search finds the amount in every valid set that a call returned.
AmountOfIsHeld == \A x \in Slots : built[x].by # "none" /\ Validate(Value(x)) =>
    \A d \in Denoms \ BadDenoms : AmountOf(Value(x), d) = Held(Value(x), d)

\* The two checks of a set differ only about denominations: IsValid takes a bad
\* one behind the first, Validate an upper-case one.
ChecksAgree == \A cs \in {last.a, last.b, last.r} :
    (\A k \in 2 .. Len(cs) : cs[k].denom \notin UpperDenoms \cup BadDenoms) =>
        (IsValid(cs) <=> Validate(cs))
=============================================================================

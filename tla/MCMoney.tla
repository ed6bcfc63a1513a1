------------------------------- MODULE MCMoney -------------------------------
(***************************************************************************)
(* Amounts: Dec, its roots, Coins, DecCoins and the units of tokens.  The  *)
(* parts share no state; Init chooses the one that moves.  DecCoins and    *)
(* DecArith are in the module itself, the others are its instances Newton, *)
(* Whole and Units.                                                        *)
(***************************************************************************)
EXTENDS DecCoins, DecArith

VARIABLES part,
          d, root, negated, guess, delta, iter, pc,
          arrays, slots, built, call, made,
          issued, cache, step, coin, main, token, failures, start, lost

rootVars == <<d, root, negated, guess, delta, iter, pc>>
coinsVars == <<arrays, slots, built, call, made>>
tokenVars == <<issued, cache, step, coin, main, token, failures, start, lost>>

SomeStarts == {-1, 0, 37, 199, 1999}
SomeOperands == -12 .. 12 \cup {-1999, -101, 101, 1999}

Newton == INSTANCE ApproxRoot WITH
    One <- 100, Limit <- 20000, Roots <- 0 .. 4, maxApproxRootIterations <- 6,
    Inputs <- {x \in -3000 .. 19000 : x % 19 = 0 \/ x \in -20 .. 200}

-----------------------------------------------------------------------------
(* 1, 2 and 3 are ABC, abc and abd; 4 is z, too short for a denomination.   *)

Whole == INSTANCE Coins WITH
    last <- call, calls <- made, Slots <- {1, 2}, MaxCalls <- 3,
    Literals <- {<< >>, <<Coin(1, 1)>>, <<Coin(2, 0), Coin(3, 1)>>, <<Coin(3, 1), Coin(2, 1)>>,
                 <<Coin(2, 0), Coin(3, 1), Coin(1, 1)>>, <<Coin(1, 1), Coin(2, 2), Coin(3, 1)>>,
                 <<Coin(2, 2), Coin(2, -2)>>, <<Coin(1, 1), Coin(4, 1)>>},
    Parsed <- {<<Coin(3, 1), Coin(2, 2)>>, <<Coin(2, 1), Coin(4, 1)>>}

Few == {Coin(1, 3), Coin(1, 25), Coin(2, 10), Coin(3, 15)}
SomeSets == {<< >>, <<Coin(2, 10)>>, <<Coin(3, 5)>>}
            \cup {s \in [1 .. 2 -> Few] : s[1].denom < s[2].denom}
            \cup {<<Coin(1, 3), Coin(2, 10), Coin(3, 15)>>, <<Coin(2, 25), Coin(1, 3)>>}
SomeIntCoins == {<< >>, <<Coin(3, 1), Coin(2, 2)>>, <<Coin(2, 0), Coin(3, 1)>>,
                 <<Coin(2, 1), Coin(2, 1)>>}
SomeFactors == {-10, 0, 1, 7, 25}

-----------------------------------------------------------------------------
Lower(denom) == IF denom = "PLUG" THEN "plug" ELSE denom

Units == INSTANCE Tokens WITH
    pc <- step, Limit <- 1000000, Callers <- {"c1", "c2"}, lower <- Lower, Amounts <- {0, 25},
    Tokens <- {[symbol |-> "plug", minUnit |-> "uplug", factor |-> 10],
               [symbol |-> "tok", minUnit |-> "utok", factor |-> 100]},
    Denoms <- {"plug", "uplug", "PLUG", "utok", "other"}, Cached <- TRUE, MaxFailures <- 2

-----------------------------------------------------------------------------
MCInit ==
    /\ part \in {"arith", "root", "coins", "deccoins", "tokens"}
    /\ ArithInit /\ (part # "arith" => acc = 0)
    /\ Newton!Init /\ (part # "root" => d = 0 /\ root = 2)
    /\ Whole!Init /\ (part # "coins" => \A x \in {1, 2} : arrays[x] = << >>)
    /\ Init /\ (part # "deccoins" => a = << >> /\ b = << >>)
    /\ Units!Init /\ (part # "tokens" => /\ issued = {}
                                        /\ \A c \in DOMAIN coin : coin[c] = [denom |-> "other", amount |-> 0])

MCNext ==
    /\ UNCHANGED part
    /\ \/ part = "arith" /\ ArithNext /\ UNCHANGED <<rootVars, coinsVars, vars, tokenVars>>
       \/ part = "root" /\ Newton!Next /\ UNCHANGED <<arithVars, coinsVars, vars, tokenVars>>
       \/ part = "coins" /\ Whole!Next /\ UNCHANGED <<arithVars, rootVars, vars, tokenVars>>
       \/ part = "deccoins" /\ Next /\ UNCHANGED <<arithVars, rootVars, coinsVars, tokenVars>>
       \/ part = "tokens" /\ Units!Next /\ UNCHANGED <<arithVars, rootVars, coinsVars, vars>>

MCSpec == MCInit /\ [][MCNext]_<<part, arithVars, rootVars, coinsVars, vars, tokenVars>>

\* ApproxSqrt that ends by itself is within two units of the root; the bound on
\* Newton's rounds cuts only the roots of large numbers short.
RootsClose == part = "root" => Newton!SqrtClose /\ Newton!CutShortOnlyIfLarge

\* A set that NewCoins, Add or ParseCoins returned stays as it is, and slices stay
\* within their arrays.
ResultsKept == part = "coins" => Whole!TypeOK /\ Whole!ResultsKept

\* Add is the valid set of the sums, AmountOf finds every amount, IsValid and
\* Validate differ about denominations only.
CoinsAgree == part = "coins" => Whole!AddIsSum /\ Whole!AmountOfIsHeld /\ Whole!ChecksAgree

\* DecCoins: truncation and change make up the set, Sub inverts Add, Intersect is the
\* meet, NewDecCoinsFromCoins keeps amounts, and sets stay valid in chains of calls.
DecCoinsAgree == part = "deccoins" =>
                 /\ TruncateConserves /\ SubInvertsAdd /\ IntersectIsMeet
                 /\ FromCoinsKeeps /\ StaysValid

\* A coin is worth the same after ToMainCoin and ToMinCoin, which panics only on what
\* ToMainCoin left empty or without a connection.
UnitsKeepValue == part = "tokens" => Units!ValueKept /\ Units!PanicOnlyOnMainUnit
=============================================================================

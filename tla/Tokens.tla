-------------------------------- MODULE Tokens --------------------------------
(***************************************************************************)
(* tokenQuery (modules/token.go) over the LRU of utils/cache, and the      *)
(* conversions of types/coin_type.go.  Callers turn a whole coin into a    *)
(* main-unit coin and the result back, while tokens are issued, entries    *)
(* leave the cache and queries fail.  What a conversion reads of a token   *)
(* does not change on the chain.                                           *)
(***************************************************************************)
EXTENDS Decimals

CONSTANTS Callers,
          Tokens,     \* the tokens: [symbol, minUnit, factor], factor = 10^scale
          Denoms,     \* denominations that callers use
          lower(_),   \* ToLower
          Amounts,    \* whole amounts
          Cached,     \* whether the cache is enabled
          MaxFailures \* bound: failed queries

VARIABLES issued,     \* the tokens on the chain
          cache,      \* cache[key]: at most one token
          pc, coin, main, token,   \* of each caller
          failures,
          start,      \* history: the coin that a caller began with
          lost        \* history: which look-ups of a caller failed or found no token

vars == <<issued, cache, pc, coin, main, token, failures, start, lost>>

Keys == {t.symbol : t \in Tokens} \cup {t.minUnit : t \in Tokens}
NoToken == [symbol |-> "", minUnit |-> "", factor |-> 1]
NoDecCoin == [denom |-> "", amount |-> << >>]

-----------------------------------------------------------------------------
(* types/coin_type.go; an amount is a sequence that is empty for nil        *)

hasUnit(t, denom) == denom \in {t.symbol, t.minUnit}

\* Mutant: a coin of another token becomes an empty one.
ConvertUnknownEmpty(t, c) ==
    IF ~ hasUnit(t, c.denom) \/ c.denom = t.symbol THEN NoDecCoin
    ELSE [denom |-> t.symbol, amount |-> <<Quo(Mul(One * c.amount, One), One * t.factor)>>]

ConvertToMainCoin(t, c) ==
    IF ~ hasUnit(t, c.denom) THEN [denom |-> c.denom, amount |-> <<One * c.amount>>]
    ELSE IF c.denom = t.symbol THEN NoDecCoin
    ELSE [denom |-> t.symbol, amount |-> <<Quo(Mul(One * c.amount, One), One * t.factor)>>]

ConvertToMinCoin(t, c) ==
    IF ~ hasUnit(t, c.denom) \/ c.denom = t.minUnit
    THEN [denom |-> c.denom, amount |-> TruncateInt(c.amount[1])]
    ELSE [denom |-> t.minUnit, amount |-> RoundInt(Quo(Mul(c.amount[1], One * t.factor), One))]

-----------------------------------------------------------------------------
Init == /\ issued \in SUBSET Tokens
        /\ cache = [k \in Keys |-> << >>]
        /\ pc = [c \in Callers |-> "ToMainCoin"]
        /\ coin \in [Callers -> [denom : Denoms, amount : Amounts]]
        /\ main = [c \in Callers |-> NoDecCoin]
        /\ token = [c \in Callers |-> NoToken]
        /\ failures = 0 /\ start = coin
        /\ lost = [c \in Callers |-> {}]

\* The denomination that the conversion at hand looks up.
Denom(c) == IF pc[c] \in {"ToMainCoin", "MainQuery"} THEN coin[c].denom ELSE main[c].denom

Go(c, to) == pc' = [pc EXCEPT ![c] = to]
QueryAt == [ToMainCoin |-> "MainQuery", ToMinCoin |-> "MinQuery"]
ConvertAt == [ToMainCoin |-> "MainConvert", MainQuery |-> "MainConvert",
              ToMinCoin |-> "MinConvert", MinQuery |-> "MinConvert"]

\* QueryToken: the cache first.
Get(c) ==
    /\ pc[c] \in {"ToMainCoin", "ToMinCoin"}
    /\ LET key == lower(Denom(c))
           hit == Cached /\ key \in Keys /\ cache[key] # << >>
       IN  IF hit THEN Go(c, ConvertAt[pc[c]]) /\ token' = [token EXCEPT ![c] = cache[key][1]]
           ELSE Go(c, QueryAt[pc[c]]) /\ UNCHANGED token
    /\ UNCHANGED <<issued, cache, coin, main, failures, start, lost>>

\* A query that fails, or finds no token, is answered with an empty token.
QueryFails(c) ==
    /\ pc[c] \in {"MainQuery", "MinQuery"}
    /\ \/ failures < MaxFailures /\ failures' = failures + 1
       \/ /\ \A t \in issued : ~ hasUnit(t, lower(Denom(c)))
          /\ UNCHANGED failures
    /\ token' = [token EXCEPT ![c] = NoToken]
    /\ lost' = [lost EXCEPT ![c] = @ \cup {pc[c]}]
    /\ Go(c, ConvertAt[pc[c]])
    /\ UNCHANGED <<issued, cache, coin, main, start>>

\* The answer cannot be unpacked: an error.  Dial fails: the deferred Close of the
\* connection that is nil panics.
QueryStops(c) ==
    /\ pc[c] \in {"MainQuery", "MinQuery"}
    /\ failures < MaxFailures /\ failures' = failures + 1
    /\ \/ Go(c, "error") /\ UNCHANGED lost
       \/ Go(c, "panic") /\ lost' = [lost EXCEPT ![c] = @ \cup {"dial"}]
    /\ UNCHANGED <<issued, cache, coin, main, token, start>>

\* The two Sets store the same token; a Set whose sibling is not done yet is the
\* same as both with one dropped.
SaveTokens(t) ==
    cache' = IF Cached THEN [cache EXCEPT ![t.symbol] = <<t>>, ![t.minUnit] = <<t>>] ELSE cache

\* Mutant: the token is saved under the keys of another.
QueryMixed(c) ==
    /\ pc[c] \in {"MainQuery", "MinQuery"}
    /\ \E t \in issued :
          /\ hasUnit(t, lower(Denom(c)))
          /\ token' = [token EXCEPT ![c] = t]
          /\ cache' = [k \in Keys |-> <<t>>]
    /\ Go(c, ConvertAt[pc[c]])
    /\ UNCHANGED <<issued, coin, main, failures, start, lost>>

Query(c) ==
    /\ pc[c] \in {"MainQuery", "MinQuery"}
    /\ \E t \in issued :
          /\ hasUnit(t, lower(Denom(c)))
          /\ token' = [token EXCEPT ![c] = t]
          /\ SaveTokens(t)
    /\ Go(c, ConvertAt[pc[c]])
    /\ UNCHANGED <<issued, coin, main, failures, start, lost>>

Convert(c) ==
    /\ \/ /\ pc[c] = "MainConvert"
          /\ main' = [main EXCEPT ![c] = ConvertToMainCoin(token[c], coin[c])]
          /\ Go(c, "ToMinCoin") /\ UNCHANGED coin
       \/ /\ pc[c] = "MinConvert"
          /\ IF main[c].amount = << >> THEN Go(c, "panic") /\ UNCHANGED coin
             ELSE /\ coin' = [coin EXCEPT ![c] = ConvertToMinCoin(token[c], main[c])]
                  /\ Go(c, "done")
          /\ UNCHANGED main
    /\ UNCHANGED <<issued, cache, token, failures, start, lost>>

\* The LRU drops an entry; a token is issued.
CacheDrops == \E k \in Keys : /\ cache[k] # << >>
                              /\ cache' = [cache EXCEPT ![k] = << >>]
                              /\ UNCHANGED <<issued, pc, coin, main, token, failures, start, lost>>
Issue == \E t \in Tokens \ issued : /\ issued' = issued \cup {t}
                                    /\ UNCHANGED <<cache, pc, coin, main, token, failures, start, lost>>

Next == CacheDrops \/ Issue
        \/ \E c \in Callers : Get(c) \/ QueryFails(c) \/ QueryStops(c) \/ Query(c) \/ Convert(c)

Spec == Init /\ [][Next]_vars

-----------------------------------------------------------------------------
(* Properties *)

\* What a coin is worth in the min unit of its token.
Worth(c) == LET main_ == {t \in Tokens : t.symbol = c.denom}
            IN  IF main_ = {} THEN c.amount
                ELSE c.amount * (CHOOSE t \in main_ : TRUE).factor

FactorOf(denom) == LET ts == {t \in Tokens : hasUnit(t, denom)}
                   IN  IF ts = {} THEN 1 ELSE (CHOOSE t \in ts : TRUE).factor

\* A coin of a token whose scale is within the precision of a Dec is worth the
\* same after the way to the main unit and back, whatever the cache dropped and
\* whichever query failed on the way there.  A query that fails on the way back
\* cuts it to whole main units, and the caller is not told.
ValueKept == \A c \in Callers :
    pc[c] = "done" /\ FactorOf(start[c].denom) <= One =>
        LET loss == Worth(start[c]) - Worth(coin[c])
        IN  /\ 0 <= loss /\ loss < FactorOf(start[c].denom)
            /\ "MinQuery" \notin lost[c] => loss = 0

\* ToMinCoin panics on the empty coin that ToMainCoin returns for a coin that is
\* in the main unit of an issued token, or when the connection fails.
PanicOnlyOnMainUnit == \A c \in Callers :
    pc[c] = "panic" => "dial" \in lost[c] \/ start[c].denom \in {t.symbol : t \in issued}
=============================================================================

----------------------------- MODULE ApproxRoot -----------------------------
(***************************************************************************)
(* ApproxRoot of types/dec.go: Newton's method for a root of a Dec, with a *)
(* recover around it.                                                      *)
(***************************************************************************)
EXTENDS Decimals

CONSTANTS Inputs,                   \* Decs
          Roots,
          maxApproxRootIterations

VARIABLES d, root,
          negated,      \* whether d is the Dec that ApproxRoot calls itself with
          guess, delta, iter,
          pc            \* "start", "loop", "done", "error"

vars == <<d, root, negated, guess, delta, iter, pc>>

\* The result of an operation that panics.
Panic == Limit
Bounded(r) == IF Overflows(r) THEN Panic ELSE r
Times(a, b) == IF Panic \in {a, b} THEN Panic ELSE Bounded(Mul(a, b))

\* The variables i, d and tmp of Power after one round of its loop.
PowerRound(s) == [i |-> s.i \div 2, x |-> Times(s.x, s.x),
                  tmp |-> IF s.i % 2 = 0 THEN s.tmp ELSE Times(s.tmp, s.x)]

RECURSIVE PowerLoop(_)
PowerLoop(s) == IF s.i <= 1 THEN Times(s.x, s.tmp) ELSE PowerLoop(PowerRound(s))

Power(x, power) == IF power = 0 THEN One ELSE PowerLoop([i |-> power, x |-> x, tmp |-> One])

Init == /\ d \in Inputs /\ root \in Roots
        /\ negated = FALSE
        /\ guess = One /\ delta = One /\ iter = 0
        /\ pc = "start"

Start == /\ pc = "start"
         /\ \/ /\ d < 0
               /\ d' = - d /\ negated' = TRUE
               /\ UNCHANGED <<guess, delta, pc>>
            \/ /\ d >= 0 /\ (root = 1 \/ d = 0 \/ d = One)
               /\ guess' = d /\ pc' = "done"
               /\ UNCHANGED <<d, negated, delta>>
            \/ /\ d > 0 /\ d # One /\ root = 0
               /\ guess' = One /\ pc' = "done"
               /\ UNCHANGED <<d, negated, delta>>
            \/ /\ d > 0 /\ d # One /\ root > 1
               /\ pc' = "loop"
               /\ UNCHANGED <<d, negated, guess, delta>>
         /\ UNCHANGED <<root, iter>>

\* Mutant: the step is not divided by the root.
IterateFull ==
    /\ pc = "loop" /\ Abs(delta) > 1 /\ iter < maxApproxRootIterations
    /\ LET power == Power(guess, root - 1)
           prev == IF power = 0 THEN 1 ELSE power
           quo == IF prev = Panic THEN Panic ELSE Bounded(Quo(d, prev))
       IN  IF quo = Panic
           THEN pc' = "error" /\ UNCHANGED <<guess, delta, iter>>
           ELSE /\ delta' = quo - guess /\ guess' = quo /\ iter' = iter + 1
                /\ UNCHANGED pc
    /\ UNCHANGED <<d, root, negated>>

Iterate ==
    /\ pc = "loop" /\ Abs(delta) > 1 /\ iter < maxApproxRootIterations
    /\ LET power == Power(guess, root - 1)
           prev == IF power = 0 THEN 1 ELSE power
           quo == IF prev = Panic THEN Panic ELSE Bounded(Quo(d, prev))
           step == QuoInt(Bounded(quo - guess), root)
       IN  IF quo = Panic \/ Overflows(guess + step)
           THEN pc' = "error" /\ UNCHANGED <<guess, delta, iter>>
           ELSE /\ delta' = step /\ guess' = guess + step /\ iter' = iter + 1
                /\ UNCHANGED pc
    /\ UNCHANGED <<d, root, negated>>

\* Mutant: the step is compared with one and not with the smallest Dec.
StopEarly == /\ pc = "loop" /\ (Abs(delta) <= One \/ iter = maxApproxRootIterations)
             /\ pc' = "done"
             /\ UNCHANGED <<d, root, negated, guess, delta, iter>>

Stop == /\ pc = "loop" /\ (Abs(delta) <= 1 \/ iter = maxApproxRootIterations)
        /\ pc' = "done"
        /\ UNCHANGED <<d, root, negated, guess, delta, iter>>

Next == Start \/ Iterate \/ Stop

Spec == Init /\ [][Next]_vars

-----------------------------------------------------------------------------
(* Properties *)

\* The Dec that the first call returns.
Returned == IF negated THEN - guess ELSE guess

\* ApproxSqrt never answers "out of bounds", and an answer that the iterations
\* did not cut short is within two units of the square root: one of Newton's last
\* step and one of the rounding.
SqrtClose ==
    root = 2 =>
        /\ pc # "error"
        /\ pc = "done" /\ iter < maxApproxRootIterations =>
              LET g == Abs(Returned)
              IN  /\ g <= 2 \/ (g - 2) * (g - 2) <= d * One
                  /\ d * One <= (g + 2) * (g + 2)

\* The least k with n <= base ^ k.
LogUp(base, n) == CHOOSE k \in 0 .. n : n <= base ^ k /\ \A j \in 0 .. k - 1 : base ^ j < n

\* Rounds in which the guess is halved, from half of d, or of one, down to the root.
Halvings == IF d > One THEN LogUp(4, (d + One - 1) \div One) ELSE LogUp(4, (One + d - 1) \div d)

\* Rounds in which the number of its exact bits doubles, up to all bits of the root.
Doublings == LogUp(2, LogUp(2, d * One))

\* The bound on the rounds cuts a square root short, without an error, only if d is so
\* far from one that Newton's method needs that many rounds to come near the root and
\* then to all of its digits.
CutShortOnlyIfLarge ==
    root = 2 /\ pc = "done" /\ iter = maxApproxRootIterations =>
        maxApproxRootIterations <= Halvings + Doublings
=============================================================================

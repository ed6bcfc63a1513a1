-------------------------- MODULE ArithmeticProofs --------------------------
(***************************************************************************)
(* Proofs that rest on division with remainder.                            *)
(*                                                                         *)
(* That NewV1 of utils/uuid/generator.go repeats itself only after the     *)
(* clock sequence has gone round, for any number of goroutines, any width  *)
(* of the sequence and of its visible part, and any clock.  Each UUID is   *)
(* tied to the present clock sequence by the number of increments since it *)
(* was drawn, modulo its width, so that two equal ones are a whole round   *)
(* apart; UUIDs without an increment between them have growing times.      *)
(*                                                                         *)
(* That the operations of types/dec.go round as they promise, for any      *)
(* operands, any even precision and any limit.  Each is an operation on    *)
(* magnitudes with a sign; the two divisions of Quo and QuoTruncate are    *)
(* put together by their remainders.                                       *)
(***************************************************************************)
EXTENDS UuidGenerator, DecArith, SequenceTheorems, TLAPS

\* Division with remainder.
LEMMA DivMod ==
    ASSUME NEW a \in Nat, NEW m \in Nat \ {0}
    PROVE  a \div m \in Nat /\ (a % m) \in 0 .. m - 1 /\ a = m * (a \div m) + (a % m)
    BY SMT

\* Quotient and remainder are unique.
LEMMA Unique ==
    ASSUME NEW m \in Nat \ {0}, NEW p \in Nat, NEW q \in Nat,
           NEW r \in 0 .. m - 1, NEW s \in 0 .. m - 1, m * p + r = m * q + s
    PROVE  p = q /\ r = s
<1>1. ASSUME NEW x \in Nat, NEW y \in Nat, x < y PROVE m * y >= m * x + m
  <2>1. y - x \in Nat \ {0}
    BY <1>1
  <2>2. m * (y - x) >= m
    BY <2>1, SMT
  <2>3. m * (y - x) = m * y - m * x
    BY SMT
  <2>4. m * y \in Int /\ m * x \in Int
    OBVIOUS
  <2> QED
    BY <2>2, <2>3, <2>4
<1>2. m * p \in Int /\ m * q \in Int
    OBVIOUS
<1>3. ~ (p < q) /\ ~ (q < p)
    BY <1>1, <1>2
<1>4. p = q
    BY <1>3
<1> QED
    BY <1>2, <1>4

\* The remainder of a number that is written with a quotient and a remainder.
LEMMA ModOf ==
    ASSUME NEW m \in Nat \ {0}, NEW q \in Nat, NEW r \in 0 .. m - 1
    PROVE  (m * q + r) % m = r
<1> DEFINE a == m * q + r
<1>1. a \in Nat
    BY SMT
<1>2. a \div m \in Nat /\ (a % m) \in 0 .. m - 1 /\ a = m * (a \div m) + (a % m)
    BY <1>1, DivMod, Zenon
<1>3. a = m * q + r
    OBVIOUS
<1> HIDE DEF a
<1>4. m * (a \div m) + (a % m) = m * q + r
    BY <1>2, <1>3, Zenon
<1>5. a % m = r
    BY <1>2, <1>4, Unique, Zenon
<1> QED
    BY <1>5, Zenon DEF a

\* A term can be reduced before it is added to.
LEMMA ModAdd ==
    ASSUME NEW m \in Nat \ {0}, NEW a \in Nat, NEW b \in Nat
    PROVE  ((a % m) + b) % m = (a + b) % m
<1> DEFINE q == a \div m
           r == a % m
           p == (r + b) \div m
           s == (r + b) % m
<1>1. q \in Nat /\ r \in 0 .. m - 1 /\ a = m * q + r
    BY DivMod, Zenon
<1>2. r + b \in Nat
    BY <1>1
<1>3. p \in Nat /\ s \in 0 .. m - 1 /\ r + b = m * p + s
    BY <1>2, DivMod, Zenon
<1> HIDE DEF q, r, p, s
<1>4. a + b = m * (q + p) + s
  <2>1. m * (q + p) = m * q + m * p
    BY <1>1, <1>3, SMT
  <2>2. m * q \in Nat /\ m * p \in Nat
    BY <1>1, <1>3, SMT
  <2> QED
    BY <1>1, <1>3, <2>1, <2>2
<1>5. q + p \in Nat
    BY <1>1, <1>3
<1>6. (m * (q + p) + s) % m = s
    BY <1>3, <1>5, ModOf, Zenon
<1> QED
    BY <1>4, <1>6, Zenon DEF s, r

\* A remainder can be taken again by a divisor of the first one.
LEMMA ModMod ==
    ASSUME NEW m \in Nat \ {0}, NEW k \in Nat \ {0}, NEW a \in Nat, m % k = 0
    PROVE  (a % m) % k = a % k
<1> DEFINE d == m \div k
           q == a \div m
           r == a % m
           e == r \div k
           s == r % k
<1>1. d \in Nat /\ m = k * d
  <2>1. d \in Nat /\ m = k * d + (m % k)
    BY DivMod, Zenon
  <2> QED
    BY <2>1
<1>2. q \in Nat /\ r \in 0 .. m - 1 /\ a = m * q + r
    BY DivMod, Zenon
<1>3. e \in Nat /\ s \in 0 .. k - 1 /\ r = k * e + s
  <2>1. r \in Nat
    BY <1>2
  <2> QED
    BY <2>1, DivMod, Zenon
<1> HIDE DEF d, q, r, e, s
<1>4. a = k * (d * q + e) + s
  <2>1. k * (d * q + e) = (k * d) * q + k * e
    BY <1>1, <1>2, <1>3, SMT
  <2>2. m * q \in Nat /\ k * e \in Nat
    BY <1>2, <1>3, SMT
  <2> QED
    BY <1>1, <1>2, <1>3, <2>1, <2>2
<1>5. d * q + e \in Nat
    BY <1>1, <1>2, <1>3, SMT
<1>6. (k * (d * q + e) + s) % k = s
    BY <1>3, <1>5, ModOf, Zenon
<1> QED
    BY <1>4, <1>6, Zenon DEF s, r

\* Sums that agree modulo m are equal or m apart.
LEMMA ModApart ==
    ASSUME NEW m \in Nat \ {0}, NEW a \in Nat, NEW b \in Nat, a < b, a % m = b % m
    PROVE  b >= a + m
<1>1. a \div m \in Nat /\ (a % m) \in 0 .. m - 1 /\ a = m * (a \div m) + (a % m)
    BY DivMod, Zenon
<1>2. b \div m \in Nat /\ (b % m) \in 0 .. m - 1 /\ b = m * (b \div m) + (b % m)
    BY DivMod, Zenon
<1> DEFINE p == a \div m
           q == b \div m
<1>3. m * p < m * q /\ b - a = m * q - m * p
    BY <1>1, <1>2
<1> HIDE DEF p, q
<1>4. p \in Nat /\ q \in Nat
    BY <1>1, <1>2, Zenon DEF p, q
<1>5. p < q
    BY <1>3, <1>4, SMT
<1>6. q - p \in Nat \ {0}
    BY <1>4, <1>5
<1>7. m * (q - p) >= m /\ m * (q - p) = m * q - m * p
    BY <1>4, <1>6, SMT
<1> QED
    BY <1>3, <1>7
-----------------------------------------------------------------------------
(* The UUIDs of NewV1 *)

\* A sequence s that was drawn after n steps, moved on until there are t of them.
MovedOn(s, n, t, m) == (s + (t - n)) % m

\* A caller that has drawn a time and a sequence.
Drawn(c) == pc[c] = "address"

\* The clock sequence is the one that was drawn, moved on by the steps since then.
SinceDrawn == \A c \in Callers : Drawn(c) =>
    /\ drawn[c].n <= steps
    /\ MovedOn(drawn[c].seq, drawn[c].n, steps, SeqRange) = clockSequence
    /\ drawn[c].n = steps => drawn[c].time <= lastTime

\* The same for what was issued, in the bits that are left.
SinceIssued == \A i \in DOMAIN issued :
    /\ issued[i].n <= steps
    /\ MovedOn(issued[i].seq, issued[i].n, steps, Visible) = clockSequence % Visible
    /\ issued[i].n = steps => issued[i].time <= lastTime

\* Between two steps the times grow.
TimesDiffer ==
    /\ \A c, d \in Callers : c # d /\ Drawn(c) /\ Drawn(d) /\ drawn[c].n = drawn[d].n
           => drawn[c].time # drawn[d].time
    /\ \A c \in Callers, i \in DOMAIN issued : Drawn(c) /\ drawn[c].n = issued[i].n
           => drawn[c].time # issued[i].time
    /\ \A i, j \in DOMAIN issued : i # j /\ issued[i].n = issued[j].n
           => issued[i].time # issued[j].time

\* Before clockSequenceOnce nothing is drawn.
OnceFirst == ~ seqOnce => issued = << >> /\ \A c \in Callers : pc[c] \in {"idle", "once"}

\* The inductive invariant.
UuidInv == UuidTypeOK /\ SinceDrawn /\ SinceIssued /\ TimesDiffer /\ OnceFirst

\* A sequence s drawn after n steps, and after one more step than t.
LEMMA SeqMoves ==
    ASSUME NEW m \in Nat \ {0}, NEW s \in Nat, NEW n \in Nat, NEW t \in Nat, n <= t
    PROVE  MovedOn(s, n, t + 1, m) = (MovedOn(s, n, t, m) + 1) % m
<1>1. s + (t - n) \in Nat /\ s + ((t + 1) - n) = (s + (t - n)) + 1
    OBVIOUS
<1>2. (((s + (t - n)) % m) + 1) % m = ((s + (t - n)) + 1) % m
    BY <1>1, ModAdd, Zenon
<1> QED
    BY <1>1, <1>2, Zenon DEF MovedOn

\* A number below m is its own remainder.
LEMMA ModSmall ==
    ASSUME NEW m \in Nat \ {0}, NEW x \in 0 .. m - 1
    PROVE  x % m = x
<1>1. (m * 0 + x) % m = x
    BY ModOf, Zenon
<1> QED
    BY <1>1

\* A sequence that was just drawn has not moved.
LEMMA SeqNow ==
    ASSUME NEW m \in Nat \ {0}, NEW x \in 0 .. m - 1, NEW n \in Nat
    PROVE  MovedOn(x, n, n, m) = x
<1>1. x + (n - n) = x
    OBVIOUS
<1> QED
    BY <1>1, ModSmall, Zenon DEF MovedOn

\* The bits that are left follow the whole sequence: Visible divides SeqRange.
LEMMA VisibleBits ==
    ASSUME NEW a \in Nat
    PROVE  (a % SeqRange) % Visible = a % Visible
<1>1. SeqRange \in Nat \ {0} /\ Visible \in Nat \ {0} /\ SeqRange % Visible = 0
    BY GeneratorAssumption, Zenon
<1> QED
    BY <1>1, ModMod, Zenon

\* Every step of a caller keeps the types: the sequence in its 16 bits, what is
\* issued in its 14.
LEMMA UuidTypeStep == UuidTypeOK /\ SinceDrawn /\ [UuidNext]_uuidVars => UuidTypeOK'
<1> SUFFICES ASSUME UuidTypeOK, SinceDrawn, [UuidNext]_uuidVars PROVE UuidTypeOK'
    OBVIOUS
<1>1. ASSUME NEW c \in Callers, Begin(c) PROVE UuidTypeOK'
    BY <1>1, Zenon DEF Begin, Goto, UuidTypeOK
<1>2. ASSUME NEW c \in Callers, SeqOnce(c) PROVE UuidTypeOK'
    BY <1>2, Zenon DEF SeqOnce, Goto, UuidTypeOK
<1>3. ASSUME NEW c \in Callers, ClockSequence(c) PROVE UuidTypeOK'
  <2>1. PICK timeNow \in 1 .. MaxTime :
           LET back == timeNow <= lastTime
               next == IF back THEN (clockSequence + 1) % SeqRange ELSE clockSequence
               n == IF back THEN steps + 1 ELSE steps
           IN  /\ clockSequence' = next /\ steps' = n
               /\ lastTime' = timeNow
               /\ drawn' = [drawn EXCEPT ![c] = [time |-> timeNow, seq |-> next, n |-> n]]
    BY <1>3, Zenon DEF ClockSequence
  <2>2. timeNow \in Nat
    BY GeneratorAssumption
  <2>3. (clockSequence + 1) % SeqRange \in 0 .. SeqRange - 1
    BY GeneratorAssumption, DivMod DEF UuidTypeOK
  <2>4. clockSequence' \in 0 .. SeqRange - 1 /\ steps' \in Nat /\ lastTime' \in Nat
    BY <2>1, <2>2, <2>3 DEF UuidTypeOK
  <2>5. drawn' \in [Callers -> Draws]
    BY <2>1, <2>2, <2>4, GeneratorAssumption DEF UuidTypeOK, Draws
  <2> QED
    BY <1>3, <2>4, <2>5, Zenon DEF ClockSequence, Goto, UuidTypeOK
<1>4. ASSUME NEW c \in Callers, HardwareAddr(c) PROVE UuidTypeOK'
    BY <1>4, Zenon DEF HardwareAddr, Goto, UuidTypeOK
<1>5. ASSUME NEW c \in Callers, V1(c) PROVE UuidTypeOK'
  <2>1. drawn[c] \in Draws
    BY Zenon DEF UuidTypeOK
  <2>2. drawn[c].seq % Visible \in 0 .. Visible - 1
    BY <2>1, GeneratorAssumption, DivMod, Zenon DEF Draws
  <2>3. [time |-> drawn[c].time, seq |-> drawn[c].seq % Visible, n |-> drawn[c].n]
           \in Uuids
    BY <2>1, <2>2, Zenon DEF Draws, Uuids
  <2>4. issued' \in Seq(Uuids)
    BY <1>5, <2>3, AppendProperties, Zenon DEF V1, UuidTypeOK
  <2> QED
    BY <1>5, <2>4, Zenon DEF V1, Goto, UuidTypeOK
<1>6. ASSUME NEW c \in Callers, V2(c) PROVE UuidTypeOK'
    BY <1>6, Zenon DEF V2, Goto, UuidTypeOK
<1>7. CASE UNCHANGED uuidVars
    BY <1>7, Zenon DEF uuidVars, UuidTypeOK
<1> QED
    BY <1>1, <1>2, <1>3, <1>4, <1>5, <1>6, <1>7, Zenon DEF UuidNext

\* A step that draws nothing and issues nothing.
LEMMA UuidQuiet ==
    ASSUME UuidInv, UNCHANGED <<clockSequence, lastTime, drawn, issued, steps>>,
           seqOnce => seqOnce', \A c \in Callers : Drawn(c)' => Drawn(c),
           ~ seqOnce' => \A c \in Callers : pc'[c] \in {"idle", "once"}
    PROVE  SinceDrawn' /\ SinceIssued' /\ TimesDiffer' /\ OnceFirst'
    BY DEF UuidInv, SinceDrawn, SinceIssued, TimesDiffer, OnceFirst, Drawn

\* getClockSequence keeps the invariant: it moves the sequence and counts the step
\* together, or the time grows.
LEMMA UuidDraws ==
    ASSUME UuidInv, UuidTypeOK', NEW c \in Callers, ClockSequence(c)
    PROVE  SinceDrawn' /\ SinceIssued' /\ TimesDiffer' /\ OnceFirst'
<1>0. SeqRange \in Nat \ {0} /\ Visible \in Nat \ {0} /\ MaxTime \in Nat
    BY GeneratorAssumption, Zenon
<1>1. PICK timeNow \in 1 .. MaxTime :
         LET back == timeNow <= lastTime
             next == IF back THEN (clockSequence + 1) % SeqRange ELSE clockSequence
             n == IF back THEN steps + 1 ELSE steps
         IN  /\ clockSequence' = next /\ steps' = n
             /\ lastTime' = timeNow
             /\ drawn' = [drawn EXCEPT ![c] = [time |-> timeNow, seq |-> next, n |-> n]]
    BY Zenon DEF ClockSequence
<1>2. /\ pc[c] = "clock" /\ UNCHANGED <<seqOnce, issued>>
      /\ \A d \in Callers : Drawn(d)' <=> d = c \/ Drawn(d)
    BY Zenon DEF ClockSequence, Goto, UuidInv, UuidTypeOK, Drawn
<1>3. /\ drawn'[c].time = timeNow /\ drawn'[c].seq = clockSequence' /\ drawn'[c].n = steps'
      /\ \A d \in Callers : d # c => drawn'[d] = drawn[d]
    BY <1>1, Zenon DEF UuidInv, UuidTypeOK
<1>4. /\ clockSequence \in Nat /\ clockSequence' \in 0 .. SeqRange - 1
      /\ steps \in Nat /\ lastTime \in Nat
    BY DEF UuidInv, UuidTypeOK
<1>5. /\ \A d \in Callers : drawn[d].seq \in Nat /\ drawn[d].n \in Nat /\ drawn[d].time \in Nat
      /\ \A i \in DOMAIN issued :
             issued[i].seq \in Nat /\ issued[i].n \in Nat /\ issued[i].time \in Nat
  <2>1. \A d \in Callers : drawn[d] \in Draws
    BY Zenon DEF UuidInv, UuidTypeOK
  <2>2. \A i \in DOMAIN issued : issued[i] \in Uuids
    BY DEF UuidInv, UuidTypeOK
  <2>3. \A i \in DOMAIN issued :
            issued[i].seq \in Nat /\ issued[i].n \in Nat /\ issued[i].time \in Nat
    BY <1>0, <2>2 DEF Uuids
  <2> QED
    BY <2>1, <2>3, Zenon DEF Draws
<1>6. \/ /\ timeNow <= lastTime /\ steps' = steps + 1
         /\ clockSequence' = (clockSequence + 1) % SeqRange
      \/ timeNow > lastTime /\ steps' = steps /\ clockSequence' = clockSequence
    BY <1>1, <1>4
<1>7. ASSUME NEW d \in Callers, Drawn(d), d # c
      PROVE  /\ drawn[d].n <= steps'
             /\ MovedOn(drawn[d].seq, drawn[d].n, steps', SeqRange) = clockSequence'
             /\ drawn[d].n = steps' => drawn[d].time < timeNow
  <2>1. /\ drawn[d].n <= steps
        /\ MovedOn(drawn[d].seq, drawn[d].n, steps, SeqRange) = clockSequence
        /\ drawn[d].n = steps => drawn[d].time <= lastTime
    BY <1>7, Zenon DEF UuidInv, SinceDrawn
  <2>2. drawn[d].seq \in Nat /\ drawn[d].n \in Nat
    BY <1>5, Zenon
  <2>3. MovedOn(drawn[d].seq, drawn[d].n, steps + 1, SeqRange) = (clockSequence + 1) % SeqRange
    BY <1>0, <1>4, <2>1, <2>2, SeqMoves, Zenon
  <2> QED
    BY <1>4, <1>5, <1>6, <2>1, <2>3
<1>8. ASSUME NEW i \in DOMAIN issued
      PROVE  /\ issued[i].n <= steps'
             /\ MovedOn(issued[i].seq, issued[i].n, steps', Visible) = clockSequence' % Visible
             /\ issued[i].n = steps' => issued[i].time < timeNow
  <2>1. /\ issued[i].n <= steps
        /\ MovedOn(issued[i].seq, issued[i].n, steps, Visible) = clockSequence % Visible
        /\ issued[i].n = steps => issued[i].time <= lastTime
    BY Zenon DEF UuidInv, SinceIssued
  <2>2. issued[i].seq \in Nat /\ issued[i].n \in Nat
    BY <1>5, Zenon
  <2>3. MovedOn(issued[i].seq, issued[i].n, steps + 1, Visible)
           = (MovedOn(issued[i].seq, issued[i].n, steps, Visible) + 1) % Visible
    BY <1>0, <1>4, <2>1, <2>2, SeqMoves, Zenon
  <2>4. ((clockSequence % Visible) + 1) % Visible = (clockSequence + 1) % Visible
    BY <1>0, <1>4, ModAdd, Zenon
  <2>5. ((clockSequence + 1) % SeqRange) % Visible = (clockSequence + 1) % Visible
    BY <1>4, VisibleBits
  <2>6. MovedOn(issued[i].seq, issued[i].n, steps + 1, Visible) = (clockSequence + 1) % Visible
    BY <2>1, <2>3, <2>4, Zenon
  <2> QED
    BY <1>4, <1>5, <1>6, <2>1, <2>5, <2>6
<1>9. SinceDrawn'
  <2>1. MovedOn(clockSequence', steps', steps', SeqRange) = clockSequence'
    <3>1. steps' \in Nat
      BY Zenon DEF UuidTypeOK
    <3> QED
      BY <1>0, <1>4, <3>1, SeqNow, Zenon
  <2>2. steps' <= steps' /\ timeNow <= timeNow
    BY <1>4, <1>6
  <2> QED
    BY <1>1, <1>2, <1>3, <1>5, <1>7, <2>1, <2>2 DEF SinceDrawn
<1>10. SinceIssued'
    BY <1>1, <1>2, <1>5, <1>8 DEF SinceIssued
<1>11. TimesDiffer'
    BY <1>2, <1>3, <1>5, <1>7, <1>8 DEF UuidInv, TimesDiffer
<1>12. OnceFirst'
    BY <1>2, Zenon DEF UuidInv, OnceFirst
<1> QED
    BY <1>9, <1>10, <1>11, <1>12, Zenon

\* NewV1 keeps the invariant: the bits that SetVariant takes away do not matter.
LEMMA UuidIssues ==
    ASSUME UuidInv, NEW c \in Callers, V1(c)
    PROVE  SinceDrawn' /\ SinceIssued' /\ TimesDiffer' /\ OnceFirst'
<1>0. SeqRange \in Nat \ {0} /\ Visible \in Nat \ {0}
    BY GeneratorAssumption, Zenon
<1> DEFINE e == [time |-> drawn[c].time, seq |-> drawn[c].seq % Visible, n |-> drawn[c].n]
           k == steps - drawn[c].n
<1>1. /\ Drawn(c) /\ issued' = Append(issued, e)
      /\ UNCHANGED <<seqOnce, clockSequence, lastTime, drawn, steps>>
      /\ \A d \in Callers : Drawn(d)' => d # c /\ Drawn(d)
    BY Zenon DEF V1, Goto, UuidInv, UuidTypeOK, Drawn
<1>2. /\ DOMAIN issued' = DOMAIN issued \cup {Len(issued) + 1} /\ issued'[Len(issued) + 1] = e
      /\ \A i \in DOMAIN issued : issued'[i] = issued[i] /\ i # Len(issued) + 1
    BY <1>1, AppendProperties DEF UuidInv, UuidTypeOK
<1>3. /\ drawn[c].seq \in Nat /\ drawn[c].n \in Nat
      /\ steps \in Nat /\ clockSequence \in 0 .. SeqRange - 1
    BY Zenon DEF UuidInv, UuidTypeOK, Draws
<1>4. /\ drawn[c].n <= steps /\ (drawn[c].seq + k) % SeqRange = clockSequence
      /\ drawn[c].n = steps => drawn[c].time <= lastTime
    BY <1>1, Zenon DEF UuidInv, SinceDrawn, MovedOn
<1>5. k \in Nat
    BY <1>3, <1>4
<1> HIDE DEF k
<1>6. ((drawn[c].seq % Visible) + k) % Visible = clockSequence % Visible
  <2>1. ((drawn[c].seq % Visible) + k) % Visible = (drawn[c].seq + k) % Visible
    BY <1>0, <1>3, <1>5, ModAdd, Zenon
  <2>2. ((drawn[c].seq + k) % SeqRange) % Visible = (drawn[c].seq + k) % Visible
    BY <1>3, <1>5, VisibleBits
  <2> QED
    BY <1>4, <2>1, <2>2, Zenon
<1>7. SinceDrawn'
    BY <1>1, Zenon DEF UuidInv, SinceDrawn
<1>8. SinceIssued'
    BY <1>1, <1>2, <1>4, <1>6 DEF UuidInv, SinceIssued, MovedOn, k
<1>9. TimesDiffer'
    BY <1>1, <1>2 DEF UuidInv, TimesDiffer
<1>10. OnceFirst'
    BY <1>1, Zenon DEF UuidInv, OnceFirst, Drawn
<1> QED
    BY <1>7, <1>8, <1>9, <1>10, Zenon

\* Every step of a caller keeps the invariant.
LEMMA UuidStep == UuidInv /\ [UuidNext]_uuidVars => UuidInv'
<1> SUFFICES ASSUME UuidInv, [UuidNext]_uuidVars
             PROVE  SinceDrawn' /\ SinceIssued' /\ TimesDiffer' /\ OnceFirst'
    BY UuidTypeStep, Zenon DEF UuidInv
<1>1. ASSUME NEW c \in Callers, Begin(c)
      PROVE  SinceDrawn' /\ SinceIssued' /\ TimesDiffer' /\ OnceFirst'
    BY <1>1, UuidQuiet, Zenon DEF Begin, Goto, UuidInv, UuidTypeOK, OnceFirst, Drawn
<1>2. ASSUME NEW c \in Callers, SeqOnce(c)
      PROVE  SinceDrawn' /\ SinceIssued' /\ TimesDiffer' /\ OnceFirst'
  <2>1. CASE seqOnce
    BY <1>2, <2>1, UuidQuiet, Zenon DEF SeqOnce, Goto, UuidInv, UuidTypeOK, Drawn
  <2>2. CASE ~ seqOnce
    <3>1. issued' = << >> /\ seqOnce' /\ \A d \in Callers : ~ Drawn(d)'
      BY <1>2, <2>2, Zenon DEF SeqOnce, Goto, UuidInv, UuidTypeOK, OnceFirst, Drawn
    <3> QED
      BY <3>1 DEF SinceDrawn, SinceIssued, TimesDiffer, OnceFirst
  <2> QED
    BY <2>1, <2>2, Zenon
<1>3. ASSUME NEW c \in Callers, ClockSequence(c)
      PROVE  SinceDrawn' /\ SinceIssued' /\ TimesDiffer' /\ OnceFirst'
    BY <1>3, UuidTypeStep, UuidDraws, Zenon DEF UuidInv
<1>4. ASSUME NEW c \in Callers, HardwareAddr(c)
      PROVE  SinceDrawn' /\ SinceIssued' /\ TimesDiffer' /\ OnceFirst'
    BY <1>4, UuidQuiet, Zenon DEF HardwareAddr, Goto, UuidInv, UuidTypeOK, OnceFirst, Drawn
<1>5. ASSUME NEW c \in Callers, V1(c)
      PROVE  SinceDrawn' /\ SinceIssued' /\ TimesDiffer' /\ OnceFirst'
    BY <1>5, UuidIssues, Zenon
<1>6. ASSUME NEW c \in Callers, V2(c)
      PROVE  SinceDrawn' /\ SinceIssued' /\ TimesDiffer' /\ OnceFirst'
    BY <1>6, UuidQuiet, Zenon DEF V2, Goto, UuidInv, UuidTypeOK, OnceFirst, Drawn
<1>7. CASE UNCHANGED uuidVars
    BY <1>7, UuidQuiet, Zenon DEF uuidVars, UuidInv, OnceFirst, Drawn
<1> QED
    BY <1>1, <1>2, <1>3, <1>4, <1>5, <1>6, <1>7, Zenon DEF UuidNext

\* NewV1 returns a UUID again only after the 14 bits of the clock sequence that
\* SetVariant leaves have gone round, whatever the clock does and however the calls
\* of the goroutines are interleaved.
THEOREM UuidsUnique == UuidSpec => []UniqueUnlessWrapped
<1>1. UuidInit => UuidInv
  <2> SUFFICES ASSUME UuidInit PROVE UuidInv
    OBVIOUS
  <2>1. UuidTypeOK
    <3>1. SeqRange \in Nat \ {0}
      BY GeneratorAssumption, Zenon
    <3>2. issued \in Seq(Uuids)
      BY DEF UuidInit
    <3>3. [time |-> 0, seq |-> 0, n |-> 0] \in Draws /\ 0 \in 0 .. SeqRange - 1
      BY <3>1 DEF Draws
    <3> QED
      BY <3>1, <3>2, <3>3, Zenon DEF UuidInit, UuidTypeOK
  <2> QED
    BY <2>1 DEF UuidInit, UuidInv, SinceDrawn, SinceIssued, TimesDiffer, OnceFirst, Drawn
<1>2. UuidInv => EqualOnlyAfterWrap
  <2> SUFFICES ASSUME UuidInv, NEW i \in DOMAIN issued, NEW j \in DOMAIN issued, i # j,
                      issued[i].time = issued[j].time, issued[i].seq = issued[j].seq
               PROVE  \/ issued[i].n >= issued[j].n + Visible
                      \/ issued[j].n >= issued[i].n + Visible
    BY Zenon DEF EqualOnlyAfterWrap
  <2> DEFINE a == issued[i].seq + (steps - issued[i].n)
             b == issued[j].seq + (steps - issued[j].n)
  <2>1. issued[i].n # issued[j].n
    BY Zenon DEF UuidInv, TimesDiffer
  <2>2. /\ issued[i].n <= steps /\ issued[j].n <= steps
        /\ a % Visible = b % Visible
    BY Zenon DEF UuidInv, SinceIssued, MovedOn
  <2>3. /\ issued[i].seq \in Nat /\ issued[i].n \in Nat
        /\ issued[j].seq \in Nat /\ issued[j].n \in Nat
        /\ steps \in Nat /\ Visible \in Nat \ {0}
    <3>1. Visible \in Nat \ {0}
      BY GeneratorAssumption, Zenon
    <3>2. \A l \in DOMAIN issued : issued[l] \in Uuids
      BY DEF UuidInv, UuidTypeOK
    <3>3. \A l \in DOMAIN issued : issued[l].seq \in Nat /\ issued[l].n \in Nat
      BY <3>1, <3>2 DEF Uuids
    <3> QED
      BY <3>1, <3>3, Zenon DEF UuidInv, UuidTypeOK
  <2>4. a \in Nat /\ b \in Nat /\ a # b
    BY <2>1, <2>2, <2>3
  <2>5. a >= b + Visible \/ b >= a + Visible
    <3> HIDE DEF a, b
    <3>1. a < b => b >= a + Visible
      BY <2>2, <2>3, <2>4, ModApart, Zenon
    <3>2. b < a => a >= b + Visible
      BY <2>2, <2>3, <2>4, ModApart, Zenon
    <3> QED
      BY <2>4, <3>1, <3>2
  <2> QED
    BY <2>3, <2>5
<1>3. UuidInv => UuidTypeOK
    BY Zenon DEF UuidInv
<1> QED
    BY <1>1, <1>2, <1>3, UuidStep, PTL DEF UuidSpec, UniqueUnlessWrapped

-----------------------------------------------------------------------------
(* The rounding of Dec *)

\* A magnitude with a sign.
Signed(neg, n) == IF neg THEN - n ELSE n

\* The magnitude of a product.
LEMMA AbsTimes ==
    ASSUME NEW a \in Int, NEW b \in Int
    PROVE  Abs(a * b) = Abs(a) * Abs(b)
<1>1. CASE a < 0 /\ b < 0
  <2>1. a * b = (- a) * (- b) /\ a * b >= 0
    BY <1>1
  <2> QED
    BY <1>1, <2>1 DEF Abs
<1>2. CASE a < 0 /\ b >= 0
  <2>1. a * b = - ((- a) * b) /\ (- a) * b >= 0
    BY <1>2
  <2> QED
    BY <1>2, <2>1 DEF Abs
<1>3. CASE a >= 0 /\ b < 0
  <2>1. a * b = - (a * (- b)) /\ a * (- b) >= 0
    BY <1>3
  <2> QED
    BY <1>3, <2>1 DEF Abs
<1>4. CASE a >= 0 /\ b >= 0
  <2>1. a * b >= 0
    BY <1>4
  <2> QED
    BY <1>4, <2>1 DEF Abs
<1> QED
  BY <1>1, <1>2, <1>3, <1>4

\* Quo of big.Int divides the magnitudes.
LEMMA QuoIs ==
    ASSUME NEW a \in Int, NEW b \in Int \ {0}
    PROVE  \E q, m \in Nat : /\ m < Abs(b) /\ Abs(a) = Abs(b) * q + m
                             /\ BigQuo(a, b) = Signed((a < 0) # (b < 0), q)
<1> DEFINE x == Abs(a)
           y == Abs(b)
<1>1. x \in Nat /\ y \in Nat \ {0}
  BY DEF Abs
<1>2. BigQuo(a, b) = Signed((a < 0) # (b < 0), x \div y)
  BY DEF BigQuo, Signed
<1> HIDE DEF x, y
<1>3. x \div y \in Nat /\ (x % y) \in 0 .. y - 1 /\ x = y * (x \div y) + (x % y)
  BY <1>1, DivMod, Zenon
<1>4. x % y \in Nat /\ x % y < y
  BY <1>1, <1>3
<1> QED
  BY <1>2, <1>3, <1>4, Zenon DEF x, y

\* chopPrecisionAndTruncate divides by One.
LEMMA TruncateIs ==
    ASSUME NEW d \in Int
    PROVE  \E q, m \in Nat : /\ m < One /\ Abs(d) = One * q + m
                             /\ chopPrecisionAndTruncate(d) = Signed(d < 0, q)
<1>1. One \in Int \ {0} /\ Abs(One) = One /\ ~ (One < 0)
  BY DecimalsAssumption DEF Abs
<1>2. PICK q \in Nat, m \in Nat : /\ m < Abs(One) /\ Abs(d) = Abs(One) * q + m
                                  /\ BigQuo(d, One) = Signed((d < 0) # (One < 0), q)
  BY <1>1, QuoIs, ZenonT(30)
<1>3. ((d < 0) # (One < 0)) = (d < 0)
  BY <1>1
<1> QED
  BY <1>1, <1>2, <1>3, Zenon DEF chopPrecisionAndTruncate

\* chopPrecisionAndRound is within half a unit, and even at half a unit.
LEMMA RoundIs ==
    ASSUME NEW d \in Int
    PROVE  \E n \in Nat : /\ chopPrecisionAndRound(d) = Signed(d < 0, n)
                          /\ 2 * Abs(n * One - Abs(d)) <= One
                          /\ 2 * Abs(n * One - Abs(d)) = One => n % 2 = 0
<1> DEFINE x == Abs(d)
           q == x \div One
           m == x % One
           n == IF 2 * m > One \/ (2 * m = One /\ q % 2 = 1) THEN q + 1 ELSE q
<1>1. x \in Nat /\ One \in Nat \ {0}
  BY DecimalsAssumption DEF Abs
<1>2. chopPrecisionAndRound(d) = Signed(d < 0, n)
  BY Zenon DEF chopPrecisionAndRound, Signed
<1> HIDE DEF x
<1>3. q \in Nat /\ m \in 0 .. One - 1 /\ x = One * q + m
  BY <1>1, DivMod, Zenon
<1>4. n = (IF 2 * m > One \/ (2 * m = One /\ q % 2 = 1) THEN q + 1 ELSE q)
  OBVIOUS
<1> HIDE DEF q, m, n
<1>5. (q + 1) * One = One * q + One /\ q * One = One * q /\ One * q \in Nat
  BY <1>1, <1>3
<1>6. n \in Nat /\ (n = q \/ n = q + 1)
  BY <1>3, <1>4
<1>7. CASE n = q
  <2>1. n * One - x = - m
    BY <1>1, <1>3, <1>5, <1>7
  <2>2. Abs(n * One - x) = m
    BY <2>1, <1>1, <1>3 DEF Abs
  <2>3. 2 * m <= One /\ (2 * m = One => q % 2 = 0)
    BY <1>1, <1>3, <1>4, <1>7
  <2> QED
    BY <2>2, <2>3, <1>6, <1>2, <1>7, Zenon DEF x
<1>8. CASE n = q + 1
  <2>1. n * One - x = One - m
    BY <1>1, <1>3, <1>5, <1>8
  <2>2. Abs(n * One - x) = One - m
    BY <2>1, <1>1, <1>3 DEF Abs
  <2>3. 2 * m > One \/ (2 * m = One /\ q % 2 = 1)
    BY <1>3, <1>4, <1>8
  <2>4. 2 * (One - m) <= One /\ (2 * (One - m) = One => (q + 1) % 2 = 0)
    BY <1>1, <1>3, <2>3
  <2> QED
    BY <2>2, <2>4, <1>6, <1>2, <1>8, Zenon DEF x
<1> QED
  BY <1>6, <1>7, <1>8

\* Mul: the nearest Dec.
LEMMA MulIs ==
    ASSUME NEW a \in Int, NEW b \in Int
    PROVE  /\ 2 * Abs(Mul(a, b) * One - a * b) <= One
           /\ 2 * Abs(Mul(a, b) * One - a * b) = One => Mul(a, b) % 2 = 0
<1>1. PICK p : p = a * b /\ p \in Int
  OBVIOUS
<1>2. PICK n \in Nat : /\ chopPrecisionAndRound(p) = Signed(p < 0, n)
                       /\ 2 * Abs(n * One - Abs(p)) <= One
                       /\ 2 * Abs(n * One - Abs(p)) = One => n % 2 = 0
  BY <1>1, RoundIs, Zenon
<1>3. PICK r : r = Mul(a, b) /\ r = Signed(p < 0, n)
  BY <1>1, <1>2, Zenon DEF Mul
<1>4. r * One = Signed(p < 0, n * One)
  BY <1>1, <1>3, DecimalsAssumption DEF Signed
<1>5. Abs(r * One - p) = Abs(n * One - Abs(p))
  <2>1. PICK k : k = n * One /\ k \in Int
    BY DecimalsAssumption
  <2>2. r * One = Signed(p < 0, k)
    BY <1>4, <2>1, Zenon
  <2>3. Abs(Signed(p < 0, k) - p) = Abs(k - Abs(p))
    BY <1>1, <2>1 DEF Abs, Signed
  <2> QED
    BY <2>1, <2>2, <2>3, Zenon
<1>6. n % 2 = 0 => r % 2 = 0
  BY <1>3 DEF Signed
<1> QED
  BY <1>1, <1>2, <1>3, <1>5, <1>6, Zenon

\* MulTruncate: what chopPrecisionAndTruncate cuts off is less than a unit.
LEMMA MulTruncateIs ==
    ASSUME NEW a \in Int, NEW b \in Int
    PROVE  /\ 0 <= Abs(a * b) - Abs(MulTruncate(a, b)) * One
           /\ Abs(a * b) - Abs(MulTruncate(a, b)) * One < One
<1>1. PICK p : p = a * b /\ p \in Int
  OBVIOUS
<1>2. PICK q \in Nat, m \in Nat : /\ m < One /\ Abs(p) = One * q + m
                                  /\ chopPrecisionAndTruncate(p) = Signed(p < 0, q)
  BY <1>1, TruncateIs, Zenon
<1>3. Abs(Signed(p < 0, q)) = q
  BY <1>1, <1>2 DEF Abs, Signed
<1>4. One * q = q * One /\ One * q \in Nat
  BY DecimalsAssumption
<1>5. Abs(p) - q * One = m
  BY <1>2, <1>4
<1>6. Abs(a * b) - Abs(MulTruncate(a, b)) * One = m
  BY <1>1, <1>2, <1>3, <1>5, Zenon DEF MulTruncate
<1> QED
  BY <1>2, <1>6, DecimalsAssumption

\* The division to twice the precision.
LEMMA DoubleIs ==
    ASSUME NEW a \in Int, NEW b \in Int \ {0}
    PROVE  \E q, m \in Nat : /\ m < Abs(b) /\ Abs(a) * One * One = Abs(b) * q + m
                             /\ BigQuo(a * One * One, b) = Signed((a < 0) # (b < 0), q)
<1>1. PICK c : c = a * One * One /\ c \in Int
  BY DecimalsAssumption
<1>2. PICK s : s = One * One /\ s \in Nat \ {0}
  BY DecimalsAssumption
<1>3. a * One * One = a * s /\ Abs(a) * One * One = Abs(a) * s
  BY <1>2, DecimalsAssumption DEF Abs
<1>4. Abs(c) = Abs(a) * One * One /\ ((c < 0) <=> (a < 0))
  <2>1. Abs(a * s) = Abs(a) * Abs(s) /\ Abs(s) = s
    BY <1>2, AbsTimes DEF Abs
  <2>2. (a * s < 0) <=> (a < 0)
    BY <1>2
  <2> QED
    BY <1>1, <1>3, <2>1, <2>2, Zenon
<1>5. PICK q \in Nat, m \in Nat : /\ m < Abs(b) /\ Abs(c) = Abs(b) * q + m
                                  /\ BigQuo(c, b) = Signed((c < 0) # (b < 0), q)
  BY <1>1, QuoIs, Zenon
<1>6. ((c < 0) # (b < 0)) = ((a < 0) # (b < 0))
  BY <1>4
<1> QED
  BY <1>1, <1>4, <1>5, <1>6, Zenon

\* A factor that is not zero can be taken from both sides.
LEMMA Cancel ==
    ASSUME NEW k \in Nat \ {0}, NEW x \in Int, NEW y \in Int
    PROVE  (k * x < k * y => x < y) /\ (k * x <= k * y => x <= y)
<1>1. k * (x - y) = k * x - k * y /\ x - y \in Int
  OBVIOUS
<1>2. x - y >= 0 => k * (x - y) >= 0
  BY <1>1
<1>3. x - y > 0 => k * (x - y) > 0
  BY <1>1
<1>4. k * x \in Int /\ k * y \in Int
  OBVIOUS
<1> QED
  BY <1>1, <1>2, <1>3, <1>4

\* QuoTruncate: one truncation after the other falls short by less than a unit.
LEMMA QuoTruncateIs ==
    ASSUME NEW a \in Int, NEW b \in Int \ {0}
    PROVE  /\ 0 <= Abs(a) * One - Abs(QuoTruncate(a, b) * b)
           /\ Abs(a) * One - Abs(QuoTruncate(a, b) * b) < Abs(b)
<1>1. PICK q \in Nat, m \in Nat : /\ m < Abs(b) /\ Abs(a) * One * One = Abs(b) * q + m
                                  /\ BigQuo(a * One * One, b) = Signed((a < 0) # (b < 0), q)
  BY DoubleIs, Zenon
<1>2. PICK d : d = BigQuo(a * One * One, b) /\ d \in Int /\ Abs(d) = q
  BY <1>1 DEF Abs, Signed
<1>3. PICK n \in Nat, l \in Nat : /\ l < One /\ Abs(d) = One * n + l
                                  /\ chopPrecisionAndTruncate(d) = Signed(d < 0, n)
  BY <1>2, TruncateIs, Zenon
<1>4. PICK r : r = QuoTruncate(a, b) /\ r \in Int /\ Abs(r) = n
  BY <1>2, <1>3 DEF QuoTruncate, Abs, Signed
<1>5. PICK x, y : x = Abs(a) /\ y = Abs(b) /\ x \in Nat /\ y \in Nat \ {0}
  BY DEF Abs
<1>6. Abs(r * b) = n * y
  BY <1>4, <1>5, AbsTimes, Zenon
<1>7. x * One * One = y * q + m /\ q = One * n + l /\ m < y /\ l < One
  BY <1>1, <1>2, <1>3, <1>5, Zenon
<1>8. One * (x * One - n * y) = y * l + m
  <2>1. y * q = One * (n * y) + y * l
    <3>1. One \in Int /\ n \in Int /\ l \in Int /\ y \in Int
      BY <1>5, DecimalsAssumption
    <3>2. y * (One * n + l) = y * (One * n) + y * l
      BY <3>1
    <3>3. y * (One * n) = One * (n * y)
      BY <3>1
    <3> QED
      BY <1>7, <3>2, <3>3, Zenon
  <2>2. One * (x * One - n * y) = x * One * One - One * (n * y)
    BY <1>5, DecimalsAssumption
  <2>3. One * (n * y) \in Int /\ y * l \in Int
    BY <1>5, DecimalsAssumption
  <2> QED
    BY <1>7, <2>1, <2>2, <2>3
<1>9. PICK z : z = x * One - n * y /\ z \in Int
  BY <1>5, DecimalsAssumption
<1>10. 0 <= y * l + m /\ y * l + m < One * y
  <2>1. y * l <= y * (One - 1)
    <3>1. One - 1 - l >= 0
      BY <1>7, DecimalsAssumption
    <3>2. y * (One - 1 - l) >= 0
      BY <1>5, <3>1, DecimalsAssumption
    <3>3. y * (One - 1 - l) = y * (One - 1) - y * l
      BY <1>5, DecimalsAssumption
    <3>4. y * (One - 1) \in Int /\ y * l \in Int
      BY <1>5, DecimalsAssumption
    <3> QED
      BY <3>2, <3>3, <3>4
  <2>2. y * (One - 1) = One * y - y /\ One * y \in Int
    BY <1>5, DecimalsAssumption
  <2>3. y * l \in Nat
    BY <1>5
  <2> QED
    BY <1>5, <1>7, <2>1, <2>2, <2>3
<1>11. One * 0 <= One * z /\ One * z < One * y
  BY <1>8, <1>9, <1>10, DecimalsAssumption
<1>12. 0 <= z /\ z < y
  <2>1. One \in Nat \ {0} /\ 0 \in Int /\ y \in Int
    BY <1>5, DecimalsAssumption
  <2> QED
    BY <1>9, <1>11, <2>1, Cancel, Zenon
<1> QED
  BY <1>4, <1>5, <1>6, <1>9, <1>12, Zenon

\* Quo: a truncation and a rounding.
LEMMA QuoNearIs ==
    ASSUME NEW a \in Int, NEW b \in Int \ {0}
    PROVE  2 * One * Abs(Quo(a, b) * b - a * One) <= (One + 2) * Abs(b)
<1>1. PICK q \in Nat, m \in Nat : /\ m < Abs(b) /\ Abs(a) * One * One = Abs(b) * q + m
                                  /\ BigQuo(a * One * One, b) = Signed((a < 0) # (b < 0), q)
  BY DoubleIs, Zenon
<1>2. PICK d : /\ d = BigQuo(a * One * One, b) /\ d \in Int /\ Abs(d) = q
               /\ d = Signed((a < 0) # (b < 0), q)
  BY <1>1 DEF Abs, Signed
<1>3. PICK n \in Nat : /\ chopPrecisionAndRound(d) = Signed(d < 0, n)
                       /\ 2 * Abs(n * One - q) <= One
  BY <1>2, RoundIs, Zenon
<1>4. PICK r : r = Quo(a, b) /\ r = Signed(d < 0, n)
  BY <1>2, <1>3, Zenon DEF Quo
<1>5. PICK x, y : x = Abs(a) /\ y = Abs(b) /\ x \in Nat /\ y \in Nat \ {0}
  BY DEF Abs
<1>6. PICK e : e = n * One - q /\ e \in Int /\ 2 * Abs(e) <= One
  BY <1>3, DecimalsAssumption
<1>7. - One <= 2 * e /\ 2 * e <= One
  BY <1>6, DecimalsAssumption DEF Abs
<1>8. r = Signed((a < 0) # (b < 0), n)
  <2>1. CASE q = 0
    <3>1. n * One <= One - 1
      BY <1>6, <1>7, <2>1, DecimalsAssumption
    <3>2. n > 0 => n * One >= One
      BY DecimalsAssumption
    <3>3. n = 0
      BY <3>1, <3>2, DecimalsAssumption
    <3> QED
      BY <1>4, <3>3 DEF Signed
  <2>2. CASE q # 0
    <3>1. (d < 0) = ((a < 0) # (b < 0))
      BY <1>2, <2>2 DEF Signed
    <3> QED
      BY <1>4, <3>1, Zenon
  <2> QED
    BY <2>1, <2>2
<1>9. r * b = Signed(a < 0, n * y)
  <2>1. CASE b < 0
    <3>1. b = - y
      BY <1>5, <2>1 DEF Abs
    <3>2. n * (- y) = - (n * y) /\ (- n) * (- y) = n * y
      BY <1>5
    <3>3. r = Signed(a >= 0, n)
      BY <1>8, <2>1 DEF Signed
    <3> QED
      BY <3>1, <3>2, <3>3 DEF Signed
  <2>2. CASE ~ (b < 0)
    <3>1. b = y
      BY <1>5, <2>2 DEF Abs
    <3>2. (- n) * y = - (n * y)
      BY <1>5
    <3>3. r = Signed(a < 0, n)
      BY <1>8, <2>2 DEF Signed
    <3> QED
      BY <3>1, <3>2, <3>3 DEF Signed
  <2> QED
    BY <2>1, <2>2
<1>10. a * One = Signed(a < 0, x * One)
  <2>1. a = Signed(a < 0, x)
    BY <1>5 DEF Abs, Signed
  <2>2. (- x) * One = - (x * One)
    BY <1>5, DecimalsAssumption
  <2> QED
    BY <2>1, <2>2 DEF Signed
<1>11. PICK z : z = n * y - x * One /\ z \in Int
  BY <1>5, DecimalsAssumption
<1>12. Abs(r * b - a * One) = Abs(z)
  <2>1. n * y \in Int /\ x * One \in Int
    BY <1>5, DecimalsAssumption
  <2> QED
    BY <1>9, <1>10, <1>11, <2>1 DEF Abs, Signed
<1>13. One * z = y * e - m
  <2>1. One \in Int /\ n \in Int /\ q \in Int /\ y \in Int /\ x \in Int
    BY <1>5, DecimalsAssumption
  <2>2. One * (n * y - x * One) = One * (n * y) - x * One * One
    BY <2>1
  <2>3. y * (n * One - q) = y * (n * One) - y * q
    BY <2>1
  <2>4. y * (n * One) = One * (n * y)
    BY <2>1
  <2>5. x * One * One = y * q + m
    BY <1>1, <1>5, Zenon
  <2>6. One * (n * y) \in Int /\ y * q \in Int
    BY <2>1
  <2>7. One * (n * y - x * One) = y * (n * One - q) - m
    BY <2>2, <2>3, <2>4, <2>5, <2>6
  <2> QED
    BY <1>6, <1>11, <2>7, Zenon
<1>14. - (y * One) <= 2 * (y * e) /\ 2 * (y * e) <= y * One
  <2>1. y \in Nat /\ One \in Int /\ e \in Int
    BY <1>5, <1>6, DecimalsAssumption
  <2>2. One - 2 * e >= 0 /\ One + 2 * e >= 0
    BY <1>7, <2>1
  <2>3. y * (One - 2 * e) >= 0 /\ y * (One + 2 * e) >= 0
    BY <2>1, <2>2
  <2>4. y * (One - 2 * e) = y * One - 2 * (y * e) /\ y * (One + 2 * e) = y * One + 2 * (y * e)
    BY <2>1
  <2>5. y * One \in Int /\ y * e \in Int
    BY <2>1
  <2> QED
    BY <2>3, <2>4, <2>5
<1>15. 2 * (One * z) <= y * One + 2 * y /\ - (2 * (One * z)) <= y * One + 2 * y
  <2>1. y * One \in Nat /\ y * e \in Int /\ m < y
    BY <1>1, <1>5, <1>6, DecimalsAssumption
  <2> QED
    BY <1>5, <1>13, <1>14, <2>1
<1>16. 2 * One * Abs(z) <= y * One + 2 * y
  <2>1. One \in Int
    BY DecimalsAssumption
  <2>2. 2 * One * z = 2 * (One * z) /\ 2 * One * (- z) = - (2 * (One * z))
    BY <1>11, <2>1
  <2>3. Abs(z) = z \/ Abs(z) = - z
    BY <1>11 DEF Abs
  <2> QED
    BY <1>15, <2>2, <2>3, Zenon
<1>17. (One + 2) * y = y * One + 2 * y
  <2>1. One \in Int /\ y \in Int
    BY <1>5, DecimalsAssumption
  <2> QED
    BY <2>1
<1> QED
  BY <1>4, <1>5, <1>12, <1>16, <1>17, Zenon

\* The remainder of a multiple, of either sign.
LEMMA MultipleMod ==
    ASSUME NEW m \in Nat \ {0}, NEW k \in Int
    PROVE  (m * k) % m = 0
<1>1. PICK a : a = m * k /\ a \in Int
  OBVIOUS
<1>2. PICK p, s : p = a \div m /\ s = a % m
  OBVIOUS
<1>3. p \in Int /\ s \in 0 .. m - 1 /\ a = m * p + s
  BY <1>1, <1>2
<1>4. m * (k - p) = s
  BY <1>1, <1>3
<1>5. k - p > 0 => m * (k - p) >= m
  BY <1>3
<1>6. k - p < 0 => m * (k - p) < 0
  BY <1>3
<1>7. k - p = 0 => s = 0
  BY <1>3, <1>4
<1>8. s = 0
  BY <1>3, <1>4, <1>5, <1>6, <1>7
<1> QED
  BY <1>1, <1>2, <1>8, Zenon

\* Ceil: a multiple of One, not below, and by less than One above.
LEMMA CeilIs ==
    ASSUME NEW d \in Int
    PROVE  \E k \in Int : /\ Ceil(d) = One * k /\ One * k \in Int
                          /\ d <= One * k /\ One * k - One < d
                          /\ d < 0 => One * k <= 0
<1>1. PICK q \in Nat, m \in Nat : /\ m < One /\ Abs(d) = One * q + m
                                  /\ BigQuo(d, One) = Signed(d < 0, q)
  BY TruncateIs, Zenon DEF chopPrecisionAndTruncate
<1>2. One * q \in Nat /\ One * (- q) = - (One * q) /\ One * (q + 1) = One * q + One
  BY DecimalsAssumption
<1>3. CASE d < 0
  <2>1. BigQuo(d, One) = - q /\ d = - (One * q) - m
    BY <1>1, <1>2, <1>3 DEF Signed, Abs
  <2>2. BigRem(d, One) = - m
    BY <1>2, <2>1 DEF BigRem
  <2>3. Ceil(d) = One * (- q)
    BY <2>1, <2>2 DEF Ceil
  <2>4. - q \in Int /\ d <= One * (- q) /\ One * (- q) - One < d /\ One * (- q) <= 0
        /\ One * (- q) \in Int
    BY <1>1, <1>2, <2>1, DecimalsAssumption
  <2> QED
    BY <2>3, <2>4, Zenon
<1>4. CASE ~ (d < 0) /\ m = 0
  <2>1. BigQuo(d, One) = q /\ d = One * q
    BY <1>1, <1>2, <1>4 DEF Signed, Abs
  <2>2. BigRem(d, One) = 0
    BY <1>2, <2>1 DEF BigRem
  <2>3. Ceil(d) = One * q
    BY <2>1, <2>2 DEF Ceil
  <2>4. q \in Int /\ d <= One * q /\ One * q - One < d /\ One * q \in Int
    BY <1>2, <2>1, DecimalsAssumption
  <2> QED
    BY <1>4, <2>3, <2>4, Zenon
<1>5. CASE ~ (d < 0) /\ m # 0
  <2>1. BigQuo(d, One) = q /\ d = One * q + m
    BY <1>1, <1>2, <1>5 DEF Signed, Abs
  <2>2. BigRem(d, One) = m
    BY <1>2, <2>1 DEF BigRem
  <2>3. Ceil(d) = One * (q + 1)
    BY <1>5, <2>1, <2>2 DEF Ceil
  <2>4. q + 1 \in Int /\ d <= One * (q + 1) /\ One * (q + 1) - One < d /\ One * (q + 1) \in Int
    BY <1>1, <1>2, <1>5, <2>1, DecimalsAssumption
  <2> QED
    BY <1>5, <2>3, <2>4, Zenon
<1> QED
  BY <1>3, <1>4, <1>5

\* Every operation gives an integer.
LEMMA Ints ==
    /\ \A d \in Int : /\ chopPrecisionAndRound(d) \in Int /\ chopPrecisionAndTruncate(d) \in Int
                      /\ chopPrecisionAndRoundUp(d) \in Int
    /\ \A a \in Int, b \in Int \ {0} : BigQuo(a, b) \in Int
<1>1. ASSUME NEW neg \in BOOLEAN, NEW n \in Nat PROVE Signed(neg, n) \in Int
  BY <1>1 DEF Signed
<1>2. ASSUME NEW a \in Int, NEW b \in Int \ {0} PROVE BigQuo(a, b) \in Int
  <2>1. ((a < 0) # (b < 0)) \in BOOLEAN
    OBVIOUS
  <2>2. PICK q \in Nat : BigQuo(a, b) = Signed((a < 0) # (b < 0), q)
    BY QuoIs, Zenon
  <2>3. Signed((a < 0) # (b < 0), q) \in Int
    BY <1>1, <2>1, Zenon
  <2> QED
    BY <2>2, <2>3, Zenon
<1>3. One \in Int \ {0}
  BY DecimalsAssumption
<1>4. ASSUME NEW d \in Int PROVE chopPrecisionAndRound(d) \in Int
  <2>1. (d < 0) \in BOOLEAN
    OBVIOUS
  <2> QED
    BY <1>1, <2>1, RoundIs, Zenon
<1>5. ASSUME NEW d \in Int
      PROVE  chopPrecisionAndTruncate(d) \in Int /\ chopPrecisionAndRoundUp(d) \in Int
  <2>1. BigQuo(d, One) \in Int
    BY <1>2, <1>3, Zenon
  <2>2. BigQuo(d, One) + 1 \in Int
    BY <2>1
  <2> QED
    BY <2>1, <2>2, Zenon DEF chopPrecisionAndTruncate, chopPrecisionAndRoundUp
<1> QED
  BY <1>2, <1>4, <1>5, Zenon

\* What each operation computes.
LEMMA ResultOf ==
    ASSUME NEW a, NEW b
    PROVE  /\ Result("Add", a, b) = Add(a, b) /\ Result("Sub", a, b) = Sub(a, b)
           /\ Result("Mul", a, b) = Mul(a, b) /\ Result("MulTruncate", a, b) = MulTruncate(a, b)
           /\ Result("MulInt", a, b) = MulInt(a, b) /\ Result("Quo", a, b) = Quo(a, b)
           /\ Result("QuoTruncate", a, b) = QuoTruncate(a, b)
           /\ Result("QuoRoundUp", a, b) = QuoRoundUp(a, b)
           /\ Result("QuoInt", a, b) = QuoInt(a, b) /\ Result("RoundInt", a, b) = RoundInt(a)
           /\ Result("TruncateInt", a, b) = TruncateInt(a)
           /\ Result("TruncateDec", a, b) = TruncateDec(a) /\ Result("Ceil", a, b) = Ceil(a)
  BY DEF Result

\* Below the limit; or a whole number that Ceil or a truncation gave, below it but for One.
Whole(x) == \E k \in Int : x = One * k
Bounded(x) == x \in Int /\ (Abs(x) < Limit \/ (Whole(x) /\ Abs(x) < Limit + One))

\* The operations that compare with the limit give an integer.
LEMMA CheckedInt ==
    ASSUME NEW op \in Checked, NEW a \in Int, NEW b \in Int, op \in Quotients => b # 0
    PROVE  Result(op, a, b) \in Int
<1>1. a + b \in Int /\ a - b \in Int /\ a * b \in Int
  OBVIOUS
<1>2. op \in Quotients => BigQuo(a * One * One, b) \in Int
  <2>1. PICK c : c = a * One * One /\ c \in Int
    BY DecimalsAssumption
  <2>2. op \in Quotients => b \in Int \ {0}
    OBVIOUS
  <2> QED
    BY <2>1, <2>2, Ints, Zenon
<1>3. Add(a, b) \in Int /\ Sub(a, b) \in Int /\ MulInt(a, b) \in Int
  BY <1>1, Zenon DEF Add, Sub, MulInt
<1>4. Mul(a, b) \in Int /\ MulTruncate(a, b) \in Int
  BY <1>1, Ints, Zenon DEF Mul, MulTruncate
<1>5. op \in Quotients => /\ Quo(a, b) \in Int /\ QuoTruncate(a, b) \in Int
                          /\ QuoRoundUp(a, b) \in Int
  BY <1>2, Ints, Zenon DEF Quo, QuoTruncate, QuoRoundUp
<1>6. CASE op = "Add" \/ op = "Sub" \/ op = "MulInt"
  BY <1>3, <1>6, ResultOf, ZenonT(30)
<1>7. CASE op = "Mul" \/ op = "MulTruncate"
  BY <1>4, <1>7, ResultOf, ZenonT(30)
<1>8. CASE op = "Quo" \/ op = "QuoTruncate" \/ op = "QuoRoundUp"
  <2>1. op \in Quotients
    BY <1>8, Zenon DEF Quotients
  <2> QED
    BY <1>5, <1>8, <2>1, ResultOf, ZenonT(30)
<1> QED
  BY <1>6, <1>7, <1>8, Zenon DEF Checked

\* QuoInt by one or by minus one keeps the magnitude, and halves it at least by another.
LEMMA QuoIntBounded ==
    ASSUME NEW a, Bounded(a), NEW b \in Int \ {0}
    PROVE  Bounded(QuoInt(a, b))
<1>1. a \in Int /\ Abs(a) < Limit + One /\ Abs(a) \in Nat
  BY DecimalsAssumption DEF Bounded, Abs
<1>2. PICK q \in Nat, m \in Nat : /\ m < Abs(b) /\ Abs(a) = Abs(b) * q + m
                                  /\ BigQuo(a, b) = Signed((a < 0) # (b < 0), q)
  BY <1>1, QuoIs, Zenon
<1>3. PICK r : r = QuoInt(a, b) /\ r \in Int /\ Abs(r) = q /\ (r = q \/ r = - q)
  BY <1>2 DEF QuoInt, Signed, Abs
<1>4. PICK y : y = Abs(b) /\ y \in Nat \ {0}
  BY DEF Abs
<1>5. CASE y = 1
  <2>1. Abs(a) = q
    BY <1>2, <1>4, <1>5
  <2>2. r = a \/ r = - a
    BY <1>1, <1>3, <2>1 DEF Abs
  <2>3. Whole(a) => Whole(r)
    <3>1. ASSUME NEW k \in Int, a = One * k PROVE Whole(r)
      <4>1. - k \in Int /\ - a = One * (- k)
        BY <3>1, DecimalsAssumption
      <4> QED
        BY <2>2, <3>1, <4>1, Zenon DEF Whole
    <3> QED
      BY <3>1, Zenon DEF Whole
  <2> QED
    BY <1>3, <2>1, <2>3, Zenon DEF Bounded
<1>6. CASE y # 1
  <2>1. y * q >= 2 * q
    <3>1. (y - 2) * q >= 0
      BY <1>4, <1>6
    <3>2. (y - 2) * q = y * q - 2 * q /\ y * q \in Int
      BY <1>4
    <3> QED
      BY <3>1, <3>2
  <2>2. y * q \in Int /\ Abs(a) = y * q + m
    BY <1>2, <1>4
  <2>3. q < Limit
    BY <1>1, <2>1, <2>2, DecimalsAssumption
  <2> QED
    BY <1>3, <2>3, Zenon DEF Bounded
<1> QED
  BY <1>3, <1>5, <1>6

\* TruncateInt divides by two at least; TruncateDec cuts off what is not whole.
LEMMA TruncationsBounded ==
    ASSUME NEW a, Bounded(a)
    PROVE  Bounded(TruncateInt(a)) /\ Bounded(TruncateDec(a))
<1>1. a \in Int /\ Abs(a) < Limit + One /\ Abs(a) \in Nat
  BY DecimalsAssumption DEF Bounded, Abs
<1>2. PICK q \in Nat, m \in Nat : /\ m < One /\ Abs(a) = One * q + m
                                  /\ chopPrecisionAndTruncate(a) = Signed(a < 0, q)
  BY <1>1, TruncateIs, Zenon
<1>3. PICK r : r = chopPrecisionAndTruncate(a) /\ r \in Int /\ (r = q \/ r = - q)
  BY <1>2 DEF Signed
<1>4. One * q \in Nat /\ One * q >= 2 * q /\ One * (- q) = - (One * q)
  <2>1. (One - 2) * q >= 0
    BY DecimalsAssumption
  <2>2. (One - 2) * q = One * q - 2 * q /\ One * q \in Nat /\ One * (- q) = - (One * q)
    BY DecimalsAssumption
  <2> QED
    BY <2>1, <2>2
<1>5. Bounded(TruncateInt(a))
  <2>1. Abs(r) = q
    BY <1>3 DEF Abs
  <2>2. q < Limit
    BY <1>1, <1>2, <1>4, DecimalsAssumption
  <2> QED
    BY <1>3, <2>1, <2>2, Zenon DEF Bounded, TruncateInt
<1>6. Bounded(TruncateDec(a))
  <2>1. One * r \in Int /\ Abs(One * r) = One * q
    BY <1>3, <1>4 DEF Abs
  <2>2. One * q < Limit + One
    BY <1>1, <1>2, <1>4, DecimalsAssumption
  <2> QED
    BY <1>3, <2>1, <2>2, Zenon DEF Bounded, Whole, TruncateDec
<1> QED
  BY <1>5, <1>6

\* RoundInt of a whole number is exact, and that of another is half of it and one at most.
LEMMA RoundIntBounded ==
    ASSUME NEW a, Bounded(a)
    PROVE  Bounded(RoundInt(a))
<1>1. a \in Int /\ Abs(a) \in Nat
  BY DEF Bounded, Abs
<1>2. PICK n \in Nat : /\ chopPrecisionAndRound(a) = Signed(a < 0, n)
                       /\ 2 * Abs(n * One - Abs(a)) <= One
  BY <1>1, RoundIs, Zenon
<1>3. PICK r : r = RoundInt(a) /\ r \in Int /\ Abs(r) = n
  BY <1>2 DEF Signed, Abs, RoundInt
<1>4. n * One \in Nat /\ n * One >= 2 * n
  <2>1. n * (One - 2) >= 0
    BY DecimalsAssumption
  <2>2. n * (One - 2) = n * One - 2 * n /\ n * One \in Nat
    BY DecimalsAssumption
  <2> QED
    BY <2>1, <2>2
<1>5. 2 * (n * One) <= 2 * Abs(a) + One /\ 2 * Abs(a) <= 2 * (n * One) + One
  BY <1>1, <1>2, <1>4, DecimalsAssumption DEF Abs
<1>6. CASE Abs(a) < Limit
  <2>1. n < Limit
    BY <1>1, <1>4, <1>5, <1>6, DecimalsAssumption
  <2> QED
    BY <1>3, <2>1, Zenon DEF Bounded
<1>7. ASSUME NEW k \in Int, a = One * k, Abs(a) < Limit + One
      PROVE  Bounded(RoundInt(a))
  <2>1. Abs(a) = One * Abs(k) /\ Abs(k) \in Nat
    <3>1. One \in Int /\ Abs(One) = One
      BY DecimalsAssumption DEF Abs
    <3>2. Abs(One * k) = Abs(One) * Abs(k)
      BY <3>1, AbsTimes, Zenon
    <3>3. Abs(k) \in Nat
      BY DEF Abs
    <3> QED
      BY <1>7, <3>1, <3>2, <3>3, Zenon
  <2>2. PICK l \in Nat : l = Abs(k) /\ Abs(a) = One * l
    BY <2>1, Zenon
  <2>3. n = l
    <3>1. One * (n - l) = n * One - One * l /\ One * l \in Int
      BY DecimalsAssumption
    <3>2. - One < One * (n - l) /\ One * (n - l) < One
      BY <1>4, <1>5, <2>2, <3>1, DecimalsAssumption
    <3>3. n - l > 0 => One * (n - l) >= One
      BY DecimalsAssumption
    <3>4. n - l < 0 => One * (n - l) <= - One
      <4>1. l - n > 0 => One * (l - n) >= One
        BY DecimalsAssumption
      <4>2. One * (l - n) = - (One * (n - l)) /\ One * (n - l) \in Int
        BY DecimalsAssumption
      <4> QED
        BY <4>1, <4>2, DecimalsAssumption
    <3>5. One * (n - l) \in Int
      BY DecimalsAssumption
    <3> QED
      BY <3>2, <3>3, <3>4, <3>5, DecimalsAssumption
  <2>4. n * One < Limit + One
    <3>1. n * One = One * l
      BY <2>3, DecimalsAssumption
    <3> QED
      BY <1>7, <2>2, <3>1, Zenon
  <2>5. n < Limit
    BY <1>4, <2>4, DecimalsAssumption
  <2> QED
    BY <1>3, <2>5, Zenon DEF Bounded
<1> QED
  BY <1>6, <1>7, Zenon DEF Bounded, Whole

\* Ceil of a whole number is that number, and that of another less than One above it.
LEMMA CeilBounded ==
    ASSUME NEW a, Bounded(a)
    PROVE  Bounded(Ceil(a))
<1>1. a \in Int /\ Abs(a) \in Nat
  BY DEF Bounded, Abs
<1>2. PICK k \in Int : /\ Ceil(a) = One * k /\ One * k \in Int
                       /\ a <= One * k /\ One * k - One < a
                       /\ a < 0 => One * k <= 0
  BY <1>1, CeilIs, Zenon
<1>3. CASE Abs(a) < Limit
  <2>1. Abs(One * k) < Limit + One
    BY <1>1, <1>2, <1>3, DecimalsAssumption DEF Abs
  <2> QED
    BY <1>2, <2>1, Zenon DEF Bounded, Whole
<1>4. ASSUME NEW j \in Int, a = One * j
      PROVE  Ceil(a) = a
  <2>1. One * (k - j) = One * k - One * j /\ One * j \in Int
    BY DecimalsAssumption
  <2>2. 0 <= One * (k - j) /\ One * (k - j) < One
    BY <1>2, <1>4, <2>1, DecimalsAssumption
  <2>3. k - j > 0 => One * (k - j) >= One
    BY DecimalsAssumption
  <2>4. k - j < 0 => One * (k - j) < 0
    BY DecimalsAssumption
  <2>5. k = j
    BY <2>2, <2>3, <2>4, DecimalsAssumption
  <2> QED
    BY <1>2, <1>4, <2>5, Zenon
<1> QED
  BY <1>3, <1>4, Zenon DEF Bounded, Whole

-----------------------------------------------------------------------------
\* The last operation, and that it could be computed.
Latest ==
    \/ latest.op = "none"
    \/ \E op \in Names, a, b \in Int :
          /\ op \in Quotients => b # 0
          /\ latest = [op |-> op, a |-> a, b |-> b, r |-> Result(op, a, b)]

\* The operations without a check lead from a bounded number to one.
LEMMA UncheckedBounded ==
    ASSUME NEW op \in Names \ Checked, NEW a, Bounded(a), NEW b \in Int, op \in Quotients => b # 0
    PROVE  Bounded(Result(op, a, b))
<1>1. CASE op = "QuoInt"
  <2>1. b \in Int \ {0}
    BY <1>1 DEF Quotients
  <2>2. Bounded(QuoInt(a, b))
    BY <2>1, QuoIntBounded, Zenon
  <2>3. Result("QuoInt", a, b) = QuoInt(a, b)
    BY ResultOf, Zenon
  <2> QED
    BY <1>1, <2>2, <2>3, Zenon
<1>2. CASE op = "RoundInt"
  BY <1>2, RoundIntBounded, ResultOf, ZenonT(30)
<1>3. CASE op = "TruncateInt" \/ op = "TruncateDec"
  <2>1. Bounded(TruncateInt(a)) /\ Bounded(TruncateDec(a))
    BY TruncationsBounded, Zenon
  <2>2. Result("TruncateInt", a, b) = TruncateInt(a) /\ Result("TruncateDec", a, b) = TruncateDec(a)
    BY ResultOf, Zenon
  <2> QED
    BY <1>3, <2>1, <2>2, Zenon
<1>4. CASE op = "Ceil"
  BY <1>4, CeilBounded, ResultOf, ZenonT(30)
<1> QED
  BY <1>1, <1>2, <1>3, <1>4, Zenon DEF Names, Checked

\* Every operation keeps the number bounded, and says what it did.
LEMMA ArithStep ==
    ASSUME Bounded(acc), Latest, [ArithNext]_arithVars
    PROVE  Bounded(acc)' /\ Latest'
<1>1. ASSUME NEW op \in Names, NEW b \in Operands, Operate(op, b)
      PROVE  Bounded(acc)' /\ Latest'
  <2>1. b \in Int /\ acc \in Int
    BY ArithAssumption, Zenon DEF Bounded
  <2>2. CASE op \in Quotients /\ b = 0
    <3>1. acc' = acc /\ latest' = latest
      BY <1>1, <2>2, Zenon DEF Operate
    <3> QED
      BY <3>1, Zenon DEF Bounded, Whole, Latest
  <2>3. CASE ~ (op \in Quotients /\ b = 0)
    <3>1. PICK r : r = Result(op, acc, b)
      OBVIOUS
    <3>2. /\ latest' = [op |-> op, a |-> acc, b |-> b, r |-> r]
          /\ acc' = acc \/ (acc' = r /\ ~ (op \in Checked /\ Overflows(r)))
      BY <1>1, <2>3, <3>1, Zenon DEF Operate
    <3>3. Latest'
      BY <2>1, <2>3, <3>1, <3>2, Zenon DEF Latest
    <3>4. CASE acc' = acc
      BY <3>3, <3>4, Zenon DEF Bounded, Whole
    <3>5. CASE acc' = r /\ op \in Checked /\ ~ Overflows(r)
      <4>1. r \in Int
        BY <2>1, <2>3, <3>1, <3>5, CheckedInt, Zenon
      <4>2. Abs(r) < Limit
        BY <3>5, <4>1, DecimalsAssumption DEF Overflows, Abs
      <4> QED
        BY <3>3, <3>5, <4>1, <4>2, Zenon DEF Bounded
    <3>6. CASE acc' = r /\ op \notin Checked
      <4>1. Bounded(r)
        BY <2>1, <2>3, <3>1, <3>6, UncheckedBounded, Zenon
      <4> QED
        BY <3>3, <3>6, <4>1, Zenon DEF Bounded, Whole
    <3> QED
      BY <3>2, <3>4, <3>5, <3>6, Zenon
  <2> QED
    BY <2>2, <2>3
<1>2. CASE UNCHANGED arithVars
  BY <1>2, Zenon DEF arithVars, Bounded, Whole, Latest
<1> QED
  BY <1>1, <1>2, Zenon DEF ArithNext

\* types/dec.go: in any chain of operations on a Dec, of any precision and any limit, Mul
\* is the nearest Dec, Quo is off by half a unit and what its first division cuts off,
\* truncation falls short by less than a unit, Ceil is least, and no number beyond the
\* limit is left, but for less than One.
THEOREM DecRounded == ArithSpec => []DecExact
<1>1. ArithInit => Bounded(acc) /\ Latest
  <2> SUFFICES ASSUME ArithInit PROVE Bounded(acc) /\ Latest
    OBVIOUS
  <2>1. acc \in Int /\ Abs(acc) < Limit
    BY ArithAssumption, Zenon DEF ArithInit
  <2>2. latest.op = "none"
    BY DEF ArithInit
  <2> QED
    BY <2>1, <2>2, Zenon DEF Bounded, Latest
<1>2. Bounded(acc) /\ Latest /\ [ArithNext]_arithVars => (Bounded(acc) /\ Latest)'
  BY ArithStep
<1>3. Bounded(acc) => BelowLimit
  BY DecimalsAssumption DEF Bounded, BelowLimit, Abs
<1>4. Latest => MulNearest /\ QuoNear /\ TruncatesTowardsZero /\ CeilLeast
  <2>1. CASE latest.op = "none"
    BY <2>1, Zenon DEF MulNearest, QuoNear, TruncatesTowardsZero, CeilLeast
  <2>2. ASSUME NEW op \in Names, NEW a \in Int, NEW b \in Int, op \in Quotients => b # 0,
               latest = [op |-> op, a |-> a, b |-> b, r |-> Result(op, a, b)]
        PROVE  MulNearest /\ QuoNear /\ TruncatesTowardsZero /\ CeilLeast
    <3>1. latest.op = op /\ latest.a = a /\ latest.b = b /\ latest.r = Result(op, a, b)
      BY <2>2
    <3>2. op \in Quotients => b \in Int \ {0}
      BY <2>2
    <3>3. MulNearest
      <4>1. Result("Mul", a, b) = Mul(a, b)
        BY ResultOf, Zenon
      <4>2. PICK r : r = Mul(a, b) /\ 2 * Abs(r * One - a * b) <= One
                     /\ (2 * Abs(r * One - a * b) = One => r % 2 = 0)
        BY MulIs, Zenon
      <4> QED
        BY <3>1, <4>1, <4>2, Zenon DEF MulNearest
    <3>4. QuoNear
      <4>1. Result("Quo", a, b) = Quo(a, b)
        BY ResultOf, Zenon
      <4> QED
        BY <3>1, <3>2, <4>1, QuoNearIs, Zenon DEF QuoNear, Quotients
    <3>5. TruncatesTowardsZero
      <4>0. /\ Result("MulTruncate", a, b) = MulTruncate(a, b)
            /\ Result("QuoTruncate", a, b) = QuoTruncate(a, b)
        BY ResultOf, Zenon
      <4>1. op = "MulTruncate" => latest.r = MulTruncate(a, b)
        BY <3>1, <4>0, Zenon
      <4>2. op = "QuoTruncate" => latest.r = QuoTruncate(a, b) /\ b \in Int \ {0}
        BY <3>1, <3>2, <4>0, Zenon DEF Quotients
      <4>3. op = "MulTruncate" => LET short == Abs(latest.a * latest.b) - Abs(latest.r) * One
                                  IN  0 <= short /\ short < One
        BY <3>1, <4>1, MulTruncateIs, Zenon
      <4>4. op = "QuoTruncate" => LET short == Abs(latest.a) * One - Abs(latest.r * latest.b)
                                  IN  0 <= short /\ short < Abs(latest.b)
        BY <3>1, <4>2, QuoTruncateIs, Zenon
      <4> QED
        BY <3>1, <4>3, <4>4, Zenon DEF TruncatesTowardsZero
    <3>6. CeilLeast
      <4> SUFFICES ASSUME op = "Ceil"
                   PROVE  latest.r % One = 0 /\ latest.r >= latest.a /\ latest.r - One < latest.a
        BY <3>1, Zenon DEF CeilLeast
      <4>1. PICK k \in Int : /\ Ceil(a) = One * k /\ One * k \in Int
                             /\ a <= One * k /\ One * k - One < a
        BY CeilIs, Zenon
      <4>2. latest.r = One * k
        <5>1. Result("Ceil", a, b) = Ceil(a)
          BY ResultOf, Zenon
        <5> QED
          BY <3>1, <4>1, <5>1, Zenon
      <4>3. One \in Nat \ {0}
        BY DecimalsAssumption
      <4>4. (One * k) % One = 0
        BY <4>3, MultipleMod, Zenon
      <4>5. One * k >= a
        BY <4>1
      <4> QED
        BY <3>1, <4>1, <4>2, <4>4, <4>5, Zenon
    <3> QED
      BY <3>3, <3>4, <3>5, <3>6
  <2> QED
    BY <2>1, <2>2, Zenon DEF Latest
<1>5. MulNearest /\ QuoNear /\ TruncatesTowardsZero /\ CeilLeast /\ BelowLimit => DecExact
  BY Zenon DEF DecExact
<1> QED
  BY <1>1, <1>2, <1>3, <1>4, <1>5, PTL DEF ArithSpec
=============================================================================

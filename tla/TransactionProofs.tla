-------------------------- MODULE TransactionProofs --------------------------
(***************************************************************************)
(* Proofs about MultiSend, for any request and any sizes of messages and   *)
(* transactions: what SubArray returns, what ReceiptsOf makes of its       *)
(* pieces, and what has been sent at any point of the segment loop.        *)
(***************************************************************************)
EXTENDS MultiSend, Integers, SequenceTheorems, NaturalsInduction, WellFoundedInduction, TLAPS

\* Division with remainder.
LEMMA DivMod ==
    ASSUME NEW a \in Nat, NEW m \in Nat \ {0}
    PROVE  a \div m \in Nat /\ (a % m) \in 0 .. m - 1 /\ a = m * (a \div m) + (a % m)
    BY SMT

\* Where the i-th of the pieces of length L of something of length n ends.
End(L, n, i) == IF i * L < n THEN i * L ELSE n

\* Multiples of a length.
LEMMA Product ==
    ASSUME NEW L \in Nat, NEW i \in Nat, NEW j \in Nat
    PROVE  i * L \in Nat /\ (i + j) * L = i * L + j * L
    BY SMT

\* The ends of the pieces grow and stay within the whole.
LEMMA EndGrows ==
    ASSUME NEW L \in Nat, NEW n \in Nat, NEW i \in Nat, NEW j \in Nat, i <= j
    PROVE  End(L, n, i) \in 0 .. n /\ End(L, n, i) <= End(L, n, j) /\ End(L, n, 0) = 0
<1>1. j - i \in Nat /\ j = i + (j - i)
    OBVIOUS
<1>2. j * L = i * L + (j - i) * L
    BY <1>1, Product
<1>3. i * L \in Nat /\ j * L \in Nat /\ (j - i) * L \in Nat /\ 0 * L = 0
    BY <1>1, Product, SMT
<1> QED
    BY <1>2, <1>3 DEF End

\* ReceiptsOf is the last value of any function that satisfies its recursive equation:
\* two such functions cannot have a least place where they differ.
LEMMA FlattenIs ==
    ASSUME NEW seqs, Len(seqs) \in Nat, NEW g,
           g = [i \in 0 .. Len(seqs) |-> IF i = 0 THEN << >> ELSE g[i - 1] \o seqs[i]]
    PROVE  ReceiptsOf(seqs) = g[Len(seqs)]
<1> DEFINE n == Len(seqs)
           f == CHOOSE f : f = [i \in 0 .. n |-> IF i = 0 THEN << >> ELSE f[i - 1] \o seqs[i]]
           T == {i \in 0 .. n : f[i] # g[i]}
<1>1. f = [i \in 0 .. n |-> IF i = 0 THEN << >> ELSE f[i - 1] \o seqs[i]]
    BY ZenonT(30)
<1> HIDE DEF f
<1>2. ASSUME T # {} PROVE FALSE
  <2>1. T \subseteq Nat
    OBVIOUS
  <2>2. PICK k \in T : \A j \in T : ~ (<<j, k>> \in OpToRel(<, Nat))
    BY <1>2, <2>1, NatLessThanWellFounded, WFMin
  <2>3. k # 0
    BY <1>1, Zenon
  <2>4. k \in 0 .. n /\ k - 1 \in 0 .. n /\ k - 1 < k /\ k \in Nat /\ k - 1 \in Nat
    BY <2>3
  <2>5. <<k - 1, k>> \in OpToRel(<, Nat)
    BY <2>4, Zenon DEF OpToRel
  <2>6. f[k - 1] = g[k - 1]
    BY <2>2, <2>4, <2>5
  <2>7. f[k] = f[k - 1] \o seqs[k]
    BY <1>1, <2>3, <2>4, Zenon
  <2>8. g[k] = g[k - 1] \o seqs[k]
    BY <2>3, <2>4, Zenon
  <2> QED
    BY <2>6, <2>7, <2>8, Zenon
<1>3. n \in 0 .. n
    OBVIOUS
<1>4. f[n] = g[n]
    BY <1>2, <1>3, Zenon
<1> QED
    BY <1>4, ZenonT(30) DEF ReceiptsOf, f

\* The elements of a part of a sequence.
LEMMA Piece ==
    ASSUME NEW S, NEW s \in Seq(S), NEW x \in Nat, NEW y \in Nat, x <= y, y <= Len(s)
    PROVE  /\ SubSeq(s, x + 1, y) \in Seq(S)
           /\ Len(SubSeq(s, x + 1, y)) = y - x
           /\ \A k \in 1 .. y - x : SubSeq(s, x + 1, y)[k] = s[x + k]
    OBVIOUS

\* Two adjacent parts make one.
LEMMA PiecesJoin ==
    ASSUME NEW S, NEW s \in Seq(S), NEW x \in Nat, NEW y \in Nat, NEW z \in Nat,
           x <= y, y <= z, z <= Len(s)
    PROVE  SubSeq(s, x + 1, y) \o SubSeq(s, y + 1, z) = SubSeq(s, x + 1, z)
    OBVIOUS

\* The number of pieces that SubArray computes, with the rest, is what covers n.
LEMMA SubArrayLen ==
    ASSUME NEW n \in Nat, NEW L \in Nat \ {0}, n > L
    PROVE  LET batch == (n \div L) + (IF n % L > 0 THEN 1 ELSE 0) IN
           batch \in Nat /\ batch > 1 /\ (batch - 1) * L < n /\ n <= batch * L
<1> DEFINE q == n \div L
           r == n % L
<1>1. q \in Nat /\ r \in 0 .. L - 1 /\ n = L * q + r
    BY DivMod, Zenon
<1> HIDE DEF q, r
<1>2. L * q = q * L /\ (q + 1) * L = q * L + L /\ q * L \in Nat /\ (q - 1) * L = q * L - L
    BY <1>1, SMT
<1>3. q # 0
    BY <1>1, <1>2
<1>4. q = 1 => q * L = L
    BY SMT
<1> DEFINE batch == q + (IF r > 0 THEN 1 ELSE 0)
<1>5. CASE r > 0
  <2>1. batch = q + 1 /\ batch - 1 = q
    BY <1>1, <1>5
  <2> QED
    BY <1>1, <1>2, <1>3, <1>5, <2>1
<1>6. CASE r = 0
  <2>1. batch = q
    BY <1>1, <1>6
  <2> QED
    BY <1>1, <1>2, <1>3, <1>4, <1>6, <2>1
<1>7. batch \in Nat /\ batch > 1 /\ (batch - 1) * L < n /\ n <= batch * L
    BY <1>1, <1>5, <1>6
<1> QED
    BY <1>7, Zenon DEF q, r, batch

\* SubArray cuts at the multiples of subLen and at the end: its last, shorter segment,
\* an exact multiple and an empty array included.
LEMMA SubArrayCuts ==
    ASSUME NEW L \in Nat \ {0}, NEW S, NEW a \in Seq(S)
    PROVE  LET s == SubArray(L, a)
               E(i) == End(L, Len(a), i)
           IN  /\ s \in Seq(Seq(S)) /\ Len(s) \in Nat \ {0} /\ E(Len(s)) = Len(a)
               /\ \A i \in 1 .. Len(s) : s[i] = SubSeq(a, E(i - 1) + 1, E(i))
               /\ \A i \in 1 .. Len(s) : Len(a) > 0 => E(i - 1) < E(i)
<1> DEFINE n == Len(a)
           E(i) == End(L, n, i)
           batch == (n \div L) + (IF n % L > 0 THEN 1 ELSE 0)
           s == SubArray(L, a)
<1>1. CASE n <= L
  <2>1. s = <<a>>
    BY <1>1, Zenon DEF SubArray
  <2>2. E(0) = 0 /\ E(1) = n
    BY <1>1 DEF End
  <2>3. SubSeq(a, 1, n) = a
    OBVIOUS
  <2> QED
    BY <2>1, <2>2, <2>3
<1>2. CASE n > L
  <2>1. batch \in Nat /\ batch > 1 /\ (batch - 1) * L < n /\ n <= batch * L
    <3>1. n \in Nat
      OBVIOUS
    <3> QED
      BY <1>2, <3>1, SubArrayLen, Zenon
  <2>2. s = [i \in 1 .. batch |-> SubSeq(a, (i - 1) * L + 1, IF i # batch THEN i * L ELSE n)]
    BY <1>2 DEF SubArray
  <2> HIDE DEF batch
  <2>3. E(batch) = n
    BY <2>1 DEF End
  <2>4. ASSUME NEW i \in 1 .. batch
        PROVE  /\ (i - 1) * L = E(i - 1)
               /\ (IF i # batch THEN i * L ELSE n) = E(i)
               /\ E(i - 1) < E(i)
    <3>1. ASSUME NEW j \in Nat, j < batch PROVE j * L < n
      <4>1. batch - 1 = j + (batch - 1 - j) /\ batch - 1 - j \in Nat
        BY <2>1, <3>1
      <4>2. (batch - 1) * L = j * L + (batch - 1 - j) * L
        BY <4>1, Product
      <4> QED
        BY <2>1, <4>1, <4>2, Product
    <3>2. i - 1 \in Nat /\ i - 1 < batch /\ (i # batch => i < batch) /\ i \in Nat
      BY <2>1
    <3>3. (i - 1) * L < n /\ (i # batch => i * L < n)
      BY <3>1, <3>2, Zenon
    <3>4. i * L = (i - 1) * L + L /\ (i - 1) * L \in Nat
      BY <3>2, SMT
    <3>5. E(i - 1) = (i - 1) * L /\ (i # batch => E(i) = i * L)
      BY <3>3, Zenon DEF End
    <3> QED
      BY <2>1, <2>3, <3>3, <3>4, <3>5
  <2>5. ASSUME NEW i \in 1 .. batch PROVE SubSeq(a, E(i - 1) + 1, E(i)) \in Seq(S)
    <3>1. E(i - 1) \in 0 .. n /\ E(i) \in 0 .. n /\ E(i - 1) <= E(i)
      <4>1. i - 1 \in Nat /\ i \in Nat /\ i - 1 <= i /\ i <= i /\ n \in Nat
        BY <2>1
      <4> QED
        BY <4>1, EndGrows, Zenon
    <3> QED
      BY <3>1, Piece
  <2> HIDE DEF E, s
  <2>6. s = [i \in 1 .. batch |-> SubSeq(a, E(i - 1) + 1, E(i))]
    BY <2>2, <2>4, Zenon
  <2>7. s \in Seq(Seq(S)) /\ Len(s) = batch
    <3>1. s \in [1 .. batch -> Seq(S)]
      BY <2>5, <2>6, Zenon
    <3> QED
      BY <2>1, <3>1
  <2>8. Len(s) \in Nat \ {0} /\ E(Len(s)) = n
    BY <2>1, <2>3, <2>7
  <2>9. \A i \in 1 .. Len(s) : s[i] = SubSeq(a, E(i - 1) + 1, E(i))
    BY <2>6, <2>7, Zenon
  <2>10. \A i \in 1 .. Len(s) : E(i - 1) < E(i)
    BY <2>4, <2>7
  <2> QED
    BY <2>7, <2>8, <2>9, <2>10, Zenon DEF E, s
<1> QED
    BY <1>1, <1>2

\* Two ends, in the form that the proofs below use.
LEMMA EndsOf ==
    ASSUME NEW L \in Nat, NEW n \in Nat, NEW i \in Nat, NEW j \in Nat, i <= j
    PROVE  /\ End(L, n, i) \in Nat /\ End(L, n, j) \in Nat
           /\ End(L, n, i) <= End(L, n, j) /\ End(L, n, j) <= n
<1>1. End(L, n, i) \in 0 .. n /\ End(L, n, i) <= End(L, n, j)
    BY EndGrows, Zenon
<1>2. End(L, n, j) \in 0 .. n
    BY EndGrows
<1> QED
    BY <1>1, <1>2

\* s is the sequence of the pieces of length L of a.
Pieces(L, a, s) ==
    \A i \in 1 .. Len(s) : s[i] = SubSeq(a, End(L, Len(a), i - 1) + 1, End(L, Len(a), i))

\* Consecutive pieces, joined, are the part of the whole that they cover.
LEMMA FlattenPieces ==
    ASSUME NEW S, NEW a \in Seq(S), NEW msgs \in Seq(Seq(S)), NEW L \in Nat, Pieces(L, a, msgs),
           NEW lo \in Nat, NEW hi \in Nat, lo < hi, hi <= Len(msgs)
    PROVE  ReceiptsOf(SubSeq(msgs, lo + 1, hi))
               = SubSeq(a, End(L, Len(a), lo) + 1, End(L, Len(a), hi))
<1> DEFINE E(i) == End(L, Len(a), i)
           m == SubSeq(msgs, lo + 1, hi)
           g == [i \in 0 .. hi - lo |-> SubSeq(a, E(lo) + 1, E(lo + i))]
<1>1. Len(m) = hi - lo /\ \A i \in 1 .. hi - lo : m[i] = msgs[lo + i]
    BY Piece
<1>2. Len(a) \in Nat
    OBVIOUS
<1>3. ASSUME NEW i \in 1 .. hi - lo PROVE m[i] = SubSeq(a, E(lo + i - 1) + 1, E(lo + i))
  <2>1. lo + i \in 1 .. Len(msgs)
    OBVIOUS
  <2> QED
    BY <1>1, <2>1 DEF Pieces
<1>4. ASSUME NEW i \in 0 .. hi - lo, i # 0 PROVE g[i] = g[i - 1] \o m[i]
  <2>1. i \in 1 .. hi - lo /\ i - 1 \in 0 .. hi - lo /\ lo + (i - 1) = lo + i - 1
    BY <1>4
  <2>2. /\ lo \in Nat /\ lo + i - 1 \in Nat /\ lo + i \in Nat
        /\ lo <= lo + i - 1 /\ lo + i - 1 <= lo + i
    BY <1>4
  <2> DEFINE x == E(lo)
             y == E(lo + i - 1)
             z == E(lo + i)
  <2>3. x \in Nat /\ y \in Nat /\ z \in Nat /\ x <= y /\ y <= z /\ z <= Len(a)
    BY <1>2, <2>2, EndsOf, Zenon
  <2>4. g[i] = SubSeq(a, x + 1, z) /\ g[i - 1] = SubSeq(a, x + 1, y)
    BY <2>1, Zenon
  <2>5. m[i] = SubSeq(a, y + 1, z)
    BY <1>3, <2>1, Zenon
  <2> HIDE DEF x, y, z, g, m
  <2>6. SubSeq(a, x + 1, y) \o SubSeq(a, y + 1, z) = SubSeq(a, x + 1, z)
    BY <2>3, PiecesJoin
  <2> QED
    BY <2>4, <2>5, <2>6, Zenon
<1>5. 0 \in 0 .. hi - lo /\ lo + 0 = lo
    OBVIOUS
<1>6. g[0] = << >>
  <2>1. g[0] = SubSeq(a, E(lo) + 1, E(lo))
    BY <1>5, Zenon
  <2>2. E(lo) \in Nat
    <3>1. lo <= lo
      OBVIOUS
    <3> QED
      BY <1>2, <3>1, EndsOf, Zenon
  <2> HIDE DEF E, g
  <2>3. \A x \in Nat : SubSeq(a, x + 1, x) = << >>
    OBVIOUS
  <2> QED
    BY <2>1, <2>2, <2>3, Zenon
<1>7. hi - lo \in 0 .. hi - lo /\ lo + (hi - lo) = hi
    OBVIOUS
<1>8. g[hi - lo] = SubSeq(a, E(lo) + 1, E(hi))
    BY <1>7, Zenon
<1>9. g = [i \in 0 .. hi - lo |-> g[i]]
    BY Zenon
<1> HIDE DEF g, E
<1>10. g = [i \in 0 .. Len(m) |-> IF i = 0 THEN << >> ELSE g[i - 1] \o m[i]]
    BY <1>1, <1>4, <1>6, <1>9, Zenon
<1> HIDE DEF m
<1>11. Len(m) \in Nat
    BY <1>1
<1>12. ReceiptsOf(m) = g[Len(m)]
    BY <1>10, <1>11, FlattenIs, Zenon
<1> QED
    BY <1>1, <1>8, <1>12, Zenon DEF m, E

\* One of the pieces s holds x.
Holds(s, x) == \E i \in 1 .. Len(s) : \E j \in DOMAIN s[i] : s[i][j] = x

\* SubArray loses nothing: every element is in a piece.
LEMMA Covered ==
    ASSUME NEW L \in Nat \ {0}, NEW S, NEW a \in Seq(S), NEW k \in 1 .. Len(a)
    PROVE  Holds(SubArray(L, a), a[k])
<1> DEFINE n == Len(a)
           s == SubArray(L, a)
           E(i) == End(L, n, i)
           q == (k - 1) \div L
           r == (k - 1) % L
<1>1. q \in Nat /\ r \in 0 .. L - 1 /\ k - 1 = L * q + r
  <2>1. k - 1 \in Nat
    OBVIOUS
  <2> QED
    BY <2>1, DivMod, Zenon
<1>2. /\ s \in Seq(Seq(S)) /\ Len(s) \in Nat \ {0} /\ E(Len(s)) = n
      /\ \A i \in 1 .. Len(s) : s[i] = SubSeq(a, E(i - 1) + 1, E(i))
    BY SubArrayCuts, Zenon
<1>3. n \in Nat /\ k \in Nat /\ k <= n
    OBVIOUS
<1> HIDE DEF q, r, s
<1>4. L * q = q * L /\ (q + 1) * L = q * L + L /\ q * L \in Nat
    BY <1>1, SMT
<1>5. E(q) < k /\ k <= E(q + 1)
    BY <1>1, <1>3, <1>4 DEF End
<1>6. q < Len(s)
  <2> SUFFICES ASSUME Len(s) <= q PROVE FALSE
    BY <1>1, <1>2
  <2>1. E(Len(s)) <= E(q) /\ E(q) \in Nat
    BY <1>1, <1>2, <1>3, EndsOf
  <2> QED
    BY <1>2, <1>3, <1>5, <2>1
<1>7. PICK i \in 1 .. Len(s) : i = q + 1
    BY <1>1, <1>2, <1>6
<1> DEFINE x == E(i - 1)
           y == E(i)
<1>8. x < k /\ k <= y /\ x \in Nat /\ y \in Nat /\ y <= n
  <2>1. i - 1 = q /\ i - 1 \in Nat /\ i \in Nat /\ i - 1 <= i
    BY <1>1, <1>2, <1>7
  <2>2. x < k /\ k <= y
    BY <1>5, <1>7, <2>1
  <2> QED
    BY <1>3, <2>1, <2>2, EndsOf
<1>9. s[i] = SubSeq(a, x + 1, y)
    BY <1>2, Zenon
<1> HIDE DEF x, y
<1>10. k - x \in 1 .. y - x /\ x + (k - x) = k
    BY <1>3, <1>8
<1>11. s[i][k - x] = a[k] /\ k - x \in DOMAIN s[i]
  <2>1. /\ Len(SubSeq(a, x + 1, y)) = y - x
        /\ \A e \in 1 .. y - x : SubSeq(a, x + 1, y)[e] = a[x + e]
    BY <1>3, <1>8, Piece
  <2>2. s[i][k - x] = a[k]
    BY <1>9, <1>10, <2>1, Zenon
  <2>3. SubSeq(a, x + 1, y) \in Seq(S)
    BY <1>3, <1>8
  <2>4. k - x \in DOMAIN s[i]
    BY <1>9, <1>10, <2>1, <2>3
  <2> QED
    BY <2>2, <2>4, Zenon
<1> QED
    BY <1>11, Zenon DEF s, Holds

-----------------------------------------------------------------------------
(* MultiSend *)

\* The messages and the transactions of the request.
Messages == SubArray(maxMsgLen, receipts)
Segments == SubArray(maxBatch, Messages)

\* Where the receipts of the first i transactions end.
SentBy(i) == End(maxMsgLen, Len(receipts), End(maxBatch, Len(Messages), i))

\* The receipts that are of one of the kinds.
AllOf(kinds) == \A k \in DOMAIN receipts : receipts[k].kind \in kinds

\* The inductive invariant.  The transactions are those of SubArray, the first rs of
\* them are sent, and the receipts are good as far as they have been looked at: not
\* malformed after Convert, not empty after Validate or the first Broadcast.
SendInv ==
    /\ receipts \in Requests
    /\ status \in Statuses
    /\ rs \in Nat
    /\ \/ segments = << >> /\ rs = 0 /\ status \in {"start", "err", "panic"}
       \/ segments = Segments /\ rs <= Len(Segments) /\ status # "start"
    /\ status = "sending" => rs < Len(Segments)
    /\ status = "ok" => rs = Len(Segments)
    /\ status = "validate" => rs = 0
    /\ sent = SubSeq(receipts, 1, SentBy(rs))
    /\ status \in {"validate", "sending"} => AllOf({"good", "empty"})
    /\ status = "sending" /\ Long => AllOf({"good"})
    /\ rs > 0 => AllOf({"good"})

\* The types of the messages and of the transactions, and that both reach the end of
\* what they cut.
LEMMA Cuts ==
    ASSUME receipts \in Requests
    PROVE  /\ receipts \in Seq(Receipts) /\ Len(receipts) \in Nat
           /\ Messages \in Seq(Seq(Receipts)) /\ Len(Messages) \in Nat \ {0}
           /\ End(maxMsgLen, Len(receipts), Len(Messages)) = Len(receipts)
           /\ Segments \in Seq(Seq(Seq(Receipts))) /\ Len(Segments) \in Nat \ {0}
           /\ End(maxBatch, Len(Messages), Len(Segments)) = Len(Messages)
<1>1. receipts \in Seq(Receipts) /\ Len(receipts) \in Nat
    BY MultiSendAssumption
<1>2. /\ Messages \in Seq(Seq(Receipts)) /\ Len(Messages) \in Nat \ {0}
      /\ End(maxMsgLen, Len(receipts), Len(Messages)) = Len(receipts)
    BY <1>1, MultiSendAssumption, SubArrayCuts DEF Messages
<1>3. /\ Segments \in Seq(Seq(Seq(Receipts))) /\ Len(Segments) \in Nat \ {0}
      /\ End(maxBatch, Len(Messages), Len(Segments)) = Len(Messages)
    BY <1>2, MultiSendAssumption, SubArrayCuts DEF Segments
<1> QED
    BY <1>1, <1>2, <1>3

\* The first i transactions hold i * maxBatch * maxMsgLen receipts, or all.
LEMMA SentByIs ==
    ASSUME receipts \in Requests, NEW i \in Nat, NEW j \in Nat, i <= j
    PROVE  /\ SentBy(i) \in 0 .. Len(receipts) /\ SentBy(i) <= SentBy(j)
           /\ SentBy(0) = 0 /\ SentBy(Len(Segments)) = Len(receipts)
           /\ SentBy(i) = End(1, Len(receipts), i * maxBatch * maxMsgLen)
<1> DEFINE E(k) == End(maxBatch, Len(Messages), k)
           n == Len(receipts)
           c == Len(Messages)
<1>1. n \in Nat /\ c \in Nat \ {0} /\ E(Len(Segments)) = c /\ End(maxMsgLen, n, c) = n
    BY Cuts, Zenon
<1>2. maxBatch \in Nat /\ maxMsgLen \in Nat
    BY MultiSendAssumption, Zenon
<1>3. E(i) \in Nat /\ E(j) \in Nat /\ E(i) <= E(j) /\ E(0) = 0
  <2>1. E(i) \in Nat /\ E(j) \in Nat /\ E(i) <= E(j)
    BY <1>1, <1>2, EndsOf, Zenon
  <2>2. E(0) = 0
    BY <1>1, <1>2, EndGrows
  <2> QED
    BY <2>1, <2>2, Zenon
<1>4. SentBy(i) \in 0 .. n /\ SentBy(i) <= SentBy(j) /\ End(maxMsgLen, n, 0) = 0
    BY <1>1, <1>2, <1>3, EndGrows, Zenon DEF SentBy
<1>5. SentBy(0) = 0 /\ SentBy(Len(Segments)) = n
    BY <1>1, <1>3, <1>4, Zenon DEF SentBy
<1>6. SentBy(i) = End(1, n, i * maxBatch * maxMsgLen)
  <2> DEFINE b == i * maxBatch
  <2>1. b \in Nat /\ b * maxMsgLen \in Nat /\ (b * maxMsgLen) * 1 = b * maxMsgLen
    BY <1>2, SMT
  <2> HIDE DEF b
  <2>2. CASE b < c
    BY <1>1, <2>1, <2>2 DEF End, SentBy, b
  <2>3. CASE c <= b
    <3>1. E(i) = c
      BY <1>1, <2>1, <2>3 DEF End, b
    <3>2. c * maxMsgLen <= b * maxMsgLen
      <4>1. b - c \in Nat /\ b = c + (b - c)
        BY <1>1, <2>1, <2>3
      <4>2. b * maxMsgLen = c * maxMsgLen + (b - c) * maxMsgLen
        BY <1>1, <1>2, <4>1, Product
      <4>3. (b - c) * maxMsgLen \in Nat /\ c * maxMsgLen \in Nat
        BY <1>1, <1>2, <4>1, Product
      <4> QED
        BY <4>2, <4>3
    <3>3. c * maxMsgLen \in Nat /\ c * maxMsgLen >= n
      BY <1>1, <1>2, Product DEF End
    <3>4. SentBy(i) = n
      BY <1>1, <3>1, Zenon DEF SentBy
    <3> QED
      BY <1>1, <2>1, <3>2, <3>3, <3>4 DEF End, b
  <2> QED
    BY <1>1, <2>1, <2>2, <2>3
<1> QED
    BY <1>4, <1>5, <1>6, Zenon

\* SendInv holds when MultiSend is called.
LEMMA SendStart == SendInit => SendInv
<1> SUFFICES ASSUME SendInit PROVE SendInv
    OBVIOUS
<1>1. receipts \in Requests /\ rs = 0 /\ sent = << >>
    BY Zenon DEF SendInit
<1>2. receipts \in Seq(Receipts) /\ 0 \in Nat /\ 0 <= 0
    BY <1>1, Cuts
<1>3. SentBy(0) = 0
    BY <1>1, <1>2, SentByIs, Zenon
<1>4. sent = SubSeq(receipts, 1, SentBy(rs))
    BY <1>1, <1>2, <1>3
<1> QED
    BY <1>1, <1>4 DEF SendInit, SendInv, Statuses

\* A step that leaves what was sent and cut as it is, and ends the call or tries again.
LEMMA SendEnds ==
    ASSUME SendInv, UNCHANGED <<receipts, segments, rs, sent>>,
           \/ status' \in {"err", "panic"}
           \/ status = "sending" /\ status' \in {"sending", "caught"}
    PROVE  SendInv'
<1>1. UNCHANGED <<Segments, SentBy(rs)>>
    BY Zenon DEF Segments, SentBy, Messages
<1>2. \A kinds : AllOf(kinds)' = AllOf(kinds)
    BY Zenon DEF AllOf
<1>3. Long' = Long
    BY Zenon DEF Long
<1> QED
    BY <1>1, <1>2, <1>3 DEF SendInv, Statuses

\* A short request is cut into one transaction with one message, which is what MultiSend
\* gives to BuildAndSend.
LEMMA ShortCut ==
    ASSUME Len(receipts) \in Nat, Len(receipts) <= maxMsgLen
    PROVE  Segments = << <<receipts>> >>
<1>1. Messages = <<receipts>>
    BY Zenon DEF Messages, SubArray
<1>2. Len(Messages) = 1 /\ 1 <= maxBatch
    BY <1>1, MultiSendAssumption
<1> QED
    BY <1>1, <1>2 DEF Segments, SubArray

\* Convert makes the transactions, or ends the call before anything is sent.
LEMMA ConvertKeeps == SendInv /\ Convert => SendInv'
<1> SUFFICES ASSUME SendInv, Convert PROVE SendInv'
    OBVIOUS
<1>1. UNCHANGED <<Segments, SentBy(rs), receipts, rs, sent>>
    BY Zenon DEF Convert, Segments, SentBy, Messages
<1>2. \A kinds : AllOf(kinds)' = AllOf(kinds)
    BY Zenon DEF Convert, AllOf
<1>3. receipts \in Seq(Receipts) /\ Len(receipts) \in Nat /\ Len(Segments) \in Nat \ {0}
    BY Cuts, Zenon DEF SendInv
<1>4. CASE \E i \in DOMAIN receipts : receipts[i].kind = "malformed"
  <2>1. status' = "err" /\ UNCHANGED segments
    BY <1>4, Zenon DEF Convert
  <2> QED
    BY <1>1, <2>1, SendEnds
<1>5. CASE ~ \E i \in DOMAIN receipts : receipts[i].kind = "malformed"
  <2>1. AllOf({"good", "empty"})
    <3>1. \A k \in DOMAIN receipts : receipts[k] \in Receipts
      BY <1>3
    <3> QED
      BY <1>5, <3>1 DEF AllOf, Receipts, Kinds
  <2>2. segments' = Segments
    <3>1. CASE Len(receipts) > maxMsgLen
      BY <1>5, <3>1, Zenon DEF Convert, Segments, Messages, Long
    <3>2. CASE Len(receipts) <= maxMsgLen
      <4>1. ~ (Len(receipts) > maxMsgLen)
        BY <1>3, <3>2, MultiSendAssumption
      <4>2. segments' = << <<receipts>> >>
        BY <1>5, <4>1 DEF Convert, Long
      <4> QED
        BY <1>3, <3>2, <4>2, ShortCut
    <3> QED
      BY <1>3, <3>1, <3>2, MultiSendAssumption
  <2>3. rs = 0
    BY Zenon DEF SendInv, Convert
  <2>4. status' \in {"validate", "sending"} /\ (status' = "sending" => ~ Long)
    BY <1>5, Zenon DEF Convert
  <2>5. Long' = Long
    BY <1>1, Zenon DEF Long
  <2> QED
    BY <1>1, <1>2, <1>3, <2>1, <2>2, <2>3, <2>4, <2>5 DEF SendInv, Statuses
<1> QED
    BY <1>4, <1>5

\* After Validate no receipt is bad, since each is in a message that was validated.
LEMMA ValidateKeeps == SendInv /\ Validate => SendInv'
<1> SUFFICES ASSUME SendInv, Validate PROVE SendInv'
    OBVIOUS
<1>1. UNCHANGED <<Segments, SentBy(rs), receipts, segments, rs, sent>>
    BY Zenon DEF Validate, Goes, Segments, SentBy, Messages
<1>2. \A kinds : AllOf(kinds)' = AllOf(kinds)
    BY <1>1, Zenon DEF AllOf
<1>3. /\ receipts \in Seq(Receipts) /\ Messages \in Seq(Seq(Receipts))
      /\ Len(Segments) \in Nat \ {0}
    BY Cuts, Zenon DEF SendInv
<1>4. segments = Segments /\ rs = 0
    BY <1>3, Zenon DEF SendInv, Validate
<1>5. ASSUME \A i \in DOMAIN segments : \A j \in DOMAIN segments[i] : ValidateBasic(segments[i][j])
      PROVE  AllOf({"good"})
  <2> SUFFICES ASSUME NEW k \in 1 .. Len(receipts) PROVE receipts[k].kind = "good"
    BY <1>3 DEF AllOf
  <2>1. PICK m \in 1 .. Len(Messages) : \E j \in DOMAIN Messages[m] : Messages[m][j] = receipts[k]
    <3>1. Holds(SubArray(maxMsgLen, receipts), receipts[k])
      BY <1>3, MultiSendAssumption, Covered
    <3> QED
      BY <3>1, Zenon DEF Holds, Messages
  <2>2. PICK i \in 1 .. Len(Segments) : \E j \in DOMAIN Segments[i] : Segments[i][j] = Messages[m]
    <3>1. Holds(SubArray(maxBatch, Messages), Messages[m])
      BY <1>3, MultiSendAssumption, Covered
    <3> QED
      BY <3>1, Zenon DEF Holds, Segments
  <2>3. ValidateBasic(Messages[m])
    <3>1. i \in DOMAIN segments
      BY <1>3, <1>4, Cuts DEF SendInv
    <3> QED
      BY <1>4, <1>5, <2>2, <3>1, Zenon
  <2>4. receipts[k].kind # "empty"
    BY <2>1, <2>3, Zenon DEF ValidateBasic
  <2>5. receipts[k].kind \in {"good", "empty"}
    BY <1>3 DEF SendInv, Validate, AllOf
  <2> QED
    BY <2>4, <2>5, Zenon
<1>6. CASE status' = "sending"
  <2>1. AllOf({"good"}) /\ AllOf({"good", "empty"})
    BY <1>5, <1>6, Zenon DEF Validate, Goes, SendInv
  <2> QED
    BY <1>1, <1>2, <1>3, <1>4, <1>6, <2>1 DEF SendInv, Statuses
<1>7. CASE status' = "err"
    BY <1>1, <1>7, SendEnds
<1> QED
    BY <1>6, <1>7 DEF Validate, Goes

\* The receipts of transaction i + 1 are those after the receipts of the first i.
LEMMA SegmentIs ==
    ASSUME receipts \in Requests, NEW i \in Nat, i < Len(Segments)
    PROVE  ReceiptsOf(Segments[i + 1]) = SubSeq(receipts, SentBy(i) + 1, SentBy(i + 1))
<1> DEFINE n == Len(receipts)
           c == Len(Messages)
           lo == End(maxBatch, c, i)
           hi == End(maxBatch, c, i + 1)
<1>1. /\ receipts \in Seq(Receipts) /\ n \in Nat /\ c \in Nat \ {0}
      /\ Messages \in Seq(Seq(Receipts)) /\ Len(Segments) \in Nat \ {0}
    BY Cuts, Zenon
<1>2. maxBatch \in Nat \ {0} /\ maxMsgLen \in Nat \ {0}
    BY MultiSendAssumption, Zenon
<1>3. Pieces(maxMsgLen, receipts, Messages)
    BY <1>1, <1>2, SubArrayCuts DEF Messages, Pieces
<1>4. \A k \in 1 .. Len(Segments) :
          /\ Segments[k] = SubSeq(Messages, End(maxBatch, c, k - 1) + 1, End(maxBatch, c, k))
          /\ c > 0 => End(maxBatch, c, k - 1) < End(maxBatch, c, k)
    BY <1>1, <1>2, SubArrayCuts, Zenon DEF Segments
<1>5. i + 1 \in 1 .. Len(Segments) /\ i + 1 - 1 = i /\ i + 1 \in Nat /\ i <= i + 1
    BY <1>1
<1>6. Segments[i + 1] = SubSeq(Messages, lo + 1, hi) /\ lo < hi
    BY <1>1, <1>4, <1>5
<1>7. lo \in Nat /\ hi \in Nat /\ hi <= c
    BY <1>1, <1>2, <1>5, EndsOf, Zenon
<1> HIDE DEF lo, hi, n
<1>8. ReceiptsOf(SubSeq(Messages, lo + 1, hi))
          = SubSeq(receipts, End(maxMsgLen, n, lo) + 1, End(maxMsgLen, n, hi))
  <2>1. maxMsgLen \in Nat
    BY <1>2, Zenon
  <2>2. ASSUME NEW x \in Nat, NEW y \in Nat, x < y, y <= c
        PROVE  ReceiptsOf(SubSeq(Messages, x + 1, y))
                   = SubSeq(receipts, End(maxMsgLen, Len(receipts), x) + 1,
                                      End(maxMsgLen, Len(receipts), y))
    <3>1. receipts \in Seq(Receipts) /\ Messages \in Seq(Seq(Receipts))
      BY <1>1, Zenon
    <3> QED
      BY <1>3, <2>1, <2>2, <3>1, FlattenPieces
  <2> QED
    BY <1>6, <1>7, <2>2, Zenon DEF n
<1> QED
    BY <1>6, <1>8, Zenon DEF SentBy, lo, hi, n

\* The node takes a transaction only if all the receipts are good: SendBatch has validated
\* them all, and a short request is one transaction.
LEMMA TakenIsGood ==
    ASSUME SendInv, status = "sending", Valid
    PROVE  AllOf({"good"})
<1>1. /\ receipts \in Seq(Receipts) /\ Len(receipts) \in Nat /\ rs \in Nat
      /\ segments = Segments /\ rs < Len(Segments)
    BY Cuts, Zenon DEF SendInv
<1>2. CASE Long
    BY <1>2, Zenon DEF SendInv
<1>3. CASE ~ Long
  <2>1. Segments = << <<receipts>> >>
    BY <1>1, <1>3, ShortCut, MultiSendAssumption DEF Long
  <2>2. rs = 0
    BY <1>1, <2>1
  <2>3. ValidateBasic(receipts)
    BY <1>1, <2>1, <2>2 DEF Valid, Current
  <2> QED
    BY <2>3, Zenon DEF SendInv, AllOf, ValidateBasic
<1> QED
    BY <1>2, <1>3, Zenon

\* Broadcast sends the next part of the request, after the node has validated it.
LEMMA BroadcastKeeps == SendInv /\ Broadcast => SendInv'
<1> SUFFICES ASSUME SendInv, Broadcast PROVE SendInv'
    OBVIOUS
<1>1. UNCHANGED <<Segments, receipts, segments>> /\ rs' = rs + 1 /\ SentBy(rs)' = SentBy(rs + 1)
    BY Zenon DEF Broadcast, Segments, SentBy, Messages
<1>2. \A kinds : AllOf(kinds)' = AllOf(kinds)
    BY Zenon DEF Broadcast, AllOf
<1>3. /\ receipts \in Requests /\ receipts \in Seq(Receipts) /\ Len(Segments) \in Nat \ {0}
      /\ Len(receipts) \in Nat /\ rs \in Nat
    BY Cuts, Zenon DEF SendInv
<1>4. segments = Segments /\ rs < Len(Segments)
    BY <1>3, Zenon DEF SendInv, Broadcast
<1>5. sent' = SubSeq(receipts, 1, SentBy(rs + 1))
  <2>1. sent' = SubSeq(receipts, 1, SentBy(rs)) \o SubSeq(receipts, SentBy(rs) + 1, SentBy(rs + 1))
    BY <1>3, <1>4, SegmentIs, Zenon DEF SendInv, Broadcast, Current
  <2>2. rs + 1 \in Nat /\ rs <= rs + 1 /\ rs + 1 <= rs + 1
    BY <1>3
  <2>3. SentBy(rs) \in 0 .. Len(receipts) /\ SentBy(rs) <= SentBy(rs + 1)
    BY <1>3, <2>2, SentByIs
  <2>4. SentBy(rs + 1) \in 0 .. Len(receipts)
    BY <1>3, <2>2, SentByIs
  <2> DEFINE y == SentBy(rs)
             z == SentBy(rs + 1)
  <2>5. y \in Nat /\ z \in Nat /\ 0 <= y /\ y <= z /\ z <= Len(receipts)
    BY <1>3, <2>3, <2>4
  <2> HIDE DEF y, z
  <2>6. SubSeq(receipts, 0 + 1, y) \o SubSeq(receipts, y + 1, z) = SubSeq(receipts, 0 + 1, z)
    BY <1>3, <2>5, PiecesJoin
  <2>7. 0 + 1 = 1
    OBVIOUS
  <2> QED
    BY <2>1, <2>6, <2>7, Zenon DEF y, z
<1>6. AllOf({"good"})
    BY TakenIsGood, Zenon DEF Broadcast
<1>7. AllOf({"good", "empty"})
    BY Zenon DEF SendInv, Broadcast
<1>8. status' = IF rs + 1 = Len(Segments) THEN "ok" ELSE "sending"
    BY <1>4, Zenon DEF Broadcast
<1>9. /\ rs' \in Nat /\ rs' <= Len(Segments) /\ status' \in {"sending", "ok"}
      /\ status' = "sending" => rs' < Len(Segments)
      /\ status' = "ok" => rs' = Len(Segments)
    BY <1>1, <1>3, <1>4, <1>8
<1>10. /\ receipts' \in Requests /\ Segments' = Segments /\ segments' = Segments
       /\ sent' = SubSeq(receipts', 1, SentBy(rs)')
    BY <1>1, <1>3, <1>4, <1>5, Zenon
<1> QED
    BY <1>2, <1>6, <1>7, <1>9, <1>10 DEF SendInv, Statuses

\* Every step keeps SendInv.
LEMMA SendStep == SendInv /\ [SendNext]_sendVars => SendInv'
<1> SUFFICES ASSUME SendInv, [SendNext]_sendVars PROVE SendInv'
    OBVIOUS
<1>1. CASE NotFound \/ BuildFails
    BY <1>1, SendEnds, Zenon DEF NotFound, BuildFails, Goes
<1>2. CASE Panics
    BY <1>2, SendEnds, Zenon DEF Panics, Goes
<1>3. CASE BroadcastFails
    BY <1>3, SendEnds, Zenon DEF BroadcastFails
<1>4. CASE UNCHANGED sendVars
    BY <1>4, Zenon DEF sendVars, SendInv, Segments, SentBy, Messages, AllOf, Long
<1> QED
    BY <1>1, <1>2, <1>3, <1>4, ConvertKeeps, ValidateKeeps, BroadcastKeeps, Zenon DEF SendNext

\* What a lost answer was about: the transaction after the first k.
LostAt(l, k) == /\ k \in 0 .. rs /\ k < Len(Segments)
                /\ l.at = SentBy(k) /\ l.what = SubSeq(receipts, SentBy(k) + 1, SentBy(k + 1))

\* Its part of the inductive invariant: each lost answer was about the transaction that
\* was in turn, all receipts are good once there is one, and each is a failed broadcast.
LostInv ==
    /\ cached \in BOOLEAN /\ tryCnt \in 0 .. tryThreshold
    /\ lost \in Seq([at: Nat, what: Seq(Receipts)])
    /\ \A i \in DOMAIN lost : \E k \in Nat : LostAt(lost[i], k)
    /\ lost # << >> => AllOf({"good"})
    /\ status \in {"start", "validate"} => tryCnt = 0 /\ lost = << >>
    /\ FewLost

\* A step with no lost answer keeps LostInv, if it only sends on or ends the call.
LEMMA LostQuiet ==
    ASSUME LostInv, UNCHANGED <<cached, receipts, tryCnt, lost>>, rs \in Nat,
           rs' \in {rs, rs + 1}, status # status' => status # "err",
           status' \in {"start", "validate"} => status \in {"start", "validate"}
    PROVE  LostInv'
<1>1. \A l, k : LostAt(l, k) => LostAt(l, k)'
    BY DEF LostAt, SentBy, Segments, Messages
<1>2. Long' = Long /\ AllOf({"good"})' = AllOf({"good"})
    BY Zenon DEF Long, AllOf
<1>3. FewLost'
    BY <1>2 DEF LostInv, FewLost
<1> QED
    BY <1>1, <1>2, <1>3, Zenon DEF LostInv

\* A broadcast without an answer keeps LostInv: the transaction was the one in turn, and
\* it is tried again only before the last of the failed broadcasts.
LEMMA LostAgain == SendInv /\ LostInv /\ BroadcastFails => LostInv'
<1> SUFFICES ASSUME SendInv, LostInv, BroadcastFails PROVE LostInv'
    OBVIOUS
<1>0. PICK new : new = [at |-> Len(sent), what |-> ReceiptsOf(Current)]
    BY Zenon
<1>1. /\ receipts \in Requests /\ receipts \in Seq(Receipts) /\ Len(receipts) \in Nat
      /\ rs \in Nat /\ segments = Segments /\ rs < Len(Segments) /\ status = "sending"
    BY Cuts, Zenon DEF SendInv, BroadcastFails
<1>2. UNCHANGED <<cached, receipts, segments, rs, sent, Segments>> /\ Long' = Long
    BY Zenon DEF BroadcastFails, Segments, Messages, Long
<1>3. SentBy(rs) \in 0 .. Len(receipts) /\ SentBy(rs + 1) \in 0 .. Len(receipts)
    BY <1>1, SentByIs
<1>4. new.at = SentBy(rs) /\ new.what = SubSeq(receipts, SentBy(rs) + 1, SentBy(rs + 1))
  <2>1. Len(sent) = SentBy(rs)
    BY <1>1, <1>3 DEF SendInv
  <2>2. ReceiptsOf(Current) = SubSeq(receipts, SentBy(rs) + 1, SentBy(rs + 1))
    BY <1>1, SegmentIs, Zenon DEF Current
  <2> QED
    BY <1>0, <2>1, <2>2, Zenon
<1>5. \/ UNCHANGED lost
      \/ Valid /\ lost' = Append(lost, new)
    BY <1>0, Zenon DEF BroadcastFails, Unanswered
<1>6. /\ tryCnt < tryThreshold /\ tryCnt \in Nat /\ tryThreshold \in Nat
      /\ lost = << >> \/ (Long /\ cached)
    BY <1>1, MultiSendAssumption DEF LostInv, FewLost
<1>7. /\ tryCnt' = IF Long /\ cached THEN tryCnt + 1 ELSE tryCnt
      /\ status' = IF Long /\ cached /\ tryCnt' < tryThreshold THEN "sending" ELSE "err"
    BY Zenon DEF BroadcastFails
<1>8. new \in [at: Nat, what: Seq(Receipts)]
  <2>1. SubSeq(receipts, SentBy(rs) + 1, SentBy(rs + 1)) \in Seq(Receipts)
    BY <1>1, <1>3
  <2>2. SentBy(rs) \in Nat
    BY <1>3
  <2> QED
    BY <1>0, <1>4, <2>1, <2>2, Zenon
<1>9. \A l, k : LostAt(l, k) => LostAt(l, k)'
    BY <1>2, Zenon DEF LostAt, SentBy, Messages
<1>10. \E k \in Nat : LostAt(new, k)'
  <2>1. LostAt(new, rs)
    BY <1>1, <1>4 DEF LostAt
  <2> QED
    BY <1>1, <1>9, <2>1, Zenon
<1>11. lost \in Seq([at: Nat, what: Seq(Receipts)])
    BY Zenon DEF LostInv
<1>12. lost' \in Seq([at: Nat, what: Seq(Receipts)]) /\ Len(lost') \in {Len(lost), Len(lost) + 1}
  <2> DEFINE T == [at: Nat, what: Seq(Receipts)]
  <2> HIDE DEF T
  <2>1. lost \in Seq(T) /\ new \in T
    BY <1>8, <1>11, Zenon DEF T
  <2>2. lost' \in Seq(T) /\ Len(lost') \in {Len(lost), Len(lost) + 1}
    BY <1>5, <2>1
  <2> QED
    BY <2>2, Zenon DEF T
<1>13. (\A i \in DOMAIN lost : \E k \in Nat : LostAt(lost[i], k))'
  <2>1. \A i \in DOMAIN lost' : (i \in DOMAIN lost /\ lost'[i] = lost[i]) \/ lost'[i] = new
    <3>1. Len(lost) \in Nat /\ DOMAIN lost = 1 .. Len(lost)
      BY <1>11
    <3> QED
      BY <1>5, <3>1
  <2>2. ASSUME NEW l, NEW i \in DOMAIN lost', l = lost'[i]
        PROVE  \E k \in Nat : LostAt(l, k)'
    <3>1. CASE l = new
      BY <1>10, <3>1
    <3>2. CASE i \in DOMAIN lost /\ l = lost[i]
      <4>1. \E k \in Nat : LostAt(l, k)
        BY <3>2, Zenon DEF LostInv
      <4> QED
        BY <1>9, <4>1, Zenon
    <3> QED
      BY <2>1, <2>2, <3>1, <3>2, Zenon
  <2> QED
    BY <2>2, Zenon DEF LostAt
<1>14. lost' # << >> => AllOf({"good"})'
  <2>1. lost' # << >> => AllOf({"good"})
    BY <1>1, <1>5, TakenIsGood, Zenon DEF LostInv
  <2> QED
    BY <1>2, <2>1, Zenon DEF AllOf
<1>15. FewLost'
  <2>1. Len(lost) \in Nat /\ Len(lost) <= IF Long /\ cached THEN tryCnt ELSE 1
    BY <1>11 DEF LostInv, FewLost
  <2>2. lost = << >> => Len(lost) = 0
    OBVIOUS
  <2>3. Len(lost') \in Nat /\ (lost' # << >> /\ ~ (Long /\ cached) => status' = "err")
    BY <1>7, <1>12
  <2>4. tryCnt' = tryThreshold => status' = "err"
    BY <1>6, <1>7
  <2>5. Len(lost') <= IF Long /\ cached THEN tryCnt' ELSE 1
    <3>1. Len(lost') \in {Len(lost), Len(lost) + 1}
      BY <1>12, Zenon
    <3>2. CASE Long /\ cached
      BY <1>6, <1>7, <2>1, <3>1, <3>2
    <3>3. CASE ~ (Long /\ cached)
      BY <1>6, <2>2, <3>1, <3>3
    <3> QED
      BY <3>2, <3>3, Zenon
  <2> QED
    BY <1>2, <2>3, <2>4, <2>5, Zenon DEF FewLost
<1>16. tryCnt' \in 0 .. tryThreshold /\ cached' \in BOOLEAN
    BY <1>2, <1>6, <1>7 DEF LostInv
<1>17. status' \notin {"start", "validate"}
    BY <1>7
<1> QED
    BY <1>12, <1>13, <1>14, <1>15, <1>16, <1>17, Zenon DEF LostInv

\* Every step keeps LostInv.
LEMMA LostStep == SendInv /\ LostInv /\ [SendNext]_sendVars => LostInv'
<1> SUFFICES ASSUME SendInv, LostInv, [SendNext]_sendVars PROVE LostInv'
    OBVIOUS
<1>1. rs \in Nat
    BY Zenon DEF SendInv
<1>2. CASE NotFound \/ BuildFails \/ Panics \/ Validate
    BY <1>1, <1>2, LostQuiet, Zenon DEF NotFound, BuildFails, Panics, Validate, Goes
<1>3. CASE Convert \/ Broadcast
    BY <1>1, <1>3, LostQuiet, Zenon DEF Convert, Broadcast
<1>4. CASE UNCHANGED sendVars
    BY <1>1, <1>4, LostQuiet, Zenon DEF sendVars
<1> QED
    BY <1>2, <1>3, <1>4, LostAgain, Zenon DEF SendNext

\* Nothing is lost when MultiSend is called.
LEMMA LostStart == SendInit => LostInv
<1> SUFFICES ASSUME SendInit PROVE LostInv
    OBVIOUS
<1>1. lost = << >> /\ tryCnt = 0 /\ cached \in BOOLEAN /\ status = "start"
    BY Zenon DEF SendInit
<1>2. FewLost
    BY <1>1, MultiSendAssumption DEF FewLost
<1> QED
    BY <1>1, <1>2, MultiSendAssumption DEF LostInv

\* The invariant implies the types and the bound of the segment loop.
LEMMA SendTypes ==
    ASSUME SendInv, LostInv
    PROVE  SendTypeOK
<1>1. receipts \in Seq(Receipts) /\ Len(Segments) \in Nat
    BY Cuts, Zenon DEF SendInv
<1>2. rs \in 0 .. Len(segments) /\ (status = "sending" => rs < Len(segments))
    BY <1>1 DEF SendInv
<1>3. SentBy(rs) \in 0 .. Len(receipts)
    BY SentByIs DEF SendInv
<1>4. sent \in Seq({receipts[i] : i \in DOMAIN receipts})
  <2>1. receipts \in Seq({receipts[i] : i \in DOMAIN receipts})
    BY <1>1
  <2> QED
    BY <1>3, <2>1 DEF SendInv
<1> QED
    BY <1>1, <1>2, <1>4, Zenon DEF SendTypeOK, SendInv, LostInv

\* SendInv and LostInv, the inductive invariant, hold throughout a MultiSend.
THEOREM SendInvariant == SendSpec => [](SendInv /\ LostInv)
    BY SendStart, LostStart, SendStep, LostStep, PTL DEF SendSpec

\* For every maxMsgLen, maxBatch, tryThreshold and request, of any length and with any
\* receipts: what the node said it took of a MultiSend that ends, fails or panics at any
\* transaction, after any retries, is a prefix of the request, and what it took without
\* an answer is the transaction that follows that prefix.
THEOREM PrefixSent == SendSpec => []SentIsPrefix
<1>1. SendInv /\ LostInv => SentIsPrefix
  <2> SUFFICES ASSUME SendInv, LostInv PROVE SentIsPrefix
    OBVIOUS
  <2>1. /\ receipts \in Requests /\ receipts \in Seq(Receipts) /\ Len(receipts) \in Nat
        /\ rs \in Nat /\ rs <= rs
    BY Cuts DEF SendInv
  <2>2. SentBy(rs) \in 0 .. Len(receipts)
    BY <2>1, SentByIs, Zenon
  <2>3. sent = SubSeq(receipts, 1, SentBy(rs)) /\ Len(sent) = SentBy(rs)
    BY <2>1, <2>2 DEF SendInv
  <2>4. ASSUME NEW i \in DOMAIN lost
        PROVE  LET from == lost[i].at
                   to == lost[i].at + Len(lost[i].what)
               IN  /\ from <= Len(sent) /\ lost[i].what = SubSeq(receipts, from + 1, to)
                   /\ from < Len(sent) => to <= Len(sent)
    <3>1. PICK k \in Nat : LostAt(lost[i], k)
      BY <2>4, Zenon DEF LostInv
    <3> DEFINE x == SentBy(k)
               y == SentBy(k + 1)
               z == SentBy(rs)
    <3>2. /\ k <= rs /\ k + 1 \in Nat /\ k <= k + 1 /\ k + 1 <= k + 1
          /\ k < rs => k + 1 <= rs
      BY <2>1, <3>1 DEF LostAt
    <3>3. x \in 0 .. Len(receipts) /\ y \in 0 .. Len(receipts) /\ x <= y /\ x <= z
      BY <2>1, <3>2, SentByIs, Zenon
    <3>4. k < rs => y <= z
      BY <2>1, <3>2, SentByIs, Zenon
    <3>5. k = rs => x = z
      BY Zenon
    <3>6. lost[i].at = x /\ lost[i].what = SubSeq(receipts, x + 1, y)
      BY <3>1, Zenon DEF LostAt
    <3> HIDE DEF x, y, z
    <3>7. Len(SubSeq(receipts, x + 1, y)) = y - x
      BY <2>1, <3>3
    <3>8. x + (y - x) = y /\ (x < z => y <= z)
      BY <2>1, <3>1, <3>2, <3>3, <3>4, <3>5 DEF LostAt
    <3>9. x <= Len(sent) /\ (x < Len(sent) => y <= Len(sent))
      BY <2>3, <3>3, <3>8, Zenon DEF z
    <3> QED
      BY <3>6, <3>7, <3>8, <3>9, Zenon
  <2>5. Len(sent) <= Len(receipts) /\ sent = SubSeq(receipts, 1, Len(sent))
    BY <2>1, <2>2, <2>3
  <2> QED
    BY <2>4, <2>5, Zenon DEF SentIsPrefix
<1> QED
    BY <1>1, SendInvariant, PTL

\* For the same requests: a nil error that does not come from a recovered panic means that
\* everybody was paid, the number of results says how far a failed call got but for lost
\* answers, of which there are no more than failed broadcasts, and a receipt that cannot
\* be converted or validated, anywhere in the request, keeps everybody from being paid.
THEOREM AnswerTrue == SendSpec => []AnswerTellsProgress
<1> SUFFICES ASSUME SendInv, LostInv
             PROVE  OkMeansAllSent /\ ResultsTellProgress /\ FewLost /\ InvalidSendsNothing
    BY SendInvariant, SendTypes, PTL DEF AnswerTellsProgress
<1>1. /\ receipts \in Seq(Receipts) /\ Len(receipts) \in Nat /\ Len(Segments) \in Nat
      /\ receipts \in Requests /\ rs \in Nat /\ rs <= rs
    BY Cuts DEF SendInv
<1>2. /\ SentBy(rs) \in 0 .. Len(receipts) /\ SentBy(0) = 0 /\ SentBy(Len(Segments)) = Len(receipts)
      /\ SentBy(rs) = End(1, Len(receipts), rs * maxBatch * maxMsgLen)
    BY <1>1, SentByIs, Zenon
<1>3. sent = SubSeq(receipts, 1, SentBy(rs)) /\ Len(sent) = SentBy(rs)
    BY <1>1, <1>2 DEF SendInv
<1>4. OkMeansAllSent
    BY <1>1, <1>2, <1>3 DEF OkMeansAllSent, SendInv
<1>5. ResultsTellProgress
  <2>1. rs * maxBatch * maxMsgLen \in Nat
    BY <1>1, MultiSendAssumption
  <2> QED
    BY <1>2, <1>3, <2>1 DEF ResultsTellProgress, End
<1>6. InvalidSendsNothing
  <2> SUFFICES ASSUME ~ AllOf({"good"}) PROVE sent = << >> /\ lost = << >>
    BY Zenon DEF InvalidSendsNothing, AllOf
  <2>1. ~ rs > 0 /\ lost = << >>
    BY Zenon DEF SendInv, LostInv
  <2> QED
    BY <1>1, <1>2, <1>3, <2>1
<1> QED
    BY <1>4, <1>5, <1>6, Zenon DEF LostInv
=============================================================================

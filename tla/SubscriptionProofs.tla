------------------------- MODULE SubscriptionProofs -------------------------
(***************************************************************************)
(* Proofs about Subscription, for any number of subscriptions, builders    *)
(* and events, any set of functions used and any bound on conditions: an   *)
(* event is handled at most once, by a handler of its kind; what can end   *)
(* the process; and which queries EventQueryBuilder can build.  Build is a *)
(* recursion over the texts, so what it returns is shown for the least     *)
(* number of texts that could be an exception.                             *)
(***************************************************************************)
EXTENDS Subscription, Integers, SequenceTheorems, FiniteSetTheorems, NaturalsInduction,
        WellFoundedInduction, TLAPS

\* The buffer of Build after a text is written.
Write(buf, text) == (IF buf = << >> THEN << >> ELSE Append(buf, And)) \o text

\* buf is the buffer of Build after each of the first n texts.
Buffers(buf, texts, n) ==
    buf = [i \in 0 .. n |-> IF i = 0 THEN << >> ELSE Write(buf[i - 1], texts[i])]

\* There are such buffers, for there is no least number of texts without.
LEMMA BuffersExist ==
    ASSUME NEW texts, NEW m \in Nat
    PROVE  \E buf : Buffers(buf, texts, m)
<1> DEFINE T == {n \in Nat : ~ \E buf : Buffers(buf, texts, n)}
<1>1. ASSUME NEW n \in T, \A j \in T : ~ (<<j, n>> \in OpToRel(<, Nat)) PROVE FALSE
  <2>1. n \in Nat /\ ~ \E buf : Buffers(buf, texts, n)
    OBVIOUS
  <2>2. n # 0
    <3> DEFINE g == [i \in 0 .. 0 |-> << >>]
    <3>1. \A i \in 0 .. 0 : i = 0
      OBVIOUS
    <3>2. g = [i \in 0 .. 0 |-> IF i = 0 THEN << >> ELSE Write(g[i - 1], texts[i])]
      BY <3>1, Zenon
    <3> QED
      BY <2>1, <3>2, Zenon DEF Buffers
  <2>3. n - 1 \in Nat /\ n - 1 < n
    BY <2>1, <2>2
  <2>4. <<n - 1, n>> \in OpToRel(<, Nat)
    BY <2>1, <2>3, Zenon DEF OpToRel
  <2>5. PICK g : Buffers(g, texts, n - 1)
    BY <1>1, <2>3, <2>4, Zenon
  <2> DEFINE h == [i \in 0 .. n |-> IF i < n THEN g[i] ELSE Write(g[n - 1], texts[n])]
  <2>6. ASSUME NEW i \in 0 .. n
        PROVE  h[i] = IF i = 0 THEN << >> ELSE Write(h[i - 1], texts[i])
    <3>1. CASE i = 0
      <4>1. 0 \in 0 .. n /\ 0 \in 0 .. n - 1 /\ 0 < n
        BY <2>1, <2>3
      <4>2. g[0] = << >>
        BY <2>5, <4>1, Zenon DEF Buffers
      <4> QED
        BY <3>1, <4>1, <4>2, Zenon
    <3>2. CASE i # 0 /\ i < n
      <4>1. i - 1 \in 0 .. n /\ i - 1 < n /\ i \in 0 .. n - 1
        BY <2>1, <3>2
      <4>2. g[i] = Write(g[i - 1], texts[i])
        BY <2>5, <3>2, <4>1, Zenon DEF Buffers
      <4>3. h[i] = g[i] /\ h[i - 1] = g[i - 1]
        BY <3>2, <4>1, Zenon
      <4> QED
        BY <3>2, <4>2, <4>3, Zenon
    <3>3. CASE i = n
      <4>1. n - 1 \in 0 .. n /\ n - 1 < n /\ ~ (n < n)
        BY <2>1, <2>3
      <4>2. h[n] = Write(g[n - 1], texts[n]) /\ h[n - 1] = g[n - 1]
        BY <3>3, <4>1, Zenon
      <4> QED
        BY <2>2, <3>3, <4>2, Zenon
    <3> QED
      BY <2>1, <3>1, <3>2, <3>3
  <2>7. h = [i \in 0 .. n |-> IF i = 0 THEN << >> ELSE Write(h[i - 1], texts[i])]
    <3>1. h = [i \in 0 .. n |-> h[i]]
      BY Zenon
    <3> HIDE DEF h
    <3> QED
      BY <2>6, <3>1, Zenon
  <2> HIDE DEF h
  <2> QED
    BY <2>1, <2>7, Zenon DEF Buffers
<1>2. T \subseteq Nat
  OBVIOUS
<1>3. T = {}
  BY <1>1, <1>2, NatLessThanWellFounded, WFMin
<1> QED
  BY <1>3, Zenon

\* Build returns the buffer after the last text.
LEMMA BuildIs ==
    ASSUME NEW texts, Len(texts) \in Nat
    PROVE  \E buf : Buffers(buf, texts, Len(texts)) /\ Build(texts) = buf[Len(texts)]
<1> DEFINE f == CHOOSE f : f = [n \in 0 .. Len(texts) |->
                   IF n = 0 THEN << >>
                   ELSE (IF f[n - 1] = << >> THEN << >> ELSE Append(f[n - 1], And)) \o texts[n]]
<1>1. \E g : g = [n \in 0 .. Len(texts) |->
                   IF n = 0 THEN << >>
                   ELSE (IF g[n - 1] = << >> THEN << >> ELSE Append(g[n - 1], And)) \o texts[n]]
  BY BuffersExist, Zenon DEF Buffers, Write
<1>2. Buffers(f, texts, Len(texts))
  BY <1>1, Zenon DEF Buffers, Write
<1>3. Build(texts) = f[Len(texts)]
  BY Zenon DEF Build
<1> QED
  BY <1>2, <1>3, Zenon

\* The tokens of a query are And and those of the texts.
LEMMA BuildType ==
    ASSUME NEW S, NEW texts \in Seq(Seq(S))
    PROVE  /\ Build(texts) \in Seq(S \cup {And})
           /\ Len(texts) > 0 => \E q \in Seq(S \cup {And}) : Build(texts) = Write(q, texts[Len(texts)])
<1> DEFINE n == Len(texts)
<1>1. n \in Nat
  OBVIOUS
<1>2. PICK buf : Buffers(buf, texts, n) /\ Build(texts) = buf[n]
  BY <1>1, BuildIs, Zenon
<1> DEFINE T == {i \in 0 .. n : buf[i] \notin Seq(S \cup {And})}
<1>3. ASSUME NEW i \in T, \A j \in T : ~ (<<j, i>> \in OpToRel(<, Nat)) PROVE FALSE
  <2>1. i \in 0 .. n /\ i \in Nat /\ buf[i] \notin Seq(S \cup {And})
    BY <1>1
  <2>2. i # 0
    <3>1. << >> \in Seq(S \cup {And})
      OBVIOUS
    <3> QED
      BY <1>2, <2>1, <3>1, Zenon DEF Buffers
  <2>3. i - 1 \in Nat /\ i - 1 < i /\ i - 1 \in 0 .. n /\ i \in 1 .. n
    BY <1>1, <2>1, <2>2
  <2>4. <<i - 1, i>> \in OpToRel(<, Nat)
    BY <2>1, <2>3, Zenon DEF OpToRel
  <2>5. buf[i - 1] \in Seq(S \cup {And})
    BY <1>3, <2>3, <2>4, Zenon
  <2>6. texts[i] \in Seq(S)
    BY <2>3
  <2>7. buf[i] = Write(buf[i - 1], texts[i])
    BY <1>2, <2>1, <2>2, Zenon DEF Buffers
  <2>8. Write(buf[i - 1], texts[i]) \in Seq(S \cup {And})
    BY <2>5, <2>6 DEF Write
  <2> QED
    BY <2>1, <2>7, <2>8, Zenon
<1>4. T \subseteq Nat
  BY <1>1
<1>5. T = {}
  BY <1>3, <1>4, NatLessThanWellFounded, WFMin
<1>6. n \in 0 .. n
  BY <1>1
<1>7. buf[n] \in Seq(S \cup {And})
  BY <1>5, <1>6, Zenon
<1>8. ASSUME n > 0 PROVE \E q \in Seq(S \cup {And}) : Build(texts) = Write(q, texts[n])
  <2>1. n - 1 \in 0 .. n /\ n # 0
    BY <1>1, <1>8
  <2>2. buf[n] = Write(buf[n - 1], texts[n])
    BY <1>2, <1>6, <2>1, Zenon DEF Buffers
  <2> QED
    BY <1>2, <1>5, <2>1, <2>2, Zenon
<1> QED
  BY <1>2, <1>7, <1>8, Zenon

\* The condition that was added last is the last token.
LEMMA BuildLast ==
    ASSUME NEW S, NEW texts \in Seq(Seq(S)), NEW c \in S
    PROVE  LET query == Build(Append(texts, <<c>>))
           IN  /\ query \in Seq(S \cup {And})
               /\ Len(query) \in DOMAIN query /\ query[Len(query)] = c
<1> DEFINE added == Append(texts, <<c>>)
<1>1. added \in Seq(Seq(S)) /\ Len(added) > 0 /\ added[Len(added)] = <<c>>
  OBVIOUS
<1> HIDE DEF added
<1>2. Build(added) \in Seq(S \cup {And})
  BY <1>1, BuildType, Zenon
<1>3. PICK q \in Seq(S \cup {And}) : Build(added) = Write(q, <<c>>)
  BY <1>1, BuildType, Zenon
<1>4. ASSUME NEW p \in Seq(S \cup {And})
      PROVE  Len(p \o <<c>>) \in DOMAIN (p \o <<c>>) /\ (p \o <<c>>)[Len(p \o <<c>>)] = c
  OBVIOUS
<1>5. \E p \in Seq(S \cup {And}) : Write(q, <<c>>) = p \o <<c>>
  <2>1. << >> \in Seq(S \cup {And}) /\ Append(q, And) \in Seq(S \cup {And})
    OBVIOUS
  <2> QED
    BY <2>1, Zenon DEF Write
<1>6. Len(Build(added)) \in DOMAIN Build(added) /\ Build(added)[Len(Build(added))] = c
  BY <1>3, <1>4, <1>5, Zenon
<1> QED
  BY <1>2, <1>6, Zenon DEF added

\* Odd and even numbers follow one another.
LEMMA Parity ==
    ASSUME NEW m \in Nat, m % 2 = 1
    PROVE  (m + 1) % 2 = 0 /\ (m + 2) % 2 = 1 /\ (m + 2) % 2 # 0
<1>1. (m + 1) % 2 = 0
  OBVIOUS
<1>2. (m + 2) % 2 = 1
  OBVIOUS
<1> QED
  BY <1>1, <1>2

\* Joined by AND, conditions with an operator make a query that the node accepts.
LEMMA BuildWellFormed ==
    ASSUME NEW S, And \notin S, NEW texts \in Seq(Seq(S)), Len(texts) > 0,
           \A i \in DOMAIN texts : \E c \in S : texts[i] = <<c>>
    PROVE  WellFormed(Build(texts))
<1> DEFINE n == Len(texts)
           Good(q) == q \in Seq(S \cup {And}) /\ WellFormed(q)
<1>1. n \in Nat /\ DOMAIN texts = 1 .. n
  OBVIOUS
<1>2. PICK buf : Buffers(buf, texts, n) /\ Build(texts) = buf[n]
  BY <1>1, BuildIs, Zenon
<1>3. ASSUME NEW c \in S PROVE Good(Write(<< >>, <<c>>))
  <2>1. Write(<< >>, <<c>>) = <<c>>
    BY DEF Write
  <2>2. <<c>> \in Seq(S \cup {And}) /\ Len(<<c>>) % 2 = 1
    OBVIOUS
  <2>3. \A i \in DOMAIN <<c>> : i = 1 /\ <<c>>[i] # And
    OBVIOUS
  <2>4. 1 % 2 # 0
    OBVIOUS
  <2> QED
    BY <2>1, <2>2, <2>3, <2>4, Zenon DEF WellFormed
<1>4. ASSUME NEW q, Good(q), NEW c \in S PROVE Good(Write(q, <<c>>))
  <2> DEFINE r == Append(Append(q, And), c)
  <2>0. q \in Seq(S \cup {And}) /\ Len(q) % 2 = 1
    BY <1>4, Zenon DEF WellFormed
  <2>1. q \in Seq(S \cup {And}) /\ Len(q) \in Nat /\ Len(q) % 2 = 1
    BY <2>0, LenProperties, Zenon
  <2>2. q # << >>
    BY <2>1
  <2>3. Write(q, <<c>>) = r
    <3>1. Append(q, And) \in Seq(S \cup {And})
      BY <2>1
    <3>2. Append(q, And) \o <<c>> = r
      BY <3>1, AppendIsConcat
    <3> QED
      BY <2>2, <3>2, Zenon DEF Write
  <2>4. r \in Seq(S \cup {And}) /\ Len(r) = Len(q) + 2
    BY <2>1
  <2>5. (Len(q) + 1) % 2 = 0 /\ (Len(q) + 2) % 2 = 1 /\ (Len(q) + 2) % 2 # 0
    BY <2>1, Parity, Zenon
  <2>6. ASSUME NEW i \in DOMAIN r PROVE (r[i] = And) <=> (i % 2 = 0)
    <3>1. i \in 1 .. Len(q) + 2
      BY <2>1, <2>4
    <3>2. CASE i \in 1 .. Len(q)
      <4>1. r[i] = q[i] /\ i \in DOMAIN q
        BY <2>1, <3>2
      <4> QED
        BY <1>4, <4>1, Zenon DEF WellFormed
    <3>3. CASE i = Len(q) + 1
      <4>1. r[i] = And
        BY <2>1, <3>3
      <4> QED
        BY <2>5, <3>3, <4>1, Zenon
    <3>4. CASE i = Len(q) + 2
      <4>1. r[i] = c
        BY <2>1, <3>4
      <4> QED
        BY <2>5, <3>4, <4>1, Zenon
    <3> QED
      BY <2>1, <3>1, <3>2, <3>3, <3>4
  <2> HIDE DEF r
  <2> QED
    BY <2>3, <2>4, <2>5, <2>6, Zenon DEF WellFormed
<1> DEFINE T == {i \in 1 .. n : ~ Good(buf[i])}
<1>5. ASSUME NEW i \in T, \A j \in T : ~ (<<j, i>> \in OpToRel(<, Nat)) PROVE FALSE
  <2>1. i \in 1 .. n /\ i \in 0 .. n /\ i \in Nat /\ i # 0 /\ ~ Good(buf[i])
    BY <1>1
  <2>2. PICK c \in S : texts[i] = <<c>>
    BY <1>1, <2>1, Zenon
  <2>3. buf[i] = Write(buf[i - 1], <<c>>)
    BY <1>2, <2>1, <2>2, Zenon DEF Buffers
  <2>4. CASE i = 1
    <3>1. i - 1 = 0 /\ 0 \in 0 .. n
      BY <1>1, <2>4
    <3>2. buf[i - 1] = << >>
      BY <1>2, <3>1, Zenon DEF Buffers
    <3> QED
      BY <1>3, <2>1, <2>3, <3>2, Zenon
  <2>5. CASE i # 1
    <3>1. i - 1 \in 1 .. n /\ i - 1 \in Nat /\ i - 1 < i
      BY <1>1, <2>1, <2>5
    <3>2. <<i - 1, i>> \in OpToRel(<, Nat)
      BY <2>1, <3>1, Zenon DEF OpToRel
    <3>3. Good(buf[i - 1])
      BY <1>5, <3>1, <3>2, Zenon
    <3> HIDE DEF Good
    <3> QED
      BY <1>4, <2>1, <2>3, <3>3, Zenon
  <2> QED
    BY <2>4, <2>5
<1>6. T \subseteq Nat
  BY <1>1
<1>7. T = {}
  BY <1>5, <1>6, NatLessThanWellFounded, WFMin
<1>8. n \in 1 .. n
  BY <1>1
<1> QED
  BY <1>2, <1>7, <1>8, Zenon

-----------------------------------------------------------------------------
(* Types *)

States == {"free", "rejected", "on", "lost", "off"}

\* The conditions that are written, and the tokens of a query.
CondKeys == {"tm.event", "attribute", "message.sender", "transfer.recipient"}
Vals == {"a", "Tx"} \cup {KindOf[op] : op \in AllOps}
Conds == [key: CondKeys, val: Vals, op: {"="}]
Tokens == Conds \cup {And}

\* Of these, the ones in a builder that was given to the functions ops.
CondsOf(ops) ==
    {c \in Conds : c.key = "tm.event" => \E op \in ops \cap {"newBlock", "tx"} : c.val = KindOf[op]}

\* Their texts, and the texts of those that have an operator and ask for no kind of event.
TextsOf(ops) == {<< >>} \cup {<<c>> : c \in CondsOf(ops)}
Plain == {<<c>> : c \in CondsOf({})}

Types ==
    /\ conditions \in [Builders -> Seq(Seq(Conds))]
    /\ used \in [Builders -> SUBSET Ops]
    /\ sub \in [Subs -> [state: States, op: AllOps, query: Seq(Tokens)]]
    /\ pending \in [Subs -> Seq(Events)]
    /\ workers \subseteq Subs \X Events
    /\ handled \in Seq(Subs \X Events)
    /\ emitted \subseteq Events
    /\ crash \in {"no", "type", "handler", "undecoded"}

\* The condition on the kind of event that a function adds.
Kind(op) == TypeCond(KindOf[op])

\* A function subscribes s, with the condition on its kind of event after texts of its
\* own or after those of a builder, which gets the condition too.
Made(s, op, texts) ==
    /\ op \in AllOps
    /\ SubscribeAny(s, op, Build(Append(texts, <<Kind(op)>>)))
    /\ \/ texts \in Seq(Plain) /\ UNCHANGED <<conditions, used>>
       \/ \E b \in Builders : /\ texts = conditions[b] /\ op \in {"newBlock", "tx"}
                              /\ conditions' = [conditions EXCEPT ![b] = Append(texts, <<Kind(op)>>)]
                              /\ used' = [used EXCEPT ![b] = @ \cup {op}]

\* The functions that subscribe.
Subscribes(s) == \/ \E op \in Ops, b \in Builders \cup {Nil} : SubscribeBuilt(s, op, b)
                 \/ \E op \in Ops : SubscribeKind(s, op)
                 \/ \E from, to \in {Nil, "a"} : SubscribeSendTx(s, from, to)

\* A sequence over a set is one over a larger set.
LEMMA Wider ==
    ASSUME NEW S, NEW T, S \subseteq T, NEW q \in Seq(S)
    PROVE  q \in Seq(T)
  OBVIOUS

\* A condition with an operator is one token.
LEMMA Written ==
    ASSUME NEW key \in CondKeys, NEW val \in Vals
    PROVE  Cond(key, val) \in Conds /\ CondString(Cond(key, val)) = <<Cond(key, val)>>
<1>1. Cond(key, val) \in Conds
  BY Zenon DEF Cond, Conds
<1>2. Cond(key, val).op = "=" /\ "=" # ""
  BY DEF Cond
<1> QED
  BY <1>1, <1>2, Zenon DEF CondString

\* And so is the condition on the kind of event.
LEMMA KindWritten ==
    ASSUME NEW op \in AllOps
    PROVE  /\ Kind(op) \in Conds /\ Kind(op).key = "tm.event" /\ Kind(op).val = KindOf[op]
           /\ CondString(Kind(op)) = <<Kind(op)>> /\ <<Kind(op)>> \in Seq(Conds)
<1>1. KindOf[op] \in Vals
  BY Zenon DEF Vals
<1>2. Kind(op) \in Conds /\ CondString(Kind(op)) = <<Kind(op)>>
  BY <1>1, Written, Zenon DEF TypeCond, Kind, CondKeys
<1>3. Kind(op).key = "tm.event" /\ Kind(op).val = KindOf[op]
  BY Zenon DEF Kind, TypeCond, Cond
<1>4. <<Kind(op)>> \in Seq(Conds)
  BY <1>2
<1> QED
  BY <1>2, <1>3, <1>4, Zenon

\* SubscribeSendTx asks for transactions.
LEMMA SendTxKind == KindOf["sendTx"] = "Tx" /\ "sendTx" \in AllOps
  BY DEF KindOf, AllOps

\* Every function adds the condition on its kind of event, and adds it last.
LEMMA MadeBy ==
    ASSUME Types, NEW s \in Subs, Subscribes(s)
    PROVE  \E op, texts : Made(s, op, texts)
<1>1. << >> \in Seq(Plain) /\ \A t : Append(<< >>, t) = <<t>>
  OBVIOUS
<1>2. ASSUME NEW op \in Ops, NEW b \in Builders \cup {Nil}, SubscribeBuilt(s, op, b)
      PROVE  \E o, texts : Made(s, o, texts)
  <2>1. op \in AllOps /\ op \in {"newBlock", "tx"}
    BY <1>2, Zenon DEF SubscribeBuilt, AllOps
  <2>2. CondString(TypeCond(KindOf[op])) = <<Kind(op)>>
    BY <2>1, KindWritten, Zenon DEF Kind
  <2>3. CASE b = Nil
    <3>1. SubscribeAny(s, op, Build(Append(<< >>, <<Kind(op)>>))) /\ UNCHANGED <<conditions, used>>
      BY <1>2, <2>2, <2>3, Zenon DEF SubscribeBuilt
    <3> QED
      BY <1>1, <2>1, <3>1, Zenon DEF Made
  <2>4. CASE b # Nil
    <3>1. /\ b \in Builders
          /\ SubscribeAny(s, op, Build(Append(conditions[b], <<Kind(op)>>)))
          /\ conditions' = [conditions EXCEPT ![b] = Append(conditions[b], <<Kind(op)>>)]
          /\ used' = [used EXCEPT ![b] = @ \cup {op}]
      BY <1>2, <2>2, <2>4, Zenon DEF SubscribeBuilt
    <3> QED
      BY <2>1, <3>1, Zenon DEF Made
  <2> QED
    BY <2>3, <2>4
<1>3. ASSUME NEW op \in Ops, SubscribeKind(s, op)
      PROVE  \E o, texts : Made(s, o, texts)
  <2>1. op \in AllOps
    BY <1>3, Zenon DEF SubscribeKind, AllOps
  <2>2. CondString(TypeCond(KindOf[op])) = <<Kind(op)>>
    BY <2>1, KindWritten, Zenon DEF Kind
  <2>3. /\ SubscribeAny(s, op, Build(Append(<< >>, <<Kind(op)>>)))
        /\ UNCHANGED <<conditions, used>>
    BY <1>1, <1>3, <2>2, Zenon DEF SubscribeKind
  <2> QED
    BY <1>1, <2>1, <2>3, Zenon DEF Made
<1>4. ASSUME NEW from \in {Nil, "a"}, NEW to \in {Nil, "a"}, SubscribeSendTx(s, from, to)
      PROVE  \E o, texts : Made(s, o, texts)
  <2> DEFINE attr(key, a) == IF a = Nil THEN << >> ELSE << CondString(Cond(key, a)) >>
             texts == attr("message.sender", from) \o attr("transfer.recipient", to)
  <2>1. ASSUME NEW key \in {"message.sender", "transfer.recipient"}, NEW a \in {Nil, "a"}
        PROVE  attr(key, a) \in Seq(Plain)
    <3>1. << >> \in Seq(Plain)
      OBVIOUS
    <3>2. "a" \in Vals /\ key \in CondKeys
      BY Zenon DEF Vals, CondKeys
    <3>3. Cond(key, "a") \in Conds /\ CondString(Cond(key, "a")) = <<Cond(key, "a")>>
      BY <2>1, <3>2, Written, Zenon
    <3>4. Cond(key, "a").key # "tm.event"
      BY <2>1 DEF Cond
    <3>5. <<Cond(key, "a")>> \in Plain
      BY <3>3, <3>4, Zenon DEF Plain, CondsOf
    <3>6. << <<Cond(key, "a")>> >> \in Seq(Plain)
      BY <3>5
    <3> QED
      BY <2>1, <3>1, <3>3, <3>6, Zenon
  <2>2. attr("message.sender", from) \in Seq(Plain) /\ attr("transfer.recipient", to) \in Seq(Plain)
    BY <1>4, <2>1, Zenon
  <2>3. /\ SubscribeAny(s, "sendTx", Build(texts \o << CondString(TypeCond("Tx")) >>))
        /\ UNCHANGED <<conditions, used>>
    BY <1>4, Zenon DEF SubscribeSendTx
  <2> HIDE DEF attr
  <2>4. texts \in Seq(Plain)
    BY <2>2, ConcatProperties, Zenon
  <2> HIDE DEF texts
  <2>5. CondString(TypeCond("Tx")) = <<Kind("sendTx")>>
    BY KindWritten, SendTxKind, Zenon DEF Kind
  <2>6. texts \o << <<Kind("sendTx")>> >> = Append(texts, <<Kind("sendTx")>>)
    <3>1. Plain \subseteq Seq(Conds)
      <4>1. \A c \in Conds : <<c>> \in Seq(Conds)
        OBVIOUS
      <4> QED
        BY <4>1, Zenon DEF Plain, CondsOf
    <3>2. texts \in Seq(Seq(Conds))
      BY <2>4, <3>1, Wider, Zenon
    <3> QED
      BY <3>2, KindWritten, SendTxKind, AppendIsConcat, Zenon
  <2> QED
    BY <2>3, <2>4, <2>5, <2>6, SendTxKind, Zenon DEF Made
<1> QED
  BY <1>2, <1>3, <1>4, Zenon DEF Subscribes

\* What the functions leave in s: their query, which ends with their condition.
LEMMA MadeSub ==
    ASSUME Types, NEW s \in Subs, NEW op, NEW texts, Made(s, op, texts)
    PROVE  LET query == Build(Append(texts, <<Kind(op)>>)) IN
           /\ query \in Seq(Tokens) /\ texts \in Seq(Seq(Conds))
           /\ Len(query) \in DOMAIN query /\ query[Len(query)] = Kind(op)
           /\ Running /\ sub[s].state = "free" /\ op \in AllOps /\ op \in Ops
           /\ \A t \in Subs : t # s => sub'[t] = sub[t]
           /\ sub'[s].op = op /\ sub'[s].query = query
           /\ sub'[s].state = IF WellFormed(query) THEN "on" ELSE "rejected"
           /\ sub' \in [Subs -> [state: States, op: AllOps, query: Seq(Tokens)]]
           /\ UNCHANGED <<pending, workers, handled, emitted, crash>>
<1> DEFINE query == Build(Append(texts, <<Kind(op)>>))
           new(state) == [state |-> state, op |-> op, query |-> query]
<1>1. op \in AllOps /\ op \in Ops /\ SubscribeAny(s, op, query)
  BY Zenon DEF Made, SubscribeAny
<1>2. texts \in Seq(Seq(Conds))
  <2>1. Plain \subseteq Seq(Conds)
    <3>1. \A c \in Conds : <<c>> \in Seq(Conds)
      OBVIOUS
    <3> QED
      BY <3>1, Zenon DEF Plain, CondsOf
  <2>2. CASE texts \in Seq(Plain)
    BY <2>1, <2>2, Wider, Zenon
  <2>3. ASSUME NEW b \in Builders, texts = conditions[b] PROVE texts \in Seq(Seq(Conds))
    <3>1. conditions \in [Builders -> Seq(Seq(Conds))]
      BY Zenon DEF Types
    <3> QED
      BY <2>3, <3>1, Zenon
  <2> QED
    BY <2>2, <2>3, Zenon DEF Made
<1>3. /\ query \in Seq(Tokens)
      /\ Len(query) \in DOMAIN query /\ query[Len(query)] = Kind(op)
  <2>1. Kind(op) \in Conds
    BY <1>1, KindWritten, Zenon
  <2>2. PICK S : S = Conds /\ S \cup {And} = Tokens
    BY Zenon DEF Tokens
  <2>3. /\ query \in Seq(S \cup {And})
        /\ Len(query) \in DOMAIN query /\ query[Len(query)] = Kind(op)
    BY <1>2, <2>1, <2>2, BuildLast, ZenonT(30)
  <2> QED
    BY <2>2, <2>3, Zenon
<1> HIDE DEF query
<1>4. /\ Running /\ sub[s].state = "free"
      /\ UNCHANGED <<pending, workers, handled, emitted, crash>>
      /\ WellFormed(query) => sub' = [sub EXCEPT ![s] = new("on")]
      /\ ~ WellFormed(query) => sub' = [sub EXCEPT ![s] = new("rejected")]
  BY <1>1, Zenon DEF SubscribeAny
<1>5. /\ \A state : new(state).state = state /\ new(state).op = op /\ new(state).query = query
      /\ \A state \in States : new(state) \in [state: States, op: AllOps, query: Seq(Tokens)]
  BY <1>1, <1>3, Zenon
<1>6. "on" \in States /\ "rejected" \in States
  BY Zenon DEF States
<1> HIDE DEF new
<1>7. /\ \A t \in Subs : t # s => sub'[t] = sub[t]
      /\ sub'[s] = new(IF WellFormed(query) THEN "on" ELSE "rejected")
      /\ sub' \in [Subs -> [state: States, op: AllOps, query: Seq(Tokens)]]
  <2> DEFINE state == IF WellFormed(query) THEN "on" ELSE "rejected"
  <2>1. sub' = [sub EXCEPT ![s] = new(state)]
    BY <1>4, Zenon
  <2>2. state \in States
    BY <1>6, Zenon
  <2> HIDE DEF state
  <2>3. new(state) \in [state: States, op: AllOps, query: Seq(Tokens)]
    BY <1>5, <2>2, Zenon
  <2>4. sub \in [Subs -> [state: States, op: AllOps, query: Seq(Tokens)]]
    BY Zenon DEF Types
  <2>5. \A t \in Subs : sub'[t] = IF t = s THEN new(state) ELSE sub[t]
    BY <2>1, <2>4, Zenon
  <2>6. sub' \in [Subs -> [state: States, op: AllOps, query: Seq(Tokens)]]
    BY <2>1, <2>3, <2>4, Zenon
  <2> QED
    BY <2>5, <2>6, Zenon DEF state
<1>8. /\ sub'[s].op = op /\ sub'[s].query = query
      /\ sub'[s].state = IF WellFormed(query) THEN "on" ELSE "rejected"
  BY <1>5, <1>7, Zenon
<1> QED
  BY <1>1, <1>2, <1>3, <1>4, <1>7, <1>8, Zenon DEF query

\* What AddCondition adds.
LEMMA AddedText ==
    ASSUME NEW c \in {Cond("attribute", "a"), Incomplete}, NEW ops
    PROVE  CondString(c) \in TextsOf(ops) /\ CondString(c) \in Seq(Conds)
<1>1. CASE c = Incomplete
  <2>1. CondString(c) = << >>
    BY <1>1, Zenon DEF CondString, Incomplete
  <2>2. << >> \in Seq(Conds)
    OBVIOUS
  <2> QED
    BY <2>1, <2>2, Zenon DEF TextsOf
<1>2. CASE c = Cond("attribute", "a")
  <2>1. c \in Conds /\ CondString(c) = <<c>>
    BY <1>2, Written, Zenon DEF Vals, CondKeys
  <2>2. c.key # "tm.event"
    BY <1>2 DEF Cond
  <2>3. <<c>> \in Seq(Conds)
    BY <2>1
  <2> QED
    BY <2>1, <2>2, <2>3, Zenon DEF TextsOf, CondsOf
<1> QED
  BY <1>1, <1>2

\* The actions, with the functions that subscribe as one.
LEMMA Actions ==
    ASSUME Types, [Next]_vars
    PROVE  \/ \E b \in Builders : \E c \in {Cond("attribute", "a"), Incomplete} : AddCondition(b, c)
           \/ \E s \in Subs : \E op, texts : Made(s, op, texts)
           \/ \E s, t \in Subs : Resubscribe(s, t)
           \/ \E s \in Subs : Unsubscribe(s) \/ Receive(s)
           \/ \E e \in Events : Emit(e)
           \/ \E s \in Subs, e \in Events : Handle(s, e)
           \/ UNCHANGED vars
<1>1. ASSUME NEW s \in Subs, Subscribes(s) PROVE \E op, texts : Made(s, op, texts)
  BY <1>1, MadeBy, Zenon
<1>2. ASSUME NEW w \in workers, Handle(w[1], w[2]) PROVE \E s \in Subs, e \in Events : Handle(s, e)
  <2>1. w[1] \in Subs /\ w[2] \in Events
    BY <1>2, Zenon DEF Types
  <2> QED
    BY <1>2, <2>1, Zenon
<1> QED
  BY <1>1, <1>2, Zenon DEF Next, Subscribes

\* Every variable keeps its type.
LEMMA TypesStep ==
    ASSUME Types, [Next]_vars
    PROVE  Types'
<1>1. ASSUME NEW b \in Builders, NEW c \in {Cond("attribute", "a"), Incomplete}, AddCondition(b, c)
      PROVE  Types'
  <2>1. CondString(c) \in Seq(Conds)
    BY <1>1, AddedText, Zenon
  <2>2. Append(conditions[b], CondString(c)) \in Seq(Seq(Conds))
    BY <2>1, AppendProperties, Zenon DEF Types
  <2>3. conditions' \in [Builders -> Seq(Seq(Conds))]
    BY <1>1, <2>2, Zenon DEF Types, AddCondition
  <2> QED
    BY <1>1, <2>3, Zenon DEF Types, AddCondition
<1>2. ASSUME NEW s \in Subs, NEW op, NEW texts, Made(s, op, texts)
      PROVE  Types'
  <2>1. /\ sub' \in [Subs -> [state: States, op: AllOps, query: Seq(Tokens)]] /\ op \in Ops
        /\ op \in AllOps /\ texts \in Seq(Seq(Conds))
        /\ UNCHANGED <<pending, workers, handled, emitted, crash>>
    BY <1>2, MadeSub, Zenon
  <2>2. Append(texts, <<Kind(op)>>) \in Seq(Seq(Conds))
    BY <2>1, KindWritten, AppendProperties, Zenon
  <2>3. conditions' \in [Builders -> Seq(Seq(Conds))] /\ used' \in [Builders -> SUBSET Ops]
    <3>1. CASE UNCHANGED <<conditions, used>>
      BY <3>1, Zenon DEF Types
    <3>2. ASSUME NEW b \in Builders,
                 conditions' = [conditions EXCEPT ![b] = Append(texts, <<Kind(op)>>)],
                 used' = [used EXCEPT ![b] = @ \cup {op}]
          PROVE  conditions' \in [Builders -> Seq(Seq(Conds))] /\ used' \in [Builders -> SUBSET Ops]
      <4>1. used[b] \cup {op} \in SUBSET Ops
        BY <2>1, Zenon DEF Types
      <4> QED
        BY <2>2, <3>2, <4>1, Zenon DEF Types
    <3> QED
      BY <1>2, <3>1, <3>2, Zenon DEF Made
  <2> QED
    BY <2>1, <2>3, Zenon DEF Types
<1>3. ASSUME NEW s \in Subs, NEW t \in Subs, Resubscribe(s, t)
      PROVE  Types'
  <2>1. [sub[s] EXCEPT !.state = "lost"] \in [state: States, op: AllOps, query: Seq(Tokens)]
    BY Zenon DEF Types, States
  <2> QED
    BY <1>3, <2>1, Zenon DEF Types, Resubscribe
<1>4. ASSUME NEW s \in Subs, Unsubscribe(s)
      PROVE  Types'
  <2>1. [sub[s] EXCEPT !.state = "off"] \in [state: States, op: AllOps, query: Seq(Tokens)]
    BY Zenon DEF Types, States
  <2>2. << >> \in Seq(Events)
    OBVIOUS
  <2> QED
    BY <1>4, <2>1, <2>2, Zenon DEF Types, Unsubscribe
<1>5. ASSUME NEW s \in Subs, Receive(s)
      PROVE  Types'
  <2>1. Head(pending[s]) \in Events /\ Tail(pending[s]) \in Seq(Events)
    BY <1>5, HeadTailProperties, Zenon DEF Types, Receive
  <2>2. pending' \in [Subs -> Seq(Events)] /\ workers' \subseteq Subs \X Events
    <3>1. /\ pending' = [pending EXCEPT ![s] = Tail(pending[s])]
          /\ workers' = workers \cup {<<s, Head(pending[s])>>}
      BY <1>5, Zenon DEF Receive
    <3>2. pending' \in [Subs -> Seq(Events)]
      BY <2>1, <3>1, Zenon DEF Types
    <3>3. <<s, Head(pending[s])>> \in Subs \X Events
      BY <2>1, Zenon
    <3>4. workers \subseteq Subs \X Events
      BY Zenon DEF Types
    <3>5. workers' \subseteq Subs \X Events
      BY <3>1, <3>3, <3>4
    <3> QED
      BY <3>2, <3>5
  <2>3. UNCHANGED <<conditions, used, sub, handled, emitted, crash>>
    BY <1>5, Zenon DEF Receive
  <2> QED
    BY <2>2, <2>3, Zenon DEF Types
<1>6. ASSUME NEW e \in Events, Emit(e)
      PROVE  Types'
  <2>1. \A s \in Subs : Append(pending[s], e) \in Seq(Events)
    BY AppendProperties, Zenon DEF Types
  <2> QED
    BY <1>6, <2>1, Zenon DEF Types, Emit
<1>7. ASSUME NEW s \in Subs, NEW e \in Events, Handle(s, e)
      PROVE  Types'
  <2>1. Append(handled, <<s, e>>) \in Seq(Subs \X Events)
    BY AppendProperties, Zenon DEF Types
  <2>2. Outcomes(s, e) \subseteq {"no", "type", "handler", "undecoded"}
    BY Zenon DEF Outcomes
  <2> QED
    BY <1>7, <2>1, <2>2, Zenon DEF Types, Handle
<1>8. CASE UNCHANGED vars
  BY <1>8, Zenon DEF vars, Types
<1> QED
  BY <1>1, <1>2, <1>3, <1>4, <1>5, <1>6, <1>7, <1>8, Actions, Zenon

-----------------------------------------------------------------------------
(* Every event is in one place *)

Items(q) == {q[i] : i \in DOMAIN q}
Distinct(q) == \A i, j \in DOMAIN q : q[i] = q[j] => i = j

\* What the websocket keeps for s: no event twice, none that is being handled.
PlaceOf(s) ==
    /\ Distinct(pending[s]) /\ Items(pending[s]) \subseteq emitted
    /\ \A e \in Items(pending[s]) : <<s, e>> \notin workers \cup Items(handled)

OnceInv ==
    /\ \A s \in Subs : PlaceOf(s)
    /\ workers \cup Items(handled) \subseteq Subs \X emitted
    /\ workers \cap Items(handled) = {}
    /\ Distinct(handled)

\* A new item at the end.
LEMMA ItemsAppend ==
    ASSUME NEW S, NEW q \in Seq(S), NEW x \in S
    PROVE  /\ Items(Append(q, x)) = Items(q) \cup {x}
           /\ Distinct(q) /\ x \notin Items(q) => Distinct(Append(q, x))
<1>1. /\ DOMAIN q = 1 .. Len(q) /\ DOMAIN Append(q, x) = 1 .. Len(q) + 1 /\ Len(q) \in Nat
      /\ \A i \in 1 .. Len(q) : Append(q, x)[i] = q[i]
      /\ Append(q, x)[Len(q) + 1] = x
  OBVIOUS
<1>2. \A n \in Nat : 1 .. n + 1 = (1 .. n) \cup {n + 1}
  OBVIOUS
<1>3. DOMAIN Append(q, x) = DOMAIN q \cup {Len(q) + 1}
  BY <1>1, <1>2, Zenon
<1>4. \A i \in DOMAIN q : Append(q, x)[i] = q[i]
  BY <1>1, Zenon
<1>5. Items(Append(q, x)) = Items(q) \cup {x}
  <2>1. \A i \in DOMAIN Append(q, x) : Append(q, x)[i] \in Items(q) \cup {x}
    BY <1>1, <1>3, <1>4, Zenon DEF Items
  <2>2. Items(q) \subseteq Items(Append(q, x)) /\ x \in Items(Append(q, x))
    BY <1>1, <1>3, <1>4, Zenon DEF Items
  <2> QED
    BY <2>1, <2>2, Zenon DEF Items
<1>6. ASSUME Distinct(q), x \notin Items(q) PROVE Distinct(Append(q, x))
  <2>1. \A i \in DOMAIN q : q[i] # x
    BY <1>6, Zenon DEF Items
  <2> QED
    BY <1>1, <1>3, <1>4, <1>6, <2>1, Zenon DEF Distinct
<1> QED
  BY <1>5, <1>6, Zenon

\* The first item is taken.
LEMMA ItemsTail ==
    ASSUME NEW S, NEW q \in Seq(S), q # << >>
    PROVE  /\ Head(q) \in Items(q) /\ Items(Tail(q)) \subseteq Items(q)
           /\ Distinct(q) => Distinct(Tail(q)) /\ Head(q) \notin Items(Tail(q))
<1>1. /\ Len(q) \in Nat /\ Len(q) # 0 /\ DOMAIN q = 1 .. Len(q) /\ DOMAIN Tail(q) = 1 .. Len(q) - 1
      /\ Head(q) = q[1] /\ \A i \in 1 .. Len(q) - 1 : Tail(q)[i] = q[i + 1]
  OBVIOUS
<1>2. 1 \in DOMAIN q
  BY <1>1
<1>3. \A i \in DOMAIN Tail(q) : i + 1 \in DOMAIN q /\ i + 1 # 1
  BY <1>1
<1>4. \A i, j \in DOMAIN Tail(q) : i + 1 = j + 1 => i = j
  BY <1>1
<1>5. \A i \in DOMAIN Tail(q) : Tail(q)[i] = q[i + 1]
  BY <1>1, Zenon
<1>6. Head(q) \in Items(q)
  BY <1>1, <1>2, Zenon DEF Items
<1>7. Items(Tail(q)) \subseteq Items(q)
  BY <1>3, <1>5, Zenon DEF Items
<1>8. ASSUME Distinct(q) PROVE Distinct(Tail(q)) /\ Head(q) \notin Items(Tail(q))
  <2>1. Distinct(Tail(q))
    BY <1>3, <1>4, <1>5, <1>8, Zenon DEF Distinct
  <2>2. \A i \in DOMAIN Tail(q) : Tail(q)[i] # Head(q)
    BY <1>1, <1>2, <1>3, <1>5, <1>8, Zenon DEF Distinct
  <2>3. Head(q) \notin Items(Tail(q))
    BY <2>2, Zenon DEF Items
  <2> QED
    BY <2>1, <2>3
<1> QED
  BY <1>6, <1>7, <1>8, Zenon

\* An event goes from the node to the websocket, to a goroutine, to the handler.
LEMMA OnceStep ==
    ASSUME Types, OnceInv, [Next]_vars
    PROVE  OnceInv'
<1>1. CASE UNCHANGED <<pending, workers, handled, emitted>>
  BY <1>1, Zenon DEF OnceInv, PlaceOf
<1>2. ASSUME NEW s \in Subs, Unsubscribe(s) PROVE OnceInv'
  <2>1. /\ pending'[s] = << >> /\ \A t \in Subs : t # s => pending'[t] = pending[t]
        /\ UNCHANGED <<workers, handled, emitted>>
    BY <1>2, Zenon DEF Types, Unsubscribe
  <2>2. Items(<< >>) = {} /\ Distinct(<< >>)
    BY DEF Items, Distinct
  <2>3. \A t \in Subs : PlaceOf(t)'
    BY <2>1, <2>2, Zenon DEF OnceInv, PlaceOf
  <2> QED
    BY <2>1, <2>3, Zenon DEF OnceInv
<1>3. ASSUME NEW s \in Subs, Receive(s) PROVE OnceInv'
  <2> DEFINE e == Head(pending[s])
  <2>1. pending[s] \in Seq(Events) /\ pending[s] # << >>
    BY <1>3, Zenon DEF Types, Receive
  <2>2. /\ e \in Items(pending[s]) /\ Items(Tail(pending[s])) \subseteq Items(pending[s])
        /\ Distinct(pending[s]) => Distinct(Tail(pending[s])) /\ e \notin Items(Tail(pending[s]))
    BY <2>1, ItemsTail, Zenon
  <2>3. /\ pending'[s] = Tail(pending[s]) /\ \A t \in Subs : t # s => pending'[t] = pending[t]
        /\ workers' = workers \cup {<<s, e>>} /\ UNCHANGED <<handled, emitted>>
    BY <1>3, Zenon DEF Types, Receive
  <2> HIDE DEF e
  <2>4. e \in emitted /\ <<s, e>> \notin Items(handled)
    BY <2>2, Zenon DEF OnceInv, PlaceOf
  <2>5. PlaceOf(s)'
    <3>1. \A x \in Items(pending'[s]) : x \in Items(pending[s]) /\ <<s, x>> # <<s, e>>
      BY <2>2, <2>3, Zenon DEF OnceInv, PlaceOf
    <3> QED
      BY <2>2, <2>3, <3>1, Zenon DEF OnceInv, PlaceOf
  <2>6. ASSUME NEW t \in Subs, t # s PROVE PlaceOf(t)'
    <3>1. \A x : <<t, x>> # <<s, e>>
      BY <2>6, Zenon
    <3> QED
      BY <2>3, <2>6, <3>1, Zenon DEF OnceInv, PlaceOf
  <2>7. workers' \cup Items(handled') \subseteq Subs \X emitted'
    <3>1. <<s, e>> \in Subs \X emitted
      BY <2>4, Zenon
    <3> QED
      BY <2>3, <3>1, Zenon DEF OnceInv
  <2>8. workers' \cap Items(handled') = {} /\ Distinct(handled')
    BY <2>3, <2>4, Zenon DEF OnceInv
  <2> QED
    BY <2>5, <2>6, <2>7, <2>8, Zenon DEF OnceInv
<1>4. ASSUME NEW e \in Events, Emit(e) PROVE OnceInv'
  <2>1. e \notin emitted /\ emitted' = emitted \cup {e} /\ UNCHANGED <<workers, handled>>
    BY <1>4, Zenon DEF Emit
  <2>2. ASSUME NEW s \in Subs PROVE PlaceOf(s)'
    <3>1. pending'[s] \in {pending[s], Append(pending[s], e)}
      BY <1>4, <2>2, Zenon DEF Emit
    <3>2. /\ Items(Append(pending[s], e)) = Items(pending[s]) \cup {e}
          /\ Distinct(pending[s]) /\ e \notin Items(pending[s]) => Distinct(Append(pending[s], e))
      BY <2>2, ItemsAppend, Zenon DEF Types
    <3>3. PlaceOf(s) /\ e \notin Items(pending[s])
      BY <2>1, <2>2, Zenon DEF OnceInv, PlaceOf
    <3>4. Distinct(pending'[s]) /\ Items(pending'[s]) \subseteq Items(pending[s]) \cup {e}
      BY <3>1, <3>2, <3>3, Zenon DEF PlaceOf
    <3>5. <<s, e>> \notin workers \cup Items(handled)
      BY <2>1, Zenon DEF OnceInv
    <3> QED
      BY <2>1, <3>3, <3>4, <3>5, Zenon DEF PlaceOf
  <2>3. workers' \cup Items(handled') \subseteq Subs \X emitted'
    BY <2>1, Zenon DEF OnceInv
  <2> QED
    BY <2>1, <2>2, <2>3, Zenon DEF OnceInv
<1>5. ASSUME NEW s \in Subs, NEW e \in Events, Handle(s, e) PROVE OnceInv'
  <2>1. /\ <<s, e>> \in workers /\ workers' = workers \ {<<s, e>>} /\ UNCHANGED <<pending, emitted>>
        /\ handled' \in {handled, Append(handled, <<s, e>>)}
    BY <1>5, Zenon DEF Handle
  <2>2. /\ Items(Append(handled, <<s, e>>)) = Items(handled) \cup {<<s, e>>}
        /\ Distinct(handled) /\ <<s, e>> \notin Items(handled) => Distinct(Append(handled, <<s, e>>))
    BY ItemsAppend, Zenon DEF Types
  <2>3. <<s, e>> \notin Items(handled)
    BY <2>1, Zenon DEF OnceInv
  <2>4. Distinct(handled') /\ Items(handled') \subseteq Items(handled) \cup {<<s, e>>}
    BY <2>1, <2>2, <2>3, Zenon DEF OnceInv
  <2>5. workers' \cup Items(handled') \subseteq workers \cup Items(handled)
    BY <2>1, <2>4, Zenon
  <2>6. workers' \cap Items(handled') = {}
    BY <2>1, <2>4, Zenon DEF OnceInv
  <2>7. \A t \in Subs : PlaceOf(t)'
    BY <2>1, <2>5, Zenon DEF OnceInv, PlaceOf
  <2> QED
    BY <2>1, <2>4, <2>5, <2>6, <2>7, Zenon DEF OnceInv
<1>6. ASSUME NEW s \in Subs, NEW op, NEW texts, Made(s, op, texts)
      PROVE  UNCHANGED <<pending, workers, handled, emitted>>
  BY <1>6, Zenon DEF Made, SubscribeAny
<1> QED
  BY <1>1, <1>2, <1>3, <1>4, <1>5, <1>6, Actions, Zenon DEF AddCondition, Resubscribe, vars

\* The initial state.
LEMMA InitOnce == Init => Types /\ OnceInv
<1> SUFFICES ASSUME Init PROVE Types /\ OnceInv
  OBVIOUS
<1>1. << >> \in Seq(Seq(Conds)) /\ << >> \in Seq(Events) /\ << >> \in Seq(Subs \X Events)
        /\ << >> \in Seq(Tokens)
  OBVIOUS
<1>2. Free \in [state: States, op: AllOps, query: Seq(Tokens)]
  BY <1>1, Zenon DEF Free, States, AllOps
<1>3. Types
  BY <1>1, <1>2, Zenon DEF Init, Types
<1>4. Items(<< >>) = {} /\ Distinct(<< >>)
  BY DEF Items, Distinct
<1>5. OnceInv
  BY <1>4, Zenon DEF Init, OnceInv, PlaceOf
<1> QED
  BY <1>3, <1>5

\* rpc_client.go, SubscribeAny: the goroutines started for the events of a subscription
\* call its handler at most once for each event.
THEOREM NoEventTwice == Spec => []HandledOnce
<1>1. Types /\ OnceInv /\ [Next]_vars => (Types /\ OnceInv)'
  BY TypesStep, OnceStep
<1>2. OnceInv => HandledOnce
  BY Zenon DEF OnceInv, Distinct, HandledOnce
<1> QED
  BY <1>1, <1>2, InitOnce, PTL DEF Spec

-----------------------------------------------------------------------------
(* Events reach handlers of their kind, and what ends the process *)

\* s has been made, and its receive loop runs.
Active(s) == sub[s].state \in {"on", "lost", "off"}

\* The query of s has the condition on the kind of its handler in a place where the node
\* reads one.
Asks(s) == \E i \in DOMAIN sub[s].query : i % 2 = 1 /\ sub[s].query[i] = Kind(sub[s].op)

\* The events that wait for s and those that its goroutines have are of that kind.
FitOf(s) ==
    /\ Active(s) => Asks(s)
    /\ \A e \in Items(pending[s]) : Active(s) /\ e.kind = KindOf[sub[s].op]
    /\ \A e \in Events : <<s, e>> \in workers => Active(s) /\ e.kind = KindOf[sub[s].op]

KindInv == \A s \in Subs : FitOf(s)

\* Event e ends the process in a goroutine of s.
Ends(s, e) == /\ ~ e.decodes /\ e.kind = KindOf[sub[s].op]
              /\ e.kind = "Tx" => sub[s].op = "sendTx" /\ sub[s].state # "lost"

\* Why the process can end.
CrashInv ==
    \/ Running
    \/ crash = "handler" /\ HandlersPanic
    \/ /\ crash = "undecoded"
       /\ \E s \in Subs : \E e \in emitted : Ends(s, e)

\* The node sends an event only if its kind is the one asked for.
LEMMA AskedFor ==
    ASSUME Types, NEW s \in Subs, Asks(s), NEW e, Matches(sub[s].query, e)
    PROVE  e.kind = KindOf[sub[s].op]
<1>1. PICK i \in DOMAIN sub[s].query : i % 2 = 1 /\ sub[s].query[i] = Kind(sub[s].op)
  BY Zenon DEF Asks
<1>2. sub[s].op \in AllOps
  BY Zenon DEF Types
<1>3. sub[s].query[i].key = "tm.event" /\ sub[s].query[i].val = KindOf[sub[s].op]
  BY <1>1, <1>2, KindWritten, Zenon
<1> QED
  BY <1>1, <1>3, Zenon DEF Matches

\* A subscription that stays as it is and gets no event.
LEMMA FitKept ==
    ASSUME NEW s \in Subs, FitOf(s), sub'[s] = sub[s], Items(pending'[s]) \subseteq Items(pending[s]),
           \A e \in Events : <<s, e>> \in workers' => <<s, e>> \in workers
    PROVE  FitOf(s)'
<1>1. (Active(s)' <=> Active(s)) /\ (Asks(s) => Asks(s)')
  BY Zenon DEF Active, Asks
<1> QED
  BY <1>1, Zenon DEF FitOf

\* A subscription that is made has no event yet.
LEMMA FitNew ==
    ASSUME KindInv, NEW s \in Subs, sub[s].state = "free", UNCHANGED <<pending, workers>>,
           \A t \in Subs : t # s => sub'[t] = sub[t], Active(s)' => Asks(s)'
    PROVE  KindInv'
<1>1. ~ Active(s) /\ FitOf(s)
  BY Zenon DEF Active, KindInv
<1>2. FitOf(s)'
  BY <1>1, Zenon DEF FitOf
<1>3. ASSUME NEW t \in Subs, t # s PROVE FitOf(t)'
  BY <1>3, FitKept, Zenon DEF KindInv
<1> QED
  BY <1>2, <1>3, Zenon DEF KindInv

\* Only subscribing changes what a subscription is for.
LEMMA KindStep ==
    ASSUME Types, KindInv, [Next]_vars
    PROVE  KindInv'
<1>1. CASE UNCHANGED <<sub, pending, workers>>
  BY <1>1, FitKept, Zenon DEF KindInv
<1>2. ASSUME NEW s \in Subs, NEW op, NEW texts, Made(s, op, texts) PROVE KindInv'
  <2> DEFINE query == Build(Append(texts, <<Kind(op)>>))
  <2>1. /\ Len(query) \in DOMAIN query /\ query[Len(query)] = Kind(op)
        /\ sub[s].state = "free" /\ \A t \in Subs : t # s => sub'[t] = sub[t]
        /\ sub'[s].op = op /\ sub'[s].query = query
        /\ sub'[s].state = IF WellFormed(query) THEN "on" ELSE "rejected"
        /\ UNCHANGED <<pending, workers>>
    BY <1>2, MadeSub, Zenon
  <2> HIDE DEF query
  <2>2. Active(s)' => WellFormed(query)
    BY <2>1, Zenon DEF Active
  <2>3. Active(s)' => Asks(s)'
    BY <2>1, <2>2, Zenon DEF Asks, WellFormed
  <2> QED
    BY <2>1, <2>3, FitNew, Zenon
<1>3. ASSUME NEW s \in Subs, NEW t \in Subs, Resubscribe(s, t) PROVE KindInv'
  <2>1. /\ sub[t].state = "free" /\ Active(s) /\ UNCHANGED <<pending, workers>>
        /\ \A r \in Subs : r # t => sub'[r] = sub[r]
        /\ sub'[t].query = sub[s].query /\ sub'[t].op = sub[s].op
    BY <1>3, Zenon DEF Types, Resubscribe, Active
  <2>2. Asks(s)
    BY <1>3, <2>1, Zenon DEF KindInv, FitOf
  <2>3. Asks(t)'
    BY <2>1, <2>2, Zenon DEF Asks
  <2> QED
    BY <1>3, <2>1, <2>3, FitNew, Zenon
<1>4. ASSUME NEW s \in Subs, Unsubscribe(s) PROVE KindInv'
  <2>1. /\ Active(s) /\ Active(s)' /\ workers' = workers
        /\ \A t \in Subs : t # s => sub'[t] = sub[t] /\ pending'[t] = pending[t]
        /\ sub'[s].query = sub[s].query /\ sub'[s].op = sub[s].op /\ pending'[s] = << >>
    BY <1>4, Zenon DEF Types, Unsubscribe, Active
  <2>2. Items(<< >>) = {}
    BY DEF Items
  <2>3. Asks(s) => Asks(s)'
    BY <2>1, Zenon DEF Asks
  <2>4. FitOf(s)
    BY <1>4, Zenon DEF KindInv
  <2>5. \A e \in Events : <<s, e>> \in workers' => e.kind = KindOf[sub'[s].op]
    BY <2>1, <2>4, Zenon DEF FitOf
  <2>6. FitOf(s)'
    BY <2>1, <2>2, <2>3, <2>4, <2>5, Zenon DEF FitOf
  <2>7. ASSUME NEW t \in Subs, t # s PROVE FitOf(t)'
    BY <2>1, <2>7, FitKept, Zenon DEF KindInv
  <2> QED
    BY <2>6, <2>7, Zenon DEF KindInv
<1>5. ASSUME NEW s \in Subs, Receive(s) PROVE KindInv'
  <2>1. pending[s] \in Seq(Events) /\ pending[s] # << >>
    BY <1>5, Zenon DEF Types, Receive
  <2>2. Head(pending[s]) \in Items(pending[s]) /\ Items(Tail(pending[s])) \subseteq Items(pending[s])
    BY <2>1, ItemsTail, Zenon
  <2>3. /\ pending'[s] = Tail(pending[s]) /\ \A t \in Subs : t # s => pending'[t] = pending[t]
        /\ workers' = workers \cup {<<s, Head(pending[s])>>} /\ UNCHANGED sub
    BY <1>5, Zenon DEF Types, Receive
  <2>4. ASSUME NEW t \in Subs, t # s PROVE FitOf(t)'
    <3>1. \A e \in Events : <<t, e>> \in workers' => <<t, e>> \in workers
      BY <2>3, <2>4, Zenon
    <3> QED
      BY <2>3, <2>4, <3>1, FitKept, Zenon DEF KindInv
  <2>5. FitOf(s)'
    <3>1. FitOf(s) /\ (Active(s)' <=> Active(s)) /\ (Asks(s) => Asks(s)')
      BY <2>3, Zenon DEF KindInv, Active, Asks
    <3>2. \A e \in Events : <<s, e>> \in workers' => <<s, e>> \in workers \/ e = Head(pending[s])
      BY <2>3, Zenon
    <3> QED
      BY <2>2, <2>3, <3>1, <3>2, Zenon DEF FitOf
  <2> QED
    BY <2>4, <2>5, Zenon DEF KindInv
<1>6. ASSUME NEW e \in Events, Emit(e), NEW s \in Subs PROVE FitOf(s)'
  <2>1. UNCHANGED <<sub, workers>> /\ FitOf(s)
    BY <1>6, Zenon DEF Emit, KindInv
  <2>2. CASE Live(s) /\ Matches(sub[s].query, e)
    <3>1. pending'[s] = Append(pending[s], e) /\ Active(s)
      BY <1>6, <2>2, Zenon DEF Emit, Live, Active
    <3>2. pending[s] \in Seq(Events)
      BY <1>6, Zenon DEF Types
    <3>3. Items(Append(pending[s], e)) = Items(pending[s]) \cup {e}
      BY <1>6, <3>2, ItemsAppend
    <3>4. Asks(s) /\ Asks(s)' /\ Active(s)'
      BY <2>1, <3>1, Zenon DEF FitOf, Active, Asks
    <3>5. e.kind = KindOf[sub[s].op]
      BY <1>6, <2>2, <3>4, AskedFor, Zenon
    <3> QED
      BY <2>1, <3>1, <3>3, <3>4, <3>5, Zenon DEF FitOf
  <2>3. CASE ~ (Live(s) /\ Matches(sub[s].query, e))
    <3>1. pending'[s] = pending[s]
      BY <1>6, <2>3, Zenon DEF Emit
    <3> QED
      BY <1>6, <2>1, <3>1, FitKept, Zenon
  <2> QED
    BY <2>2, <2>3
<1>7. ASSUME NEW s \in Subs, NEW e \in Events, Handle(s, e) PROVE KindInv'
  <2>1. workers' \subseteq workers /\ UNCHANGED <<sub, pending>>
    BY <1>7, Zenon DEF Handle
  <2> QED
    BY <2>1, FitKept, Zenon DEF KindInv
<1> QED
  BY <1>1, <1>2, <1>3, <1>4, <1>5, <1>6, <1>7, Actions, Zenon DEF AddCondition, vars, KindInv

\* A process that has ended does nothing more; a handler that is given an event of its
\* kind ends it for one of two reasons.
LEMMA CrashStep ==
    ASSUME Types, OnceInv, KindInv, CrashInv, [Next]_vars
    PROVE  CrashInv'
<1>1. ASSUME NEW s \in Subs, NEW e \in Events, Handle(s, e) PROVE CrashInv'
  <2>1. <<s, e>> \in workers /\ crash' \in Outcomes(s, e) /\ UNCHANGED <<sub, emitted>>
    BY <1>1, Zenon DEF Handle
  <2>2. e.kind = KindOf[sub[s].op] /\ e \in emitted
    BY <1>1, <2>1, Zenon DEF KindInv, FitOf, OnceInv
  <2>3. \/ crash' = "no"
        \/ crash' = "handler" /\ HandlersPanic
        \/ crash' = "undecoded" /\ Ends(s, e)
    BY <2>1, <2>2, Zenon DEF Outcomes, Undecoded, NilKey, Ends
  <2>4. Ends(s, e) => Ends(s, e)'
    BY <2>1, Zenon DEF Ends
  <2> QED
    BY <2>1, <2>2, <2>3, <2>4, Zenon DEF CrashInv, Running
<1>2. CASE UNCHANGED vars
  BY <1>2, Zenon DEF vars, CrashInv, Ends, Running
<1>3. ASSUME NEW s \in Subs, NEW op, NEW texts, Made(s, op, texts)
      PROVE  crash = "no" /\ crash' = crash
  BY <1>3, Zenon DEF Made, SubscribeAny, Running
<1>4. ASSUME crash = "no", crash' = crash PROVE CrashInv'
  BY <1>4, Zenon DEF CrashInv, Running
<1> QED
  BY <1>1, <1>2, <1>3, <1>4, Actions, Zenon
     DEF AddCondition, Resubscribe, Unsubscribe, Receive, Emit, Running

\* No subscription at the start.
LEMMA InitKind == Init => KindInv /\ CrashInv
<1> SUFFICES ASSUME Init PROVE KindInv /\ CrashInv
  OBVIOUS
<1>1. \A s \in Subs : sub[s].state = "free" /\ pending[s] = << >>
  BY Zenon DEF Init, Free
<1>2. \A s \in Subs : ~ Active(s)
  BY <1>1, Zenon DEF Active
<1>3. Items(<< >>) = {}
  BY DEF Items
<1>4. workers = {} /\ crash = "no"
  BY Zenon DEF Init
<1> QED
  BY <1>1, <1>2, <1>3, <1>4, Zenon DEF KindInv, FitOf, CrashInv, Running

\* Every step keeps all of this.
LEMMA KindKept == Spec => [](OnceInv /\ CrashInv)
<1>1. Init => Types /\ OnceInv /\ KindInv /\ CrashInv
  BY InitOnce, InitKind
<1>2. Types /\ OnceInv /\ KindInv /\ CrashInv /\ [Next]_vars
      => (Types /\ OnceInv /\ KindInv /\ CrashInv)'
  BY TypesStep, OnceStep, KindStep, CrashStep
<1> QED
  BY <1>1, <1>2, PTL DEF Spec

-----------------------------------------------------------------------------
(* Conditions in a builder *)

\* The subscriptions that were made.
Taken == {s \in Subs : sub[s].state # "free"}

\* Besides what the application adds, a builder has at most one condition for each.
CountInv == \A b \in Builders : Len(conditions[b]) <= MaxConds + Cardinality(Taken)

\* Append makes a sequence longer by one.
LEMMA OneMore ==
    ASSUME NEW S, NEW q \in Seq(S), NEW x \in S
    PROVE  Len(Append(q, x)) = Len(q) + 1
  OBVIOUS

\* There are finitely many subscriptions.
LEMMA TakenFinite == IsFiniteSet(Taken) /\ Cardinality(Taken) \in Nat
                     /\ Cardinality(Taken) <= Cardinality(Subs)
<1>1. Taken \subseteq Subs
  BY Zenon DEF Taken
<1>2. IsFiniteSet(Taken) /\ Cardinality(Taken) <= Cardinality(Subs)
  BY <1>1, SubscriptionAssumption, FS_Subset, Zenon
<1> QED
  BY <1>2, FS_CardinalityType, Zenon

\* The conditions of a builder stay within the bound while no subscription is taken back.
LEMMA CountKept ==
    ASSUME Types, CountInv, conditions' = conditions, Taken \subseteq Taken'
    PROVE  CountInv'
<1>1. PICK S : S = Taken'
  OBVIOUS
<1>2. S \subseteq Subs
  BY <1>1, Zenon DEF Taken
<1>3. IsFiniteSet(S)
  BY <1>2, SubscriptionAssumption, FS_Subset, Zenon
<1>4. Cardinality(Taken) <= Cardinality(S) /\ Cardinality(S) \in Nat
  BY <1>1, <1>3, FS_Subset, FS_CardinalityType, Zenon
<1>5. ASSUME NEW b \in Builders PROVE Len(conditions[b]) <= MaxConds + Cardinality(S)
  <2>1. Len(conditions[b]) \in Nat
    BY LenProperties, Zenon DEF Types
  <2>2. Len(conditions[b]) <= MaxConds + Cardinality(Taken)
    BY Zenon DEF CountInv
  <2> QED
    BY <1>4, <2>1, <2>2, TakenFinite, SubscriptionAssumption
<1> QED
  BY <1>1, <1>5, Zenon DEF CountInv

\* SubscribeNewBlock and SubscribeTx add one condition to the builder they are given.
LEMMA CountStep ==
    ASSUME Types, CountInv, [Next]_vars
    PROVE  CountInv'
<1>1. ASSUME NEW b \in Builders, NEW c \in {Cond("attribute", "a"), Incomplete}, AddCondition(b, c)
      PROVE  CountInv'
  <2>1. Taken' = Taken
    BY <1>1, Zenon DEF AddCondition, Taken
  <2>2. ASSUME NEW a \in Builders PROVE Len(conditions'[a]) <= MaxConds + Cardinality(Taken)
    <3>1. CASE a = b
      <4>1. conditions'[a] = Append(conditions[b], CondString(c))
        BY <1>1, <3>1, Zenon DEF AddCondition, Types
      <4>2. Len(conditions'[a]) = Len(conditions[b]) + 1
        <5>1. conditions[b] \in Seq(Seq(Conds)) /\ CondString(c) \in Seq(Conds)
          BY <1>1, AddedText, Zenon DEF Types
        <5>2. PICK S : S = Seq(Conds)
          OBVIOUS
        <5>3. conditions[b] \in Seq(S) /\ CondString(c) \in S
          BY <5>1, <5>2, Zenon
        <5>4. Len(Append(conditions[b], CondString(c))) = Len(conditions[b]) + 1
          BY <5>3, OneMore, Zenon
        <5> QED
          BY <4>1, <5>4, Zenon
      <4>3. Len(conditions[b]) < MaxConds /\ Len(conditions[b]) \in Nat
        BY <1>1, LenProperties, Zenon DEF AddCondition, Types
      <4> QED
        BY <4>2, <4>3, TakenFinite, SubscriptionAssumption
    <3>2. CASE a # b
      <4>1. conditions'[a] = conditions[a]
        BY <1>1, <3>2, Zenon DEF AddCondition, Types
      <4> QED
        BY <4>1, Zenon DEF CountInv
    <3> QED
      BY <3>1, <3>2
  <2> QED
    BY <2>1, <2>2, Zenon DEF CountInv
<1>2. ASSUME NEW s \in Subs, NEW op, NEW texts, Made(s, op, texts)
      PROVE  CountInv'
  <2>1. sub[s].state = "free" /\ \E r : r.state # "free" /\ sub' = [sub EXCEPT ![s] = r]
    <3>1. PICK query : SubscribeAny(s, op, query)
      BY <1>2, Zenon DEF Made
    <3>2. ASSUME NEW st \in {"on", "rejected"},
                 sub' = [sub EXCEPT ![s] = [state |-> st, op |-> op, query |-> query]]
          PROVE  \E r : r.state # "free" /\ sub' = [sub EXCEPT ![s] = r]
      <4>1. [state |-> st, op |-> op, query |-> query].state # "free"
        BY <3>2
      <4> QED
        BY <3>2, <4>1, Zenon
    <3> QED
      BY <3>1, <3>2, Zenon DEF SubscribeAny
  <2>2. PICK r : r.state # "free" /\ sub' = [sub EXCEPT ![s] = r]
    BY <2>1, Zenon
  <2>3. \A t \in Subs : sub'[t] = IF t = s THEN r ELSE sub[t]
    BY <2>2, Zenon DEF Types
  <2>4. Taken' = Taken \cup {s} /\ s \notin Taken
    BY <2>1, <2>2, <2>3, ZenonT(30) DEF Taken
  <2>5. Cardinality(Taken') = Cardinality(Taken) + 1
    BY <2>4, TakenFinite, FS_AddElement, Zenon
  <2>6. CASE conditions' = conditions
    BY <2>4, <2>6, CountKept, Zenon
  <2>7. ASSUME NEW b \in Builders, texts = conditions[b],
               conditions' = [conditions EXCEPT ![b] = Append(texts, <<Kind(op)>>)]
        PROVE  CountInv'
    <3>1. PICK n : n = Cardinality(Taken)
      OBVIOUS
    <3>2. n \in Nat /\ MaxConds \in Nat
      BY <3>1, TakenFinite, SubscriptionAssumption
    <3>3. ASSUME NEW a \in Builders PROVE Len(conditions'[a]) <= MaxConds + (n + 1)
      <4>1. Len(conditions[a]) \in Nat
        BY LenProperties, Zenon DEF Types
      <4>2. Len(conditions[a]) <= MaxConds + n
        BY <3>1, Zenon DEF CountInv
      <4>3. CASE a = b
        <5>1. conditions[b] \in Seq(Seq(Conds)) /\ <<Kind(op)>> \in Seq(Conds)
          <6>1. op \in AllOps
            BY <1>2, Zenon DEF Made
          <6> QED
            BY <6>1, KindWritten, Zenon DEF Types
        <5>2. Len(Append(conditions[b], <<Kind(op)>>)) = Len(conditions[b]) + 1
          <6>1. PICK S : S = Seq(Conds)
            OBVIOUS
          <6>2. conditions[b] \in Seq(S) /\ <<Kind(op)>> \in S
            BY <5>1, <6>1, Zenon
          <6> QED
            BY <6>2, OneMore, Zenon
        <5>3. conditions'[a] = Append(conditions[b], <<Kind(op)>>)
          BY <2>7, <4>3, Zenon DEF Types
        <5> QED
          BY <3>2, <4>1, <4>2, <4>3, <5>2, <5>3
      <4>4. CASE a # b
        <5>1. conditions'[a] = conditions[a]
          BY <2>7, <4>4, Zenon DEF Types
        <5> QED
          BY <3>2, <4>1, <4>2, <5>1
      <4> QED
        BY <4>3, <4>4
    <3> QED
      BY <2>5, <3>1, <3>3, Zenon DEF CountInv
  <2> QED
    BY <1>2, <2>6, <2>7, Zenon DEF Made
<1>3. ASSUME NEW s \in Subs, NEW t \in Subs, Resubscribe(s, t)
      PROVE  CountInv'
  <2>1. sub' = [sub EXCEPT ![t] = [sub[s] EXCEPT !.state = "lost"]] /\ conditions' = conditions
    BY <1>3, Zenon DEF Resubscribe
  <2>2. [sub[s] EXCEPT !.state = "lost"].state = "lost"
    BY DEF Types
  <2>3. \A x \in Subs : sub'[x].state # "free" \/ sub'[x] = sub[x]
    BY <2>1, <2>2, Zenon DEF Types
  <2>4. Taken \subseteq Taken'
    BY <2>3, Zenon DEF Taken
  <2> QED
    BY <2>1, <2>4, CountKept, Zenon
<1>4. ASSUME NEW s \in Subs, Unsubscribe(s)
      PROVE  CountInv'
  <2>1. sub' = [sub EXCEPT ![s] = [sub[s] EXCEPT !.state = "off"]] /\ conditions' = conditions
    BY <1>4, Zenon DEF Unsubscribe
  <2>2. [sub[s] EXCEPT !.state = "off"].state = "off"
    BY DEF Types
  <2>3. \A x \in Subs : sub'[x].state # "free" \/ sub'[x] = sub[x]
    BY <2>1, <2>2, Zenon DEF Types
  <2>4. Taken \subseteq Taken'
    BY <2>3, Zenon DEF Taken
  <2> QED
    BY <2>1, <2>4, CountKept, Zenon
<1>5. CASE conditions' = conditions /\ sub' = sub
  <2>1. Taken \subseteq Taken'
    BY <1>5, Zenon DEF Taken
  <2> QED
    BY <1>5, <2>1, CountKept, Zenon
<1> QED
  BY <1>1, <1>2, <1>3, <1>4, <1>5, Actions, Zenon DEF Receive, Emit, Handle, vars

\* rpc_client.go: the goroutines of an event call its handler once, and the type
\* assertions of the handlers never fail, whatever the builders hold; a builder gets one
\* condition from each function it is given to.
THEOREM HandlersFit == Spec => []HandledOnceByKind
<1>1. CrashInv => NoTypePanic
  BY Zenon DEF CrashInv, NoTypePanic, Running
<1>2. Types /\ CountInv => TypeOK
  <2> SUFFICES ASSUME Types, CountInv PROVE TypeOK
    OBVIOUS
  <2>1. ASSUME NEW b \in Builders PROVE Len(conditions[b]) <= MaxConds + Cardinality(Subs)
    <3>1. Len(conditions[b]) \in Nat /\ Len(conditions[b]) <= MaxConds + Cardinality(Taken)
      BY LenProperties, Zenon DEF Types, CountInv
    <3>2. Cardinality(Subs) \in Nat
      BY SubscriptionAssumption, FS_CardinalityType, Zenon
    <3> QED
      BY <3>1, <3>2, TakenFinite, SubscriptionAssumption
  <2>2. ASSUME NEW s \in Subs PROVE sub[s].state \in States /\ sub[s].op \in AllOps
    <3>1. sub[s] \in [state: States, op: AllOps, query: Seq(Tokens)]
      BY Zenon DEF Types
    <3> QED
      BY <3>1
  <2> QED
    BY <2>1, <2>2, Zenon DEF Types, TypeOK, States
<1>3. Init => CountInv
  <2> SUFFICES ASSUME Init, NEW b \in Builders
               PROVE  Len(conditions[b]) <= MaxConds + Cardinality(Taken)
    BY Zenon DEF CountInv
  <2>1. conditions[b] = << >>
    BY Zenon DEF Init
  <2> QED
    BY <2>1, TakenFinite, SubscriptionAssumption
<1>4. Types /\ CountInv /\ [Next]_vars => (Types /\ CountInv)'
  BY TypesStep, CountStep
<1>5. TypeOK /\ HandledOnce /\ NoTypePanic => HandledOnceByKind
  BY Zenon DEF HandledOnceByKind
<1> QED
  BY <1>1, <1>2, <1>3, <1>4, <1>5, InitOnce, KindKept, NoEventTwice, PTL DEF Spec

\* rpc_client.go, block.go and bank.go: without a panic of the application's own the
\* process ends only by a transaction that parseTx cannot decode, in SubscribeSendTx, or
\* by validators with a key that cannot be read, in a subscription to blocks, headers or
\* validators.
THEOREM CrashExplained == Spec => []CrashOnlyByUndecoded
<1>1. CrashInv => CrashOnlyByUndecoded
  BY Zenon DEF CrashInv, CrashOnlyByUndecoded, Ends, Running
<1> QED
  BY <1>1, KindKept, PTL

-----------------------------------------------------------------------------
(* The queries that the functions build *)

\* Some builder has a condition that gave no text; some builder was given to both functions.
Skipped == \E b \in Builders : \E i \in DOMAIN conditions[b] : conditions[b][i] = << >>
Reused == \E b \in Builders : {"newBlock", "tx"} \subseteq used[b]

\* A query that asks for one kind of event at most.
OneKind(query) == \A x, y \in Kinds(query) : x = y

\* What is known of the query of s.
QueryOf(s) == /\ sub[s].state = "rejected" => Skipped
              /\ OneKind(sub[s].query) \/ Reused

QueryInv ==
    /\ \A b \in Builders : conditions[b] \in Seq(TextsOf(used[b]))
    /\ \A s \in Subs : QueryOf(s)

\* The kinds that a function asks for: its own, and those of the builder it was given.
LEMMA QueryKinds ==
    ASSUME NEW op \in AllOps, NEW ops, NEW texts \in Seq(TextsOf(ops)),
           NEW x \in Kinds(Build(Append(texts, <<Kind(op)>>)))
    PROVE  x = KindOf[op] \/ \E o \in ops \cap {"newBlock", "tx"} : x = KindOf[o]
<1> DEFINE S == CondsOf(ops) \cup {Kind(op)}
           query == Build(Append(texts, <<Kind(op)>>))
<1>1. TextsOf(ops) \subseteq Seq(S)
  <2>1. << >> \in Seq(S) /\ \A c \in S : <<c>> \in Seq(S)
    OBVIOUS
  <2> QED
    BY <2>1, Zenon DEF TextsOf
<1> HIDE DEF S
<1>2. texts \in Seq(Seq(S))
  BY <1>1, Wider, Zenon
<1>3. Kind(op) \in S
  BY Zenon DEF S
<1>4. query \in Seq(S \cup {And})
  BY <1>2, <1>3, BuildLast, Zenon
<1> HIDE DEF query
<1>5. PICK i \in DOMAIN query : query[i].key = "tm.event" /\ x = query[i].val
  BY Zenon DEF query, Kinds
<1>6. query[i] \in S \cup {And}
  BY <1>4, <1>5
<1>7. And.key # "tm.event"
  BY DEF And
<1> QED
  BY <1>5, <1>6, <1>7, KindWritten, Zenon DEF S, CondsOf

\* The node refuses a query only if a condition before that of the function had no text.
LEMMA QueryRefused ==
    ASSUME NEW op \in AllOps, NEW ops, NEW texts \in Seq(TextsOf(ops)),
           ~ WellFormed(Build(Append(texts, <<Kind(op)>>)))
    PROVE  \E i \in DOMAIN texts : texts[i] = << >>
<1> SUFFICES ASSUME \A i \in DOMAIN texts : texts[i] # << >> PROVE FALSE
  BY Zenon
<1> DEFINE added == Append(texts, <<Kind(op)>>)
<1>1. And \notin Conds
  BY DEF And, Conds
<1>2. TextsOf(ops) \subseteq Seq(Conds) /\ Kind(op) \in Conds /\ <<Kind(op)>> \in Seq(Conds)
  <2>1. << >> \in Seq(Conds) /\ \A c \in Conds : <<c>> \in Seq(Conds)
    OBVIOUS
  <2> QED
    BY <2>1, KindWritten, Zenon DEF TextsOf, CondsOf
<1>3. texts \in Seq(Seq(Conds))
  BY <1>2, Wider, Zenon
<1>4. /\ added \in Seq(Seq(Conds)) /\ Len(added) > 0 /\ DOMAIN added = 1 .. Len(texts) + 1
      /\ added[Len(texts) + 1] = <<Kind(op)>> /\ \A i \in 1 .. Len(texts) : added[i] = texts[i]
      /\ Len(texts) \in Nat /\ DOMAIN texts = 1 .. Len(texts)
  BY <1>2, <1>3
<1>5. ASSUME NEW i \in DOMAIN texts PROVE \E c \in Conds : texts[i] = <<c>>
  <2>1. texts[i] \in TextsOf(ops)
    BY <1>5
  <2> QED
    BY <2>1, Zenon DEF TextsOf, CondsOf
<1> HIDE DEF added
<1>6. \A i \in 1 .. Len(texts) + 1 : i \in 1 .. Len(texts) \/ i = Len(texts) + 1
  BY <1>4
<1>7. \A i \in DOMAIN added : \E c \in Conds : added[i] = <<c>>
  BY <1>2, <1>4, <1>5, <1>6, Zenon
<1>8. WellFormed(Build(added))
  BY <1>1, <1>4, <1>7, BuildWellFormed, Zenon
<1> QED
  BY <1>8 DEF added

\* Texts and functions are never taken from a builder.
LEMMA QueryKept ==
    ASSUME NEW s \in Subs, QueryOf(s), sub'[s].query = sub[s].query,
           sub'[s].state = "rejected" => sub[s].state = "rejected",
           Skipped => Skipped', Reused => Reused'
    PROVE  QueryOf(s)'
<1>1. OneKind(sub[s].query) => OneKind(sub'[s].query)
  OBVIOUS
<1> QED
  BY <1>1, Zenon DEF QueryOf

\* A builder that gets another text keeps the others.
LEMMA TextsGrow ==
    ASSUME Types, QueryInv, NEW b \in Builders, NEW ops, NEW text \in TextsOf(used[b] \cup ops),
           conditions' = [conditions EXCEPT ![b] = Append(conditions[b], text)],
           used' = [used EXCEPT ![b] = used[b] \cup ops]
    PROVE  /\ \A d \in Builders : conditions'[d] \in Seq(TextsOf(used'[d]))
           /\ (Skipped => Skipped') /\ (Reused => Reused')
           /\ \A i \in DOMAIN conditions[b] :
                 i \in DOMAIN conditions'[b] /\ conditions'[b][i] = conditions[b][i]
<1>1. /\ conditions'[b] = Append(conditions[b], text) /\ used'[b] = used[b] \cup ops
      /\ \A d \in Builders : d # b => conditions'[d] = conditions[d] /\ used'[d] = used[d]
  BY Zenon DEF Types
<1>2. conditions[b] \in Seq(TextsOf(used[b]))
  BY Zenon DEF QueryInv
<1>3. TextsOf(used[b]) \subseteq TextsOf(used[b] \cup ops)
  BY Zenon DEF TextsOf, CondsOf
<1>4. conditions[b] \in Seq(TextsOf(used[b] \cup ops))
  BY <1>2, <1>3, Wider, Zenon
<1>5. /\ Append(conditions[b], text) \in Seq(TextsOf(used[b] \cup ops))
      /\ \A i \in DOMAIN conditions[b] : /\ i \in DOMAIN Append(conditions[b], text)
                                         /\ Append(conditions[b], text)[i] = conditions[b][i]
  BY <1>4
<1>6. \A d \in Builders : conditions'[d] \in Seq(TextsOf(used'[d]))
  BY <1>1, <1>5, Zenon DEF QueryInv
<1>7. ASSUME Skipped PROVE Skipped'
  <2>1. PICK d \in Builders : \E i \in DOMAIN conditions[d] : conditions[d][i] = << >>
    BY <1>7, Zenon DEF Skipped
  <2>2. CASE d = b
    <3>1. \A i \in DOMAIN conditions[b] :
            i \in DOMAIN conditions'[b] /\ conditions'[b][i] = conditions[b][i]
      BY <1>1, <1>5
    <3>2. PICK i \in DOMAIN conditions[b] : conditions[b][i] = << >>
      BY <2>1, <2>2
    <3>3. i \in DOMAIN conditions'[b] /\ conditions'[b][i] = << >>
      BY <3>1, <3>2
    <3> QED
      BY <3>3, Zenon DEF Skipped
  <2>3. CASE d # b
    <3>1. conditions'[d] = conditions[d]
      BY <1>1, <2>3, Zenon
    <3> QED
      BY <2>1, <3>1, Zenon DEF Skipped
  <2> QED
    BY <2>2, <2>3
<1>8. \A d \in Builders : used[d] \subseteq used'[d]
  BY <1>1, Zenon
<1>9. Reused => Reused'
  BY <1>8, Zenon DEF Reused
<1> QED
  BY <1>1, <1>5, <1>6, <1>7, <1>9, Zenon

\* A function that subscribes.
LEMMA QueryMade ==
    ASSUME Types, QueryInv, NEW s \in Subs, NEW op, NEW texts, Made(s, op, texts)
    PROVE  QueryInv'
<1> DEFINE query == Build(Append(texts, <<Kind(op)>>))
<1>1. /\ op \in AllOps /\ \A t \in Subs : t # s => sub'[t] = sub[t]
      /\ sub'[s].query = query
      /\ sub'[s].state = IF WellFormed(query) THEN "on" ELSE "rejected"
  BY MadeSub, Zenon
<1>2. ASSUME \A b \in Builders : conditions'[b] \in Seq(TextsOf(used'[b])),
             Skipped => Skipped', Reused => Reused',
             ~ WellFormed(query) => Skipped', OneKind(query) \/ Reused'
      PROVE  QueryInv'
  <2>1. ASSUME NEW t \in Subs, t # s PROVE QueryOf(t)'
    BY <1>1, <1>2, <2>1, QueryKept, Zenon DEF QueryInv
  <2>2. OneKind(query) => OneKind(sub'[s].query)
    BY <1>1
  <2>3. sub'[s].state = "rejected" => ~ WellFormed(query)
    BY <1>1, Zenon
  <2>4. QueryOf(s)'
    BY <1>2, <2>2, <2>3, Zenon DEF QueryOf
  <2> QED
    BY <1>2, <2>1, <2>4, Zenon DEF QueryInv
<1>3. CASE texts \in Seq(Plain) /\ UNCHANGED <<conditions, used>>
  <2>1. Plain \subseteq TextsOf({}) /\ << >> \notin Plain
    <3>1. \A c : <<c>> # << >>
      OBVIOUS
    <3> QED
      BY <3>1, Zenon DEF Plain, TextsOf
  <2>2. texts \in Seq(TextsOf({}))
    BY <1>3, <2>1, Wider, Zenon
  <2>3. \A i \in DOMAIN texts : texts[i] \in Plain
    BY <1>3
  <2>4. WellFormed(query)
    BY <1>1, <2>1, <2>2, <2>3, QueryRefused, Zenon
  <2>5. ASSUME NEW x \in Kinds(query) PROVE x = KindOf[op]
    <3>1. x = KindOf[op] \/ \E o \in {} \cap {"newBlock", "tx"} : x = KindOf[o]
      BY <1>1, <2>2, QueryKinds
    <3> QED
      BY <3>1, Zenon
  <2>6. OneKind(query)
    BY <2>5, Zenon DEF OneKind
  <2>7. (Skipped => Skipped') /\ (Reused => Reused')
    BY <1>3, Zenon DEF Skipped, Reused
  <2> QED
    BY <1>2, <1>3, <2>4, <2>6, <2>7, Zenon DEF QueryInv
<1>4. ASSUME NEW b \in Builders, texts = conditions[b], op \in {"newBlock", "tx"},
             conditions' = [conditions EXCEPT ![b] = Append(texts, <<Kind(op)>>)],
             used' = [used EXCEPT ![b] = @ \cup {op}]
      PROVE  QueryInv'
  <2>0. /\ conditions' = [conditions EXCEPT ![b] = Append(conditions[b], <<Kind(op)>>)]
        /\ used' = [used EXCEPT ![b] = used[b] \cup {op}]
    BY <1>4, Zenon
  <2>1. texts \in Seq(TextsOf(used[b])) /\ used'[b] = used[b] \cup {op}
    BY <1>4, Zenon DEF QueryInv, Types
  <2>2. <<Kind(op)>> \in TextsOf(used[b] \cup {op})
    BY <1>1, <1>4, KindWritten, Zenon DEF TextsOf, CondsOf
  <2>3. /\ \A d \in Builders : conditions'[d] \in Seq(TextsOf(used'[d]))
        /\ (Skipped => Skipped') /\ (Reused => Reused')
        /\ \A i \in DOMAIN conditions[b] :
              i \in DOMAIN conditions'[b] /\ conditions'[b][i] = conditions[b][i]
    BY <1>4, <2>0, <2>2, TextsGrow, Zenon
  <2>4. ASSUME ~ WellFormed(query) PROVE Skipped'
    <3>1. \E i \in DOMAIN texts : texts[i] = << >>
      BY <1>1, <2>1, <2>4, QueryRefused
    <3> QED
      BY <1>4, <2>3, <3>1, Zenon DEF Skipped
  <2>5. ASSUME ~ Reused' PROVE OneKind(query)
    <3>1. ~ ({"newBlock", "tx"} \subseteq used[b] \cup {op})
      BY <2>1, <2>5, Zenon DEF Reused
    <3>2. \A o \in used[b] \cap {"newBlock", "tx"} : o = op
      BY <1>4, <3>1, Zenon
    <3>3. ASSUME NEW x \in Kinds(query) PROVE x = KindOf[op]
      <4>1. x = KindOf[op] \/ \E o \in used[b] \cap {"newBlock", "tx"} : x = KindOf[o]
        BY <1>1, <2>1, QueryKinds
      <4> QED
        BY <3>2, <4>1, Zenon
    <3> QED
      BY <3>3, Zenon DEF OneKind
  <2> QED
    BY <1>2, <2>3, <2>4, <2>5, Zenon
<1> QED
  BY <1>3, <1>4, Zenon DEF Made

\* The other actions change no query.
LEMMA QueryStep ==
    ASSUME Types, QueryInv, [Next]_vars
    PROVE  QueryInv'
<1>1. CASE UNCHANGED <<conditions, used, sub>>
  <2>1. (Skipped => Skipped') /\ (Reused => Reused')
    BY <1>1, Zenon DEF Skipped, Reused
  <2> QED
    BY <1>1, <2>1, QueryKept, Zenon DEF QueryInv
<1>2. ASSUME NEW b \in Builders, NEW c \in {Cond("attribute", "a"), Incomplete}, AddCondition(b, c)
      PROVE  QueryInv'
  <2>1. /\ conditions' = [conditions EXCEPT ![b] = Append(conditions[b], CondString(c))]
        /\ used' = used /\ sub' = sub
    BY <1>2, Zenon DEF AddCondition
  <2>2. used' = [used EXCEPT ![b] = used[b] \cup {}]
    <3>1. used \in [Builders -> SUBSET Ops] /\ used[b] \cup {} = used[b]
      BY Zenon DEF Types
    <3> QED
      BY <2>1, <3>1
  <2>3. CondString(c) \in TextsOf(used[b] \cup {})
    BY <1>2, AddedText, Zenon
  <2>4. /\ \A d \in Builders : conditions'[d] \in Seq(TextsOf(used'[d]))
        /\ (Skipped => Skipped') /\ (Reused => Reused')
    BY <1>2, <2>1, <2>2, <2>3, TextsGrow, Zenon
  <2> QED
    BY <2>1, <2>4, QueryKept, Zenon DEF QueryInv
<1>3. ASSUME NEW s \in Subs, NEW r \in Subs,
             \A t \in Subs : t # s => sub'[t] = sub[t],
             sub'[s].query = sub[r].query, sub'[s].state # "rejected", UNCHANGED <<conditions, used>>
      PROVE  QueryInv'
  <2>1. (Skipped => Skipped') /\ (Reused => Reused')
    BY <1>3, Zenon DEF Skipped, Reused
  <2>2. OneKind(sub[r].query) => OneKind(sub'[s].query)
    BY <1>3
  <2>3. QueryOf(s)'
    BY <1>3, <2>1, <2>2, Zenon DEF QueryInv, QueryOf
  <2>4. ASSUME NEW t \in Subs, t # s PROVE QueryOf(t)'
    BY <1>3, <2>1, <2>4, QueryKept, Zenon DEF QueryInv
  <2> QED
    BY <1>3, <2>3, <2>4, Zenon DEF QueryInv
<1>4. ASSUME NEW s \in Subs, NEW t \in Subs, Resubscribe(s, t) PROVE QueryInv'
  <2>1. /\ \A r \in Subs : r # t => sub'[r] = sub[r]
        /\ sub'[t].query = sub[s].query /\ sub'[t].state # "rejected" /\ UNCHANGED <<conditions, used>>
    BY <1>4, Zenon DEF Types, Resubscribe
  <2> QED
    BY <1>3, <1>4, <2>1, Zenon
<1>5. ASSUME NEW s \in Subs, Unsubscribe(s) PROVE QueryInv'
  <2>1. /\ \A r \in Subs : r # s => sub'[r] = sub[r]
        /\ sub'[s].query = sub[s].query /\ sub'[s].state # "rejected" /\ UNCHANGED <<conditions, used>>
    BY <1>5, Zenon DEF Types, Unsubscribe
  <2> QED
    BY <1>3, <1>5, <2>1, Zenon
<1> QED
  BY <1>1, <1>2, <1>4, <1>5, QueryMade, Actions, Zenon DEF Receive, Emit, Handle, vars

\* rpc_client.go and event.go: the node refuses the query of a subscription only if a
\* condition without an operator was added to a builder, and a query asks for two kinds of
\* event only if a builder was given to SubscribeNewBlock and to SubscribeTx.
THEOREM QueriesFit == Spec => []QueryWrongOnlyIfMisused
<1>1. Init => QueryInv
  <2> SUFFICES ASSUME Init PROVE QueryInv
    OBVIOUS
  <2>1. \A b \in Builders : conditions[b] \in Seq(TextsOf(used[b]))
    <3>1. \A S : << >> \in Seq(S)
      OBVIOUS
    <3> QED
      BY <3>1, Zenon DEF Init
  <2>2. Kinds(<< >>) = {}
    BY DEF Kinds
  <2>3. \A s \in Subs : sub[s].state # "rejected" /\ sub[s].query = << >>
    BY Zenon DEF Init, Free
  <2> QED
    BY <2>1, <2>2, <2>3, Zenon DEF QueryInv, QueryOf, OneKind
<1>2. Types /\ QueryInv /\ [Next]_vars => (Types /\ QueryInv)'
  BY TypesStep, QueryStep
<1>3. QueryInv => QueryWrongOnlyIfMisused
  <2> SUFFICES ASSUME QueryInv PROVE RejectedOnlyIfIncomplete /\ ConflictOnlyIfReused
    BY Zenon DEF QueryWrongOnlyIfMisused
  <2>1. ASSUME NEW s \in Subs, OneKind(sub[s].query) PROVE ~ (Cardinality(Kinds(sub[s].query)) > 1)
    <3>1. CASE Kinds(sub[s].query) = {}
      BY <3>1, FS_EmptySet
    <3>2. ASSUME NEW x \in Kinds(sub[s].query) PROVE ~ (Cardinality(Kinds(sub[s].query)) > 1)
      <4>1. Kinds(sub[s].query) = {x}
        BY <2>1, <3>2, Zenon DEF OneKind
      <4>2. Cardinality({x}) = 1
        BY FS_Singleton, Zenon
      <4> QED
        BY <4>1, <4>2
    <3> QED
      BY <3>1, <3>2, Zenon
  <2> QED
    BY <2>1, Zenon DEF QueryInv, QueryOf, Skipped, Reused, RejectedOnlyIfIncomplete,
      ConflictOnlyIfReused
<1> QED
  BY <1>1, <1>2, <1>3, InitOnce, PTL DEF Spec
=============================================================================

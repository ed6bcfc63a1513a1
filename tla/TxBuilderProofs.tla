--------------------------- MODULE TxBuilderProofs ---------------------------
(***************************************************************************)
(* Proofs about TxBuilder, for all fields, values, keys and bounds: the    *)
(* bytes that a wrapper keeps follow its Tx unless another wrapper shares  *)
(* it, and what was signed or received is sent with the signed bytes.  The *)
(* argument goes wrapper by wrapper (Good), over a heap that is typed.     *)
(***************************************************************************)
EXTENDS TxBuilder, SequenceTheorems, TLAPS

\* Nothing, or one of S.
Opt(S) == {<< >>} \cup {<<x>> : x \in S}

\* The contents of the parts of a Tx.
Bodies == [BodyFields -> Values \cup {0}]
Fees == [FeeFields -> Values \cup {0}]
Auths == [Fee: Opt(Fees), SignerInfos: Opt(Keys)]

\* Their bytes: a content that is not empty, or else fields that are not known.
Parts(S, none) == {b \in [c: S, extra: BOOLEAN] : b.extra \/ b.c # none}
BodyParts == Parts(Bodies, NoBody)
AuthParts == Parts(Auths, NoAuth)

Sigs == [by: Keys \cup {""}, body: Opt(BodyParts), auth: Opt(AuthParts)]
Txs == [Body: Bodies, AuthInfo: Auths, Signatures: Opt(Sigs)]
Wrappers == [tx: Nat, bodyBz: Opt(BodyParts), authInfoBz: Opt(AuthParts)]
Wires == [form: {"raw", "json"}, body: Opt(BodyParts), auth: Opt(AuthParts), sigs: Opt(Sigs),
          intact: BOOLEAN]

Types ==
    /\ txs \in Seq(Txs)
    /\ ws \in Seq(Wrappers)
    /\ \A i \in DOMAIN ws : ws[i].tx \in DOMAIN txs
    /\ intact \in Seq(BOOLEAN) /\ DOMAIN intact = DOMAIN ws

\* The bytes that the encoder writes for a part, bz if they are kept, and for both parts of
\* w, a wrapper of t.
Bytes(bz, c, none) == IF bz = << >> THEN MarshalPart(c, none) ELSE bz
BodyBytes(w, t) == Bytes(w.bodyBz, t.Body, NoBody)
AuthBytes(w, t) == Bytes(w.authInfoBz, t.AuthInfo, NoAuth)

\* The bytes that w keeps are those of t.
Fresh(w, t) == /\ w.bodyBz # << >> => w.bodyBz[1].c = t.Body
               /\ w.authInfoBz # << >> => w.authInfoBz[1].c = t.AuthInfo

\* The node accepts these bytes with these signatures.
Signed(body, auth, sigs) ==
    /\ sigs # << >> /\ auth # << >>
    /\ Len(sigs) = Len(auth[1].c.SignerInfos)
    /\ \A k \in DOMAIN sigs : sigs[k] = [by |-> auth[1].c.SignerInfos[k], body |-> body, auth |-> auth]

Ready(w, t) == Signed(BodyBytes(w, t), AuthBytes(w, t), t.Signatures)

\* What is known of each wrapper: no stale bytes unless another one has its Tx, and its
\* bytes are the signed ones as long as it is intact.
Good(i) == /\ Shared(i) \/ Fresh(ws[i], txs[ws[i].tx])
           /\ intact[i] => Ready(ws[i], txs[ws[i].tx])

\* What is known of the transaction on its way; JSON holds known fields only.
Known(bz) == bz # << >> => ~ bz[1].extra

SentOK == /\ wire \in Opt(Wires)
          /\ wire # << >> => /\ wire[1].intact => Verifies(wire[1])
                             /\ wire[1].form = "json" => Known(wire[1].body) /\ Known(wire[1].auth)

Heap == Types /\ \A i \in DOMAIN ws : Good(i)

-----------------------------------------------------------------------------
(* Sequences *)

\* Bytes that are not empty hold one part.
LEMMA One ==
    ASSUME NEW S, NEW x \in S
    PROVE  << >> \in Opt(S) /\ <<x>> \in Opt(S) /\ <<x>> # << >> /\ <<x>>[1] = x
<1>1. <<x>> # << >> /\ <<x>>[1] = x
  OBVIOUS
<1> QED
  BY <1>1, Zenon DEF Opt

\* What is kept of a part, or is on its way, is read back as one element.
LEMMA TheOne ==
    ASSUME NEW S, NEW q \in Opt(S), q # << >>
    PROVE  q[1] \in S /\ q = <<q[1]>> /\ Len(q) = 1 /\ DOMAIN q = {1}
<1>1. PICK x \in S : q = <<x>>
  BY Zenon DEF Opt
<1>2. q[1] = x /\ Len(q) = 1 /\ DOMAIN q = {1}
  BY <1>1
<1> QED
  BY <1>1, <1>2, Zenon

\* Wrap appends to the Txs, the wrappers and their history.
LEMMA Grown ==
    ASSUME NEW S, NEW q \in Seq(S), NEW x \in S, NEW r, r = Append(q, x), NEW n, n = Len(q) + 1
    PROVE  /\ r \in Seq(S) /\ DOMAIN r = DOMAIN q \cup {n} /\ n \notin DOMAIN q /\ r[n] = x
           /\ \A i \in DOMAIN q : r[i] = q[i]
<1>1. r \in Seq(S) /\ r[n] = x /\ \A i \in DOMAIN q : r[i] = q[i]
  OBVIOUS
<1>2. Len(q) \in Nat /\ DOMAIN q = 1 .. Len(q) /\ DOMAIN r = 1 .. Len(q) + 1
  OBVIOUS
<1>3. n \notin 1 .. Len(q) /\ 1 .. Len(q) + 1 = (1 .. Len(q)) \cup {n}
  BY <1>2
<1> QED
  BY <1>1, <1>2, <1>3, Zenon

\* A setter changes one element and leaves the others.
LEMMA Put ==
    ASSUME NEW S, NEW q \in Seq(S), NEW i \in DOMAIN q, NEW x \in S, NEW r, r = [q EXCEPT ![i] = x]
    PROVE  /\ r \in Seq(S) /\ DOMAIN r = DOMAIN q /\ r[i] = x
           /\ \A j \in DOMAIN q : j # i => r[j] = q[j]
  OBVIOUS

-----------------------------------------------------------------------------
(* The heap *)

\* A new Tx with its wrapper: newBuilder, and both decoders.
LEMMA GoodNew ==
    ASSUME Heap, NEW t \in Txs, NEW w \in Wrappers, NEW ok \in BOOLEAN, w.tx = Len(txs) + 1,
           Wrap(Append(txs, t), w, ok), Fresh(w, t), ok => Ready(w, t)
    PROVE  Heap'
<1>n. PICK n : n = Len(ws) + 1
  OBVIOUS
<1>1. txs \in Seq(Txs) /\ ws \in Seq(Wrappers) /\ intact \in Seq(BOOLEAN) /\ DOMAIN intact = DOMAIN ws
  BY Zenon DEF Heap, Types
<1>2. txs' = Append(txs, t) /\ ws' = Append(ws, w) /\ intact' = Append(intact, ok)
  BY Zenon DEF Wrap
<1>3. n = Len(intact) + 1
  BY <1>1, <1>n
<1>4. /\ txs' \in Seq(Txs) /\ DOMAIN txs' = DOMAIN txs \cup {w.tx} /\ w.tx \notin DOMAIN txs
           /\ txs'[w.tx] = t
      /\ \A p \in DOMAIN txs : txs'[p] = txs[p]
  BY <1>1, <1>2, Grown
<1>5. /\ ws' \in Seq(Wrappers) /\ DOMAIN ws' = DOMAIN ws \cup {n} /\ n \notin DOMAIN ws /\ ws'[n] = w
      /\ \A i \in DOMAIN ws : ws'[i] = ws[i]
  BY <1>1, <1>2, <1>n, Grown
<1>6. /\ intact' \in Seq(BOOLEAN) /\ DOMAIN intact' = DOMAIN ws \cup {n} /\ intact'[n] = ok
      /\ \A i \in DOMAIN ws : intact'[i] = intact[i]
  BY <1>1, <1>2, <1>3, Grown
<1>7. \A i \in DOMAIN ws : ws[i].tx \in DOMAIN txs /\ Good(i)
  BY Zenon DEF Heap, Types
<1>8. Types'
  BY <1>4, <1>5, <1>6, <1>7, Zenon DEF Types
<1>9. ASSUME NEW i \in DOMAIN ws PROVE Good(i)'
  <2>1. ws'[i] = ws[i] /\ txs'[ws'[i].tx] = txs[ws[i].tx] /\ intact'[i] = intact[i] /\ Good(i)
    BY <1>4, <1>5, <1>6, <1>7, Zenon
  <2>2. Shared(i) => Shared(i)'
    BY <1>5, Zenon DEF Shared
  <2> QED
    BY <2>1, <2>2, Zenon DEF Good
<1>10. Good(n)'
  BY <1>4, <1>5, <1>6, Zenon DEF Good
<1> QED
  BY <1>5, <1>8, <1>9, <1>10, Zenon DEF Heap

\* Another wrapper of a Tx.
LEMMA GoodWrapped ==
    ASSUME Heap, NEW k \in DOMAIN ws, NEW w \in Wrappers, w.tx = ws[k].tx, Wrap(txs, w, FALSE)
    PROVE  Heap'
<1>n. PICK n : n = Len(ws) + 1
  OBVIOUS
<1>1. ws \in Seq(Wrappers) /\ intact \in Seq(BOOLEAN) /\ DOMAIN intact = DOMAIN ws
  BY Zenon DEF Heap, Types
<1>2. PICK ok \in BOOLEAN : /\ ok = FALSE
                            /\ txs' = txs /\ ws' = Append(ws, w) /\ intact' = Append(intact, ok)
  BY Zenon DEF Wrap
<1>3. n = Len(intact) + 1
  BY <1>1, <1>n
<1>4. /\ ws' \in Seq(Wrappers) /\ DOMAIN ws' = DOMAIN ws \cup {n} /\ n \notin DOMAIN ws /\ ws'[n] = w
      /\ \A i \in DOMAIN ws : ws'[i] = ws[i]
  BY <1>1, <1>2, <1>n, Grown
<1>5. /\ intact' \in Seq(BOOLEAN) /\ DOMAIN intact' = DOMAIN ws \cup {n} /\ intact'[n] = ok
      /\ \A i \in DOMAIN ws : intact'[i] = intact[i]
  BY <1>1, <1>2, <1>3, Grown
<1>6. txs \in Seq(Txs) /\ \A i \in DOMAIN ws : ws[i].tx \in DOMAIN txs /\ Good(i)
  BY Zenon DEF Heap, Types
<1>7. Types'
  <2>1. \A i \in DOMAIN ws' : ws'[i].tx \in DOMAIN txs'
    BY <1>2, <1>4, <1>6, Zenon
  <2> QED
    BY <1>2, <1>4, <1>5, <1>6, <2>1, Zenon DEF Types
<1>8. ASSUME NEW i \in DOMAIN ws PROVE Good(i)'
  <2>1. ws'[i] = ws[i] /\ txs'[ws'[i].tx] = txs[ws[i].tx] /\ intact'[i] = intact[i] /\ Good(i)
    BY <1>2, <1>4, <1>5, <1>6, Zenon
  <2>2. Shared(i) => Shared(i)'
    BY <1>4, Zenon DEF Shared
  <2> QED
    BY <2>1, <2>2, Zenon DEF Good
<1>9. Good(n)'
  <2>1. Shared(n)'
    BY <1>4, Zenon DEF Shared
  <2> QED
    BY <1>2, <1>5, <2>1, Zenon DEF Good
<1> QED
  BY <1>4, <1>7, <1>8, <1>9, Zenon DEF Heap

\* Wrapper k and its Tx change; the other wrappers of the Tx are intact only if it is the same.
Changes(k, t, w) ==
    /\ w.tx = ws[k].tx /\ txs' = [txs EXCEPT ![w.tx] = t] /\ ws' = [ws EXCEPT ![k] = w]
    /\ intact' \in Seq(BOOLEAN) /\ DOMAIN intact' = DOMAIN ws
    /\ \A j \in DOMAIN ws : j # k /\ intact'[j] => intact[j] /\ (ws[j].tx = w.tx => t = txs[w.tx])
    /\ Shared(k) \/ Fresh(w, t)
    /\ intact'[k] => Ready(w, t)

\* Then the wrappers are as good as before.
LEMMA GoodChanged ==
    ASSUME Heap, NEW k \in DOMAIN ws, NEW t \in Txs, NEW w \in Wrappers, Changes(k, t, w)
    PROVE  Heap'
<1>0. /\ w.tx = ws[k].tx /\ txs' = [txs EXCEPT ![w.tx] = t] /\ ws' = [ws EXCEPT ![k] = w]
      /\ intact' \in Seq(BOOLEAN) /\ DOMAIN intact' = DOMAIN ws
      /\ \A j \in DOMAIN ws : j # k /\ intact'[j] => intact[j] /\ (ws[j].tx = w.tx => t = txs[w.tx])
      /\ Shared(k) \/ Fresh(w, t)
      /\ intact'[k] => Ready(w, t)
  BY Zenon DEF Changes
<1>1. /\ txs \in Seq(Txs) /\ ws \in Seq(Wrappers)
      /\ \A i \in DOMAIN ws : ws[i].tx \in DOMAIN txs /\ Good(i)
  BY Zenon DEF Heap, Types
<1>2. w.tx \in DOMAIN txs
  BY <1>0, <1>1, Zenon
<1>3. /\ txs' \in Seq(Txs) /\ DOMAIN txs' = DOMAIN txs /\ txs'[w.tx] = t
      /\ \A p \in DOMAIN txs : p # w.tx => txs'[p] = txs[p]
  BY <1>0, <1>1, <1>2, Put
<1>4. /\ ws' \in Seq(Wrappers) /\ DOMAIN ws' = DOMAIN ws /\ ws'[k] = w
      /\ \A i \in DOMAIN ws : i # k => ws'[i] = ws[i]
  BY <1>0, <1>1, Put
<1>5. \A i \in DOMAIN ws : ws'[i].tx = ws[i].tx
  BY <1>0, <1>4, Zenon
<1>6. ASSUME NEW i \in DOMAIN ws, Shared(i) PROVE Shared(i)'
  <2>1. PICK j \in DOMAIN ws : j # i /\ ws[j].tx = ws[i].tx
    BY <1>6, Zenon DEF Shared
  <2>2. j \in DOMAIN ws' /\ ws'[j].tx = ws'[i].tx
    BY <1>4, <1>5, <2>1, Zenon
  <2> QED
    BY <2>1, <2>2, Zenon DEF Shared
<1>7. Types'
  BY <1>0, <1>1, <1>3, <1>4, <1>5, Zenon DEF Types
<1>8. Good(k)'
  <2>1. ws'[k] = w /\ txs'[ws'[k].tx] = t
    BY <1>3, <1>4, Zenon
  <2>2. Shared(k)' \/ Fresh(w, t)
    BY <1>0, <1>6, Zenon
  <2> QED
    BY <1>0, <2>1, <2>2, Zenon DEF Good
<1>9. ASSUME NEW j \in DOMAIN ws, j # k PROVE Good(j)'
  <2>1. CASE ws[j].tx # w.tx
    <3>1. ws'[j] = ws[j] /\ txs'[ws'[j].tx] = txs[ws[j].tx] /\ (intact'[j] => intact[j]) /\ Good(j)
      BY <1>0, <1>1, <1>3, <1>4, <1>9, <2>1, Zenon
    <3> QED
      BY <1>6, <3>1, Zenon DEF Good
  <2>2. CASE ws[j].tx = w.tx
    <3>1. Shared(j)'
      BY <1>4, <1>5, <1>9, <2>2, Zenon DEF Shared
    <3>2. ASSUME intact'[j] PROVE Ready(ws'[j], txs'[ws'[j].tx])
      <4>1. intact[j] /\ t = txs[w.tx] /\ ws'[j] = ws[j] /\ Good(j)
        BY <1>0, <1>1, <1>4, <1>9, <2>2, <3>2, Zenon
      <4>2. txs'[ws'[j].tx] = txs[ws[j].tx]
        BY <1>3, <2>2, <4>1, Zenon
      <4> QED
        BY <4>1, <4>2, Zenon DEF Good
    <3> QED
      BY <3>1, <3>2, Zenon DEF Good
  <2> QED
    BY <2>1, <2>2
<1> QED
  BY <1>4, <1>7, <1>8, <1>9, Zenon DEF Heap

-----------------------------------------------------------------------------
(* Bytes *)

\* proto.Marshal of a part.
LEMMA Marshalled ==
    ASSUME NEW S, NEW none, NEW c \in S
    PROVE  LET bz == MarshalPart(c, none) IN
           /\ bz \in Opt(Parts(S, none)) /\ Known(bz)
           /\ bz # << >> => bz[1].c = c
           /\ c # none => bz # << >>
<1> DEFINE b == [c |-> c, extra |-> FALSE]
<1>1. b.c = c /\ b.extra = FALSE /\ b \in [c: S, extra: BOOLEAN]
  BY Zenon
<1> HIDE DEF b
<1>2. CASE c = none
  BY <1>2, Zenon DEF MarshalPart, Opt, Known
<1>3. CASE c # none
  <2>1. b \in Parts(S, none) /\ MarshalPart(c, none) = <<b>>
    BY <1>1, <1>3, Zenon DEF Parts, MarshalPart, b
  <2> QED
    BY <1>1, <2>1, One, Zenon DEF Known
<1> QED
  BY <1>2, <1>3

\* Bytes that are kept after they were made are the same when they are made again.
LEMMA BytesKept ==
    ASSUME NEW S, NEW none, NEW c \in S, NEW bz \in Opt(Parts(S, none))
    PROVE  LET b == Bytes(bz, c, none) IN
           /\ b \in Opt(Parts(S, none)) /\ Bytes(b, c, none) = b
           /\ (bz # << >> => bz[1].c = c) => (b # << >> => b[1].c = c)
  BY Marshalled, Zenon DEF Bytes

\* Bytes that are not stale and without fields that are not known are those of the content.
LEMMA BytesWhole ==
    ASSUME NEW S, NEW none, NEW c, NEW bz \in Opt(Parts(S, none)),
           bz # << >> => bz[1].c = c, Known(bz)
    PROVE  Bytes(bz, c, none) = MarshalPart(c, none)
<1>1. CASE bz = << >>
  BY <1>1, Zenon DEF Bytes
<1>2. CASE bz # << >>
  <2>0. bz[1] \in Parts(S, none) /\ bz = <<bz[1]>>
    BY <1>2, TheOne
  <2>1. bz[1] \in [c: S, extra: BOOLEAN] /\ bz[1].c # none /\ bz[1].c = c /\ ~ bz[1].extra
    BY <1>2, <2>0, Zenon DEF Parts, Known
  <2>2. bz[1] = [c |-> c, extra |-> FALSE]
    BY <2>1, Zenon
  <2> QED
    BY <1>2, <2>0, <2>1, <2>2, Zenon DEF Bytes, MarshalPart
<1> QED
  BY <1>1, <1>2

\* The content of bytes gives these bytes, from the kept ones or, without fields that are
\* not known, by proto.Marshal.
LEMMA BytesRead ==
    ASSUME NEW S, NEW none \in S, NEW bz \in Opt(Parts(S, none))
    PROVE  LET c == ContentOf(bz, none) IN
           /\ c \in S /\ Bytes(bz, c, none) = bz /\ (bz # << >> => bz[1].c = c)
           /\ Known(bz) => MarshalPart(c, none) = bz
<1>1. CASE bz = << >>
  BY <1>1, Zenon DEF ContentOf, Bytes, MarshalPart
<1>2. CASE bz # << >>
  <2>0. bz[1] \in Parts(S, none)
    BY <1>2, TheOne
  <2>1. bz[1] \in [c: S, extra: BOOLEAN] /\ ContentOf(bz, none) = bz[1].c
          /\ Bytes(bz, bz[1].c, none) = bz
    BY <1>2, <2>0, Zenon DEF Parts, ContentOf, Bytes
  <2>2. bz[1].c \in S
    BY <2>1
  <2>3. Known(bz) => Bytes(bz, bz[1].c, none) = MarshalPart(bz[1].c, none)
    BY BytesWhole, Zenon
  <2> QED
    BY <2>1, <2>2, <2>3, Zenon
<1> QED
  BY <1>1, <1>2

\* The empty parts.
LEMMA Empty == NoBody \in Bodies /\ NoFee \in Fees /\ NoAuth \in Auths
  BY Zenon DEF NoBody, Bodies, NoFee, Fees, NoAuth, Auths, Opt

\* What the types say of a wrapper and its Tx.
LEMMA TypesOf ==
    ASSUME Types, NEW i \in DOMAIN ws
    PROVE  LET w == ws[i] IN LET t == txs[w.tx] IN
           /\ w \in Wrappers /\ t \in Txs /\ w.tx \in DOMAIN txs /\ intact[i] \in BOOLEAN
           /\ w.tx \in Nat /\ w.bodyBz \in Opt(BodyParts) /\ w.authInfoBz \in Opt(AuthParts)
           /\ w = [tx |-> w.tx, bodyBz |-> w.bodyBz, authInfoBz |-> w.authInfoBz]
           /\ t.Body \in Bodies /\ t.AuthInfo \in Auths /\ t.Signatures \in Opt(Sigs)
           /\ t = [Body |-> t.Body, AuthInfo |-> t.AuthInfo, Signatures |-> t.Signatures]
<1>1. txs \in Seq(Txs) /\ ws \in Seq(Wrappers) /\ ws[i].tx \in DOMAIN txs /\ intact \in Seq(BOOLEAN)
        /\ i \in DOMAIN intact
  BY Zenon DEF Types
<1>2. ws[i] \in Wrappers /\ txs[ws[i].tx] \in Txs /\ intact[i] \in BOOLEAN
  BY <1>1
<1>3. ASSUME NEW w \in Wrappers
      PROVE  /\ w.tx \in Nat /\ w.bodyBz \in Opt(BodyParts) /\ w.authInfoBz \in Opt(AuthParts)
             /\ w = [tx |-> w.tx, bodyBz |-> w.bodyBz, authInfoBz |-> w.authInfoBz]
  BY DEF Wrappers
<1>4. ASSUME NEW t \in Txs
      PROVE  /\ t.Body \in Bodies /\ t.AuthInfo \in Auths /\ t.Signatures \in Opt(Sigs)
             /\ t = [Body |-> t.Body, AuthInfo |-> t.AuthInfo, Signatures |-> t.Signatures]
  BY DEF Txs
<1> QED
  BY <1>1, <1>2, <1>3, <1>4, Zenon

\* The wrappers of p are no longer intact.
LEMMA ChangedIs ==
    ASSUME Types, NEW p
    PROVE  /\ Changed(p) \in Seq(BOOLEAN) /\ DOMAIN Changed(p) = DOMAIN ws
           /\ \A j \in DOMAIN ws : Changed(p)[j] <=> intact[j] /\ ws[j].tx # p
<1>1. ws \in Seq(Wrappers)
  BY Zenon DEF Types
<1>2. Len(ws) \in Nat /\ DOMAIN ws = 1 .. Len(ws)
  BY <1>1
<1>3. Changed(p) \in [1 .. Len(ws) -> BOOLEAN]
  BY <1>2, TypesOf, Zenon DEF Changed
<1>4. Changed(p) \in Seq(BOOLEAN)
  BY <1>2, <1>3, SeqDef, Zenon
<1> QED
  BY <1>4, Zenon DEF Changed

-----------------------------------------------------------------------------
(* The calls *)

\* A new Tx is empty.
LEMMA HeapNewBuilder ==
    ASSUME Heap, newBuilder
    PROVE  Heap'
<1> DEFINE t == [Body |-> NoBody, AuthInfo |-> [NoAuth EXCEPT !.Fee = <<NoFee>>], Signatures |-> << >>]
           w == [tx |-> Len(txs) + 1, bodyBz |-> << >>, authInfoBz |-> << >>]
<1>1. Wrap(Append(txs, t), w, FALSE)
  BY Zenon DEF newBuilder
<1>2. Len(txs) + 1 \in Nat
  <2>1. txs \in Seq(Txs)
    BY Zenon DEF Heap, Types
  <2> QED
    BY <2>1
<1>3. [NoAuth EXCEPT !.Fee = <<NoFee>>] = [Fee |-> <<NoFee>>, SignerInfos |-> << >>]
  BY DEF NoAuth
<1>4. [Fee |-> <<NoFee>>, SignerInfos |-> << >>] \in Auths
  BY Empty, One, Zenon DEF Auths, Opt
<1>5. t \in Txs
  BY <1>3, <1>4, Empty, Zenon DEF Txs, Opt
<1>6. w \in Wrappers /\ w.tx = Len(txs) + 1 /\ w.bodyBz = << >> /\ w.authInfoBz = << >>
  BY <1>2, Zenon DEF Wrappers, Opt
<1> HIDE DEF t, w
<1>7. Fresh(w, t)
  BY <1>6, Zenon DEF Fresh
<1> QED
  BY <1>1, <1>5, <1>6, <1>7, GoodNew, Zenon

\* Wrapping a Tx again shares it.
LEMMA HeapWrapTx ==
    ASSUME Heap, NEW i \in DOMAIN ws, WrapTx(i)
    PROVE  Heap'
<1> DEFINE w == [tx |-> ws[i].tx, bodyBz |-> << >>, authInfoBz |-> << >>]
<1>1. Wrap(txs, w, FALSE)
  BY Zenon DEF WrapTx
<1>2. ws[i].tx \in Nat
  BY TypesOf, Zenon DEF Heap
<1>3. w \in Wrappers /\ w.tx = ws[i].tx
  BY <1>2, Zenon DEF Wrappers, Opt
<1> HIDE DEF w
<1> QED
  BY <1>1, <1>3, GoodWrapped, Zenon

\* A call that changes the Tx of i to t, and no wrapper of it stays intact but i perhaps.
LEMMA HeapChanged ==
    ASSUME Heap, NEW i \in DOMAIN ws, NEW t \in Txs, NEW w \in Wrappers, NEW ok \in BOOLEAN,
           w.tx = ws[i].tx, txs' = [txs EXCEPT ![w.tx] = t], ws' = [ws EXCEPT ![i] = w],
           intact' = [Changed(w.tx) EXCEPT ![i] = ok],
           Fresh(ws[i], txs[ws[i].tx]) => Fresh(w, t), ok => Ready(w, t)
    PROVE  Heap'
<1>1. /\ Changed(w.tx) \in Seq(BOOLEAN) /\ DOMAIN Changed(w.tx) = DOMAIN ws
      /\ \A j \in DOMAIN ws : Changed(w.tx)[j] <=> intact[j] /\ ws[j].tx # w.tx
  BY ChangedIs, Zenon DEF Heap
<1>2. /\ intact' \in Seq(BOOLEAN) /\ DOMAIN intact' = DOMAIN ws /\ intact'[i] = ok
      /\ \A j \in DOMAIN ws : j # i => intact'[j] = Changed(w.tx)[j]
  BY <1>1, Put
<1>3. \A j \in DOMAIN ws : j # i /\ intact'[j] => intact[j] /\ (ws[j].tx = w.tx => t = txs[w.tx])
  BY <1>1, <1>2, Zenon
<1>4. Shared(i) \/ Fresh(w, t)
  BY Zenon DEF Heap, Good
<1>5. intact'[i] => Ready(w, t)
  BY <1>2, Zenon
<1>6. Changes(i, t, w)
  BY <1>2, <1>3, <1>4, <1>5, Zenon DEF Changes
<1> QED
  BY <1>6, GoodChanged, Zenon

\* The setters: their own wrapper is not intact either.
LEMMA ChangedSame ==
    ASSUME Types, NEW i \in DOMAIN ws
    PROVE  Changed(ws[i].tx) = [Changed(ws[i].tx) EXCEPT ![i] = FALSE]
<1>1. Changed(ws[i].tx)[i] = FALSE
  BY Zenon DEF Changed
<1> QED
  BY <1>1, Zenon DEF Changed

\* The setters of the body.
LEMMA HeapSetBody ==
    ASSUME Heap, NEW i \in DOMAIN ws, NEW f \in BodyFields, NEW v \in Values \cup {0}, SetBody(i, f, v)
    PROVE  Heap'
<1> DEFINE p == ws[i].tx
           t == [Body |-> [txs[p].Body EXCEPT ![f] = v], AuthInfo |-> txs[p].AuthInfo,
                 Signatures |-> txs[p].Signatures]
           w == [tx |-> p, bodyBz |-> << >>, authInfoBz |-> ws[i].authInfoBz]
<1>0. Types
  BY Zenon DEF Heap
<1>1. /\ p \in DOMAIN txs /\ p \in Nat /\ ws[i].authInfoBz \in Opt(AuthParts)
      /\ txs[p].Body \in Bodies /\ txs[p].AuthInfo \in Auths /\ txs[p].Signatures \in Opt(Sigs)
      /\ txs[p] = [Body |-> txs[p].Body, AuthInfo |-> txs[p].AuthInfo, Signatures |-> txs[p].Signatures]
      /\ ws[i] = [tx |-> p, bodyBz |-> ws[i].bodyBz, authInfoBz |-> ws[i].authInfoBz]
  BY <1>0, TypesOf, Zenon
<1>2. [txs[p].Body EXCEPT ![f] = v] \in Bodies
  BY <1>1, Zenon DEF Bodies
<1>3. /\ t \in Txs /\ t.AuthInfo = txs[p].AuthInfo
      /\ w \in Wrappers /\ w.tx = p /\ w.bodyBz = << >> /\ w.authInfoBz = ws[i].authInfoBz
  BY <1>1, <1>2, Zenon DEF Txs, Wrappers, Opt
<1>4. [txs[p] EXCEPT !.Body[f] = v] = t /\ [ws[i] EXCEPT !.bodyBz = << >>] = w
  BY <1>1
<1>5. txs' = [txs EXCEPT ![p] = [txs[p] EXCEPT !.Body[f] = v]]
  BY Zenon DEF SetBody
<1>6. ws' = [ws EXCEPT ![i] = [ws[i] EXCEPT !.bodyBz = << >>]]
  BY Zenon DEF SetBody
<1>7. intact' = [Changed(p) EXCEPT ![i] = FALSE]
  BY <1>0, ChangedSame, Zenon DEF SetBody
<1> HIDE DEF t, w
<1>8. Fresh(ws[i], txs[p]) => Fresh(w, t)
  BY <1>3, Zenon DEF Fresh
<1>9. txs' = [txs EXCEPT ![w.tx] = t] /\ ws' = [ws EXCEPT ![i] = w]
        /\ intact' = [Changed(w.tx) EXCEPT ![i] = FALSE]
  BY <1>3, <1>4, <1>5, <1>6, <1>7, Zenon
<1> QED
  BY <1>3, <1>8, <1>9, HeapChanged, Zenon

\* The setters of the fee.
LEMMA HeapSetFee ==
    ASSUME Heap, NEW i \in DOMAIN ws, NEW f \in FeeFields, NEW v \in Values \cup {0}, SetFee(i, f, v)
    PROVE  Heap'
<1> DEFINE p == ws[i].tx
           fee == IF txs[p].AuthInfo.Fee = << >> THEN NoFee ELSE txs[p].AuthInfo.Fee[1]
           a == [Fee |-> <<[fee EXCEPT ![f] = v]>>, SignerInfos |-> txs[p].AuthInfo.SignerInfos]
           t == [Body |-> txs[p].Body, AuthInfo |-> a, Signatures |-> txs[p].Signatures]
           w == [tx |-> p, bodyBz |-> ws[i].bodyBz, authInfoBz |-> << >>]
<1>0. Types
  BY Zenon DEF Heap
<1>1. /\ p \in DOMAIN txs /\ p \in Nat /\ ws[i].bodyBz \in Opt(BodyParts)
      /\ txs[p].Body \in Bodies /\ txs[p].AuthInfo \in Auths /\ txs[p].Signatures \in Opt(Sigs)
      /\ txs[p] = [Body |-> txs[p].Body, AuthInfo |-> txs[p].AuthInfo, Signatures |-> txs[p].Signatures]
      /\ ws[i] = [tx |-> p, bodyBz |-> ws[i].bodyBz, authInfoBz |-> ws[i].authInfoBz]
  BY <1>0, TypesOf, Zenon
<1>2. /\ txs[p].AuthInfo.Fee \in Opt(Fees) /\ txs[p].AuthInfo.SignerInfos \in Opt(Keys)
      /\ txs[p].AuthInfo = [Fee |-> txs[p].AuthInfo.Fee, SignerInfos |-> txs[p].AuthInfo.SignerInfos]
  BY <1>1 DEF Auths
<1>3. fee \in Fees
  <2>1. txs[p].AuthInfo.Fee # << >> => txs[p].AuthInfo.Fee[1] \in Fees
    BY <1>2, TheOne
  <2> QED
    BY <2>1, Empty, Zenon
<1> HIDE DEF fee
<1>4. [fee EXCEPT ![f] = v] \in Fees
  BY <1>3, Zenon DEF Fees
<1>5. a \in Auths
  BY <1>2, <1>4, Zenon DEF Auths, Opt
<1>6. [txs[p].AuthInfo EXCEPT !.Fee = <<[fee EXCEPT ![f] = v]>>] = a
  BY <1>2
<1> HIDE DEF a
<1>7. /\ t \in Txs /\ t.Body = txs[p].Body
      /\ w \in Wrappers /\ w.tx = p /\ w.bodyBz = ws[i].bodyBz /\ w.authInfoBz = << >>
  BY <1>1, <1>5, Zenon DEF Txs, Wrappers, Opt
<1>8. [txs[p] EXCEPT !.AuthInfo = a] = t /\ [ws[i] EXCEPT !.authInfoBz = << >>] = w
  BY <1>1
<1>9. /\ txs' = [txs EXCEPT ![p] =
                     [txs[p] EXCEPT !.AuthInfo = [txs[p].AuthInfo EXCEPT !.Fee = <<[fee EXCEPT ![f] = v]>>]]]
      /\ ws' = [ws EXCEPT ![i] = [ws[i] EXCEPT !.authInfoBz = << >>]]
  BY Zenon DEF SetFee, fee
<1>10. intact' = [Changed(p) EXCEPT ![i] = FALSE]
  BY <1>0, ChangedSame, Zenon DEF SetFee
<1> HIDE DEF t, w
<1>11. Fresh(ws[i], txs[p]) => Fresh(w, t)
  BY <1>7, Zenon DEF Fresh
<1>12. txs' = [txs EXCEPT ![w.tx] = t] /\ ws' = [ws EXCEPT ![i] = w]
         /\ intact' = [Changed(w.tx) EXCEPT ![i] = FALSE]
  BY <1>6, <1>7, <1>8, <1>9, <1>10, Zenon
<1> QED
  BY <1>7, <1>11, <1>12, HeapChanged, Zenon

\* What SetSignatures makes of a Tx.
LEMMA SetSignaturesIs ==
    ASSUME NEW t \in Txs, NEW k, NEW s
    PROVE  SetSignatures(t, k, s)
           = [Body |-> t.Body, AuthInfo |-> [Fee |-> t.AuthInfo.Fee, SignerInfos |-> <<k>>],
              Signatures |-> <<s>>]
<1> DEFINE a == [Fee |-> t.AuthInfo.Fee, SignerInfos |-> <<k>>]
           u == [t EXCEPT !.AuthInfo = [t.AuthInfo EXCEPT !.SignerInfos = <<k>>]]
<1>1. SetSignatures(t, k, s) = [u EXCEPT !.Signatures = <<s>>]
  BY Zenon DEF SetSignatures
<1>2. t.AuthInfo \in Auths
  BY DEF Txs
<1>3. [t.AuthInfo EXCEPT !.SignerInfos = <<k>>] = a
  BY <1>2 DEF Auths
<1> HIDE DEF a
<1>4. [t EXCEPT !.AuthInfo = a] = [Body |-> t.Body, AuthInfo |-> a, Signatures |-> t.Signatures]
  BY DEF Txs
<1>5. u = [Body |-> t.Body, AuthInfo |-> a, Signatures |-> t.Signatures]
  BY <1>3, <1>4, Zenon
<1> HIDE DEF u
<1>6. [u EXCEPT !.Signatures = <<s>>] = [Body |-> t.Body, AuthInfo |-> a, Signatures |-> <<s>>]
  BY <1>5
<1> QED
  BY <1>1, <1>6, Zenon DEF a

\* What GetSignBytes makes of a wrapper without the bytes of the auth info.
LEMMA SignBytesIs ==
    ASSUME NEW p, NEW bz, NEW t
    PROVE  GetSignBytes([tx |-> p, bodyBz |-> bz, authInfoBz |-> << >>], t)
           = [body |-> Bytes(bz, txs[p].Body, NoBody), auth |-> MarshalPart(t.AuthInfo, NoAuth)]
  BY Zenon DEF GetSignBytes, getBodyBytes, getAuthInfoBytes, Bytes

\* A wrapper that keeps other bytes.
LEMMA AuthSet ==
    ASSUME NEW w \in Wrappers, NEW auth
    PROVE  [w EXCEPT !.authInfoBz = auth] = [tx |-> w.tx, bodyBz |-> w.bodyBz, authInfoBz |-> auth]
  BY DEF Wrappers

\* Sign and Encode store the bytes of both parts in wrapper i.
WithBytes(q, i, body, auth) == [q EXCEPT ![i].bodyBz = body, ![i].authInfoBz = auth]

\* Nothing else of the wrapper changes then.
LEMMA BytesSet ==
    ASSUME NEW q \in Seq(Wrappers), NEW i \in DOMAIN q, NEW body, NEW auth
    PROVE  WithBytes(q, i, body, auth)
           = [q EXCEPT ![i] = [tx |-> q[i].tx, bodyBz |-> body, authInfoBz |-> auth]]
<1> DEFINE r == [q[i] EXCEPT !.bodyBz = body]
           u == [q EXCEPT ![i] = r]
<1>1. q[i] = [tx |-> q[i].tx, bodyBz |-> q[i].bodyBz, authInfoBz |-> q[i].authInfoBz]
  <2>1. q[i] \in Wrappers
    OBVIOUS
  <2> QED
    BY <2>1 DEF Wrappers
<1>2. r = [tx |-> q[i].tx, bodyBz |-> body, authInfoBz |-> q[i].authInfoBz]
  BY <1>1
<1>3. WithBytes(q, i, body, auth) = [u EXCEPT ![i].authInfoBz = auth]
  BY Zenon DEF WithBytes
<1> HIDE DEF r
<1>4. [r EXCEPT !.authInfoBz = auth] = [tx |-> q[i].tx, bodyBz |-> body, authInfoBz |-> auth]
  BY <1>2
<1>5. u[i] = r /\ DOMAIN u = DOMAIN q /\ \A x : [u EXCEPT ![i] = x] = [q EXCEPT ![i] = x]
  BY Zenon
<1> HIDE DEF u
<1>6. [u EXCEPT ![i].authInfoBz = auth] = [u EXCEPT ![i] = [u[i] EXCEPT !.authInfoBz = auth]]
  BY Zenon
<1> QED
  BY <1>3, <1>4, <1>5, <1>6, Zenon

\* Factory.Sign signs the bytes that the encoder writes afterwards.
LEMMA HeapSign ==
    ASSUME Heap, NEW i \in DOMAIN ws, NEW k \in Keys, NEW fails \in BOOLEAN, Sign(i, k, fails)
    PROVE  Heap'
<1> DEFINE p == ws[i].tx
           a == [Fee |-> txs[p].AuthInfo.Fee, SignerInfos |-> <<k>>]
           body == Bytes(ws[i].bodyBz, txs[p].Body, NoBody)
           auth == MarshalPart(a, NoAuth)
           sig == IF fails THEN NoSig ELSE [by |-> k, body |-> body, auth |-> auth]
           t == [Body |-> txs[p].Body, AuthInfo |-> a, Signatures |-> <<sig>>]
           w == [tx |-> p, bodyBz |-> body, authInfoBz |-> IF fails THEN auth ELSE << >>]
<1>0. Types
  BY Zenon DEF Heap
<1>1. /\ p \in DOMAIN txs /\ p \in Nat /\ ws[i].bodyBz \in Opt(BodyParts)
      /\ txs[p].Body \in Bodies /\ txs[p].AuthInfo \in Auths /\ txs[p].Signatures \in Opt(Sigs)
      /\ txs[p] = [Body |-> txs[p].Body, AuthInfo |-> txs[p].AuthInfo, Signatures |-> txs[p].Signatures]
      /\ ws[i] = [tx |-> p, bodyBz |-> ws[i].bodyBz, authInfoBz |-> ws[i].authInfoBz]
  BY <1>0, TypesOf, Zenon
<1>2. /\ txs[p].AuthInfo.Fee \in Opt(Fees)
      /\ txs[p].AuthInfo = [Fee |-> txs[p].AuthInfo.Fee, SignerInfos |-> txs[p].AuthInfo.SignerInfos]
  BY <1>1 DEF Auths
<1>3. a \in Auths /\ a # NoAuth /\ a.SignerInfos = <<k>>
  <2>1. a \in Auths /\ a.SignerInfos = <<k>>
    BY <1>2, Zenon DEF Auths, Opt
  <2>2. NoAuth.SignerInfos = << >> /\ <<k>> # << >>
    BY DEF NoAuth
  <2> QED
    BY <2>1, <2>2, Zenon
<1>4. txs[p] \in Txs /\ ws[i] \in Wrappers /\ a.Fee = txs[p].AuthInfo.Fee
  BY <1>0, TypesOf, Zenon
<1>5. \A s : SetSignatures(txs[p], k, s) = [Body |-> txs[p].Body, AuthInfo |-> a, Signatures |-> <<s>>]
  BY <1>4, SetSignaturesIs, Zenon
<1> HIDE DEF a
<1>6. \A s : SetSignatures(SetSignatures(txs[p], k, NoSig), k, s)
             = [Body |-> txs[p].Body, AuthInfo |-> a, Signatures |-> <<s>>]
  <2>1. PICK u : u = [Body |-> txs[p].Body, AuthInfo |-> a, Signatures |-> <<NoSig>>]
    BY Zenon
  <2>2. <<NoSig>> \in Opt(Sigs)
    BY Zenon DEF NoSig, Sigs, Opt
  <2>3. u \in Txs
    BY <1>1, <1>3, <2>1, <2>2, Zenon DEF Txs
  <2>4. u.Body = txs[p].Body /\ u.AuthInfo = a
    BY <2>1, Zenon
  <2>5. \A s : SetSignatures(u, k, s)
          = [Body |-> u.Body, AuthInfo |-> [Fee |-> u.AuthInfo.Fee, SignerInfos |-> <<k>>], Signatures |-> <<s>>]
    BY <2>3, SetSignaturesIs, Zenon
  <2>6. [Fee |-> u.AuthInfo.Fee, SignerInfos |-> <<k>>] = a
    BY <1>4, <2>4, Zenon DEF a
  <2> QED
    BY <1>5, <2>1, <2>4, <2>5, <2>6, Zenon
<1>7. GetSignBytes([ws[i] EXCEPT !.authInfoBz = << >>], SetSignatures(txs[p], k, NoSig))
        = [body |-> body, auth |-> auth]
  <2>1. [ws[i] EXCEPT !.authInfoBz = << >>] = [tx |-> p, bodyBz |-> ws[i].bodyBz, authInfoBz |-> << >>]
    BY <1>4, AuthSet, Zenon
  <2>2. PICK u : u = SetSignatures(txs[p], k, NoSig)
    BY Zenon
  <2>3. u = [Body |-> txs[p].Body, AuthInfo |-> a, Signatures |-> <<NoSig>>]
    BY <1>5, <2>2, Zenon
  <2>4. u.AuthInfo = a
    BY <2>3, Zenon
  <2>5. GetSignBytes([tx |-> p, bodyBz |-> ws[i].bodyBz, authInfoBz |-> << >>], u)
          = [body |-> body, auth |-> auth]
    BY <2>4, SignBytesIs, Zenon
  <2> QED
    BY <2>1, <2>2, <2>5, Zenon
<1>8. Signature(k, [body |-> body, auth |-> auth]) = [by |-> k, body |-> body, auth |-> auth]
  BY Zenon DEF Signature
<1>9. /\ body \in Opt(BodyParts) /\ Bytes(body, txs[p].Body, NoBody) = body
      /\ (ws[i].bodyBz # << >> => ws[i].bodyBz[1].c = txs[p].Body)
           => (body # << >> => body[1].c = txs[p].Body)
  BY <1>1, BytesKept DEF BodyParts
<1>10. auth \in Opt(AuthParts) /\ auth # << >> /\ auth[1].c = a
  BY <1>3, Marshalled, Zenon DEF AuthParts
<1> HIDE DEF body, auth
<1>11. sig \in Sigs
  <2>1. NoSig \in Sigs
    BY Zenon DEF NoSig, Sigs, Opt
  <2>2. [by |-> k, body |-> body, auth |-> auth] \in Sigs
    BY <1>9, <1>10, Zenon DEF Sigs
  <2> QED
    BY <2>1, <2>2, Zenon
<1>12. txs' = [txs EXCEPT ![p] = t]
  <2>1. txs' = [txs EXCEPT ![p] = IF fails THEN SetSignatures(txs[p], k, NoSig)
                                  ELSE SetSignatures(SetSignatures(txs[p], k, NoSig), k,
                                             [by |-> k, body |-> body, auth |-> auth])]
    BY <1>7, <1>8, Zenon DEF Sign
  <2> QED
    BY <1>5, <1>6, <2>1, Zenon
<1>13. ws' = [ws EXCEPT ![i] = w]
  <2>1. PICK bytes : bytes
            = GetSignBytes([ws[i] EXCEPT !.authInfoBz = << >>], SetSignatures(txs[p], k, NoSig))
    BY Zenon
  <2>2. bytes = [body |-> body, auth |-> auth]
    BY <1>7, <2>1, Zenon
  <2>3. bytes.body = body /\ bytes.auth = auth
    BY <2>2, Zenon
  <2>4. ws' = [ws EXCEPT ![i].bodyBz = bytes.body,
          ![i].authInfoBz = IF fails THEN bytes.auth ELSE << >>]
    BY <2>1, Zenon DEF Sign
  <2>5. PICK kept : kept = IF fails THEN auth ELSE << >>
    BY Zenon
  <2>6. ws' = WithBytes(ws, i, body, kept)
    BY <2>3, <2>4, <2>5, Zenon DEF WithBytes
  <2>7. ws \in Seq(Wrappers)
    BY <1>0, Zenon DEF Types
  <2>8. ws' = [ws EXCEPT ![i] = [tx |-> p, bodyBz |-> body, authInfoBz |-> kept]]
    BY <2>6, <2>7, BytesSet, Zenon
  <2> QED
    BY <2>5, <2>8, Zenon
<1>14. intact' = [Changed(p) EXCEPT ![i] = ~ fails]
  BY Zenon DEF Sign
<1> HIDE DEF sig
<1>15. /\ t \in Txs /\ t.Body = txs[p].Body /\ t.AuthInfo = a /\ t.Signatures = <<sig>>
       /\ w \in Wrappers /\ w.tx = p /\ w.bodyBz = body /\ w.authInfoBz = IF fails THEN auth ELSE << >>
  <2>1. (IF fails THEN auth ELSE << >>) \in Opt(AuthParts)
    BY <1>10, Zenon DEF Opt
  <2> QED
    BY <1>1, <1>3, <1>9, <1>11, <2>1, Zenon DEF Txs, Wrappers, Opt
<1> HIDE DEF t, w
<1>16. Fresh(ws[i], txs[p]) => Fresh(w, t)
  BY <1>9, <1>10, <1>15, Zenon DEF Fresh
<1>17. ASSUME ~ fails PROVE Ready(w, t)
  <2>1. BodyBytes(w, t) = body /\ AuthBytes(w, t) = auth
    BY <1>9, <1>15, <1>17, Zenon DEF BodyBytes, AuthBytes, Bytes, auth
  <2>2. sig = [by |-> k, body |-> body, auth |-> auth]
    BY <1>17, Zenon DEF sig
  <2>3. Len(<<sig>>) = Len(<<k>>) /\ DOMAIN <<sig>> = {1} /\ <<sig>>[1] = sig /\ <<k>>[1] = k
          /\ <<sig>> # << >>
    OBVIOUS
  <2>4. Signed(body, auth, <<sig>>)
    BY <1>3, <1>10, <2>2, <2>3, Zenon DEF Signed
  <2> QED
    BY <1>15, <2>1, <2>4, Zenon DEF Ready
<1>18. PICK ok \in BOOLEAN : ok = ~ fails
  BY Zenon
<1>19. txs' = [txs EXCEPT ![w.tx] = t] /\ ws' = [ws EXCEPT ![i] = w]
         /\ intact' = [Changed(w.tx) EXCEPT ![i] = ok]
  BY <1>12, <1>13, <1>14, <1>15, <1>18, Zenon
<1>20. ok => Ready(w, t)
  BY <1>17, <1>18, Zenon
<1> QED
  BY <1>15, <1>16, <1>19, <1>20, HeapChanged, Zenon

\* The encoder keeps the bytes that it writes, and they verify if the wrapper is intact.
LEMMA HeapEncode ==
    ASSUME Heap, SentOK, NEW i \in DOMAIN ws, Encode(i)
    PROVE  Heap' /\ SentOK'
<1> DEFINE p == ws[i].tx
           body == BodyBytes(ws[i], txs[p])
           auth == AuthBytes(ws[i], txs[p])
           w == [tx |-> p, bodyBz |-> body, authInfoBz |-> auth]
           s == [form |-> "raw", body |-> body, auth |-> auth, sigs |-> txs[p].Signatures,
             intact |-> intact[i]]
<1>0. Types
  BY Zenon DEF Heap
<1>1. /\ p \in DOMAIN txs /\ p \in Nat /\ txs[p] \in Txs /\ intact[i] \in BOOLEAN
      /\ ws[i].bodyBz \in Opt(BodyParts) /\ ws[i].authInfoBz \in Opt(AuthParts)
      /\ txs[p].Body \in Bodies /\ txs[p].AuthInfo \in Auths /\ txs[p].Signatures \in Opt(Sigs)
  BY <1>0, TypesOf, Zenon
<1>2. /\ body \in Opt(BodyParts) /\ Bytes(body, txs[p].Body, NoBody) = body
      /\ (ws[i].bodyBz # << >> => ws[i].bodyBz[1].c = txs[p].Body)
           => (body # << >> => body[1].c = txs[p].Body)
  BY <1>1, BytesKept DEF BodyParts, BodyBytes
<1>3. /\ auth \in Opt(AuthParts) /\ Bytes(auth, txs[p].AuthInfo, NoAuth) = auth
      /\ (ws[i].authInfoBz # << >> => ws[i].authInfoBz[1].c = txs[p].AuthInfo)
         => (auth # << >> => auth[1].c = txs[p].AuthInfo)
  BY <1>1, BytesKept DEF AuthParts, AuthBytes
<1>4. getBodyBytes(ws[i]) = body /\ getAuthInfoBytes(ws[i], txs[p].AuthInfo) = auth
  BY Zenon DEF getBodyBytes, getAuthInfoBytes, BodyBytes, AuthBytes, Bytes
<1> HIDE DEF body, auth
<1>5. ws' = WithBytes(ws, i, body, auth) /\ wire' = <<s>> /\ txs' = txs /\ intact' = intact
  BY <1>4, Zenon DEF Encode, WithBytes
<1>6. /\ w \in Wrappers /\ w.tx = p /\ w.bodyBz = body /\ w.authInfoBz = auth
      /\ s \in Wires /\ s.form = "raw" /\ s.body = body /\ s.auth = auth
      /\ s.sigs = txs[p].Signatures /\ s.intact = intact[i]
  BY <1>1, <1>2, <1>3, Zenon DEF Wrappers, Wires
<1>7. ws' = [ws EXCEPT ![i] = w]
  <2>1. ws \in Seq(Wrappers)
    BY <1>0, Zenon DEF Types
  <2> QED
    BY <1>5, <2>1, BytesSet, Zenon
<1> HIDE DEF w, s
<1>8. BodyBytes(w, txs[p]) = body /\ AuthBytes(w, txs[p]) = auth
  BY <1>2, <1>3, <1>6, Zenon DEF BodyBytes, AuthBytes
<1>9. intact[i] => Signed(body, auth, txs[p].Signatures)
  BY Zenon DEF Heap, Good, Ready, body, auth
<1>10. Shared(i) \/ Fresh(w, txs[p])
  <2>1. Fresh(ws[i], txs[p]) => Fresh(w, txs[p])
    BY <1>2, <1>3, <1>6, Zenon DEF Fresh
  <2> QED
    BY <2>1, Zenon DEF Heap, Good
<1>11. txs' = [txs EXCEPT ![p] = txs[p]]
  <2>1. txs \in Seq(Txs)
    BY <1>0, Zenon DEF Types
  <2>2. txs = [txs EXCEPT ![p] = txs[p]]
    BY <1>1, <2>1
  <2> QED
    BY <1>5, <2>2, Zenon
<1>12. Changes(i, txs[p], w)
  <2>1. intact' \in Seq(BOOLEAN) /\ DOMAIN intact' = DOMAIN ws
    BY <1>0, <1>5, Zenon DEF Types
  <2>2. intact'[i] => Ready(w, txs[p])
    BY <1>5, <1>8, <1>9, Zenon DEF Ready
  <2> QED
    BY <1>5, <1>6, <1>7, <1>10, <1>11, <2>1, <2>2, Zenon DEF Changes
<1>13. Heap'
  BY <1>1, <1>6, <1>12, GoodChanged, Zenon
<1>14. wire' \in Opt(Wires) /\ wire' # << >> /\ wire'[1] = s
  BY <1>5, <1>6, One, Zenon
<1>15. s.intact => Verifies(s)
  BY <1>6, <1>9, ZenonT(30) DEF Signed, Verifies
<1>16. SentOK'
  <2>1. s.form # "json"
    BY <1>6
  <2> QED
    BY <1>14, <1>15, <2>1, Zenon DEF SentOK
<1> QED
  BY <1>13, <1>16

\* The JSON of a wrapper that is whole gives the bytes that it would write.
LEMMA HeapEncodeJSON ==
    ASSUME Heap, SentOK, NEW i \in DOMAIN ws, EncodeJSON(i)
    PROVE  Heap' /\ SentOK'
<1> DEFINE p == ws[i].tx
           body == MarshalPart(txs[p].Body, NoBody)
           auth == MarshalPart(txs[p].AuthInfo, NoAuth)
           whole == /\ \A bz \in {ws[i].bodyBz, ws[i].authInfoBz} : bz = << >> \/ ~ bz[1].extra
                    /\ ~ Shared(i)
           s == [form |-> "json", body |-> body, auth |-> auth, sigs |-> txs[p].Signatures,
                 intact |-> intact[i] /\ whole]
<1>0. Types
  BY Zenon DEF Heap
<1>1. /\ intact[i] \in BOOLEAN
      /\ ws[i].bodyBz \in Opt(BodyParts) /\ ws[i].authInfoBz \in Opt(AuthParts)
      /\ txs[p].Body \in Bodies /\ txs[p].AuthInfo \in Auths /\ txs[p].Signatures \in Opt(Sigs)
  BY <1>0, TypesOf, Zenon
<1>2. body \in Opt(BodyParts) /\ Known(body)
  BY <1>1, Marshalled DEF BodyParts
<1>3. auth \in Opt(AuthParts) /\ Known(auth)
  BY <1>1, Marshalled DEF AuthParts
<1>4. wire' = <<s>> /\ txs' = txs /\ ws' = ws /\ intact' = intact
  BY Zenon DEF EncodeJSON
<1>5. ASSUME intact[i], whole PROVE Signed(body, auth, txs[p].Signatures)
  <2>1. Known(ws[i].bodyBz) /\ Known(ws[i].authInfoBz) /\ ~ Shared(i)
    BY <1>5, Zenon DEF Known
  <2>2. Fresh(ws[i], txs[p]) /\ Ready(ws[i], txs[p])
    BY <1>5, <2>1, Zenon DEF Heap, Good
  <2>3. BodyBytes(ws[i], txs[p]) = body
    BY <1>1, <2>1, <2>2, BytesWhole, Zenon DEF BodyParts, BodyBytes, Fresh
  <2>4. AuthBytes(ws[i], txs[p]) = auth
    BY <1>1, <2>1, <2>2, BytesWhole, Zenon DEF AuthParts, AuthBytes, Fresh
  <2> QED
    BY <2>2, <2>3, <2>4, Zenon DEF Ready
<1>6. (intact[i] /\ whole) \in BOOLEAN
  BY <1>1, Zenon
<1> HIDE DEF body, auth, whole
<1>7. /\ s \in Wires /\ s.body = body /\ s.auth = auth /\ s.sigs = txs[p].Signatures
      /\ s.intact = (intact[i] /\ whole)
  BY <1>1, <1>2, <1>3, <1>6, Zenon DEF Wires
<1> HIDE DEF s
<1>8. wire' \in Opt(Wires) /\ wire' # << >> /\ wire'[1] = s
  BY <1>4, <1>7, One, Zenon
<1>9. s.intact => Verifies(s)
  BY <1>5, <1>7, Zenon DEF Signed, Verifies
<1>10. SentOK'
  BY <1>2, <1>3, <1>7, <1>8, <1>9, Zenon DEF SentOK
<1>11. Heap'
  BY <1>4, Zenon DEF Heap, Types, Good, Shared
<1> QED
  BY <1>10, <1>11

\* What another client sends verifies.
LEMMA SentPeer ==
    ASSUME 0 \notin Values, NEW f \in BodyFields, NEW v \in Values, NEW fee \in {<< >>, <<NoFee>>},
           NEW k \in Keys, NEW more \in BOOLEAN, Peer(f, v, fee, k, more)
    PROVE  SentOK'
<1> DEFINE b == [NoBody EXCEPT ![f] = v]
           a == [Fee |-> fee, SignerInfos |-> <<k>>]
           bp == [c |-> b, extra |-> more]
           ap == [c |-> a, extra |-> more]
           sig == [by |-> k, body |-> <<bp>>, auth |-> <<ap>>]
           s == [form |-> "raw", body |-> <<bp>>, auth |-> <<ap>>, intact |-> TRUE, sigs |-> <<sig>>]
<1>1. b \in Bodies /\ b # NoBody
  <2>1. b[f] = v /\ NoBody[f] = 0 /\ v # 0
    BY Zenon DEF NoBody
  <2>2. b \in Bodies
    BY Empty, Zenon DEF Bodies
  <2> QED
    BY <2>1, <2>2, Zenon
<1>2. a \in Auths /\ a # NoAuth /\ a.SignerInfos = <<k>>
  <2>1. fee \in Opt(Fees)
    BY Empty, Zenon DEF Opt
  <2>2. a \in Auths /\ a.SignerInfos = <<k>>
    BY <2>1, Zenon DEF Auths, Opt
  <2>3. NoAuth.SignerInfos = << >> /\ <<k>> # << >>
    BY DEF NoAuth
  <2> QED
    BY <2>2, <2>3, Zenon
<1> HIDE DEF a, b
<1>3. bp \in BodyParts /\ ap \in AuthParts /\ ap.c = a
  BY <1>1, <1>2, Zenon DEF BodyParts, AuthParts, Parts
<1>4. wire' = <<s>>
  BY Zenon DEF Peer, a, b
<1> HIDE DEF ap, bp
<1>5. sig \in Sigs
  BY <1>3, Zenon DEF Sigs, Opt
<1>6. <<ap>> # << >> /\ <<ap>>[1] = ap /\ <<sig>> # << >> /\ <<sig>>[1] = sig
  OBVIOUS
<1>7. DOMAIN <<sig>> = {1} /\ Len(<<sig>>) = Len(<<k>>) /\ <<k>>[1] = k
  OBVIOUS
<1>8. /\ s.sigs = <<sig>> /\ s.body = <<bp>> /\ s.auth = <<ap>> /\ s.form = "raw"
  BY Zenon
<1>9. s \in Wires
  BY <1>3, <1>5, Zenon DEF Wires, Opt
<1>10. sig = [by |-> k, body |-> <<bp>>, auth |-> <<ap>>]
  BY Zenon
<1> HIDE DEF sig, s
<1>11. Verifies(s)
  BY <1>2, <1>3, <1>6, <1>7, <1>8, <1>10, Zenon DEF Verifies
<1>12. wire' \in Opt(Wires) /\ wire' # << >> /\ wire'[1] = s
  BY <1>4, <1>9, One, Zenon
<1>13. s.form # "json"
  BY <1>8
<1> QED
  BY <1>11, <1>12, <1>13, Zenon DEF SentOK

\* A transaction that is decoded, from bytes or from JSON, is as intact as it was sent.
LEMMA HeapDecode ==
    ASSUME Heap, SentOK, Decode
    PROVE  Heap'
<1>1. PICK s : s = wire[1]
  BY Zenon
<1>2. s \in Wires
  <2>1. wire \in Opt(Wires) /\ wire # << >>
    BY Zenon DEF SentOK, Decode
  <2> QED
    BY <1>1, <2>1, TheOne, Zenon
<1>3. /\ s.body \in Opt(BodyParts) /\ s.auth \in Opt(AuthParts) /\ s.sigs \in Opt(Sigs)
           /\ s.intact \in BOOLEAN
      /\ s.form \in {"raw", "json"}
  BY <1>2 DEF Wires
<1>4. (s.intact => Verifies(s)) /\ (s.form = "json" => Known(s.body) /\ Known(s.auth))
  BY <1>1, Zenon DEF SentOK, Decode
<1> DEFINE b == ContentOf(s.body, NoBody)
           a == ContentOf(s.auth, NoAuth)
           bb == IF s.form = "raw" THEN s.body ELSE << >>
           ab == IF s.form = "raw" THEN s.auth ELSE << >>
           t == [Body |-> b, AuthInfo |-> a, Signatures |-> s.sigs]
           w == [tx |-> Len(txs) + 1, bodyBz |-> bb, authInfoBz |-> ab]
<1>5. Wrap(Append(txs, t), w, s.intact)
  BY <1>1, Zenon DEF Decode
<1>6. /\ b \in Bodies /\ Bytes(s.body, b, NoBody) = s.body /\ (s.body # << >> => s.body[1].c = b)
      /\ Known(s.body) => MarshalPart(b, NoBody) = s.body
  BY <1>3, Empty, BytesRead DEF BodyParts
<1>7. /\ a \in Auths /\ Bytes(s.auth, a, NoAuth) = s.auth /\ (s.auth # << >> => s.auth[1].c = a)
      /\ Known(s.auth) => MarshalPart(a, NoAuth) = s.auth
  BY <1>3, Empty, BytesRead DEF AuthParts
<1> HIDE DEF a, b
<1>8. bb \in Opt(BodyParts) /\ ab \in Opt(AuthParts)
  BY <1>3, Zenon DEF Opt
<1>9. /\ Bytes(bb, b, NoBody) = s.body /\ Bytes(ab, a, NoAuth) = s.auth
      /\ bb # << >> => bb[1].c = b
      /\ ab # << >> => ab[1].c = a
  <2>1. CASE s.form = "raw"
    <3>1. bb = s.body /\ ab = s.auth
      BY <2>1, Zenon
    <3> QED
      BY <1>6, <1>7, <3>1, Zenon
  <2>2. CASE s.form # "raw"
    <3>1. bb = << >> /\ ab = << >> /\ s.form = "json"
      BY <1>3, <2>2, Zenon
    <3> QED
      BY <1>4, <1>6, <1>7, <3>1, Zenon DEF Bytes
  <2> QED
    BY <2>1, <2>2
<1> HIDE DEF bb, ab
<1>10. Len(txs) + 1 \in Nat
  <2>1. txs \in Seq(Txs)
    BY Zenon DEF Heap, Types
  <2> QED
    BY <2>1
<1>11. /\ t \in Txs /\ t.Body = b /\ t.AuthInfo = a /\ t.Signatures = s.sigs
       /\ w \in Wrappers /\ w.tx = Len(txs) + 1 /\ w.bodyBz = bb /\ w.authInfoBz = ab
  BY <1>3, <1>6, <1>7, <1>8, <1>10, Zenon DEF Txs, Wrappers
<1> HIDE DEF t, w
<1>12. Fresh(w, t)
  BY <1>9, <1>11, Zenon DEF Fresh
<1>13. s.intact => Ready(w, t)
  <2>1. BodyBytes(w, t) = s.body /\ AuthBytes(w, t) = s.auth
    BY <1>9, <1>11, Zenon DEF BodyBytes, AuthBytes
  <2> QED
    BY <1>4, <1>11, <2>1, Zenon DEF Verifies, Ready, Signed
<1> QED
  BY <1>3, <1>5, <1>11, <1>12, <1>13, GoodNew, Zenon

\* The calls that do not send leave nothing, or the same, on the way.
LEMMA SentKept ==
    ASSUME SentOK, wire' = wire \/ wire' = << >>
    PROVE  SentOK'
<1>1. << >> \in Opt(Wires)
  BY Zenon DEF Opt
<1> QED
  BY <1>1, Zenon DEF SentOK

-----------------------------------------------------------------------------
(* The theorems *)

\* Every call keeps what is known of the heap and of the transaction on its way.
LEMMA BuilderStep ==
    ASSUME 0 \notin Values, Heap, SentOK, [Next]_vars
    PROVE  Heap' /\ SentOK'
<1>1. CASE newBuilder
  BY <1>1, HeapNewBuilder, SentKept, Zenon DEF newBuilder
<1>2. CASE Decode
  BY <1>2, HeapDecode, SentKept, Zenon DEF Decode
<1>3. ASSUME NEW i \in DOMAIN ws, WrapTx(i) PROVE Heap' /\ SentOK'
  BY <1>3, HeapWrapTx, SentKept, Zenon DEF WrapTx
<1>4. ASSUME NEW i \in DOMAIN ws, Encode(i) PROVE Heap' /\ SentOK'
  BY <1>4, HeapEncode, Zenon
<1>5. ASSUME NEW i \in DOMAIN ws, EncodeJSON(i) PROVE Heap' /\ SentOK'
  BY <1>5, HeapEncodeJSON, Zenon
<1>6. ASSUME NEW i \in DOMAIN ws, NEW f \in BodyFields, NEW v \in Values \cup {0}, SetBody(i, f, v)
      PROVE  Heap' /\ SentOK'
  BY <1>6, HeapSetBody, SentKept, Zenon DEF SetBody
<1>7. ASSUME NEW i \in DOMAIN ws, NEW f \in FeeFields, NEW v \in Values \cup {0}, SetFee(i, f, v)
      PROVE  Heap' /\ SentOK'
  BY <1>7, HeapSetFee, SentKept, Zenon DEF SetFee
<1>8. ASSUME NEW i \in DOMAIN ws, NEW k \in Keys, NEW fails \in BOOLEAN, Sign(i, k, fails)
      PROVE  Heap' /\ SentOK'
  BY <1>8, HeapSign, SentKept, Zenon DEF Sign
<1>9. CASE FromPeer
  <2>1. PICK f \in BodyFields, v \in Values, fee \in {<< >>, <<NoFee>>}, k \in Keys, more \in BOOLEAN :
            Peer(f, v, fee, k, more)
    BY <1>9, Zenon DEF FromPeer
  <2>2. txs' = txs /\ ws' = ws /\ intact' = intact
    BY <2>1, Zenon DEF Peer
  <2>3. Heap'
    BY <2>2, Zenon DEF Heap, Types, Good, Shared
  <2> QED
    BY <2>1, <2>3, SentPeer, Zenon
<1>10. CASE Deliver \/ UNCHANGED vars
  <2>1. txs' = txs /\ ws' = ws /\ intact' = intact /\ (wire' = wire \/ wire' = << >>)
    BY <1>10, Zenon DEF Deliver, vars
  <2>2. Heap'
    BY <2>1, Zenon DEF Heap, Types, Good, Shared
  <2> QED
    BY <2>1, <2>2, SentKept, Zenon
<1> QED
  BY <1>1, <1>2, <1>3, <1>4, <1>5, <1>6, <1>7, <1>8, <1>9, <1>10, Zenon DEF Next, Call

\* At the start there are no wrappers.
LEMMA BuilderInit ==
    ASSUME Init
    PROVE  Heap /\ SentOK
<1>1. << >> \in Seq(Txs) /\ << >> \in Seq(Wrappers) /\ << >> \in Seq(BOOLEAN) /\ DOMAIN << >> = {}
  OBVIOUS
<1>2. Heap
  BY <1>1, Zenon DEF Init, Heap, Types
<1>3. SentOK
  BY Zenon DEF Init, SentOK, Opt
<1> QED
  BY <1>2, <1>3

\* What is known of the heap holds in every state.
LEMMA BuilderKnown ==
    ASSUME 0 \notin Values
    PROVE  Spec => [](Heap /\ SentOK)
  BY BuilderInit, BuilderStep, PTL DEF Spec

\* The bytes that a wrapper keeps are stale only if another wrapper has its Tx.
THEOREM BytesFollowTx ==
    ASSUME 0 \notin Values
    PROVE  Spec => []StaleOnlyIfShared
<1>1. ASSUME Heap, SentOK PROVE TypeOK
  <2>1. ASSUME NEW S, NEW q \in Opt(S) PROVE Len(q) <= 1
    <3>1. CASE q = << >>
      BY <3>1
    <3>2. CASE q # << >>
      <4>1. Len(q) = 1
        BY <3>2, <2>1, TheOne, Zenon
      <4> QED
        BY <4>1
    <3> QED
      BY <3>1, <3>2
  <2>2. ASSUME NEW i \in DOMAIN ws
        PROVE  ws[i].tx \in DOMAIN txs /\ Len(ws[i].bodyBz) <= 1 /\ Len(ws[i].authInfoBz) <= 1
    <3>1. ws[i].tx \in DOMAIN txs /\ ws[i].bodyBz \in Opt(BodyParts)
            /\ ws[i].authInfoBz \in Opt(AuthParts)
      BY <1>1, TypesOf, Zenon DEF Heap
    <3> QED
      BY <2>1, <3>1, Zenon
  <2>3. ASSUME NEW p \in DOMAIN txs
        PROVE  txs[p].Body \in [BodyFields -> Values \cup {0}] /\ Len(txs[p].AuthInfo.Fee) <= 1
    <3>1. txs \in Seq(Txs)
      BY <1>1, Zenon DEF Heap, Types
    <3>2. txs[p] \in Txs
      BY <3>1
    <3>3. txs[p].Body \in Bodies /\ txs[p].AuthInfo \in Auths
      BY <3>2 DEF Txs
    <3>4. txs[p].AuthInfo.Fee \in Opt(Fees)
      BY <3>3 DEF Auths
    <3> QED
      BY <2>1, <3>3, <3>4, Zenon DEF Bodies
  <2>4. DOMAIN intact = DOMAIN ws /\ Len(wire) <= 1
    BY <1>1, <2>1, Zenon DEF Heap, Types, SentOK
  <2> QED
    BY <2>2, <2>3, <2>4, Zenon DEF TypeOK
<1>2. Heap /\ TypeOK => StaleOnlyIfShared
  BY Zenon DEF Heap, Good, Fresh, StaleOnlyIfShared
<1> QED
  BY <1>1, <1>2, BuilderKnown, PTL

\* What was signed, or received, and not changed since is sent with the bytes that were signed.
THEOREM SentVerifies ==
    ASSUME 0 \notin Values
    PROVE  Spec => []SignedIsSent
<1>1. SentOK => SignedIsSent
  BY Zenon DEF SentOK, SignedIsSent
<1> QED
  BY <1>1, BuilderKnown, PTL
=============================================================================

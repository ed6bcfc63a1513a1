------------------------------ MODULE TxBuilder ------------------------------
(***************************************************************************)
(* types/tx: the wrapper that is both the transaction and its builder.  It *)
(* points to a Tx and keeps the bytes of the body and of the auth info,    *)
(* from the wire if it was decoded.  Setters change the Tx and drop the    *)
(* bytes; GetSignBytes and the encoder make them again when they are       *)
(* missing.  WrapTx and AsAny give several wrappers of one Tx.             *)
(*                                                                         *)
(* Bytes are << >> when empty or nil, else one record: the content and     *)
(* whether a newer peer added fields that this version does not know.      *)
(***************************************************************************)
EXTENDS Integers, Sequences

CONSTANTS BodyFields,   \* the fields of the body that are set
          FeeFields,    \* the fields of the fee that are set
          Values,       \* their values, besides 0 for an unset one
          Keys,         \* the keys that sign
          MaxWrappers,  \* bound: wrappers, and Txs
          MaxOps        \* bound: calls

VARIABLES txs,       \* the Txs on the heap
          ws,        \* the wrappers: [tx, bodyBz, authInfoBz]
          wire,      \* the transaction on its way, at most one
          intact,    \* history: by wrapper, signed or received and not changed since
          ops        \* history: number of calls

vars == <<txs, ws, wire, intact, ops>>

-----------------------------------------------------------------------------
NoBody == [f \in BodyFields |-> 0]
NoFee == [f \in FeeFields |-> 0]
NoAuth == [Fee |-> << >>, SignerInfos |-> << >>]
NoSig == [by |-> "", body |-> << >>, auth |-> << >>]

\* proto.Marshal.
MarshalPart(c, none) == IF c = none THEN << >> ELSE <<[c |-> c, extra |-> FALSE]>>

getBodyBytes(w) == IF w.bodyBz = << >> THEN MarshalPart(txs[w.tx].Body, NoBody) ELSE w.bodyBz
getAuthInfoBytes(w, auth) == IF w.authInfoBz = << >> THEN MarshalPart(auth, NoAuth) ELSE w.authInfoBz

\* A wrapper is added; p points to its Tx, in t.
Wrap(t, w, ok) == /\ txs' = t /\ ws' = Append(ws, w) /\ intact' = Append(intact, ok)

\* No wrapper of p is intact.
Changed(p) == [i \in DOMAIN ws |-> intact[i] /\ ws[i].tx # p]

\* Another wrapper has the same Tx.
Shared(i) == \E j \in DOMAIN ws : j # i /\ ws[j].tx = ws[i].tx

TypeOK ==
    /\ \A i \in DOMAIN ws : /\ ws[i].tx \in DOMAIN txs
                            /\ Len(ws[i].bodyBz) <= 1 /\ Len(ws[i].authInfoBz) <= 1
    /\ \A p \in DOMAIN txs : /\ txs[p].Body \in [BodyFields -> Values \cup {0}]
                             /\ Len(txs[p].AuthInfo.Fee) <= 1
    /\ DOMAIN intact = DOMAIN ws /\ Len(wire) <= 1

-----------------------------------------------------------------------------
Init == txs = << >> /\ ws = << >> /\ wire = << >> /\ intact = << >> /\ ops = 0

newBuilder ==
    /\ Len(ws) < MaxWrappers
    /\ LET t == [Body |-> NoBody, AuthInfo |-> [NoAuth EXCEPT !.Fee = <<NoFee>>], Signatures |-> << >>]
       IN  Wrap(Append(txs, t), [tx |-> Len(txs) + 1, bodyBz |-> << >>, authInfoBz |-> << >>], FALSE)
    /\ UNCHANGED wire

\* The Tx that AsAny of a wrapper holds is wrapped again.
WrapTx(i) ==
    /\ Len(ws) < MaxWrappers
    /\ Wrap(txs, [tx |-> ws[i].tx, bodyBz |-> << >>, authInfoBz |-> << >>], FALSE)
    /\ UNCHANGED wire

\* Mutant: the bytes of the body are kept.
SetBodyKeeps(i, f, v) ==
    /\ txs' = [txs EXCEPT ![ws[i].tx].Body[f] = v]
    /\ intact' = Changed(ws[i].tx)
    /\ UNCHANGED <<ws, wire>>

\* SetMsgs, SetMemo, SetTimeoutHeight and the two for extension options.
SetBody(i, f, v) ==
    /\ txs' = [txs EXCEPT ![ws[i].tx].Body[f] = v]
    /\ ws' = [ws EXCEPT ![i].bodyBz = << >>]
    /\ intact' = Changed(ws[i].tx)
    /\ UNCHANGED wire

\* SetGasLimit, SetFeeAmount, SetFeePayer, SetFeeGranter.
SetFee(i, f, v) ==
    LET p == ws[i].tx
        fee == IF txs[p].AuthInfo.Fee = << >> THEN NoFee ELSE txs[p].AuthInfo.Fee[1]
    IN  /\ txs' = [txs EXCEPT ![p].AuthInfo.Fee = <<[fee EXCEPT ![f] = v]>>]
        /\ ws' = [ws EXCEPT ![i].authInfoBz = << >>]
        /\ intact' = Changed(p)
        /\ UNCHANGED wire

\* Mutant: the signer is added to those of before.
SetSignaturesAdd(t, k, sig) == [t EXCEPT !.AuthInfo.SignerInfos = Append(@, k), !.Signatures = <<sig>>]

\* SetSignatures of one signer on a Tx; its wrapper drops the bytes of the auth info.
SetSignatures(t, k, sig) == [t EXCEPT !.AuthInfo.SignerInfos = <<k>>, !.Signatures = <<sig>>]

\* The two parts that are signed; both are kept in the wrapper.
GetSignBytes(w, t) == [body |-> getBodyBytes(w), auth |-> getAuthInfoBytes(w, t.AuthInfo)]

\* keyManager.Sign.
Signature(k, bytes) == [by |-> k, body |-> bytes.body, auth |-> bytes.auth]

\* Mutant: the bytes are made before the signer is set.
SignBefore(i, k, fails) ==
    LET p == ws[i].tx
        bytes == GetSignBytes(ws[i], txs[p])
        sig == IF fails THEN NoSig ELSE Signature(k, bytes)
    IN  /\ txs' = [txs EXCEPT ![p] = SetSignatures(@, k, sig)]
        /\ ws' = [ws EXCEPT ![i].bodyBz = bytes.body, ![i].authInfoBz = << >>]
        /\ intact' = [Changed(p) EXCEPT ![i] = ~ fails]
        /\ UNCHANGED wire

\* Factory.Sign: SetSignatures without a signature, GetSignBytes, Sign of the key
\* manager, which may fail, and SetSignatures again.
Sign(i, k, fails) ==
    LET p == ws[i].tx
        t == SetSignatures(txs[p], k, NoSig)
        bytes == GetSignBytes([ws[i] EXCEPT !.authInfoBz = << >>], t)
    IN  /\ txs' = [txs EXCEPT ![p] = IF fails THEN t ELSE SetSignatures(t, k, Signature(k, bytes))]
        /\ ws' = [ws EXCEPT ![i].bodyBz = bytes.body,
                            ![i].authInfoBz = IF fails THEN bytes.auth ELSE << >>]
        /\ intact' = [Changed(p) EXCEPT ![i] = ~ fails]
        /\ UNCHANGED wire

\* DefaultTxEncoder; the bytes go to the node or to another client.
Encode(i) ==
    LET w == ws[i]
        body == getBodyBytes(w)
        auth == getAuthInfoBytes(w, txs[w.tx].AuthInfo)
    IN  /\ wire = << >>
        /\ ws' = [ws EXCEPT ![i].bodyBz = body, ![i].authInfoBz = auth]
        /\ wire' = <<[form |-> "raw", body |-> body, auth |-> auth,
                      sigs |-> txs[w.tx].Signatures, intact |-> intact[i]]>>
        /\ UNCHANGED <<txs, intact>>

\* DefaultJSONTxEncoder: the Tx itself, without the bytes.
EncodeJSON(i) ==
    LET t == txs[ws[i].tx]
        whole == /\ \A bz \in {ws[i].bodyBz, ws[i].authInfoBz} : bz = << >> \/ ~ bz[1].extra
                 /\ ~ Shared(i)
    IN  /\ wire = << >>
        /\ wire' = <<[form |-> "json", body |-> MarshalPart(t.Body, NoBody),
                      auth |-> MarshalPart(t.AuthInfo, NoAuth), sigs |-> t.Signatures,
                      intact |-> intact[i] /\ whole]>>
        /\ UNCHANGED <<txs, ws, intact>>

\* Another client sends a transaction that it signed; of a newer version, it may add
\* fields.
Peer(f, v, fee, k, more) ==
    LET body == <<[c |-> [NoBody EXCEPT ![f] = v], extra |-> more]>>
        auth == <<[c |-> [Fee |-> fee, SignerInfos |-> <<k>>], extra |-> more]>>
    IN  /\ wire = << >>
        /\ wire' = <<[form |-> "raw", body |-> body, auth |-> auth, intact |-> TRUE,
                      sigs |-> <<[by |-> k, body |-> body, auth |-> auth]>>]>>
        /\ UNCHANGED <<txs, ws, intact>>

ContentOf(bz, none) == IF bz = << >> THEN none ELSE bz[1].c

\* DefaultTxDecoder keeps the bytes, DefaultJSONTxDecoder has none.
Decode ==
    /\ wire # << >> /\ Len(ws) < MaxWrappers
    /\ LET s == wire[1]
           raw == s.form = "raw"
       IN  Wrap(Append(txs, [Body |-> ContentOf(s.body, NoBody), AuthInfo |-> ContentOf(s.auth, NoAuth),
                             Signatures |-> s.sigs]),
                [tx |-> Len(txs) + 1, bodyBz |-> IF raw THEN s.body ELSE << >>,
                 authInfoBz |-> IF raw THEN s.auth ELSE << >>],
                s.intact)
    /\ wire' = << >>

\* The node takes the transaction.
Deliver == wire # << >> /\ wire' = << >> /\ UNCHANGED <<txs, ws, intact>>

Call == \/ newBuilder \/ Decode
        \/ \E i \in DOMAIN ws :
              \/ WrapTx(i) \/ Encode(i) \/ EncodeJSON(i)
              \/ \E f \in BodyFields, v \in Values \cup {0} : SetBody(i, f, v)
              \/ \E f \in FeeFields, v \in Values \cup {0} : SetFee(i, f, v)
              \/ \E k \in Keys, fails \in BOOLEAN : Sign(i, k, fails)

FromPeer == \E f \in BodyFields, v \in Values, fee \in {<< >>, <<NoFee>>}, k \in Keys, more \in BOOLEAN :
               Peer(f, v, fee, k, more)

Next == \/ Call /\ ops < MaxOps /\ ops' = ops + 1
        \/ (FromPeer \/ Deliver) /\ UNCHANGED ops

Spec == Init /\ [][Next]_vars

-----------------------------------------------------------------------------
(* Properties *)

\* The bytes that a wrapper keeps are those of its Tx, whatever the order of the
\* setters, signatures and encodings; only a Tx with two wrappers can leave them
\* stale, since a setter drops the bytes of its own wrapper alone.
StaleOnlyIfShared ==
    /\ TypeOK
    /\ \A i \in DOMAIN ws :
          ~ Shared(i) =>
              /\ ws[i].bodyBz # << >> => ws[i].bodyBz[1].c = txs[ws[i].tx].Body
              /\ ws[i].authInfoBz # << >> => ws[i].authInfoBz[1].c = txs[ws[i].tx].AuthInfo

\* The check of the node: each signer signed just these bytes.
Verifies(s) ==
    /\ s.sigs # << >> /\ s.auth # << >>
    /\ Len(s.sigs) = Len(s.auth[1].c.SignerInfos)
    /\ \A k \in DOMAIN s.sigs :
          s.sigs[k] = [by |-> s.auth[1].c.SignerInfos[k], body |-> s.body, auth |-> s.auth]

\* A transaction that was signed, or received, and not changed since is sent with
\* the bytes that were signed, the unknown fields of a newer peer included; as
\* JSON, unless it has such fields or another wrapper shares its Tx.
SignedIsSent == wire # << >> /\ wire[1].intact => Verifies(wire[1])
=============================================================================

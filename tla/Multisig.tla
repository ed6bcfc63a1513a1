------------------------------ MODULE Multisig ------------------------------
(***************************************************************************)
(* Signatures for a k-of-n key are collected one by one, handed from one   *)
(* client to the next in any of their encoded forms, and verified.  A key  *)
(* is a single key or again a k-of-n key; a signature belongs to the key   *)
(* that made it, over the right bytes or over others.                      *)
(***************************************************************************)
EXTENDS Integers, Sequences, FiniteSets, SequencesExt

CONSTANTS PubKeys,     \* the k-of-n keys: [kind, Threshold, PubKeys]
          NumBits,     \* the sizes that NewMultisig is called with
          Given,       \* the signatures that clients offer: [PubKey, Data]
          MaxAdds      \* bound: calls of AddSignatureV2

VARIABLES pubKey,      \* the key that the transaction needs
          mSig,        \* the MultiSignatureData
          Sequence,    \* SignatureV2.Sequence that goes with it
          size,        \* history: what NewMultisig was called with
          latest,      \* history: for each index the last signature added, at most one
          adds,        \* history: number of calls
          checked      \* the result of VerifyMultisignature of mSig, or a crash; at most one

vars == <<pubKey, mSig, Sequence, size, latest, adds, checked>>

-----------------------------------------------------------------------------
(* CompactBitArray, which says which keys have signed.  A byte is the set of   *)
(* its bits, 7 the highest.  SignatureData is one signature, or a bit array    *)
(* with the signatures it counts.                                              *)

Single(mode, by, valid) == [kind |-> "single", SignMode |-> mode, by |-> by, valid |-> valid]
Multi(bits, sigs) == [kind |-> "multi", BitArray |-> bits, Signatures |-> sigs]

NilArray == [nil |-> TRUE, ExtraBitsStored |-> 0, Elems |-> << >>]

NewCompactBitArray(bits) ==
    IF bits <= 0 THEN NilArray
    ELSE [nil |-> FALSE, ExtraBitsStored |-> bits % 8, Elems |-> [k \in 1 .. (bits + 7) \div 8 |-> {}]]

Count(bA) == CASE bA.nil -> 0
               [] ~ bA.nil /\ bA.ExtraBitsStored = 0 -> Len(bA.Elems) * 8
               [] OTHER -> (Len(bA.Elems) - 1) * 8 + bA.ExtraBitsStored

\* Where bit i is.
Elem(i) == i \div 8 + 1
Bit(i) == 7 - (i % 8)

GetIndex(bA, i) == i < Count(bA) /\ Bit(i) \in bA.Elems[Elem(i)]

\* Setting a bit to TRUE, the only use that is made of SetIndex.
SetIndex(bA, i) == IF i >= Count(bA) THEN bA
                   ELSE [bA EXCEPT !.Elems[Elem(i)] = @ \cup {Bit(i)}]

NumTrueBitsBefore(bA, index) == Cardinality({i \in 0 .. index - 1 : GetIndex(bA, i)})

\* MarshalJSON: null, or the bits as text.
MarshalJSON(bA) == [null |-> bA.nil, bits |-> [k \in 1 .. Count(bA) |-> GetIndex(bA, k - 1)]]

\* Mutant: the last bit is not copied.
UnmarshalJSONShort(text) ==
    LET bA == NewCompactBitArray(Len(text.bits))
    IN  IF text.null THEN <<[NilArray EXCEPT !.nil = FALSE]>>
        ELSE IF bA.nil THEN << >>
        ELSE <<[bA EXCEPT !.Elems = [k \in DOMAIN @ |->
                    {Bit(i) : i \in {j \in 0 .. Len(text.bits) - 2 : Elem(j) = k /\ text.bits[j + 1]}}]]>>

\* UnmarshalJSON into an array that exists: what becomes of it, or nothing when
\* *bA = *bA2 panics because bA2 is nil.
UnmarshalJSON(text) ==
    LET bA == NewCompactBitArray(Len(text.bits))
    IN  IF text.null THEN <<[NilArray EXCEPT !.nil = FALSE]>>
        ELSE IF bA.nil THEN << >>
        ELSE <<[bA EXCEPT !.Elems = [k \in DOMAIN @ |->
                    {Bit(i) : i \in {j \in 0 .. Len(text.bits) - 1 : Elem(j) = k /\ text.bits[j + 1]}}]]>>

\* CompactMarshal: null, or the number of bits and the bytes.
CompactMarshal(bA) == [size |-> Count(bA), Elems |-> IF Count(bA) = 0 THEN << >> ELSE bA.Elems]

\* CompactUnmarshal, or nothing when the length is wrong.
CompactUnmarshal(bz) ==
    IF bz.size = 0 THEN <<NewCompactBitArray(0)>>
    ELSE IF Len(bz.Elems) # (bz.size + 7) \div 8 THEN << >>
    ELSE <<[nil |-> FALSE, ExtraBitsStored |-> bz.size % 8, Elems |-> bz.Elems]>>

-----------------------------------------------------------------------------
(* AddSignature *)

\* Mutant: the new signature always goes to the end.
AddSignatureLast(m, sig, index) ==
    LET new == NumTrueBitsBefore(m.BitArray, index) + 1
    IN  IF GetIndex(m.BitArray, index) THEN [m EXCEPT !.Signatures[new] = sig]
        ELSE Multi(SetIndex(m.BitArray, index), Append(m.Signatures, sig))

\* Mutant: no room is made for the new signature.
AddSignatureOver(m, sig, index) ==
    LET new == NumTrueBitsBefore(m.BitArray, index) + 1
    IN  IF GetIndex(m.BitArray, index) THEN [m EXCEPT !.Signatures[new] = sig]
        ELSE Multi(SetIndex(m.BitArray, index),
                   IF new <= Len(m.Signatures) THEN ReplaceAt(m.Signatures, new, sig)
                   ELSE Append(m.Signatures, sig))

AddSignature(m, sig, index) ==
    LET newSigIndex == NumTrueBitsBefore(m.BitArray, index) + 1
    IN  IF GetIndex(m.BitArray, index) THEN [m EXCEPT !.Signatures[newSigIndex] = sig]
        ELSE Multi(SetIndex(m.BitArray, index), InsertAt(m.Signatures, newSigIndex, sig))

\* The first index of a key in the list, or -1.
getIndex(pk, keys) == LET at == {i \in DOMAIN keys : keys[i] = pk}
                      IN  IF at = {} THEN -1 ELSE (CHOOSE i \in at : \A j \in at : i <= j) - 1

-----------------------------------------------------------------------------
(* VerifyMultisignature *)

\* SignModeHandlerMap.GetSignBytes knows this mode only.
Supported == {"direct"}

\* The sizes that are checked before any signature is.
Enough(pk, sig) ==
    /\ Count(sig.BitArray) = Len(pk.PubKeys)
    /\ Len(sig.Signatures) \in pk.Threshold .. Count(sig.BitArray)
    /\ NumTrueBitsBefore(sig.BitArray, Count(sig.BitArray)) >= pk.Threshold

RECURSIVE VerifyMultisignature(_, _)

\* Mutant: a signature made over other bytes is taken.
VerifyAnyBytes(key, data) ==
    IF data.kind = "single"
    THEN IF data.SignMode \in Supported /\ data.by = key THEN "ok" ELSE "error"
    ELSE IF key.kind # "multi" THEN "error"
    ELSE VerifyMultisignature(key, data)

\* One round of the loop; LegacyAminoPubKey.VerifySignature panics.
VerifyOne(key, data) ==
    IF data.kind = "single"
    THEN IF data.SignMode \notin Supported THEN "error"
         ELSE IF key.kind = "multi" THEN "panic"
         ELSE IF data.by = key /\ data.valid THEN "ok" ELSE "error"
    ELSE IF key.kind # "multi" THEN "error"
    ELSE VerifyMultisignature(key, data)

VerifyMultisignature(pk, sig) ==
    LET set == {i \in 0 .. Count(sig.BitArray) - 1 : GetIndex(sig.BitArray, i)}
        res(i) == LET sigIndex == NumTrueBitsBefore(sig.BitArray, i) + 1
                  IN  IF sigIndex > Len(sig.Signatures) THEN "panic"
                      ELSE VerifyOne(pk.PubKeys[i + 1], sig.Signatures[sigIndex])
        bad == {i \in set : res(i) # "ok"}
    IN  IF ~ Enough(pk, sig) THEN "error"
        ELSE IF bad = {} THEN "ok"
        ELSE res(CHOOSE i \in bad : \A j \in bad : i <= j)

-----------------------------------------------------------------------------
(* The encoded forms.  MultiSignature.Marshal and Unmarshal keep the list   *)
(* (module Wire).                                                          *)

RECURSIVE SignatureDataToModeInfoAndSig(_), ModeInfoAndSigToSignatureData(_, _),
          SignatureDataToProto(_), SignatureDataFromProto(_)

SignatureDataToModeInfoAndSig(data) ==
    IF data.kind = "single"
    THEN [modeInfo |-> [sum |-> "Single", Mode |-> data.SignMode],
          sig |-> [by |-> data.by, valid |-> data.valid]]
    ELSE LET parts == [i \in DOMAIN data.Signatures |->
                            SignatureDataToModeInfoAndSig(data.Signatures[i])]
         IN  [modeInfo |-> [sum |-> "Multi", Bitarray |-> data.BitArray,
                            ModeInfos |-> [i \in DOMAIN parts |-> parts[i].modeInfo]],
              sig |-> [Signatures |-> [i \in DOMAIN parts |-> parts[i].sig]]]

ModeInfoAndSigToSignatureData(modeInfo, sig) ==
    IF modeInfo.sum = "Single" THEN Single(modeInfo.Mode, sig.by, sig.valid)
    ELSE Multi(modeInfo.Bitarray,
               [i \in DOMAIN sig.Signatures |->
                    ModeInfoAndSigToSignatureData(modeInfo.ModeInfos[i], sig.Signatures[i])])

SignatureDataToProto(data) ==
    IF data.kind = "single"
    THEN [sum |-> "Single", Mode |-> data.SignMode, Signature |-> [by |-> data.by, valid |-> data.valid]]
    ELSE [sum |-> "Multi", Bitarray |-> data.BitArray,
          Signatures |-> [j \in DOMAIN data.Signatures |-> SignatureDataToProto(data.Signatures[j])]]

SignatureDataFromProto(desc) ==
    IF desc.sum = "Single" THEN Single(desc.Mode, desc.Signature.by, desc.Signature.valid)
    ELSE Multi(desc.Bitarray,
               [j \in DOMAIN desc.Signatures |-> SignatureDataFromProto(desc.Signatures[j])])

-----------------------------------------------------------------------------
Init == /\ pubKey \in PubKeys
        /\ size \in NumBits
        /\ mSig = Multi(NewCompactBitArray(size), << >>)      \* NewMultisig
        /\ Sequence = 1
        /\ latest = [i \in 0 .. Len(pubKey.PubKeys) - 1 |-> << >>]
        /\ adds = 0 /\ checked = << >>

\* A signature of an unknown key is refused.
AddSignatureV2 ==
    /\ adds < MaxAdds
    /\ \E sig \in Given :
          LET index == getIndex(sig.PubKey, pubKey.PubKeys)
          IN  IF index = -1 THEN UNCHANGED <<mSig, latest>>
              ELSE /\ mSig' = AddSignature(mSig, sig.Data, index)
                   /\ latest' = [latest EXCEPT ![index] = <<sig.Data>>]
    /\ adds' = adds + 1 /\ checked' = << >>
    /\ UNCHANGED <<pubKey, Sequence, size>>

Verify == /\ checked = << >>
          /\ checked' = <<VerifyMultisignature(pubKey, mSig)>>
          /\ UNCHANGED <<pubKey, mSig, Sequence, size, latest, adds>>

\* SetSignatures of one client's builder, GetSignaturesV2 of the next one's.
PassTx == /\ LET raw == SignatureDataToModeInfoAndSig(mSig)
             IN  mSig' = ModeInfoAndSigToSignatureData(raw.modeInfo, raw.sig)
          /\ UNCHANGED <<pubKey, Sequence, size, latest, adds, checked>>

\* MarshalSignatureJSON, whose descriptor has no sequence, and UnmarshalSignatureJSON.
PassJSON == /\ mSig' = SignatureDataFromProto(SignatureDataToProto(mSig))
            /\ Sequence' = 0
            /\ UNCHANGED <<pubKey, size, latest, adds, checked>>

\* The bit array of a signature on file, in its own two text forms.
FileJSON == /\ LET back == UnmarshalJSON(MarshalJSON(mSig.BitArray))
               IN  IF back = << >> THEN checked' = <<"crash">> /\ mSig' = mSig
                   ELSE mSig' = [mSig EXCEPT !.BitArray = back[1]] /\ checked' = checked
            /\ UNCHANGED <<pubKey, Sequence, size, latest, adds>>

FileCompact == /\ LET back == CompactUnmarshal(CompactMarshal(mSig.BitArray))
                  IN  mSig' = [mSig EXCEPT !.BitArray = back[1]]
               /\ UNCHANGED <<pubKey, Sequence, size, latest, adds, checked>>

Next == AddSignatureV2 \/ Verify \/ PassTx \/ PassJSON \/ FileJSON \/ FileCompact

Spec == Init /\ [][Next]_vars

-----------------------------------------------------------------------------
(* Properties *)

Fits == size >= Len(pubKey.PubKeys)

Signed == {i \in DOMAIN latest : latest[i] # << >>}

\* However the signatures arrive, are replaced and are handed on, the list of
\* AddSignature holds the last one of every index that has its bit set, in the
\* order of the keys, as VerifyMultisignature reads them.
InOrder ==
    Fits => /\ Len(mSig.Signatures) = Cardinality(Signed)
            /\ \A i \in DOMAIN latest :
                  /\ GetIndex(mSig.BitArray, i) = (i \in Signed)
                  /\ i \in Signed => <<mSig.Signatures[Cardinality({j \in Signed : j <= i})]>> = latest[i]

\* A signature of a k-of-n key by itself, with no bit array: who has signed what.
RECURSIVE Authentic(_, _)
Authentic(key, data) ==
    IF data.kind = "single"
    THEN key.kind = "single" /\ data.by = key /\ data.valid /\ data.SignMode \in Supported
    ELSE /\ key.kind = "multi" /\ Count(data.BitArray) = Len(key.PubKeys)
         /\ Len(data.Signatures) <= Len(key.PubKeys)
         /\ LET signers == SelectSeq([i \in DOMAIN key.PubKeys |-> i],
                                     LAMBDA i : GetIndex(data.BitArray, i - 1))
            IN  /\ Len(signers) \in key.Threshold .. Len(data.Signatures)
                /\ \A n \in DOMAIN signers : Authentic(key.PubKeys[signers[n]], data.Signatures[n])

\* A signature that VerifyMultisignature has no answer for: a plain one of a k-of-n
\* key, or fewer signatures than bits, at any level.
RECURSIVE Misfit(_, _)
Misfit(key, data) ==
    /\ key.kind = "multi"
    /\ \/ data.kind = "single"
       \/ NumTrueBitsBefore(data.BitArray, Count(data.BitArray)) > Len(data.Signatures)
       \/ \E i \in DOMAIN key.PubKeys, n \in DOMAIN data.Signatures :
             Misfit(key.PubKeys[i], data.Signatures[n])

\* VerifyMultisignature accepts exactly when at least Threshold of the keys have
\* signed and the last signature of each is its own; an array made for another
\* number of keys is never accepted.  Inside a key, signatures that no bit stands for
\* are not looked at.
AcceptedIffSigned ==
    checked # << >> =>
        (checked[1] = "ok"
            <=> /\ size = Len(pubKey.PubKeys)
                /\ Cardinality(Signed) >= pubKey.Threshold
                /\ \A i \in Signed : Authentic(pubKey.PubKeys[i + 1], latest[i][1]))

\* The array and the list that AddSignature makes always agree, so that verification
\* reads no signature of them that is not there.  What a client offers as the signature
\* of a k-of-n key inside the key is not compared with its own bits: there, and on a
\* plain signature in its place, verification panics.
PanicOnlyOnMisfit ==
    checked = <<"panic">> => \E i \in Signed : Misfit(pubKey.PubKeys[i + 1], latest[i][1])
=============================================================================

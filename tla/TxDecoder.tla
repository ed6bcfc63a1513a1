------------------------------ MODULE TxDecoder ------------------------------
(***************************************************************************)
(* DefaultTxDecoder on the transaction of a peer that may be of a newer    *)
(* version: it adds fields that this version does not know, or changes the *)
(* type of one, at any level of the transaction.  codec/unknownproto looks *)
(* for such fields on the bytes before they are read.  The descriptors     *)
(* that the code unzips and caches list the same fields as the tables of   *)
(* Readers.                                                                *)
(***************************************************************************)
EXTENDS Wire

CONSTANTS TypeOf,      \* proto.MessageType, by the type URL of an Any
          Impls,       \* the type URLs that are registered for each interface
          Urls,        \* type URLs of the message that the transaction holds
          ContentUrl,  \* the type URL of the content, if it is a proposal
          Extra,       \* fields that the peer may add: [bytes, critical, retyped]
          MaxExtra     \* bound: how many, for each type URL

VARIABLES url,         \* the type URL of the message
          extra,       \* the fields added: [level, front, field]
          got          \* the results of the decoder, at most one

vars == <<url, extra, got>>

-----------------------------------------------------------------------------
(* RejectUnknownFields *)

AnyType == <<"any", "Any">>
bit11NonCritical == 1024

\* Repeated numbers may be packed, and the table checks does not ask whether the
\* field is repeated.
canEncodeType(wireType, f) == wireType = 2 \/ (wireType = 0 /\ f.kind \in NumberKinds)

\* The fields of the descriptor of t.
getDescriptorInfo(t) == Readers[t[1]][t[2]]

\* At most one type.
protoMessageForTypeName(name) == IF name \in DOMAIN TypeOf THEN <<TypeOf[name]>> ELSE << >>

IsCritical(num) == (num \div bit11NonCritical) % 2 = 0

Passed(seen) == [st |-> "ok", seen |-> seen]
Refused(seen) == [st |-> "error", seen |-> seen]
Panicked(seen) == [st |-> "panic", seen |-> seen]

\* Mutant: the result of a nested message replaces what was seen before it.
LatestSeen(r, seen) == r

\* The result of a child, in a message where a non-critical field was seen or not.
Seen(r, seen) == [r EXCEPT !.seen = @ \/ seen]

\* Mutant: what an Any holds is not entered.
RejectInAnyFlat(r, any, allow) == r

RECURSIVE RejectFrom(_, _, _, _, _), RejectInAny(_, _, _), AfterNested(_, _, _, _, _)

\* The bytes of an Any that passed its own check with r: its type is looked up and
\* its value is checked.
RejectInAny(r, any, allow) ==
    LET name == any.m.TypeUrl
        type == protoMessageForTypeName(name)
    IN  CASE r.st # "ok" -> r
          [] r.st = "ok" /\ any.st # "ok" -> [r EXCEPT !.st = any.st]
          [] r.st = "ok" /\ any.st = "ok" ->
                IF name = << >> THEN Panicked(r.seen)
                ELSE IF type = << >> THEN Refused(r.seen)
                ELSE Seen(RejectFrom(type[1], any.m.Value, 1, allow, FALSE), r.seen)

\* The loop goes on at i after a nested message with the result r, or ends with it.
AfterNested(t, d, i, allow, r) ==
    IF r.st # "ok" THEN r ELSE RejectFrom(t, d, i, allow, r.seen)

\* The loop of RejectUnknownFields on d from position i on.
RejectFrom(t, d, i, allow, seen) ==
    LET tag == Varint(d, i)
        num == FieldNum(tag.v)
        fs == getDescriptorInfo(t)
        known == {k \in DOMAIN fs : fs[k].num = num}
        f == fs[CHOOSE k \in known : TRUE]
        after == Skip(d, i, 0)
        length == Varint(d, tag.i)
        inside == SubSeq(d, length.i, after - 1)
        nested == known # {} /\ f.kind \in MessageKinds \cup {"std"}
        self == RejectFrom(f.of, inside, 1, allow, FALSE)
        child == Seen(IF f.of = AnyType
                      THEN RejectInAny(self, Unmarshal(AnyType, Empty(AnyType), inside), allow)
                      ELSE self, seen)
        seenHere == seen \/ (known = {} /\ ~ IsCritical(num))
    IN  IF i > Len(d) THEN Passed(seen)
        ELSE IF ~ tag.ok \/ num <= 0 THEN Refused(seen)
        ELSE IF known # {} /\ ~ canEncodeType(WireType(tag.v), f) THEN Refused(seen)
        ELSE IF known = {} /\ (IsCritical(num) \/ ~ allow) THEN Refused(seenHere)
        ELSE IF after = 0 \/ after - 1 > Len(d) THEN Panicked(seenHere)
        ELSE IF ~ nested THEN RejectFrom(t, d, after, allow, seenHere)
        ELSE AfterNested(t, d, after, allow, child)

RejectUnknownFields(t, d, allow) == RejectFrom(t, d, 1, allow, FALSE)
RejectUnknownFieldsStrict(t, d) == RejectUnknownFields(t, d, FALSE).st

-----------------------------------------------------------------------------
(* The bytes of the peer: TxRaw holds the body and the auth info; the body  *)
(* holds an Any, that a message, and that a coin, but for MsgBurnToken.     *)

Levels == {"raw", "auth", "body", "any", "msg", "coin"}

With(level, s) ==
    LET at(front) == SelectSeq(extra, LAMBDA e : e.level = level /\ e.front = front)
        bytes(es) == Concat([k \in DOMAIN es |-> es[k].field.bytes])
    IN  bytes(at(TRUE)) \o s \o bytes(at(FALSE))

Tagged(tag, s) == <<tag>> \o Sized(s)

Is(package, name) == protoMessageForTypeName(url) = << <<package, name>> >>

CoinBytes == With("coin", Marshal(<<"types", "Coin">>, [Denom |-> <<65>>, Amount |-> <<49>>]))
ContentBytes == Tagged(10, ContentUrl) \o Tagged(18, Tagged(10, <<84>>))
MsgBytes ==
    With("msg", CASE Is("gov", "MsgSubmitProposal") ->
                        Tagged(10, ContentBytes) \o Tagged(18, CoinBytes) \o Tagged(26, <<70>>)
                  [] Is("token", "MsgBurnToken") -> Tagged(10, <<65>>) \o <<16, 1>> \o Tagged(26, <<70>>)
                  [] Is("types", "Coin") -> CoinBytes
                  [] OTHER -> Tagged(10, <<70>>) \o Tagged(18, <<84>>) \o Tagged(26, CoinBytes))
AnyBytes == With("any", Tagged(10, url) \o Tagged(18, MsgBytes))
BodyBytes == With("body", Tagged(10, AnyBytes) \o Tagged(18, <<77>>))
AuthBytes == With("auth", Tagged(18, Marshal(<<"tx", "Fee">>,
                    [Empty(<<"tx", "Fee">>) EXCEPT !.GasLimit = <<9>>])))
RawBytes == With("raw", Tagged(10, BodyBytes) \o Tagged(18, AuthBytes) \o Tagged(26, <<83>>))

-----------------------------------------------------------------------------
(* The decoder *)

Failed == [st |-> "error", body |-> << >>, auth |-> << >>, bodyBz |-> << >>, unknown |-> FALSE]

Read(t, d) == Unmarshal(t, Empty(t), d)

\* The fields that UnpackInterfaces of a type unpacks, and as what.
Held(t) == CASE t = <<"tx", "TxBody">> -> [Messages |-> "Msg"]
             [] t = <<"gov", "MsgSubmitProposal">> -> [Content |-> "Content"]
             [] t = <<"staking", "MsgCreateValidator">> -> [Pubkey |-> "PubKey"]
             [] t = <<"multisig", "LegacyAminoPubKey">> -> [PubKeys |-> "PubKey"]
             [] OTHER -> << >>

\* Whether they can be unpacked: each is of a type that is registered for the
\* interface, can be read, and holds nothing that cannot be unpacked.
RECURSIVE UnpackInterfaces(_, _), UnpackAny(_, _), Unpacks(_, _)
Unpacks(t, r) == r.st = "ok" /\ UnpackInterfaces(t, r.m)

UnpackInterfaces(t, m) ==
    \A n \in DOMAIN Held(t) : \A k \in DOMAIN m[n] : UnpackAny(m[n][k], Held(t)[n])

UnpackAny(any, iface) ==
    any.TypeUrl # << >> =>
        /\ any.TypeUrl \in Impls[iface]
        /\ Unpacks(TypeOf[any.TypeUrl], Read(TypeOf[any.TypeUrl], any.Value))

\* Mutant: the interfaces are not unpacked.
UnmarshalledOnly(t, r) == r

\* What UnmarshalBinaryBare makes of the result of Unmarshal.
Unmarshalled(t, r) == IF r.st = "ok" /\ ~ Unpacks(t, r) THEN Error(r.m) ELSE r

UnmarshalBinaryBare(t, d) == Unmarshalled(t, Read(t, d))

\* Mutant: the body is marshalled again.
AcceptedAgain(raw, check, body, auth) ==
    [st |-> "ok", body |-> body.m, auth |-> auth.m,
     bodyBz |-> Marshal(<<"tx", "TxBody">>, body.m), unknown |-> check.seen]

\* The wrapper that the decoder returns.
Accepted(raw, check, body, auth) ==
    [st |-> "ok", body |-> body.m, auth |-> auth.m, bodyBz |-> raw.m.BodyBytes,
     unknown |-> check.seen]

\* The checks and reads in their order; the first that fails ends the decoder.
Checked(strict, raw, check, body, auth) ==
    IF strict # "ok" THEN [Failed EXCEPT !.st = strict]
    ELSE IF raw.st # "ok" THEN Failed
    ELSE IF check.st # "ok" THEN [Failed EXCEPT !.st = check.st]
    ELSE IF body.st # "ok" \/ auth.st # "ok" THEN Failed
    ELSE Accepted(raw, check, body, auth)

DecodeRaw(strict, raw) ==
    Checked(strict, raw,
            RejectUnknownFields(<<"tx", "TxBody">>, raw.m.BodyBytes, TRUE),
            UnmarshalBinaryBare(<<"tx", "TxBody">>, raw.m.BodyBytes),
            UnmarshalBinaryBare(<<"tx", "AuthInfo">>, raw.m.AuthInfoBytes))

DefaultTxDecoder(txBytes) ==
    DecodeRaw(RejectUnknownFieldsStrict(<<"tx", "TxRaw">>, txBytes),
              UnmarshalBinaryBare(<<"tx", "TxRaw">>, txBytes))

-----------------------------------------------------------------------------
Init == url \in Urls /\ extra = << >> /\ got = << >>

AddExtra == /\ got = << >> /\ Len(extra) < MaxExtra[url]
            /\ \E level \in Levels, front \in BOOLEAN, field \in Extra :
                  extra' = Append(extra, [level |-> level, front |-> front, field |-> field])
            /\ UNCHANGED <<url, got>>

Decode == /\ got = << >>
          /\ got' = <<DefaultTxDecoder(RawBytes)>>
          /\ UNCHANGED <<url, extra>>

Next == AddExtra \/ Decode

Spec == Init /\ [][Next]_vars

-----------------------------------------------------------------------------
(* Properties *)

\* Levels that RejectUnknownFields enters from the body.
InBody == {"body", "any", "msg", "coin"}

\* The types of message that the modules register, all that is in them included:
\* nothing is registered for the content of a proposal.
Readable == url \in Impls["Msg"] /\ ~ Is("gov", "MsgSubmitProposal")

MustRefuse ==
    \/ ~ Readable
    \/ \E k \in DOMAIN extra :
          \/ extra[k].field.retyped
          \/ extra[k].level = "raw"
          \/ extra[k].level \in InBody /\ extra[k].field.critical

\* The decoder refuses, with an error, the transactions with an unknown field in
\* TxRaw, a critical one in the body however deep, inside an Any included, a field
\* of another wire type, or a message that is not of a registered type or is a
\* proposal, also when its type is known to protobuf; it accepts the others.
RefusedIffUnknown ==
    got # << >> => got[1].st = IF MustRefuse THEN "error" ELSE "ok"

\* txBodyHasUnknownNonCriticals is set exactly if the accepted body has a
\* non-critical field that this version does not know, at any level.
UnknownSeen ==
    got # << >> /\ got[1].st = "ok" =>
        (got[1].unknown <=> \E k \in DOMAIN extra : extra[k].level \in InBody)

\* What an accepted transaction says is what the peer wrote: the fields around the
\* unknown ones are read, and the bytes of the body are kept for the signature.
DecodedIsSent ==
    got # << >> /\ got[1].st = "ok" =>
        /\ got[1].bodyBz = BodyBytes
        /\ got[1].body.Memo = <<77>>
        /\ got[1].auth.Fee[1].GasLimit = <<9>>
        /\ Len(got[1].body.Messages) = 1
        /\ got[1].body.Messages[1].TypeUrl = url
        /\ LET msg == Read(TypeOf[url], got[1].body.Messages[1].Value).m
           IN  msg.ToAddress = <<84>> /\ msg.Amount = <<[Denom |-> <<65>>, Amount |-> <<49>>]>>
=============================================================================

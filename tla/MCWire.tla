-------------------------------- MODULE MCWire --------------------------------
(***************************************************************************)
(* The wire channel and the decoder of transactions, which share the       *)
(* tables of the messages and no state.  A behaviour is one of the two.    *)
(***************************************************************************)
EXTENDS WireChannel

CONSTANTS TypeOf, Impls, Urls, ContentUrl, Extra, MaxExtra      \* of TxDecoder

VARIABLES part,           \* the component that moves
          url, extra, decoded

Decoder == INSTANCE TxDecoder WITH got <- decoded

AllReaders == LET messages == INSTANCE Messages IN messages!AllReaders
AllWriters == LET messages == INSTANCE Messages IN messages!AllWriters
EveryType == LET messages == INSTANCE Messages IN messages!AllTypes

\* Types that have, together, a field of every kind.
OfEveryKind == {<<"tx", "SignerInfo">>, <<"tx", "Fee">>, <<"tx", "Tx">>, <<"any", "Any">>,
                <<"staking", "Commission">>, <<"staking", "MsgEditValidator">>,
                <<"staking", "Params">>, <<"bank", "Params">>, <<"gov", "Vote">>,
                <<"auth", "ModuleAccount">>, <<"query", "PageRequest">>,
                <<"tx", "ModeInfo">>, <<"coinswap", "PoolBatch">>}

\* Field 1000 as a number, 64 bits, bytes, a group with a nested group, 32 bits.
Unknown == {<<192, 62, 5>>, <<193, 62, 1, 2, 3, 4, 5, 6, 7, 8>>, <<194, 62, 2, 8, 1>>,
            <<195, 62, 11, 8, 1, 12, 196, 62>>, <<197, 62, 1, 2, 3, 4>>}

\* A message that can be read; a proposal, with its content; a message that no module
\* registers; what is no message at all; and a type that protobuf does not know.
SendUrl == <<47, 83>>
SubmitUrl == <<47, 80>>
TextUrl == <<47, 84>>
BurnUrl == <<47, 66>>
CoinUrl == <<47, 67>>
UnknownUrl == <<47, 78>>
Known == [u \in {SendUrl, SubmitUrl, TextUrl, BurnUrl, CoinUrl} |->
            CASE u = SendUrl -> <<"bank", "MsgSend">>
              [] u = SubmitUrl -> <<"gov", "MsgSubmitProposal">>
              [] u = TextUrl -> <<"gov", "TextProposal">>
              [] u = BurnUrl -> <<"token", "MsgBurnToken">>
              [] u = CoinUrl -> <<"types", "Coin">>]
Registered == [Msg |-> {SendUrl, SubmitUrl}, Content |-> {}]
SomeUrls == {SendUrl, SubmitUrl, BurnUrl, CoinUrl, UnknownUrl}
TwoOrOne == [u \in SomeUrls |-> IF u = SendUrl THEN 2 ELSE 1]

Added(bytes, critical) == [bytes |-> bytes, critical |-> critical, retyped |-> FALSE]

\* Field 1022 as a number, 1024 as bytes, 2046 as a group, 2048 as 32 bits: the ends
\* of the range of non-critical numbers, beside the extension options 1023 and 2047.
\* Field 2, which is length-delimited at every level, comes as a number.
Newer == {Added(<<240, 63, 5>>, TRUE), Added(<<130, 64, 2, 8, 1>>, FALSE),
          Added(<<243, 127, 8, 1, 244, 127>>, FALSE), Added(<<133, 128, 1, 1, 2, 3, 4>>, TRUE),
          [bytes |-> <<16, 5>>, critical |-> FALSE, retyped |-> TRUE]}

-----------------------------------------------------------------------------
MCInit == /\ part \in {"channel", "decoder"}
          /\ Init /\ (part # "channel" => type = <<"any", "Any">>)
          /\ Decoder!Init /\ (part # "decoder" => url = SendUrl)

MCNext == \/ part = "channel" /\ Next /\ UNCHANGED <<part, url, extra, decoded>>
          \/ part = "decoder" /\ Decoder!Next /\ UNCHANGED <<part, vars>>

MCSpec == MCInit /\ [][MCNext]_<<part, vars, url, extra, decoded>>

\* DefaultTxDecoder refuses what a newer peer added exactly where it has to, reports
\* the non-critical fields of the body that it does not know, and what it accepts
\* says what the peer wrote.
DecoderStrict == Decoder!RefusedIffUnknown /\ Decoder!UnknownSeen /\ Decoder!DecodedIsSent
=============================================================================

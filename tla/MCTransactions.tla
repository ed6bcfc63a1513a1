--------------------------- MODULE MCTransactions ---------------------------
(***************************************************************************)
(* What becomes of a transaction, part by part: MultiSend cuts it up, the  *)
(* builder makes it, signatures are collected, its types are registered    *)
(* and read back.  The parts share no state; Init chooses the one that     *)
(* moves.                                                                  *)
(***************************************************************************)
EXTENDS MultiSend, TxBuilder

VARIABLES part,
          pubKey, mSig, Sequence, size, latest, adds, checked,
          registry, any, calls, out,
          clientRegistry, moduleManager, tx, decoded, account

\* Requests of up to 15 receipts, with at most one, number b, that is not good.
SomeRequests == {[i \in 1 .. n |-> [id |-> i, kind |-> IF i = b THEN k ELSE "good"]] :
                    n \in 0 .. 15, b \in 1 .. 15, k \in Kinds}

multisigVars == <<pubKey, mSig, Sequence, size, latest, adds, checked>>
registryVars == <<registry, any, calls, out>>
clientVars == <<clientRegistry, moduleManager, tx, decoded, account>>

-----------------------------------------------------------------------------
(* Keys and signatures *)

\* For its operators on signatures and bit arrays.
Bits == INSTANCE Multisig WITH PubKeys <- {}, NumBits <- {}, Given <- {}, MaxAdds <- 0

Key(name) == [kind |-> "single", name |-> name]
KofN(k, keys) == [kind |-> "multi", Threshold |-> k, PubKeys |-> keys]

\* A key inside a key.
Inner == KofN(1, <<Key("x"), Key("y")>>)

\* Two of three with a key inside, one that lists a key twice, one of one.
SmallKeys == {KofN(2, <<Key("a"), Inner, Key("b")>>), KofN(2, <<Key("a"), Key("a"), Key("b")>>),
              KofN(1, <<Inner>>)}

\* Signatures of the inner key, under the bits of some of its keys.
InnerData(bits, by) ==
    Bits!Multi([Bits!NewCompactBitArray(2) EXCEPT !.Elems = <<{Bits!Bit(i) : i \in bits}>>],
               [i \in DOMAIN by |-> Bits!Single("direct", Key(by[i]), TRUE)])

\* Signed by y; the signature of x under the bit of y; and bits that do not agree with
\* the signatures, one too many and one too few: no conversion compares them.
InnerDatas == {InnerData({1}, <<"y">>), InnerData({1}, <<"x">>),
               InnerData({0, 1}, <<"x">>), InnerData({1}, <<"y", "x">>)}

SmallGiven == {[PubKey |-> Key(n), Data |-> Bits!Single(mode, Key(n), valid)] :
                    n \in {"a", "b"}, mode \in {"direct"}, valid \in BOOLEAN}
              \cup {[PubKey |-> Key("c"), Data |-> Bits!Single("direct", Key("c"), TRUE)],
                    [PubKey |-> Key("a"), Data |-> Bits!Single("amino", Key("a"), TRUE)],
                    [PubKey |-> Key("a"), Data |-> InnerData({1}, <<"y">>)],
                    [PubKey |-> Inner, Data |-> Bits!Single("direct", Inner, TRUE)]}
              \cup {[PubKey |-> Inner, Data |-> d] : d \in InnerDatas}

\* Seven, eight and nine keys: the edges of a byte.
Signers == <<"1", "2", "3", "4", "5", "6", "7", "8", "9">>
WideKeys == {KofN(n - 1, [i \in 1 .. n |-> Key(Signers[i])]) : n \in 7 .. 9}
WideGiven == {[PubKey |-> Key(Signers[i]), Data |-> Bits!Single("direct", Key(Signers[i]), TRUE)] : i \in 1 .. 9}

Small == INSTANCE Multisig WITH
    PubKeys <- SmallKeys, NumBits <- {0, 2, 3}, Given <- SmallGiven, MaxAdds <- 4

Wide == INSTANCE Multisig WITH
    PubKeys <- WideKeys, NumBits <- {8, 9}, Given <- WideGiven, MaxAdds <- 9

-----------------------------------------------------------------------------
(* Two messages, the second with a key inside, and two keys *)

SomeImplements == {<<"A", "Msg">>, <<"B", "Msg">>, <<"K", "PubKey">>, <<"L", "PubKey">>, <<"A", "PubKey">>}
SomeNames == [t \in {"A", "B", "K", "L"} |-> "/" \o t]
SomeHolds == [t \in {"A", "B", "K", "L"} |-> IF t = "B" THEN <<"PubKey">> ELSE << >>]

R == INSTANCE Registry WITH Implements <- SomeImplements, MessageName <- SomeNames, Holds <- SomeHolds

SomeValues == {R!Value("A", << >>), R!Value("B", <<R!NewAnyWithValue(R!Value("K", << >>))>>),
               R!Value("B", <<R!NewAnyWithValue(R!Value("L", << >>))>>), R!Value("K", << >>)}

Registrations == INSTANCE RegistryUse WITH
    Implements <- SomeImplements, MessageName <- SomeNames, Holds <- SomeHolds,
    Interfaces <- {"Msg", "PubKey"}, Urls <- {"/A", "/K"},
    ImplLists <- {<<"A", "B">>, <<"K">>, <<"A", "K">>}, Values <- SomeValues, MaxCalls <- 4

Clients == INSTANCE ClientTypes WITH registry <- clientRegistry, MaxMsgs <- 2

-----------------------------------------------------------------------------
MCInit ==
    /\ part \in {"multisend", "builder", "small", "wide", "registry", "client"}
    /\ SendInit /\ (part # "multisend" => receipts = << >> /\ cached)
    /\ Init /\ Registrations!Init /\ Clients!Init
    /\ IF part = "wide" THEN Wide!Init ELSE Small!Init
    /\ part \notin {"small", "wide"} => size = 0 /\ Len(pubKey.PubKeys) = 1

MCNext ==
    /\ UNCHANGED part
    /\ \/ part = "multisend" /\ SendNext /\ UNCHANGED <<vars, multisigVars, registryVars, clientVars>>
       \/ part = "builder" /\ Next /\ UNCHANGED <<sendVars, multisigVars, registryVars, clientVars>>
       \/ part = "small" /\ Small!Next /\ UNCHANGED <<sendVars, vars, registryVars, clientVars>>
       \/ part = "wide" /\ Wide!Next /\ UNCHANGED <<sendVars, vars, registryVars, clientVars>>
       \/ part = "registry" /\ Registrations!Next /\ UNCHANGED <<sendVars, vars, multisigVars, clientVars>>
       \/ part = "client" /\ Clients!Next /\ UNCHANGED <<sendVars, vars, multisigVars, registryVars>>

mcVars == <<part, sendVars, vars, multisigVars, registryVars, clientVars>>

MCSpec == MCInit /\ [][MCNext]_mcVars

\* AddSignature keeps the signatures in the order of the keys.
InOrder == Small!InOrder

\* VerifyMultisignature accepts exactly what enough of the keys have signed, and
\* panics only on a signature of a k-of-n key inside the key that is a plain one or
\* has fewer signatures than bits.
VerifiedIffSigned == Small!AcceptedIffSigned /\ Small!PanicOnlyOnMisfit

\* UnpackAny of what was received gives a registered type, unpacked all through.
ReceivedIsUnpacked == Registrations!ReceivedIsUnpacked

\* registerImpl never changes the type behind a URL for an interface.
TypesFixed == [][Registrations!TypeKept]_mcVars

\* QueryTx reads back every transaction of the client but those with a proposal, and
\* QueryAccount answers an empty account only for a key of an unknown type, or with
\* such a key inside.
UnreadOnlyIfForeign == Clients!ProposalsAloneUnread /\ Clients!EmptyOnlyIfForeignKey
=============================================================================

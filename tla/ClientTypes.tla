----------------------------- MODULE ClientTypes -----------------------------
(***************************************************************************)
(* The types that NewPLUGCHAINClient registers, module by module, and what *)
(* the client later reads with them: transactions (QueryTx), accounts      *)
(* (QueryAccount).  A Go type is named package.Type.                       *)
(***************************************************************************)
EXTENDS Integers, Sequences, SequencesExt

CONSTANTS MaxMsgs      \* bound: messages of a transaction

VARIABLES registry,
          moduleManager,   \* the names of the modules registered
          tx,              \* a transaction on the chain: the values of its messages
          decoded,         \* what QueryTx returned for it, at most one result
          account          \* what QueryAccount returned, at most one result

vars == <<registry, moduleManager, tx, decoded, account>>

-----------------------------------------------------------------------------
(* Go types, their interfaces and what UnpackInterfaces of each unpacks *)

KeyTypes == {"ed25519.PubKey", "secp256k1.PubKey", "multisig.LegacyAminoPubKey"}

\* The messages that the methods of the clients send.
SentTypes == {"bank.MsgSend", "bank.MsgMultiSend", "token.MsgIssueToken", "token.MsgEditToken",
              "token.MsgMintToken", "token.MsgTransferOwnerToken", "staking.MsgCreateValidator",
              "staking.MsgEditValidator", "staking.MsgDelegate", "staking.MsgUndelegate",
              "staking.MsgBeginRedelegate", "gov.MsgSubmitProposal", "gov.MsgDeposit", "gov.MsgVote",
              "nft.MsgIssueClass", "nft.MsgIssueNFT", "nft.MsgEditNFT", "nft.MsgTransferNFT",
              "nft.MsgBurnNFT", "nft.MsgTransferClass", "coinswap.MsgCreatePool",
              "coinswap.MsgDepositWithinBatch", "coinswap.MsgSwapWithinBatch",
              "coinswap.MsgWithdrawWithinBatch"}

GoTypes == SentTypes \cup KeyTypes \cup {"tx.Tx", "auth.BaseAccount", "token.Token", "gov.TextProposal",
                                     "ethsecp256k1.PubKey"}

GoImplements ==
    (SentTypes \X {"Msg"}) \cup (KeyTypes \X {"tmcrypto.PubKey", "cryptotypes.PubKey"})
        \cup {<<"tx.Tx", "Tx">>, <<"auth.BaseAccount", "Account">>, <<"token.Token", "TokenInterface">>,
              <<"gov.TextProposal", "Content">>}

UnpackInterfaces ==
    [t \in GoTypes |-> CASE t = "staking.MsgCreateValidator" -> <<"cryptotypes.PubKey">>
                         [] t = "gov.MsgSubmitProposal" -> <<"Content">>
                         [] t = "multisig.LegacyAminoPubKey" -> <<"cryptotypes.PubKey", "cryptotypes.PubKey">>
                         [] OTHER -> << >>]

INSTANCE Registry WITH Implements <- GoImplements, MessageName <- [t \in GoTypes |-> "/" \o t],
                       Holds <- UnpackInterfaces

-----------------------------------------------------------------------------
Call(iface, impls) == [iface |-> iface, impls |-> impls]

BaseInterfaces ==
    <<Call("Msg", << >>), Call("Tx", <<"tx.Tx">>)>>

\* Mutant: the k-of-n key is registered for one of the two interfaces only.
CryptoInterfacesOnce ==
    <<Call("tmcrypto.PubKey", <<"ed25519.PubKey", "secp256k1.PubKey">>),
      Call("cryptotypes.PubKey", <<"ed25519.PubKey", "secp256k1.PubKey", "multisig.LegacyAminoPubKey">>)>>

CryptoInterfaces ==
    <<Call("tmcrypto.PubKey", <<"ed25519.PubKey", "secp256k1.PubKey", "multisig.LegacyAminoPubKey">>),
      Call("cryptotypes.PubKey", <<"ed25519.PubKey", "secp256k1.PubKey", "multisig.LegacyAminoPubKey">>)>>
BankInterfaces ==
    <<Call("Msg", <<"bank.MsgSend", "bank.MsgMultiSend">>), Call("Account", <<"auth.BaseAccount">>)>>
TokenInterfaces ==
    <<Call("Msg", <<"token.MsgIssueToken", "token.MsgEditToken", "token.MsgMintToken",
                    "token.MsgTransferOwnerToken">>),
      Call("TokenInterface", <<"token.Token">>)>>
StakingInterfaces ==
    <<Call("Msg", <<"staking.MsgCreateValidator", "staking.MsgEditValidator", "staking.MsgDelegate",
                    "staking.MsgUndelegate", "staking.MsgBeginRedelegate">>)>>
GovInterfaces ==
    <<Call("Msg", <<"gov.MsgSubmitProposal", "gov.MsgDeposit", "gov.MsgVote">>)>>

\* Mutant: a message is forgotten.
NftInterfacesShort ==
    <<Call("Msg", <<"nft.MsgIssueClass", "nft.MsgIssueNFT", "nft.MsgEditNFT", "nft.MsgTransferNFT",
                    "nft.MsgBurnNFT">>)>>

NftInterfaces ==
    <<Call("Msg", <<"nft.MsgIssueClass", "nft.MsgIssueNFT", "nft.MsgEditNFT", "nft.MsgTransferNFT",
                    "nft.MsgBurnNFT", "nft.MsgTransferClass">>)>>
CoinswapInterfaces ==
    <<Call("Msg", <<"coinswap.MsgCreatePool", "coinswap.MsgDepositWithinBatch",
                    "coinswap.MsgSwapWithinBatch", "coinswap.MsgWithdrawWithinBatch">>)>>

\* The order of RegisterModule's arguments.
Modules == <<"bank", "token", "staking", "gov", "nft", "coinswap">>
InterfacesOf == [bank |-> BankInterfaces, token |-> TokenInterfaces, staking |-> StakingInterfaces,
                 gov |-> GovInterfaces, nft |-> NftInterfaces, coinswap |-> CoinswapInterfaces]

RegisterCalls(r, calls) ==
    FoldLeft(LAMBDA acc, c : IF acc.st = "panic" THEN acc
                             ELSE RegisterImplementations(acc.r, c.iface, c.impls),
             Registered(r), calls)

-----------------------------------------------------------------------------
(* What the client sends and reads *)

\* A plain key, and a k-of-n key, here of at most two keys.
Plain(k) == Value(k, << >>)
KofNKey(keys) == Value("multisig.LegacyAminoPubKey", [i \in DOMAIN keys |-> NewAnyWithValue(keys[i])])

KeyValue(k) == IF k = "multisig.LegacyAminoPubKey" THEN KofNKey(<<Plain("secp256k1.PubKey")>>) ELSE Plain(k)

\* The keys of accounts on the chain, which has a type of key that the client does
\* not register: plain, as a member of a k-of-n key, or inside a member.
AccountKeys ==
    LET plain == {Plain(k) : k \in {"secp256k1.PubKey", "ed25519.PubKey", "ethsecp256k1.PubKey"}}
        flat == {KofNKey(<<a, b>>) : a \in plain, b \in plain}
    IN  plain \cup flat \cup {KofNKey(<<a, k>>) : a \in plain, k \in flat}

SentValues ==
    {Value(t, << >>) : t \in {s \in SentTypes : UnpackInterfaces[s] = << >>}}
        \cup {Value("staking.MsgCreateValidator", <<NewAnyWithValue(KeyValue(k))>>) : k \in KeyTypes}
        \cup {Value("gov.MsgSubmitProposal", <<NewAnyWithValue(Value("gov.TextProposal", << >>))>>)}

\* TxBody.UnpackInterfaces after the body was read: the messages one by one.
Unpacked(r, values) == [k \in DOMAIN values |-> UnpackAny(r, Received(values[k]), "Msg")]

Init == /\ registry = RegisterCalls(NewInterfaceRegistry, BaseInterfaces \o CryptoInterfaces).r
        /\ moduleManager = << >>
        /\ tx = << >> /\ decoded = << >> /\ account = << >>

\* One round of the loop in RegisterModule.
RegisterModule ==
    /\ Len(moduleManager) < Len(Modules)
    /\ LET name == Modules[Len(moduleManager) + 1]
           res == RegisterCalls(registry, InterfacesOf[name])
       IN  /\ name \notin Range(moduleManager) /\ res.st = "ok"
           /\ registry' = res.r
           /\ moduleManager' = Append(moduleManager, name)
    /\ UNCHANGED <<tx, decoded, account>>

Ready == Len(moduleManager) = Len(Modules)

\* Another message of a transaction that is built.
AddMsg == /\ Ready /\ decoded = << >> /\ account = << >> /\ Len(tx) < MaxMsgs
          /\ \E v \in SentValues : tx' = Append(tx, v)
          /\ UNCHANGED <<registry, moduleManager, decoded, account>>

\* QueryTx on it, after the chain has executed it.
QueryTx == /\ tx # << >> /\ decoded = << >>
           /\ LET res == Unpacked(registry, tx)
              IN  decoded' = <<IF \E k \in DOMAIN res : res[k].st # "ok" THEN [st |-> "error", msgs |-> << >>]
                               ELSE [st |-> "ok", msgs |-> [k \in DOMAIN res |-> res[k].any]]>>
           /\ UNCHANGED <<registry, moduleManager, tx, account>>

\* ConvertAccount: an account whose key cannot be read is replaced by an empty one.
ConvertAccount(r, key) ==
    IF key = << >> THEN "account"
    ELSE IF UnpackAny(r, Received(key[1]), "tmcrypto.PubKey").st = "ok" THEN "account" ELSE "empty"

\* QueryAccount of an account without a key, or with one.
QueryAccount ==
    /\ Ready /\ tx = << >> /\ account = << >>
    /\ \E key \in {<< >>} \cup {<<k>> : k \in AccountKeys} :
          account' = <<[key |-> key, is |-> ConvertAccount(registry, key)]>>
    /\ UNCHANGED <<registry, moduleManager, tx, decoded>>

Next == RegisterModule \/ AddMsg \/ QueryTx \/ QueryAccount

Spec == Init /\ [][Next]_vars

-----------------------------------------------------------------------------
(* Properties *)

RECURSIVE SameTypes(_, _)
SameTypes(v, any) ==
    /\ any.cachedValue # << >> /\ any.cachedValue[1].type = v.type
    /\ \A k \in DOMAIN v.anys : SameTypes(v.anys[k].bytes, any.cachedValue[1].anys[k])

\* The modules register, between them, everything that QueryTx needs for the
\* transactions the client itself can send, but the content of a proposal: the
\* messages come back with their types, unpacked to the last key.
ProposalsAloneUnread ==
    decoded # << >> =>
        IF \E k \in DOMAIN tx : tx[k].type = "gov.MsgSubmitProposal" THEN decoded[1].st = "error"
        ELSE /\ decoded[1].st = "ok"
             /\ \A k \in DOMAIN tx : SameTypes(tx[k], decoded[1].msgs[k])

\* A key that nobody registered the type of, or that has such a key inside.
RECURSIVE ForeignKey(_)
ForeignKey(k) == k.type \notin KeyTypes \/ \E i \in DOMAIN k.anys : ForeignKey(k.anys[i].bytes)

\* QueryAccount answers an empty account with a nil error, whose sequence 0 is then
\* used to sign, only when the key of the account, or for a k-of-n key any key inside
\* it, has a type nobody registered; the account is empty then even if the other
\* keys are known.
EmptyOnlyIfForeignKey ==
    account # << >> => (account[1].is = "empty" <=> account[1].key # << >> /\ ForeignKey(account[1].key[1]))
=============================================================================

---------------------------- MODULE CoreMessages ----------------------------
(***************************************************************************)
(* The generated messages of the client: for each, the fields that its     *)
(* Unmarshal reads and the fields that its MarshalToSizedBuffer writes, in *)
(* the order of their bytes.                                               *)
(*                                                                         *)
(* A field that is read has its number and the way its bytes become a      *)
(* value; one that is written has the bytes of its tag and the condition   *)
(* under which it is written.  A nested message is named by its package    *)
(* and its type.  A name that two packages share has the package in front. *)
(***************************************************************************)

Plain(n, f, k) == [num |-> n, name |-> f, kind |-> k]
Nested(n, f, k, of) == [num |-> n, name |-> f, kind |-> k, of |-> of]

Text(n, f) == Plain(n, f, "string")
Bytes(n, f) == Plain(n, f, "bytes")
List(n, f) == Plain(n, f, "list")                     \* of texts or of bytes
Number(n, f, type) == Plain(n, f, type)
Flag(n, f) == Plain(n, f, "bool")
Amount(n, f) == Plain(n, f, "int")                    \* an Int
AmountPointer(n, f) == Plain(n, f, "intPointer")
Decimal(n, f) == Plain(n, f, "dec")                   \* a Dec
DecimalPointer(n, f) == Plain(n, f, "decPointer")
Message(n, f, of) == Nested(n, f, "message", of)      \* held by value
Pointer(n, f, of) == Nested(n, f, "pointer", of)
Messages(n, f, of) == Nested(n, f, "messages", of)
Std(n, f, of) == Nested(n, f, "std", of)              \* time.Time, time.Duration
OneOf(n, f, case, of) == [num |-> n, name |-> f, kind |-> "oneof", case |-> case, of |-> of]
Unrecognized == Plain(0, "XXX_unrecognized", "unrecognized")

Put(tag, f, how) == [tag |-> tag, name |-> f, how |-> how]
PutMessage(tag, f, how, of) == [tag |-> tag, name |-> f, how |-> how, of |-> of]
PutOneOf(f, package) == [tag |-> << >>, name |-> f, how |-> "oneof", package |-> package]
PutUnrecognized == [tag |-> << >>, name |-> "XXX_unrecognized", how |-> "unrecognized"]

\* Messages of libraries, with the fields that the client uses.
Timestamp_Unmarshal == <<Number(1, "Seconds", "int64"), Number(2, "Nanos", "int32")>>
Timestamp_Marshal == <<Put(<<8>>, "Seconds", "nonzero"), Put(<<16>>, "Nanos", "nonzero")>>
Event_Unmarshal == <<Text(1, "Type")>>
Event_Marshal == <<Put(<<10>>, "Type", "nonempty")>>
Header_Unmarshal == <<Text(2, "ChainID")>>
Header_Marshal == <<Put(<<18>>, "ChainID", "nonempty")>>

-----------------------------------------------------------------------------
(* types                                                                   *)

TxResponse_Unmarshal ==
    <<Number(1, "Height", "int64"), Text(2, "TxHash"), Text(3, "Codespace"),
      Number(4, "Code", "uint32"), Text(5, "Data"), Text(6, "RawLog"),
      Messages(7, "Logs", <<"types", "ABCIMessageLog">>), Text(8, "Info"),
      Number(9, "GasWanted", "int64"), Number(10, "GasUsed", "int64"),
      Pointer(11, "Tx", <<"any", "Any">>), Text(12, "Timestamp")>>
TxResponse_Marshal ==
    <<Put(<<8>>, "Height", "nonzero"), Put(<<18>>, "TxHash", "nonempty"),
      Put(<<26>>, "Codespace", "nonempty"), Put(<<32>>, "Code", "nonzero"),
      Put(<<42>>, "Data", "nonempty"), Put(<<50>>, "RawLog", "nonempty"),
      PutMessage(<<58>>, "Logs", "messages", <<"types", "ABCIMessageLog">>),
      Put(<<66>>, "Info", "nonempty"), Put(<<72>>, "GasWanted", "nonzero"),
      Put(<<80>>, "GasUsed", "nonzero"), PutMessage(<<90>>, "Tx", "pointer", <<"any", "Any">>),
      Put(<<98>>, "Timestamp", "nonempty")>>

ABCIMessageLog_Unmarshal ==
    <<Number(1, "MsgIndex", "uint32"), Text(2, "Log"),
      Messages(3, "Events", <<"types", "StringEvent">>)>>
ABCIMessageLog_Marshal ==
    <<Put(<<8>>, "MsgIndex", "nonzero"), Put(<<18>>, "Log", "nonempty"),
      PutMessage(<<26>>, "Events", "messages", <<"types", "StringEvent">>)>>

StringEvent_Unmarshal ==
    <<Text(1, "Type"), Messages(2, "Attributes", <<"types", "Attribute">>)>>
StringEvent_Marshal ==
    <<Put(<<10>>, "Type", "nonempty"),
      PutMessage(<<18>>, "Attributes", "messages", <<"types", "Attribute">>)>>

Attribute_Unmarshal == <<Text(1, "Key"), Text(2, "Value")>>
Attribute_Marshal == <<Put(<<10>>, "Key", "nonempty"), Put(<<18>>, "Value", "nonempty")>>

GasInfo_Unmarshal == <<Number(1, "GasWanted", "uint64"), Number(2, "GasUsed", "uint64")>>
GasInfo_Marshal == <<Put(<<8>>, "GasWanted", "nonzero"), Put(<<16>>, "GasUsed", "nonzero")>>

Result_Unmarshal ==
    <<Bytes(1, "Data"), Text(2, "Log"), Messages(3, "Events", <<"tendermint", "Event">>)>>
Result_Marshal ==
    <<Put(<<10>>, "Data", "nonempty"), Put(<<18>>, "Log", "nonempty"),
      PutMessage(<<26>>, "Events", "messages", <<"tendermint", "Event">>)>>

SimulationResponse_Unmarshal ==
    <<Message(1, "GasInfo", <<"types", "GasInfo">>),
      Pointer(2, "Result", <<"types", "Result">>)>>
SimulationResponse_Marshal ==
    <<PutMessage(<<10>>, "GasInfo", "message", <<"types", "GasInfo">>),
      PutMessage(<<18>>, "Result", "pointer", <<"types", "Result">>)>>

MsgData_Unmarshal == <<Text(1, "MsgType"), Bytes(2, "Data")>>
MsgData_Marshal == <<Put(<<10>>, "MsgType", "nonempty"), Put(<<18>>, "Data", "nonempty")>>

TxMsgData_Unmarshal == <<Messages(1, "Data", <<"types", "MsgData">>)>>
TxMsgData_Marshal == <<PutMessage(<<10>>, "Data", "messages", <<"types", "MsgData">>)>>

SearchTxsResult_Unmarshal ==
    <<Number(1, "TotalCount", "uint64"), Number(2, "Count", "uint64"),
      Number(3, "PageNumber", "uint64"), Number(4, "PageTotal", "uint64"),
      Number(5, "Limit", "uint64"), Messages(6, "Txs", <<"types", "TxResponse">>)>>
SearchTxsResult_Marshal ==
    <<Put(<<8>>, "TotalCount", "nonzero"), Put(<<16>>, "Count", "nonzero"),
      Put(<<24>>, "PageNumber", "nonzero"), Put(<<32>>, "PageTotal", "nonzero"),
      Put(<<40>>, "Limit", "nonzero"),
      PutMessage(<<50>>, "Txs", "messages", <<"types", "TxResponse">>)>>

Coin_Unmarshal == <<Text(1, "Denom"), Amount(2, "Amount")>>
Coin_Marshal == <<Put(<<10>>, "Denom", "nonempty"), Put(<<18>>, "Amount", "custom")>>

DecCoin_Unmarshal == <<Text(1, "Denom"), Decimal(2, "Amount")>>
DecCoin_Marshal == <<Put(<<10>>, "Denom", "nonempty"), Put(<<18>>, "Amount", "custom")>>

IntProto_Unmarshal == <<Amount(1, "Int")>>
IntProto_Marshal == <<Put(<<10>>, "Int", "custom")>>

DecProto_Unmarshal == <<Decimal(1, "Dec")>>
DecProto_Marshal == <<Put(<<10>>, "Dec", "custom")>>

-----------------------------------------------------------------------------
(* types/query                                                             *)

PageRequest_Unmarshal ==
    <<Bytes(1, "Key"), Number(2, "Offset", "uint64"), Number(3, "Limit", "uint64"),
      Flag(4, "CountTotal")>>
PageRequest_Marshal ==
    <<Put(<<10>>, "Key", "nonempty"), Put(<<16>>, "Offset", "nonzero"),
      Put(<<24>>, "Limit", "nonzero"), Put(<<32>>, "CountTotal", "true")>>

PageResponse_Unmarshal == <<Bytes(1, "NextKey"), Number(2, "Total", "uint64")>>
PageResponse_Marshal == <<Put(<<10>>, "NextKey", "nonempty"), Put(<<16>>, "Total", "nonzero")>>

-----------------------------------------------------------------------------
(* types/kv                                                                *)

Pairs_Unmarshal == <<Messages(1, "Pairs", <<"kv", "Pair">>)>>
Pairs_Marshal == <<PutMessage(<<10>>, "Pairs", "messages", <<"kv", "Pair">>)>>

Pair_Unmarshal == <<Bytes(1, "Key"), Bytes(2, "Value")>>
Pair_Marshal == <<Put(<<10>>, "Key", "nonempty"), Put(<<18>>, "Value", "nonempty")>>

-----------------------------------------------------------------------------
(* codec/types                                                             *)

Any_Unmarshal == <<Text(1, "TypeUrl"), Bytes(2, "Value"), Unrecognized>>
Any_Marshal ==
    <<Put(<<10>>, "TypeUrl", "nonempty"), Put(<<18>>, "Value", "nonempty"), PutUnrecognized>>

-----------------------------------------------------------------------------
(* types/tx                                                                *)

Tx_Unmarshal ==
    <<Pointer(1, "Body", <<"tx", "TxBody">>), Pointer(2, "AuthInfo", <<"tx", "AuthInfo">>),
      List(3, "Signatures")>>
Tx_Marshal ==
    <<PutMessage(<<10>>, "Body", "pointer", <<"tx", "TxBody">>),
      PutMessage(<<18>>, "AuthInfo", "pointer", <<"tx", "AuthInfo">>),
      Put(<<26>>, "Signatures", "list")>>

TxRaw_Unmarshal == <<Bytes(1, "BodyBytes"), Bytes(2, "AuthInfoBytes"), List(3, "Signatures")>>
TxRaw_Marshal ==
    <<Put(<<10>>, "BodyBytes", "nonempty"), Put(<<18>>, "AuthInfoBytes", "nonempty"),
      Put(<<26>>, "Signatures", "list")>>

SignDoc_Unmarshal ==
    <<Bytes(1, "BodyBytes"), Bytes(2, "AuthInfoBytes"), Text(3, "ChainId"),
      Number(4, "AccountNumber", "uint64")>>
SignDoc_Marshal ==
    <<Put(<<10>>, "BodyBytes", "nonempty"), Put(<<18>>, "AuthInfoBytes", "nonempty"),
      Put(<<26>>, "ChainId", "nonempty"), Put(<<32>>, "AccountNumber", "nonzero")>>

TxBody_Unmarshal ==
    <<Messages(1, "Messages", <<"any", "Any">>), Text(2, "Memo"),
      Number(3, "TimeoutHeight", "uint64"),
      Messages(1023, "ExtensionOptions", <<"any", "Any">>),
      Messages(2047, "NonCriticalExtensionOptions", <<"any", "Any">>)>>
TxBody_Marshal ==
    <<PutMessage(<<10>>, "Messages", "messages", <<"any", "Any">>),
      Put(<<18>>, "Memo", "nonempty"), Put(<<24>>, "TimeoutHeight", "nonzero"),
      PutMessage(<<250, 63>>, "ExtensionOptions", "messages", <<"any", "Any">>),
      PutMessage(<<250, 127>>, "NonCriticalExtensionOptions", "messages", <<"any", "Any">>)>>

AuthInfo_Unmarshal ==
    <<Messages(1, "SignerInfos", <<"tx", "SignerInfo">>), Pointer(2, "Fee", <<"tx", "Fee">>)>>
AuthInfo_Marshal ==
    <<PutMessage(<<10>>, "SignerInfos", "messages", <<"tx", "SignerInfo">>),
      PutMessage(<<18>>, "Fee", "pointer", <<"tx", "Fee">>)>>

SignerInfo_Unmarshal ==
    <<Pointer(1, "PublicKey", <<"any", "Any">>), Pointer(2, "ModeInfo", <<"tx", "ModeInfo">>),
      Number(3, "Sequence", "uint64")>>
SignerInfo_Marshal ==
    <<PutMessage(<<10>>, "PublicKey", "pointer", <<"any", "Any">>),
      PutMessage(<<18>>, "ModeInfo", "pointer", <<"tx", "ModeInfo">>),
      Put(<<24>>, "Sequence", "nonzero")>>

ModeInfo_Unmarshal ==
    <<OneOf(1, "Sum", "ModeInfo_Single_", <<"tx", "ModeInfo_Single">>),
      OneOf(2, "Sum", "ModeInfo_Multi_", <<"tx", "ModeInfo_Multi">>)>>
ModeInfo_Marshal == <<PutOneOf("Sum", "tx")>>

ModeInfo_Single__Marshal ==
    <<PutMessage(<<10>>, "Single", "pointer", <<"tx", "ModeInfo_Single">>)>>

ModeInfo_Multi__Marshal ==
    <<PutMessage(<<18>>, "Multi", "pointer", <<"tx", "ModeInfo_Multi">>)>>

ModeInfo_Single_Unmarshal == <<Number(1, "Mode", "int32")>>
ModeInfo_Single_Marshal == <<Put(<<8>>, "Mode", "nonzero")>>

ModeInfo_Multi_Unmarshal ==
    <<Pointer(1, "Bitarray", <<"crypto", "CompactBitArray">>),
      Messages(2, "ModeInfos", <<"tx", "ModeInfo">>)>>
ModeInfo_Multi_Marshal ==
    <<PutMessage(<<10>>, "Bitarray", "pointer", <<"crypto", "CompactBitArray">>),
      PutMessage(<<18>>, "ModeInfos", "messages", <<"tx", "ModeInfo">>)>>

Fee_Unmarshal ==
    <<Messages(1, "Amount", <<"types", "Coin">>), Number(2, "GasLimit", "uint64"),
      Text(3, "Payer"), Text(4, "Granter")>>
Fee_Marshal ==
    <<PutMessage(<<10>>, "Amount", "messages", <<"types", "Coin">>),
      Put(<<16>>, "GasLimit", "nonzero"), Put(<<26>>, "Payer", "nonempty"),
      Put(<<34>>, "Granter", "nonempty")>>

-----------------------------------------------------------------------------
(* types/tx/signing                                                        *)

SignatureDescriptors_Unmarshal ==
    <<Messages(1, "Signatures", <<"signing", "SignatureDescriptor">>)>>
SignatureDescriptors_Marshal ==
    <<PutMessage(<<10>>, "Signatures", "messages", <<"signing", "SignatureDescriptor">>)>>

SignatureDescriptor_Unmarshal ==
    <<Pointer(1, "PublicKey", <<"any", "Any">>),
      Pointer(2, "Data", <<"signing", "SignatureDescriptor_Data">>),
      Number(3, "Sequence", "uint64")>>
SignatureDescriptor_Marshal ==
    <<PutMessage(<<10>>, "PublicKey", "pointer", <<"any", "Any">>),
      PutMessage(<<18>>, "Data", "pointer", <<"signing", "SignatureDescriptor_Data">>),
      Put(<<24>>, "Sequence", "nonzero")>>

SignatureDescriptor_Data_Unmarshal ==
    <<OneOf(1, "Sum", "SignatureDescriptor_Data_Single_", <<"signing", "SignatureDescriptor_Data_Single">>),
      OneOf(2, "Sum", "SignatureDescriptor_Data_Multi_", <<"signing", "SignatureDescriptor_Data_Multi">>)>>
SignatureDescriptor_Data_Marshal == <<PutOneOf("Sum", "signing")>>

SignatureDescriptor_Data_Single__Marshal ==
    <<PutMessage(<<10>>, "Single", "pointer", <<"signing", "SignatureDescriptor_Data_Single">>)>>

SignatureDescriptor_Data_Multi__Marshal ==
    <<PutMessage(<<18>>, "Multi", "pointer", <<"signing", "SignatureDescriptor_Data_Multi">>)>>

SignatureDescriptor_Data_Single_Unmarshal ==
    <<Number(1, "Mode", "int32"), Bytes(2, "Signature")>>
SignatureDescriptor_Data_Single_Marshal ==
    <<Put(<<8>>, "Mode", "nonzero"), Put(<<18>>, "Signature", "nonempty")>>

SignatureDescriptor_Data_Multi_Unmarshal ==
    <<Pointer(1, "Bitarray", <<"crypto", "CompactBitArray">>),
      Messages(2, "Signatures", <<"signing", "SignatureDescriptor_Data">>)>>
SignatureDescriptor_Data_Multi_Marshal ==
    <<PutMessage(<<10>>, "Bitarray", "pointer", <<"crypto", "CompactBitArray">>),
      PutMessage(<<18>>, "Signatures", "messages", <<"signing", "SignatureDescriptor_Data">>)>>

-----------------------------------------------------------------------------
(* crypto/types                                                            *)

MultiSignature_Unmarshal == <<List(1, "Signatures"), Unrecognized>>
MultiSignature_Marshal == <<Put(<<10>>, "Signatures", "list"), PutUnrecognized>>

CompactBitArray_Unmarshal == <<Number(1, "ExtraBitsStored", "uint32"), Bytes(2, "Elems")>>
CompactBitArray_Marshal ==
    <<Put(<<8>>, "ExtraBitsStored", "nonzero"), Put(<<18>>, "Elems", "nonempty")>>

-----------------------------------------------------------------------------
(* crypto/keys/multisig                                                    *)

LegacyAminoPubKey_Unmarshal ==
    <<Number(1, "Threshold", "uint32"), Messages(2, "PubKeys", <<"any", "Any">>)>>
LegacyAminoPubKey_Marshal ==
    <<Put(<<8>>, "Threshold", "nonzero"),
      PutMessage(<<18>>, "PubKeys", "messages", <<"any", "Any">>)>>

-----------------------------------------------------------------------------
(* crypto/keys/secp256k1                                                   *)

secp256k1_PubKey_Unmarshal == <<Bytes(1, "Key")>>
secp256k1_PubKey_Marshal == <<Put(<<10>>, "Key", "nonempty")>>

secp256k1_PrivKey_Unmarshal == <<Bytes(1, "Key")>>
secp256k1_PrivKey_Marshal == <<Put(<<10>>, "Key", "nonempty")>>

-----------------------------------------------------------------------------
(* crypto/keys/ed25519                                                     *)

ed25519_PubKey_Unmarshal == <<Bytes(1, "Key")>>
ed25519_PubKey_Marshal == <<Put(<<10>>, "Key", "nonempty")>>

ed25519_PrivKey_Unmarshal == <<Bytes(1, "Key")>>
ed25519_PrivKey_Marshal == <<Put(<<10>>, "Key", "nonempty")>>

-----------------------------------------------------------------------------
(* modules/auth                                                            *)

BaseAccount_Unmarshal ==
    <<Text(1, "Address"), Pointer(2, "PubKey", <<"any", "Any">>),
      Number(3, "AccountNumber", "uint64"), Number(4, "Sequence", "uint64")>>
BaseAccount_Marshal ==
    <<Put(<<10>>, "Address", "nonempty"),
      PutMessage(<<18>>, "PubKey", "pointer", <<"any", "Any">>),
      Put(<<24>>, "AccountNumber", "nonzero"), Put(<<32>>, "Sequence", "nonzero")>>

ModuleAccount_Unmarshal ==
    <<Pointer(1, "BaseAccount", <<"auth", "BaseAccount">>), Text(2, "Name"),
      List(3, "Permissions")>>
ModuleAccount_Marshal ==
    <<PutMessage(<<10>>, "BaseAccount", "pointer", <<"auth", "BaseAccount">>),
      Put(<<18>>, "Name", "nonempty"), Put(<<26>>, "Permissions", "list")>>

auth_Params_Unmarshal ==
    <<Number(1, "MaxMemoCharacters", "uint64"), Number(2, "TxSigLimit", "uint64"),
      Number(3, "TxSizeCostPerByte", "uint64"), Number(4, "SigVerifyCostED25519", "uint64"),
      Number(5, "SigVerifyCostSecp256k1", "uint64")>>
auth_Params_Marshal ==
    <<Put(<<8>>, "MaxMemoCharacters", "nonzero"), Put(<<16>>, "TxSigLimit", "nonzero"),
      Put(<<24>>, "TxSizeCostPerByte", "nonzero"),
      Put(<<32>>, "SigVerifyCostED25519", "nonzero"),
      Put(<<40>>, "SigVerifyCostSecp256k1", "nonzero")>>

QueryAccountRequest_Unmarshal == <<Text(1, "Address")>>
QueryAccountRequest_Marshal == <<Put(<<10>>, "Address", "nonempty")>>

QueryAccountResponse_Unmarshal == <<Pointer(1, "Account", <<"any", "Any">>)>>
QueryAccountResponse_Marshal == <<PutMessage(<<10>>, "Account", "pointer", <<"any", "Any">>)>>

auth_QueryParamsRequest_Unmarshal == << >>
auth_QueryParamsRequest_Marshal == << >>

auth_QueryParamsResponse_Unmarshal == <<Message(1, "Params", <<"auth", "Params">>)>>
auth_QueryParamsResponse_Marshal ==
    <<PutMessage(<<10>>, "Params", "message", <<"auth", "Params">>)>>

-----------------------------------------------------------------------------
(* modules/bank                                                            *)

bank_Params_Unmarshal ==
    <<Messages(1, "SendEnabled", <<"bank", "SendEnabled">>), Flag(2, "DefaultSendEnabled")>>
bank_Params_Marshal ==
    <<PutMessage(<<10>>, "SendEnabled", "messages", <<"bank", "SendEnabled">>),
      Put(<<16>>, "DefaultSendEnabled", "true")>>

SendEnabled_Unmarshal == <<Text(1, "Denom"), Flag(2, "Enabled")>>
\* Mutant: the tags of the fields are swapped.
SendEnabled_MarshalSwapped == <<Put(<<16>>, "Denom", "nonempty"), Put(<<10>>, "Enabled", "true")>>
SendEnabled_Marshal == <<Put(<<10>>, "Denom", "nonempty"), Put(<<16>>, "Enabled", "true")>>

Input_Unmarshal == <<Text(1, "Address"), Messages(2, "Coins", <<"types", "Coin">>)>>
Input_Marshal ==
    <<Put(<<10>>, "Address", "nonempty"),
      PutMessage(<<18>>, "Coins", "messages", <<"types", "Coin">>)>>

Output_Unmarshal == <<Text(1, "Address"), Messages(2, "Coins", <<"types", "Coin">>)>>
Output_Marshal ==
    <<Put(<<10>>, "Address", "nonempty"),
      PutMessage(<<18>>, "Coins", "messages", <<"types", "Coin">>)>>

Supply_Unmarshal == <<Messages(1, "Total", <<"types", "Coin">>)>>
Supply_Marshal == <<PutMessage(<<10>>, "Total", "messages", <<"types", "Coin">>)>>

DenomUnit_Unmarshal == <<Text(1, "Denom"), Number(2, "Exponent", "uint32"), List(3, "Aliases")>>
DenomUnit_Marshal ==
    <<Put(<<10>>, "Denom", "nonempty"), Put(<<16>>, "Exponent", "nonzero"),
      Put(<<26>>, "Aliases", "list")>>

Metadata_Unmarshal ==
    <<Text(1, "Description"), Messages(2, "DenomUnits", <<"bank", "DenomUnit">>),
      Text(3, "Base"), Text(4, "Display")>>
Metadata_Marshal ==
    <<Put(<<10>>, "Description", "nonempty"),
      PutMessage(<<18>>, "DenomUnits", "messages", <<"bank", "DenomUnit">>),
      Put(<<26>>, "Base", "nonempty"), Put(<<34>>, "Display", "nonempty")>>

QueryBalanceRequest_Unmarshal == <<Text(1, "Address"), Text(2, "Denom")>>
QueryBalanceRequest_Marshal ==
    <<Put(<<10>>, "Address", "nonempty"), Put(<<18>>, "Denom", "nonempty")>>

QueryBalanceResponse_Unmarshal == <<Pointer(1, "Balance", <<"types", "Coin">>)>>
QueryBalanceResponse_Marshal ==
    <<PutMessage(<<10>>, "Balance", "pointer", <<"types", "Coin">>)>>

QueryAllBalancesRequest_Unmarshal ==
    <<Text(1, "Address"), Pointer(2, "Pagination", <<"query", "PageRequest">>)>>
QueryAllBalancesRequest_Marshal ==
    <<Put(<<10>>, "Address", "nonempty"),
      PutMessage(<<18>>, "Pagination", "pointer", <<"query", "PageRequest">>)>>

QueryAllBalancesResponse_Unmarshal ==
    <<Messages(1, "Balances", <<"types", "Coin">>),
      Pointer(2, "Pagination", <<"query", "PageResponse">>)>>
QueryAllBalancesResponse_Marshal ==
    <<PutMessage(<<10>>, "Balances", "messages", <<"types", "Coin">>),
      PutMessage(<<18>>, "Pagination", "pointer", <<"query", "PageResponse">>)>>

QueryTotalSupplyRequest_Unmarshal == << >>
QueryTotalSupplyRequest_Marshal == << >>

QueryTotalSupplyResponse_Unmarshal == <<Messages(1, "Supply", <<"types", "Coin">>)>>
QueryTotalSupplyResponse_Marshal ==
    <<PutMessage(<<10>>, "Supply", "messages", <<"types", "Coin">>)>>

QuerySupplyOfRequest_Unmarshal == <<Text(1, "Denom")>>
QuerySupplyOfRequest_Marshal == <<Put(<<10>>, "Denom", "nonempty")>>

QuerySupplyOfResponse_Unmarshal == <<Message(1, "Amount", <<"types", "Coin">>)>>
QuerySupplyOfResponse_Marshal ==
    <<PutMessage(<<10>>, "Amount", "message", <<"types", "Coin">>)>>

bank_QueryParamsRequest_Unmarshal == << >>
bank_QueryParamsRequest_Marshal == << >>

bank_QueryParamsResponse_Unmarshal == <<Message(1, "Params", <<"bank", "Params">>)>>
bank_QueryParamsResponse_Marshal ==
    <<PutMessage(<<10>>, "Params", "message", <<"bank", "Params">>)>>

MsgSend_Unmarshal ==
    <<Text(1, "FromAddress"), Text(2, "ToAddress"), Messages(3, "Amount", <<"types", "Coin">>)>>
MsgSend_Marshal ==
    <<Put(<<10>>, "FromAddress", "nonempty"), Put(<<18>>, "ToAddress", "nonempty"),
      PutMessage(<<26>>, "Amount", "messages", <<"types", "Coin">>)>>

MsgMultiSend_Unmarshal ==
    <<Messages(1, "Inputs", <<"bank", "Input">>), Messages(2, "Outputs", <<"bank", "Output">>)>>
MsgMultiSend_Marshal ==
    <<PutMessage(<<10>>, "Inputs", "messages", <<"bank", "Input">>),
      PutMessage(<<18>>, "Outputs", "messages", <<"bank", "Output">>)>>

-----------------------------------------------------------------------------
(* modules/token                                                           *)

QueryTokenRequest_Unmarshal == <<Text(1, "Denom")>>
QueryTokenRequest_Marshal == <<Put(<<10>>, "Denom", "nonempty")>>

QueryTokenResponse_Unmarshal == <<Pointer(1, "Token", <<"any", "Any">>)>>
QueryTokenResponse_Marshal == <<PutMessage(<<10>>, "Token", "pointer", <<"any", "Any">>)>>

QueryTokensRequest_Unmarshal == <<Text(1, "Owner")>>
QueryTokensRequest_Marshal == <<Put(<<10>>, "Owner", "nonempty")>>

QueryTokensResponse_Unmarshal == <<Messages(1, "Tokens", <<"any", "Any">>)>>
QueryTokensResponse_Marshal == <<PutMessage(<<10>>, "Tokens", "messages", <<"any", "Any">>)>>

QueryFeesRequest_Unmarshal == <<Text(1, "Symbol")>>
QueryFeesRequest_Marshal == <<Put(<<10>>, "Symbol", "nonempty")>>

QueryFeesResponse_Unmarshal ==
    <<Flag(1, "Exist"), Message(2, "IssueFee", <<"types", "Coin">>),
      Message(3, "MintFee", <<"types", "Coin">>)>>
QueryFeesResponse_Marshal ==
    <<Put(<<8>>, "Exist", "true"),
      PutMessage(<<18>>, "IssueFee", "message", <<"types", "Coin">>),
      PutMessage(<<26>>, "MintFee", "message", <<"types", "Coin">>)>>

token_QueryParamsRequest_Unmarshal == << >>
token_QueryParamsRequest_Marshal == << >>

token_QueryParamsResponse_Unmarshal ==
    <<Message(1, "Params", <<"token", "Params">>),
      Pointer(2, "Res", <<"query", "PageResponse">>)>>
token_QueryParamsResponse_Marshal ==
    <<PutMessage(<<10>>, "Params", "message", <<"token", "Params">>),
      PutMessage(<<18>>, "Res", "pointer", <<"query", "PageResponse">>)>>

Token_Unmarshal ==
    <<Text(1, "Symbol"), Text(2, "Name"), Number(3, "Scale", "uint32"), Text(4, "MinUnit"),
      Number(5, "InitialSupply", "uint64"), Number(6, "MaxSupply", "uint64"),
      Flag(7, "Mintable"), Text(8, "Owner")>>
Token_Marshal ==
    <<Put(<<10>>, "Symbol", "nonempty"), Put(<<18>>, "Name", "nonempty"),
      Put(<<24>>, "Scale", "nonzero"), Put(<<34>>, "MinUnit", "nonempty"),
      Put(<<40>>, "InitialSupply", "nonzero"), Put(<<48>>, "MaxSupply", "nonzero"),
      Put(<<56>>, "Mintable", "true"), Put(<<66>>, "Owner", "nonempty")>>

token_Params_Unmarshal ==
    <<Message(1, "IssueTokenBaseFee", <<"types", "Coin">>), Decimal(2, "OperateTokenFeeRatio")>>
token_Params_Marshal ==
    <<PutMessage(<<10>>, "IssueTokenBaseFee", "message", <<"types", "Coin">>),
      Put(<<18>>, "OperateTokenFeeRatio", "custom")>>

MsgIssueToken_Unmarshal ==
    <<Text(1, "Symbol"), Text(2, "Name"), Number(3, "Scale", "uint32"), Text(4, "MinUnit"),
      Number(5, "InitialSupply", "uint64"), Number(6, "MaxSupply", "uint64"),
      Flag(7, "Mintable"), Text(8, "Owner")>>
MsgIssueToken_Marshal ==
    <<Put(<<10>>, "Symbol", "nonempty"), Put(<<18>>, "Name", "nonempty"),
      Put(<<24>>, "Scale", "nonzero"), Put(<<34>>, "MinUnit", "nonempty"),
      Put(<<40>>, "InitialSupply", "nonzero"), Put(<<48>>, "MaxSupply", "nonzero"),
      Put(<<56>>, "Mintable", "true"), Put(<<66>>, "Owner", "nonempty")>>

MsgTransferOwnerToken_Unmarshal == <<Text(1, "Symbol"), Text(2, "Owner"), Text(3, "To")>>
MsgTransferOwnerToken_Marshal ==
    <<Put(<<10>>, "Symbol", "nonempty"), Put(<<18>>, "Owner", "nonempty"),
      Put(<<26>>, "To", "nonempty")>>

MsgEditToken_Unmarshal ==
    <<Text(1, "Symbol"), Text(2, "Name"), Number(3, "MaxSupply", "uint64"), Text(4, "Owner")>>
MsgEditToken_Marshal ==
    <<Put(<<10>>, "Symbol", "nonempty"), Put(<<18>>, "Name", "nonempty"),
      Put(<<24>>, "MaxSupply", "nonzero"), Put(<<34>>, "Owner", "nonempty")>>

MsgMintToken_Unmarshal ==
    <<Text(1, "Symbol"), Text(2, "To"), Number(3, "Amount", "uint64"), Text(4, "Owner")>>
MsgMintToken_Marshal ==
    <<Put(<<10>>, "Symbol", "nonempty"), Put(<<18>>, "To", "nonempty"),
      Put(<<24>>, "Amount", "nonzero"), Put(<<34>>, "Owner", "nonempty")>>

MsgBurnToken_Unmarshal == <<Text(1, "Symbol"), Number(2, "Amount", "uint64"), Text(3, "Owner")>>
MsgBurnToken_Marshal ==
    <<Put(<<10>>, "Symbol", "nonempty"), Put(<<16>>, "Amount", "nonzero"),
      Put(<<26>>, "Owner", "nonempty")>>

-----------------------------------------------------------------------------
TypesReaders ==
    [TxResponse |-> TxResponse_Unmarshal, ABCIMessageLog |-> ABCIMessageLog_Unmarshal,
     StringEvent |-> StringEvent_Unmarshal, Attribute |-> Attribute_Unmarshal,
     GasInfo |-> GasInfo_Unmarshal, Result |-> Result_Unmarshal,
     SimulationResponse |-> SimulationResponse_Unmarshal, MsgData |-> MsgData_Unmarshal,
     TxMsgData |-> TxMsgData_Unmarshal, SearchTxsResult |-> SearchTxsResult_Unmarshal,
     Coin |-> Coin_Unmarshal, DecCoin |-> DecCoin_Unmarshal, IntProto |-> IntProto_Unmarshal,
     DecProto |-> DecProto_Unmarshal]

QueryReaders ==
    [PageRequest |-> PageRequest_Unmarshal, PageResponse |-> PageResponse_Unmarshal]

KvReaders ==
    [Pairs |-> Pairs_Unmarshal, Pair |-> Pair_Unmarshal]

AnyReaders ==
    [Any |-> Any_Unmarshal]

TxReaders ==
    [Tx |-> Tx_Unmarshal, TxRaw |-> TxRaw_Unmarshal, SignDoc |-> SignDoc_Unmarshal,
     TxBody |-> TxBody_Unmarshal, AuthInfo |-> AuthInfo_Unmarshal,
     SignerInfo |-> SignerInfo_Unmarshal, ModeInfo |-> ModeInfo_Unmarshal,
     ModeInfo_Single |-> ModeInfo_Single_Unmarshal, ModeInfo_Multi |-> ModeInfo_Multi_Unmarshal,
     Fee |-> Fee_Unmarshal]

SigningReaders ==
    [SignatureDescriptors |-> SignatureDescriptors_Unmarshal,
     SignatureDescriptor |-> SignatureDescriptor_Unmarshal,
     SignatureDescriptor_Data |-> SignatureDescriptor_Data_Unmarshal,
     SignatureDescriptor_Data_Single |-> SignatureDescriptor_Data_Single_Unmarshal,
     SignatureDescriptor_Data_Multi |-> SignatureDescriptor_Data_Multi_Unmarshal]

CryptoReaders ==
    [MultiSignature |-> MultiSignature_Unmarshal, CompactBitArray |-> CompactBitArray_Unmarshal]

MultisigReaders ==
    [LegacyAminoPubKey |-> LegacyAminoPubKey_Unmarshal]

Secp256k1Readers ==
    [PubKey |-> secp256k1_PubKey_Unmarshal, PrivKey |-> secp256k1_PrivKey_Unmarshal]

Ed25519Readers ==
    [PubKey |-> ed25519_PubKey_Unmarshal, PrivKey |-> ed25519_PrivKey_Unmarshal]

AuthReaders ==
    [BaseAccount |-> BaseAccount_Unmarshal, ModuleAccount |-> ModuleAccount_Unmarshal,
     Params |-> auth_Params_Unmarshal, QueryAccountRequest |-> QueryAccountRequest_Unmarshal,
     QueryAccountResponse |-> QueryAccountResponse_Unmarshal,
     QueryParamsRequest |-> auth_QueryParamsRequest_Unmarshal,
     QueryParamsResponse |-> auth_QueryParamsResponse_Unmarshal]

BankReaders ==
    [Params |-> bank_Params_Unmarshal, SendEnabled |-> SendEnabled_Unmarshal,
     Input |-> Input_Unmarshal, Output |-> Output_Unmarshal, Supply |-> Supply_Unmarshal,
     DenomUnit |-> DenomUnit_Unmarshal, Metadata |-> Metadata_Unmarshal,
     QueryBalanceRequest |-> QueryBalanceRequest_Unmarshal,
     QueryBalanceResponse |-> QueryBalanceResponse_Unmarshal,
     QueryAllBalancesRequest |-> QueryAllBalancesRequest_Unmarshal,
     QueryAllBalancesResponse |-> QueryAllBalancesResponse_Unmarshal,
     QueryTotalSupplyRequest |-> QueryTotalSupplyRequest_Unmarshal,
     QueryTotalSupplyResponse |-> QueryTotalSupplyResponse_Unmarshal,
     QuerySupplyOfRequest |-> QuerySupplyOfRequest_Unmarshal,
     QuerySupplyOfResponse |-> QuerySupplyOfResponse_Unmarshal,
     QueryParamsRequest |-> bank_QueryParamsRequest_Unmarshal,
     QueryParamsResponse |-> bank_QueryParamsResponse_Unmarshal, MsgSend |-> MsgSend_Unmarshal,
     MsgMultiSend |-> MsgMultiSend_Unmarshal]

TokenReaders ==
    [QueryTokenRequest |-> QueryTokenRequest_Unmarshal,
     QueryTokenResponse |-> QueryTokenResponse_Unmarshal,
     QueryTokensRequest |-> QueryTokensRequest_Unmarshal,
     QueryTokensResponse |-> QueryTokensResponse_Unmarshal,
     QueryFeesRequest |-> QueryFeesRequest_Unmarshal,
     QueryFeesResponse |-> QueryFeesResponse_Unmarshal,
     QueryParamsRequest |-> token_QueryParamsRequest_Unmarshal,
     QueryParamsResponse |-> token_QueryParamsResponse_Unmarshal, Token |-> Token_Unmarshal,
     Params |-> token_Params_Unmarshal, MsgIssueToken |-> MsgIssueToken_Unmarshal,
     MsgTransferOwnerToken |-> MsgTransferOwnerToken_Unmarshal,
     MsgEditToken |-> MsgEditToken_Unmarshal, MsgMintToken |-> MsgMintToken_Unmarshal,
     MsgBurnToken |-> MsgBurnToken_Unmarshal]

TypesWriters ==
    [TxResponse |-> TxResponse_Marshal, ABCIMessageLog |-> ABCIMessageLog_Marshal,
     StringEvent |-> StringEvent_Marshal, Attribute |-> Attribute_Marshal,
     GasInfo |-> GasInfo_Marshal, Result |-> Result_Marshal,
     SimulationResponse |-> SimulationResponse_Marshal, MsgData |-> MsgData_Marshal,
     TxMsgData |-> TxMsgData_Marshal, SearchTxsResult |-> SearchTxsResult_Marshal,
     Coin |-> Coin_Marshal, DecCoin |-> DecCoin_Marshal, IntProto |-> IntProto_Marshal,
     DecProto |-> DecProto_Marshal]

QueryWriters ==
    [PageRequest |-> PageRequest_Marshal, PageResponse |-> PageResponse_Marshal]

KvWriters ==
    [Pairs |-> Pairs_Marshal, Pair |-> Pair_Marshal]

AnyWriters ==
    [Any |-> Any_Marshal]

TxWriters ==
    [Tx |-> Tx_Marshal, TxRaw |-> TxRaw_Marshal, SignDoc |-> SignDoc_Marshal,
     TxBody |-> TxBody_Marshal, AuthInfo |-> AuthInfo_Marshal,
     SignerInfo |-> SignerInfo_Marshal, ModeInfo |-> ModeInfo_Marshal,
     ModeInfo_Single_ |-> ModeInfo_Single__Marshal, ModeInfo_Multi_ |-> ModeInfo_Multi__Marshal,
     ModeInfo_Single |-> ModeInfo_Single_Marshal, ModeInfo_Multi |-> ModeInfo_Multi_Marshal,
     Fee |-> Fee_Marshal]

SigningWriters ==
    [SignatureDescriptors |-> SignatureDescriptors_Marshal,
     SignatureDescriptor |-> SignatureDescriptor_Marshal,
     SignatureDescriptor_Data |-> SignatureDescriptor_Data_Marshal,
     SignatureDescriptor_Data_Single_ |-> SignatureDescriptor_Data_Single__Marshal,
     SignatureDescriptor_Data_Multi_ |-> SignatureDescriptor_Data_Multi__Marshal,
     SignatureDescriptor_Data_Single |-> SignatureDescriptor_Data_Single_Marshal,
     SignatureDescriptor_Data_Multi |-> SignatureDescriptor_Data_Multi_Marshal]

CryptoWriters ==
    [MultiSignature |-> MultiSignature_Marshal, CompactBitArray |-> CompactBitArray_Marshal]

MultisigWriters ==
    [LegacyAminoPubKey |-> LegacyAminoPubKey_Marshal]

Secp256k1Writers ==
    [PubKey |-> secp256k1_PubKey_Marshal, PrivKey |-> secp256k1_PrivKey_Marshal]

Ed25519Writers ==
    [PubKey |-> ed25519_PubKey_Marshal, PrivKey |-> ed25519_PrivKey_Marshal]

AuthWriters ==
    [BaseAccount |-> BaseAccount_Marshal, ModuleAccount |-> ModuleAccount_Marshal,
     Params |-> auth_Params_Marshal, QueryAccountRequest |-> QueryAccountRequest_Marshal,
     QueryAccountResponse |-> QueryAccountResponse_Marshal,
     QueryParamsRequest |-> auth_QueryParamsRequest_Marshal,
     QueryParamsResponse |-> auth_QueryParamsResponse_Marshal]

BankWriters ==
    [Params |-> bank_Params_Marshal, SendEnabled |-> SendEnabled_Marshal,
     Input |-> Input_Marshal, Output |-> Output_Marshal, Supply |-> Supply_Marshal,
     DenomUnit |-> DenomUnit_Marshal, Metadata |-> Metadata_Marshal,
     QueryBalanceRequest |-> QueryBalanceRequest_Marshal,
     QueryBalanceResponse |-> QueryBalanceResponse_Marshal,
     QueryAllBalancesRequest |-> QueryAllBalancesRequest_Marshal,
     QueryAllBalancesResponse |-> QueryAllBalancesResponse_Marshal,
     QueryTotalSupplyRequest |-> QueryTotalSupplyRequest_Marshal,
     QueryTotalSupplyResponse |-> QueryTotalSupplyResponse_Marshal,
     QuerySupplyOfRequest |-> QuerySupplyOfRequest_Marshal,
     QuerySupplyOfResponse |-> QuerySupplyOfResponse_Marshal,
     QueryParamsRequest |-> bank_QueryParamsRequest_Marshal,
     QueryParamsResponse |-> bank_QueryParamsResponse_Marshal, MsgSend |-> MsgSend_Marshal,
     MsgMultiSend |-> MsgMultiSend_Marshal]

TokenWriters ==
    [QueryTokenRequest |-> QueryTokenRequest_Marshal,
     QueryTokenResponse |-> QueryTokenResponse_Marshal,
     QueryTokensRequest |-> QueryTokensRequest_Marshal,
     QueryTokensResponse |-> QueryTokensResponse_Marshal,
     QueryFeesRequest |-> QueryFeesRequest_Marshal,
     QueryFeesResponse |-> QueryFeesResponse_Marshal,
     QueryParamsRequest |-> token_QueryParamsRequest_Marshal,
     QueryParamsResponse |-> token_QueryParamsResponse_Marshal, Token |-> Token_Marshal,
     Params |-> token_Params_Marshal, MsgIssueToken |-> MsgIssueToken_Marshal,
     MsgTransferOwnerToken |-> MsgTransferOwnerToken_Marshal,
     MsgEditToken |-> MsgEditToken_Marshal, MsgMintToken |-> MsgMintToken_Marshal,
     MsgBurnToken |-> MsgBurnToken_Marshal]

=============================================================================

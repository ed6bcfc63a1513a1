------------------------------ MODULE Messages ------------------------------
(* The tables of nft and coinswap. *)
EXTENDS StakingMessages

-----------------------------------------------------------------------------
(* modules/nft                                                             *)

NFT_Unmarshal ==
    <<Text(1, "ID"), Text(2, "Name"), Text(3, "URI"), Text(4, "Data"), Text(5, "Owner")>>
NFT_Marshal ==
    <<Put(<<10>>, "ID", "nonempty"), Put(<<18>>, "Name", "nonempty"),
      Put(<<26>>, "URI", "nonempty"), Put(<<34>>, "Data", "nonempty"),
      Put(<<42>>, "Owner", "nonempty")>>

Class_Unmarshal ==
    <<Text(1, "ID"), Text(2, "Name"), Text(3, "Schema"), Text(4, "Symbol"), Text(5, "Owner"),
      Flag(6, "MintRestricted"), Flag(7, "EditRestricted")>>
Class_Marshal ==
    <<Put(<<10>>, "ID", "nonempty"), Put(<<18>>, "Name", "nonempty"),
      Put(<<26>>, "Schema", "nonempty"), Put(<<34>>, "Symbol", "nonempty"),
      Put(<<42>>, "Owner", "nonempty"), Put(<<48>>, "MintRestricted", "true"),
      Put(<<56>>, "EditRestricted", "true")>>

Collection_Unmarshal ==
    <<Message(1, "Class", <<"nft", "Class">>), Messages(2, "NFTs", <<"nft", "NFT">>)>>
Collection_Marshal ==
    <<PutMessage(<<10>>, "Class", "message", <<"nft", "Class">>),
      PutMessage(<<18>>, "NFTs", "messages", <<"nft", "NFT">>)>>

CollectionID_Unmarshal == <<Text(1, "ClassID"), List(2, "NFTIDs")>>
CollectionID_Marshal == <<Put(<<10>>, "ClassID", "nonempty"), Put(<<18>>, "NFTIDs", "list")>>

Owner_Unmarshal ==
    <<Text(1, "Address"), Messages(2, "CollectionIDs", <<"nft", "CollectionID">>)>>
Owner_Marshal ==
    <<Put(<<10>>, "Address", "nonempty"),
      PutMessage(<<18>>, "CollectionIDs", "messages", <<"nft", "CollectionID">>)>>

QueryClassRequest_Unmarshal == <<Text(1, "ClassId")>>
QueryClassRequest_Marshal == <<Put(<<10>>, "ClassId", "nonempty")>>

QueryClassResponse_Unmarshal == <<Pointer(1, "Class", <<"nft", "Class">>)>>
QueryClassResponse_Marshal == <<PutMessage(<<10>>, "Class", "pointer", <<"nft", "Class">>)>>

QueryClassesRequest_Unmarshal == <<Pointer(1, "Pagination", <<"query", "PageRequest">>)>>
QueryClassesRequest_Marshal ==
    <<PutMessage(<<10>>, "Pagination", "pointer", <<"query", "PageRequest">>)>>

QueryClassesResponse_Unmarshal ==
    <<Messages(1, "Classes", <<"nft", "Class">>),
      Pointer(2, "Pagination", <<"query", "PageResponse">>)>>
QueryClassesResponse_Marshal ==
    <<PutMessage(<<10>>, "Classes", "messages", <<"nft", "Class">>),
      PutMessage(<<18>>, "Pagination", "pointer", <<"query", "PageResponse">>)>>

QueryNFTRequest_Unmarshal == <<Text(1, "ClassId"), Text(2, "NftId")>>
QueryNFTRequest_Marshal ==
    <<Put(<<10>>, "ClassId", "nonempty"), Put(<<18>>, "NftId", "nonempty")>>

QueryNFTResponse_Unmarshal == <<Pointer(1, "Nft", <<"nft", "NFT">>)>>
QueryNFTResponse_Marshal == <<PutMessage(<<10>>, "Nft", "pointer", <<"nft", "NFT">>)>>

QueryCollectionRequest_Unmarshal ==
    <<Text(1, "ClassId"), Pointer(2, "Pagination", <<"query", "PageRequest">>)>>
QueryCollectionRequest_Marshal ==
    <<Put(<<10>>, "ClassId", "nonempty"),
      PutMessage(<<18>>, "Pagination", "pointer", <<"query", "PageRequest">>)>>

QueryCollectionResponse_Unmarshal ==
    <<Pointer(1, "Collection", <<"nft", "Collection">>),
      Pointer(2, "Pagination", <<"query", "PageResponse">>)>>
QueryCollectionResponse_Marshal ==
    <<PutMessage(<<10>>, "Collection", "pointer", <<"nft", "Collection">>),
      PutMessage(<<18>>, "Pagination", "pointer", <<"query", "PageResponse">>)>>

QuerySupplyRequest_Unmarshal == <<Text(1, "ClassId")>>
QuerySupplyRequest_Marshal == <<Put(<<10>>, "ClassId", "nonempty")>>

QuerySupplyResponse_Unmarshal == <<Number(1, "Amount", "uint64")>>
QuerySupplyResponse_Marshal == <<Put(<<8>>, "Amount", "nonzero")>>

QueryOwnerRequest_Unmarshal ==
    <<Text(1, "ClassId"), Text(2, "Address"),
      Pointer(3, "Pagination", <<"query", "PageRequest">>)>>
QueryOwnerRequest_Marshal ==
    <<Put(<<10>>, "ClassId", "nonempty"), Put(<<18>>, "Address", "nonempty"),
      PutMessage(<<26>>, "Pagination", "pointer", <<"query", "PageRequest">>)>>

QueryOwnerResponse_Unmarshal ==
    <<Pointer(1, "Owner", <<"nft", "Owner">>),
      Pointer(2, "Pagination", <<"query", "PageResponse">>)>>
QueryOwnerResponse_Marshal ==
    <<PutMessage(<<10>>, "Owner", "pointer", <<"nft", "Owner">>),
      PutMessage(<<18>>, "Pagination", "pointer", <<"query", "PageResponse">>)>>

MsgIssueClass_Unmarshal ==
    <<Text(1, "ID"), Text(2, "Name"), Text(3, "Schema"), Text(4, "Owner"), Text(5, "Symbol"),
      Flag(6, "MintRestricted"), Flag(7, "EditRestricted")>>
MsgIssueClass_Marshal ==
    <<Put(<<10>>, "ID", "nonempty"), Put(<<18>>, "Name", "nonempty"),
      Put(<<26>>, "Schema", "nonempty"), Put(<<34>>, "Owner", "nonempty"),
      Put(<<42>>, "Symbol", "nonempty"), Put(<<48>>, "MintRestricted", "true"),
      Put(<<56>>, "EditRestricted", "true")>>

MsgIssueClassResponse_Unmarshal == << >>
MsgIssueClassResponse_Marshal == << >>

MsgIssueNFT_Unmarshal ==
    <<Text(1, "ID"), Text(2, "ClassID"), Text(3, "Name"), Text(4, "URI"), Text(5, "Data"),
      Text(6, "Owner"), Text(7, "Recipient")>>
MsgIssueNFT_Marshal ==
    <<Put(<<10>>, "ID", "nonempty"), Put(<<18>>, "ClassID", "nonempty"),
      Put(<<26>>, "Name", "nonempty"), Put(<<34>>, "URI", "nonempty"),
      Put(<<42>>, "Data", "nonempty"), Put(<<50>>, "Owner", "nonempty"),
      Put(<<58>>, "Recipient", "nonempty")>>

MsgIssueNFTResponse_Unmarshal == << >>
MsgIssueNFTResponse_Marshal == << >>

MsgEditNFT_Unmarshal ==
    <<Text(1, "ID"), Text(2, "ClassID"), Text(3, "Name"), Text(4, "URI"), Text(5, "Data"),
      Text(6, "Owner")>>
MsgEditNFT_Marshal ==
    <<Put(<<10>>, "ID", "nonempty"), Put(<<18>>, "ClassID", "nonempty"),
      Put(<<26>>, "Name", "nonempty"), Put(<<34>>, "URI", "nonempty"),
      Put(<<42>>, "Data", "nonempty"), Put(<<50>>, "Owner", "nonempty")>>

MsgEditNFTResponse_Unmarshal == << >>
MsgEditNFTResponse_Marshal == << >>

MsgBurnNFT_Unmarshal == <<Text(1, "ID"), Text(2, "ClassID"), Text(3, "Owner")>>
MsgBurnNFT_Marshal ==
    <<Put(<<10>>, "ID", "nonempty"), Put(<<18>>, "ClassID", "nonempty"),
      Put(<<26>>, "Owner", "nonempty")>>

MsgBurnNFTResponse_Unmarshal == << >>
MsgBurnNFTResponse_Marshal == << >>

MsgTransferNFT_Unmarshal ==
    <<Text(1, "ID"), Text(2, "ClassID"), Text(3, "Recipient"), Text(4, "Owner")>>
MsgTransferNFT_Marshal ==
    <<Put(<<10>>, "ID", "nonempty"), Put(<<18>>, "ClassID", "nonempty"),
      Put(<<26>>, "Recipient", "nonempty"), Put(<<34>>, "Owner", "nonempty")>>

MsgTransferNFTResponse_Unmarshal == << >>
MsgTransferNFTResponse_Marshal == << >>

MsgTransferClass_Unmarshal == <<Text(1, "ID"), Text(2, "Owner"), Text(3, "Recipient")>>
MsgTransferClass_Marshal ==
    <<Put(<<10>>, "ID", "nonempty"), Put(<<18>>, "Owner", "nonempty"),
      Put(<<26>>, "Recipient", "nonempty")>>

MsgTransferClassResponse_Unmarshal == << >>
MsgTransferClassResponse_Marshal == << >>

-----------------------------------------------------------------------------
(* modules/coinswap                                                        *)

PoolType_Unmarshal ==
    <<Number(1, "Id", "uint32"), Text(2, "Name"), Number(3, "MinReserveCoinNum", "uint32"),
      Number(4, "MaxReserveCoinNum", "uint32"), Text(5, "Description")>>
PoolType_Marshal ==
    <<Put(<<8>>, "Id", "nonzero"), Put(<<18>>, "Name", "nonempty"),
      Put(<<24>>, "MinReserveCoinNum", "nonzero"), Put(<<32>>, "MaxReserveCoinNum", "nonzero"),
      Put(<<42>>, "Description", "nonempty")>>

coinswap_Params_Unmarshal ==
    <<Messages(1, "PoolTypes", <<"coinswap", "PoolType">>), Amount(2, "MinInitDepositAmount"),
      Amount(3, "InitPoolCoinMintAmount"), Amount(4, "MaxReserveCoinAmount"),
      Messages(5, "PoolCreationFee", <<"types", "Coin">>), Decimal(6, "SwapFeeRate"),
      Decimal(7, "WithdrawFeeRate"), Decimal(8, "MaxOrderAmountRatio"),
      Number(9, "UnitBatchHeight", "uint32"), Flag(10, "CircuitBreakerEnabled")>>
coinswap_Params_Marshal ==
    <<PutMessage(<<10>>, "PoolTypes", "messages", <<"coinswap", "PoolType">>),
      Put(<<18>>, "MinInitDepositAmount", "custom"),
      Put(<<26>>, "InitPoolCoinMintAmount", "custom"),
      Put(<<34>>, "MaxReserveCoinAmount", "custom"),
      PutMessage(<<42>>, "PoolCreationFee", "messages", <<"types", "Coin">>),
      Put(<<50>>, "SwapFeeRate", "custom"), Put(<<58>>, "WithdrawFeeRate", "custom"),
      Put(<<66>>, "MaxOrderAmountRatio", "custom"), Put(<<72>>, "UnitBatchHeight", "nonzero"),
      Put(<<80>>, "CircuitBreakerEnabled", "true")>>

coinswap_Pool_Unmarshal ==
    <<Number(1, "Id", "uint64"), Number(2, "TypeId", "uint32"), List(3, "ReserveCoinDenoms"),
      Text(4, "ReserveAccountAddress"), Text(5, "PoolCoinDenom")>>
coinswap_Pool_Marshal ==
    <<Put(<<8>>, "Id", "nonzero"), Put(<<16>>, "TypeId", "nonzero"),
      Put(<<26>>, "ReserveCoinDenoms", "list"),
      Put(<<34>>, "ReserveAccountAddress", "nonempty"),
      Put(<<42>>, "PoolCoinDenom", "nonempty")>>

PoolMetadata_Unmarshal ==
    <<Number(1, "PoolId", "uint64"), Message(2, "PoolCoinTotalSupply", <<"types", "Coin">>),
      Messages(3, "ReserveCoins", <<"types", "Coin">>)>>
PoolMetadata_Marshal ==
    <<Put(<<8>>, "PoolId", "nonzero"),
      PutMessage(<<18>>, "PoolCoinTotalSupply", "message", <<"types", "Coin">>),
      PutMessage(<<26>>, "ReserveCoins", "messages", <<"types", "Coin">>)>>

PoolBatch_Unmarshal ==
    <<Number(1, "PoolId", "uint64"), Number(2, "Index", "uint64"),
      Number(3, "BeginHeight", "int64"), Number(4, "DepositMsgIndex", "uint64"),
      Number(5, "WithdrawMsgIndex", "uint64"), Number(6, "SwapMsgIndex", "uint64"),
      Flag(7, "Executed")>>
PoolBatch_Marshal ==
    <<Put(<<8>>, "PoolId", "nonzero"), Put(<<16>>, "Index", "nonzero"),
      Put(<<24>>, "BeginHeight", "nonzero"), Put(<<32>>, "DepositMsgIndex", "nonzero"),
      Put(<<40>>, "WithdrawMsgIndex", "nonzero"), Put(<<48>>, "SwapMsgIndex", "nonzero"),
      Put(<<56>>, "Executed", "true")>>

DepositMsgState_Unmarshal ==
    <<Number(1, "MsgHeight", "int64"), Number(2, "MsgIndex", "uint64"), Flag(3, "Executed"),
      Flag(4, "Succeeded"), Flag(5, "ToBeDeleted"),
      Pointer(6, "Msg", <<"coinswap", "MsgDepositWithinBatch">>)>>
DepositMsgState_Marshal ==
    <<Put(<<8>>, "MsgHeight", "nonzero"), Put(<<16>>, "MsgIndex", "nonzero"),
      Put(<<24>>, "Executed", "true"), Put(<<32>>, "Succeeded", "true"),
      Put(<<40>>, "ToBeDeleted", "true"),
      PutMessage(<<50>>, "Msg", "pointer", <<"coinswap", "MsgDepositWithinBatch">>)>>

WithdrawMsgState_Unmarshal ==
    <<Number(1, "MsgHeight", "int64"), Number(2, "MsgIndex", "uint64"), Flag(3, "Executed"),
      Flag(4, "Succeeded"), Flag(5, "ToBeDeleted"),
      Pointer(6, "Msg", <<"coinswap", "MsgWithdrawWithinBatch">>)>>
WithdrawMsgState_Marshal ==
    <<Put(<<8>>, "MsgHeight", "nonzero"), Put(<<16>>, "MsgIndex", "nonzero"),
      Put(<<24>>, "Executed", "true"), Put(<<32>>, "Succeeded", "true"),
      Put(<<40>>, "ToBeDeleted", "true"),
      PutMessage(<<50>>, "Msg", "pointer", <<"coinswap", "MsgWithdrawWithinBatch">>)>>

SwapMsgState_Unmarshal ==
    <<Number(1, "MsgHeight", "int64"), Number(2, "MsgIndex", "uint64"), Flag(3, "Executed"),
      Flag(4, "Succeeded"), Flag(5, "ToBeDeleted"), Number(6, "OrderExpiryHeight", "int64"),
      Message(7, "ExchangedOfferCoin", <<"types", "Coin">>),
      Message(8, "RemainingOfferCoin", <<"types", "Coin">>),
      Message(9, "ReservedOfferCoinFee", <<"types", "Coin">>),
      Pointer(10, "Msg", <<"coinswap", "MsgSwapWithinBatch">>)>>
SwapMsgState_Marshal ==
    <<Put(<<8>>, "MsgHeight", "nonzero"), Put(<<16>>, "MsgIndex", "nonzero"),
      Put(<<24>>, "Executed", "true"), Put(<<32>>, "Succeeded", "true"),
      Put(<<40>>, "ToBeDeleted", "true"), Put(<<48>>, "OrderExpiryHeight", "nonzero"),
      PutMessage(<<58>>, "ExchangedOfferCoin", "message", <<"types", "Coin">>),
      PutMessage(<<66>>, "RemainingOfferCoin", "message", <<"types", "Coin">>),
      PutMessage(<<74>>, "ReservedOfferCoinFee", "message", <<"types", "Coin">>),
      PutMessage(<<82>>, "Msg", "pointer", <<"coinswap", "MsgSwapWithinBatch">>)>>

SwapSuccessMsg_Unmarshal ==
    <<Number(1, "MsgHeight", "int64"), Number(2, "MsgIndex", "uint64"),
      Message(3, "ExchangedOfferCoin", <<"types", "Coin">>),
      Message(4, "RemainingOfferCoin", <<"types", "Coin">>),
      Message(5, "ReservedOfferCoinFee", <<"types", "Coin">>), Decimal(6, "SwapPrice"),
      Message(7, "GetCoin", <<"types", "Coin">>),
      Pointer(8, "Msg", <<"coinswap", "MsgSwapWithinBatch">>)>>
SwapSuccessMsg_Marshal ==
    <<Put(<<8>>, "MsgHeight", "nonzero"), Put(<<16>>, "MsgIndex", "nonzero"),
      PutMessage(<<26>>, "ExchangedOfferCoin", "message", <<"types", "Coin">>),
      PutMessage(<<34>>, "RemainingOfferCoin", "message", <<"types", "Coin">>),
      PutMessage(<<42>>, "ReservedOfferCoinFee", "message", <<"types", "Coin">>),
      Put(<<50>>, "SwapPrice", "custom"),
      PutMessage(<<58>>, "GetCoin", "message", <<"types", "Coin">>),
      PutMessage(<<66>>, "Msg", "pointer", <<"coinswap", "MsgSwapWithinBatch">>)>>

DepositSuccessMsg_Unmarshal ==
    <<Number(1, "MsgHeight", "int64"), Text(2, "DepositorAddress"),
      Number(3, "PoolId", "uint64"), Number(4, "MsgIndex", "uint64"),
      Messages(5, "DepositCoins", <<"types", "Coin">>),
      Messages(6, "InputCoins", <<"types", "Coin">>),
      Messages(7, "OutputCoins", <<"types", "Coin">>)>>
DepositSuccessMsg_Marshal ==
    <<Put(<<8>>, "MsgHeight", "nonzero"), Put(<<18>>, "DepositorAddress", "nonempty"),
      Put(<<24>>, "PoolId", "nonzero"), Put(<<32>>, "MsgIndex", "nonzero"),
      PutMessage(<<42>>, "DepositCoins", "messages", <<"types", "Coin">>),
      PutMessage(<<50>>, "InputCoins", "messages", <<"types", "Coin">>),
      PutMessage(<<58>>, "OutputCoins", "messages", <<"types", "Coin">>)>>

WithdrawSuccessMsg_Unmarshal ==
    <<Number(1, "MsgHeight", "int64"), Number(2, "MsgIndex", "uint64"),
      Messages(3, "WithdrawCoins", <<"types", "Coin">>),
      Messages(4, "WithdrawFeeCoins", <<"types", "Coin">>),
      Pointer(5, "Msg", <<"coinswap", "MsgWithdrawWithinBatch">>)>>
WithdrawSuccessMsg_Marshal ==
    <<Put(<<8>>, "MsgHeight", "nonzero"), Put(<<16>>, "MsgIndex", "nonzero"),
      PutMessage(<<26>>, "WithdrawCoins", "messages", <<"types", "Coin">>),
      PutMessage(<<34>>, "WithdrawFeeCoins", "messages", <<"types", "Coin">>),
      PutMessage(<<42>>, "Msg", "pointer", <<"coinswap", "MsgWithdrawWithinBatch">>)>>

PoolRecord_Unmarshal ==
    <<Message(1, "Pool", <<"coinswap", "Pool">>),
      Message(2, "PoolMetadata", <<"coinswap", "PoolMetadata">>),
      Message(3, "PoolBatch", <<"coinswap", "PoolBatch">>),
      Messages(4, "DepositMsgStates", <<"coinswap", "DepositMsgState">>),
      Messages(5, "WithdrawMsgStates", <<"coinswap", "WithdrawMsgState">>),
      Messages(6, "SwapMsgStates", <<"coinswap", "SwapMsgState">>)>>
PoolRecord_Marshal ==
    <<PutMessage(<<10>>, "Pool", "message", <<"coinswap", "Pool">>),
      PutMessage(<<18>>, "PoolMetadata", "message", <<"coinswap", "PoolMetadata">>),
      PutMessage(<<26>>, "PoolBatch", "message", <<"coinswap", "PoolBatch">>),
      PutMessage(<<34>>, "DepositMsgStates", "messages", <<"coinswap", "DepositMsgState">>),
      PutMessage(<<42>>, "WithdrawMsgStates", "messages", <<"coinswap", "WithdrawMsgState">>),
      PutMessage(<<50>>, "SwapMsgStates", "messages", <<"coinswap", "SwapMsgState">>)>>

GenesisState_Unmarshal ==
    <<Message(1, "Params", <<"coinswap", "Params">>),
      Messages(2, "PoolRecords", <<"coinswap", "PoolRecord">>)>>
GenesisState_Marshal ==
    <<PutMessage(<<10>>, "Params", "message", <<"coinswap", "Params">>),
      PutMessage(<<18>>, "PoolRecords", "messages", <<"coinswap", "PoolRecord">>)>>

QueryPoolWithdrawSuccessMsgsRequest_Unmarshal ==
    <<Number(1, "PoolId", "uint64"), Text(2, "WithdrawAddress"),
      Pointer(3, "Pagination", <<"query", "PageRequest">>)>>
QueryPoolWithdrawSuccessMsgsRequest_Marshal ==
    <<Put(<<8>>, "PoolId", "nonzero"), Put(<<18>>, "WithdrawAddress", "nonempty"),
      PutMessage(<<26>>, "Pagination", "pointer", <<"query", "PageRequest">>)>>

QueryPoolWithdrawSuccessMsgRequest_Unmarshal ==
    <<Number(1, "PoolId", "uint64"), Number(2, "MsgIndex", "uint64")>>
QueryPoolWithdrawSuccessMsgRequest_Marshal ==
    <<Put(<<8>>, "PoolId", "nonzero"), Put(<<16>>, "MsgIndex", "nonzero")>>

QueryPoolWithdrawSuccessMsgsResponse_Unmarshal ==
    <<Messages(1, "Withdraws", <<"coinswap", "WithdrawSuccessMsg">>),
      Pointer(2, "Pagination", <<"query", "PageResponse">>)>>
QueryPoolWithdrawSuccessMsgsResponse_Marshal ==
    <<PutMessage(<<10>>, "Withdraws", "messages", <<"coinswap", "WithdrawSuccessMsg">>),
      PutMessage(<<18>>, "Pagination", "pointer", <<"query", "PageResponse">>)>>

QueryPoolWithdrawSuccessMsgResponse_Unmarshal ==
    <<Message(1, "Withdraw", <<"coinswap", "WithdrawSuccessMsg">>)>>
QueryPoolWithdrawSuccessMsgResponse_Marshal ==
    <<PutMessage(<<10>>, "Withdraw", "message", <<"coinswap", "WithdrawSuccessMsg">>)>>

QueryPoolSwapSuccessMsgsRequest_Unmarshal ==
    <<Number(1, "PoolId", "uint64"), Text(2, "SwapAddress"),
      Pointer(3, "Pagination", <<"query", "PageRequest">>)>>
QueryPoolSwapSuccessMsgsRequest_Marshal ==
    <<Put(<<8>>, "PoolId", "nonzero"), Put(<<18>>, "SwapAddress", "nonempty"),
      PutMessage(<<26>>, "Pagination", "pointer", <<"query", "PageRequest">>)>>

QueryPoolSwapSuccessMsgRequest_Unmarshal ==
    <<Number(1, "PoolId", "uint64"), Number(2, "MsgIndex", "uint64")>>
QueryPoolSwapSuccessMsgRequest_Marshal ==
    <<Put(<<8>>, "PoolId", "nonzero"), Put(<<16>>, "MsgIndex", "nonzero")>>

QueryPoolSwapSuccessMsgsResponse_Unmarshal ==
    <<Messages(1, "Swaps", <<"coinswap", "SwapSuccessMsg">>),
      Pointer(2, "Pagination", <<"query", "PageResponse">>)>>
QueryPoolSwapSuccessMsgsResponse_Marshal ==
    <<PutMessage(<<10>>, "Swaps", "messages", <<"coinswap", "SwapSuccessMsg">>),
      PutMessage(<<18>>, "Pagination", "pointer", <<"query", "PageResponse">>)>>

QueryPoolSwapSuccessMsgResponse_Unmarshal ==
    <<Message(1, "Swap", <<"coinswap", "SwapSuccessMsg">>)>>
QueryPoolSwapSuccessMsgResponse_Marshal ==
    <<PutMessage(<<10>>, "Swap", "message", <<"coinswap", "SwapSuccessMsg">>)>>

QueryPoolDepositSuccessMsgsRequest_Unmarshal ==
    <<Number(1, "PoolId", "uint64"), Text(2, "DepositorAddress"),
      Pointer(3, "Pagination", <<"query", "PageRequest">>)>>
QueryPoolDepositSuccessMsgsRequest_Marshal ==
    <<Put(<<8>>, "PoolId", "nonzero"), Put(<<18>>, "DepositorAddress", "nonempty"),
      PutMessage(<<26>>, "Pagination", "pointer", <<"query", "PageRequest">>)>>

QueryPoolDepositSuccessMsgRequest_Unmarshal ==
    <<Number(1, "PoolId", "uint64"), Number(2, "MsgIndex", "uint64")>>
QueryPoolDepositSuccessMsgRequest_Marshal ==
    <<Put(<<8>>, "PoolId", "nonzero"), Put(<<16>>, "MsgIndex", "nonzero")>>

QueryPoolDepositSuccessMsgsResponse_Unmarshal ==
    <<Messages(1, "Deposits", <<"coinswap", "DepositSuccessMsg">>),
      Pointer(2, "Pagination", <<"query", "PageResponse">>)>>
QueryPoolDepositSuccessMsgsResponse_Marshal ==
    <<PutMessage(<<10>>, "Deposits", "messages", <<"coinswap", "DepositSuccessMsg">>),
      PutMessage(<<18>>, "Pagination", "pointer", <<"query", "PageResponse">>)>>

QueryPoolDepositSuccessMsgResponse_Unmarshal ==
    <<Message(1, "Deposit", <<"coinswap", "DepositSuccessMsg">>)>>
QueryPoolDepositSuccessMsgResponse_Marshal ==
    <<PutMessage(<<10>>, "Deposit", "message", <<"coinswap", "DepositSuccessMsg">>)>>

QueryLiquidityPoolRequest_Unmarshal == <<Number(1, "PoolId", "uint64")>>
QueryLiquidityPoolRequest_Marshal == <<Put(<<8>>, "PoolId", "nonzero")>>

QueryLiquidityPoolResponse_Unmarshal == <<Message(1, "Pool", <<"coinswap", "Pool">>)>>
QueryLiquidityPoolResponse_Marshal ==
    <<PutMessage(<<10>>, "Pool", "message", <<"coinswap", "Pool">>)>>

QueryLiquidityPoolByPoolCoinDenomRequest_Unmarshal == <<Text(1, "PoolCoinDenom")>>
QueryLiquidityPoolByPoolCoinDenomRequest_Marshal == <<Put(<<10>>, "PoolCoinDenom", "nonempty")>>

QueryLiquidityPoolByReserveAccRequest_Unmarshal == <<Text(1, "ReserveAcc")>>
QueryLiquidityPoolByReserveAccRequest_Marshal == <<Put(<<10>>, "ReserveAcc", "nonempty")>>

QueryLiquidityPoolBatchRequest_Unmarshal == <<Number(1, "PoolId", "uint64")>>
QueryLiquidityPoolBatchRequest_Marshal == <<Put(<<8>>, "PoolId", "nonzero")>>

QueryLiquidityPoolBatchResponse_Unmarshal ==
    <<Message(1, "Batch", <<"coinswap", "PoolBatch">>)>>
QueryLiquidityPoolBatchResponse_Marshal ==
    <<PutMessage(<<10>>, "Batch", "message", <<"coinswap", "PoolBatch">>)>>

QueryLiquidityPoolsRequest_Unmarshal == <<Pointer(1, "Pagination", <<"query", "PageRequest">>)>>
QueryLiquidityPoolsRequest_Marshal ==
    <<PutMessage(<<10>>, "Pagination", "pointer", <<"query", "PageRequest">>)>>

QueryLiquidityPoolsResponse_Unmarshal ==
    <<Messages(1, "Pools", <<"coinswap", "Pool">>),
      Pointer(2, "Pagination", <<"query", "PageResponse">>)>>
QueryLiquidityPoolsResponse_Marshal ==
    <<PutMessage(<<10>>, "Pools", "messages", <<"coinswap", "Pool">>),
      PutMessage(<<18>>, "Pagination", "pointer", <<"query", "PageResponse">>)>>

coinswap_QueryParamsRequest_Unmarshal == << >>
coinswap_QueryParamsRequest_Marshal == << >>

coinswap_QueryParamsResponse_Unmarshal == <<Message(1, "Params", <<"coinswap", "Params">>)>>
coinswap_QueryParamsResponse_Marshal ==
    <<PutMessage(<<10>>, "Params", "message", <<"coinswap", "Params">>)>>

QueryPoolBatchSwapMsgsRequest_Unmarshal ==
    <<Number(1, "PoolId", "uint64"), Pointer(2, "Pagination", <<"query", "PageRequest">>)>>
QueryPoolBatchSwapMsgsRequest_Marshal ==
    <<Put(<<8>>, "PoolId", "nonzero"),
      PutMessage(<<18>>, "Pagination", "pointer", <<"query", "PageRequest">>)>>

QueryPoolBatchSwapMsgRequest_Unmarshal ==
    <<Number(1, "PoolId", "uint64"), Number(2, "MsgIndex", "uint64")>>
QueryPoolBatchSwapMsgRequest_Marshal ==
    <<Put(<<8>>, "PoolId", "nonzero"), Put(<<16>>, "MsgIndex", "nonzero")>>

QueryPoolBatchSwapMsgsResponse_Unmarshal ==
    <<Messages(1, "Swaps", <<"coinswap", "SwapMsgState">>),
      Pointer(2, "Pagination", <<"query", "PageResponse">>)>>
QueryPoolBatchSwapMsgsResponse_Marshal ==
    <<PutMessage(<<10>>, "Swaps", "messages", <<"coinswap", "SwapMsgState">>),
      PutMessage(<<18>>, "Pagination", "pointer", <<"query", "PageResponse">>)>>

QueryPoolBatchSwapMsgResponse_Unmarshal ==
    <<Message(1, "Swap", <<"coinswap", "SwapMsgState">>)>>
QueryPoolBatchSwapMsgResponse_Marshal ==
    <<PutMessage(<<10>>, "Swap", "message", <<"coinswap", "SwapMsgState">>)>>

QueryPoolBatchDepositMsgsRequest_Unmarshal ==
    <<Number(1, "PoolId", "uint64"), Pointer(2, "Pagination", <<"query", "PageRequest">>)>>
QueryPoolBatchDepositMsgsRequest_Marshal ==
    <<Put(<<8>>, "PoolId", "nonzero"),
      PutMessage(<<18>>, "Pagination", "pointer", <<"query", "PageRequest">>)>>

QueryPoolBatchDepositMsgRequest_Unmarshal ==
    <<Number(1, "PoolId", "uint64"), Number(2, "MsgIndex", "uint64")>>
QueryPoolBatchDepositMsgRequest_Marshal ==
    <<Put(<<8>>, "PoolId", "nonzero"), Put(<<16>>, "MsgIndex", "nonzero")>>

QueryPoolBatchDepositMsgsResponse_Unmarshal ==
    <<Messages(1, "Deposits", <<"coinswap", "DepositMsgState">>),
      Pointer(2, "Pagination", <<"query", "PageResponse">>)>>
QueryPoolBatchDepositMsgsResponse_Marshal ==
    <<PutMessage(<<10>>, "Deposits", "messages", <<"coinswap", "DepositMsgState">>),
      PutMessage(<<18>>, "Pagination", "pointer", <<"query", "PageResponse">>)>>

QueryPoolBatchDepositMsgResponse_Unmarshal ==
    <<Message(1, "Deposit", <<"coinswap", "DepositMsgState">>)>>
QueryPoolBatchDepositMsgResponse_Marshal ==
    <<PutMessage(<<10>>, "Deposit", "message", <<"coinswap", "DepositMsgState">>)>>

QueryPoolBatchWithdrawMsgsRequest_Unmarshal ==
    <<Number(1, "PoolId", "uint64"), Pointer(2, "Pagination", <<"query", "PageRequest">>)>>
QueryPoolBatchWithdrawMsgsRequest_Marshal ==
    <<Put(<<8>>, "PoolId", "nonzero"),
      PutMessage(<<18>>, "Pagination", "pointer", <<"query", "PageRequest">>)>>

QueryPoolBatchWithdrawMsgRequest_Unmarshal ==
    <<Number(1, "PoolId", "uint64"), Number(2, "MsgIndex", "uint64")>>
QueryPoolBatchWithdrawMsgRequest_Marshal ==
    <<Put(<<8>>, "PoolId", "nonzero"), Put(<<16>>, "MsgIndex", "nonzero")>>

QueryPoolBatchWithdrawMsgsResponse_Unmarshal ==
    <<Messages(1, "Withdraws", <<"coinswap", "WithdrawMsgState">>),
      Pointer(2, "Pagination", <<"query", "PageResponse">>)>>
QueryPoolBatchWithdrawMsgsResponse_Marshal ==
    <<PutMessage(<<10>>, "Withdraws", "messages", <<"coinswap", "WithdrawMsgState">>),
      PutMessage(<<18>>, "Pagination", "pointer", <<"query", "PageResponse">>)>>

QueryPoolBatchWithdrawMsgResponse_Unmarshal ==
    <<Message(1, "Withdraw", <<"coinswap", "WithdrawMsgState">>)>>
QueryPoolBatchWithdrawMsgResponse_Marshal ==
    <<PutMessage(<<10>>, "Withdraw", "message", <<"coinswap", "WithdrawMsgState">>)>>

MsgCreatePool_Unmarshal ==
    <<Text(1, "PoolCreatorAddress"), Number(2, "PoolTypeId", "uint32"),
      Messages(4, "DepositCoins", <<"types", "Coin">>)>>
MsgCreatePool_Marshal ==
    <<Put(<<10>>, "PoolCreatorAddress", "nonempty"), Put(<<16>>, "PoolTypeId", "nonzero"),
      PutMessage(<<34>>, "DepositCoins", "messages", <<"types", "Coin">>)>>

MsgCreatePoolResponse_Unmarshal == << >>
MsgCreatePoolResponse_Marshal == << >>

MsgDepositWithinBatch_Unmarshal ==
    <<Text(1, "DepositorAddress"), Number(2, "PoolId", "uint64"),
      Messages(3, "DepositCoins", <<"types", "Coin">>)>>
MsgDepositWithinBatch_Marshal ==
    <<Put(<<10>>, "DepositorAddress", "nonempty"), Put(<<16>>, "PoolId", "nonzero"),
      PutMessage(<<26>>, "DepositCoins", "messages", <<"types", "Coin">>)>>

MsgDepositWithinBatchResponse_Unmarshal == << >>
MsgDepositWithinBatchResponse_Marshal == << >>

MsgWithdrawWithinBatch_Unmarshal ==
    <<Text(1, "WithdrawerAddress"), Number(2, "PoolId", "uint64"),
      Message(3, "PoolCoin", <<"types", "Coin">>)>>
MsgWithdrawWithinBatch_Marshal ==
    <<Put(<<10>>, "WithdrawerAddress", "nonempty"), Put(<<16>>, "PoolId", "nonzero"),
      PutMessage(<<26>>, "PoolCoin", "message", <<"types", "Coin">>)>>

MsgWithdrawWithinBatchResponse_Unmarshal == << >>
MsgWithdrawWithinBatchResponse_Marshal == << >>

MsgSwapWithinBatch_Unmarshal ==
    <<Text(1, "SwapRequesterAddress"), Number(2, "PoolId", "uint64"),
      Number(3, "SwapTypeId", "uint32"), Message(4, "OfferCoin", <<"types", "Coin">>),
      Text(5, "DemandCoinDenom"), Message(6, "OfferCoinFee", <<"types", "Coin">>),
      Decimal(7, "OrderPrice")>>
MsgSwapWithinBatch_Marshal ==
    <<Put(<<10>>, "SwapRequesterAddress", "nonempty"), Put(<<16>>, "PoolId", "nonzero"),
      Put(<<24>>, "SwapTypeId", "nonzero"),
      PutMessage(<<34>>, "OfferCoin", "message", <<"types", "Coin">>),
      Put(<<42>>, "DemandCoinDenom", "nonempty"),
      PutMessage(<<50>>, "OfferCoinFee", "message", <<"types", "Coin">>),
      Put(<<58>>, "OrderPrice", "custom")>>

MsgSwapWithinBatchResponse_Unmarshal == << >>
MsgSwapWithinBatchResponse_Marshal == << >>

-----------------------------------------------------------------------------
NftReaders ==
    [NFT |-> NFT_Unmarshal, Class |-> Class_Unmarshal, Collection |-> Collection_Unmarshal,
     CollectionID |-> CollectionID_Unmarshal, Owner |-> Owner_Unmarshal,
     QueryClassRequest |-> QueryClassRequest_Unmarshal,
     QueryClassResponse |-> QueryClassResponse_Unmarshal,
     QueryClassesRequest |-> QueryClassesRequest_Unmarshal,
     QueryClassesResponse |-> QueryClassesResponse_Unmarshal,
     QueryNFTRequest |-> QueryNFTRequest_Unmarshal,
     QueryNFTResponse |-> QueryNFTResponse_Unmarshal,
     QueryCollectionRequest |-> QueryCollectionRequest_Unmarshal,
     QueryCollectionResponse |-> QueryCollectionResponse_Unmarshal,
     QuerySupplyRequest |-> QuerySupplyRequest_Unmarshal,
     QuerySupplyResponse |-> QuerySupplyResponse_Unmarshal,
     QueryOwnerRequest |-> QueryOwnerRequest_Unmarshal,
     QueryOwnerResponse |-> QueryOwnerResponse_Unmarshal,
     MsgIssueClass |-> MsgIssueClass_Unmarshal,
     MsgIssueClassResponse |-> MsgIssueClassResponse_Unmarshal,
     MsgIssueNFT |-> MsgIssueNFT_Unmarshal,
     MsgIssueNFTResponse |-> MsgIssueNFTResponse_Unmarshal, MsgEditNFT |-> MsgEditNFT_Unmarshal,
     MsgEditNFTResponse |-> MsgEditNFTResponse_Unmarshal, MsgBurnNFT |-> MsgBurnNFT_Unmarshal,
     MsgBurnNFTResponse |-> MsgBurnNFTResponse_Unmarshal,
     MsgTransferNFT |-> MsgTransferNFT_Unmarshal,
     MsgTransferNFTResponse |-> MsgTransferNFTResponse_Unmarshal,
     MsgTransferClass |-> MsgTransferClass_Unmarshal,
     MsgTransferClassResponse |-> MsgTransferClassResponse_Unmarshal]

CoinswapReaders ==
    [PoolType |-> PoolType_Unmarshal, Params |-> coinswap_Params_Unmarshal,
     Pool |-> coinswap_Pool_Unmarshal, PoolMetadata |-> PoolMetadata_Unmarshal,
     PoolBatch |-> PoolBatch_Unmarshal, DepositMsgState |-> DepositMsgState_Unmarshal,
     WithdrawMsgState |-> WithdrawMsgState_Unmarshal, SwapMsgState |-> SwapMsgState_Unmarshal,
     SwapSuccessMsg |-> SwapSuccessMsg_Unmarshal,
     DepositSuccessMsg |-> DepositSuccessMsg_Unmarshal,
     WithdrawSuccessMsg |-> WithdrawSuccessMsg_Unmarshal, PoolRecord |-> PoolRecord_Unmarshal,
     GenesisState |-> GenesisState_Unmarshal,
     QueryPoolWithdrawSuccessMsgsRequest |-> QueryPoolWithdrawSuccessMsgsRequest_Unmarshal,
     QueryPoolWithdrawSuccessMsgRequest |-> QueryPoolWithdrawSuccessMsgRequest_Unmarshal,
     QueryPoolWithdrawSuccessMsgsResponse |-> QueryPoolWithdrawSuccessMsgsResponse_Unmarshal,
     QueryPoolWithdrawSuccessMsgResponse |-> QueryPoolWithdrawSuccessMsgResponse_Unmarshal,
     QueryPoolSwapSuccessMsgsRequest |-> QueryPoolSwapSuccessMsgsRequest_Unmarshal,
     QueryPoolSwapSuccessMsgRequest |-> QueryPoolSwapSuccessMsgRequest_Unmarshal,
     QueryPoolSwapSuccessMsgsResponse |-> QueryPoolSwapSuccessMsgsResponse_Unmarshal,
     QueryPoolSwapSuccessMsgResponse |-> QueryPoolSwapSuccessMsgResponse_Unmarshal,
     QueryPoolDepositSuccessMsgsRequest |-> QueryPoolDepositSuccessMsgsRequest_Unmarshal,
     QueryPoolDepositSuccessMsgRequest |-> QueryPoolDepositSuccessMsgRequest_Unmarshal,
     QueryPoolDepositSuccessMsgsResponse |-> QueryPoolDepositSuccessMsgsResponse_Unmarshal,
     QueryPoolDepositSuccessMsgResponse |-> QueryPoolDepositSuccessMsgResponse_Unmarshal,
     QueryLiquidityPoolRequest |-> QueryLiquidityPoolRequest_Unmarshal,
     QueryLiquidityPoolResponse |-> QueryLiquidityPoolResponse_Unmarshal,
     QueryLiquidityPoolByPoolCoinDenomRequest |-> QueryLiquidityPoolByPoolCoinDenomRequest_Unmarshal,
     QueryLiquidityPoolByReserveAccRequest |-> QueryLiquidityPoolByReserveAccRequest_Unmarshal,
     QueryLiquidityPoolBatchRequest |-> QueryLiquidityPoolBatchRequest_Unmarshal,
     QueryLiquidityPoolBatchResponse |-> QueryLiquidityPoolBatchResponse_Unmarshal,
     QueryLiquidityPoolsRequest |-> QueryLiquidityPoolsRequest_Unmarshal,
     QueryLiquidityPoolsResponse |-> QueryLiquidityPoolsResponse_Unmarshal,
     QueryParamsRequest |-> coinswap_QueryParamsRequest_Unmarshal,
     QueryParamsResponse |-> coinswap_QueryParamsResponse_Unmarshal,
     QueryPoolBatchSwapMsgsRequest |-> QueryPoolBatchSwapMsgsRequest_Unmarshal,
     QueryPoolBatchSwapMsgRequest |-> QueryPoolBatchSwapMsgRequest_Unmarshal,
     QueryPoolBatchSwapMsgsResponse |-> QueryPoolBatchSwapMsgsResponse_Unmarshal,
     QueryPoolBatchSwapMsgResponse |-> QueryPoolBatchSwapMsgResponse_Unmarshal,
     QueryPoolBatchDepositMsgsRequest |-> QueryPoolBatchDepositMsgsRequest_Unmarshal,
     QueryPoolBatchDepositMsgRequest |-> QueryPoolBatchDepositMsgRequest_Unmarshal,
     QueryPoolBatchDepositMsgsResponse |-> QueryPoolBatchDepositMsgsResponse_Unmarshal,
     QueryPoolBatchDepositMsgResponse |-> QueryPoolBatchDepositMsgResponse_Unmarshal,
     QueryPoolBatchWithdrawMsgsRequest |-> QueryPoolBatchWithdrawMsgsRequest_Unmarshal,
     QueryPoolBatchWithdrawMsgRequest |-> QueryPoolBatchWithdrawMsgRequest_Unmarshal,
     QueryPoolBatchWithdrawMsgsResponse |-> QueryPoolBatchWithdrawMsgsResponse_Unmarshal,
     QueryPoolBatchWithdrawMsgResponse |-> QueryPoolBatchWithdrawMsgResponse_Unmarshal,
     MsgCreatePool |-> MsgCreatePool_Unmarshal,
     MsgCreatePoolResponse |-> MsgCreatePoolResponse_Unmarshal,
     MsgDepositWithinBatch |-> MsgDepositWithinBatch_Unmarshal,
     MsgDepositWithinBatchResponse |-> MsgDepositWithinBatchResponse_Unmarshal,
     MsgWithdrawWithinBatch |-> MsgWithdrawWithinBatch_Unmarshal,
     MsgWithdrawWithinBatchResponse |-> MsgWithdrawWithinBatchResponse_Unmarshal,
     MsgSwapWithinBatch |-> MsgSwapWithinBatch_Unmarshal,
     MsgSwapWithinBatchResponse |-> MsgSwapWithinBatchResponse_Unmarshal]

NftWriters ==
    [NFT |-> NFT_Marshal, Class |-> Class_Marshal, Collection |-> Collection_Marshal,
     CollectionID |-> CollectionID_Marshal, Owner |-> Owner_Marshal,
     QueryClassRequest |-> QueryClassRequest_Marshal,
     QueryClassResponse |-> QueryClassResponse_Marshal,
     QueryClassesRequest |-> QueryClassesRequest_Marshal,
     QueryClassesResponse |-> QueryClassesResponse_Marshal,
     QueryNFTRequest |-> QueryNFTRequest_Marshal, QueryNFTResponse |-> QueryNFTResponse_Marshal,
     QueryCollectionRequest |-> QueryCollectionRequest_Marshal,
     QueryCollectionResponse |-> QueryCollectionResponse_Marshal,
     QuerySupplyRequest |-> QuerySupplyRequest_Marshal,
     QuerySupplyResponse |-> QuerySupplyResponse_Marshal,
     QueryOwnerRequest |-> QueryOwnerRequest_Marshal,
     QueryOwnerResponse |-> QueryOwnerResponse_Marshal, MsgIssueClass |-> MsgIssueClass_Marshal,
     MsgIssueClassResponse |-> MsgIssueClassResponse_Marshal,
     MsgIssueNFT |-> MsgIssueNFT_Marshal, MsgIssueNFTResponse |-> MsgIssueNFTResponse_Marshal,
     MsgEditNFT |-> MsgEditNFT_Marshal, MsgEditNFTResponse |-> MsgEditNFTResponse_Marshal,
     MsgBurnNFT |-> MsgBurnNFT_Marshal, MsgBurnNFTResponse |-> MsgBurnNFTResponse_Marshal,
     MsgTransferNFT |-> MsgTransferNFT_Marshal,
     MsgTransferNFTResponse |-> MsgTransferNFTResponse_Marshal,
     MsgTransferClass |-> MsgTransferClass_Marshal,
     MsgTransferClassResponse |-> MsgTransferClassResponse_Marshal]

CoinswapWriters ==
    [PoolType |-> PoolType_Marshal, Params |-> coinswap_Params_Marshal,
     Pool |-> coinswap_Pool_Marshal, PoolMetadata |-> PoolMetadata_Marshal,
     PoolBatch |-> PoolBatch_Marshal, DepositMsgState |-> DepositMsgState_Marshal,
     WithdrawMsgState |-> WithdrawMsgState_Marshal, SwapMsgState |-> SwapMsgState_Marshal,
     SwapSuccessMsg |-> SwapSuccessMsg_Marshal, DepositSuccessMsg |-> DepositSuccessMsg_Marshal,
     WithdrawSuccessMsg |-> WithdrawSuccessMsg_Marshal, PoolRecord |-> PoolRecord_Marshal,
     GenesisState |-> GenesisState_Marshal,
     QueryPoolWithdrawSuccessMsgsRequest |-> QueryPoolWithdrawSuccessMsgsRequest_Marshal,
     QueryPoolWithdrawSuccessMsgRequest |-> QueryPoolWithdrawSuccessMsgRequest_Marshal,
     QueryPoolWithdrawSuccessMsgsResponse |-> QueryPoolWithdrawSuccessMsgsResponse_Marshal,
     QueryPoolWithdrawSuccessMsgResponse |-> QueryPoolWithdrawSuccessMsgResponse_Marshal,
     QueryPoolSwapSuccessMsgsRequest |-> QueryPoolSwapSuccessMsgsRequest_Marshal,
     QueryPoolSwapSuccessMsgRequest |-> QueryPoolSwapSuccessMsgRequest_Marshal,
     QueryPoolSwapSuccessMsgsResponse |-> QueryPoolSwapSuccessMsgsResponse_Marshal,
     QueryPoolSwapSuccessMsgResponse |-> QueryPoolSwapSuccessMsgResponse_Marshal,
     QueryPoolDepositSuccessMsgsRequest |-> QueryPoolDepositSuccessMsgsRequest_Marshal,
     QueryPoolDepositSuccessMsgRequest |-> QueryPoolDepositSuccessMsgRequest_Marshal,
     QueryPoolDepositSuccessMsgsResponse |-> QueryPoolDepositSuccessMsgsResponse_Marshal,
     QueryPoolDepositSuccessMsgResponse |-> QueryPoolDepositSuccessMsgResponse_Marshal,
     QueryLiquidityPoolRequest |-> QueryLiquidityPoolRequest_Marshal,
     QueryLiquidityPoolResponse |-> QueryLiquidityPoolResponse_Marshal,
     QueryLiquidityPoolByPoolCoinDenomRequest |-> QueryLiquidityPoolByPoolCoinDenomRequest_Marshal,
     QueryLiquidityPoolByReserveAccRequest |-> QueryLiquidityPoolByReserveAccRequest_Marshal,
     QueryLiquidityPoolBatchRequest |-> QueryLiquidityPoolBatchRequest_Marshal,
     QueryLiquidityPoolBatchResponse |-> QueryLiquidityPoolBatchResponse_Marshal,
     QueryLiquidityPoolsRequest |-> QueryLiquidityPoolsRequest_Marshal,
     QueryLiquidityPoolsResponse |-> QueryLiquidityPoolsResponse_Marshal,
     QueryParamsRequest |-> coinswap_QueryParamsRequest_Marshal,
     QueryParamsResponse |-> coinswap_QueryParamsResponse_Marshal,
     QueryPoolBatchSwapMsgsRequest |-> QueryPoolBatchSwapMsgsRequest_Marshal,
     QueryPoolBatchSwapMsgRequest |-> QueryPoolBatchSwapMsgRequest_Marshal,
     QueryPoolBatchSwapMsgsResponse |-> QueryPoolBatchSwapMsgsResponse_Marshal,
     QueryPoolBatchSwapMsgResponse |-> QueryPoolBatchSwapMsgResponse_Marshal,
     QueryPoolBatchDepositMsgsRequest |-> QueryPoolBatchDepositMsgsRequest_Marshal,
     QueryPoolBatchDepositMsgRequest |-> QueryPoolBatchDepositMsgRequest_Marshal,
     QueryPoolBatchDepositMsgsResponse |-> QueryPoolBatchDepositMsgsResponse_Marshal,
     QueryPoolBatchDepositMsgResponse |-> QueryPoolBatchDepositMsgResponse_Marshal,
     QueryPoolBatchWithdrawMsgsRequest |-> QueryPoolBatchWithdrawMsgsRequest_Marshal,
     QueryPoolBatchWithdrawMsgRequest |-> QueryPoolBatchWithdrawMsgRequest_Marshal,
     QueryPoolBatchWithdrawMsgsResponse |-> QueryPoolBatchWithdrawMsgsResponse_Marshal,
     QueryPoolBatchWithdrawMsgResponse |-> QueryPoolBatchWithdrawMsgResponse_Marshal,
     MsgCreatePool |-> MsgCreatePool_Marshal,
     MsgCreatePoolResponse |-> MsgCreatePoolResponse_Marshal,
     MsgDepositWithinBatch |-> MsgDepositWithinBatch_Marshal,
     MsgDepositWithinBatchResponse |-> MsgDepositWithinBatchResponse_Marshal,
     MsgWithdrawWithinBatch |-> MsgWithdrawWithinBatch_Marshal,
     MsgWithdrawWithinBatchResponse |-> MsgWithdrawWithinBatchResponse_Marshal,
     MsgSwapWithinBatch |-> MsgSwapWithinBatch_Marshal,
     MsgSwapWithinBatchResponse |-> MsgSwapWithinBatchResponse_Marshal]

AllReaders ==
    [types |-> TypesReaders, query |-> QueryReaders, kv |-> KvReaders, any |-> AnyReaders,
     tx |-> TxReaders, signing |-> SigningReaders, crypto |-> CryptoReaders,
     multisig |-> MultisigReaders, secp256k1 |-> Secp256k1Readers, ed25519 |-> Ed25519Readers,
     auth |-> AuthReaders, bank |-> BankReaders, token |-> TokenReaders,
     staking |-> StakingReaders, gov |-> GovReaders, nft |-> NftReaders,
     coinswap |-> CoinswapReaders,
     tendermint |-> [Event |-> Event_Unmarshal, Header |-> Header_Unmarshal],
     std |-> [Timestamp |-> Timestamp_Unmarshal, Duration |-> Timestamp_Unmarshal]]

AllWriters ==
    [types |-> TypesWriters, query |-> QueryWriters, kv |-> KvWriters, any |-> AnyWriters,
     tx |-> TxWriters, signing |-> SigningWriters, crypto |-> CryptoWriters,
     multisig |-> MultisigWriters, secp256k1 |-> Secp256k1Writers, ed25519 |-> Ed25519Writers,
     auth |-> AuthWriters, bank |-> BankWriters, token |-> TokenWriters,
     staking |-> StakingWriters, gov |-> GovWriters, nft |-> NftWriters,
     coinswap |-> CoinswapWriters,
     tendermint |-> [Event |-> Event_Marshal, Header |-> Header_Marshal],
     std |-> [Timestamp |-> Timestamp_Marshal, Duration |-> Timestamp_Marshal]]

\* The packages whose messages the client generates.
Packages == DOMAIN AllReaders \ {"tendermint", "std"}
AllTypes == UNION {{<<p, m>> : m \in DOMAIN AllReaders[p]} : p \in Packages}
=============================================================================

-------------------------- MODULE StakingMessages ---------------------------
(* The tables of staking and gov. *)
EXTENDS CoreMessages

-----------------------------------------------------------------------------
(* modules/staking                                                         *)

QueryValidatorsRequest_Unmarshal ==
    <<Text(1, "Status"), Pointer(2, "Pagination", <<"query", "PageRequest">>)>>
QueryValidatorsRequest_Marshal ==
    <<Put(<<10>>, "Status", "nonempty"),
      PutMessage(<<18>>, "Pagination", "pointer", <<"query", "PageRequest">>)>>

QueryValidatorsResponse_Unmarshal ==
    <<Messages(1, "Validators", <<"staking", "Validator">>),
      Pointer(2, "Pagination", <<"query", "PageResponse">>)>>
QueryValidatorsResponse_Marshal ==
    <<PutMessage(<<10>>, "Validators", "messages", <<"staking", "Validator">>),
      PutMessage(<<18>>, "Pagination", "pointer", <<"query", "PageResponse">>)>>

QueryValidatorRequest_Unmarshal == <<Text(1, "ValidatorAddr")>>
QueryValidatorRequest_Marshal == <<Put(<<10>>, "ValidatorAddr", "nonempty")>>

QueryValidatorResponse_Unmarshal == <<Message(1, "Validator", <<"staking", "Validator">>)>>
QueryValidatorResponse_Marshal ==
    <<PutMessage(<<10>>, "Validator", "message", <<"staking", "Validator">>)>>

QueryValidatorDelegationsRequest_Unmarshal ==
    <<Text(1, "ValidatorAddr"), Pointer(2, "Pagination", <<"query", "PageRequest">>)>>
QueryValidatorDelegationsRequest_Marshal ==
    <<Put(<<10>>, "ValidatorAddr", "nonempty"),
      PutMessage(<<18>>, "Pagination", "pointer", <<"query", "PageRequest">>)>>

QueryValidatorDelegationsResponse_Unmarshal ==
    <<Messages(1, "DelegationResponses", <<"staking", "DelegationResponse">>),
      Pointer(2, "Pagination", <<"query", "PageResponse">>)>>
QueryValidatorDelegationsResponse_Marshal ==
    <<PutMessage(<<10>>, "DelegationResponses", "messages", <<"staking", "DelegationResponse">>),
      PutMessage(<<18>>, "Pagination", "pointer", <<"query", "PageResponse">>)>>

QueryValidatorUnbondingDelegationsRequest_Unmarshal ==
    <<Text(1, "ValidatorAddr"), Pointer(2, "Pagination", <<"query", "PageRequest">>)>>
QueryValidatorUnbondingDelegationsRequest_Marshal ==
    <<Put(<<10>>, "ValidatorAddr", "nonempty"),
      PutMessage(<<18>>, "Pagination", "pointer", <<"query", "PageRequest">>)>>

QueryValidatorUnbondingDelegationsResponse_Unmarshal ==
    <<Messages(1, "UnbondingResponses", <<"staking", "UnbondingDelegation">>),
      Pointer(2, "Pagination", <<"query", "PageResponse">>)>>
QueryValidatorUnbondingDelegationsResponse_Marshal ==
    <<PutMessage(<<10>>, "UnbondingResponses", "messages", <<"staking", "UnbondingDelegation">>),
      PutMessage(<<18>>, "Pagination", "pointer", <<"query", "PageResponse">>)>>

QueryDelegationRequest_Unmarshal == <<Text(1, "DelegatorAddr"), Text(2, "ValidatorAddr")>>
QueryDelegationRequest_Marshal ==
    <<Put(<<10>>, "DelegatorAddr", "nonempty"), Put(<<18>>, "ValidatorAddr", "nonempty")>>

QueryDelegationResponse_Unmarshal ==
    <<Pointer(1, "DelegationResponse", <<"staking", "DelegationResponse">>)>>
QueryDelegationResponse_Marshal ==
    <<PutMessage(<<10>>, "DelegationResponse", "pointer", <<"staking", "DelegationResponse">>)>>

QueryUnbondingDelegationRequest_Unmarshal ==
    <<Text(1, "DelegatorAddr"), Text(2, "ValidatorAddr")>>
QueryUnbondingDelegationRequest_Marshal ==
    <<Put(<<10>>, "DelegatorAddr", "nonempty"), Put(<<18>>, "ValidatorAddr", "nonempty")>>

QueryUnbondingDelegationResponse_Unmarshal ==
    <<Message(1, "Unbond", <<"staking", "UnbondingDelegation">>)>>
QueryUnbondingDelegationResponse_Marshal ==
    <<PutMessage(<<10>>, "Unbond", "message", <<"staking", "UnbondingDelegation">>)>>

QueryDelegatorDelegationsRequest_Unmarshal ==
    <<Text(1, "DelegatorAddr"), Pointer(2, "Pagination", <<"query", "PageRequest">>)>>
QueryDelegatorDelegationsRequest_Marshal ==
    <<Put(<<10>>, "DelegatorAddr", "nonempty"),
      PutMessage(<<18>>, "Pagination", "pointer", <<"query", "PageRequest">>)>>

QueryDelegatorDelegationsResponse_Unmarshal ==
    <<Messages(1, "DelegationResponses", <<"staking", "DelegationResponse">>),
      Pointer(2, "Pagination", <<"query", "PageResponse">>)>>
QueryDelegatorDelegationsResponse_Marshal ==
    <<PutMessage(<<10>>, "DelegationResponses", "messages", <<"staking", "DelegationResponse">>),
      PutMessage(<<18>>, "Pagination", "pointer", <<"query", "PageResponse">>)>>

QueryDelegatorUnbondingDelegationsRequest_Unmarshal ==
    <<Text(1, "DelegatorAddr"), Pointer(2, "Pagination", <<"query", "PageRequest">>)>>
QueryDelegatorUnbondingDelegationsRequest_Marshal ==
    <<Put(<<10>>, "DelegatorAddr", "nonempty"),
      PutMessage(<<18>>, "Pagination", "pointer", <<"query", "PageRequest">>)>>

QueryDelegatorUnbondingDelegationsResponse_Unmarshal ==
    <<Messages(1, "UnbondingResponses", <<"staking", "UnbondingDelegation">>),
      Pointer(2, "Pagination", <<"query", "PageResponse">>)>>
QueryDelegatorUnbondingDelegationsResponse_Marshal ==
    <<PutMessage(<<10>>, "UnbondingResponses", "messages", <<"staking", "UnbondingDelegation">>),
      PutMessage(<<18>>, "Pagination", "pointer", <<"query", "PageResponse">>)>>

QueryRedelegationsRequest_Unmarshal ==
    <<Text(1, "DelegatorAddr"), Text(2, "SrcValidatorAddr"), Text(3, "DstValidatorAddr"),
      Pointer(4, "Pagination", <<"query", "PageRequest">>)>>
QueryRedelegationsRequest_Marshal ==
    <<Put(<<10>>, "DelegatorAddr", "nonempty"), Put(<<18>>, "SrcValidatorAddr", "nonempty"),
      Put(<<26>>, "DstValidatorAddr", "nonempty"),
      PutMessage(<<34>>, "Pagination", "pointer", <<"query", "PageRequest">>)>>

QueryRedelegationsResponse_Unmarshal ==
    <<Messages(1, "RedelegationResponses", <<"staking", "RedelegationResponse">>),
      Pointer(2, "Pagination", <<"query", "PageResponse">>)>>
QueryRedelegationsResponse_Marshal ==
    <<PutMessage(<<10>>, "RedelegationResponses", "messages", <<"staking", "RedelegationResponse">>),
      PutMessage(<<18>>, "Pagination", "pointer", <<"query", "PageResponse">>)>>

QueryDelegatorValidatorsRequest_Unmarshal ==
    <<Text(1, "DelegatorAddr"), Pointer(2, "Pagination", <<"query", "PageRequest">>)>>
QueryDelegatorValidatorsRequest_Marshal ==
    <<Put(<<10>>, "DelegatorAddr", "nonempty"),
      PutMessage(<<18>>, "Pagination", "pointer", <<"query", "PageRequest">>)>>

QueryDelegatorValidatorsResponse_Unmarshal ==
    <<Messages(1, "Validators", <<"staking", "Validator">>),
      Pointer(2, "Pagination", <<"query", "PageResponse">>)>>
QueryDelegatorValidatorsResponse_Marshal ==
    <<PutMessage(<<10>>, "Validators", "messages", <<"staking", "Validator">>),
      PutMessage(<<18>>, "Pagination", "pointer", <<"query", "PageResponse">>)>>

QueryDelegatorValidatorRequest_Unmarshal ==
    <<Text(1, "DelegatorAddr"), Text(2, "ValidatorAddr")>>
QueryDelegatorValidatorRequest_Marshal ==
    <<Put(<<10>>, "DelegatorAddr", "nonempty"), Put(<<18>>, "ValidatorAddr", "nonempty")>>

QueryDelegatorValidatorResponse_Unmarshal ==
    <<Message(1, "Validator", <<"staking", "Validator">>)>>
QueryDelegatorValidatorResponse_Marshal ==
    <<PutMessage(<<10>>, "Validator", "message", <<"staking", "Validator">>)>>

QueryHistoricalInfoRequest_Unmarshal == <<Number(1, "Height", "int64")>>
QueryHistoricalInfoRequest_Marshal == <<Put(<<8>>, "Height", "nonzero")>>

QueryHistoricalInfoResponse_Unmarshal == <<Pointer(1, "Hist", <<"staking", "HistoricalInfo">>)>>
QueryHistoricalInfoResponse_Marshal ==
    <<PutMessage(<<10>>, "Hist", "pointer", <<"staking", "HistoricalInfo">>)>>

QueryPoolRequest_Unmarshal == << >>
QueryPoolRequest_Marshal == << >>

QueryPoolResponse_Unmarshal == <<Message(1, "Pool", <<"staking", "Pool">>)>>
QueryPoolResponse_Marshal == <<PutMessage(<<10>>, "Pool", "message", <<"staking", "Pool">>)>>

staking_QueryParamsRequest_Unmarshal == << >>
staking_QueryParamsRequest_Marshal == << >>

staking_QueryParamsResponse_Unmarshal == <<Message(1, "Params", <<"staking", "Params">>)>>
staking_QueryParamsResponse_Marshal ==
    <<PutMessage(<<10>>, "Params", "message", <<"staking", "Params">>)>>

HistoricalInfo_Unmarshal ==
    <<Message(1, "Header", <<"tendermint", "Header">>),
      Messages(2, "Valset", <<"staking", "Validator">>)>>
HistoricalInfo_Marshal ==
    <<PutMessage(<<10>>, "Header", "message", <<"tendermint", "Header">>),
      PutMessage(<<18>>, "Valset", "messages", <<"staking", "Validator">>)>>

CommissionRates_Unmarshal ==
    <<Decimal(1, "Rate"), Decimal(2, "MaxRate"), Decimal(3, "MaxChangeRate")>>
CommissionRates_Marshal ==
    <<Put(<<10>>, "Rate", "custom"), Put(<<18>>, "MaxRate", "custom"),
      Put(<<26>>, "MaxChangeRate", "custom")>>

Commission_Unmarshal ==
    <<Message(1, "CommissionRates", <<"staking", "CommissionRates">>),
      Std(2, "UpdateTime", <<"std", "Timestamp">>)>>
Commission_Marshal ==
    <<PutMessage(<<10>>, "CommissionRates", "message", <<"staking", "CommissionRates">>),
      PutMessage(<<18>>, "UpdateTime", "std", <<"std", "Timestamp">>)>>

Description_Unmarshal ==
    <<Text(1, "Moniker"), Text(2, "Identity"), Text(3, "Website"), Text(4, "SecurityContact"),
      Text(5, "Details")>>
Description_Marshal ==
    <<Put(<<10>>, "Moniker", "nonempty"), Put(<<18>>, "Identity", "nonempty"),
      Put(<<26>>, "Website", "nonempty"), Put(<<34>>, "SecurityContact", "nonempty"),
      Put(<<42>>, "Details", "nonempty")>>

Validator_Unmarshal ==
    <<Text(1, "OperatorAddress"), Pointer(2, "ConsensusPubkey", <<"any", "Any">>),
      Flag(3, "Jailed"), Number(4, "Status", "int32"), Amount(5, "Tokens"),
      Decimal(6, "DelegatorShares"), Message(7, "Description", <<"staking", "Description">>),
      Number(8, "UnbondingHeight", "int64"), Std(9, "UnbondingTime", <<"std", "Timestamp">>),
      Message(10, "Commission", <<"staking", "Commission">>), Amount(11, "MinSelfDelegation")>>
Validator_Marshal ==
    <<Put(<<10>>, "OperatorAddress", "nonempty"),
      PutMessage(<<18>>, "ConsensusPubkey", "pointer", <<"any", "Any">>),
      Put(<<24>>, "Jailed", "true"), Put(<<32>>, "Status", "nonzero"),
      Put(<<42>>, "Tokens", "custom"), Put(<<50>>, "DelegatorShares", "custom"),
      PutMessage(<<58>>, "Description", "message", <<"staking", "Description">>),
      Put(<<64>>, "UnbondingHeight", "nonzero"),
      PutMessage(<<74>>, "UnbondingTime", "std", <<"std", "Timestamp">>),
      PutMessage(<<82>>, "Commission", "message", <<"staking", "Commission">>),
      Put(<<90>>, "MinSelfDelegation", "custom")>>

ValAddresses_Unmarshal == <<List(1, "Addresses")>>
ValAddresses_Marshal == <<Put(<<10>>, "Addresses", "list")>>

DVPair_Unmarshal == <<Text(1, "DelegatorAddress"), Text(2, "ValidatorAddress")>>
DVPair_Marshal ==
    <<Put(<<10>>, "DelegatorAddress", "nonempty"), Put(<<18>>, "ValidatorAddress", "nonempty")>>

DVPairs_Unmarshal == <<Messages(1, "Pairs", <<"staking", "DVPair">>)>>
DVPairs_Marshal == <<PutMessage(<<10>>, "Pairs", "messages", <<"staking", "DVPair">>)>>

DVVTriplet_Unmarshal ==
    <<Text(1, "DelegatorAddress"), Text(2, "ValidatorSrcAddress"),
      Text(3, "ValidatorDstAddress")>>
DVVTriplet_Marshal ==
    <<Put(<<10>>, "DelegatorAddress", "nonempty"),
      Put(<<18>>, "ValidatorSrcAddress", "nonempty"),
      Put(<<26>>, "ValidatorDstAddress", "nonempty")>>

DVVTriplets_Unmarshal == <<Messages(1, "Triplets", <<"staking", "DVVTriplet">>)>>
DVVTriplets_Marshal ==
    <<PutMessage(<<10>>, "Triplets", "messages", <<"staking", "DVVTriplet">>)>>

Delegation_Unmarshal ==
    <<Text(1, "DelegatorAddress"), Text(2, "ValidatorAddress"), Decimal(3, "Shares")>>
Delegation_Marshal ==
    <<Put(<<10>>, "DelegatorAddress", "nonempty"), Put(<<18>>, "ValidatorAddress", "nonempty"),
      Put(<<26>>, "Shares", "custom")>>

UnbondingDelegation_Unmarshal ==
    <<Text(1, "DelegatorAddress"), Text(2, "ValidatorAddress"),
      Messages(3, "Entries", <<"staking", "UnbondingDelegationEntry">>)>>
UnbondingDelegation_Marshal ==
    <<Put(<<10>>, "DelegatorAddress", "nonempty"), Put(<<18>>, "ValidatorAddress", "nonempty"),
      PutMessage(<<26>>, "Entries", "messages", <<"staking", "UnbondingDelegationEntry">>)>>

UnbondingDelegationEntry_Unmarshal ==
    <<Number(1, "CreationHeight", "int64"), Std(2, "CompletionTime", <<"std", "Timestamp">>),
      Amount(3, "InitialBalance"), Amount(4, "Balance")>>
UnbondingDelegationEntry_Marshal ==
    <<Put(<<8>>, "CreationHeight", "nonzero"),
      PutMessage(<<18>>, "CompletionTime", "std", <<"std", "Timestamp">>),
      Put(<<26>>, "InitialBalance", "custom"), Put(<<34>>, "Balance", "custom")>>

RedelegationEntry_Unmarshal ==
    <<Number(1, "CreationHeight", "int64"), Std(2, "CompletionTime", <<"std", "Timestamp">>),
      Amount(3, "InitialBalance"), Decimal(4, "SharesDst")>>
RedelegationEntry_Marshal ==
    <<Put(<<8>>, "CreationHeight", "nonzero"),
      PutMessage(<<18>>, "CompletionTime", "std", <<"std", "Timestamp">>),
      Put(<<26>>, "InitialBalance", "custom"), Put(<<34>>, "SharesDst", "custom")>>

Redelegation_Unmarshal ==
    <<Text(1, "DelegatorAddress"), Text(2, "ValidatorSrcAddress"),
      Text(3, "ValidatorDstAddress"),
      Messages(4, "Entries", <<"staking", "RedelegationEntry">>)>>
Redelegation_Marshal ==
    <<Put(<<10>>, "DelegatorAddress", "nonempty"),
      Put(<<18>>, "ValidatorSrcAddress", "nonempty"),
      Put(<<26>>, "ValidatorDstAddress", "nonempty"),
      PutMessage(<<34>>, "Entries", "messages", <<"staking", "RedelegationEntry">>)>>

staking_Params_Unmarshal ==
    <<Std(1, "UnbondingTime", <<"std", "Duration">>), Number(2, "MaxValidators", "uint32"),
      Number(3, "MaxEntries", "uint32"), Number(4, "HistoricalEntries", "uint32"),
      Text(5, "BondDenom")>>
staking_Params_Marshal ==
    <<PutMessage(<<10>>, "UnbondingTime", "std", <<"std", "Duration">>),
      Put(<<16>>, "MaxValidators", "nonzero"), Put(<<24>>, "MaxEntries", "nonzero"),
      Put(<<32>>, "HistoricalEntries", "nonzero"), Put(<<42>>, "BondDenom", "nonempty")>>

DelegationResponse_Unmarshal ==
    <<Message(1, "Delegation", <<"staking", "Delegation">>),
      Message(2, "Balance", <<"types", "Coin">>)>>
DelegationResponse_Marshal ==
    <<PutMessage(<<10>>, "Delegation", "message", <<"staking", "Delegation">>),
      PutMessage(<<18>>, "Balance", "message", <<"types", "Coin">>)>>

RedelegationEntryResponse_Unmarshal ==
    <<Message(1, "RedelegationEntry", <<"staking", "RedelegationEntry">>),
      Amount(4, "Balance")>>
RedelegationEntryResponse_Marshal ==
    <<PutMessage(<<10>>, "RedelegationEntry", "message", <<"staking", "RedelegationEntry">>),
      Put(<<34>>, "Balance", "custom")>>

RedelegationResponse_Unmarshal ==
    <<Message(1, "Redelegation", <<"staking", "Redelegation">>),
      Messages(2, "Entries", <<"staking", "RedelegationEntryResponse">>)>>
RedelegationResponse_Marshal ==
    <<PutMessage(<<10>>, "Redelegation", "message", <<"staking", "Redelegation">>),
      PutMessage(<<18>>, "Entries", "messages", <<"staking", "RedelegationEntryResponse">>)>>

staking_Pool_Unmarshal == <<Amount(1, "NotBondedTokens"), Amount(2, "BondedTokens")>>
staking_Pool_Marshal ==
    <<Put(<<10>>, "NotBondedTokens", "custom"), Put(<<18>>, "BondedTokens", "custom")>>

MsgCreateValidator_Unmarshal ==
    <<Message(1, "Description", <<"staking", "Description">>),
      Message(2, "Commission", <<"staking", "CommissionRates">>),
      Amount(3, "MinSelfDelegation"), Text(4, "DelegatorAddress"), Text(5, "ValidatorAddress"),
      Pointer(6, "Pubkey", <<"any", "Any">>), Message(7, "Value", <<"types", "Coin">>)>>
MsgCreateValidator_Marshal ==
    <<PutMessage(<<10>>, "Description", "message", <<"staking", "Description">>),
      PutMessage(<<18>>, "Commission", "message", <<"staking", "CommissionRates">>),
      Put(<<26>>, "MinSelfDelegation", "custom"), Put(<<34>>, "DelegatorAddress", "nonempty"),
      Put(<<42>>, "ValidatorAddress", "nonempty"),
      PutMessage(<<50>>, "Pubkey", "pointer", <<"any", "Any">>),
      PutMessage(<<58>>, "Value", "message", <<"types", "Coin">>)>>

MsgCreateValidatorResponse_Unmarshal == << >>
MsgCreateValidatorResponse_Marshal == << >>

MsgEditValidator_Unmarshal ==
    <<Message(1, "Description", <<"staking", "Description">>), Text(2, "ValidatorAddress"),
      DecimalPointer(3, "CommissionRate"), AmountPointer(4, "MinSelfDelegation")>>
MsgEditValidator_Marshal ==
    <<PutMessage(<<10>>, "Description", "message", <<"staking", "Description">>),
      Put(<<18>>, "ValidatorAddress", "nonempty"),
      Put(<<26>>, "CommissionRate", "customPointer"),
      Put(<<34>>, "MinSelfDelegation", "customPointer")>>

MsgEditValidatorResponse_Unmarshal == << >>
MsgEditValidatorResponse_Marshal == << >>

MsgDelegate_Unmarshal ==
    <<Text(1, "DelegatorAddress"), Text(2, "ValidatorAddress"),
      Message(3, "Amount", <<"types", "Coin">>)>>
MsgDelegate_Marshal ==
    <<Put(<<10>>, "DelegatorAddress", "nonempty"), Put(<<18>>, "ValidatorAddress", "nonempty"),
      PutMessage(<<26>>, "Amount", "message", <<"types", "Coin">>)>>

MsgDelegateResponse_Unmarshal == << >>
MsgDelegateResponse_Marshal == << >>

MsgBeginRedelegate_Unmarshal ==
    <<Text(1, "DelegatorAddress"), Text(2, "ValidatorSrcAddress"),
      Text(3, "ValidatorDstAddress"), Message(4, "Amount", <<"types", "Coin">>)>>
MsgBeginRedelegate_Marshal ==
    <<Put(<<10>>, "DelegatorAddress", "nonempty"),
      Put(<<18>>, "ValidatorSrcAddress", "nonempty"),
      Put(<<26>>, "ValidatorDstAddress", "nonempty"),
      PutMessage(<<34>>, "Amount", "message", <<"types", "Coin">>)>>

MsgBeginRedelegateResponse_Unmarshal == <<Std(1, "CompletionTime", <<"std", "Timestamp">>)>>
MsgBeginRedelegateResponse_Marshal ==
    <<PutMessage(<<10>>, "CompletionTime", "std", <<"std", "Timestamp">>)>>

MsgUndelegate_Unmarshal ==
    <<Text(1, "DelegatorAddress"), Text(2, "ValidatorAddress"),
      Message(3, "Amount", <<"types", "Coin">>)>>
MsgUndelegate_Marshal ==
    <<Put(<<10>>, "DelegatorAddress", "nonempty"), Put(<<18>>, "ValidatorAddress", "nonempty"),
      PutMessage(<<26>>, "Amount", "message", <<"types", "Coin">>)>>

MsgUndelegateResponse_Unmarshal == <<Std(1, "CompletionTime", <<"std", "Timestamp">>)>>
MsgUndelegateResponse_Marshal ==
    <<PutMessage(<<10>>, "CompletionTime", "std", <<"std", "Timestamp">>)>>

-----------------------------------------------------------------------------
(* modules/gov                                                             *)

TextProposal_Unmarshal == <<Text(1, "Title"), Text(2, "Description")>>
TextProposal_Marshal ==
    <<Put(<<10>>, "Title", "nonempty"), Put(<<18>>, "Description", "nonempty")>>

Deposit_Unmarshal ==
    <<Number(1, "ProposalId", "uint64"), Text(2, "Depositor"),
      Messages(3, "Amount", <<"types", "Coin">>)>>
Deposit_Marshal ==
    <<Put(<<8>>, "ProposalId", "nonzero"), Put(<<18>>, "Depositor", "nonempty"),
      PutMessage(<<26>>, "Amount", "messages", <<"types", "Coin">>)>>

Proposal_Unmarshal ==
    <<Number(1, "ProposalId", "uint64"), Pointer(2, "Content", <<"any", "Any">>),
      Number(3, "Status", "int32"), Message(4, "FinalTallyResult", <<"gov", "TallyResult">>),
      Std(5, "SubmitTime", <<"std", "Timestamp">>),
      Std(6, "DepositEndTime", <<"std", "Timestamp">>),
      Messages(7, "TotalDeposit", <<"types", "Coin">>),
      Std(8, "VotingStartTime", <<"std", "Timestamp">>),
      Std(9, "VotingEndTime", <<"std", "Timestamp">>)>>
Proposal_Marshal ==
    <<Put(<<8>>, "ProposalId", "nonzero"),
      PutMessage(<<18>>, "Content", "pointer", <<"any", "Any">>),
      Put(<<24>>, "Status", "nonzero"),
      PutMessage(<<34>>, "FinalTallyResult", "message", <<"gov", "TallyResult">>),
      PutMessage(<<42>>, "SubmitTime", "std", <<"std", "Timestamp">>),
      PutMessage(<<50>>, "DepositEndTime", "std", <<"std", "Timestamp">>),
      PutMessage(<<58>>, "TotalDeposit", "messages", <<"types", "Coin">>),
      PutMessage(<<66>>, "VotingStartTime", "std", <<"std", "Timestamp">>),
      PutMessage(<<74>>, "VotingEndTime", "std", <<"std", "Timestamp">>)>>

TallyResult_Unmarshal ==
    <<Amount(1, "Yes"), Amount(2, "Abstain"), Amount(3, "No"), Amount(4, "NoWithVeto")>>
TallyResult_Marshal ==
    <<Put(<<10>>, "Yes", "custom"), Put(<<18>>, "Abstain", "custom"),
      Put(<<26>>, "No", "custom"), Put(<<34>>, "NoWithVeto", "custom")>>

Vote_Unmarshal ==
    <<Number(1, "ProposalId", "uint64"), Text(2, "Voter"), Number(3, "Option", "int32")>>
Vote_Marshal ==
    <<Put(<<8>>, "ProposalId", "nonzero"), Put(<<18>>, "Voter", "nonempty"),
      Put(<<24>>, "Option", "nonzero")>>

DepositParams_Unmarshal ==
    <<Messages(1, "MinDeposit", <<"types", "Coin">>),
      Std(2, "MaxDepositPeriod", <<"std", "Duration">>)>>
DepositParams_Marshal ==
    <<PutMessage(<<10>>, "MinDeposit", "messages", <<"types", "Coin">>),
      PutMessage(<<18>>, "MaxDepositPeriod", "std", <<"std", "Duration">>)>>

VotingParams_Unmarshal == <<Std(1, "VotingPeriod", <<"std", "Duration">>)>>
VotingParams_Marshal == <<PutMessage(<<10>>, "VotingPeriod", "std", <<"std", "Duration">>)>>

TallyParams_Unmarshal ==
    <<Decimal(1, "Quorum"), Decimal(2, "Threshold"), Decimal(3, "VetoThreshold")>>
TallyParams_Marshal ==
    <<Put(<<10>>, "Quorum", "custom"), Put(<<18>>, "Threshold", "custom"),
      Put(<<26>>, "VetoThreshold", "custom")>>

QueryProposalRequest_Unmarshal == <<Number(1, "ProposalId", "uint64")>>
QueryProposalRequest_Marshal == <<Put(<<8>>, "ProposalId", "nonzero")>>

QueryProposalResponse_Unmarshal == <<Message(1, "Proposal", <<"gov", "Proposal">>)>>
QueryProposalResponse_Marshal ==
    <<PutMessage(<<10>>, "Proposal", "message", <<"gov", "Proposal">>)>>

QueryProposalsRequest_Unmarshal ==
    <<Number(1, "ProposalStatus", "int32"), Text(2, "Voter"), Text(3, "Depositor"),
      Pointer(4, "Pagination", <<"query", "PageRequest">>)>>
QueryProposalsRequest_Marshal ==
    <<Put(<<8>>, "ProposalStatus", "nonzero"), Put(<<18>>, "Voter", "nonempty"),
      Put(<<26>>, "Depositor", "nonempty"),
      PutMessage(<<34>>, "Pagination", "pointer", <<"query", "PageRequest">>)>>

QueryProposalsResponse_Unmarshal ==
    <<Messages(1, "Proposals", <<"gov", "Proposal">>),
      Pointer(2, "Pagination", <<"query", "PageResponse">>)>>
QueryProposalsResponse_Marshal ==
    <<PutMessage(<<10>>, "Proposals", "messages", <<"gov", "Proposal">>),
      PutMessage(<<18>>, "Pagination", "pointer", <<"query", "PageResponse">>)>>

QueryVoteRequest_Unmarshal == <<Number(1, "ProposalId", "uint64"), Text(2, "Voter")>>
QueryVoteRequest_Marshal ==
    <<Put(<<8>>, "ProposalId", "nonzero"), Put(<<18>>, "Voter", "nonempty")>>

QueryVoteResponse_Unmarshal == <<Message(1, "Vote", <<"gov", "Vote">>)>>
QueryVoteResponse_Marshal == <<PutMessage(<<10>>, "Vote", "message", <<"gov", "Vote">>)>>

QueryVotesRequest_Unmarshal ==
    <<Number(1, "ProposalId", "uint64"), Pointer(2, "Pagination", <<"query", "PageRequest">>)>>
QueryVotesRequest_Marshal ==
    <<Put(<<8>>, "ProposalId", "nonzero"),
      PutMessage(<<18>>, "Pagination", "pointer", <<"query", "PageRequest">>)>>

QueryVotesResponse_Unmarshal ==
    <<Messages(1, "Votes", <<"gov", "Vote">>),
      Pointer(2, "Pagination", <<"query", "PageResponse">>)>>
QueryVotesResponse_Marshal ==
    <<PutMessage(<<10>>, "Votes", "messages", <<"gov", "Vote">>),
      PutMessage(<<18>>, "Pagination", "pointer", <<"query", "PageResponse">>)>>

gov_QueryParamsRequest_Unmarshal == <<Text(1, "ParamsType")>>
gov_QueryParamsRequest_Marshal == <<Put(<<10>>, "ParamsType", "nonempty")>>

gov_QueryParamsResponse_Unmarshal ==
    <<Message(1, "VotingParams", <<"gov", "VotingParams">>),
      Message(2, "DepositParams", <<"gov", "DepositParams">>),
      Message(3, "TallyParams", <<"gov", "TallyParams">>)>>
gov_QueryParamsResponse_Marshal ==
    <<PutMessage(<<10>>, "VotingParams", "message", <<"gov", "VotingParams">>),
      PutMessage(<<18>>, "DepositParams", "message", <<"gov", "DepositParams">>),
      PutMessage(<<26>>, "TallyParams", "message", <<"gov", "TallyParams">>)>>

QueryDepositRequest_Unmarshal == <<Number(1, "ProposalId", "uint64"), Text(2, "Depositor")>>
QueryDepositRequest_Marshal ==
    <<Put(<<8>>, "ProposalId", "nonzero"), Put(<<18>>, "Depositor", "nonempty")>>

QueryDepositResponse_Unmarshal == <<Message(1, "Deposit", <<"gov", "Deposit">>)>>
QueryDepositResponse_Marshal ==
    <<PutMessage(<<10>>, "Deposit", "message", <<"gov", "Deposit">>)>>

QueryDepositsRequest_Unmarshal ==
    <<Number(1, "ProposalId", "uint64"), Pointer(2, "Pagination", <<"query", "PageRequest">>)>>
QueryDepositsRequest_Marshal ==
    <<Put(<<8>>, "ProposalId", "nonzero"),
      PutMessage(<<18>>, "Pagination", "pointer", <<"query", "PageRequest">>)>>

QueryDepositsResponse_Unmarshal ==
    <<Messages(1, "Deposits", <<"gov", "Deposit">>),
      Pointer(2, "Pagination", <<"query", "PageResponse">>)>>
QueryDepositsResponse_Marshal ==
    <<PutMessage(<<10>>, "Deposits", "messages", <<"gov", "Deposit">>),
      PutMessage(<<18>>, "Pagination", "pointer", <<"query", "PageResponse">>)>>

QueryTallyResultRequest_Unmarshal == <<Number(1, "ProposalId", "uint64")>>
QueryTallyResultRequest_Marshal == <<Put(<<8>>, "ProposalId", "nonzero")>>

QueryTallyResultResponse_Unmarshal == <<Message(1, "Tally", <<"gov", "TallyResult">>)>>
QueryTallyResultResponse_Marshal ==
    <<PutMessage(<<10>>, "Tally", "message", <<"gov", "TallyResult">>)>>

MsgSubmitProposal_Unmarshal ==
    <<Pointer(1, "Content", <<"any", "Any">>),
      Messages(2, "InitialDeposit", <<"types", "Coin">>), Text(3, "Proposer")>>
MsgSubmitProposal_Marshal ==
    <<PutMessage(<<10>>, "Content", "pointer", <<"any", "Any">>),
      PutMessage(<<18>>, "InitialDeposit", "messages", <<"types", "Coin">>),
      Put(<<26>>, "Proposer", "nonempty")>>

MsgSubmitProposalResponse_Unmarshal == <<Number(1, "ProposalId", "uint64")>>
MsgSubmitProposalResponse_Marshal == <<Put(<<8>>, "ProposalId", "nonzero")>>

MsgVote_Unmarshal ==
    <<Number(1, "ProposalId", "uint64"), Text(2, "Voter"), Number(3, "Option", "int32")>>
MsgVote_Marshal ==
    <<Put(<<8>>, "ProposalId", "nonzero"), Put(<<18>>, "Voter", "nonempty"),
      Put(<<24>>, "Option", "nonzero")>>

MsgVoteResponse_Unmarshal == << >>
MsgVoteResponse_Marshal == << >>

MsgDeposit_Unmarshal ==
    <<Number(1, "ProposalId", "uint64"), Text(2, "Depositor"),
      Messages(3, "Amount", <<"types", "Coin">>)>>
MsgDeposit_Marshal ==
    <<Put(<<8>>, "ProposalId", "nonzero"), Put(<<18>>, "Depositor", "nonempty"),
      PutMessage(<<26>>, "Amount", "messages", <<"types", "Coin">>)>>

MsgDepositResponse_Unmarshal == << >>
MsgDepositResponse_Marshal == << >>

-----------------------------------------------------------------------------
StakingReaders ==
    [QueryValidatorsRequest |-> QueryValidatorsRequest_Unmarshal,
     QueryValidatorsResponse |-> QueryValidatorsResponse_Unmarshal,
     QueryValidatorRequest |-> QueryValidatorRequest_Unmarshal,
     QueryValidatorResponse |-> QueryValidatorResponse_Unmarshal,
     QueryValidatorDelegationsRequest |-> QueryValidatorDelegationsRequest_Unmarshal,
     QueryValidatorDelegationsResponse |-> QueryValidatorDelegationsResponse_Unmarshal,
     QueryValidatorUnbondingDelegationsRequest |-> QueryValidatorUnbondingDelegationsRequest_Unmarshal,
     QueryValidatorUnbondingDelegationsResponse |-> QueryValidatorUnbondingDelegationsResponse_Unmarshal,
     QueryDelegationRequest |-> QueryDelegationRequest_Unmarshal,
     QueryDelegationResponse |-> QueryDelegationResponse_Unmarshal,
     QueryUnbondingDelegationRequest |-> QueryUnbondingDelegationRequest_Unmarshal,
     QueryUnbondingDelegationResponse |-> QueryUnbondingDelegationResponse_Unmarshal,
     QueryDelegatorDelegationsRequest |-> QueryDelegatorDelegationsRequest_Unmarshal,
     QueryDelegatorDelegationsResponse |-> QueryDelegatorDelegationsResponse_Unmarshal,
     QueryDelegatorUnbondingDelegationsRequest |-> QueryDelegatorUnbondingDelegationsRequest_Unmarshal,
     QueryDelegatorUnbondingDelegationsResponse |-> QueryDelegatorUnbondingDelegationsResponse_Unmarshal,
     QueryRedelegationsRequest |-> QueryRedelegationsRequest_Unmarshal,
     QueryRedelegationsResponse |-> QueryRedelegationsResponse_Unmarshal,
     QueryDelegatorValidatorsRequest |-> QueryDelegatorValidatorsRequest_Unmarshal,
     QueryDelegatorValidatorsResponse |-> QueryDelegatorValidatorsResponse_Unmarshal,
     QueryDelegatorValidatorRequest |-> QueryDelegatorValidatorRequest_Unmarshal,
     QueryDelegatorValidatorResponse |-> QueryDelegatorValidatorResponse_Unmarshal,
     QueryHistoricalInfoRequest |-> QueryHistoricalInfoRequest_Unmarshal,
     QueryHistoricalInfoResponse |-> QueryHistoricalInfoResponse_Unmarshal,
     QueryPoolRequest |-> QueryPoolRequest_Unmarshal,
     QueryPoolResponse |-> QueryPoolResponse_Unmarshal,
     QueryParamsRequest |-> staking_QueryParamsRequest_Unmarshal,
     QueryParamsResponse |-> staking_QueryParamsResponse_Unmarshal,
     HistoricalInfo |-> HistoricalInfo_Unmarshal, CommissionRates |-> CommissionRates_Unmarshal,
     Commission |-> Commission_Unmarshal, Description |-> Description_Unmarshal,
     Validator |-> Validator_Unmarshal, ValAddresses |-> ValAddresses_Unmarshal,
     DVPair |-> DVPair_Unmarshal, DVPairs |-> DVPairs_Unmarshal,
     DVVTriplet |-> DVVTriplet_Unmarshal, DVVTriplets |-> DVVTriplets_Unmarshal,
     Delegation |-> Delegation_Unmarshal, UnbondingDelegation |-> UnbondingDelegation_Unmarshal,
     UnbondingDelegationEntry |-> UnbondingDelegationEntry_Unmarshal,
     RedelegationEntry |-> RedelegationEntry_Unmarshal, Redelegation |-> Redelegation_Unmarshal,
     Params |-> staking_Params_Unmarshal, DelegationResponse |-> DelegationResponse_Unmarshal,
     RedelegationEntryResponse |-> RedelegationEntryResponse_Unmarshal,
     RedelegationResponse |-> RedelegationResponse_Unmarshal, Pool |-> staking_Pool_Unmarshal,
     MsgCreateValidator |-> MsgCreateValidator_Unmarshal,
     MsgCreateValidatorResponse |-> MsgCreateValidatorResponse_Unmarshal,
     MsgEditValidator |-> MsgEditValidator_Unmarshal,
     MsgEditValidatorResponse |-> MsgEditValidatorResponse_Unmarshal,
     MsgDelegate |-> MsgDelegate_Unmarshal,
     MsgDelegateResponse |-> MsgDelegateResponse_Unmarshal,
     MsgBeginRedelegate |-> MsgBeginRedelegate_Unmarshal,
     MsgBeginRedelegateResponse |-> MsgBeginRedelegateResponse_Unmarshal,
     MsgUndelegate |-> MsgUndelegate_Unmarshal,
     MsgUndelegateResponse |-> MsgUndelegateResponse_Unmarshal]

GovReaders ==
    [TextProposal |-> TextProposal_Unmarshal, Deposit |-> Deposit_Unmarshal,
     Proposal |-> Proposal_Unmarshal, TallyResult |-> TallyResult_Unmarshal,
     Vote |-> Vote_Unmarshal, DepositParams |-> DepositParams_Unmarshal,
     VotingParams |-> VotingParams_Unmarshal, TallyParams |-> TallyParams_Unmarshal,
     QueryProposalRequest |-> QueryProposalRequest_Unmarshal,
     QueryProposalResponse |-> QueryProposalResponse_Unmarshal,
     QueryProposalsRequest |-> QueryProposalsRequest_Unmarshal,
     QueryProposalsResponse |-> QueryProposalsResponse_Unmarshal,
     QueryVoteRequest |-> QueryVoteRequest_Unmarshal,
     QueryVoteResponse |-> QueryVoteResponse_Unmarshal,
     QueryVotesRequest |-> QueryVotesRequest_Unmarshal,
     QueryVotesResponse |-> QueryVotesResponse_Unmarshal,
     QueryParamsRequest |-> gov_QueryParamsRequest_Unmarshal,
     QueryParamsResponse |-> gov_QueryParamsResponse_Unmarshal,
     QueryDepositRequest |-> QueryDepositRequest_Unmarshal,
     QueryDepositResponse |-> QueryDepositResponse_Unmarshal,
     QueryDepositsRequest |-> QueryDepositsRequest_Unmarshal,
     QueryDepositsResponse |-> QueryDepositsResponse_Unmarshal,
     QueryTallyResultRequest |-> QueryTallyResultRequest_Unmarshal,
     QueryTallyResultResponse |-> QueryTallyResultResponse_Unmarshal,
     MsgSubmitProposal |-> MsgSubmitProposal_Unmarshal,
     MsgSubmitProposalResponse |-> MsgSubmitProposalResponse_Unmarshal,
     MsgVote |-> MsgVote_Unmarshal, MsgVoteResponse |-> MsgVoteResponse_Unmarshal,
     MsgDeposit |-> MsgDeposit_Unmarshal, MsgDepositResponse |-> MsgDepositResponse_Unmarshal]

StakingWriters ==
    [QueryValidatorsRequest |-> QueryValidatorsRequest_Marshal,
     QueryValidatorsResponse |-> QueryValidatorsResponse_Marshal,
     QueryValidatorRequest |-> QueryValidatorRequest_Marshal,
     QueryValidatorResponse |-> QueryValidatorResponse_Marshal,
     QueryValidatorDelegationsRequest |-> QueryValidatorDelegationsRequest_Marshal,
     QueryValidatorDelegationsResponse |-> QueryValidatorDelegationsResponse_Marshal,
     QueryValidatorUnbondingDelegationsRequest |-> QueryValidatorUnbondingDelegationsRequest_Marshal,
     QueryValidatorUnbondingDelegationsResponse |-> QueryValidatorUnbondingDelegationsResponse_Marshal,
     QueryDelegationRequest |-> QueryDelegationRequest_Marshal,
     QueryDelegationResponse |-> QueryDelegationResponse_Marshal,
     QueryUnbondingDelegationRequest |-> QueryUnbondingDelegationRequest_Marshal,
     QueryUnbondingDelegationResponse |-> QueryUnbondingDelegationResponse_Marshal,
     QueryDelegatorDelegationsRequest |-> QueryDelegatorDelegationsRequest_Marshal,
     QueryDelegatorDelegationsResponse |-> QueryDelegatorDelegationsResponse_Marshal,
     QueryDelegatorUnbondingDelegationsRequest |-> QueryDelegatorUnbondingDelegationsRequest_Marshal,
     QueryDelegatorUnbondingDelegationsResponse |-> QueryDelegatorUnbondingDelegationsResponse_Marshal,
     QueryRedelegationsRequest |-> QueryRedelegationsRequest_Marshal,
     QueryRedelegationsResponse |-> QueryRedelegationsResponse_Marshal,
     QueryDelegatorValidatorsRequest |-> QueryDelegatorValidatorsRequest_Marshal,
     QueryDelegatorValidatorsResponse |-> QueryDelegatorValidatorsResponse_Marshal,
     QueryDelegatorValidatorRequest |-> QueryDelegatorValidatorRequest_Marshal,
     QueryDelegatorValidatorResponse |-> QueryDelegatorValidatorResponse_Marshal,
     QueryHistoricalInfoRequest |-> QueryHistoricalInfoRequest_Marshal,
     QueryHistoricalInfoResponse |-> QueryHistoricalInfoResponse_Marshal,
     QueryPoolRequest |-> QueryPoolRequest_Marshal,
     QueryPoolResponse |-> QueryPoolResponse_Marshal,
     QueryParamsRequest |-> staking_QueryParamsRequest_Marshal,
     QueryParamsResponse |-> staking_QueryParamsResponse_Marshal,
     HistoricalInfo |-> HistoricalInfo_Marshal, CommissionRates |-> CommissionRates_Marshal,
     Commission |-> Commission_Marshal, Description |-> Description_Marshal,
     Validator |-> Validator_Marshal, ValAddresses |-> ValAddresses_Marshal,
     DVPair |-> DVPair_Marshal, DVPairs |-> DVPairs_Marshal, DVVTriplet |-> DVVTriplet_Marshal,
     DVVTriplets |-> DVVTriplets_Marshal, Delegation |-> Delegation_Marshal,
     UnbondingDelegation |-> UnbondingDelegation_Marshal,
     UnbondingDelegationEntry |-> UnbondingDelegationEntry_Marshal,
     RedelegationEntry |-> RedelegationEntry_Marshal, Redelegation |-> Redelegation_Marshal,
     Params |-> staking_Params_Marshal, DelegationResponse |-> DelegationResponse_Marshal,
     RedelegationEntryResponse |-> RedelegationEntryResponse_Marshal,
     RedelegationResponse |-> RedelegationResponse_Marshal, Pool |-> staking_Pool_Marshal,
     MsgCreateValidator |-> MsgCreateValidator_Marshal,
     MsgCreateValidatorResponse |-> MsgCreateValidatorResponse_Marshal,
     MsgEditValidator |-> MsgEditValidator_Marshal,
     MsgEditValidatorResponse |-> MsgEditValidatorResponse_Marshal,
     MsgDelegate |-> MsgDelegate_Marshal, MsgDelegateResponse |-> MsgDelegateResponse_Marshal,
     MsgBeginRedelegate |-> MsgBeginRedelegate_Marshal,
     MsgBeginRedelegateResponse |-> MsgBeginRedelegateResponse_Marshal,
     MsgUndelegate |-> MsgUndelegate_Marshal,
     MsgUndelegateResponse |-> MsgUndelegateResponse_Marshal]

GovWriters ==
    [TextProposal |-> TextProposal_Marshal, Deposit |-> Deposit_Marshal,
     Proposal |-> Proposal_Marshal, TallyResult |-> TallyResult_Marshal, Vote |-> Vote_Marshal,
     DepositParams |-> DepositParams_Marshal, VotingParams |-> VotingParams_Marshal,
     TallyParams |-> TallyParams_Marshal, QueryProposalRequest |-> QueryProposalRequest_Marshal,
     QueryProposalResponse |-> QueryProposalResponse_Marshal,
     QueryProposalsRequest |-> QueryProposalsRequest_Marshal,
     QueryProposalsResponse |-> QueryProposalsResponse_Marshal,
     QueryVoteRequest |-> QueryVoteRequest_Marshal,
     QueryVoteResponse |-> QueryVoteResponse_Marshal,
     QueryVotesRequest |-> QueryVotesRequest_Marshal,
     QueryVotesResponse |-> QueryVotesResponse_Marshal,
     QueryParamsRequest |-> gov_QueryParamsRequest_Marshal,
     QueryParamsResponse |-> gov_QueryParamsResponse_Marshal,
     QueryDepositRequest |-> QueryDepositRequest_Marshal,
     QueryDepositResponse |-> QueryDepositResponse_Marshal,
     QueryDepositsRequest |-> QueryDepositsRequest_Marshal,
     QueryDepositsResponse |-> QueryDepositsResponse_Marshal,
     QueryTallyResultRequest |-> QueryTallyResultRequest_Marshal,
     QueryTallyResultResponse |-> QueryTallyResultResponse_Marshal,
     MsgSubmitProposal |-> MsgSubmitProposal_Marshal,
     MsgSubmitProposalResponse |-> MsgSubmitProposalResponse_Marshal,
     MsgVote |-> MsgVote_Marshal, MsgVoteResponse |-> MsgVoteResponse_Marshal,
     MsgDeposit |-> MsgDeposit_Marshal, MsgDepositResponse |-> MsgDepositResponse_Marshal]

=============================================================================

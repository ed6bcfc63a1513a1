SPECIFICATION MCSpec
CONSTANTS
  maxMsgLen = 2
  maxBatch = 3
  tryThreshold = 3
  Requests <- SomeRequests
  BodyFields = {"Memo"}
  FeeFields = {"GasLimit"}
  Values = {1}
  Keys = {"k"}
  MaxWrappers = 2
  MaxOps = 6
INVARIANTS
  SentIsPrefix
  
  StaleOnlyIfShared
  SignedIsSent
  InOrder
  VerifiedIffSigned
  ReceivedIsUnpacked
  UnreadOnlyIfForeign
PROPERTIES
  TypesFixed
CHECK_DEADLOCK FALSE

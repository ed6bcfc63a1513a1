SPECIFICATION MCSpec
CONSTANTS
  maxBitLen = 6
  Readers <- AllReaders
  Writers <- AllWriters
  Types <- EveryType
  Disturbed <- OfEveryKind
  MaxSent = 2
  MaxCut = 1
  Depth = 2
  Foreign <- Unknown
  MaxForeign = 1
  TypeOf <- Known
  Impls <- Registered
  Urls <- SomeUrls
  ContentUrl <- TextUrl
  Extra <- Newer
  MaxExtra <- TwoOrOne
INVARIANTS
  ReceivedIsSent
  CutSeen
  DecoderStrict
CHECK_DEADLOCK FALSE

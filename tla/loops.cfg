CONSTANTS
  k1 = k1
  k2 = k2
  v1 = v1
  BlockCount = 4
  Keys <- TwoKeys
  KeyStr <- OwnKeyStr
  Values = {v1}
  NeededBlocks <- OneBlock
  GenLimit = 100
  MaxChunkCount = 3
  MaxGeneration = 2
  ChainImages <- SmallChainImages
  ScanImages <- SmallScanImages
  AllocSizes = {1, 2, 3}
CHECK_DEADLOCK FALSE
SPECIFICATION Spec
INVARIANTS
  VerifyIsComplete
  FreeIsErased
  FreeTakesTheRecord
  ScanIsNewest
  AllocIsFirstFit
PROPERTY
  Ends

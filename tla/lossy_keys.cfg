CONSTANTS
  k1 = k1
  k2 = k2
  small = small
  large = large
  BlockCount = 4
  Keys <- TwoKeys
  KeyStr <- LossyKeyStr
  Values <- SmallLarge
  NeededBlocks <- BlocksOf
  GenLimit = 100
  ReplicaCount = 1
  MaxGen = 2
  RecoveryRequired = TRUE
  MaxFaults = 0
  FaultKinds = {}
  ReopenAfterError = FALSE
SPECIFICATION FaultySpec
INVARIANTS ReadsOwnKey

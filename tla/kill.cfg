CONSTANTS
  k1 = k1
  k2 = k2
  small = small
  large = large
  BlockCount = 4
  Keys <- TwoKeys
  KeyStr <- OwnKeyStr
  Values <- SmallLarge
  NeededBlocks <- BlocksOf
  GenLimit = 100
  ReplicaCount = 1
  MaxGen = 2
  RecoveryRequired = TRUE
  MaxFaults = 1
  FaultKinds = {"kill", "power"}
  ReopenAfterError = FALSE
SPECIFICATION FaultySpec
INVARIANTS CompleteRecordExists

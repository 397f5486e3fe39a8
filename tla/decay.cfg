CONSTANTS
  k1 = k1
  k2 = k2
  small = small
  large = large
  BlockCount = 4
  Keys <- OneKey
  KeyStr <- OwnKeyStr
  Values <- SmallLarge
  NeededBlocks <- BlocksOf
  GenLimit = 100
  ReplicaCount = 2
  MaxGen = 2
  RecoveryRequired = TRUE
  MaxFaults = 2
  FaultKinds = {"decay", "power"}
  ReopenAfterError = TRUE
SPECIFICATION FaultySpec
INVARIANTS ReadsLegal

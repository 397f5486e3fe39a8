CONSTANTS
  k1 = k1
  k2 = k2
  small = small
  large = large
  other = other
  BlockCount = 4
  Keys <- TwoKeys
  KeyStr <- OwnKeyStr
  Values <- SmallLarge
  NeededBlocks <- BlocksOf
  GenLimit = 2
  ReplicaCount = 1
  MaxGen = 2
  RecoveryRequired = TRUE
SYMMETRY KeySymmetry
SPECIFICATION Spec
PROPERTY
  RefinesKV

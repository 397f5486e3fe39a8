CONSTANTS
  k1 = k1
  k2 = k2
  small = small
  large = large
  other = other
  BlockCount = 3
  Keys <- TwoKeys
  KeyStr <- OwnKeyStr
  Values <- SmallLarge
  NeededBlocks <- BlocksOf
  GenLimit = 100
  ReplicaCount = 3
  MaxGen = 2
  RecoveryRequired = TRUE
SYMMETRY KeySymmetry
SPECIFICATION Spec
INVARIANTS
  PowerLossSafe
  AnyReplicaSuffices
  KeysAreReadable
  Inv

CONSTANTS
  k1 = k1
  k2 = k2
  small = small
  large = large
  other = other
  BlockCount = 5
  Keys <- TwoKeys
  KeyStr <- OwnKeyStr
  Values <- SmallLarge
  NeededBlocks <- BlocksOf
  GenLimit = 3
  ReplicaCount = 1
  MaxGen = 3
  RecoveryRequired = TRUE
SYMMETRY KeySymmetry
SPECIFICATION Spec
INVARIANTS
  PowerLossSafe
  ReadsLegal
  IndexIsScan
  NoLeakedBlocks
  FlushedPutSurvives
  Inv
PROPERTY
  IndexedRecordsUntouched

SPECIFICATION DevicesSpec
CONSTANTS
  d1 = d1
  d2 = d2
  Device = {d1, d2}
  Lists <- OneOrTwo
  Geometries <- SomeGeometries
  BlockSizes <- SomeBlockSizes
  Flips <- Bursts
  MaxFaults = 1
  KeySizes <- SomeKeySizes
  ValueSizes <- SomeValueSizes
  Word = 256
  KeyWord = 4
INVARIANTS
  OpenExact
  FileIsCovered
  PutRoundTrips
  LayoutIsTight
  ReaderInBounds
  GoTakesAsManyBlocks
  ChecksumIsCrc32

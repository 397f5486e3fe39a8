SPECIFICATION Spec
CONSTANTS
  g1 = g1
  g2 = g2
  g3 = g3
  Goroutines <- Three
  ReplicaCount = 2
  GenLimit = 2
  Calls <- ThreeCalls
  CallbackCalls = {"keys", "put"}
CHECK_DEADLOCK FALSE
INVARIANT SharingInv
INVARIANT GetIsAtomic
INVARIANT NotFoundIsTrue
INVARIANT ReplicasAgree
INVARIANT IteratedKeyStays
INVARIANT BlockedOnlyByCallback
PROPERTY CallsReturn

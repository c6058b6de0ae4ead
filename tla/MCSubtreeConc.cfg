SPECIFICATION Spec
CONSTANTS
  Threads = {t1, t2}
  Hashes <- MCHashes
  Torn <- MCTorn
  TreeSize = 3
  MaxCalls = 2
  NULL = NULL
INVARIANTS
  IndexAgrees
  RootFreshUnlessRaced
PROPERTIES
  ImplementsNodeList
  CallsReturn
CHECK_DEADLOCK FALSE

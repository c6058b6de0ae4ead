SPECIFICATION Spec
CONSTANTS
  Threads = {t1, t2}
  Hashes <- MCHashes
  Torn <- MCTorn
  TreeSize = 2
  MaxCalls = 2
  NULL = NULL
INVARIANT RootFreshWhenIdle
CHECK_DEADLOCK FALSE

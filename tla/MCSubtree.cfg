SPECIFICATION Spec
VIEW subtree
CONSTANTS
  Txs <- MCTxs
  NULL = NULL
  MaxHeight = 2
  MaxNodes = 3
  Word = 4
  MaxReplaces = 1
INVARIANTS
  TypeOK
  RootCacheFresh
  WithinTreeSize
  FitsHeight
  IndexNeverUndershoots
  PartialReadsAgree
PROPERTIES
  FeesKept
  IndexKept
  ConflictsKept
  PlaceholderKept
  ReloadFaithful

SPECIFICATION Spec
VIEW subtree
CONSTANTS
  Txs <- MCTxs
  NULL = NULL
  MaxHeight = 2
  MaxNodes = 3
  Word = 16
  MaxReplaces = 1
INVARIANTS
  CompleteMeansFull

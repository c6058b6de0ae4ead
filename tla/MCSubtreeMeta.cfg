SPECIFICATION MetaSpec
VIEW MCView
CONSTANTS
  Txs <- MCTxs
  NoInputs <- MCNoInputs
  NULL = NULL
  MaxHeight = 1
  MaxNodes = 2
  Word = 16
  MaxReplaces = 0
PROPERTIES
  
  RereadSame

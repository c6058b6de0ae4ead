SPECIFICATION Spec
CONSTANTS
  Txs = {t1, t2}
  Coinbases = {cb}
  Placeholder = Placeholder
  NULL = NULL
  MaxNodes = 3
  MaxFile = 3
INVARIANTS
  TxsMatchNodes
  WholeRoundTrip
  ChunksAddUp

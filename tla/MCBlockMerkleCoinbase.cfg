SPECIFICATION Spec
CONSTANTS
  TxHashes <- MCTxHashes
  MaxHeight = 2
  MaxLeaves = 6
INVARIANTS
  CoinbaseProofVerifies

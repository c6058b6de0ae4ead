SPECIFICATION Spec
CONSTANTS
  TxHashes <- MCTxHashes
  MaxHeight = 4
  MaxLeaves = 9
INVARIANTS
  TypeOK
  RootIsCanonical
  ProofsVerify
  PaddedRootsCompose
  CoinbaseProofVerifiesIfLevel

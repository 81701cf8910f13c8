\* Blocks of up to four transactions against a limit of three per block.
CONSTANTS
  k1 = k1
  k2 = k2
  h1 = h1
  h2 = h2
  r1 = r1
  r2 = r2
  NoKey = NoKey
  Txs <- MCTxs
  MaxTxPerBlock = 3
  MaxBlockTxs = 4
SPECIFICATION Spec
INVARIANT TypeOK
INVARIANT SanityAcceptsWellFormed

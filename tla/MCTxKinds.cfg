\* Heights 0..4 cover every gate (DPoS v2 1, NFT 2, multi-signer and
\* Schnorr 3); two transactions may wait in the pool.
CONSTANTS
  o1 = o1
  o2 = o2
  s1 = s1
  s2 = s2
  v1 = v1
  v2 = v2
  Other = Other
  ELA = ELA
  DPoSV2StartHeight = 1
  NFTStartHeight = 2
  MultiExchangeVotesStartHeight = 3
  VotesSchnorrStartHeight = 3
  StakeAddressOf <- MCStakeAddressOf
  VoteKeys <- MCVoteKeys
  Txs <- MCTxs
  MaxHeight = 4
  MaxPool = 2
SPECIFICATION Spec
PROPERTY RecheckFailsOnlyOnChange

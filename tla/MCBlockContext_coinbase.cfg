\* Heights 2 (before public DPoS), 3 (DPoS v1) and 4 (DPoS v2), the
\* record-sponsor rule from height 3, a coinbase of up to three outputs and
\* up to two transactions.
CONSTANTS
  ELA = ELA
  X = X
  Miner = Miner
  CRAssets = CRAssets
  Accumulate = Accumulate
  Destroy = Destroy
  a1 = a1
  a2 = a2
  DestroyELAProgramHash <- Destroy
  CRAssetsProgramHash <- CRAssets
  DPoSV2RewardAccumulateProgramHash <- Accumulate
  MaxUint16 = 65535
  BlockReward = 2
  CheckRewardHeight = 2
  PublicDPOSHeight = 3
  DPoSV2ActiveHeight = 2
  Heights = {2, 3, 4}
  RecordSponsorStartHeight = 3
  FinalRoundChange = 1
  RoundReward <- OneArbiter
  Available = 2
  Txs <- BlockTxs
  CoinbaseOutputs <- RewardOutputs
  PrevBlocks = {"dbUnconfirmed", "cacheConfirmed"}
  Consensus = {"DPOS", "POW"}
  MaxTxs = 2
  MaxOutputs = 3
SPECIFICATION Spec
INVARIANT TypeOK
INVARIANT CoinbaseMatchesEra
INVARIANT FeeMapBalances
INVARIANT ProposalsWithinAvailable

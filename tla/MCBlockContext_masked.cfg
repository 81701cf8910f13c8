\* A block below CheckRewardHeight whose coinbase pays any amount.
CONSTANTS
  ELA = ELA
  X = X
  Miner = Miner
  CRAssets = CRAssets
  Accumulate = Accumulate
  Destroy = Destroy
  a1 = a1
  a2 = a2
  DestroyELAProgramHash <- Destroy
  CRAssetsProgramHash <- CRAssets
  DPoSV2RewardAccumulateProgramHash <- Accumulate
  MaxUint16 = 65535
  BlockReward = 2
  CheckRewardHeight = 2
  PublicDPOSHeight = 3
  DPoSV2ActiveHeight = 2
  Heights = {1}
  RecordSponsorStartHeight = 100
  FinalRoundChange = 0
  RoundReward <- OneArbiter
  Available = 2
  Txs <- BlockTxs
  CoinbaseOutputs <- MinerOutputs
  PrevBlocks = {"dbUnconfirmed"}
  Consensus = {"DPOS"}
  MaxTxs = 1
  MaxOutputs = 2
SPECIFICATION Spec
INVARIANT CoinbaseMatchesEra

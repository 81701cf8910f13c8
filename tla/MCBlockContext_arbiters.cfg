\* A DPoS v1 block whose two arbiters have the same round reward.
CONSTANTS
  ELA = ELA
  X = X
  Miner = Miner
  CRAssets = CRAssets
  Accumulate = Accumulate
  Destroy = Destroy
  a1 = a1
  a2 = a2
  DestroyELAProgramHash <- Destroy
  CRAssetsProgramHash <- CRAssets
  DPoSV2RewardAccumulateProgramHash <- Accumulate
  MaxUint16 = 65535
  BlockReward = 2
  CheckRewardHeight = 2
  PublicDPOSHeight = 3
  DPoSV2ActiveHeight = 2
  Heights = {3}
  RecordSponsorStartHeight = 100
  FinalRoundChange = 0
  RoundReward <- TwoArbiters
  Available = 2
  Txs <- BlockTxs
  CoinbaseOutputs <- ArbiterOutputs
  PrevBlocks = {"dbUnconfirmed"}
  Consensus = {"DPOS"}
  MaxTxs = 0
  MaxOutputs = 4
SPECIFICATION Spec
INVARIANT RoundRewardsPaidExactly

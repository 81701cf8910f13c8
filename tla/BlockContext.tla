----------------------------- MODULE BlockContext -----------------------------
(***************************************************************************)
(* The contextual block checks of blockchain/blockvalidator.go:            *)
(* CheckBlockContext with its finalisation and record-sponsor rules, and   *)
(* checkTxsContext, which totals the transaction fees, books CRC proposal  *)
(* budgets within the block and checks the coinbase against the reward     *)
(* rules of the three eras (checkCoinbaseTransactionContext).              *)
(*                                                                         *)
(* A block has a height, the outputs of its coinbase and its other         *)
(* transactions.  An input is the asset and value of the output it spends  *)
(* together with its own sequence number.  The difficulty and median-time *)
(* checks and the arbitrators' special-transaction checks are opaque to    *)
(* this model and pass; CheckTransactionContext is modelled by its budget  *)
(* rule only.  Amounts are integers; math.Ceil(float64(x) * k) is the      *)
(* exact ceiling of x * k, which the float computation equals for amounts  *)
(* below 2^53.                                                             *)
(***************************************************************************)
EXTENDS Integers, Sequences, FiniteSets, SequencesExt, Functions

CONSTANTS
  ELA,                   \* core.ELAAssetID
  Heights,               \* block heights presented
  BlockReward,           \* chainParams.GetBlockReward, one value
  CheckRewardHeight,     \* chainParams.CheckRewardHeight
  PublicDPOSHeight,      \* chainParams.PublicDPOSHeight
  DPoSV2ActiveHeight,    \* Arbitrators.GetDPoSV2ActiveHeight()
  RecordSponsorStartHeight,
  FinalRoundChange,      \* Arbitrators.GetFinalRoundChange()
  RoundReward,           \* Arbitrators.GetArbitersRoundReward(): hash -> amount
  DestroyELAProgramHash,
  CRAssetsProgramHash,
  DPoSV2RewardAccumulateProgramHash,
  Available,             \* CR budget a block's proposals may still use
  MaxUint16,             \* math.MaxUint16
  Txs,                   \* non-coinbase transactions a block may carry
  CoinbaseOutputs,       \* outputs a coinbase may carry
  PrevBlocks,            \* how the previous block is found, see SponsorRule
  Consensus,             \* consensus algorithms the node may be running
  MaxTxs,                \* bound: non-coinbase transactions of a block
  MaxOutputs             \* bound: outputs of a coinbase

VARIABLES
  height,     \* block.Height
  coinbase,   \* block.Transactions[0].Outputs()
  txs,        \* block.Transactions[1:]
  prev,       \* where the previous block and its confirm are found
  consensus,  \* b.state.GetConsensusAlgorithm(): "DPOS" or "POW"
  verdict     \* "none" until validated, then "ok" or the error kind

vars == <<height, coinbase, txs, prev, consensus, verdict>>

\* ceiling of x * n / d, the Fixed64(math.Ceil(float64(x) * 0.30 or 0.35))
CeilMul(x, n, d) == -((-(x * n)) \div d)

SumOf(seq, F(_)) == FoldLeft(LAMBDA acc, e : acc + F(e), 0, seq)

-----------------------------------------------------------------------------
(* GetTxFeeMap: per asset, the value of the referenced outputs minus the   *)
(* value of the transaction's outputs; GetTxFee reads one asset of it,     *)
(* zero when the asset is absent.                                          *)

AssetSum(seq, a) == SumOf(SelectSeq(seq, LAMBDA e : e.asset = a), LAMBDA e : e.value)
AssetsOf(seq) == {seq[i].asset : i \in 1..Len(seq)}

GetTxFeeMap_outputsOnly(tx) ==
  [a \in AssetsOf(tx.outputs) |->
     IF a \in AssetsOf(tx.inputs)
     THEN AssetSum(tx.inputs, a) - AssetSum(tx.outputs, a)
     ELSE 0 - AssetSum(tx.outputs, a)]

GetTxFeeMap(tx) ==
  LET outs == AssetsOf(tx.outputs)
      ins  == AssetsOf(tx.inputs)
      fromOutputs ==
        [a \in outs |-> IF a \in ins
                        THEN AssetSum(tx.inputs, a) - AssetSum(tx.outputs, a)
                        ELSE 0 - AssetSum(tx.outputs, a)]
  IN  fromOutputs @@ [a \in ins \ outs |-> AssetSum(tx.inputs, a)]

GetTxFee(tx, asset) ==
  LET m == GetTxFeeMap(tx) IN IF asset \in DOMAIN m THEN m[asset] ELSE 0

\* tx.Fee(): the ELA fee the transaction checker records on the transaction
Fee(tx) == GetTxFee(tx, ELA)

\* GetBlockDPOSReward: 35% of the fees (the coinbase has none) and reward
GetBlockDPOSReward == CeilMul(SumOf(txs, Fee) + BlockReward, 35, 100)

-----------------------------------------------------------------------------
(* checkCoinbaseTransactionContext and CheckCoinbaseArbitratorsReward.     *)

CheckCoinbaseArbitratorsReward_reportHash(outs) ==
  IF Cardinality(DOMAIN RoundReward) # Len(outs) - 2 THEN "OutputCount"
  ELSE LET bad == {i \in 3..Len(outs) :
                     \/ outs[i].hash \notin DOMAIN RoundReward
                     \/ RoundReward[outs[i].hash] # outs[i].value}
       IN  IF bad = {} THEN "ok"
           ELSE LET i == CHOOSE j \in bad : \A k \in bad : j <= k
                IN  IF outs[i].hash \notin DOMAIN RoundReward
                    THEN outs[i].hash ELSE "RewardAmount"

CheckCoinbaseArbitratorsReward(outs) ==
  IF Cardinality(DOMAIN RoundReward) # Len(outs) - 2 THEN "OutputCount"
  ELSE LET bad == {i \in 3..Len(outs) :
                     \/ outs[i].hash \notin DOMAIN RoundReward
                     \/ RoundReward[outs[i].hash] # outs[i].value}
       IN  IF bad = {} THEN "ok"
           ELSE LET i == CHOOSE j \in bad : \A k \in bad : j <= k
                IN  IF outs[i].hash \notin DOMAIN RoundReward
                    THEN "UnknownRewardAddress" ELSE "RewardAmount"

\* DPoS v2: the CR, merge-miner and DPoS shares; outputs[0] and [1] are
\* read before the output count is checked
CheckCoinbaseV2(outs, totalTxFee, dposReward) ==
  LET total == totalTxFee + BlockReward
      rewardCyberRepublic == CeilMul(total, 30, 100)
      rewardDposArbiter   == CeilMul(total, 35, 100)
      rewardMergeMiner    == total - rewardCyberRepublic - rewardDposArbiter
      burn == consensus = "POW"
  IN  IF Len(outs) < 2 THEN "IndexOutOfRange"
      ELSE IF outs[1].value # rewardCyberRepublic THEN "RewardCyberRepublic"
      ELSE IF outs[2].value # rewardMergeMiner THEN "RewardMergeMiner"
      ELSE IF Len(outs) # 3 THEN "OutputCount"
      ELSE IF outs[3].value # dposReward THEN "DPoSReward"
      ELSE IF burn
           THEN IF outs[3].hash # DestroyELAProgramHash
                THEN "DPoSRewardAddress"
                ELSE IF outs[1].hash # DestroyELAProgramHash
                THEN "RewardCyberRepublicAddress" ELSE "ok"
      ELSE IF outs[1].hash # CRAssetsProgramHash
           THEN "RewardCyberRepublicAddress"
      ELSE IF outs[3].hash # DPoSV2RewardAccumulateProgramHash
           THEN "DPoSRewardAddress"
      ELSE "ok"

\* DPoS v1: the miner's two outputs and the arbiters' round rewards
CheckCoinbaseV1(outs, totalTxFee) ==
  LET total == totalTxFee + BlockReward
  IN  IF Len(outs) < 2 THEN "IndexOutOfRange"
      ELSE IF total - CeilMul(total, 35, 100) + FinalRoundChange
                # outs[1].value + outs[2].value THEN "RewardAmount"
      ELSE CheckCoinbaseArbitratorsReward(outs)

\* before public DPoS: outputs minus fees is the block reward
CheckCoinbasePow(outs, totalTxFee) ==
  IF SumOf(outs, LAMBDA o : o.value) - totalTxFee # BlockReward
  THEN "RewardAmount" ELSE "ok"

checkCoinbase_v2AtActive(h, outs, totalTxFee, dposReward) ==
  IF h > DPoSV2ActiveHeight THEN CheckCoinbaseV2(outs, totalTxFee, dposReward)
  ELSE IF h >= PublicDPOSHeight THEN CheckCoinbaseV1(outs, totalTxFee)
  ELSE CheckCoinbasePow(outs, totalTxFee)

checkCoinbaseTransactionContext(h, outs, totalTxFee, dposReward) ==
  IF h > DPoSV2ActiveHeight + 1
  THEN CheckCoinbaseV2(outs, totalTxFee, dposReward)
  ELSE IF h >= PublicDPOSHeight THEN CheckCoinbaseV1(outs, totalTxFee)
  ELSE CheckCoinbasePow(outs, totalTxFee)

-----------------------------------------------------------------------------
(* checkTxsContext and CheckBlockContext.                                  *)

\* RecordCRCProposalAmount: the sum of a proposal's budgets
RecordCRCProposalAmount(tx) == IF tx.type = "CRCProposal" THEN tx.budget ELSE 0

\* CheckTransactionContext's budget rule: a proposal may use only what is
\* left after the proposals booked earlier in the same block
CheckTransactionContext(tx, proposalsUsedAmount) ==
  IF tx.type = "CRCProposal" /\ proposalsUsedAmount + tx.budget > Available
  THEN "ProposalBudget" ELSE "ok"

TxsStep_noRecord(acc, tx) ==
  IF acc.err # "ok" THEN acc
  ELSE LET e == CheckTransactionContext(tx, acc.used)
       IN  IF e # "ok" THEN [acc EXCEPT !.err = e]
           ELSE [acc EXCEPT !.fee = @ + GetTxFee(tx, ELA)]

\* one iteration of the loop over block.Transactions[1:]
TxsStep(acc, tx) ==
  IF acc.err # "ok" THEN acc
  ELSE LET e == CheckTransactionContext(tx, acc.used)
       IN  IF e # "ok" THEN [acc EXCEPT !.err = e]
           ELSE [acc EXCEPT !.fee  = @ + GetTxFee(tx, ELA),
                            !.used = @ + RecordCRCProposalAmount(tx)]

\* the coinbase error is returned, except below CheckRewardHeight where err
\* is overwritten by the (nil) result of block.Serialize
checkTxsContext ==
  LET loop == FoldLeft(TxsStep, [fee |-> 0, used |-> 0, err |-> "ok"], txs)
      err  == checkCoinbaseTransactionContext(height, coinbase, loop.fee,
                                              GetBlockDPOSReward)
  IN  IF loop.err # "ok" THEN loop.err
      ELSE IF err \notin {"ok", "IndexOutOfRange"} /\ height < CheckRewardHeight
           THEN "ok"
      ELSE err

IsFinalizedTransaction(tx, h) ==
  \/ tx.lockTime = 0
  \/ tx.lockTime < h
  \/ \A i \in 1..Len(tx.inputs) : tx.inputs[i].sequence = MaxUint16

\* the record-sponsor rule: the previous block comes from the database
\* ("db...") or from blockCache and confirmCache ("cache..."); a confirm
\* entry holding nil is an unconfirmed block
SponsorRule(recordSponsorExist) ==
  IF height < RecordSponsorStartHeight THEN "ok"
  ELSE IF prev = "missing" THEN "GetLastBlock"
  ELSE IF prev = "cacheNoConfirmEntry" THEN "GetLastBlockConfirm"
  ELSE LET confirmed == prev \in {"dbConfirmed", "cacheConfirmed"}
       IN  IF ~confirmed /\ recordSponsorExist THEN "SponsorNotConfirmed"
           ELSE IF confirmed /\ ~recordSponsorExist THEN "SponsorMissing"
           ELSE "ok"

CheckBlockContext ==
  LET recordSponsorExist == \E i \in 1..Len(txs) : txs[i].type = "RecordSponsor"
      rule == SponsorRule(recordSponsorExist)
  IN  IF \E i \in 1..Len(txs) : ~IsFinalizedTransaction(txs[i], height)
      THEN "Unfinalized"
      ELSE IF rule # "ok" THEN rule
      ELSE checkTxsContext

-----------------------------------------------------------------------------
Init ==
  /\ height \in Heights
  /\ prev \in PrevBlocks
  /\ consensus \in Consensus
  /\ coinbase = <<>>
  /\ txs = <<>>
  /\ verdict = "none"

\* the block producer adds an output to the coinbase
AddOutput(o) ==
  /\ verdict = "none"
  /\ Len(coinbase) < MaxOutputs
  /\ coinbase' = Append(coinbase, o)
  /\ UNCHANGED <<height, txs, prev, consensus, verdict>>

\* the block producer adds a transaction
AddTx(tx) ==
  /\ verdict = "none"
  /\ Len(txs) < MaxTxs
  /\ txs' = Append(txs, tx)
  /\ UNCHANGED <<height, coinbase, prev, consensus, verdict>>

\* the node runs CheckBlockContext on the block
Validate ==
  /\ verdict = "none"
  /\ verdict' = CheckBlockContext
  /\ UNCHANGED <<height, coinbase, txs, prev, consensus>>

\* after a verdict another block is presented, in another chain context
NextBlock ==
  /\ verdict # "none"
  /\ height' \in Heights
  /\ prev' \in PrevBlocks
  /\ consensus' \in Consensus
  /\ coinbase' = <<>>
  /\ txs' = <<>>
  /\ verdict' = "none"

Next ==
  \/ \E o \in CoinbaseOutputs : AddOutput(o)
  \/ \E tx \in Txs : AddTx(tx)
  \/ Validate
  \/ NextBlock

Spec == Init /\ [][Next]_vars

-----------------------------------------------------------------------------
ContextErrors ==
  {"Unfinalized", "GetLastBlock", "GetLastBlockConfirm", "SponsorNotConfirmed",
   "SponsorMissing", "ProposalBudget", "IndexOutOfRange", "RewardAmount",
   "OutputCount", "UnknownRewardAddress", "RewardCyberRepublic",
   "RewardMergeMiner", "DPoSReward", "DPoSRewardAddress",
   "RewardCyberRepublicAddress"}

(* The validator's answer is "ok" or one of the error kinds it reports.    *)
TypeOK ==
  /\ height \in Heights
  /\ coinbase \in Seq(CoinbaseOutputs)
  /\ txs \in Seq(Txs)
  /\ prev \in PrevBlocks
  /\ consensus \in Consensus
  /\ verdict \in {"none", "ok"} \cup ContextErrors

\* the ELA fee of a transaction as spec 4.1.2 defines it, and the total
SpecFee(tx) == AssetSum(tx.inputs, ELA) - AssetSum(tx.outputs, ELA)
TotalReward == SumOf(txs, SpecFee) + BlockReward
OutputSum(outs) == SumOf(outs, LAMBDA o : o.value)

\* the coinbase rule of spec 4.2 for the era of the block's height
EraRule ==
  IF height > DPoSV2ActiveHeight + 1 THEN
    /\ Len(coinbase) = 3
    /\ coinbase[1].value = CeilMul(TotalReward, 30, 100)
    /\ coinbase[3].value = CeilMul(TotalReward, 35, 100)
    /\ coinbase[2].value = TotalReward - coinbase[1].value - coinbase[3].value
    /\ coinbase[1].hash = IF consensus = "POW" THEN DestroyELAProgramHash
                          ELSE CRAssetsProgramHash
    /\ coinbase[3].hash = IF consensus = "POW" THEN DestroyELAProgramHash
                          ELSE DPoSV2RewardAccumulateProgramHash
  ELSE IF height >= PublicDPOSHeight THEN
    /\ Len(coinbase) >= 2
    /\ coinbase[1].value + coinbase[2].value
         = TotalReward - CeilMul(TotalReward, 35, 100) + FinalRoundChange
    /\ \A i \in 3..Len(coinbase) :
         /\ coinbase[i].hash \in DOMAIN RoundReward
         /\ coinbase[i].value = RoundReward[coinbase[i].hash]
  ELSE OutputSum(coinbase) - SumOf(txs, SpecFee) = BlockReward

(* Spec 8.2 and 4.2: a block that checkTxsContext accepts has a coinbase   *)
(* that pays out exactly the block reward and fees its height's era       *)
(* prescribes, with the fees totalled from the transactions' inputs and    *)
(* outputs and the DPoS share taken from GetBlockDPOSReward.               *)
CoinbaseMatchesEra == verdict = "ok" => EraRule

(* Spec 4.1.2: the CRC proposals of an accepted block together use no more *)
(* than the budget left, because each proposal is checked against the      *)
(* budgets RecordCRCProposalAmount booked for the earlier ones.            *)
ProposalsWithinAvailable ==
  verdict = "ok" => SumOf(txs, RecordCRCProposalAmount) <= Available

(* GetTxFee reads, for every asset a transaction moves, its inputs minus   *)
(* its outputs, also for an asset only spent or only paid out.             *)
FeeMapBalances ==
  \A i \in 1..Len(txs) :
    \A a \in AssetsOf(txs[i].inputs) \cup AssetsOf(txs[i].outputs) :
      GetTxFee(txs[i], a)
        = AssetSum(txs[i].inputs, a) - AssetSum(txs[i].outputs, a)

\* what the arbiter outputs of a coinbase pay to a program hash
PaidTo(hh) ==
  SumOf(SelectSeq(SubSeq(coinbase, 3, Len(coinbase)), LAMBDA o : o.hash = hh),
        LAMBDA o : o.value)

(* The round-reward table is what a DPoS v1 coinbase pays the arbiters:   *)
(* an accepted coinbase pays every arbiter its reward once and nobody      *)
(* else, as CheckCoinbaseArbitratorsReward is meant to ensure.             *)
RoundRewardsPaidExactly ==
  (verdict = "ok" /\ PublicDPOSHeight <= height /\ height <= DPoSV2ActiveHeight + 1)
    => \A hh \in DOMAIN RoundReward : PaidTo(hh) = RoundReward[hh]
=============================================================================

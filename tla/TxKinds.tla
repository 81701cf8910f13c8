------------------------------- MODULE TxKinds -------------------------------
(***************************************************************************)
(* The checks two transaction kinds add to transaction validation:         *)
(* core/transaction/exchangevotes.go (ExchangeVotes, which locks ELA in   *)
(* the stake pool for DPoS v2 vote rights) and createnfttransaction.go     *)
(* (CreateNFT, which turns a DPoS v2 vote into an NFT).  Each check is a   *)
(* predicate: TRUE when the Go method returns nil, FALSE on any of its     *)
(* early error returns (the properties do not tell the errors apart).      *)
(*                                                                         *)
(* The checks read the block height, the chain's consensus algorithm and,  *)
(* for CreateNFT, the DPoS v2 votes of the producers, all of which change  *)
(* while a transaction waits in the pool.  The pool accepts a transaction  *)
(* after the full check and re-checks it when a block packing it is        *)
(* validated; the chain meanwhile grows, reverts to PoW and back, and      *)
(* votes come and go.                                                      *)
(***************************************************************************)
EXTENDS Integers, Sequences, FiniteSets

CONSTANTS
  ELA,                            \* core.ELAAssetID
  DPoSV2StartHeight,              \* chainParams.DPoSV2StartHeight
  MultiExchangeVotesStartHeight,  \* chainParams.MultiExchangeVotesStartHeight
  VotesSchnorrStartHeight,        \* chainParams.VotesSchnorrStartHeight
  NFTStartHeight,                 \* chainParams.NFTStartHeight
  StakeAddressOf,                 \* program owner -> CreateStakeContractByCode(..).ToProgramHash()
  VoteKeys,                       \* refer keys a DPoS v2 vote may have
  Txs,                            \* transactions users may submit
  MaxHeight,                      \* bound: chain height
  MaxPool                         \* bound: transactions waiting in the pool

VARIABLES
  height,     \* the best chain height; a block is validated at height + 1
  consensus,  \* BlockChain.GetState().GetConsensusAlgorithm()
  votes,      \* refer keys of GetDposV2Producers' GetAllDetailedDPoSV2Votes
  pooled      \* pool: accepted transaction -> consensus it was accepted under

vars == <<height, consensus, votes, pooled>>

Programs(tx) == tx.programs
Outputs(tx)  == tx.outputs
Idx(s)       == 1..Len(s)

StandardOrMultiSig(o) == o.dest \in {"standard", "multisig"}

-----------------------------------------------------------------------------
(* ExchangeVotesTransaction                                                *)

ExchangeVotesHeightVersionCheck(tx, h) ==
  /\ h >= DPoSV2StartHeight
  /\ h < MultiExchangeVotesStartHeight => Len(Programs(tx)) <= 1

\* every output is ELA of a positive value; the first is a stake output to
\* the stake pool with a valid ExchangeVotesOutput payload
StakeOutputs(tx) ==
  /\ \A i \in Idx(Outputs(tx)) : Outputs(tx)[i].asset = ELA /\ Outputs(tx)[i].value > 0
  /\ Outputs(tx)[1].type = "OTStake"
  /\ Outputs(tx)[1].payload = "valid"

\* pow or before MultiExchangeVotesStartHeight: one signer, whose stake
\* address the first output must name, and at most one change output
CheckOutputSingleInput(tx) ==
  /\ Len(Outputs(tx)) <= 2
  /\ Len(Outputs(tx)) >= 1
  /\ Len(Programs(tx)) = 1
  /\ StakeOutputs(tx)
  /\ Programs(tx)[1].code # "nil"
  /\ StakeAddressOf[Programs(tx)[1].owner] = Outputs(tx)[1].stakeAddress
  /\ Outputs(tx)[1].dest = "stakePool"
  /\ Len(Outputs(tx)) = 2 => StandardOrMultiSig(Outputs(tx)[2])

CheckOutputMultiInputs(tx) ==
  /\ Len(Outputs(tx)) >= 1
  /\ Len(Programs(tx)) >= 1
  /\ \A i \in Idx(Outputs(tx)) : i >= 2 => StandardOrMultiSig(Outputs(tx)[i])
  /\ StakeOutputs(tx)
  /\ Outputs(tx)[1].dest = "stakePool"

CheckTransactionOutput_heightInverted(tx, h, c) ==
  IF c = "POW" \/ h >= MultiExchangeVotesStartHeight
  THEN CheckOutputSingleInput(tx)
  ELSE CheckOutputMultiInputs(tx)

CheckTransactionOutput(tx, h, c) ==
  IF c = "POW" \/ h < MultiExchangeVotesStartHeight
  THEN CheckOutputSingleInput(tx)
  ELSE CheckOutputMultiInputs(tx)

ExchangeVotesCheckTransactionPayload(tx) == tx.payload = "ExchangeVotes"

CheckAttributeProgram(tx, c) ==
  /\ tx.attributesValid
  /\ IF c = "POW" THEN Len(Programs(tx)) = 1 ELSE Len(Programs(tx)) >= 1
  /\ \A i \in Idx(Programs(tx)) :
       /\ Programs(tx)[i].code \notin {"nil", "short"}
       /\ Programs(tx)[i].parameter

ExchangeVotesIsAllowedInPOWConsensus == TRUE

ExchangeVotesSpecialContextCheck(tx, h) ==
  h < VotesSchnorrStartHeight =>
    \A i \in Idx(Programs(tx)) : Programs(tx)[i].code # "schnorr"

-----------------------------------------------------------------------------
(* CreateNFTTransaction; its output and program checks are the base        *)
(* transaction's, which are not modelled and pass.                         *)

CreateNFTCheckTransactionPayload(tx) == tx.payload = "CreateNFT"

CreateNFTHeightVersionCheck(tx, h) == h >= NFTStartHeight

CreateNFTIsAllowedInPOWConsensus == FALSE

\* the NFT ID must be the refer key of a DPoS v2 vote of some producer
CreateNFTSpecialContextCheck(tx, v) ==
  /\ tx.payload = "CreateNFT"
  /\ tx.id \in v


-----------------------------------------------------------------------------
(* The per-transaction drivers of CheckTransactionSanity and               *)
(* CheckTransactionContext (outside src/): the sanity checks, then the     *)
(* height/version gate, the PoW filter and the special context check.     *)

SanityCheck(tx, h, c) ==
  IF tx.type = "ExchangeVotes"
  THEN /\ CheckTransactionOutput(tx, h, c)
       /\ CheckAttributeProgram(tx, c)
       /\ ExchangeVotesCheckTransactionPayload(tx)
  ELSE CreateNFTCheckTransactionPayload(tx)

ContextCheck(tx, h, c, v) ==
  IF tx.type = "ExchangeVotes"
  THEN /\ ExchangeVotesHeightVersionCheck(tx, h)
       /\ c = "POW" => ExchangeVotesIsAllowedInPOWConsensus
       /\ ExchangeVotesSpecialContextCheck(tx, h)
  ELSE /\ CreateNFTHeightVersionCheck(tx, h)
       /\ c = "POW" => CreateNFTIsAllowedInPOWConsensus
       /\ CreateNFTSpecialContextCheck(tx, v)

Valid(tx, h, c, v) == SanityCheck(tx, h, c) /\ ContextCheck(tx, h, c, v)

-----------------------------------------------------------------------------
Init ==
  /\ height = 0
  /\ consensus = "DPOS"
  /\ votes = {}
  /\ pooled = <<>>

\* the pool accepts a transaction that passes the full check for the next
\* block under the current consensus and votes
PoolAccept(tx) ==
  /\ tx \notin DOMAIN pooled
  /\ Cardinality(DOMAIN pooled) < MaxPool
  /\ Valid(tx, height + 1, consensus, votes)
  /\ pooled' = [t \in DOMAIN pooled \cup {tx} |->
                   IF t = tx THEN consensus ELSE pooled[t]]
  /\ UNCHANGED <<height, consensus, votes>>

\* a block packing a pooled transaction is validated at height + 1: the
\* transaction leaves the pool, and the block is saved when it passes
Pack(tx) ==
  /\ tx \in DOMAIN pooled
  /\ height < MaxHeight
  /\ pooled' = [t \in DOMAIN pooled \ {tx} |-> pooled[t]]
  /\ height' = IF Valid(tx, height + 1, consensus, votes) THEN height + 1
                ELSE height
  /\ UNCHANGED <<consensus, votes>>

\* a block without these transactions is saved
EmptyBlock ==
  /\ height < MaxHeight
  /\ height' = height + 1
  /\ UNCHANGED <<consensus, votes, pooled>>

\* a RevertToPOW transaction switches the chain to PoW; a block confirmed
\* by the arbiters again resumes DPoS
SwitchConsensus(c) ==
  /\ consensus # c
  /\ consensus' = c
  /\ UNCHANGED <<height, votes, pooled>>

\* a DPoS v2 vote is cast or withdrawn
CastVote(k) ==
  /\ k \notin votes
  /\ votes' = votes \cup {k}
  /\ UNCHANGED <<height, consensus, pooled>>

WithdrawVote(k) ==
  /\ k \in votes
  /\ votes' = votes \ {k}
  /\ UNCHANGED <<height, consensus, pooled>>

Next ==
  \/ \E tx \in Txs : PoolAccept(tx) \/ Pack(tx)
  \/ EmptyBlock
  \/ \E c \in {"DPOS", "POW"} : SwitchConsensus(c)
  \/ \E k \in VoteKeys : CastVote(k) \/ WithdrawVote(k)

Spec == Init /\ [][Next]_vars

-----------------------------------------------------------------------------
\* packing tx now fails the check it passed when the pool accepted it
RecheckFails(tx) ==
  /\ tx \in DOMAIN pooled
  /\ tx \notin DOMAIN pooled'
  /\ ~Valid(tx, height + 1, consensus, votes)

(* Height gates only ever open: a transaction the pool accepted fails its  *)
(* re-check when a block packs it only because the chain has since         *)
(* reverted from DPoS to PoW (one signer, single-input output rules, no    *)
(* CreateNFT) or because the vote a CreateNFT names was withdrawn; the     *)
(* blocks saved in between, across DPoSV2StartHeight,                      *)
(* MultiExchangeVotesStartHeight and VotesSchnorrStartHeight, never        *)
(* invalidate it, nor does resuming DPoS after PoW.                        *)
RecheckFailsOnlyOnChange ==
  [][\A tx \in Txs :
       RecheckFails(tx) =>
         \/ pooled[tx] = "DPOS" /\ consensus = "POW"
         \/ tx.type = "CreateNFT" /\ tx.id \notin votes]_vars
=============================================================================

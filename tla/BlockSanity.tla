----------------------------- MODULE BlockSanity -----------------------------
(***************************************************************************)
(* The context-free block checks of blockchain/blockvalidator.go:          *)
(* CheckBlockSanity and the block-wide uniqueness rules of                 *)
(* CheckDuplicateTx.  A block is its sequence of transactions; a           *)
(* transaction is a record of its type, the keys its payload carries and   *)
(* the refer keys of its inputs, and two transactions have the same hash   *)
(* exactly when they are the same record.                                  *)
(*                                                                         *)
(* The header checks (aux pow, proof of work, timestamp), the byte-size    *)
(* checks, the per-transaction CheckTransactionSanity and the merkle root  *)
(* are opaque computations over bytes; the model lets every block pass     *)
(* them.  The validator is pure; the environment builds a block one        *)
(* transaction at a time and asks for the verdict.                         *)
(***************************************************************************)
EXTENDS Integers, Sequences, FiniteSets, SequencesExt, Functions

CONSTANTS
  Txs,           \* the transactions a block may carry
  MaxTxPerBlock, \* pact.MaxTxPerBlock
  MaxBlockTxs    \* bound: transactions in a presented block

VARIABLES
  blk,           \* the block presented to the validator
  verdict        \* "none" until validated, then "ok" or the error kind

vars == <<blk, verdict>>

ProducerTypes == {"RegisterProducer", "UpdateProducer", "CancelProducer"}
NodeTypes     == {"RegisterProducer", "UpdateProducer"}
CRTypes       == {"RegisterCR", "UpdateCR", "UnregisterCR"}

SanityErrors ==
  {"NoTransactions", "TooManyTransactions", "FirstNotCoinbase",
   "SecondCoinbase", "DuplicateTx", "DuplicateUTXO", "DuplicateSponsor",
   "DuplicateSidechainTx", "DuplicateProducer", "DuplicateProducerNode",
   "DuplicateCR"}

-----------------------------------------------------------------------------
(* CheckDuplicateTx: the maps existingSideTxs, existingProducer,           *)
(* existingProducerNode, existingCR and recordSponsorCount, and the first  *)
(* error returned.                                                         *)

DupInit ==
  [sideTxs |-> {}, producer |-> {}, producerNode |-> {}, cr |-> {},
   sponsors |-> 0, err |-> "ok"]

Fail(acc, e) == [acc EXCEPT !.err = e]

\* a duplicate key k in the map m is an error; else k is added to m
Claim_reportKey(acc, m, k, e) ==
  IF k \in acc[m] THEN Fail(acc, k) ELSE [acc EXCEPT ![m] = @ \cup {k}]
Claim(acc, m, k, e) ==
  IF k \in acc[m] THEN Fail(acc, e) ELSE [acc EXCEPT ![m] = @ \cup {k}]

\* a producer payload claims its owner key, then its node key
ClaimProducer(acc, tx) ==
  LET a == Claim(acc, "producer", tx.owner, "DuplicateProducer")
  IN  IF a.err # "ok" THEN a
      ELSE Claim(a, "producerNode", tx.node, "DuplicateProducerNode")

ClaimSideTxs(acc, tx) ==
  FoldLeft(LAMBDA a, h : IF a.err # "ok" THEN a
                         ELSE Claim(a, "sideTxs", h, "DuplicateSidechainTx"),
           acc, tx.hashes)

DupStep_updateSkipsNode(acc, tx) ==
  IF acc.err # "ok" THEN acc
  ELSE CASE tx.type = "RecordSponsor" ->
              IF acc.sponsors + 1 > 1 THEN Fail(acc, "DuplicateSponsor")
              ELSE [acc EXCEPT !.sponsors = @ + 1]
         [] tx.type = "WithdrawFromSideChain" -> ClaimSideTxs(acc, tx)
         [] tx.type = "RegisterProducer" -> ClaimProducer(acc, tx)
         [] tx.type \in {"UpdateProducer", "CancelProducer"} ->
              Claim(acc, "producer", tx.owner, "DuplicateProducer")
         [] tx.type \in CRTypes -> Claim(acc, "cr", tx.cid, "DuplicateCR")
         [] OTHER -> acc

\* one iteration of the loop over block.Transactions
DupStep(acc, tx) ==
  IF acc.err # "ok" THEN acc
  ELSE CASE tx.type = "RecordSponsor" ->
              IF acc.sponsors + 1 > 1 THEN Fail(acc, "DuplicateSponsor")
              ELSE [acc EXCEPT !.sponsors = @ + 1]
         [] tx.type = "WithdrawFromSideChain" -> ClaimSideTxs(acc, tx)
         [] tx.type \in NodeTypes -> ClaimProducer(acc, tx)
         [] tx.type = "CancelProducer" ->
              Claim(acc, "producer", tx.owner, "DuplicateProducer")
         [] tx.type \in CRTypes -> Claim(acc, "cr", tx.cid, "DuplicateCR")
         [] OTHER -> acc

CheckDuplicateTx(txs) == FoldLeft(DupStep, DupInit, txs).err

-----------------------------------------------------------------------------
(* CheckBlockSanity: the loop over the transactions keeps existingTxIDs   *)
(* and existingTxInputs; CheckTransactionSanity sits between the two       *)
(* checks and passes.                                                      *)

SanityInit == [ids |-> {}, inputs |-> {}, err |-> "ok"]

InputStep(acc, key) ==
  IF acc.err # "ok" THEN acc
  ELSE Claim(acc, "inputs", key, "DuplicateUTXO")

TxStep(acc, tx) ==
  IF acc.err # "ok" THEN acc
  ELSE LET a == Claim(acc, "ids", tx, "DuplicateTx")
       IN  IF a.err # "ok" THEN a ELSE FoldLeft(InputStep, a, tx.inputs)

CheckBlockSanity(txs) ==
  LET n == Len(txs)
  IN  IF n = 0 THEN "NoTransactions"
      ELSE IF n > MaxTxPerBlock THEN "TooManyTransactions"
      ELSE IF txs[1].type # "CoinBase" THEN "FirstNotCoinbase"
      ELSE IF \E i \in 2..n : txs[i].type = "CoinBase" THEN "SecondCoinbase"
      ELSE LET loop == FoldLeft(TxStep, SanityInit, txs)
           IN  IF loop.err # "ok" THEN loop.err ELSE CheckDuplicateTx(txs)

-----------------------------------------------------------------------------
Init ==
  /\ blk = <<>>
  /\ verdict = "none"

\* the block producer appends a transaction to the block being built
AddTx(tx) ==
  /\ Len(blk) < MaxBlockTxs
  /\ blk' = Append(blk, tx)
  /\ verdict' = "none"

\* the node runs CheckBlockSanity on the block
Validate ==
  /\ verdict = "none"
  /\ verdict' = CheckBlockSanity(blk)
  /\ UNCHANGED blk

\* after a verdict the producer starts another block
NextBlock ==
  /\ verdict # "none"
  /\ blk' = <<>>
  /\ verdict' = "none"

Next ==
  \/ \E tx \in Txs : AddTx(tx)
  \/ Validate
  \/ NextBlock

Spec == Init /\ [][Next]_vars

-----------------------------------------------------------------------------
(* The validator's answer is "ok" or one of the error kinds it reports.    *)
TypeOK ==
  /\ blk \in Seq(Txs)
  /\ verdict \in {"none", "ok"} \cup SanityErrors

\* the refer keys of all inputs, and the side-chain hashes of all
\* withdrawals, in block order
InputKeys(txs) == FlattenSeq([i \in 1..Len(txs) |-> txs[i].inputs])
SideHashes(txs) ==
  FlattenSeq([i \in 1..Len(txs) |->
                IF txs[i].type = "WithdrawFromSideChain" THEN txs[i].hashes
                ELSE <<>>])

\* no two transactions of the given types carry the same value in field f
DistinctOver(txs, types, f) ==
  \A i, j \in 1..Len(txs) :
    i # j /\ txs[i].type \in types /\ txs[j].type \in types
      => txs[i][f] # txs[j][f]

\* spec 4.1.1 items 3, 4, 5 and 8 and the block invariants of spec 3
WellFormedBlock(txs) ==
  /\ 1 <= Len(txs) /\ Len(txs) <= MaxTxPerBlock
  /\ \A i \in 1..Len(txs) : (txs[i].type = "CoinBase") <=> (i = 1)
  /\ IsInjective(txs)
  /\ IsInjective(InputKeys(txs))
  /\ Cardinality({i \in 1..Len(txs) : txs[i].type = "RecordSponsor"}) <= 1
  /\ IsInjective(SideHashes(txs))
  /\ DistinctOver(txs, ProducerTypes, "owner")
  /\ DistinctOver(txs, NodeTypes, "node")
  /\ DistinctOver(txs, CRTypes, "cid")

(* CheckBlockSanity, with CheckDuplicateTx, accepts a block exactly when   *)
(* it is well formed as spec 4.1.1 says: one leading coinbase, no          *)
(* duplicate transaction, input, sponsor record or side-chain hash, and no *)
(* producer owner key, producer node key or CR CID claimed twice, however  *)
(* the transaction types are mixed and ordered.                            *)
SanityAcceptsWellFormed ==
  verdict # "none" => ((verdict = "ok") <=> WellFormedBlock(blk))
=============================================================================

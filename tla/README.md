# TLA+ models of the Elastos.ELA node

This directory holds TLA+ specifications of parts of the ELA main-chain node
(`src/`) and the TLC configurations that check them. Five parts are
modelled so far:

- the checkpoint manager (`src/core/checkpoint/manager.go`);
- the CR committee's proposal and vote handling (`src/cr/state/`);
- the block validator and its reward rules (`src/blockchain/blockvalidator.go`);
- the DPoS arbitrator's event handling and the PoW revert watchdog
  (`src/dpos/arbitrator.go`, `src/pow/revertlistener.go`);
- the checks of the ExchangeVotes and CreateNFT transactions
  (`src/core/transaction/exchangevotes.go`, `createnfttransaction.go`).

The other components are surveyed below and planned in the order given in
"Plan".

## 1. Inventory

### Components and their state

| Component | Source | State it keeps |
|---|---|---|
| CheckpointManager | `core/checkpoint/manager.go` | `checkpoints` map key → ICheckPoint; one file channel per key (a FIFO of Save/Replace commands); the `NeedSave` flag; files `<height><ext>` and `default<ext>` under the data path |
| ICheckPoint implementations (DPoS state, CR committee, tx pool, …) | not in `src/` (spec §4.5) | a live state mutated only through a History undo journal; `GetHeight` (set by `SetHeight` when a snapshot is taken) |
| CR proposal manager | `cr/state/proposalmanager.go` | `Proposals` (status, CR votes, `VotersRejectAmount`, budgets), proposal hashes per DID; changes go through `History` |
| CR committee tx processing | `cr/state/committeeaction.go` | CRC foundation/committee balances, UTXO sets of CRC addresses, `Votes` of vote outputs, impeachment amounts |
| Block validator and reward accountant | `blockchain/blockvalidator.go` | stateless checks over a block; reads the arbiters, the CR committee and the chain parameters |
| DPoS arbitrator | `dpos/arbitrator.go` | `enableViewLoop`, the network and the DPoS manager; one goroutine per event |
| PoW revert listener | `pow/revertlistener.go` | none of its own: reads the best height, the arbiters' mode and the last block time every minute |
| ProcessProducer payload, ExchangeVotes and CreateNFT transactions | `core/types/payload/processproducer.go`, `core/transaction/*.go` | none: codecs and per-transaction checks |
| Wallet CLI, picturetobase58 | `cmd/wallet/unregisterproducer.go`, `picturetobase58/main.go` | command-line I/O only |

### How they interact

A block accepted by the chain goes through the validator
(`CheckBlockSanity`, then `CheckBlockContext`, which calls `checkTxsContext`
and the coinbase checks). Then the chain calls
`checkpoint.Manager.OnBlockSaved`. The manager hands the block to every
registered checkpoint in priority order. CR and DPoS state are among those
checkpoints. It then queues the snapshot work on the key's file channel. On
a reorganisation the chain calls `OnRollbackTo(h)`, and each checkpoint
undoes its History above `h`. At start-up the node registers the checkpoints
and calls `Restore`, which loads each `default<ext>`. The node then replays
the stored chain from `SafeHeight()` with `init = true`. The DPoS
arbitrator and the PoW revert listener react to block timing. The listener
puts a `RevertToPOW` transaction into the mempool when no block has come
for too long.

### Behaviours that are hard

- **Async snapshot writes.** `Save` and `Replace` return before the file is
  written. A crash loses the queue, and an I/O error drops a command. Files
  lag behind the in-memory checkpoints.
- **Default promotion.** `default<ext>` is replaced by the snapshot taken
  `EffectivePeriod` blocks earlier (manager.go:349). After a restart, a
  rollback must not reach below the snapshot the checkpoint was restored
  from.
- **Rollback.** The checkpoint height is left unchanged by `OnRollbackTo`,
  but `onBlockSaved` skips every block not above it (manager.go:333).
- **Partial failure.**
  - `OnRollbackTo` stops at the first failing checkpoint.
  - `Restore` keeps only the last error.
- **Unstable sort.** `getOrderedCheckpoints` uses `sort.Slice` over map
  order, which is not stable.
- **`GetCheckpoint` on an unregistered key.** It calls `GetHeight` on a nil
  interface (manager.go:194).
- **CR votes.** Votes are counted and cancelled depending on the proposal's
  status at that moment (committeeaction.go:183). A transaction's spent
  votes are cancelled before its own votes are counted.
- **Hand-written undos.** Every History undo is written by hand, and it
  must restore exactly what its change overwrote. The undo of a review
  deletes the vote instead (proposalmanager.go:223).
- **Public vote length.** `VoteStartHeight` is never set, so the public
  vote's length depends on the absolute height (proposalmanager.go:178).
- **Coinbase split.** `checkCoinbaseTransactionContext` uses float `ceil`
  and indexes outputs before checking their count (blockvalidator.go:497-507).
- **Arbitrator concurrency.** The `enableViewLoop` data race, one goroutine
  per block event, and the stop-confirm timeout against the revert listener.

### What makes each component correct

- **CheckpointManager.**
  - After each block, every registered checkpoint holds exactly the best
    chain from its `StartHeight`, across crashes and restarts (spec §5;
    spec §5 also asks it across rollbacks, which the code misses: see "Rollback below a
    checkpoint's height" in section 3).
  - A tolerated rollback never fails.
  - History lookups return only truthful snapshots at or below the height
    asked for.
  - `Restore` reports every failed default load (spec §7).
  - Queries never panic.
- **CR proposals and committee.**
  - `VotersRejectAmount` equals the sum of the live reject votes.
  - Status moves only along the lifecycle.
  - A rollback restores the exact earlier state (spec §8 History
    round-trip).
- **Validator.**
  - Duplicate detection is exact.
  - The coinbase shares add up to the total and none is negative.
- **Arbitrator and revert listener.**
  - DPoS stops confirming before the watchdog reverts to PoW.
  - The view loop ends after `Stop` (not promised by the code: the flag
    is read under a data race).
  - A stalled tip is eventually noticed (the watchdog's own loop; no
    property beyond its guard).

## 2. Plan

1. **`CheckpointManager`** (done; see §3). It is the component every
   other state listener depends on for recovery.
2. **`CRCommittee`** (done; see §4): the proposal lifecycle of
   `proposalmanager.go` with the vote handling of `committeeaction.go`,
   over a History journal with rollback, refining the abstract
   `ProposalLifecycle`. Still to come: a second proposal.
3. **`BlockSanity` and `BlockContext`** (done; see §5): the two phases
   of `blockvalidator.go`, with the coinbase rules of the three reward
   eras.
4. **`ArbitratorEvents`** (done; see §6): the arbitrator's event
   goroutines and the revert listener, over an integer clock.
5. **Transaction kinds** (done; see §7): the ExchangeVotes and CreateNFT
   checks as predicates, under a transaction pool that re-checks them.
   The `ProcessProducer` codec is left out (see §8).

## 3. CheckpointManager

`CheckpointManager.tla` models the manager and the environment it drives.

- **Chain database.**
  - `chain` holds the versions of blocks 1..Tip.
  - `maxTip` is the highest tip reached; the chain rolls back at most
    `MaxRollback` blocks below it.
  - `pending` means a block is stored but its `OnBlockSaved` has not run.
- **Checkpoints.**
  - `live[k]` is the sequence of blocks the checkpoint's History holds.
  - `height[k]` is `GetHeight`.
  - `base[k]` is the height of the default snapshot it was restored from;
    its History cannot undo below that.
- **File channels.**
  - `chan[k]` is the FIFO of `save`/`replace` commands.
  - `files[k]` holds the `<h><ext>` snapshots.
  - `dflt[k]` is `default<ext>`.
  - The channel code is not in `src/` and is modelled from spec §4.5.
- **Process.** `phase` is down or up. A crash (`Crash`, `ProcessLost`)
  keeps only `chain`, `maxTip`, `pending`, `files` and `dflt`.

### Actions and the code they model

| Action | Code |
|---|---|
| `Register(k)` | `Manager.Register`, only before `Restore`, as the node does |
| `Restore` | `Manager.Restore` and `loadDefaultCheckpoint`, then the replay from `SafeHeight` with `init = TRUE` |
| `SaveBlock(v)`, `BlockSaved` | the chain storing a block, then `Manager.OnBlockSaved` → `onBlockSaved` |
| `OnRollbackTo(r)` | `Manager.OnRollbackTo`: each checkpoint in priority order undoes its History above `r`; the loop stops at the first one that cannot |
| `Unregister(k)`, `SetNeedSave(b)` | the methods of the same name |
| `FileChannelServe(k)` | the channel worker (spec-modelled): save with eviction, replace, or an I/O error that drops the command |
| `GetCheckpoint(k, at)` | `Manager.GetCheckpoint` with `findHistoryCheckpoint`, including the panic for an unregistered key |
| `Crash` | the process dying between any two steps |

The `onBlockSaved` helpers follow the code line by line:

- `Delivers`: the skip at line 333.
- `Saves`: the `NeedSave`/`init`/`SaveStartHeight` guard.
- `BlockSavedCommands`: Replace of `originalHeight` when
  `height = originalHeight + EffectivePeriod`, then `SetHeight` and `Save`
  of the snapshot taken after the block was applied.

`getOrderedCheckpoints` yields every order that `sort.Slice` may produce.

### Runs

All runs use `MCCheckpointManager.tla`. It defines two keys with different
parameters:

| Key | Priority | StartHeight | SavePeriod | SaveStartHeight | EffectivePeriod |
|---|---|---|---|---|---|
| k1 | 0 | 0 | 2 | 0 | 2 |
| k2 | 3 | 2 | 3 | 1 | 3 |

Symmetry is not used, because the keys differ.

| Run | Expect | Bounds | Shows |
|---|---|---|---|
| `cm_recovery` | pass | heights ≤ 5, 2 crashes, 2 files kept, no forks | `TypeOK`, `LiveStateMatchesChain`, `HistoryLookupSound` hold across async writes, lost commands, crashes and Restore plus replay |
| `cm_rollback` | pass | heights ≤ 4, forks of 1 block, 1 reorg, 1 crash, 1 file kept | `RollbackNeverFails`: promoting only the snapshot `EffectivePeriod` blocks old keeps every tolerated rollback above the restored base |
| `cm_restore` | violation | heights ≤ 6, 1 crash | `RestoreReportsFailure` fails: Restore returns nil although the higher-priority checkpoint had no default (manager.go:235) |

`GetCheckpoint` calls `GetHeight()` on the map lookup before it tests
`found` (manager.go:194). A query for a key that is not registered
therefore panics. The model treats that query as a loss of the process,
which the crash-recovery runs cover. No run is spent on the panic itself:
it follows in one step from those lines, and nothing in the model can
prevent it.

**Rollback below a checkpoint's height.** With one reorganisation and
heights up to 5, `LiveStateMatchesChain` fails. After a
rollback below the last snapshot height, the checkpoint's `GetHeight` is
still that height: neither `OnRollbackTo` (manager.go:141-160) nor the
History rewind lowers it. `onBlockSaved` then skips every replacement block
up to it (manager.go:333), and the checkpoint no longer matches the chain,
although spec §5 says every checkpoint receives each committed block once.
The checkpoint implementations are not in `src/`; one that resets its
height in `OnRollbackTo` avoids this. No run checks this case, so the
hazard at manager.go:333 is listed without a covering property.

### Why the bounds are enough

- **Heights.** Height 5 lets k1 save at 2 and 4 and promote its default at
  4. It lets k2 save at 3 and replay from a non-zero `SafeHeight`.
  `cm_rollback` stops at height 4, which keeps its forks, crash and reorg
  within a few minutes. That height still reaches k1's promotion at 4 and k2's save at 3.
- **Eviction.** `MaxFiles` 1 and 2 make eviction happen within those
  heights.
- **Rollbacks.** A one-block rollback already crosses a save height.
- **Crashes.** Two crashes allow a restart from a promoted default followed
  by another crash.
- **Forks.** The first block at a height is always named `va`. Version
  names are symmetric, so this only removes renamed copies of behaviours.

### Fairness and the file channel's Exit

All CheckpointManager properties are safety properties, checked under
`Spec` without fairness. `Unregister` calls `Exit` on the key's file
channel (manager.go:181). `FileChannels` is not in `src/`, and spec §4.5
says unregister drains the channel, so the model's worker keeps serving
what was queued. A liveness property that queued commands are eventually
served would then hold only by the fairness given to that spec-modelled
worker, and would say nothing about this code, so none is checked; the
hazard at manager.go:181 is listed without a property.

## 4. CRCommittee

`CRCommittee.tla` models how the committee applies the blocks of the best
chain to its CRC proposals.

**State.**

- The committee state is one record, `cs`:

  | Field | Code |
  |---|---|
  | `status`, `registerHeight`, `voteStartHeight`, `crVotes`, `rejectAmount` | the `ProposalState` of each proposal; `Absent` means not in `Proposals` |
  | `votes` | `c.state.Votes` |
  | `usedAmount` | `CRCCommitteeUsedAmount` |
  | `balance` | `CRCFoundationBalance`, `CRCCommitteeBalance`, `DestroyedAmount` |

- `history` is the `utils.History` journal. Each entry is the undo closure
  of one `history.Append`, written as data:
  - `deleteProposal`
  - `deleteCRVote`
  - `setStatus`
  - `addReject`
  - `deleteVote`
  - `addUsed`
  - `addBalance`
- The chain is a sequence of blocks with at most one transaction each. The
  unspent outputs are derived from it. An output pays one of the three CRC
  addresses (foundation, committee, destroy) or `Other`; the constant
  `PayTo` says which ones a payment may choose.
- `snaps[h]` is a history variable: the committee state right after block
  `h`.

**Handlers.** Every handler maps a pair `J = [cs, log]` to a new pair, as
the Go handler mutates the state and appends to the History:

- `processTransaction`: first `processCancelVotes`, then
  `registerProposal`, `proposalReview` or `processVotes` by type, then
  `processCRCAddressRelatedTx`.
- `updateProposals` with `transferRegisteredState` and
  `transferCRAgreedState`.
- `RollbackTo`.

**Spec-modelled parts.** Code that is not in `src/` is modelled from the
spec:

- `History` and `getTxReference`.
- `State.CRCFoundationOutputs` and `CRCCommitteeOutputs`: the State records
  every output paid to those addresses and drops them on rollback, so the
  model reads an input's address from the output it spends (`Ref`).
- Outputs paid to the destroy address are never spent.
- `processVoteCRCProposal`. Spec §4.4 says the cancel path undoes it
  symmetrically, so it adds while the proposal is CRAgreed.
- `Committee.ProcessBlock`: transactions first, then `updateProposals`.
- The transaction checks: a proposal is registered once, reviewed while
  Registered, and voted on while CRAgreed.

### Runs

All runs use `MCCRCommittee.tla`: one proposal (budget 2), two members,
three output ids, vote amount 1, reject threshold 1 and agreement count 1.
In `cr_history` plain payments go to the three CRC addresses and vote
outputs to `Other`, which covers every branch of
`processCRCAddressRelatedTx`; the two violation runs pay only `Other`, as
their properties do not read the balances.

| Run | Expect | Bounds | Shows |
|---|---|---|---|
| `cr_history` | pass | heights ≤ 6, one rollback of ≤ 2 blocks, ≤ 2 inputs, payments to the three CRC addresses, CR voting 1, public voting 6, each member reviews once | `TypeOK`, `HistoryRoundTrip` (spec §8.4 and S9: after a rollback to r the state equals the one after block r), `RejectAmountMatchesVotes` (while CRAgreed, `VotersRejectAmount` equals the unspent reject votes), `TreasuryMatchesUnspent` (the foundation and committee balances equal their unspent outputs, `DestroyedAmount` all that was ever paid to the destroy address, also after a transaction spends two treasury outputs and pays change back, and after rollbacks), `ProposalLifecycleRefined` (the committee implements `ProposalLifecycle`, below) |
| `cr_rereview` | violation | heights ≤ 4, members may review again | `HistoryRoundTrip` fails: the undo of a second review deletes the member's vote instead of restoring the first (proposalmanager.go:223) |
| `cr_publicvote` | violation | heights ≤ 5, public voting 3 | `PublicVotingLasts` fails: `VoteStartHeight` is never set, so the public vote ends at the block after CRAgreed (proposalmanager.go:178) |

**The `cr_rereview` trace, step by step** (CR voting period 2, agreement
count 1):

1. Block 1 registers p1 with `RegisterHeight` 1.
2. Block 2: m1 reviews Approve. `shouldEndCRCVote` (proposalmanager.go:159-168)
   gives 1 + 2 <= 2, which is false, so the proposal stays Registered.
3. Block 3: m1 reviews again, Reject. The Append at line 220 overwrites
   `CRVotes[m1]`. `shouldEndCRCVote` now holds (1 + 2 <= 3).
   `transferRegisteredState` (lines 112-136) counts 0 Approve votes, below
   `CRAgreementCount`, so the proposal becomes CRCanceled, with the undo
   "Registered".
4. Rollback to 2. The status undo brings back Registered, as it was after
   block 2. The review undo (line 223) deletes `CRVotes[m1]`, but after
   block 2 it held Approve.

**Refinement.** `ProposalLifecycle.tla` is the abstract promise of spec
§4.4:

- With every block a proposal moves along at most one edge of the status
  diagram.
- A rollback to r restores the statuses of block r.

`CRCommittee` instantiates it with `status <- cs.status`. It maps `hist`
to the statuses of the ghost `snaps`. `ProposalLifecycleRefined` is that
instance's `Spec`, checked as a `PROPERTY` of `cr_history`.

- Every `AcceptBlock` is a `Block` step, and every `Rollback` a
  `RollbackTo` step.
- The one-edge rule holds because `updateProposals` handles each proposal
  once, by the status it has when visited. Two `if`s in place of its
  `switch` would let a proposal whose two voting periods have both run out
  go from Registered to VoterAgreed in one block.

**Why the bounds are enough.** A public voting period of 6 with 6 blocks
gives room for this whole sequence: register at 1, review at 2, CRAgreed at
the end of 2, a vote, a plain output, a spend of both, then the decision at
6. The two inputs let a transaction mix a vote and a plain input, which
`processCancelVotes`'s `exist` test must handle. A two-block rollback
undoes a spend together with the vote before it, or a status change
together with the review before it.

**Deadlock.** The runs set `CHECK_DEADLOCK FALSE`. The chain stops at
`MaxHeight` and after `MaxReorgs` rollbacks, and nothing else acts on the
committee.

## 5. Block validator: BlockSanity and BlockContext

The validator in `blockchain/blockvalidator.go` is pure: it reads a block
and the chain context and returns nil or an error. Each module therefore has
the block as its state. The environment builds a block one transaction or
output at a time (`AddTx`, `AddOutput`). `Validate` stores the verdict of the
checked function, and `NextBlock` starts another block. The properties
compare the verdict with a definition written from the spec, over every
block within the bounds.

**`BlockSanity.tla`** models `CheckBlockSanity` from the transaction count
on, and the whole of `CheckDuplicateTx`.

- A transaction is a record: its type, the owner key, node key, CID or
  side-chain hashes its payload carries, and the refer keys of its inputs.
  Equal records are equal hashes.
- The loops are folds. `TxStep` keeps `existingTxIDs` and
  `existingTxInputs`, and `DupStep` keeps the producer, producer-node, CR
  and side-chain maps and the sponsor count. The first error ends the fold,
  as the Go `return` does.
- Left out: aux pow, `CheckProofOfWork`, the timestamp and byte-size checks,
  the merkle root and `CheckTransactionSanity`. They compute over bytes or
  clocks and every block passes them.

**`BlockContext.tla`** models the following:

- `CheckBlockContext`: finalisation and the record-sponsor rule. The
  previous block is found in the database or in `blockCache`/`confirmCache`,
  and each lookup can fail.
- `checkTxsContext`: `TxsStep` totals `GetTxFee` and books
  `RecordCRCProposalAmount`. It also models what happens to a coinbase
  error below `CheckRewardHeight`.
- `GetTxFeeMap` and `GetBlockDPOSReward`.
- `checkCoinbaseTransactionContext`, split by era into `CheckCoinbasePow`,
  `CheckCoinbaseV1` and `CheckCoinbaseV2`, and
  `CheckCoinbaseArbitratorsReward`.

Modelling choices and spec-modelled parts:

- An input carries the asset and value of the output it spends, which is
  what `references` gives `GetTxFeeMap`, and its own sequence number.
- `math.Ceil(float64(x) * 0.3)` is the exact ceiling `CeilMul`. The float
  constants 0.3 and 0.35 are just below their real values, so a product
  whose exact value is an integer rounds to that integer or below it. A
  product whose exact value is not an integer is at least 0.05 away from
  one. Either way the ceiling is the same for amounts below 2^53.
- Spec-modelled: `CheckTransactionContext` is reduced to its budget rule
  from spec §4.1.2: a proposal must fit in `Available` less the budgets
  booked earlier in the block.
- Spec-modelled: `tx.Fee()` is the ELA fee that the transaction checker
  records on the transaction, and 0 on the coinbase.
- The difficulty, median-time and arbitrator checks pass.

### Runs

| Run | Expect | Bounds | Shows |
|---|---|---|---|
| `bv_sanity` | pass | blocks of ≤ 4 transactions, limit 3; 25 transaction kinds over two keys, two hashes, two refer keys | `SanityAcceptsWellFormed`: the verdict is "ok" exactly when the block is well formed as spec §4.1.1 says |
| `bv_coinbase` | pass | heights 2, 3, 4 = pre-DPoS, v1, v2 (reward 2); sponsor rule from 3; ≤ 2 transactions; coinbases of ≤ 3 outputs; DPOS and POW | `CoinbaseMatchesEra` (spec §4.2/§8.2 for the era), `FeeMapBalances` (`GetTxFee` is inputs minus outputs for every asset), `ProposalsWithinAvailable` (the proposals of an accepted block fit the budget) |
| `bv_masked` | violation | height 1 < `CheckRewardHeight` | `CoinbaseMatchesEra` fails: the coinbase error is overwritten by `block.Serialize`'s nil (blockvalidator.go:284) |
| `bv_arbiters` | violation | height 3 (v1), two arbiters with reward 1 each, ≤ 4 outputs | `RoundRewardsPaidExactly` fails: one arbiter paid twice and the other not at all passes (blockvalidator.go:570) |

**Why the bounds are enough.**

- *`bv_sanity`.* Four transactions are the coinbase plus three others. That
  is enough for two conflicting transactions of different types after the
  coinbase, and for a block over the limit of three. Every map of
  `CheckDuplicateTx` is reached from two types. The owner and node keys
  come from the same two keys, so a key can collide both within a map and
  across maps.
- *`bv_coinbase`.* With reward 2 and fees of −1..1 per transaction, the
  totals run from 0 to 4. There the ceilings round up, for example
  ceil(0.35 · 3) = 2. The merge-miner share is −1 or 0, and the v1 sum
  must take in the final round change of 1.
- *Coinbase outputs.* They cover the values these totals need. Two
  proposals of budgets 1 and 2 against an available 2 over-commit only
  together.

**Deadlock.** Deadlock is checked. After every verdict, `NextBlock` starts
a new block.

## 6. DPoS arbitrator and revert watchdog: ArbitratorEvents

`ArbitratorEvents.tla` models two loops that judge the same chain tip by
two clocks.

- `OnBlockReceived` in `arbitrator.go` stops forwarding blocks for DPoS
  confirmation once `StopConfirmBlockTime` has passed since the last
  block.
- `ListenForRevert` in `revertlistener.go` appends a `RevertToPOW`
  transaction once `RevertToPOWNoBlockTime` has passed.

### State and actions

**Environment.**
- `height`, `lastTs` and `powMode` are the chain tip, its timestamp and
  the arbiters' mode.
- `now` is the adjusted local clock. It only moves forward (`Tick`).
- `SaveBlock(revert)` saves the next block. With `revert` it is the block
  that carries a pending `RevertToPOW` and switches to PoW mode.
- `ResumeDPoS` leaves PoW mode.
- `IsCurrent`, `IsArbitrator` and the peer-count test are read afresh by
  the code, so they are parameters of the actions, not variables.

**Arbitrator.**
- `NewBlockReceived` is the `events.Subscribe` case that starts a
  goroutine for the next block.
- `OnBlockReceived(h, current)` is that goroutine. It may run any time
  later. It forwards the block unless the node is not current, or
  `h >= RevertToPOWStartHeight` and the stop-confirm time for `h` has
  passed since `lastTs`. The ghost `lastForward` records
  `<<h, tip, now>>` of the last forward.
- `ViewLoopTest` and `ViewLoopPost` are one iteration of `changeViewLoop`.
  The test reads `enableViewLoop`, and the post and one-second sleep
  follow it.
- `Stop` clears the flag. The flag is read without synchronisation, a
  data race, so Go promises nothing about when the loop sees the write.
  The model's test after `Stop` may therefore read the old value and post
  again, or exit.
- `OnInactiveArbitratorsTxReceived` is the emergency branch: a node that
  is not an arbiter but is among the first `ArbitersCount / 3` candidates
  starts `Recover`. `Recover` sends on `recoverChan` once the node is
  current and sees a minority.

**Watchdog.**
- `ListenerCheck` is lines 23-44: the height, mode and no-block checks.
  When they all pass, it records the tip in the ghost `judgedTip`.
- `ListenerAppend` is lines 46-66. It reads the height again for the
  `WorkingHeight`. The pool may refuse the transaction.

### Runs

| Run | Expect | Bounds | Checks |
|---|---|---|---|
| `ae_events` | pass | heights ≤ 2, clock ≤ 4, one recover goroutine; `RevertToPOWStartHeight` 0, `ChangeViewV1Height` 1; stop-confirm 2 / V1 1, no-block 3 / V1 1 | `TypeOK`; `NoConfirmOnDeadTip` |

- **`NoConfirmOnDeadTip`** (action property): no block is forwarded for
  confirmation on top of a tip that the watchdog has already judged dead.
  This holds because each stop-confirm time is within the matching
  no-block time. It also holds at `ChangeViewV1Height`, where the block
  (height 1) uses the V1 stop-confirm time and the tip (height 0) uses the
  V0 no-block time. It fails if `OnBlockReceived` ignores the V1 switch.

**Fairness and liveness.** No property is a liveness property, and the
run uses `Spec` without fairness. That the view loop exits after `Stop`
cannot be promised: the flag is read under a data race. That the watchdog
eventually judges a dead tip would follow from the fairness of the
watchdog goroutine alone, since a dead tip is exactly the guard of its
check, and would say nothing more about lines 24-44.

**Bounds.** The parameters are scaled down, but they keep their order.
Each version's stop-confirm time is at most its no-block time, and the V1
times are below the V0 ones. An `ASSUME` states these relations, including
the cross-version one at the V1 height. Heights 0..2 cover a tip before
and after `ChangeViewV1Height`, and a clock of 4 reaches the largest
no-block time.

**Deadlock.** The cfg sets `CHECK_DEADLOCK FALSE`. The model stops once
the clock and the chain reach their bounds after `Stop`. The real loops
keep sleeping.

**The watchdog's second read of the height.** The model reaches this
race: the watchdog judges tip 1, block 2 is saved, and the `RevertToPOW`
goes out for height 3. The check that would accept or reject that
transaction in a block is not in `src/`, so no property claims either
outcome. It is listed as a hazard.

## 7. Transaction kinds: TxKinds

`TxKinds.tla` models the checks that `ExchangeVotesTransaction` and
`CreateNFTTransaction` override. Each Go method becomes a predicate that is
TRUE when the method returns nil. The early returns become conjuncts, in
the code's order, so an index such as `outputs[0]` is read only after its
length test. The error texts are not told apart. Script decoding is
abstracted: a program is its code kind (`standard`, `schnorr`, `short`,
`nil`), its owner and whether it has a parameter.
`CreateStakeContractByCode(code).ToProgramHash()` is the constant map
`StakeAddressOf` from owner to stake address. An output carries its asset,
value, type, payload (`valid`, `invalid` or `nil`), stake address and the
prefix kind of its address. Its payload kind follows its type, as
deserialisation makes it.

| Definition | Code |
|---|---|
| `ExchangeVotesHeightVersionCheck` | exchangevotes.go:27-43 |
| `CheckOutputSingleInput`, `StakeOutputs`, `StandardOrMultiSig` | :46-112 |
| `CheckOutputMultiInputs` | :114-158 |
| `CheckTransactionOutput` | :160-167: single-input rules in PoW or below `MultiExchangeVotesStartHeight` |
| `CheckAttributeProgram` | :178-209 |
| `ExchangeVotesSpecialContextCheck` | :216-228 (no Schnorr program below `VotesSchnorrStartHeight`) |
| `CreateNFT*` | createnfttransaction.go:20-76; the NFT ID must be a refer key of a DPoS v2 vote |
| `SanityCheck`, `ContextCheck` | the drivers `CheckTransactionSanity` and `CheckTransactionContext`, which are outside `src/` (spec §4.1.1 item 6, §4.1.2) |

The state is the best height, the consensus algorithm, the set of DPoS v2
vote refer keys, and a pool that maps each accepted transaction to the
consensus it was accepted under. The environment actions are these:

- `PoolAccept`: the full check for the next block.
- `Pack`: a block carrying the transaction is validated at `height + 1`
  and saved if it passes. The transaction leaves the pool either way.
- `EmptyBlock`.
- `SwitchConsensus`: a revert to PoW, or a resumption of DPoS.
- `CastVote` and `WithdrawVote`.

| Run | Expect | Bounds | Shows |
|---|---|---|---|
| `tx_kinds` | pass | heights 0..4 (DPoS v2 from 1, NFT from 2, multi-signer and Schnorr from 3), 20 transactions, pool of 2, 2 vote keys | `RecheckFailsOnlyOnChange` |

**`RecheckFailsOnlyOnChange`** is an action property. A pooled
transaction fails its re-check in a block only in two cases:

- the chain reverted from DPoS to PoW after it was accepted, which turns
  on the one-signer rules of `CheckAttributeProgram` and
  `CheckOutputSingleInput`, and `IsAllowedInPOWConsensus` rejects
  CreateNFT;
- it is a CreateNFT whose vote was withdrawn.

The three height comparisons in three methods must agree for the gates
to only ever open: between them, a transaction valid below a boundary must
stay valid above it. The transactions include a well-formed ExchangeVotes
and CreateNFT and 18 variants, each differing in one checked part. Among
them are three outputs, two signers, a Schnorr program, a foreign stake
address and an address that is not a standard one. Taking either case out
of the property gives a counterexample, so both are reached.

The heights put every gate between two blocks a pooled transaction can
see. A pool of two lets a transaction wait while others are packed.

The run has no type invariant. No check of these methods can change the
type of the model's state, so no mutant of the code could break one.

**Not a finding, but worth knowing.** In the multi-input regime
(`CheckOutputMultiInputs`), nothing compares the stake output's
`StakeAddress` with the signers' stake addresses. The single-input path
does compare them (exchangevotes.go:86-94). Nothing in the spec or in
`src/` says which is intended, so no property claims either.

## 8. Not modelled (yet)

- **In the manager.**
  - `Reset`/`OnReset`, `RestoreTo` and `Close`.
  - The `filter` argument and the `cp_txPool` Replace special case.
  - `Snapshot() == nil`, which is covered by the dropped-command case.
  - Registration after start-up.
- **Checkpoint implementations.** Only their History and height are
  represented.
- **In the CR committee.**
  - CRC candidate and impeachment votes: candidates and members live outside
    `src/`.
  - CR register, update and unregister, and deposits.
  - Proposal tracking, withdrawal and appropriation: `Finished` and
    `Aborted` are never entered.
  - The float reject threshold is taken as an integer constant.
- **In the validator.**
  - Aux pow, proof of work, timestamps, sizes and the merkle root.
  - `CheckTransactionSanity` and all of `CheckTransactionContext` except its
    budget rule: they are not in `src/`. So whether a coinbase with fewer
    than two outputs can reach the index-before-count code at
    blockvalidator.go:503 is left open.
  - `GetDPoSV2ActiveHeight() = MaxUint32`: DPoS v2 is never inactive in the
    model.
- **In the arbitrator.**
  - `OnConfirmReceived`, `OnIllegalBlockTxReceived`,
    `OnSidechainIllegalEvidenceReceived`, `OnPeersChanged` and
    `OnCipherAddr`: they hand their payload to the DPoS network, which is
    not in `src/`.
  - `dumpPeersInfo` (logging) and the constructor wiring.
  - Chain rollbacks under the watchdog.
  - An adjusted clock that moves backwards when the median offset changes.
- **In the transaction kinds.** The base transaction checks that
  CreateNFT inherits (outputs, attributes and programs), signatures, and
  the DPoS v2 state changes that casting and withdrawing votes make.
- **`ProcessProducer` codec.** It is two `var_bytes` fields: the signature
  only below the Schnorr version, with length limits on read.
  `WriteVarBytes` and `ReadVarBytes` are not in `src/`, and nothing in
  `src/` shares state with it. Its one round-trip question (does
  `Deserialize` invert `Serialize` at every version?) would have needed a
  run of its own.
- **Wallet CLI and `picturetobase58`.** They are command-line I/O.
  `unregisterproducer.go:71` builds `payload.ProcessProducer` with a field
  `OwnerPublicKey`, but the struct in `processproducer.go` has `OwnerKey`.
  Against this payload file the command does not compile, which no model
  checker is needed to see.

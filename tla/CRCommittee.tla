----------------------------- MODULE CRCommittee -----------------------------
(***************************************************************************)
(* The CR committee's handling of CRC proposals, as the committee applies  *)
(* the blocks of the best chain (cr/state/committeeaction.go and           *)
(* cr/state/proposalmanager.go):                                           *)
(*                                                                         *)
(*  - processTransaction: cancel the votes of spent vote outputs first,    *)
(*    then register a proposal, record a CR member's review, or record    *)
(*    the reject votes of a TransferAsset's vote output, and finally book  *)
(*    the proposal budget and the treasury balances of the CRC addresses   *)
(*    (processCRCAddressRelatedTx);                                        *)
(*  - updateProposals at the end of each block: Registered proposals end  *)
(*    their CR vote, CRAgreed proposals their public vote;                 *)
(*  - every change goes through utils.History: the change is made at once  *)
(*    and its undo journalled with the block height; a rollback to r runs  *)
(*    the undos of the entries above r in reverse order.                   *)
(*                                                                         *)
(* The committee state is one record, cs; the journal pairs it with the   *)
(* undo entries, J = [cs, log], and every handler maps a J to a J.  The    *)
(* chain is a sequence of blocks of at most one transaction; outputs are   *)
(* model values and the unspent ones are derived from the chain.           *)
(***************************************************************************)
EXTENDS Integers, Sequences, FiniteSets, SequencesExt, Functions

CONSTANTS
  Proposals,                  \* proposal hashes
  Members,                    \* DIDs of the CR members that review
  Outputs,                    \* refer keys of the outputs transactions create
  Amounts,                    \* vote amounts of a vote output
  Budget,                     \* Proposals -> Nat: sum of proposal.Budgets
  CRAgreementCount,           \* params.CRAgreementCount
  ProposalCRVotingPeriod,     \* params.ProposalCRVotingPeriod
  ProposalPublicVotingPeriod, \* params.ProposalPublicVotingPeriod
  RejectThreshold,            \* circulation * VoterRejectPercentage / 100
  ReReview,                   \* a member may review a proposal again
  PayTo,                      \* addresses a non-vote output may pay
  MaxInputs,                  \* bound: inputs of a transaction
  MaxHeight,                  \* bound: highest block height
  MaxRollback,                \* deepest rollback the chain performs
  MaxReorgs,                  \* bound: number of rollbacks
  NoVote                      \* model value: an output with no CR vote

ASSUME
  /\ Budget \in [Proposals -> Nat]
  /\ {CRAgreementCount, ProposalCRVotingPeriod, ProposalPublicVotingPeriod,
      RejectThreshold, MaxInputs, MaxHeight, MaxRollback, MaxReorgs} \subseteq Nat
  /\ ReReview \in BOOLEAN
  /\ PayTo \subseteq {"CRCFoundation", "CRCCommitteeAddress", "DestroyELAAddress", "Other"}

VARIABLES
  chain,    \* blocks of the best chain, each a sequence of transactions
  maxTip,   \* highest height reached
  cs,       \* the committee state
  history,  \* the History journal: undo entries with their block height
  snaps,    \* snaps[h]: the committee state right after block h (history)
  reorgs    \* number of rollbacks so far

vars == <<chain, maxTip, cs, history, snaps, reorgs>>

Absent   == "Absent"     \* not in ProposalManager.Proposals
NotVoted == "NotVoted"   \* no entry in ProposalState.CRVotes
Statuses == {"Registered", "CRAgreed", "VoterAgreed", "Finished",
             "CRCanceled", "VoterCanceled", "Aborted"}
VoteResults == {"Approve", "Reject", "Abstain"}
\* params.CRCFoundation, CRCCommitteeAddress, DestroyELAAddress; Other: any
\* other program hash
Treasuries  == {"CRCFoundation", "CRCCommitteeAddress", "DestroyELAAddress"}
Addresses   == Treasuries \cup {"Other"}

InitCS ==
  [status          |-> [p \in Proposals |-> Absent],
   registerHeight  |-> [p \in Proposals |-> 0],
   voteStartHeight |-> [p \in Proposals |-> 0],
   crVotes         |-> [p \in Proposals |-> [m \in Members |-> NotVoted]],
   rejectAmount    |-> [p \in Proposals |-> 0],
   votes           |-> {},
   usedAmount      |-> 0,
   balance         |-> [a \in Treasuries |-> 0]]

-----------------------------------------------------------------------------
(* The UTXO view of the chain.                                              *)
ChainTxs == UNION {Range(chain[i]) : i \in 1..Len(chain)}
Created  == {tx.out : tx \in {t \in ChainTxs : t.type = "TransferAsset"}}
Spent    == UNION {Range(tx.ins) : tx \in ChainTxs}
Unspent  == {o \in Created : o.id \notin Spent}
Ref(id)  == CHOOSE o \in Created : o.id = id

-----------------------------------------------------------------------------
(* utils.History (not in src/; spec section 3): Append runs the change now *)
(* and journals its undo; RollbackTo undoes the entries above h, newest    *)
(* first.                                                                   *)
HistoryAppend(J, new, undo) == [cs |-> new, log |-> Append(J.log, undo)]

Undo(s, e) ==
  CASE e.op = "deleteProposal" ->
         [s EXCEPT !.status[e.p] = Absent, !.registerHeight[e.p] = 0,
                   !.voteStartHeight[e.p] = 0,
                   !.crVotes[e.p] = [m \in Members |-> NotVoted],
                   !.rejectAmount[e.p] = 0]
    [] e.op = "deleteCRVote" -> [s EXCEPT !.crVotes[e.p][e.m] = NotVoted]
    [] e.op = "setStatus"    -> [s EXCEPT !.status[e.p] = e.s]
    [] e.op = "addReject"    -> [s EXCEPT !.rejectAmount[e.p] = @ + e.v]
    [] e.op = "deleteVote"   -> [s EXCEPT !.votes = @ \ {e.o}]
    [] e.op = "addUsed"      -> [s EXCEPT !.usedAmount = @ + e.v]
    [] e.op = "addBalance"   -> [s EXCEPT !.balance[e.a] = @ + e.v]

\* Mutant: the rollback loop leaves the oldest journal entry alone.
RECURSIVE RollbackTo_stopEarly(_, _)
RollbackTo_stopEarly(J, h) ==
  IF Len(J.log) > 1 /\ Last(J.log).h > h
  THEN RollbackTo_stopEarly([cs |-> Undo(J.cs, Last(J.log)), log |-> Front(J.log)], h)
  ELSE J

RECURSIVE RollbackTo(_, _)
RollbackTo(J, h) ==
  IF J.log # <<>> /\ Last(J.log).h > h
  THEN RollbackTo([cs |-> Undo(J.cs, Last(J.log)), log |-> Front(J.log)], h)
  ELSE J

-----------------------------------------------------------------------------
(* ProposalManager.registerProposal: a fresh ProposalState (Registered,    *)
(* RegisterHeight = height, no CR votes, no reject amount; VoteStartHeight  *)
(* keeps its zero value).  Undo: delete it from Proposals.                  *)
registerProposal(J, tx, h) ==
  HistoryAppend(J,
    [J.cs EXCEPT !.status[tx.p] = "Registered", !.registerHeight[tx.p] = h,
                 !.voteStartHeight[tx.p] = 0,
                 !.crVotes[tx.p] = [m \in Members |-> NotVoted],
                 !.rejectAmount[tx.p] = 0],
    [h |-> h, op |-> "deleteProposal", p |-> tx.p])

(* ProposalManager.proposalReview: CRVotes[did] = VoteResult.  Undo:       *)
(* delete CRVotes[did].                                                     *)
proposalReview(J, tx, h) ==
  IF J.cs.status[tx.p] = Absent THEN J
  ELSE HistoryAppend(J, [J.cs EXCEPT !.crVotes[tx.p][tx.m] = tx.r],
                     [h |-> h, op |-> "deleteCRVote", p |-> tx.p, m |-> tx.m])

\* Mutant: the undo closure repeats the change (-= v) instead of reverting it.
processVoteCancel_undoSign(J, out, h) ==
  IF J.cs.status[out.vote] # "CRAgreed" THEN J
  ELSE HistoryAppend(J, [J.cs EXCEPT !.rejectAmount[out.vote] = @ - out.amount],
                     [h |-> h, op |-> "addReject", p |-> out.vote, v |-> -out.amount])

(* Committee.processVoteCancel, CRCProposal content: lower the reject      *)
(* amount only while the proposal is CRAgreed.                              *)
processVoteCancel(J, out, h) ==
  IF J.cs.status[out.vote] # "CRAgreed" THEN J
  ELSE HistoryAppend(J, [J.cs EXCEPT !.rejectAmount[out.vote] = @ - out.amount],
                     [h |-> h, op |-> "addReject", p |-> out.vote, v |-> out.amount])

\* Mutant: exist is overwritten by every input, so only the last one counts.
processCancelVotes_lastOnly(J, ins, h) ==
  IF ~(ins # <<>> /\ Last(ins) \in J.cs.votes) THEN J
  ELSE FoldLeft(LAMBDA j, id : IF id \in j.cs.votes THEN processVoteCancel(j, Ref(id), h)
                                                    ELSE j, J, ins)

(* Committee.processCancelVotes: when some input spends an output recorded *)
(* in Votes, cancel the votes of each such input (the Votes entry stays).   *)
processCancelVotes(J, ins, h) ==
  IF ~\E i \in DOMAIN ins : ins[i] \in J.cs.votes THEN J
  ELSE FoldLeft(LAMBDA j, id : IF id \in j.cs.votes THEN processVoteCancel(j, Ref(id), h)
                                                    ELSE j, J, ins)

(* State.processVoteCRCProposal (not in src/; spec 4.4, symmetric to the   *)
(* cancel path): raise the reject amount of a CRAgreed proposal.            *)
processVoteCRCProposal(J, out, h) ==
  IF J.cs.status[out.vote] # "CRAgreed" THEN J
  ELSE HistoryAppend(J, [J.cs EXCEPT !.rejectAmount[out.vote] = @ + out.amount],
                     [h |-> h, op |-> "addReject", p |-> out.vote, v |-> -out.amount])

(* Committee.processVotes and processVoteOutput: a vote output with CR     *)
(* content is recorded in Votes (undo: delete), then its votes applied.     *)
processVotes(J, tx, h) ==
  IF tx.out.vote = NoVote THEN J
  ELSE processVoteCRCProposal(
         HistoryAppend(J, [J.cs EXCEPT !.votes = @ \cup {tx.out.id}],
                       [h |-> h, op |-> "deleteVote", o |-> tx.out.id]),
         tx.out, h)

\* Balance a += v, journalled with undo a -= v.
AddBalance(J, a, v, h) ==
  HistoryAppend(J, [J.cs EXCEPT !.balance[a] = @ + v],
                [h |-> h, op |-> "addBalance", a |-> a, v |-> -v])

\* Mutant: the input loop drops the else-if on CRCCommitteeOutputs.
processCRCAddressRelatedTx_noCommitteeInputs(J, tx, h) ==
  LET J1 == IF tx.type # "CRCProposal" THEN J
            ELSE HistoryAppend(J, [J.cs EXCEPT !.usedAmount = @ + Budget[tx.p]],
                               [h |-> h, op |-> "addUsed", v |-> -Budget[tx.p]])
      J2 == FoldLeft(LAMBDA j, id :
                       IF Ref(id).dest = "CRCFoundation"
                       THEN AddBalance(j, Ref(id).dest, -Ref(id).value, h) ELSE j,
                     J1, tx.ins)
  IN  IF tx.type = "TransferAsset" /\ tx.out.dest \in Treasuries
      THEN AddBalance(J2, tx.out.dest, tx.out.value, h) ELSE J2

(* Committee.processCRCAddressRelatedTx: a proposal books its budget in    *)
(* CRCCommitteeUsedAmount; an input spending an output recorded in         *)
(* CRCFoundationOutputs or CRCCommitteeOutputs lowers that balance; an     *)
(* output to one of the three treasury addresses raises its balance.       *)
processCRCAddressRelatedTx(J, tx, h) ==
  LET J1 == IF tx.type # "CRCProposal" THEN J
            ELSE HistoryAppend(J, [J.cs EXCEPT !.usedAmount = @ + Budget[tx.p]],
                               [h |-> h, op |-> "addUsed", v |-> -Budget[tx.p]])
      J2 == FoldLeft(LAMBDA j, id :
                       IF Ref(id).dest \in {"CRCFoundation", "CRCCommitteeAddress"}
                       THEN AddBalance(j, Ref(id).dest, -Ref(id).value, h) ELSE j,
                     J1, tx.ins)
  IN  IF tx.type = "TransferAsset" /\ tx.out.dest \in Treasuries
      THEN AddBalance(J2, tx.out.dest, tx.out.value, h) ELSE J2

(* Committee.processTransaction: cancel votes first, then by type, then    *)
(* the CRC address accounting.                                              *)
processTransaction(J, tx, h) ==
  LET J1 == processCancelVotes(J, tx.ins, h)
      J2 == CASE tx.type = "TransferAsset"     -> processVotes(J1, tx, h)
              [] tx.type = "CRCProposal"       -> registerProposal(J1, tx, h)
              [] tx.type = "CRCProposalReview" -> proposalReview(J1, tx, h)
  IN  processCRCAddressRelatedTx(J2, tx, h)

-----------------------------------------------------------------------------
shouldEndCRCVote(s, p, h) ==
  s.status[p] # Absent /\ s.registerHeight[p] + ProposalCRVotingPeriod <= h

shouldEndPublicVote(s, p, h) ==
  s.status[p] # Absent /\ s.voteStartHeight[p] + ProposalPublicVotingPeriod <= h

(* ProposalManager.transferRegisteredState: CRAgreed with enough approvals, *)
(* CRCanceled otherwise; undo: back to Registered.                          *)
transferRegisteredState(J, p, h) ==
  LET agreedCount == Cardinality({m \in Members : J.cs.crVotes[p][m] = "Approve"})
      to == IF agreedCount >= CRAgreementCount THEN "CRAgreed" ELSE "CRCanceled"
  IN  HistoryAppend(J, [J.cs EXCEPT !.status[p] = to],
                    [h |-> h, op |-> "setStatus", p |-> p, s |-> "Registered"])

(* ProposalManager.transferCRAgreedState: VoterCanceled when the reject    *)
(* amount reaches the threshold, VoterAgreed otherwise; undo: CRAgreed.     *)
transferCRAgreedState(J, p, h) ==
  LET to == IF J.cs.rejectAmount[p] >= RejectThreshold
            THEN "VoterCanceled" ELSE "VoterAgreed"
  IN  HistoryAppend(J, [J.cs EXCEPT !.status[p] = to],
                    [h |-> h, op |-> "setStatus", p |-> p, s |-> "CRAgreed"])

updateProposals_ifChain(J, h) ==
  FoldLeft(LAMBDA j, p :
             LET j1 == IF j.cs.status[p] = "Registered" /\ shouldEndCRCVote(j.cs, p, h)
                       THEN transferRegisteredState(j, p, h) ELSE j
             IN  IF j1.cs.status[p] = "CRAgreed" /\ shouldEndPublicVote(j1.cs, p, h)
                 THEN transferCRAgreedState(j1, p, h) ELSE j1,
           J, SetToSeq(Proposals))

(* ProposalManager.updateProposals: each proposal, in map order, by the    *)
(* status it has when visited.                                              *)
updateProposals(J, h) ==
  FoldLeft(LAMBDA j, p :
             CASE j.cs.status[p] = "Registered" /\ shouldEndCRCVote(j.cs, p, h)
                    -> transferRegisteredState(j, p, h)
               [] j.cs.status[p] = "CRAgreed" /\ shouldEndPublicVote(j.cs, p, h)
                    -> transferCRAgreedState(j, p, h)
               [] OTHER -> j,
           J, SetToSeq(Proposals))

(* Committee.ProcessBlock (not in src/; spec section 2): the block's       *)
(* transactions in order, then the proposal status update.                  *)
ProcessBlock(J, blk, h) ==
  updateProposals(FoldLeft(LAMBDA j, tx : processTransaction(j, tx, h), J, blk), h)

-----------------------------------------------------------------------------
(* The transactions a block may carry.  Their checks are not in src/ and   *)
(* follow spec 3 and 4.4: a proposal is registered once, reviewed while    *)
(* Registered (by a member once unless ReReview), voted on while CRAgreed;  *)
(* a transfer spends unspent outputs (none can spend one paid to the      *)
(* destroy address) and creates one new output, a vote output or a        *)
(* payment to some address.                                                *)
Fresh == Outputs \ {o.id : o \in Created}
NewOutputs ==
  {[id |-> o, vote |-> NoVote, amount |-> 0, dest |-> d, value |-> a] :
     o \in Fresh, d \in PayTo, a \in Amounts} \cup
  {[id |-> o, vote |-> p, amount |-> a, dest |-> "Other", value |-> a] :
     o \in Fresh, p \in {q \in Proposals : cs.status[q] = "CRAgreed"}, a \in Amounts}
InputSeqs(S) ==
  {s \in UNION {[1..n -> S] : n \in 0..MaxInputs} : IsInjective(s)}
ValidTxs ==
  {[type |-> "CRCProposal", p |-> p, ins |-> <<>>] :
     p \in {q \in Proposals : cs.status[q] = Absent}} \cup
  {[type |-> "CRCProposalReview", p |-> rv[1], m |-> rv[2], r |-> rv[3], ins |-> <<>>] :
     rv \in {rv \in Proposals \X Members \X VoteResults :
               cs.status[rv[1]] = "Registered" /\
               (ReReview \/ cs.crVotes[rv[1]][rv[2]] = NotVoted)}} \cup
  {[type |-> "TransferAsset", ins |-> i, out |-> o] :
     i \in InputSeqs({u.id : u \in {v \in Unspent : v.dest # "DestroyELAAddress"}}), o \in NewOutputs}

(* The chain saves block h and the committee processes it.                 *)
AcceptBlock(blk) ==
  LET h == Len(chain) + 1
      J == ProcessBlock([cs |-> cs, log |-> history], blk, h)
  IN  /\ Len(chain) < MaxHeight
      /\ chain'   = Append(chain, blk)
      /\ maxTip'  = IF h > maxTip THEN h ELSE maxTip
      /\ cs'      = J.cs
      /\ history' = J.log
      /\ snaps'   = Append(snaps, J.cs)
      /\ UNCHANGED reorgs

(* The chain rolls back to height r (at most MaxRollback below the highest *)
(* tip) and the committee's History is rolled back to r.                   *)
Rollback(r) ==
  LET J == RollbackTo([cs |-> cs, log |-> history], r)
  IN  /\ r < Len(chain) /\ r >= maxTip - MaxRollback
      /\ reorgs < MaxReorgs
      /\ reorgs'  = reorgs + 1
      /\ chain'   = SubSeq(chain, 1, r)
      /\ cs'      = J.cs
      /\ history' = J.log
      /\ snaps'   = SubSeq(snaps, 1, r)
      /\ UNCHANGED maxTip

Init ==
  /\ chain = <<>>
  /\ maxTip = 0
  /\ cs = InitCS
  /\ history = <<>>
  /\ snaps = <<>>
  /\ reorgs = 0

Next ==
  \/ \E blk \in {<<>>} \cup {<<tx>> : tx \in ValidTxs} : AcceptBlock(blk)
  \/ \E r \in 0..MaxHeight : Rollback(r)

Spec == Init /\ [][Next]_vars

-----------------------------------------------------------------------------
TypeOK ==
  /\ Len(chain) \in 0..MaxHeight /\ maxTip \in 0..MaxHeight
  /\ cs.status \in [Proposals -> Statuses \cup {Absent}]
  /\ cs.registerHeight \in [Proposals -> 0..MaxHeight]
  /\ cs.crVotes \in [Proposals -> [Members -> VoteResults \cup {NotVoted}]]
  /\ cs.rejectAmount \in [Proposals -> Int]
  /\ cs.votes \subseteq Outputs
  /\ cs.balance \in [Treasuries -> Int]
  /\ \A e \in Range(history) : e.h \in 1..Len(chain)
  /\ Len(snaps) = Len(chain) /\ reorgs \in 0..MaxReorgs

(* Spec 8.4 and S9, History round-trip: after a rollback to r the          *)
(* committee state (proposal statuses, CR votes, reject amounts, Votes,    *)
(* used budget) is exactly the one it had right after block r -- the undo  *)
(* journalled by every handler of committeeaction.go and                   *)
(* proposalmanager.go restores what its change overwrote.                  *)
HistoryRoundTrip ==
  cs = IF snaps = <<>> THEN InitCS ELSE Last(snaps)

(* While a proposal is CRAgreed, VotersRejectAmount is the sum of the      *)
(* unspent vote outputs against it: processVotes adds each vote once,      *)
(* processCancelVotes (run before the spending transaction's own handler)  *)
(* removes it when its output is spent, and rollbacks keep both in step.   *)
RejectAmountMatchesVotes ==
  \A p \in Proposals :
    cs.status[p] = "CRAgreed" =>
      cs.rejectAmount[p] = MapThenSumSet(LAMBDA o : o.amount,
                                         {o \in Unspent : o.vote = p})

(* Spec 4.4, treasury accounting: CRCFoundationBalance and                 *)
(* CRCCommitteeBalance are the value of the unspent outputs paid to those  *)
(* addresses, and DestroyedAmount the value ever paid to the destroy       *)
(* address -- processCRCAddressRelatedTx credits each output once and      *)
(* debits each spending input once, across multi-input transactions and   *)
(* rollbacks through the History.                                          *)
TreasuryMatchesUnspent ==
  /\ \A a \in {"CRCFoundation", "CRCCommitteeAddress"} :
       cs.balance[a] = MapThenSumSet(LAMBDA o : o.value, {o \in Unspent : o.dest = a})
  /\ cs.balance["DestroyELAAddress"] =
       MapThenSumSet(LAMBDA o : o.value, {o \in Created : o.dest = "DestroyELAAddress"})

(* Spec 4.4: a CRAgreed proposal ends its public vote (VoterAgreed or      *)
(* VoterCanceled) only after ProposalPublicVotingPeriod blocks: it was      *)
(* already CRAgreed at height h - ProposalPublicVotingPeriod.               *)
PublicVotingLasts ==
  [][Len(chain') = Len(chain) + 1 =>
       \A p \in Proposals :
         cs.status[p] = "CRAgreed" /\ cs'.status[p] \in {"VoterAgreed", "VoterCanceled"}
           => LET a == Len(chain') - ProposalPublicVotingPeriod
              IN  a >= 1 /\ snaps[a].status[p] = "CRAgreed"]_vars

(* The committee implements the proposal lifecycle of spec 4.4             *)
(* (ProposalLifecycle): every block moves a proposal along at most one     *)
(* edge of the diagram -- updateProposals handles a proposal by the status *)
(* it has when visited, once -- and a rollback through the History brings  *)
(* every status back to the one after the target block.                    *)
Lifecycle == INSTANCE ProposalLifecycle
               WITH status <- cs.status,
                    hist   <- [i \in 1..Len(snaps) |-> snaps[i].status]

ProposalLifecycleRefined == Lifecycle!Spec
====

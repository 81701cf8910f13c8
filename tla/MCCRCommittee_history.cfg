\* Reviews, votes, cancels and a rollback of up to two blocks.
CONSTANTS
  p1 = p1
  m1 = m1
  m2 = m2
  o1 = o1
  o2 = o2
  o3 = o3
  NoVote = NoVote
  Proposals <- MCProposals
  Members <- MCMembers
  Outputs <- MCOutputs
  Budget <- MCBudget
  Amounts = {1}
  CRAgreementCount = 1
  ProposalCRVotingPeriod = 1
  ProposalPublicVotingPeriod = 6
  RejectThreshold = 1
  ReReview = FALSE
  PayTo = {"CRCFoundation", "CRCCommitteeAddress", "DestroyELAAddress"}
  MaxInputs = 2
  MaxHeight = 6
  MaxRollback = 2
  MaxReorgs = 1
SPECIFICATION Spec
\* The chain stops growing at MaxHeight and after MaxReorgs rollbacks.
CHECK_DEADLOCK FALSE
INVARIANT TypeOK
INVARIANT HistoryRoundTrip
INVARIANT RejectAmountMatchesVotes
INVARIANT TreasuryMatchesUnspent
PROPERTY ProposalLifecycleRefined

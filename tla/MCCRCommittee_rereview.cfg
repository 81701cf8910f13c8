\* A CR member reviews a proposal twice, in two blocks, and the chain rolls back between them.
CONSTANTS
  p1 = p1
  m1 = m1
  m2 = m2
  o1 = o1
  o2 = o2
  o3 = o3
  NoVote = NoVote
  Proposals <- MCProposals
  Members <- MCMembers
  Outputs <- MCOutputs
  Budget <- MCBudget
  Amounts = {1}
  CRAgreementCount = 1
  ProposalCRVotingPeriod = 2
  ProposalPublicVotingPeriod = 6
  RejectThreshold = 1
  ReReview = TRUE
  PayTo = {"Other"}
  MaxInputs = 1
  MaxHeight = 4
  MaxRollback = 2
  MaxReorgs = 1
SPECIFICATION Spec
\* The chain stops growing at MaxHeight and after MaxReorgs rollbacks.
CHECK_DEADLOCK FALSE
INVARIANT HistoryRoundTrip

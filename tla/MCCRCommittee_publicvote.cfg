\* A proposal agreed by the CR goes through its public vote without rollbacks.
CONSTANTS
  p1 = p1
  m1 = m1
  m2 = m2
  o1 = o1
  o2 = o2
  o3 = o3
  NoVote = NoVote
  Proposals <- MCProposals
  Members <- MCMembers
  Outputs <- MCOutputs
  Budget <- MCBudget
  Amounts = {1}
  CRAgreementCount = 1
  ProposalCRVotingPeriod = 1
  ProposalPublicVotingPeriod = 3
  RejectThreshold = 1
  ReReview = FALSE
  PayTo = {"Other"}
  MaxInputs = 1
  MaxHeight = 5
  MaxRollback = 2
  MaxReorgs = 0
SPECIFICATION Spec
\* The chain stops growing at MaxHeight and after MaxReorgs rollbacks.
CHECK_DEADLOCK FALSE
PROPERTY PublicVotingLasts

SPECIFICATION Spec
CONSTANTS
  Groups = {"index"}
  Clients = {c1, c2}
  Nights <- NightsMeasured
  Edits <- EditsMade
  Seeds <- Environments
  NaN = NaN
  ProposalTTL = 0
  MaxProposals = 2
  MaxChanges = 2
  MaxFaults = 1
INVARIANTS
  TypeOK
  HistoryTellsTable
  ApprovedIsApplied
  DecisionStands
  OneOpenAcrossNights
  MovesAtMostAQuarter
PROPERTIES
  OverdueEnds

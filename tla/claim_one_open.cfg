SPECIFICATION Spec
CONSTANTS
  Groups = {"index"}
  Clients = {c1, c2}
  Nights <- TwoBuckets
  Edits <- EditsMade
  Seeds <- Environments
  NaN = NaN
  ProposalTTL = 0
  MaxProposals = 2
  MaxChanges = 2
  MaxFaults = 0
INVARIANT OneOpenProposal

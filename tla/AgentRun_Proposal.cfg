SPECIFICATION FairSpec
CONSTANTS
  Worker = {w1}
  Nobody = Nobody
  Outcome = {"answer", "proposal"}
  MaxAttempts = 2
  MaxFaults = 0
  MaxEdits = 1
PROPERTIES DecidedProposalSettles
CHECK_DEADLOCK FALSE

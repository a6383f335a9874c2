\* Any outcome of the model, and a worker lost at the first and at the last attempt.
SPECIFICATION FairSpec
CONSTANTS
  Worker = {w1, w2}
  Nobody = Nobody
  Outcome = {"answer", "tool", "proposal", "failure"}
  MaxAttempts = 2
  MaxFaults = 2
  MaxEdits = 1
INVARIANTS Aligned ApprovalFollowsRun StepIsOwned OneAnswer
PROPERTIES Implements RunSettles
CHECK_DEADLOCK FALSE

SPECIFICATION FairSpec
CONSTANTS
  Event = {1, 2}
  Work <- MCWork
  Poison = {}
  Worker = {w1, w2}
  Token = {t1, t2, t3, t4}
  NoToken = NoToken
  MaxAttempts = 2
  Batch = 2
  MaxFaults = 1
INVARIANTS ClosedBeforeTerminal ClaimIsCurrent
PROPERTIES LeaseRespected Implements WorkSettles
CHECK_DEADLOCK FALSE

SPECIFICATION FairSpec
CONSTANTS
  Event = {1, 2}
  Work <- MCWork
  Poison = {1}
  Worker = {w1}
  Token = {t1, t2, t3}
  NoToken = NoToken
  MaxAttempts = 2
  Batch = 2
  MaxFaults = 0
PROPERTIES ExhaustedCloses
CHECK_DEADLOCK FALSE

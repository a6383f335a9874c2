\* The same two members: does every erasure leave the Workspace an owner?
SPECIFICATION MCSpec
CONSTANTS
  User = {u1, u2}
  Leaver = {u1, u2}
  Executor = {e1, e2}
  NoUser = NoUser
  NoExecutor = NoExecutor
  MaxClaims = 2
  MaxTries = 2
  Grant = {"admin"}
INVARIANTS OwnerRemains
CHECK_DEADLOCK FALSE

\* Two members who may both leave, two executors, two claims and two tries each.
SPECIFICATION MCSpec
CONSTANTS
  User = {u1, u2}
  Leaver = {u1, u2}
  Executor = {e1, e2}
  NoUser = NoUser
  NoExecutor = NoExecutor
  MaxClaims = 2
  MaxTries = 2
  Grant = {"admin"}
INVARIANTS VerdictHolds OwnedUnlessDeleting
PROPERTIES ErasesAsPromised DeletionEnds
CHECK_DEADLOCK FALSE

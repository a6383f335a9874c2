SPECIFICATION Spec
CONSTANTS
  Caller = {c1, c2}
  plain = plain
  prepared = prepared
  Scopes <- MCScopes
  Prepared <- MCPrepared
  Bodies = {b1, b2}
  Key = {1}
  LockKey <- MCLockKey
  Nobody = Nobody
  NoReceipt = NoReceipt
  Retention = 2
  MaxNow = 2
SYMMETRY RequestSymmetry
INVARIANTS OncePerWindow ReceiptIsKept AnswerIsSettled
PROPERTIES PendingIsKept Implements

SPECIFICATION MCSpec
CONSTANTS
  Job = {j1, j2}
  NoJob = NoJob
  Worker = {w1, w2}
  MaxAttempts = 2
  Attempt = {a1, a2}
  Operation = {o1, o2}
  NoOperation = NoOperation
  Knowledge = Knowledge
  Consumer <- MCConsumer
  NoConsumer = NoConsumer
  Kinds = {"import", "restore", "render"}
  MaxEdits = 2
  Resume = "resume"
  OpId = {o1, o2}
  Batch <- MCBatch
  Draft <- MCDraft
  FirstDocument <- MCFirstDocument
  Title = {1}
  None = None
  NoDocument = NoDocument
  MaxRevision = 4
SYMMETRY Symmetry
INVARIANTS ConsumedOnce RestoreKeepsEdits AppliedOnce RebaseCommutes ProposalIsExact
PROPERTIES VerdictIsFinal Implements
CHECK_DEADLOCK FALSE

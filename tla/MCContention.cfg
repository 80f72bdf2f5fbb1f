\* Two operations compete for a note.
CONSTANTS
  Note = {n1}
  Op = {o1, o2}
  Manager = {m1, m2}
  NoManager = NoManager
  Free = Free
  Spent = Spent
  EvmOp = {}
  EvidenceOp = {}
  MaxTx = 2
  MaxPayload = 0
  LeaseDuration = 1
SPECIFICATION Spec
SYMMETRY SymmetryWithOps
\* An operation that is settled stays so.
CHECK_DEADLOCK FALSE
CONSTRAINT TwoOperationsOrOneInFull
INVARIANTS
  Exclusive
PROPERTIES
  ImplementsOwnership
  CrashedLeaseRespected
  EvidenceIsPermanent

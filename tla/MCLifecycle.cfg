\* One operation over two notes, through everything that can befall it.
CONSTANTS
  Note = {n1, n2}
  Op = {o1}
  Manager = {m1}
  NoManager = NoManager
  Free = Free
  Spent = Spent
  EvmOp = {}
  EvidenceOp = {o1}
  MaxTx = 1
  MaxPayload = 1
  LeaseDuration = 1
SPECIFICATION Spec
SYMMETRY Symmetry
\* An operation that is settled stays so.
CHECK_DEADLOCK FALSE
INVARIANTS
  TypeOK
  OperationIsWhole
  BroadcastAccountedFor

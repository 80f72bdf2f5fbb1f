CONSTANTS
  n1 = n1
  n2 = n2
  o1 = o1
  o2 = o2
  o3 = o3
  t1 = t1
  t2 = t2
  t3 = t3
  m1 = m1
  m2 = m2
  Note = {n1, n2}
  Op = {o1, o2, o3}
  Manager = {m1, m2}
  NoManager = NoManager
  EvmOp <- OnEvm
  EvidenceOp = {o1}
  MaxTx = 2
  MaxPayload = 1
  LeaseDuration = 1
  Free = Free
  Spent = Spent
  Task = {t1, t2, t3}
  NoOp = NoOp
  AsksAgain <- Asked
  SessionOf <- Session
SPECIFICATION EvmSpec
INVARIANTS
  EvmTypeOK
  NothingSentUnmarked
  LivePayloadIsHeld
  PaidOnce
  RecordsAreTrue
SYMMETRY AnyNote
CONSTRAINT SmallInOneWay
CHECK_DEADLOCK FALSE

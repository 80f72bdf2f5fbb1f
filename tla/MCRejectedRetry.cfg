\* One session calls again for a payment it has sent, and the wallet declines.
CONSTANTS
  n1 = n1
  n2 = n2
  o1 = o1
  o2 = o2
  o3 = o3
  t1 = t1
  t2 = t2
  t3 = t3
  m1 = m1
  m2 = m2
  Note = {n1}
  Op = {o3}
  Manager = {m1}
  NoManager = NoManager
  EvmOp <- OnEvm
  EvidenceOp = {o3}
  MaxTx = 1
  MaxPayload = 1
  LeaseDuration = 1
  Free = Free
  Spent = Spent
  Task = {t1, t3}
  NoOp = NoOp
  AsksAgain <- Asked
  SessionOf <- Session
SPECIFICATION EvmSpec
INVARIANTS
  RejectedBeforeBroadcast
CHECK_DEADLOCK FALSE

CONSTANTS
  t1 = t1
  t2 = t2
  t3 = t3
  process1 = process1
  process2 = process2
  b1 = b1
  b2 = b2
  b3 = b3
  tx1 = tx1
  tx2 = tx2
  Process = {process1, process2}
  NoProcess = NoProcess
  Task = {t1, t2, t3}
  ProcessOf <- TaskProcess
  Tx = {tx1, tx2}
  NoTx = NoTx
  LeaseDuration = 1
  DecisionTTL = 1
  MaxDecisions = 2
SPECIFICATION MCSpec
INVARIANTS
  PaymentIsSafe
  BatchIsSafe
  PayrollIsFunded
PROPERTIES
  NoLateResend
SYMMETRY Interchangeable
CONSTRAINT SmallInOneWay
CHECK_DEADLOCK FALSE

CONSTANTS
  o1 = o1
  o2 = o2
  c1 = c1
  c2 = c2
  c3 = c3
  m1 = m1
  m2 = m2
  n1 = n1
  n2 = n2
  Op = {o1, o2}
  Manager = {m1, m2}
  NoManager = NoManager
  LeaseDuration = 1
  Free = Free
  Spent = Spent
  Asked <- AllKinds
  Caller = {c1, c2, c3}
  ManagerOf <- CallerManager
SPECIFICATION MCSpec
INVARIANTS
  SnapshotsAreSafe
  PreparationIsSafe
PROPERTIES
  EvidenceKept
  ImplementsOwnership
  PrepareEnds
CONSTRAINT SmallInOneWay
CHECK_DEADLOCK FALSE

CONSTANTS
  note = note
  n1 = n1
  n2 = n2
  Other = Other
  scanner = scanner
  c1 = c1
  c2 = c2
SPECIFICATION MCSpec
INVARIANTS
  CacheIsExact
  ScanIsExact
  PlansAreSound
CONSTRAINT ThreeOutputs
SYMMETRY Interchangeable
\* a wallet with all its notes found, or none to pay with, stops
CHECK_DEADLOCK FALSE

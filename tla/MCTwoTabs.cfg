\* Two tabs under the Web Lock, one of them with two calls at a time.
CONSTANTS
  t1 = t1
  t2 = t2
  t3 = t3
  tab1 = tab1
  tab2 = tab2
  reserve1 = reserve1
  reserve2 = reserve2
  release1 = release1
  Task = {t1, t2, t3}
  Tab = {tab1, tab2}
  TabOf <- TwoTabs
  Call = {reserve1, reserve2, release1}
  Accepts <- OneNote
  WebLocks = TRUE
  List = List
  NoTask = NoTask
SPECIFICATION FairSpec
INVARIANTS
  NoStaleWrite
  ReturnedIsDurable
PROPERTIES
  ImplementsAtomicStore
  EveryCallSettles

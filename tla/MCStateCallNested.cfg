CONSTANTS
  Threads = {t1, t2}
  States = {s1, s2}
  NoThread = NoThread
  NoState = NoState
  Kinds = {"call", "tcall", "poll"}
  MaxDepth = 3
SPECIFICATION Spec
CHECK_DEADLOCK FALSE
INVARIANTS
  RunningIsOpen
  OrphanIsClosed
  IInv
PROPERTIES
  ImplementsExclusive

CONSTANTS
  Threads = {t1, t2, t3}
  States = {s1}
  NoThread = NoThread
  NoState = NoState
  Kinds = {"call"}
  MaxDepth = 1
SPECIFICATION Spec
CHECK_DEADLOCK FALSE
INVARIANTS
  EntersOnlyOpen

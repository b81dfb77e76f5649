CONSTANTS
  Threads = {t1, t2}
  States = {s1}
  Refs = {r1, r2}
  Names = {n1}
  NoThread = NoThread
  NoState = NoState
  NoRef = NoRef
  NoName = NoName
  Modes = {"new", "find"}
  Features = {"module"}
SPECIFICATION Spec
SYMMETRY Symmetry
CHECK_DEADLOCK FALSE
INVARIANTS
  LocksAreOrdered

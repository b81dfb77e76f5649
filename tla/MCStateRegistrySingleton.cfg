CONSTANTS
  Threads = {t1, t2, t3}
  States = {s1, s2}
  Refs = {r1, r2, r3}
  Names = {n1}
  NoThread = NoThread
  NoState = NoState
  NoRef = NoRef
  NoName = NoName
  Modes = {"find", "singleton"}
  Features = {"module", "fail", "findFails", "gcInCall"}
SPECIFICATION Spec
SYMMETRY Symmetry
CHECK_DEADLOCK FALSE
INVARIANTS
  SingletonIsUnique
  NoLostWakeup

CONSTANTS
  Threads = {t1, t2, t3}
  States = {s1}
  NoThread = NoThread
  NoState = NoState
  Kinds = {"call", "tcall"}
  MaxDepth = 1
SPECIFICATION FairSpec
CHECK_DEADLOCK FALSE
INVARIANTS
  MutualExclusion
  NoLostWakeup
PROPERTIES
  IdleIsTaken
  TimedCallReturns

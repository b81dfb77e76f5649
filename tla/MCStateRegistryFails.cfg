CONSTANTS
  Threads = {t1, t2}
  States = {s1}
  Refs = {r1, r2}
  Names = {n1}
  NoThread = NoThread
  NoState = NoState
  NoRef = NoRef
  NoName = NoName
  Modes = {"singleton"}
  Features = {"fail"}
SPECIFICATION FairSpec
CHECK_DEADLOCK FALSE
PROPERTIES
  SetupIsAwaited

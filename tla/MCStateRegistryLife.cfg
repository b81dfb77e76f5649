CONSTANTS
  Threads = {t1, t2, t3}
  States = {s1, s2}
  Refs = {r1, r2, r3}
  Names = {n1}
  NoThread = NoThread
  NoState = NoState
  NoRef = NoRef
  NoName = NoName
  Modes = {"new", "find", "singleton"}
  Features = {"retain", "module", "fail"}
SPECIFICATION Spec
SYMMETRY Symmetry
CHECK_DEADLOCK FALSE
INVARIANTS
  TypeOK
  CountsAreExact
  ReferencesAreLive
  WorkIsOnLiveObjects
  NothingLeaks
  FoundIsOwned
  SetupIsPrivate

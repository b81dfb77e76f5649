CONSTANTS
  Threads = {t1, t2, t3}
  NoThread = NoThread
  Platforms = {"posix", "windows"}
  Timeouts = {0, 1, 6}
  TicksPerMilli = 4
  MillisPerSecond = 2
  MaxInt = 3
  MaxTimed = 1
SPECIFICATION FairSpec
INVARIANTS
  NoLostWakeup
PROPERTIES
  TimeoutIsKept
  TimedCallReturns

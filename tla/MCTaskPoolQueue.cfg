CONSTANTS
  StaticJobs = {s1, s2}
  RecyclableJobs = {}
  Threads = {t1, t2}
  MinThreads = 1
  MaxThreads = {1, 2}
  Priorities = {"normal", "high"}
  DeferTimes = {}
  MinDelay = 1
  RecycleLimit = 1
  MaxSem = 2
  ActiveJobsBound = 3
  SystemPool = FALSE
SPECIFICATION FairSpec
INVARIANTS
  StartStopHandshake
  NoLostWakeup
  CountersAreExact
PROPERTIES
  QueuedJobRuns
  OwnerReturns

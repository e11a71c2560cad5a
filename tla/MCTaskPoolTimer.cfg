CONSTANTS
  StaticJobs = {}
  RecyclableJobs = {r1, r2}
  Threads = {t1, t2}
  MinThreads = 1
  MaxThreads = {1}
  Priorities = {"normal"}
  DeferTimes = {1, 2}
  MinDelay = 1
  RecycleLimit = 1
  MaxSem = 2
  ActiveJobsBound = 3
  SystemPool = TRUE
SPECIFICATION FairSpec
INVARIANTS
  JobPlacement
  TimerCoverage
PROPERTIES
  ExpiredJobDispatched
  ImplementsContract

CONSTANTS
  StaticJobs = {s1, s2}
  RecyclableJobs = {}
  Threads = {t1, t2}
  MinThreads = 1
  MaxThreads = {1, 2}
  Priorities = {"normal"}
  DeferTimes = {1, 2}
  MinDelay = 1
  RecycleLimit = 1
  MaxSem = 2
  ActiveJobsBound = 3
  SystemPool = FALSE
SPECIFICATION Spec
INVARIANTS
  DestroyIsExclusive

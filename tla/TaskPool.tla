------------------------------ MODULE TaskPool ------------------------------
(***************************************************************************)
(* The task pool of the C SDK (iot_taskpool.c): a set of worker threads    *)
(* that execute jobs from a dispatch queue, a list of deferred jobs served *)
(* by one software timer, and a cache of recyclable jobs.                  *)
(*                                                                         *)
(* Every API call and every critical section of a worker runs under the    *)
(* pool's one recursive mutex and is one step here.  What happens outside  *)
(* the mutex is a step of its own: taking a token of dispatchSignal,       *)
(* timing out, returning from a user callback, posting startStopSignal,    *)
(* the waits of Create and Destroy.  The loop of the timer thread holds    *)
(* the mutex for several steps (timerTask = "locked").                     *)
(*                                                                         *)
(* Time is relative: expiration[j] and timer count the ticks that are left *)
(* until the absolute times the code stores (the 64 bit millisecond clock  *)
(* accounts for tick overflow, so absolute and relative times agree).      *)
(***************************************************************************)
EXTENDS Integers, Sequences, FiniteSets, Lists

CONSTANTS
  StaticJobs,      \* jobs around storage of the user (IotTaskPool_CreateJob)
  RecyclableJobs,  \* jobs on the heap (IotTaskPool_CreateRecyclableJob)
  Threads,         \* the threads the operating system can provide
  MinThreads,      \* minThreads of IotTaskPoolInfo_t
  MaxThreads,      \* the values passed for maxThreads
  Priorities,      \* the flags passed to Schedule: "normal", "high"
  DeferTimes,      \* the values passed for timeMs
  MinDelay,        \* TASKPOOL_JOB_RESCHEDULE_DELAY_MS
  RecycleLimit,    \* IOT_TASKPOOL_JOBS_RECYCLE_LIMIT
  MaxSem,          \* TASKPOOL_MAX_SEM_VALUE
  ActiveJobsBound, \* bound of the model on activeJobs, which only grows when
                   \* queued jobs are cancelled
  SystemPool       \* TRUE: the pool is the static _IotSystemTaskPool

Jobs == StaticJobs \cup RecyclableJobs

(* The parameter checks of IotTaskPool_Create, and a semaphore that can    *)
(* count every job and every thread.                                       *)
ASSUME PoolAssumption ==
  /\ IsFiniteSet(Threads) /\ IsFiniteSet(Jobs)
  /\ StaticJobs \cap RecyclableJobs = {}
  /\ MinThreads \in Nat \ {0}
  /\ MaxThreads \subseteq {n \in Nat : n >= MinThreads}
  /\ Priorities \subseteq {"normal", "high"}
  /\ DeferTimes \subseteq Nat \ {0}
  /\ MinDelay \in Nat \ {0}
  /\ RecycleLimit \in Nat
  /\ MaxSem \in Nat /\ MaxSem >= Cardinality(Jobs) /\ MaxSem >= Cardinality(Threads)
  /\ ActiveJobsBound \in Nat
  /\ SystemPool \in BOOLEAN

VARIABLES
  owner,             \* where the thread that creates and destroys the pool is
  threads,           \* its threadsCreated, or the activeThreads it recorded
  waited,            \* how often it has waited for startStopSignal
  completeShutdown,  \* Destroy: FALSE leaves the last stage to the timer thread
  maxThreads,        \* 0 is the exit condition
  activeThreads,
  activeJobs,
  dispatchSignal,    \* count of the semaphore the workers wait for
  startStopSignal,   \* count of the semaphore the owner waits for
  dispatchQueue,
  timerEventsList,   \* the jobs of the deferred events, in list order
  expiration,        \* the time left of each deferred event
  freeList,          \* jobsCache.freeList
  freeCount,         \* jobsCache.freeCount
  status,            \* pJob->status
  live,              \* the jobs whose handle the application holds
  pc,                \* where each thread is in _taskPoolWorker
  timer,             \* ticks until the software timer fires, or Idle
  timerTask,         \* the timer daemon: "idle", "fired" or "locked"
  fault              \* "none", or what stopped the system

ownerVars  == <<owner, threads, waited, completeShutdown>>
cacheVars  == <<freeList, freeCount>>
timerVars  == <<timerEventsList, expiration, timer>>
signalVars == <<dispatchSignal, startStopSignal>>
vars == <<ownerVars, cacheVars, timerVars, signalVars, maxThreads, activeThreads,
          activeJobs, dispatchQueue, status, live, pc, timerTask, fault>>

Idle == -1

Statuses == {"READY", "SCHEDULED", "DEFERRED", "COMPLETED", "CANCELED", "UNDEFINED"}

(* "run" is the callback of a worker that stays, "last" the callback of a  *)
(* worker that already left activeThreads (running = false).               *)
WorkerStates == {"off", "start", "wait", "token", "timeout", "run", "last", "exit"}

OwnerStates == {"gone", "creating", "starting", "aborting", "unwinding", "open",
                "closing", "returned"}

TypeOK ==
  /\ owner \in OwnerStates
  /\ threads \in Nat /\ waited \in Nat
  /\ completeShutdown \in BOOLEAN
  /\ maxThreads \in Nat
  /\ activeThreads \in Nat
  /\ activeJobs \in Nat
  /\ dispatchSignal \in 0..MaxSem
  /\ startStopSignal \in 0..MaxSem
  /\ dispatchQueue \in Seq(Jobs)
  /\ timerEventsList \in Seq(Jobs)
  /\ expiration \in [Jobs -> Nat]
  /\ freeList \in Seq(RecyclableJobs)
  /\ freeCount \in Nat
  /\ status \in [Jobs -> Statuses]
  /\ live \subseteq Jobs
  /\ pc \in [Threads -> WorkerStates]
  /\ timer \in Nat \cup {Idle}
  /\ timerTask \in {"idle", "fired", "locked"}
  /\ fault \in {"none", "assert", "teardown", "freeStatic"}

-----------------------------------------------------------------------------
(* Helpers *)

(* Semaphore posts fail silently at the maximum value.                     *)
Post(sem, n) == IF sem + n <= MaxSem THEN sem + n ELSE MaxSem

_IsShutdownStarted == maxThreads = 0

(* The mutex can be taken: only the timer thread keeps it between steps.   *)
LockFree == fault = "none" /\ timerTask # "locked"

(* An API call on an open pool that passes the shutdown check.             *)
ApiEnter == owner = "open" /\ LockFree /\ ~_IsShutdownStarted

(* Mutant: an event that is already due does not arm the timer.            *)
Reschedule_NoFloor(left) == IF left < MinDelay THEN Idle ELSE left

(* _rescheduleDeferredJobsTimer: never sooner than MinDelay.               *)
_rescheduleDeferredJobsTimer(left) == IF left < MinDelay THEN MinDelay ELSE left

-----------------------------------------------------------------------------
(* _trySafeExtraction and _tryCancelInternal *)

(* A job marked SCHEDULED that is in no queue fails the assertion of       *)
(* _tryCancelInternal.                                                     *)
AssertsLinked(j) == status[j] = "SCHEDULED" => Linked(dispatchQueue, j)

QueueWithout(j) ==
  IF status[j] = "SCHEDULED" THEN Unlink(dispatchQueue, j) ELSE dispatchQueue

TimersWithout(j) ==
  IF status[j] = "DEFERRED" THEN Unlink(timerEventsList, j) ELSE timerEventsList

(* The software timer is only rearmed when the head of the list is         *)
(* cancelled and another event remains; it is never stopped.               *)
TimerWithout(j) ==
  IF status[j] = "DEFERRED" /\ Head(timerEventsList) = j /\ TimersWithout(j) # <<>>
  THEN _rescheduleDeferredJobsTimer(expiration[Head(TimersWithout(j))])
  ELSE timer

ExpirationWithout(j) == [expiration EXCEPT ![j] = 0]

(* Mutant of _trySafeExtraction: a job that is executing is accepted.      *)
Extraction_Executing(j) ==
  /\ AssertsLinked(j)
  /\ timerEventsList' = TimersWithout(j)
  /\ expiration' = ExpirationWithout(j)
  /\ timer' = TimerWithout(j)

(* Schedule and ScheduleDeferred refuse a job that is executing or done.   *)
_trySafeExtraction(j) ==
  /\ status[j] # "COMPLETED"
  /\ AssertsLinked(j)
  /\ timerEventsList' = TimersWithout(j)
  /\ expiration' = ExpirationWithout(j)
  /\ timer' = TimerWithout(j)

IotTaskPool_TryCancel(j) ==
  /\ ApiEnter
  /\ j \in live
  /\ status[j] \in {"READY", "DEFERRED", "SCHEDULED", "CANCELED"}
  /\ AssertsLinked(j)
  /\ status' = [status EXCEPT ![j] = "CANCELED"]
  /\ dispatchQueue' = QueueWithout(j)
  /\ timerEventsList' = TimersWithout(j)
  /\ expiration' = ExpirationWithout(j)
  /\ timer' = TimerWithout(j)
  /\ UNCHANGED <<ownerVars, cacheVars, signalVars, maxThreads, activeThreads,
                 activeJobs, live, pc, timerTask, fault>>

(* Every call that cancels a job stops in the assertion (configASSERT      *)
(* executes BKPT) when the job is SCHEDULED but in no queue.               *)
CancelAssertFails(j) ==
  /\ ApiEnter
  /\ j \in live
  /\ ~AssertsLinked(j)
  /\ fault' = "assert"
  /\ UNCHANGED <<ownerVars, cacheVars, timerVars, signalVars, maxThreads,
                 activeThreads, activeJobs, dispatchQueue, status, live, pc, timerTask>>

-----------------------------------------------------------------------------
(* Scheduling *)

(* _scheduleInternal, on the queue q the job was extracted from.  Creating *)
(* a thread may fail; that is an error only when the pool must grow for a  *)
(* high priority job, and then the status stays SCHEDULED.  The new worker *)
(* posts startStopSignal and the caller, holding the mutex, takes it.      *)
_scheduleInternal(j, priority, q) ==
  LET busy       == activeThreads <= activeJobs + 1
      mustGrow   == busy /\ priority = "high"
      shouldGrow == busy /\ priority # "high" /\ activeThreads < maxThreads
      Enqueue    == /\ dispatchQueue' = IF mustGrow THEN Cons(j, q) ELSE Append(q, j)
                    /\ dispatchSignal' = Post(dispatchSignal, 1)
                    /\ activeJobs' = activeJobs + 1
  IN  /\ status' = [status EXCEPT ![j] = "SCHEDULED"]
      /\ \/ /\ mustGrow \/ shouldGrow
            /\ \E t \in Threads :
                 /\ pc[t] = "off"
                 /\ pc' = [pc EXCEPT ![t] = "wait"]
            /\ activeThreads' = activeThreads + 1
            /\ Enqueue
         \/ /\ ~mustGrow
            /\ Enqueue
            /\ UNCHANGED <<pc, activeThreads>>
         \/ /\ mustGrow
            /\ dispatchQueue' = q
            /\ UNCHANGED <<pc, activeThreads, dispatchSignal, activeJobs>>

(* Bound of the model: the jobs counted and the jobs still deferred.       *)
WithinBound == activeJobs + Len(timerEventsList) < ActiveJobsBound

IotTaskPool_Schedule(j, priority) ==
  /\ ApiEnter
  /\ j \in live
  /\ WithinBound
  /\ _trySafeExtraction(j)
  /\ _scheduleInternal(j, priority, QueueWithout(j))
  /\ UNCHANGED <<ownerVars, cacheVars, startStopSignal, maxThreads, live, timerTask, fault>>

(* A failed allocation of the timer event leaves the job extracted.        *)
IotTaskPool_ScheduleDeferred(j, timeMs) ==
  LET exp == [expiration EXCEPT ![j] = timeMs]
      lst == InsertSorted(TimersWithout(j), j, exp)
  IN  /\ ApiEnter
      /\ j \in live
      /\ WithinBound
      /\ status[j] # "COMPLETED"
      /\ AssertsLinked(j)
      /\ dispatchQueue' = QueueWithout(j)
      /\ timerEventsList' = lst
      /\ expiration' = exp
      /\ status' = [status EXCEPT ![j] = "DEFERRED"]
      /\ timer' = IF Head(lst) = j
                  THEN _rescheduleDeferredJobsTimer(timeMs)
                  ELSE TimerWithout(j)
      /\ UNCHANGED <<ownerVars, cacheVars, signalVars, maxThreads, activeThreads,
                     activeJobs, live, pc, timerTask, fault>>

ScheduleDeferredFails(j) ==
  /\ ApiEnter
  /\ j \in live
  /\ DeferTimes # {}
  /\ _trySafeExtraction(j)
  /\ dispatchQueue' = QueueWithout(j)
  /\ status' = [status EXCEPT ![j] = IF @ \in {"SCHEDULED", "DEFERRED"} THEN "CANCELED" ELSE @]
  /\ UNCHANGED <<ownerVars, cacheVars, signalVars, maxThreads, activeThreads,
                 activeJobs, live, pc, timerTask, fault>>

-----------------------------------------------------------------------------
(* Creating, recycling and destroying jobs *)

(* The application initializes storage that is in no list of the pool.     *)
IotTaskPool_CreateJob(j) ==
  /\ fault = "none"
  /\ j \in StaticJobs
  /\ ~Linked(dispatchQueue, j) /\ ~Linked(timerEventsList, j)
  /\ status' = [status EXCEPT ![j] = "READY"]
  /\ live' = live \cup {j}
  /\ UNCHANGED <<ownerVars, cacheVars, timerVars, signalVars, maxThreads,
                 activeThreads, activeJobs, dispatchQueue, pc, timerTask, fault>>

(* Mutant of IotTaskPool_CreateRecyclableJob: the cached job is handed out *)
(* but stays in the cache.                                                 *)
CreateRecyclable_Peek(j) ==
  /\ ApiEnter
  /\ \/ freeList # <<>> /\ j = Head(freeList)
     \/ freeList = <<>> /\ j \in RecyclableJobs \ live
  /\ status' = [status EXCEPT ![j] = "READY"]
  /\ live' = live \cup {j}
  /\ UNCHANGED <<ownerVars, cacheVars, timerVars, signalVars, maxThreads, activeThreads,
                 activeJobs, dispatchQueue, pc, timerTask, fault>>

(* _fetchOrAllocateJob: the head of the cache, or a job from the heap.     *)
IotTaskPool_CreateRecyclableJob(j) ==
  /\ ApiEnter
  /\ \/ /\ freeList # <<>>
        /\ j = Head(freeList)
        /\ freeList' = Tail(freeList)
        /\ freeCount' = freeCount - 1
     \/ /\ freeList = <<>>
        /\ j \in RecyclableJobs \ live
        /\ UNCHANGED cacheVars
  /\ status' = [status EXCEPT ![j] = "READY"]
  /\ live' = live \cup {j}
  /\ UNCHANGED <<ownerVars, timerVars, signalVars, maxThreads, activeThreads,
                 activeJobs, dispatchQueue, pc, timerTask, fault>>

(* Unlike scheduling, this takes a job that is executing: callbacks        *)
(* recycle their own job.  Queued and deferred jobs are cancelled first.   *)
Extract(j) ==
  /\ ApiEnter
  /\ j \in live \cap RecyclableJobs
  /\ AssertsLinked(j)
  /\ dispatchQueue' = QueueWithout(j)
  /\ timerEventsList' = TimersWithout(j)
  /\ expiration' = ExpirationWithout(j)
  /\ timer' = TimerWithout(j)
  /\ status' = [status EXCEPT ![j] = "UNDEFINED"]
  /\ live' = live \ {j}
  /\ UNCHANGED <<ownerVars, signalVars, maxThreads, activeThreads, activeJobs, pc,
                 timerTask, fault>>

IotTaskPool_RecycleJob(j) ==
  /\ Extract(j)
  /\ IF freeCount < RecycleLimit
     THEN freeList' = Append(freeList, j) /\ freeCount' = freeCount + 1
     ELSE UNCHANGED cacheVars

IotTaskPool_DestroyRecyclableJob(j) ==
  /\ Extract(j)
  /\ UNCHANGED cacheVars

-----------------------------------------------------------------------------
(* The worker threads *)

(* Posts that initialization is complete.                                  *)
WorkerStart(t) ==
  /\ fault = "none"
  /\ pc[t] = "start"
  /\ pc' = [pc EXCEPT ![t] = "wait"]
  /\ startStopSignal' = Post(startStopSignal, 1)
  /\ UNCHANGED <<ownerVars, cacheVars, timerVars, dispatchSignal, maxThreads,
                 activeThreads, activeJobs, dispatchQueue, status, live, timerTask, fault>>

(* IotSemaphore_TimedWait on dispatchSignal.                               *)
WorkerWake(t) ==
  /\ fault = "none"
  /\ pc[t] = "wait"
  /\ \/ /\ dispatchSignal > 0
        /\ dispatchSignal' = dispatchSignal - 1
        /\ pc' = [pc EXCEPT ![t] = "token"]
     \/ /\ dispatchSignal = 0
        /\ pc' = [pc EXCEPT ![t] = "timeout"]
        /\ UNCHANGED dispatchSignal
  /\ UNCHANGED <<ownerVars, cacheVars, timerVars, startStopSignal, maxThreads,
                 activeThreads, activeJobs, dispatchQueue, status, live, timerTask, fault>>

(* Mutant of Surplus: off by one at the minimum.                           *)
Surplus_OffByOne(t) ==
  \/ activeThreads > maxThreads
  \/ pc[t] = "timeout" /\ activeThreads >= MinThreads

(* The worker leaves activeThreads: over quota, or idle above the minimum. *)
Surplus(t) ==
  \/ activeThreads > maxThreads
  \/ pc[t] = "timeout" /\ activeThreads > MinThreads

(* Mutant of TakesJob: a surplus worker leaves at once, with the token.    *)
TakesJob_Quits(t) == pc[t] = "token" /\ dispatchQueue # <<>> /\ ~Surplus(t)

(* A worker that was woken by a token takes a job if there is one, even if *)
(* it is surplus and about to end.                                         *)
TakesJob(t) == pc[t] = "token" /\ dispatchQueue # <<>>

(* The critical section after waking up.                                   *)
WorkerCheck(t) ==
  /\ LockFree
  /\ pc[t] \in {"token", "timeout"}
  /\ \/ /\ _IsShutdownStarted
        /\ activeThreads' = activeThreads - 1
        /\ pc' = [pc EXCEPT ![t] = "exit"]
        /\ UNCHANGED <<dispatchQueue, status>>
     \/ /\ ~_IsShutdownStarted
        /\ activeThreads' = IF Surplus(t) THEN activeThreads - 1 ELSE activeThreads
        /\ \/ /\ TakesJob(t)
              /\ dispatchQueue' = Tail(dispatchQueue)
              /\ status' = [status EXCEPT ![Head(dispatchQueue)] = "COMPLETED"]
              /\ pc' = [pc EXCEPT ![t] = IF Surplus(t) THEN "last" ELSE "run"]
           \/ /\ ~TakesJob(t)
              /\ pc' = [pc EXCEPT ![t] = IF Surplus(t) THEN "off" ELSE "wait"]
              /\ UNCHANGED <<dispatchQueue, status>>
  /\ UNCHANGED <<ownerVars, cacheVars, timerVars, signalVars, maxThreads, activeJobs,
                 live, timerTask, fault>>

(* Mutant of WorkerLast: the surplus worker reports its end as on shutdown. *)
WorkerLast_Posts(t) ==
  /\ fault = "none"
  /\ pc[t] = "last"
  /\ pc' = [pc EXCEPT ![t] = "off"]
  /\ startStopSignal' = Post(startStopSignal, 1)
  /\ UNCHANGED <<ownerVars, cacheVars, timerVars, dispatchSignal, maxThreads,
                 activeThreads, activeJobs, dispatchQueue, status, live, timerTask, fault>>

(* The callback returns: a surplus worker ends without touching the pool,  *)
(* any other takes the next job or goes back to waiting.                   *)
WorkerLast(t) ==
  /\ fault = "none"
  /\ pc[t] = "last"
  /\ pc' = [pc EXCEPT ![t] = "off"]
  /\ UNCHANGED <<ownerVars, cacheVars, timerVars, signalVars, maxThreads, activeThreads,
                 activeJobs, dispatchQueue, status, live, timerTask, fault>>

WorkerNext(t) ==
  /\ LockFree
  /\ pc[t] = "run"
  /\ activeJobs' = activeJobs - 1
  /\ IF dispatchQueue = <<>>
     THEN /\ pc' = [pc EXCEPT ![t] = "wait"]
          /\ UNCHANGED <<dispatchQueue, status>>
     ELSE /\ dispatchQueue' = Tail(dispatchQueue)
          /\ status' = [status EXCEPT ![Head(dispatchQueue)] = "COMPLETED"]
          /\ UNCHANGED pc
  /\ UNCHANGED <<ownerVars, cacheVars, timerVars, signalVars, maxThreads, activeThreads,
                 live, timerTask, fault>>

(* Mutant of WorkerExit: the worker ends without a word.                   *)
WorkerExit_Silent(t) ==
  /\ fault = "none"
  /\ pc[t] = "exit"
  /\ pc' = [pc EXCEPT ![t] = "off"]
  /\ UNCHANGED <<ownerVars, cacheVars, timerVars, signalVars, maxThreads, activeThreads,
                 activeJobs, dispatchQueue, status, live, timerTask, fault>>

(* Posts that this worker is exiting, after it released the mutex.         *)
WorkerExit(t) ==
  /\ fault = "none"
  /\ pc[t] = "exit"
  /\ pc' = [pc EXCEPT ![t] = "off"]
  /\ startStopSignal' = Post(startStopSignal, 1)
  /\ UNCHANGED <<ownerVars, cacheVars, timerVars, dispatchSignal, maxThreads,
                 activeThreads, activeJobs, dispatchQueue, status, live, timerTask, fault>>

Worker(t) == WorkerStart(t) \/ WorkerWake(t) \/ WorkerCheck(t) \/ WorkerLast(t)
               \/ WorkerNext(t) \/ WorkerExit(t)

-----------------------------------------------------------------------------
(* Quota, creation and destruction *)

IotTaskPool_SetMaxThreads(n) ==
  /\ ApiEnter
  /\ maxThreads' = n
  /\ dispatchSignal' = IF n < maxThreads THEN Post(dispatchSignal, maxThreads - n)
                                         ELSE dispatchSignal
  /\ UNCHANGED <<ownerVars, cacheVars, timerVars, startStopSignal, activeThreads,
                 activeJobs, dispatchQueue, status, live, pc, timerTask, fault>>

(* _initTaskPoolControlStructures zeroes the pool.  The storage of the     *)
(* pool is not reused while a timer callback is still pending on it.       *)
IotTaskPool_Create(n) ==
  /\ fault = "none"
  /\ owner = "gone" /\ timerTask = "idle"
  /\ owner' = "creating"
  /\ threads' = 0 /\ waited' = 0
  /\ completeShutdown' = TRUE
  /\ maxThreads' = n
  /\ activeThreads' = 0 /\ activeJobs' = 0
  /\ dispatchSignal' = 0 /\ startStopSignal' = 0
  /\ dispatchQueue' = <<>> /\ timerEventsList' = <<>>
  /\ freeList' = <<>> /\ freeCount' = 0
  /\ timer' = Idle
  /\ UNCHANGED <<expiration, status, live, pc, timerTask, fault>>

(* _createTaskPool: one worker thread more, until there are MinThreads of  *)
(* them or one cannot be created.                                          *)
CreateThread ==
  /\ fault = "none"
  /\ owner = "creating"
  /\ \/ /\ threads < MinThreads
        /\ \E t \in Threads : pc[t] = "off" /\ pc' = [pc EXCEPT ![t] = "start"]
        /\ activeThreads' = activeThreads + 1
        /\ threads' = threads + 1
        /\ UNCHANGED owner
     \/ /\ owner' = IF threads < MinThreads THEN "aborting" ELSE "starting"
        /\ UNCHANGED <<threads, activeThreads, pc>>
  /\ UNCHANGED <<waited, completeShutdown, cacheVars, timerVars, signalVars, maxThreads,
                 activeJobs, dispatchQueue, status, live, timerTask, fault>>

(* One IotSemaphore_Wait on startStopSignal of Create or Destroy.          *)
OwnerWait ==
  /\ fault = "none"
  /\ owner \in {"starting", "aborting", "unwinding", "closing"}
  /\ waited < threads
  /\ startStopSignal > 0
  /\ startStopSignal' = startStopSignal - 1
  /\ waited' = waited + 1
  /\ UNCHANGED <<owner, threads, completeShutdown, cacheVars, timerVars, dispatchSignal,
                 maxThreads, activeThreads, activeJobs, dispatchQueue, status, live, pc,
                 timerTask, fault>>

(* The waits are over: the new pool is handed out, or its threads are told *)
(* to exit and, once they have, it is destroyed.                           *)
CreateDone ==
  /\ fault = "none"
  /\ waited = threads
  /\ \/ /\ owner = "starting"
        /\ owner' = "open"
        /\ UNCHANGED <<maxThreads, dispatchSignal, waited>>
     \/ /\ owner = "aborting"
        /\ owner' = "unwinding"
        /\ waited' = 0
        /\ maxThreads' = 0
        /\ dispatchSignal' = Post(dispatchSignal, threads)
     \/ /\ owner = "unwinding"
        /\ owner' = "gone"
        /\ UNCHANGED <<maxThreads, dispatchSignal, waited>>
  /\ UNCHANGED <<threads, completeShutdown, cacheVars, timerVars, startStopSignal,
                 activeThreads, activeJobs, dispatchQueue, status, live, pc, timerTask, fault>>

(* Stages 1 to 4 of IotTaskPool_Destroy, under the mutex.                  *)
IotTaskPool_Destroy ==
  LET cleared == ToSet(dispatchQueue) \cup ToSet(timerEventsList) \cup ToSet(freeList)
  IN  /\ ApiEnter
      /\ owner' = "closing"
      /\ threads' = activeThreads
      /\ waited' = 0
      /\ completeShutdown' = ~(/\ timerEventsList # <<>>
                               /\ expiration[Head(timerEventsList)] = 0)
      /\ dispatchQueue' = <<>> /\ timerEventsList' = <<>> /\ freeList' = <<>>
      /\ expiration' = [j \in Jobs |-> 0]
      /\ status' = [j \in Jobs |-> IF j \in cleared THEN "UNDEFINED" ELSE status[j]]
      /\ live' = live \ cleared
      /\ maxThreads' = 0
      /\ dispatchSignal' = Post(dispatchSignal, activeThreads)
      /\ UNCHANGED <<freeCount, timer, startStopSignal, activeThreads, activeJobs, pc,
                     timerTask, fault>>

(* The end of Destroy: two assertions, then stage 6, which stops the timer *)
(* and deletes the semaphores and the mutex, or leaves that to the timer.  *)
DestroyDone ==
  /\ fault = "none"
  /\ owner = "closing"
  /\ waited = threads
  /\ IF startStopSignal # 0 \/ activeThreads # 0
     THEN fault' = "assert" /\ UNCHANGED <<owner, timer>>
     ELSE /\ owner' = IF completeShutdown THEN "gone" ELSE "returned"
          /\ timer' = IF completeShutdown THEN Idle ELSE timer
          /\ UNCHANGED fault
  /\ UNCHANGED <<threads, waited, completeShutdown, cacheVars, timerEventsList, expiration,
                 signalVars, maxThreads, activeThreads, activeJobs, dispatchQueue, status,
                 live, pc, timerTask>>

-----------------------------------------------------------------------------
(* The software timer and its callback *)

Tick ==
  /\ fault = "none"
  /\ timer > 0 \/ \E j \in Jobs : expiration[j] > 0
  /\ timer' = IF timer > 0 THEN timer - 1 ELSE timer
  /\ expiration' = [j \in Jobs |-> IF expiration[j] > 0 THEN expiration[j] - 1 ELSE 0]
  /\ UNCHANGED <<ownerVars, cacheVars, timerEventsList, signalVars, maxThreads,
                 activeThreads, activeJobs, dispatchQueue, status, live, pc, timerTask, fault>>

TimerFire ==
  /\ fault = "none"
  /\ timer = 0 /\ timerTask = "idle"
  /\ timer' = Idle
  /\ timerTask' = "fired"
  /\ UNCHANGED <<ownerVars, cacheVars, timerEventsList, expiration, signalVars, maxThreads,
                 activeThreads, activeJobs, dispatchQueue, status, live, pc, fault>>

(* _timerThread takes the mutex.  When the pool shuts down it destroys the *)
(* pool, whoever still uses it, and frees even the static system pool.     *)
TimerThread ==
  /\ fault = "none"
  /\ timerTask = "fired"
  /\ \/ /\ owner # "gone" /\ ~_IsShutdownStarted
        /\ timerTask' = "locked"
        /\ UNCHANGED <<owner, fault>>
     \/ /\ owner = "gone" \/ (_IsShutdownStarted /\ owner # "returned")
        /\ fault' = "teardown"
        /\ timerTask' = "idle"
        /\ UNCHANGED owner
     \/ /\ owner = "returned"
        /\ owner' = "gone"
        /\ timerTask' = "idle"
        /\ fault' = IF SystemPool THEN "freeStatic" ELSE "none"
  /\ UNCHANGED <<threads, waited, completeShutdown, cacheVars, timerVars, signalVars,
                 maxThreads, activeThreads, activeJobs, dispatchQueue, status, live, pc>>

(* One iteration of its loop: dispatch an expired event, or rearm for the  *)
(* first event left and release the mutex, or just release it.             *)
TimerDispatch ==
  /\ fault = "none"
  /\ timerTask = "locked"
  /\ timerEventsList # <<>>
  /\ expiration[Head(timerEventsList)] = 0
  /\ timerEventsList' = Tail(timerEventsList)
  /\ _scheduleInternal(Head(timerEventsList), "normal", dispatchQueue)
  /\ UNCHANGED <<ownerVars, cacheVars, expiration, timer, startStopSignal, maxThreads, live,
                 timerTask, fault>>

TimerDone ==
  /\ fault = "none"
  /\ timerTask = "locked"
  /\ \/ /\ timerEventsList # <<>>
        /\ expiration[Head(timerEventsList)] > 0
        /\ timer' = _rescheduleDeferredJobsTimer(expiration[Head(timerEventsList)])
     \/ /\ timerEventsList = <<>>
        /\ UNCHANGED timer
  /\ timerTask' = "idle"
  /\ UNCHANGED <<ownerVars, cacheVars, timerEventsList, expiration, signalVars, maxThreads,
                 activeThreads, activeJobs, dispatchQueue, status, live, pc, fault>>

-----------------------------------------------------------------------------
(* The specification *)

Init ==
  /\ owner = "gone" /\ threads = 0 /\ waited = 0 /\ completeShutdown = TRUE
  /\ maxThreads = 0 /\ activeThreads = 0 /\ activeJobs = 0
  /\ dispatchSignal = 0 /\ startStopSignal = 0
  /\ dispatchQueue = <<>> /\ timerEventsList = <<>>
  /\ expiration = [j \in Jobs |-> 0]
  /\ freeList = <<>> /\ freeCount = 0
  /\ status = [j \in Jobs |-> "UNDEFINED"]
  /\ live = {}
  /\ pc = [t \in Threads |-> "off"]
  /\ timer = Idle /\ timerTask = "idle"
  /\ fault = "none"

Api ==
  \/ \E j \in Jobs :
       \/ IotTaskPool_CreateJob(j)
       \/ IotTaskPool_CreateRecyclableJob(j)
       \/ IotTaskPool_RecycleJob(j)
       \/ IotTaskPool_DestroyRecyclableJob(j)
       \/ \E p \in Priorities : IotTaskPool_Schedule(j, p)
       \/ \E d \in DeferTimes : IotTaskPool_ScheduleDeferred(j, d)
       \/ ScheduleDeferredFails(j)
       \/ IotTaskPool_TryCancel(j)
       \/ CancelAssertFails(j)
  \/ \E n \in MaxThreads : IotTaskPool_SetMaxThreads(n) \/ IotTaskPool_Create(n)
  \/ IotTaskPool_Destroy

Owner == CreateThread \/ OwnerWait \/ CreateDone \/ DestroyDone

TimerDaemon == TimerFire \/ TimerThread \/ TimerDispatch \/ TimerDone

Halted == fault # "none" /\ UNCHANGED vars

Next == Api \/ Owner \/ (\E t \in Threads : Worker(t)) \/ Tick \/ TimerDaemon \/ Halted

Spec == Init /\ [][Next]_vars

(* The scheduler runs every thread that can run, callbacks return, time    *)
(* passes.  A thread that needs the mutex gets it although the timer       *)
(* thread takes it again and again.                                        *)
Fairness ==
  /\ WF_vars(Owner)
  /\ WF_vars(Tick)
  /\ WF_vars(TimerDaemon)
  /\ \A t \in Threads :
       /\ WF_vars(WorkerStart(t) \/ WorkerWake(t) \/ WorkerLast(t) \/ WorkerExit(t))
       /\ SF_vars(WorkerCheck(t) \/ WorkerNext(t))

FairSpec == Spec /\ Fairness
=============================================================================

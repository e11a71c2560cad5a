------------------------- MODULE TaskPoolProperties -------------------------
(***************************************************************************)
(* What the task pool should guarantee: invariants, action properties,     *)
(* liveness, the statements of the repository that the code does not meet, *)
(* and the abstract contract of a job it implements.                       *)
(***************************************************************************)
EXTENDS TaskPool

(* How many threads are in one of the given states.                        *)
Count(f, states) == Cardinality({t \in Threads : f[t] \in states})

(* The threads that activeThreads stands for.                              *)
CountedStates == {"start", "wait", "token", "timeout", "run"}

(* activeThreads is the number of threads that still serve the pool: every *)
(* creation, proactive decrement and shutdown exit keeps it exact, although *)
(* surplus workers leave the count before their last callback.             *)
ThreadAccounting == activeThreads = Count(pc, CountedStates)

(* The start/stop handshake: what the owner has still to wait for is what  *)
(* is posted on startStopSignal or will be posted by threads that have not *)
(* done so; on an open pool nothing is outstanding.  Hence Create and      *)
(* Destroy neither return early nor wait for a post that never comes, and  *)
(* both assertions at the end of Destroy hold.                             *)
StartStopHandshake ==
  /\ owner = "creating" => waited = 0 /\ threads = startStopSignal + Count(pc, {"start"})
  /\ owner \in {"starting", "aborting"} =>
       threads - waited = startStopSignal + Count(pc, {"start"})
  /\ owner = "open" => startStopSignal = 0 /\ Count(pc, {"start"}) = 0
  /\ owner \in {"closing", "unwinding"} =>
       threads - waited = startStopSignal + activeThreads + Count(pc, {"exit"})

(* Folding back after a timeout and shrinking to a smaller quota never     *)
(* leave an open pool with fewer than MinThreads workers.                  *)
PoolFloor == owner = "open" => activeThreads >= MinThreads

(* No lost wake-up: each queued job is matched by a token on               *)
(* dispatchSignal or by a worker that took one and has not looked at the   *)
(* queue yet, in spite of cancelled jobs, surplus workers, jobs taken      *)
(* without a token after a callback, and a saturated semaphore.            *)
NoLostWakeup ==
  owner = "open" => Len(dispatchQueue) <= dispatchSignal + Count(pc, {"token"})

(* Lists and status fields agree: a job is in at most one list and once;   *)
(* queued jobs are SCHEDULED, the deferred ones are exactly those in the   *)
(* timer list, and no handle the application holds is in the cache.        *)
JobPlacement ==
  /\ IsInjective(dispatchQueue) /\ IsInjective(timerEventsList) /\ IsInjective(freeList)
  /\ \A j \in Jobs :
       /\ Linked(dispatchQueue, j) => status[j] = "SCHEDULED" /\ j \in live
       /\ Linked(timerEventsList, j) <=> status[j] = "DEFERRED"
       /\ status[j] = "DEFERRED" => j \in live
       /\ Linked(freeList, j) => j \notin live

(* activeJobs never falls below the queued jobs and those executing on     *)
(* workers that will decrement it, so the unsigned counter cannot wrap.    *)
ActiveJobsCover ==
  activeJobs >= Len(dispatchQueue) + Count(pc, {"run"})

(* The counters stand for what they count, although surplus workers leave  *)
(* the pool before their last callback and jobs are cancelled, requeued    *)
(* and taken without a token.                                              *)
CountersAreExact == ThreadAccounting /\ PoolFloor /\ ActiveJobsCover

(* The counter of the cache is its length while the pool is in service, so *)
(* the assertion in _fetchOrAllocateJob holds and the limit is respected.  *)
CacheCount ==
  ~_IsShutdownStarted => freeCount = Len(freeList) /\ freeCount <= RecycleLimit

(* While deferred jobs wait on an open pool, the timer is armed or its     *)
(* callback is due: no sequence of insertions, cancellations and callbacks *)
(* leaves an event without anything that will look at it.                  *)
TimerCoverage ==
  timerEventsList # <<>> => timer # Idle \/ timerTask # "idle"

(* No assertion of the task pool fails.                                    *)
NoAssertFails == fault # "assert"

(* A queued job leaves the queue: it is started, or cancelled, or the pool *)
(* is destroyed; only a failed assertion, which halts the system, keeps it *)
(* there.                                                                  *)
QueuedJobRuns ==
  \A j \in Jobs :
    Linked(dispatchQueue, j) ~> ~Linked(dispatchQueue, j) \/ fault # "none"

(* An event whose time has come is dispatched, or its job is cancelled or  *)
(* deferred anew, or it is destroyed with the pool: rearming the timer for *)
(* other jobs never keeps an expired one waiting for ever.                 *)
ExpiredJobDispatched ==
  \A j \in Jobs : LET due == Linked(timerEventsList, j) /\ expiration[j] = 0
                  IN  due ~> ~due

(* Create returns, with a pool or having unwound it, and Destroy returns:  *)
(* every worker they count posts startStopSignal, those that are surplus   *)
(* or in a callback and those started before one that could not be created *)
(* included, unless a failed assertion halts the system.                   *)
OwnerReturns ==
  /\ owner = "creating" ~> owner \in {"open", "gone"} \/ fault # "none"
  /\ owner = "closing" ~> owner \in {"returned", "gone"} \/ fault # "none"

(* What a comment of _tryCancelInternal says of a SCHEDULED job: it is in  *)
(* the dispatch queue.                                                     *)
ScheduledIsQueued ==
  \A j \in live : status[j] = "SCHEDULED" => Linked(dispatchQueue, j)

(* What a comment of IotTaskPool_Destroy says: nobody uses the pool while  *)
(* it is being destroyed, whether by Destroy or by the timer thread.       *)
DestroyIsExclusive == fault # "teardown"

-----------------------------------------------------------------------------
(* The contract of a job *)

JobPlace(j) ==
  IF Linked(dispatchQueue, j) THEN "queued"
  ELSE IF Linked(timerEventsList, j) THEN "deferred"
  ELSE IF status[j] = "COMPLETED" THEN "started" ELSE "out"

Contract == INSTANCE JobContract WITH place <- [j \in Jobs |-> JobPlace(j)]

(* The pool implements JobContract: a job is started from the queue, once  *)
(* per acceptance and one job per step, never after a cancellation, and a  *)
(* started job is not accepted again before it is initialized anew.        *)
ImplementsContract == Contract!Spec
=============================================================================

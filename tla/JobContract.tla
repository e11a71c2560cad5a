---------------------------- MODULE JobContract -----------------------------
(***************************************************************************)
(* What the task pool promises about a single job, without threads, locks, *)
(* semaphores, lists or timers: where an accepted job is, and that it is   *)
(* started once per acceptance, from the queue, and never after it was     *)
(* withdrawn.                                                              *)
(***************************************************************************)
CONSTANT Jobs

VARIABLE place  \* "out", "deferred", "queued" or "started"

Places == {"out", "deferred", "queued", "started"}

Init == place = [j \in Jobs |-> "out"]

(* The job is accepted: from outside, again, or because its time has come. *)
(* A started job must be initialized anew before it is accepted.           *)
Queue(j) ==
  /\ place[j] # "started"
  /\ place' = [place EXCEPT ![j] = "queued"]

Defer(j) ==
  /\ place[j] # "started"
  /\ place' = [place EXCEPT ![j] = "deferred"]

(* One worker starts one job.                                              *)
Start(j) ==
  /\ place[j] = "queued"
  /\ place' = [place EXCEPT ![j] = "started"]

(* The job is cancelled, recycled, destroyed or initialized anew.          *)
Withdraw(j) == place' = [place EXCEPT ![j] = "out"]

(* The pool is destroyed with the jobs it still holds.                     *)
Shutdown ==
  place' = [j \in Jobs |-> IF place[j] \in {"deferred", "queued"} THEN "out" ELSE place[j]]

Next == Shutdown \/ \E j \in Jobs : Queue(j) \/ Defer(j) \/ Start(j) \/ Withdraw(j)

Spec == Init /\ [][Next]_place
=============================================================================

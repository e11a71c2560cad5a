----------------------------- MODULE MCTaskPool -----------------------------
(* Instances of TaskPool for TLC. *)
EXTENDS TaskPoolProperties

(* Threads and the jobs of one kind are interchangeable: their only use is *)
(* as indices.                                                             *)
Symmetry == Permutations(Threads) \cup Permutations(StaticJobs)
              \cup Permutations(RecyclableJobs)
=============================================================================

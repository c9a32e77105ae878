----------------------------- MODULE MCWorkers -----------------------------
(* Workers on small sets of threads and tasks. *)
EXTENDS Workers, TLC

Symmetric == Permutations(Worker) \cup Permutations(Task)
=============================================================================

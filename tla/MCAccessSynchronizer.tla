----------------------- MODULE MCAccessSynchronizer -----------------------
(* The synchroniser with a few coroutines and one client; tags never wrap here. *)
EXTENDS AccessSynchronizerQueue, TLC

Symmetric == Permutations(Task) \cup Permutations(Coroutine)
=============================================================================

------------------------------ MODULE MCPool ------------------------------
(* Pool on a few threads and nodes.  Clients are interchangeable, but only  *)
(* a run without OperationsEnd may use that.                                *)
EXTENDS Pool, TLC

Symmetric == Permutations(Client)
=============================================================================

---------------------------- MODULE MCTickSync ----------------------------
(* TickSync on a few tickers and frames. *)
EXTENDS TickSync, TLC

Symmetric == Permutations(Ticker \ Permanent)
=============================================================================

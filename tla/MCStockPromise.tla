---------------------------- MODULE MCStockPromise ----------------------------
(* Instances of StockPromise for TLC. *)
EXTENDS StockPromise, TLC

Symmetry == Permutations(Requests) \cup Permutations(Units) \cup Permutations(Workers)

=============================================================================

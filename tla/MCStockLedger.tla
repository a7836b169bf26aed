---------------------------- MODULE MCStockLedger ----------------------------
(* StockLedger with two lots in one of two places. *)
EXTENDS StockLedger, TLC

CONSTANTS store, van

TwoPlaces == {store, van}
LotsInStore == [l \in Lots |-> store]
Symmetry == Permutations(Workers)

=============================================================================

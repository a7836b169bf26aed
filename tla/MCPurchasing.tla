----------------------------- MODULE MCPurchasing -----------------------------
(* Purchasing with one unit of each line and an estimate of one per request. *)
EXTENDS Purchasing, TLC

OneEach == [r \in Requests |-> 1]
OneOfEach == [l \in Lines |-> 1]
LineByLine == {{l} : l \in Lines}
Symmetry == Permutations(Workers) \cup Permutations(Vendors) \cup Permutations(Lines)

\* Bound: at most one row is written late.
OneOvertaken == Cardinality(late) <= 1

=============================================================================

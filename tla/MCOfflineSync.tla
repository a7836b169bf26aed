---------------------------- MODULE MCOfflineSync ----------------------------
(* OfflineSync with a handover of a free asset (or a count that finds one more) *)
(* and a return (or a count that finds less).                                   *)
EXTENDS OfflineSync

MCMoves == {[seen |-> 0, target |-> 1], [seen |-> 2, target |-> 0]}

=============================================================================

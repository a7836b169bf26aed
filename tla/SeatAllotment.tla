---------------------------- MODULE SeatAllotment -----------------------------
(***************************************************************************)
(* What a licence promises about its seats, without rows, counters or      *)
(* transactions: a set of holders never larger than the limit, changed by  *)
(* giving, taking and moving seats and by changing the limit.              *)
(***************************************************************************)
EXTENDS Integers, FiniteSets

CONSTANTS Holder, Limits  \* who may hold a seat, and how many seats there may be

VARIABLES holders,  \* who holds a seat
          limit     \* how many seats may be held

allotment == <<holders, limit>>

Init == holders = {} /\ limit \in Limits

\* All the seats asked for are given, or none is.
Give(H) ==
  /\ H \cap holders = {}
  /\ Cardinality(holders) + Cardinality(H) <= limit
  /\ holders' = holders \cup H
  /\ UNCHANGED limit

Take(h) ==
  /\ h \in holders
  /\ holders' = holders \ {h}
  /\ UNCHANGED limit

\* A full licence can still move a seat.
Move(h, k) ==
  /\ h \in holders
  /\ k \notin holders
  /\ holders' = (holders \ {h}) \cup {k}
  /\ UNCHANGED limit

Resize(n) ==
  /\ Cardinality(holders) <= n
  /\ limit' = n
  /\ UNCHANGED holders

Next ==
  \/ \E H \in SUBSET Holder : Give(H)
  \/ \E h \in Holder : Take(h)
  \/ \E h, k \in Holder : Move(h, k)
  \/ \E n \in Limits : Resize(n)

Spec == Init /\ [][Next]_allotment

=============================================================================

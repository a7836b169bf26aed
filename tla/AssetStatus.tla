----------------------------- MODULE AssetStatus ------------------------------
(***************************************************************************)
(* The status of an asset and the moves its state machine allows           *)
(* (packages/domain/src/asset-status.ts, state-machine.ts).                *)
(***************************************************************************)

Moves ==
  [DRAFT        |-> {"REQUESTED", "ORDERED", "RECEIVED", "AVAILABLE", "RETIRED"},
   REQUESTED    |-> {"ORDERED", "RECEIVED", "AVAILABLE", "RETIRED"},
   ORDERED      |-> {"RECEIVED", "RETIRED"},
   RECEIVED     |-> {"AVAILABLE", "IN_STORAGE", "UNDER_REPAIR", "DAMAGED", "RETIRED"},
   AVAILABLE    |-> {"RESERVED", "ASSIGNED", "IN_STORAGE", "IN_TRANSIT", "UNDER_REPAIR", "DAMAGED",
                     "LOST", "STOLEN", "RETIRED", "DISPOSED", "DONATED"},
   RESERVED     |-> {"ASSIGNED", "AVAILABLE", "IN_TRANSIT"},
   ASSIGNED     |-> {"IN_USE", "RETURNED", "IN_TRANSIT", "UNDER_REPAIR", "DAMAGED", "LOST", "STOLEN"},
   IN_USE       |-> {"RETURNED", "IN_TRANSIT", "UNDER_REPAIR", "DAMAGED", "LOST", "STOLEN"},
   IN_STORAGE   |-> {"AVAILABLE", "RESERVED", "ASSIGNED", "IN_TRANSIT", "UNDER_REPAIR", "RETIRED",
                     "DISPOSED", "DONATED"},
   IN_TRANSIT   |-> {"RECEIVED", "AVAILABLE", "ASSIGNED", "IN_STORAGE", "LOST"},
   UNDER_REPAIR |-> {"AVAILABLE", "IN_STORAGE", "ASSIGNED", "DAMAGED", "RETIRED", "DISPOSED"},
   DAMAGED      |-> {"UNDER_REPAIR", "AVAILABLE", "IN_STORAGE", "RETIRED", "DISPOSED", "DONATED"},
   LOST         |-> {"AVAILABLE", "IN_STORAGE", "RETIRED", "DISPOSED"},
   STOLEN       |-> {"AVAILABLE", "IN_STORAGE", "RETIRED", "DISPOSED"},
   RETURNED     |-> {"AVAILABLE", "IN_STORAGE", "UNDER_REPAIR", "DAMAGED", "RETIRED", "DISPOSED"},
   RETIRED      |-> {"DISPOSED", "DONATED"},
   DISPOSED     |-> {},
   DONATED      |-> {}]

AssetStatuses == DOMAIN Moves
Terminal      == {"DISPOSED", "DONATED"}

\* An employee has it.
InCustody == {"ASSIGNED", "IN_USE"}

\* Nobody has it: on its way in, in stock, or gone.
WithoutHolder ==
  {"DRAFT", "REQUESTED", "ORDERED", "RECEIVED", "AVAILABLE", "RESERVED", "IN_STORAGE",
   "RETURNED", "RETIRED", "DISPOSED", "DONATED"}

Assignable == {"AVAILABLE", "RESERVED"}

\* Staying where one is is always allowed.
canTransition(from, to) == from = to \/ to \in Moves[from]

=============================================================================

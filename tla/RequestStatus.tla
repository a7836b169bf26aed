---------------------------- MODULE RequestStatus -----------------------------
(***************************************************************************)
(* The statuses of an asset request and the moves between them that the    *)
(* domain package allows (packages/domain/src/request-status.ts).          *)
(***************************************************************************)

ReviewSteps == {"MANAGER_APPROVAL_PENDING", "HR_REVIEW_PENDING", "IT_REVIEW_PENDING",
                "OFFICE_ADMIN_REVIEW_PENDING", "FINANCE_APPROVAL_PENDING"}

\* A step held by a custom role has no status of its own and shows SUBMITTED.
InApproval == {"SUBMITTED"} \cup ReviewSteps

Fulfilment == {"INVENTORY_RESERVED", "ORDERED", "RECEIVED", "READY_FOR_ASSIGNMENT",
               "ASSIGNED", "COMPLETED"}

Terminal == {"COMPLETED", "REJECTED", "CANCELLED"}

RequestStatuses ==
  {"DRAFT", "APPROVED", "REJECTED", "CANCELLED"} \cup InApproval \cup Fulfilment

Moves ==
  {<<"DRAFT", "SUBMITTED">>, <<"DRAFT", "CANCELLED">>}
    \cup (InApproval \X (ReviewSteps \cup {"APPROVED", "REJECTED", "CANCELLED"}))
    \cup ({"APPROVED"} \X {"INVENTORY_RESERVED", "ORDERED", "READY_FOR_ASSIGNMENT", "CANCELLED"})
    \cup ({"INVENTORY_RESERVED"} \X {"READY_FOR_ASSIGNMENT", "ORDERED", "CANCELLED"})
    \cup ({"ORDERED"} \X {"RECEIVED", "CANCELLED"})
    \cup ({"RECEIVED"} \X {"READY_FOR_ASSIGNMENT", "CANCELLED"})
    \cup ({"READY_FOR_ASSIGNMENT"} \X {"ASSIGNED", "CANCELLED"})
    \cup {<<"ASSIGNED", "COMPLETED">>}

\* Mutant: the table is not consulted.
canTransitionAlways(from, to) == from \in RequestStatuses /\ to \in RequestStatuses

\* Staying where one is always is allowed.
canTransition(from, to) == from = to \/ <<from, to>> \in Moves

=============================================================================

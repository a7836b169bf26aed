-------------------------- MODULE MCRequestApproval ---------------------------
(* Workflows for the checks of RequestApproval. *)
EXTENDS RequestApproval, TLC

\* A manager from an amount of 2, the stock check and the price.
PurchaseKind == <<"APPROVAL", "INVENTORY_CHECK", "COST_ASSESSMENT">>
PurchaseThreshold == <<2, None, None>>
PurchaseReview == <<"MANAGER_APPROVAL_PENDING", "IT_REVIEW_PENDING",
                    "OFFICE_ADMIN_REVIEW_PENDING">>

\* The stock check, Finance from an amount of 2, and a custom role.
StockFirstKind == <<"INVENTORY_CHECK", "APPROVAL", "APPROVAL">>
StockFirstThreshold == <<None, 2, None>>
StockFirstReview == <<"IT_REVIEW_PENDING", "FINANCE_APPROVAL_PENDING", "SUBMITTED">>

\* The stock check and Finance.
ShortKind == <<"INVENTORY_CHECK", "APPROVAL">>
ShortThreshold == <<None, 2>>
ShortReview == <<"IT_REVIEW_PENDING", "FINANCE_APPROVAL_PENDING">>

\* No action names a worker.
Symmetry == Permutations(Workers)

=============================================================================

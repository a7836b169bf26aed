--------------------------- MODULE MCPromotionLoop ----------------------------
(* A workflow for the checks of PromotionLoop: every kind of step, with and
   without a threshold. *)
EXTENDS PromotionLoop

LoopKind == <<"APPROVAL", "COST_ASSESSMENT", "APPROVAL", "INVENTORY_CHECK">>
LoopThreshold == <<None, None, 2, None>>

=============================================================================

---------------------------- MODULE PromotionLoop -----------------------------
(***************************************************************************)
(* The loop of promoteUntilStaffed, one turn per step.  ApprovalChain gives *)
(* its outcome in closed form; here the loop is shown to reach it.         *)
(***************************************************************************)
EXTENDS ApprovalChain

CONSTANTS Prices

ASSUME PricesAssumption == Prices \subseteq Nat

VARIABLES chain,     \* the chain while the loop runs
          given,     \* the chain the loop was given
          known,     \* the amount and the stock answer, read once
          holders,   \* who may decide each step
          chosen     \* the step made pending, 0 for none, None while running

loop == <<chain, given, known, holders, chosen>>

Monies == [amount : Prices \cup {None}, purchase : {"unknown", "yes", "no"}]

LoopTypeOK ==
  /\ chain \in [Steps -> Decisions]
  /\ given \in [Steps -> Decisions]
  /\ known \in Monies
  /\ holders \in [Steps -> StaffKinds]
  /\ chosen \in Steps \cup {0, None}

LoopInit ==
  /\ given \in [Steps -> {"none", "WAITING", "APPROVED"}]
  /\ chain = given
  /\ known \in Monies
  /\ holders \in [Steps -> StaffKinds]
  /\ chosen = None

head == FirstOf(Waiting(chain))

running == chosen = None /\ Waiting(chain) # {}

skip(reason) ==
  /\ chain' = [chain EXCEPT ![head] = reason]
  /\ UNCHANGED <<given, known, holders, chosen>>

\* A price is not asked for where nothing is bought, nor does a threshold apply.
skipForStock ==
  /\ running
  /\ \/ Kind[head] = "COST_ASSESSMENT" /\ known.purchase = "no"
     \/ Threshold[head] # None /\ known.purchase = "no"
  /\ skip("skip:stock")

\* The amount is under the threshold.
skipForCost ==
  /\ running
  /\ Threshold[head] # None /\ known.purchase # "no"
  /\ known.amount # None /\ known.amount < Threshold[head]
  /\ skip("skip:cost")

appliesByCost ==
  /\ ~(Kind[head] = "COST_ASSESSMENT" /\ known.purchase = "no")
  /\ \/ Threshold[head] = None
     \/ known.purchase # "no" /\ (known.amount = None \/ known.amount >= Threshold[head])

\* Mutant: the last waiting step is skipped as well.
skipForStaffAlways ==
  /\ running
  /\ appliesByCost
  /\ holders[head] \notin Found
  /\ skip("skip:staff")

\* Nobody can act on it and another step waits behind it.
skipForStaff ==
  /\ running
  /\ appliesByCost
  /\ holders[head] \notin Found /\ Waiting(chain) # {head}
  /\ skip("skip:staff")

promote ==
  /\ running
  /\ appliesByCost
  /\ holders[head] \in Found \/ Waiting(chain) = {head}
  /\ chain' = [chain EXCEPT ![head] = "PENDING"]
  /\ chosen' = head
  /\ UNCHANGED <<given, known, holders>>

nothingLeft ==
  /\ chosen = None /\ Waiting(chain) = {}
  /\ chosen' = 0
  /\ UNCHANGED <<chain, given, known, holders>>

LoopNext == skipForStock \/ skipForCost \/ skipForStaff \/ promote \/ nothingLeft

LoopSpec == LoopInit /\ [][LoopNext]_loop

\* When the loop ends, the chain and the current step are those of the closed form.
LoopPromotes ==
  chosen # None =>
    chain = Promoted(given, known, holders) /\ chosen = Current(given, known, holders)

=============================================================================

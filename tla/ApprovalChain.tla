---------------------------- MODULE ApprovalChain -----------------------------
(***************************************************************************)
(* The rows of a request's approval chain and the rule that picks the next *)
(* step (promoteUntilStaffed, authorisedAmountFor and costSkipReason in    *)
(* apps/api/src/requests/requests.service.ts).                             *)
(*                                                                         *)
(* A row's value is its decision; a skipped row carries why it was.        *)
(***************************************************************************)
EXTENDS Integers

CONSTANTS N,          \* steps of the workflow the request is submitted to
          Kind,       \* what a step asks for
          Threshold   \* amount from which a step applies, or None

None == -1

Steps == 1..N
Kinds == {"APPROVAL", "INVENTORY_CHECK", "COST_ASSESSMENT"}

ASSUME ChainAssumption ==
  /\ N \in Nat
  /\ Kind \in [Steps -> Kinds]
  /\ Threshold \in [Steps -> Nat \cup {None}]

SkippedAs == {"skip:stock", "skip:cost", "skip:staff", "skip:retired", "skip:ended"}
Decisions == {"none", "WAITING", "PENDING", "APPROVED", "REJECTED"} \cup SkippedAs

\* Whom a step finds, and whether anybody may decide it.  "staffed": the people it
\* finds may.  "vacant": it finds nobody, and somebody may all the same - a user
\* manager for a role without a single holder, a department head, a delegate of
\* a holder who is away.  "absent": it finds a person who cannot act any more.
\* "blocked": it finds nobody, and nobody may - the requester alone holds the
\* role, or its holders are suspended.
StaffKinds == {"staffed", "vacant", "absent", "blocked"}
Found == {"staffed", "absent"}
Able  == {"staffed", "vacant"}

Waiting(row) == {s \in Steps : row[s] = "WAITING"}
Pending(row) == {s \in Steps : row[s] = "PENDING"}
Open(row)    == Waiting(row) \cup Pending(row)

FirstOf(S) == CHOOSE s \in S : \A t \in S : s <= t

\* The amount the thresholds are measured against.
authorisedAmount(a) ==
  [amount   |-> IF a.purchase = "no" THEN None ELSE a.price,
   purchase |-> a.purchase]

filledFromStock(s, money) ==
  money.purchase = "no" /\ (Kind[s] = "COST_ASSESSMENT" \/ Threshold[s] # None)

\* The threshold is inclusive and an unknown amount never skips.
underThreshold(s, money) ==
  /\ Threshold[s] # None
  /\ money.amount # None
  /\ money.amount < Threshold[s]

\* The last waiting step is never skipped for want of staff.
unstaffed(s, row, staff) ==
  staff[s] \notin Found /\ \E t \in Waiting(row) : t > s

skips(s, row, money, staff) ==
  filledFromStock(s, money) \/ underThreshold(s, money) \/ unstaffed(s, row, staff)

skipReason(s, money) ==
  IF filledFromStock(s, money) THEN "skip:stock"
  ELSE IF underThreshold(s, money) THEN "skip:cost"
  ELSE "skip:staff"

\* The waiting steps that stay; the first of them becomes current.
Standing(row, money, staff) == {s \in Waiting(row) : ~skips(s, row, money, staff)}

Current(row, money, staff) ==
  LET keep == Standing(row, money, staff)
  IN  IF keep = {} THEN 0 ELSE FirstOf(keep)

\* Mutant: a step that does not apply is passed over and stays queued.
PromotedUnwritten(row, money, staff) ==
  [s \in Steps |-> IF s = Current(row, money, staff) THEN "PENDING" ELSE row[s]]

\* What promoteUntilStaffed makes of the rows: waiting steps that do not apply
\* are skipped up to the first that does, which becomes pending.
Promoted(row, money, staff) ==
  LET current == Current(row, money, staff)
  IN  [s \in Steps |->
         IF s = current THEN "PENDING"
         ELSE IF s \in Waiting(row) /\ (current = 0 \/ s < current) THEN skipReason(s, money)
         ELSE row[s]]

=============================================================================

--------------------------- MODULE ApprovalPromise ----------------------------
(***************************************************************************)
(* What the approval chain promises: a submitted request is approved when  *)
(* no step is open, the first open step is the one decided, and a closed   *)
(* request stays closed.                                                   *)
(***************************************************************************)
EXTENDS Integers

CONSTANT Steps

VARIABLES phase,  \* draft, review, approved, rejected, cancelled, or astray
          open    \* the steps still to be decided

Before(s) == {t \in open : t < s}

Is(S) ==
  /\ open' = S
  /\ phase' = IF S = {} THEN "approved" ELSE "review"

Init == phase = "draft" /\ open = {}

\* Steps that do not apply are left out.
Submit == phase = "draft" /\ \E S \in SUBSET Steps : Is(S)

\* The first open step is decided, with later ones that do not apply.
Decide ==
  /\ phase = "review"
  /\ \E s \in open, S \in SUBSET open :
       Before(s) = {} /\ s \notin S /\ Is(S)

\* A later step is taken out of the workflow.
Remove ==
  /\ phase = "review"
  /\ \E s \in open : Before(s) # {} /\ Is(open \ {s})

Reject == phase = "review" /\ phase' = "rejected" /\ open' = {}

Cancel == phase \in {"draft", "review", "approved"} /\ phase' = "cancelled" /\ open' = {}

\* A corrected answer makes steps apply after all.
Reopen == phase = "approved" /\ \E S \in SUBSET Steps : Is(S)

\* The request was taken past its chain: nothing is promised any more.
GoAstray == phase' = "astray" /\ open' = {}

Next == Submit \/ Decide \/ Remove \/ Reject \/ Cancel \/ Reopen \/ GoAstray

Spec == Init /\ [][Next]_<<phase, open>>

=============================================================================

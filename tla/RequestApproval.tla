--------------------------- MODULE RequestApproval ----------------------------
(***************************************************************************)
(* One asset request from draft to close: submission, the approval chain,  *)
(* the procurement assessment that answers its stages, fulfilment and      *)
(* cancellation (apps/api/src/requests).                                   *)
(*                                                                         *)
(* A worker is an API call in progress.  A call first reads and decides,   *)
(* then writes; a decision writes its rows in one transaction and the      *)
(* request's status in a later statement.  Between two steps of a call     *)
(* other workers run, and with Faults a process may stop there.            *)
(*                                                                         *)
(* Nothing serialises the calls of a request.  Two history variables       *)
(* record where that mattered: outdated, the calls that write on what they *)
(* read before somebody else wrote, and astray, what befell the request.   *)
(* The properties say what holds until then, and of which of the three the *)
(* code has to keep a request free.                                        *)
(***************************************************************************)
EXTENDS ApprovalChain, RequestStatus

CONSTANTS Workers,     \* API calls that may be in progress together
          ReviewOf,    \* the status a request shows while a step is pending
          Amounts,     \* prices an assessor may enter
          StaffSeen,   \* staffing situations that occur
          Faults       \* processes may stop

ASSUME RequestAssumption ==
  /\ ReviewOf \in [Steps -> InApproval]
  /\ Amounts \subseteq Nat
  /\ StaffSeen \subseteq StaffKinds
  /\ Faults \in BOOLEAN

VARIABLES row,          \* decision of each step of the chain, "none" without a row
          status,       \* AssetRequest.status
          currentStep,  \* AssetRequest.currentStepOrder, 0 for null
          assessment,   \* the procurement assessment; at first the estimate
          workOrder,    \* a work order was raised for the request
          staff,        \* whom each step finds, and who may decide it
          call,         \* what each worker is doing
          outdated,     \* calls after whose reads another call wrote
          astray        \* what befell the request

request == <<row, status, currentStep>>
vars    == <<row, status, currentStep, assessment, workOrder, staff, call, outdated, astray>>

Answers == {"unknown", "yes", "no"}
Assessments == [price : Amounts \cup {None}, purchase : Answers]

\* bypassed: advance moved the request past steps still open, or into approval.
\* overtaken: a call wrote on what it had read before another call wrote.
\* stopped: a process stopped between the writes of a call.
Mishaps == {"bypassed", "overtaken", "stopped"}

\* What a call goes on to after the status is written: an approval ends, a
\* retired step ends, a saved assessment looks for another answered stage.
Causes == {"approved", "retired", "assessed"}

Idle == [pc |-> "idle"]
Calls ==
  {Idle}
    \cup [pc : {"submit", "cancel", "reopen", "complete"}]
    \cup [pc : {"approve", "reject", "stage"}, step : Steps]
    \cup [pc : {"requeue"}, steps : SUBSET Steps]
    \cup [pc : {"advance"}, to : RequestStatuses]
    \cup [pc : {"save"}, before : Answers, new : Assessments]
    \cup [pc : {"settle", "finish"}, cause : Causes]
    \cup [pc : {"publish"}, step : {0} \cup Steps, cause : Causes]

TypeOK ==
  /\ row \in [Steps -> Decisions]
  /\ status \in RequestStatuses
  /\ currentStep \in {0} \cup Steps
  /\ assessment \in Assessments
  /\ workOrder \in BOOLEAN
  /\ staff \in [Steps -> StaffKinds]
  /\ call \in [Workers -> Calls]
  /\ outdated \subseteq {w \in Workers : call[w] # Idle}
  /\ astray \subseteq Mishaps

-----------------------------------------------------------------------------

money == authorisedAmount(assessment)

Goto(w, c) == call' = [call EXCEPT ![w] = c]

\* A step that only reads, or writes nothing that another call decides by.
Reads ==
  /\ outdated' = {v \in outdated : call'[v] # Idle}
  /\ UNCHANGED astray

\* The call reads the request anew.
ReadsAgain(w) ==
  /\ outdated' = {v \in outdated : call'[v] # Idle /\ v # w}
  /\ UNCHANGED astray

\* The call writes the request's rows or status, which outdates every other call.
Writes(w, mishaps) ==
  /\ outdated' = {v \in Workers : call'[v] # Idle /\ (v \in outdated \/ v # w)}
  /\ astray' = astray \cup mishaps \cup {m \in {"overtaken"} : w \in outdated}

Begin(w, c) ==
  /\ call[w] = Idle
  /\ Goto(w, c)
  /\ Reads
  /\ UNCHANGED <<request, assessment, workOrder, staff>>

statusOf(s) == IF s = 0 THEN "APPROVED" ELSE ReviewOf[s]

\* Mutant: closing forgets the queued rows.
closedPendingOnly(rows) == [s \in Steps |-> IF s \in Pending(rows) THEN "skip:ended" ELSE rows[s]]

\* Pending and waiting rows close when the request does.
closed(rows) == [s \in Steps |-> IF s \in Open(rows) THEN "skip:ended" ELSE rows[s]]

Init ==
  /\ row = [s \in Steps |-> "none"]
  /\ status = "DRAFT"
  /\ currentStep = 0
  /\ assessment \in [price : Amounts \cup {None}, purchase : {"unknown"}]
  /\ workOrder = FALSE
  /\ staff \in [Steps -> StaffSeen]
  /\ call = [w \in Workers |-> Idle]
  /\ outdated = {}
  /\ astray = {}

-----------------------------------------------------------------------------
(* What follows a move of the chain *)

after(cause) == IF cause = "assessed" THEN [pc |-> "complete"] ELSE Idle

\* Mutant: the current step is not moved with the status.
publishStatusOnly(w) ==
  /\ call[w].pc = "publish"
  /\ status' = statusOf(call[w].step)
  /\ Goto(w, IF call[w].step = 0 THEN [pc |-> "finish", cause |-> call[w].cause]
              ELSE after(call[w].cause))
  /\ Writes(w, {})
  /\ UNCHANGED <<row, currentStep, assessment, workOrder, staff>>

\* Mutant: the order of the step after the current one is stored.
publishOffByOne(w) ==
  /\ call[w].pc = "publish"
  /\ status' = statusOf(call[w].step)
  /\ currentStep' = call[w].step + 1
  /\ Goto(w, after(call[w].cause))
  /\ Writes(w, {})
  /\ UNCHANGED <<row, assessment, workOrder, staff>>

\* Mutant: every decision is followed by what follows the last one.
publishAndFinish(w) ==
  /\ call[w].pc = "publish"
  /\ status' = statusOf(call[w].step)
  /\ currentStep' = call[w].step
  /\ Goto(w, [pc |-> "finish", cause |-> call[w].cause])
  /\ Writes(w, {})
  /\ UNCHANGED <<row, assessment, workOrder, staff>>

\* The status is written in a statement of its own.
publish(w) ==
  /\ call[w].pc = "publish"
  /\ status' = statusOf(call[w].step)
  /\ currentStep' = call[w].step
  /\ Goto(w, IF call[w].step = 0 THEN [pc |-> "finish", cause |-> call[w].cause]
              ELSE after(call[w].cause))
  /\ Writes(w, {})
  /\ UNCHANGED <<row, assessment, workOrder, staff>>

\* After a finished chain a damage or repair ticket that names an asset gets its
\* work order, unless raising it fails.  Where an answer or a retired step
\* finished the chain, a unit held for it is handed over, unless that fails.
finish(w) ==
  /\ call[w].pc = "finish"
  /\ workOrder' \in {workOrder, TRUE}
  /\ \/ UNCHANGED status
     \/ call[w].cause # "approved" /\ assessment.purchase = "no" /\ status' = "ASSIGNED"
  /\ Goto(w, after(call[w].cause))
  /\ Writes(w, {})
  /\ UNCHANGED <<row, currentStep, assessment, staff>>

\* The status to write is that of the step pending now.
settle(w) ==
  /\ call[w].pc = "settle"
  /\ Goto(w, [pc |-> "publish", cause |-> call[w].cause,
              step |-> IF Pending(row) = {} THEN 0 ELSE FirstOf(Pending(row))])
  /\ Reads
  /\ UNCHANGED <<request, assessment, workOrder, staff>>

-----------------------------------------------------------------------------
(* Submission *)

submitBegin(w) == canTransition(status, "SUBMITTED") /\ Begin(w, [pc |-> "submit"])

\* Every step is queued and the first that applies becomes current.  The unique
\* (request, step) index refuses a second submission.  Without a step that
\* applies, or without steps, the request is approved.
submitCommit(w) ==
  LET queued == [s \in Steps |-> "WAITING"]
      next   == Current(queued, money, staff)
  IN  /\ call[w].pc = "submit"
      /\ \A s \in Steps : row[s] = "none"
      /\ row' = Promoted(queued, money, staff)
      /\ status' = statusOf(next)
      /\ currentStep' = next
      /\ Goto(w, IF next = 0 THEN [pc |-> "finish", cause |-> "approved"] ELSE Idle)
      /\ Writes(w, {})
      /\ UNCHANGED <<assessment, workOrder, staff>>

-----------------------------------------------------------------------------
(* Decisions *)

\* The step decided is the first pending one, by somebody who may; the requester
\* never may.
mayDecide(s) == s \in Pending(row) /\ s = FirstOf(Pending(row)) /\ staff[s] \in Able

approveBegin(w) ==
  \E s \in Steps :
    /\ mayDecide(s)
    /\ Kind[s] = "APPROVAL"
    /\ Begin(w, [pc |-> "approve", step |-> s])

\* Mutant: the decision is not written to the row.
approvedUnwritten(s) == row

\* A step is approved by its id, whatever became of it or of the request.
approved(s) == [row EXCEPT ![s] = "APPROVED"]

approveCommit(w) ==
  LET rows == approved(call[w].step)
  IN  /\ call[w].pc = "approve"
      /\ row' = Promoted(rows, money, staff)
      /\ Goto(w, [pc |-> "publish", cause |-> "approved", step |-> Current(rows, money, staff)])
      /\ Writes(w, {})
      /\ UNCHANGED <<status, currentStep, assessment, workOrder, staff>>

rejectBegin(w) == \E s \in Steps : mayDecide(s) /\ Begin(w, [pc |-> "reject", step |-> s])

rejectCommit(w) ==
  /\ call[w].pc = "reject"
  /\ row' = closed([row EXCEPT ![call[w].step] = "REJECTED"])
  /\ status' = "REJECTED"
  /\ Goto(w, Idle)
  /\ Writes(w, {})
  /\ UNCHANGED <<currentStep, assessment, workOrder, staff>>

-----------------------------------------------------------------------------
(* Fulfilment and cancellation *)

\* Any status is accepted; only the table of moves is asked.
advanceBegin(w) ==
  \E to \in RequestStatuses : canTransition(status, to) /\ Begin(w, [pc |-> "advance", to |-> to])

\* Steps are still open, or the request leaves or enters approval without them.
bypasses(to) == to # status /\ (Open(row) # {} \/ {status, to} \cap InApproval # {})

advanceCommit(w) ==
  /\ call[w].pc = "advance"
  /\ status' = call[w].to
  /\ Goto(w, Idle)
  /\ Writes(w, {m \in {"bypassed"} : bypasses(call[w].to)})
  /\ UNCHANGED <<row, currentStep, assessment, workOrder, staff>>

cancelBegin(w) == canTransition(status, "CANCELLED") /\ Begin(w, [pc |-> "cancel"])

cancelCommit(w) ==
  /\ call[w].pc = "cancel"
  /\ row' = closed(row)
  /\ status' = "CANCELLED"
  /\ Goto(w, Idle)
  /\ Writes(w, {})
  /\ UNCHANGED <<currentStep, assessment, workOrder, staff>>

-----------------------------------------------------------------------------
(* The procurement assessment *)

\* What the recorded answer was is read before the new one is saved.  In between
\* the unit it names is reserved, or the call refused (StockPromise).
assessBegin(w) ==
  /\ status \notin Terminal
  /\ \E new \in Assessments :
       Begin(w, [pc |-> "save", before |-> assessment.purchase, new |-> new])

assessSave(w) ==
  LET corrected == call[w].new.purchase = "yes" /\ call[w].before = "no"
  IN  /\ call[w].pc = "save"
      /\ assessment' = call[w].new
      /\ Goto(w, [pc |-> IF corrected THEN "reopen" ELSE "complete"])
      /\ Reads
      /\ UNCHANGED <<request, workOrder, staff>>

\* Mutant: every automatic skip counts as one for stock.
AnySkip == {s \in Steps : row[s] \in SkippedAs}

FromStock == {s \in Steps : row[s] = "skip:stock"}

\* A corrected stock answer reopens the steps the first answer skipped, while
\* the request is approved and not yet being fulfilled.
reopenBegin(w) ==
  /\ call[w].pc = "reopen"
  /\ Goto(w, IF status = "APPROVED" /\ FromStock # {}
              THEN [pc |-> "requeue", steps |-> FromStock]
              ELSE [pc |-> "complete"])
  /\ ReadsAgain(w)
  /\ UNCHANGED <<request, assessment, workOrder, staff>>

reopenCommit(w) ==
  LET reopened == [s \in Steps |-> IF s \in call[w].steps THEN "WAITING" ELSE row[s]]
  IN  /\ call[w].pc = "requeue"
      /\ row' = Promoted(reopened, money, staff)
      /\ Goto(w, [pc |-> "settle", cause |-> "assessed"])
      /\ Writes(w, {})
      /\ UNCHANGED <<status, currentStep, assessment, workOrder, staff>>

\* Mutant: the stock answer is tested for truth instead of presence.
answeredYes(s) ==
  \/ Kind[s] = "INVENTORY_CHECK" /\ money.purchase = "yes"
  \/ Kind[s] = "COST_ASSESSMENT" /\ (money.amount # None \/ money.purchase = "no")

\* An assessment stage is done when the answer it asks for is recorded.
answered(s) ==
  \/ Kind[s] = "INVENTORY_CHECK" /\ money.purchase # "unknown"
  \/ Kind[s] = "COST_ASSESSMENT" /\ (money.amount # None \/ money.purchase = "no")

AnsweredStage == {s \in Pending(row) : s = FirstOf(Pending(row)) /\ answered(s)}

stageBegin(w) ==
  /\ call[w].pc = "complete"
  /\ Goto(w, IF AnsweredStage = {} THEN Idle
              ELSE [pc |-> "stage", step |-> FirstOf(AnsweredStage)])
  /\ ReadsAgain(w)
  /\ UNCHANGED <<request, assessment, workOrder, staff>>

stageCommit(w) ==
  /\ call[w].pc = "stage"
  /\ row' = Promoted(approved(call[w].step), money, staff)
  /\ Goto(w, [pc |-> "settle", cause |-> "assessed"])
  /\ Writes(w, {})
  /\ UNCHANGED <<status, currentStep, assessment, workOrder, staff>>

-----------------------------------------------------------------------------
(* Workflow settings and staffing *)

\* Switching an approval step off takes it out of requests in approval: a
\* queued copy is deleted, a pending one skipped and the chain moved on.
retireStep(w) ==
  /\ call[w] = Idle
  /\ status \in InApproval
  /\ \E s \in Steps :
       /\ Kind[s] = "APPROVAL"
       /\ \/ /\ s \in Waiting(row)
             /\ row' = [row EXCEPT ![s] = "none"]
             /\ UNCHANGED call
          \/ /\ s \in Pending(row)
             /\ row' = Promoted([row EXCEPT ![s] = "skip:retired"], money, staff)
             /\ Goto(w, [pc |-> "settle", cause |-> "retired"])
  /\ Writes(w, {})
  /\ UNCHANGED <<status, currentStep, assessment, workOrder, staff>>

\* People join and leave roles.
staffMoves ==
  /\ \E s \in Steps, k \in StaffSeen : k # staff[s] /\ staff' = [staff EXCEPT ![s] = k]
  /\ UNCHANGED <<request, assessment, workOrder, call, outdated, astray>>

-----------------------------------------------------------------------------

\* A call that has not written yet is refused, or its transaction rolls back.
refuse(w) ==
  /\ call[w].pc \in {"submit", "approve", "reject", "advance", "cancel", "save"}
  /\ Goto(w, Idle)
  /\ Reads
  /\ UNCHANGED <<request, assessment, workOrder, staff>>

\* The process stops, or a statement fails, after some of a call's writes.
crash(w) ==
  /\ Faults
  /\ call[w].pc \in {"publish", "finish", "settle", "reopen", "requeue", "complete", "stage"}
  /\ Goto(w, Idle)
  /\ outdated' = outdated \ {w}
  /\ astray' = astray \cup {"stopped"}
  /\ UNCHANGED <<request, assessment, workOrder, staff>>

Step(w) ==
  \/ submitBegin(w) \/ submitCommit(w)
  \/ approveBegin(w) \/ approveCommit(w)
  \/ rejectBegin(w) \/ rejectCommit(w)
  \/ advanceBegin(w) \/ advanceCommit(w)
  \/ cancelBegin(w) \/ cancelCommit(w)
  \/ assessBegin(w) \/ assessSave(w)
  \/ reopenBegin(w) \/ reopenCommit(w) \/ stageBegin(w) \/ stageCommit(w)
  \/ settle(w) \/ publish(w) \/ finish(w)
  \/ retireStep(w)
  \/ refuse(w) \/ crash(w)

Next == staffMoves \/ \E w \in Workers : Step(w)

Spec == Init /\ [][Next]_vars

\* The answer recorded by assessment a completes the pending stage.
completes(a) ==
  \E s \in Pending(row) :
    /\ s = FirstOf(Pending(row))
    /\ \/ Kind[s] = "INVENTORY_CHECK" /\ a.purchase # "unknown"
       \/ Kind[s] = "COST_ASSESSMENT" /\ (a.price # None \/ a.purchase = "no")

\* A call that has started writing goes on.  Who may decide keeps coming back,
\* and so does the assessor, with some answer to the stage that waits for one.
Fairness ==
  \A w \in Workers :
    /\ WF_vars(reopenBegin(w) \/ reopenCommit(w) \/ stageBegin(w) \/ stageCommit(w)
                 \/ settle(w) \/ publish(w) \/ finish(w))
    /\ WF_vars(refuse(w))
    /\ SF_vars(approveBegin(w)) /\ SF_vars(approveCommit(w))
    /\ SF_vars(assessBegin(w) /\ completes(call'[w].new))
    /\ SF_vars(assessSave(w) /\ completes(call[w].new))

FairSpec == Spec /\ Fairness

-----------------------------------------------------------------------------
(* Properties *)

AllIdle == \A w \in Workers : call[w] = Idle

\* No step was bypassed and no call wrote on what it had read too early.
InOrder == astray \subseteq {"stopped"}

\* A request never waits on two steps at once: decide, complete, retire and reopen
\* each settle the pending step before the next becomes pending, wherever a
\* process stops.
OnePending == InOrder => \A s, t \in Pending(row) : s = t

\* No step becomes current while an earlier one still waits, wherever a process
\* stops.
InChainOrder == InOrder => \A p \in Pending(row), s \in Waiting(row) : p < s

\* Between calls the status and the current step are those of the pending row,
\* and a request out of review has no open row left.  A bypass, an overtaken
\* call and a process that stopped are the only ways to another state.
StatusFollowsChain ==
  AllIdle /\ astray = {} =>
    IF status \in InApproval
    THEN Pending(row) = {currentStep} /\ status = ReviewOf[currentStep]
    ELSE Open(row) = {}

\* A rejected, cancelled or completed request stays so, wherever a process stops.
\* Only a call that was overtaken, or a step left open by a bypass, moves it on.
TerminalIsFinal == [][(status \in Terminal /\ InOrder') => (status' = status)]_vars

\* A decided row is history: only a stock answer that was corrected is undone,
\* wherever a process stops.
History == {"APPROVED", "REJECTED", "skip:cost", "skip:staff", "skip:retired", "skip:ended"}
DecidedRowsAreHistory ==
  [][InOrder' => (\A s \in Steps : row[s] \in History => row'[s] = row[s])]_vars

\* A work order is raised only for an approved request without an open step.
OrderedWhenApproved ==
  [][(InOrder' /\ workOrder' # workOrder) => (status = "APPROVED" /\ Open(row) = {})]_vars

\* Unless the pending step stays with people none of whom may decide it, a
\* request with a step pending in review is decided at last.
StuckOnNobody == \E s \in Pending(row) : Kind[s] = "APPROVAL" /\ staff[s] \notin Able
EventuallyDecided ==
  <>[]~StuckOnNobody =>
    (status \in InApproval /\ Pending(row) # {} ~> status \notin InApproval)

-----------------------------------------------------------------------------
(* Refinement *)

\* Where a request stands, read from its rows.
phase ==
  IF ~InOrder THEN "astray"
  ELSE IF status = "REJECTED" THEN "rejected"
  ELSE IF status = "CANCELLED" THEN "cancelled"
  ELSE IF status = "DRAFT" THEN "draft"
  ELSE IF Open(row) = {} THEN "approved"
  ELSE "review"

stillOpen == IF InOrder THEN Open(row) ELSE {}

Promise == INSTANCE ApprovalPromise WITH phase <- phase, open <- stillOpen

\* A request keeps the promise of its chain, wherever a process stops, until it is
\* bypassed or one of its calls is overtaken.
ImplementsPromise == Promise!Spec

=============================================================================

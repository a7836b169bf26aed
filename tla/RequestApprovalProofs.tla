------------------------ MODULE RequestApprovalProofs -------------------------
(***************************************************************************)
(* What holds of RequestApproval, and of the loop that promotes a chain,   *)
(* for every workflow.                                                     *)
(***************************************************************************)
EXTENDS RequestApproval, PromotionLoop, NaturalsInduction, WellFoundedInduction, TLAPS

-----------------------------------------------------------------------------
(* What promoteUntilStaffed makes of a chain *)

\* Every non-empty set of steps has a first.
LEMMA FirstExists ==
  ASSUME NEW S \in SUBSET Steps, S # {}
  PROVE  FirstOf(S) \in S /\ \A t \in S : FirstOf(S) <= t
<1>1. S \subseteq Nat
  BY ChainAssumption DEF Steps
<1>2. PICK x \in S : \A y \in S : ~ (<<y, x>> \in OpToRel(<, Nat))
  BY ONLY S # {}, <1>1, NatLessThanWellFounded, WFMin, Zenon
<1>3. \A y \in S : <<y, x>> \in Nat \X Nat
  BY <1>1
<1>4. \A y \in S : ~(y < x)
  BY <1>2, <1>3 DEF OpToRel
<1>5. \A y \in S : x <= y
  BY <1>1, <1>4
<1> QED  BY <1>5 DEF FirstOf

\* The current step is the first waiting one that stays, or there is none.
LEMMA CurrentStands ==
  ASSUME NEW rows \in [Steps -> Decisions], NEW m, NEW k,
         Current(rows, m, k) # 0
  PROVE  /\ Current(rows, m, k) \in Standing(rows, m, k)
         /\ \A t \in Standing(rows, m, k) : Current(rows, m, k) <= t
<1> DEFINE keep == Standing(rows, m, k)
<1>1. keep # {} /\ Current(rows, m, k) = FirstOf(keep)
  BY DEF Current
<1>2. keep \in SUBSET Steps
  BY DEF Standing, Waiting
<1> HIDE DEF keep
<1>3. FirstOf(keep) \in keep /\ \A t \in keep : FirstOf(keep) <= t
  BY <1>1, <1>2, FirstExists
<1> QED  BY <1>1, <1>3 DEF keep

LEMMA CurrentIsWaiting ==
  ASSUME NEW rows \in [Steps -> Decisions], NEW m, NEW k
  PROVE  Current(rows, m, k) \in {0} \cup Waiting(rows)
  BY CurrentStands DEF Standing

LEMMA CurrentIsAStep ==
  ASSUME NEW rows \in [Steps -> Decisions], NEW m, NEW k
  PROVE  Current(rows, m, k) \in {0} \cup Steps
  BY CurrentIsWaiting DEF Waiting

\* A step is a positive number.
LEMMA StepsArePositive == \A s \in Steps : s \in Nat /\ s # 0
  BY ChainAssumption DEF Steps

\* Promotion keeps the types.
LEMMA PromotedType ==
  ASSUME NEW rows \in [Steps -> Decisions], NEW m, NEW k
  PROVE  Promoted(rows, m, k) \in [Steps -> Decisions]
<1>1. \A s \in Steps : skipReason(s, m) \in Decisions
  BY DEF skipReason, Decisions, SkippedAs
<1>2. "PENDING" \in Decisions
  BY DEF Decisions
<1> QED  BY <1>1, <1>2 DEF Promoted

\* Promotion writes waiting rows only.
LEMMA PromotedKeeps ==
  ASSUME NEW rows \in [Steps -> Decisions], NEW m, NEW k, NEW s \in Steps,
         rows[s] # "WAITING"
  PROVE  Promoted(rows, m, k)[s] = rows[s]
<1>1. Current(rows, m, k) # s
  BY CurrentIsWaiting, StepsArePositive DEF Waiting
<1> QED  BY <1>1 DEF Promoted, Waiting

\* Promotion of a chain without a pending step makes the current step the only
\* pending one and leaves only later steps waiting.
LEMMA PromotedChain ==
  ASSUME NEW rows \in [Steps -> Decisions], NEW m, NEW k, Pending(rows) = {}
  PROVE  LET c == Current(rows, m, k)
             p == Promoted(rows, m, k)
         IN  /\ Pending(p) = IF c = 0 THEN {} ELSE {c}
             /\ \A s \in Waiting(p) : c # 0 /\ c < s /\ s \in Waiting(rows)
<1> DEFINE c == Current(rows, m, k)
           p == Promoted(rows, m, k)
<1>1. c \in {0} \cup Waiting(rows)
  BY CurrentIsWaiting
<1>2. \A s \in Steps : skipReason(s, m) \notin {"PENDING", "WAITING"}
  BY DEF skipReason
<1>3. \A s \in Steps : p[s] = IF s = c THEN "PENDING"
                             ELSE IF s \in Waiting(rows) /\ (c = 0 \/ s < c) THEN skipReason(s, m)
                             ELSE rows[s]
  BY DEF Promoted
<1> HIDE DEF c, p
<1>4. \A s \in Steps : p[s] = "PENDING" <=> s = c
  BY <1>2, <1>3 DEF Pending
<1>5. \A s \in Steps : p[s] = "WAITING" => s # c /\ s \in Waiting(rows) /\ c # 0 /\ ~(s < c)
  BY <1>2, <1>3, StepsArePositive DEF Waiting
<1>6. c \in Nat /\ (c # 0 => c \in Steps)
  BY <1>1, StepsArePositive DEF Waiting
<1>7. Pending(p) = IF c = 0 THEN {} ELSE {c}
  BY <1>4, <1>6, StepsArePositive DEF Pending
<1>8. \A s \in Waiting(p) : c # 0 /\ c < s /\ s \in Waiting(rows)
  BY <1>5, <1>6, StepsArePositive DEF Waiting
<1> QED  BY <1>7, <1>8 DEF c, p

-----------------------------------------------------------------------------
(* The loop of promoteUntilStaffed computes its closed form *)

LEMMA LoopTypeStep == ASSUME LoopTypeOK, [LoopNext]_loop PROVE LoopTypeOK'
<1> USE DEF loop
<1>1. ASSUME running PROVE head \in Steps
  BY <1>1, FirstExists DEF running, head, Waiting
<1>2. ASSUME running, NEW d \in Decisions, skip(d) PROVE LoopTypeOK'
  BY <1>1, <1>2 DEF skip, LoopTypeOK
<1>3. CASE skipForStock
  BY <1>2, <1>3 DEF skipForStock, Decisions, SkippedAs
<1>4. CASE skipForCost
  BY <1>2, <1>4 DEF skipForCost, Decisions, SkippedAs
<1>5. CASE skipForStaff
  BY <1>2, <1>5 DEF skipForStaff, Decisions, SkippedAs
<1>6. CASE promote
  <2>1. head \in Steps
    BY <1>1, <1>6 DEF promote
  <2> HIDE DEF head
  <2> QED  BY <1>6, <2>1 DEF promote, LoopTypeOK, Decisions
<1>7. CASE nothingLeft
  BY <1>7 DEF nothingLeft, LoopTypeOK
<1>8. CASE UNCHANGED loop
  BY <1>8 DEF LoopTypeOK
<1> QED  BY <1>3, <1>4, <1>5, <1>6, <1>7, <1>8 DEF LoopNext

\* While the loop runs, the rows it has left behind are skipped for the reason
\* the closed form gives and lie before those that still wait.
Behind == Waiting(given) \ Waiting(chain)

LoopInv ==
  chosen = None =>
    /\ \A s \in Steps \ Behind : chain[s] = given[s]
    /\ \A s \in Behind : skips(s, given, known, holders) /\ chain[s] = skipReason(s, known)
    /\ \A s \in Behind, t \in Waiting(chain) : s < t

\* The first waiting row, when there is one.
LEMMA NextIsFirst ==
  ASSUME running
  PROVE  head \in Waiting(chain) /\ \A t \in Waiting(chain) : head <= t
<1>1. Waiting(chain) \in SUBSET Steps
  BY DEF Waiting
<1> QED  BY <1>1, FirstExists DEF running, head

\* What waits now waited at the start.
LEMMA StillWaiting ==
  ASSUME LoopTypeOK, LoopInv, chosen = None
  PROVE  Waiting(chain) \subseteq Waiting(given) /\ Waiting(given) = Behind \cup Waiting(chain)
<1>1. ASSUME NEW s \in Waiting(chain) PROVE s \in Waiting(given)
  BY DEF LoopInv, Behind, Waiting
<1> QED  BY <1>1 DEF Behind

LEMMA SkipKeepsInv ==
  ASSUME LoopTypeOK, LoopInv, running, skip(skipReason(head, known)),
         skips(head, given, known, holders)
  PROVE  LoopInv'
<1> DEFINE n == head
<1>1. n \in Waiting(chain) /\ \A t \in Waiting(chain) : n <= t
  BY NextIsFirst
<1>2. chosen = None /\ chosen' = None /\ UNCHANGED <<given, known, holders>>
  BY DEF running, skip
<1>3. chain' = [chain EXCEPT ![n] = skipReason(n, known)]
  BY DEF skip
<1>4. skips(n, given, known, holders)
  OBVIOUS
<1> HIDE DEF n
<1>5. n \in Steps /\ n \in Waiting(given)
  BY <1>1, <1>2, StillWaiting DEF Waiting
<1>6. skipReason(n, known) # "WAITING"
  BY DEF skipReason
<1>7. Waiting(chain') = Waiting(chain) \ {n}
  BY <1>3, <1>5, <1>6 DEF Waiting, LoopTypeOK
<1>8. Behind' = Behind \cup {n}
  BY <1>2, <1>5, <1>7, StillWaiting DEF Behind
<1>9. \A s \in Steps \ Behind' : chain'[s] = given'[s]
  BY <1>2, <1>3, <1>5, <1>8 DEF LoopInv, LoopTypeOK
<1>10. ASSUME NEW s \in Behind'
       PROVE  skips(s, given, known, holders) /\ chain'[s] = skipReason(s, known)
  <2>1. CASE s = n
    BY <1>3, <1>4, <1>5, <2>1 DEF LoopTypeOK
  <2>2. CASE s # n
    BY <1>2, <1>3, <1>8, <2>2 DEF LoopInv, LoopTypeOK, Behind, Waiting
  <2> QED  BY <2>1, <2>2
<1>11. ASSUME NEW s \in Behind', NEW t \in Waiting(chain') PROVE s < t
  <2>1. CASE s = n
    BY <1>1, <1>5, <1>7, <2>1, StepsArePositive DEF Waiting
  <2>2. CASE s # n
    BY <1>2, <1>7, <1>8, <2>2 DEF LoopInv
  <2> QED  BY <2>1, <2>2
<1> QED  BY <1>2, <1>9, <1>10, <1>11 DEF LoopInv, skips, filledFromStock, underThreshold, unstaffed, skipReason

\* When a row is promoted the loop has reached the closed form.
LEMMA PromoteIsClosedForm ==
  ASSUME LoopTypeOK, LoopInv, promote
  PROVE  chain' = Promoted(given, known, holders) /\ chosen' = Current(given, known, holders)
<1> DEFINE n == head
           keep == Standing(given, known, holders)
<1>1. n \in Waiting(chain) /\ \A t \in Waiting(chain) : n <= t
  BY NextIsFirst DEF promote
<1>2. chosen = None /\ chosen' = n /\ chain' = [chain EXCEPT ![n] = "PENDING"]
  BY DEF promote, running
<1>3. appliesByCost /\ (holders[n] \in Found \/ Waiting(chain) = {n})
  BY DEF promote
<1>4. ~filledFromStock(n, known) /\ ~underThreshold(n, known)
  <2>1. n \in Steps
    BY <1>1 DEF Waiting
  <2>2. Threshold[n] = None \/ Threshold[n] \in Nat
    BY <2>1, ChainAssumption
  <2>3. known.amount \in Nat \cup {None}
    BY PricesAssumption DEF LoopTypeOK, Monies
  <2>4. ~filledFromStock(n, known)
    BY <1>3 DEF appliesByCost, filledFromStock
  <2>5. ~underThreshold(n, known)
    <3>1. CASE Threshold[n] = None \/ known.amount = None
      BY <3>1 DEF underThreshold
    <3>2. CASE Threshold[n] # None /\ known.amount # None
      <4>1. known.amount >= Threshold[n]
        BY <1>3, <3>2 DEF appliesByCost
      <4>2. known.amount \in Nat /\ Threshold[n] \in Nat
        BY <2>2, <2>3, <3>2
      <4> QED  BY <4>1, <4>2 DEF underThreshold
    <3> QED  BY <3>1, <3>2
  <2> QED  BY <2>4, <2>5
<1> HIDE DEF n
<1>5. n \in Steps /\ n \in Waiting(given)
  BY <1>1, <1>2, StillWaiting DEF Waiting
<1>6. ~unstaffed(n, given, holders)
  <2>1. CASE holders[n] \in Found
    BY <2>1 DEF unstaffed
  <2>2. CASE Waiting(chain) = {n}
    <3>1. \A t \in Waiting(given) : t = n \/ t < n
      BY <1>2, <2>2, StillWaiting DEF LoopInv
    <3>2. \A t \in Waiting(given) : ~(t > n)
      BY <1>5, <3>1, StepsArePositive DEF Waiting
    <3> QED  BY <3>2 DEF unstaffed
  <2> QED  BY <1>3, <2>1, <2>2
<1>7. n \in keep
  BY <1>4, <1>5, <1>6 DEF Standing, skips
<1>8. \A t \in keep : n <= t
  <2>1. \A t \in keep : t \in Waiting(chain)
    BY <1>2, StillWaiting DEF Standing, LoopInv
  <2> QED  BY <1>1, <2>1
<1>9. Current(given, known, holders) = n
  <2>1. keep \in SUBSET Steps /\ keep # {}
    BY <1>7 DEF Standing, Waiting
  <2>2. Current(given, known, holders) = FirstOf(keep)
    BY <2>1 DEF Current
  <2> HIDE DEF keep
  <2>3. FirstOf(keep) \in keep /\ \A t \in keep : FirstOf(keep) <= t
    BY <2>1, FirstExists
  <2> QED  BY <1>5, <1>7, <1>8, <2>1, <2>2, <2>3, StepsArePositive
<1>10. \A s \in Steps : chain'[s] = Promoted(given, known, holders)[s]
  <2> TAKE s \in Steps
  <2>1. Promoted(given, known, holders)[s] =
          IF s = n THEN "PENDING"
          ELSE IF s \in Waiting(given) /\ s < n THEN skipReason(s, known)
          ELSE given[s]
    BY <1>5, <1>9, StepsArePositive DEF Promoted
  <2>2. CASE s = n
    BY <1>2, <2>1, <2>2 DEF LoopTypeOK
  <2>3. CASE s # n /\ s \in Behind
    BY <1>1, <1>2, <2>1, <2>3 DEF LoopInv, LoopTypeOK, Behind
  <2>4. CASE s # n /\ s \notin Behind
    <3>1. s \in Waiting(given) => ~(s < n)
      BY <1>1, <1>2, <1>5, <2>4, StillWaiting, StepsArePositive DEF Waiting
    <3> QED  BY <1>2, <2>1, <2>4, <3>1 DEF LoopInv, LoopTypeOK
  <2> QED  BY <2>2, <2>3, <2>4
<1>11. chain' = Promoted(given, known, holders)
  BY <1>2, <1>10 DEF LoopTypeOK, Promoted
<1> QED  BY <1>2, <1>9, <1>11

LEMMA NothingLeftIsClosedForm ==
  ASSUME LoopTypeOK, LoopInv, nothingLeft
  PROVE  chain' = Promoted(given, known, holders) /\ chosen' = Current(given, known, holders)
<1>1. chosen = None /\ Waiting(chain) = {} /\ chosen' = 0 /\ chain' = chain
  BY DEF nothingLeft
<1>2. Standing(given, known, holders) = {}
  BY <1>1, StillWaiting DEF Standing, LoopInv
<1>3. Current(given, known, holders) = 0
  BY <1>2 DEF Current
<1>4. \A s \in Steps : chain[s] = Promoted(given, known, holders)[s]
  BY <1>1, <1>3, StillWaiting, StepsArePositive DEF Promoted, LoopInv
<1>5. chain = Promoted(given, known, holders)
  BY <1>4 DEF LoopTypeOK, Promoted
<1> QED  BY <1>1, <1>3, <1>5

LEMMA LoopStep ==
  ASSUME LoopTypeOK, LoopInv, LoopPromotes, [LoopNext]_loop
  PROVE  LoopInv' /\ LoopPromotes'
<1> USE DEF loop
<1>1. ASSUME running, NEW r, r = skipReason(head, known), skip(r), skips(head, given, known, holders)
      PROVE  LoopInv' /\ LoopPromotes'
  <2>1. LoopInv'
    BY <1>1, SkipKeepsInv
  <2> QED  BY <1>1, <2>1 DEF LoopPromotes, running, skip
<1>2. CASE skipForStock
  <2>1. filledFromStock(head, known)
    BY <1>2 DEF skipForStock, filledFromStock
  <2> QED  BY <1>1, <1>2, <2>1 DEF skipForStock, skips, skipReason
<1>3. CASE skipForCost
  <2>1. underThreshold(head, known) /\ ~filledFromStock(head, known)
    BY <1>3 DEF skipForCost, underThreshold, filledFromStock
  <2> QED  BY <1>1, <1>3, <2>1 DEF skipForCost, skips, skipReason
<1>4. ASSUME appliesByCost, running
      PROVE  ~filledFromStock(head, known) /\ ~underThreshold(head, known)
  <2>1. head \in Steps
    BY <1>4, NextIsFirst DEF Waiting
  <2>2. Threshold[head] = None \/ Threshold[head] \in Nat
    BY <2>1, ChainAssumption
  <2>3. known.amount = None \/ known.amount \in Nat
    BY PricesAssumption DEF LoopTypeOK, Monies
  <2> HIDE DEF head
  <2>4. ~filledFromStock(head, known)
    BY <1>4 DEF appliesByCost, filledFromStock
  <2>5. ~underThreshold(head, known)
    BY <1>4, <2>2, <2>3 DEF appliesByCost, underThreshold
  <2> QED  BY <2>4, <2>5
<1>5. CASE skipForStaff
  <2>1. head \in Waiting(chain) /\ \A t \in Waiting(chain) : head <= t
    BY <1>5, NextIsFirst DEF skipForStaff
  <2>2. chosen = None /\ holders[head] \notin Found /\ Waiting(chain) # {head}
    BY <1>5 DEF skipForStaff, running
  <2> HIDE DEF head
  <2>3. PICK t \in Waiting(chain) : t # head
    BY <2>1, <2>2
  <2>4. t \in Waiting(given) /\ t > head
    BY <2>1, <2>2, <2>3, StillWaiting, StepsArePositive DEF Waiting
  <2>5. unstaffed(head, given, holders)
    BY <2>2, <2>4 DEF unstaffed
  <2> QED  BY <1>1, <1>4, <1>5, <2>5 DEF skipForStaff, skips, skipReason
<1>6. CASE promote
  <2>1. chosen' # None
    BY <1>6, NextIsFirst, StepsArePositive DEF promote, None, Waiting
  <2> QED
    BY <1>6, <2>1, PromoteIsClosedForm DEF promote, LoopInv, LoopPromotes, Promoted, Current
<1>7. CASE nothingLeft
  <2>1. chosen' # None
    BY <1>7 DEF nothingLeft, None
  <2> QED  BY <1>7, <2>1, NothingLeftIsClosedForm DEF nothingLeft, LoopInv, LoopPromotes
<1>8. CASE UNCHANGED loop
  BY <1>8 DEF LoopInv, LoopPromotes, Behind, Waiting
<1> QED  BY <1>2, <1>3, <1>5, <1>6, <1>7, <1>8 DEF LoopNext

\* When the loop ends, the chain and the current step are those of the closed
\* form by which RequestApproval moves a chain.
THEOREM LoopComputesPromotion == LoopSpec => []LoopPromotes
<1>1. LoopInit => LoopTypeOK /\ LoopInv /\ LoopPromotes
  BY DEF LoopInit, LoopTypeOK, LoopInv, LoopPromotes, Behind, Decisions
<1>2. LoopTypeOK /\ LoopInv /\ LoopPromotes /\ [LoopNext]_loop =>
        LoopTypeOK' /\ LoopInv' /\ LoopPromotes'
  BY LoopTypeStep, LoopStep
<1> QED  BY <1>1, <1>2, PTL DEF LoopSpec

-----------------------------------------------------------------------------
(* Types *)

\* A call in flight carries the arguments of its kind.
LEMMA CallArguments ==
  ASSUME TypeOK, NEW w \in Workers
  PROVE  /\ call[w].pc \in {"approve", "reject", "stage"} => call[w].step \in Steps
         /\ call[w].pc = "publish" => call[w].step \in {0} \cup Steps /\ call[w].cause \in Causes
         /\ call[w].pc \in {"settle", "finish"} => call[w].cause \in Causes
         /\ call[w].pc = "requeue" => call[w].steps \in SUBSET Steps
         /\ call[w].pc = "advance" => call[w].to \in RequestStatuses
         /\ call[w].pc = "save" => call[w].before \in Answers /\ call[w].new \in Assessments
  BY DEF TypeOK, Calls, Idle

\* The records a call moves to are calls.
LEMMA CallRecords ==
  /\ Idle \in Calls
  /\ \A p \in {"submit", "cancel", "reopen", "complete"} : [pc |-> p] \in Calls
  /\ \A p \in {"approve", "reject", "stage"}, s \in Steps : [pc |-> p, step |-> s] \in Calls
  /\ \A S \in SUBSET Steps : [pc |-> "requeue", steps |-> S] \in Calls
  /\ \A to \in RequestStatuses : [pc |-> "advance", to |-> to] \in Calls
  /\ \A a \in Answers, b \in Assessments : [pc |-> "save", before |-> a, new |-> b] \in Calls
  /\ \A p \in {"settle", "finish"}, x \in Causes : [pc |-> p, cause |-> x] \in Calls
  /\ \A x \in Causes, s \in {0} \cup Steps : [pc |-> "publish", step |-> s, cause |-> x] \in Calls
  BY DEF Calls

LEMMA AfterIsACall == \A x \in Causes : after(x) \in Calls
  BY CallRecords DEF after

LEMMA StatusesAreTyped ==
  /\ InApproval \subseteq RequestStatuses
  /\ \A s \in {0} \cup Steps : statusOf(s) \in RequestStatuses
  /\ {"APPROVED", "ASSIGNED", "REJECTED", "CANCELLED", "DRAFT"} \subseteq RequestStatuses
  BY RequestAssumption DEF RequestStatuses, InApproval, Fulfilment, statusOf

\* What a step records of the calls it outdates, and of the request.
Recorded(w) ==
  \/ Reads
  \/ ReadsAgain(w)
  \/ Writes(w, {})
  \/ Writes(w, {"bypassed"})
  \/ outdated' = outdated \ {w} /\ astray' = astray \cup {"stopped"} /\ Goto(w, Idle)

LEMMA StepRecords ==
  ASSUME NEW w \in Workers, Step(w)
  PROVE  Recorded(w)
<1>1. advanceCommit(w) => Recorded(w)
  <2>1. {m \in {"bypassed"} : bypasses(call[w].to)} \in {{}, {"bypassed"}}
    OBVIOUS
  <2> QED  BY <2>1 DEF advanceCommit, Recorded
<1> QED
  BY <1>1
     DEF Step, Recorded, Begin, submitBegin, submitCommit, approveBegin, approveCommit, publish,
         rejectBegin, rejectCommit, advanceBegin, cancelBegin, cancelCommit, assessBegin,
         assessSave, reopenBegin, reopenCommit, stageBegin, stageCommit, settle, finish,
         retireStep, refuse, crash

\* The history variables keep their types, and nothing that befell is forgotten.
LEMMA HistoryStep ==
  ASSUME TypeOK, [Next]_vars
  PROVE  /\ outdated' \subseteq {w \in Workers : call'[w] # Idle}
         /\ astray' \subseteq Mishaps
         /\ astray \subseteq astray'
<1>1. outdated \subseteq Workers /\ astray \subseteq Mishaps
      /\ \A v \in outdated : call[v] # Idle
  BY DEF TypeOK
<1>2. ASSUME NEW w \in Workers, Step(w)
      PROVE  /\ outdated' \subseteq {v \in Workers : call'[v] # Idle}
             /\ astray' \subseteq Mishaps
             /\ astray \subseteq astray'
  <2>1. Recorded(w)
    BY <1>2, StepRecords
  <2>2. CASE Reads \/ ReadsAgain(w)
    BY <1>1, <2>2 DEF Reads, ReadsAgain
  <2>3. CASE Writes(w, {}) \/ Writes(w, {"bypassed"})
    BY <1>1, <2>3 DEF Writes, Mishaps
  <2>4. CASE /\ outdated' = outdated \ {w}
             /\ astray' = astray \cup {"stopped"}
             /\ Goto(w, Idle)
    BY <1>1, <2>4 DEF Goto, TypeOK, Mishaps
  <2> QED  BY <2>1, <2>2, <2>3, <2>4 DEF Recorded
<1>3. CASE staffMoves
  BY <1>1, <1>3 DEF staffMoves
<1>4. CASE UNCHANGED vars
  BY <1>1, <1>4 DEF vars
<1> QED  BY <1>2, <1>3, <1>4 DEF Next

PlainTypes ==
  /\ row \in [Steps -> Decisions]
  /\ status \in RequestStatuses
  /\ currentStep \in {0} \cup Steps
  /\ assessment \in Assessments
  /\ workOrder \in BOOLEAN
  /\ staff \in [Steps -> StaffKinds]
  /\ call \in [Workers -> Calls]

\* Every step keeps the types.
LEMMA PlainTypeStep == ASSUME TypeOK, [Next]_vars PROVE PlainTypes'
<1> USE DEF request, vars
<1>0. ASSUME NEW w \in Workers, NEW c \in Calls, Begin(w, c) PROVE PlainTypes'
  BY <1>0 DEF Begin, Goto, TypeOK, PlainTypes
<1>1. ASSUME NEW w \in Workers, NEW c \in Calls, Goto(w, c) PROVE call' \in [Workers -> Calls]
  BY <1>1 DEF Goto, TypeOK, PlainTypes
<1>2. ASSUME NEW w \in Workers, submitBegin(w) PROVE PlainTypes'
  BY <1>0, <1>2, CallRecords DEF submitBegin
<1>3. ASSUME NEW w \in Workers, submitCommit(w) PROVE PlainTypes'
  <2> DEFINE queued == [s \in Steps |-> "WAITING"]
             next   == Current(queued, money, staff)
  <2>1. queued \in [Steps -> Decisions]
    BY DEF Decisions
  <2>2. next \in {0} \cup Steps
    BY <2>1, CurrentIsAStep
  <2>3. row' \in [Steps -> Decisions]
    BY <1>3, <2>1, PromotedType DEF submitCommit
  <2>4. status' \in RequestStatuses /\ currentStep' \in {0} \cup Steps
    BY <1>3, <2>2, StatusesAreTyped DEF submitCommit
  <2>5. call' \in [Workers -> Calls]
    <3>1. "approved" \in Causes
      BY DEF Causes
    <3> QED  BY <1>1, <1>3, <3>1, CallRecords DEF submitCommit
  <2> QED  BY <1>3, <2>3, <2>4, <2>5 DEF submitCommit, TypeOK, PlainTypes
<1>4. ASSUME NEW w \in Workers, approveBegin(w) PROVE PlainTypes'
  BY <1>0, <1>4, CallRecords DEF approveBegin
<1>5. ASSUME NEW w \in Workers, approveCommit(w) PROVE PlainTypes'
  <2> DEFINE rows == approved(call[w].step)
  <2>1. rows \in [Steps -> Decisions]
    BY DEF TypeOK, PlainTypes, approved, Decisions
  <2>2. Current(rows, money, staff) \in {0} \cup Steps
    BY <2>1, CurrentIsAStep
  <2>3. row' \in [Steps -> Decisions]
    BY <1>5, <2>1, PromotedType DEF approveCommit
  <2>4. call' \in [Workers -> Calls]
    <3>1. "approved" \in Causes
      BY DEF Causes
    <3>2. [pc |-> "publish", cause |-> "approved", step |-> Current(rows, money, staff)] \in Calls
      BY <2>2, <3>1, CallRecords
    <3> QED  BY <1>1, <1>5, <3>2 DEF approveCommit
  <2> QED  BY <1>5, <2>3, <2>4 DEF approveCommit, TypeOK, PlainTypes
<1>6. ASSUME NEW w \in Workers, publish(w) PROVE PlainTypes'
  <2>1. call[w].step \in {0} \cup Steps /\ call[w].cause \in Causes
    BY <1>6, CallArguments DEF publish
  <2>2. call' \in [Workers -> Calls]
    BY <1>1, <1>6, <2>1, CallRecords, AfterIsACall DEF publish
  <2> QED  BY <1>6, <2>1, <2>2, StatusesAreTyped DEF publish, TypeOK, PlainTypes
<1>7. ASSUME NEW w \in Workers, finish(w) PROVE PlainTypes'
  <2>1. call' \in [Workers -> Calls]
    BY <1>1, <1>7, CallArguments, AfterIsACall DEF finish
  <2>2. status' \in RequestStatuses /\ workOrder' \in BOOLEAN
    BY <1>7, StatusesAreTyped DEF finish, TypeOK, PlainTypes
  <2> QED  BY <1>7, <2>1, <2>2 DEF finish, TypeOK, PlainTypes
<1>8. ASSUME NEW w \in Workers, settle(w) PROVE PlainTypes'
  <2>1. Pending(row) # {} => FirstOf(Pending(row)) \in Steps
    BY FirstExists DEF Pending
  <2>2. call' \in [Workers -> Calls]
    BY <1>1, <1>8, <2>1, CallArguments, CallRecords DEF settle
  <2> QED  BY <1>8, <2>2 DEF settle, TypeOK, PlainTypes
<1>9. ASSUME NEW w \in Workers, rejectBegin(w) PROVE PlainTypes'
  BY <1>0, <1>9, CallRecords DEF rejectBegin
<1>10. ASSUME NEW w \in Workers, rejectCommit(w) PROVE PlainTypes'
  BY <1>1, <1>10, CallRecords, StatusesAreTyped DEF rejectCommit, closed, TypeOK, PlainTypes, Decisions, SkippedAs
<1>11. ASSUME NEW w \in Workers, advanceBegin(w) PROVE PlainTypes'
  BY <1>0, <1>11, CallRecords, RequestAssumption DEF advanceBegin
<1>12. ASSUME NEW w \in Workers, advanceCommit(w) PROVE PlainTypes'
  BY <1>1, <1>12, CallArguments, CallRecords DEF advanceCommit, TypeOK, PlainTypes
<1>13. ASSUME NEW w \in Workers, cancelBegin(w) PROVE PlainTypes'
  BY <1>0, <1>13, CallRecords DEF cancelBegin
<1>14. ASSUME NEW w \in Workers, cancelCommit(w) PROVE PlainTypes'
  BY <1>1, <1>14, CallRecords, StatusesAreTyped DEF cancelCommit, closed, TypeOK, PlainTypes, Decisions, SkippedAs
<1>15. ASSUME NEW w \in Workers, assessBegin(w) PROVE PlainTypes'
  <2>1. PICK new \in Assessments :
          Begin(w, [pc |-> "save", before |-> assessment.purchase, new |-> new])
    BY <1>15 DEF assessBegin
  <2>2. assessment.purchase \in Answers
    BY DEF TypeOK, Assessments
  <2> QED  BY <1>0, <2>1, <2>2, CallRecords
<1>17. ASSUME NEW w \in Workers, assessSave(w) PROVE PlainTypes'
  BY <1>1, <1>17, CallArguments, CallRecords DEF assessSave, TypeOK, PlainTypes
<1>18. ASSUME NEW w \in Workers, reopenBegin(w) PROVE PlainTypes'
  <2>1. FromStock \in SUBSET Steps
    BY DEF FromStock
  <2> QED  BY <1>1, <1>18, <2>1, CallRecords DEF reopenBegin, TypeOK, PlainTypes
<1>19. ASSUME NEW w \in Workers, reopenCommit(w) PROVE PlainTypes'
  <2>1. [s \in Steps |-> IF s \in call[w].steps THEN "WAITING" ELSE row[s]] \in [Steps -> Decisions]
    BY DEF TypeOK, PlainTypes, Decisions
  <2>2. row' \in [Steps -> Decisions]
    BY <1>19, <2>1, PromotedType DEF reopenCommit
  <2>3. "assessed" \in Causes
    BY DEF Causes
  <2>4. call' \in [Workers -> Calls]
    BY <1>1, <1>19, <2>3, CallRecords DEF reopenCommit
  <2> QED  BY <1>19, <2>2, <2>4 DEF reopenCommit, TypeOK, PlainTypes
<1>20. ASSUME NEW w \in Workers, stageBegin(w) PROVE PlainTypes'
  <2>1. AnsweredStage # {} => FirstOf(AnsweredStage) \in Steps
    BY FirstExists DEF AnsweredStage, Pending
  <2> QED  BY <1>1, <1>20, <2>1, CallRecords DEF stageBegin, TypeOK, PlainTypes
<1>21. ASSUME NEW w \in Workers, stageCommit(w) PROVE PlainTypes'
  <2>1. approved(call[w].step) \in [Steps -> Decisions]
    BY DEF TypeOK, PlainTypes, approved, Decisions
  <2>2. row' \in [Steps -> Decisions]
    BY <1>21, <2>1, PromotedType DEF stageCommit
  <2>3. "assessed" \in Causes
    BY DEF Causes
  <2>4. call' \in [Workers -> Calls]
    BY <1>1, <1>21, <2>3, CallRecords DEF stageCommit
  <2> QED  BY <1>21, <2>2, <2>4 DEF stageCommit, TypeOK, PlainTypes
<1>22. ASSUME NEW w \in Workers, retireStep(w) PROVE PlainTypes'
  <2>1. PICK s \in Steps :
          \/ row' = [row EXCEPT ![s] = "none"] /\ UNCHANGED call
          \/ /\ row' = Promoted([row EXCEPT ![s] = "skip:retired"], money, staff)
             /\ Goto(w, [pc |-> "settle", cause |-> "retired"])
    BY <1>22 DEF retireStep
  <2>2. [row EXCEPT ![s] = "skip:retired"] \in [Steps -> Decisions]
    BY DEF TypeOK, PlainTypes, Decisions, SkippedAs
  <2>3. row' \in [Steps -> Decisions]
    <3>1. [row EXCEPT ![s] = "none"] \in [Steps -> Decisions]
      BY DEF TypeOK, PlainTypes, Decisions
    <3>2. Promoted([row EXCEPT ![s] = "skip:retired"], money, staff) \in [Steps -> Decisions]
      BY <2>2, PromotedType
    <3> QED  BY <2>1, <3>1, <3>2
  <2>4. call' \in [Workers -> Calls]
    <3>1. "retired" \in Causes
      BY DEF Causes
    <3> QED  BY <1>1, <2>1, <3>1, CallRecords DEF TypeOK, PlainTypes
  <2> QED  BY <1>22, <2>3, <2>4 DEF retireStep, TypeOK, PlainTypes
<1>23. ASSUME NEW w \in Workers, refuse(w) PROVE PlainTypes'
  BY <1>1, <1>23, CallRecords DEF refuse, TypeOK, PlainTypes
<1>24. ASSUME NEW w \in Workers, crash(w) PROVE PlainTypes'
  BY <1>1, <1>24, CallRecords DEF crash, TypeOK, PlainTypes
<1>25. ASSUME staffMoves PROVE PlainTypes'
  BY <1>25, RequestAssumption DEF staffMoves, TypeOK, PlainTypes
<1>26. CASE UNCHANGED vars
  BY <1>26 DEF TypeOK, PlainTypes
<1> QED
  BY <1>2, <1>3, <1>4, <1>5, <1>6, <1>7, <1>8, <1>9, <1>10, <1>11, <1>12, <1>13, <1>14, <1>15,
     <1>17, <1>18, <1>19, <1>20, <1>21, <1>22, <1>23, <1>24, <1>25, <1>26 DEF Next, Step

LEMMA TypeStep == ASSUME TypeOK, [Next]_vars PROVE TypeOK'
  BY HistoryStep, PlainTypeStep DEF TypeOK, PlainTypes

\* The variables keep their types, whatever overlaps and whatever fails.
THEOREM RequestTypeCorrect == Spec => []TypeOK
<1>1. Init => TypeOK
  BY RequestAssumption, CallRecords, StatusesAreTyped
     DEF Init, TypeOK, Assessments, Answers, Decisions
<1> QED  BY <1>1, TypeStep, PTL DEF Spec

-----------------------------------------------------------------------------
(* The chain, whatever calls overlap and wherever a process stops *)

\* The rows of a chain in progress: one pending row, queued rows behind it.
Shape(rows) ==
  /\ \A s, t \in Pending(rows) : s = t
  /\ \A p \in Pending(rows), s \in Waiting(rows) : p < s
  /\ Pending(rows) = {} => Waiting(rows) = {}

\* The steps that an answer "from stock" skips, and those a chain has skipped so.
ByStock == {s \in Steps : Kind[s] = "COST_ASSESSMENT" \/ Threshold[s] # None}
StockSkips(rows) == {s \in Steps : rows[s] = "skip:stock"}

\* What a call may rely on that is not outdated, whatever stopped before it.
Relies(c) ==
  /\ c.pc \in {"approve", "reject", "stage"} => row[c.step] = "PENDING"
  /\ c.pc = "submit" => canTransition(status, "SUBMITTED")
  /\ c.pc = "cancel" => canTransition(status, "CANCELLED")
  /\ c.pc = "advance" => canTransition(status, c.to)
  /\ c.pc \in {"settle", "publish"} => status \in InApproval \cup {"APPROVED"}
  /\ c.pc = "publish" => Pending(row) = IF c.step = 0 THEN {} ELSE {c.step}
  /\ c.pc \in {"requeue", "finish"} => status = "APPROVED" /\ Open(row) = {}
  /\ c.pc = "requeue" => c.steps = FromStock

\* A correction that stops after its rows leaves an approved request with open
\* rows.  They are all such as a stock answer skips, and never is one pending while
\* others are skipped, so that the next correction reopens nothing beside it.
Resumable ==
  status = "APPROVED" =>
    /\ Open(row) \subseteq ByStock
    /\ Pending(row) = {} \/ FromStock = {}

\* Only a request in approval or approved has open rows, and one in approval has
\* rows.
Started ==
  /\ Open(row) # {} => status \in InApproval \cup {"APPROVED"}
  /\ status \in InApproval => \E s \in Steps : row[s] # "none"

RowsInv ==
  /\ Shape(row)
  /\ FromStock \subseteq ByStock
  /\ Resumable
  /\ Started

\* Other calls may have written since an outdated call read, so nothing is said of
\* it; while the request is in order it has written nothing either.
ChainInv ==
  /\ RowsInv
  /\ \A w \in Workers \ outdated : Relies(call[w])

\* The moves the status machine does not have.
LEMMA ForbiddenMoves ==
  /\ \A s : canTransition(s, "SUBMITTED") => s \in {"DRAFT", "SUBMITTED"}
  /\ \A s, to : s \in Terminal /\ canTransition(s, to) => to = s
  /\ \A s, to : canTransition(s, to) /\ to = "DRAFT" => s = "DRAFT"
  BY DEF canTransition, Moves, InApproval, ReviewSteps, Fulfilment, Terminal

LEMMA ReviewStatuses ==
  /\ \A s \in Steps : ReviewOf[s] \in InApproval /\ statusOf(s) = ReviewOf[s]
  /\ statusOf(0) = "APPROVED"
  /\ "APPROVED" \notin InApproval /\ "DRAFT" \notin InApproval
  /\ \A t \in Terminal \cup Fulfilment : t \notin InApproval
  /\ "SUBMITTED" \in InApproval
  BY RequestAssumption, StepsArePositive
     DEF statusOf, InApproval, ReviewSteps, Fulfilment, Terminal

\* A promoted chain has the shape.
LEMMA PromotedShape ==
  ASSUME NEW rows \in [Steps -> Decisions], NEW m, NEW st, Pending(rows) = {}
  PROVE  /\ Shape(Promoted(rows, m, st))
         /\ Pending(Promoted(rows, m, st)) =
              IF Current(rows, m, st) = 0 THEN {} ELSE {Current(rows, m, st)}
         /\ Current(rows, m, st) = 0 => Open(Promoted(rows, m, st)) = {}
         /\ Waiting(Promoted(rows, m, st)) \subseteq Waiting(rows)
  BY PromotedChain DEF Shape, Open

\* Deciding the pending row leaves none pending and the queue as it was.
LEMMA DecidedRows ==
  ASSUME TypeOK, Shape(row), NEW s \in Steps, row[s] = "PENDING",
         NEW d \in {"APPROVED", "skip:retired"}
  PROVE  /\ [row EXCEPT ![s] = d] \in [Steps -> Decisions]
         /\ Pending([row EXCEPT ![s] = d]) = {}
         /\ Waiting([row EXCEPT ![s] = d]) = Waiting(row)
  BY DEF TypeOK, Decisions, SkippedAs, Shape, Pending, Waiting

LEMMA ClosedRows ==
  ASSUME NEW rows \in [Steps -> Decisions]
  PROVE  Shape(closed(rows)) /\ Open(closed(rows)) = {}
<1>1. \A s \in Steps : closed(rows)[s] \notin {"PENDING", "WAITING"}
  BY DEF closed, Open, Pending, Waiting
<1>2. Pending(closed(rows)) = {} /\ Waiting(closed(rows)) = {}
  BY <1>1 DEF Pending, Waiting
<1> QED  BY <1>2 DEF Shape, Open

\* Only a stock answer skips a step for stock, and it leaves none of those it
\* skips waiting.
LEMMA PromotedStock ==
  ASSUME NEW rows \in [Steps -> Decisions], NEW m, NEW st, Pending(rows) = {}
  PROVE  /\ StockSkips(Promoted(rows, m, st)) \subseteq StockSkips(rows) \cup ByStock
         /\ Open(Promoted(rows, m, st)) \subseteq Waiting(rows)
         /\ Waiting(rows) \subseteq ByStock /\ StockSkips(rows) = {} =>
              \/ Pending(Promoted(rows, m, st)) = {}
              \/ StockSkips(Promoted(rows, m, st)) = {}
<1> DEFINE p == Promoted(rows, m, st)
<1>1. \A s \in Steps : p[s] = "skip:stock" => rows[s] = "skip:stock" \/ filledFromStock(s, m)
  BY DEF Promoted, skipReason
<1>2. StockSkips(p) \subseteq StockSkips(rows) \cup ByStock
  BY <1>1 DEF StockSkips, ByStock, filledFromStock
<1>3. Open(p) \subseteq Waiting(rows)
  BY PromotedChain, CurrentIsWaiting DEF Open
<1>4. CASE m.purchase = "no"
  <2>1. Waiting(rows) \subseteq ByStock => Standing(rows, m, st) = {}
    BY <1>4 DEF Standing, skips, filledFromStock, ByStock
  <2>2. Waiting(rows) \subseteq ByStock => Pending(p) = {}
    BY <2>1, PromotedChain DEF Current
  <2> QED  BY <1>2, <1>3, <2>2
<1>5. CASE m.purchase # "no"
  <2>1. StockSkips(p) \subseteq StockSkips(rows)
    BY <1>1, <1>5 DEF StockSkips, filledFromStock
  <2> QED  BY <1>2, <1>3, <2>1
<1> QED  BY <1>4, <1>5

\* A call that writes is not outdated while the request is in order.
LEMMA WritesInOrder ==
  ASSUME NEW w \in Workers, NEW m, Writes(w, m), InOrder'
  PROVE  w \notin outdated /\ m \subseteq {"stopped"}
  BY DEF Writes, InOrder

\* A step that writes: the other calls are outdated, so it is enough to look at
\* the rows and at the call that took it.
LEMMA ChainMoves ==
  ASSUME NEW w \in Workers, NEW m, Writes(w, m), RowsInv', Relies(call[w])'
  PROVE  ChainInv'
<1>1. ASSUME NEW v \in Workers, v \notin outdated' PROVE Relies(call[v])'
  <2>1. CASE v = w
    BY <2>1
  <2>2. CASE v # w
    <3>1. call'[v] = Idle
      BY <1>1, <2>2 DEF Writes
    <3> QED  BY <3>1 DEF Relies, Idle
  <2> QED  BY <2>1, <2>2
<1> QED  BY <1>1 DEF ChainInv

\* A step that leaves the rows and the status alone.
LEMMA ChainReads ==
  ASSUME ChainInv, NEW w \in Workers, UNCHANGED <<row, status>>,
         \A v \in Workers \ {w} :
            /\ call'[v] = call[v]
            /\ v \in outdated => v \in outdated' \/ call'[v] = Idle,
         w \notin outdated' => Relies(call[w])'
  PROVE  ChainInv'
<1>1. RowsInv'
  BY DEF ChainInv, RowsInv, Shape, FromStock, Resumable, Started, Open, Pending, Waiting
<1>2. ASSUME NEW v \in Workers \ {w}, v \notin outdated' PROVE Relies(call[v])'
  <2>1. CASE call'[v] = Idle
    BY <2>1 DEF Relies, Idle
  <2>2. CASE call'[v] # Idle
    <3>1. v \notin outdated /\ call'[v] = call[v]
      BY <1>2, <2>2
    <3>2. Relies(call[v])
      BY <3>1 DEF ChainInv
    <3> QED  BY <3>1, <3>2 DEF Relies, Pending, Waiting, Open, FromStock
  <2> QED  BY <2>1, <2>2
<1> QED  BY <1>1, <1>2 DEF ChainInv

\* The same of a call that has only read so far.
LEMMA ChainGoes ==
  ASSUME TypeOK, ChainInv, NEW w \in Workers, NEW c, Goto(w, c), UNCHANGED <<row, status>>,
         Reads \/ ReadsAgain(w), w \notin outdated' => Relies(call[w])'
  PROVE  ChainInv'
<1>1. \A v \in Workers \ {w} :
        /\ call'[v] = call[v]
        /\ v \in outdated => v \in outdated' \/ call'[v] = Idle
  BY DEF Goto, TypeOK, Reads, ReadsAgain
<1> QED  BY <1>1, ChainReads

\* The call stays up to date only if it was.
LEMMA StaysCurrent ==
  ASSUME NEW w \in Workers, Reads, w \notin outdated', call'[w] # Idle
  PROVE  w \notin outdated
  BY DEF Reads

\* A step that closes the request.
LEMMA ChainCloses ==
  ASSUME TypeOK, ChainInv, NEW w \in Workers, NEW rows \in [Steps -> Decisions],
         \A t \in Steps : rows[t] = "skip:stock" => row[t] = "skip:stock",
         row' = closed(rows), status' \in {"REJECTED", "CANCELLED"}, Goto(w, Idle), Writes(w, {})
  PROVE  ChainInv'
<1>1. \A t \in Steps : row'[t] = "skip:stock" => row[t] = "skip:stock"
  BY DEF closed
<1>2. Shape(row)' /\ Open(row)' = {} /\ FromStock' \subseteq FromStock
  BY <1>1, ClosedRows DEF FromStock
<1>3. status' # "APPROVED" /\ status' \notin InApproval
  BY DEF InApproval, ReviewSteps
<1>4. RowsInv'
  BY <1>2, <1>3 DEF ChainInv, RowsInv, Resumable, Started
<1>5. Relies(call[w])'
  BY DEF Relies, Goto, Idle, TypeOK
<1> QED  BY <1>4, <1>5, ChainMoves

\* The pending row is decided, and the chain moves on.
LEMMA ChainDecides ==
  ASSUME TypeOK, ChainInv, NEW w \in Workers, NEW s \in Steps, row[s] = "PENDING",
         NEW d \in {"APPROVED", "skip:retired"}, Writes(w, {}),
         row' = Promoted([row EXCEPT ![s] = d], money, staff), status' = status,
         LET next == Current([row EXCEPT ![s] = d], money, staff)
         IN  \/ \E x \in Causes : call'[w] = [pc |-> "publish", cause |-> x, step |-> next]
             \/ \E x \in Causes : call'[w] = [pc |-> "settle", cause |-> x]
  PROVE  ChainInv'
<1> DEFINE rows == [row EXCEPT ![s] = d]
           next == Current(rows, money, staff)
<1>1. /\ rows \in [Steps -> Decisions] /\ Pending(rows) = {} /\ Waiting(rows) = Waiting(row)
  BY DecidedRows DEF ChainInv, RowsInv
<1>2. StockSkips(rows) = FromStock
  BY DEF TypeOK, StockSkips, FromStock
<1>3. \/ \E x \in Causes : call'[w] = [pc |-> "publish", cause |-> x, step |-> next]
      \/ \E x \in Causes : call'[w] = [pc |-> "settle", cause |-> x]
  OBVIOUS
<1>4. row' = Promoted(rows, money, staff) /\ FromStock' = StockSkips(row')
  BY DEF FromStock, StockSkips
<1>9. rows[s] = d
  BY DEF TypeOK
<1> HIDE DEF rows
<1>5. Shape(row') /\ Pending(row') = (IF next = 0 THEN {} ELSE {next})
  BY ONLY <1>1, <1>4, PromotedShape
<1> HIDE DEF next
<1>6. FromStock' \subseteq ByStock
  BY <1>1, <1>2, <1>4, PromotedStock DEF ChainInv, RowsInv
<1>7. Resumable'
  <2>1. s \in Pending(row)
    BY DEF Pending
  <2>2. status = "APPROVED" => Waiting(rows) \subseteq ByStock /\ StockSkips(rows) = {}
    BY <1>1, <1>2, <2>1 DEF ChainInv, RowsInv, Resumable, Open
  <2> QED  BY <1>1, <1>4, <2>2, PromotedStock DEF Resumable
<1>10. status' \in InApproval \cup {"APPROVED"}
  BY DEF ChainInv, RowsInv, Started, Open, Pending
<1>11. row'[s] # "none"
  <2>1. rows[s] # "WAITING" /\ rows[s] # "none"
    BY <1>9
  <2>2. Promoted(rows, money, staff)[s] = rows[s]
    BY <1>1, <2>1, PromotedKeeps
  <2> QED  BY <1>4, <2>1, <2>2
<1>12. RowsInv'
  BY <1>5, <1>6, <1>7, <1>10, <1>11 DEF RowsInv, Started
<1>13. Pending(row)' = IF next = 0 THEN {} ELSE {next}
  BY <1>5 DEF Pending
<1>8. Relies(call[w])'
  <2>1. ASSUME NEW x \in Causes, call'[w] = [pc |-> "publish", cause |-> x, step |-> next]
        PROVE  Relies(call[w])'
    BY ONLY <2>1, <1>10, <1>13 DEF Relies
  <2>2. ASSUME NEW x \in Causes, call'[w] = [pc |-> "settle", cause |-> x]
        PROVE  Relies(call[w])'
    BY ONLY <2>2, <1>10 DEF Relies
  <2> QED  BY <1>3, <2>1, <2>2
<1> QED  BY <1>8, <1>12, ChainMoves

\* A step keeps the chain in order unless it is the one that leaves it.
LEMMA ChainStep == ASSUME TypeOK, ChainInv, [Next]_vars, InOrder' PROVE ChainInv'
<1> USE DEF request, vars
<1>0. ASSUME NEW w \in Workers, NEW c, Goto(w, c) PROVE call'[w] = c
  BY <1>0 DEF Goto, TypeOK
\* A call that has only read so far, with what it relies on from then on.
<1>1. ASSUME NEW w \in Workers, NEW c, Begin(w, c), Relies(call[w])' PROVE ChainInv'
  BY <1>1, ChainGoes DEF Begin
<1>2. ASSUME NEW w \in Workers, NEW c, Begin(w, c)
      PROVE  call'[w] = c /\ UNCHANGED <<row, status>>
  BY <1>2 DEF Begin, Goto, TypeOK
<1>3. ASSUME NEW w \in Workers, NEW m, Writes(w, m) PROVE Relies(call[w]) /\ RowsInv
  BY <1>3, WritesInOrder DEF ChainInv
<1>4. ASSUME NEW w \in Workers, submitBegin(w) PROVE ChainInv'
  BY <1>1, <1>2, <1>4 DEF submitBegin, Relies
<1>5. ASSUME NEW w \in Workers, submitCommit(w) PROVE ChainInv'
  <2> DEFINE queued == [s \in Steps |-> "WAITING"]
             next   == Current(queued, money, staff)
  <2>1. queued \in [Steps -> Decisions] /\ Pending(queued) = {} /\ StockSkips(queued) = {}
    BY DEF Decisions, Pending, StockSkips
  <2>2. next \in {0} \cup Steps
    BY <2>1, CurrentIsAStep
  <2>3. row' = Promoted(queued, money, staff) /\ status' = statusOf(next) /\ Writes(w, {})
    BY <1>5 DEF submitCommit
  <2>4. Goto(w, IF next = 0 THEN [pc |-> "finish", cause |-> "approved"] ELSE Idle)
    BY <1>5 DEF submitCommit
  <2>5. FromStock' = StockSkips(row')
    BY <2>3 DEF FromStock, StockSkips
  <2> HIDE DEF queued
  <2>6. /\ Shape(row') /\ Pending(row') = (IF next = 0 THEN {} ELSE {next})
        /\ next = 0 => Open(row') = {}
    BY <2>1, <2>3, PromotedShape
  <2>7. FromStock' \subseteq ByStock
    BY <2>1, <2>3, <2>5, PromotedStock
  <2> HIDE DEF next
  <2>8. next = 0 => status' = "APPROVED" /\ Open(row') = {} /\ Pending(row') = {}
    BY <2>3, <2>6, ReviewStatuses
  <2>9. next # 0 => status' \in InApproval /\ status' # "APPROVED" /\ next \in Pending(row')
    BY <2>2, <2>3, <2>6, ReviewStatuses
  <2>10. Resumable'
    BY <2>8, <2>9 DEF Resumable
  <2>11. Started'
    BY <2>8, <2>9, ReviewStatuses DEF Started, Pending
  <2>12. Relies(call[w])'
    <3>1. CASE next = 0
      <4>1. call'[w] = [pc |-> "finish", cause |-> "approved"]
        BY <1>0, <2>4, <3>1
      <4> QED  BY <2>8, <3>1, <4>1 DEF Relies
    <3>2. CASE next # 0
      <4>1. call'[w] = Idle
        BY <1>0, <2>4, <3>2
      <4> QED  BY <4>1 DEF Relies, Idle
    <3> QED  BY <3>1, <3>2
  <2>13. RowsInv'
    BY <2>6, <2>7, <2>10, <2>11 DEF RowsInv
  <2> QED  BY <2>3, <2>12, <2>13, ChainMoves
<1>6. ASSUME NEW w \in Workers, approveBegin(w) PROVE ChainInv'
  <2>1. PICK s \in Steps : mayDecide(s) /\ Begin(w, [pc |-> "approve", step |-> s])
    BY <1>6 DEF approveBegin
  <2>2. Relies(call[w])'
    BY <1>2, <2>1 DEF Relies, mayDecide, Pending
  <2> QED  BY <1>1, <2>1, <2>2
<1>7. ASSUME NEW w \in Workers, approveCommit(w) PROVE ChainInv'
  <2> DEFINE next == Current(approved(call[w].step), money, staff)
  <2>1. call[w].step \in Steps /\ row[call[w].step] = "PENDING" /\ "approved" \in Causes
    BY <1>3, <1>7, CallArguments DEF approveCommit, Relies, Causes
  <2>2. call'[w] = [pc |-> "publish", cause |-> "approved", step |-> next]
    BY <1>0, <1>7 DEF approveCommit
  <2> QED  BY <1>7, <2>1, <2>2, ChainDecides DEF approveCommit, approved
<1>8. ASSUME NEW w \in Workers, publish(w) PROVE ChainInv'
  <2>1. /\ call[w].step \in {0} \cup Steps
        /\ Pending(row) = (IF call[w].step = 0 THEN {} ELSE {call[w].step})
        /\ RowsInv /\ Writes(w, {})
    BY <1>3, <1>8, CallArguments DEF publish, Relies
  <2>2. /\ row' = row /\ status' = statusOf(call[w].step)
        /\ Shape(row)' /\ FromStock' \subseteq ByStock
    BY <1>8, <2>1 DEF publish, RowsInv, Shape, Pending, Waiting, FromStock
  <2>3. CASE call[w].step = 0
    <3>1. status' = "APPROVED" /\ status' \notin InApproval /\ Open(row)' = {} /\ Pending(row)' = {}
      BY <2>1, <2>2, <2>3, ReviewStatuses DEF RowsInv, Shape, Open, Pending, Waiting
    <3>2. call'[w] = [pc |-> "finish", cause |-> call[w].cause]
      BY <1>0, <1>8, <2>3 DEF publish
    <3>3. Relies(call[w])'
      BY <3>1, <3>2 DEF Relies
    <3>4. RowsInv'
      BY <2>2, <3>1 DEF RowsInv, Resumable, Started
    <3> QED  BY <2>1, <3>3, <3>4, ChainMoves
  <2>4. CASE call[w].step # 0
    <3>1. status' \in InApproval /\ status' # "APPROVED" /\ call[w].step \in Pending(row)
      BY <2>1, <2>2, <2>4, ReviewStatuses
    <3>2. RowsInv'
      BY <2>2, <3>1 DEF RowsInv, Resumable, Started, Pending
    <3>3. call'[w].pc \in {"idle", "complete"}
      BY <1>0, <1>8, <2>4 DEF publish, after, Idle
    <3>4. Relies(call[w])'
      BY <3>3 DEF Relies
    <3> QED  BY <2>1, <3>2, <3>4, ChainMoves
  <2> QED  BY <2>3, <2>4
<1>9. ASSUME NEW w \in Workers, finish(w) PROVE ChainInv'
  <2>1. status = "APPROVED" /\ Open(row) = {} /\ RowsInv /\ Writes(w, {})
    BY <1>3, <1>9 DEF finish, Relies
  <2>2. row' = row /\ status' \in {"APPROVED", "ASSIGNED"} /\ status' \notin InApproval
    BY <1>9, <2>1, ReviewStatuses DEF finish, Fulfilment
  <2>3. RowsInv'
    BY <2>1, <2>2 DEF RowsInv, Shape, FromStock, Resumable, Started, Open, Pending, Waiting
  <2>4. call'[w].pc \in {"idle", "complete"}
    BY <1>0, <1>9 DEF finish, after, Idle
  <2>5. Relies(call[w])'
    BY <2>4 DEF Relies
  <2> QED  BY <2>1, <2>3, <2>5, ChainMoves
<1>10. ASSUME NEW w \in Workers, settle(w) PROVE ChainInv'
  <2> DEFINE step == IF Pending(row) = {} THEN 0 ELSE FirstOf(Pending(row))
  <2>1. Pending(row) # {} => FirstOf(Pending(row)) \in Pending(row)
    BY FirstExists DEF Pending
  <2>2. Pending(row) = IF step = 0 THEN {} ELSE {step}
    BY <2>1, StepsArePositive DEF ChainInv, RowsInv, Shape, Pending
  <2>3. call'[w] = [pc |-> "publish", cause |-> call[w].cause, step |-> step]
    BY <1>0, <1>10 DEF settle
  <2>4. Pending(row)' = Pending(row) /\ status' = status
    BY <1>10 DEF settle, Pending
  <2> HIDE DEF step
  <2>5. ASSUME w \notin outdated' PROVE Relies(call[w])'
    <3>1. w \notin outdated
      BY <1>10, <2>3, <2>5, StaysCurrent DEF settle, Idle
    <3>2. status \in InApproval \cup {"APPROVED"}
      BY <1>10, <3>1 DEF settle, ChainInv, Relies
    <3> QED  BY <2>2, <2>3, <2>4, <3>2 DEF Relies
  <2> QED  BY <1>10, <2>5, ChainGoes DEF settle
<1>11. ASSUME NEW w \in Workers, rejectBegin(w) PROVE ChainInv'
  <2>1. PICK s \in Steps : mayDecide(s) /\ Begin(w, [pc |-> "reject", step |-> s])
    BY <1>11 DEF rejectBegin
  <2>2. Relies(call[w])'
    BY <1>2, <2>1 DEF Relies, mayDecide, Pending
  <2> QED  BY <1>1, <2>1, <2>2
<1>12. ASSUME NEW w \in Workers, rejectCommit(w) PROVE ChainInv'
  <2> DEFINE rows == [row EXCEPT ![call[w].step] = "REJECTED"]
  <2>1. /\ rows \in [Steps -> Decisions]
        /\ \A t \in Steps : rows[t] = "skip:stock" => row[t] = "skip:stock"
    BY DEF TypeOK, Decisions
  <2>2. row' = closed(rows) /\ status' = "REJECTED" /\ Goto(w, Idle) /\ Writes(w, {})
    BY <1>12 DEF rejectCommit
  <2> HIDE DEF rows
  <2> QED  BY <2>1, <2>2, ChainCloses
<1>13. ASSUME NEW w \in Workers, advanceBegin(w) PROVE ChainInv'
  <2>1. PICK to \in RequestStatuses :
          canTransition(status, to) /\ Begin(w, [pc |-> "advance", to |-> to])
    BY <1>13 DEF advanceBegin
  <2>2. Relies(call[w])'
    BY <1>2, <2>1 DEF Relies
  <2> QED  BY <1>1, <2>1, <2>2
<1>14. ASSUME NEW w \in Workers, advanceCommit(w) PROVE ChainInv'
  <2>1. PICK m : Writes(w, m) /\ m = {x \in {"bypassed"} : bypasses(call[w].to)}
    BY <1>14 DEF advanceCommit
  <2>2. ~bypasses(call[w].to) /\ RowsInv
    BY <1>3, <2>1, WritesInOrder
  <2>3. row' = row /\ (status' = status \/ (Open(row) = {} /\ status' \notin InApproval))
    BY <1>14, <2>2 DEF advanceCommit, bypasses
  <2>4. Shape(row)' /\ FromStock' \subseteq ByStock /\ Open(row)' = Open(row)
    BY <2>2, <2>3 DEF RowsInv, Shape, FromStock, Open, Pending, Waiting
  <2>5. Resumable' /\ Started'
    BY <2>2, <2>3 DEF RowsInv, Resumable, Started, FromStock, Open, Pending, Waiting
  <2>6. Relies(call[w])'
    BY <1>0, <1>14 DEF advanceCommit, Relies, Idle
  <2>7. RowsInv'
    BY <2>4, <2>5 DEF RowsInv
  <2> QED  BY <2>1, <2>6, <2>7, ChainMoves
<1>15. ASSUME NEW w \in Workers, cancelBegin(w) PROVE ChainInv'
  BY <1>1, <1>2, <1>15 DEF cancelBegin, Relies
<1>16. ASSUME NEW w \in Workers, cancelCommit(w) PROVE ChainInv'
  BY <1>16, ChainCloses DEF cancelCommit, TypeOK
<1>17. ASSUME NEW w \in Workers, assessBegin(w) PROVE ChainInv'
  <2>1. PICK new \in Assessments :
          Begin(w, [pc |-> "save", before |-> assessment.purchase, new |-> new])
    BY <1>17 DEF assessBegin
  <2>2. Relies(call[w])'
    BY <1>2, <2>1 DEF Relies
  <2> QED  BY <1>1, <2>1, <2>2
<1>18. ASSUME NEW w \in Workers, assessSave(w) PROVE ChainInv'
  <2>1. call'[w].pc \in {"reopen", "complete"}
    BY <1>0, <1>18 DEF assessSave
  <2>2. Relies(call[w])'
    BY <2>1 DEF Relies
  <2> QED  BY <1>18, <2>2, ChainGoes DEF assessSave
<1>19. ASSUME NEW w \in Workers, reopenBegin(w) PROVE ChainInv'
  <2>1. CASE status = "APPROVED" /\ FromStock # {}
    <3>1. call'[w] = [pc |-> "requeue", steps |-> FromStock]
      BY <1>0, <1>19, <2>1 DEF reopenBegin
    <3>2. Pending(row) = {} /\ Waiting(row) = {}
      BY <2>1 DEF ChainInv, RowsInv, Resumable, Shape
    <3>3. status' = "APPROVED" /\ Open(row)' = {} /\ FromStock' = FromStock
      BY <1>19, <2>1, <3>2 DEF reopenBegin, Open, Pending, Waiting, FromStock
    <3>4. Relies(call[w])'
      BY <3>1, <3>3 DEF Relies
    <3> QED  BY <1>19, <3>4, ChainGoes DEF reopenBegin
  <2>2. CASE ~(status = "APPROVED" /\ FromStock # {})
    <3>1. call'[w] = [pc |-> "complete"]
      BY <1>0, <1>19, <2>2 DEF reopenBegin
    <3>2. Relies(call[w])'
      BY <3>1 DEF Relies
    <3> QED  BY <1>19, <3>2, ChainGoes DEF reopenBegin
  <2> QED  BY <2>1, <2>2
<1>20. ASSUME NEW w \in Workers, reopenCommit(w) PROVE ChainInv'
  <2> DEFINE rows == [s \in Steps |-> IF s \in call[w].steps THEN "WAITING" ELSE row[s]]
  <2>1. /\ status = "APPROVED" /\ Open(row) = {} /\ call[w].steps = FromStock
        /\ FromStock \subseteq ByStock /\ Writes(w, {})
    BY <1>3, <1>20 DEF reopenCommit, Relies, RowsInv
  <2>2. /\ rows \in [Steps -> Decisions] /\ Pending(rows) = {} /\ StockSkips(rows) = {}
        /\ Waiting(rows) \subseteq ByStock
    BY <2>1 DEF TypeOK, Decisions, Open, Pending, Waiting, FromStock, StockSkips
  <2>3. row' = Promoted(rows, money, staff) /\ status' = "APPROVED"
    BY <1>20, <2>1 DEF reopenCommit
  <2>4. FromStock' = StockSkips(row')
    BY <2>3 DEF FromStock, StockSkips
  <2> HIDE DEF rows
  <2>5. Shape(row)' /\ FromStock' \subseteq ByStock
    BY <2>2, <2>3, <2>4, PromotedShape, PromotedStock
  <2>6. Resumable'
    BY <2>2, <2>3, <2>4, PromotedStock DEF Resumable
  <2>7. Started'
    BY <2>3, ReviewStatuses DEF Started
  <2>8. call'[w] = [pc |-> "settle", cause |-> "assessed"]
    BY <1>0, <1>20 DEF reopenCommit
  <2>9. Relies(call[w])'
    BY <2>3, <2>8 DEF Relies
  <2>10. RowsInv'
    BY <2>5, <2>6, <2>7 DEF RowsInv
  <2> QED  BY <2>1, <2>9, <2>10, ChainMoves
<1>21. ASSUME NEW w \in Workers, stageBegin(w) PROVE ChainInv'
  <2>1. CASE AnsweredStage = {}
    <3>1. Relies(call[w])'
      BY <1>0, <1>21, <2>1 DEF stageBegin, Relies, Idle
    <3> QED  BY <1>21, <3>1, ChainGoes DEF stageBegin
  <2>2. CASE AnsweredStage # {}
    <3>1. call'[w] = [pc |-> "stage", step |-> FirstOf(AnsweredStage)]
      BY <1>0, <1>21, <2>2 DEF stageBegin
    <3>2. FirstOf(AnsweredStage) \in AnsweredStage
      BY <2>2, FirstExists DEF AnsweredStage, Pending
    <3>3. row'[FirstOf(AnsweredStage)] = "PENDING"
      BY <1>21, <3>2 DEF stageBegin, AnsweredStage, Pending
    <3> HIDE DEF AnsweredStage
    <3>4. Relies(call[w])'
      BY <3>1, <3>3 DEF Relies
    <3> QED  BY <1>21, <3>4, ChainGoes DEF stageBegin
  <2> QED  BY <2>1, <2>2
<1>22. ASSUME NEW w \in Workers, stageCommit(w) PROVE ChainInv'
  <2>1. call[w].step \in Steps /\ row[call[w].step] = "PENDING" /\ "assessed" \in Causes
    BY <1>3, <1>22, CallArguments DEF stageCommit, Relies, Causes
  <2>2. call'[w] = [pc |-> "settle", cause |-> "assessed"]
    BY <1>0, <1>22 DEF stageCommit
  <2> QED  BY <1>22, <2>1, <2>2, ChainDecides DEF stageCommit, approved
<1>23. ASSUME NEW w \in Workers, retireStep(w) PROVE ChainInv'
  <2>1. /\ status' = status /\ status \in InApproval /\ status # "APPROVED" /\ call[w] = Idle
        /\ "retired" \in Causes /\ RowsInv /\ Writes(w, {})
    BY <1>3, <1>23, ReviewStatuses DEF retireStep, Causes
  <2>2. PICK s \in Steps :
          \/ s \in Waiting(row) /\ row' = [row EXCEPT ![s] = "none"] /\ UNCHANGED call
          \/ /\ s \in Pending(row) /\ row' = Promoted([row EXCEPT ![s] = "skip:retired"], money, staff)
             /\ Goto(w, [pc |-> "settle", cause |-> "retired"])
    BY <1>23 DEF retireStep
  <2>3. CASE s \in Waiting(row) /\ row' = [row EXCEPT ![s] = "none"] /\ UNCHANGED call
    <3>1. /\ Pending(row') = Pending(row) /\ Waiting(row') \subseteq Waiting(row)
          /\ FromStock' = FromStock /\ Pending(row) # {}
      BY <2>1, <2>3 DEF RowsInv, Shape, Pending, Waiting, FromStock, TypeOK
    <3>2. Shape(row') /\ FromStock' \subseteq ByStock
      BY <2>1, <3>1 DEF RowsInv, Shape
    <3>3. Resumable' /\ Relies(call[w])'
      BY <2>1, <2>3 DEF Resumable, Relies, Idle
    <3>4. Started'
      BY <2>1, <3>1 DEF Started, Pending
    <3>5. RowsInv'
      BY <3>2, <3>3, <3>4 DEF RowsInv
    <3> QED  BY <2>1, <3>3, <3>5, ChainMoves
  <2>4. CASE /\ s \in Pending(row) /\ row' = Promoted([row EXCEPT ![s] = "skip:retired"], money, staff)
             /\ Goto(w, [pc |-> "settle", cause |-> "retired"])
    <3>1. call'[w] = [pc |-> "settle", cause |-> "retired"] /\ row[s] = "PENDING"
      BY <1>0, <2>4 DEF Pending
    <3> QED  BY <2>1, <2>4, <3>1, ChainDecides
  <2> QED  BY <2>2, <2>3, <2>4
<1>24. ASSUME NEW w \in Workers, refuse(w) PROVE ChainInv'
  <2>1. Relies(call[w])'
    BY <1>0, <1>24 DEF refuse, Relies, Idle
  <2> QED  BY <1>24, <2>1, ChainGoes DEF refuse
<1>25. ASSUME NEW w \in Workers, crash(w) PROVE ChainInv'
  <2>1. Relies(call[w])'
    BY <1>0, <1>25 DEF crash, Relies, Idle
  <2>2. /\ UNCHANGED <<row, status>>
        /\ \A v \in Workers \ {w} :
             /\ call'[v] = call[v]
             /\ v \in outdated => v \in outdated'
    BY <1>25 DEF crash, Goto, TypeOK
  <2> QED  BY <2>1, <2>2, ChainReads
<1>26. ASSUME UNCHANGED <<row, status, call, outdated>> PROVE ChainInv'
  BY <1>26 DEF ChainInv, RowsInv, Shape, Resumable, Started, Relies, Pending, Waiting, Open, FromStock
<1>27. ASSUME staffMoves PROVE ChainInv'
  BY <1>26, <1>27 DEF staffMoves
<1>28. CASE UNCHANGED vars
  BY <1>26, <1>28
<1> QED
  BY <1>4, <1>5, <1>6, <1>7, <1>8, <1>9, <1>10, <1>11, <1>12, <1>13, <1>14, <1>15, <1>16, <1>17,
     <1>18, <1>19, <1>20, <1>21, <1>22, <1>23, <1>24, <1>25, <1>27, <1>28 DEF Next, Step

\* Until it is bypassed or a call overtaken, a request is in order.
InOrderInv == InOrder => ChainInv

LEMMA StaysAstray == ASSUME TypeOK, [Next]_vars, InOrder' PROVE InOrder
  BY HistoryStep DEF InOrder

LEMMA ChainHolds == Spec => [](TypeOK /\ InOrderInv)
<1>1. Init => InOrderInv
  BY ReviewStatuses
     DEF Init, InOrderInv, ChainInv, RowsInv, Shape, Resumable, Started, Relies, Idle, Pending,
         Waiting, Open, FromStock
<1>2. TypeOK /\ InOrderInv /\ [Next]_vars => InOrderInv'
  BY StaysAstray, ChainStep DEF InOrderInv
<1> QED  BY <1>1, <1>2, RequestTypeCorrect, PTL DEF Spec

\* A request never waits on two steps at once, wherever a process stops, until it is
\* bypassed or one of its calls overtaken.
THEOREM StepsAreDecidedOneByOne == Spec => []OnePending
<1>1. InOrderInv => OnePending
  BY DEF InOrderInv, ChainInv, RowsInv, Shape, OnePending
<1> QED  BY <1>1, ChainHolds, PTL

\* No step becomes current while an earlier one still waits, wherever a process stops.
THEOREM ChainIsFollowedInOrder == Spec => []InChainOrder
<1>1. InOrderInv => InChainOrder
  BY DEF InOrderInv, ChainInv, RowsInv, Shape, InChainOrder
<1> QED  BY <1>1, ChainHolds, PTL

\* What a step of a request in order may rely on: its call has not been outdated.
LEMMA InOrderStep ==
  ASSUME TypeOK, InOrderInv, [Next]_vars, InOrder'
  PROVE  /\ ChainInv /\ ChainInv'
         /\ \A w \in Workers : \A m : Writes(w, m) => Relies(call[w])
<1>1. ChainInv /\ ChainInv'
  BY StaysAstray, ChainStep DEF InOrderInv
<1> QED  BY <1>1, WritesInOrder DEF ChainInv

\* A decided row is history: only a stock answer that was corrected is undone,
\* wherever a process stops.
THEOREM HistoryIsKept == Spec => DecidedRowsAreHistory
<1>1. ASSUME TypeOK, InOrderInv, [Next]_vars, InOrder', NEW s \in Steps, row[s] \in History
      PROVE  row'[s] = row[s]
  <2> USE <1>1 DEF vars, request
  <2>0. ASSUME NEW w \in Workers, NEW m, Writes(w, m) PROVE Relies(call[w])
    BY <2>0, InOrderStep
  <2>1. row[s] \notin {"none", "WAITING", "PENDING", "skip:stock"} /\ row \in [Steps -> Decisions]
    BY DEF History, TypeOK
  <2>2. ASSUME NEW w \in Workers, NEW t \in Steps, NEW d \in {"APPROVED", "skip:retired"},
               row[t] = "PENDING", row' = Promoted([row EXCEPT ![t] = d], money, staff)
        PROVE  row'[s] = row[s]
    <3> DEFINE rows == [row EXCEPT ![t] = d]
    <3>1. rows \in [Steps -> Decisions] /\ rows[s] = row[s]
      BY <2>1, <2>2 DEF Decisions, SkippedAs
    <3>2. row' = Promoted(rows, money, staff)
      BY <2>2
    <3> HIDE DEF rows
    <3> QED  BY <2>1, <3>1, <3>2, PromotedKeeps
  <2>3. ASSUME NEW rows, rows[s] = row[s], row' = closed(rows) PROVE row'[s] = row[s]
    BY <2>1, <2>3 DEF closed, Open, Pending, Waiting
  <2>4. ASSUME NEW w \in Workers, Step(w) PROVE row'[s] = row[s]
    <3>1. submitCommit(w) => row'[s] = row[s]
      BY <2>1 DEF submitCommit
    <3>2. approveCommit(w) => row'[s] = row[s]
      BY <2>0, <2>2, CallArguments DEF approveCommit, approved, Relies
    <3>3. stageCommit(w) => row'[s] = row[s]
      BY <2>0, <2>2, CallArguments DEF stageCommit, approved, Relies
    <3>4. rejectCommit(w) => row'[s] = row[s]
      <4>1. ASSUME rejectCommit(w) PROVE call[w].step # s
        BY <2>0, <2>1, <4>1 DEF rejectCommit, Relies
      <4> QED  BY <2>1, <2>3, <4>1 DEF rejectCommit
    <3>5. cancelCommit(w) => row'[s] = row[s]
      BY <2>3 DEF cancelCommit
    <3>6. ASSUME reopenCommit(w) PROVE row'[s] = row[s]
      <4> DEFINE rows == [t \in Steps |-> IF t \in call[w].steps THEN "WAITING" ELSE row[t]]
      <4>1. s \notin call[w].steps
        BY <2>0, <2>1, <3>6 DEF reopenCommit, Relies, FromStock
      <4>2. rows \in [Steps -> Decisions] /\ rows[s] = row[s]
        BY <2>1, <4>1 DEF Decisions
      <4>3. row' = Promoted(rows, money, staff)
        BY <3>6 DEF reopenCommit
      <4> HIDE DEF rows
      <4> QED  BY <2>1, <4>2, <4>3, PromotedKeeps
    <3>7. ASSUME retireStep(w) PROVE row'[s] = row[s]
      <4>1. PICK t \in Steps :
              \/ t \in Waiting(row) /\ row' = [row EXCEPT ![t] = "none"]
              \/ t \in Pending(row) /\ row' = Promoted([row EXCEPT ![t] = "skip:retired"], money, staff)
        BY <3>7 DEF retireStep
      <4>2. CASE t \in Waiting(row) /\ row' = [row EXCEPT ![t] = "none"]
        BY <2>1, <4>2 DEF Waiting
      <4>3. CASE t \in Pending(row) /\ row' = Promoted([row EXCEPT ![t] = "skip:retired"], money, staff)
        BY <2>2, <2>4, <4>3 DEF Pending
      <4> QED  BY <4>1, <4>2, <4>3
    <3> QED
      BY <2>4, <3>1, <3>2, <3>3, <3>4, <3>5, <3>6, <3>7
         DEF Step, submitBegin, approveBegin, publish, rejectBegin, advanceBegin, advanceCommit,
             cancelBegin, assessBegin, assessSave, reopenBegin, stageBegin, settle,
             finish, refuse, crash, Begin
  <2> QED  BY <2>4 DEF Next, staffMoves
<1>2. TypeOK /\ InOrderInv /\ [Next]_vars =>
        [InOrder' => (\A s \in Steps : row[s] \in History => row'[s] = row[s])]_vars
  BY <1>1
<1> QED  BY <1>2, ChainHolds, PTL DEF Spec, DecidedRowsAreHistory

\* A rejected, cancelled or completed request stays so, whatever calls overlap, until
\* a call writes on what it read before.
THEOREM ClosedStaysClosed == Spec => TerminalIsFinal
<1>1. ASSUME TypeOK, InOrderInv, [Next]_vars, InOrder', status \in Terminal PROVE status' = status
  <2> USE <1>1 DEF vars, request
  <2>1. status \notin InApproval \cup {"APPROVED", "DRAFT"} /\ Open(row) = {}
    BY InOrderStep DEF Terminal, InApproval, ReviewSteps, ChainInv, RowsInv, Started
  <2>2. ASSUME NEW w \in Workers, NEW m, Writes(w, m)
        PROVE  /\ call[w].pc \notin {"submit", "publish", "finish", "reject"}
               /\ call[w].pc = "cancel" => status = "CANCELLED"
               /\ call[w].pc = "advance" => status = call[w].to
    <3>1. Relies(call[w])
      BY <2>2, InOrderStep
    <3>2. call[w].pc # "submit"
      BY <2>1, <3>1, ForbiddenMoves DEF Relies, InApproval
    <3>3. call[w].pc # "reject"
      BY <2>1, <3>1, CallArguments DEF Relies, Open, Pending
    <3> QED  BY <2>1, <3>1, <3>2, <3>3, ForbiddenMoves DEF Relies
  <2>3. ASSUME NEW w \in Workers, Step(w) PROVE status' = status
    <3>1. ~submitCommit(w) /\ ~publish(w) /\ ~finish(w) /\ ~rejectCommit(w)
      BY <2>2 DEF submitCommit, publish, finish, rejectCommit
    <3>2. advanceCommit(w) => status' = status
      BY <2>2 DEF advanceCommit
    <3>3. cancelCommit(w) => status' = status
      BY <2>2 DEF cancelCommit
    <3> QED
      BY <2>3, <3>1, <3>2, <3>3
         DEF Step, submitBegin, approveBegin, approveCommit, rejectBegin, advanceBegin, cancelBegin,
             assessBegin, assessSave, reopenBegin, reopenCommit, stageBegin, stageCommit, settle,
             retireStep, refuse, crash, Begin
  <2> QED  BY <2>3 DEF Next, staffMoves
<1>2. TypeOK /\ InOrderInv /\ [Next]_vars =>
        [(status \in Terminal /\ InOrder') => (status' = status)]_vars
  BY <1>1
<1> QED  BY <1>2, ChainHolds, PTL DEF Spec, TerminalIsFinal

\* A work order is raised only for an approved request that waits on nobody.
THEOREM OrdersFollowApproval == Spec => OrderedWhenApproved
<1>1. ASSUME TypeOK, InOrderInv, [Next]_vars, InOrder', workOrder' # workOrder
      PROVE  status = "APPROVED" /\ Open(row) = {}
  <2> USE <1>1 DEF vars
  <2>1. PICK w \in Workers : finish(w)
    BY DEF Next, staffMoves, Step, Begin, submitBegin, submitCommit, approveBegin, approveCommit,
           publish, rejectBegin, rejectCommit, advanceBegin, advanceCommit, cancelBegin,
           cancelCommit, assessBegin, assessSave, reopenBegin, reopenCommit, stageBegin,
           stageCommit, settle, retireStep, refuse, crash
  <2>2. Relies(call[w]) /\ call[w].pc = "finish"
    BY <2>1, InOrderStep DEF finish
  <2> QED  BY <2>2 DEF Relies
<1>2. TypeOK /\ InOrderInv /\ [Next]_vars =>
        [(InOrder' /\ workOrder' # workOrder) => (status = "APPROVED" /\ Open(row) = {})]_vars
  BY <1>1
<1> QED  BY <1>2, ChainHolds, PTL DEF Spec, OrderedWhenApproved

-----------------------------------------------------------------------------
(* The status beside the chain, while no process stops *)

Settled ==
  IF status \in InApproval
  THEN Pending(row) = {currentStep} /\ status = ReviewOf[currentStep]
  ELSE Open(row) = {}

\* A call has moved the chain and has yet to write the status.
Unpublished(w) == call[w].pc \in {"settle", "publish"}

SettledInv == astray = {} => Settled \/ \E w \in Workers : Unpublished(w)

\* It is enough to look at the call that took the step: where another one has yet to
\* write the status, it still has.
LEMMA SettlesAlone ==
  ASSUME TypeOK, SettledInv, astray = {}, NEW w \in Workers, NEW c, Goto(w, c) \/ UNCHANGED call,
         Settled \/ Unpublished(w) => Settled' \/ Unpublished(w)'
  PROVE  SettledInv'
<1>1. CASE \E v \in Workers : v # w /\ Unpublished(v)
  BY <1>1 DEF Goto, TypeOK, Unpublished, SettledInv
<1>2. CASE \A v \in Workers : Unpublished(v) => v = w
  BY <1>2 DEF SettledInv
<1> QED  BY <1>1, <1>2

LEMMA SettledStep ==
  ASSUME TypeOK, InOrderInv, SettledInv, [Next]_vars, astray' = {}
  PROVE  SettledInv'
<1> USE DEF vars, request
<1>1. astray = {} /\ InOrder /\ InOrder'
  BY HistoryStep DEF InOrder
<1>2. RowsInv /\ RowsInv'
  BY <1>1, InOrderStep DEF ChainInv
<1>3. ASSUME NEW w \in Workers, NEW m, Writes(w, m) PROVE Relies(call[w])
  BY <1>1, <1>3, InOrderStep
<1>4. ASSUME NEW w \in Workers, NEW c, Goto(w, c) PROVE call'[w] = c
  BY <1>4 DEF Goto, TypeOK
\* A call that leaves the request alone.
<1>5. ASSUME NEW w \in Workers, NEW c, Goto(w, c), UNCHANGED request,
             Unpublished(w) => c.pc \in {"settle", "publish"}
      PROVE  SettledInv'
  <2>1. Settled => Settled'
    BY <1>5 DEF Settled, Open, Pending, Waiting
  <2>2. Unpublished(w) => Unpublished(w)'
    BY <1>4, <1>5 DEF Unpublished
  <2> QED  BY <1>1, <1>5, <2>1, <2>2, SettlesAlone
\* A call that has yet to write the status.
<1>6. ASSUME NEW w \in Workers, NEW c, Goto(w, c), c.pc \in {"settle", "publish"}
      PROVE  SettledInv'
  <2>1. Unpublished(w)'
    BY <1>4, <1>6 DEF Unpublished
  <2> QED  BY <2>1 DEF SettledInv
<1>7. ASSUME Settled' PROVE SettledInv'
  BY <1>7 DEF SettledInv
<1>8. ASSUME NEW w \in Workers,
             \/ submitBegin(w) \/ approveBegin(w) \/ rejectBegin(w) \/ advanceBegin(w)
             \/ cancelBegin(w) \/ assessBegin(w)
      PROVE  SettledInv'
  <2>1. PICK c : Begin(w, c)
    BY <1>8 DEF submitBegin, approveBegin, rejectBegin, advanceBegin, cancelBegin, assessBegin
  <2> QED  BY <1>5, <2>1 DEF Begin, Unpublished, Idle
<1>9. ASSUME NEW w \in Workers, assessSave(w) \/ reopenBegin(w) \/ stageBegin(w) \/ refuse(w)
      PROVE  SettledInv'
  <2>1. ~Unpublished(w) /\ UNCHANGED request /\ \E c : Goto(w, c)
    BY <1>9 DEF assessSave, reopenBegin, stageBegin, refuse, Unpublished
  <2> QED  BY <1>5, <2>1
<1>10. ASSUME NEW w \in Workers, approveCommit(w) PROVE SettledInv'
  BY <1>6, <1>10 DEF approveCommit
<1>11. ASSUME NEW w \in Workers, stageCommit(w) \/ reopenCommit(w) \/ settle(w) PROVE SettledInv'
  BY <1>6, <1>11 DEF stageCommit, reopenCommit, settle
<1>12. ASSUME NEW w \in Workers, submitCommit(w) PROVE SettledInv'
  <2> DEFINE queued == [s \in Steps |-> "WAITING"]
             next   == Current(queued, money, staff)
  <2>1. queued \in [Steps -> Decisions] /\ Pending(queued) = {}
    BY DEF Decisions, Pending
  <2>2. next \in {0} \cup Steps
    BY <2>1, CurrentIsAStep
  <2>3. row' = Promoted(queued, money, staff) /\ status' = statusOf(next) /\ currentStep' = next
    BY <1>12 DEF submitCommit
  <2> HIDE DEF queued
  <2>4. /\ Pending(row') = (IF next = 0 THEN {} ELSE {next})
        /\ next = 0 => Open(row') = {}
    BY <2>1, <2>3, PromotedShape
  <2> HIDE DEF next
  <2>5. Settled'
    BY <2>2, <2>3, <2>4, ReviewStatuses DEF Settled
  <2> QED  BY <1>7, <2>5
<1>13. ASSUME NEW w \in Workers, publish(w) PROVE SettledInv'
  <2>1. /\ call[w].step \in {0} \cup Steps
        /\ Pending(row) = (IF call[w].step = 0 THEN {} ELSE {call[w].step})
    BY <1>3, <1>13, CallArguments DEF publish, Relies
  <2>2. row' = row /\ status' = statusOf(call[w].step) /\ currentStep' = call[w].step
    BY <1>13 DEF publish
  <2>3. Settled'
    BY <1>2, <2>1, <2>2, ReviewStatuses DEF Settled, RowsInv, Shape, Open, Pending, Waiting
  <2> QED  BY <1>7, <2>3
<1>14. ASSUME NEW w \in Workers, finish(w) PROVE SettledInv'
  <2>1. status = "APPROVED" /\ Open(row) = {}
    BY <1>3, <1>14 DEF finish, Relies
  <2>2. row' = row /\ status' \in {"APPROVED", "ASSIGNED"}
    BY <1>14, <2>1 DEF finish
  <2>3. Settled'
    BY <2>1, <2>2, ReviewStatuses DEF Settled, Fulfilment, Open, Pending, Waiting
  <2> QED  BY <1>7, <2>3
<1>15. ASSUME NEW rows \in [Steps -> Decisions], row' = closed(rows), status' \in {"REJECTED", "CANCELLED"}
       PROVE  SettledInv'
  <2>1. Open(row)' = {}
    BY <1>15, ClosedRows
  <2>2. Settled'
    BY <1>15, <2>1, ReviewStatuses DEF Settled, InApproval, ReviewSteps
  <2> QED  BY <1>7, <2>2
<1>16. ASSUME NEW w \in Workers, rejectCommit(w) PROVE SettledInv'
  <2>1. [row EXCEPT ![call[w].step] = "REJECTED"] \in [Steps -> Decisions]
    BY DEF TypeOK, Decisions
  <2> QED  BY <1>15, <1>16, <2>1 DEF rejectCommit
<1>17. ASSUME NEW w \in Workers, cancelCommit(w) PROVE SettledInv'
  BY <1>15, <1>17 DEF cancelCommit, TypeOK
<1>18. ASSUME NEW w \in Workers, advanceCommit(w) PROVE SettledInv'
  <2>1. PICK m : Writes(w, m) /\ m = {x \in {"bypassed"} : bypasses(call[w].to)}
    BY <1>18 DEF advanceCommit
  <2>2. ~bypasses(call[w].to)
    BY <1>1, <2>1, WritesInOrder
  <2>3. CASE call[w].to = status
    BY <1>5, <1>18, <2>3 DEF advanceCommit, Unpublished
  <2>4. CASE call[w].to # status
    <3>1. Open(row)' = {} /\ status' \notin InApproval
      BY <1>18, <2>2, <2>4 DEF advanceCommit, bypasses, Open, Pending, Waiting
    <3> QED  BY <1>7, <3>1 DEF Settled
  <2> QED  BY <2>3, <2>4
<1>19. ASSUME NEW w \in Workers, retireStep(w) PROVE SettledInv'
  <2>1. CASE \E s \in Steps : s \in Waiting(row) /\ row' = [row EXCEPT ![s] = "none"] /\ UNCHANGED call
    <3>1. PICK s \in Steps : s \in Waiting(row) /\ row' = [row EXCEPT ![s] = "none"] /\ UNCHANGED call
      BY <2>1
    <3>2. Pending(row') = Pending(row) /\ status \in InApproval
      BY <1>19, <3>1 DEF retireStep, Pending, Waiting, TypeOK
    <3>3. Settled => Settled'
      BY <1>19, <3>2 DEF retireStep, Settled
    <3>4. ~Unpublished(w)
      BY <1>19 DEF retireStep, Unpublished, Idle
    <3> QED  BY <1>1, <3>1, <3>3, <3>4, SettlesAlone
  <2>2. CASE Goto(w, [pc |-> "settle", cause |-> "retired"])
    BY <1>6, <2>2
  <2> QED  BY <1>19, <2>1, <2>2 DEF retireStep
<1>20. ASSUME NEW w \in Workers, crash(w) PROVE SettledInv'
  BY <1>20 DEF crash
<1>21. ASSUME UNCHANGED <<request, call>> PROVE SettledInv'
  BY <1>1, <1>21 DEF SettledInv, Settled, Unpublished, Open, Pending, Waiting
<1>22. ASSUME staffMoves PROVE SettledInv'
  BY <1>21, <1>22 DEF staffMoves
<1>23. CASE UNCHANGED vars
  BY <1>21, <1>23
<1> QED
  BY <1>8, <1>9, <1>10, <1>11, <1>12, <1>13, <1>14, <1>16, <1>17, <1>18, <1>19, <1>20, <1>22,
     <1>23 DEF Next, Step

\* Between calls the status and the current step are those of the pending row.  Only a
\* bypass, an overtaken call and a process that stopped lead elsewhere.
THEOREM StatusIsThatOfTheChain == Spec => []StatusFollowsChain
<1>1. Init => SettledInv
  BY ReviewStatuses DEF Init, SettledInv, Settled, Open, Pending, Waiting
<1>2. TypeOK /\ InOrderInv /\ SettledInv /\ [Next]_vars => SettledInv'
  BY SettledStep DEF SettledInv
<1>3. SettledInv => StatusFollowsChain
  BY DEF SettledInv, Settled, Unpublished, StatusFollowsChain, AllIdle, Idle
<1> QED  BY <1>1, <1>2, <1>3, ChainHolds, PTL DEF Spec

-----------------------------------------------------------------------------
(* Refinement *)

\* The statuses in which no open step is looked at.
Unreviewed == {"REJECTED", "CANCELLED", "DRAFT"}

LEMMA PhaseOfOpenRequest ==
  ASSUME InOrder, status \notin Unreviewed
  PROVE  phase = (IF Open(row) = {} THEN "approved" ELSE "review") /\ stillOpen = Open(row)
  BY DEF phase, stillOpen, Unreviewed

\* A step of a request in approval moves the promise to the rows it leaves open.
LEMMA PromiseMoves ==
  ASSUME InOrder', status' \notin Unreviewed
  PROVE  Promise!Is(Open(row)')
  BY DEF phase, stillOpen, Promise!Is, Unreviewed

LEMMA DecideStep ==
  ASSUME TypeOK, RowsInv, InOrder, InOrder', NEW s \in Steps, NEW d \in {"APPROVED", "skip:retired"},
         row[s] = "PENDING", status' = status,
         row' = Promoted([row EXCEPT ![s] = d], money, staff)
  PROVE  Promise!Decide
<1> DEFINE rows == [row EXCEPT ![s] = d]
<1>1. rows \in [Steps -> Decisions] /\ Pending(rows) = {} /\ Waiting(rows) = Waiting(row)
  BY DecidedRows DEF RowsInv
<1>2. row' = Promoted(rows, money, staff)
  OBVIOUS
<1>3. rows[s] = d
  <2>1. row \in [Steps -> Decisions]
    BY DEF TypeOK
  <2> QED  BY <2>1
<1> HIDE DEF rows
<1>4. row'[s] = d
  <2>1. rows[s] # "WAITING"
    BY <1>3
  <2>2. Promoted(rows, money, staff)[s] = rows[s]
    BY <1>1, <2>1, PromotedKeeps
  <2> QED  BY <1>2, <1>3, <2>2
<1>5. Waiting(row') \subseteq Waiting(row)
  BY <1>1, <1>2, PromotedShape
<1>6. Pending(row') \subseteq Waiting(row)
  BY <1>1, <1>2, PromotedChain, CurrentIsWaiting
<1>7. Open(row)' \in SUBSET Open(row) /\ s \in Open(row) /\ s \notin Open(row)'
  BY <1>4, <1>5, <1>6 DEF Open, Pending, Waiting
<1>8. status \notin Unreviewed
  BY <1>7 DEF RowsInv, Started, InApproval, ReviewSteps, Unreviewed
<1>9. phase = "review" /\ stillOpen = Open(row)
  BY <1>7, <1>8, PhaseOfOpenRequest
<1>10. Promise!Before(s) = {}
  <2>1. \A t \in Waiting(row) : s < t
    BY DEF RowsInv, Shape, Pending
  <2>2. \A t \in Pending(row) : t = s
    BY DEF RowsInv, Shape, Pending
  <2> QED  BY <1>9, <2>1, <2>2, StepsArePositive DEF Promise!Before, Open, Waiting
<1>11. Promise!Is(Open(row)')
  BY <1>8, PromiseMoves
<1> QED  BY <1>7, <1>9, <1>10, <1>11 DEF Promise!Decide

\* Every step is a step of the promise or none.
LEMMA PromiseStep ==
  ASSUME TypeOK, InOrderInv, [Next]_vars
  PROVE  [Promise!Next]_<<phase, stillOpen>>
<1> USE DEF vars, request
<1>0. CASE ~InOrder'
  BY <1>0 DEF phase, stillOpen, Promise!GoAstray, Promise!Next
<1> SUFFICES ASSUME InOrder' PROVE [Promise!Next]_<<phase, stillOpen>>
  BY <1>0
<1>1. InOrder /\ RowsInv
  BY StaysAstray, InOrderStep DEF ChainInv
<1>2. ASSUME NEW w \in Workers, NEW m, Writes(w, m) PROVE Relies(call[w])
  BY <1>2, InOrderStep
<1>3. ASSUME UNCHANGED <<row, status>> PROVE UNCHANGED <<phase, stillOpen>>
  BY <1>1, <1>3 DEF phase, stillOpen, Open, Pending, Waiting
<1>4. InApproval \cap Unreviewed = {} /\ "APPROVED" \notin Unreviewed
  BY DEF InApproval, ReviewSteps, Unreviewed
<1>5. ASSUME UNCHANGED row, {status, status'} \cap Unreviewed = {}
      PROVE  UNCHANGED <<phase, stillOpen>>
  BY <1>1, <1>5 DEF phase, stillOpen, Open, Pending, Waiting, Unreviewed
<1>6. ASSUME NEW w \in Workers, submitCommit(w) PROVE Promise!Submit
  <2> DEFINE next == Current([s \in Steps |-> "WAITING"], money, staff)
  <2>1. canTransition(status, "SUBMITTED") /\ \A s \in Steps : row[s] = "none"
    BY <1>2, <1>6 DEF submitCommit, Relies
  <2>2. status = "DRAFT"
    BY <1>1, <2>1, ForbiddenMoves, ReviewStatuses DEF RowsInv, Started
  <2>3. [s \in Steps |-> "WAITING"] \in [Steps -> Decisions]
    BY DEF Decisions
  <2>4. next \in {0} \cup Steps
    BY <2>3, CurrentIsAStep
  <2>5. status' = statusOf(next)
    BY <1>6 DEF submitCommit
  <2> HIDE DEF next
  <2>6. status' \notin Unreviewed
    BY <1>4, <2>4, <2>5, ReviewStatuses
  <2>7. Promise!Is(Open(row)')
    BY <2>6, PromiseMoves
  <2>8. Open(row)' \in SUBSET Steps
    BY DEF Open, Pending, Waiting
  <2> QED  BY <1>1, <2>2, <2>7, <2>8 DEF Promise!Submit, phase
<1>7. ASSUME NEW w \in Workers, approveCommit(w) PROVE Promise!Decide
  <2>1. call[w].step \in Steps /\ row[call[w].step] = "PENDING"
    BY <1>2, <1>7, CallArguments DEF approveCommit, Relies
  <2> QED  BY <1>1, <1>7, <2>1, DecideStep DEF approveCommit, approved
<1>8. ASSUME NEW w \in Workers, stageCommit(w) PROVE Promise!Decide
  <2>1. call[w].step \in Steps /\ row[call[w].step] = "PENDING"
    BY <1>2, <1>8, CallArguments DEF stageCommit, Relies
  <2> QED  BY <1>1, <1>8, <2>1, DecideStep DEF stageCommit, approved
<1>9. ASSUME NEW w \in Workers, publish(w) PROVE UNCHANGED <<phase, stillOpen>>
  <2>1. status \in InApproval \cup {"APPROVED"} /\ call[w].step \in {0} \cup Steps
    BY <1>2, <1>9, CallArguments DEF publish, Relies
  <2>2. status' \in InApproval \cup {"APPROVED"}
    BY <1>9, <2>1, ReviewStatuses DEF publish
  <2> QED  BY <1>4, <1>5, <1>9, <2>1, <2>2 DEF publish
<1>10. ASSUME NEW w \in Workers, finish(w) PROVE UNCHANGED <<phase, stillOpen>>
  <2>1. status = "APPROVED" /\ status' \in {"APPROVED", "ASSIGNED"} /\ row' = row
    BY <1>2, <1>10 DEF finish, Relies
  <2> QED  BY <1>5, <2>1 DEF Unreviewed
<1>11. ASSUME NEW w \in Workers, rejectCommit(w) PROVE Promise!Reject
  <2>1. call[w].step \in Steps /\ row[call[w].step] = "PENDING"
    BY <1>2, <1>11, CallArguments DEF rejectCommit, Relies
  <2>2. Open(row) # {} /\ status \notin Unreviewed
    BY <1>1, <1>4, <2>1 DEF RowsInv, Started, Open, Pending
  <2>3. [row EXCEPT ![call[w].step] = "REJECTED"] \in [Steps -> Decisions]
    BY DEF TypeOK, Decisions
  <2>4. Open(row)' = {} /\ status' = "REJECTED"
    BY <1>11, <2>3, ClosedRows DEF rejectCommit
  <2>5. phase = "review"
    BY <1>1, <2>2, PhaseOfOpenRequest
  <2> QED  BY <2>4, <2>5 DEF phase, stillOpen, Promise!Reject
\* Cancelling twice is no step of the promise.
<1>12. ASSUME canTransition(status, "CANCELLED"), status' = "CANCELLED", Open(row)' = {}
       PROVE  [Promise!Next]_<<phase, stillOpen>>
  <2>1. CASE status = "CANCELLED"
    <3>1. Open(row) = {}
      BY <1>1, <1>4, <2>1 DEF RowsInv, Started, Unreviewed
    <3> QED  BY <1>1, <1>12, <2>1, <3>1 DEF phase, stillOpen
  <2>2. CASE status # "CANCELLED"
    <3>1. status # "REJECTED"
      BY <1>12, <2>2, ForbiddenMoves DEF Terminal
    <3>2. Promise!Cancel
      BY <1>1, <1>12, <2>2, <3>1 DEF phase, stillOpen, Promise!Cancel
    <3> QED  BY <3>2 DEF Promise!Next
  <2> QED  BY <2>1, <2>2
<1>13. ASSUME NEW w \in Workers, cancelCommit(w) PROVE [Promise!Next]_<<phase, stillOpen>>
  <2>1. canTransition(status, "CANCELLED")
    BY <1>2, <1>13 DEF cancelCommit, Relies
  <2>2. status' = "CANCELLED" /\ Open(row)' = {}
    BY <1>13, ClosedRows DEF cancelCommit, TypeOK
  <2> QED  BY <1>12, <2>1, <2>2
<1>14. ASSUME NEW w \in Workers, advanceCommit(w) PROVE [Promise!Next]_<<phase, stillOpen>>
  <2>1. PICK m : Writes(w, m) /\ m = {x \in {"bypassed"} : bypasses(call[w].to)}
    BY <1>14 DEF advanceCommit
  <2>2. ~bypasses(call[w].to) /\ canTransition(status, status')
    BY <1>2, <1>14, <2>1, WritesInOrder DEF advanceCommit, Relies
  <2>3. row' = row /\ Open(row)' = Open(row)
    BY <1>14 DEF advanceCommit, Open, Pending, Waiting
  <2>4. CASE status' = status
    BY <1>3, <2>3, <2>4
  <2>5. CASE status' # status
    <3>1. Open(row) = {} /\ {status, status'} \cap InApproval = {}
      BY <1>14, <2>2, <2>5 DEF advanceCommit, bypasses
    <3>2. CASE status' = "CANCELLED"
      BY <1>12, <2>2, <2>3, <3>1, <3>2
    <3>3. CASE status' # "CANCELLED"
      <4>1. {status, status'} \cap Unreviewed = {}
        BY <2>2, <2>5, <3>1, <3>3 DEF canTransition, Moves, InApproval, ReviewSteps, Unreviewed
      <4> QED  BY <1>5, <2>3, <4>1
    <3> QED  BY <3>2, <3>3
  <2> QED  BY <2>4, <2>5
<1>15. ASSUME NEW w \in Workers, reopenCommit(w) PROVE Promise!Reopen
  <2>1. status = "APPROVED" /\ status' = "APPROVED" /\ Open(row) = {}
    BY <1>2, <1>15 DEF reopenCommit, Relies
  <2>2. Open(row)' \in SUBSET Steps
    BY DEF Open, Pending, Waiting
  <2>3. phase = "approved" /\ Promise!Is(Open(row)')
    BY <1>1, <1>4, <2>1, PromiseMoves, PhaseOfOpenRequest
  <2> QED  BY <2>2, <2>3 DEF Promise!Reopen
<1>16. ASSUME NEW w \in Workers, retireStep(w) PROVE Promise!Decide \/ Promise!Remove
  <2>1. status \in InApproval /\ status' = status /\ status \notin Unreviewed
    BY <1>4, <1>16 DEF retireStep
  <2>2. ASSUME NEW s \in Steps, s \in Waiting(row), row' = [row EXCEPT ![s] = "none"]
        PROVE  Promise!Remove
    <3>1. PICK p \in Pending(row) : p < s
      BY <1>1, <2>2 DEF RowsInv, Shape
    <3>2. s \in Open(row) /\ p \in Open(row)
      BY <2>2 DEF Open
    <3>3. phase = "review" /\ stillOpen = Open(row)
      BY <1>1, <2>1, <3>2, PhaseOfOpenRequest
    <3>4. s \in stillOpen /\ Promise!Before(s) # {}
      BY <3>1, <3>2, <3>3 DEF Promise!Before
    <3>5. Open(row)' = Open(row) \ {s}
      BY <2>2 DEF Open, Pending, Waiting, TypeOK
    <3>6. Promise!Is(Open(row)')
      BY <2>1, PromiseMoves
    <3> QED  BY <3>3, <3>4, <3>5, <3>6 DEF Promise!Remove
  <2>3. ASSUME NEW s \in Steps, s \in Pending(row),
               row' = Promoted([row EXCEPT ![s] = "skip:retired"], money, staff)
        PROVE  Promise!Decide
    BY <1>1, <2>1, <2>3, DecideStep DEF Pending
  <2> QED  BY <1>16, <2>2, <2>3 DEF retireStep
<1>17. ASSUME NEW w \in Workers, Step(w) PROVE [Promise!Next]_<<phase, stillOpen>>
  <2>1. \/ UNCHANGED <<row, status>>
        \/ submitCommit(w) \/ approveCommit(w) \/ stageCommit(w) \/ publish(w) \/ finish(w)
        \/ rejectCommit(w) \/ cancelCommit(w) \/ advanceCommit(w) \/ reopenCommit(w) \/ retireStep(w)
    BY <1>17 DEF Step, submitBegin, approveBegin, rejectBegin, advanceBegin, cancelBegin, assessBegin,
                 assessSave, reopenBegin, stageBegin, settle, refuse, crash, Begin
  <2> QED
    BY <1>3, <1>6, <1>7, <1>8, <1>9, <1>10, <1>11, <1>13, <1>14, <1>15, <1>16, <2>1 DEF Promise!Next
<1> QED  BY <1>3, <1>17 DEF Next, staffMoves

\* A request keeps the promise of its chain, whatever calls overlap and wherever a
\* process stops, until it is bypassed or a call writes on what it read before.
THEOREM KeepsPromise == Spec => ImplementsPromise
<1>1. Init => Promise!Init
  BY DEF Init, InOrder, Promise!Init, phase, stillOpen, Open, Pending, Waiting
<1>2. TypeOK /\ InOrderInv /\ [Next]_vars => [Promise!Next]_<<phase, stillOpen>>
  BY PromiseStep
<1> QED  BY <1>1, <1>2, ChainHolds, PTL DEF Spec, ImplementsPromise, Promise!Spec

=============================================================================

------------------------------ MODULE OfflineSync ------------------------------
(***************************************************************************)
(* What a phone records without signal and sends later: its queue          *)
(* (apps/mobile/src/lib/offline-queue.ts, sync-service.ts), the upload of  *)
(* a batch (apps/api/src/mobile/mobile-sync.service.ts) and the rules both *)
(* share (packages/domain/src/offline-sync.ts).                            *)
(*                                                                         *)
(* All operations here concern one thing: an asset, whose value is its     *)
(* holder, or a shelf, whose value is the quantity on it.  Others change   *)
(* it meanwhile.  A scan of a stock-take only leaves a row behind.         *)
(***************************************************************************)
EXTENDS Integers, FiniteSets, FiniteSetsExt

CONSTANTS MaxOps,    \* bound on the operations recorded on the phone
          MaxValue,  \* bound on the holders, and on what others leave on a shelf
          Moves,     \* the handovers, returns and counts recorded: seen, target
          MaxFaults, \* bound on lost connections, stops and failed statements
          Workers    \* uploads the servers may be working on together

ASSUME OfflineAssumption ==
  /\ MaxOps \in Nat /\ MaxFaults \in Nat
  /\ MaxValue \in Nat \ {0}
  /\ Moves \subseteq {m \in [seen : 0..MaxValue, target : 0..MaxValue] : m.seen # m.target}

\* Operations are numbered as they are captured, which is the order of replay.
Ops == 1..MaxOps
NoOp == 0
Values == 0..MaxValue   \* of an asset: 0 is nobody
Nobody == 0

VARIABLES shelf,   \* the thing is a shelf, not an asset
          value,   \* its holder or its quantity, on the server
          op,      \* what was recorded
          queue,   \* QUEUE_KEY: operations kept on the phone
          held,    \* OUTCOMES_KEY: those the server did not apply
          phone,   \* the upload the phone is making
          job,     \* the upload each worker is applying
          receipts,    \* clientGeneratedIds the server has stored
          applied,     \* history: how often an operation changed the thing
          discarded,   \* history: operations the person discarded
          overtaken,   \* history: operations recorded during an upload
          disturbed,   \* history: operations decided on what then changed
          unsettled,   \* history: operations sent again too early, or left without a receipt
          faults       \* history: how many faults there were
device  == <<queue, held, phone>>
history == <<discarded, overtaken, disturbed, unsettled, faults>>
vars == <<shelf, value, op, device, job, receipts, applied, history>>

None == [seen |-> Nobody, target |-> Nobody]
Scan == [scan |-> TRUE]
Operations == {Scan} \cup Moves

NoPhone == [pc |-> "idle", queue |-> {}, held |-> {}, done |-> {}, kept |-> {}]
NoJob == [pc |-> "idle", todo |-> {}, read |-> 0, done |-> {}, kept |-> {}, heard |-> FALSE]

TypeOK ==
  /\ shelf \in BOOLEAN
  /\ value \in Nat
  /\ op \in [Ops -> Operations \cup {None}]
  /\ queue \subseteq Ops /\ held \subseteq Ops
  /\ phone \in [pc : {"idle", "waiting", "queue", "outcomes"}, queue : SUBSET Ops,
                held : SUBSET Ops, done : SUBSET Ops, kept : SUBSET Ops]
  /\ job \in [Workers -> [pc : {"idle", "look", "read", "write", "receipt"},
                          todo : SUBSET Ops, read : Nat, done : SUBSET Ops,
                          kept : SUBSET Ops, heard : BOOLEAN]]
  /\ receipts \subseteq Ops
  /\ applied \in [Ops -> Nat]
  /\ discarded \subseteq Ops /\ overtaken \subseteq Ops
  /\ disturbed \subseteq Ops /\ unsettled \subseteq Ops
  /\ faults \in 0..MaxFaults

-----------------------------------------------------------------------------
(* The rules: packages/domain/src/offline-sync.ts *)

\* Mutant: a change is applied whatever came in between.
decideAlways(o, now) == "APPLY"

\* decideCustody and decideStockCount.  A count that confirms what the phone saw
\* is applied; a handover to the holder is already done.
decide(o, now) ==
  CASE now = op[o].seen   -> "APPLY"
    [] now = op[o].target /\ now # op[o].seen -> "ALREADY_DONE"
    [] OTHER -> "CONFLICT"

\* Mutant: whatever the server answered leaves the queue.
dropAnswered(operations, done, kept) == operations \ (done \cup kept)

operationsToRetain(operations, done, kept) == operations \ done

-----------------------------------------------------------------------------
(* The phone *)

Recorded == {o \in Ops : op[o] # None}
Unrecorded == Ops \ Recorded

\* recordOffline, and a scan: enqueue.
record(o) ==
  /\ o \in Unrecorded /\ o = Min(Unrecorded)
  /\ \E what \in Operations : op' = [op EXCEPT ![o] = what]
  /\ queue' = queue \cup {o}
  /\ overtaken' = IF phone.pc \in {"waiting", "queue"} THEN overtaken \cup {o} ELSE overtaken
  /\ UNCHANGED <<shelf, value, held, phone, job, receipts, applied>>
  /\ UNCHANGED <<discarded, disturbed, unsettled, faults>>

Go(w, j) == job' = [job EXCEPT ![w] = j]

Current(w) == Min(job[w].todo)
InProgress(o) == {w \in Workers : o \in job[w].todo}

sendable == queue \ held

\* sendNow, flush: the queue and the outcomes are read, then uploaded.  One
\* upload at a time, but the server may still be at an earlier one.
flush(w) ==
  /\ phone.pc = "idle"
  /\ job[w].pc = "idle"
  /\ sendable # {}
  /\ phone' = [NoPhone EXCEPT !.pc = "waiting", !.queue = queue, !.held = held]
  /\ Go(w, [NoJob EXCEPT !.pc = "look", !.todo = sendable, !.heard = TRUE])
  /\ unsettled' = unsettled \cup {o \in sendable : InProgress(o) # {}}
  /\ UNCHANGED <<shelf, value, op, queue, held, receipts, applied, discarded, overtaken, disturbed, faults>>

Fault == faults < MaxFaults /\ faults' = faults + 1

\* The connection is lost: the queue is left untouched.
giveUp ==
  /\ phone.pc = "waiting"
  /\ phone' = NoPhone
  /\ job' = [w \in Workers |-> [job[w] EXCEPT !.heard = FALSE, !.done = {}, !.kept = {}]]
  /\ Fault
  /\ UNCHANGED <<shelf, value, op, queue, held, receipts, applied, discarded, overtaken, disturbed, unsettled>>

\* The results arrive: what was applied is dropped from the queue that was read.
saveQueue ==
  /\ phone.pc = "queue"
  /\ queue' = operationsToRetain(phone.queue, phone.done, phone.kept)
  /\ phone' = [phone EXCEPT !.pc = "outcomes"]
  /\ UNCHANGED <<shelf, value, op, held, job, receipts, applied, history>>

\* Mutant: the outcomes are not stored.
outcomesForgotten == phone.held

outcomes ==
  (phone.held \cup phone.kept) \cap operationsToRetain(phone.queue, phone.done, phone.kept)

saveOutcomes ==
  /\ phone.pc = "outcomes"
  /\ held' = outcomes
  /\ phone' = NoPhone
  /\ UNCHANGED <<shelf, value, op, queue, job, receipts, applied, history>>

\* The person discards what came back.
discard(o) ==
  /\ o \in held \cap queue
  /\ queue' = queue \ {o}
  /\ held' = held \ {o}
  /\ discarded' = discarded \cup {o}
  /\ UNCHANGED <<shelf, value, op, phone, job, receipts, applied, overtaken, disturbed, unsettled, faults>>

\* The application is closed; what it stored stays.
closeApp ==
  /\ phone.pc # "idle"
  /\ phone' = NoPhone
  /\ job' = [w \in Workers |-> [job[w] EXCEPT !.heard = FALSE, !.done = {}, !.kept = {}]]
  /\ Fault
  /\ UNCHANGED <<shelf, value, op, queue, held, receipts, applied, discarded, overtaken, disturbed, unsettled>>

-----------------------------------------------------------------------------
(* The server: applyOne, applyRecorded, moveCustody, countStock *)

\* The operation in hand is settled; the next one follows, or the answer.
Settled(w, done) ==
  Go(w, [job[w] EXCEPT !.pc = "look", !.read = 0, !.todo = @ \ {Current(w)},
                       !.done = IF done /\ job[w].heard THEN @ \cup {Current(w)} ELSE @,
                       !.kept = IF ~done /\ job[w].heard THEN @ \cup {Current(w)} ELSE @])
Goto(w, pc, read) == Go(w, [job[w] EXCEPT !.pc = pc, !.read = read])

AtOp(w, pc) == job[w].pc = pc /\ job[w].todo # {}

\* The changes that W have decided to apply and not yet written.
Decided(W) ==
  {o \in Ops : op[o] # Scan /\ \E w \in W : job[w].pc \in {"read", "write"} /\ Current(w) = o}

\* Mutant: the server does not look for the receipt.
notLooked(o) == FALSE

alreadyApplied(o) == o \in receipts

\* The lookup on clientGeneratedId, and the decision on what is there now.
look(w) ==
  LET o == Current(w) IN
  /\ AtOp(w, "look")
  /\ \/ alreadyApplied(o) /\ Settled(w, TRUE)
     \/ ~alreadyApplied(o) /\ op[o] = Scan /\ Goto(w, "write", 0)
     \/ /\ ~alreadyApplied(o) /\ op[o] # Scan
        /\ \/ decide(o, value) = "APPLY" /\ Goto(w, "read", 0)
           \/ decide(o, value) = "ALREADY_DONE" /\ Goto(w, "receipt", 0)
           \/ decide(o, value) = "CONFLICT" /\ Settled(w, FALSE)
  /\ UNCHANGED <<shelf, value, op, device, receipts, applied, history>>

\* The online service reads again.  A handover needs the asset free, a return or
\* reassignment needs a holder, and other rules of theirs may refuse either; a
\* count whose number is already there changes nothing.
readAgain(w) ==
  LET o == Current(w) IN
  /\ AtOp(w, "read")
  /\ \/ ~shelf /\ Settled(w, FALSE)
     \/ ~shelf /\ (op[o].seen = Nobody <=> value = Nobody) /\ Goto(w, "write", 0)
     \/ shelf /\ value = op[o].target /\ Goto(w, "receipt", 0)
     \/ shelf /\ value # op[o].target /\ Goto(w, "write", value)
  /\ UNCHANGED <<shelf, value, op, device, receipts, applied, history>>

\* A handover is written as it is; a count posts the difference it read.
written(w) ==
  IF shelf THEN value + op[Current(w)].target - job[w].read ELSE op[Current(w)].target

Count(o) == applied' = [applied EXCEPT ![o] = @ + 1]

\* Mutant: the guard on the quantity is gone.
writeUnguarded(w) ==
  LET o == Current(w) IN
  /\ AtOp(w, "write") /\ op[o] # Scan
  /\ value' = written(w) /\ Count(o) /\ Goto(w, "receipt", 0)
  /\ disturbed' = disturbed \cup Decided(Workers \ {w})
  /\ UNCHANGED <<shelf, op, device, receipts, discarded, overtaken, unsettled, faults>>

\* The transaction of the online service: guardedTake may find too little.
write(w) ==
  LET o == Current(w) IN
  /\ AtOp(w, "write") /\ op[o] # Scan
  /\ \/ written(w) < 0 /\ Settled(w, FALSE) /\ UNCHANGED <<value, applied>>
     \/ written(w) >= 0 /\ value' = written(w) /\ Count(o) /\ Goto(w, "receipt", 0)
  /\ disturbed' = disturbed \cup Decided(Workers \ {w})
  /\ UNCHANGED <<shelf, op, device, receipts, discarded, overtaken, unsettled, faults>>

\* The row of a scan carries the identifier itself, and is unique on it.
writeScan(w) ==
  LET o == Current(w) IN
  /\ AtOp(w, "write") /\ op[o] = Scan
  /\ receipts' = receipts \cup {o}
  /\ IF o \in receipts THEN UNCHANGED applied ELSE Count(o)
  /\ Settled(w, TRUE)
  /\ UNCHANGED <<shelf, value, op, device, history>>

\* offlineOperationReceipt.create; a second one collapses to a duplicate.
writeReceipt(w) ==
  /\ AtOp(w, "receipt")
  /\ receipts' = receipts \cup {Current(w)}
  /\ Settled(w, TRUE)
  /\ UNCHANGED <<shelf, value, op, device, applied, history>>

\* A statement after the change fails, and the operation is reported refused.
failReceipt(w) ==
  /\ AtOp(w, "receipt")
  /\ Settled(w, FALSE)
  /\ unsettled' = unsettled \cup {Current(w)}
  /\ Fault
  /\ UNCHANGED <<shelf, value, op, device, receipts, applied, discarded, overtaken, disturbed>>

\* The answer, if the phone still waits for it.
answer(w) ==
  LET j == job[w] IN
  /\ j.pc = "look" /\ j.todo = {}
  /\ phone' = IF j.heard THEN [phone EXCEPT !.pc = "queue", !.done = j.done, !.kept = j.kept]
              ELSE phone
  /\ Go(w, NoJob)
  /\ UNCHANGED <<shelf, value, op, queue, held, receipts, applied, history>>

\* The API process stops: whatever the phone waited for is an error.
stop(w) ==
  /\ job[w].pc # "idle"
  /\ phone' = IF job[w].heard THEN NoPhone ELSE phone
  /\ Go(w, NoJob)
  /\ unsettled' = IF AtOp(w, "receipt") THEN unsettled \cup {Current(w)} ELSE unsettled
  /\ Fault
  /\ UNCHANGED <<shelf, value, op, queue, held, receipts, applied, discarded, overtaken, disturbed>>

\* Somebody else hands the asset on, or moves stock.
others ==
  /\ value' \in Values \ {value}
  /\ disturbed' = disturbed \cup Decided(Workers)
  /\ UNCHANGED <<shelf, op, device, job, receipts, applied, discarded, overtaken, unsettled, faults>>

-----------------------------------------------------------------------------

Init ==
  /\ shelf \in BOOLEAN
  /\ value \in Values
  /\ op = [o \in Ops |-> None]
  /\ queue = {} /\ held = {} /\ phone = NoPhone
  /\ job = [w \in Workers |-> NoJob]
  /\ receipts = {}
  /\ applied = [o \in Ops |-> 0]
  /\ discarded = {} /\ overtaken = {} /\ disturbed = {} /\ unsettled = {} /\ faults = 0

\* What goes on by itself.
serve(w) ==
  \/ look(w) \/ readAgain(w)
  \/ write(w) \/ writeScan(w) \/ writeReceipt(w) \/ answer(w)

Next ==
  \/ \E o \in Ops : record(o) \/ discard(o)
  \/ \E w \in Workers :
       \/ flush(w) \/ look(w) \/ readAgain(w) \/ write(w)
       \/ writeScan(w) \/ writeReceipt(w) \/ failReceipt(w) \/ answer(w) \/ stop(w)
  \/ saveQueue \/ saveOutcomes \/ giveUp \/ closeApp \/ others

Spec == Init /\ [][Next]_vars

\* The application tries again by itself, on a timer and whenever it comes to the
\* front; an upload that arrived is worked on.
Fairness ==
  /\ \A w \in Workers : WF_vars(flush(w)) /\ WF_vars(serve(w))
  /\ WF_vars(saveQueue) /\ WF_vars(saveOutcomes)

FairSpec == Spec /\ Fairness

-----------------------------------------------------------------------------
(* Properties *)

\* A handover, count or scan changes the register once however often it is
\* uploaded, unless it was sent again while the server was still at an earlier
\* upload of it, or a stop or an error came between its application and its receipt.
AppliedOnce == \A o \in Ops : applied[o] <= 1 \/ o \in unsettled

\* A change is applied only to what the phone saw: it never silently undoes
\* somebody else's, unless that came between the decision and the write.
UndoesNobody ==
  [][\A o \in Ops : (op[o] \in Moves /\ applied'[o] > applied[o])
        => (value = op[o].seen \/ o \in disturbed)]_vars

\* Whatever was recorded is on the phone until the server has it or the person
\* discards it, unless it was recorded while an upload was being made.
NothingLost == Recorded \subseteq queue \cup receipts \cup discarded \cup overtaken

\* Once the faults are over, all that stays on the phone waits for the person.
QueueDrains == <>[](queue \subseteq held)

=============================================================================

# TechpioAsset: models, checks and proofs

TechpioAsset keeps an organisation's equipment: who has which laptop, which
software seats are taken, who asked for what and who approved it. The API
(`apps/api/src`, NestJS on Prisma and Postgres) decides everything; the web
application, the mobile application and the Windows agent are its clients, and
`packages/domain` holds the rules all of them share.

This directory models the parts of the system where state lives long and several
people change it: software licences, the approval of requests, the stock a
request is promised, the custody of an asset, the consumables on the shelves, a
purchase from its request to its goods, sign-in sessions, and the queue of a
phone that works offline. Each part is a TLA+ module,
model-checked with TLC on small instances and proved about with TLAPS for every
value of its constants.

Contents: [inventory](#inventory), [how the code runs](#how-the-code-runs-and-how-it-is-modelled),
[modules](#modules), [checks](#checks), [proofs](#proofs),
[departures met while modelling](#departures-met-while-modelling),
[what is not modelled](#what-is-not-modelled), [plan](#plan), [running](#running).

## Inventory

| Component | State it keeps | Operations | Talks to | What is hard | What makes it correct |
|---|---|---|---|---|---|
| Licences (`licenses/`) | licence, seat pool with a stored counter, assignment rows | assign, bulk assign, revoke, transfer, renew, update, remove; nightly sweep | requests, sweep, Microsoft 365 mirror | counter against rows under overlapping calls; renewal from an earlier read | counter within the allocation, equal to the rows until a row is closed twice; one seat per holder |
| Requests: chain (`requests/requests.service.ts`, `workflow.service.ts`) | request status, current step, one row per step | submit, decide, advance, cancel, step retired | assessments, maintenance, notifications | rows and status in different statements; skipped, staffed and retired steps; corrections | one step at a time, in order; status follows the rows; closed is final; somebody decides |
| Requests: assessment and stock (`requests/assessments.service.ts`) | price, stock answer, named unit | upsert, reserve, release, complete stages, hand over | chain, assets | several requests naming one unit | one promise per unit; nobody gives back another's |
| Workflow settings (`requests/workflows.service.ts`) | definitions and their ordered steps | edit, reorder, retire | requests in flight | renumbering under a unique index | in-flight chains go on in order |
| Assets: custody (`assets/assets.service.ts`, `custody-record.ts`) | status, named holder, handover rows, receipts, returns, office transfers, disposal | change status, assign, confirm receipt, return, reassign, remove, dispose, transfer, receive | maintenance, requests, mobile | three records of one fact; old receipts; half-finished repairs | one open handover, that of the holder; evidence of every return |
| Assets: import, photos, prices | the register | import, upload | custody | re-import over live custody | as custody |
| Maintenance (`maintenance/`) | work orders, repair status | report, start, finish, approve | custody, lifecycle | sign-off after the asset moved on | the repaired asset returns to its holder |
| Lifecycle (`lifecycle/`) | reservations, offboarding | reserve, release, offboard | custody | | |
| Stock (`stock/`, `procurement/quality-check.service.ts`) | quantity and reservation per place, lots, quantity on hand, what people hold, the movements | issue, return, adjust, transfer, reserve, release, count, convert, consume, receive, inspect | requests, procurement, maintenance, mobile | five records of one quantity; plans made before a transaction; rejected goods already gone | every record is what its movements add up to; reserved stock is there; nobody gives back more than they had |
| Procurement, RFQ, budgets | purchase requests, budgets, requests for quotes, quotes, orders, receipts | raise, approve, ask, answer, award, convert, issue, receive, cancel | stock, vendors, assets | decisions on a status read earlier; receipts of one order side by side; money given back on several paths | never overspent, committed while spent and released once; only the winner is ordered; an order follows its lines |
| Invoices, expenses | documents, verification | upload, extract, verify, approve | procurement | | |
| Sessions (`auth/`, the API clients of web and phone) | refresh-token families, the token each device holds, the account status | sign in, refresh, sign out, change password, suspend, delete | users | a refresh retried, made twice at once, or beside a sweep; answers that are lost | one usable token per family; a family ends whole; reuse only after a loss; suspension ends sessions |
| Mobile sync (`mobile/`, queue of the phone) | queued operations, outcomes, receipts | record, upload, decide, apply, answer, discard | custody, stock | uploads repeated, late, cut off; changes by others in between | applied once, on what the phone saw; nothing lost; the queue drains |
| Scheduled (`scheduled/`) | marks of what was told | expiry, escalation, reminders, reports | everything | two servers sweeping; a sweep that stops part way | told once |
| Agent, discovery (`discovery/`) | tokens, device reports | enrol, check in, match | assets | | |
| Integrations | webhooks, SCIM users, Microsoft licences | deliver, provision, mirror | remote systems | retries | |
| Access control | roles, scopes, delegation | check | everything | authority of delegates | |
| Tenancy (`prisma/`) | | transaction and filters of a request | everything | | |
| Reading side, configuration, deployment | | | | | |

`PROJECT.json` lists the same components with their sources and whether they are
modelled, and the hazards at the lines where they bite.

## How the code runs and how it is modelled

Handlers are `async`, run by several API processes, on Postgres at READ
COMMITTED without `SELECT ... FOR UPDATE`. A Prisma `$transaction` is atomic;
every other statement commits alone. So in every module:

* a **worker** is an API call in progress, with a program counter and what it
  has read, in the variable `call`;
* what a call reads and decides before its first write is one step (`...Begin`);
* each transaction, and each write outside one, is one step (`...Commit`, or
  named for the function that writes);
* between two steps any other worker may run, and the call may be refused or
  its process stop (`abort`, `stop`, `refuse`, `crash`, `giveUp`).

A call that reads and then writes one row by its id has two actions, named
`read...` and for the function (`Purchasing`, `StockLedger`); a call whose own
statement carries the condition, or whose transaction does all of it, has one.

`Workers = {w1}` gives calls that never overlap, although each may still stop
half-way and other actors (time, people joining roles, work orders) move in
between. `Workers = {w1, w2}` gives every interleaving of two calls. `RLS_ENFORCE`
(off by default) puts each HTTP request in one transaction; that transaction is
still READ COMMITTED, so its statements interleave as modelled, but its writes
roll back together: the `crash` of `RequestApproval` then does not happen.

Constraints that the database enforces are part of the steps that meet them: the
CHECK and the partial unique indexes of the licence migration, the unique
(request, step) index, the CHECK `assets_holder_matches_status`, the one
`AssetReturn` per handover, the unique `clientGeneratedId` of a receipt, the CHECK of
a budget and `quotes_only_awarded_converts`. A write that would break one does not
happen.

Some variables are history: they influence no action and only record what the
code does not prevent: writes on a read that no longer held (`overtaken`, `outdated`,
`late`), rows closed twice (`closedAgain`), calls beside a removal (`spans`,
`besides`), units claimed at once (`contested`), people and families two calls worked
on at once (`disturbed`), uploads cut off (`unsettled`). Where the code gives up a
guarantee under an overlap, the property names through them the ways to the bad
state that the code leaves open, and says that there is no other: a new way breaks
it. So it is checked and proved for calls that do overlap.

Simplifications common to all: reads of one call are one step; ids, names,
money other than threshold comparisons, audit records and notifications are left
out; permission checks are taken as passed.

## Modules

| Module | Extends | What it is |
|---|---|---|
| `LicenseSeats` | | seats of one licence with its default pool |
| `SeatAllotment` | | what a licence promises: a bounded set of holders |
| `RequestStatus` | | request statuses and the table of moves |
| `ApprovalChain` | | the rows of a chain and the rule that picks the next step, in closed form |
| `PromotionLoop` | `ApprovalChain` | the loop in the code that picks it, a turn at a time |
| `RequestApproval` | `ApprovalChain`, `RequestStatus` | one request from draft to close |
| `ApprovalPromise` | | what the chain promises: a set of open steps decided from the front, until the request goes astray |
| `StockPromise` | | several requests filled from one stock |
| `AssetStatus` | | asset statuses and the table of moves |
| `AssetCustody` | `AssetStatus` | one asset, its holder and the handovers behind the name |
| `StockLedger` | | one consumable item: places, lots, people and the movements |
| `Purchasing` | | purchase requests, a budget, quotes, orders and goods |
| `Sessions` | | the refresh tokens of one person and the devices that hold them |
| `OfflineSync` | | the queue of one phone and the server it is uploaded to |
| `MC...` | the module | constants and symmetry for TLC |
| `...Proofs` | the module, `TLAPS` | theorems and proofs |

### LicenseSeats

`seat` maps assignment rows to "unused", "revoked" or the active holder;
`reserved` and `allocated` are the pool's `seatsReserved` and `seatsAllocated`;
`purchased`, `status`, `expired`, `deleted` are the licence's. `assignBegin` and
`bulkAssignBegin` read and check as `assign` and the ATOMIC mode do;
`assignCommit` is the transaction: the conditional increment
(`UPDATE ... WHERE "seatsReserved" + n <= "seatsAllocated"`) and one new row per
holder. `revoke`, `transfer`, `renew`, `update`, `remove` and the licence sweep
each read in one step and write in the next, by id, as the code does. Mode
PARTIAL is one worker beginning several assigns. `closedAgain` counts the writes
that closed a row which was closed already: `revoke` and `transfer` find the row ACTIVE
and write it later by its id. `besides` are the rows opened by a call that overlapped a
removal. EXPIRING is not told apart from
ACTIVE, because no guard does. Further pools are left out: nothing in the
service creates one.

### RequestApproval, ApprovalChain, PromotionLoop

`row` holds the decision of each step (`none` before a row exists; a skipped row
carries why). `status` and `currentStep` are the request's. A decision writes
its rows in one transaction (`approveCommit`: the decision and
`promoteUntilStaffed`) and the status later (`publish`, in `decide`; `settle`
then `publish` where an answered stage or a retired step moved the chain). At the
end of a chain `finish` may raise a work order: `raiseWorkOrder` does so for a damage or
repair ticket that names an asset, and swallows every failure. Where an answer or a
retired step ended the chain it may also hand a reserved unit over. `assessSave`,
`reopenBegin`, `reopenCommit`, `stageBegin`, `stageCommit` are the statements of an
assessment; what it does to the unit it names is in `StockPromise`. `advanceBegin`
takes any status the table of moves allows, as the route does: a request in review
may be moved to APPROVED past its chain.

`staff` says whom a step finds (`resolveStepApprovers`, by which promotion skips) and
whether anybody may decide it (`assertCanDecide`), and changes at any time
(`staffMoves`). The two differ: a role without a single holder may be decided by a user
manager, and a department head may decide a step that finds nobody ("vacant"); a role
that the requester alone holds, or whose holders are suspended, has holders and nobody
who may decide ("blocked").

`outdated` are the calls after whose last read another call wrote; `astray` records that
such a call wrote ("overtaken"), that `advance` passed open steps or the chain by
("bypassed"), and that a process stopped between two writes ("stopped").

`Promoted` is the loop of `promoteUntilStaffed` in closed form: waiting steps are
skipped (filled from stock, below the inclusive threshold, nobody to decide
them unless it is the last one) up to the first that stands. That this is what
the loop does is not assumed: `PromotionLoop` takes the loop turn by turn, and
`LoopPromotes` is checked and proved.

Left out: more than four answered stages in one assessment (the guard in
`completeAssessmentStages` stops there and the next assessment goes on); a work order and the
hand-over are one step (`finish`); estimate and price are one amount.

### StockPromise

Each statement of an assessment is a step: `release` gives the unit named before
back if it is RESERVED, `check` looks at the asset and at the other open
requests, `refuse` ends the call where the unit is not free, `reserve` writes the asset,
`save` the answer. An answer may name a unit and still ask for a purchase, and then holds
nothing (`holding`), but its unit is given back when it is replaced. `issueBegin` and
`issueReservedStock` hand a unit over when a chain finishes; `close` ends a request;
`stop` ends a call anywhere. Assessments overlap, of one request or of several:
`contested` are the units that two calls had found free for different requests at once,
`outdated` the calls whose request got another answer after they read it, and
`abandoned` the units reserved for an answer that such a call overwrote or that was never
saved. What else may move a unit (a change of status, an assignment by hand) is in
`AssetCustody` and left out here.

### AssetCustody

`status` and `holder` are the asset row; `user`, `open`, `acked`, `returned` its
handovers: whom each row is for, which have no `returnedAt`, whose receipt is
confirmed, which have an `AssetReturn`; `sent` and `received` its office
transfers; `disposed` its disposal record. Confirming a receipt is two
statements (`acknowledgeRow`, `acknowledgeAsset`). `return` and `reassign` first
restore a missing handover row (`openAssignmentFor`, `ensureOpenAssignment` of
`custody-record.ts`), in a statement of its own, and then act on the newest open
row. `Write` is a write of the asset row that the CHECK lets through. Work orders
are reduced to `startRepair` and `approveRepair`, possible whenever the asset's
status allows, which is more than `maintenance.service.ts` does. Grades and
condition logs are left out: a grade moves a status only to DAMAGED, where a
change of status may go as well. Restoring a handover row, which closes a
stranger's row and opens the right one, is one step.

### StockLedger

A movement is never changed, so the table of movements is kept as sums: `ledger`
per place, `lotLedger` per lot, `issued` and `returned` per person. Beside them
stand the numbers the code keeps: `level` and `reserved` (StockLevel), `onHand`
(InventoryItem), `lot` (StockBatch). `guardedTake` is the conditional update every
operation that takes stock goes through; `takeStock` and `addStock` are what
each of them does to level, total and ledger in its transaction. `issue`,
`adjust`, `transfer`, `reserve`, `release`, `convertToAsset`, `receive` are one
step. A return (`returnFromUser`, `takeBack`), a stock-take (`countCorrection`,
`postCount`) and an issue from lots, earliest expiry first (`planIssue`,
`drawLots`), read before their transaction, so each has a step for the read and
one for the transaction, in which the guard must still hold. `inspect` takes rejected goods
out of the shelf if they are still there (`rejected`). The name and unit of an item, and the value of stock,
are left out.

### Purchasing

`status`, `held`, `orderOf` are the purchase request; `amount`, `committed` the
budget; `rfq`, `quote` the quotations; `order`, `received` the order and its
lines. `readX` and the function named in the code are the two halves of a call.
`approvePr` commits the estimate and approves in one transaction (`commit`: the
WHERE clause is the limit); `release` gives back what is held. `award` carries its own condition;
`recordResponse`, `decline`, `cancelRfq` write by id. `addToLines` is the part of
`receive` that locks and increments the lines, `receive` the commit: two
receipts on different lines are in their transactions together and do not see each
other's. `late` records a row whose status was written on a read that no longer
held. All requests are charged to one budget; the estimate is a parameter.
Left out: the assets a receipt creates, the receipt rows themselves (stock takes
them up in `StockLedger`), prices, numbering.

### Sessions

`family` and `life` are the rows of RefreshToken (a token is usable, rotated, or revoked
with a reason); `held` is the cookie or keystore of each device; `status` the
account. A phone has one refresh in flight at a time; so has each tab of a browser, but
its tabs share the cookie, and a browser has any number of them (`noRefreshInFlight`).
`refreshBegin`, `mark`, `issue`, `reuse`, `inactive` are the statements
of `rotate` and `AuthService.refresh`: sending the token and reading it are one step, the
first. `deliver` and `giveUp` are the fate of the
answer, `stop` that of the process. `signIn`, `signOut`, `revokeOthers`,
`changePassword`, `setStatus` and `softDelete` are what ends or starts families.
`outdated` records the families one of whose answers was lost or that two tabs
refreshed at once.
Left out: access tokens (they live minutes and are not checked against the
family), one-time codes, the lockout counter, verification links, expiry and
purge, impersonation.

### OfflineSync

All operations concern one thing, an asset whose value is its holder, or a shelf
whose value is a quantity; `others` changes it at any time. `record`, `flush`,
`saveQueue`, `saveOutcomes`, `discard`, `closeApp` are the phone; `look` (receipt and decision),
`readAgain` (the online service reads for itself), `write`, `writeReceipt`,
`answer` the server, one statement each. `giveUp`, `closeApp`, `failReceipt`, `stop` are the faults; an
upload the phone gave up on may still be worked on while the next arrives.
`disturbed` records the operations decided on a value that changed before they were
written; `unsettled` those that were sent again while the server was at an earlier
upload of them, or whose upload ended between the change and its receipt. The
older condition, location and note operations, which carry no receipt, the
batch limit and a change of person on one phone are left out.

## Checks

`PROJECT.json` names the properties of each run; every property of a passing run
is also shown to fail when one definition is changed the way a plausible bug
would change it (the operators marked "Mutant" in the modules).

| Run | Instance | Question |
|---|---|---|
| `LicenseRaces` | 3 rows, 3 holders, up to 3 seats, renewals by one, two calls | do the conditional update and the indexes hold against every interleaving, what can the counter miss, what seats can a removed licence have, does the service implement `SeatAllotment`? |
| `RequestOverlaps` | stock check, threshold, custom role; two calls; processes stop | do overlapping or half-finished calls lead to two steps pending, a step out of order, a rewritten decision, another status than the chain's or a reopened request, before one is overtaken or the chain bypassed? |
| `RequestSerial` | approval with a threshold, stock check, price; `advance` to every status; roles may be blocked; processes stop; one call | is a work order raised for approved requests only, does the request implement `ApprovalPromise`? |
| `RequestDecided` | stock check, then an approval with a threshold; roles may become vacant or blocked; `advance` to every status; one call | is every request in review decided at last? |
| `PromotionLoop` | four steps of every kind, every start, amount, answer and staffing | does the loop end in the closed form? |
| `StockOverlaps` | two requests, two units, two calls at every statement | is there a way to promise a unit twice but claiming it at once, and to reserve one for nobody but a stop or an overlap on one request? |
| `CustodySerial` | two people, three handovers, two transfers, one call at a time and work orders beside it | is there one open handover, of the holder, does a holder keep it, is its end on record? |
| `StockLedger` | two places, two lots, one person, two units, two calls | do all records of a quantity agree with the movements, is reserved stock there, does nobody return more than they were issued? |
| `Purchasing` | one request, two vendors, one request for quotes, two orders of two lines, two calls | is the budget never overspent, is money held exactly while it is spent, is only a winner ordered, does an order follow its lines? |
| `Sessions` | a browser with its tabs and a phone, two tokens, two calls; lost answers and stops | does rotation hand a session on and never fork it, does a family die whole, is reuse found only after a loss or by tabs at once, does suspension end the sessions? |
| `OfflineSync` | two operations, two uploads at the server, one fault, others changing the thing | is an operation applied once, on what the phone saw, and never lost, and does the queue drain? |

### Bounds

A licence needs a holder who has a seat, one who wants it and, for bulk, one
more; three rows let a row be revoked and its seat be given again twice. With
two seats and two calls a full pool, a shrinking renewal and a transfer can all
meet. Three steps give a chain a first, a middle and a last one, so a step can be
skipped before and behind the current one. An amount of 1 against a threshold of
2 is under it; PromotionLoop also takes 2, the boundary. Three handovers are a
first, a reassigned and a restored one. Two transfers let one be received while
an earlier one is not. Two units on hand are enough for one to be reserved
and the other contended for; two lots, for an issue that takes from both and for
a plan that another issue invalidates; two receipt lines, for one to be inspected while the
other's goods were used up. In `Purchasing` two orders let one request be converted
twice, two lines let two receipts overlap; an order has one unit of each line and
a delivery brings one line (`LineByLine`), so that a partly and a wholly received order both
occur; the budget is one or two estimates. `OneOvertaken` stops a behaviour after its second late write:
a property excuses only the rows written late, and what one late write leads to is explored in full.
Two tokens are a sign-in and its renewal, or two families; a further renewal repeats the second
with the first out of reach. `InOrder` is a constraint of `RequestOverlaps`: once it is
false it stays so, and its properties then say nothing, so what follows need not be explored;
the transition that makes it false is still checked. There two calls race on a short chain
whose steps are staffed, and the longer chain and the staffing have their own run with one call,
because the product of both is out of reach; the theorems cover it. One fault in `OfflineSync` makes one lost answer,
stop or failed statement; every fault is followed by a retry. That a second fault
adds nothing is not left to the bound: the theorems on `OfflineSync` hold for any number.
Bounds stop runs by disabling actions at the
limit: rows (`Unused` empty), `MaxRows`, `MaxTransfers`, `MaxStock`, `MaxIssued`, `MaxReceipts`,
`MaxRfqs`, `MaxOrders`, `MaxTokens`, `MaxCalls`, `MaxOps`, `MaxValue`, `MaxFaults`. That is why deadlock is not checked
in runs whose objects end for good (a removed licence, a closed request, a
removed asset) or whose loop ends.

### Fairness

`RequestApproval.Fairness`: a call that has started writing goes on (weak: nothing
in the process waits on others between two statements), a refused call ends
(weak), and approvers and assessors come back and are not refused for ever
(strong: other calls may withdraw the opportunity again and again). Rejection,
cancellation and advancing are not assumed. Of an assessor no particular answer is
assumed, only one that completes the stage that waits for it (`completes`). Nobody is assumed
to staff a step: `EventuallyDecided` speaks of behaviours in which the pending approval is not
left for ever with people none of whom may decide it.

`Sessions.Fairness`: a call that is under way goes on (weak), its first write is
not stopped for ever (strong: a process may stop again and again in between),
and a device that holds a token refreshes again and again (strong: one worker
may be taken by others), which is what a client does whose access token expires
in minutes. `OfflineSync.Fairness`: the phone uploads what it may send (weak: the
timer and the return to the foreground), the server works on what arrived
(weak) and the phone stores the answer (weak). Faults are bounded there, because a connection
that is lost for ever drains no queue.

## Proofs

TLAPS checks every theorem for all values of the constants that satisfy the
`ASSUME`s of the modules: any number of rows, holders, steps, requests, units and
people, and any workflow.

Only the theorems on custody assume that calls do not overlap; all others hold for any
number of calls in progress, with stops and lost answers, and name by the history
variables what an overlap may do.

* Licences: `TypeCorrect`, `CounterStaysWithinAllocation`, `HoldersStayDistinct`,
  `CounterFollows`, `NoSeatsOnDeletedLicense`, `SeatsImplementAllotment`. The bound of the
  counter is inductive with the type invariant: every write is conditional or meets the
  CHECK. `CounterFollowsRows` bounds the number of active rows from both sides; cardinality
  lemmas count the rows a commit adds and removes, in the case that the row written was
  still active and in the case that it was not. `RemovalInv` strengthens
  `DeletedLicenseHasNoSeats`: from the start of a removal every call that may still open a row
  is in `spans`.
* Requests: `StepsAreDecidedOneByOne`, `ChainIsFollowedInOrder`, `HistoryIsKept`,
  `ClosedStaysClosed`, `OrdersFollowApproval`, `StatusIsThatOfTheChain`, `KeepsPromise`.
  `ChainInv`, proved as long as `InOrder`, is `RowsInv` and, for each call that is not
  outdated, what it may rely on (`Relies`). `RowsInv` is `Shape(row)` (one pending row, queued
  rows behind it, none queued without one) and `Resumable`, which the properties do not
  suggest: a correction that stops after its rows leaves the request APPROVED with open
  rows, and the next correction would reopen steps beside the pending one. It never does,
  because the open rows are then all of the kind that an answer "from stock" skips.
  `StatusFollowsChain` is not inductive: between the rows' transaction and the status
  write it is false. `SettledInv` says that it holds or a call is in between (`Unpublished`).
* Promises of stock: `StockTypeCorrect`, `NoDoublePromise`, `NoUnitIsForgotten`. `Claimed`
  says that a unit outside `contested` is claimed for one request by the answers and by the
  calls that found it free together; `HeldInv` that a unit outside `abandoned` which is
  RESERVED has an answer that holds it and that no call in progress will drop, or a call that saves one.
* Types: `RequestTypeCorrect`, `CustodyTypeCorrect`, which needs
  `TransferKnown`: a receipt under way is for a transfer that was sent, which no guard
  of the write repeats.
* Stock: `StockTypeCorrect`, `ReservationsHold`, `StockIsAccountedFor` (`LedgerIsTruth`:
  places, lots and the quantity on hand) and `ReturnsAreCovered`. `Inv` is in
  parts, by group of variables: `Shelf`, `InLots`, `Handed`, `Rest`. `Handed` needs
  more than the property: a return in progress asks for no more than its person holds
  unless that person is `disturbed`.
* Purchases: `PurchasingTypeCorrect` (no line takes more than was ordered),
  `WinnersAreOrdered`, `OrdersFollowGoods`, `SpendingHolds`, `MoneyIsWhereItsOrderIs`.
  `Quoting` adds that a request for quotes that does not exist has nothing awarded or
  ordered; `Booking` that two receipts in their transactions have no line in common and
  that what they added still fits, without which the commit of one could overfill a line;
  `Calling` that calls are about rows that exist. `OrdersFollowGoods` needs that an order
  has lines, the assumption `Lines # {}` (the contract asks for at least one). The money is
  a second layer: `Linked` (an order is named by one request), `Returning` (a
  cancellation gives back the money of the order it cancels and of no other) and
  `Stands`, the property with the links it needs. Neither `SpendingIsCovered` nor
  `MoneyFollowsTheOrder` is inductive alone: giving money back is covered only because
  the request that gives it back held it.
* Sums (`Total` of a stock, `MoneyOf` a set of requests) are the cardinality of a set of
  counted units, one for each unit of stock or of money. A sum by recursion would
  be out of the prover's reach; the size of a finite set changes by the theorems on
  cardinality when units are added to it or taken from it.
* The loop: `LoopComputesPromotion`, for every chain: what has been skipped so far
  and what the closed form would still do make up the outcome.
* Sessions: `SessionsTypeCorrect`, `SessionIsNotForked`, `EndedSessionStaysEnded`,
  `NobodySignedOutForNothing` (`ReplayHasCause`). The invariant is in layers, each inductive given those before it.
  `Base`: no two calls are to issue the same token, and a refresh works on a token that
  was issued. `Owning`: a family belongs to one device, which holds a token of it or waits for
  its refresh, and the family of a refresh nobody waits for is `outdated`. `Replaying`: what a device
  holds is usable, or its family has ended, or its successor is on its way, unless the
  family is `outdated`; so only then can it meet reuse. `Alone`: outside
  `disturbed` one call at a time touches a family. `Rotating`: such a family has one
  usable token, none between `mark` and `issue`, and is revoked whole. Without the program counters
  in `Rotating` the properties are not inductive: `issue` makes a token usable and relies on
  `mark` having spent the one before.
* Offline: `OfflineTypeCorrect`, `RecordedIsKept`, `UndoesNobodyEver`, `RepeatsChangeNothing`.
  `Base`: what the phone is told was applied has a receipt (`Backed`), and one upload is
  answered (`Hearing`), so a result never drops what the server has not got. `Meeting`: an
  operation being applied still meets the value it was decided on, or is in `disturbed`.
  `Repeating`: outside `unsettled` an operation is in one upload at a time, and once applied it has its
  receipt or its upload is about to write it, so the next lookup finds it.

**One call at a time** (`OneWorker`: any two workers are the same; the call may stop
anywhere, and work orders move beside it). The properties of custody are false when calls
overlap, so the assumption is part of each statement.

* Custody: `OneCustodianSerial`, `HolderHasHandoverSerial`,
  `CustodyIsEvidencedSerial`. `SerialInv` adds that the database keeps status and
  holder consistent (`HolderMatchesStatus`: an assignable asset has no holder, so
  no open row), that open rows name people, and that a call in flight still sees
  the holder and the row it read. With it `ensureOpenAssignment` never closes a
  row: the only open one is the holder's own.

**Only model-checked.** Liveness (`EventuallyDecided`,
`SuspensionEndsSessions`, `QueueDrains`), which is beyond the prover. Every other
property of the runs is also a theorem. Those on custody assume, like their run, that calls do
not overlap; what happens without it is under departures.

## Departures met while modelling

Places where the code does not keep what one would expect of it, met while the
models were written. No run checks them; each shows by the change in the last
column, or by reading the actions named there.

| Where | What happens | To see it |
|---|---|---|
| `licenses.service.ts:463`, against `:762` | two revokes of one row both lower the counter, which then drifts below the rows, so that more seats can be given than were bought | `CounterFollowsRows` without `closedAgain` |
| `licenses.service.ts:665`, against `:638` | a revoke and a transfer of one row: the transfer makes a seat out of a revoked one | the same |
| `licenses.service.ts:313`, against `:299` | a seat is assigned between the count and the deletion | `DeletedLicenseHasNoSeats` without `besides` |
| `alert-sweep.service.ts:412`, against `domain/license.ts:30` | the sweep overwrites a licence retired after it was read | read of the sweep in `LicenseSeats` |
| `requests.service.ts:1459`, against `domain/state-machine.ts:27` | a decision's status is written over a cancellation that came in between | `TerminalIsFinal` without `InOrder` |
| `requests.service.ts:1459`, against `:922` | a process that stops before the status write leaves the old status over the new chain | `StatusFollowsChain` with "stopped" in `astray` |
| `requests.service.ts:1425`, against `:1459` | `decide` reads the pending row and updates it by id without looking again: two decisions of one step both promote a further step | `OnePending` without `InOrder` |
| `requests.service.ts:1604`, against `:1601` | `advance` to APPROVED is legal in review and passes the chain by | `StatusFollowsChain` with "bypassed" in `astray` |
| `requests.service.ts:2073`, against `:2053` | the comment says "while the request is still in approval", the code reopens only an APPROVED request, so a correction during a later step changes nothing | read of `reopenBegin` |
| `requests.service.ts:1939`, against `assessments.service.ts:254` | a price entered later neither reopens a step skipped for a lower one nor skips a pending one | read of `Promoted` |
| `requests.service.ts:1437`, against `assessments.service.ts:290` | a stage answered before its turn becomes pending all the same when a decision promotes it, and waits until the assessment is saved again | read of `stageBegin` |
| `requests.service.ts:1677`, against `assessments.service.ts:158` | cancelling or rejecting a request keeps its unit reserved | `StockPromise` with units freed only by `release` |
| `requests.service.ts:1526`, against `:1076` | a chain that ends by an approval does not hand the promised unit over | read of `finish` |
| `requests.service.ts:2005`, against `:2440` | the last waiting step may fall to the requester alone, who may not decide it, and nobody else may: the role has a holder | `EventuallyDecided` without `StuckOnNobody` |
| `requests.service.ts:2426`, against `:2423` | the comment says that it mirrors `canApproveStep` exactly; it does not resolve a department head, so such a step is skipped as unstaffed although its approver may decide it | `staff = "vacant"` |
| `requests.service.ts:1556`, against `:1590` | an approved repair request may have no work order: a failure to raise it is logged only, and nothing tries again | read of `finish` |
| `assessments.service.ts:68`, against `:38` | two assessments both find a unit unclaimed | `OnePromise` without `contested` |
| `assessments.service.ts:54`, against `:38` | the comment says that promising a unit reserves it; the old unit is given back before the new one is accepted, so a refused change leaves the saved answer promising a unit that is AVAILABLE | `release`, then `refuse` |
| `assessments.service.ts:99`, against `:222` | a process that stops between the reservation and the answer, or a second assessment of the same request, leaves a unit reserved for nobody | `ReservedIsHeld` without `abandoned` |
| `assessments.service.ts:54`, against `:38` | an answer that only mentioned a unit frees it when it is replaced, also while another request holds it | read of `release` in `StockPromise` |
| `assets.service.ts:1597` | a receipt confirmed from an old notification writes IN_USE by id, over a disposal included | read of `acknowledgeAsset` |
| `assets.service.ts:1629`, against `domain/asset-status.ts` | an asset reported lost while somebody holds it can neither be marked found (a return is asked for) nor returned (the table has no such move) | read of `changeStatus` |
| `assets.service.ts:1471` | two assigns of one unit open two handovers | `OneCustodian`, two workers |
| `assets.service.ts:1587` to `:1600` | a receipt stored without the status is never completed: repeating it returns early | `acknowledgeRow`, then `stop` |
| `assets.service.ts:952` | an asset may be created ASSIGNED without a holder | `Init` of `AssetCustody` |
| `asset-import.service.ts:495` | a re-import without an employee clears the holder and leaves the handover open | not modelled yet |
| `mobile/src/lib/api-client.ts`, against `auth.controller.ts` | a phone signs out without its refresh token, so its family stays alive on the server | `signOut` of a phone |
| `token.service.ts:186` | two refreshes with one token, as from two browser tabs, both find it unrotated and fork the family; the reuse goes unseen | `OneUsablePerFamily` over all families |
| `auth.service.ts:291`, against `token.service.ts:196` | a refresh beside a sign-out or a change of password issues a usable token in a family that was ended | `FamilyDiesWhole` over all families |
| `auth.service.ts:608` | a process that stops between the password and the sweep leaves the old sessions alive | `changePassword`, then `stop` |
| `auth.service.ts:104`, against `users.service.ts:795` | the comment says that INVITED blocks login; sign-in refuses SUSPENDED and DEACTIVATED only, and what keeps an invited person out is the random password | left out of `Statuses` |
| `offline-queue.ts:133` | an upload writes back the queue it read, so what was recorded meanwhile is gone and what was discarded comes back | `NothingLost` without `overtaken` |
| `mobile-sync.service.ts:267` | the receipt is written after the change, in a statement of its own: a stop or an error in between, or a second upload beside the first, and a value that moved back apply the operation twice | `AppliedOnce` without `unsettled`, two faults |
| `mobile-sync.service.ts:292` | a change that comes between the decision and the write is undone without a conflict | `UndoesNobody` without `disturbed` |
| `mobile-sync.service.ts`, counts | two overlapping counts both post their difference | the same |
| `domain/stock.ts:29`, against `alert-sweep.service.ts:593` | there are two tables of the sign of a movement: the one the program adds up by counts a RETURN as one in; that of the domain has no RETURN and `movementDelta` throws on it, although returns write such movements. Only its own tests call it. `posted` is the sweep's | read of `returnFromUser` |
| `stock.service.ts:375` | two returns of one person's units may together exceed what was issued | `NobodyReturnsMore` without `disturbed` |
| `stock.service.ts`, lots | adjustments, transfers, conversions and inspections leave the lots alone, so that lots add up to more than the shelf holds; a batch issue names nobody, so nothing of it can be returned | read of the actions |
| `procurement.service.ts:180` | two approvals of one request commit its estimate twice; an approval beside a rejection leaves money held by a rejected request | `MoneyFollowsTheOrder` without `late` |
| `procurement.service.ts:394`, against `:295` | two conversions of one request make two orders, the first of which no request names | the same |
| `rfq.service.ts:264` | two requests for quotes may be open for one request; an answer or a refusal is written over AWARDED or LOST, after which the request can never be converted (the CHECK refuses); a withdrawal over AWARDED | `OnlyTheWinnerIsOrdered` without `late` |
| `procurement.service.ts:757` | goods are booked on an order cancelled meanwhile, whose money was given back; two receipts of the last two lines both leave the order PARTIALLY_RECEIVED | `OrderFollowsItsLines` without `late` |

## What is not modelled

The components listed as `not_modelled` in `PROJECT.json`, each with its reason:
some are planned (below), others have no state that several actors contend for
(reading side, renderings, catalogue pages), are adapters of external services, or are
scripts outside the program. Within modelled components: request
creation, delegation, review markers, comments; licence pools beyond the default
one and licences mirrored from Microsoft 365; asset import, photos, prices and
grades. Two transactions of READ COMMITTED can overlap inside; the models take
each as atomic, which is right where the rows it reads are those it writes
conditionally, and an abstraction in `approveCommit`, whose loop reads the
waiting rows anew on each turn.

## Plan

Done, in this order: `LicenseSeats` and `SeatAllotment`; `RequestStatus`,
`ApprovalChain`, `PromotionLoop`, `RequestApproval`, `ApprovalPromise`;
`StockPromise`; `AssetStatus`, `AssetCustody`; `Sessions`; `OfflineSync`;
`StockLedger`; `Purchasing`; the proofs of every safety property that is checked.

Next:

1. `RequestCreation`: the duplicate check, the number and the draft, before
   `RequestApproval`.
2. `WorkOrders`: maintenance with lifecycle, replacing the two actions of
   `AssetCustody`.
3. `StepAuthority`: who may decide a step, with delegation, over `RequestApproval`.
4. `Escalation`: the sweeps on two servers, told once.
5. `AssetImport`, `WorkflowSteps`, `LicenceMirror`, `AgentEnrolment`.

Theorems still worth having: the properties of custody for calls that overlap, with
a history of the rows written late as the other modules have it; `StockPromise` as an
implementation of an abstract stock of promises; `Purchasing` as an implementation of a budget
that is committed, spent and given back. `OfflineSync` stands beside
`AssetCustody` and `StockLedger` and takes from them only when a change is
refused; its composition with either is open.

## Running

    tlc -workers 2 -config LicenseRaces.cfg MCLicenseSeats.tla
    tlapm LicenseSeatsProofs.tla

Each `.cfg` belongs to the module named with it in `PROJECT.json`.

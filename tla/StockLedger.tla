----------------------------- MODULE StockLedger -----------------------------
(***************************************************************************)
(* The stock of one consumable item: the quantity and the reservation of   *)
(* each place, the lots it arrived in, what people were handed, and the    *)
(* movements that account for all of it (apps/api/src/stock/               *)
(* stock.service.ts, with the receipts of procurement.service.ts and the   *)
(* inspections of quality-check.service.ts).                               *)
(*                                                                         *)
(* A movement is never changed, so the table of movements is kept as its   *)
(* sums: per place, per lot and per person.  A call that reads before its  *)
(* transaction takes two steps; the others are one.                        *)
(***************************************************************************)
EXTENDS Integers, FiniteSets, FiniteSetsExt

CONSTANTS Places,      \* StockLocation
          People,      \* whom stock is issued to
          Lots,        \* lot numbers in their order of expiry
          LotPlace,    \* where a lot is
          MaxStock,    \* bound on the quantity on hand
          MaxIssued,   \* bound on what a person is issued over time
          MaxReceipts, \* bound on the receipt lines
          Workers      \* calls that may be in progress together

ASSUME StockAssumption ==
  /\ IsFiniteSet(Places) /\ IsFiniteSet(Lots)
  /\ Lots \subseteq Nat
  /\ LotPlace \in [Lots -> Places]
  /\ MaxStock \in Nat /\ MaxIssued \in Nat /\ MaxReceipts \in Nat

Quantities == 1..MaxStock
Lines == 1..MaxReceipts
NoLot == -1

VARIABLES tracked,   \* batchTracked
          level,     \* StockLevel.quantity
          reserved,  \* StockLevel.reserved
          onHand,    \* InventoryItem.quantityOnHand
          lot,       \* StockBatch.quantity
          today,     \* the lots below this number are past their date
          ledger,    \* the movements of a place, added up with their signs
          lotLedger, \* the movements that name a lot, added up
          issued,    \* the ISSUE movements that name a person, added up
          returned,  \* the RETURN movements that name a person, added up
          line,      \* GoodsReceiptLine: quantity and place until inspected
          call,      \* a call between its read and its transaction
          disturbed  \* history: people two returns were made for at once
rollups == <<level, reserved, onHand, lot>>
people  == <<issued, returned>>
books   == <<ledger, lotLedger, people>>
vars == <<tracked, rollups, today, books, line, call, disturbed>>

Idle == [op |-> "idle"]
NoLine == [state |-> "none"]
Inspected == [state |-> "inspected"]
Received == [state : {"received"}, quantity : Quantities, place : Places]
Picks == [Lots -> 0..MaxStock]
Calls ==
  {Idle}
    \cup [op : {"return"}, place : Places, person : People, quantity : Quantities]
    \cup [op : {"count"}, place : Places, delta : Int]
    \cup [op : {"draw"}, place : Places, quantity : Quantities, picks : Picks]

TypeOK ==
  /\ tracked \in BOOLEAN
  /\ level \in [Places -> Nat] /\ reserved \in [Places -> Nat]
  /\ onHand \in Int
  /\ lot \in [Lots -> Nat]
  /\ today \in Nat
  /\ ledger \in [Places -> Int] /\ lotLedger \in [Lots -> Int]
  /\ issued \in [People -> Nat] /\ returned \in [People -> Nat]
  /\ line \in [Lines -> Received \cup {NoLine, Inspected}]
  /\ call \in [Workers -> Calls]
  /\ disturbed \subseteq People

-----------------------------------------------------------------------------
(* Moving stock *)

\* The units that quantities count, one by one, and how many they are.
Units(f) == UNION {{p} \X (1..f[p]) : p \in DOMAIN f}
Total(f) == Cardinality(Units(f))

Go(w, c) == call' = [call EXCEPT ![w] = c]

\* Mutant: the reservations do not count.
takeReserved(p, n) ==
  /\ level[p] - n >= 0
  /\ level' = [level EXCEPT ![p] = @ - n]

\* Mutant: the condition of the statement is gone.
takeAnyway(p, n) == level' = [level EXCEPT ![p] = @ - n]

\* guardedTake: the WHERE clause leaves what is reserved.
guardedTake(p, n) ==
  /\ level[p] - n >= reserved[p]
  /\ level' = [level EXCEPT ![p] = @ - n]

upsertAdd(p, n) == level' = [level EXCEPT ![p] = @ + n]

\* A row of stock_movements for a place, with the sign the nightly sweep gives its
\* type: a RETURN adds, as a RECEIPT does.
posted(p, n) == ledger' = [ledger EXCEPT ![p] = @ + n]

\* addStock and takeStock, but for the lots and the person of the row.
addStock(p, n) ==
  /\ onHand + n <= MaxStock
  /\ upsertAdd(p, n)
  /\ posted(p, n)
  /\ onHand' = onHand + n

takeStock(p, n) ==
  /\ guardedTake(p, n)
  /\ posted(p, -n)
  /\ onHand' = onHand - n

-----------------------------------------------------------------------------
(* Handing out and taking back *)

\* issue, of an item without lots; a part for a work order names no person.
issue(p, u, n) ==
  /\ ~tracked
  /\ issued[u] + n <= MaxIssued
  /\ takeStock(p, n)
  /\ issued' = [issued EXCEPT ![u] = @ + n]
  /\ UNCHANGED <<tracked, reserved, lot, today, lotLedger, returned, line, call, disturbed>>

\* adjust, and consumeForWorkOrder.
adjust(p, n) ==
  /\ addStock(p, n) \/ takeStock(p, n)
  /\ UNCHANGED <<tracked, reserved, lot, today, lotLedger, people, line, call, disturbed>>

\* Mutant: what came back already is not subtracted.
everIssued(u) == issued[u]

heldBy(u) == issued[u] - returned[u]

\* returnFromUser: what the person holds is read first.
returnFromUser(w, p, u, n) ==
  /\ call[w] = Idle
  /\ n <= heldBy(u)
  /\ Go(w, [op |-> "return", place |-> p, person |-> u, quantity |-> n])
  /\ UNCHANGED <<tracked, rollups, today, books, line, disturbed>>

Returning(u) == {w \in Workers : call[w].op = "return" /\ call[w].person = u}

\* The transaction of the return.
takeBack(w) ==
  LET c == call[w] IN
  /\ c.op = "return"
  /\ addStock(c.place, c.quantity)
  /\ returned' = [returned EXCEPT ![c.person] = @ + c.quantity]
  /\ disturbed' = IF Returning(c.person) = {w} THEN disturbed ELSE disturbed \cup {c.person}
  /\ Go(w, Idle)
  /\ UNCHANGED <<tracked, reserved, lot, today, lotLedger, issued, line>>

\* transfer: both rows and both places in one transaction.
transfer(p, q, n) ==
  /\ p # q
  /\ level[p] - n >= reserved[p]
  /\ level' = [level EXCEPT ![p] = @ - n, ![q] = @ + n]
  /\ ledger' = [ledger EXCEPT ![p] = @ - n, ![q] = @ + n]
  /\ UNCHANGED <<tracked, reserved, onHand, lot, today, lotLedger, people, line, call, disturbed>>

\* convertToAsset: one unit becomes an asset.
convertToAsset(p) ==
  /\ takeStock(p, 1)
  /\ UNCHANGED <<tracked, reserved, lot, today, lotLedger, people, line, call, disturbed>>

reserve(p, n) ==
  /\ reserved[p] + n <= level[p]
  /\ reserved' = [reserved EXCEPT ![p] = @ + n]
  /\ UNCHANGED <<tracked, level, onHand, lot, today, books, line, call, disturbed>>

release(p, n) ==
  /\ reserved[p] - n >= 0
  /\ reserved' = [reserved EXCEPT ![p] = @ - n]
  /\ UNCHANGED <<tracked, level, onHand, lot, today, books, line, call, disturbed>>

\* countCorrection: the difference to the quantity read is what is posted.
countCorrection(w, p, counted) ==
  /\ call[w] = Idle
  /\ counted # level[p]
  /\ Go(w, [op |-> "count", place |-> p, delta |-> counted - level[p]])
  /\ UNCHANGED <<tracked, rollups, today, books, line, disturbed>>

postCount(w) ==
  LET c == call[w] IN
  /\ c.op = "count"
  /\ \/ c.delta > 0 /\ addStock(c.place, c.delta)
     \/ c.delta < 0 /\ takeStock(c.place, -c.delta)
  /\ Go(w, Idle)
  /\ UNCHANGED <<tracked, reserved, lot, today, lotLedger, people, line, disturbed>>

-----------------------------------------------------------------------------
(* Lots: packages/domain/src/batch.ts and issueFromBatches *)

LotsAt(p) == {l \in Lots : LotPlace[l] = p /\ lot[l] > 0}
Expired == {l \in Lots : l < today}

\* What is drawn before lot l: what is good, then what is past its date, and
\* within each the sooner expiry first.
Before(l, usable) ==
  {k \in usable : IF l \in Expired THEN k \notin Expired \/ k < l ELSE k \notin Expired /\ k < l}

\* planBatchIssue: a lot is drawn from when those before it are drawn empty, and the
\* plan does not fall short.
planBatchIssue(p, n, allowExpired) ==
  LET usable == {l \in LotsAt(p) : allowExpired \/ l \notin Expired} IN
  {picks \in [Lots -> 0..n] :
     /\ Total(picks) = n
     /\ \A l \in Lots : picks[l] > 0 =>
          /\ l \in usable /\ picks[l] <= lot[l]
          /\ \A k \in Before(l, usable) : picks[k] = lot[k]}

\* issueFromBatches: the lots are read and the plan is made first.
planIssue(w, p, n, allowExpired) ==
  /\ tracked
  /\ call[w] = Idle
  /\ \E picks \in planBatchIssue(p, n, allowExpired) :
       Go(w, [op |-> "draw", place |-> p, quantity |-> n, picks |-> picks])
  /\ UNCHANGED <<tracked, rollups, today, books, line, disturbed>>

\* The statements on stock_batches: a lot drawn down meanwhile refuses them all.
draw(picks) ==
  /\ \A l \in Lots : lot[l] - picks[l] >= 0
  /\ lot' = [l \in Lots |-> lot[l] - picks[l]]

\* The transaction of the issue.  Its rows name the lot and nobody.
drawLots(w) ==
  LET c == call[w] IN
  /\ c.op = "draw"
  /\ takeStock(c.place, c.quantity)
  /\ draw(c.picks)
  /\ lotLedger' = [l \in Lots |-> lotLedger[l] - c.picks[l]]
  /\ Go(w, Idle)
  /\ UNCHANGED <<tracked, reserved, today, people, line, disturbed>>

\* The calendar moves.
nextDay ==
  /\ tracked
  /\ \E l \in Lots : today <= l
  /\ today' = today + 1
  /\ UNCHANGED <<tracked, rollups, books, line, call, disturbed>>

\* A call that is refused, or a process that stops before its transaction.
giveUp(w) ==
  /\ call[w] # Idle
  /\ Go(w, Idle)
  /\ UNCHANGED <<tracked, rollups, today, books, line, disturbed>>

-----------------------------------------------------------------------------
(* Goods receipts and their inspection *)

Unused == {i \in Lines : line[i] = NoLine}

\* receive, the STOCK part: the row, the level, the lot and the quantity on hand.
\* A tracked item needs a lot; another gets one where a lot number is given.
receive(p, n, l) ==
  /\ Unused # {}
  /\ addStock(p, n)
  /\ \/ ~tracked /\ l = NoLot /\ UNCHANGED <<lot, lotLedger>>
     \/ /\ l \in Lots /\ LotPlace[l] = p
        /\ lot' = [lot EXCEPT ![l] = @ + n]
        /\ lotLedger' = [lotLedger EXCEPT ![l] = @ + n]
  /\ line' = [line EXCEPT ![Min(Unused)] = [state |-> "received", quantity |-> n, place |-> p]]
  /\ UNCHANGED <<tracked, reserved, today, people, call, disturbed>>

\* Mutant: the quantity on hand keeps what was rejected.
rejectedOnShelfOnly(p, n) ==
  /\ level[p] - n >= reserved[p]
  /\ level' = [level EXCEPT ![p] = @ - n]
  /\ posted(p, -n)
  /\ UNCHANGED onHand

\* The statements that take rejected stock out; the CHECK of stock_levels refuses
\* where they would leave less than is reserved.
rejected(p, n) ==
  /\ level[p] - n >= reserved[p]
  /\ level' = [level EXCEPT ![p] = @ - n]
  /\ posted(p, -n)
  /\ onHand' = onHand - n

\* record: a line is inspected once, and what is rejected leaves the shelf.
inspect(i, n) ==
  /\ line[i].state = "received"
  /\ n <= line[i].quantity
  /\ \/ n = 0 /\ UNCHANGED <<level, ledger, onHand>>
     \/ n > 0 /\ rejected(line[i].place, n)
  /\ line' = [line EXCEPT ![i] = Inspected]
  /\ UNCHANGED <<tracked, reserved, lot, today, lotLedger, people, call, disturbed>>

-----------------------------------------------------------------------------

Init ==
  /\ tracked \in BOOLEAN
  /\ level = [p \in Places |-> 0] /\ reserved = [p \in Places |-> 0]
  /\ onHand = 0
  /\ lot = [l \in Lots |-> 0]
  /\ today = 0
  /\ ledger = [p \in Places |-> 0] /\ lotLedger = [l \in Lots |-> 0]
  /\ issued = [u \in People |-> 0] /\ returned = [u \in People |-> 0]
  /\ line = [i \in Lines |-> NoLine]
  /\ call = [w \in Workers |-> Idle]
  /\ disturbed = {}

Next ==
  \/ \E p \in Places, n \in Quantities :
       \/ adjust(p, n) \/ reserve(p, n) \/ release(p, n)
       \/ \E q \in Places : transfer(p, q, n)
       \/ \E u \in People : issue(p, u, n)
       \/ \E l \in Lots \cup {NoLot} : receive(p, n, l)
       \/ \E w \in Workers :
            \/ \E u \in People : returnFromUser(w, p, u, n)
            \/ \E allowExpired \in BOOLEAN : planIssue(w, p, n, allowExpired)
  \/ \E p \in Places : convertToAsset(p)
  \/ \E i \in Lines, n \in 0..MaxStock : inspect(i, n)
  \/ \E w \in Workers :
       \/ takeBack(w) \/ postCount(w) \/ drawLots(w) \/ giveUp(w)
       \/ \E p \in Places, n \in 0..MaxStock : countCorrection(w, p, n)
  \/ nextDay

Spec == Init /\ [][Next]_vars

-----------------------------------------------------------------------------
(* Properties *)

Accounted ==
  /\ \A p \in Places : level[p] = ledger[p]
  /\ \A l \in Lots : lot[l] = lotLedger[l]

\* The ledger is the truth: whatever calls overlap, each place and each lot holds
\* what its movements add up to as the nightly sweep adds them (alert-sweep.service.ts),
\* and the quantity on hand is that of all places.
LedgerIsTruth == Accounted /\ onHand = Total(level)

\* What is earmarked at a place is there, whoever takes stock from it.
ReservedIsThere == \A p \in Places : reserved[p] <= level[p]

\* Nobody returns more than they were handed, unless two returns of theirs
\* overlapped: what they hold is read before the transaction.
NobodyReturnsMore == \A u \in People : returned[u] <= issued[u] \/ u \in disturbed

=============================================================================

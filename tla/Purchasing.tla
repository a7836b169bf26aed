------------------------------ MODULE Purchasing ------------------------------
(***************************************************************************)
(* Buying something: the purchase request and the budget it is charged to, *)
(* the quotes it is put out for, the order it becomes and the goods that   *)
(* arrive against it (apps/api/src/procurement/procurement.service.ts and  *)
(* rfq.service.ts, apps/api/src/budgets/budgets.service.ts).               *)
(*                                                                         *)
(* Most handlers read a status, decide, and write later by the key of the  *)
(* row alone: they take two steps here, and the second trusts the first.   *)
(* Where the statement itself carries the condition a call is one step.    *)
(***************************************************************************)
EXTENDS Integers, FiniteSets

CONSTANTS Requests,  \* PurchaseRequest
          Estimate,  \* what a request commits; nothing if it names no cost centre
          Vendors,   \* the vendors a request is put out to
          MaxRfqs,   \* bound on the quote requests
          MaxOrders, \* bound on the orders
          Lines,     \* the lines of an order
          Ordered,   \* PurchaseOrderLine.quantity
          Deliveries, \* the lines a receipt may bring a unit of
          Amounts,   \* the amounts a budget may be given
          Workers    \* calls that may be in progress together

None == 0

ASSUME PurchasingAssumption ==
  /\ IsFiniteSet(Requests) /\ IsFiniteSet(Lines) /\ Lines # {}
  /\ None \notin Requests /\ None \notin Vendors
  /\ Estimate \in [Requests -> Nat]
  /\ MaxRfqs \in Nat /\ MaxOrders \in Nat
  /\ Ordered \in [Lines -> Nat \ {0}]
  /\ Deliveries \subseteq SUBSET Lines
  /\ Amounts \subseteq Nat

Rfqs == 1..MaxRfqs
Orders == 1..MaxOrders
NoQuote == <<None, "nobody">>
Quotes == Rfqs \X Vendors

RequestStatuses == {"DRAFT", "SUBMITTED", "APPROVED", "REJECTED", "CONVERTED", "CANCELLED"}
RfqStatuses == {"SENT", "AWARDED", "CANCELLED"}
QuoteStatuses == {"INVITED", "RECEIVED", "DECLINED", "AWARDED", "LOST"}
OrderStatuses == {"DRAFT", "ISSUED", "PARTIALLY_RECEIVED", "RECEIVED", "CANCELLED"}

VARIABLES status,    \* PurchaseRequest.status
          held,      \* PurchaseRequest.committedAmount is set
          orderOf,   \* PurchaseRequest.convertedPoId
          amount,    \* Budget.amount
          committed, \* Budget.committed
          rfq,       \* QuoteRequest: its request, status and winner
          quote,     \* Quote.status
          order,     \* PurchaseOrder.status, and the quote it was made from
          received,  \* PurchaseOrderLine.receivedQuantity
          call,      \* a call between its read and its write
          late       \* history: rows written on a read that no longer held
request == <<status, held, orderOf>>
budget  == <<amount, committed>>
quoting == <<rfq, quote>>
orders  == <<order, received>>
vars == <<request, budget, quoting, orders, call, late>>

Idle == [op |-> "idle"]
NoRfq == [status |-> "none"]
NoOrder == [status |-> "none"]
Sources == {r \in Requests : held[r]}

Calls ==
  {Idle}
    \cup [op : {"submit", "approve", "reject", "ask"}, request : Requests]
    \cup [op : {"convert"}, request : Requests, quote : Quotes \cup {NoQuote}]
    \cup [op : {"respond", "decline", "award"}, quote : Quotes]
    \cup [op : {"withdraw"}, rfq : Rfqs]
    \cup [op : {"issue"}, order : Orders]
    \cup [op : {"cancel"}, order : Orders, source : Requests \cup {None}]
    \cup [op : {"receive"}, order : Orders, lines : Deliveries]
    \cup [op : {"book"}, order : Orders, lines : Deliveries, becomes : OrderStatuses]

TypeOK ==
  /\ status \in [Requests -> RequestStatuses]
  /\ held \in [Requests -> BOOLEAN]
  /\ orderOf \in [Requests -> Orders \cup {None}]
  /\ amount \in Nat /\ committed \in Nat
  /\ rfq \in [Rfqs -> {NoRfq} \cup
       [request : Requests, status : RfqStatuses, winner : Vendors \cup {None}]]
  /\ quote \in [Rfqs -> [Vendors -> QuoteStatuses]]
  /\ order \in [Orders -> {NoOrder} \cup
       [status : OrderStatuses, quote : Quotes \cup {NoQuote}]]
  /\ received \in [Orders -> [Lines -> Nat]]
  /\ \A o \in Orders, l \in Lines : received[o][l] <= Ordered[l]
  /\ call \in [Workers -> Calls]
  /\ late \subseteq [kind : {"request"}, id : Requests] \cup [kind : {"order"}, id : Orders]
                  \cup [kind : {"rfq"}, id : Rfqs]

Begin(w, c) == call[w] = Idle /\ call' = [call EXCEPT ![w] = c]
End(w) == call' = [call EXCEPT ![w] = Idle]

\* A row that is written after its status moved on.
Overtaken(kind, id, stale) ==
  late' = IF stale THEN late \cup {[kind |-> kind, id |-> id]} ELSE late

-----------------------------------------------------------------------------
(* The request and its money *)

PR_TRANSITIONS ==
  [DRAFT     |-> {"SUBMITTED", "CANCELLED"},
   SUBMITTED |-> {"APPROVED", "REJECTED", "CANCELLED"},
   APPROVED  |-> {"CONVERTED", "CANCELLED"},
   REJECTED  |-> {"SUBMITTED", "CANCELLED"},
   CONVERTED |-> {},
   CANCELLED |-> {}]

canTransition(r, to) == to \in PR_TRANSITIONS[status[r]]

readSubmit(w, r) ==
  /\ canTransition(r, "SUBMITTED")
  /\ Begin(w, [op |-> "submit", request |-> r])
  /\ UNCHANGED <<request, budget, quoting, orders, late>>

submitPr(w) ==
  LET r == call[w].request IN
  /\ call[w].op = "submit"
  /\ status' = [status EXCEPT ![r] = "SUBMITTED"]
  /\ Overtaken("request", r, ~canTransition(r, "SUBMITTED"))
  /\ End(w)
  /\ UNCHANGED <<held, orderOf, budget, quoting, orders>>

readDecision(w, r, decision) ==
  /\ canTransition(r, "APPROVED")
  /\ Begin(w, [op |-> decision, request |-> r])
  /\ UNCHANGED <<request, budget, quoting, orders, late>>

\* Mutant: the limit is not part of the statement.
commitAnyway(n) == committed' = committed + n /\ UNCHANGED amount

\* commit: the WHERE clause is the limit.
commit(n) ==
  /\ committed + n <= amount
  /\ committed' = committed + n
  /\ UNCHANGED amount

\* decidePr: what an approval commits and the approval are one transaction.
approvePr(w) ==
  LET r == call[w].request IN
  /\ call[w].op = "approve"
  /\ \/ Estimate[r] = 0 /\ UNCHANGED <<budget, held>>
     \/ /\ Estimate[r] > 0
        /\ commit(Estimate[r])
        /\ held' = [held EXCEPT ![r] = TRUE]
  /\ status' = [status EXCEPT ![r] = "APPROVED"]
  /\ Overtaken("request", r, ~canTransition(r, "APPROVED"))
  /\ End(w)
  /\ UNCHANGED <<orderOf, quoting, orders>>

rejectPr(w) ==
  LET r == call[w].request IN
  /\ call[w].op = "reject"
  /\ status' = [status EXCEPT ![r] = "REJECTED"]
  /\ Overtaken("request", r, ~canTransition(r, "REJECTED"))
  /\ End(w)
  /\ UNCHANGED <<held, orderOf, budget, quoting, orders>>

\* Mutant: the request is cleared and the budget keeps the money.
clearOnly(r) ==
  /\ held' = [held EXCEPT ![r] = FALSE]
  /\ UNCHANGED budget

\* release: cleared while it is live, and then given back.
release(r) ==
  /\ held' = [held EXCEPT ![r] = FALSE]
  /\ committed' = IF held[r] /\ committed >= Estimate[r] THEN committed - Estimate[r] ELSE committed
  /\ UNCHANGED amount

\* cancelPr: the condition is in the statement, and only the winner gives back.
cancelPr(r) ==
  /\ status[r] \notin {"CANCELLED", "CONVERTED"}
  /\ status' = [status EXCEPT ![r] = "CANCELLED"]
  /\ release(r)
  /\ UNCHANGED <<orderOf, quoting, orders, call, late>>

\* updateBudget: the CHECK of the table repeats the condition at the write.
updateBudget(n) ==
  /\ n # amount
  /\ committed <= n
  /\ amount' = n
  /\ UNCHANGED <<committed, request, quoting, orders, call, late>>

-----------------------------------------------------------------------------
(* Quotes *)

Asked(f) == rfq[f] # NoRfq
Live(r) == {f \in Rfqs : Asked(f) /\ rfq[f].request = r /\ rfq[f].status # "CANCELLED"}

canAsk(r) == status[r] = "APPROVED" /\ \A f \in Live(r) : rfq[f].status # "SENT"

\* create: the two reads are made before the lock that numbers the request.
readAsk(w, r) ==
  /\ canAsk(r)
  /\ Begin(w, [op |-> "ask", request |-> r])
  /\ UNCHANGED <<request, budget, quoting, orders, late>>

\* The requests for quotes, and the orders, are taken in the order of their creation.
createRfq(w, f) ==
  /\ call[w].op = "ask"
  /\ ~Asked(f) /\ \A g \in Rfqs : g < f => Asked(g)
  /\ rfq' = [rfq EXCEPT ![f] =
       [request |-> call[w].request, status |-> "SENT", winner |-> None]]
  /\ Overtaken("rfq", f, ~canAsk(call[w].request))
  /\ End(w)
  /\ UNCHANGED <<request, budget, quote, orders>>

StatusOf(q) == quote[q[1]][q[2]]
SetQuote(q, s) == quote' = [quote EXCEPT ![q[1]][q[2]] = s]

\* The CHECK quotes_only_awarded_converts.
Converted(q) == \E o \in Orders : order[o] # NoOrder /\ order[o].quote = q

canRespond(q) == rfq[q[1]].status = "SENT" /\ StatusOf(q) \notin {"AWARDED", "LOST"}

readResponse(w, q) ==
  /\ canRespond(q)
  /\ Begin(w, [op |-> "respond", quote |-> q])
  /\ UNCHANGED <<request, budget, quoting, orders, late>>

recordResponse(w) ==
  /\ call[w].op = "respond"
  /\ ~Converted(call[w].quote)
  /\ SetQuote(call[w].quote, "RECEIVED")
  /\ Overtaken("rfq", call[w].quote[1], ~canRespond(call[w].quote))
  /\ End(w)
  /\ UNCHANGED <<request, budget, rfq, orders>>

readDecline(w, q) ==
  /\ Asked(q[1])
  /\ StatusOf(q) # "AWARDED"
  /\ Begin(w, [op |-> "decline", quote |-> q])
  /\ UNCHANGED <<request, budget, quoting, orders, late>>

decline(w) ==
  /\ call[w].op = "decline"
  /\ ~Converted(call[w].quote)
  /\ SetQuote(call[w].quote, "DECLINED")
  /\ Overtaken("rfq", call[w].quote[1], StatusOf(call[w].quote) = "AWARDED")
  /\ End(w)
  /\ UNCHANGED <<request, budget, rfq, orders>>

canAward(q) ==
  /\ rfq[q[1]].status # "CANCELLED" /\ rfq[q[1]].winner = None
  /\ StatusOf(q) = "RECEIVED"

readAward(w, q) ==
  /\ Asked(q[1]) /\ canAward(q)
  /\ Begin(w, [op |-> "award", quote |-> q])
  /\ UNCHANGED <<request, budget, quoting, orders, late>>

\* Mutant: the statement matches a request that has a winner.
undecided(f) == TRUE

noWinner(f) == rfq[f].winner = None

\* award: the condition is in the statement, and everyone else loses.
award(w) ==
  LET f == call[w].quote[1]
      v == call[w].quote[2] IN
  /\ call[w].op = "award"
  /\ noWinner(f)
  /\ rfq' = [rfq EXCEPT ![f].winner = v, ![f].status = "AWARDED"]
  /\ quote' = [quote EXCEPT ![f] = [u \in Vendors |-> IF u = v THEN "AWARDED" ELSE "LOST"]]
  /\ Overtaken("rfq", f, ~canAward(call[w].quote))
  /\ End(w)
  /\ UNCHANGED <<request, budget, orders>>

readWithdrawal(w, f) ==
  /\ Asked(f) /\ rfq[f].status # "AWARDED"
  /\ Begin(w, [op |-> "withdraw", rfq |-> f])
  /\ UNCHANGED <<request, budget, quoting, orders, late>>

cancelRfq(w) ==
  /\ call[w].op = "withdraw"
  /\ rfq' = [rfq EXCEPT ![call[w].rfq].status = "CANCELLED"]
  /\ Overtaken("rfq", call[w].rfq, rfq[call[w].rfq].status = "AWARDED")
  /\ End(w)
  /\ UNCHANGED <<request, budget, quote, orders>>

-----------------------------------------------------------------------------
(* The order *)

\* awardStateFor: the quote to order from.  The newest request for quotes that was
\* not cancelled decides, and while it has no winner there is none.
awardStateFor(r) ==
  IF Live(r) = {} THEN {NoQuote}
  ELSE {<<f, rfq[f].winner>> :
          f \in {g \in Live(r) : rfq[g].winner # None /\ \A h \in Live(r) : h <= g}}

readConversion(w, r) ==
  /\ canTransition(r, "CONVERTED")
  /\ \E q \in awardStateFor(r) : Begin(w, [op |-> "convert", request |-> r, quote |-> q])
  /\ UNCHANGED <<request, budget, quoting, orders, late>>

\* convertPr: the CHECK refuses a quote that is not the awarded one.
convertPr(w, o) ==
  LET c == call[w] IN
  /\ c.op = "convert"
  /\ order[o] = NoOrder /\ \A p \in Orders : p < o => order[p] # NoOrder
  /\ c.quote # NoQuote => StatusOf(c.quote) = "AWARDED"
  /\ order' = [order EXCEPT ![o] = [status |-> "DRAFT", quote |-> c.quote]]
  /\ status' = [status EXCEPT ![c.request] = "CONVERTED"]
  /\ orderOf' = [orderOf EXCEPT ![c.request] = o]
  /\ Overtaken("request", c.request, ~canTransition(c.request, "CONVERTED"))
  /\ End(w)
  /\ UNCHANGED <<held, budget, quoting, received>>

readIssue(w, o) ==
  /\ order[o].status = "DRAFT"
  /\ Begin(w, [op |-> "issue", order |-> o])
  /\ UNCHANGED <<request, budget, quoting, orders, late>>

issuePo(w) ==
  LET o == call[w].order IN
  /\ call[w].op = "issue"
  /\ order' = [order EXCEPT ![o].status = "ISSUED"]
  /\ Overtaken("order", o, order[o].status # "DRAFT")
  /\ End(w)
  /\ UNCHANGED <<request, budget, quoting, received>>

Delivered(o) == \E l \in Lines : received[o][l] > 0

\* At most one request names an order: r is that request, if it holds money.
readCancellation(w, o, r) ==
  /\ order[o].status \in {"DRAFT", "ISSUED"}
  /\ ~Delivered(o)
  /\ \/ r = None /\ \A s \in Sources : orderOf[s] # o
     \/ r \in Sources /\ orderOf[r] = o
  /\ Begin(w, [op |-> "cancel", order |-> o, source |-> r])
  /\ UNCHANGED <<request, budget, quoting, orders, late>>

\* cancelPo: the money goes back with the order.
cancelPo(w) ==
  LET o == call[w].order
      r == call[w].source IN
  /\ call[w].op = "cancel"
  /\ \/ r = None /\ UNCHANGED <<held, budget>>
     \/ r # None /\ release(r)
  /\ order' = [order EXCEPT ![o].status = "CANCELLED"]
  /\ Overtaken("order", o, order[o].status \notin {"DRAFT", "ISSUED"})
  /\ End(w)
  /\ UNCHANGED <<status, orderOf, quoting, received>>

-----------------------------------------------------------------------------
(* The goods *)

\* Mutant: an order is complete when one of its lines is.
rollupAny(got) ==
  IF \E l \in Lines : got[l] >= Ordered[l] THEN "RECEIVED"
  ELSE IF \E l \in Lines : got[l] > 0 THEN "PARTIALLY_RECEIVED" ELSE "ISSUED"

\* rollupPurchaseOrderStatus
rollup(got) ==
  IF \A l \in Lines : got[l] >= Ordered[l] THEN "RECEIVED"
  ELSE IF \E l \in Lines : got[l] > 0 THEN "PARTIALLY_RECEIVED" ELSE "ISSUED"

Arrived(o, ls) == [l \in Lines |-> IF l \in ls THEN received[o][l] + 1 ELSE received[o][l]]

readReceipt(w, o, ls) ==
  /\ order[o].status \in {"ISSUED", "PARTIALLY_RECEIVED"}
  /\ Begin(w, [op |-> "receive", order |-> o, lines |-> ls])
  /\ UNCHANGED <<request, budget, quoting, orders, late>>

Locked(o) == UNION {call[w].lines : w \in {v \in Workers : call[v].op = "book" /\ call[v].order = o}}

\* Mutant: the line takes what came.
fitsAnyway(got) == TRUE

\* The WHERE clause is the limit of a receipt.
fits(got) == \A l \in Lines : got[l] <= Ordered[l]

\* receive, in its transaction: the lines are locked and added to, and the lines
\* as the transaction sees them give the status it will write.
addToLines(w) ==
  LET c == call[w]
      got == Arrived(c.order, c.lines) IN
  /\ c.op = "receive"
  /\ Locked(c.order) \cap c.lines = {}
  /\ fits(got)
  /\ call' = [call EXCEPT ![w] =
       [op |-> "book", order |-> c.order, lines |-> c.lines, becomes |-> rollup(got)]]
  /\ UNCHANGED <<request, budget, quoting, orders, late>>

\* ... and it commits.
receive(w) ==
  LET c == call[w]
      o == c.order IN
  /\ c.op = "book"
  /\ received' = [received EXCEPT ![o] = Arrived(o, c.lines)]
  /\ order' = [order EXCEPT ![o].status = c.becomes]
  /\ Overtaken("order", o,
       order[o].status \notin {"ISSUED", "PARTIALLY_RECEIVED"}
         \/ c.becomes # rollup(Arrived(o, c.lines)))
  /\ End(w)
  /\ UNCHANGED <<request, budget, quoting>>

\* A call that is refused, or a process that stops before its write.
giveUp(w) ==
  /\ call[w] # Idle
  /\ End(w)
  /\ UNCHANGED <<request, budget, quoting, orders, late>>

-----------------------------------------------------------------------------

Init ==
  /\ status = [r \in Requests |-> "DRAFT"]
  /\ held = [r \in Requests |-> FALSE]
  /\ orderOf = [r \in Requests |-> None]
  /\ amount \in Amounts /\ committed = 0
  /\ rfq = [f \in Rfqs |-> NoRfq]
  /\ quote = [f \in Rfqs |-> [v \in Vendors |-> "INVITED"]]
  /\ order = [o \in Orders |-> NoOrder]
  /\ received = [o \in Orders |-> [l \in Lines |-> 0]]
  /\ call = [w \in Workers |-> Idle]
  /\ late = {}

Next ==
  \/ \E w \in Workers :
       \/ \E r \in Requests :
            \/ readSubmit(w, r) \/ readAsk(w, r) \/ readConversion(w, r)
            \/ \E decision \in {"approve", "reject"} : readDecision(w, r, decision)
       \/ \E q \in Quotes : readResponse(w, q) \/ readDecline(w, q) \/ readAward(w, q)
       \/ \E f \in Rfqs : readWithdrawal(w, f) \/ createRfq(w, f)
       \/ \E o \in Orders :
            \/ convertPr(w, o) \/ readIssue(w, o)
            \/ \E r \in Requests \cup {None} : readCancellation(w, o, r)
            \/ \E ls \in Deliveries : readReceipt(w, o, ls)
       \/ submitPr(w) \/ approvePr(w) \/ rejectPr(w)
       \/ recordResponse(w) \/ decline(w) \/ award(w) \/ cancelRfq(w)
       \/ issuePo(w) \/ cancelPo(w)
       \/ addToLines(w) \/ receive(w) \/ giveUp(w)
  \/ \E r \in Requests : cancelPr(r)
  \/ \E n \in Amounts : updateBudget(n)

Spec == Init /\ [][Next]_vars

-----------------------------------------------------------------------------
(* Properties *)

\* The money of requests S, counted unit by unit.
MoneyOf(S) == Cardinality(UNION {{r} \X (1..Estimate[r]) : r \in S})

HeldMoney == MoneyOf(Sources)

\* What the requests hold is committed and what is committed is within the budget,
\* whatever calls overlap: commit and release of budgets.service.ts.
SpendingIsCovered == HeldMoney <= committed /\ committed <= amount

OnTime(r) == [kind |-> "request", id |-> r] \notin late
OrderOnTime(o) == [kind |-> "order", id |-> o] \notin late

\* A request holds its money from its approval until it or its order is cancelled,
\* and nothing else is committed, but for rows that were written late.
MoneyFollowsTheOrder ==
  /\ \A r \in Requests :
       OnTime(r) /\ (orderOf[r] # None => OrderOnTime(orderOf[r])) =>
         (held[r] <=> /\ Estimate[r] > 0
                      /\ \/ status[r] = "APPROVED"
                         \/ status[r] = "CONVERTED" /\ order[orderOf[r]].status # "CANCELLED")
  /\ (\A r \in Requests : OnTime(r)) => committed = HeldMoney

RfqOnTime(f) == [kind |-> "rfq", id |-> f] \notin late

\* Whatever calls overlap, only the winner of a request for quotes is ever awarded or
\* ordered ("a losing quote can never become a PO", procurement.service.ts:304); and
\* a request that was not written late is awarded just when its winner stands.
OnlyTheWinnerIsOrdered ==
  \A f \in Rfqs, v \in Vendors :
    Asked(f) =>
      /\ StatusOf(<<f, v>>) = "AWARDED" \/ Converted(<<f, v>>) => rfq[f].winner = v
      /\ RfqOnTime(f) /\ rfq[f].winner = v =>
           rfq[f].status = "AWARDED" /\ StatusOf(<<f, v>>) = "AWARDED"

\* Goods came only for orders that stand, and the status of an order is that of its
\* lines, unless it was written late.
OrderFollowsItsLines ==
  \A o \in Orders :
    order[o] # NoOrder /\ OrderOnTime(o) =>
      IF \A l \in Lines : received[o][l] = 0
      THEN order[o].status \in {"DRAFT", "ISSUED", "CANCELLED"}
      ELSE order[o].status =
             IF \A l \in Lines : received[o][l] = Ordered[l] THEN "RECEIVED"
             ELSE "PARTIALLY_RECEIVED"

=============================================================================

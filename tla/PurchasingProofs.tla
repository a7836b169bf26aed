--------------------------- MODULE PurchasingProofs ---------------------------
(***************************************************************************)
(* What holds of Purchasing for any requests, vendors, lines and amounts,  *)
(* and however many calls overlap.                                         *)
(***************************************************************************)
EXTENDS Purchasing, FiniteSetTheorems, TLAPS

(* The inductive invariant, by the part of the state it is about. *)

Asking ==
  /\ status \in [Requests -> RequestStatuses]
  /\ held \in [Requests -> BOOLEAN]
  /\ orderOf \in [Requests -> Orders \cup {None}]

Spending == amount \in Nat /\ committed \in Nat /\ committed <= amount

AskedFor == [request : Requests, status : RfqStatuses, winner : Vendors \cup {None}]

\* A request for quotes that does not exist yet has nothing to award or to order.
Quoting ==
  /\ rfq \in [Rfqs -> {NoRfq} \cup AskedFor]
  /\ quote \in [Rfqs -> [Vendors -> QuoteStatuses]]
  /\ \A f \in Rfqs, v \in Vendors :
       ~Asked(f) => quote[f][v] = "INVITED" /\ ~Converted(<<f, v>>)
  /\ \A f \in Rfqs, v \in Vendors :
       Asked(f) =>
         /\ quote[f][v] = "AWARDED" \/ Converted(<<f, v>>) => rfq[f].winner = v
         /\ RfqOnTime(f) /\ rfq[f].winner = v =>
              rfq[f].status = "AWARDED" /\ quote[f][v] = "AWARDED"

Placed == [status : OrderStatuses, quote : Quotes \cup {NoQuote}]

Ordering ==
  /\ order \in [Orders -> {NoOrder} \cup Placed]
  /\ received \in [Orders -> [Lines -> Nat]]
  /\ \A o \in Orders, l \in Lines : received[o][l] <= Ordered[l]
  /\ \A o \in Orders : order[o] = NoOrder => \A l \in Lines : received[o][l] = 0
  /\ OrderFollowsItsLines

\* A call is about rows that exist.
Refers(c) ==
  /\ c.op \in {"respond", "decline", "award"} => Asked(c.quote[1])
  /\ c.op = "withdraw" => Asked(c.rfq)
  /\ c.op \in {"issue", "cancel", "receive", "book"} => order[c.order] # NoOrder

\* Two receipts that added to lines of one order wait for no line of each other,
\* and what they added still fits.
Booking ==
  /\ \A w, v \in Workers :
       /\ w # v /\ call[w].op = "book" /\ call[v].op = "book"
       /\ call[w].order = call[v].order
       => call[w].lines \cap call[v].lines = {}
  /\ \A w \in Workers : call[w].op = "book" =>
       \A l \in call[w].lines : received[call[w].order][l] < Ordered[l]

Calling ==
  /\ call \in [Workers -> Calls]
  /\ \A w \in Workers : Refers(call[w])

Lateness ==
  late \subseteq [kind : {"request"}, id : Requests] \cup [kind : {"order"}, id : Orders]
              \cup [kind : {"rfq"}, id : Rfqs]

Inv == Asking /\ Spending /\ Quoting /\ Ordering /\ Calling /\ Booking /\ Lateness

-----------------------------------------------------------------------------
(* What a call is about *)

LEMMA Sizes ==
  /\ Rfqs \subseteq Nat \ {0} /\ Orders \subseteq Nat \ {0}
  /\ None = 0 /\ None \notin Vendors /\ None \notin Requests
  /\ Ordered \in [Lines -> Nat \ {0}] /\ Lines # {} /\ Deliveries \subseteq SUBSET Lines
  /\ Estimate \in [Requests -> Nat] /\ Amounts \subseteq Nat
  BY PurchasingAssumption DEF Rfqs, Orders, None

LEMMA QuoteTypes ==
  ASSUME NEW q \in Quotes
  PROVE  q[1] \in Rfqs /\ q[2] \in Vendors /\ q = <<q[1], q[2]>> /\ q # NoQuote
  BY Sizes DEF Quotes, NoQuote

LEMMA CallTypes ==
  ASSUME NEW c \in Calls
  PROVE  /\ c.op \in {"submit", "approve", "reject", "ask", "convert"} => c.request \in Requests
         /\ c.op = "convert" => c.quote \in Quotes \cup {NoQuote}
         /\ c.op \in {"respond", "decline", "award"} => c.quote \in Quotes
         /\ c.op = "withdraw" => c.rfq \in Rfqs
         /\ c.op \in {"issue", "cancel", "receive", "book"} => c.order \in Orders
         /\ c.op = "cancel" => c.source \in Requests \cup {None}
         /\ c.op \in {"receive", "book"} => c.lines \in Deliveries
         /\ c.op = "book" => c.becomes \in OrderStatuses
  BY DEF Calls, Idle

LEMMA IdleCall == Idle \in Calls /\ Idle.op = "idle"
  BY DEF Calls, Idle

LEMMA Statuses ==
  /\ \A f \in Rfqs : rfq[f] \in {NoRfq} \cup AskedFor =>
       /\ Asked(f) <=> rfq[f] \in AskedFor
       /\ ~Asked(f) => rfq[f].status = "none"
  /\ \A o \in Orders : order[o] \in {NoOrder} \cup Placed =>
       /\ order[o] # NoOrder <=> order[o] \in Placed
       /\ order[o] = NoOrder => order[o].status = "none"
  BY DEF Asked, NoRfq, NoOrder, AskedFor, Placed, RfqStatuses, OrderStatuses

LEMMA Overtaking ==
  ASSUME Lateness, NEW kind, NEW id, NEW stale \in BOOLEAN, Overtaken(kind, id, stale),
         \/ kind = "request" /\ id \in Requests
         \/ kind = "order" /\ id \in Orders
         \/ kind = "rfq" /\ id \in Rfqs
  PROVE  /\ Lateness' /\ late \subseteq late'
         /\ stale => [kind |-> kind, id |-> id] \in late'
  BY DEF Overtaken, Lateness

-----------------------------------------------------------------------------
(* A call that begins or ends *)

LEMMA Keeping ==
  ASSUME Calling, Booking, received' = received, NEW w \in Workers, NEW c \in Calls,
         call' = [call EXCEPT ![w] = c], c.op # "book", Refers(c)',
         \A f \in Rfqs : Asked(f) => Asked(f)',
         \A o \in Orders : order[o] # NoOrder => order'[o] # NoOrder
  PROVE  Calling' /\ Booking'
<1>1. call' \in [Workers -> Calls] /\ call'[w] = c /\ \A v \in Workers \ {w} : call'[v] = call[v]
  BY DEF Calling
<1>2. \A v \in Workers \ {w} : Refers(call[v])'
  <2>1. ASSUME NEW v \in Workers \ {w} PROVE Refers(call[v])'
    <3>1. call[v] \in Calls /\ Refers(call[v]) /\ call'[v] = call[v]
      BY <1>1 DEF Calling
    <3>2. call[v].op \in {"respond", "decline", "award"} => call[v].quote[1] \in Rfqs
      BY <3>1, CallTypes, QuoteTypes
    <3> QED  BY <3>1, <3>2, CallTypes DEF Refers
  <2> QED  BY <2>1
<1>3. Calling'
  BY <1>1, <1>2 DEF Calling
<1>4. Booking'
  BY <1>1 DEF Booking
<1> QED  BY <1>3, <1>4

LEMMA Ending ==
  ASSUME Calling, Booking, received' = received, NEW w \in Workers, End(w),
         \A f \in Rfqs : Asked(f) => Asked(f)',
         \A o \in Orders : order[o] # NoOrder => order'[o] # NoOrder
  PROVE  Calling' /\ Booking'
<1>1. Refers(Idle)'
  BY IdleCall DEF Refers
<1> QED  BY <1>1, IdleCall, Keeping DEF End

LEMMA Beginning ==
  ASSUME Inv, NEW w \in Workers, NEW c \in Calls, Begin(w, c), c.op # "book", Refers(c),
         UNCHANGED <<request, budget, quoting, orders, late>>
  PROVE  Inv'
<1> USE DEF request, budget, quoting, orders
<1>1. Calling' /\ Booking'
  <2>1. Refers(c)' /\ (\A f \in Rfqs : Asked(f) => Asked(f)')
    BY DEF Refers, Asked
  <2> QED  BY <2>1, Keeping DEF Inv, Begin
<1>2. Quoting'
  BY DEF Inv, Quoting, Asked, Converted, RfqOnTime
<1>3. Ordering'
  BY DEF Inv, Ordering, OrderFollowsItsLines, OrderOnTime
<1> QED  BY <1>1, <1>2, <1>3 DEF Inv, Asking, Spending, Lateness

\* Quotes stay what they are while no quote moves and no order is made.
LEMMA QuotesKeep ==
  ASSUME Quoting, UNCHANGED <<rfq, quote>>, late \subseteq late',
         \A q \in Quotes : Converted(q)' => Converted(q)
  PROVE  Quoting'
  BY DEF Quoting, Asked, RfqOnTime, Quotes

LEMMA OrdersKeep ==
  ASSUME Ordering, UNCHANGED <<order, received>>, late \subseteq late'
  PROVE  Ordering'
  BY DEF Ordering, OrderFollowsItsLines, OrderOnTime

-----------------------------------------------------------------------------
(* Each call keeps the invariant: the request and its money *)

LEMMA RequestReads ==
  ASSUME Inv, NEW w \in Workers, NEW r \in Requests,
         \/ readSubmit(w, r) \/ readAsk(w, r) \/ readConversion(w, r)
         \/ readDecision(w, r, "approve") \/ readDecision(w, r, "reject")
  PROVE  Inv'
<1>1. ASSUME NEW op \in {"submit", "approve", "reject", "ask"},
             Begin(w, [op |-> op, request |-> r]),
             UNCHANGED <<request, budget, quoting, orders, late>>
      PROVE  Inv'
  <2> DEFINE c == [op |-> op, request |-> r]
  <2>1. c \in Calls /\ c.op # "book" /\ Refers(c)
    BY DEF Calls, Refers
  <2> HIDE DEF c
  <2>2. Begin(w, c)
    BY <1>1 DEF c
  <2> QED  BY <1>1, <2>1, <2>2, Beginning
<1>2. ASSUME readConversion(w, r) PROVE Inv'
  <2>1. PICK q \in awardStateFor(r) : Begin(w, [op |-> "convert", request |-> r, quote |-> q])
    BY <1>2 DEF readConversion
  <2>2. q \in Quotes \cup {NoQuote}
    <3>1. ASSUME NEW f \in Live(r), rfq[f].winner # None PROVE <<f, rfq[f].winner>> \in Quotes
      <4>1. f \in Rfqs /\ Asked(f) /\ rfq[f] \in {NoRfq} \cup AskedFor
        BY <3>1 DEF Live, Inv, Quoting
      <4> QED  BY <3>1, <4>1, Statuses DEF AskedFor, Quotes
    <3> QED  BY <2>1, <3>1 DEF awardStateFor
  <2> DEFINE c == [op |-> "convert", request |-> r, quote |-> q]
  <2>3. c \in Calls /\ c.op # "book" /\ Refers(c)
    BY <2>2 DEF Calls, Refers
  <2> HIDE DEF c
  <2>4. Begin(w, c)
    BY <2>1 DEF c
  <2> QED  BY <1>2, <2>3, <2>4, Beginning DEF readConversion
<1> QED  BY <1>1, <1>2 DEF readSubmit, readAsk, readDecision

\* A step of a request that ends a call and touches neither quotes nor orders.
LEMMA RequestStep ==
  ASSUME Inv, NEW w \in Workers, End(w), UNCHANGED <<quoting, orders>>,
         Asking', Spending', Lateness', late \subseteq late'
  PROVE  Inv'
<1>1. UNCHANGED <<rfq, quote, order, received>>
  BY DEF quoting, orders
<1>2. Calling' /\ Booking'
  BY <1>1, Ending DEF Inv, Asked
<1>3. Quoting'
  BY <1>1, QuotesKeep DEF Inv, Converted
<1> QED  BY <1>1, <1>2, <1>3, OrdersKeep DEF Inv

LEMMA SubmitStep ==
  ASSUME Inv, NEW w \in Workers, submitPr(w)
  PROVE  Inv'
<1>1. call[w].request \in Requests /\ call[w].op = "submit"
  BY CallTypes DEF Inv, Calling, submitPr
<1>2. Lateness' /\ late \subseteq late'
  BY <1>1, Overtaking DEF Inv, submitPr
<1>3. Asking' /\ Spending'
  BY <1>1 DEF Inv, Asking, Spending, submitPr, budget, RequestStatuses
<1> QED  BY <1>2, <1>3, RequestStep DEF submitPr

LEMMA RejectStep ==
  ASSUME Inv, NEW w \in Workers, rejectPr(w)
  PROVE  Inv'
<1>1. call[w].request \in Requests /\ call[w].op = "reject"
  BY CallTypes DEF Inv, Calling, rejectPr
<1>2. Lateness' /\ late \subseteq late'
  BY <1>1, Overtaking DEF Inv, rejectPr
<1>3. Asking' /\ Spending'
  BY <1>1 DEF Inv, Asking, Spending, rejectPr, budget, RequestStatuses
<1> QED  BY <1>2, <1>3, RequestStep DEF rejectPr

LEMMA ApproveStep ==
  ASSUME Inv, NEW w \in Workers, approvePr(w)
  PROVE  Inv'
<1> DEFINE r == call[w].request
<1>1. r \in Requests /\ call[w].op = "approve"
  BY CallTypes DEF Inv, Calling, approvePr
<1>2. Lateness' /\ late \subseteq late'
  BY <1>1, Overtaking DEF Inv, approvePr
<1>3. Asking'
  BY <1>1 DEF Inv, Asking, approvePr, RequestStatuses
<1>4. Spending'
  BY <1>1, Sizes DEF Inv, Spending, approvePr, commit, budget
<1> QED  BY <1>2, <1>3, <1>4, RequestStep DEF approvePr

LEMMA Releasing ==
  ASSUME Asking, Spending, NEW r \in Requests, release(r)
  PROVE  /\ Spending'
         /\ held' \in [Requests -> BOOLEAN]
<1>1. Estimate[r] \in Nat
  BY Sizes
<1> QED  BY <1>1 DEF release, Asking, Spending

LEMMA CancelPrStep ==
  ASSUME Inv, NEW r \in Requests, cancelPr(r)
  PROVE  Inv'
<1>1. Spending' /\ held' \in [Requests -> BOOLEAN]
  BY Releasing DEF Inv, cancelPr
<1>2. Asking'
  BY <1>1 DEF Inv, Asking, cancelPr, RequestStatuses
<1>3. UNCHANGED <<rfq, quote, order, received, call, late>>
  BY DEF cancelPr, quoting, orders
<1>4. Quoting'
  BY <1>3, QuotesKeep DEF Inv, Converted
<1>5. Calling' /\ Booking'
  BY <1>3 DEF Inv, Calling, Booking, Refers, Asked
<1> QED  BY <1>1, <1>2, <1>3, <1>4, <1>5, OrdersKeep DEF Inv, Lateness

LEMMA UpdateBudgetStep ==
  ASSUME Inv, NEW n \in Amounts, updateBudget(n)
  PROVE  Inv'
<1>1. Spending'
  BY Sizes DEF Inv, Spending, updateBudget
<1>2. UNCHANGED <<status, held, orderOf, rfq, quote, order, received, call, late>>
  BY DEF updateBudget, quoting, orders, request
<1>3. Quoting'
  BY <1>2, QuotesKeep DEF Inv, Converted
<1>4. Calling' /\ Booking'
  BY <1>2 DEF Inv, Calling, Booking, Refers, Asked
<1> QED  BY <1>1, <1>2, <1>3, <1>4, OrdersKeep DEF Inv, Lateness, Asking

-----------------------------------------------------------------------------
(* ... the quotes *)

LEMMA QuoteReads ==
  ASSUME Inv, NEW w \in Workers, NEW q \in Quotes,
         readResponse(w, q) \/ readDecline(w, q) \/ readAward(w, q)
  PROVE  Inv'
<1>1. ASSUME NEW op \in {"respond", "decline", "award"}, Asked(q[1]),
             Begin(w, [op |-> op, quote |-> q]),
             UNCHANGED <<request, budget, quoting, orders, late>>
      PROVE  Inv'
  <2> DEFINE c == [op |-> op, quote |-> q]
  <2>1. c \in Calls /\ c.op # "book" /\ Refers(c)
    BY <1>1 DEF Calls, Refers
  <2> HIDE DEF c
  <2>2. Begin(w, c)
    BY <1>1 DEF c
  <2> QED  BY <1>1, <2>1, <2>2, Beginning
<1>2. rfq[q[1]].status = "SENT" => Asked(q[1])
  BY DEF Asked, NoRfq
<1> QED  BY <1>1, <1>2 DEF readResponse, readDecline, readAward, canRespond

LEMMA WithdrawalRead ==
  ASSUME Inv, NEW w \in Workers, NEW f \in Rfqs, readWithdrawal(w, f)
  PROVE  Inv'
<1> DEFINE c == [op |-> "withdraw", rfq |-> f]
<1>1. c \in Calls /\ c.op # "book" /\ Refers(c)
  BY DEF Calls, Refers, readWithdrawal
<1>2. Begin(w, c)
  BY DEF readWithdrawal
<1> HIDE DEF c
<1> QED  BY <1>1, <1>2, Beginning DEF readWithdrawal

\* A step of the quotes that ends a call and touches neither requests nor orders.
LEMMA QuoteStep ==
  ASSUME Inv, NEW w \in Workers, End(w), UNCHANGED <<request, budget, orders>>,
         \A f \in Rfqs : Asked(f) => Asked(f)',
         Quoting', Lateness', late \subseteq late'
  PROVE  Inv'
<1>1. UNCHANGED <<status, held, orderOf, amount, committed, order, received>>
  BY DEF request, budget, orders
<1>2. Calling' /\ Booking'
  BY <1>1, Ending DEF Inv
<1> QED  BY <1>1, <1>2, OrdersKeep DEF Inv, Asking, Spending

LEMMA CreateRfqStep ==
  ASSUME Inv, NEW w \in Workers, NEW f \in Rfqs, createRfq(w, f)
  PROVE  Inv'
<1> DEFINE new == [request |-> call[w].request, status |-> "SENT", winner |-> None]
<1>1. new \in AskedFor /\ new # NoRfq /\ new.winner = None
  BY CallTypes DEF Inv, Calling, createRfq, AskedFor, RfqStatuses, NoRfq
<1>2. rfq' = [rfq EXCEPT ![f] = new] /\ ~Asked(f) /\ UNCHANGED <<quote, order>>
  BY DEF createRfq, orders
<1> HIDE DEF new
<1>3. Lateness' /\ late \subseteq late'
  BY Overtaking DEF Inv, createRfq
<1>4. /\ rfq' \in [Rfqs -> {NoRfq} \cup AskedFor] /\ rfq'[f] = new
      /\ \A g \in Rfqs \ {f} : rfq'[g] = rfq[g]
  BY <1>1, <1>2 DEF Inv, Quoting
<1>5. Quoting'
  <2>1. \A q : Converted(q)' <=> Converted(q)
    BY <1>2 DEF Converted
  <2>2. \A g \in Rfqs \ {f} : Asked(g)' <=> Asked(g)
    BY <1>4 DEF Asked
  <2>3. Asked(f)'
    BY <1>1, <1>4 DEF Asked
  <2> QED  BY <1>1, <1>2, <1>3, <1>4, <2>1, <2>2, <2>3, Sizes DEF Inv, Quoting, RfqOnTime
<1>6. \A g \in Rfqs : Asked(g) => Asked(g)'
  BY <1>2, <1>4 DEF Asked
<1> QED  BY <1>3, <1>5, <1>6, QuoteStep DEF createRfq

\* A quote of a live request that is not ordered moves.
LEMMA Moving ==
  ASSUME Inv, NEW w \in Workers, NEW q \in Quotes, NEW s \in {"RECEIVED", "DECLINED"},
         Asked(q[1]), ~Converted(q), SetQuote(q, s), UNCHANGED <<rfq, order>>, Lateness',
         late \subseteq late',
         RfqOnTime(q[1])' => StatusOf(q) # "AWARDED"
  PROVE  Quoting'
<1> DEFINE f == q[1]
           v == q[2]
<1>1. f \in Rfqs /\ v \in Vendors
  BY QuoteTypes
<1>2. /\ quote' \in [Rfqs -> [Vendors -> QuoteStatuses]] /\ quote'[f][v] = s
      /\ \A g \in Rfqs, u \in Vendors : g # f \/ u # v => quote'[g][u] = quote[g][u]
  BY <1>1 DEF Inv, Quoting, SetQuote, QuoteStatuses
<1>3. \A p : Converted(p)' <=> Converted(p)
  BY DEF Converted
<1>4. \A g \in Rfqs : (Asked(g)' <=> Asked(g)) /\ (RfqOnTime(g)' => RfqOnTime(g))
  BY DEF Asked, RfqOnTime
<1>5. RfqOnTime(f)' => quote[f][v] # "AWARDED"
  BY DEF StatusOf
<1> HIDE DEF f, v
<1>6. Asked(f)
  BY DEF f
<1> QED  BY <1>1, <1>2, <1>3, <1>4, <1>5, <1>6 DEF Inv, Quoting

LEMMA ResponseStep ==
  ASSUME Inv, NEW w \in Workers, recordResponse(w)
  PROVE  Inv'
<1> DEFINE q == call[w].quote
<1>1. call[w] \in Calls /\ Refers(call[w]) /\ call[w].op = "respond"
  BY DEF Inv, Calling, recordResponse
<1>2. q \in Quotes /\ Asked(q[1]) /\ q[1] \in Rfqs
  BY <1>1, CallTypes, QuoteTypes DEF Refers
<1>3. Lateness' /\ late \subseteq late'
  BY <1>2, Overtaking DEF Inv, recordResponse
<1>4. ~canRespond(q) => [kind |-> "rfq", id |-> q[1]] \in late'
  BY <1>2, Overtaking DEF Inv, recordResponse, canRespond
<1>5. ~Converted(q) /\ SetQuote(q, "RECEIVED") /\ UNCHANGED <<rfq, order>>
  BY DEF recordResponse, orders
<1> HIDE DEF q
<1>6. Quoting'
  BY <1>2, <1>3, <1>4, <1>5, Moving DEF RfqOnTime, canRespond
<1>7. \A f \in Rfqs : Asked(f) => Asked(f)'
  BY <1>5 DEF Asked
<1> QED  BY <1>3, <1>6, <1>7, QuoteStep DEF recordResponse

LEMMA DeclineStep ==
  ASSUME Inv, NEW w \in Workers, decline(w)
  PROVE  Inv'
<1> DEFINE q == call[w].quote
<1>1. call[w] \in Calls /\ Refers(call[w]) /\ call[w].op = "decline"
  BY DEF Inv, Calling, decline
<1>2. q \in Quotes /\ Asked(q[1]) /\ q[1] \in Rfqs
  BY <1>1, CallTypes, QuoteTypes DEF Refers
<1>3. Lateness' /\ late \subseteq late'
  BY <1>2, Overtaking DEF Inv, decline
<1>4. StatusOf(q) = "AWARDED" => [kind |-> "rfq", id |-> q[1]] \in late'
  BY <1>2, Overtaking DEF Inv, decline
<1>5. ~Converted(q) /\ SetQuote(q, "DECLINED") /\ UNCHANGED <<rfq, order>>
  BY DEF decline, orders
<1> HIDE DEF q
<1>6. Quoting'
  BY <1>2, <1>3, <1>4, <1>5, Moving DEF RfqOnTime
<1>7. \A f \in Rfqs : Asked(f) => Asked(f)'
  BY <1>5 DEF Asked
<1> QED  BY <1>3, <1>6, <1>7, QuoteStep DEF decline

LEMMA AwardStep ==
  ASSUME Inv, NEW w \in Workers, award(w)
  PROVE  Inv'
<1>0. PICK f, v : f = call[w].quote[1] /\ v = call[w].quote[2]
  OBVIOUS
<1>1. call[w] \in Calls /\ Refers(call[w]) /\ call[w].op = "award"
  BY DEF Inv, Calling, award
<1>2. f \in Rfqs /\ v \in Vendors /\ Asked(f)
  BY <1>0, <1>1, CallTypes, QuoteTypes DEF Refers
<1>3. Lateness' /\ late \subseteq late'
  BY <1>0, <1>2, Overtaking DEF Inv, award, canAward
<1>4. /\ rfq' = [rfq EXCEPT ![f].winner = v, ![f].status = "AWARDED"]
      /\ quote' = [quote EXCEPT ![f] = [u \in Vendors |-> IF u = v THEN "AWARDED" ELSE "LOST"]]
      /\ rfq[f].winner = None /\ UNCHANGED <<order, received>>
  BY <1>0 DEF award, orders, noWinner
<1>5. rfq[f] \in AskedFor
  BY <1>2, Statuses DEF Inv, Quoting
<1>6. /\ rfq'[f] \in AskedFor /\ rfq'[f].winner = v /\ rfq'[f].status = "AWARDED"
      /\ \A g \in Rfqs \ {f} : rfq'[g] = rfq[g]
      /\ rfq' \in [Rfqs -> {NoRfq} \cup AskedFor]
  BY <1>2, <1>4, <1>5 DEF Inv, Quoting, AskedFor, RfqStatuses
<1>7. /\ quote' \in [Rfqs -> [Vendors -> QuoteStatuses]]
      /\ \A u \in Vendors : quote'[f][u] = IF u = v THEN "AWARDED" ELSE "LOST"
      /\ \A g \in Rfqs \ {f} : quote'[g] = quote[g]
  BY <1>2, <1>4 DEF Inv, Quoting, QuoteStatuses
<1>8. /\ \A q : Converted(q)' <=> Converted(q)
      /\ \A g \in Rfqs \ {f} : Asked(g)' <=> Asked(g)
      /\ \A g \in Rfqs : RfqOnTime(g)' => RfqOnTime(g)
  BY <1>3, <1>4, <1>6 DEF Converted, Asked, RfqOnTime
<1>9. Asked(f)'
  BY <1>6 DEF Asked, AskedFor, RfqStatuses, NoRfq
<1>10. Quoting'
  <2>1. \A u \in Vendors : ~Converted(<<f, u>>)
    BY <1>2, <1>4, Sizes DEF Inv, Quoting
  <2> QED  BY <1>2, <1>6, <1>7, <1>8, <1>9, <2>1 DEF Inv, Quoting
<1> QED  BY <1>3, <1>8, <1>9, <1>10, QuoteStep DEF award

LEMMA CancelRfqStep ==
  ASSUME Inv, NEW w \in Workers, cancelRfq(w)
  PROVE  Inv'
<1>0. PICK f : f = call[w].rfq
  OBVIOUS
<1>1. call[w] \in Calls /\ Refers(call[w]) /\ call[w].op = "withdraw"
  BY DEF Inv, Calling, cancelRfq
<1>2. f \in Rfqs /\ Asked(f)
  BY <1>0, <1>1, CallTypes DEF Refers
<1>3. Lateness' /\ late \subseteq late'
  BY <1>0, <1>2, Overtaking DEF Inv, cancelRfq
<1>4. rfq[f].status = "AWARDED" => [kind |-> "rfq", id |-> f] \in late'
  BY <1>0, <1>2, Overtaking DEF Inv, cancelRfq
<1>5. rfq' = [rfq EXCEPT ![f].status = "CANCELLED"] /\ UNCHANGED <<quote, order, received>>
  BY <1>0 DEF cancelRfq, orders
<1>6. rfq[f] \in AskedFor
  BY <1>2, Statuses DEF Inv, Quoting
<1>7. /\ rfq'[f] \in AskedFor /\ rfq'[f].winner = rfq[f].winner
      /\ \A g \in Rfqs \ {f} : rfq'[g] = rfq[g]
      /\ rfq' \in [Rfqs -> {NoRfq} \cup AskedFor]
  BY <1>2, <1>5, <1>6 DEF Inv, Quoting, AskedFor, RfqStatuses
<1>8. /\ \A q : Converted(q)' <=> Converted(q)
      /\ \A g \in Rfqs : RfqOnTime(g)' => RfqOnTime(g)
  BY <1>3, <1>5 DEF Converted, RfqOnTime
<1>9. \A g \in Rfqs : Asked(g)' <=> Asked(g)
  BY <1>2, <1>7 DEF Asked, AskedFor, RfqStatuses, NoRfq
<1>10. RfqOnTime(f)' => \A v \in Vendors : rfq[f].winner # v
  BY <1>2, <1>4, <1>8 DEF Inv, Quoting, RfqOnTime
<1>11. Quoting'
  BY <1>2, <1>5, <1>7, <1>8, <1>9, <1>10 DEF Inv, Quoting
<1> QED  BY <1>3, <1>9, <1>11, QuoteStep DEF cancelRfq

-----------------------------------------------------------------------------
(* ... the order and the goods *)

LEMMA OrderReads ==
  ASSUME Inv, NEW w \in Workers, NEW o \in Orders,
         \/ readIssue(w, o)
         \/ \E r \in Requests \cup {None} : readCancellation(w, o, r)
         \/ \E ls \in Deliveries : readReceipt(w, o, ls)
  PROVE  Inv'
<1>1. ASSUME NEW c \in Calls, c.op \in {"issue", "cancel", "receive"}, c.order = o,
             order[o].status # "none", Begin(w, c),
             UNCHANGED <<request, budget, quoting, orders, late>>
      PROVE  Inv'
  <2>1. c.op # "book" /\ Refers(c)
    BY <1>1 DEF Refers, NoOrder
  <2> QED  BY <1>1, <2>1, Beginning
<1>2. CASE readIssue(w, o)
  <2> DEFINE c == [op |-> "issue", order |-> o]
  <2>1. c \in Calls /\ c.op = "issue" /\ c.order = o
    BY DEF Calls
  <2>2. Begin(w, c)
    BY <1>2 DEF readIssue
  <2> HIDE DEF c
  <2> QED  BY <1>1, <1>2, <2>1, <2>2 DEF readIssue
<1>3. CASE \E r \in Requests \cup {None} : readCancellation(w, o, r)
  <2>1. PICK r \in Requests \cup {None} : readCancellation(w, o, r)
    BY <1>3
  <2> DEFINE c == [op |-> "cancel", order |-> o, source |-> r]
  <2>2. c \in Calls /\ c.op = "cancel" /\ c.order = o
    BY DEF Calls
  <2>3. Begin(w, c)
    BY <2>1 DEF readCancellation
  <2> HIDE DEF c
  <2> QED  BY <1>1, <2>1, <2>2, <2>3 DEF readCancellation
<1>4. CASE \E ls \in Deliveries : readReceipt(w, o, ls)
  <2>1. PICK ls \in Deliveries : readReceipt(w, o, ls)
    BY <1>4
  <2> DEFINE c == [op |-> "receive", order |-> o, lines |-> ls]
  <2>2. c \in Calls /\ c.op = "receive" /\ c.order = o
    BY DEF Calls
  <2>3. Begin(w, c)
    BY <2>1 DEF readReceipt
  <2> HIDE DEF c
  <2> QED  BY <1>1, <2>1, <2>2, <2>3 DEF readReceipt
<1> QED  BY <1>2, <1>3, <1>4

\* The status of an order moves.
LEMMA StatusMoves ==
  ASSUME order \in [Orders -> {NoOrder} \cup Placed], NEW o \in Orders, order[o] # NoOrder,
         NEW s \in OrderStatuses, order' = [order EXCEPT ![o].status = s]
  PROVE  /\ order' \in [Orders -> {NoOrder} \cup Placed]
         /\ order'[o] # NoOrder /\ order'[o].status = s
         /\ \A p \in Orders \ {o} : order'[p] = order[p]
         /\ \A q : Converted(q)' <=> Converted(q)
<1>1. order[o] \in Placed
  BY Statuses
<1>2. /\ order'[o] \in Placed /\ order'[o].status = s /\ order'[o].quote = order[o].quote
      /\ \A p \in Orders \ {o} : order'[p] = order[p]
  BY <1>1 DEF Placed
<1>3. order'[o] # NoOrder
  BY <1>2 DEF Placed, OrderStatuses, NoOrder
<1>4. order' \in [Orders -> {NoOrder} \cup Placed]
  BY <1>2
<1> QED  BY <1>2, <1>3, <1>4 DEF Converted

LEMMA ConvertStep ==
  ASSUME Inv, NEW w \in Workers, NEW o \in Orders, convertPr(w, o)
  PROVE  Inv'
<1>0. PICK r, q : r = call[w].request /\ q = call[w].quote
  OBVIOUS
<1>1. call[w] \in Calls /\ Refers(call[w]) /\ call[w].op = "convert"
  BY DEF Inv, Calling, convertPr
<1>2. r \in Requests /\ q \in Quotes \cup {NoQuote}
  BY <1>0, <1>1, CallTypes
<1>3. Lateness' /\ late \subseteq late'
  BY <1>0, <1>2, Overtaking DEF Inv, convertPr, canTransition
<1> DEFINE new == [status |-> "DRAFT", quote |-> q]
<1>4. /\ order[o] = NoOrder /\ order' = [order EXCEPT ![o] = new]
      /\ q # NoQuote => quote[q[1]][q[2]] = "AWARDED"
      /\ UNCHANGED <<rfq, quote, received, amount, committed>>
  BY <1>0 DEF convertPr, quoting, budget, StatusOf
<1>5. new \in Placed /\ new.status = "DRAFT" /\ new.quote = q /\ new # NoOrder
  BY <1>2 DEF Placed, OrderStatuses, NoOrder
<1> HIDE DEF new
<1>6. /\ order' \in [Orders -> {NoOrder} \cup Placed] /\ order'[o] = new
      /\ \A p \in Orders \ {o} : order'[p] = order[p]
  BY <1>4, <1>5 DEF Inv, Ordering
<1>7. Calling' /\ Booking'
  <2>1. \A p \in Orders : order[p] # NoOrder => order'[p] # NoOrder
    BY <1>4, <1>6
  <2>2. End(w) /\ (\A f \in Rfqs : Asked(f) => Asked(f)')
    BY <1>4 DEF convertPr, Asked
  <2> QED  BY <1>4, <2>1, <2>2, Ending DEF Inv
<1>8. Quoting'
  <2>1. \A p \in Quotes : Converted(p)' => Converted(p) \/ p = q
    BY <1>5, <1>6 DEF Converted
  <2>2. q # NoQuote => Asked(q[1]) /\ rfq[q[1]].winner = q[2]
    BY <1>2, <1>4, QuoteTypes DEF Inv, Quoting
  <2>3. ASSUME NEW f \in Rfqs, NEW v \in Vendors, Converted(<<f, v>>)'
        PROVE  Asked(f) /\ rfq[f].winner = v
    <3>1. <<f, v>> \in Quotes /\ <<f, v>>[1] = f /\ <<f, v>>[2] = v
      BY DEF Quotes
    <3>2. Converted(<<f, v>>) \/ <<f, v>> = q
      BY <2>1, <2>3, <3>1
    <3>3. CASE Converted(<<f, v>>)
      BY <3>3 DEF Inv, Quoting
    <3>4. CASE <<f, v>> = q
      BY <2>2, <3>1, <3>4, QuoteTypes
    <3> QED  BY <3>2, <3>3, <3>4
  <2>4. \A f \in Rfqs : (Asked(f)' <=> Asked(f)) /\ (RfqOnTime(f)' => RfqOnTime(f))
    BY <1>3, <1>4 DEF Asked, RfqOnTime
  <2>5. UNCHANGED <<rfq, quote>>
    BY <1>4
  <2> QED  BY <2>3, <2>4, <2>5 DEF Inv, Quoting
<1>9. Ordering'
  <2>1. OrderFollowsItsLines'
    <3>1. \A l \in Lines : received'[o][l] = 0
      BY <1>4 DEF Inv, Ordering
    <3>2. \A p \in Orders : OrderOnTime(p)' => OrderOnTime(p)
      BY <1>3 DEF OrderOnTime
    <3> QED  BY <1>4, <1>5, <1>6, <3>1, <3>2 DEF Inv, Ordering, OrderFollowsItsLines
  <2> QED  BY <1>4, <1>5, <1>6, <2>1 DEF Inv, Ordering
<1>10. Asking' /\ Spending'
  <2>1. /\ status' = [status EXCEPT ![r] = "CONVERTED"]
        /\ orderOf' = [orderOf EXCEPT ![r] = o] /\ UNCHANGED held
    BY <1>0 DEF convertPr
  <2> QED  BY <1>2, <1>4, <2>1 DEF Inv, Asking, Spending, RequestStatuses
<1> QED  BY <1>3, <1>7, <1>8, <1>9, <1>10 DEF Inv

\* An order without goods moves to a status of an order without goods.
LEMMA WithoutGoods ==
  ASSUME Inv, NEW w \in Workers, NEW o \in Orders, order[o] # NoOrder, End(w),
         NEW s \in {"ISSUED", "CANCELLED"}, order' = [order EXCEPT ![o].status = s],
         UNCHANGED <<received, quoting>>, Asking', Spending', Lateness', late \subseteq late',
         OrderOnTime(o)' => order[o].status \in {"DRAFT", "ISSUED"}
  PROVE  Inv'
<1>1. s \in OrderStatuses
  BY DEF OrderStatuses
<1>2. /\ order' \in [Orders -> {NoOrder} \cup Placed]
      /\ order'[o] # NoOrder /\ order'[o].status = s
      /\ \A p \in Orders \ {o} : order'[p] = order[p]
      /\ \A q : Converted(q)' <=> Converted(q)
  BY <1>1, StatusMoves DEF Inv, Ordering
<1>3. Calling' /\ Booking'
  BY <1>2, Ending DEF Inv, quoting, Asked
<1>4. Quoting'
  BY <1>2, QuotesKeep DEF Inv, quoting
<1>5. \A p \in Orders : OrderOnTime(p)' => OrderOnTime(p)
  BY DEF OrderOnTime
<1>6. OrderOnTime(o)' => \A l \in Lines : received[o][l] = 0
  <2>1. OrderOnTime(o) /\ ~(\A l \in Lines : received[o][l] = 0) =>
          order[o].status \in {"RECEIVED", "PARTIALLY_RECEIVED"}
    BY DEF Inv, Ordering, OrderFollowsItsLines
  <2> QED  BY <1>5, <2>1
<1>7. Ordering'
  <2>1. OrderFollowsItsLines'
    BY <1>2, <1>5, <1>6 DEF Inv, Ordering, OrderFollowsItsLines
  <2> QED  BY <1>2, <2>1 DEF Inv, Ordering
<1> QED  BY <1>3, <1>4, <1>7 DEF Inv

LEMMA IssueStep ==
  ASSUME Inv, NEW w \in Workers, issuePo(w)
  PROVE  Inv'
<1>0. PICK o : o = call[w].order
  OBVIOUS
<1>1. call[w] \in Calls /\ Refers(call[w]) /\ call[w].op = "issue"
  BY DEF Inv, Calling, issuePo
<1>2. o \in Orders /\ order[o] # NoOrder
  BY <1>0, <1>1, CallTypes DEF Refers
<1>3. Lateness' /\ late \subseteq late' /\ (order[o].status # "DRAFT" => ~OrderOnTime(o)')
  BY <1>0, <1>2, Overtaking DEF Inv, issuePo, OrderOnTime
<1>4. Asking' /\ Spending'
  BY DEF Inv, Asking, Spending, issuePo, request, budget
<1> QED  BY <1>0, <1>2, <1>3, <1>4, WithoutGoods DEF issuePo

LEMMA CancelPoStep ==
  ASSUME Inv, NEW w \in Workers, cancelPo(w)
  PROVE  Inv'
<1>0. PICK o, r : o = call[w].order /\ r = call[w].source
  OBVIOUS
<1>1. call[w] \in Calls /\ Refers(call[w]) /\ call[w].op = "cancel"
  BY DEF Inv, Calling, cancelPo
<1>2. o \in Orders /\ order[o] # NoOrder /\ r \in Requests \cup {None}
  BY <1>0, <1>1, CallTypes DEF Refers
<1>3. /\ Lateness' /\ late \subseteq late'
      /\ order[o].status \notin {"DRAFT", "ISSUED"} => ~OrderOnTime(o)'
  BY <1>0, <1>2, Overtaking DEF Inv, cancelPo, OrderOnTime
<1>4. Asking' /\ Spending'
  <2>1. CASE r = None /\ UNCHANGED <<held, budget>>
    BY <2>1 DEF Inv, Asking, Spending, cancelPo, budget
  <2>2. CASE r # None /\ release(r)
    BY <1>2, <2>2, Releasing DEF Inv, Asking, cancelPo
  <2> QED  BY <1>0, <2>1, <2>2 DEF cancelPo
<1> QED  BY <1>0, <1>2, <1>3, <1>4, WithoutGoods DEF cancelPo

LEMMA AddToLinesStep ==
  ASSUME Inv, NEW w \in Workers, addToLines(w)
  PROVE  Inv'
<1>0. PICK o, ls : o = call[w].order /\ ls = call[w].lines
  OBVIOUS
<1>1. call[w] \in Calls /\ Refers(call[w]) /\ call[w].op = "receive"
  BY DEF Inv, Calling, addToLines
<1>2. o \in Orders /\ order[o] # NoOrder /\ ls \in Deliveries
  BY <1>0, <1>1, CallTypes DEF Refers
<1>3. PICK s : s = rollup(Arrived(o, ls))
  OBVIOUS
<1> DEFINE c == [op |-> "book", order |-> o, lines |-> ls, becomes |-> s]
<1>4. /\ c.op = "book" /\ c.order = o /\ c.lines = ls /\ c \in Calls
      /\ c.op \notin {"respond", "decline", "award", "withdraw"}
  BY <1>2, <1>3 DEF Calls, rollup, OrderStatuses
<1>5. call' = [call EXCEPT ![w] = c]
  BY <1>0, <1>3 DEF addToLines
<1> HIDE DEF c
<1>6. UNCHANGED <<status, held, orderOf, amount, committed, rfq, quote, order, received, late>>
  BY DEF addToLines, request, budget, quoting, orders
<1>7. call' \in [Workers -> Calls] /\ call'[w] = c /\ \A v \in Workers \ {w} : call'[v] = call[v]
  BY <1>4, <1>5 DEF Inv, Calling
<1>8. Calling'
  BY <1>2, <1>4, <1>6, <1>7 DEF Inv, Calling, Refers, Asked
<1>9. Booking'
  <2>1. \A v \in Workers : call[v].op = "book" /\ call[v].order = o => call[v].lines \cap ls = {}
    BY <1>0 DEF addToLines, Locked
  <2>2. \A l \in ls : received[o][l] < Ordered[l]
    <3>1. ASSUME NEW l \in ls PROVE received[o][l] < Ordered[l]
      <4>1. l \in Lines /\ ls \subseteq Lines
        BY <1>2, Sizes
      <4>2. Arrived(o, ls)[l] = received[o][l] + 1 /\ Arrived(o, ls)[l] <= Ordered[l]
        BY <1>0, <4>1 DEF addToLines, fits, Arrived
      <4>3. received[o][l] \in Nat /\ Ordered[l] \in Nat
        BY <1>2, <4>1, Sizes DEF Inv, Ordering
      <4> QED  BY <4>2, <4>3
    <3> QED  BY <3>1
  <2> QED  BY <1>4, <1>6, <1>7, <2>1, <2>2 DEF Inv, Booking
<1>10. Quoting'
  BY <1>6, QuotesKeep DEF Inv, Converted
<1> QED  BY <1>6, <1>8, <1>9, <1>10, OrdersKeep DEF Inv, Asking, Spending, Lateness

LEMMA ReceiveStep ==
  ASSUME Inv, NEW w \in Workers, receive(w)
  PROVE  Inv'
<1>0. PICK o, ls, s : o = call[w].order /\ ls = call[w].lines /\ s = call[w].becomes
  OBVIOUS
<1>1. call[w] \in Calls /\ Refers(call[w]) /\ call[w].op = "book"
  BY DEF Inv, Calling, receive
<1>2. o \in Orders /\ order[o] # NoOrder /\ ls \subseteq Lines /\ s \in OrderStatuses
  BY <1>0, <1>1, CallTypes, Sizes DEF Refers
<1> DEFINE got == Arrived(o, ls)
<1>3. /\ got \in [Lines -> Nat] /\ (\A l \in Lines : got[l] <= Ordered[l])
      /\ \A l \in Lines \ ls : got[l] = received[o][l]
  <2>1. \A l \in ls : received[o][l] < Ordered[l]
    BY <1>0, <1>1 DEF Inv, Booking
  <2> QED  BY <1>2, <2>1, Sizes DEF Inv, Ordering, Arrived
<1>4. /\ Lateness' /\ late \subseteq late'
      /\ order[o].status \notin {"ISSUED", "PARTIALLY_RECEIVED"} \/ s # rollup(got)
           => ~OrderOnTime(o)'
  BY <1>0, <1>2, Overtaking DEF Inv, receive, OrderOnTime
<1>5. /\ received' = [received EXCEPT ![o] = got]
      /\ order' = [order EXCEPT ![o].status = s] /\ End(w)
      /\ UNCHANGED <<status, held, orderOf, amount, committed, rfq, quote>>
  BY <1>0 DEF receive, request, budget, quoting
<1>6. OrderOnTime(o)' =>
        IF \A l \in Lines : got[l] = 0 THEN s = "ISSUED"
        ELSE s = IF \A l \in Lines : got[l] = Ordered[l] THEN "RECEIVED" ELSE "PARTIALLY_RECEIVED"
  <2>1. s = rollup(got) =>
          IF \A l \in Lines : got[l] = 0 THEN s = "ISSUED"
          ELSE s = IF \A l \in Lines : got[l] = Ordered[l] THEN "RECEIVED" ELSE "PARTIALLY_RECEIVED"
    <3> HIDE DEF got
    <3>1. \A l \in Lines : got[l] \in Nat /\ Ordered[l] \in Nat \ {0} /\ got[l] <= Ordered[l]
      BY <1>3, Sizes
    <3>2. \A l \in Lines : (got[l] >= Ordered[l] <=> got[l] = Ordered[l])
                        /\ (got[l] > 0 <=> got[l] # 0) /\ Ordered[l] # 0
      BY <3>1
    <3> QED  BY <3>2, Sizes DEF rollup
  <2> QED  BY <1>4, <2>1
<1> HIDE DEF got
<1>7. /\ order' \in [Orders -> {NoOrder} \cup Placed]
      /\ order'[o] # NoOrder /\ order'[o].status = s
      /\ \A p \in Orders \ {o} : order'[p] = order[p]
      /\ \A q : Converted(q)' <=> Converted(q)
  BY <1>2, <1>5, StatusMoves DEF Inv, Ordering
<1>8. /\ received' \in [Orders -> [Lines -> Nat]] /\ received'[o] = got
      /\ \A p \in Orders \ {o} : received'[p] = received[p]
  BY <1>2, <1>3, <1>5 DEF Inv, Ordering
<1>9. \A p \in Orders : OrderOnTime(p)' => OrderOnTime(p)
  BY <1>4 DEF OrderOnTime
<1>10. Ordering'
  <2>1. OrderFollowsItsLines'
    BY <1>6, <1>7, <1>8, <1>9 DEF Inv, Ordering, OrderFollowsItsLines
  <2> QED  BY <1>2, <1>3, <1>7, <1>8, <2>1 DEF Inv, Ordering
<1>11. Quoting'
  BY <1>4, <1>5, <1>7, QuotesKeep DEF Inv
<1>12. call' \in [Workers -> Calls] /\ call'[w] = Idle /\ \A v \in Workers \ {w} : call'[v] = call[v]
  BY <1>5, IdleCall DEF Inv, Calling, End
<1>13. Calling'
  <2>1. Refers(Idle)'
    BY IdleCall DEF Refers
  <2>2. ASSUME NEW v \in Workers \ {w} PROVE Refers(call[v])'
    BY <1>5, <1>7, <1>12, CallTypes DEF Inv, Calling, Refers, Asked
  <2> QED  BY <1>12, <2>1, <2>2 DEF Calling
<1>14. Booking'
  <2>1. ASSUME NEW v \in Workers, call'[v].op = "book", NEW l \in call'[v].lines
        PROVE  received'[call'[v].order][l] < Ordered[l]
    <3>1. v # w /\ call'[v] = call[v] /\ call[v].order \in Orders /\ call[v].lines \subseteq Lines
      BY <1>12, <2>1, IdleCall, CallTypes, Sizes DEF Inv, Calling
    <3>2. received[call[v].order][l] < Ordered[l]
      BY <2>1, <3>1 DEF Inv, Booking
    <3>3. call[v].order = o => l \notin ls
      BY <1>0, <1>1, <2>1, <3>1 DEF Inv, Booking
    <3> QED  BY <1>3, <1>8, <2>1, <3>1, <3>2, <3>3
  <2> QED  BY <1>12, <2>1, IdleCall DEF Inv, Booking
<1> QED  BY <1>4, <1>5, <1>10, <1>11, <1>13, <1>14 DEF Inv, Asking, Spending

LEMMA GiveUpStep ==
  ASSUME Inv, NEW w \in Workers, giveUp(w)
  PROVE  Inv'
<1>1. UNCHANGED <<status, held, orderOf, amount, committed, rfq, quote, order, received, late>>
  BY DEF giveUp, request, budget, quoting, orders
<1>2. Calling' /\ Booking'
  BY <1>1, Ending DEF Inv, giveUp, Asked
<1>3. Quoting'
  BY <1>1, QuotesKeep DEF Inv, Converted
<1> QED  BY <1>1, <1>2, <1>3, OrdersKeep DEF Inv, Asking, Spending, Lateness

-----------------------------------------------------------------------------
(* The money: what is committed, and what a request and its order hold of it *)

\* What holds of a request that was not written late.
Stands(r) ==
  OnTime(r) =>
    /\ status[r] = "CONVERTED" <=> orderOf[r] # None
    /\ status[r] # "CONVERTED" => (held[r] <=> Estimate[r] > 0 /\ status[r] = "APPROVED")
    /\ status[r] = "CONVERTED" /\ OrderOnTime(orderOf[r]) =>
         (held[r] <=> Estimate[r] > 0 /\ order[orderOf[r]].status # "CANCELLED")

\* An order exists that a request names, and no other request names it.
Linked ==
  \A r \in Requests : orderOf[r] # None =>
    /\ order[orderOf[r]] # NoOrder
    /\ \A s \in Requests : orderOf[s] = orderOf[r] => s = r

\* A cancellation gives back the money of the order it cancels, and no other.
Returning ==
  \A w \in Workers : call[w].op = "cancel" =>
    \A r \in Requests : OnTime(r) =>
      /\ orderOf[r] = call[w].order /\ held[r] => r = call[w].source
      /\ r = call[w].source => orderOf[r] = call[w].order

Covered ==
  /\ HeldMoney <= committed
  /\ (\A r \in Requests : OnTime(r)) => committed = HeldMoney

Money == Covered /\ Linked /\ Returning /\ \A r \in Requests : Stands(r)

\* The money of one more request.
LEMMA MoneyAddsUp ==
  ASSUME NEW S \in SUBSET Requests
  PROVE  /\ MoneyOf(S) \in Nat
         /\ \A r \in Requests \ S : MoneyOf(S \cup {r}) = MoneyOf(S) + Estimate[r]
<1> DEFINE of(r) == {r} \X (1..Estimate[r])
           all(T) == UNION {of(r) : r \in T}
<1>1. ASSUME NEW r \in Requests
      PROVE  IsFiniteSet(of(r)) /\ Cardinality(of(r)) = Estimate[r]
  <2>1. Estimate[r] \in Nat /\ 1 \in Int /\ Estimate[r] \in Int
    BY Sizes
  <2>2. IsFiniteSet(1..Estimate[r]) /\ Cardinality(1..Estimate[r]) = Estimate[r]
    BY <2>1, FS_Interval
  <2>3. IsFiniteSet({r}) /\ Cardinality({r}) = 1
    BY FS_Singleton
  <2>4. IsFiniteSet(of(r)) /\ Cardinality(of(r)) = 1 * Estimate[r]
    BY ONLY <2>2, <2>3, FS_Product
  <2> QED  BY <2>1, <2>4
<1>2. IsFiniteSet(all(S))
  <2> DEFINE each == [r \in S |-> of(r)]
             T == {of(r) : r \in S}
  <2>1. IsFiniteSet(S)
    BY PurchasingAssumption, FS_Subset
  <2>2. each \in Surjection(S, T)
    BY DEF Surjection
  <2>3. IsFiniteSet(T)
    <3> HIDE DEF each, T
    <3> QED  BY ONLY <2>1, <2>2, FS_Surjection
  <2>4. \A U \in T : IsFiniteSet(U)
    BY <1>1
  <2> HIDE DEF T
  <2>5. IsFiniteSet(UNION T)
    BY ONLY <2>3, <2>4, FS_UNION
  <2> QED  BY <2>5 DEF T
<1>3. MoneyOf(S) = Cardinality(all(S)) /\ MoneyOf(S) \in Nat
  BY <1>2, FS_CardinalityType DEF MoneyOf
<1>4. ASSUME NEW r \in Requests \ S
      PROVE  MoneyOf(S \cup {r}) = MoneyOf(S) + Estimate[r]
  <2>1. all(S \cup {r}) = all(S) \cup of(r) /\ all(S) \cap of(r) = {}
    OBVIOUS
  <2>2. MoneyOf(S \cup {r}) = Cardinality(all(S \cup {r}))
    BY DEF MoneyOf
  <2>3. IsFiniteSet(of(r)) /\ Cardinality(of(r)) = Estimate[r] /\ Estimate[r] \in Nat
    BY <1>1, Sizes
  <2> HIDE DEF of, all
  <2>4. Cardinality(all(S) \cup of(r)) = Cardinality(all(S)) + Cardinality(of(r)) - Cardinality({})
    BY <1>2, <2>1, <2>3, FS_Union
  <2>5. Cardinality({}) = 0 /\ Cardinality(all(S)) \in Nat
    BY <1>2, FS_EmptySet, FS_CardinalityType
  <2>6. MoneyOf(S \cup {r}) = Cardinality(all(S) \cup of(r))
    BY ONLY <2>1, <2>2
  <2>7. MoneyOf(S \cup {r}) = Cardinality(all(S)) + Estimate[r]
    BY ONLY <2>3, <2>4, <2>5, <2>6
  <2> QED  BY ONLY <1>3, <2>7
<1> QED  BY <1>3, <1>4

LEMMA Transitions ==
  ASSUME Asking, NEW r \in Requests
  PROVE  /\ canTransition(r, "SUBMITTED") => status[r] \in {"DRAFT", "REJECTED"}
         /\ canTransition(r, "APPROVED") => status[r] = "SUBMITTED"
         /\ canTransition(r, "REJECTED") => status[r] = "SUBMITTED"
         /\ canTransition(r, "CONVERTED") => status[r] = "APPROVED"
<1>1. status[r] \in RequestStatuses
  BY DEF Asking
<1>2. CASE status[r] = "DRAFT"
  BY <1>2 DEF canTransition, PR_TRANSITIONS
<1>3. CASE status[r] = "SUBMITTED"
  BY <1>3 DEF canTransition, PR_TRANSITIONS
<1>4. CASE status[r] = "APPROVED"
  BY <1>4 DEF canTransition, PR_TRANSITIONS
<1>5. CASE status[r] = "REJECTED"
  BY <1>5 DEF canTransition, PR_TRANSITIONS
<1>6. CASE status[r] \in {"CONVERTED", "CANCELLED"}
  BY <1>6 DEF canTransition, PR_TRANSITIONS
<1> QED  BY <1>1, <1>2, <1>3, <1>4, <1>5, <1>6 DEF RequestStatuses

\* Who is late stays late, and a step written late makes its row late.
LEMMA LateStays ==
  ASSUME late \subseteq late'
  PROVE  /\ \A r : OnTime(r)' => OnTime(r)
         /\ \A o : OrderOnTime(o)' => OrderOnTime(o)
  BY DEF OnTime, OrderOnTime

LEMMA Covering ==
  ASSUME Inv, Covered, UNCHANGED <<held, committed>>, late \subseteq late'
  PROVE  Covered'
<1>1. HeldMoney' = HeldMoney
  BY DEF HeldMoney, Sources, MoneyOf
<1> QED  BY <1>1, LateStays DEF Covered

\* No cancellation begins and nobody joins its order.
LEMMA ReturningKeeps ==
  ASSUME Inv, Returning, late \subseteq late',
         \A v \in Workers : call'[v].op = "cancel" => call'[v] = call[v],
         \A r \in Requests : OnTime(r)' =>
           /\ orderOf'[r] = orderOf[r] \/ (orderOf[r] = None /\ order[orderOf'[r]] = NoOrder)
           /\ held'[r] => held[r] \/ orderOf[r] = None
  PROVE  Returning'
<1> SUFFICES ASSUME NEW v \in Workers, call'[v].op = "cancel", NEW r \in Requests, OnTime(r)'
             PROVE  /\ orderOf'[r] = call'[v].order /\ held'[r] => r = call'[v].source
                    /\ r = call'[v].source => orderOf'[r] = call'[v].order
  BY DEF Returning
<1>1. call'[v] = call[v] /\ call[v] \in Calls /\ Refers(call[v]) /\ OnTime(r)
  BY LateStays DEF Inv, Calling
<1>2. call[v].order \in Orders /\ order[call[v].order] # NoOrder /\ call[v].order # None
  BY <1>1, CallTypes, Sizes DEF Refers
<1>3. /\ orderOf[r] = call[v].order /\ held[r] => r = call[v].source
      /\ r = call[v].source => orderOf[r] = call[v].order
  BY <1>1 DEF Returning
<1> QED  BY <1>1, <1>2, <1>3

\* A step that leaves the requests alone and cancels no order.
LEMMA MoneyStays ==
  ASSUME Inv, Money, UNCHANGED <<status, held, orderOf, committed>>, late \subseteq late', Returning',
         \A o \in Orders : order[o] # NoOrder =>
           /\ order'[o] # NoOrder
           /\ OrderOnTime(o)' => (order'[o].status = "CANCELLED" <=> order[o].status = "CANCELLED")
  PROVE  Money'
<1>1. \A r \in Requests : orderOf[r] # None => orderOf[r] \in Orders /\ order[orderOf[r]] # NoOrder
  BY DEF Inv, Asking, Money, Linked
<1>2. Covered'
  BY Covering DEF Money
<1>3. Linked'
  BY <1>1 DEF Money, Linked
<1>4. ASSUME NEW r \in Requests PROVE Stands(r)'
  BY <1>1, LateStays DEF Money, Stands
<1> QED  BY <1>2, <1>3, <1>4 DEF Money

\* ... while no cancellation begins.
LEMMA MoneyUntouched ==
  ASSUME Inv, Money, UNCHANGED <<status, held, orderOf, committed>>, late \subseteq late',
         \A v \in Workers : call'[v].op = "cancel" => call'[v] = call[v],
         \A o \in Orders : order[o] # NoOrder =>
           /\ order'[o] # NoOrder
           /\ OrderOnTime(o)' => (order'[o].status = "CANCELLED" <=> order[o].status = "CANCELLED")
  PROVE  Money'
<1>1. Returning'
  BY ReturningKeeps DEF Money
<1> QED  BY <1>1, MoneyStays

\* A request moves within its approval.
LEMMA RequestMoves ==
  ASSUME Inv, Money, NEW r \in Requests, NEW to \in RequestStatuses \ {"CONVERTED"}, NEW h \in BOOLEAN,
         status' = [status EXCEPT ![r] = to], held' = [held EXCEPT ![r] = h],
         UNCHANGED <<orderOf, order>>, late \subseteq late', Covered',
         \A v \in Workers : call'[v].op = "cancel" => call'[v] = call[v],
         OnTime(r)' => status[r] # "CONVERTED" /\ (h <=> Estimate[r] > 0 /\ to = "APPROVED")
  PROVE  Money'
<1>1. /\ status'[r] = to /\ held'[r] = h
      /\ \A s \in Requests \ {r} : status'[s] = status[s] /\ held'[s] = held[s]
  BY DEF Inv, Asking
<1>2. OnTime(r)' => orderOf[r] = None
  BY LateStays DEF Money, Stands
<1>3. Returning'
  BY <1>1, <1>2, ReturningKeeps DEF Money
<1>4. Linked'
  BY DEF Money, Linked
<1>5. ASSUME NEW s \in Requests PROVE Stands(s)'
  <2>1. CASE s = r
    BY <1>1, <1>2, <2>1 DEF Stands
  <2>2. CASE s # r
    BY <1>1, <2>2, LateStays DEF Money, Stands
  <2> QED  BY <2>1, <2>2
<1> QED  BY <1>3, <1>4, <1>5 DEF Money

LEMMA EndedCalls ==
  ASSUME Inv, NEW w \in Workers, End(w)
  PROVE  \A v \in Workers : call'[v].op = "cancel" => call'[v] = call[v]
  BY IdleCall DEF Inv, Calling, End

LEMMA SubmitMoney ==
  ASSUME Inv, Money, NEW w \in Workers, submitPr(w) \/ rejectPr(w)
  PROVE  Money'
<1>0. PICK r : r = call[w].request
  OBVIOUS
<1>1. r \in Requests
  BY <1>0, CallTypes DEF Inv, Calling, submitPr, rejectPr
<1>2. End(w) /\ UNCHANGED <<held, orderOf, committed, order>>
  BY DEF submitPr, rejectPr, budget, orders
<1>3. held \in [Requests -> BOOLEAN]
  BY DEF Inv, Asking
<1>4. held[r] \in BOOLEAN /\ held' = [held EXCEPT ![r] = held[r]]
  BY <1>1, <1>2, <1>3
<1>5. ASSUME NEW to \in {"SUBMITTED", "REJECTED"}, status' = [status EXCEPT ![r] = to],
             Overtaken("request", r, ~canTransition(r, to))
      PROVE  Money'
  <2>1. late \subseteq late' /\ (OnTime(r)' => canTransition(r, to))
    BY <1>5 DEF Overtaken, OnTime
  <2>2. OnTime(r)' => status[r] \notin {"CONVERTED", "APPROVED"}
    BY <1>1, <1>5, <2>1, Transitions DEF Inv
  <2>3. OnTime(r)' => ~held[r]
    BY <1>1, <2>1, <2>2, LateStays DEF Money, Stands
  <2>4. to \in RequestStatuses \ {"CONVERTED"} /\ to # "APPROVED"
    BY <1>5 DEF RequestStatuses
  <2>5. Covered'
    BY <1>2, <2>1, Covering DEF Money
  <2>6. \A v \in Workers : call'[v].op = "cancel" => call'[v] = call[v]
    BY <1>2, EndedCalls
  <2> QED  BY <1>1, <1>2, <1>4, <1>5, <2>1, <2>2, <2>3, <2>4, <2>5, <2>6, RequestMoves
<1>6. CASE submitPr(w)
  BY <1>0, <1>5, <1>6 DEF submitPr
<1>7. CASE rejectPr(w)
  BY <1>0, <1>5, <1>7 DEF rejectPr
<1> QED  BY <1>6, <1>7

\* Money that is committed is held.
LEMMA Granting ==
  ASSUME Inv, Money, NEW r \in Requests, committed' = committed + Estimate[r],
         held' = [held EXCEPT ![r] = TRUE], late \subseteq late', OnTime(r)' => ~held[r]
  PROVE  Covered'
<1>1. Sources \in SUBSET Requests /\ Sources' = Sources \cup {r} /\ (held[r] <=> r \in Sources)
  BY DEF Inv, Asking, Sources
<1>2. HeldMoney \in Nat /\ Estimate[r] \in Nat /\ committed \in Nat
  BY <1>1, MoneyAddsUp, Sizes DEF HeldMoney, Inv, Spending
<1>3. HeldMoney' = MoneyOf(Sources')
  BY DEF HeldMoney, MoneyOf
<1>4. CASE held[r]
  <2>1. HeldMoney' = HeldMoney
    <3>1. Sources' = Sources
      BY <1>1, <1>4
    <3> QED  BY <1>3, <3>1 DEF HeldMoney
  <2> QED  BY <1>2, <1>4, <2>1 DEF Covered, Money
<1>5. CASE ~held[r]
  <2>1. HeldMoney' = HeldMoney + Estimate[r]
    BY <1>1, <1>3, <1>5, MoneyAddsUp DEF HeldMoney
  <2> QED  BY <1>2, <2>1, LateStays DEF Covered, Money
<1> QED  BY <1>4, <1>5

\* Money that is released is given back.
LEMMA GivingBack ==
  ASSUME Inv, Money, NEW r \in Requests, release(r), late \subseteq late'
  PROVE  Covered' /\ held' = [held EXCEPT ![r] = FALSE]
<1>1. Sources \in SUBSET Requests /\ Sources' = Sources \ {r} /\ (held[r] <=> r \in Sources)
  BY DEF Inv, Asking, Sources, release
<1>2. HeldMoney \in Nat /\ Estimate[r] \in Nat /\ committed \in Nat
  BY <1>1, MoneyAddsUp, Sizes DEF HeldMoney, Inv, Spending
<1>3. HeldMoney' = MoneyOf(Sources')
  BY DEF HeldMoney, MoneyOf
<1>4. CASE ~held[r]
  <2>1. HeldMoney' = HeldMoney
    <3>1. Sources' = Sources
      BY <1>1, <1>4
    <3> QED  BY <1>3, <3>1 DEF HeldMoney
  <2>2. committed' = committed
    BY <1>4 DEF release
  <2> QED  BY <2>1, <2>2, LateStays DEF Covered, Money, release
<1>5. CASE held[r]
  <2>1. PICK rest \in SUBSET Requests : rest = Sources \ {r}
    BY <1>1
  <2>2. r \in Requests \ rest /\ Sources = rest \cup {r}
    BY <1>1, <1>5, <2>1
  <2>3. MoneyOf(rest) \in Nat /\ HeldMoney = MoneyOf(rest) + Estimate[r]
    BY <2>2, MoneyAddsUp DEF HeldMoney
  <2>4. HeldMoney' = MoneyOf(rest)
    BY <1>1, <1>3, <2>1
  <2>5. HeldMoney <= committed
    BY DEF Money, Covered
  <2>6. committed' = committed - Estimate[r]
    BY <1>2, <1>5, <2>3, <2>5 DEF release
  <2> QED  BY <1>2, <2>3, <2>4, <2>5, <2>6, LateStays DEF Covered, Money, release
<1> QED  BY <1>4, <1>5 DEF release

LEMMA ApproveMoney ==
  ASSUME Inv, Money, NEW w \in Workers, approvePr(w)
  PROVE  Money'
<1>0. PICK r : r = call[w].request
  OBVIOUS
<1>1. r \in Requests /\ Estimate[r] \in Nat
  BY <1>0, CallTypes, Sizes DEF Inv, Calling, approvePr
<1>2. /\ End(w) /\ UNCHANGED <<orderOf, order>>
      /\ status' = [status EXCEPT ![r] = "APPROVED"]
  BY <1>0 DEF approvePr, orders
<1>3. late \subseteq late' /\ (OnTime(r)' => canTransition(r, "APPROVED"))
  BY <1>0 DEF approvePr, Overtaken, OnTime
<1>4. OnTime(r)' => status[r] = "SUBMITTED"
  BY <1>1, <1>3, Transitions DEF Inv
<1>5. OnTime(r)' => ~held[r]
  BY <1>1, <1>3, <1>4, LateStays DEF Money, Stands
<1>6. \A v \in Workers : call'[v].op = "cancel" => call'[v] = call[v]
  BY <1>2, EndedCalls
<1>7. "APPROVED" \in RequestStatuses \ {"CONVERTED"}
  BY DEF RequestStatuses
<1>8. CASE Estimate[r] = 0 /\ UNCHANGED <<budget, held>>
  <2>1. Covered'
    BY <1>3, <1>8, Covering DEF Money, budget
  <2>2. held \in [Requests -> BOOLEAN]
    BY DEF Inv, Asking
  <2>3. held[r] \in BOOLEAN /\ held' = [held EXCEPT ![r] = held[r]]
    BY <1>1, <1>8, <2>2
  <2>4. OnTime(r)' => status[r] # "CONVERTED" /\ (held[r] <=> Estimate[r] > 0 /\ "APPROVED" = "APPROVED")
    BY <1>4, <1>5, <1>8
  <2> QED  BY <1>1, <1>2, <1>3, <1>6, <1>7, <2>1, <2>3, <2>4, RequestMoves
<1>9. CASE Estimate[r] > 0 /\ commit(Estimate[r]) /\ held' = [held EXCEPT ![r] = TRUE]
  <2>1. Covered'
    BY <1>1, <1>3, <1>5, <1>9, Granting DEF commit
  <2> QED  BY <1>1, <1>2, <1>3, <1>4, <1>6, <1>7, <1>9, <2>1, RequestMoves
<1> QED  BY <1>0, <1>8, <1>9 DEF approvePr

LEMMA CancelPrMoney ==
  ASSUME Inv, Money, NEW r \in Requests, cancelPr(r)
  PROVE  Money'
<1>1. /\ status[r] # "CONVERTED" /\ status' = [status EXCEPT ![r] = "CANCELLED"]
      /\ UNCHANGED <<orderOf, order, call, late>>
  BY DEF cancelPr, orders
<1>2. late \subseteq late'
  BY <1>1
<1>3. Covered' /\ held' = [held EXCEPT ![r] = FALSE]
  BY <1>2, GivingBack DEF cancelPr
<1>4. "CANCELLED" \in RequestStatuses \ {"CONVERTED"} /\ "CANCELLED" # "APPROVED"
  BY DEF RequestStatuses
<1> QED  BY <1>1, <1>2, <1>3, <1>4, RequestMoves

LEMMA ConvertMoney ==
  ASSUME Inv, Money, NEW w \in Workers, NEW o \in Orders, convertPr(w, o)
  PROVE  Money'
<1>0. PICK r, q : r = call[w].request /\ q = call[w].quote
  OBVIOUS
<1>1. r \in Requests
  BY <1>0, CallTypes DEF Inv, Calling, convertPr
<1>2. /\ order[o] = NoOrder /\ order' = [order EXCEPT ![o] = [status |-> "DRAFT", quote |-> q]]
      /\ status' = [status EXCEPT ![r] = "CONVERTED"] /\ orderOf' = [orderOf EXCEPT ![r] = o]
      /\ End(w) /\ UNCHANGED <<held, committed>>
  BY <1>0 DEF convertPr, budget
<1>3. late \subseteq late' /\ (OnTime(r)' => canTransition(r, "CONVERTED"))
  BY <1>0 DEF convertPr, Overtaken, OnTime
<1>4. OnTime(r)' => status[r] = "APPROVED"
  BY <1>1, <1>3, Transitions DEF Inv
<1>5. /\ order'[o].status = "DRAFT" /\ order'[o] # NoOrder
      /\ \A p \in Orders \ {o} : order'[p] = order[p]
  BY <1>2 DEF Inv, Ordering, NoOrder
<1>6. /\ status'[r] = "CONVERTED" /\ orderOf'[r] = o
      /\ \A s \in Requests \ {r} : status'[s] = status[s] /\ orderOf'[s] = orderOf[s]
  BY <1>1, <1>2 DEF Inv, Asking
<1>7. o # None /\ \A s \in Requests : orderOf[s] \in Orders \cup {None} /\ orderOf[s] # o
  BY <1>2, Sizes DEF Inv, Asking, Money, Linked
<1>8. Covered'
  BY <1>2, <1>3, Covering DEF Money
<1>9. Returning'
  <2>1. OnTime(r)' => orderOf[r] = None
    BY <1>1, <1>3, <1>4, LateStays DEF Money, Stands
  <2>2. \A v \in Workers : call'[v].op = "cancel" => call'[v] = call[v]
    BY <1>2, EndedCalls
  <2> QED  BY <1>2, <1>3, <1>6, <2>1, <2>2, ReturningKeeps DEF Money
<1>10. Linked'
  <2> SUFFICES ASSUME NEW s \in Requests, orderOf'[s] # None
               PROVE  /\ order'[orderOf'[s]] # NoOrder
                      /\ \A t \in Requests : orderOf'[t] = orderOf'[s] => t = s
    BY DEF Linked
  <2>1. CASE s = r
    BY <1>5, <1>6, <1>7, <2>1
  <2>2. CASE s # r
    <3>1. orderOf'[s] = orderOf[s] /\ orderOf[s] \in Orders \ {o}
      BY <1>6, <1>7, <2>2
    <3>2. order[orderOf[s]] # NoOrder /\ \A t \in Requests : orderOf[t] = orderOf[s] => t = s
      BY <3>1 DEF Money, Linked
    <3> QED  BY <1>5, <1>6, <3>1, <3>2
  <2> QED  BY <2>1, <2>2
<1>11. ASSUME NEW s \in Requests PROVE Stands(s)'
  <2>1. CASE s = r
    <3>1. OnTime(r)' => (held[r] <=> Estimate[r] > 0)
      BY <1>1, <1>3, <1>4, LateStays DEF Money, Stands
    <3> QED  BY <1>2, <1>5, <1>6, <1>7, <2>1, <3>1 DEF Stands
  <2>2. CASE s # r
    <3>1. orderOf[s] # None => order'[orderOf[s]] = order[orderOf[s]]
      BY <1>5, <1>7
    <3> QED  BY <1>2, <1>3, <1>6, <2>2, <3>1, LateStays DEF Money, Stands
  <2> QED  BY <2>1, <2>2
<1> QED  BY <1>8, <1>9, <1>10, <1>11 DEF Money

LEMMA CancelPoMoney ==
  ASSUME Inv, Money, NEW w \in Workers, cancelPo(w)
  PROVE  Money'
<1>0. PICK o, r : o = call[w].order /\ r = call[w].source
  OBVIOUS
<1>1. call[w] \in Calls /\ Refers(call[w]) /\ call[w].op = "cancel"
  BY DEF Inv, Calling, cancelPo
<1>2. o \in Orders /\ order[o] # NoOrder /\ r \in Requests \cup {None}
  BY <1>0, <1>1, CallTypes DEF Refers
<1>3. /\ order' = [order EXCEPT ![o].status = "CANCELLED"] /\ End(w)
      /\ UNCHANGED <<status, orderOf>> /\ late \subseteq late'
  BY <1>0 DEF cancelPo, Overtaken
<1>4. /\ order'[o] # NoOrder /\ order'[o].status = "CANCELLED"
      /\ \A p \in Orders \ {o} : order'[p] = order[p]
  BY <1>2, <1>3, StatusMoves DEF Inv, Ordering, OrderStatuses
<1>5. /\ Covered'
      /\ \A s \in Requests : held'[s] <=> held[s] /\ s # r
  <2>1. CASE r = None /\ UNCHANGED <<held, budget>>
    <3>1. Covered'
      BY <1>3, <2>1, Covering DEF Money, budget
    <3> QED  BY <2>1, <3>1, Sizes
  <2>2. CASE r # None /\ release(r)
    <3>1. Covered' /\ held' = [held EXCEPT ![r] = FALSE]
      BY <1>2, <1>3, <2>2, GivingBack
    <3> QED  BY <1>2, <2>2, <3>1 DEF Inv, Asking
  <2> QED  BY <1>0, <2>1, <2>2 DEF cancelPo
<1>6. Returning'
  <2>1. \A v \in Workers : call'[v].op = "cancel" => call'[v] = call[v]
    BY <1>3, EndedCalls
  <2> QED  BY <1>3, <1>5, <2>1, ReturningKeeps DEF Money
<1>7. \A s \in Requests : orderOf[s] # None => orderOf[s] \in Orders /\ order[orderOf[s]] # NoOrder
  BY DEF Inv, Asking, Money, Linked
<1>8. Linked'
  BY <1>3, <1>4, <1>7 DEF Money, Linked
<1>9. ASSUME NEW s \in Requests PROVE Stands(s)'
  <2>1. OnTime(s) => /\ orderOf[s] = o /\ held[s] => s = r
                     /\ s = r => orderOf[s] = o
    BY <1>0, <1>1 DEF Money, Returning
  <2>2. CASE orderOf[s] = o
    BY <1>2, <1>3, <1>4, <1>5, <2>1, <2>2, Sizes, LateStays DEF Money, Stands
  <2>3. CASE orderOf[s] # o
    <3>1. orderOf[s] # None => order'[orderOf[s]] = order[orderOf[s]]
      BY <1>4, <1>7, <2>3
    <3> QED  BY <1>3, <1>5, <2>1, <2>3, <3>1, LateStays DEF Money, Stands
  <2> QED  BY <2>2, <2>3
<1> QED  BY <1>5, <1>6, <1>8, <1>9 DEF Money

LEMMA CancellationRead ==
  ASSUME Inv, Money, NEW w \in Workers, NEW o \in Orders, NEW r \in Requests \cup {None},
         readCancellation(w, o, r)
  PROVE  Money'
<1> DEFINE c == [op |-> "cancel", order |-> o, source |-> r]
<1>1. c \in Calls /\ c.op = "cancel" /\ c.order = o /\ c.source = r
  BY DEF Calls
<1>2. call' = [call EXCEPT ![w] = c] /\ UNCHANGED <<status, held, orderOf, committed, order, late>>
  BY DEF readCancellation, Begin, request, budget, orders
<1>3. \/ r = None /\ \A s \in Sources : orderOf[s] # o
      \/ r \in Sources /\ orderOf[r] = o
  BY DEF readCancellation
<1> HIDE DEF c
<1>4. call'[w] = c /\ \A v \in Workers \ {w} : call'[v] = call[v]
  BY <1>2 DEF Inv, Calling
<1>5. \A s \in Requests : /\ orderOf[s] = o /\ held[s] => s = r
                          /\ s = r => orderOf[s] = o
  <2> TAKE s \in Requests
  <2>1. r \in Requests => \A t \in Requests : orderOf[t] = orderOf[r] /\ orderOf[r] # None => t = r
    BY DEF Money, Linked
  <2> QED  BY <1>3, <2>1, Sizes DEF Sources
<1>6. \A s : OnTime(s)' <=> OnTime(s)
  BY <1>2 DEF OnTime
<1>7. Returning'
  <2> SUFFICES ASSUME NEW v \in Workers, call'[v].op = "cancel", NEW s \in Requests, OnTime(s)
               PROVE  /\ orderOf[s] = call'[v].order /\ held[s] => s = call'[v].source
                      /\ s = call'[v].source => orderOf[s] = call'[v].order
    BY <1>2, <1>6 DEF Returning
  <2>1. CASE v = w
    BY <1>1, <1>4, <1>5, <2>1
  <2>2. CASE v # w
    BY <1>4, <2>2 DEF Money, Returning
  <2> QED  BY <2>1, <2>2
<1> QED  BY <1>2, <1>7, MoneyStays

\* A step of the quotes, of the budget's amount, or that only reads.
LEMMA OtherMoney ==
  ASSUME Inv, Money, UNCHANGED <<request, committed, orders>>, late \subseteq late',
         \A v \in Workers : call'[v].op = "cancel" => call'[v] = call[v]
  PROVE  Money'
<1>1. UNCHANGED <<status, held, orderOf, committed, order>>
  BY DEF request, orders
<1> QED  BY <1>1, MoneyUntouched

LEMMA OtherBegins ==
  ASSUME Inv, Money, NEW w \in Workers, NEW c, call' = [call EXCEPT ![w] = c], c.op # "cancel",
         UNCHANGED <<request, budget, quoting, orders, late>>
  PROVE  Money'
<1>1. \A v \in Workers : call'[v].op = "cancel" => call'[v] = call[v]
  BY DEF Inv, Calling
<1> QED  BY <1>1, OtherMoney DEF budget

LEMMA ReadMoney ==
  ASSUME Inv, Money, NEW w \in Workers,
         \/ \E r \in Requests :
              \/ readSubmit(w, r) \/ readAsk(w, r) \/ readConversion(w, r)
              \/ \E decision \in {"approve", "reject"} : readDecision(w, r, decision)
         \/ \E q \in Quotes : readResponse(w, q) \/ readDecline(w, q) \/ readAward(w, q)
         \/ \E f \in Rfqs : readWithdrawal(w, f)
         \/ \E o \in Orders : readIssue(w, o) \/ \E ls \in Deliveries : readReceipt(w, o, ls)
         \/ addToLines(w)
  PROVE  Money'
<1>1. PICK c : /\ c.op # "cancel" /\ call' = [call EXCEPT ![w] = c]
               /\ UNCHANGED <<request, budget, quoting, orders, late>>
  <2>1. CASE \E r \in Requests :
               \/ readSubmit(w, r) \/ readAsk(w, r) \/ readConversion(w, r)
               \/ \E decision \in {"approve", "reject"} : readDecision(w, r, decision)
    BY <2>1 DEF readSubmit, readAsk, readConversion, readDecision, Begin
  <2>2. CASE \E q \in Quotes : readResponse(w, q) \/ readDecline(w, q) \/ readAward(w, q)
    BY <2>2 DEF readResponse, readDecline, readAward, Begin
  <2>3. CASE \E f \in Rfqs : readWithdrawal(w, f)
    BY <2>3 DEF readWithdrawal, Begin
  <2>4. CASE \E o \in Orders : readIssue(w, o) \/ \E ls \in Deliveries : readReceipt(w, o, ls)
    BY <2>4 DEF readIssue, readReceipt, Begin
  <2>5. CASE addToLines(w)
    BY <2>5 DEF addToLines
  <2> QED  BY <2>1, <2>2, <2>3, <2>4, <2>5
<1> QED  BY <1>1, OtherBegins

LEMMA QuoteMoney ==
  ASSUME Inv, Money, NEW w \in Workers,
         \/ \E f \in Rfqs : createRfq(w, f)
         \/ recordResponse(w) \/ decline(w) \/ award(w) \/ cancelRfq(w) \/ giveUp(w)
  PROVE  Money'
<1>1. End(w) /\ late \subseteq late' /\ UNCHANGED <<request, budget, orders>>
  BY DEF createRfq, recordResponse, decline, award, cancelRfq, giveUp, Overtaken
<1> QED  BY <1>1, EndedCalls, OtherMoney DEF budget

\* An order whose status moves, but not out of a cancellation, nor into one.
LEMMA StatusMoney ==
  ASSUME Inv, Money, NEW w \in Workers, End(w), UNCHANGED <<request, budget>>, late \subseteq late',
         NEW o \in Orders, order[o] # NoOrder, NEW s \in OrderStatuses \ {"CANCELLED"},
         order' = [order EXCEPT ![o].status = s], OrderOnTime(o)' => order[o].status # "CANCELLED"
  PROVE  Money'
<1>1. /\ order'[o] # NoOrder /\ order'[o].status = s
      /\ \A p \in Orders \ {o} : order'[p] = order[p]
  BY StatusMoves DEF Inv, Ordering
<1>2. \A v \in Workers : call'[v].op = "cancel" => call'[v] = call[v]
  BY EndedCalls
<1>3. UNCHANGED <<status, held, orderOf, committed>>
  BY DEF request, budget
<1> QED  BY <1>1, <1>2, <1>3, MoneyUntouched

LEMMA IssueMoney ==
  ASSUME Inv, Money, NEW w \in Workers, issuePo(w)
  PROVE  Money'
<1>0. PICK o : o = call[w].order
  OBVIOUS
<1>1. o \in Orders /\ order[o] # NoOrder
  BY <1>0, CallTypes DEF Inv, Calling, issuePo, Refers
<1>2. late \subseteq late' /\ (OrderOnTime(o)' => order[o].status = "DRAFT")
  BY <1>0 DEF issuePo, Overtaken, OrderOnTime
<1>3. /\ order' = [order EXCEPT ![o].status = "ISSUED"] /\ End(w)
      /\ UNCHANGED <<request, budget>>
  BY <1>0 DEF issuePo
<1>4. "ISSUED" \in OrderStatuses \ {"CANCELLED"}
  BY DEF OrderStatuses
<1> QED  BY <1>1, <1>2, <1>3, <1>4, StatusMoney

\* No receipt writes that its order is cancelled.
Filling == \A w \in Workers : call[w].op = "book" => call[w].becomes # "CANCELLED"

LEMMA ReceiveMoney ==
  ASSUME Inv, Money, Filling, NEW w \in Workers, receive(w)
  PROVE  Money'
<1>0. PICK o, s : o = call[w].order /\ s = call[w].becomes
  OBVIOUS
<1>1. o \in Orders /\ order[o] # NoOrder /\ s \in OrderStatuses \ {"CANCELLED"}
  BY <1>0, CallTypes DEF Inv, Calling, receive, Refers, Filling
<1>2. /\ late \subseteq late'
      /\ OrderOnTime(o)' => order[o].status \in {"ISSUED", "PARTIALLY_RECEIVED"}
  BY <1>0 DEF receive, Overtaken, OrderOnTime
<1>3. /\ order' = [order EXCEPT ![o].status = s] /\ End(w)
      /\ UNCHANGED <<request, budget>>
  BY <1>0 DEF receive
<1> QED  BY <1>1, <1>2, <1>3, StatusMoney

LEMMA FillingStep ==
  ASSUME Inv, Filling, [Next]_vars
  PROVE  Filling'
<1>1. ASSUME NEW w \in Workers, NEW c, c.op # "book", call' = [call EXCEPT ![w] = c]
      PROVE  Filling'
  BY <1>1 DEF Inv, Calling, Filling
<1>2. ASSUME NEW w \in Workers, addToLines(w) PROVE Filling'
  <2>1. PICK o, ls, s : /\ s = rollup(Arrived(o, ls))
                        /\ call' = [call EXCEPT ![w] =
                             [op |-> "book", order |-> o, lines |-> ls, becomes |-> s]]
    BY <1>2 DEF addToLines
  <2>2. s # "CANCELLED"
    BY <2>1 DEF rollup
  <2> QED  BY <2>1, <2>2 DEF Inv, Calling, Filling
<1>3. ASSUME NEW w \in Workers, End(w) PROVE Filling'
  BY <1>1, <1>3, IdleCall DEF End
<1>4. ASSUME call' = call PROVE Filling'
  BY <1>4 DEF Filling
<1>5. ASSUME NEW w \in Workers,
             \/ \E r \in Requests :
                  \/ readSubmit(w, r) \/ readAsk(w, r) \/ readConversion(w, r)
                  \/ \E decision \in {"approve", "reject"} : readDecision(w, r, decision)
             \/ \E q \in Quotes : readResponse(w, q) \/ readDecline(w, q) \/ readAward(w, q)
             \/ \E f \in Rfqs : readWithdrawal(w, f)
      PROVE  Filling'
  <2>1. PICK c : c.op # "book" /\ call' = [call EXCEPT ![w] = c]
    BY <1>5 DEF readSubmit, readAsk, readConversion, readDecision, readResponse, readDecline,
                readAward, readWithdrawal, Begin
  <2> QED  BY <1>1, <2>1
<1>6. ASSUME NEW w \in Workers, NEW o \in Orders,
             \/ readIssue(w, o)
             \/ \E r \in Requests \cup {None} : readCancellation(w, o, r)
             \/ \E ls \in Deliveries : readReceipt(w, o, ls)
      PROVE  Filling'
  <2>1. PICK c : c.op # "book" /\ call' = [call EXCEPT ![w] = c]
    BY <1>6 DEF readIssue, readCancellation, readReceipt, Begin
  <2> QED  BY <1>1, <2>1
<1>7. ASSUME NEW w \in Workers,
             \/ \E f \in Rfqs : createRfq(w, f)
             \/ \E o \in Orders : convertPr(w, o)
             \/ submitPr(w) \/ approvePr(w) \/ rejectPr(w)
             \/ recordResponse(w) \/ decline(w) \/ award(w) \/ cancelRfq(w)
             \/ issuePo(w) \/ cancelPo(w) \/ receive(w) \/ giveUp(w)
      PROVE  Filling'
  <2>1. End(w)
    BY <1>7 DEF createRfq, convertPr, submitPr, approvePr, rejectPr, recordResponse, decline,
                award, cancelRfq, issuePo, cancelPo, receive, giveUp
  <2> QED  BY <1>3, <2>1
<1>8. ASSUME \/ UNCHANGED vars
             \/ \E r \in Requests : cancelPr(r)
             \/ \E n \in Amounts : updateBudget(n)
      PROVE  Filling'
  <2>1. call' = call
    BY <1>8 DEF vars, cancelPr, updateBudget
  <2> QED  BY <1>4, <2>1
<1> QED  BY <1>2, <1>5, <1>6, <1>7, <1>8 DEF Next

LEMMA MoneyInit == Init => Money /\ Filling
<1> SUFFICES ASSUME Init PROVE Money /\ Filling
  OBVIOUS
<1>1. Sources = {}
  BY DEF Init, Sources
<1>2. HeldMoney = 0
  BY <1>1, FS_EmptySet DEF HeldMoney, MoneyOf
<1>3. Covered
  BY <1>2 DEF Init, Covered
<1>4. Linked /\ Returning /\ Filling
  BY IdleCall DEF Init, Linked, Returning, Filling
<1>5. \A r \in Requests : Stands(r)
  BY DEF Init, Stands
<1> QED  BY <1>3, <1>4, <1>5 DEF Money

LEMMA MoneyStep == Inv /\ Money /\ Filling /\ [Next]_vars => Money' /\ Filling'
<1> SUFFICES ASSUME Inv, Money, Filling, [Next]_vars PROVE Money'
  BY FillingStep
<1>1. ASSUME UNCHANGED vars \/ \E n \in Amounts : updateBudget(n) PROVE Money'
  <2>1. UNCHANGED <<request, committed, orders, call, late>>
    BY <1>1 DEF vars, budget, updateBudget
  <2> QED  BY <2>1, OtherMoney
<1>2. ASSUME NEW w \in Workers,
             \/ \E r \in Requests :
                  \/ readSubmit(w, r) \/ readAsk(w, r) \/ readConversion(w, r)
                  \/ \E decision \in {"approve", "reject"} : readDecision(w, r, decision)
             \/ \E q \in Quotes : readResponse(w, q) \/ readDecline(w, q) \/ readAward(w, q)
             \/ \E f \in Rfqs : readWithdrawal(w, f) \/ createRfq(w, f)
      PROVE  Money'
  BY <1>2, ReadMoney, QuoteMoney
<1>3. ASSUME NEW w \in Workers, NEW o \in Orders,
             \/ convertPr(w, o) \/ readIssue(w, o)
             \/ \E r \in Requests \cup {None} : readCancellation(w, o, r)
             \/ \E ls \in Deliveries : readReceipt(w, o, ls)
      PROVE  Money'
  BY <1>3, ConvertMoney, ReadMoney, CancellationRead
<1>4. ASSUME NEW w \in Workers,
             \/ submitPr(w) \/ approvePr(w) \/ rejectPr(w)
             \/ recordResponse(w) \/ decline(w) \/ award(w) \/ cancelRfq(w)
      PROVE  Money'
  BY <1>4, SubmitMoney, ApproveMoney, QuoteMoney
<1>5. ASSUME NEW w \in Workers,
             issuePo(w) \/ cancelPo(w) \/ addToLines(w) \/ receive(w) \/ giveUp(w)
      PROVE  Money'
  BY <1>5, IssueMoney, CancelPoMoney, ReadMoney, ReceiveMoney, QuoteMoney
<1>6. ASSUME NEW r \in Requests, cancelPr(r) PROVE Money'
  BY <1>6, CancelPrMoney
<1> QED  BY <1>1, <1>2, <1>3, <1>4, <1>5, <1>6 DEF Next

-----------------------------------------------------------------------------
(* The invariant and what follows from it *)

LEMMA InvInit == Init => Inv
<1> SUFFICES ASSUME Init PROVE Inv
  OBVIOUS
<1>1. Asking /\ Spending
  BY Sizes DEF Init, Asking, Spending, RequestStatuses
<1>2. Quoting
  BY DEF Init, Quoting, Asked, Converted, QuoteStatuses
<1>3. Ordering
  BY Sizes DEF Init, Ordering, OrderFollowsItsLines
<1>4. Calling /\ Booking /\ Lateness
  BY IdleCall DEF Init, Calling, Booking, Lateness, Refers
<1> QED  BY <1>1, <1>2, <1>3, <1>4 DEF Inv

LEMMA InvStep == Inv /\ [Next]_vars => Inv'
<1> SUFFICES ASSUME Inv, [Next]_vars PROVE Inv'
  OBVIOUS
<1>1. ASSUME UNCHANGED vars PROVE Inv'
  <2>1. UNCHANGED <<status, held, orderOf, amount, committed, rfq, quote, order, received, call, late>>
    BY <1>1 DEF vars, request, budget, quoting, orders
  <2>2. Quoting'
    BY <2>1, QuotesKeep DEF Inv, Converted
  <2>3. Calling' /\ Booking'
    BY <2>1 DEF Inv, Calling, Booking, Refers, Asked
  <2> QED  BY <2>1, <2>2, <2>3, OrdersKeep DEF Inv, Asking, Spending, Lateness
<1>2. ASSUME Next PROVE Inv'
  <2>1. ASSUME NEW w \in Workers, NEW r \in Requests,
               \/ readSubmit(w, r) \/ readAsk(w, r) \/ readConversion(w, r)
               \/ \E decision \in {"approve", "reject"} : readDecision(w, r, decision)
        PROVE  Inv'
    BY <2>1, RequestReads
  <2>2. ASSUME NEW w \in Workers, NEW q \in Quotes,
               readResponse(w, q) \/ readDecline(w, q) \/ readAward(w, q)
        PROVE  Inv'
    BY <2>2, QuoteReads
  <2>3. ASSUME NEW w \in Workers, NEW f \in Rfqs, readWithdrawal(w, f) \/ createRfq(w, f)
        PROVE  Inv'
    BY <2>3, WithdrawalRead, CreateRfqStep
  <2>4. ASSUME NEW w \in Workers, NEW o \in Orders,
               \/ convertPr(w, o) \/ readIssue(w, o)
               \/ \E r \in Requests \cup {None} : readCancellation(w, o, r)
               \/ \E ls \in Deliveries : readReceipt(w, o, ls)
        PROVE  Inv'
    BY <2>4, ConvertStep, OrderReads
  <2>5. ASSUME NEW w \in Workers,
               \/ submitPr(w) \/ approvePr(w) \/ rejectPr(w)
               \/ recordResponse(w) \/ decline(w) \/ award(w) \/ cancelRfq(w)
        PROVE  Inv'
    BY <2>5, SubmitStep, ApproveStep, RejectStep, ResponseStep, DeclineStep, AwardStep, CancelRfqStep
  <2>6. ASSUME NEW w \in Workers,
               issuePo(w) \/ cancelPo(w) \/ addToLines(w) \/ receive(w) \/ giveUp(w)
        PROVE  Inv'
    BY <2>6, IssueStep, CancelPoStep, AddToLinesStep, ReceiveStep, GiveUpStep
  <2>7. ASSUME NEW r \in Requests, cancelPr(r) PROVE Inv'
    BY <2>7, CancelPrStep
  <2>8. ASSUME NEW n \in Amounts, updateBudget(n) PROVE Inv'
    BY <2>8, UpdateBudgetStep
  <2> QED  BY <1>2, <2>1, <2>2, <2>3, <2>4, <2>5, <2>6, <2>7, <2>8 DEF Next
<1> QED  BY <1>1, <1>2

LEMMA Inductive == Spec => []Inv
BY InvInit, InvStep, PTL DEF Spec

LEMMA MoneyHolds == Spec => []Money
BY Inductive, InvInit, MoneyInit, MoneyStep, PTL DEF Spec

\* Every row of the purchase keeps its type, and no line of an order takes more than
\* was ordered, however many receipts overlap (receive of procurement.service.ts).
THEOREM PurchasingTypeCorrect == Spec => []TypeOK
<1>1. Inv => TypeOK
  BY DEF Inv, Asking, Spending, Quoting, Ordering, Calling, Lateness, TypeOK, AskedFor, Placed
<1> QED  BY <1>1, Inductive, PTL

\* Only the winner of a request for quotes is awarded or ordered, and a request that
\* was not written late is awarded just when its winner stands (award of
\* rfq.service.ts, convertPr of procurement.service.ts).
THEOREM WinnersAreOrdered == Spec => []OnlyTheWinnerIsOrdered
<1>1. Inv => OnlyTheWinnerIsOrdered
  BY DEF Inv, Quoting, OnlyTheWinnerIsOrdered, StatusOf
<1> QED  BY <1>1, Inductive, PTL

\* The status of an order is that of its lines, unless it was written late (receive,
\* issuePo and cancelPo of procurement.service.ts).
THEOREM OrdersFollowGoods == Spec => []OrderFollowsItsLines
<1>1. Inv => OrderFollowsItsLines
  BY DEF Inv, Ordering
<1> QED  BY <1>1, Inductive, PTL

\* What the requests hold is committed, and what is committed is within the budget,
\* however many calls overlap (commit and release of budgets.service.ts, and its CHECK).
THEOREM SpendingHolds == Spec => []SpendingIsCovered
<1>1. Inv /\ Money => SpendingIsCovered
  BY DEF Inv, Spending, Money, Covered, SpendingIsCovered
<1> QED  BY <1>1, Inductive, MoneyHolds, PTL

\* A request holds its money from its approval until it or its order is cancelled, and
\* nothing else is committed, but for rows that were written late (decidePr, cancelPr,
\* convertPr and cancelPo of procurement.service.ts).
THEOREM MoneyIsWhereItsOrderIs == Spec => []MoneyFollowsTheOrder
<1>1. ASSUME Money PROVE MoneyFollowsTheOrder
  BY <1>1 DEF Money, Covered, Stands, MoneyFollowsTheOrder
<1> QED  BY <1>1, MoneyHolds, PTL

=============================================================================

-------------------------- MODULE StockLedgerProofs --------------------------
(***************************************************************************)
(* What holds of StockLedger for any places, people and lots, and however  *)
(* many calls overlap.                                                     *)
(***************************************************************************)
EXTENDS StockLedger, FiniteSetTheorems, TLAPS

(* The inductive invariant, by the part of the state it is about. *)

Shelf ==
  /\ level \in [Places -> Nat] /\ reserved \in [Places -> Nat]
  /\ ledger \in [Places -> Int] /\ onHand \in Int
  /\ \A p \in Places : level[p] = ledger[p] /\ reserved[p] <= level[p]
  /\ onHand = Total(level)

InLots ==
  /\ lot \in [Lots -> Nat] /\ lotLedger \in [Lots -> Int]
  /\ \A l \in Lots : lot[l] = lotLedger[l]

\* A return in progress asks for no more than its person holds, as long as no
\* other return of that person finished in between.
Handed ==
  /\ call \in [Workers -> Calls]
  /\ issued \in [People -> Nat] /\ returned \in [People -> Nat]
  /\ disturbed \subseteq People
  /\ \A u \in People \ disturbed :
       /\ returned[u] <= issued[u]
       /\ \A w \in Workers : call[w].op = "return" /\ call[w].person = u =>
            returned[u] + call[w].quantity <= issued[u]

Rest ==
  /\ tracked \in BOOLEAN /\ today \in Nat
  /\ line \in [Lines -> Received \cup {NoLine, Inspected}]

Inv == Shelf /\ InLots /\ Handed /\ Rest

-----------------------------------------------------------------------------
(* Adding quantities up *)

LEMMA UnitsAreFinite ==
  ASSUME NEW S, IsFiniteSet(S), NEW f \in [S -> Nat]
  PROVE  IsFiniteSet(Units(f))
<1> DEFINE each == [p \in S |-> {p} \X (1..f[p])]
           T == {{p} \X (1..f[p]) : p \in S}
<1>1. each \in Surjection(S, T)
  BY DEF Surjection
<1>2. IsFiniteSet(T)
  <2> HIDE DEF each, T
  <2> QED  BY <1>1, FS_Surjection
<1>3. \A p \in S : IsFiniteSet({p} \X (1..f[p]))
  <2> TAKE p \in S
  <2>1. 1 \in Int /\ f[p] \in Int
    OBVIOUS
  <2>2. IsFiniteSet(1..f[p])
    BY ONLY <2>1, FS_Interval
  <2>3. IsFiniteSet({p})
    BY FS_Singleton
  <2> QED  BY ONLY <2>2, <2>3, FS_Product
<1>4. \A U \in T : IsFiniteSet(U)
  BY <1>3
<1>5. Units(f) = UNION T
  BY DEF Units
<1> HIDE DEF T
<1> QED  BY <1>2, <1>4, <1>5, FS_UNION

LEMMA UnitsOf ==
  ASSUME NEW S, NEW f \in [S -> Nat], NEW x
  PROVE  x \in Units(f) <=> \E p \in S : \E i \in 1..f[p] : x = <<p, i>>
  BY DEF Units

\* One quantity that grows makes the sum grow by as much.
LEMMA TotalGrows ==
  ASSUME NEW S, IsFiniteSet(S), NEW f \in [S -> Nat], NEW p \in S, NEW n \in Nat,
         NEW g \in [S -> Nat], g[p] = f[p] + n, \A q \in S \ {p} : g[q] = f[q]
  PROVE  Total(f) \in Nat /\ Total(g) = Total(f) + n
<1> DEFINE more == {p} \X ((f[p] + 1)..(f[p] + n))
<1>1. IsFiniteSet(more) /\ Cardinality(more) = n
  <2> DEFINE I == (f[p] + 1)..(f[p] + n)
  <2>1. IsFiniteSet(I) /\ Cardinality(I) = n
    <3>1. f[p] + 1 \in Int /\ f[p] + n \in Int
      OBVIOUS
    <3>2. IsFiniteSet(I) /\ Cardinality(I) = IF f[p] + 1 > f[p] + n THEN 0 ELSE (f[p] + n) - (f[p] + 1) + 1
      BY <3>1, FS_Interval
    <3> HIDE DEF I
    <3> QED  BY <3>2
  <2>2. IsFiniteSet({p}) /\ Cardinality({p}) = 1
    BY FS_Singleton
  <2> HIDE DEF I
  <2>3. IsFiniteSet({p} \X I) /\ Cardinality({p} \X I) = 1 * n
    BY <2>1, <2>2, FS_Product
  <2> QED  BY <2>3 DEF I
<1>2. Units(g) = Units(f) \cup more
  <2>1. ASSUME NEW x PROVE x \in Units(g) <=> x \in Units(f) \/ x \in more
    <3>1. \A i : i \in 1..g[p] <=> i \in 1..f[p] \/ i \in (f[p] + 1)..(f[p] + n)
      OBVIOUS
    <3>2. x \in more <=> \E i \in (f[p] + 1)..(f[p] + n) : x = <<p, i>>
      OBVIOUS
    <3>3. x \in Units(g) <=> \E q \in S : \E i \in 1..g[q] : x = <<q, i>>
      BY UnitsOf
    <3>4. x \in Units(f) <=> \E q \in S : \E i \in 1..f[q] : x = <<q, i>>
      BY UnitsOf
    <3> HIDE DEF more
    <3> QED  BY <3>1, <3>2, <3>3, <3>4
  <2> QED  BY <2>1
<1>3. Units(f) \cap more = {}
  BY UnitsOf
<1>4. IsFiniteSet(Units(f)) /\ Cardinality(Units(f)) \in Nat
  BY UnitsAreFinite, FS_CardinalityType
<1> HIDE DEF more
<1>5. Cardinality(Units(g)) = Cardinality(Units(f)) + Cardinality(more) - Cardinality({})
  BY <1>1, <1>2, <1>3, <1>4, FS_Union
<1>6. Cardinality({}) = 0
  BY FS_EmptySet
<1> QED  BY <1>1, <1>4, <1>5, <1>6 DEF Total

-----------------------------------------------------------------------------
(* What the shared statements do *)

LEMMA Quantity == Quantities \subseteq Nat /\ MaxStock \in Nat
  BY StockAssumption DEF Quantities

LEMMA LevelRises ==
  ASSUME level \in [Places -> Nat], NEW p \in Places, NEW n \in Nat,
         NEW now, now = [level EXCEPT ![p] = level[p] + n]
  PROVE  now \in [Places -> Nat] /\ Total(now) = Total(level) + n /\ Total(level) \in Nat
<1>1. /\ level \in [Places -> Nat] /\ p \in Places /\ n \in Nat
      /\ now \in [Places -> Nat] /\ now[p] = level[p] + n
      /\ \A q \in Places \ {p} : now[q] = level[q]
  OBVIOUS
<1>2. IsFiniteSet(Places)
  BY StockAssumption
<1> QED  BY ONLY <1>1, <1>2, TotalGrows

LEMMA LevelFalls ==
  ASSUME level \in [Places -> Nat], NEW p \in Places, NEW n \in Nat, level[p] - n >= 0,
         NEW now, now = [level EXCEPT ![p] = level[p] - n]
  PROVE  now \in [Places -> Nat] /\ Total(now) = Total(level) - n /\ Total(level) \in Nat
<1>1. /\ level \in [Places -> Nat] /\ p \in Places /\ n \in Nat
      /\ now \in [Places -> Nat] /\ level[p] = now[p] + n
      /\ \A q \in Places \ {p} : level[q] = now[q]
  OBVIOUS
<1>2. IsFiniteSet(Places)
  BY StockAssumption
<1>3. Total(now) \in Nat /\ Total(level) = Total(now) + n
  BY ONLY <1>1, <1>2, TotalGrows
<1>4. Total(level) - n = Total(now) /\ Total(level) \in Nat
  BY <1>3
<1> QED  BY <1>1, <1>4

LEMMA Taking ==
  ASSUME Shelf, NEW p \in Places, NEW n \in Nat, takeStock(p, n), UNCHANGED reserved
  PROVE  Shelf'
<1>1. level' = [level EXCEPT ![p] = @ - n] /\ level[p] - n >= reserved[p]
  BY DEF takeStock, guardedTake
<1>2. ledger' = [ledger EXCEPT ![p] = @ - n] /\ onHand' = onHand - n
  BY DEF takeStock, posted, Shelf
<1>3. level \in [Places -> Nat] /\ level[p] - n >= 0
  BY <1>1 DEF Shelf
<1>4. level' \in [Places -> Nat] /\ Total(level') = Total(level) - n
  BY <1>1, <1>3, LevelFalls
<1> QED  BY <1>1, <1>2, <1>4 DEF Shelf

LEMMA Adding ==
  ASSUME Shelf, NEW p \in Places, NEW n \in Nat, addStock(p, n), UNCHANGED reserved
  PROVE  Shelf'
<1>1. level' = [level EXCEPT ![p] = @ + n] /\ ledger' = [ledger EXCEPT ![p] = @ + n]
  BY DEF addStock, upsertAdd, posted
<1>2. onHand' = onHand + n
  BY DEF addStock
<1>3. level \in [Places -> Nat]
  BY DEF Shelf
<1>4. level' \in [Places -> Nat] /\ Total(level') = Total(level) + n
  BY <1>1, <1>3, LevelRises
<1> QED  BY <1>1, <1>2, <1>4 DEF Shelf

LEMMA Calling ==
  ASSUME Handed, NEW w \in Workers, NEW c \in Calls, Go(w, c),
         UNCHANGED <<issued, returned, disturbed>>,
         c.op = "return" => c.quantity <= heldBy(c.person) /\ c.person \in People /\ c.quantity \in Nat
  PROVE  Handed'
<1>1. call' = [call EXCEPT ![w] = c]
  BY DEF Go
<1>2. call' \in [Workers -> Calls]
  BY <1>1 DEF Handed
<1>3. ASSUME NEW u \in People \ disturbed, NEW v \in Workers,
             call'[v].op = "return", call'[v].person = u
      PROVE  returned[u] + call'[v].quantity <= issued[u]
  <2>1. CASE v = w
    <3>1. call'[v] = c
      BY <1>1, <2>1 DEF Handed
    <3>2. c.quantity <= issued[u] - returned[u]
      BY <1>3, <3>1 DEF heldBy
    <3> QED  BY <3>1, <3>2, <1>3 DEF Handed
  <2>2. CASE v # w
    BY <1>1, <1>3, <2>2 DEF Handed
  <2> QED  BY <2>1, <2>2
<1> QED  BY <1>2, <1>3 DEF Handed

LEMMA Still ==
  ASSUME Handed, UNCHANGED <<call, issued, returned, disturbed>>
  PROVE  Handed'
  BY DEF Handed

LEMMA CallTypes ==
  ASSUME Handed, NEW w \in Workers
  PROVE  /\ Idle \in Calls /\ Idle.op # "return"
         /\ call[w].op = "return" =>
              call[w].place \in Places /\ call[w].person \in People /\ call[w].quantity \in Nat
         /\ call[w].op = "count" => call[w].place \in Places /\ call[w].delta \in Int
         /\ call[w].op = "draw" =>
              /\ call[w].place \in Places /\ call[w].quantity \in Nat
              /\ call[w].picks \in [Lots -> Nat]
<1>1. call[w] \in Calls
  BY DEF Handed
<1>2. 0..MaxStock \subseteq Nat
  BY Quantity
<1>3. Idle \in Calls /\ Idle.op # "return"
  BY DEF Calls, Idle
<1>4. call[w].op = "return" =>
        call[w].place \in Places /\ call[w].person \in People /\ call[w].quantity \in Quantities
  BY <1>1 DEF Calls, Idle
<1>5. call[w].op = "count" =>
        call[w].place \in Places /\ call[w].delta \in Int
  BY <1>1 DEF Calls, Idle
<1>6. call[w].op = "draw" =>
        call[w].place \in Places /\ call[w].quantity \in Quantities /\ call[w].picks \in Picks
  BY <1>1 DEF Calls, Idle
<1> HIDE DEF Calls, Idle
<1>7. ASSUME NEW f \in Picks PROVE f \in [Lots -> Nat]
  BY <1>2 DEF Picks
<1> QED  BY <1>2, <1>3, <1>4, <1>5, <1>6, <1>7, Quantity

-----------------------------------------------------------------------------
(* Each call keeps the invariant *)

LEMMA IssueStep ==
  ASSUME Inv, NEW p \in Places, NEW u \in People, NEW n \in Quantities, issue(p, u, n)
  PROVE  Inv'
<1>1. Shelf'
  BY Taking, Quantity DEF issue, Inv
<1>2. Handed'
  <2>1. /\ issued' = [issued EXCEPT ![u] = @ + n] /\ n \in Nat
        /\ UNCHANGED <<call, returned, disturbed>>
    BY Quantity DEF issue
  <2>2. \A w \in Workers : call[w].op = "return" => call[w].quantity \in Nat
    BY CallTypes DEF Inv
  <2> QED  BY <2>1, <2>2 DEF Inv, Handed
<1> QED  BY <1>1, <1>2 DEF Inv, InLots, Rest, issue

LEMMA AdjustStep ==
  ASSUME Inv, NEW p \in Places, NEW n \in Quantities, adjust(p, n)
  PROVE  Inv'
<1>1. Shelf'
  BY Taking, Adding, Quantity DEF adjust, Inv
<1> QED  BY <1>1, Still DEF Inv, InLots, Rest, adjust, people

LEMMA TransferStep ==
  ASSUME Inv, NEW p \in Places, NEW q \in Places, NEW n \in Quantities, transfer(p, q, n)
  PROVE  Inv'
<1>1. Shelf'
  <2>1. /\ p # q /\ level[p] - n >= reserved[p] /\ n \in Nat
        /\ level' = [level EXCEPT ![p] = @ - n, ![q] = @ + n]
        /\ ledger' = [ledger EXCEPT ![p] = @ - n, ![q] = @ + n]
        /\ UNCHANGED <<reserved, onHand>>
    BY Quantity DEF transfer
  <2>2. level \in [Places -> Nat] /\ reserved[p] \in Nat
    BY DEF Inv, Shelf
  <2>3. PICK between : between = [level EXCEPT ![p] = level[p] - n]
    OBVIOUS
  <2>4. between \in [Places -> Nat] /\ Total(between) = Total(level) - n /\ Total(level) \in Nat
    <3>1. level[p] - n >= 0
      BY <2>1, <2>2
    <3> QED  BY <2>1, <2>2, <2>3, <3>1, LevelFalls
  <2>5. /\ level' \in [Places -> Nat] /\ level'[q] = between[q] + n
        /\ \A r \in Places \ {q} : level'[r] = between[r]
    BY <2>1, <2>2, <2>3, <2>4
  <2>6. Total(level') = Total(level)
    <3>1. IsFiniteSet(Places)
      BY StockAssumption
    <3>2. Total(level') = Total(between) + n
      <4>1. n \in Nat /\ q \in Places
        BY <2>1
      <4> QED  BY ONLY <2>4, <2>5, <3>1, <4>1, TotalGrows
    <3> QED  BY <2>1, <2>4, <3>2
  <2> QED  BY <2>1, <2>6 DEF Inv, Shelf
<1> QED  BY <1>1, Still DEF Inv, InLots, Rest, transfer, people

LEMMA ConvertStep ==
  ASSUME Inv, NEW p \in Places, convertToAsset(p)
  PROVE  Inv'
<1>1. Shelf'
  BY Taking DEF convertToAsset, Inv
<1> QED  BY <1>1, Still DEF Inv, InLots, Rest, convertToAsset, people

LEMMA ReserveStep ==
  ASSUME Inv, NEW p \in Places, NEW n \in Quantities, reserve(p, n) \/ release(p, n)
  PROVE  Inv'
<1>1. Shelf'
  BY Quantity DEF reserve, release, Inv, Shelf, books
<1> QED  BY <1>1, Still DEF Inv, InLots, Rest, reserve, release, books, people

LEMMA ReturnBeginStep ==
  ASSUME Inv, NEW w \in Workers, NEW p \in Places, NEW u \in People, NEW n \in Quantities,
         returnFromUser(w, p, u, n)
  PROVE  Inv'
<1> DEFINE c == [op |-> "return", place |-> p, person |-> u, quantity |-> n]
<1>1. c \in Calls
  BY DEF Calls
<1>2. Go(w, c) /\ c.quantity <= heldBy(c.person) /\ UNCHANGED <<rollups, books, disturbed>>
  BY DEF returnFromUser
<1>3. c.person \in People /\ c.quantity \in Nat
  BY Quantity
<1>4. Handed'
  BY <1>1, <1>2, <1>3, Calling DEF Inv, books, people
<1> QED  BY <1>4 DEF Inv, Shelf, InLots, Rest, returnFromUser, rollups, books

LEMMA TakeBackStep ==
  ASSUME Inv, NEW w \in Workers, takeBack(w)
  PROVE  Inv'
<1> DEFINE u == call[w].person
           n == call[w].quantity
<1>1. /\ call[w].op = "return" /\ addStock(call[w].place, n)
      /\ returned' = [returned EXCEPT ![u] = @ + n]
      /\ disturbed' = IF Returning(u) = {w} THEN disturbed ELSE disturbed \cup {u}
      /\ call' = [call EXCEPT ![w] = Idle]
      /\ UNCHANGED <<tracked, reserved, lot, today, lotLedger, issued, line>>
  BY DEF takeBack, Go
<1>2. call[w].place \in Places /\ u \in People /\ n \in Nat /\ Idle \in Calls /\ Idle.op # "return"
  BY <1>1, CallTypes DEF Inv
<1>3. Shelf'
  BY <1>1, <1>2, Adding DEF Inv
<1> HIDE DEF u, n
<1>4. call' \in [Workers -> Calls] /\ returned' \in [People -> Nat] /\ disturbed' \subseteq People
  BY <1>1, <1>2 DEF Inv, Handed
<1>5. ASSUME NEW x \in People \ disturbed'
      PROVE  /\ returned'[x] <= issued[x]
             /\ \A v \in Workers : call'[v].op = "return" /\ call'[v].person = x =>
                  returned'[x] + call'[v].quantity <= issued[x]
  <2>1. x \in People \ disturbed
    BY <1>1, <1>5
  <2>2. CASE x # u
    BY <1>1, <1>2, <2>1, <2>2 DEF Inv, Handed
  <2>3. CASE x = u
    <3>1. Returning(u) = {w}
      BY <1>1, <1>5, <2>3
    <3>2. returned'[x] = returned[x] + n
      BY <1>1, <1>2, <2>3 DEF Inv, Handed
    <3>3. returned[x] + n <= issued[x]
      BY <1>1, <2>1, <2>3 DEF u, n, Inv, Handed
    <3>4. \A v \in Workers : ~(call'[v].op = "return" /\ call'[v].person = x)
      BY <1>1, <1>2, <2>3, <3>1 DEF Returning, Inv, Handed
    <3> QED  BY <3>2, <3>3, <3>4
  <2> QED  BY <2>2, <2>3
<1>6. Handed'
  BY <1>1, <1>4, <1>5 DEF Inv, Handed
<1> QED  BY <1>1, <1>3, <1>6 DEF Inv, InLots, Rest

LEMMA CountBeginStep ==
  ASSUME Inv, NEW w \in Workers, NEW p \in Places, NEW n \in 0..MaxStock,
         countCorrection(w, p, n)
  PROVE  Inv'
<1> DEFINE c == [op |-> "count", place |-> p, delta |-> n - level[p]]
<1>1. c \in Calls
  BY Quantity DEF Calls, Inv, Shelf
<1> QED  BY <1>1, Calling DEF Inv, Shelf, InLots, Rest, countCorrection, rollups, books, people

LEMMA PostCountStep ==
  ASSUME Inv, NEW w \in Workers, postCount(w)
  PROVE  Inv'
<1> DEFINE c == call[w]
<1>1. c.place \in Places /\ c.delta \in Int
  BY CallTypes DEF postCount, Inv
<1>2. Shelf'
  <2>1. CASE c.delta > 0 /\ addStock(c.place, c.delta)
    BY <1>1, <2>1, Adding DEF postCount, Inv
  <2>2. CASE c.delta < 0 /\ takeStock(c.place, -c.delta)
    BY <1>1, <2>2, Taking DEF postCount, Inv
  <2> QED  BY <2>1, <2>2 DEF postCount
<1>3. Handed'
  BY Calling, CallTypes DEF postCount, Inv, people
<1> QED  BY <1>2, <1>3 DEF Inv, InLots, Rest, postCount

LEMMA PlanStep ==
  ASSUME Inv, NEW w \in Workers, NEW p \in Places, NEW n \in Quantities,
         NEW allowExpired \in BOOLEAN, planIssue(w, p, n, allowExpired)
  PROVE  Inv'
<1>1. PICK picks \in [Lots -> 0..n] :
        Go(w, [op |-> "draw", place |-> p, quantity |-> n, picks |-> picks])
  BY DEF planIssue, planBatchIssue
<1>2. picks \in Picks
  <2>1. 0..n \subseteq 0..MaxStock
    BY Quantity DEF Quantities
  <2> QED  BY <2>1 DEF Picks
<1> DEFINE c == [op |-> "draw", place |-> p, quantity |-> n, picks |-> picks]
<1>3. c \in Calls /\ c.op # "return"
  BY <1>2 DEF Calls
<1> QED  BY <1>1, <1>3, Calling DEF Inv, Shelf, InLots, Rest, planIssue, rollups, books, people

LEMMA DrawStep ==
  ASSUME Inv, NEW w \in Workers, drawLots(w)
  PROVE  Inv'
<1> DEFINE c == call[w]
<1>1. c.place \in Places /\ c.quantity \in Nat /\ c.picks \in [Lots -> Nat]
  BY CallTypes DEF drawLots, Inv
<1>2. Shelf'
  BY <1>1, Taking DEF drawLots, Inv
<1>3. InLots'
  <2>1. /\ \A l \in Lots : lot[l] - c.picks[l] >= 0
        /\ lot' = [l \in Lots |-> lot[l] - c.picks[l]]
        /\ lotLedger' = [l \in Lots |-> lotLedger[l] - c.picks[l]]
    BY DEF drawLots, draw
  <2> HIDE DEF c
  <2> QED  BY <1>1, <2>1 DEF Inv, InLots
<1>4. Handed'
  BY Calling, CallTypes DEF drawLots, Inv, people
<1> QED  BY <1>2, <1>3, <1>4 DEF Inv, Rest, drawLots

LEMMA GiveUpStep ==
  ASSUME Inv, NEW w \in Workers, giveUp(w)
  PROVE  Inv'
<1>1. Handed'
  BY Calling, CallTypes DEF giveUp, Inv, books, people
<1> QED  BY <1>1 DEF Inv, Shelf, InLots, Rest, giveUp, rollups, books

LEMMA NextDayStep == ASSUME Inv, nextDay PROVE Inv'
  BY Still DEF Inv, Shelf, InLots, Rest, nextDay, rollups, books, people

LEMMA ReceiveStep ==
  ASSUME Inv, NEW p \in Places, NEW n \in Quantities, NEW l \in Lots \cup {NoLot}, receive(p, n, l)
  PROVE  Inv'
<1>1. n \in Nat
  BY Quantity
<1>2. Shelf'
  BY <1>1, Adding DEF receive, Inv
<1>3. InLots'
  BY <1>1 DEF receive, Inv, InLots
<1>4. Rest'
  <2>1. [state |-> "received", quantity |-> n, place |-> p] \in Received
    BY DEF Received
  <2> QED  BY <2>1 DEF receive, Inv, Rest
<1> QED  BY <1>2, <1>3, <1>4, Still DEF Inv, receive, people

LEMMA InspectStep ==
  ASSUME Inv, NEW i \in Lines, NEW n \in 0..MaxStock, inspect(i, n)
  PROVE  Inv'
<1>1. line[i] \in Received
  BY DEF inspect, Inv, Rest, NoLine, Inspected
<1> DEFINE p == line[i].place
<1>2. p \in Places /\ n \in Nat
  BY <1>1, Quantity DEF Received
<1>3. Shelf'
  <2>1. CASE n = 0 /\ UNCHANGED <<level, ledger, onHand>>
    BY <2>1 DEF inspect, Inv, Shelf
  <2>2. CASE rejected(p, n)
    <3> HIDE DEF p
    <3>1. /\ level[p] - n >= reserved[p] /\ level' = [level EXCEPT ![p] = @ - n]
          /\ ledger' = [ledger EXCEPT ![p] = @ + (-n)] /\ onHand' = onHand - n
      BY <2>2 DEF rejected, posted
    <3>2. UNCHANGED reserved
      BY DEF inspect
    <3>3. level \in [Places -> Nat] /\ level[p] - n >= 0
      BY <1>2, <3>1 DEF Inv, Shelf
    <3>4. level' \in [Places -> Nat] /\ Total(level') = Total(level) - n
      BY <1>2, <3>1, <3>3, LevelFalls
    <3> QED  BY <1>2, <3>1, <3>2, <3>4 DEF Inv, Shelf
  <2> QED  BY <2>1, <2>2 DEF inspect
<1>4. Rest'
  BY DEF inspect, Inv, Rest
<1> QED  BY <1>3, <1>4, Still DEF Inv, InLots, inspect, people

-----------------------------------------------------------------------------
(* The theorems *)

LEMMA InvInit == Init => Inv
<1> SUFFICES ASSUME Init PROVE Inv
  OBVIOUS
<1>1. Total(level) = 0
  <2>1. level \in [Places -> Nat] /\ \A p \in Places : level[p] = 0
    BY DEF Init
  <2>2. Units(level) = {}
    BY <2>1, UnitsOf
  <2> QED  BY <2>2, FS_EmptySet DEF Total
<1>3. Shelf /\ InLots /\ Rest
  BY <1>1 DEF Init, Shelf, InLots, Rest
<1>2. Handed
  BY DEF Init, Handed, Calls, Idle
<1> QED  BY <1>2, <1>3 DEF Inv

LEMMA InvStep == ASSUME Inv, [Next]_vars PROVE Inv'
<1>1. ASSUME Next PROVE Inv'
  <2>1. ASSUME NEW p \in Places, NEW n \in Quantities,
               \/ adjust(p, n) \/ reserve(p, n) \/ release(p, n)
               \/ \E q \in Places : transfer(p, q, n)
               \/ \E u \in People : issue(p, u, n)
               \/ \E l \in Lots \cup {NoLot} : receive(p, n, l)
               \/ \E w \in Workers :
                    \/ \E u \in People : returnFromUser(w, p, u, n)
                    \/ \E allowExpired \in BOOLEAN : planIssue(w, p, n, allowExpired)
        PROVE  Inv'
    BY <2>1, AdjustStep, ReserveStep, TransferStep, IssueStep, ReceiveStep, ReturnBeginStep, PlanStep
  <2>2. ASSUME NEW w \in Workers,
               \/ takeBack(w) \/ postCount(w) \/ drawLots(w) \/ giveUp(w)
               \/ \E p \in Places, n \in 0..MaxStock : countCorrection(w, p, n)
        PROVE  Inv'
    BY <2>2, TakeBackStep, PostCountStep, DrawStep, GiveUpStep, CountBeginStep
  <2> QED  BY <1>1, <2>1, <2>2, ConvertStep, InspectStep, NextDayStep DEF Next
<1>2. ASSUME UNCHANGED vars PROVE Inv'
  BY <1>2, Still DEF vars, rollups, books, people, Inv, Shelf, InLots, Rest
<1> QED  BY <1>1, <1>2

LEMMA Inductive == Spec => []Inv
  BY InvInit, InvStep, PTL DEF Spec

\* Every variable keeps its type: the stored quantities never go below zero.
THEOREM StockTypeCorrect == Spec => []TypeOK
<1>1. Inv => TypeOK
  BY DEF Inv, Shelf, InLots, Handed, Rest, TypeOK
<1> QED  BY <1>1, Inductive, PTL

\* What is reserved at a place is there, whoever takes stock from it.
THEOREM ReservationsHold == Spec => []ReservedIsThere
<1>1. Inv => ReservedIsThere
  BY DEF Inv, Shelf, ReservedIsThere
<1> QED  BY <1>1, Inductive, PTL

\* Every place and every lot holds what its movements add up to, and the quantity on
\* hand is that of all places, for any number of overlapping calls.
THEOREM StockIsAccountedFor == Spec => []LedgerIsTruth
<1>1. Inv => LedgerIsTruth
  BY DEF Inv, Shelf, InLots, Accounted, LedgerIsTruth
<1> QED  BY <1>1, Inductive, PTL

\* Nobody whose returns did not overlap gives back more than they were handed.
THEOREM ReturnsAreCovered == Spec => []NobodyReturnsMore
<1>1. Inv => NobodyReturnsMore
  BY DEF Inv, Handed, NobodyReturnsMore
<1> QED  BY <1>1, Inductive, PTL


=============================================================================

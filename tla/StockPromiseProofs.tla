-------------------------- MODULE StockPromiseProofs --------------------------
(***************************************************************************)
(* What holds of StockPromise for every stock, any number of requests and  *)
(* any calls in progress together.                                         *)
(***************************************************************************)
EXTENDS StockPromise, TLAPS

LEMMA CallArguments ==
  ASSUME TypeOK, NEW w \in Workers
  PROVE  /\ call[w].pc \in Assessing => call[w].request \in Requests /\ call[w].new \in Answers
         /\ call[w].pc = "release" => call[w].before \in UnitOrNone
         /\ call[w].pc = "issue" => call[w].named \in Units
  BY DEF TypeOK, Calls, Idle, Assessing

\* The records a call moves to are calls.
LEMMA CallRecords ==
  /\ Idle \in Calls
  /\ \A r \in Requests, b \in UnitOrNone, a \in Answers :
       [pc |-> "release", request |-> r, before |-> b, new |-> a] \in Calls
  /\ \A p \in {"check", "reserve", "save"}, r \in Requests, a \in Answers :
       [pc |-> p, request |-> r, new |-> a] \in Calls
  /\ \A u \in Units : [pc |-> "issue", named |-> u] \in Calls
  BY DEF Calls

LEMMA HoldingType == \A a \in Answers : a.named \in UnitOrNone /\ holding(a) \in UnitOrNone
  BY DEF Answers, UnitOrNone, holding

\* Every step keeps the types.
LEMMA TypeStep == ASSUME TypeOK, [Next]_vars PROVE TypeOK'
<1> USE DEF vars, stock, history
<1>1. ASSUME NEW w \in Workers, NEW c \in Calls, Goto(w, c)
      PROVE  /\ call' \in [Workers -> Calls] /\ call'[w] = c
             /\ \A v \in Workers \ {w} : call'[v] = call[v]
  BY <1>1 DEF Goto, TypeOK
\* Only a call that still assesses stays outdated.
<1>0. ASSUME NEW w \in Workers, NEW c \in Calls, Goto(w, c), outdated' \subseteq outdated,
             c.pc \in Assessing \/ w \notin outdated'
      PROVE  outdated' \subseteq {v \in Workers : call'[v].pc \in Assessing}
  <2>1. ASSUME NEW v \in outdated' PROVE v \in Workers /\ call'[v].pc \in Assessing
    BY <1>0, <1>1, <2>1 DEF TypeOK
  <2> QED  BY <2>1
<1>2. ASSUME NEW w \in Workers, upsertBegin(w) PROVE TypeOK'
  <2>1. PICK r \in Requests, new \in Answers :
          Goto(w, [pc |-> "release", request |-> r, before |-> answer[r].named, new |-> new])
    BY <1>2 DEF upsertBegin
  <2> DEFINE c == [pc |-> "release", request |-> r, before |-> answer[r].named, new |-> new]
  <2>2. c \in Calls /\ c.pc \in Assessing
    BY CallRecords, HoldingType DEF TypeOK, Assessing
  <2>3. Goto(w, c)
    BY <2>1
  <2> HIDE DEF c
  <2> QED  BY <1>0, <1>1, <1>2, <2>2, <2>3 DEF upsertBegin, TypeOK
<1>3. ASSUME NEW w \in Workers, release(w) PROVE TypeOK'
  <2> DEFINE c == [pc |-> IF holding(call[w].new) = NoUnit THEN "save" ELSE "check",
                   request |-> call[w].request, new |-> call[w].new]
  <2>1. c \in Calls /\ c.pc \in Assessing /\ Goto(w, c)
    BY <1>3, CallArguments, CallRecords DEF release, Assessing
  <2> HIDE DEF c
  <2>2. unit' \in [Units -> {"AVAILABLE", "RESERVED", "ASSIGNED"}]
    BY <1>3 DEF release, released, TypeOK
  <2> QED  BY <1>0, <1>1, <1>3, <2>1, <2>2 DEF release, TypeOK
<1>4. ASSUME NEW w \in Workers, check(w) PROVE TypeOK'
  <2> DEFINE c == [pc |-> "reserve", request |-> call[w].request, new |-> call[w].new]
  <2>1. c \in Calls /\ c.pc \in Assessing /\ Goto(w, c)
    BY <1>4, CallArguments, CallRecords DEF check, Assessing
  <2> HIDE DEF c
  <2>2. contested' \subseteq Units
    BY <1>4 DEF check, TypeOK
  <2> QED  BY <1>0, <1>1, <1>4, <2>1, <2>2 DEF check, TypeOK
<1>5. ASSUME NEW w \in Workers, refuse(w) PROVE TypeOK'
  BY <1>0, <1>1, <1>5, CallRecords DEF refuse, TypeOK
<1>6. ASSUME NEW w \in Workers, reserve(w) PROVE TypeOK'
  <2> DEFINE c == [pc |-> "save", request |-> call[w].request, new |-> call[w].new]
  <2>1. c \in Calls /\ c.pc \in Assessing /\ Goto(w, c)
    BY <1>6, CallArguments, CallRecords DEF reserve, Assessing
  <2> HIDE DEF c
  <2>2. unit' \in [Units -> {"AVAILABLE", "RESERVED", "ASSIGNED"}]
    BY <1>6 DEF reserve, TypeOK
  <2> QED  BY <1>0, <1>1, <1>6, <2>1, <2>2 DEF reserve, TypeOK
<1>7. ASSUME NEW w \in Workers, save(w) PROVE TypeOK'
  <2>1. call[w].request \in Requests /\ call[w].new \in Answers
    BY <1>7, CallArguments DEF save, Assessing
  <2>2. call' \in [Workers -> Calls] /\ answer' \in [Requests -> Answers]
    BY <1>1, <1>7, <2>1, CallRecords DEF save, TypeOK
  <2>3. outdated' \subseteq {v \in Workers : call'[v].pc \in Assessing}
    BY <1>7 DEF save, TypeOK, Goto, assesses
  <2> QED  BY <1>7, <2>2, <2>3 DEF save, TypeOK
<1>8. ASSUME NEW w \in Workers, issueBegin(w) PROVE TypeOK'
  <2>1. PICK u \in Units : Goto(w, [pc |-> "issue", named |-> u])
    BY <1>8 DEF issueBegin
  <2>2. [pc |-> "issue", named |-> u] \in Calls /\ w \notin outdated
    BY <1>8, CallRecords DEF issueBegin, TypeOK, Idle, Assessing
  <2> QED  BY <1>0, <1>1, <1>8, <2>1, <2>2 DEF issueBegin, TypeOK
<1>9. ASSUME NEW w \in Workers, issueReservedStock(w) PROVE TypeOK'
  <2>1. w \notin outdated
    BY <1>9 DEF issueReservedStock, TypeOK, Assessing
  <2> QED  BY <1>0, <1>1, <1>9, <2>1, CallRecords DEF issueReservedStock, TypeOK
<1>10. ASSUME NEW w \in Workers, stop(w) PROVE TypeOK'
  BY <1>0, <1>1, <1>10, CallRecords DEF stop, TypeOK
<1>11. ASSUME NEW r \in Requests, close(r) PROVE TypeOK'
  BY <1>11 DEF close, TypeOK
<1>12. CASE UNCHANGED vars
  BY <1>12 DEF TypeOK
<1> QED
  BY <1>2, <1>3, <1>4, <1>5, <1>6, <1>7, <1>8, <1>9, <1>10, <1>11, <1>12 DEF Next

\* The variables keep their types, whatever overlaps and whatever fails.
THEOREM StockTypeCorrect == Spec => []TypeOK
<1>1. Init => TypeOK
  BY DEF Init, TypeOK, Answers, UnitOrNone, Calls
<1> QED  BY <1>1, TypeStep, PTL DEF Spec

-----------------------------------------------------------------------------
(* One promise to a unit *)

\* A unit claimed for one request is neither promised to nor claimed for another one,
\* until it is contested.
Claimed ==
  \A w \in Workers, r \in Requests, u \in Units \ contested :
    claims(w, r, u) =>
      \A other \in Requests \ {r} :
        ~promises(other, u) /\ \A v \in Workers : ~claims(v, other, u)

\* A step that makes no claim and records no answer.
LEMMA QuietStep ==
  ASSUME OnePromise, Claimed,
         \A r \in Requests, u \in Units : promises(r, u)' => promises(r, u),
         \A w \in Workers, r \in Requests, u \in Units : claims(w, r, u)' => claims(w, r, u),
         contested \subseteq contested'
  PROVE  OnePromise' /\ Claimed'
  BY DEF OnePromise, Claimed

LEMMA PromiseStep ==
  ASSUME TypeOK, OnePromise, Claimed, [Next]_vars
  PROVE  OnePromise' /\ Claimed'
<1> USE DEF vars, stock, history
<1>1. ASSUME NEW w \in Workers, NEW c, Goto(w, c)
      PROVE  call'[w] = c /\ \A v \in Workers \ {w} : call'[v] = call[v]
  BY <1>1 DEF Goto, TypeOK
<1>2. ASSUME UNCHANGED <<answer, isOpen>>
      PROVE  \A r \in Requests, u \in Units : promises(r, u)' <=> promises(r, u)
  BY <1>2 DEF promises
\* A call that claims no more than it did.
<1>3. ASSUME NEW w \in Workers, NEW c, Goto(w, c), UNCHANGED <<answer, isOpen, contested>>,
             c.pc \in {"reserve", "save"} =>
               \/ holding(c.new) = NoUnit
               \/ /\ call[w].pc \in {"reserve", "save"}
                  /\ c.request = call[w].request /\ c.new = call[w].new
      PROVE  OnePromise' /\ Claimed'
  <2>1. \A v \in Workers, r \in Requests, u \in Units : claims(v, r, u)' => claims(v, r, u)
    BY <1>1, <1>3, PromiseAssumption DEF claims
  <2> QED  BY <1>2, <1>3, <2>1, QuietStep
<1>4. ASSUME NEW w \in Workers, upsertBegin(w) PROVE OnePromise' /\ Claimed'
  BY <1>3, <1>4 DEF upsertBegin
<1>5. ASSUME NEW w \in Workers, release(w) PROVE OnePromise' /\ Claimed'
  BY <1>3, <1>5 DEF release
<1>6. ASSUME NEW w \in Workers, check(w) PROVE OnePromise' /\ Claimed'
  <2> DEFINE q == call[w].request
             n == holding(call[w].new)
  <2>1. /\ call'[w] = [pc |-> "reserve", request |-> q, new |-> call[w].new]
        /\ \A v \in Workers \ {w} : call'[v] = call[v]
        /\ \A other \in Requests \ {q} : ~promises(other, n)
        /\ UNCHANGED <<answer, isOpen>> /\ call[w].pc = "check"
    BY <1>1, <1>6 DEF check, free
  <2>2. contested' = contested \cup
          {c \in Units : c = n /\ \E v \in Workers, other \in Requests \ {q} : claims(v, other, c)}
    BY <1>6 DEF check
  <2>3. \A r, u : claims(w, r, u)' => r = q /\ u = n
    BY <2>1 DEF claims
  <2>4. \A r, u : ~claims(w, r, u)
    BY <2>1 DEF claims
  <2>5. \A v \in Workers \ {w}, r \in Requests, u \in Units : claims(v, r, u)' <=> claims(v, r, u)
    BY <2>1 DEF claims
  <2>6. \A r \in Requests, u \in Units : promises(r, u)' <=> promises(r, u)
    BY <1>2, <2>1
  <2> HIDE DEF q, n
  <2>7. OnePromise'
    BY <2>2, <2>6 DEF OnePromise
  <2>8. ASSUME NEW v \in Workers, NEW r \in Requests, NEW u \in Units \ contested', claims(v, r, u)',
               NEW other \in Requests \ {r}
        PROVE  ~promises(other, u)' /\ \A x \in Workers : ~claims(x, other, u)'
    <3>1. u \in Units \ contested
      BY <2>2
    <3>2. CASE v = w
      <4>1. r = q /\ u = n
        BY <2>3, <2>8, <3>2
      <4>2. \A x \in Workers : ~claims(x, other, u)
        BY <2>2, <2>8, <4>1
      <4>3. \A x \in Workers : ~claims(x, other, u)'
        BY <2>3, <2>5, <4>1, <4>2
      <4> QED  BY <2>1, <2>6, <4>1, <4>3
    <3>3. CASE v # w
      <4>1. claims(v, r, u)
        BY <2>5, <2>8, <3>3
      <4>2. ~promises(other, u) /\ \A x \in Workers : ~claims(x, other, u)
        BY <3>1, <4>1 DEF Claimed
      <4>3. ~claims(w, other, u)'
        <5>1. ASSUME other = q, u = n PROVE FALSE
          BY <2>2, <2>8, <4>1, <5>1
        <5> QED  BY <2>3, <5>1
      <4> QED  BY <2>5, <2>6, <4>2, <4>3
    <3> QED  BY <3>2, <3>3
  <2> QED  BY <2>7, <2>8 DEF Claimed
<1>7. ASSUME NEW w \in Workers, refuse(w) \/ stop(w) \/ issueReservedStock(w) PROVE OnePromise' /\ Claimed'
  BY <1>3, <1>7 DEF refuse, stop, issueReservedStock, Idle
<1>8. ASSUME NEW w \in Workers, reserve(w) PROVE OnePromise' /\ Claimed'
  BY <1>3, <1>8 DEF reserve
<1>9. ASSUME NEW w \in Workers, save(w) PROVE OnePromise' /\ Claimed'
  <2>1. PICK q \in Requests, new \in Answers : q = call[w].request /\ new = call[w].new
    BY <1>9, CallArguments DEF save, Assessing
  <2>2. /\ answer'[q] = new /\ isOpen' = isOpen /\ contested' = contested
        /\ \A r \in Requests \ {q} : answer'[r] = answer[r]
        /\ call'[w] = Idle /\ \A v \in Workers \ {w} : call'[v] = call[v]
    BY <1>1, <1>9, <2>1 DEF save, TypeOK
  <2>3. \A u \in Units, r \in Requests \ {q} : promises(r, u)' => promises(r, u)
    BY <2>2 DEF promises
  <2>4. \A u \in Units : promises(q, u)' => u = holding(new)
    BY <2>2 DEF promises
  <2>5. \A v \in Workers, r \in Requests, u \in Units : claims(v, r, u)' => claims(v, r, u)
    BY <2>2 DEF claims, Idle
  <2>6. claims(w, q, holding(new))
    BY <1>9, <2>1 DEF save, claims
  <2>7. \A u \in Units \ contested, r \in Requests \ {q} :
          u = holding(new) => ~promises(r, u) /\ \A v \in Workers : ~claims(v, r, u)
    BY <2>6 DEF Claimed
  <2>8. OnePromise'
    BY <2>2, <2>3, <2>4, <2>7 DEF OnePromise
  <2>9. ASSUME NEW v \in Workers, NEW r \in Requests, NEW u \in Units \ contested, claims(v, r, u)',
               NEW other \in Requests \ {r}
        PROVE  ~promises(other, u)' /\ \A x \in Workers : ~claims(x, other, u)'
    <3>1. claims(v, r, u)
      BY <2>5, <2>9
    <3>2. ~promises(other, u) /\ \A x \in Workers : ~claims(x, other, u)
      BY <3>1 DEF Claimed
    <3>3. ~promises(other, u)'
      <4>1. CASE other = q
        BY <2>4, <2>6, <3>2, <4>1
      <4>2. CASE other # q
        BY <2>3, <3>2, <4>2
      <4> QED  BY <4>1, <4>2
    <3> QED  BY <2>5, <3>2, <3>3
  <2> QED  BY <2>2, <2>8, <2>9 DEF Claimed
<1>10. ASSUME NEW w \in Workers, issueBegin(w) PROVE OnePromise' /\ Claimed'
  BY <1>3, <1>10 DEF issueBegin
<1>11. ASSUME NEW r \in Requests, close(r) PROVE OnePromise' /\ Claimed'
  <2>1. \A s \in Requests, u \in Units : promises(s, u)' => promises(s, u)
    BY <1>11 DEF close, promises, TypeOK
  <2>2. \A v \in Workers, s \in Requests, u \in Units : claims(v, s, u)' => claims(v, s, u)
    BY <1>11 DEF close, claims
  <2> QED  BY <1>11, <2>1, <2>2, QuietStep DEF close
<1>12. CASE UNCHANGED vars
  BY <1>12, QuietStep DEF promises, claims
<1> QED  BY <1>4, <1>5, <1>6, <1>7, <1>8, <1>9, <1>10, <1>11, <1>12 DEF Next

\* No unit is promised to two open requests, whatever assessments overlap, unless two
\* calls claimed it at once, between the check and the save.
THEOREM NoDoublePromise == Spec => []OnePromise
<1>1. Init => OnePromise /\ Claimed
  BY PromiseAssumption DEF Init, OnePromise, Claimed, promises, claims, holding, Idle
<1>2. TypeOK /\ OnePromise /\ Claimed /\ [Next]_vars => OnePromise' /\ Claimed'
  BY PromiseStep
<1> QED  BY <1>1, <1>2, StockTypeCorrect, PTL DEF Spec

-----------------------------------------------------------------------------
(* No unit reserved for nobody *)

\* A call that is not outdated gives back what the answer held, or goes on holding it.
Keeps(w, r, u) ==
  w \notin outdated /\ call[w].pc \in {"check", "reserve", "save"} /\ call[w].request = r =>
    holding(call[w].new) = u

\* The answer of request r holds unit u, and no call that is not outdated has let it go.
Firm(r, u) == holding(answer[r]) = u /\ \A w \in Workers : Keeps(w, r, u)

Saves(w, u) == call[w].pc = "save" /\ holding(call[w].new) = u

HeldInv ==
  /\ \A w \in Workers \ outdated :
       call[w].pc = "release" => call[w].before = answer[call[w].request].named
  /\ \A u \in Units \ abandoned :
       unit[u] = "RESERVED" => (\E r \in Requests : Firm(r, u)) \/ \E w \in Workers : Saves(w, u)

LEMMA HeldStep == ASSUME TypeOK, HeldInv, [Next]_vars PROVE HeldInv'
<1> USE DEF vars, stock, history
<1>1. ASSUME NEW w \in Workers, NEW c, Goto(w, c)
      PROVE  call'[w] = c /\ \A v \in Workers \ {w} : call'[v] = call[v]
  BY <1>1 DEF Goto, TypeOK
\* A step that answers nothing: the calls keep holding what they held, and units are
\* not reserved anew.
<1>2. ASSUME NEW w \in Workers, NEW c, Goto(w, c), UNCHANGED answer,
             \A v \in outdated : (v = w /\ c.pc \notin Assessing) \/ v \in outdated',
             abandoned \subseteq abandoned',
             c.pc = "release" => c.before = answer[c.request].named,
             \A u \in Units \ abandoned' :
               unit'[u] = "RESERVED" =>
                 /\ unit[u] = "RESERVED"
                 /\ Saves(w, u) => c.pc = "save" /\ holding(c.new) = u
                 /\ w \notin outdated' =>
                      \A r \in Requests :
                        Firm(r, u) /\ c.pc \in {"check", "reserve", "save"} /\ c.request = r =>
                          holding(c.new) = u
      PROVE  HeldInv'
  <2>1. ASSUME NEW v \in Workers \ outdated', call'[v].pc = "release"
        PROVE  call'[v].before = answer'[call'[v].request].named
    BY <1>1, <1>2, <2>1 DEF HeldInv, Assessing
  <2>2. ASSUME NEW u \in Units \ abandoned', unit'[u] = "RESERVED"
        PROVE  (\E r \in Requests : Firm(r, u)') \/ \E v \in Workers : Saves(v, u)'
    <3>1. ASSUME NEW r \in Requests, Firm(r, u) PROVE Firm(r, u)'
      <4>1. ASSUME NEW v \in Workers PROVE Keeps(v, r, u)'
        <5>1. CASE v = w
          BY <1>1, <1>2, <2>2, <3>1, <5>1 DEF Keeps
        <5>2. CASE v # w
          BY <1>1, <1>2, <3>1, <5>2 DEF Keeps, Firm
        <5> QED  BY <5>1, <5>2
      <4> QED  BY <1>2, <3>1, <4>1 DEF Firm
    <3>2. ASSUME NEW v \in Workers, Saves(v, u) PROVE Saves(v, u)'
      BY <1>1, <1>2, <2>2, <3>2 DEF Saves
    <3>3. (\E r \in Requests : Firm(r, u)) \/ \E v \in Workers : Saves(v, u)
      BY <1>2, <2>2 DEF HeldInv
    <3> QED  BY <3>1, <3>2, <3>3
  <2> QED  BY <2>1, <2>2 DEF HeldInv
<1>3. ASSUME NEW w \in Workers, upsertBegin(w) PROVE HeldInv'
  <2>1. PICK r \in Requests, new \in Answers :
          Goto(w, [pc |-> "release", request |-> r, before |-> answer[r].named, new |-> new])
    BY <1>3 DEF upsertBegin
  <2> QED  BY <1>2, <1>3, <2>1 DEF upsertBegin, Saves, Idle
<1>4. ASSUME NEW w \in Workers, release(w) PROVE HeldInv'
  <2> DEFINE c == [pc |-> IF holding(call[w].new) = NoUnit THEN "save" ELSE "check",
                   request |-> call[w].request, new |-> call[w].new]
  <2>1. Goto(w, c) /\ UNCHANGED <<answer, history>> /\ call[w].pc = "release"
    BY <1>4 DEF release
  <2>2. c.pc \in {"save", "check"} /\ c.request = call[w].request /\ c.new = call[w].new
    OBVIOUS
  <2>3. ASSUME NEW u \in Units, unit'[u] = "RESERVED"
        PROVE  unit[u] = "RESERVED" /\ (u # call[w].before \/ u = holding(call[w].new))
    BY <1>4, <2>3 DEF release, released, TypeOK
  <2>4. ASSUME NEW u \in Units, unit'[u] = "RESERVED", w \notin outdated,
               Firm(call[w].request, u)
        PROVE  holding(call[w].new) = u
    <3>1. call[w].before = answer[call[w].request].named /\ holding(answer[call[w].request]) = u
      BY <2>1, <2>4 DEF HeldInv, Firm
    <3>2. call[w].before = u
      BY <3>1, PromiseAssumption DEF holding
    <3> QED  BY <2>3, <2>4, <3>2
  <2> HIDE DEF c
  <2> QED  BY <1>2, <2>1, <2>2, <2>3, <2>4 DEF Saves
<1>5. ASSUME NEW w \in Workers, check(w) PROVE HeldInv'
  <2> DEFINE c == [pc |-> "reserve", request |-> call[w].request, new |-> call[w].new]
  <2>1. Goto(w, c) /\ UNCHANGED <<unit, answer, outdated, abandoned>> /\ call[w].pc = "check"
    BY <1>5 DEF check
  <2>2. c.pc = "reserve" /\ c.request = call[w].request /\ c.new = call[w].new
    OBVIOUS
  <2> HIDE DEF c
  <2> QED  BY <1>2, <2>1, <2>2 DEF Saves, Firm, Keeps
<1>6. ASSUME NEW w \in Workers, refuse(w) PROVE HeldInv'
  BY <1>2, <1>6 DEF refuse, Saves, Idle, Assessing
<1>7. ASSUME NEW w \in Workers, issueBegin(w) PROVE HeldInv'
  BY <1>2, <1>7 DEF issueBegin, Saves, Idle, Assessing
<1>8. ASSUME NEW w \in Workers, issueReservedStock(w) PROVE HeldInv'
  <2>1. \A u \in Units : unit'[u] = "RESERVED" => unit[u] = "RESERVED"
    BY <1>8 DEF issueReservedStock, TypeOK
  <2> QED  BY <1>2, <1>8, <2>1 DEF issueReservedStock, Saves, Idle, Assessing
<1>9. ASSUME NEW w \in Workers, stop(w) PROVE HeldInv'
  <2>1. \A u \in Units \ abandoned' : ~Saves(w, u)
    BY <1>9 DEF stop, Saves
  <2> QED  BY <1>2, <1>9, <2>1 DEF stop, Idle, Assessing
\* The unit just reserved is that of a call about to save.
<1>10. ASSUME NEW w \in Workers, reserve(w) PROVE HeldInv'
  <2> DEFINE c == [pc |-> "save", request |-> call[w].request, new |-> call[w].new]
  <2>1. /\ call'[w] = c /\ \A v \in Workers \ {w} : call'[v] = call[v]
        /\ UNCHANGED <<answer, outdated, abandoned>> /\ call[w].pc = "reserve"
        /\ unit' = [unit EXCEPT ![holding(call[w].new)] = "RESERVED"]
    BY <1>1, <1>10 DEF reserve
  <2>2. c.pc = "save" /\ c.request = call[w].request /\ c.new = call[w].new
    OBVIOUS
  <2> HIDE DEF c
  <2>3. ASSUME NEW v \in Workers \ outdated', call'[v].pc = "release"
        PROVE  call'[v].before = answer'[call'[v].request].named
    BY <2>1, <2>2, <2>3 DEF HeldInv
  <2>4. ASSUME NEW u \in Units \ abandoned', unit'[u] = "RESERVED"
        PROVE  (\E r \in Requests : Firm(r, u)') \/ \E v \in Workers : Saves(v, u)'
    <3>1. CASE u = holding(call[w].new)
      <4>1. Saves(w, u)'
        BY <2>1, <2>2, <3>1 DEF Saves
      <4> QED  BY <4>1
    <3>2. CASE u # holding(call[w].new)
      <4>1. unit[u] = "RESERVED"
        BY <2>1, <2>4, <3>2 DEF TypeOK
      <4>2. \A r \in Requests : Firm(r, u) => Firm(r, u)'
        BY <2>1, <2>2 DEF Firm, Keeps
      <4>3. \A v \in Workers : Saves(v, u) => Saves(v, u)'
        BY <2>1 DEF Saves
      <4> QED  BY <2>1, <2>4, <4>1, <4>2, <4>3 DEF HeldInv
    <3> QED  BY <3>1, <3>2
  <2> QED  BY <2>3, <2>4 DEF HeldInv
\* What a save replaces it has given back, unless it is outdated.
<1>11. ASSUME NEW w \in Workers, save(w) PROVE HeldInv'
  <2>1. PICK q \in Requests, new \in Answers : q = call[w].request /\ new = call[w].new
    BY <1>11, CallArguments DEF save, Assessing
  <2>2. /\ answer'[q] = new /\ \A r \in Requests \ {q} : answer'[r] = answer[r]
        /\ call'[w] = Idle /\ \A v \in Workers \ {w} : call'[v] = call[v]
        /\ unit' = unit /\ call[w].pc = "save"
    BY <1>1, <1>11, <2>1 DEF save, TypeOK
  <2>3. /\ outdated' = {v \in Workers \ {w} : v \in outdated \/ assesses(v, q)}
        /\ abandoned' = abandoned \cup
             {u \in Units : w \in outdated /\ u = holding(answer[q]) /\ u # holding(new)}
    BY <1>11, <2>1 DEF save
  <2>4. ASSUME NEW v \in Workers \ outdated', call'[v].pc = "release"
        PROVE  call'[v].before = answer'[call'[v].request].named
    <3>1. v # w /\ v \notin outdated /\ ~assesses(v, q) /\ call'[v] = call[v]
      BY <2>2, <2>3, <2>4 DEF Idle
    <3>2. call[v].request \in Requests \ {q}
      BY <2>4, <3>1, CallArguments DEF assesses, Assessing
    <3> QED  BY <2>2, <2>4, <3>1, <3>2 DEF HeldInv
  \* Every other call on the request is outdated from now on.
  <2>5. \A v \in Workers, u \in Units : Keeps(v, q, u)'
    BY <2>2, <2>3 DEF Keeps, assesses, Assessing, Idle
  <2>6. ASSUME NEW u \in Units \ abandoned', unit'[u] = "RESERVED"
        PROVE  (\E r \in Requests : Firm(r, u)') \/ \E v \in Workers : Saves(v, u)'
    <3>1. CASE holding(new) = u
      <4>1. Firm(q, u)'
        BY <2>2, <2>5, <3>1 DEF Firm
      <4> QED  BY <4>1
    <3>2. CASE holding(new) # u
      <4>1. ASSUME Firm(q, u) PROVE FALSE
        <5>1. w \notin outdated
          BY <2>3, <2>6, <3>2, <4>1 DEF Firm
        <5>2. Keeps(w, q, u)
          BY <4>1 DEF Firm
        <5> QED  BY <2>1, <2>2, <3>2, <5>1, <5>2 DEF Keeps
      <4>2. ASSUME NEW r \in Requests \ {q}, Firm(r, u) PROVE Firm(r, u)'
        <5>1. \A v \in Workers : Keeps(v, r, u)'
          BY <2>2, <2>3, <4>2 DEF Firm, Keeps, Idle
        <5> QED  BY <2>2, <4>2, <5>1 DEF Firm
      <4>3. ~Saves(w, u) /\ \A v \in Workers \ {w} : Saves(v, u) => Saves(v, u)'
        BY <2>1, <2>2, <3>2 DEF Saves
      <4>4. (\E r \in Requests : Firm(r, u)) \/ \E v \in Workers : Saves(v, u)
        BY <2>2, <2>3, <2>6 DEF HeldInv
      <4> QED  BY <4>1, <4>2, <4>3, <4>4
    <3> QED  BY <3>1, <3>2
  <2> QED  BY <2>4, <2>6 DEF HeldInv
<1>12. ASSUME UNCHANGED <<unit, answer, call, outdated, abandoned>> PROVE HeldInv'
  BY <1>12 DEF HeldInv, Firm, Keeps, Saves
<1>13. ASSUME NEW r \in Requests, close(r) PROVE HeldInv'
  BY <1>12, <1>13 DEF close
<1>14. CASE UNCHANGED vars
  BY <1>12, <1>14
<1> QED
  BY <1>3, <1>4, <1>5, <1>6, <1>7, <1>8, <1>9, <1>10, <1>11, <1>13, <1>14 DEF Next

\* Changing the answer gives the unit back: none stays reserved for nobody, whatever
\* assessments overlap, but by a process that stops before the save or by an assessment
\* that overwrites one it has not seen.
THEOREM NoUnitIsForgotten == Spec => []ReservedIsHeld
<1>1. Init => HeldInv
  BY DEF Init, HeldInv, Idle
<1>2. TypeOK /\ HeldInv /\ [Next]_vars => HeldInv'
  BY HeldStep
<1>3. HeldInv => ReservedIsHeld
  BY DEF HeldInv, Firm, Saves, ReservedIsHeld
<1> QED  BY <1>1, <1>2, <1>3, StockTypeCorrect, PTL DEF Spec

=============================================================================

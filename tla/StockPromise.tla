----------------------------- MODULE StockPromise -----------------------------
(***************************************************************************)
(* Requests that are filled from the same stock: naming a unit, holding    *)
(* it, giving it back and handing it over (syncStockReservation and upsert *)
(* in apps/api/src/requests/assessments.service.ts, issueReservedStock in  *)
(* requests.service.ts).                                                   *)
(*                                                                         *)
(* Every statement of a call is a step of its own; other calls run between *)
(* two of them, and a process may stop there.  Nothing serialises the      *)
(* assessments, of several requests or of one.  Three history variables    *)
(* record where that mattered.                                             *)
(***************************************************************************)

CONSTANTS Requests,
          Units,
          Workers   \* API calls that may be in progress together

CONSTANT NoUnit

ASSUME PromiseAssumption == NoUnit \notin Units

VARIABLES unit,       \* status of each unit
          answer,     \* the recorded assessment of each request
          isOpen,     \* the request is not completed, cancelled or rejected
          call,       \* what each worker is doing
          contested,  \* units claimed for a request while a call claims them for another
          outdated,   \* calls after whose read of an answer another call replaced it
          abandoned   \* units reserved for an answer that was overwritten or never saved

stock   == <<unit, answer, isOpen>>
history == <<contested, outdated, abandoned>>
vars    == <<unit, answer, isOpen, call, contested, outdated, abandoned>>

UnitOrNone == Units \cup {NoUnit}

\* The unit an assessment names, and whether nothing is to be bought.
Answers == [named : UnitOrNone, fromStock : BOOLEAN]

Idle == [pc |-> "idle"]
Assessing == {"release", "check", "reserve", "save"}
Calls ==
  {Idle}
    \cup [pc : {"release"}, request : Requests, before : UnitOrNone, new : Answers]
    \cup [pc : {"check", "reserve", "save"}, request : Requests, new : Answers]
    \cup [pc : {"issue"}, named : Units]

TypeOK ==
  /\ unit \in [Units -> {"AVAILABLE", "RESERVED", "ASSIGNED"}]
  /\ answer \in [Requests -> Answers]
  /\ isOpen \in [Requests -> BOOLEAN]
  /\ call \in [Workers -> Calls]
  /\ contested \subseteq Units
  /\ outdated \subseteq {w \in Workers : call[w].pc \in Assessing}
  /\ abandoned \subseteq Units

Goto(w, c) == call' = [call EXCEPT ![w] = c]

\* The unit an answer holds; the named unit counts only where nothing is bought.
holding(a) == IF a.fromStock THEN a.named ELSE NoUnit

Init ==
  /\ unit \in [Units -> {"AVAILABLE", "ASSIGNED"}]
  /\ answer = [r \in Requests |-> [named |-> NoUnit, fromStock |-> FALSE]]
  /\ isOpen = [r \in Requests |-> TRUE]
  /\ call = [w \in Workers |-> Idle]
  /\ contested = {}
  /\ outdated = {}
  /\ abandoned = {}

-----------------------------------------------------------------------------
(* Assessing a request *)

\* A closed request is not assessed.  The answer recorded so far is read here.
upsertBegin(w) ==
  /\ call[w] = Idle
  /\ \E r \in Requests, new \in Answers :
       /\ isOpen[r]
       /\ Goto(w, [pc |-> "release", request |-> r, before |-> answer[r].named, new |-> new])
  /\ UNCHANGED <<stock, history>>

\* Mutant: a unit that the new answer still names is kept, bought or not.
releasedUnlessNamed(before, new) ==
  [u \in Units |-> IF u = before /\ u # new.named /\ unit[u] = "RESERVED"
                   THEN "AVAILABLE" ELSE unit[u]]

\* The unit named before is given back if it is RESERVED.
released(before, new) ==
  [u \in Units |-> IF u = before /\ u # holding(new) /\ unit[u] = "RESERVED"
                   THEN "AVAILABLE" ELSE unit[u]]

release(w) ==
  /\ call[w].pc = "release"
  /\ unit' = released(call[w].before, call[w].new)
  /\ Goto(w, [pc |-> IF holding(call[w].new) = NoUnit THEN "save" ELSE "check",
              request |-> call[w].request, new |-> call[w].new])
  /\ UNCHANGED <<answer, isOpen, history>>

promises(r, u) == isOpen[r] /\ holding(answer[r]) = u

\* Mutant: only the asset is looked at, not the other requests.
freeAsset(r, u) == unit[u] \in {"AVAILABLE", "RESERVED"}

free(r, u) ==
  /\ unit[u] \in {"AVAILABLE", "RESERVED"}
  /\ \A other \in Requests \ {r} : ~promises(other, u)

\* A call has found unit u free for request r and has yet to record it.
claims(w, r, u) ==
  /\ call[w].pc \in {"reserve", "save"}
  /\ call[w].request = r
  /\ holding(call[w].new) = u

check(w) ==
  LET r == call[w].request
      u == holding(call[w].new)
  IN  /\ call[w].pc = "check"
      /\ free(r, u)
      /\ Goto(w, [pc |-> "reserve", request |-> r, new |-> call[w].new])
      /\ contested' = contested \cup
           {c \in Units : c = u /\ \E v \in Workers, other \in Requests \ {r} : claims(v, other, c)}
      /\ UNCHANGED <<stock, outdated, abandoned>>

\* A unit that is not free, or promised to another request, is refused.
refuse(w) ==
  /\ call[w].pc = "check"
  /\ ~free(call[w].request, holding(call[w].new))
  /\ Goto(w, Idle)
  /\ outdated' = outdated \ {w}
  /\ UNCHANGED <<stock, contested, abandoned>>

reserve(w) ==
  /\ call[w].pc = "reserve"
  /\ unit' = [unit EXCEPT ![holding(call[w].new)] = "RESERVED"]
  /\ Goto(w, [pc |-> "save", request |-> call[w].request, new |-> call[w].new])
  /\ UNCHANGED <<answer, isOpen, history>>

\* A call is about to replace the answer of request r.
assesses(w, r) ==
  call[w].pc \in Assessing /\ call[w].request = r

save(w) ==
  LET r == call[w].request
  IN  /\ call[w].pc = "save"
      /\ answer' = [answer EXCEPT ![r] = call[w].new]
      /\ Goto(w, Idle)
      /\ outdated' = {v \in Workers \ {w} : v \in outdated \/ assesses(v, r)}
      /\ abandoned' = abandoned \cup
           {u \in Units : w \in outdated /\ u = holding(answer[r]) /\ u # holding(call[w].new)}
      /\ UNCHANGED <<unit, isOpen, contested>>

-----------------------------------------------------------------------------
(* The end of a request *)

\* The chain of an open request finishes: the unit it promises is looked at.
issueBegin(w) ==
  /\ call[w] = Idle
  /\ \E r \in Requests, u \in Units :
       /\ promises(r, u)
       /\ unit[u] = "RESERVED"
       /\ Goto(w, [pc |-> "issue", named |-> u])
  /\ UNCHANGED <<stock, history>>

\* It is handed over, unless by then it cannot be.
issueReservedStock(w) ==
  /\ call[w].pc = "issue"
  /\ unit' = [unit EXCEPT ![call[w].named] =
                IF @ \in {"AVAILABLE", "RESERVED"} THEN "ASSIGNED" ELSE @]
  /\ Goto(w, Idle)
  /\ UNCHANGED <<answer, isOpen, history>>

\* A request is completed, cancelled or rejected.
close(r) ==
  /\ isOpen[r]
  /\ isOpen' = [isOpen EXCEPT ![r] = FALSE]
  /\ UNCHANGED <<unit, answer, call, history>>

\* A process stops, or a statement fails, in the middle of a call.
stop(w) ==
  /\ call[w] # Idle
  /\ Goto(w, Idle)
  /\ abandoned' = abandoned \cup
       {u \in Units : call[w].pc = "save" /\ u = holding(call[w].new)}
  /\ outdated' = outdated \ {w}
  /\ UNCHANGED <<stock, contested>>

Next ==
  \/ \E w \in Workers :
       \/ upsertBegin(w) \/ release(w) \/ check(w) \/ refuse(w) \/ reserve(w) \/ save(w)
       \/ issueBegin(w) \/ issueReservedStock(w) \/ stop(w)
  \/ \E r \in Requests : close(r)

Spec == Init /\ [][Next]_vars

-----------------------------------------------------------------------------
(* Properties *)

\* No unit is promised to two open requests: there is no way to it but two calls that
\* claim it at once, between the check and the save.
OnePromise ==
  \A r, s \in Requests, u \in Units \ contested : promises(r, u) /\ promises(s, u) => r = s

\* Changing the answer gives the unit back: a unit stays RESERVED only for an answer
\* "from stock" that holds it, or that is about to be saved.  There is no way to a unit
\* reserved for nobody but a process that stops before the save, and two assessments
\* of one request that overlap.
ReservedIsHeld ==
  \A u \in Units \ abandoned :
    unit[u] = "RESERVED" =>
      \/ \E r \in Requests : holding(answer[r]) = u
      \/ \E w \in Workers : call[w].pc = "save" /\ holding(call[w].new) = u

=============================================================================

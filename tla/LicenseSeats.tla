----------------------------- MODULE LicenseSeats -----------------------------
(***************************************************************************)
(* Seat assignment of one software licence with its default pool           *)
(* (apps/api/src/licenses/licenses.service.ts).                            *)
(*                                                                         *)
(* Every handler runs in two steps: it reads the licence, the pool or the  *)
(* assignment and decides (a Begin action), and later writes what it       *)
(* decided in one transaction (a Commit action), with whatever other       *)
(* handlers did in between.  A worker is an API request in progress; with  *)
(* several the handlers race.                                              *)
(***************************************************************************)
EXTENDS Integers, FiniteSets, Functions

CONSTANTS Rows,      \* assignment rows the licence can come to have
          Holders,   \* principals that may hold a seat: users or assets
          Workers,   \* API requests that may be in progress together
          MaxSeats,  \* bound on the seats of the licence
          MaxDelta   \* bound on the seats one renewal adds or removes

ASSUME SeatsAssumption ==
  /\ IsFiniteSet(Rows)
  /\ MaxSeats \in Nat
  /\ MaxDelta \in Nat
  /\ {"unused", "revoked"} \cap Holders = {}

VARIABLES seat,       \* what a row is: unused, revoked, or active for a holder
          reserved,   \* SeatPool.seatsReserved, the stored counter
          allocated,  \* SeatPool.seatsAllocated
          purchased,  \* SoftwareLicense.seatsPurchased
          status,     \* SoftwareLicense.status
          expired,    \* the expiry date has passed
          deleted,    \* SoftwareLicense.deletedAt is set
          call,       \* what each worker has read and is about to write
          closedAgain, \* history: writes that closed a row another had closed
          spans,      \* history: workers whose call overlaps a removal
          besides     \* history: rows opened by such a call

pool    == <<seat, reserved, allocated>>
license == <<purchased, status, expired, deleted>>
history == <<closedAgain, besides>>
vars    == <<seat, reserved, allocated, purchased, status, expired, deleted, call,
             closedAgain, spans, besides>>

Statuses == {"ACTIVE", "EXPIRED", "RETIRED"}
SeatCounts == 0..MaxSeats

Idle == [op |-> "idle"]
Calls ==
  {Idle}
    \cup [op : {"assign"}, who : SUBSET Holders]
    \cup [op : {"revoke"}, row : Rows]
    \cup [op : {"transfer"}, row : Rows, to : Holders]
    \cup [op : {"renew"}, buy : SeatCounts, give : SeatCounts, extend : BOOLEAN]
    \cup [op : {"update", "sweep"}, status : Statuses]
    \cup [op : {"remove"}]

TypeOK ==
  /\ seat \in [Rows -> Holders \cup {"unused", "revoked"}]
  /\ reserved \in SeatCounts
  /\ allocated \in SeatCounts
  /\ purchased \in SeatCounts
  /\ status \in Statuses
  /\ expired \in BOOLEAN
  /\ deleted \in BOOLEAN
  /\ call \in [Workers -> Calls]
  /\ closedAgain \in Nat
  /\ spans \subseteq Workers
  /\ besides \subseteq Rows

-----------------------------------------------------------------------------

Active == {r \in Rows : seat[r] \in Holders}
Unused == {r \in Rows : seat[r] = "unused"}
HolderSet == {seat[r] : r \in Active}

\* EXPIRING is not told apart from ACTIVE: no guard of the service does.
deriveLicenseStatus(isExpired) == IF isExpired THEN "EXPIRED" ELSE "ACTIVE"

assignable == ~deleted /\ status \notin {"RETIRED", "EXPIRED"}

\* Mutant: the CHECK forgets the upper bound.
OnlyNonNegative(taken, total) == 0 <= taken

\* The database's CHECK on the pool: a transaction that breaks it rolls back.
ReservedWithinAllocation(taken, total) == 0 <= taken /\ taken <= total

\* The database's partial unique index on the active rows of a licence.
NoActiveDuplicate(rowsNow, who) == \A r \in rowsNow : seat[r] \notin who

\* Calls that overlap a removal, those that began before it and those that
\* begin during it, are noted in the history.
Begin(w, c) ==
  /\ call[w] = Idle
  /\ call' = [call EXCEPT ![w] = c]
  /\ spans' = IF c.op = "remove" THEN {v \in Workers : call[v] # Idle}
              ELSE spans \cup {v \in {w} : \E x \in Workers : call[x].op = "remove"}
  /\ UNCHANGED <<pool, license, history>>

Done(w) ==
  /\ call' = [call EXCEPT ![w] = Idle]
  /\ spans' = spans \ {w}

\* The history of a write that closes row r, and of one by w that opens rows.
Closes(r) == closedAgain' = closedAgain + (IF r \in Active THEN 0 ELSE 1)
Opens(w) == besides' = besides \cup {r \in Active' \ Active : w \in spans}

-----------------------------------------------------------------------------
(* Handlers *)

Init ==
  /\ seat = [r \in Rows |-> "unused"]
  /\ reserved = 0
  /\ purchased \in SeatCounts
  /\ allocated = purchased
  /\ expired \in BOOLEAN
  /\ status = deriveLicenseStatus(expired)
  /\ deleted = FALSE
  /\ call = [w \in Workers |-> Idle]
  /\ closedAgain = 0
  /\ spans = {}
  /\ besides = {}

assignBegin(w) ==
  /\ assignable
  /\ \E h \in Holders : Begin(w, [op |-> "assign", who |-> {h}])

\* Mode ATOMIC.  Mode PARTIAL is a worker that begins one assign after another.
bulkAssignBegin(w) ==
  /\ assignable
  /\ \E H \in SUBSET Holders : H # {} /\ Begin(w, [op |-> "assign", who |-> H])

\* The rows once each holder of H has the unused row it is mapped to.
occupied(H, row) ==
  [r \in Rows |-> IF \E h \in H : row[h] = r
                  THEN CHOOSE h \in H : row[h] = r
                  ELSE seat[r]]

\* Mutant: the limit is compared with the seats already taken.
takeOneTooMany(H) ==
  /\ reserved <= allocated
  /\ NoActiveDuplicate(Active, H)
  /\ reserved' = reserved + Cardinality(H)
  /\ \E row \in Injection(H, Unused) : seat' = occupied(H, row)
  /\ UNCHANGED <<allocated, license>>

\* The conditional increment, then one new active row per holder.
takeSeats(H) ==
  /\ reserved + Cardinality(H) <= allocated
  /\ NoActiveDuplicate(Active, H)
  /\ reserved' = reserved + Cardinality(H)
  /\ \E row \in Injection(H, Unused) : seat' = occupied(H, row)
  /\ UNCHANGED <<allocated, license>>

assignCommit(w) ==
  /\ call[w].op = "assign"
  /\ takeSeats(call[w].who)
  /\ Opens(w)
  /\ Done(w)
  /\ UNCHANGED closedAgain

revokeBegin(w) == \E r \in Active : Begin(w, [op |-> "revoke", row |-> r])

\* Mutant: the decrement loses its "seatsReserved" > 0.
revokeUnguarded(w) ==
  /\ call[w].op = "revoke"
  /\ seat' = [seat EXCEPT ![call[w].row] = "revoked"]
  /\ reserved' = reserved - 1
  /\ Closes(call[w].row)
  /\ Done(w)
  /\ UNCHANGED <<allocated, license, besides>>

\* Mutant: the row is closed and the counter forgotten.
revokeRowOnly(w) ==
  /\ call[w].op = "revoke"
  /\ seat' = [seat EXCEPT ![call[w].row] = "revoked"]
  /\ Closes(call[w].row)
  /\ Done(w)
  /\ UNCHANGED <<reserved, allocated, license, besides>>

\* The row is closed by its id, whatever its status is by now; the counter
\* goes down unless it is zero.
revokeCommit(w) ==
  /\ call[w].op = "revoke"
  /\ seat' = [seat EXCEPT ![call[w].row] = "revoked"]
  /\ reserved' = IF reserved > 0 THEN reserved - 1 ELSE reserved
  /\ Closes(call[w].row)
  /\ Done(w)
  /\ UNCHANGED <<allocated, license, besides>>

transferBegin(w) ==
  /\ assignable
  /\ \E r \in Active, h \in Holders :
       /\ h # seat[r]
       /\ Begin(w, [op |-> "transfer", row |-> r, to |-> h])

\* The old row is closed by its id, a new one opened; the counter is not
\* touched.  The unique index sees the rows after the first of the two writes.
transferCommit(w) ==
  /\ call[w].op = "transfer"
  /\ NoActiveDuplicate(Active \ {call[w].row}, {call[w].to})
  /\ \E r \in Unused : seat' = [seat EXCEPT ![call[w].row] = "revoked", ![r] = call[w].to]
  /\ Closes(call[w].row)
  /\ Opens(w)
  /\ Done(w)
  /\ UNCHANGED <<reserved, allocated, license>>

\* The new totals are computed from the pool as read here.
renewBegin(w) ==
  /\ ~deleted
  /\ \E delta \in -MaxDelta..MaxDelta, extend \in BOOLEAN :
       /\ purchased + delta \in SeatCounts
       /\ allocated + delta \in SeatCounts
       /\ allocated + delta >= reserved
       /\ allocated + delta <= purchased + delta
       /\ Begin(w, [op |-> "renew", buy |-> purchased + delta,
                    give |-> allocated + delta, extend |-> extend])

renewCommit(w) ==
  /\ call[w].op = "renew"
  /\ ReservedWithinAllocation(reserved, call[w].give)
  /\ purchased' = call[w].buy
  /\ allocated' = call[w].give
  /\ expired' = (expired /\ ~call[w].extend)
  /\ status' = IF call[w].extend THEN deriveLicenseStatus(FALSE) ELSE status
  /\ Done(w)
  /\ UNCHANGED <<seat, reserved, deleted, history>>

\* Only the retired flag of an update bears on seats.
updateBegin(w) ==
  /\ ~deleted
  /\ \E retired \in BOOLEAN :
       Begin(w, [op |-> "update",
                 status |-> IF retired THEN "RETIRED" ELSE deriveLicenseStatus(expired)])

\* The nightly licence sweep: the status follows the calendar.
sweepBegin(w) ==
  /\ ~deleted
  /\ status # "RETIRED"
  /\ status # deriveLicenseStatus(expired)
  /\ Begin(w, [op |-> "sweep", status |-> deriveLicenseStatus(expired)])

statusCommit(w) ==
  /\ call[w].op \in {"update", "sweep"}
  /\ status' = call[w].status
  /\ Done(w)
  /\ UNCHANGED <<pool, purchased, expired, deleted, history>>

\* Mutant: a licence in use can be removed.
removeInUse(w) ==
  /\ ~deleted
  /\ Begin(w, [op |-> "remove"])

removeBegin(w) ==
  /\ ~deleted
  /\ Active = {}
  /\ Begin(w, [op |-> "remove"])

removeCommit(w) ==
  /\ call[w].op = "remove"
  /\ deleted' = TRUE
  /\ Done(w)
  /\ UNCHANGED <<pool, purchased, status, expired, history>>

\* A call ends without effect: its transaction is refused and rolls back, or
\* the process stops between the read and the write.
abort(w) ==
  /\ call[w] # Idle
  /\ Done(w)
  /\ UNCHANGED <<pool, license, history>>

timePasses ==
  /\ ~expired
  /\ expired' = TRUE
  /\ UNCHANGED <<pool, purchased, status, deleted, call, spans, history>>

Next ==
  \/ \E w \in Workers :
       \/ assignBegin(w) \/ bulkAssignBegin(w) \/ assignCommit(w)
       \/ revokeBegin(w) \/ revokeCommit(w)
       \/ transferBegin(w) \/ transferCommit(w)
       \/ renewBegin(w) \/ renewCommit(w)
       \/ updateBegin(w) \/ sweepBegin(w) \/ statusCommit(w)
       \/ removeBegin(w) \/ removeCommit(w)
       \/ abort(w)
  \/ timePasses

Spec == Init /\ [][Next]_vars

-----------------------------------------------------------------------------
(* Properties *)

\* The counter stays between zero and the allocation whatever the handlers'
\* interleaving: the conditional update and the CHECK of the migration.
CounterWithinAllocation == 0 <= reserved /\ reserved <= allocated

\* No principal holds two active seats of the licence, however assigns and
\* transfers interleave (the partial unique indexes).
OneActiveSeatPerHolder == \A r, s \in Active : seat[r] = seat[s] => r = s

\* The stored counter never counts a seat that no active row takes, and falls
\* short of the active rows by at most the writes that closed a row which an
\* overlapping call had closed already: revokeCommit and transferCommit write
\* by the row's id and do not look at its status again
\* (licenses.service.ts:463-497, 499-563).  Without such a write it is exact.
CounterFollowsRows ==
  /\ reserved <= Cardinality(Active)
  /\ Cardinality(Active) <= reserved + closedAgain

\* A deleted licence has no seat, except those that a call gave or moved which
\* overlapped its removal: the removal counts the seats before it writes, and
\* an assign reads the licence before it does (licenses.service.ts:292-307).
DeletedLicenseHasNoSeats == deleted => Active \subseteq besides

Allotment == INSTANCE SeatAllotment WITH
  Holder <- Holders, Limits <- SeatCounts, holders <- HolderSet, limit <- allocated

\* As long as no row has been closed twice the handlers, overlapping or not,
\* give, take and move seats as SeatAllotment says: no seat is lost, doubled or
\* given beyond the limit.
ImplementsAllotment ==
  /\ Allotment!Init
  /\ [][closedAgain' = 0 => Allotment!Next]_<<HolderSet, allocated>>

=============================================================================

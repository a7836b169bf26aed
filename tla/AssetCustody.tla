----------------------------- MODULE AssetCustody -----------------------------
(***************************************************************************)
(* One individually tracked asset and the people it is handed to: its      *)
(* status, the holder named on it, the handover rows behind that name, the *)
(* receipts, returns, office transfers and disposal                        *)
(* (apps/api/src/assets/assets.service.ts, custody-record.ts).             *)
(*                                                                         *)
(* A worker is an API call in progress.  A call reads in one step and      *)
(* writes in later ones: a transaction is one step, statements outside one *)
(* are steps of their own; restoring a missing handover row is one step.   *)
(* A call may be refused or stop between any two.                          *)
(* The grade of an asset is left out: it moves a status only to DAMAGED,   *)
(* where a change of status may go as well.  Reservations and quality      *)
(* checks make moves that a change of status makes too.                    *)
(***************************************************************************)
EXTENDS AssetStatus, Integers

CONSTANTS Users,
          NoUser,
          MaxRows,       \* handovers that happen
          MaxTransfers,  \* transfers that happen
          Targets,       \* statuses clients ask for
          Workers        \* API calls that may be in progress together

ASSUME CustodyAssumption ==
  /\ NoUser \notin Users
  /\ MaxRows \in Nat
  /\ MaxTransfers \in Nat
  /\ Targets \subseteq AssetStatuses

Rows      == 1..MaxRows
Transfers == 1..MaxTransfers

VARIABLES status,    \* Asset.status
          holder,    \* Asset.assignedUserId
          deleted,   \* Asset.deletedAt is set
          user,      \* whom each handover row is for, NoUser before it exists
          open,      \* rows without returnedAt
          acked,     \* rows whose receipt is confirmed
          returned,  \* rows with an AssetReturn
          sent,      \* transfers dispatched
          received,  \* transfers whose arrival is confirmed
          disposed,  \* a DisposalRecord exists
          call       \* what each worker is doing

asset     == <<status, holder>>
handovers == <<user, open, acked, returned>>
moves     == <<sent, received>>
vars      == <<status, holder, deleted, user, open, acked, returned, sent, received, disposed, call>>

Idle == [pc |-> "idle"]
Calls ==
  {Idle}
    \cup [pc : {"change", "dispose"}, to : AssetStatuses]
    \cup [pc : {"assign"}, user : Users]
    \cup [pc : {"receipt"}, row : Rows]
    \cup [pc : {"inUse", "delete", "transfer"}]
    \cup [pc : {"openReturn"}, from : AssetStatuses, had : Users \cup {NoUser},
          heal : BOOLEAN, to : AssetStatuses]
    \cup [pc : {"openReassign"}, from : AssetStatuses, had : Users \cup {NoUser},
          heal : BOOLEAN, user : Users]
    \cup [pc : {"return"}, row : Rows, to : AssetStatuses]
    \cup [pc : {"reassign"}, row : Rows, user : Users]
    \cup [pc : {"receive"}, transfer : Transfers, to : AssetStatuses]

TypeOK ==
  /\ status \in AssetStatuses
  /\ holder \in Users \cup {NoUser}
  /\ deleted \in BOOLEAN /\ disposed \in BOOLEAN
  /\ user \in [Rows -> Users \cup {NoUser}]
  /\ open \subseteq Rows /\ acked \subseteq Rows /\ returned \subseteq Rows
  /\ sent \subseteq Transfers /\ received \subseteq sent
  /\ call \in [Workers -> Calls]

-----------------------------------------------------------------------------

Begin(w, c) ==
  /\ call[w] = Idle
  /\ call' = [call EXCEPT ![w] = c]
  /\ UNCHANGED <<asset, deleted, handovers, moves, disposed>>

Goto(w, c) == call' = [call EXCEPT ![w] = c]

\* The CHECK on assets: a status that says nobody has it names no holder.
HolderAllowed(s, h) == h = NoUser \/ s \notin WithoutHolder

\* A write of the asset row; one the database refuses does not happen.
Write(s, h) == HolderAllowed(s, h) /\ status' = s /\ holder' = h

Created == {i \in Rows : user[i] # NoUser}
Fresh   == {i \in Rows : \A j \in Rows : (j \in Created) <=> (j < i)}
latest(S) == CHOOSE i \in S : \A j \in S : j <= i

\* A created asset has the status its creator names and no holder.  An import
\* that stopped before it wrote the handover row leaves a holder without one.
Init ==
  /\ \/ holder = NoUser /\ status \in Targets
     \/ holder \in Users /\ status = "ASSIGNED"
  /\ deleted = FALSE
  /\ user = [i \in Rows |-> NoUser]
  /\ open = {} /\ acked = {} /\ returned = {}
  /\ sent = {} /\ received = {}
  /\ disposed = FALSE
  /\ call = [w \in Workers |-> Idle]

-----------------------------------------------------------------------------
(* Changes of status: the status menu, its bulk form and a general edit *)

\* Custody without a handover row counts as returned.
effectiveStatus == IF status \in InCustody /\ open = {} THEN "RETURNED" ELSE status

custodyMatches(to) ==
  /\ to \in InCustody => open # {}
  /\ to \in WithoutHolder => open = {}

\* An edit that repeats the status it read is not checked.
mayChange(to) ==
  \/ to = status
  \/ canTransition(effectiveStatus, to) /\ custodyMatches(to)

changeBegin(w) ==
  \E to \in Targets : ~deleted /\ mayChange(to) /\ Begin(w, [pc |-> "change", to |-> to])

changeCommit(w) ==
  /\ call[w].pc = "change"
  /\ Write(call[w].to, holder)
  /\ Goto(w, Idle)
  /\ UNCHANGED <<deleted, handovers, moves, disposed>>

-----------------------------------------------------------------------------
(* Assign, receipt, return, reassign *)

\* Mutant: a unit on its way may be assigned.
assignAlsoInTransit(w) ==
  \E u \in Users :
    ~deleted /\ status \in Assignable \cup {"IN_TRANSIT"} /\ Begin(w, [pc |-> "assign", user |-> u])

assignBegin(w) ==
  \E u \in Users :
    ~deleted /\ status \in Assignable /\ Begin(w, [pc |-> "assign", user |-> u])

assignCommit(w) ==
  \E i \in Fresh :
    /\ call[w].pc = "assign"
    /\ user' = [user EXCEPT ![i] = call[w].user]
    /\ open' = open \cup {i}
    /\ Write("ASSIGNED", call[w].user)
    /\ Goto(w, Idle)
    /\ UNCHANGED <<deleted, acked, returned, moves, disposed>>

\* The holder of a row confirms it once, however old the row is.
acknowledgeBegin(w) ==
  \E i \in Created \ acked : Begin(w, [pc |-> "receipt", row |-> i])

acknowledgeRow(w) ==
  /\ call[w].pc = "receipt"
  /\ acked' = acked \cup {call[w].row}
  /\ Goto(w, [pc |-> "inUse"])
  /\ UNCHANGED <<asset, deleted, user, open, returned, moves, disposed>>

acknowledgeAsset(w) ==
  /\ call[w].pc = "inUse"
  /\ Write("IN_USE", holder)
  /\ Goto(w, Idle)
  /\ UNCHANGED <<deleted, handovers, moves, disposed>>

returnBegin(w) ==
  \E to \in Targets :
    /\ ~deleted
    /\ Begin(w, [pc |-> "openReturn", from |-> status, had |-> holder, heal |-> FALSE, to |-> to])

reassignBegin(w) ==
  \E u \in Users :
    /\ ~deleted
    /\ Begin(w, [pc |-> "openReassign", from |-> status, had |-> holder, heal |-> FALSE, user |-> u])

\* The holder the call read has no open handover: one is to be written.
openAssignmentFor(w) ==
  /\ call[w].pc \in {"openReturn", "openReassign"}
  /\ open = {}
  /\ call[w].had # NoUser
  /\ Goto(w, [call[w] EXCEPT !.heal = TRUE])
  /\ UNCHANGED <<asset, deleted, handovers, moves, disposed>>

\* Another person's open handover is closed first; one of the same is kept.
ensureOpenAssignment(w) ==
  /\ call[w].pc \in {"openReturn", "openReassign"}
  /\ call[w].heal
  /\ \/ /\ \E j \in open : j = latest(open) /\ user[j] = call[w].had
        /\ UNCHANGED <<user, open>>
     \/ /\ \A j \in open : (j = latest(open)) => (user[j] # call[w].had)
        /\ \E i \in Fresh :
             /\ user' = [user EXCEPT ![i] = call[w].had]
             /\ open' = {j \in open : j # latest(open)} \cup {i}
  /\ Goto(w, [call[w] EXCEPT !.heal = FALSE])
  /\ UNCHANGED <<asset, deleted, acked, returned, moves, disposed>>

returnOpen(w) ==
  /\ call[w].pc = "openReturn" /\ ~call[w].heal
  /\ open # {}
  /\ canTransition(call[w].from, "RETURNED")
  /\ canTransition("RETURNED", call[w].to)
  /\ Goto(w, [pc |-> "return", row |-> latest(open), to |-> call[w].to])
  /\ UNCHANGED <<asset, deleted, handovers, moves, disposed>>

reassignOpen(w) ==
  /\ call[w].pc = "openReassign" /\ ~call[w].heal
  /\ open # {}
  /\ user[latest(open)] # call[w].user
  /\ canTransition(call[w].from, "RETURNED")
  /\ Goto(w, [pc |-> "reassign", row |-> latest(open), user |-> call[w].user])
  /\ UNCHANGED <<asset, deleted, handovers, moves, disposed>>

\* Mutant: a return leaves the name on the asset.
returnKeepsHolder(w) ==
  /\ call[w].pc = "return"
  /\ call[w].row \notin returned
  /\ open' = open \ {call[w].row}
  /\ returned' = returned \cup {call[w].row}
  /\ Write(call[w].to, holder)
  /\ Goto(w, Idle)
  /\ UNCHANGED <<deleted, user, acked, moves, disposed>>

\* A row has one AssetReturn: a second return of it rolls back.
returnCommit(w) ==
  /\ call[w].pc = "return"
  /\ call[w].row \notin returned
  /\ open' = open \ {call[w].row}
  /\ returned' = returned \cup {call[w].row}
  /\ Write(call[w].to, NoUser)
  /\ Goto(w, Idle)
  /\ UNCHANGED <<deleted, user, acked, moves, disposed>>

\* Mutant: the outgoing handover is closed without a return record.
reassignUnrecorded(w) ==
  \E i \in Fresh :
    /\ call[w].pc = "reassign"
    /\ user' = [user EXCEPT ![i] = call[w].user]
    /\ open' = (open \ {call[w].row}) \cup {i}
    /\ Write("ASSIGNED", call[w].user)
    /\ Goto(w, Idle)
    /\ UNCHANGED <<deleted, acked, returned, moves, disposed>>

reassignCommit(w) ==
  \E i \in Fresh :
    /\ call[w].pc = "reassign"
    /\ call[w].row \notin returned
    /\ returned' = returned \cup {call[w].row}
    /\ user' = [user EXCEPT ![i] = call[w].user]
    /\ open' = (open \ {call[w].row}) \cup {i}
    /\ Write("ASSIGNED", call[w].user)
    /\ Goto(w, Idle)
    /\ UNCHANGED <<deleted, acked, moves, disposed>>

-----------------------------------------------------------------------------
(* Removal, disposal, office transfers *)

softDeleteBegin(w) == ~deleted /\ Begin(w, [pc |-> "delete"])

softDeleteCommit(w) ==
  /\ call[w].pc = "delete"
  /\ deleted' = TRUE
  /\ open' = {}
  /\ Goto(w, Idle)
  /\ UNCHANGED <<asset, user, acked, returned, moves, disposed>>

disposeBegin(w) ==
  \E to \in Terminal :
    /\ ~deleted
    /\ open = {}
    /\ canTransition(status, to)
    /\ Begin(w, [pc |-> "dispose", to |-> to])

disposeCommit(w) ==
  /\ call[w].pc = "dispose"
  /\ ~disposed
  /\ disposed' = TRUE
  /\ Write(call[w].to, holder)
  /\ Goto(w, Idle)
  /\ UNCHANGED <<deleted, handovers, moves>>

transferBegin(w) ==
  /\ ~deleted
  /\ open = {}
  /\ canTransition(status, "IN_TRANSIT")
  /\ Begin(w, [pc |-> "transfer"])

transferCommit(w) ==
  /\ call[w].pc = "transfer"
  /\ \E t \in Transfers \ sent : (\A s \in Transfers : (s < t) => (s \in sent)) /\ sent' = sent \cup {t}
  /\ Write("IN_TRANSIT", holder)
  /\ Goto(w, Idle)
  /\ UNCHANGED <<deleted, handovers, received, disposed>>

\* Mutant: a transfer whose row was received already is received again.
receiveAnyBegin(w) ==
  \E to \in {"AVAILABLE", "IN_STORAGE"} :
    /\ ~deleted
    /\ canTransition(status, to)
    /\ Begin(w, [pc |-> "receive", transfer |-> latest(Transfers), to |-> to])

\* The latest transfer not received yet arrives.
receiveTransferBegin(w) ==
  \E to \in {"AVAILABLE", "IN_STORAGE"} :
    /\ ~deleted
    /\ sent \ received # {}
    /\ canTransition(status, to)
    /\ Begin(w, [pc |-> "receive", transfer |-> latest(sent \ received), to |-> to])

receiveTransferCommit(w) ==
  /\ call[w].pc = "receive"
  /\ received' = received \cup {call[w].transfer}
  /\ Write(call[w].to, holder)
  /\ Goto(w, Idle)
  /\ UNCHANGED <<deleted, handovers, sent, disposed>>

-----------------------------------------------------------------------------
(* Work orders: one may be started or signed off at any time *)

startRepair ==
  /\ ~deleted
  /\ canTransition(status, "UNDER_REPAIR")
  /\ Write("UNDER_REPAIR", holder)
  /\ UNCHANGED <<deleted, handovers, moves, disposed, call>>

\* A repaired unit goes back to its holder, or to the shelf.
approveRepair ==
  /\ ~deleted
  /\ status = "UNDER_REPAIR"
  /\ Write(IF holder # NoUser THEN "ASSIGNED" ELSE "AVAILABLE", holder)
  /\ UNCHANGED <<deleted, handovers, moves, disposed, call>>

-----------------------------------------------------------------------------

\* A call is refused, its transaction rolls back, or the process stops.
stop(w) ==
  /\ call[w] # Idle
  /\ Goto(w, Idle)
  /\ UNCHANGED <<asset, deleted, handovers, moves, disposed>>

Step(w) ==
  \/ changeBegin(w) \/ changeCommit(w)
  \/ assignBegin(w) \/ assignCommit(w)
  \/ acknowledgeBegin(w) \/ acknowledgeRow(w) \/ acknowledgeAsset(w)
  \/ returnBegin(w) \/ reassignBegin(w) \/ openAssignmentFor(w) \/ ensureOpenAssignment(w)
  \/ returnOpen(w) \/ reassignOpen(w) \/ returnCommit(w) \/ reassignCommit(w)
  \/ softDeleteBegin(w) \/ softDeleteCommit(w)
  \/ disposeBegin(w) \/ disposeCommit(w)
  \/ transferBegin(w) \/ transferCommit(w)
  \/ receiveTransferBegin(w) \/ receiveTransferCommit(w)
  \/ stop(w)

Next == startRepair \/ approveRepair \/ \E w \in Workers : Step(w)

Spec == Init /\ [][Next]_vars

-----------------------------------------------------------------------------
(* Properties *)

\* Nobody but the holder named on the asset has an open handover, and the
\* holder has one: assign, return and reassign move both together.
OneCustodian == \A i, j \in open : i = j /\ user[i] = holder

\* A holder never loses the handover behind the name: assign opens one, return
\* and reassign close it only with the holder, and the rest leave both alone.
HolderHasHandover ==
  [][(~deleted' /\ holder' # NoUser /\ open' = {}) => (open = {} /\ holder' = holder)]_vars

\* A handover ends with a return record, or with the removal of the asset.
CustodyIsEvidenced ==
  [][\A i \in open \ open' : i \in returned' \/ deleted']_vars

=============================================================================

-------------------------- MODULE AssetCustodyProofs --------------------------
(***************************************************************************)
(* What holds of AssetCustody for any people, handovers and transfers.     *)
(***************************************************************************)
EXTENDS AssetCustody, NaturalsInduction, WellFoundedInduction, TLAPS

-----------------------------------------------------------------------------
(* Facts about the handlers' steps *)

\* A non-empty set of rows, or of transfers, has a latest.
LEMMA LatestExists ==
  ASSUME NEW N \in Nat, NEW S \in SUBSET (1..N), S # {}
  PROVE  latest(S) \in S /\ \A j \in S : j <= latest(S)
<1> DEFINE T == {N - i : i \in S}
<1>0. \A i \in S : i \in Int /\ N - i \in Nat
  OBVIOUS
<1>1. T \subseteq Nat /\ T # {}
  <2>1. PICK i \in S : TRUE
    OBVIOUS
  <2>2. N - i \in T
    OBVIOUS
  <2> QED  BY <1>0, <2>2
<1>2. PICK x \in T : \A y \in T : ~ (<<y, x>> \in OpToRel(<, Nat))
  <2> HIDE DEF T
  <2> QED  BY ONLY <1>1, NatLessThanWellFounded, WFMin, Zenon
<1>3. \A y \in T : x <= y
  <2>1. \A y \in T : <<y, x>> \in Nat \X Nat
    BY <1>1
  <2>2. \A y \in T : ~(y < x)
    BY <1>2, <2>1 DEF OpToRel
  <2> QED  BY <1>1, <2>2
<1>4. PICK i \in S : x = N - i
  OBVIOUS
<1>5. \A j \in S : j <= i
  <2>1. ASSUME NEW j \in S PROVE j <= i
    <3>1. N - j \in T
      OBVIOUS
    <3>2. N - i <= N - j
      BY <1>3, <1>4, <3>1
    <3> QED  BY <1>0, <3>2
  <2> QED  BY <2>1
<1> QED  BY <1>5 DEF latest

LEMMA StatusNames ==
  /\ {"ASSIGNED", "IN_USE", "IN_TRANSIT", "UNDER_REPAIR", "AVAILABLE", "IN_STORAGE"} \subseteq AssetStatuses
  /\ Terminal \subseteq AssetStatuses
  BY DEF AssetStatuses, Moves, Terminal

\* A call in flight carries the arguments of its kind.
LEMMA CallArguments ==
  ASSUME TypeOK, NEW w \in Workers
  PROVE  /\ call[w].pc \in {"change", "dispose", "openReturn", "return", "receive"} =>
              call[w].to \in AssetStatuses
         /\ call[w].pc \in {"assign", "openReassign", "reassign"} => call[w].user \in Users
         /\ call[w].pc \in {"receipt", "return", "reassign"} => call[w].row \in Rows
         /\ call[w].pc = "receive" => call[w].transfer \in Transfers
         /\ call[w].pc \in {"openReturn", "openReassign"} =>
              /\ call[w].had \in Users \cup {NoUser} /\ call[w].heal \in BOOLEAN
              /\ \A b \in BOOLEAN : /\ [call[w] EXCEPT !.heal = b] \in Calls
                                    /\ [call[w] EXCEPT !.heal = b].pc = call[w].pc
                                    /\ [call[w] EXCEPT !.heal = b].had = call[w].had
                                    /\ [call[w] EXCEPT !.heal = b].heal = b
  BY DEF TypeOK, Calls, Idle

LEMMA CallRecords ==
  /\ Idle \in Calls
  /\ \A s \in AssetStatuses : /\ [pc |-> "change", to |-> s] \in Calls
                              /\ [pc |-> "dispose", to |-> s] \in Calls
  /\ \A u \in Users : [pc |-> "assign", user |-> u] \in Calls
  /\ \A i \in Rows : [pc |-> "receipt", row |-> i] \in Calls
  /\ \A p \in {"inUse", "delete", "transfer"} : [pc |-> p] \in Calls
  /\ \A s \in AssetStatuses, h \in Users \cup {NoUser}, to \in AssetStatuses :
       [pc |-> "openReturn", from |-> s, had |-> h, heal |-> FALSE, to |-> to] \in Calls
  /\ \A s \in AssetStatuses, h \in Users \cup {NoUser}, u \in Users :
       [pc |-> "openReassign", from |-> s, had |-> h, heal |-> FALSE, user |-> u] \in Calls
  /\ \A i \in Rows, s \in AssetStatuses : [pc |-> "return", row |-> i, to |-> s] \in Calls
  /\ \A i \in Rows, u \in Users : [pc |-> "reassign", row |-> i, user |-> u] \in Calls
  /\ \A t \in Transfers, s \in AssetStatuses :
       [pc |-> "receive", transfer |-> t, to |-> s] \in Calls
  BY DEF Calls

-----------------------------------------------------------------------------
(* Any number of calls *)

\* A receipt under way is for a transfer that was sent.
TransferKnown == \A w \in Workers : call[w].pc = "receive" => call[w].transfer \in sent

LEMMA KnownStep == ASSUME TypeOK, TransferKnown, [Next]_vars PROVE TransferKnown'
<1> USE DEF asset, handovers, moves, vars
<1>1. ASSUME NEW w \in Workers, NEW c, call' = [call EXCEPT ![w] = c],
             c.pc # "receive" \/ c.transfer \in sent', sent \subseteq sent'
      PROVE  TransferKnown'
  BY <1>1 DEF TransferKnown, TypeOK
<1>2. ASSUME NEW w \in Workers,
             changeBegin(w) \/ assignBegin(w) \/ acknowledgeBegin(w) \/ returnBegin(w) \/ reassignBegin(w)
               \/ softDeleteBegin(w) \/ disposeBegin(w) \/ transferBegin(w)
      PROVE  TransferKnown'
  BY <1>1, <1>2 DEF changeBegin, assignBegin, acknowledgeBegin, returnBegin, reassignBegin,
                    softDeleteBegin, disposeBegin, transferBegin, Begin
<1>3. ASSUME NEW w \in Workers, receiveTransferBegin(w) PROVE TransferKnown'
  <2>1. PICK to \in {"AVAILABLE", "IN_STORAGE"} :
          /\ sent \ received # {}
          /\ Begin(w, [pc |-> "receive", transfer |-> latest(sent \ received), to |-> to])
    BY <1>3 DEF receiveTransferBegin
  <2>2. latest(sent \ received) \in sent
    BY <2>1, CustodyAssumption, LatestExists DEF TypeOK, Transfers
  <2> QED  BY <1>1, <2>1, <2>2 DEF Begin
<1>4. ASSUME NEW w \in Workers, openAssignmentFor(w) \/ ensureOpenAssignment(w) PROVE TransferKnown'
  <2>1. PICK b \in BOOLEAN : call' = [call EXCEPT ![w] = [call[w] EXCEPT !.heal = b]] /\ sent' = sent
    BY <1>4 DEF openAssignmentFor, ensureOpenAssignment, Goto
  <2>2. call[w].pc \in {"openReturn", "openReassign"}
    BY <1>4 DEF openAssignmentFor, ensureOpenAssignment
  <2>3. [call[w] EXCEPT !.heal = b].pc # "receive"
    BY <2>2, CallArguments
  <2> QED  BY <1>1, <2>1, <2>3
<1>5. ASSUME NEW w \in Workers, acknowledgeRow(w) \/ returnOpen(w) \/ reassignOpen(w) PROVE TransferKnown'
  BY <1>1, <1>5 DEF acknowledgeRow, returnOpen, reassignOpen, Goto
<1>6. ASSUME NEW w \in Workers,
             changeCommit(w) \/ assignCommit(w) \/ acknowledgeAsset(w) \/ returnCommit(w) \/ reassignCommit(w)
               \/ softDeleteCommit(w) \/ disposeCommit(w) \/ transferCommit(w)
               \/ receiveTransferCommit(w) \/ stop(w)
      PROVE  TransferKnown'
  <2>1. call' = [call EXCEPT ![w] = Idle] /\ sent \subseteq sent'
    BY <1>6 DEF changeCommit, assignCommit, acknowledgeAsset, returnCommit, reassignCommit,
                softDeleteCommit, disposeCommit, transferCommit, receiveTransferCommit, stop, Goto
  <2> QED  BY <1>1, <2>1 DEF Idle
<1>7. ASSUME startRepair \/ approveRepair \/ UNCHANGED vars PROVE TransferKnown'
  BY <1>7 DEF startRepair, approveRepair, TransferKnown
<1>8. ASSUME NEW w \in Workers, Step(w) PROVE TransferKnown'
  BY <1>2, <1>3, <1>4, <1>5, <1>6, <1>8, Zenon DEF Step
<1> QED  BY <1>7, <1>8, Zenon DEF Next

LEMMA TypeStep == ASSUME TypeOK, TransferKnown, [Next]_vars PROVE TypeOK'
<1> USE DEF asset, handovers, moves, vars
<1>1. ASSUME NEW w \in Workers, NEW c \in Calls, Goto(w, c) PROVE call' \in [Workers -> Calls]
  BY <1>1 DEF Goto, TypeOK
<1>2. ASSUME NEW w \in Workers, NEW c \in Calls, Begin(w, c) PROVE TypeOK'
  BY <1>2 DEF Begin, TypeOK
<1>3. ASSUME NEW w \in Workers, changeBegin(w) PROVE TypeOK'
  <2>1. PICK to \in Targets : Begin(w, [pc |-> "change", to |-> to])
    BY <1>3 DEF changeBegin
  <2> QED  BY <1>2, <2>1, CallRecords, CustodyAssumption
<1>4. ASSUME NEW w \in Workers, changeCommit(w) PROVE TypeOK'
  <2>1. call' \in [Workers -> Calls]
    BY <1>1, <1>4, CallRecords DEF changeCommit
  <2> QED  BY <1>4, <2>1, CallArguments DEF changeCommit, Write, TypeOK
<1>5. ASSUME NEW w \in Workers, assignBegin(w) PROVE TypeOK'
  BY <1>2, <1>5, CallRecords DEF assignBegin
<1>6. ASSUME NEW w \in Workers, assignCommit(w) PROVE TypeOK'
  <2>1. call' \in [Workers -> Calls]
    BY <1>1, <1>6, CallRecords DEF assignCommit
  <2> QED  BY <1>6, <2>1, CallArguments, StatusNames DEF assignCommit, Write, Fresh, TypeOK
<1>7. ASSUME NEW w \in Workers, acknowledgeBegin(w) PROVE TypeOK'
  BY <1>2, <1>7, CallRecords DEF acknowledgeBegin, Created
<1>8. ASSUME NEW w \in Workers, acknowledgeRow(w) PROVE TypeOK'
  <2>1. call' \in [Workers -> Calls]
    BY <1>1, <1>8, CallRecords DEF acknowledgeRow
  <2> QED  BY <1>8, <2>1, CallArguments DEF acknowledgeRow, TypeOK
<1>9. ASSUME NEW w \in Workers, acknowledgeAsset(w) PROVE TypeOK'
  <2>1. call' \in [Workers -> Calls]
    BY <1>1, <1>9, CallRecords DEF acknowledgeAsset
  <2> QED  BY <1>9, <2>1, StatusNames DEF acknowledgeAsset, Write, TypeOK
<1>10. ASSUME NEW w \in Workers, returnBegin(w) PROVE TypeOK'
  <2>1. PICK to \in Targets :
          Begin(w, [pc |-> "openReturn", from |-> status, had |-> holder, heal |-> FALSE, to |-> to])
    BY <1>10 DEF returnBegin
  <2>2. status \in AssetStatuses /\ holder \in Users \cup {NoUser} /\ to \in AssetStatuses
    BY CustodyAssumption DEF TypeOK
  <2> QED  BY <1>2, <2>1, <2>2, CallRecords
<1>11. ASSUME NEW w \in Workers, reassignBegin(w) PROVE TypeOK'
  <2>1. PICK u \in Users :
          Begin(w, [pc |-> "openReassign", from |-> status, had |-> holder, heal |-> FALSE, user |-> u])
    BY <1>11 DEF reassignBegin
  <2>2. status \in AssetStatuses /\ holder \in Users \cup {NoUser}
    BY DEF TypeOK
  <2> QED  BY <1>2, <2>1, <2>2, CallRecords
<1>12. ASSUME NEW w \in Workers, openAssignmentFor(w) PROVE TypeOK'
  <2>1. call' \in [Workers -> Calls]
    BY <1>1, <1>12, CallArguments DEF openAssignmentFor
  <2> QED  BY <1>12, <2>1 DEF openAssignmentFor, TypeOK
<1>13. ASSUME NEW w \in Workers, ensureOpenAssignment(w) PROVE TypeOK'
  <2>1. call' \in [Workers -> Calls]
    BY <1>1, <1>13, CallArguments DEF ensureOpenAssignment
  <2>2. user' \in [Rows -> Users \cup {NoUser}] /\ open' \subseteq Rows
    BY <1>13, CallArguments DEF ensureOpenAssignment, Fresh, TypeOK
  <2> QED  BY <1>13, <2>1, <2>2 DEF ensureOpenAssignment, TypeOK
<1>14. ASSUME NEW w \in Workers, returnOpen(w) PROVE TypeOK'
  <2>1. latest(open) \in Rows
    BY <1>14, CustodyAssumption, LatestExists DEF returnOpen, TypeOK, Rows
  <2>2. call' \in [Workers -> Calls]
    BY <1>1, <1>14, <2>1, CallArguments, CallRecords DEF returnOpen
  <2> QED  BY <1>14, <2>2 DEF returnOpen, TypeOK
<1>15. ASSUME NEW w \in Workers, reassignOpen(w) PROVE TypeOK'
  <2>1. latest(open) \in Rows
    BY <1>15, CustodyAssumption, LatestExists DEF reassignOpen, TypeOK, Rows
  <2>2. call' \in [Workers -> Calls]
    BY <1>1, <1>15, <2>1, CallArguments, CallRecords DEF reassignOpen
  <2> QED  BY <1>15, <2>2 DEF reassignOpen, TypeOK
<1>16. ASSUME NEW w \in Workers, returnCommit(w) PROVE TypeOK'
  <2>1. call' \in [Workers -> Calls]
    BY <1>1, <1>16, CallRecords DEF returnCommit
  <2> QED  BY <1>16, <2>1, CallArguments DEF returnCommit, Write, TypeOK
<1>17. ASSUME NEW w \in Workers, reassignCommit(w) PROVE TypeOK'
  <2>1. call' \in [Workers -> Calls]
    BY <1>1, <1>17, CallRecords DEF reassignCommit
  <2> QED  BY <1>17, <2>1, CallArguments, StatusNames DEF reassignCommit, Write, Fresh, TypeOK
<1>18. ASSUME NEW w \in Workers, softDeleteBegin(w) PROVE TypeOK'
  BY <1>2, <1>18, CallRecords DEF softDeleteBegin
<1>19. ASSUME NEW w \in Workers, softDeleteCommit(w) PROVE TypeOK'
  <2>1. call' \in [Workers -> Calls]
    BY <1>1, <1>19, CallRecords DEF softDeleteCommit
  <2> QED  BY <1>19, <2>1 DEF softDeleteCommit, TypeOK
<1>20. ASSUME NEW w \in Workers, disposeBegin(w) PROVE TypeOK'
  BY <1>2, <1>20, CallRecords, StatusNames DEF disposeBegin
<1>21. ASSUME NEW w \in Workers, disposeCommit(w) PROVE TypeOK'
  <2>1. call' \in [Workers -> Calls]
    BY <1>1, <1>21, CallRecords DEF disposeCommit
  <2> QED  BY <1>21, <2>1, CallArguments DEF disposeCommit, Write, TypeOK
<1>22. ASSUME NEW w \in Workers, transferBegin(w) PROVE TypeOK'
  BY <1>2, <1>22, CallRecords DEF transferBegin
<1>23. ASSUME NEW w \in Workers, transferCommit(w) PROVE TypeOK'
  <2>1. call' \in [Workers -> Calls]
    BY <1>1, <1>23, CallRecords DEF transferCommit
  <2> QED  BY <1>23, <2>1, StatusNames DEF transferCommit, Write, TypeOK
<1>24. ASSUME NEW w \in Workers, receiveTransferBegin(w) PROVE TypeOK'
  <2>1. PICK to \in {"AVAILABLE", "IN_STORAGE"} :
          /\ sent \ received # {}
          /\ Begin(w, [pc |-> "receive", transfer |-> latest(sent \ received), to |-> to])
    BY <1>24 DEF receiveTransferBegin
  <2>2. latest(sent \ received) \in Transfers
    BY <2>1, CustodyAssumption, LatestExists DEF TypeOK, Transfers
  <2> QED  BY <1>2, <2>1, <2>2, CallRecords, StatusNames
<1>25. ASSUME NEW w \in Workers, receiveTransferCommit(w) PROVE TypeOK'
  <2>1. call' \in [Workers -> Calls]
    BY <1>1, <1>25, CallRecords DEF receiveTransferCommit
  <2>2. call[w].transfer \in sent
    BY <1>25 DEF receiveTransferCommit, TransferKnown
  <2> QED  BY <1>25, <2>1, <2>2, CallArguments DEF receiveTransferCommit, Write, TypeOK
<1>26. ASSUME NEW w \in Workers, stop(w) PROVE TypeOK'
  BY <1>1, <1>26, CallRecords DEF stop, TypeOK
<1>27. ASSUME startRepair PROVE TypeOK'
  BY <1>27, StatusNames DEF startRepair, Write, TypeOK
<1>28. ASSUME approveRepair PROVE TypeOK'
  BY <1>28, StatusNames DEF approveRepair, Write, TypeOK
<1>29. CASE UNCHANGED vars
  BY <1>29 DEF TypeOK
<1>30. ASSUME NEW w \in Workers, Step(w) PROVE TypeOK'
  BY <1>3, <1>4, <1>5, <1>6, <1>7, <1>8, <1>9, <1>10, <1>11, <1>12, <1>13, <1>14, <1>15, <1>16,
     <1>17, <1>18, <1>19, <1>20, <1>21, <1>22, <1>23, <1>24, <1>25, <1>26, <1>30, Zenon DEF Step
<1> QED  BY <1>27, <1>28, <1>29, <1>30, Zenon DEF Next

\* Whatever calls overlap, every variable keeps its type; a transfer is
\* received only after it was sent (receiveTransfer picks from the open ones).
THEOREM CustodyTypeCorrect == Spec => []TypeOK
<1>1. Init => TypeOK /\ TransferKnown
  <2>1. Init => call \in [Workers -> Calls] /\ TransferKnown
    BY DEF Init, TransferKnown, Calls, Idle
  <2>2. Init => status \in AssetStatuses /\ holder \in Users \cup {NoUser}
    BY CustodyAssumption, StatusNames DEF Init
  <2> QED  BY <2>1, <2>2 DEF Init, TypeOK
<1>2. TypeOK /\ TransferKnown /\ [Next]_vars => (TypeOK /\ TransferKnown)'
  BY TypeStep, KnownStep
<1> QED  BY <1>1, <1>2, PTL DEF Spec

\* What the database keeps whatever calls overlap: no write goes round its CHECK.
HolderMatchesStatus == holder # NoUser => status \notin WithoutHolder

LEMMA HolderStep == ASSUME HolderMatchesStatus, [Next]_vars PROVE HolderMatchesStatus'
<1>1. ASSUME NEW s, NEW h, Write(s, h) PROVE HolderMatchesStatus'
  BY <1>1 DEF Write, HolderAllowed, HolderMatchesStatus
<1>2. ASSUME HolderMatchesStatus, UNCHANGED asset PROVE HolderMatchesStatus'
  BY <1>2 DEF HolderMatchesStatus, asset
<1>3. ASSUME NEW w \in Workers, Step(w) PROVE UNCHANGED asset \/ \E s, h : Write(s, h)
  BY <1>3, Zenon DEF Step, Begin, asset,
       changeBegin, changeCommit, assignBegin, assignCommit, acknowledgeBegin, acknowledgeRow,
       acknowledgeAsset, returnBegin, reassignBegin, openAssignmentFor, ensureOpenAssignment,
       returnOpen, reassignOpen, returnCommit, reassignCommit, softDeleteBegin, softDeleteCommit,
       disposeBegin, disposeCommit, transferBegin, transferCommit, receiveTransferBegin,
       receiveTransferCommit, stop
<1>4. ASSUME startRepair \/ approveRepair PROVE \E s, h : Write(s, h)
  BY <1>4, Zenon DEF startRepair, approveRepair
<1> QED  BY <1>1, <1>2, <1>3, <1>4, Zenon DEF Next, vars, asset

-----------------------------------------------------------------------------
(* One call at a time *)

OneWorker == \A v, w \in Workers : v = w

\* What a call that has read the asset may still rely on when it writes.
InCall(c) ==
  /\ c.pc = "assign" => open = {}
  /\ c.pc \in {"openReturn", "openReassign"} => c.had = holder /\ (c.heal => c.had # NoUser)
  /\ c.pc \in {"return", "reassign"} => c.row \in open

SerialInv ==
  /\ TypeOK /\ TransferKnown
  /\ HolderMatchesStatus
  /\ OneCustodian
  /\ \A i \in open : user[i] # NoUser
  /\ \A w \in Workers : InCall(call[w])

LEMMA SerialInit == Init => SerialInv
<1>1. Init => TypeOK /\ TransferKnown
  <2>1. Init => call \in [Workers -> Calls] /\ TransferKnown
    BY DEF Init, TransferKnown, Calls, Idle
  <2>2. Init => status \in AssetStatuses /\ holder \in Users \cup {NoUser}
    BY CustodyAssumption, StatusNames DEF Init
  <2> QED  BY <2>1, <2>2 DEF Init, TypeOK
<1>2. Init => HolderMatchesStatus
  BY CustodyAssumption DEF Init, HolderMatchesStatus, WithoutHolder
<1> QED  BY <1>1, <1>2 DEF Init, SerialInv, OneCustodian, InCall, Idle

LEMMA SerialStep ==
  ASSUME OneWorker, SerialInv, [Next]_vars
  PROVE  SerialInv' /\ (\A i \in open \ open' : i \in returned' \/ deleted')
         /\ ((~deleted' /\ holder' # NoUser /\ open' = {}) => (open = {} /\ holder' = holder))
<1> USE DEF asset, handovers, moves, vars
<1> DEFINE Custody  == OneCustodian /\ \A i \in open : user[i] # NoUser
           Evidence == /\ \A i \in open \ open' : i \in returned' \/ deleted'
                       /\ (~deleted' /\ holder' # NoUser /\ open' = {}) => (open = {} /\ holder' = holder)
           Ready    == \A v \in Workers : InCall(call[v])
           Goal     == Custody' /\ Evidence /\ Ready'
<1>0. TypeOK /\ TransferKnown /\ HolderMatchesStatus /\ Custody /\ Ready
  BY DEF SerialInv
\* The call in progress is the only one.
<1>1. ASSUME NEW w \in Workers, NEW c, call' = [call EXCEPT ![w] = c], InCall(c)' PROVE Ready'
  BY <1>0, <1>1 DEF OneWorker, TypeOK, InCall
<1>2. ASSUME UNCHANGED <<holder, user, open>> PROVE Custody' /\ Evidence
  BY <1>0, <1>2 DEF OneCustodian
<1>3. ASSUME NEW w \in Workers,
             changeBegin(w) \/ acknowledgeBegin(w) \/ softDeleteBegin(w) \/ disposeBegin(w)
               \/ transferBegin(w) \/ receiveTransferBegin(w) \/ returnBegin(w) \/ reassignBegin(w)
      PROVE  Goal
  <2>1. UNCHANGED <<holder, user, open>>
    BY <1>3 DEF changeBegin, acknowledgeBegin, softDeleteBegin, disposeBegin, transferBegin,
                receiveTransferBegin, returnBegin, reassignBegin, Begin
  <2>2. Ready'
    BY <1>1, <1>3, <2>1 DEF changeBegin, acknowledgeBegin, softDeleteBegin, disposeBegin, transferBegin,
                receiveTransferBegin, returnBegin, reassignBegin, Begin, InCall
  <2> QED  BY <1>2, <2>1, <2>2
<1>4. ASSUME NEW w \in Workers,
             changeCommit(w) \/ acknowledgeAsset(w) \/ disposeCommit(w) \/ transferCommit(w)
               \/ receiveTransferCommit(w) \/ stop(w)
      PROVE  Goal
  <2>1. UNCHANGED <<holder, user, open>> /\ call' = [call EXCEPT ![w] = Idle]
    BY <1>4 DEF changeCommit, acknowledgeAsset, disposeCommit, transferCommit,
                receiveTransferCommit, stop, Goto, Write
  <2> QED  BY <1>1, <1>2, <2>1 DEF InCall, Idle
<1>5. ASSUME NEW w \in Workers, acknowledgeRow(w) PROVE Goal
  BY <1>1, <1>2, <1>5 DEF acknowledgeRow, Goto, InCall
<1>6. ASSUME NEW w \in Workers, assignBegin(w) PROVE Goal
  <2>1. UNCHANGED <<holder, user, open>> /\ open = {}
    BY <1>0, <1>6 DEF assignBegin, Begin, HolderMatchesStatus, Assignable, WithoutHolder, OneCustodian
  <2>2. PICK u \in Users : call' = [call EXCEPT ![w] = [pc |-> "assign", user |-> u]]
    BY <1>6 DEF assignBegin, Begin
  <2> QED  BY <1>1, <1>2, <2>1, <2>2 DEF InCall
<1>7. ASSUME NEW w \in Workers, assignCommit(w) PROVE Goal
  <2>1. PICK i \in Fresh : /\ user' = [user EXCEPT ![i] = call[w].user] /\ open' = open \cup {i}
                           /\ holder' = call[w].user /\ call[w].pc = "assign"
                           /\ call' = [call EXCEPT ![w] = Idle]
    BY <1>7 DEF assignCommit, Write, Goto
  <2>2. open = {} /\ call[w].user \in Users /\ i \in Rows
    BY <1>0, <2>1, CallArguments DEF InCall, Fresh
  <2>3. Custody' /\ Evidence
    BY <1>0, <2>1, <2>2, CustodyAssumption DEF OneCustodian, TypeOK
  <2> QED  BY <1>1, <2>1, <2>3 DEF InCall, Idle
<1>8. ASSUME NEW w \in Workers, openAssignmentFor(w) PROVE Goal
  <2>1. UNCHANGED <<holder, user, open>> /\ call' = [call EXCEPT ![w] = [call[w] EXCEPT !.heal = TRUE]]
    BY <1>8 DEF openAssignmentFor, Goto
  <2>2. InCall([call[w] EXCEPT !.heal = TRUE])'
    BY <1>0, <1>8, <2>1, CallArguments DEF openAssignmentFor, InCall
  <2> QED  BY <1>1, <1>2, <2>1, <2>2
<1>9. ASSUME NEW w \in Workers, ensureOpenAssignment(w) PROVE Goal
  <2>1. PICK c : c = [call[w] EXCEPT !.heal = FALSE]
    OBVIOUS
  <2>2. c.pc \in {"openReturn", "openReassign"} /\ c.had = call[w].had /\ c.heal = FALSE
    BY <1>0, <1>9, <2>1, CallArguments DEF ensureOpenAssignment
  <2>3. holder' = holder /\ call' = [call EXCEPT ![w] = c]
    BY <1>9, <2>1 DEF ensureOpenAssignment, Goto
  <2>4. call[w].had = holder /\ holder \in Users
    BY <1>0, <1>9 DEF ensureOpenAssignment, InCall, TypeOK
  <2>5. ASSUME UNCHANGED <<user, open>> PROVE Custody' /\ Evidence
    BY <1>2, <2>3, <2>5
  <2>6. ASSUME \A j \in open : (j = latest(open)) => (user[j] # call[w].had),
               NEW i \in Fresh, user' = [user EXCEPT ![i] = call[w].had],
               open' = {j \in open : j # latest(open)} \cup {i}
        PROVE  Custody' /\ Evidence
    \* The holder's own handover is never taken for another person's.
    <3>1. open = {}
      BY <1>0, <2>4, <2>6, LatestExists, CustodyAssumption DEF OneCustodian, TypeOK, Rows
    <3>2. i \in Rows /\ user' = [user EXCEPT ![i] = holder] /\ open' = {i}
      BY <2>4, <2>6, <3>1 DEF Fresh
    <3> QED  BY <1>0, <2>3, <2>4, <3>1, <3>2, CustodyAssumption DEF OneCustodian, TypeOK
  <2>7. Custody' /\ Evidence
    BY <1>9, <2>5, <2>6, Zenon DEF ensureOpenAssignment
  <2> QED  BY <1>1, <2>2, <2>3, <2>4, <2>7 DEF InCall
<1>10. ASSUME NEW w \in Workers, returnOpen(w) \/ reassignOpen(w) PROVE Goal
  <2>1. UNCHANGED <<holder, user, open>> /\ latest(open) \in open
    BY <1>0, <1>10, LatestExists, CustodyAssumption DEF returnOpen, reassignOpen, TypeOK, Rows
  <2>2. Ready'
    <3>1. PICK c : c = call'[w]
      OBVIOUS
    <3>2. c.pc \in {"return", "reassign"} /\ c.row = latest(open) /\ call' = [call EXCEPT ![w] = c]
      <4>1. CASE returnOpen(w)
        BY <1>0, <3>1, <4>1 DEF returnOpen, Goto, TypeOK
      <4>2. CASE reassignOpen(w)
        BY <1>0, <3>1, <4>2 DEF reassignOpen, Goto, TypeOK
      <4> QED  BY <1>10, <4>1, <4>2
    <3> QED  BY <1>1, <2>1, <3>2 DEF InCall
  <2> QED  BY <1>2, <2>1, <2>2
<1>11. ASSUME NEW w \in Workers, returnCommit(w) PROVE Goal
  <2>1. /\ call[w].row \in open /\ open' = open \ {call[w].row} /\ user' = user /\ holder' = NoUser
        /\ returned' = returned \cup {call[w].row} /\ call' = [call EXCEPT ![w] = Idle]
    BY <1>0, <1>11 DEF returnCommit, InCall, Goto, Write
  <2>2. open' = {}
    BY <1>0, <2>1 DEF OneCustodian
  <2> QED  BY <1>1, <2>1, <2>2 DEF OneCustodian, InCall, Idle
<1>12. ASSUME NEW w \in Workers, reassignCommit(w) PROVE Goal
  <2>1. PICK i \in Rows :
          /\ call[w].row \in open /\ open' = (open \ {call[w].row}) \cup {i}
          /\ user' = [user EXCEPT ![i] = call[w].user] /\ holder' = call[w].user
          /\ returned' = returned \cup {call[w].row} /\ call' = [call EXCEPT ![w] = Idle]
    BY <1>0, <1>12 DEF reassignCommit, InCall, Goto, Write, Fresh
  <2>2. open' = {i} /\ call[w].user \in Users
    BY <1>0, <1>12, <2>1, CallArguments DEF OneCustodian, reassignCommit
  <2>3. Custody'
    BY <1>0, <2>1, <2>2, CustodyAssumption DEF OneCustodian, TypeOK
  <2> QED  BY <1>1, <2>1, <2>2, <2>3 DEF InCall, Idle
<1>13. ASSUME NEW w \in Workers, softDeleteCommit(w) PROVE Goal
  BY <1>1, <1>13 DEF softDeleteCommit, Goto, OneCustodian, InCall, Idle
<1>14. ASSUME startRepair \/ approveRepair \/ UNCHANGED vars PROVE Goal
  <2>1. UNCHANGED <<holder, user, open, call>>
    BY <1>14 DEF startRepair, approveRepair, Write
  <2> QED  BY <1>0, <1>2, <2>1 DEF InCall
<1>15. ASSUME NEW w \in Workers, Step(w) PROVE Goal
  BY <1>3, <1>4, <1>5, <1>6, <1>7, <1>8, <1>9, <1>10, <1>11, <1>12, <1>13, <1>15, Zenon DEF Step
<1>16. Goal
  BY <1>14, <1>15, Zenon DEF Next
<1>17. HolderMatchesStatus'
  BY <1>0, HolderStep
<1> QED  BY <1>0, <1>16, <1>17, TypeStep, KnownStep DEF SerialInv

\* One call at a time, with work orders going on beside it and calls that stop
\* anywhere: only the named holder has an open handover, and only one.
THEOREM OneCustodianSerial == ASSUME OneWorker PROVE Spec => []OneCustodian
<1>1. SerialInv /\ [Next]_vars => SerialInv'
  BY SerialStep
<1>2. SerialInv => OneCustodian
  BY DEF SerialInv
<1> QED  BY SerialInit, <1>1, <1>2, PTL DEF Spec

\* One call at a time: a holder named on an asset never loses the handover behind
\* the name, whichever call moves either of them.
THEOREM HolderHasHandoverSerial == ASSUME OneWorker PROVE Spec => HolderHasHandover
<1>1. SerialInv /\ [Next]_vars => SerialInv'
  BY SerialStep
<1>2. SerialInv /\ [Next]_vars =>
        [(~deleted' /\ holder' # NoUser /\ open' = {}) => (open = {} /\ holder' = holder)]_vars
  BY SerialStep
<1> QED  BY SerialInit, <1>1, <1>2, PTL DEF Spec, HolderHasHandover

\* One call at a time: a handover leaves the open ones only with its return
\* record, or when the asset is removed.
THEOREM CustodyIsEvidencedSerial == ASSUME OneWorker PROVE Spec => CustodyIsEvidenced
<1>1. SerialInv /\ [Next]_vars => SerialInv'
  BY SerialStep
<1>2. SerialInv /\ [Next]_vars =>
        [\A i \in open \ open' : i \in returned' \/ deleted']_vars
  BY SerialStep
<1> QED  BY SerialInit, <1>1, <1>2, PTL DEF Spec, CustodyIsEvidenced

=============================================================================

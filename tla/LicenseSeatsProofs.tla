-------------------------- MODULE LicenseSeatsProofs --------------------------
(***************************************************************************)
(* What holds of LicenseSeats for every set of rows, holders and workers.  *)
(***************************************************************************)
EXTENDS LicenseSeats, FiniteSetTheorems, TLAPS

-----------------------------------------------------------------------------
(* Facts about the handlers' steps *)

\* A call in flight carries the arguments of its kind.
LEMMA CallArguments ==
  ASSUME TypeOK, NEW w \in Workers
  PROVE  /\ call[w].op = "assign" => call[w].who \in SUBSET Holders
         /\ call[w].op = "revoke" => call[w].row \in Rows
         /\ call[w].op = "transfer" => call[w].row \in Rows /\ call[w].to \in Holders
         /\ call[w].op = "renew" => call[w].buy \in SeatCounts /\ call[w].give \in SeatCounts
         /\ call[w].op \in {"update", "sweep"} => call[w].status \in Statuses
  BY DEF TypeOK, Calls, Idle

\* What taking seats does to the rows: one row that was unused per holder.
LEMMA SeatsTaken ==
  ASSUME TypeOK, NEW H \in SUBSET Holders, NEW row \in Injection(H, Unused),
         seat' = occupied(H, row)
  PROVE  /\ seat' \in [Rows -> Holders \cup {"unused", "revoked"}]
         /\ \A h \in H : row[h] \in Unused /\ seat'[row[h]] = h
         /\ \A r \in Rows : (\A h \in H : row[h] # r) => seat'[r] = seat[r]
<1>1. \A h \in H : row[h] \in Unused
  BY DEF Injection
<1>2. \A h, k \in H : row[h] = row[k] => h = k
  BY DEF Injection, IsInjective
<1>3. \A h \in H : (CHOOSE k \in H : row[k] = row[h]) = h
  BY <1>2
<1>4. \A r \in Rows : (\E h \in H : row[h] = r) => (CHOOSE h \in H : row[h] = r) \in H
  OBVIOUS
<1>5. seat' \in [Rows -> Holders \cup {"unused", "revoked"}]
  BY <1>4 DEF TypeOK, occupied
<1>6. \A h \in H : seat'[row[h]] = h
  BY <1>1, <1>3 DEF Unused, occupied
<1>7. \A r \in Rows : (\A h \in H : row[h] # r) => seat'[r] = seat[r]
  BY DEF occupied
<1> QED
  BY <1>1, <1>5, <1>6, <1>7

-----------------------------------------------------------------------------
(* Any number of workers *)

\* Every step keeps the types.
LEMMA TypeStep == ASSUME TypeOK, [Next]_vars PROVE TypeOK'
<1> USE SeatsAssumption DEF pool, license, history, vars
<1>1. ASSUME NEW w \in Workers, NEW c \in Calls, Begin(w, c) PROVE TypeOK'
  BY <1>1 DEF Begin, TypeOK
<1>2. ASSUME NEW w \in Workers, Done(w)
      PROVE  call' \in [Workers -> Calls] /\ spans' \subseteq Workers
  BY <1>2 DEF Done, Calls, TypeOK
<1>20. ASSUME NEW r \in Rows, Closes(r) PROVE closedAgain' \in Nat
  BY <1>20 DEF Closes, TypeOK
<1>21. ASSUME NEW w \in Workers, Opens(w) PROVE besides' \subseteq Rows
  BY <1>21 DEF Opens, Active, TypeOK
<1>3. ASSUME NEW w \in Workers, assignBegin(w) PROVE TypeOK'
  <2>1. PICK h \in Holders : Begin(w, [op |-> "assign", who |-> {h}])
    BY <1>3 DEF assignBegin
  <2>2. [op |-> "assign", who |-> {h}] \in Calls
    BY DEF Calls
  <2> QED  BY <1>1, <2>1, <2>2
<1>4. ASSUME NEW w \in Workers, bulkAssignBegin(w) PROVE TypeOK'
  <2>1. PICK H \in SUBSET Holders : Begin(w, [op |-> "assign", who |-> H])
    BY <1>4 DEF bulkAssignBegin
  <2>2. [op |-> "assign", who |-> H] \in Calls
    BY DEF Calls
  <2> QED  BY <1>1, <2>1, <2>2
<1>5. ASSUME NEW w \in Workers, assignCommit(w) PROVE TypeOK'
  <2> DEFINE H == call[w].who
  <2>1. H \in SUBSET Holders
    BY <1>5, CallArguments DEF assignCommit
  <2>2. PICK row \in Injection(H, Unused) :
           seat' = occupied(H, row)
    BY <1>5 DEF assignCommit, takeSeats
  <2>3. seat' \in [Rows -> Holders \cup {"unused", "revoked"}]
    BY <2>1, <2>2, SeatsTaken
  <2>4. Cardinality(H) \in Nat
    <3>1. IsFiniteSet(Unused)
      BY FS_Subset DEF Unused
    <3>2. IsFiniteSet(H)
      BY <3>1, FS_Injection
    <3> QED  BY <3>2, FS_CardinalityType
  <2>5. reserved' \in SeatCounts
    BY <1>5, <2>4 DEF assignCommit, takeSeats, SeatCounts, TypeOK
  <2> QED  BY <1>2, <1>5, <1>21, <2>3, <2>5 DEF assignCommit, takeSeats, TypeOK
<1>6. ASSUME NEW w \in Workers, revokeBegin(w) PROVE TypeOK'
  <2>1. PICK r \in Active : Begin(w, [op |-> "revoke", row |-> r])
    BY <1>6 DEF revokeBegin
  <2>2. [op |-> "revoke", row |-> r] \in Calls
    BY DEF Calls, Active
  <2> QED  BY <1>1, <2>1, <2>2
<1>7. ASSUME NEW w \in Workers, revokeCommit(w) PROVE TypeOK'
  <2>1. reserved' \in SeatCounts
    BY <1>7 DEF revokeCommit, SeatCounts, TypeOK
  <2>2. seat' \in [Rows -> Holders \cup {"unused", "revoked"}]
    BY <1>7 DEF revokeCommit, TypeOK
  <2>3. closedAgain' \in Nat
    BY <1>7, <1>20, CallArguments DEF revokeCommit
  <2> QED  BY <1>2, <1>7, <2>1, <2>2, <2>3 DEF revokeCommit, TypeOK
<1>8. ASSUME NEW w \in Workers, transferBegin(w) PROVE TypeOK'
  <2>1. PICK r \in Active, h \in Holders : Begin(w, [op |-> "transfer", row |-> r, to |-> h])
    BY <1>8 DEF transferBegin
  <2>2. [op |-> "transfer", row |-> r, to |-> h] \in Calls
    BY DEF Calls, Active
  <2> QED  BY <1>1, <2>1, <2>2
<1>9. ASSUME NEW w \in Workers, transferCommit(w) PROVE TypeOK'
  <2>1. call[w].to \in Holders
    BY <1>9, CallArguments DEF transferCommit
  <2>2. seat' \in [Rows -> Holders \cup {"unused", "revoked"}]
    BY <1>9, <2>1 DEF transferCommit, TypeOK
  <2>3. closedAgain' \in Nat
    BY <1>9, <1>20, CallArguments DEF transferCommit
  <2> QED  BY <1>2, <1>9, <1>21, <2>2, <2>3 DEF transferCommit, TypeOK
<1>10. ASSUME NEW w \in Workers, renewBegin(w) PROVE TypeOK'
  <2>1. PICK delta \in -MaxDelta..MaxDelta, extend \in BOOLEAN :
          /\ purchased + delta \in SeatCounts
          /\ allocated + delta \in SeatCounts
          /\ Begin(w, [op |-> "renew", buy |-> purchased + delta,
                       give |-> allocated + delta, extend |-> extend])
    BY <1>10 DEF renewBegin
  <2>2. [op |-> "renew", buy |-> purchased + delta,
         give |-> allocated + delta, extend |-> extend] \in Calls
    BY <2>1 DEF Calls
  <2> QED  BY <1>1, <2>1, <2>2
<1>11. ASSUME NEW w \in Workers, renewCommit(w) PROVE TypeOK'
  <2>1. call[w].buy \in SeatCounts /\ call[w].give \in SeatCounts
    BY <1>11, CallArguments DEF renewCommit
  <2>2. status' \in Statuses /\ expired' \in BOOLEAN
    BY <1>11 DEF renewCommit, deriveLicenseStatus, Statuses, TypeOK
  <2> QED  BY <1>2, <1>11, <2>1, <2>2 DEF renewCommit, TypeOK
<1>12. ASSUME NEW w \in Workers, updateBegin(w) PROVE TypeOK'
  <2>1. PICK retired \in BOOLEAN :
          Begin(w, [op |-> "update",
                    status |-> IF retired THEN "RETIRED" ELSE deriveLicenseStatus(expired)])
    BY <1>12 DEF updateBegin
  <2>2. [op |-> "update",
         status |-> IF retired THEN "RETIRED" ELSE deriveLicenseStatus(expired)] \in Calls
    BY DEF Calls, Statuses, deriveLicenseStatus
  <2> QED  BY <1>1, <2>1, <2>2
<1>13. ASSUME NEW w \in Workers, sweepBegin(w) PROVE TypeOK'
  <2>1. [op |-> "sweep", status |-> deriveLicenseStatus(expired)] \in Calls
    BY DEF Calls, Statuses, deriveLicenseStatus
  <2> QED  BY <1>1, <1>13, <2>1 DEF sweepBegin
<1>14. ASSUME NEW w \in Workers, statusCommit(w) PROVE TypeOK'
  <2>1. call[w].status \in Statuses
    BY <1>14, CallArguments DEF statusCommit
  <2> QED  BY <1>2, <1>14, <2>1 DEF statusCommit, TypeOK
<1>15. ASSUME NEW w \in Workers, removeBegin(w) PROVE TypeOK'
  <2>1. [op |-> "remove"] \in Calls
    BY DEF Calls
  <2> QED  BY <1>1, <1>15, <2>1 DEF removeBegin
<1>16. ASSUME NEW w \in Workers, removeCommit(w) PROVE TypeOK'
  BY <1>2, <1>16 DEF removeCommit, TypeOK
<1>17. ASSUME NEW w \in Workers, abort(w) PROVE TypeOK'
  BY <1>2, <1>17 DEF abort, TypeOK
<1>18. CASE timePasses
  BY <1>18 DEF timePasses, TypeOK
<1>19. CASE UNCHANGED vars
  BY <1>19 DEF TypeOK
<1> QED
  BY <1>3, <1>4, <1>5, <1>6, <1>7, <1>8, <1>9, <1>10, <1>11, <1>12, <1>13,
     <1>14, <1>15, <1>16, <1>17, <1>18, <1>19 DEF Next

LEMMA TypeInit == Init => TypeOK
<1> SUFFICES ASSUME Init PROVE TypeOK
  OBVIOUS
<1>1. reserved \in SeatCounts
  BY SeatsAssumption DEF Init, SeatCounts
<1>2. call \in [Workers -> Calls]
  BY DEF Init, Calls
<1>3. status \in Statuses
  BY DEF Init, Statuses, deriveLicenseStatus
<1> QED
  BY <1>1, <1>2, <1>3 DEF Init, TypeOK

\* Type correctness, for every number of workers.
THEOREM TypeCorrect == Spec => []TypeOK
<1>1. TypeOK /\ [Next]_vars => TypeOK'
  BY TypeStep
<1> QED
  BY TypeInit, <1>1, PTL DEF Spec

LEMMA CounterStep == ASSUME TypeOK, CounterWithinAllocation, [Next]_vars PROVE CounterWithinAllocation'
<1> USE SeatsAssumption DEF CounterWithinAllocation, ReservedWithinAllocation, pool, license, vars
<1>1. ASSUME NEW w \in Workers, assignCommit(w) PROVE CounterWithinAllocation'
  <2>1. PICK row \in Injection(call[w].who, Unused) : TRUE
    BY <1>1 DEF assignCommit, takeSeats
  <2>2. IsFiniteSet(Unused)
    BY FS_Subset DEF Unused
  <2>3. Cardinality(call[w].who) \in Nat
    BY <2>1, <2>2, FS_Injection, FS_CardinalityType
  <2> QED  BY <1>1, <2>3 DEF assignCommit, takeSeats, TypeOK, SeatCounts
<1>2. ASSUME NEW w \in Workers, revokeCommit(w) PROVE CounterWithinAllocation'
  BY <1>2 DEF revokeCommit, TypeOK, SeatCounts
<1>3. ASSUME NEW w \in Workers, renewCommit(w) PROVE CounterWithinAllocation'
  BY <1>3 DEF renewCommit
<1>4. CASE UNCHANGED <<reserved, allocated>>
  BY <1>4
<1> QED
  BY <1>1, <1>2, <1>3, <1>4
     DEF Next, Begin, assignBegin, bulkAssignBegin, revokeBegin, transferBegin, transferCommit,
         renewBegin, updateBegin, sweepBegin, statusCommit, removeBegin, removeCommit, abort,
         timePasses

\* The counter never leaves the pool's allocation, however many requests race:
\* the conditional increment, the guarded decrement and the CHECK suffice.
THEOREM CounterStaysWithinAllocation == Spec => []CounterWithinAllocation
<1> USE SeatsAssumption DEF CounterWithinAllocation, ReservedWithinAllocation, pool, license, vars
<1>1. Init => CounterWithinAllocation
  BY DEF Init, SeatCounts
<1>2. TypeOK /\ CounterWithinAllocation /\ [Next]_vars => CounterWithinAllocation'
  BY CounterStep
<1> QED
  BY <1>1, <1>2, TypeCorrect, PTL DEF Spec

LEMMA DistinctStep == ASSUME TypeOK, OneActiveSeatPerHolder, [Next]_vars PROVE OneActiveSeatPerHolder'
<1> USE SeatsAssumption DEF pool, license, history, vars
<1>1. ASSUME NEW w \in Workers, assignCommit(w) PROVE OneActiveSeatPerHolder'
  <2> DEFINE H == call[w].who
  <2>1. H \in SUBSET Holders
    BY <1>1, CallArguments DEF assignCommit
  <2>2. PICK row \in Injection(H, Unused) :
           seat' = occupied(H, row)
    BY <1>1 DEF assignCommit, takeSeats
  <2>3. /\ \A h \in H : row[h] \in Unused /\ seat'[row[h]] = h
        /\ \A r \in Rows : (\A h \in H : row[h] # r) => seat'[r] = seat[r]
    BY <2>1, <2>2, SeatsTaken
  <2>4. \A r \in Active : seat[r] \notin H
    BY <1>1 DEF assignCommit, takeSeats, NoActiveDuplicate
  <2> QED  BY <2>3, <2>4 DEF OneActiveSeatPerHolder, Active
<1>2. ASSUME NEW w \in Workers, revokeCommit(w) PROVE OneActiveSeatPerHolder'
  BY <1>2 DEF revokeCommit, OneActiveSeatPerHolder, Active, TypeOK
<1>3. ASSUME NEW w \in Workers, transferCommit(w) PROVE OneActiveSeatPerHolder'
  <2>1. call[w].row \in Rows /\ call[w].to \in Holders
    BY <1>3, CallArguments DEF transferCommit
  <2>2. PICK n \in Unused : seat' = [seat EXCEPT ![call[w].row] = "revoked", ![n] = call[w].to]
    BY <1>3 DEF transferCommit
  <2>3. \A r \in Active \ {call[w].row} : seat[r] # call[w].to
    BY <1>3 DEF transferCommit, NoActiveDuplicate
  <2>4. \A r \in Active' : r = n \/ (r \in Active \ {call[w].row} /\ seat'[r] = seat[r])
    BY <2>1, <2>2 DEF Active, Unused, TypeOK
  <2>5. n \in Rows /\ (n \in Active' => seat'[n] = call[w].to)
    BY <2>1, <2>2 DEF Active, Unused, TypeOK
  <2> QED  BY <2>3, <2>4, <2>5 DEF OneActiveSeatPerHolder
<1>4. CASE UNCHANGED seat
  BY <1>4 DEF OneActiveSeatPerHolder, Active
<1> QED
  BY <1>1, <1>2, <1>3, <1>4
     DEF Next, Begin, assignBegin, bulkAssignBegin, revokeBegin, transferBegin,
         renewBegin, renewCommit, updateBegin, sweepBegin, statusCommit, removeBegin,
         removeCommit, abort, timePasses

\* Nobody holds two active seats of a licence, however many requests race:
\* the unique index is checked by every write that opens a row.
THEOREM HoldersStayDistinct == Spec => []OneActiveSeatPerHolder
<1> USE SeatsAssumption DEF pool, license, history, vars
<1>1. Init => OneActiveSeatPerHolder
  BY DEF Init, OneActiveSeatPerHolder, Active
<1>2. TypeOK /\ OneActiveSeatPerHolder /\ [Next]_vars => OneActiveSeatPerHolder'
  BY DistinctStep
<1> QED
  BY <1>1, <1>2, TypeCorrect, PTL DEF Spec

-----------------------------------------------------------------------------
(* The rows behind the counter, and those of a deleted licence *)

\* While a removal is in progress, and once the licence is deleted, every
\* active row is one that a call beside the removal opened, and every call
\* that may still open one is known to overlap it.
RemovalInv ==
  (deleted \/ \E w \in Workers : call[w].op = "remove")
    => /\ Active \subseteq besides
       /\ \A w \in Workers : call[w].op \in {"assign", "transfer"} => w \in spans

\* Taking seats adds one active row per holder.
LEMMA TakingCounts ==
  ASSUME TypeOK, NEW H \in SUBSET Holders, takeSeats(H)
  PROVE  /\ IsFiniteSet(Active) /\ IsFiniteSet(H)
         /\ Cardinality(Active') = Cardinality(Active) + Cardinality(H)
         /\ HolderSet' = HolderSet \cup H
<1>1. PICK row \in Injection(H, Unused) :
        seat' = occupied(H, row)
  BY DEF takeSeats
<1>2. /\ \A h \in H : row[h] \in Unused /\ seat'[row[h]] = h
      /\ \A r \in Rows : (\A h \in H : row[h] # r) => seat'[r] = seat[r]
  BY <1>1, SeatsTaken
<1> DEFINE New == {row[h] : h \in H}
<1>3. Active' = Active \cup New
  BY <1>2, SeatsAssumption DEF Active, Unused
<1>4. Active \cap New = {}
  BY <1>2, SeatsAssumption DEF Active, Unused
<1>5. IsFiniteSet(Active) /\ IsFiniteSet(Unused) /\ IsFiniteSet(New)
  BY <1>2, FS_Subset, SeatsAssumption DEF Active, Unused
<1>6. [h \in H |-> row[h]] \in Bijection(H, New)
  BY <1>1 DEF Injection, IsInjective, Bijection, Surjection
<1>7. IsFiniteSet(H)
  BY <1>1, <1>5, FS_Injection
<1>8. Cardinality(New) = Cardinality(H)
  BY <1>6, <1>7, FS_Bijection DEF ExistsBijection
<1>9. Cardinality(Active \cup New) = Cardinality(Active) + Cardinality(New)
  <2>1. Cardinality(Active \cap New) = 0
    BY <1>4, FS_EmptySet
  <2>2. Cardinality(Active) \in Nat /\ Cardinality(New) \in Nat
    BY <1>5, FS_CardinalityType
  <2>3. Cardinality(Active \cup New)
          = Cardinality(Active) + Cardinality(New) - Cardinality(Active \cap New)
    BY <1>5, FS_Union
  <2> HIDE DEF New
  <2> QED  BY <2>1, <2>2, <2>3
<1>10. HolderSet' = HolderSet \cup H
  BY <1>2, <1>3, <1>4 DEF HolderSet, Active
<1> QED
  BY <1>3, <1>5, <1>7, <1>8, <1>9, <1>10

\* Closing an active row takes one from the number of active rows.
LEMMA RevokingCounts ==
  ASSUME TypeOK, NEW r \in Active, seat' = [seat EXCEPT ![r] = "revoked"]
  PROVE  /\ IsFiniteSet(Active)
         /\ Active' = Active \ {r}
         /\ Cardinality(Active') = Cardinality(Active) - 1
<1>1. Active' = Active \ {r}
  BY SeatsAssumption DEF Active, TypeOK
<1>2. IsFiniteSet(Active)
  BY FS_Subset, SeatsAssumption DEF Active
<1> QED
  BY <1>1, <1>2, FS_RemoveElement

\* Moving a seat from an active row keeps their number.
LEMMA MovingCounts ==
  ASSUME TypeOK, NEW r \in Active, NEW n \in Unused, NEW h \in Holders,
         seat' = [seat EXCEPT ![r] = "revoked", ![n] = h]
  PROVE  /\ Active' = (Active \ {r}) \cup {n}
         /\ Cardinality(Active') = Cardinality(Active)
<1>1. r # n /\ n \notin Active
  BY SeatsAssumption DEF Active, Unused
<1>2. Active' = (Active \ {r}) \cup {n}
  BY <1>1, SeatsAssumption DEF Active, Unused, TypeOK
<1>3. IsFiniteSet(Active) /\ Cardinality(Active) \in Nat
  BY FS_Subset, FS_CardinalityType, SeatsAssumption DEF Active
<1>4. IsFiniteSet(Active \ {r}) /\ Cardinality(Active \ {r}) = Cardinality(Active) - 1
  BY <1>3, FS_RemoveElement
<1>5. Cardinality((Active \ {r}) \cup {n}) = Cardinality(Active \ {r}) + 1
  BY <1>1, <1>4, FS_AddElement
<1> QED
  BY <1>2, <1>3, <1>4, <1>5

\* A row closed by its id: what becomes of the active rows and of their number
\* if it was active, and if another call had closed it.
LEMMA RevokingFollows ==
  ASSUME TypeOK, CounterFollowsRows, NEW w \in Workers, revokeCommit(w)
  PROVE  CounterFollowsRows' /\ Active' \subseteq Active
<1>1. call[w].row \in Rows
  BY CallArguments DEF revokeCommit
<1>2. IsFiniteSet(Active) /\ Cardinality(Active) \in Nat
  BY FS_Subset, FS_CardinalityType, SeatsAssumption DEF Active
<1>3. CASE call[w].row \in Active
  <2>1. Active' = Active \ {call[w].row} /\ Cardinality(Active') = Cardinality(Active) - 1
    BY <1>3, RevokingCounts DEF revokeCommit
  <2>2. Cardinality(Active) # 0
    BY <1>2, <1>3, FS_EmptySet
  <2> QED
    BY <1>2, <1>3, <2>1, <2>2 DEF revokeCommit, Closes, CounterFollowsRows, TypeOK, SeatCounts
<1>4. CASE call[w].row \notin Active
  <2>1. Active' = Active
    BY <1>1, <1>4, SeatsAssumption DEF revokeCommit, Active, TypeOK
  <2> QED
    BY <1>2, <1>4, <2>1 DEF revokeCommit, Closes, CounterFollowsRows, TypeOK, SeatCounts
<1> QED
  BY <1>3, <1>4

LEMMA TransferringFollows ==
  ASSUME TypeOK, CounterFollowsRows, NEW w \in Workers, transferCommit(w)
  PROVE  CounterFollowsRows'
<1>1. call[w].row \in Rows /\ call[w].to \in Holders
  BY CallArguments DEF transferCommit
<1>2. IsFiniteSet(Active) /\ Cardinality(Active) \in Nat
  BY FS_Subset, FS_CardinalityType, SeatsAssumption DEF Active
<1>3. PICK n \in Unused : seat' = [seat EXCEPT ![call[w].row] = "revoked", ![n] = call[w].to]
  BY DEF transferCommit
<1>4. CASE call[w].row \in Active
  <2>1. Cardinality(Active') = Cardinality(Active)
    BY <1>1, <1>3, <1>4, MovingCounts
  <2> QED
    BY <1>2, <1>4, <2>1 DEF transferCommit, Closes, CounterFollowsRows, TypeOK
<1>5. CASE call[w].row \notin Active
  <2>1. Active' = Active \cup {n} /\ n \notin Active
    BY <1>1, <1>3, <1>5, SeatsAssumption DEF Active, Unused, TypeOK
  <2>2. Cardinality(Active') = Cardinality(Active) + 1
    BY <1>2, <2>1, FS_AddElement
  <2> QED
    BY <1>2, <1>5, <2>2 DEF transferCommit, Closes, CounterFollowsRows, TypeOK, SeatCounts
<1> QED
  BY <1>4, <1>5

LEMMA AssigningFollows ==
  ASSUME TypeOK, CounterFollowsRows, NEW w \in Workers, assignCommit(w)
  PROVE  CounterFollowsRows'
<1>1. call[w].who \in SUBSET Holders
  BY CallArguments DEF assignCommit
<1>2. /\ IsFiniteSet(Active) /\ IsFiniteSet(call[w].who)
      /\ Cardinality(Active') = Cardinality(Active) + Cardinality(call[w].who)
  BY <1>1, TakingCounts DEF assignCommit
<1>3. Cardinality(Active) \in Nat /\ Cardinality(call[w].who) \in Nat
  BY <1>2, FS_CardinalityType
<1> QED
  BY <1>2, <1>3 DEF assignCommit, takeSeats, CounterFollowsRows, TypeOK, SeatCounts

LEMMA FollowsStep == ASSUME TypeOK, CounterFollowsRows, [Next]_vars PROVE CounterFollowsRows'
<1> USE DEF pool, license, history, vars
<1>1. CASE UNCHANGED <<seat, reserved, closedAgain>>
  BY <1>1 DEF CounterFollowsRows, Active
<1> QED
  BY <1>1, AssigningFollows, RevokingFollows, TransferringFollows
     DEF Next, Begin, assignBegin, bulkAssignBegin, revokeBegin, transferBegin, renewBegin,
         renewCommit, updateBegin, sweepBegin, statusCommit, removeBegin, removeCommit, abort,
         timePasses

\* The counter never counts more than the active rows, and less only by the
\* writes that closed a row which was closed already, for any number of
\* overlapping requests.
THEOREM CounterFollows == Spec => []CounterFollowsRows
<1>1. ASSUME Init PROVE CounterFollowsRows
  <2>1. Active = {}
    BY <1>1, SeatsAssumption DEF Init, Active
  <2> QED  BY <1>1, <2>1, FS_EmptySet DEF Init, CounterFollowsRows
<1>2. TypeOK /\ CounterFollowsRows /\ [Next]_vars => CounterFollowsRows'
  BY FollowsStep
<1> QED
  BY <1>1, <1>2, TypeCorrect, PTL DEF Spec

\* Rows open only in calls that overlap the removal, once there is one.
LEMMA OpeningBesides ==
  ASSUME TypeOK, RemovalInv, NEW w \in Workers,
         call[w].op \in {"assign", "transfer"}, Opens(w), Done(w), UNCHANGED deleted
  PROVE  RemovalInv'
<1> SUFFICES ASSUME deleted' \/ \E v \in Workers : call'[v].op = "remove"
             PROVE  /\ Active' \subseteq besides'
                    /\ \A v \in Workers : call'[v].op \in {"assign", "transfer"} => v \in spans'
  BY DEF RemovalInv
<1>1. \A v \in Workers : call'[v] = IF v = w THEN Idle ELSE call[v]
  BY DEF Done, TypeOK
<1>2. deleted \/ \E v \in Workers : call[v].op = "remove"
  BY <1>1 DEF Idle
<1>3. Active \subseteq besides /\ w \in spans
  BY <1>2 DEF RemovalInv
<1>4. Active' \subseteq besides'
  BY <1>3 DEF Opens
<1>5. \A v \in Workers : call'[v].op \in {"assign", "transfer"} => v \in spans'
  BY <1>1, <1>2 DEF RemovalInv, Done, Idle
<1> QED
  BY <1>4, <1>5

\* A call that opens no row and starts no removal leaves the rest as it was.
LEMMA ClosingBesides ==
  ASSUME TypeOK, RemovalInv, NEW w \in Workers, Done(w),
         Active' \subseteq Active, UNCHANGED besides,
         deleted' => deleted \/ call[w].op = "remove"
  PROVE  RemovalInv'
<1>1. \A v \in Workers : call'[v] = IF v = w THEN Idle ELSE call[v]
  BY DEF Done, TypeOK
<1> QED
  BY <1>1 DEF RemovalInv, Done, Idle

\* A call that begins: an assign or a transfer finds the licence there, and a
\* removal finds no seat.
LEMMA BeginningBesides ==
  ASSUME TypeOK, RemovalInv, NEW w \in Workers, NEW c \in Calls, Begin(w, c),
         c.op \in {"assign", "transfer"} => ~deleted,
         c.op = "remove" => ~deleted /\ Active = {}
  PROVE  RemovalInv'
<1>1. \A v \in Workers : call'[v] = IF v = w THEN c ELSE call[v]
  BY DEF Begin, TypeOK
<1>2. Active' = Active /\ deleted' = deleted /\ besides' = besides
  BY DEF Begin, Active, pool, license, history
<1>3. CASE c.op = "remove"
  <2>1. \A v \in Workers : call[v].op \in {"assign", "transfer"} => v \in spans'
    BY <1>3 DEF Begin, Idle
  <2> QED  BY <1>1, <1>2, <1>3, <2>1 DEF RemovalInv
<1>4. CASE c.op # "remove"
  <2>1. spans \subseteq spans'
    BY <1>4 DEF Begin
  <2>2. (\E v \in Workers : call[v].op = "remove") => w \in spans'
    BY <1>4 DEF Begin
  <2>3. (\E v \in Workers : call'[v].op = "remove") => \E v \in Workers : call[v].op = "remove"
    BY <1>1, <1>4
  <2> QED  BY <1>1, <1>2, <2>1, <2>2, <2>3 DEF RemovalInv
<1> QED
  BY <1>3, <1>4

LEMMA RemovalStep == ASSUME TypeOK, RemovalInv, [Next]_vars PROVE RemovalInv'
<1> USE SeatsAssumption DEF pool, license, history, vars
<1>1. ASSUME NEW w \in Workers, assignBegin(w) \/ bulkAssignBegin(w) PROVE RemovalInv'
  <2>1. PICK H \in SUBSET Holders : Begin(w, [op |-> "assign", who |-> H])
    BY <1>1 DEF assignBegin, bulkAssignBegin
  <2>2. [op |-> "assign", who |-> H] \in Calls
    BY DEF Calls
  <2> QED  BY <1>1, <2>1, <2>2, BeginningBesides DEF assignBegin, bulkAssignBegin, assignable
<1>2. ASSUME NEW w \in Workers, assignCommit(w) PROVE RemovalInv'
  BY <1>2, OpeningBesides DEF assignCommit, takeSeats
<1>3. ASSUME NEW w \in Workers, revokeBegin(w) PROVE RemovalInv'
  <2>1. PICK r \in Active : Begin(w, [op |-> "revoke", row |-> r])
    BY <1>3 DEF revokeBegin
  <2>2. [op |-> "revoke", row |-> r] \in Calls
    BY DEF Calls, Active
  <2> QED  BY <2>1, <2>2, BeginningBesides
<1>4. ASSUME NEW w \in Workers, revokeCommit(w) PROVE RemovalInv'
  <2>1. call[w].row \in Rows
    BY <1>4, CallArguments DEF revokeCommit
  <2>2. Active' \subseteq Active
    BY <1>4, <2>1 DEF revokeCommit, Active, TypeOK
  <2> QED  BY <1>4, <2>2, ClosingBesides DEF revokeCommit
<1>5. ASSUME NEW w \in Workers, transferBegin(w) PROVE RemovalInv'
  <2>1. PICK r \in Active, h \in Holders : Begin(w, [op |-> "transfer", row |-> r, to |-> h])
    BY <1>5 DEF transferBegin
  <2>2. [op |-> "transfer", row |-> r, to |-> h] \in Calls
    BY DEF Calls, Active
  <2> QED  BY <1>5, <2>1, <2>2, BeginningBesides DEF transferBegin, assignable
<1>6. ASSUME NEW w \in Workers, transferCommit(w) PROVE RemovalInv'
  BY <1>6, OpeningBesides DEF transferCommit
<1>7. ASSUME NEW w \in Workers, renewBegin(w) PROVE RemovalInv'
  <2>1. PICK buy \in SeatCounts, give \in SeatCounts, extend \in BOOLEAN :
          Begin(w, [op |-> "renew", buy |-> buy, give |-> give, extend |-> extend])
    BY <1>7 DEF renewBegin
  <2>2. [op |-> "renew", buy |-> buy, give |-> give, extend |-> extend] \in Calls
    BY DEF Calls
  <2> QED  BY <2>1, <2>2, BeginningBesides
<1>8. ASSUME NEW w \in Workers, updateBegin(w) \/ sweepBegin(w) PROVE RemovalInv'
  <2>1. PICK op \in {"update", "sweep"}, to \in Statuses : Begin(w, [op |-> op, status |-> to])
    BY <1>8 DEF updateBegin, sweepBegin, Statuses, deriveLicenseStatus
  <2>2. [op |-> op, status |-> to] \in Calls
    BY DEF Calls
  <2> QED  BY <2>1, <2>2, BeginningBesides
<1>9. ASSUME NEW w \in Workers, removeBegin(w) PROVE RemovalInv'
  <2>1. [op |-> "remove"] \in Calls
    BY DEF Calls
  <2> QED  BY <1>9, <2>1, BeginningBesides DEF removeBegin
<1>10. ASSUME NEW w \in Workers,
              removeCommit(w) \/ renewCommit(w) \/ statusCommit(w) \/ abort(w)
       PROVE  RemovalInv'
  <2>1. Active' = Active
    BY <1>10 DEF removeCommit, renewCommit, statusCommit, abort, Active
  <2>2. Done(w) /\ UNCHANGED besides
    BY <1>10 DEF removeCommit, renewCommit, statusCommit, abort
  <2>3. deleted' => (deleted \/ call[w].op = "remove")
    BY <1>10 DEF removeCommit, renewCommit, statusCommit, abort
  <2> QED
    BY <2>1, <2>2, <2>3, ClosingBesides
<1>11. CASE timePasses \/ UNCHANGED vars
  BY <1>11 DEF timePasses, RemovalInv, Active
<1> QED
  BY <1>1, <1>2, <1>3, <1>4, <1>5, <1>6, <1>7, <1>8, <1>9, <1>10, <1>11 DEF Next

\* A seat on a deleted licence is one that a call beside the removal gave, for
\* any number of overlapping requests: no later call gives one.
THEOREM NoSeatsOnDeletedLicense == Spec => []DeletedLicenseHasNoSeats
<1>1. Init => RemovalInv
  BY DEF Init, RemovalInv, Idle
<1>2. TypeOK /\ RemovalInv /\ [Next]_vars => RemovalInv'
  BY RemovalStep
<1>3. RemovalInv => DeletedLicenseHasNoSeats
  BY DEF RemovalInv, DeletedLicenseHasNoSeats
<1> QED
  BY <1>1, <1>2, <1>3, TypeCorrect, PTL DEF Spec

-----------------------------------------------------------------------------
(* The abstract allotment *)

\* While active rows have distinct holders there are as many holders as rows.
LEMMA HoldersAreRows ==
  ASSUME TypeOK, OneActiveSeatPerHolder
  PROVE  /\ IsFiniteSet(HolderSet)
         /\ Cardinality(HolderSet) = Cardinality(Active)
<1> DEFINE f == [r \in Active |-> seat[r]]
<1>1. f \in Bijection(Active, HolderSet)
  BY DEF OneActiveSeatPerHolder, Bijection, Injection, IsInjective, Surjection, HolderSet
<1>2. IsFiniteSet(Active)
  BY FS_Subset, SeatsAssumption DEF Active
<1> QED
  BY <1>1, <1>2, FS_Bijection DEF ExistsBijection

\* The abstract specification counts as this module does.
LEMMA SameCardinality == ASSUME NEW S PROVE Allotment!Cardinality(S) = Cardinality(S)
  BY DEF Allotment!Cardinality, Cardinality

\* Until a row is closed twice the counter is exact, and every step gives, takes
\* or moves seats, changes the limit, or changes neither.
LEMMA StepImplementsAllotment ==
  ASSUME TypeOK, OneActiveSeatPerHolder, CounterFollowsRows, [Next]_vars, closedAgain' = 0
  PROVE  [Allotment!Next]_<<HolderSet, allocated>>
<1> USE SeatsAssumption DEF pool, license, history, vars
<1>20. ASSUME NEW r, Closes(r) PROVE r \in Active /\ closedAgain = 0
  BY <1>20 DEF Closes, TypeOK
<1>21. Cardinality(Active) \in Nat
  BY FS_Subset, FS_CardinalityType DEF Active
<1>22. ASSUME closedAgain = 0 PROVE reserved = Cardinality(Active)
  BY <1>21, <1>22 DEF CounterFollowsRows, TypeOK, SeatCounts
<1>1. ASSUME NEW w \in Workers, assignCommit(w) PROVE Allotment!Next
  <2> DEFINE H == call[w].who
  <2>1. H \in SUBSET Holders /\ takeSeats(H)
    BY <1>1, CallArguments DEF assignCommit
  <2>2. HolderSet' = HolderSet \cup H
    BY <2>1, TakingCounts
  <2>3. H \cap HolderSet = {}
    BY <2>1 DEF takeSeats, NoActiveDuplicate, HolderSet
  <2>4. Cardinality(HolderSet) + Cardinality(H) <= allocated
    BY <1>1, <1>22, <2>1, HoldersAreRows DEF assignCommit, takeSeats
  <2>5. UNCHANGED allocated
    BY <2>1 DEF takeSeats
  <2>6. Allotment!Give(H)
    BY <2>2, <2>3, <2>4, <2>5, SameCardinality DEF Allotment!Give
  <2> QED  BY <2>1, <2>6 DEF Allotment!Next
<1>2. ASSUME NEW w \in Workers, revokeCommit(w) PROVE Allotment!Next
  <2> DEFINE r == call[w].row
  <2>1. r \in Active
    BY <1>2, <1>20 DEF revokeCommit
  <2>2. Active' = Active \ {r} /\ seat' = [seat EXCEPT ![r] = "revoked"]
    BY <1>2, <2>1, RevokingCounts DEF revokeCommit
  <2>3. HolderSet' = HolderSet \ {seat[r]}
    BY <2>1, <2>2 DEF HolderSet, Active, OneActiveSeatPerHolder, TypeOK
  <2>4. Allotment!Take(seat[r])
    BY <1>2, <2>1, <2>3 DEF Allotment!Take, HolderSet, revokeCommit
  <2> QED  BY <2>1, <2>4 DEF Allotment!Next, Active
<1>3. ASSUME NEW w \in Workers, transferCommit(w) PROVE [Allotment!Next]_<<HolderSet, allocated>>
  <2> DEFINE r == call[w].row
             k == call[w].to
  <2>1. r \in Active /\ k \in Holders
    BY <1>3, <1>20, CallArguments DEF transferCommit
  <2>2. PICK n \in Unused : seat' = [seat EXCEPT ![r] = "revoked", ![n] = k]
    BY <1>3 DEF transferCommit
  <2>3. Active' = (Active \ {r}) \cup {n}
    BY <2>1, <2>2, MovingCounts
  <2>4. r # n /\ n \notin Active
    BY <2>1, <2>2 DEF Active, Unused
  <2>5. HolderSet' = (HolderSet \ {seat[r]}) \cup {k}
    BY <2>1, <2>2, <2>3, <2>4 DEF HolderSet, Active, Unused, OneActiveSeatPerHolder, TypeOK
  <2>6. \A s \in Active \ {r} : seat[s] # k
    BY <1>3 DEF transferCommit, NoActiveDuplicate
  <2>7. CASE k = seat[r]
    <3>1. HolderSet' = HolderSet
      BY <2>1, <2>5, <2>7 DEF HolderSet
    <3>2. UNCHANGED allocated
      BY <1>3 DEF transferCommit
    <3> QED  BY <3>1, <3>2
  <2>8. CASE k # seat[r]
    <3>1. k \notin HolderSet
      BY <2>6, <2>8 DEF HolderSet
    <3>2. Allotment!Move(seat[r], k)
      BY <1>3, <2>1, <2>5, <3>1 DEF Allotment!Move, HolderSet, transferCommit
    <3> QED  BY <2>1, <3>2 DEF Allotment!Next, Active
  <2> QED  BY <2>7, <2>8
<1>4. ASSUME NEW w \in Workers, renewCommit(w) PROVE Allotment!Next
  <2>1. call[w].give \in SeatCounts
    BY <1>4, CallArguments DEF renewCommit
  <2>2. Cardinality(HolderSet) <= call[w].give
    BY <1>4, <1>22, HoldersAreRows DEF renewCommit, ReservedWithinAllocation
  <2>3. UNCHANGED HolderSet
    BY <1>4 DEF renewCommit, HolderSet, Active
  <2>4. allocated' = call[w].give
    BY <1>4 DEF renewCommit
  <2>5. Allotment!Resize(call[w].give)
    BY <2>2, <2>3, <2>4, SameCardinality DEF Allotment!Resize
  <2> QED  BY <2>1, <2>5 DEF Allotment!Next
<1>5. CASE UNCHANGED <<seat, allocated>>
  BY <1>5 DEF HolderSet, Active
<1> QED
  BY <1>1, <1>2, <1>3, <1>4, <1>5
     DEF Next, Begin, assignBegin, bulkAssignBegin, revokeBegin, transferBegin, renewBegin,
         updateBegin, sweepBegin, statusCommit, removeBegin, removeCommit, abort, timePasses

\* Requests, overlapping or not, keep the promise of SeatAllotment until one
\* closes a row that another has closed.
THEOREM SeatsImplementAllotment == Spec => ImplementsAllotment
<1>1. Init => Allotment!Init
  BY SeatsAssumption DEF Init, Allotment!Init, HolderSet, Active, SeatCounts
<1>2. TypeOK /\ OneActiveSeatPerHolder /\ CounterFollowsRows /\ [Next]_vars
        => [closedAgain' = 0 => Allotment!Next]_<<HolderSet, allocated>>
  BY StepImplementsAllotment
<1> QED
  BY <1>1, <1>2, TypeCorrect, HoldersStayDistinct, CounterFollows, PTL
     DEF Spec, ImplementsAllotment

=============================================================================

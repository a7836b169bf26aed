--------------------------- MODULE OfflineSyncProofs ---------------------------
(***************************************************************************)
(* What holds of OfflineSync for any number of operations, uploads and     *)
(* faults.                                                                 *)
(*                                                                         *)
(* The invariant is in layers: what the phone and the uploads know of each *)
(* other, what was decided against what is there, and how often a change   *)
(* was made.                                                               *)
(***************************************************************************)
EXTENDS OfflineSync, WellFoundedInduction, TLAPS

-----------------------------------------------------------------------------
(* The phone, the uploads and the receipts *)

Jobs == [pc : {"idle", "look", "read", "write", "receipt"}, todo : SUBSET Ops,
         read : Nat, done : SUBSET Ops, kept : SUBSET Ops, heard : BOOLEAN]
Phones == [pc : {"idle", "waiting", "queue", "outcomes"}, queue : SUBSET Ops,
           held : SUBSET Ops, done : SUBSET Ops, kept : SUBSET Ops]

\* What an upload is at was recorded; a scan is written without being read again.
Sound(j) ==
  /\ j.todo \subseteq Recorded
  /\ j.pc = "idle" => j.todo = {}
  /\ j.pc \in {"read", "write", "receipt"} => j.todo # {}
  /\ j.pc \in {"read", "receipt"} => op[Min(j.todo)] # Scan
  /\ j.done \subseteq receipts

\* The results the phone has are backed by receipts, and what it has recorded
\* since it read the queue is remembered.
Backed ==
  /\ queue \subseteq Recorded /\ phone.queue \subseteq Recorded
  /\ phone.done \subseteq receipts
  /\ phone.pc \in {"waiting", "queue"} => queue \subseteq phone.queue \cup overtaken

\* The phone waits for one upload.
Hearing ==
  /\ \A w \in Workers : job[w].heard => phone.pc = "waiting"
  /\ \A w, v \in Workers : job[w].heard /\ job[v].heard => w = v

Base ==
  /\ TypeOK /\ Backed /\ Hearing /\ NothingLost
  /\ \A w \in Workers : Sound(job[w])

\* One upload moves.
Moved(w) == job' \in [Workers -> Jobs] /\ \A v \in Workers \ {w} : job'[v] = job[v]

LEMMA LeastExists ==
  ASSUME NEW S \in SUBSET Ops, S # {}
  PROVE  Min(S) \in S
<1>1. S \subseteq Nat
  BY OfflineAssumption DEF Ops
<1>2. PICK x \in S : \A y \in S : ~ (<<y, x>> \in OpToRel(<, Nat))
  BY ONLY S # {}, <1>1, NatLessThanWellFounded, WFMin, Zenon
<1>3. \A y \in S : <<y, x>> \in Nat \X Nat
  BY <1>1
<1>4. \A y \in S : ~(y < x)
  BY <1>2, <1>3 DEF OpToRel
<1>5. \A y \in S : x =< y
  BY <1>1, <1>4
<1> QED  BY <1>5 DEF Min

LEMMA Recording ==
  /\ None \notin Operations
  /\ Scan \notin Moves
  /\ \A m \in Moves : m.seen \in Nat /\ m.target \in Nat
<1>1. DOMAIN Scan = {"scan"} /\ DOMAIN None = {"seen", "target"}
  BY DEF Scan, None
<1>2. \A m \in Moves : m.seen \in Nat /\ m.target \in Nat /\ m.seen # m.target /\ DOMAIN m = {"seen", "target"}
  BY OfflineAssumption
<1>3. None \notin Moves
  BY <1>2 DEF None
<1> QED  BY <1>1, <1>2, <1>3 DEF Operations

LEMMA JobTypes ==
  ASSUME TypeOK, NEW w \in Workers
  PROVE  /\ job \in [Workers -> Jobs] /\ job[w] \in Jobs
         /\ job[w].pc \in {"idle", "look", "read", "write", "receipt"}
         /\ job[w].todo \in SUBSET Ops /\ job[w].read \in Nat
         /\ job[w].done \in SUBSET Ops /\ job[w].kept \in SUBSET Ops /\ job[w].heard \in BOOLEAN
  BY DEF TypeOK, Jobs

LEMMA PhoneTypes ==
  ASSUME TypeOK
  PROVE  /\ phone \in Phones
         /\ phone.pc \in {"idle", "waiting", "queue", "outcomes"}
         /\ phone.queue \in SUBSET Ops /\ phone.held \in SUBSET Ops
         /\ phone.done \in SUBSET Ops /\ phone.kept \in SUBSET Ops
  BY DEF TypeOK, Phones

LEMMA Nothing ==
  /\ NoJob \in Jobs /\ NoJob.pc = "idle" /\ NoJob.todo = {} /\ NoJob.done = {} /\ NoJob.heard = FALSE
  /\ NoPhone \in Phones /\ NoPhone.pc = "idle" /\ NoPhone.queue = {} /\ NoPhone.done = {}
  BY DEF NoJob, Jobs, NoPhone, Phones

\* The operation in hand.
LEMMA InHand ==
  ASSUME TypeOK, NEW w \in Workers, job[w].todo # {}
  PROVE  Current(w) \in job[w].todo /\ Current(w) \in Ops
  BY JobTypes, LeastExists DEF Current

LEMMA GoesTo ==
  ASSUME TypeOK, NEW w \in Workers, NEW j \in Jobs, Go(w, j)
  PROVE  Moved(w) /\ job'[w] = j
  BY DEF Go, Moved, TypeOK, Jobs

LEMMA GotoDoes ==
  ASSUME TypeOK, NEW w \in Workers, NEW pc \in {"look", "read", "write", "receipt"}, NEW n \in Nat,
         Goto(w, pc, n)
  PROVE  /\ Moved(w) /\ job'[w].pc = pc /\ job'[w].read = n
         /\ job'[w].todo = job[w].todo /\ job'[w].done = job[w].done /\ job'[w].heard = job[w].heard
<1> DEFINE j == [job[w] EXCEPT !.pc = pc, !.read = n]
<1>1. job[w] \in Jobs
  BY JobTypes
<1>2. /\ j \in Jobs /\ j.pc = pc /\ j.read = n /\ j.todo = job[w].todo /\ j.done = job[w].done
      /\ j.heard = job[w].heard
  BY <1>1 DEF Jobs
<1>3. Go(w, j)
  BY DEF Goto
<1> HIDE DEF j
<1>4. Moved(w) /\ job'[w] = j
  BY <1>2, <1>3, GoesTo
<1> QED  BY <1>2, <1>4

LEMMA SettledDoes ==
  ASSUME TypeOK, NEW w \in Workers, job[w].todo # {}, NEW b \in BOOLEAN, Settled(w, b)
  PROVE  /\ Moved(w) /\ job'[w].pc = "look" /\ job'[w].todo = job[w].todo \ {Current(w)}
         /\ job'[w].done \subseteq job[w].done \cup {Current(w)}
         /\ ~b => job'[w].done = job[w].done
         /\ job'[w].heard = job[w].heard
<1>1. job[w] \in Jobs /\ Current(w) \in Ops
  BY JobTypes, InHand
<1>2. PICK o : o = Current(w)
  OBVIOUS
<1>3. PICK D, K : /\ D = IF b /\ job[w].heard THEN job[w].done \cup {o} ELSE job[w].done
                  /\ K = IF ~b /\ job[w].heard THEN job[w].kept \cup {o} ELSE job[w].kept
  OBVIOUS
<1>4. D \in SUBSET Ops /\ K \in SUBSET Ops
  BY <1>1, <1>2, <1>3, JobTypes
<1> DEFINE j == [job[w] EXCEPT !.pc = "look", !.read = 0, !.todo = job[w].todo \ {o},
                               !.done = D, !.kept = K]
<1>5. /\ j \in Jobs /\ j.pc = "look" /\ j.todo = job[w].todo \ {o} /\ j.done = D
      /\ j.heard = job[w].heard
  BY <1>1, <1>4 DEF Jobs
<1>6. Go(w, j)
  BY <1>2, <1>3 DEF Settled
<1> HIDE DEF j
<1>7. Moved(w) /\ job'[w] = j
  BY <1>5, <1>6, GoesTo
<1> QED  BY <1>2, <1>3, <1>5, <1>7

\* A step of one upload that the phone does not see.
LEMMA BaseServes ==
  ASSUME Base, NEW w \in Workers, Moved(w), Sound(job[w])', job'[w].heard = job[w].heard,
         UNCHANGED <<shelf, op, device, discarded, overtaken>>,
         receipts \subseteq receipts', receipts' \subseteq Ops,
         value' \in Nat, applied' \in [Ops -> Nat],
         disturbed' \subseteq Ops, unsettled' \subseteq Ops, faults' \in 0..MaxFaults
  PROVE  Base'
<1>1. UNCHANGED <<queue, held, phone>> /\ Recorded' = Recorded
  BY DEF device, Recorded
<1>2. TypeOK'
  BY <1>1 DEF Base, TypeOK, Moved, Jobs
<1>3. Backed' /\ NothingLost'
  BY <1>1 DEF Base, Backed, NothingLost
<1>4. Hearing'
  BY <1>1 DEF Base, Hearing, Moved
<1>5. ASSUME NEW v \in Workers PROVE Sound(job[v])'
  <2>1. CASE v = w
    BY <2>1
  <2>2. CASE v # w
    BY <1>1, <2>2 DEF Base, Sound, Moved
  <2> QED  BY <2>1, <2>2
<1> QED  BY <1>2, <1>3, <1>4, <1>5 DEF Base

\* The operation in hand is settled, and nothing is decided on any more.
Settles(w) == job'[w].pc = "look" /\ job'[w].todo = job[w].todo \ {Current(w)}

LEMMA SoundSettled ==
  ASSUME Base, NEW w \in Workers, job[w].todo # {}, NEW b \in BOOLEAN, Settled(w, b), op' = op,
         receipts \subseteq receipts', b => Current(w) \in receipts'
  PROVE  Moved(w) /\ Settles(w) /\ Sound(job[w])' /\ job'[w].heard = job[w].heard
<1>1. /\ Moved(w) /\ job'[w].pc = "look" /\ job'[w].todo = job[w].todo \ {Current(w)}
      /\ job'[w].done \subseteq job[w].done \cup {Current(w)}
      /\ ~b => job'[w].done = job[w].done
      /\ job'[w].heard = job[w].heard
  BY SettledDoes DEF Base
<1>2. Recorded' = Recorded
  BY DEF Recorded
<1> QED  BY <1>1, <1>2 DEF Base, Sound, Settles

\* ... or the next statement of it follows.
Goes(w, pc) == job'[w].pc = pc /\ job'[w].todo = job[w].todo

LEMMA SoundGoes ==
  ASSUME Base, NEW w \in Workers, job[w].todo # {}, NEW pc \in {"look", "read", "write", "receipt"},
         NEW n \in Nat, Goto(w, pc, n), UNCHANGED <<op, receipts>>,
         pc \in {"read", "receipt"} => op[Current(w)] # Scan
  PROVE  Moved(w) /\ Goes(w, pc) /\ Sound(job[w])' /\ job'[w].heard = job[w].heard
<1>1. /\ Moved(w) /\ job'[w].pc = pc
      /\ job'[w].todo = job[w].todo /\ job'[w].done = job[w].done /\ job'[w].heard = job[w].heard
  BY GotoDoes DEF Base
<1>2. Recorded' = Recorded
  BY DEF Recorded
<1> QED  BY <1>1, <1>2 DEF Base, Sound, Goes, Current

LEMMA Decides ==
  ASSUME NEW o, NEW v
  PROVE  /\ decide(o, v) \in {"APPLY", "ALREADY_DONE", "CONFLICT"}
         /\ decide(o, v) = "APPLY" => v = op[o].seen
  BY DEF decide

LEMMA Faulty ==
  ASSUME TypeOK, Fault
  PROVE  faults' \in 0..MaxFaults
  BY OfflineAssumption DEF TypeOK, Fault

LEMMA LookDoes ==
  ASSUME Base, NEW w \in Workers, look(w)
  PROVE  LET o == Current(w)
         IN  /\ Base' /\ Moved(w) /\ job[w].pc = "look" /\ job[w].todo # {} /\ o \in job[w].todo
             /\ \/ Settles(w)
                \/ Goes(w, "write") /\ op[o] = Scan
                \/ Goes(w, "read") /\ o \notin receipts /\ value = op[o].seen
                \/ Goes(w, "receipt")
             /\ UNCHANGED <<op, value, receipts, applied, disturbed, unsettled>>
<1>1. job[w].pc = "look" /\ job[w].todo # {} /\ Current(w) \in job[w].todo
  BY InHand DEF look, AtOp, Base
<1>2. UNCHANGED <<shelf, value, op, device, receipts, applied, history>>
  BY DEF look
<1>3. PICK o : o = Current(w)
  OBVIOUS
<1>4. /\ Moved(w) /\ Sound(job[w])' /\ job'[w].heard = job[w].heard
      /\ \/ Settles(w)
         \/ Goes(w, "write") /\ op[o] = Scan
         \/ Goes(w, "read") /\ o \notin receipts /\ value = op[o].seen
         \/ Goes(w, "receipt")
  <2>1. CASE o \in receipts /\ Settled(w, TRUE)
    BY <1>1, <1>2, <1>3, <2>1, SoundSettled
  <2>2. CASE op[o] = Scan /\ Goto(w, "write", 0)
    BY <1>1, <1>2, <1>3, <2>2, SoundGoes
  <2>3. CASE o \notin receipts /\ op[o] # Scan /\ decide(o, value) = "APPLY" /\ Goto(w, "read", 0)
    <3>1. value = op[o].seen
      BY <2>3, Decides
    <3> QED  BY <1>1, <1>2, <1>3, <2>3, <3>1, SoundGoes
  <2>4. CASE op[o] # Scan /\ Goto(w, "receipt", 0)
    BY <1>1, <1>2, <1>3, <2>4, SoundGoes
  <2>5. CASE Settled(w, FALSE)
    BY <1>1, <1>2, <2>5, SoundSettled
  <2> QED  BY <1>3, <2>1, <2>2, <2>3, <2>4, <2>5 DEF look, alreadyApplied
<1>5. Base'
  BY <1>2, <1>4, BaseServes DEF history, Base, TypeOK
<1> QED  BY <1>1, <1>2, <1>3, <1>4, <1>5 DEF history

LEMMA ReadAgainDoes ==
  ASSUME Base, NEW w \in Workers, readAgain(w)
  PROVE  /\ Base' /\ Moved(w) /\ job[w].pc = "read" /\ job[w].todo # {}
         /\ Current(w) \in job[w].todo /\ op[Current(w)] # Scan
         /\ Settles(w) \/ Goes(w, "write") \/ Goes(w, "receipt")
         /\ UNCHANGED <<op, value, receipts, applied, disturbed, unsettled>>
<1>1. /\ job[w].pc = "read" /\ job[w].todo # {} /\ Current(w) \in job[w].todo
      /\ op[Current(w)] # Scan /\ value \in Nat
  BY InHand DEF readAgain, AtOp, Base, Sound, Current, TypeOK
<1>2. UNCHANGED <<shelf, value, op, device, receipts, applied, history>>
  BY DEF readAgain
<1>3. /\ Moved(w) /\ Sound(job[w])' /\ job'[w].heard = job[w].heard
      /\ Settles(w) \/ Goes(w, "write") \/ Goes(w, "receipt")
  <2>1. CASE Settled(w, FALSE)
    BY <1>1, <1>2, <2>1, SoundSettled
  <2>2. CASE Goto(w, "write", 0)
    BY <1>1, <1>2, <2>2, SoundGoes
  <2>3. CASE Goto(w, "receipt", 0)
    BY <1>1, <1>2, <2>3, SoundGoes
  <2>4. CASE Goto(w, "write", value)
    BY <1>1, <1>2, <2>4, SoundGoes
  <2> QED  BY <2>1, <2>2, <2>3, <2>4 DEF readAgain
<1>4. Base'
  BY <1>2, <1>3, BaseServes DEF history, Base, TypeOK
<1> QED  BY <1>1, <1>2, <1>3, <1>4 DEF history

LEMMA Counted ==
  ASSUME TypeOK, NEW o \in Ops, Count(o)
  PROVE  /\ applied' \in [Ops -> Nat] /\ applied'[o] = applied[o] + 1
         /\ \A x \in Ops : x # o => applied'[x] = applied[x]
  BY DEF TypeOK, Count

LEMMA WriteDoes ==
  ASSUME Base, NEW w \in Workers, write(w)
  PROVE  LET o == Current(w)
         IN  /\ Base' /\ Moved(w) /\ job[w].pc = "write" /\ job[w].todo # {}
             /\ o \in job[w].todo /\ o \in Ops /\ op[o] # Scan
             /\ \/ Settles(w) /\ UNCHANGED <<value, applied>>
                \/ Goes(w, "receipt") /\ applied'[o] = applied[o] + 1
             /\ \A x \in Ops : x # o => applied'[x] = applied[x]
             /\ disturbed' = disturbed \cup Decided(Workers \ {w})
             /\ UNCHANGED <<op, receipts, unsettled>>
<1>1. PICK o : o = Current(w)
  OBVIOUS
<1>2. /\ job[w].pc = "write" /\ job[w].todo # {} /\ o \in job[w].todo /\ o \in Ops
      /\ op[o] # Scan
  BY <1>1, InHand DEF write, AtOp, Base
<1>3. op[o] \in Moves
  BY <1>2 DEF Base, Sound, Recorded, TypeOK, Operations
<1>4. written(w) \in Int /\ (written(w) >= 0 => written(w) \in Nat)
  <2>1. op[o].target \in Nat /\ value \in Nat /\ job[w].read \in Nat
    BY <1>3, Recording, JobTypes DEF Base, TypeOK
  <2> QED  BY <1>1, <2>1 DEF written
<1>5. /\ UNCHANGED <<shelf, op, device, receipts, discarded, overtaken, unsettled, faults>>
      /\ disturbed' = disturbed \cup Decided(Workers \ {w})
  BY DEF write
<1>6. /\ Moved(w) /\ Sound(job[w])' /\ job'[w].heard = job[w].heard
      /\ value' \in Nat /\ applied' \in [Ops -> Nat]
      /\ \/ Settles(w) /\ UNCHANGED <<value, applied>>
         \/ Goes(w, "receipt") /\ applied'[o] = applied[o] + 1
      /\ \A x \in Ops : x # o => applied'[x] = applied[x]
  <2>1. CASE Settled(w, FALSE) /\ UNCHANGED <<value, applied>>
    BY <1>2, <1>5, <2>1, SoundSettled DEF Base, TypeOK
  <2>2. CASE written(w) >= 0 /\ value' = written(w) /\ Count(o) /\ Goto(w, "receipt", 0)
    <3>1. /\ applied' \in [Ops -> Nat] /\ applied'[o] = applied[o] + 1
          /\ \A x \in Ops : x # o => applied'[x] = applied[x]
      BY <1>2, <2>2, Counted DEF Base
    <3>2. Moved(w) /\ Goes(w, "receipt") /\ Sound(job[w])' /\ job'[w].heard = job[w].heard
      BY <1>1, <1>2, <1>5, <2>2, SoundGoes
    <3> QED  BY <1>4, <2>2, <3>1, <3>2
  <2> QED  BY <1>1, <2>1, <2>2 DEF write
<1>7. Decided(Workers \ {w}) \subseteq Ops
  BY DEF Decided
<1>8. Base'
  BY <1>5, <1>6, <1>7, BaseServes DEF Base, TypeOK
<1> QED  BY <1>1, <1>2, <1>5, <1>6, <1>8

LEMMA WriteScanDoes ==
  ASSUME Base, NEW w \in Workers, writeScan(w)
  PROVE  LET o == Current(w)
         IN  /\ Base' /\ Moved(w) /\ Settles(w) /\ o \in job[w].todo /\ o \in Ops /\ op[o] = Scan
             /\ receipts' = receipts \cup {o}
             /\ o \in receipts => applied'[o] = applied[o]
             /\ o \notin receipts => applied'[o] = applied[o] + 1
             /\ \A x \in Ops : x # o => applied'[x] = applied[x]
             /\ UNCHANGED <<op, value, disturbed, unsettled>>
<1>1. PICK o : o = Current(w)
  OBVIOUS
<1>2. job[w].todo # {} /\ o \in job[w].todo /\ o \in Ops /\ op[o] = Scan
  BY <1>1, InHand DEF writeScan, AtOp, Base
<1>3. /\ UNCHANGED <<shelf, value, op, device, history>> /\ receipts' = receipts \cup {o}
  BY <1>1 DEF writeScan
<1>4. /\ applied' \in [Ops -> Nat]
      /\ o \in receipts => applied'[o] = applied[o]
      /\ o \notin receipts => applied'[o] = applied[o] + 1
      /\ \A x \in Ops : x # o => applied'[x] = applied[x]
  <2>1. CASE o \in receipts
    BY <1>1, <2>1 DEF writeScan, Base, TypeOK
  <2>2. CASE o \notin receipts
    <3>1. Count(o)
      BY <1>1, <2>2 DEF writeScan
    <3> QED  BY <1>2, <2>2, <3>1, Counted DEF Base
  <2> QED  BY <2>1, <2>2
<1>5. Settled(w, TRUE)
  BY DEF writeScan
<1>6. Moved(w) /\ Settles(w) /\ Sound(job[w])' /\ job'[w].heard = job[w].heard
  BY <1>1, <1>2, <1>3, <1>5, SoundSettled
<1>7. receipts' \subseteq Ops
  BY <1>2, <1>3 DEF Base, TypeOK
<1>8. Base'
  BY <1>3, <1>4, <1>6, <1>7, BaseServes DEF Base, TypeOK, history
<1> QED  BY <1>1, <1>2, <1>3, <1>4, <1>6, <1>8 DEF history

LEMMA ReceiptDoes ==
  ASSUME Base, NEW w \in Workers, writeReceipt(w) \/ failReceipt(w)
  PROVE  LET o == Current(w)
         IN  /\ Base' /\ Moved(w) /\ Settles(w) /\ job[w].pc = "receipt"
             /\ o \in job[w].todo /\ o \in Ops
             /\ \/ receipts' = receipts \cup {o} /\ unsettled' = unsettled
                \/ receipts' = receipts /\ unsettled' = unsettled \cup {o}
             /\ UNCHANGED <<op, value, applied, disturbed>>
<1>1. PICK o : o = Current(w)
  OBVIOUS
<1>2. job[w].pc = "receipt" /\ job[w].todo # {} /\ o \in job[w].todo /\ o \in Ops
  BY <1>1, InHand DEF writeReceipt, failReceipt, AtOp, Base
<1>3. /\ UNCHANGED <<shelf, value, op, device, applied, discarded, overtaken, disturbed>>
      /\ faults' \in 0..MaxFaults
      /\ \/ receipts' = receipts \cup {o} /\ unsettled' = unsettled
         \/ receipts' = receipts /\ unsettled' = unsettled \cup {o}
  BY <1>1, Faulty DEF writeReceipt, failReceipt, history, Base, TypeOK
<1>4. PICK b \in BOOLEAN : Settled(w, b) /\ (b => receipts' = receipts \cup {o})
  BY <1>1 DEF writeReceipt, failReceipt
<1>5. receipts \subseteq receipts'
  BY <1>3
<1>6. Moved(w) /\ Settles(w) /\ Sound(job[w])' /\ job'[w].heard = job[w].heard
  BY <1>1, <1>2, <1>3, <1>4, <1>5, SoundSettled
<1>7. /\ receipts' \subseteq Ops /\ unsettled' \subseteq Ops /\ disturbed' \subseteq Ops
      /\ applied' \in [Ops -> Nat] /\ value' \in Nat
  BY <1>2, <1>3 DEF Base, TypeOK
<1>8. Base'
  BY <1>3, <1>5, <1>6, <1>7, BaseServes
<1> QED  BY <1>1, <1>2, <1>3, <1>6, <1>8

LEMMA AnswerDoes ==
  ASSUME Base, NEW w \in Workers, answer(w)
  PROVE  /\ Base' /\ Moved(w) /\ job[w].pc = "look" /\ job'[w] = NoJob
         /\ UNCHANGED <<op, value, receipts, applied, disturbed, unsettled>>
<1>1. job[w].pc = "look" /\ Go(w, NoJob)
  BY DEF answer
<1>2. Moved(w) /\ job'[w] = NoJob
  BY <1>1, Nothing, GoesTo DEF Base
<1>3. UNCHANGED <<shelf, value, op, queue, held, receipts, applied, history>> /\ Recorded' = Recorded
  BY DEF answer, Recorded
<1>4. /\ phone' \in Phones /\ Backed'
      /\ \A v \in Workers \ {w} : job[v].heard => phone'.pc = "waiting"
  <2>1. CASE job[w].heard
    <3>1. PICK D, K : D = job[w].done /\ K = job[w].kept
      OBVIOUS
    <3>2. D \in SUBSET Ops /\ K \in SUBSET Ops /\ D \subseteq receipts /\ phone \in Phones
      BY <3>1, JobTypes, PhoneTypes DEF Base, Sound
    <3>3. phone' = [phone EXCEPT !.pc = "queue", !.done = D, !.kept = K]
      BY <2>1, <3>1 DEF answer
    <3>4. phone' \in Phones /\ phone'.pc = "queue" /\ phone'.queue = phone.queue /\ phone'.done = D
      BY <3>2, <3>3 DEF Phones
    <3>5. phone.pc = "waiting" /\ \A v \in Workers \ {w} : ~job[v].heard
      BY <2>1 DEF Base, Hearing
    <3> QED  BY <1>3, <3>2, <3>4, <3>5 DEF Base, Backed, history
  <2>2. CASE ~job[w].heard
    <3>1. phone' = phone
      BY <2>2 DEF answer
    <3> QED  BY <1>3, <3>1, PhoneTypes DEF Base, Backed, Hearing, history
  <2> QED  BY <2>1, <2>2
<1>5. TypeOK'
  BY <1>2, <1>3, <1>4 DEF Base, TypeOK, history, Moved, Jobs, Phones
<1>6. Hearing'
  BY <1>2, <1>4, Nothing DEF Base, Hearing, Moved
<1>7. NothingLost'
  BY <1>3 DEF Base, NothingLost, history
<1>8. ASSUME NEW v \in Workers PROVE Sound(job[v])'
  <2>1. CASE v = w
    BY <1>2, <2>1, Nothing DEF Sound
  <2>2. CASE v # w
    BY <1>2, <1>3, <2>2 DEF Base, Sound, Moved
  <2> QED  BY <2>1, <2>2
<1> QED  BY <1>1, <1>2, <1>3, <1>4, <1>5, <1>6, <1>7, <1>8 DEF Base, history

LEMMA StopDoes ==
  ASSUME Base, NEW w \in Workers, stop(w)
  PROVE  /\ Base' /\ Moved(w) /\ job'[w] = NoJob
         /\ unsettled' = IF AtOp(w, "receipt") THEN unsettled \cup {Current(w)} ELSE unsettled
         /\ UNCHANGED <<op, value, receipts, applied, disturbed>>
<1>1. Go(w, NoJob)
  BY DEF stop
<1>2. Moved(w) /\ job'[w] = NoJob
  BY <1>1, Nothing, GoesTo DEF Base
<1>3. /\ UNCHANGED <<shelf, value, op, queue, held, receipts, applied, discarded, overtaken, disturbed>>
      /\ Recorded' = Recorded
      /\ unsettled' = IF AtOp(w, "receipt") THEN unsettled \cup {Current(w)} ELSE unsettled
  BY DEF stop, Recorded
<1>4. faults' \in 0..MaxFaults /\ unsettled' \subseteq Ops
  <2>1. AtOp(w, "receipt") => Current(w) \in Ops
    BY InHand DEF AtOp, Base
  <2> QED  BY <1>3, <2>1, Faulty DEF stop, Base, TypeOK
<1>5. /\ phone' \in Phones /\ Backed'
      /\ \A v \in Workers \ {w} : job[v].heard => phone'.pc = "waiting"
  <2>1. CASE job[w].heard
    <3>1. phone' = NoPhone
      BY <2>1 DEF stop
    <3>2. \A v \in Workers \ {w} : ~job[v].heard
      BY <2>1 DEF Base, Hearing
    <3> QED  BY <1>3, <3>1, <3>2, Nothing DEF Base, Backed
  <2>2. CASE ~job[w].heard
    <3>1. phone' = phone
      BY <2>2 DEF stop
    <3> QED  BY <1>3, <3>1, PhoneTypes DEF Base, Backed, Hearing
  <2> QED  BY <2>1, <2>2
<1>6. TypeOK'
  BY <1>2, <1>3, <1>4, <1>5 DEF Base, TypeOK, Moved, Jobs, Phones
<1>7. Hearing'
  BY <1>2, <1>5, Nothing DEF Base, Hearing, Moved
<1>8. NothingLost'
  BY <1>3 DEF Base, NothingLost
<1>9. ASSUME NEW v \in Workers PROVE Sound(job[v])'
  <2>1. CASE v = w
    BY <1>2, <2>1, Nothing DEF Sound
  <2>2. CASE v # w
    BY <1>2, <1>3, <2>2 DEF Base, Sound, Moved
  <2> QED  BY <2>1, <2>2
<1> QED  BY <1>2, <1>3, <1>5, <1>6, <1>7, <1>8, <1>9 DEF Base

\* An upload begins.
LEMMA FlushDoes ==
  ASSUME Base, NEW w \in Workers, flush(w)
  PROVE  /\ Base' /\ Moved(w) /\ job[w].pc = "idle"
         /\ job'[w].pc = "look" /\ job'[w].todo = sendable /\ sendable \subseteq Ops
         /\ unsettled' = unsettled \cup {o \in sendable : InProgress(o) # {}}
         /\ UNCHANGED <<op, value, receipts, applied, disturbed>>
<1> DEFINE j == [NoJob EXCEPT !.pc = "look", !.todo = sendable, !.heard = TRUE]
           p == [NoPhone EXCEPT !.pc = "waiting", !.queue = queue, !.held = held]
<1>1. sendable \in SUBSET Ops /\ queue \in SUBSET Ops /\ held \in SUBSET Ops
  BY DEF sendable, Base, TypeOK
<1>2. j \in Jobs /\ j.pc = "look" /\ j.todo = sendable /\ j.done = {} /\ j.heard = TRUE
  BY <1>1 DEF NoJob, Jobs
<1>3. p \in Phones /\ p.pc = "waiting" /\ p.queue = queue /\ p.done = {}
  BY <1>1 DEF NoPhone, Phones
<1>4. /\ Go(w, j) /\ phone' = p /\ job[w].pc = "idle" /\ phone.pc = "idle"
      /\ unsettled' = unsettled \cup {o \in sendable : InProgress(o) # {}}
      /\ UNCHANGED <<shelf, value, op, queue, held, receipts, applied, discarded, overtaken, disturbed, faults>>
  BY DEF flush
<1> HIDE DEF j, p
<1>5. Moved(w) /\ job'[w] = j
  BY <1>2, <1>4, GoesTo DEF Base
<1>6. Recorded' = Recorded /\ sendable \subseteq Recorded
  BY <1>4 DEF Recorded, sendable, Base, Backed
<1>7. TypeOK'
  <2>1. unsettled' \subseteq Ops
    BY <1>1, <1>4 DEF Base, TypeOK
  <2> QED  BY <1>3, <1>4, <1>5, <2>1 DEF Base, TypeOK, Moved, Jobs, Phones
<1>8. Backed' /\ NothingLost'
  BY <1>3, <1>4, <1>6 DEF Base, Backed, NothingLost
<1>9. Hearing'
  <2>1. \A v \in Workers \ {w} : job'[v] = job[v] /\ ~job[v].heard
    BY <1>4, <1>5 DEF Base, Hearing, Moved
  <2> QED  BY <1>3, <1>4, <2>1 DEF Hearing
<1>10. ASSUME NEW v \in Workers PROVE Sound(job[v])'
  <2>1. CASE v = w
    BY <1>2, <1>5, <1>6, <2>1 DEF Sound
  <2>2. CASE v # w
    BY <1>4, <1>5, <1>6, <2>2 DEF Base, Sound, Moved
  <2> QED  BY <2>1, <2>2
<1> QED  BY <1>1, <1>2, <1>4, <1>5, <1>7, <1>8, <1>9, <1>10 DEF Base

\* The uploads go on as they are.
SameWork ==
  /\ \A w \in Workers : job'[w].pc = job[w].pc /\ job'[w].todo = job[w].todo
  /\ UNCHANGED <<receipts, applied, unsettled>>

\* The phone no longer waits.
LEMMA GivingUpDoes ==
  ASSUME Base, giveUp \/ closeApp
  PROVE  Base' /\ SameWork /\ UNCHANGED <<op, value, disturbed>>
<1>1. /\ phone' = NoPhone
      /\ job' = [w \in Workers |-> [job[w] EXCEPT !.heard = FALSE, !.done = {}, !.kept = {}]]
      /\ UNCHANGED <<shelf, value, op, queue, held, receipts, applied, discarded, overtaken, disturbed, unsettled>>
  BY DEF giveUp, closeApp
<1>2. faults' \in 0..MaxFaults
  BY Faulty DEF giveUp, closeApp, Base
<1>3. ASSUME NEW w \in Workers
      PROVE  /\ job'[w] \in Jobs /\ job'[w].pc = job[w].pc /\ job'[w].todo = job[w].todo
             /\ job'[w].done = {} /\ job'[w].heard = FALSE
  <2>1. job[w] \in Jobs
    BY JobTypes DEF Base
  <2> QED  BY <1>1, <2>1 DEF Jobs
<1>4. job' \in [Workers -> Jobs]
  BY <1>1, <1>3
<1>5. Recorded' = Recorded
  BY <1>1 DEF Recorded
<1>6. TypeOK'
  BY <1>1, <1>2, <1>4, Nothing DEF Base, TypeOK, Jobs, Phones
<1>7. Backed' /\ NothingLost' /\ Hearing'
  BY <1>1, <1>3, <1>5, Nothing DEF Base, Backed, NothingLost, Hearing
<1>8. \A w \in Workers : Sound(job[w])'
  BY <1>1, <1>3, <1>5 DEF Base, Sound
<1> QED  BY <1>1, <1>3, <1>6, <1>7, <1>8 DEF Base, SameWork

\* A step of the phone that the uploads do not see.
LEMMA BasePhone ==
  ASSUME Base, UNCHANGED <<shelf, value, op, job, receipts, applied, disturbed, unsettled, faults>>,
         queue' \subseteq Ops, held' \subseteq Ops, phone' \in Phones, discarded' \subseteq Ops,
         overtaken' = overtaken, Backed', NothingLost',
         \A w \in Workers : job[w].heard => phone'.pc = "waiting"
  PROVE  Base' /\ SameWork
<1>1. TypeOK'
  BY DEF Base, TypeOK, Phones
<1>2. Hearing'
  BY DEF Base, Hearing
<1>3. \A w \in Workers : Sound(job[w])'
  BY DEF Base, Sound, Recorded
<1> QED  BY <1>1, <1>2, <1>3 DEF Base, SameWork

LEMMA SavingDoes ==
  ASSUME Base, saveQueue \/ saveOutcomes \/ \E o \in Ops : discard(o)
  PROVE  Base' /\ SameWork /\ UNCHANGED <<op, value, disturbed>>
<1>1. /\ UNCHANGED <<shelf, value, op, job, receipts, applied, overtaken, disturbed, unsettled, faults>>
      /\ Recorded' = Recorded
  BY DEF saveQueue, saveOutcomes, discard, history, Recorded
<1>2. CASE saveQueue
  <2>1. /\ phone.pc = "queue" /\ queue' = phone.queue \ phone.done /\ held' = held
        /\ phone' = [phone EXCEPT !.pc = "outcomes"] /\ discarded' = discarded
    BY <1>2 DEF saveQueue, operationsToRetain, history
  <2>2. /\ phone' \in Phones /\ phone'.pc = "outcomes" /\ phone'.queue = phone.queue
        /\ phone'.done = phone.done
    BY <2>1, PhoneTypes DEF Base, Phones
  <2>3. queue' \subseteq Ops /\ held' \subseteq Ops /\ discarded' \subseteq Ops
    BY <2>1, PhoneTypes DEF Base, TypeOK
  <2>4. Backed' /\ NothingLost'
    BY <1>1, <2>1, <2>2 DEF Base, Backed, NothingLost
  <2>5. \A w \in Workers : ~job[w].heard
    BY <2>1 DEF Base, Hearing
  <2> QED  BY <1>1, <2>2, <2>3, <2>4, <2>5, BasePhone
<1>3. CASE saveOutcomes
  <2>1. /\ phone.pc = "outcomes" /\ held' = outcomes /\ phone' = NoPhone
        /\ UNCHANGED <<queue, discarded>>
    BY <1>3 DEF saveOutcomes, history
  <2>2. queue' \subseteq Ops /\ held' \subseteq Ops /\ discarded' \subseteq Ops
    BY <2>1, PhoneTypes DEF Base, TypeOK, outcomes
  <2>3. Backed' /\ NothingLost'
    BY <1>1, <2>1, Nothing DEF Base, Backed, NothingLost
  <2>4. \A w \in Workers : ~job[w].heard
    BY <2>1 DEF Base, Hearing
  <2> QED  BY <1>1, <2>1, <2>2, <2>3, <2>4, Nothing, BasePhone
<1>4. CASE \E o \in Ops : discard(o)
  <2>1. PICK o \in Ops : discard(o)
    BY <1>4
  <2>2. /\ queue' = queue \ {o} /\ held' = held \ {o} /\ discarded' = discarded \cup {o}
        /\ phone' = phone
    BY <2>1 DEF discard
  <2>3. queue' \subseteq Ops /\ held' \subseteq Ops /\ discarded' \subseteq Ops /\ phone' \in Phones
    BY <2>2, PhoneTypes DEF Base, TypeOK
  <2>4. Backed' /\ NothingLost'
    BY <1>1, <2>2 DEF Base, Backed, NothingLost
  <2> QED  BY <1>1, <2>2, <2>3, <2>4, BasePhone DEF Base, Hearing
<1> QED  BY <1>1, <1>2, <1>3, <1>4

LEMMA RecordDoes ==
  ASSUME Base, NEW o \in Ops, record(o)
  PROVE  /\ Base' /\ SameWork /\ o \notin Recorded /\ \A x \in Ops : x # o => op'[x] = op[x]
         /\ UNCHANGED <<value, disturbed>>
<1>1. PICK what \in Operations : op' = [op EXCEPT ![o] = what]
  BY DEF record
<1>2. /\ o \notin Recorded /\ queue' = queue \cup {o}
      /\ overtaken' = IF phone.pc \in {"waiting", "queue"} THEN overtaken \cup {o} ELSE overtaken
      /\ UNCHANGED <<shelf, value, held, phone, job, receipts, applied, discarded, disturbed, unsettled, faults>>
  BY DEF record, Unrecorded
<1>3. op' \in [Ops -> Operations \cup {None}] /\ op'[o] = what /\ \A x \in Ops : x # o => op'[x] = op[x]
  BY <1>1 DEF Base, TypeOK
<1>4. Recorded' = Recorded \cup {o}
  BY <1>3, Recording DEF Recorded
<1>5. TypeOK'
  BY <1>2, <1>3 DEF Base, TypeOK
<1>6. Backed' /\ NothingLost' /\ Hearing'
  BY <1>2, <1>4 DEF Base, Backed, NothingLost, Hearing
<1>7. ASSUME NEW w \in Workers PROVE Sound(job[w])'
  <2>1. Sound(job[w]) /\ job'[w] = job[w]
    BY <1>2 DEF Base
  <2>2. CASE job[w].todo = {}
    BY <1>2, <1>4, <2>1, <2>2 DEF Sound
  <2>3. CASE job[w].todo # {}
    <3>1. Current(w) \in job[w].todo /\ Current(w) \in Ops
      BY <2>3, InHand DEF Base
    <3>2. op'[Current(w)] = op[Current(w)]
      BY <1>2, <1>3, <2>1, <3>1 DEF Sound
    <3> QED  BY <1>2, <1>4, <2>1, <3>2 DEF Sound, Current
  <2> QED  BY <2>2, <2>3
<1> QED  BY <1>2, <1>3, <1>5, <1>6, <1>7 DEF Base, SameWork

LEMMA OthersDo ==
  ASSUME Base, others
  PROVE  Base' /\ SameWork /\ op' = op /\ disturbed' = disturbed \cup Decided(Workers)
<1>1. /\ UNCHANGED <<shelf, op, device, job, receipts, applied, discarded, overtaken, unsettled, faults>>
      /\ disturbed' = disturbed \cup Decided(Workers) /\ value' \in Values
  BY DEF others
<1>2. value' \in Nat /\ disturbed' \subseteq Ops /\ UNCHANGED <<queue, held, phone>>
  BY <1>1, OfflineAssumption DEF Values, Decided, Base, TypeOK, device
<1>3. TypeOK'
  BY <1>1, <1>2 DEF Base, TypeOK
<1>4. Backed' /\ NothingLost' /\ Hearing' /\ \A w \in Workers : Sound(job[w])'
  BY <1>1, <1>2 DEF Base, Backed, NothingLost, Hearing, Sound, Recorded
<1> QED  BY <1>1, <1>3, <1>4 DEF Base, SameWork

LEMMA StutterDoes ==
  ASSUME Base, UNCHANGED vars
  PROVE  Base' /\ SameWork /\ UNCHANGED <<op, value, disturbed>>
<1>1. UNCHANGED <<shelf, value, op, queue, held, phone, job, receipts, applied, discarded,
                  overtaken, disturbed, unsettled, faults>>
  BY DEF vars, device, history
<1>2. TypeOK'
  BY <1>1 DEF Base, TypeOK
<1>3. Backed' /\ NothingLost' /\ Hearing' /\ \A w \in Workers : Sound(job[w])'
  BY <1>1 DEF Base, Backed, NothingLost, Hearing, Sound, Recorded
<1> QED  BY <1>1, <1>2, <1>3 DEF Base, SameWork

LEMMA BaseInit ==
  ASSUME Init
  PROVE  Base
<1>1. \A w \in Workers : job[w] = NoJob
  BY DEF Init
<1>2. TypeOK
  BY OfflineAssumption, Nothing DEF Init, TypeOK, Values, Jobs, Phones
<1>3. Recorded = {}
  BY DEF Init, Recorded
<1>4. Backed /\ Hearing /\ NothingLost
  BY <1>1, <1>3, Nothing DEF Init, Backed, Hearing, NothingLost
<1>5. \A w \in Workers : Sound(job[w])
  BY <1>1, Nothing DEF Sound
<1> QED  BY <1>2, <1>4, <1>5 DEF Base

LEMMA BaseStep ==
  ASSUME Base, [Next]_vars
  PROVE  Base'
<1>1. ASSUME NEW w \in Workers, flush(w) \/ look(w) \/ readAgain(w) \/ write(w) PROVE Base'
  BY <1>1, FlushDoes, LookDoes, ReadAgainDoes, WriteDoes
<1>2. ASSUME NEW w \in Workers, writeScan(w) \/ writeReceipt(w) \/ failReceipt(w) PROVE Base'
  BY <1>2, WriteScanDoes, ReceiptDoes
<1>3. ASSUME NEW w \in Workers, answer(w) \/ stop(w) PROVE Base'
  BY <1>3, AnswerDoes, StopDoes
<1>4. ASSUME NEW o \in Ops, record(o) \/ discard(o) PROVE Base'
  BY <1>4, RecordDoes, SavingDoes
<1>5. CASE saveQueue \/ saveOutcomes \/ giveUp \/ closeApp
  BY <1>5, SavingDoes, GivingUpDoes
<1>6. CASE others \/ UNCHANGED vars
  BY <1>6, OthersDo, StutterDoes
<1> QED  BY <1>1, <1>2, <1>3, <1>4, <1>5, <1>6 DEF Next

-----------------------------------------------------------------------------
(* What is decided holds of what is there *)

Deciding(w) == job[w].pc \in {"read", "write"} /\ op[Current(w)] # Scan

Met(w) == Deciding(w) => value = op[Current(w)].seen \/ Current(w) \in disturbed

Meeting == \A w \in Workers : Met(w)

LEMMA DecidedAre ==
  ASSUME Base, NEW w \in Workers, Deciding(w)
  PROVE  /\ job[w].todo # {} /\ Current(w) \in job[w].todo /\ Current(w) \in Ops
         /\ op[Current(w)] \in Moves
         /\ \A W : w \in W => Current(w) \in Decided(W)
<1>1. job[w].todo # {}
  BY DEF Deciding, Base, Sound
<1>2. Current(w) \in job[w].todo /\ Current(w) \in Ops
  BY <1>1, InHand DEF Base
<1>3. op[Current(w)] \in Moves
  BY <1>2 DEF Deciding, Base, Sound, Recorded, TypeOK, Operations
<1> QED  BY <1>1, <1>2, <1>3 DEF Deciding, Decided

\* An upload that did not move decides on what it did.
LEMMA DecidingStays ==
  ASSUME Base, NEW v \in Workers, job'[v].pc = job[v].pc, job'[v].todo = job[v].todo,
         \A x \in Recorded : op'[x] = op[x]
  PROVE  /\ Current(v)' = Current(v)
         /\ Deciding(v)' => Deciding(v) /\ op'[Current(v)] = op[Current(v)]
<1>1. Current(v)' = Current(v)
  BY DEF Current
<1>2. job[v].pc \in {"read", "write"} => Current(v) \in Recorded
  BY InHand DEF Base, Sound
<1> QED  BY <1>1, <1>2 DEF Deciding

LEMMA MetStays ==
  ASSUME Base, Meeting, NEW v \in Workers, job'[v].pc = job[v].pc, job'[v].todo = job[v].todo,
         \A x \in Recorded : op'[x] = op[x], disturbed \subseteq disturbed',
         Deciding(v) => value' = value \/ Current(v) \in disturbed'
  PROVE  Met(v)'
  BY DecidingStays DEF Meeting, Met

LEMMA MeetingServes ==
  ASSUME Base, Meeting, NEW w \in Workers, Moved(w), op' = op, disturbed \subseteq disturbed',
         \A v \in Workers \ {w} : Deciding(v) => value' = value \/ Current(v) \in disturbed',
         Met(w)'
  PROVE  Meeting'
<1>1. ASSUME NEW v \in Workers PROVE Met(v)'
  <2>1. CASE v = w
    BY <2>1
  <2>2. CASE v # w
    BY <2>2, MetStays DEF Moved
  <2> QED  BY <2>1, <2>2
<1> QED  BY <1>1 DEF Meeting

LEMMA MeetingSameWork ==
  ASSUME Base, Meeting, SameWork, \A x \in Recorded : op'[x] = op[x], disturbed \subseteq disturbed',
         \A v \in Workers : Deciding(v) => value' = value \/ Current(v) \in disturbed'
  PROVE  Meeting'
  BY MetStays DEF Meeting, SameWork

LEMMA MeetingLook ==
  ASSUME Base, Meeting, NEW w \in Workers, look(w) \/ readAgain(w)
  PROVE  Meeting'
<1>1. CASE look(w)
  <2>1. /\ Moved(w)
        /\ \/ Settles(w)
           \/ Goes(w, "write") /\ op[Current(w)] = Scan
           \/ Goes(w, "read") /\ value = op[Current(w)].seen
           \/ Goes(w, "receipt")
        /\ UNCHANGED <<op, value, disturbed>>
    BY <1>1, LookDoes
  <2>2. Met(w)'
    BY <2>1 DEF Met, Deciding, Settles, Goes, Current
  <2> QED  BY <2>1, <2>2, MeetingServes
<1>2. CASE readAgain(w)
  <2>1. /\ Moved(w) /\ job[w].pc = "read" /\ op[Current(w)] # Scan
        /\ Settles(w) \/ Goes(w, "write") \/ Goes(w, "receipt")
        /\ UNCHANGED <<op, value, disturbed>>
    BY <1>2, ReadAgainDoes
  <2>2. value = op[Current(w)].seen \/ Current(w) \in disturbed
    BY <2>1 DEF Meeting, Met, Deciding
  <2>3. Met(w)'
    BY <2>1, <2>2 DEF Met, Deciding, Settles, Goes, Current
  <2> QED  BY <2>1, <2>3, MeetingServes
<1> QED  BY <1>1, <1>2

LEMMA MeetingWrite ==
  ASSUME Base, Meeting, NEW w \in Workers, write(w)
  PROVE  Meeting'
<1>1. /\ Moved(w) /\ op' = op /\ disturbed' = disturbed \cup Decided(Workers \ {w})
      /\ Settles(w) \/ Goes(w, "receipt")
  BY WriteDoes
<1>2. Met(w)'
  BY <1>1 DEF Met, Deciding, Settles, Goes
<1>3. \A v \in Workers \ {w} : Deciding(v) => Current(v) \in disturbed'
  BY <1>1, DecidedAre
<1> QED  BY <1>1, <1>2, <1>3, MeetingServes

LEMMA MeetingOther ==
  ASSUME Base, Meeting, NEW w \in Workers,
         flush(w) \/ writeScan(w) \/ writeReceipt(w) \/ failReceipt(w) \/ answer(w) \/ stop(w)
  PROVE  Meeting'
<1>1. /\ Moved(w) /\ job'[w].pc \in {"idle", "look"} /\ UNCHANGED <<op, value, disturbed>>
  <2>1. CASE flush(w)
    BY <2>1, FlushDoes
  <2>2. CASE writeScan(w)
    BY <2>2, WriteScanDoes DEF Settles
  <2>3. CASE writeReceipt(w) \/ failReceipt(w)
    BY <2>3, ReceiptDoes DEF Settles
  <2>4. CASE answer(w)
    BY <2>4, AnswerDoes, Nothing
  <2>5. CASE stop(w)
    BY <2>5, StopDoes, Nothing
  <2> QED  BY <2>1, <2>2, <2>3, <2>4, <2>5
<1>2. Met(w)'
  BY <1>1 DEF Met, Deciding
<1> QED  BY <1>1, <1>2, MeetingServes

LEMMA MeetingInit ==
  ASSUME Init
  PROVE  Meeting
<1>1. \A w \in Workers : job[w] = NoJob
  BY DEF Init
<1> QED  BY <1>1, Nothing DEF Meeting, Met, Deciding

LEMMA MeetingStep ==
  ASSUME Base, Meeting, [Next]_vars
  PROVE  Meeting'
<1>1. ASSUME NEW w \in Workers, look(w) \/ readAgain(w) \/ write(w) PROVE Meeting'
  BY <1>1, MeetingLook, MeetingWrite
<1>2. ASSUME NEW w \in Workers, flush(w) \/ writeScan(w) \/ writeReceipt(w) \/ failReceipt(w)
      PROVE  Meeting'
  BY <1>2, MeetingOther
<1>3. ASSUME NEW w \in Workers, answer(w) \/ stop(w) PROVE Meeting'
  BY <1>3, MeetingOther
<1>4. ASSUME NEW o \in Ops, record(o) PROVE Meeting'
  <2>1. /\ SameWork /\ o \notin Recorded /\ \A x \in Ops : x # o => op'[x] = op[x]
        /\ UNCHANGED <<value, disturbed>>
    BY <1>4, RecordDoes
  <2>2. \A x \in Recorded : op'[x] = op[x]
    BY <2>1 DEF Recorded
  <2> QED  BY <2>1, <2>2, MeetingSameWork
<1>5. CASE saveQueue \/ saveOutcomes \/ giveUp \/ closeApp \/ UNCHANGED vars \/ \E o \in Ops : discard(o)
  BY <1>5, SavingDoes, GivingUpDoes, StutterDoes, MeetingSameWork
<1>6. CASE others
  <2>1. SameWork /\ op' = op /\ disturbed' = disturbed \cup Decided(Workers)
    BY <1>6, OthersDo
  <2>2. \A v \in Workers : Deciding(v) => Current(v) \in disturbed'
    BY <2>1, DecidedAre
  <2> QED  BY <2>1, <2>2, MeetingSameWork
<1> QED  BY <1>1, <1>2, <1>3, <1>4, <1>5, <1>6 DEF Next

-----------------------------------------------------------------------------
(* How often an operation is applied *)

Sole ==
  \A o \in Ops \ unsettled, w, v \in Workers : o \in job[w].todo /\ o \in job[v].todo => w = v

\* Applied, with its receipt still to be written.
Applying(w, o) == job[w].pc = "receipt" /\ Current(w) = o

Once ==
  \A o \in Ops \ unsettled :
    \/ applied[o] = 0
    \/ applied[o] = 1 /\ (o \in receipts \/ \E w \in Workers : Applying(w, o))

UnappliedAt(w) == Deciding(w) /\ Current(w) \notin unsettled => applied[Current(w)] = 0

Repeating == Sole /\ Once /\ \A w \in Workers : UnappliedAt(w)

LEMMA ApplyingIs ==
  ASSUME Base, NEW w \in Workers, NEW o, Applying(w, o)
  PROVE  o \in job[w].todo /\ o \in Ops /\ op[o] # Scan
<1>1. job[w].todo # {} /\ op[o] # Scan
  BY DEF Applying, Base, Sound, Current
<1> QED  BY <1>1, InHand DEF Applying, Base

\* What the other uploads do with an operation.
LEMMA ApplyingStays ==
  ASSUME NEW v \in Workers, job'[v].pc = job[v].pc, job'[v].todo = job[v].todo
  PROVE  \A o : Applying(v, o)' <=> Applying(v, o)
  BY DEF Applying, Current

\* One upload goes on with what it has.
LEMMA RepeatingServes ==
  ASSUME Base, Repeating, NEW w \in Workers, Moved(w), op' = op, unsettled \subseteq unsettled',
         job'[w].todo \subseteq job[w].todo, Once', UnappliedAt(w)',
         \A v \in Workers \ {w} :
           Deciding(v) /\ Current(v) \notin unsettled => applied'[Current(v)] = applied[Current(v)]
  PROVE  Repeating'
<1>1. Sole'
  BY DEF Repeating, Sole, Moved
<1>2. ASSUME NEW v \in Workers PROVE UnappliedAt(v)'
  <2>1. CASE v = w
    BY <2>1
  <2>2. CASE v # w
    BY <2>2, DecidingStays DEF Repeating, UnappliedAt, Moved
  <2> QED  BY <2>1, <2>2
<1> QED  BY <1>1, <1>2 DEF Repeating

\* ... and is not between a change and its receipt.
LEMMA OnceServes ==
  ASSUME Repeating, NEW w \in Workers, Moved(w), unsettled \subseteq unsettled',
         receipts \subseteq receipts', applied' = applied,
         \A o : Applying(w, o) => o \in receipts' \/ o \in unsettled'
  PROVE  Once'
<1>1. ASSUME NEW o \in Ops \ unsettled'
      PROVE  applied'[o] = 0 \/ (applied'[o] = 1 /\ (o \in receipts' \/ \E v \in Workers : Applying(v, o)'))
  <2>1. applied[o] = 0 \/ (applied[o] = 1 /\ (o \in receipts \/ \E v \in Workers : Applying(v, o)))
    BY DEF Repeating, Once
  <2>2. CASE applied[o] = 0 \/ o \in receipts
    BY <2>1, <2>2
  <2>3. CASE applied[o] = 1 /\ \E v \in Workers : Applying(v, o)
    <3>1. PICK v \in Workers : Applying(v, o)
      BY <2>3
    <3>2. CASE v = w
      BY <2>3, <3>1, <3>2
    <3>3. CASE v # w
      BY <2>3, <3>1, <3>3, ApplyingStays DEF Moved
    <3> QED  BY <3>2, <3>3
  <2> QED  BY <2>1, <2>2, <2>3
<1> QED  BY <1>1 DEF Once

LEMMA RepeatingLook ==
  ASSUME Base, Repeating, NEW w \in Workers, look(w)
  PROVE  Repeating'
<1>1. PICK o : o = Current(w)
  OBVIOUS
<1>2. /\ Moved(w) /\ job[w].pc = "look" /\ o \in job[w].todo
      /\ \/ Settles(w)
         \/ Goes(w, "write") /\ op[o] = Scan
         \/ Goes(w, "read") /\ o \notin receipts
         \/ Goes(w, "receipt")
      /\ UNCHANGED <<op, value, receipts, applied, disturbed, unsettled>>
  BY <1>1, LookDoes
<1>3. Once'
  BY <1>2, OnceServes DEF Applying
<1>4. UnappliedAt(w)'
  <2>1. CASE Goes(w, "read") /\ o \notin receipts
    <3>1. Current(w)' = o
      BY <1>1, <2>1 DEF Current, Goes
    <3>2. ASSUME o \notin unsettled PROVE applied[o] = 0
      <4>1. o \in Ops
        BY <1>2, JobTypes DEF Base
      <4>2. ASSUME NEW v \in Workers, Applying(v, o) PROVE FALSE
        <5>1. o \in job[v].todo /\ job[v].pc = "receipt"
          BY <4>2, ApplyingIs DEF Applying
        <5> QED  BY <1>2, <3>2, <4>1, <5>1 DEF Repeating, Sole
      <4> QED  BY <2>1, <3>2, <4>1, <4>2 DEF Repeating, Once
    <3> QED  BY <1>2, <3>1, <3>2 DEF UnappliedAt
  <2>2. CASE Goes(w, "write") /\ op[o] = Scan
    BY <1>1, <1>2, <2>2 DEF UnappliedAt, Deciding, Goes, Current
  <2>3. CASE Settles(w) \/ Goes(w, "receipt")
    BY <2>3 DEF UnappliedAt, Deciding, Goes, Settles
  <2> QED  BY <1>2, <2>1, <2>2, <2>3
<1> QED  BY <1>2, <1>3, <1>4, RepeatingServes DEF Settles, Goes

LEMMA RepeatingReadAgain ==
  ASSUME Base, Repeating, NEW w \in Workers, readAgain(w)
  PROVE  Repeating'
<1>1. /\ Moved(w) /\ job[w].pc = "read" /\ op[Current(w)] # Scan
      /\ Settles(w) \/ Goes(w, "write") \/ Goes(w, "receipt")
      /\ UNCHANGED <<op, value, receipts, applied, disturbed, unsettled>>
  BY ReadAgainDoes
<1>2. Once'
  BY <1>1, OnceServes DEF Applying
<1>3. Current(w) \notin unsettled => applied[Current(w)] = 0
  BY <1>1 DEF Repeating, UnappliedAt, Deciding
<1>4. UnappliedAt(w)'
  BY <1>1, <1>3 DEF UnappliedAt, Deciding, Goes, Settles, Current
<1> QED  BY <1>1, <1>2, <1>4, RepeatingServes DEF Settles, Goes

LEMMA RepeatingWrite ==
  ASSUME Base, Repeating, NEW w \in Workers, write(w)
  PROVE  Repeating'
<1>1. PICK o : o = Current(w)
  OBVIOUS
<1>2. /\ Moved(w) /\ job[w].pc = "write" /\ o \in job[w].todo /\ o \in Ops /\ op[o] # Scan
      /\ \/ Settles(w) /\ applied' = applied
         \/ Goes(w, "receipt") /\ applied'[o] = applied[o] + 1
      /\ \A x \in Ops : x # o => applied'[x] = applied[x]
      /\ UNCHANGED <<op, receipts, unsettled>>
  BY <1>1, WriteDoes
<1>3. UnappliedAt(w)'
  BY <1>2 DEF UnappliedAt, Deciding, Settles, Goes
<1>4. CASE Settles(w) /\ applied' = applied
  <2>1. Once'
    BY <1>2, <1>4, OnceServes DEF Applying
  <2> QED  BY <1>2, <1>3, <1>4, <2>1, RepeatingServes DEF Settles
<1>5. CASE Goes(w, "receipt") /\ applied'[o] = applied[o] + 1
  <2>1. Applying(w, o)'
    BY <1>1, <1>5 DEF Applying, Goes, Current
  <2>2. o \notin unsettled => applied[o] = 0
    BY <1>1, <1>2 DEF Repeating, UnappliedAt, Deciding
  <2>3. ASSUME NEW x \in Ops \ unsettled
        PROVE  applied'[x] = 0 \/ (applied'[x] = 1 /\ (x \in receipts \/ \E v \in Workers : Applying(v, x)'))
    <3>1. CASE x = o
      BY <1>5, <2>1, <2>2, <2>3, <3>1
    <3>2. CASE x # o
      <4>1. applied'[x] = applied[x]
        BY <1>2, <3>2
      <4>2. \A v \in Workers : Applying(v, x) => v # w
        BY <1>2 DEF Applying
      <4>3. \A v \in Workers : Applying(v, x) => Applying(v, x)'
        BY <1>2, <4>2, ApplyingStays DEF Moved
      <4> QED  BY <4>1, <4>3 DEF Repeating, Once
    <3> QED  BY <3>1, <3>2
  <2>4. Once'
    BY <1>2, <2>3 DEF Once
  <2>5. ASSUME NEW v \in Workers \ {w}, Deciding(v), Current(v) \notin unsettled
        PROVE  applied'[Current(v)] = applied[Current(v)]
    <3>1. Current(v) \in job[v].todo /\ Current(v) \in Ops
      BY <2>5, DecidedAre
    <3>2. Current(v) # o
      BY <1>2, <2>5, <3>1 DEF Repeating, Sole
    <3> QED  BY <1>2, <3>1, <3>2
  <2> QED  BY <1>2, <1>3, <1>5, <2>4, <2>5, RepeatingServes DEF Goes
<1> QED  BY <1>2, <1>4, <1>5

LEMMA RepeatingScan ==
  ASSUME Base, Repeating, NEW w \in Workers, writeScan(w)
  PROVE  Repeating'
<1>1. PICK o : o = Current(w)
  OBVIOUS
<1>2. /\ Moved(w) /\ Settles(w) /\ o \in job[w].todo /\ o \in Ops /\ op[o] = Scan
      /\ receipts' = receipts \cup {o}
      /\ o \in receipts => applied'[o] = applied[o]
      /\ o \notin receipts => applied'[o] = applied[o] + 1
      /\ \A x \in Ops : x # o => applied'[x] = applied[x]
      /\ UNCHANGED <<op, value, disturbed, unsettled>>
  BY <1>1, WriteScanDoes
<1>3. \A v \in Workers : ~Applying(v, o)
  BY <1>2, ApplyingIs
<1>4. ASSUME NEW x \in Ops \ unsettled
      PROVE  applied'[x] = 0 \/ (applied'[x] = 1 /\ (x \in receipts' \/ \E v \in Workers : Applying(v, x)'))
  <2>1. applied[x] = 0 \/ (applied[x] = 1 /\ (x \in receipts \/ \E v \in Workers : Applying(v, x)))
    BY DEF Repeating, Once
  <2>2. CASE x = o
    BY <1>2, <1>3, <2>1, <2>2
  <2>3. CASE x # o
    <3>1. \A v \in Workers : Applying(v, x) => v # w
      BY <1>1, <2>3 DEF Applying
    <3>2. \A v \in Workers : Applying(v, x) => Applying(v, x)'
      BY <1>2, <3>1, ApplyingStays DEF Moved
    <3> QED  BY <1>2, <2>1, <2>3, <3>2
  <2> QED  BY <2>2, <2>3
<1>5. Once'
  BY <1>2, <1>4 DEF Once
<1>6. UnappliedAt(w)'
  BY <1>2 DEF UnappliedAt, Deciding, Settles
<1>7. ASSUME NEW v \in Workers \ {w}, Deciding(v)
      PROVE  applied'[Current(v)] = applied[Current(v)]
  <2>1. Current(v) \in Ops /\ Current(v) # o
    BY <1>2, <1>7, DecidedAre DEF Deciding
  <2> QED  BY <1>2, <2>1
<1> QED  BY <1>2, <1>5, <1>6, <1>7, RepeatingServes DEF Settles

LEMMA RepeatingSettled ==
  ASSUME Base, Repeating, NEW w \in Workers,
         writeReceipt(w) \/ failReceipt(w) \/ answer(w) \/ stop(w)
  PROVE  Repeating'
<1>1. /\ Moved(w) /\ op' = op /\ unsettled \subseteq unsettled' /\ receipts \subseteq receipts'
      /\ applied' = applied /\ job'[w].pc \in {"idle", "look"} /\ job'[w].todo \subseteq job[w].todo
      /\ \A o : Applying(w, o) => o \in receipts' \/ o \in unsettled'
  <2>1. CASE writeReceipt(w) \/ failReceipt(w)
    BY <2>1, ReceiptDoes DEF Settles, Applying
  <2>2. CASE answer(w)
    BY <2>2, AnswerDoes, Nothing DEF Applying
  <2>3. CASE stop(w)
    <3>1. /\ Moved(w) /\ job'[w] = NoJob
          /\ unsettled' = IF AtOp(w, "receipt") THEN unsettled \cup {Current(w)} ELSE unsettled
          /\ UNCHANGED <<op, receipts, applied>>
      BY <2>3, StopDoes
    <3>2. ASSUME NEW o, Applying(w, o) PROVE o \in unsettled'
      <4>1. AtOp(w, "receipt") /\ o = Current(w)
        BY <3>2, ApplyingIs DEF Applying, AtOp
      <4> QED  BY <3>1, <4>1
    <3> QED  BY <3>1, <3>2, Nothing
  <2> QED  BY <2>1, <2>2, <2>3
<1>2. Once'
  BY <1>1, OnceServes
<1>3. UnappliedAt(w)'
  BY <1>1 DEF UnappliedAt, Deciding
<1> QED  BY <1>1, <1>2, <1>3, RepeatingServes

LEMMA RepeatingFlush ==
  ASSUME Base, Repeating, NEW w \in Workers, flush(w)
  PROVE  Repeating'
<1>1. /\ Moved(w) /\ job[w].pc = "idle" /\ job'[w].pc = "look" /\ job'[w].todo = sendable
      /\ unsettled' = unsettled \cup {o \in sendable : InProgress(o) # {}}
      /\ UNCHANGED <<op, value, receipts, applied, disturbed>>
  BY FlushDoes
<1>2. ASSUME NEW o \in Ops \ unsettled', NEW u \in Workers, NEW v \in Workers,
             o \in job'[u].todo, o \in job'[v].todo
      PROVE  u = v
  <2>1. o \in sendable => \A x \in Workers : o \notin job[x].todo
    BY <1>1, <1>2 DEF InProgress
  <2>2. CASE u # w /\ v # w
    BY <1>1, <1>2, <2>2 DEF Repeating, Sole, Moved
  <2>3. CASE u = w /\ v # w
    BY <1>1, <1>2, <2>1, <2>3 DEF Moved
  <2>4. CASE v = w /\ u # w
    BY <1>1, <1>2, <2>1, <2>4 DEF Moved
  <2> QED  BY <2>2, <2>3, <2>4
<1>3. Sole'
  BY <1>2 DEF Sole
<1>4. Once'
  BY <1>1, OnceServes DEF Applying
<1>5. ASSUME NEW v \in Workers PROVE UnappliedAt(v)'
  <2>1. CASE v = w
    BY <1>1, <2>1 DEF UnappliedAt, Deciding
  <2>2. CASE v # w
    BY <1>1, <2>2, DecidingStays DEF Repeating, UnappliedAt, Moved
  <2> QED  BY <2>1, <2>2
<1> QED  BY <1>3, <1>4, <1>5 DEF Repeating

LEMMA RepeatingSameWork ==
  ASSUME Base, Repeating, SameWork, \A x \in Recorded : op'[x] = op[x]
  PROVE  Repeating'
<1>1. Sole'
  BY DEF SameWork, Repeating, Sole
<1>2. \A v \in Workers : \A o : Applying(v, o)' <=> Applying(v, o)
  BY ApplyingStays DEF SameWork
<1>3. Once'
  BY <1>2 DEF SameWork, Repeating, Once
<1>4. \A v \in Workers : UnappliedAt(v)'
  BY DecidingStays DEF SameWork, Repeating, UnappliedAt
<1> QED  BY <1>1, <1>3, <1>4 DEF Repeating

LEMMA RepeatingInit ==
  ASSUME Init
  PROVE  Repeating
<1>1. \A w \in Workers : job[w] = NoJob
  BY DEF Init
<1>2. \A o \in Ops : applied[o] = 0
  BY DEF Init
<1> QED  BY <1>1, <1>2, Nothing DEF Repeating, Sole, Once, UnappliedAt, Deciding

LEMMA RepeatingStep ==
  ASSUME Base, Repeating, [Next]_vars
  PROVE  Repeating'
<1>1. ASSUME NEW w \in Workers, flush(w) \/ look(w) \/ readAgain(w) \/ write(w) PROVE Repeating'
  BY <1>1, RepeatingFlush, RepeatingLook, RepeatingReadAgain, RepeatingWrite
<1>2. ASSUME NEW w \in Workers, writeScan(w) \/ writeReceipt(w) \/ failReceipt(w) PROVE Repeating'
  BY <1>2, RepeatingScan, RepeatingSettled
<1>3. ASSUME NEW w \in Workers, answer(w) \/ stop(w) PROVE Repeating'
  BY <1>3, RepeatingSettled
<1>4. ASSUME NEW o \in Ops, record(o) PROVE Repeating'
  <2>1. SameWork /\ o \notin Recorded /\ \A x \in Ops : x # o => op'[x] = op[x]
    BY <1>4, RecordDoes
  <2>2. \A x \in Recorded : op'[x] = op[x]
    BY <2>1 DEF Recorded
  <2> QED  BY <2>1, <2>2, RepeatingSameWork
<1>5. CASE saveQueue \/ saveOutcomes \/ giveUp \/ closeApp \/ others \/ UNCHANGED vars \/ \E o \in Ops : discard(o)
  BY <1>5, SavingDoes, GivingUpDoes, OthersDo, StutterDoes, RepeatingSameWork
<1> QED  BY <1>1, <1>2, <1>3, <1>4, <1>5 DEF Next

-----------------------------------------------------------------------------
(* The theorems *)

IInv == Base /\ Meeting /\ Repeating

LEMMA Inductive ==
  Spec => []IInv
<1>1. Init => IInv
  BY BaseInit, MeetingInit, RepeatingInit DEF IInv
<1>2. IInv /\ [Next]_vars => IInv'
  BY BaseStep, MeetingStep, RepeatingStep DEF IInv
<1> QED  BY <1>1, <1>2, PTL DEF Spec

\* The queue, the uploads and the receipts stay what the code takes them to be:
\* a count never takes a shelf below nothing.
THEOREM OfflineTypeCorrect == Spec => []TypeOK
<1>1. IInv => TypeOK
  BY DEF IInv, Base
<1> QED  BY <1>1, Inductive, PTL

\* Nothing recorded is forgotten, however many uploads are lost or repeated, but
\* what is recorded during an upload.
THEOREM RecordedIsKept == Spec => []NothingLost
<1>1. IInv => NothingLost
  BY DEF IInv, Base
<1> QED  BY <1>1, Inductive, PTL

\* A repeated upload changes nothing twice, unless it overtakes the first or the
\* first left no receipt.
THEOREM RepeatsChangeNothing == Spec => []AppliedOnce
<1>1. IInv => AppliedOnce
  BY DEF IInv, Repeating, Once, AppliedOnce
<1> QED  BY <1>1, Inductive, PTL

LEMMA ChangesWhatWasSeen ==
  ASSUME Base, Meeting, [Next]_vars, NEW o \in Ops, op[o] \in Moves, applied'[o] > applied[o]
  PROVE  value = op[o].seen \/ o \in disturbed
<1>1. applied[o] \in Nat
  BY DEF Base, TypeOK
<1>2. ASSUME NEW w \in Workers, write(w) PROVE value = op[o].seen \/ o \in disturbed
  <2>1. /\ job[w].pc = "write" /\ op[Current(w)] # Scan
        /\ \A x \in Ops : x # Current(w) => applied'[x] = applied[x]
    BY <1>2, WriteDoes
  <2>2. o = Current(w)
    BY <1>1, <2>1
  <2> QED  BY <2>1, <2>2 DEF Meeting, Met, Deciding
<1>3. ASSUME NEW w \in Workers, writeScan(w) PROVE FALSE
  <2>1. op[Current(w)] = Scan /\ \A x \in Ops : x # Current(w) => applied'[x] = applied[x]
    BY <1>3, WriteScanDoes
  <2> QED  BY <1>1, <2>1, Recording
<1>4. ASSUME NEW w \in Workers, flush(w) \/ look(w) \/ readAgain(w) \/ answer(w) \/ stop(w)
      PROVE  applied' = applied
  BY <1>4, FlushDoes, LookDoes, ReadAgainDoes, AnswerDoes, StopDoes
<1>5. ASSUME NEW w \in Workers, writeReceipt(w) \/ failReceipt(w) PROVE applied' = applied
  BY <1>5, ReceiptDoes
<1>6. ASSUME NEW x \in Ops, record(x) \/ discard(x) PROVE applied' = applied
  BY <1>6, RecordDoes, SavingDoes DEF SameWork
<1>7. CASE saveQueue \/ saveOutcomes \/ giveUp \/ closeApp \/ others \/ UNCHANGED vars
  <2>1. applied' = applied
    BY <1>7, SavingDoes, GivingUpDoes, OthersDo, StutterDoes DEF SameWork
  <2> QED  BY <1>1, <2>1
<1> QED  BY <1>1, <1>2, <1>3, <1>4, <1>5, <1>6, <1>7 DEF Next

\* A change recorded offline meets what its author saw, or what came between the
\* decision and the write is remembered.
THEOREM UndoesNobodyEver == Spec => UndoesNobody
<1>1. IInv /\ [Next]_vars =>
        [\A o \in Ops : (op[o] \in Moves /\ applied'[o] > applied[o])
           => (value = op[o].seen \/ o \in disturbed)]_vars
  BY ChangesWhatWasSeen DEF IInv
<1> QED  BY <1>1, Inductive, PTL DEF Spec, UndoesNobody

=============================================================================

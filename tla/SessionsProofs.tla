---------------------------- MODULE SessionsProofs -----------------------------
(***************************************************************************)
(* What holds of Sessions for any number of tokens, devices and calls.     *)
(*                                                                         *)
(* The invariant is in layers, each inductive given those before it: the   *)
(* shape of the calls, who owns a family, what a replay finds, and what a  *)
(* family looks like while one call at a time works on it.                 *)
(***************************************************************************)
EXTENDS Sessions, TLAPS

-----------------------------------------------------------------------------
(* The shape of the calls and of the families *)

\* A family is that of its first token, and what is not issued was never touched.
Founded ==
  \A t \in Tokens :
    /\ family[t] # None => family[family[t]] = family[t]
    /\ family[t] = None => life[t] = "usable"

Holding == \A d \in Devices : held[d] # None => family[held[d]] # None

Renews(c) == c.op = "refresh" /\ c.pc # "reply"

Shaped(c) ==
  /\ c.op = "idle" => c = Idle
  /\ c.op = "refresh" => c.pc \in {"reuse", "mark", "inactive", "issue", "reply"}
  /\ c.op = "signIn" => c.pc \in {"revokeAll", "issue"} /\ c.dev \in Devices /\ c.next # None
  /\ c.op = "endAll" => c.pc = "revokeAll" /\ c.next = None
  /\ c.pc = "issue" => c.next # None
  /\ c.pc \in {"reuse", "inactive"} => c.next = None
  /\ Renews(c) => c.tok # None /\ family[c.tok] # None
  /\ ~Renews(c) => c.tok = None
  /\ c.pc = "reply" => c.dev \in Devices
  /\ c.next # None => (family[c.next] # None <=> c.pc = "reply")

\* No two calls are to issue the same token.
Reserving ==
  \A w, v \in Workers :
    w # v /\ call[w].next # None /\ call[w].pc # "reply" => call[v].next # call[w].next

Base ==
  /\ TypeOK /\ Founded /\ Holding /\ Reserving
  /\ \A w \in Workers : Shaped(call[w])

\* One worker's call moves.
Moved(w) == call' \in [Workers -> Calls] /\ \A v \in Workers \ {w} : call'[v] = call[v]

LEMMA Names ==
  /\ None \notin Tokens /\ NoDevice \notin Devices /\ Phones \subseteq Devices
  /\ \A t \in Tokens : t # None
  BY SessionsAssumption DEF Tokens, None

LEMMA CallTypes ==
  ASSUME NEW c \in Calls
  PROVE  /\ c.op \in {"idle", "refresh", "signIn", "endAll"}
         /\ c.pc \in {"idle", "reuse", "mark", "inactive", "revokeAll", "issue", "reply"}
         /\ c.dev \in Devices \cup {NoDevice}
         /\ c.tok \in Tokens \cup {None} /\ c.next \in Tokens \cup {None}
  BY DEF Calls

LEMMA IdleCall ==
  /\ Idle \in Calls
  /\ Idle.op = "idle" /\ Idle.pc = "idle" /\ Idle.dev = NoDevice
  /\ Idle.tok = None /\ Idle.next = None
  BY DEF Idle, Calls

\* What kind of call is at which point.
LEMMA AtPoint ==
  ASSUME NEW c \in Calls, Shaped(c)
  PROVE  /\ c.pc \in {"reuse", "mark", "inactive"} => Renews(c)
         /\ c.pc = "reply" => c.op = "refresh"
         /\ c.pc = "revokeAll" => c.op \in {"signIn", "endAll"}
         /\ c.pc = "issue" => c.op \in {"refresh", "signIn"}
         /\ c.op = "refresh" /\ c.pc = "issue" => Renews(c)
         /\ c.pc = "idle" <=> c = Idle
  BY CallTypes, IdleCall DEF Shaped, Renews

LEMMA GoesTo ==
  ASSUME call \in [Workers -> Calls], NEW w \in Workers, NEW c \in Calls, Go(w, c)
  PROVE  Moved(w) /\ call'[w] = c
  BY DEF Go, Moved

LEMMA GoesOn ==
  ASSUME call \in [Workers -> Calls], NEW w \in Workers,
         NEW pc \in {"reuse", "mark", "inactive", "revokeAll", "issue", "reply"}, Goto(w, pc)
  PROVE  /\ Moved(w)
         /\ call'[w].op = call[w].op /\ call'[w].pc = pc /\ call'[w].dev = call[w].dev
         /\ call'[w].tok = call[w].tok /\ call'[w].next = call[w].next
<1> DEFINE c == [call[w] EXCEPT !.pc = pc]
<1>1. /\ c \in Calls /\ c.op = call[w].op /\ c.pc = pc /\ c.dev = call[w].dev
      /\ c.tok = call[w].tok /\ c.next = call[w].next
  BY DEF Calls
<1>2. call' = [call EXCEPT ![w] = c]
  BY DEF Goto
<1> HIDE DEF c
<1>3. Moved(w) /\ call'[w] = c
  BY <1>1, <1>2 DEF Moved
<1> QED  BY <1>1, <1>3

\* The answer to a refresh.
IsReply(c, d, n) ==
  c.op = "refresh" /\ c.pc = "reply" /\ c.dev = d /\ c.tok = None /\ c.next = n

LEMMA Answers ==
  ASSUME call \in [Workers -> Calls], NEW w \in Workers, NEW n \in Tokens \cup {None}, Answer(w, n)
  PROVE  /\ Moved(w)
         /\ call[w].dev = NoDevice => call'[w] = Idle
         /\ call[w].dev # NoDevice => IsReply(call'[w], call[w].dev, n)
<1>1. CASE call[w].dev = NoDevice
  BY <1>1, GoesTo, IdleCall DEF Answer
<1>2. CASE call[w].dev # NoDevice
  <2> DEFINE c == [Idle EXCEPT !.op = "refresh", !.pc = "reply", !.dev = call[w].dev, !.next = n]
  <2>1. call[w].dev \in Devices
    BY <1>2, CallTypes
  <2>2. c \in Calls /\ IsReply(c, call[w].dev, n)
    BY <2>1 DEF Calls, Idle, IsReply
  <2>3. Go(w, c)
    BY <1>2 DEF Answer
  <2> HIDE DEF c
  <2>4. Moved(w) /\ call'[w] = c
    BY <2>2, <2>3, GoesTo
  <2> QED  BY <1>2, <2>2, <2>4
<1> QED  BY <1>1, <1>2

\* The next token, and the worker that takes the next call.
LEMMA FreshToken ==
  ASSUME NEW n \in Fresh
  PROVE  n \in Tokens /\ family[n] = None /\ \A w \in Workers : call[w].next # n
  BY DEF Fresh, Unissued

LEMMA FreeWorker ==
  ASSUME NEW w \in Free
  PROVE  w \in Workers /\ call[w] = Idle
  BY DEF Free

\* A revocation of whole families.
Whole(T) == T \subseteq Issued /\ \A t \in T, u \in Tokens : family[u] = family[t] => u \in T

LEMMA Revoked ==
  ASSUME TypeOK, NEW T, Whole(T), NEW r \in Reasons, life' = revokedFor(T, r)
  PROVE  /\ life' \in [Tokens -> Lives]
         /\ \A t \in Tokens : t \notin T => life'[t] = life[t]
         /\ \A t \in T : /\ t \in Tokens /\ life'[t] \in Reasons
                         /\ life[t] \in Reasons => life'[t] = life[t]
                         /\ life[t] \notin Reasons => life'[t] = r
  BY DEF revokedFor, TypeOK, Lives, Whole, Issued

LEMMA WholeFamilies ==
  ASSUME Founded
  PROVE  /\ \A t : family[t] # None => Whole(Family(family[t]))
         /\ Whole(Issued) /\ Whole({})
         /\ \A f : Whole(Issued \ Family(f))
  BY Names DEF Whole, Family, Issued, Founded

\* A token is marked.
LEMMA Marked ==
  ASSUME TypeOK, NEW t \in Tokens, life' = marked(t)
  PROVE  /\ life' \in [Tokens -> Lives]
         /\ \A u \in Tokens : u # t => life'[u] = life[u]
         /\ life[t] = "usable" => life'[t] = "rotated"
         /\ life[t] # "usable" => life'[t] = life[t]
  BY DEF marked, TypeOK, Lives

-----------------------------------------------------------------------------
(* The shape is kept *)

LEMMA ShapeKept ==
  ASSUME Base, NEW w \in Workers, Moved(w), Shaped(call[w])',
         \A t \in Tokens : family[t] # None => family'[t] = family[t],
         \A v \in Workers \ {w} :
           call[v].next # None /\ call[v].pc # "reply" => family'[call[v].next] = None,
         call'[w].next # None /\ call'[w].pc # "reply" =>
           \/ call'[w].next = call[w].next /\ call[w].pc # "reply"
           \/ \A v \in Workers : call[v].next # call'[w].next
  PROVE  Reserving' /\ \A v \in Workers : Shaped(call[v])'
<1>1. ASSUME NEW v \in Workers \ {w} PROVE Shaped(call[v])'
  <2>1. call'[v] = call[v] /\ Shaped(call[v]) /\ call[v] \in Calls
    BY DEF Moved, Base, TypeOK
  <2>2. call[v].tok \in Tokens \cup {None} /\ call[v].next \in Tokens \cup {None}
    BY <2>1, CallTypes
  <2> QED  BY <2>1, <2>2 DEF Shaped, Renews
<1>2. ASSUME NEW v \in Workers, NEW u \in Workers, v # u, call'[v].next # None, call'[v].pc # "reply"
      PROVE  call'[u].next # call'[v].next
  <2>1. CASE v # w /\ u # w
    BY <1>2, <2>1 DEF Moved, Base, Reserving
  <2>2. CASE v = w
    BY <1>2, <2>2 DEF Moved, Base, Reserving
  <2>3. CASE v # w /\ u = w
    <3>1. call'[v] = call[v] /\ family'[call[v].next] = None
      BY <1>2, <2>3 DEF Moved
    <3>2. CASE call'[w].next = None \/ call'[w].pc = "reply"
      BY <1>2, <2>3, <3>1, <3>2 DEF Shaped
    <3>3. CASE call'[w].next # None /\ call'[w].pc # "reply"
      BY <1>2, <2>3, <3>1, <3>3 DEF Base, Reserving
    <3> QED  BY <3>2, <3>3
  <2> QED  BY <2>1, <2>2, <2>3
<1> QED  BY <1>1, <1>2 DEF Reserving

\* ... by a step that issues nothing.
LEMMA BaseKept ==
  ASSUME Base, NEW w \in Workers, Moved(w), Shaped(call[w])', family' = family,
         call'[w].next # None /\ call'[w].pc # "reply" =>
           \/ call'[w].next = call[w].next /\ call[w].pc # "reply"
           \/ \A v \in Workers : call[v].next # call'[w].next,
         status' \in Statuses, superAdmin' = superAdmin,
         held' \in [Devices -> Tokens \cup {None}], Holding',
         life' \in [Tokens -> Lives], \A t \in Tokens : family[t] = None => life'[t] = life[t],
         outdated' \subseteq Tokens, disturbed' \subseteq Tokens
  PROVE  Base'
<1>1. \A v \in Workers \ {w} :
        call[v].next # None /\ call[v].pc # "reply" => family'[call[v].next] = None
  BY DEF Base, Shaped
<1>2. Reserving' /\ \A v \in Workers : Shaped(call[v])'
  BY <1>1, ShapeKept
<1>3. TypeOK'
  BY DEF Base, TypeOK, Moved
<1>4. Founded'
  BY DEF Base, Founded
<1> QED  BY <1>2, <1>3, <1>4 DEF Base

LEMMA BusyTypes ==
  ASSUME Base, NEW F, F \subseteq Tokens, Entered(F)
  PROVE  disturbed \subseteq disturbed' /\ disturbed' \subseteq Tokens
  BY DEF Base, TypeOK, Entered, Busy

LEMMA FamiliesAreTokens ==
  ASSUME Base
  PROVE  Families \subseteq Tokens /\ \A t \in Tokens : family[t] # None => family[t] \in Tokens
  BY DEF Base, TypeOK, Families, Issued

\* A begun call.
LEMMA Begins ==
  ASSUME Base, NEW w \in Workers, call[w] = Idle, NEW c \in Calls, Go(w, c), Shaped(c),
         c.next # None => \A v \in Workers : call[v].next # c.next,
         NEW F, F \subseteq Tokens, Entered(F), outdated' \subseteq Tokens,
         UNCHANGED <<stored, held, superAdmin>>, status' \in Statuses
  PROVE  Base' /\ call'[w] = c /\ Moved(w) /\ disturbed \subseteq disturbed'
<1>1. Moved(w) /\ call'[w] = c
  BY GoesTo DEF Base, TypeOK
<1>2. UNCHANGED <<family, life>>
  BY DEF stored
<1>3. Shaped(call[w])'
  BY <1>1, <1>2 DEF Shaped, Renews
<1>4. Holding'
  BY <1>2 DEF Base, Holding
<1>5. Base'
  BY <1>1, <1>2, <1>3, <1>4, BaseKept, BusyTypes DEF Base, TypeOK
<1> QED  BY <1>1, <1>5, BusyTypes

-----------------------------------------------------------------------------
(* What each action does, and that it keeps the shape *)

LEMMA RefreshBegins ==
  ASSUME Base, NEW w \in Workers, NEW d \in Devices, refreshBegin(w, d)
  PROVE  /\ Base' /\ Moved(w) /\ call[w] = Idle
         /\ held[d] \in Tokens /\ family[held[d]] # None /\ noRefreshInFlight(d)
         /\ Renews(call'[w]) /\ call'[w].dev = d /\ call'[w].tok = held[d]
         /\ \/ call'[w].pc = "reuse" /\ life[held[d]] # "usable"
            \/ call'[w].pc = "mark" /\ life[held[d]] = "usable"
         /\ UNCHANGED <<family, life, held, superAdmin>> /\ Entered({family[held[d]]})
         /\ disturbed \subseteq disturbed' /\ outdated \subseteq outdated'
         /\ tabsAtOnce(d) => family[held[d]] \in outdated'
<1>0. PICK t : t = held[d]
  OBVIOUS
<1>1. call[w] = Idle /\ t \in Tokens /\ family[t] # None /\ noRefreshInFlight(d)
  BY <1>0, FreeWorker DEF refreshBegin, Base, TypeOK, Holding
<1>2. /\ UNCHANGED <<stored, held, superAdmin>> /\ status' \in Statuses /\ Entered({family[t]})
      /\ {family[t]} \subseteq Tokens
      /\ outdated' = IF tabsAtOnce(d) THEN outdated \cup {family[t]} ELSE outdated
  BY <1>0, <1>1, FamiliesAreTokens DEF refreshBegin, person, Base, TypeOK
<1>3. t \in Usable <=> life[t] = "usable"
  BY <1>1 DEF Usable, Issued
<1>4. /\ outdated \subseteq outdated' /\ outdated' \subseteq Tokens
      /\ tabsAtOnce(d) => family[t] \in outdated'
  BY <1>2 DEF Base, TypeOK
<1>5. ASSUME NEW pc \in {"reuse", "mark"}, NEW n \in Tokens \cup {None},
             Go(w, [op |-> "refresh", pc |-> pc, dev |-> d, tok |-> t, next |-> n]),
             n = None \/ (pc = "mark" /\ n \in Fresh)
      PROVE  /\ Base' /\ Moved(w) /\ disturbed \subseteq disturbed'
             /\ Renews(call'[w]) /\ call'[w].dev = d /\ call'[w].tok = t /\ call'[w].pc = pc
  <2> DEFINE c == [op |-> "refresh", pc |-> pc, dev |-> d, tok |-> t, next |-> n]
  <2>1. /\ c \in Calls /\ c.op = "refresh" /\ c.pc = pc /\ c.dev = d /\ c.tok = t /\ c.next = n
        /\ Go(w, c)
    BY <1>1, <1>5 DEF Calls
  <2> HIDE DEF c
  <2>2. n # None => family[n] = None /\ \A v \in Workers : call[v].next # n
    BY <1>5, FreshToken
  <2>3. Shaped(c) /\ Renews(c)
    BY <1>1, <1>5, <2>1, <2>2, Names DEF Shaped, Renews
  <2>4. Base' /\ call'[w] = c /\ Moved(w) /\ disturbed \subseteq disturbed'
    BY <1>1, <1>4, <1>2, <2>1, <2>2, <2>3, Begins
  <2> QED  BY <2>1, <2>3, <2>4
<1>6. \/ t \notin Usable /\ Go(w, [op |-> "refresh", pc |-> "reuse", dev |-> d, tok |-> t, next |-> None])
      \/ t \in Usable /\ \E n \in Fresh \cup {None} :
           Go(w, [op |-> "refresh", pc |-> "mark", dev |-> d, tok |-> t, next |-> n])
  BY <1>0 DEF refreshBegin
<1>7. CASE t \notin Usable
  BY <1>0, <1>1, <1>2, <1>3, <1>5, <1>6, <1>7, <1>4 DEF stored
<1>8. CASE t \in Usable
  <2>1. PICK n \in Fresh \cup {None} :
          Go(w, [op |-> "refresh", pc |-> "mark", dev |-> d, tok |-> t, next |-> n])
    BY <1>6, <1>8
  <2>2. n \in Tokens \cup {None}
    BY FreshToken
  <2>3. /\ Base' /\ Moved(w) /\ disturbed \subseteq disturbed'
        /\ Renews(call'[w]) /\ call'[w].dev = d /\ call'[w].tok = t /\ call'[w].pc = "mark"
    BY <1>5, <2>1, <2>2
  <2> QED  BY <1>0, <1>1, <1>2, <1>3, <1>8, <1>4, <2>3 DEF stored
<1> QED  BY <1>7, <1>8

LEMMA SignInBegins ==
  ASSUME Base, NEW w \in Workers, NEW d \in Devices, signInBegin(w, d)
  PROVE  /\ Base' /\ Moved(w) /\ call[w] = Idle
         /\ call'[w].op = "signIn" /\ call'[w].next \in Fresh
         /\ call'[w].pc = "revokeAll" => superAdmin
         /\ UNCHANGED <<family, life, held, outdated, superAdmin>>
         /\ Entered(IF superAdmin THEN Families \cup {call'[w].next} ELSE {call'[w].next})
         /\ disturbed \subseteq disturbed'
<1>1. PICK n \in Fresh :
        /\ Go(w, [op |-> "signIn", dev |-> d, tok |-> None, next |-> n,
                  pc |-> IF superAdmin THEN "revokeAll" ELSE "issue"])
        /\ Begun(IF superAdmin THEN Families \cup {n} ELSE {n})
  BY DEF signInBegin
<1>2. PICK pc \in {"revokeAll", "issue"} : pc = IF superAdmin THEN "revokeAll" ELSE "issue"
  OBVIOUS
<1>3. PICK F : F = IF superAdmin THEN Families \cup {n} ELSE {n}
  OBVIOUS
<1> DEFINE c == [op |-> "signIn", dev |-> d, tok |-> None, next |-> n, pc |-> pc]
<1>4. n \in Tokens /\ family[n] = None /\ n # None /\ \A v \in Workers : call[v].next # n
  BY FreshToken, Names
<1>5. /\ c \in Calls /\ c.op = "signIn" /\ c.pc = pc /\ c.dev = d /\ c.tok = None /\ c.next = n
      /\ Go(w, c)
  BY <1>1, <1>2, <1>4 DEF Calls
<1> HIDE DEF c
<1>6. Shaped(c)
  BY <1>4, <1>5 DEF Shaped, Renews
<1>7. call[w] = Idle /\ UNCHANGED <<stored, held, superAdmin>> /\ status' \in Statuses
  BY FreeWorker DEF signInBegin, person, Base, TypeOK
<1>8. F \subseteq Tokens /\ Entered(F) /\ outdated' = outdated /\ outdated' \subseteq Tokens
  BY <1>1, <1>3, <1>4, FamiliesAreTokens DEF Begun, Base, TypeOK
<1>9. Base' /\ call'[w] = c /\ Moved(w) /\ disturbed \subseteq disturbed'
  BY <1>4, <1>5, <1>6, <1>7, <1>8, Begins
<1> QED  BY <1>1, <1>2, <1>3, <1>5, <1>7, <1>8, <1>9 DEF stored

LEMMA EndingBegins ==
  ASSUME Base, NEW w \in Workers, changePassword(w) \/ softDelete(w)
  PROVE  /\ Base' /\ Moved(w) /\ call[w] = Idle
         /\ call'[w].op = "endAll" /\ call'[w].next = None
         /\ UNCHANGED <<family, life, held, outdated, superAdmin>> /\ Entered(Families)
         /\ disturbed \subseteq disturbed'
<1> DEFINE c == [Idle EXCEPT !.op = "endAll", !.pc = "revokeAll"]
<1>1. /\ c \in Calls /\ c.op = "endAll" /\ c.pc = "revokeAll" /\ c.dev = NoDevice
      /\ c.tok = None /\ c.next = None
  BY DEF Idle, Calls
<1>2. Go(w, c)
  BY DEF changePassword, softDelete
<1> HIDE DEF c
<1>3. Shaped(c)
  BY <1>1 DEF Shaped, Renews
<1>4. /\ call[w] = Idle /\ UNCHANGED <<stored, held, superAdmin>> /\ status' \in Statuses
      /\ Entered(Families) /\ outdated' = outdated /\ outdated' \subseteq Tokens
  BY FreeWorker DEF changePassword, softDelete, Begun, person, Base, TypeOK, Statuses
<1>5. Base' /\ call'[w] = c /\ Moved(w) /\ disturbed \subseteq disturbed'
  BY <1>1, <1>2, <1>3, <1>4, FamiliesAreTokens, Begins
<1> QED  BY <1>1, <1>4, <1>5 DEF stored

\* A refresh that is answered with a refusal.
LEMMA Refuses ==
  ASSUME Base, NEW w \in Workers, Renews(call[w]), Answer(w, None),
         UNCHANGED <<family, person, held, history>>, NEW T, Whole(T), NEW r \in Reasons,
         life' = revokedFor(T, r)
  PROVE  /\ Base' /\ Moved(w)
         /\ call'[w] = Idle \/ IsReply(call'[w], call[w].dev, None)
<1>1. /\ Moved(w)
      /\ call'[w] = Idle \/ IsReply(call'[w], call[w].dev, None)
      /\ IsReply(call'[w], call[w].dev, None) => call[w].dev \in Devices
  BY Answers, CallTypes, IdleCall, Names DEF Base, TypeOK, IsReply
<1>2. Shaped(call[w])' /\ call'[w].next = None
  BY <1>1, IdleCall DEF Shaped, Renews, IsReply
<1>3. life' \in [Tokens -> Lives] /\ \A t \in Tokens : family[t] = None => life'[t] = life[t]
  BY Revoked DEF Base, Whole, Issued
<1>4. /\ status' \in Statuses /\ superAdmin' = superAdmin /\ outdated' \subseteq Tokens
      /\ disturbed' \subseteq Tokens /\ held' \in [Devices -> Tokens \cup {None}] /\ Holding'
  BY DEF Base, TypeOK, person, history, Holding
<1>5. Base'
  BY <1>1, <1>2, <1>3, <1>4, BaseKept
<1> QED  BY <1>1, <1>5

LEMMA ReuseDoes ==
  ASSUME Base, NEW w \in Workers, reuse(w)
  PROVE  /\ Base' /\ Moved(w) /\ Renews(call[w]) /\ call[w].pc = "reuse"
         /\ call[w].tok \in Tokens /\ family[call[w].tok] \in Tokens
         /\ Whole(Family(family[call[w].tok])) /\ life' = revokedFor(Family(family[call[w].tok]), "reused")
         /\ call'[w] = Idle \/ IsReply(call'[w], call[w].dev, None)
         /\ UNCHANGED <<family, held, outdated, disturbed, superAdmin>>
<1>1. call[w] \in Calls /\ call[w].pc = "reuse" /\ Shaped(call[w])
  BY DEF reuse, Base, TypeOK
<1>2. Renews(call[w]) /\ call[w].tok \in Tokens /\ family[call[w].tok] # None
  BY <1>1, AtPoint, CallTypes DEF Shaped
<1>3. Whole(Family(family[call[w].tok])) /\ family[call[w].tok] \in Tokens
  BY <1>2, WholeFamilies, FamiliesAreTokens DEF Base
<1>4. life' = revokedFor(Family(family[call[w].tok]), "reused") /\ "reused" \in Reasons
  BY DEF reuse, revokeFamily, Reasons
<1>5. Answer(w, None) /\ UNCHANGED <<family, person, held, history>>
  BY DEF reuse
<1>6. /\ Base' /\ Moved(w)
      /\ call'[w] = Idle \/ IsReply(call'[w], call[w].dev, None)
  BY <1>2, <1>3, <1>4, <1>5, Refuses
<1> QED  BY <1>1, <1>2, <1>3, <1>4, <1>5, <1>6 DEF person, history

LEMMA InactiveDoes ==
  ASSUME Base, NEW w \in Workers, inactive(w)
  PROVE  /\ Base' /\ Moved(w) /\ Renews(call[w]) /\ call[w].pc = "inactive"
         /\ call[w].tok \in Tokens /\ family[call[w].tok] \in Tokens
         /\ Whole(Family(family[call[w].tok])) /\ life' = revokedFor(Family(family[call[w].tok]), "ended")
         /\ call'[w] = Idle \/ IsReply(call'[w], call[w].dev, None)
         /\ UNCHANGED <<family, held, outdated, disturbed, superAdmin>>
<1>1. call[w] \in Calls /\ call[w].pc = "inactive" /\ Shaped(call[w])
  BY DEF inactive, Base, TypeOK
<1>2. Renews(call[w]) /\ call[w].tok \in Tokens /\ family[call[w].tok] # None
  BY <1>1, AtPoint, CallTypes DEF Shaped
<1>3. Whole(Family(family[call[w].tok])) /\ family[call[w].tok] \in Tokens
  BY <1>2, WholeFamilies, FamiliesAreTokens DEF Base
<1>4. life' = revokedFor(Family(family[call[w].tok]), "ended") /\ "ended" \in Reasons
  BY DEF inactive, revokeFamily, Reasons
<1>5. Answer(w, None) /\ UNCHANGED <<family, person, held, history>>
  BY DEF inactive
<1>6. /\ Base' /\ Moved(w)
      /\ call'[w] = Idle \/ IsReply(call'[w], call[w].dev, None)
  BY <1>2, <1>3, <1>4, <1>5, Refuses
<1> QED  BY <1>1, <1>2, <1>3, <1>4, <1>5, <1>6 DEF person, history

LEMMA MarkDoes ==
  ASSUME Base, NEW w \in Workers, mark(w)
  PROVE  /\ Base' /\ Moved(w) /\ Renews(call[w]) /\ call[w].pc = "mark"
         /\ call[w].tok \in Tokens /\ family[call[w].tok] \in Tokens
         /\ \A t \in Tokens : t # call[w].tok => life'[t] = life[t]
         /\ life[call[w].tok] = "usable" => life'[call[w].tok] = "rotated"
         /\ life[call[w].tok] # "usable" => life'[call[w].tok] = life[call[w].tok]
         /\ call'[w].op = "refresh" /\ call'[w].pc \in {"issue", "inactive"}
         /\ call'[w].dev = call[w].dev /\ call'[w].tok = call[w].tok
         /\ UNCHANGED <<family, held, outdated, disturbed, superAdmin>>
<1>1. call[w] \in Calls /\ call[w].pc = "mark" /\ Shaped(call[w])
  BY DEF mark, Base, TypeOK
<1>2. Renews(call[w]) /\ call[w].tok \in Tokens /\ family[call[w].tok] # None
  BY <1>1, AtPoint, CallTypes DEF Shaped
<1>3. family[call[w].tok] \in Tokens
  BY <1>2, FamiliesAreTokens
<1>4. /\ life' \in [Tokens -> Lives]
      /\ \A t \in Tokens : t # call[w].tok => life'[t] = life[t]
      /\ life[call[w].tok] = "usable" => life'[call[w].tok] = "rotated"
      /\ life[call[w].tok] # "usable" => life'[call[w].tok] = life[call[w].tok]
  BY <1>2, Marked DEF mark, Base
<1>5. PICK pc \in {"issue", "inactive"} : Goto(w, pc) /\ pc = IF call[w].next # None THEN "issue" ELSE "inactive"
  BY DEF mark
<1>6. /\ Moved(w) /\ call'[w].pc = pc
      /\ call'[w].op = call[w].op /\ call'[w].dev = call[w].dev
      /\ call'[w].tok = call[w].tok /\ call'[w].next = call[w].next
  BY <1>5, GoesOn DEF Base, TypeOK
<1>7. UNCHANGED <<family, person, held, history>>
  BY DEF mark
<1>8. Shaped(call[w])'
  BY <1>1, <1>2, <1>5, <1>6, <1>7 DEF Shaped, Renews
<1>9. /\ status' \in Statuses /\ superAdmin' = superAdmin /\ outdated' \subseteq Tokens
      /\ disturbed' \subseteq Tokens /\ held' \in [Devices -> Tokens \cup {None}] /\ Holding'
  BY <1>7 DEF Base, TypeOK, person, history, Holding
<1>10. Base'
  BY <1>1, <1>2, <1>4, <1>6, <1>7, <1>8, <1>9, BaseKept
<1> QED  BY <1>1, <1>2, <1>3, <1>4, <1>5, <1>6, <1>7, <1>10 DEF person, history, Renews

\* A token is issued.
LEMMA Issuing ==
  ASSUME Base, NEW w \in Workers, Moved(w), Shaped(call[w])', call[w].pc = "issue",
         NEW f \in Tokens, family' = [family EXCEPT ![call[w].next] = f],
         f = call[w].next \/ family[f] = f,
         call'[w].pc \in {"idle", "reply"}, call'[w].pc = "idle" => call'[w] = Idle,
         UNCHANGED <<life, person, history>>,
         held' \in [Devices -> Tokens \cup {None}], Holding'
  PROVE  /\ Base' /\ call[w].next \in Tokens /\ family[call[w].next] = None
         /\ family'[call[w].next] = f /\ \A t \in Tokens : t # call[w].next => family'[t] = family[t]
         /\ \A v \in Workers \ {w} : call[v].next # call[w].next
         /\ \A v \in Workers : call[v].tok # call[w].next
<1>1. call[w] \in Calls /\ Shaped(call[w]) /\ family \in [Tokens -> Tokens \cup {None}]
  BY DEF Base, TypeOK
<1>2. call[w].next \in Tokens /\ family[call[w].next] = None
  BY <1>1, CallTypes DEF Shaped
<1>3. PICK n : n = call[w].next
  OBVIOUS
<1>4. family'[n] = f /\ \A t \in Tokens : t # n => family'[t] = family[t]
  BY <1>1, <1>2, <1>3
<1>5. \A v \in Workers \ {w} : call[v].next # n
  BY <1>2, <1>3, Names DEF Base, Reserving
<1>6. \A v \in Workers \ {w} :
        call[v].next # None /\ call[v].pc # "reply" => family'[call[v].next] = None
  <2>1. ASSUME NEW v \in Workers \ {w}, call[v].next # None, call[v].pc # "reply"
        PROVE  family'[call[v].next] = None
    <3>1. call[v].next \in Tokens /\ family[call[v].next] = None
      BY <2>1, CallTypes DEF Base, TypeOK, Shaped
    <3> QED  BY <1>4, <1>5, <3>1
  <2> QED  BY <2>1
<1>7. call'[w].next # None => call'[w].pc = "reply"
  BY IdleCall
<1>8. \A t \in Tokens : family[t] # None => family'[t] = family[t]
  BY <1>2, <1>3, <1>4
<1>9. Reserving' /\ \A v \in Workers : Shaped(call[v])'
  BY <1>6, <1>7, <1>8, ShapeKept
<1>10. Founded'
  <2>1. \A t \in Tokens : family'[t] = None => life'[t] = "usable"
    BY <1>2, <1>3, <1>4, Names DEF Base, Founded
  <2>2. \A t \in Tokens : family'[t] # None => family'[family'[t]] = family'[t]
    <3>1. ASSUME NEW t \in Tokens, family'[t] # None PROVE family'[family'[t]] = family'[t]
      <4>1. CASE t = n
        BY <1>2, <1>3, <1>4, <4>1, Names
      <4>2. CASE t # n
        <5>1. family'[t] = family[t] /\ family[t] \in Tokens /\ family[family[t]] = family[t]
          BY <1>1, <1>4, <3>1, <4>2 DEF Base, Founded
        <5>2. family[t] # n
          BY <1>2, <1>3, <5>1, Names
        <5> QED  BY <1>4, <5>1, <5>2
      <4> QED  BY <4>1, <4>2
    <3> QED  BY <3>1
  <2> QED  BY <2>1, <2>2 DEF Founded
<1>11. TypeOK'
  BY DEF Base, TypeOK, Moved, person, history
<1>12. \A v \in Workers : call[v].tok # n
  BY <1>2, <1>3, Names DEF Base, Shaped
<1> QED  BY <1>2, <1>3, <1>4, <1>5, <1>9, <1>10, <1>11, <1>12 DEF Base

LEMMA IssueDoes ==
  ASSUME Base, NEW w \in Workers, issue(w)
  PROVE  LET f == family[call[w].tok]
             n == call[w].next
         IN  /\ Base' /\ Moved(w) /\ Renews(call[w]) /\ call[w].pc = "issue"
             /\ call[w].tok \in Tokens /\ f \in Tokens /\ n \in Tokens /\ family[n] = None
             /\ family'[n] = f /\ \A t \in Tokens : t # n => family'[t] = family[t]
             /\ \A v \in Workers \ {w} : call[v].next # n
             /\ \A v \in Workers : call[v].tok # n
             /\ call[w].dev = NoDevice => call'[w] = Idle
             /\ call[w].dev # NoDevice => IsReply(call'[w], call[w].dev, n)
             /\ UNCHANGED <<life, held, outdated, disturbed, superAdmin>>
<1>1. /\ call[w] \in Calls /\ call[w].op = "refresh" /\ call[w].pc = "issue" /\ Shaped(call[w])
      /\ call \in [Workers -> Calls]
  BY DEF issue, Base, TypeOK
<1>2. /\ Renews(call[w]) /\ call[w].tok \in Tokens /\ family[call[w].tok] # None
      /\ call[w].next \in Tokens /\ family[call[w].next] = None
  BY <1>1, AtPoint, CallTypes DEF Shaped
<1>3. PICK f, n, d : f = family[call[w].tok] /\ n = call[w].next /\ d = call[w].dev
  OBVIOUS
<1>4. f \in Tokens /\ family[f] = f
  BY <1>2, <1>3, FamiliesAreTokens DEF Base, Founded
<1>5. /\ Answer(w, n) /\ family' = [family EXCEPT ![n] = f]
      /\ UNCHANGED <<life, person, held, history>>
  BY <1>3 DEF issue
<1>6. /\ Moved(w)
      /\ d = NoDevice => call'[w] = Idle
      /\ d # NoDevice => IsReply(call'[w], d, n) /\ d \in Devices
  BY <1>1, <1>2, <1>3, <1>5, Answers, CallTypes
<1>7. family'[n] = f /\ \A t \in Tokens : t # n => family'[t] = family[t]
  BY <1>2, <1>3, <1>5 DEF Base, TypeOK
<1>8. Shaped(call[w])'
  BY <1>2, <1>3, <1>4, <1>6, <1>7, IdleCall, Names DEF Shaped, Renews, IsReply
<1>9. call'[w].pc \in {"idle", "reply"} /\ (call'[w].pc = "idle" => call'[w] = Idle)
  BY <1>6, IdleCall DEF IsReply
<1>10. held' \in [Devices -> Tokens \cup {None}] /\ Holding'
  <2>1. \A d2 \in Devices : held[d2] # None => held[d2] \in Tokens /\ held[d2] # n
    BY <1>2, <1>3 DEF Base, TypeOK, Holding
  <2> QED  BY <1>5, <1>7, <2>1 DEF Base, TypeOK, Holding
<1>11. /\ Base' /\ \A v \in Workers \ {w} : call[v].next # n
       /\ \A v \in Workers : call[v].tok # n
  BY <1>1, <1>3, <1>4, <1>5, <1>6, <1>8, <1>9, <1>10, Issuing
<1> QED  BY <1>1, <1>2, <1>3, <1>4, <1>5, <1>6, <1>7, <1>11 DEF person, history

LEMMA SignInDoes ==
  ASSUME Base, NEW w \in Workers, signIn(w)
  PROVE  LET n == call[w].next
         IN  /\ Base' /\ Moved(w) /\ call[w].op = "signIn" /\ call[w].pc = "issue"
             /\ call[w].dev \in Devices /\ n \in Tokens /\ family[n] = None
             /\ family'[n] = n /\ \A t \in Tokens : t # n => family'[t] = family[t]
             /\ \A v \in Workers \ {w} : call[v].next # n
             /\ \A v \in Workers : call[v].tok # n
             /\ call'[w] = Idle
             /\ \A d \in Devices : held'[d] = held[d] \/ (d = call[w].dev /\ held'[d] = n)
             /\ UNCHANGED <<life, outdated, disturbed, superAdmin>>
<1>1. /\ call[w] \in Calls /\ call[w].op = "signIn" /\ call[w].pc = "issue" /\ Shaped(call[w])
      /\ call \in [Workers -> Calls]
  BY DEF signIn, Base, TypeOK
<1>2. call[w].dev \in Devices /\ call[w].next \in Tokens /\ family[call[w].next] = None
  BY <1>1, CallTypes DEF Shaped
<1>3. PICK n, d : n = call[w].next /\ d = call[w].dev
  OBVIOUS
<1>4. /\ Go(w, Idle) /\ family' = [family EXCEPT ![n] = n]
      /\ UNCHANGED <<life, person, history>> /\ held' \in {held, [held EXCEPT ![d] = n]}
  BY <1>3 DEF signIn
<1>5. Moved(w) /\ call'[w] = Idle
  BY <1>1, <1>4, IdleCall, GoesTo
<1>6. family'[n] = n /\ \A t \in Tokens : t # n => family'[t] = family[t]
  BY <1>2, <1>3, <1>4 DEF Base, TypeOK
<1>7. Shaped(call[w])'
  BY <1>5, IdleCall DEF Shaped, Renews
<1>8. /\ held' \in [Devices -> Tokens \cup {None}]
      /\ \A e \in Devices : held'[e] = held[e] \/ (e = d /\ held'[e] = n)
  BY <1>2, <1>3, <1>4 DEF Base, TypeOK
<1>9. Holding'
  <2>1. \A e \in Devices : held[e] # None => held[e] \in Tokens /\ held[e] # n /\ family[held[e]] # None
    BY <1>2, <1>3 DEF Base, TypeOK, Holding
  <2> QED  BY <1>2, <1>3, <1>6, <1>8, <2>1, Names DEF Holding
<1>10. /\ Base' /\ \A v \in Workers \ {w} : call[v].next # n
       /\ \A v \in Workers : call[v].tok # n
  BY <1>1, <1>2, <1>3, <1>4, <1>5, <1>7, <1>8, <1>9, IdleCall, Issuing
<1> QED  BY <1>1, <1>2, <1>3, <1>4, <1>5, <1>6, <1>8, <1>10 DEF person, history

LEMMA RevokeAllDoes ==
  ASSUME Base, NEW w \in Workers, revokeAll(w)
  PROVE  /\ Base' /\ Moved(w) /\ call[w].pc = "revokeAll" /\ call[w].op \in {"signIn", "endAll"}
         /\ Whole(Issued) /\ life' = revokedFor(Issued, "ended")
         /\ \/ call'[w] = Idle
            \/ /\ call'[w].op = "signIn" /\ call[w].op = "signIn"
               /\ call'[w].next = call[w].next /\ call'[w].pc = "issue"
         /\ UNCHANGED <<family, held, outdated, disturbed, superAdmin>>
<1>1. call[w] \in Calls /\ call[w].pc = "revokeAll" /\ Shaped(call[w]) /\ call \in [Workers -> Calls]
  BY DEF revokeAll, Base, TypeOK
<1>2. call[w].op \in {"signIn", "endAll"}
  BY <1>1, AtPoint
<1>3. Whole(Issued) /\ life' = revokedFor(Issued, "ended") /\ "ended" \in Reasons
  BY WholeFamilies DEF revokeAll, revokeAllForUser, Base, Reasons
<1>4. UNCHANGED <<family, person, held, history>>
  BY DEF revokeAll
<1>5. /\ Moved(w) /\ Shaped(call[w])'
      /\ \/ call'[w] = Idle
         \/ /\ call'[w].op = "signIn" /\ call[w].op = "signIn"
            /\ call'[w].next = call[w].next /\ call'[w].pc = "issue"
  <2>1. CASE call[w].op = "signIn"
    <3>1. Goto(w, "issue")
      BY <2>1 DEF revokeAll
    <3>2. /\ Moved(w) /\ call'[w].op = call[w].op /\ call'[w].pc = "issue" /\ call'[w].dev = call[w].dev
          /\ call'[w].tok = call[w].tok /\ call'[w].next = call[w].next
      BY <1>1, <3>1, GoesOn
    <3> QED  BY <1>1, <1>4, <2>1, <3>2 DEF Shaped, Renews
  <2>2. CASE call[w].op # "signIn"
    <3>1. Go(w, Idle)
      BY <2>2 DEF revokeAll
    <3>2. Moved(w) /\ call'[w] = Idle
      BY <1>1, <3>1, IdleCall, GoesTo
    <3> QED  BY <3>2, IdleCall DEF Shaped, Renews
  <2> QED  BY <2>1, <2>2
<1>6. life' \in [Tokens -> Lives] /\ \A t \in Tokens : family[t] = None => life'[t] = life[t]
  BY <1>3, Revoked DEF Base, Issued
<1>7. /\ status' \in Statuses /\ superAdmin' = superAdmin /\ outdated' \subseteq Tokens
      /\ disturbed' \subseteq Tokens /\ held' \in [Devices -> Tokens \cup {None}] /\ Holding'
  BY <1>4 DEF Base, TypeOK, person, history, Holding
<1>8. Base'
  BY <1>1, <1>4, <1>5, <1>6, <1>7, IdleCall, BaseKept
<1> QED  BY <1>1, <1>2, <1>3, <1>4, <1>5, <1>8 DEF person, history

\* ... by a step that leaves the calls and the families alone.
LEMMA BaseStays ==
  ASSUME Base, call' = call, family' = family, status' \in Statuses, superAdmin' = superAdmin,
         \A d \in Devices : held'[d] = held[d] \/ held'[d] = None,
         held' \in [Devices -> Tokens \cup {None}],
         life' \in [Tokens -> Lives], \A t \in Tokens : family[t] = None => life'[t] = life[t],
         outdated' \subseteq Tokens, disturbed' \subseteq Tokens
  PROVE  Base'
<1>1. TypeOK'
  BY DEF Base, TypeOK
<1>2. Founded' /\ Holding' /\ Reserving'
  BY DEF Base, Founded, Holding, Reserving
<1>3. \A w \in Workers : Shaped(call[w])'
  BY DEF Base, Shaped, Renews
<1> QED  BY <1>1, <1>2, <1>3 DEF Base

\* The families a refresh takes on, or whose new token is in its answer.
On(c, f) ==
  /\ c.op = "refresh"
  /\ \/ c.pc = "reply" /\ c.next # None /\ family[c.next] = f
     \/ c.pc # "reply" /\ family[c.tok] = f

LEMMA RenewingIsOn ==
  ASSUME Base, NEW w \in Workers
  PROVE  Renewing(call[w]) \subseteq Tokens /\ \A f : On(call[w], f) => f \in Renewing(call[w])
<1>1. call[w] \in Calls /\ Shaped(call[w])
  BY DEF Base, TypeOK
<1>2. CASE call[w].op # "refresh"
  BY <1>2 DEF Renewing, On
<1>3. CASE call[w].op = "refresh" /\ call[w].pc = "reply"
  <2>1. Renewing(call[w]) = {family[t] : t \in {call[w].next} \ {None}}
    BY <1>3 DEF Renewing
  <2>2. call[w].next # None => call[w].next \in Tokens /\ family[call[w].next] # None
    BY <1>1, <1>3, CallTypes DEF Shaped
  <2> QED  BY <1>3, <2>1, <2>2, FamiliesAreTokens DEF On
<1>4. CASE call[w].op = "refresh" /\ call[w].pc # "reply"
  <2>1. Renewing(call[w]) = {family[t] : t \in {call[w].tok} \ {None}}
    BY <1>4 DEF Renewing
  <2>2. call[w].tok # None /\ call[w].tok \in Tokens /\ family[call[w].tok] # None
    BY <1>1, <1>4, CallTypes DEF Shaped, Renews
  <2> QED  BY <1>4, <2>1, <2>2, FamiliesAreTokens DEF On
<1> QED  BY <1>2, <1>3, <1>4

LEMMA DeliverDoes ==
  ASSUME Base, NEW w \in Workers, deliver(w)
  PROVE  LET n == call[w].next
             d == call[w].dev
         IN  /\ Base' /\ Moved(w) /\ call[w].op = "refresh" /\ call[w].pc = "reply"
             /\ d \in Devices /\ n \in Tokens \cup {None}
             /\ n # None => family[n] # None
             /\ call'[w] = Idle
             /\ \A e \in Devices : e # d => held'[e] = held[e]
             /\ held'[d] = n \/ (n = None /\ held'[d] = held[d])
             /\ UNCHANGED <<family, life, outdated, disturbed, superAdmin>>
<1>1. call[w] \in Calls /\ call[w].pc = "reply" /\ Shaped(call[w]) /\ call \in [Workers -> Calls]
  BY DEF deliver, Base, TypeOK
<1>2. PICK n, d : n = call[w].next /\ d = call[w].dev
  OBVIOUS
<1>3. /\ call[w].op = "refresh" /\ d \in Devices /\ n \in Tokens \cup {None}
      /\ n # None => family[n] # None
  BY <1>1, <1>2, CallTypes, AtPoint DEF Shaped
<1>4. Go(w, Idle) /\ UNCHANGED <<stored, person, history>>
  BY DEF deliver
<1>5. Moved(w) /\ call'[w] = Idle
  BY <1>1, <1>4, IdleCall, GoesTo
<1>6. held' = [held EXCEPT ![d] = n] \/ (n = None /\ held' = held)
  BY <1>2 DEF deliver
<1>7. /\ held' \in [Devices -> Tokens \cup {None}]
      /\ \A e \in Devices : e # d => held'[e] = held[e]
      /\ held'[d] = n \/ (n = None /\ held'[d] = held[d])
  BY <1>3, <1>6 DEF Base, TypeOK
<1>8. Shaped(call[w])'
  BY <1>5, IdleCall DEF Shaped, Renews
<1>9. Holding'
  BY <1>3, <1>4, <1>7 DEF Base, Holding, stored
<1>10. /\ UNCHANGED <<family, life, outdated, disturbed, superAdmin>> /\ status' \in Statuses
       /\ life' \in [Tokens -> Lives] /\ outdated' \subseteq Tokens /\ disturbed' \subseteq Tokens
  BY <1>4 DEF Base, TypeOK, stored, person, history
<1>11. Base'
  BY <1>5, <1>7, <1>8, <1>9, <1>10, IdleCall, BaseKept
<1> QED  BY <1>1, <1>2, <1>3, <1>5, <1>7, <1>10, <1>11

LEMMA GiveUpDoes ==
  ASSUME Base, NEW w \in Workers, giveUp(w)
  PROVE  /\ Base' /\ Moved(w) /\ call[w].op = "refresh" /\ call[w].dev \in Devices
         /\ \/ call'[w] = Idle /\ call[w].pc = "reply"
            \/ /\ Renews(call[w])
               /\ call'[w].op = "refresh" /\ call'[w].pc = call[w].pc /\ call'[w].dev = NoDevice
               /\ call'[w].tok = call[w].tok /\ call'[w].next = call[w].next
         /\ \A e \in Devices : held'[e] = held[e] \/ (e = call[w].dev /\ held'[e] = None)
         /\ outdated \subseteq outdated' /\ \A f : On(call[w], f) => f \in outdated'
         /\ UNCHANGED <<family, life, disturbed, superAdmin>>
<1>1. /\ call[w] \in Calls /\ call[w].op = "refresh" /\ call[w].dev \in Devices
      /\ Shaped(call[w]) /\ call \in [Workers -> Calls]
  BY CallTypes DEF giveUp, Base, TypeOK
<1>2. PICK d : d = call[w].dev
  OBVIOUS
<1>3. UNCHANGED <<stored, person, disturbed>> /\ outdated' = outdated \cup Renewing(call[w])
  BY DEF giveUp
<1>4. held' = held \/ held' = [held EXCEPT ![d] = None]
  BY <1>2 DEF giveUp
<1>5. /\ held' \in [Devices -> Tokens \cup {None}]
      /\ \A e \in Devices : held'[e] = held[e] \/ (e = d /\ held'[e] = None)
  BY <1>1, <1>2, <1>4 DEF Base, TypeOK
<1>6. /\ UNCHANGED <<family, life, disturbed, superAdmin>> /\ status' \in Statuses
      /\ life' \in [Tokens -> Lives] /\ disturbed' \subseteq Tokens
  BY <1>3 DEF Base, TypeOK, stored, person
<1>7. outdated \subseteq outdated' /\ outdated' \subseteq Tokens /\ \A f : On(call[w], f) => f \in outdated'
  BY <1>3, RenewingIsOn DEF Base, TypeOK
<1>8. /\ Moved(w) /\ Shaped(call[w])'
      /\ \/ call'[w] = Idle /\ call[w].pc = "reply"
         \/ /\ Renews(call[w])
            /\ call'[w].op = "refresh" /\ call'[w].pc = call[w].pc /\ call'[w].dev = NoDevice
            /\ call'[w].tok = call[w].tok /\ call'[w].next = call[w].next
  <2>1. CASE call[w].pc = "reply"
    <3>1. Go(w, Idle)
      BY <2>1 DEF giveUp
    <3>2. Moved(w) /\ call'[w] = Idle
      BY <1>1, <3>1, IdleCall, GoesTo
    <3> QED  BY <2>1, <3>2, IdleCall DEF Shaped, Renews
  <2>2. CASE call[w].pc # "reply"
    <3> DEFINE c == [call[w] EXCEPT !.dev = NoDevice]
    <3>1. /\ c \in Calls /\ c.op = call[w].op /\ c.pc = call[w].pc /\ c.dev = NoDevice
          /\ c.tok = call[w].tok /\ c.next = call[w].next
      BY <1>1 DEF Calls
    <3>2. Go(w, c)
      BY <2>2 DEF giveUp
    <3> HIDE DEF c
    <3>3. Moved(w) /\ call'[w] = c
      BY <1>1, <3>1, <3>2, GoesTo
    <3>4. Renews(call[w])
      BY <1>1, <2>2 DEF Renews
    <3>5. Shaped(call[w])'
      BY <1>1, <1>6, <2>2, <3>1, <3>3 DEF Shaped, Renews
    <3> QED  BY <1>1, <3>1, <3>3, <3>4, <3>5
  <2> QED  BY <2>1, <2>2
<1>9. Holding'
  BY <1>5, <1>6 DEF Base, Holding
<1>10. Base'
  BY <1>5, <1>6, <1>7, <1>8, <1>9, IdleCall, BaseKept
<1> QED  BY <1>1, <1>2, <1>5, <1>6, <1>7, <1>8, <1>10

LEMMA StopDoes ==
  ASSUME Base, NEW w \in Workers, stop(w)
  PROVE  /\ Base' /\ Moved(w) /\ call'[w] = Idle
         /\ outdated \subseteq outdated' /\ \A f : On(call[w], f) => f \in outdated'
         /\ UNCHANGED <<family, life, held, disturbed, superAdmin>>
<1>1. call \in [Workers -> Calls] /\ Go(w, Idle)
  BY DEF stop, Base, TypeOK
<1>2. Moved(w) /\ call'[w] = Idle
  BY <1>1, IdleCall, GoesTo
<1>3. UNCHANGED <<stored, person, held, disturbed>> /\ outdated' = outdated \cup Renewing(call[w])
  BY DEF stop
<1>4. /\ UNCHANGED <<family, life, held, disturbed, superAdmin>> /\ status' \in Statuses
      /\ life' \in [Tokens -> Lives] /\ disturbed' \subseteq Tokens
      /\ held' \in [Devices -> Tokens \cup {None}] /\ Holding'
  BY <1>3 DEF Base, TypeOK, stored, person, Holding
<1>5. outdated \subseteq outdated' /\ outdated' \subseteq Tokens /\ \A f : On(call[w], f) => f \in outdated'
  BY <1>3, RenewingIsOn DEF Base, TypeOK
<1>6. Shaped(call[w])'
  BY <1>2, IdleCall DEF Shaped, Renews
<1>7. Base'
  BY <1>2, <1>4, <1>5, <1>6, IdleCall, BaseKept
<1> QED  BY <1>2, <1>4, <1>5, <1>7

\* Whole families are revoked in one statement.
Ends(T) == Whole(T) /\ life' = revokedFor(T, "ended") /\ Begun({family[t] : t \in T})

LEMMA EndingKeepsBase ==
  ASSUME Base, NEW T, Ends(T), UNCHANGED <<family, person, call>>,
         held' \in [Devices -> Tokens \cup {None}],
         \A d \in Devices : held'[d] = held[d] \/ held'[d] = None
  PROVE  Base' /\ outdated' = outdated /\ superAdmin' = superAdmin
<1>1. /\ life' \in [Tokens -> Lives]
      /\ \A t \in Tokens : family[t] = None => life'[t] = life[t]
  BY Revoked DEF Base, Ends, Whole, Issued, Reasons
<1>2. {family[t] : t \in T} \subseteq Tokens
  BY FamiliesAreTokens DEF Ends, Whole, Issued
<1>3. outdated' = outdated /\ outdated' \subseteq Tokens /\ disturbed' \subseteq Tokens
  BY <1>2, BusyTypes DEF Ends, Begun, Base, TypeOK
<1>4. status' \in Statuses /\ superAdmin' = superAdmin
  BY DEF person, Base, TypeOK
<1> QED  BY <1>1, <1>3, <1>4, BaseStays

LEMMA SigningOutDoes ==
  ASSUME Base, NEW d \in Devices, signOut(d) \/ revokeOthers(d)
  PROVE  /\ Base' /\ UNCHANGED <<family, call, outdated, superAdmin>>
         /\ \A e \in Devices : held'[e] = held[e] \/ held'[e] = None
         /\ \E T : Ends(T)
<1>1. /\ held' \in [Devices -> Tokens \cup {None}]
      /\ \A e \in Devices : held'[e] = held[e] \/ held'[e] = None
  BY DEF signOut, revokeOthers, Base, TypeOK
<1>2. UNCHANGED <<family, person, call>>
  BY DEF signOut, revokeOthers
<1>3. PICK T : Ends(T)
  <2>1. CASE signOut(d) /\ d \in Phones
    <3>1. UNCHANGED <<life, outdated, disturbed>>
      BY <2>1 DEF signOut, history
    <3>2. life' = revokedFor({}, "ended")
      BY <3>1 DEF revokedFor, Base, TypeOK
    <3>3. Begun({family[t] : t \in {}})
      BY <3>1 DEF Begun, Entered, Busy
    <3> QED  BY <3>2, <3>3, WholeFamilies DEF Ends, Base
  <2>2. CASE signOut(d) /\ d \notin Phones
    <3>1. PICK f : f = family[held[d]]
      OBVIOUS
    <3>2. held[d] \in Tokens /\ f # None
      BY <2>2, <3>1 DEF signOut, Base, TypeOK, Holding
    <3>3. /\ life' = revokedFor(Family(f), "ended") /\ Begun({f})
      BY <2>2, <3>1 DEF signOut, revokeFamily
    <3>4. {family[t] : t \in Family(f)} = {f}
      BY <3>1, <3>2 DEF Family, Issued
    <3>5. Whole(Family(f))
      BY <3>1, <3>2, WholeFamilies DEF Base
    <3> QED  BY <3>3, <3>4, <3>5 DEF Ends
  <2>3. CASE revokeOthers(d)
    <3>1. PICK mine : mine = IF held[d] = None THEN {} ELSE Family(family[held[d]])
      OBVIOUS
    <3>2. life' = revokedFor(Issued \ mine, "ended") /\ Begun({family[t] : t \in Issued \ mine})
      BY <2>3, <3>1 DEF revokeOthers
    <3>3. Whole(Issued \ mine)
      <4>1. CASE held[d] = None
        <5>1. Issued \ mine = Issued
          BY <3>1, <4>1
        <5> QED  BY <5>1, WholeFamilies DEF Base
      <4>2. CASE held[d] # None
        <5>1. mine = Family(family[held[d]])
          BY <3>1, <4>2
        <5> QED  BY <5>1, WholeFamilies DEF Base
      <4> QED  BY <4>1, <4>2
    <3> QED  BY <3>2, <3>3 DEF Ends
  <2> QED  BY <2>1, <2>2, <2>3
<1>4. Base' /\ outdated' = outdated /\ superAdmin' = superAdmin
  BY <1>1, <1>2, <1>3, EndingKeepsBase
<1> QED  BY <1>1, <1>2, <1>3, <1>4

\* Only the person's status changes, or nothing.
Stays == UNCHANGED <<family, life, superAdmin, held, call, outdated, disturbed>>

LEMMA StayingDoes ==
  ASSUME Base, setStatus \/ UNCHANGED vars
  PROVE  Base' /\ Stays
<1>1. Stays
  BY DEF setStatus, vars, stored, person, history, Stays
<1>2. status' \in Statuses
  BY DEF setStatus, vars, person, Base, TypeOK, Statuses
<1> QED  BY <1>1, <1>2, BaseStays DEF Base, TypeOK, Stays

LEMMA BaseInit ==
  ASSUME Init
  PROVE  Base
<1>1. TypeOK
  BY IdleCall DEF Init, TypeOK, Lives, Statuses
<1>2. \A w \in Workers : call[w] = Idle
  BY DEF Init
<1>3. \A w \in Workers : Shaped(call[w])
  BY <1>2, IdleCall DEF Shaped, Renews
<1>4. Founded /\ Holding /\ Reserving
  BY <1>2, IdleCall DEF Init, Founded, Holding, Reserving
<1> QED  BY <1>1, <1>3, <1>4 DEF Base

LEMMA BaseStep ==
  ASSUME Base, [Next]_vars
  PROVE  Base'
<1>1. ASSUME NEW w \in Workers, deliver(w) \/ giveUp(w) \/ stop(w) PROVE Base'
  BY <1>1, DeliverDoes, GiveUpDoes, StopDoes
<1>2. ASSUME NEW w \in Workers, reuse(w) \/ mark(w) \/ inactive(w) PROVE Base'
  BY <1>2, ReuseDoes, MarkDoes, InactiveDoes
<1>3. ASSUME NEW w \in Workers, issue(w) \/ signIn(w) \/ revokeAll(w) PROVE Base'
  BY <1>3, IssueDoes, SignInDoes, RevokeAllDoes
<1>4. ASSUME NEW w \in Workers, changePassword(w) \/ softDelete(w) PROVE Base'
  BY <1>4, EndingBegins
<1>5. ASSUME NEW w \in Workers, NEW d \in Devices, refreshBegin(w, d) \/ signInBegin(w, d) PROVE Base'
  BY <1>5, RefreshBegins, SignInBegins
<1>6. ASSUME NEW d \in Devices, signOut(d) \/ revokeOthers(d) PROVE Base'
  BY <1>6, SigningOutDoes
<1>7. CASE setStatus \/ UNCHANGED vars
  BY <1>7, StayingDoes
<1> QED  BY <1>1, <1>2, <1>3, <1>4, <1>5, <1>6, <1>7 DEF Next

-----------------------------------------------------------------------------
(* Who owns a family *)

\* A device holds a token of the family, or waits for the answer to its refresh.
Has(d, f) ==
  \/ held[d] # None /\ family[held[d]] = f
  \/ \E w \in Workers : call[w].dev = d /\ On(call[w], f)

OneOwner == \A d, e \in Devices, f \in Tokens : Has(d, f) /\ Has(e, f) => d = e

\* Two refreshes of a family by one browser are remembered.
OneRefresh ==
  \A w, v \in Workers, f \in Tokens \ outdated :
    /\ On(call[w], f) /\ On(call[v], f)
    /\ call[w].dev = call[v].dev /\ call[w].dev # NoDevice
    => w = v

\* A refresh nobody waits for is remembered as a lost answer.
Abandoned == \A w \in Workers : call[w].dev = NoDevice => \A f : On(call[w], f) => f \in outdated

Owning == OneOwner /\ OneRefresh /\ Abandoned

Kept == \A t \in Tokens : family[t] # None => family'[t] = family[t]

LEMMA OnStays ==
  ASSUME Base, NEW v \in Workers, call'[v] = call[v], Kept
  PROVE  /\ \A f : On(call[v], f)' <=> On(call[v], f)
         /\ Renews(call[v])' <=> Renews(call[v])
         /\ Renews(call[v]) => family'[call[v].tok] = family[call[v].tok]
<1>1. call[v] \in Calls /\ Shaped(call[v])
  BY DEF Base, TypeOK
<1>2. call[v].tok \in Tokens \cup {None} /\ call[v].next \in Tokens \cup {None}
  BY <1>1, CallTypes
<1>3. Renews(call[v]) => family'[call[v].tok] = family[call[v].tok]
  BY <1>1, <1>2 DEF Shaped, Kept
<1>4. call[v].pc = "reply" /\ call[v].next # None => family'[call[v].next] = family[call[v].next]
  BY <1>1, <1>2 DEF Shaped, Kept
<1> QED  BY <1>3, <1>4 DEF On, Renews

\* A step of one call that hands no family to another device.
LEMMA OwningKept ==
  ASSUME Base, Owning, NEW w \in Workers, Moved(w), Kept, outdated \subseteq outdated',
         \A d \in Devices : held'[d] # None => Has(d, family'[held'[d]]),
         call'[w].op = "refresh" =>
           /\ call[w].op = "refresh" /\ call'[w].dev \in {call[w].dev, NoDevice}
           /\ \A f : On(call[w], f)' => On(call[w], f) /\ (call'[w].dev = NoDevice => f \in outdated')
  PROVE  Owning'
<1>1. ASSUME NEW v \in Workers \ {w}
      PROVE  /\ call'[v] = call[v]
             /\ \A f : On(call[v], f)' <=> On(call[v], f)
  BY OnStays DEF Moved
<1>2. ASSUME NEW d \in Devices, NEW f \in Tokens, Has(d, f)'
      PROVE  Has(d, f)
  <2>1. CASE held'[d] # None /\ family'[held'[d]] = f
    BY <2>1
  <2>2. CASE \E v \in Workers : call'[v].dev = d /\ On(call[v], f)'
    <3>1. PICK v \in Workers : call'[v].dev = d /\ On(call[v], f)'
      BY <2>2
    <3>2. CASE v # w
      BY <1>1, <3>1, <3>2 DEF Has
    <3>3. CASE v = w
      <4>1. call'[w].op = "refresh"
        BY <3>1, <3>3 DEF On
      <4>2. call[w].dev = d /\ On(call[w], f)
        BY <3>1, <3>3, <4>1, Names
      <4> QED  BY <4>2 DEF Has
    <3> QED  BY <3>2, <3>3
  <2> QED  BY <1>2, <2>1, <2>2 DEF Has
<1>3. OneOwner'
  BY <1>2 DEF Owning, OneOwner
<1>4. OneRefresh'
  <2>1. ASSUME NEW v \in Workers, NEW f \in Tokens, On(call[v], f)', call'[v].dev # NoDevice
        PROVE  On(call[v], f) /\ call[v].dev = call'[v].dev
    BY <1>1, <2>1 DEF On
  <2> QED  BY <2>1 DEF Owning, OneRefresh
<1>5. Abandoned'
  <2>1. ASSUME NEW v \in Workers, call'[v].dev = NoDevice, NEW f, On(call[v], f)'
        PROVE  f \in outdated'
    <3>1. CASE v = w
      BY <2>1, <3>1 DEF On
    <3>2. CASE v # w
      BY <1>1, <2>1, <3>2 DEF Owning, Abandoned
    <3> QED  BY <3>1, <3>2
  <2> QED  BY <2>1 DEF Abandoned
<1> QED  BY <1>3, <1>4, <1>5 DEF Owning

\* A step of a call that leaves the families and the devices alone.
LEMMA OwningStays ==
  ASSUME Base, Owning, NEW w \in Workers, Moved(w), family' = family, outdated \subseteq outdated',
         \A d \in Devices : held'[d] = held[d] \/ held'[d] = None,
         call'[w].op = "refresh" =>
           /\ call[w].op = "refresh" /\ call'[w].dev \in {call[w].dev, NoDevice}
           /\ \A f : On(call[w], f)' => On(call[w], f) /\ (call'[w].dev = NoDevice => f \in outdated')
  PROVE  Owning'
<1>1. Kept
  BY DEF Kept
<1>2. \A d \in Devices : held'[d] # None => Has(d, family'[held'[d]])
  BY DEF Has
<1> QED  BY <1>1, <1>2, OwningKept

LEMMA OwningRefusal ==
  ASSUME Base, Owning, NEW w \in Workers, reuse(w) \/ inactive(w)
  PROVE  Owning'
<1>1. /\ Moved(w) /\ Renews(call[w]) /\ UNCHANGED <<family, held, outdated>>
      /\ call'[w] = Idle \/ IsReply(call'[w], call[w].dev, None)
  BY ReuseDoes, InactiveDoes
<1>2. call'[w].op = "refresh" => call'[w].dev = call[w].dev
  BY <1>1, IdleCall DEF IsReply
<1>3. \A f : ~On(call[w], f)'
  BY <1>1, IdleCall DEF IsReply, On
<1>4. call[w].op = "refresh"
  BY <1>1 DEF Renews
<1> QED  BY <1>1, <1>2, <1>3, <1>4, OwningStays

LEMMA OwningMark ==
  ASSUME Base, Owning, NEW w \in Workers, mark(w)
  PROVE  Owning'
<1>1. /\ Moved(w) /\ Renews(call[w])
      /\ call'[w].op = "refresh" /\ call'[w].pc \in {"issue", "inactive"}
      /\ call'[w].dev = call[w].dev /\ call'[w].tok = call[w].tok
      /\ UNCHANGED <<family, held, outdated>>
  BY MarkDoes
<1>2. \A f : On(call[w], f)' => On(call[w], f)
  BY <1>1 DEF On, Renews
<1>3. \A f : call'[w].dev = NoDevice /\ On(call[w], f)' => f \in outdated
  BY <1>1, <1>2 DEF Owning, Abandoned
<1> QED  BY <1>1, <1>2, <1>3, OwningStays DEF Renews

LEMMA OwningIssue ==
  ASSUME Base, Owning, NEW w \in Workers, issue(w)
  PROVE  Owning'
<1>1. PICK n, d, f : n = call[w].next /\ d = call[w].dev /\ f = family[call[w].tok]
  OBVIOUS
<1>2. /\ Moved(w) /\ Renews(call[w]) /\ f \in Tokens /\ n \in Tokens /\ family[n] = None
      /\ family'[n] = f /\ \A t \in Tokens : t # n => family'[t] = family[t]
      /\ d = NoDevice => call'[w] = Idle
      /\ d # NoDevice => IsReply(call'[w], d, n)
      /\ UNCHANGED <<held, outdated>>
  BY <1>1, IssueDoes
<1>3. Kept
  BY <1>2 DEF Kept
<1>4. \A e \in Devices : held[e] # None => family'[held[e]] = family[held[e]]
  BY <1>3 DEF Kept, Base, TypeOK, Holding
<1>5. \A e \in Devices : held'[e] # None => Has(e, family'[held'[e]])
  BY <1>2, <1>4 DEF Has
<1>6. \A g : On(call[w], g)' => g = f /\ call'[w].dev = d /\ d # NoDevice
  BY <1>2, IdleCall DEF On, IsReply
<1>7. On(call[w], f) /\ call[w].op = "refresh"
  BY <1>1, <1>2 DEF On, Renews
<1>8. call'[w].op = "refresh" => call'[w].dev = d
  BY <1>2, IdleCall DEF IsReply
<1> QED  BY <1>1, <1>2, <1>3, <1>4, <1>5, <1>6, <1>7, <1>8, OwningKept

LEMMA OwningDelivery ==
  ASSUME Base, Owning, NEW w \in Workers, deliver(w)
  PROVE  Owning'
<1>1. PICK n, d : n = call[w].next /\ d = call[w].dev
  OBVIOUS
<1>2. /\ Moved(w) /\ call[w].op = "refresh" /\ call[w].pc = "reply" /\ d \in Devices
      /\ call'[w] = Idle
      /\ \A e \in Devices : e # d => held'[e] = held[e]
      /\ held'[d] = n \/ held'[d] = held[d]
      /\ UNCHANGED <<family, outdated>>
  BY <1>1, DeliverDoes
<1>3. n # None => On(call[w], family[n])
  BY <1>1, <1>2 DEF On
<1>4. \A e \in Devices : held'[e] # None => Has(e, family'[held'[e]])
  BY <1>1, <1>2, <1>3 DEF Has
<1>5. call'[w].op # "refresh" /\ Kept
  BY <1>2, IdleCall DEF Kept
<1> QED  BY <1>2, <1>4, <1>5, OwningKept

LEMMA OwningLoss ==
  ASSUME Base, Owning, NEW w \in Workers, giveUp(w) \/ stop(w)
  PROVE  Owning'
<1>1. CASE giveUp(w)
  <2>1. /\ Moved(w) /\ call[w].op = "refresh"
        /\ \/ call'[w] = Idle
           \/ /\ Renews(call[w]) /\ call'[w].pc = call[w].pc /\ call'[w].dev = NoDevice
              /\ call'[w].tok = call[w].tok /\ call'[w].next = call[w].next
        /\ \A e \in Devices : held'[e] = held[e] \/ held'[e] = None
        /\ outdated \subseteq outdated' /\ (\A f : On(call[w], f) => f \in outdated')
        /\ family' = family
    BY <1>1, GiveUpDoes
  <2>2. \A f : On(call[w], f)' => On(call[w], f)
    BY <2>1, IdleCall DEF On, Renews
  <2>3. call'[w].op = "refresh" => call'[w].dev = NoDevice
    BY <2>1, IdleCall
  <2> QED  BY <2>1, <2>2, <2>3, OwningStays
<1>2. CASE stop(w)
  <2>1. Moved(w) /\ call'[w] = Idle /\ outdated \subseteq outdated' /\ UNCHANGED <<family, held>>
    BY <1>2, StopDoes
  <2>2. call'[w].op # "refresh"
    BY <2>1, IdleCall
  <2> QED  BY <2>1, <2>2, OwningStays
<1> QED  BY <1>1, <1>2

\* A step of a call that is no refresh and issues nothing.
LEMMA OwningOther ==
  ASSUME Base, Owning, NEW w \in Workers,
         revokeAll(w) \/ changePassword(w) \/ softDelete(w) \/ \E d \in Devices : signInBegin(w, d)
  PROVE  Owning'
<1>1. Moved(w) /\ call'[w].op # "refresh" /\ UNCHANGED <<family, held, outdated>>
  <2>1. CASE revokeAll(w)
    <3>1. Moved(w) /\ (call'[w] = Idle \/ call'[w].op = "signIn") /\ UNCHANGED <<family, held, outdated>>
      BY <2>1, RevokeAllDoes
    <3> QED  BY <3>1, IdleCall
  <2>2. CASE changePassword(w) \/ softDelete(w)
    BY <2>2, EndingBegins
  <2>3. CASE \E d \in Devices : signInBegin(w, d)
    BY <2>3, SignInBegins
  <2> QED  BY <2>1, <2>2, <2>3
<1> QED  BY <1>1, OwningStays

LEMMA OwningShrinks ==
  ASSUME Base, Owning, UNCHANGED <<family, call, outdated>>,
         \A e \in Devices : held'[e] = held[e] \/ held'[e] = None
  PROVE  Owning'
<1>1. \A w \in Workers : \A f : On(call[w], f)' <=> On(call[w], f)
  BY DEF On
<1>2. \A d \in Devices : \A f : Has(d, f)' => Has(d, f)
  BY <1>1 DEF Has
<1>3. OneOwner' /\ OneRefresh' /\ Abandoned'
  BY <1>1, <1>2 DEF Owning, OneOwner, OneRefresh, Abandoned
<1> QED  BY <1>3 DEF Owning

LEMMA OwningRefresh ==
  ASSUME Base, Owning, NEW w \in Workers, NEW d \in Devices, refreshBegin(w, d)
  PROVE  Owning'
<1>1. PICK t : t = held[d]
  OBVIOUS
<1>2. /\ Moved(w) /\ call[w] = Idle /\ t \in Tokens /\ family[t] # None /\ noRefreshInFlight(d)
      /\ Renews(call'[w]) /\ call'[w].dev = d /\ call'[w].tok = t
      /\ UNCHANGED <<family, held>> /\ outdated \subseteq outdated'
      /\ tabsAtOnce(d) => family[t] \in outdated'
  BY <1>1, RefreshBegins
<1>3. Kept
  BY <1>2 DEF Kept
<1>4. ASSUME NEW v \in Workers \ {w}
      PROVE  /\ call'[v] = call[v] /\ \A f : On(call[v], f)' <=> On(call[v], f)
             /\ On(call[v], family[t]) /\ call[v].dev = d => family[t] \in outdated'
  <2>1. call'[v] = call[v] /\ \A f : On(call[v], f)' <=> On(call[v], f)
    BY <1>2, <1>3, OnStays DEF Moved
  <2>2. ASSUME On(call[v], family[t]), call[v].dev = d PROVE family[t] \in outdated'
    <3>1. d \notin Phones
      BY <1>2, <2>2 DEF noRefreshInFlight, On
    <3>2. family[held[d]] \in Renewing(call[v])
      BY <1>1, <2>2, RenewingIsOn
    <3> QED  BY <1>2, <2>2, <3>1, <3>2 DEF tabsAtOnce
  <2> QED  BY <2>1, <2>2
<1>5. \A f : On(call[w], f)' <=> family[t] = f
  BY <1>2 DEF On, Renews
<1>6. ASSUME NEW e \in Devices, NEW f \in Tokens, Has(e, f)'
      PROVE  Has(e, f)
  <2>1. CASE held'[e] # None /\ family'[held'[e]] = f
    BY <1>2, <2>1 DEF Has
  <2>2. CASE \E v \in Workers : call'[v].dev = e /\ On(call[v], f)'
    <3>1. PICK v \in Workers : call'[v].dev = e /\ On(call[v], f)'
      BY <2>2
    <3>2. CASE v # w
      BY <1>4, <3>1, <3>2 DEF Has
    <3>3. CASE v = w
      BY <1>1, <1>2, <1>5, <3>1, <3>3, Names DEF Has
    <3> QED  BY <3>2, <3>3
  <2> QED  BY <1>6, <2>1, <2>2 DEF Has
<1>7. OneOwner'
  BY <1>6 DEF Owning, OneOwner
<1>8. OneRefresh'
  <2>1. ASSUME NEW v \in Workers, NEW u \in Workers, NEW f \in Tokens \ outdated',
               On(call[v], f)', On(call[u], f)',
               call'[v].dev = call'[u].dev, call'[v].dev # NoDevice
        PROVE  v = u
    <3>1. CASE v # w /\ u # w
      BY <1>2, <1>4, <2>1, <3>1 DEF Owning, OneRefresh
    <3>2. CASE v = w /\ u # w
      BY <1>2, <1>4, <1>5, <2>1, <3>2
    <3>3. CASE v # w /\ u = w
      BY <1>2, <1>4, <1>5, <2>1, <3>3
    <3> QED  BY <3>1, <3>2, <3>3
  <2> QED  BY <2>1 DEF OneRefresh
<1>9. Abandoned'
  <2>1. ASSUME NEW v \in Workers, call'[v].dev = NoDevice, NEW f, On(call[v], f)'
        PROVE  f \in outdated'
    BY <1>2, <1>4, <2>1, Names DEF Owning, Abandoned
  <2> QED  BY <2>1 DEF Abandoned
<1> QED  BY <1>7, <1>8, <1>9 DEF Owning

LEMMA OwningSignIn ==
  ASSUME Base, Owning, NEW w \in Workers, signIn(w)
  PROVE  Owning'
<1>1. PICK n, d : n = call[w].next /\ d = call[w].dev
  OBVIOUS
<1>2. /\ Moved(w) /\ d \in Devices /\ n \in Tokens /\ family[n] = None
      /\ family'[n] = n /\ \A t \in Tokens : t # n => family'[t] = family[t]
      /\ call'[w] = Idle
      /\ \A e \in Devices : held'[e] = held[e] \/ (e = d /\ held'[e] = n)
      /\ outdated' = outdated
  BY <1>1, SignInDoes
<1>3. Kept
  BY <1>2 DEF Kept
<1>4. ASSUME NEW v \in Workers \ {w}
      PROVE  /\ call'[v] = call[v] /\ \A f : On(call[v], f)' <=> On(call[v], f)
  BY <1>2, <1>3, OnStays DEF Moved
<1>5. \A f : ~On(call[w], f)'
  BY <1>2, IdleCall DEF On
<1>6. ASSUME NEW t \in Tokens, family[t] # None PROVE family[t] # n
  BY <1>2, <1>6 DEF Base, Founded
\* ... nobody has the new family,
<1>7. ASSUME NEW e \in Devices PROVE ~Has(e, n)
  <2>1. held[e] # None => family[held[e]] # n
    BY <1>6 DEF Base, TypeOK, Holding
  <2>2. ASSUME NEW v \in Workers PROVE ~On(call[v], n)
    <3>1. call[v] \in Calls /\ Shaped(call[v])
      BY DEF Base, TypeOK
    <3>2. call[v].pc = "reply" /\ call[v].next # None => family[call[v].next] # n
      BY <1>6, <3>1, CallTypes DEF Shaped
    <3>3. call[v].op = "refresh" /\ call[v].pc # "reply" => family[call[v].tok] # n
      BY <1>6, <3>1, CallTypes DEF Shaped, Renews
    <3> QED  BY <3>2, <3>3 DEF On
  <2> QED  BY <2>1, <2>2 DEF Has
\* ... and only d can get it.
<1>8. ASSUME NEW e \in Devices, NEW f \in Tokens, Has(e, f)'
      PROVE  Has(e, f) \/ (e = d /\ f = n)
  <2>1. CASE held'[e] # None /\ family'[held'[e]] = f
    <3>1. CASE held'[e] = held[e]
      BY <1>3, <2>1, <3>1 DEF Has, Kept, Base, TypeOK, Holding
    <3>2. CASE held'[e] # held[e]
      BY <1>2, <2>1, <3>2
    <3> QED  BY <3>1, <3>2
  <2>2. CASE \E v \in Workers : call'[v].dev = e /\ On(call[v], f)'
    BY <1>4, <1>5, <2>2 DEF Has
  <2> QED  BY <1>8, <2>1, <2>2 DEF Has
<1>9. OneOwner'
  <2>1. ASSUME NEW e \in Devices, NEW g \in Devices, NEW f \in Tokens, Has(e, f)', Has(g, f)'
        PROVE  e = g
    BY <1>7, <1>8, <2>1 DEF Owning, OneOwner
  <2> QED  BY <2>1 DEF OneOwner
<1>10. OneRefresh'
  BY <1>2, <1>4, <1>5 DEF Owning, OneRefresh
<1>11. Abandoned'
  BY <1>2, <1>4, <1>5 DEF Owning, Abandoned
<1> QED  BY <1>9, <1>10, <1>11 DEF Owning

LEMMA OwningInit ==
  ASSUME Init
  PROVE  Owning
<1>1. \A w \in Workers : call[w] = Idle
  BY DEF Init
<1>2. \A w \in Workers : call[w].op # "refresh"
  BY <1>1, IdleCall
<1>3. \A d \in Devices, f \in Tokens : ~Has(d, f)
  BY <1>2 DEF Has, On, Init
<1> QED  BY <1>2, <1>3 DEF Owning, OneOwner, OneRefresh, Abandoned, On

LEMMA OwningStep ==
  ASSUME Base, Owning, [Next]_vars
  PROVE  Owning'
<1>1. ASSUME NEW w \in Workers, deliver(w) \/ giveUp(w) \/ stop(w) PROVE Owning'
  BY <1>1, OwningDelivery, OwningLoss
<1>2. ASSUME NEW w \in Workers, reuse(w) \/ mark(w) \/ inactive(w) PROVE Owning'
  BY <1>2, OwningRefusal, OwningMark
<1>3. ASSUME NEW w \in Workers, issue(w) \/ signIn(w) \/ revokeAll(w) PROVE Owning'
  BY <1>3, OwningIssue, OwningSignIn, OwningOther
<1>4. ASSUME NEW w \in Workers, changePassword(w) \/ softDelete(w) PROVE Owning'
  BY <1>4, OwningOther
<1>5. ASSUME NEW w \in Workers, NEW d \in Devices, refreshBegin(w, d) \/ signInBegin(w, d) PROVE Owning'
  BY <1>5, OwningRefresh, OwningOther
<1>6. ASSUME NEW d \in Devices, signOut(d) \/ revokeOthers(d) PROVE Owning'
  BY <1>6, SigningOutDoes, OwningShrinks
<1>7. CASE setStatus \/ UNCHANGED vars
  BY <1>7, StayingDoes, OwningShrinks DEF Stays
<1> QED  BY <1>1, <1>2, <1>3, <1>4, <1>5, <1>6, <1>7 DEF Next

-----------------------------------------------------------------------------
(* What a replay finds *)

Ended(f) == \A u \in Tokens : family[u] = f => life[u] \in Reasons
Fine(t) == life[t] = "usable" \/ Ended(family[t])

\* A token in use is fine, unless its family is outdated,
CallFine(c) ==
  /\ c.pc = "reuse" => family[c.tok] \in outdated \/ Ended(family[c.tok])
  /\ c.pc = "mark" => family[c.tok] \in outdated \/ Fine(c.tok)
  /\ c.pc = "reply" /\ c.next # None => family[c.next] \in outdated \/ Fine(c.next)

\* ... or its successor is on the way.
Underway(d, f) ==
  \E w \in Workers :
    call[w].dev = d /\ On(call[w], f) /\ call[w].pc \in {"issue", "inactive", "reply"}

DeviceFine(d) ==
  held[d] # None => \/ family[held[d]] \in outdated
                    \/ Fine(held[d])
                    \/ Underway(d, family[held[d]])

Replaying ==
  /\ ReplayHasCause
  /\ \A w \in Workers : CallFine(call[w])
  /\ \A d \in Devices : DeviceFine(d)

\* What is fine stays fine.
StaysFine ==
  /\ \A f \in Tokens : Ended(f) => Ended(f)'
  /\ \A t \in Tokens : family[t] # None /\ Fine(t) => Fine(t)'

LEMMA RevokedStaysFine ==
  ASSUME Base, NEW T, Whole(T), NEW r \in Reasons, life' = revokedFor(T, r), family' = family
  PROVE  StaysFine /\ \A t \in T : Ended(family[t])'
<1>1. /\ \A t \in Tokens : t \notin T => life'[t] = life[t]
      /\ \A t \in T : t \in Tokens /\ life'[t] \in Reasons
  BY Revoked DEF Base
<1>2. \A f : Ended(f) => Ended(f)'
  BY <1>1 DEF Ended
<1>3. \A t \in T : Ended(family[t])'
  BY <1>1 DEF Ended, Whole
<1>4. ASSUME NEW t \in Tokens, Fine(t) PROVE Fine(t)'
  BY <1>1, <1>2, <1>3, <1>4 DEF Fine
<1> QED  BY <1>2, <1>3, <1>4 DEF StaysFine

LEMMA UnchangedStaysFine ==
  ASSUME UNCHANGED <<family, life>>
  PROVE  StaysFine
  BY DEF StaysFine, Fine, Ended

\* A revocation for another reason than reuse.
LEMMA EndingIsNoReplay ==
  ASSUME Base, Replaying, NEW T, Whole(T), life' = revokedFor(T, "ended"), family' = family,
         outdated \subseteq outdated'
  PROVE  ReplayHasCause'
<1>1. "ended" \in Reasons
  BY DEF Reasons
<1>2. /\ \A t \in Tokens : t \notin T => life'[t] = life[t]
      /\ \A t \in T : life[t] \in Reasons => life'[t] = life[t]
      /\ \A t \in T : life[t] \notin Reasons => life'[t] = "ended"
  BY <1>1, Revoked DEF Base
<1> QED  BY <1>2 DEF ReplayHasCause, Replaying

\* A call no step of which was taken.
LEMMA CallStaysFine ==
  ASSUME Base, Replaying, StaysFine, NEW v \in Workers, call'[v] = call[v], family' = family,
         outdated \subseteq outdated'
  PROVE  CallFine(call[v])'
<1>1. call[v] \in Calls /\ Shaped(call[v]) /\ CallFine(call[v])
  BY DEF Base, TypeOK, Replaying
<1>2. CASE call[v].pc \in {"reuse", "mark"}
  <2>1. call[v].tok \in Tokens /\ family[call[v].tok] # None /\ family[call[v].tok] \in Tokens
    BY <1>1, <1>2, AtPoint, CallTypes, FamiliesAreTokens DEF Shaped
  <2> QED  BY <1>1, <1>2, <2>1 DEF CallFine, StaysFine
<1>3. CASE call[v].pc = "reply" /\ call[v].next # None
  <2>1. call[v].next \in Tokens /\ family[call[v].next] # None
    BY <1>1, <1>3, CallTypes DEF Shaped
  <2> QED  BY <1>1, <1>3, <2>1 DEF CallFine, StaysFine
<1> QED  BY <1>2, <1>3 DEF CallFine

LEMMA DeviceStaysFine ==
  ASSUME Base, Replaying, StaysFine, NEW d \in Devices, held'[d] = held[d] \/ held'[d] = None,
         family' = family, outdated \subseteq outdated',
         \A f : Underway(d, f) => f \in outdated' \/ Ended(f)' \/ Underway(d, f)'
  PROVE  DeviceFine(d)'
<1>1. held[d] # None => held[d] \in Tokens /\ family[held[d]] # None
  BY DEF Base, TypeOK, Holding
<1>2. DeviceFine(d)
  BY DEF Replaying
<1>3. CASE held'[d] # None
  <2>1. PICK t, f : t = held[d] /\ f = family[t]
    OBVIOUS
  <2>2. /\ held'[d] = t /\ t # None /\ family'[t] = f /\ t \in Tokens /\ f # None
        /\ f \in outdated \/ Fine(t) \/ Underway(d, f)
    BY <1>1, <1>2, <1>3, <2>1 DEF DeviceFine
  <2>3. Ended(f)' => Fine(t)'
    BY <2>2 DEF Fine
  <2>4. f \in outdated' \/ Fine(t)' \/ Underway(d, f)'
    BY <2>1, <2>2, <2>3 DEF StaysFine
  <2> QED  BY <2>2, <2>4 DEF DeviceFine
<1> QED  BY <1>3 DEF DeviceFine

\* A step of one call that issues nothing and gives no device a token.
LEMMA ReplayingKept ==
  ASSUME Base, Replaying, NEW w \in Workers, Moved(w), family' = family, outdated \subseteq outdated',
         \A d \in Devices : held'[d] = held[d] \/ held'[d] = None, StaysFine,
         ReplayHasCause', CallFine(call[w])',
         call[w].pc \in {"issue", "inactive", "reply"} =>
           \A f : On(call[w], f) => f \in outdated' \/ Ended(f)'
  PROVE  Replaying'
<1>1. Kept
  BY DEF Kept
<1>2. ASSUME NEW v \in Workers \ {w}
      PROVE  call'[v] = call[v] /\ \A f : On(call[v], f)' <=> On(call[v], f)
  BY <1>1, OnStays DEF Moved
<1>3. ASSUME NEW v \in Workers PROVE CallFine(call[v])'
  <2>1. CASE v = w
    BY <2>1
  <2>2. CASE v # w
    BY <1>2, <2>2, CallStaysFine
  <2> QED  BY <2>1, <2>2
<1>4. ASSUME NEW d \in Devices PROVE DeviceFine(d)'
  <2>1. ASSUME NEW f, Underway(d, f) PROVE f \in outdated' \/ Ended(f)' \/ Underway(d, f)'
    BY <1>2, <2>1 DEF Underway
  <2> QED  BY <2>1, DeviceStaysFine
<1> QED  BY <1>3, <1>4 DEF Replaying

LEMMA ReplayingRefusal ==
  ASSUME Base, Replaying, NEW w \in Workers, reuse(w) \/ inactive(w)
  PROVE  Replaying'
<1>1. PICK f, r : /\ f = family[call[w].tok]
                  /\ r = IF reuse(w) THEN "reused" ELSE "ended"
  OBVIOUS
<1>2. /\ Moved(w) /\ Renews(call[w]) /\ call[w].tok \in Tokens /\ f \in Tokens
      /\ Whole(Family(f)) /\ life' = revokedFor(Family(f), r) /\ r \in Reasons
      /\ call'[w] = Idle \/ IsReply(call'[w], call[w].dev, None)
      /\ UNCHANGED <<family, held, outdated>>
  BY <1>1, ReuseDoes, InactiveDoes DEF Reasons
<1>3. StaysFine /\ \A t \in Family(f) : Ended(family[t])'
  BY <1>2, RevokedStaysFine
<1>4. call[w].tok \in Family(f) /\ Ended(f)'
  BY <1>1, <1>2, <1>3, Names DEF Family, Issued
<1>5. CallFine(call[w])'
  BY <1>2, IdleCall DEF CallFine, IsReply
<1>6. \A g : On(call[w], g) => g = f
  BY <1>1, <1>2 DEF On, Renews
<1>7. ReplayHasCause'
  <2>1. CASE reuse(w)
    <3>1. f \in outdated \/ Ended(f)
      BY <1>1, <2>1, ReuseDoes DEF Replaying, CallFine
    <3>2. /\ \A t \in Tokens : t \notin Family(f) => life'[t] = life[t]
          /\ \A t \in Family(f) : life[t] \in Reasons => life'[t] = life[t]
      BY <1>2, Revoked DEF Base
    <3>3. \A t \in Family(f) : t \in Tokens /\ family[t] = f
      BY DEF Family, Issued
    <3>4. ASSUME NEW t \in Tokens, life'[t] = "reused" PROVE family'[t] \in outdated'
      BY <1>2, <3>1, <3>2, <3>3, <3>4 DEF Replaying, ReplayHasCause, Ended
    <3> QED  BY <3>4 DEF ReplayHasCause
  <2>2. CASE ~reuse(w)
    BY <1>1, <1>2, <2>2, EndingIsNoReplay
  <2> QED  BY <2>1, <2>2
<1> QED  BY <1>2, <1>3, <1>4, <1>5, <1>6, <1>7, ReplayingKept

LEMMA ReplayingLoss ==
  ASSUME Base, Replaying, NEW w \in Workers, giveUp(w) \/ stop(w)
  PROVE  Replaying'
<1>1. /\ Moved(w) /\ UNCHANGED <<family, life>> /\ outdated \subseteq outdated'
      /\ \A f : On(call[w], f) => f \in outdated'
      /\ \A d \in Devices : held'[d] = held[d] \/ held'[d] = None
      /\ \/ call'[w] = Idle
         \/ call'[w].pc = call[w].pc /\ call'[w].tok = call[w].tok /\ call'[w].next = call[w].next
  <2>1. CASE giveUp(w)
    BY <2>1, GiveUpDoes
  <2>2. CASE stop(w)
    BY <2>2, StopDoes
  <2> QED  BY <2>1, <2>2
<1>2. StaysFine
  BY <1>1, UnchangedStaysFine
<1>3. CallFine(call[w])'
  <2>1. CASE call'[w] = Idle
    BY <2>1, IdleCall DEF CallFine
  <2>2. CASE call'[w] # Idle
    BY <1>1, <2>2 DEF Replaying, CallFine, Fine, Ended
  <2> QED  BY <2>1, <2>2
<1>4. ReplayHasCause'
  BY <1>1 DEF Replaying, ReplayHasCause
<1> QED  BY <1>1, <1>2, <1>3, <1>4, ReplayingKept

LEMMA ReplayingBegin ==
  ASSUME Base, Replaying, NEW w \in Workers,
         \/ changePassword(w) \/ softDelete(w)
         \/ \E d \in Devices : refreshBegin(w, d) \/ signInBegin(w, d)
  PROVE  Replaying'
<1>1. Moved(w) /\ call[w] = Idle /\ UNCHANGED <<family, life, held>> /\ outdated \subseteq outdated'
  BY EndingBegins, RefreshBegins, SignInBegins
<1>2. StaysFine
  BY <1>1, UnchangedStaysFine
<1>3. ReplayHasCause'
  BY <1>1 DEF Replaying, ReplayHasCause
<1>4. CallFine(call[w])'
  <2>1. CASE changePassword(w) \/ softDelete(w) \/ \E d \in Devices : signInBegin(w, d)
    <3>1. Base' /\ call'[w].op \in {"endAll", "signIn"}
      BY <2>1, EndingBegins, SignInBegins
    <3>2. call'[w] \in Calls /\ Shaped(call[w])'
      BY <3>1 DEF Base, TypeOK
    <3>3. call'[w].pc \in {"revokeAll", "issue"}
      BY <3>1, <3>2 DEF Shaped
    <3> QED  BY <3>3 DEF CallFine
  <2>2. CASE \E d \in Devices : refreshBegin(w, d)
    <3>1. PICK d \in Devices : refreshBegin(w, d)
      BY <2>2
    <3>2. PICK t, f : t = held[d] /\ f = family[t]
      OBVIOUS
    <3>3. /\ t \in Tokens /\ f # None /\ noRefreshInFlight(d) /\ call'[w].tok = t
          /\ \/ call'[w].pc = "reuse" /\ life[t] # "usable"
             \/ call'[w].pc = "mark" /\ life[t] = "usable"
      BY <3>1, <3>2, RefreshBegins
    <3>4. f \in outdated' \/ Fine(t)
      <4>1. ASSUME Underway(d, f) PROVE f \in outdated'
        <5>1. PICK v \in Workers : call[v].dev = d /\ On(call[v], f)
          BY <4>1 DEF Underway
        <5>2. d \notin Phones
          BY <3>3, <5>1 DEF noRefreshInFlight, On
        <5>3. family[held[d]] \in Renewing(call[v])
          BY <3>2, <5>1, RenewingIsOn
        <5> QED  BY <3>1, <3>2, <5>1, <5>2, <5>3, RefreshBegins DEF tabsAtOnce
      <4> QED  BY <1>1, <3>2, <3>3, <4>1, Names DEF Replaying, DeviceFine
    <3>5. call'[w].pc = "reuse" => f \in outdated' \/ Ended(f)'
      BY <1>2, <3>2, <3>3, <3>4, FamiliesAreTokens DEF Fine, StaysFine
    <3>6. call'[w].pc = "mark" => f \in outdated' \/ Fine(t)'
      BY <1>2, <3>2, <3>3, <3>4 DEF StaysFine
    <3>7. call'[w].pc # "reply" /\ family'[t] = f
      BY <1>1, <3>2, <3>3
    <3> QED  BY <3>3, <3>5, <3>6, <3>7 DEF CallFine
  <2> QED  BY <2>1, <2>2
<1>5. call[w].pc \notin {"issue", "inactive", "reply"}
  BY <1>1, IdleCall
<1> QED  BY <1>1, <1>2, <1>3, <1>4, <1>5, ReplayingKept

LEMMA ReplayingRevocation ==
  ASSUME Base, Replaying, NEW w \in Workers, revokeAll(w)
  PROVE  Replaying'
<1>1. /\ Base' /\ Moved(w) /\ Whole(Issued) /\ life' = revokedFor(Issued, "ended")
      /\ call[w].pc = "revokeAll"
      /\ call'[w] = Idle \/ call'[w].op = "signIn"
      /\ UNCHANGED <<family, held, outdated>>
  BY RevokeAllDoes
<1>2. StaysFine
  BY <1>1, RevokedStaysFine DEF Reasons
<1>3. ReplayHasCause'
  BY <1>1, EndingIsNoReplay
<1>4. CallFine(call[w])'
  <2>1. CASE call'[w] = Idle
    BY <2>1, IdleCall DEF CallFine
  <2>2. CASE call'[w].op = "signIn"
    BY <1>1, <2>2 DEF CallFine, Base, Shaped
  <2> QED  BY <1>1, <2>1, <2>2
<1> QED  BY <1>1, <1>2, <1>3, <1>4, ReplayingKept

LEMMA ReplayingSigningOut ==
  ASSUME Base, Replaying, NEW d \in Devices, signOut(d) \/ revokeOthers(d)
  PROVE  Replaying'
<1>1. PICK T : Ends(T)
  BY SigningOutDoes
<1>2. /\ UNCHANGED <<family, call, outdated>>
      /\ \A e \in Devices : held'[e] = held[e] \/ held'[e] = None
      /\ Whole(T) /\ life' = revokedFor(T, "ended")
  BY <1>1, SigningOutDoes DEF Ends
<1>3. StaysFine
  BY <1>2, RevokedStaysFine DEF Reasons
<1>4. ReplayHasCause'
  BY <1>2, EndingIsNoReplay
<1>5. \A v \in Workers : CallFine(call[v])'
  BY <1>2, <1>3, CallStaysFine
<1>6. \A e \in Devices : \A f : Underway(e, f) => Underway(e, f)'
  BY <1>2 DEF Underway, On
<1>7. \A e \in Devices : DeviceFine(e)'
  BY <1>2, <1>3, <1>6, DeviceStaysFine
<1> QED  BY <1>4, <1>5, <1>7 DEF Replaying

LEMMA ReplayingStays ==
  ASSUME Replaying, Stays
  PROVE  Replaying'
<1>1. \A e, f : Underway(e, f)' <=> Underway(e, f)
  BY DEF Underway, On, Stays
<1>2. \A f : Ended(f)' <=> Ended(f)
  BY DEF Ended, Stays
<1>3. \A t : Fine(t)' <=> Fine(t)
  BY <1>2 DEF Fine, Stays
<1>4. ReplayHasCause'
  BY DEF Stays, Replaying, ReplayHasCause
<1>5. \A w \in Workers : CallFine(call[w])'
  BY <1>2, <1>3 DEF Stays, Replaying, CallFine
<1>6. \A d \in Devices : DeviceFine(d)'
  BY <1>1, <1>3 DEF Stays, Replaying, DeviceFine
<1> QED  BY <1>4, <1>5, <1>6 DEF Replaying

\* A family that is not outdated is renewed by one call at a time,
\* and the device that waits for it is the only one to have the family.
LEMMA Sole ==
  ASSUME Owning, NEW w \in Workers, NEW f \in Tokens \ outdated, On(call[w], f), call[w] \in Calls
  PROVE  /\ call[w].dev \in Devices
         /\ \A e \in Devices : Has(e, f) => e = call[w].dev
         /\ \A v \in Workers : call[v] \in Calls /\ On(call[v], f) => v = w
<1>1. ASSUME NEW v \in Workers, On(call[v], f), call[v] \in Calls
      PROVE  call[v].dev \in Devices /\ Has(call[v].dev, f)
  BY <1>1, CallTypes DEF Owning, Abandoned, Has
<1>2. call[w].dev \in Devices /\ \A e \in Devices : Has(e, f) => e = call[w].dev
  BY <1>1 DEF Owning, OneOwner
<1>3. ASSUME NEW v \in Workers, On(call[v], f), call[v] \in Calls
      PROVE  v = w
  BY <1>1, <1>2, <1>3, Names DEF Owning, OneRefresh, On
<1> QED  BY <1>2, <1>3

LEMMA ReplayingMark ==
  ASSUME Base, Owning, Replaying, NEW w \in Workers, mark(w)
  PROVE  Replaying'
<1>1. PICK t, f : t = call[w].tok /\ f = family[t]
  OBVIOUS
<1>2. /\ Moved(w) /\ Renews(call[w]) /\ call[w].pc = "mark" /\ t \in Tokens /\ f \in Tokens
      /\ \A u \in Tokens : u # t => life'[u] = life[u]
      /\ life[t] = "usable" => life'[t] = "rotated"
      /\ life[t] # "usable" => life'[t] = life[t]
      /\ call'[w].op = "refresh" /\ call'[w].pc \in {"issue", "inactive"}
      /\ call'[w].dev = call[w].dev /\ call'[w].tok = t
      /\ UNCHANGED <<family, held, outdated>>
  BY <1>1, MarkDoes
<1>3. On(call[w], f) /\ On(call[w], f)' /\ call[w] \in Calls
  BY <1>1, <1>2 DEF On, Renews, Base, TypeOK
<1>4. Kept
  BY <1>2 DEF Kept
<1>5. ASSUME NEW v \in Workers \ {w}
      PROVE  call'[v] = call[v] /\ \A g : On(call[v], g)' <=> On(call[v], g)
  BY <1>2, <1>4, OnStays DEF Moved
<1>6. \A g : Ended(g) => Ended(g)'
  BY <1>2 DEF Ended, Reasons
<1>7. \A u \in Tokens : u # t /\ Fine(u) => Fine(u)'
  BY <1>2, <1>6 DEF Fine
\* ... where the family is not outdated, nobody else has the token,
<1>8. ASSUME f \notin outdated
      PROVE  /\ call[w].dev \in Devices /\ \A e \in Devices : Has(e, f) => e = call[w].dev
             /\ \A v \in Workers \ {w} : ~On(call[v], f)
  BY <1>2, <1>3, <1>8, Sole DEF Base, TypeOK
\* ... and whoever had it waits for the answer.
<1>9. ASSUME NEW v \in Workers PROVE CallFine(call[v])'
  <2>1. CASE v = w
    BY <1>2, <2>1 DEF CallFine
  <2>2. CASE v # w
    <3>1. call'[v] = call[v] /\ CallFine(call[v]) /\ call[v] \in Calls /\ Shaped(call[v])
      BY <1>5, <2>2 DEF Replaying, Base, TypeOK
    <3>2. CASE call[v].pc \in {"reuse", "mark"}
      <4>1. Renews(call[v]) /\ call[v].tok \in Tokens
        BY <3>1, <3>2, AtPoint, CallTypes DEF Shaped
      <4>2. call[v].tok = t => f \in outdated
        BY <1>1, <1>8, <2>2, <4>1 DEF On, Renews
      <4> QED  BY <1>1, <1>2, <1>6, <1>7, <3>1, <3>2, <4>1, <4>2 DEF CallFine
    <3>3. CASE call[v].pc = "reply" /\ call[v].next # None
      <4>1. call[v].op = "refresh" /\ call[v].next \in Tokens
        BY <3>1, <3>3, AtPoint, CallTypes
      <4>2. call[v].next = t => f \in outdated
        BY <1>1, <1>8, <2>2, <3>3, <4>1 DEF On
      <4> QED  BY <1>1, <1>2, <1>7, <3>1, <3>3, <4>1, <4>2 DEF CallFine
    <3> QED  BY <3>1, <3>2, <3>3 DEF CallFine
  <2> QED  BY <2>1, <2>2
<1>10. \A e \in Devices : \A g : Underway(e, g) => Underway(e, g)'
  <2>1. ASSUME NEW e \in Devices, NEW g, Underway(e, g) PROVE Underway(e, g)'
    <3>1. PICK v \in Workers : /\ call[v].dev = e /\ On(call[v], g)
                               /\ call[v].pc \in {"issue", "inactive", "reply"}
      BY <2>1 DEF Underway
    <3>2. v # w
      BY <1>2, <3>1
    <3> QED  BY <1>5, <3>1, <3>2 DEF Underway
  <2> QED  BY <2>1
<1>11. ASSUME NEW e \in Devices PROVE DeviceFine(e)'
  <2>1. CASE held[e] = None
    BY <1>2, <2>1 DEF DeviceFine
  <2>2. CASE held[e] # None /\ held[e] # t
    <3>1. held[e] \in Tokens /\ DeviceFine(e)
      BY <2>2 DEF Base, TypeOK, Replaying
    <3> QED  BY <1>2, <1>7, <1>10, <2>2, <3>1 DEF DeviceFine
  <2>3. CASE held[e] = t /\ t # None
    <3>1. CASE f \in outdated
      BY <1>1, <1>2, <2>3, <3>1 DEF DeviceFine
    <3>2. CASE f \notin outdated
      <4>1. e = call[w].dev
        BY <1>1, <1>8, <2>3, <3>2 DEF Has
      <4>2. Underway(e, f)'
        BY <1>2, <1>3, <4>1 DEF Underway
      <4> QED  BY <1>1, <1>2, <2>3, <4>2 DEF DeviceFine
    <3> QED  BY <3>1, <3>2
  <2> QED  BY <2>1, <2>2, <2>3
<1>12. ReplayHasCause'
  BY <1>2 DEF Replaying, ReplayHasCause
<1> QED  BY <1>9, <1>11, <1>12 DEF Replaying

\* A token n is issued in the family f.
LEMMA IssuedFine ==
  ASSUME Base, NEW n \in Tokens, NEW f \in Tokens, family[n] = None, family'[n] = f,
         \A t \in Tokens : t # n => family'[t] = family[t], life' = life
  PROVE  /\ \A g \in Tokens : g # f /\ Ended(g) => Ended(g)'
         /\ \A t \in Tokens : t # n /\ family[t] # f /\ Fine(t) => Fine(t)'
         /\ Fine(n)'
<1>1. \A g \in Tokens : g # f /\ Ended(g) => Ended(g)'
  BY DEF Ended
<1>2. life'[n] = "usable"
  BY DEF Base, Founded
<1>3. \A t \in Tokens : t # n /\ family[t] # f /\ family[t] # None /\ Fine(t) => Fine(t)'
  BY <1>1, FamiliesAreTokens DEF Fine
<1>4. \A t \in Tokens : family[t] = None => life'[t] = "usable"
  BY DEF Base, Founded
<1> QED  BY <1>1, <1>2, <1>3, <1>4 DEF Fine

\* ... which nobody else has, or which is outdated.
LEMMA ReplayingIssued ==
  ASSUME Base, Replaying, NEW w \in Workers, Moved(w),
         NEW n \in Tokens, NEW f \in Tokens, family[n] = None, family'[n] = f,
         \A t \in Tokens : t # n => family'[t] = family[t],
         UNCHANGED <<life, outdated>>,
         f \notin outdated => \A v \in Workers \ {w} : ~On(call[v], f),
         CallFine(call[w])', \A d \in Devices : DeviceFine(d)'
  PROVE  Replaying'
<1>1. /\ \A g \in Tokens : g # f /\ Ended(g) => Ended(g)'
      /\ \A t \in Tokens : t # n /\ family[t] # f /\ Fine(t) => Fine(t)'
  BY IssuedFine
<1>2. ASSUME NEW v \in Workers PROVE CallFine(call[v])'
  <2>1. CASE v = w
    BY <2>1
  <2>2. CASE v # w
    <3>1. call'[v] = call[v] /\ CallFine(call[v]) /\ call[v] \in Calls /\ Shaped(call[v])
      BY <2>2 DEF Moved, Replaying, Base, TypeOK
    <3>2. CASE call[v].pc \in {"reuse", "mark"}
      <4>1. PICK t, g : t = call[v].tok /\ g = family[t]
        OBVIOUS
      <4>2. Renews(call[v]) /\ t \in Tokens /\ g # None /\ t # n
        BY <3>1, <3>2, <4>1, AtPoint, CallTypes DEF Shaped
      <4>3. g \in Tokens /\ family'[t] = g /\ On(call[v], g)
        BY <4>1, <4>2, FamiliesAreTokens DEF On, Renews
      <4>4. CASE g = f
        BY <2>2, <3>1, <3>2, <4>1, <4>3, <4>4 DEF CallFine
      <4>5. CASE g # f
        BY <1>1, <3>1, <3>2, <4>1, <4>2, <4>3, <4>5 DEF CallFine
      <4> QED  BY <4>4, <4>5
    <3>3. CASE call[v].pc = "reply" /\ call[v].next # None
      <4>1. PICK t, g : t = call[v].next /\ g = family[t]
        OBVIOUS
      <4>2. call[v].op = "refresh" /\ t \in Tokens /\ g # None /\ t # n
        BY <3>1, <3>3, <4>1, AtPoint, CallTypes DEF Shaped
      <4>3. g \in Tokens /\ family'[t] = g /\ On(call[v], g)
        BY <3>3, <4>1, <4>2, FamiliesAreTokens DEF On
      <4>4. CASE g = f
        BY <2>2, <3>1, <3>3, <4>1, <4>3, <4>4 DEF CallFine
      <4>5. CASE g # f
        BY <1>1, <3>1, <3>3, <4>1, <4>2, <4>3, <4>5 DEF CallFine
      <4> QED  BY <4>4, <4>5
    <3> QED  BY <3>1, <3>2, <3>3 DEF CallFine
  <2> QED  BY <2>1, <2>2
<1>3. ReplayHasCause'
  <2>1. ASSUME NEW t \in Tokens, life'[t] = "reused" PROVE family'[t] \in outdated'
    <3>1. t # n
      BY <2>1 DEF Base, Founded
    <3> QED  BY <2>1, <3>1 DEF Replaying, ReplayHasCause
  <2> QED  BY <2>1 DEF ReplayHasCause
<1> QED  BY <1>2, <1>3 DEF Replaying

\* A device that has another family.
LEMMA OtherDeviceFine ==
  ASSUME Base, Replaying, NEW w \in Workers, Moved(w), NEW n \in Tokens, NEW f \in Tokens,
         family[n] = None, family'[n] = f, \A t \in Tokens : t # n => family'[t] = family[t],
         UNCHANGED <<life, outdated>>, NEW d \in Devices, held'[d] = held[d],
         held[d] # None => family[held[d]] # f,
         \A g : On(call[w], g) => g = f
  PROVE  DeviceFine(d)'
<1>1. CASE held[d] = None
  BY <1>1 DEF DeviceFine
<1>2. CASE held[d] # None
  <2>1. PICK t, g : t = held[d] /\ g = family[t]
    OBVIOUS
  <2>2. t \in Tokens /\ g # None /\ t # n /\ g # f /\ t # None
    BY <1>2, <2>1 DEF Base, TypeOK, Holding
  <2>3. g \in outdated \/ Fine(t) \/ Underway(d, g)
    BY <1>2, <2>1 DEF Replaying, DeviceFine
  <2>4. Fine(t) => Fine(t)'
    BY <2>1, <2>2, IssuedFine
  <2>5. Underway(d, g) => Underway(d, g)'
    <3>1. ASSUME NEW v \in Workers, On(call[v], g) PROVE call'[v] = call[v] /\ On(call[v], g)'
      <4>1. v # w
        BY <2>2, <3>1
      <4>2. call'[v] = call[v] /\ Kept
        BY <4>1 DEF Moved, Kept
      <4> QED  BY <3>1, <4>2, OnStays
    <3> QED  BY <3>1 DEF Underway
  <2> QED  BY <2>1, <2>2, <2>3, <2>4, <2>5 DEF DeviceFine
<1> QED  BY <1>1, <1>2

LEMMA ReplayingIssue ==
  ASSUME Base, Owning, Replaying, NEW w \in Workers, issue(w)
  PROVE  Replaying'
<1>1. PICK n, d, f : n = call[w].next /\ d = call[w].dev /\ f = family[call[w].tok]
  OBVIOUS
<1>2. /\ Moved(w) /\ Renews(call[w]) /\ f \in Tokens /\ n \in Tokens /\ family[n] = None
      /\ family'[n] = f /\ \A t \in Tokens : t # n => family'[t] = family[t]
      /\ d = NoDevice => call'[w] = Idle
      /\ d # NoDevice => IsReply(call'[w], d, n)
      /\ UNCHANGED <<life, held, outdated>>
  BY <1>1, IssueDoes
<1>3. On(call[w], f) /\ call[w] \in Calls /\ \A g : On(call[w], g) => g = f
  BY <1>1, <1>2 DEF On, Renews, Base, TypeOK
<1>4. ASSUME f \notin outdated
      PROVE  /\ d \in Devices /\ \A e \in Devices : Has(e, f) => e = d
             /\ \A v \in Workers \ {w} : ~On(call[v], f)
  BY <1>1, <1>2, <1>3, <1>4, Sole DEF Base, TypeOK
<1>5. Fine(n)'
  BY <1>2, IssuedFine
<1>6. CallFine(call[w])'
  BY <1>2, <1>5, IdleCall DEF CallFine, IsReply
<1>7. ASSUME NEW e \in Devices PROVE DeviceFine(e)'
  <2>1. CASE held[e] # None => family[held[e]] # f
    BY <1>2, <1>3, <2>1, OtherDeviceFine
  <2>2. CASE held[e] # None /\ family[held[e]] = f
    <3>1. family'[held'[e]] = f
      BY <1>2, <2>2 DEF Base, TypeOK, Holding
    <3>2. CASE f \in outdated
      BY <1>2, <3>1, <3>2 DEF DeviceFine
    <3>3. CASE f \notin outdated
      <4>1. e = d /\ d # NoDevice
        BY <1>4, <2>2, <3>3, Names DEF Has
      <4>2. Underway(e, f)'
        BY <1>2, <4>1, Names DEF Underway, On, IsReply
      <4> QED  BY <3>1, <4>2 DEF DeviceFine
    <3> QED  BY <3>2, <3>3
  <2> QED  BY <2>1, <2>2
<1> QED  BY <1>2, <1>4, <1>6, <1>7, ReplayingIssued

LEMMA ReplayingSignIn ==
  ASSUME Base, Replaying, NEW w \in Workers, signIn(w)
  PROVE  Replaying'
<1>1. PICK n, d : n = call[w].next /\ d = call[w].dev
  OBVIOUS
<1>2. /\ Moved(w) /\ call[w].op = "signIn" /\ n \in Tokens /\ family[n] = None
      /\ family'[n] = n /\ \A t \in Tokens : t # n => family'[t] = family[t]
      /\ \A v \in Workers \ {w} : call[v].next # n
      /\ \A v \in Workers : call[v].tok # n
      /\ call'[w] = Idle
      /\ \A e \in Devices : held'[e] = held[e] \/ (e = d /\ held'[e] = n)
      /\ UNCHANGED <<life, outdated>>
  BY <1>1, SignInDoes
<1>3. ASSUME NEW t \in Tokens, family[t] # None PROVE family[t] # n
  BY <1>2, <1>3 DEF Base, Founded
<1>4. ASSUME NEW v \in Workers PROVE ~On(call[v], n)
  <2>1. call[v] \in Calls /\ Shaped(call[v])
    BY DEF Base, TypeOK
  <2>2. call[v].pc = "reply" /\ call[v].next # None => family[call[v].next] # n
    BY <1>3, <2>1, CallTypes DEF Shaped
  <2>3. call[v].op = "refresh" /\ call[v].pc # "reply" => family[call[v].tok] # n
    BY <1>3, <2>1, CallTypes DEF Shaped, Renews
  <2> QED  BY <2>2, <2>3 DEF On
<1>5. Fine(n)'
  BY <1>2, IssuedFine
<1>6. CallFine(call[w])'
  BY <1>2, IdleCall DEF CallFine
<1>7. \A g : ~On(call[w], g)
  BY <1>2 DEF On
<1>8. ASSUME NEW e \in Devices PROVE DeviceFine(e)'
  <2>1. CASE held'[e] = held[e]
    <3>1. held[e] # None => family[held[e]] # n
      BY <1>3 DEF Base, TypeOK, Holding
    <3> QED  BY <1>2, <1>7, <2>1, <3>1, OtherDeviceFine
  <2>2. CASE held'[e] = n
    BY <1>5, <2>2 DEF DeviceFine
  <2> QED  BY <1>2, <2>1, <2>2
<1> QED  BY <1>2, <1>4, <1>6, <1>8, ReplayingIssued

LEMMA ReplayingDelivery ==
  ASSUME Base, Replaying, NEW w \in Workers, deliver(w)
  PROVE  Replaying'
<1>1. PICK n, d : n = call[w].next /\ d = call[w].dev
  OBVIOUS
<1>2. /\ Moved(w) /\ call[w].op = "refresh" /\ call[w].pc = "reply" /\ d \in Devices
      /\ call'[w] = Idle /\ n \in Tokens \cup {None}
      /\ \A e \in Devices : e # d => held'[e] = held[e]
      /\ held'[d] = n \/ (n = None /\ held'[d] = held[d])
      /\ UNCHANGED <<family, life, outdated>>
  BY <1>1, DeliverDoes
<1>3. StaysFine
  BY <1>2, UnchangedStaysFine
<1>4. ASSUME NEW v \in Workers \ {w} PROVE call'[v] = call[v]
  BY <1>2 DEF Moved
<1>5. CallFine(call[w])'
  BY <1>2, IdleCall DEF CallFine
<1>6. ASSUME NEW v \in Workers PROVE CallFine(call[v])'
  <2>1. CASE v = w
    BY <1>5, <2>1
  <2>2. CASE v # w
    BY <1>2, <1>3, <1>4, <2>2, CallStaysFine
  <2> QED  BY <2>1, <2>2
<1>7. ASSUME NEW e \in Devices, e # d \/ n = None
      PROVE  \A f : Underway(e, f) => Underway(e, f)'
  <2>1. ASSUME NEW f, Underway(e, f) PROVE Underway(e, f)'
    <3>1. PICK v \in Workers : /\ call[v].dev = e /\ On(call[v], f)
                               /\ call[v].pc \in {"issue", "inactive", "reply"}
      BY <2>1 DEF Underway
    <3>2. v # w
      BY <1>1, <1>2, <1>7, <3>1 DEF On
    <3>3. call'[v] = call[v] /\ On(call[v], f)'
      BY <1>2, <1>4, <3>1, <3>2 DEF On
    <3> QED  BY <3>1, <3>3 DEF Underway
  <2> QED  BY <2>1
<1>8. ASSUME NEW e \in Devices PROVE DeviceFine(e)'
  <2>1. CASE e # d \/ n = None
    <3>1. held'[e] = held[e] \/ held'[e] = None
      BY <1>2, <2>1
    <3> QED  BY <1>2, <1>3, <1>7, <2>1, <3>1, DeviceStaysFine
  <2>2. CASE e = d /\ n # None
    <3>1. held'[e] = n /\ (family[n] \in outdated \/ Fine(n))
      BY <1>1, <1>2, <2>2 DEF Replaying, CallFine
    <3>2. family[n] # None /\ n \in Tokens
      BY <1>1, <1>2, <2>2, DeliverDoes
    <3> QED  BY <1>2, <1>3, <3>1, <3>2 DEF DeviceFine, StaysFine
  <2> QED  BY <2>1, <2>2
<1>9. ReplayHasCause'
  BY <1>2 DEF Replaying, ReplayHasCause
<1> QED  BY <1>6, <1>8, <1>9 DEF Replaying

LEMMA ReplayingInit ==
  ASSUME Init
  PROVE  Replaying
<1>1. \A w \in Workers : call[w] = Idle
  BY DEF Init
<1>2. \A w \in Workers : CallFine(call[w])
  BY <1>1, IdleCall DEF CallFine
<1>3. \A d \in Devices : DeviceFine(d)
  BY DEF Init, DeviceFine
<1>4. ReplayHasCause
  BY DEF Init, ReplayHasCause
<1> QED  BY <1>2, <1>3, <1>4 DEF Replaying

LEMMA ReplayingStep ==
  ASSUME Base, Owning, Replaying, [Next]_vars
  PROVE  Replaying'
<1>1. ASSUME NEW w \in Workers, deliver(w) \/ giveUp(w) \/ stop(w) PROVE Replaying'
  BY <1>1, ReplayingDelivery, ReplayingLoss
<1>2. ASSUME NEW w \in Workers, reuse(w) \/ mark(w) \/ inactive(w) PROVE Replaying'
  BY <1>2, ReplayingRefusal, ReplayingMark
<1>3. ASSUME NEW w \in Workers, issue(w) \/ signIn(w) \/ revokeAll(w) PROVE Replaying'
  BY <1>3, ReplayingIssue, ReplayingSignIn, ReplayingRevocation
<1>4. ASSUME NEW w \in Workers, changePassword(w) \/ softDelete(w) PROVE Replaying'
  BY <1>4, ReplayingBegin
<1>5. ASSUME NEW w \in Workers, NEW d \in Devices, refreshBegin(w, d) \/ signInBegin(w, d)
      PROVE  Replaying'
  BY <1>5, ReplayingBegin
<1>6. ASSUME NEW d \in Devices, signOut(d) \/ revokeOthers(d) PROVE Replaying'
  BY <1>6, ReplayingSigningOut
<1>7. CASE setStatus \/ UNCHANGED vars
  BY <1>7, StayingDoes, ReplayingStays
<1> QED  BY <1>1, <1>2, <1>3, <1>4, <1>5, <1>6, <1>7 DEF Next

-----------------------------------------------------------------------------
(* A family that one call at a time works on *)

Touches(c, f) ==
  /\ c.pc \notin {"idle", "reply"}
  /\ \/ Sweeping(c)
     \/ c.op = "refresh" /\ family[c.tok] = f
     \/ c.op = "signIn" /\ c.next = f

AtOnce ==
  \A f \in Families \ disturbed, w, v \in Workers :
    Touches(call[w], f) /\ Touches(call[v], f) => w = v

Admins == \A w \in Workers : call[w].op = "signIn" /\ call[w].pc = "revokeAll" => superAdmin

Alone == AtOnce /\ Admins

LEMMA FamiliesAre ==
  /\ \A t \in Tokens : family[t] # None => family[t] \in Families
  /\ \A w \in Workers : call[w].op = "signIn" /\ call[w].next \in Tokens => call[w].next \in Families
  BY DEF Families, Issued

LEMMA TouchedIsBusy ==
  ASSUME NEW F, NEW f \in F, NEW v \in Workers, Touches(call[v], f)
  PROVE  f \in Busy(F)
  BY DEF Touches, Busy, Working

LEMMA TouchStays ==
  ASSUME Base, NEW v \in Workers, call'[v] = call[v], Kept, superAdmin' = superAdmin
  PROVE  \A f : Touches(call[v], f)' <=> Touches(call[v], f)
<1>1. Renews(call[v]) => family'[call[v].tok] = family[call[v].tok]
  BY OnStays
<1> QED  BY <1>1 DEF Touches, Renews, Sweeping

\* What families there are after a step of one call.
LEMMA FamiliesAfter ==
  ASSUME NEW w \in Workers, Moved(w), NEW F,
         \A t \in Tokens : family'[t] # None => family'[t] \in F,
         call'[w].op = "signIn" /\ call'[w].next \in Tokens => call'[w].next \in F,
         Families \subseteq F
  PROVE  Families' \subseteq F
<1>1. Families' = {family'[t] : t \in Issued'}
        \cup {n \in Tokens : \E v \in Workers : call'[v].op = "signIn" /\ call'[v].next = n}
  BY DEF Families
<1>2. \A t \in Issued' : family'[t] \in F
  BY DEF Issued
<1>3. ASSUME NEW v \in Workers, call'[v].op = "signIn", call'[v].next \in Tokens
      PROVE  call'[v].next \in F
  <2>1. CASE v = w
    BY <1>3, <2>1
  <2>2. CASE v # w
    BY <1>3, <2>2, FamiliesAre DEF Moved
  <2> QED  BY <2>1, <2>2
<1> QED  BY <1>1, <1>2, <1>3

\* A call goes on, or is over.
LEMMA AloneKept ==
  ASSUME Base, Alone, NEW w \in Workers, Moved(w), Kept, superAdmin' = superAdmin,
         disturbed \subseteq disturbed',
         \A t \in Tokens : family'[t] # None => family'[t] \in Families,
         call'[w].op = "signIn" =>
           /\ call[w].op = "signIn" /\ call'[w].next = call[w].next
           /\ call'[w].pc = "revokeAll" => superAdmin,
         \A f : Touches(call[w], f)' => Touches(call[w], f)
  PROVE  Alone'
<1>1. Families' \subseteq Families
  BY FamiliesAfter, FamiliesAre
<1>2. ASSUME NEW v \in Workers PROVE \A f : Touches(call[v], f)' => Touches(call[v], f)
  <2>1. CASE v = w
    BY <2>1
  <2>2. CASE v # w
    BY <2>2, TouchStays DEF Moved
  <2> QED  BY <2>1, <2>2
<1>3. AtOnce'
  <2>1. ASSUME NEW f \in Families' \ disturbed', NEW u \in Workers, NEW v \in Workers,
               Touches(call[u], f)', Touches(call[v], f)'
        PROVE  u = v
    BY <1>1, <1>2, <2>1 DEF Alone, AtOnce
  <2> QED  BY <2>1 DEF AtOnce
<1>4. Admins'
  BY DEF Alone, Admins, Moved
<1> QED  BY <1>3, <1>4 DEF Alone

\* A call begins to work on the families F.
LEMMA AloneBegins ==
  ASSUME Base, Alone, NEW w \in Workers, Moved(w), family' = family, superAdmin' = superAdmin,
         NEW F, Entered(F), Families' \subseteq Families \cup F,
         \A f \in Families' : Touches(call[w], f)' => f \in F,
         call'[w].op = "signIn" /\ call'[w].pc = "revokeAll" => superAdmin
  PROVE  Alone'
<1>1. disturbed' = disturbed \cup Busy(F) /\ Kept
  BY DEF Entered, Kept
<1>2. ASSUME NEW v \in Workers \ {w} PROVE \A f : Touches(call[v], f)' => Touches(call[v], f)
  BY <1>1, TouchStays DEF Moved
<1>3. AtOnce'
  <2>1. ASSUME NEW f \in Families' \ disturbed', NEW u \in Workers, NEW v \in Workers,
               Touches(call[u], f)', Touches(call[v], f)', u # v
        PROVE  FALSE
    <3>1. CASE f \in F
      <4>1. PICK x \in {u, v} : x # w
        BY <2>1
      <4>2. Touches(call[x], f)
        BY <1>2, <2>1, <4>1
      <4> QED  BY <1>1, <2>1, <3>1, <4>1, <4>2, TouchedIsBusy
    <3>2. CASE f \notin F
      <4>1. f \in Families /\ u # w /\ v # w
        BY <2>1, <3>2
      <4> QED  BY <1>1, <1>2, <2>1, <4>1 DEF Alone, AtOnce
    <3> QED  BY <3>1, <3>2
  <2> QED  BY <2>1 DEF AtOnce
<1>4. Admins'
  BY DEF Alone, Admins, Moved
<1> QED  BY <1>3, <1>4 DEF Alone

LEMMA AloneBegin ==
  ASSUME Base, Alone, NEW w \in Workers,
         \/ changePassword(w) \/ softDelete(w)
         \/ \E d \in Devices : refreshBegin(w, d) \/ signInBegin(w, d)
  PROVE  Alone'
<1>1. CASE changePassword(w) \/ softDelete(w)
  <2>1. Moved(w) /\ call'[w].op = "endAll" /\ UNCHANGED <<family, superAdmin>> /\ Entered(Families)
    BY <1>1, EndingBegins
  <2>2. Families' \subseteq Families
    BY <2>1, FamiliesAfter, FamiliesAre
  <2> QED  BY <2>1, <2>2, AloneBegins
<1>2. CASE \E d \in Devices : refreshBegin(w, d)
  <2>1. PICK d \in Devices : refreshBegin(w, d)
    BY <1>2
  <2>2. PICK f : f = family[held[d]]
    OBVIOUS
  <2>3. /\ Moved(w) /\ Renews(call'[w]) /\ call'[w].tok = held[d]
        /\ UNCHANGED <<family, superAdmin>> /\ Entered({f})
    BY <2>1, <2>2, RefreshBegins
  <2>4. Families' \subseteq Families
    BY <2>3, FamiliesAfter, FamiliesAre DEF Renews
  <2>5. \A g : Touches(call[w], g)' => g = f
    BY <2>2, <2>3 DEF Touches, Renews, Sweeping
  <2> QED  BY <2>3, <2>4, <2>5, AloneBegins DEF Renews
<1>3. CASE \E d \in Devices : signInBegin(w, d)
  <2>1. PICK n, F : n = call'[w].next /\ F = IF superAdmin THEN Families \cup {n} ELSE {n}
    OBVIOUS
  <2>2. /\ Moved(w) /\ call'[w].op = "signIn" /\ call'[w].next = n /\ n \in F
        /\ call'[w].pc = "revokeAll" => superAdmin
        /\ UNCHANGED <<family, superAdmin>> /\ Entered(F)
    BY <1>3, <2>1, SignInBegins
  <2>3. Families' \subseteq Families \cup F
    BY <2>2, FamiliesAfter, FamiliesAre
  <2>4. \A f \in Families' : Touches(call[w], f)' => f \in F
    BY <2>1, <2>2, <2>3 DEF Touches, Sweeping
  <2> QED  BY <2>2, <2>3, <2>4, AloneBegins
<1> QED  BY <1>1, <1>2, <1>3

LEMMA AloneOver ==
  ASSUME Base, Alone, NEW w \in Workers, Moved(w), Kept, superAdmin' = superAdmin,
         disturbed' = disturbed,
         \A t \in Tokens : family'[t] # None => family'[t] \in Families,
         call'[w] = Idle \/ (call'[w].op = "refresh" /\ call'[w].pc = "reply")
  PROVE  Alone'
<1>1. \A f : ~Touches(call[w], f)'
  BY IdleCall DEF Touches
<1> QED  BY <1>1, IdleCall, AloneKept

LEMMA AloneGoesOn ==
  ASSUME Base, Alone, NEW w \in Workers,
         \/ reuse(w) \/ mark(w) \/ inactive(w) \/ revokeAll(w)
         \/ deliver(w) \/ giveUp(w) \/ stop(w)
  PROVE  Alone'
<1>1. CASE reuse(w) \/ inactive(w) \/ deliver(w) \/ stop(w)
  <2>1. /\ Moved(w) /\ UNCHANGED <<family, superAdmin, disturbed>>
        /\ call'[w] = Idle \/ IsReply(call'[w], call[w].dev, None)
    <3>1. CASE reuse(w)
      BY <3>1, ReuseDoes
    <3>2. CASE inactive(w)
      BY <3>2, InactiveDoes
    <3>3. CASE deliver(w)
      BY <3>3, DeliverDoes
    <3>4. CASE stop(w)
      BY <3>4, StopDoes
    <3> QED  BY <1>1, <3>1, <3>2, <3>3, <3>4
  <2>2. Kept /\ \A t \in Tokens : family'[t] # None => family'[t] \in Families
    BY <2>1, FamiliesAre DEF Kept
  <2> QED  BY <2>1, <2>2, AloneOver DEF IsReply
<1>2. CASE mark(w) \/ revokeAll(w) \/ giveUp(w)
  <2>1. /\ Moved(w) /\ UNCHANGED <<family, superAdmin, disturbed>>
        /\ \/ call'[w] = Idle
           \/ /\ call'[w].op = call[w].op /\ call'[w].tok = call[w].tok
              /\ call'[w].next = call[w].next \/ call[w].op = "refresh"
              /\ call'[w].pc # "revokeAll" /\ call[w].pc \notin {"idle", "reply"}
    <3>1. CASE mark(w)
      BY <3>1, MarkDoes DEF Renews
    <3>2. CASE revokeAll(w)
      <4>1. /\ Moved(w) /\ UNCHANGED <<family, superAdmin, disturbed>>
            /\ call[w].pc = "revokeAll" /\ Base'
            /\ \/ call'[w] = Idle
               \/ /\ call'[w].op = "signIn" /\ call[w].op = "signIn"
                  /\ call'[w].next = call[w].next /\ call'[w].pc = "issue"
        BY <3>2, RevokeAllDoes
      <4>2. call'[w].op = "signIn" /\ call[w].op = "signIn" => call'[w].tok = call[w].tok
        BY <4>1 DEF Base, Shaped, Renews
      <4> QED  BY <4>1, <4>2
    <3>3. CASE giveUp(w)
      <4>1. /\ Moved(w) /\ UNCHANGED <<family, superAdmin, disturbed>> /\ Shaped(call[w])
            /\ \/ call'[w] = Idle
               \/ /\ Renews(call[w])
                  /\ call'[w].op = "refresh" /\ call'[w].pc = call[w].pc
                  /\ call'[w].tok = call[w].tok /\ call'[w].next = call[w].next
        BY <3>3, GiveUpDoes DEF Base
      <4>2. Renews(call[w]) => call[w].op = "refresh" /\ call[w].pc \notin {"idle", "reply", "revokeAll"}
        BY <4>1 DEF Shaped, Renews
      <4> QED  BY <4>1, <4>2
    <3> QED  BY <1>2, <3>1, <3>2, <3>3
  <2>2. Kept /\ \A t \in Tokens : family'[t] # None => family'[t] \in Families
    BY <2>1, FamiliesAre DEF Kept
  <2>3. \A f : Touches(call[w], f)' => Touches(call[w], f)
    BY <2>1, IdleCall DEF Touches, Sweeping
  <2>4. call'[w].op = "signIn" =>
           /\ call[w].op = "signIn" /\ call'[w].next = call[w].next
           /\ call'[w].pc = "revokeAll" => superAdmin
    BY <2>1, IdleCall
  <2> QED  BY <2>1, <2>2, <2>3, <2>4, AloneKept
<1> QED  BY <1>1, <1>2

LEMMA AloneIssue ==
  ASSUME Base, Alone, NEW w \in Workers, issue(w) \/ signIn(w)
  PROVE  Alone'
<1>1. PICK n : n = call[w].next
  OBVIOUS
<1>2. /\ Moved(w) /\ n \in Tokens /\ family[n] = None /\ family'[n] \in Families
      /\ \A t \in Tokens : t # n => family'[t] = family[t]
      /\ call'[w] = Idle \/ (call'[w].op = "refresh" /\ call'[w].pc = "reply")
      /\ UNCHANGED <<superAdmin, disturbed>>
  <2>1. CASE issue(w)
    BY <1>1, <2>1, IssueDoes, FamiliesAre, Names DEF IsReply
  <2>2. CASE signIn(w)
    BY <1>1, <2>2, SignInDoes, FamiliesAre
  <2> QED  BY <2>1, <2>2
<1>3. Kept /\ \A t \in Tokens : family'[t] # None => family'[t] \in Families
  BY <1>2, FamiliesAre DEF Kept
<1> QED  BY <1>2, <1>3, AloneOver

\* A step of no call.
LEMMA AloneStays ==
  ASSUME Alone, UNCHANGED <<family, call, superAdmin>>, disturbed \subseteq disturbed'
  PROVE  Alone'
<1>1. Families' = Families
  BY DEF Families, Issued
<1>2. \A v \in Workers : \A f : Touches(call[v], f)' <=> Touches(call[v], f)
  BY DEF Touches, Sweeping
<1>3. AtOnce'
  BY <1>1, <1>2 DEF Alone, AtOnce
<1>4. Admins'
  BY DEF Alone, Admins
<1> QED  BY <1>3, <1>4 DEF Alone

LEMMA AloneInit ==
  ASSUME Init
  PROVE  Alone
<1>1. \A w \in Workers : call[w] = Idle
  BY DEF Init
<1> QED  BY <1>1, IdleCall DEF Alone, AtOnce, Admins, Touches

LEMMA AloneStep ==
  ASSUME Base, Alone, [Next]_vars
  PROVE  Alone'
<1>1. ASSUME NEW w \in Workers, deliver(w) \/ giveUp(w) \/ stop(w) PROVE Alone'
  BY <1>1, AloneGoesOn
<1>2. ASSUME NEW w \in Workers, reuse(w) \/ mark(w) \/ inactive(w) PROVE Alone'
  BY <1>2, AloneGoesOn
<1>3. ASSUME NEW w \in Workers, issue(w) \/ signIn(w) \/ revokeAll(w) PROVE Alone'
  BY <1>3, AloneIssue, AloneGoesOn
<1>4. ASSUME NEW w \in Workers, changePassword(w) \/ softDelete(w) PROVE Alone'
  BY <1>4, AloneBegin
<1>5. ASSUME NEW w \in Workers, NEW d \in Devices, refreshBegin(w, d) \/ signInBegin(w, d) PROVE Alone'
  BY <1>5, AloneBegin
<1>6. ASSUME NEW d \in Devices, signOut(d) \/ revokeOthers(d) PROVE Alone'
  BY <1>6, SigningOutDoes, AloneStays DEF Ends, Begun, Entered
<1>7. CASE setStatus \/ UNCHANGED vars
  BY <1>7, StayingDoes, AloneStays DEF Stays
<1> QED  BY <1>1, <1>2, <1>3, <1>4, <1>5, <1>6, <1>7 DEF Next

-----------------------------------------------------------------------------
(* A family hands its session on, and dies whole *)

OneUsable(f) ==
  \A s, t \in Tokens :
    family[s] = f /\ family[t] = f /\ life[s] = "usable" /\ life[t] = "usable" => s = t

DiesWhole(f) ==
  \A s, t \in Tokens :
    family[s] = f /\ family[t] = f => (life[s] \in Reasons <=> life[t] \in Reasons)

\* The token a refresh is about to mark can be used, and once it is marked none can.
CallRotates(c) ==
  Renews(c) /\ family[c.tok] \notin disturbed =>
    /\ c.pc = "mark" => life[c.tok] = "usable"
    /\ c.pc = "issue" => \A u \in Tokens : family[u] = family[c.tok] => life[u] = "rotated"

Rotating ==
  /\ \A f \in Tokens \ disturbed : OneUsable(f) /\ DiesWhole(f)
  /\ \A w \in Workers : CallRotates(call[w])

\* Two calls that touch a family disturb it.
LEMMA TouchesAlone ==
  ASSUME Base, Alone, NEW w \in Workers, NEW v \in Workers \ {w}, Renews(call[v]),
         family[call[v].tok] \notin disturbed, Touches(call[w], family[call[v].tok])
  PROVE  FALSE
<1>1. PICK f : f = family[call[v].tok]
  OBVIOUS
<1>2. call[v].tok \in Tokens /\ f # None
  BY <1>1, CallTypes DEF Base, TypeOK, Shaped
<1>3. f \in Families \ disturbed
  BY <1>1, <1>2, FamiliesAre
<1>4. Touches(call[v], f)
  BY <1>1 DEF Touches, Renews, Base, Shaped
<1> QED  BY <1>1, <1>3, <1>4 DEF Alone, AtOnce

\* A call whose family was not worked on.
LEMMA RotatesStill ==
  ASSUME Base, Rotating, NEW v \in Workers,
         call'[v] = call[v] \/ (/\ call'[v].op = call[v].op /\ call'[v].pc = call[v].pc
                                /\ call'[v].tok = call[v].tok),
         disturbed \subseteq disturbed', Kept,
         Renews(call[v]) =>
           \/ family[call[v].tok] \in disturbed'
           \/ \A u \in Tokens : family'[u] = family[call[v].tok] =>
                family'[u] = family[u] /\ life'[u] = life[u]
  PROVE  CallRotates(call[v])'
<1>1. /\ call'[v].op = call[v].op /\ call'[v].pc = call[v].pc /\ call'[v].tok = call[v].tok
      /\ CallRotates(call[v]) /\ Shaped(call[v])
  BY DEF Rotating, Base
<1>2. CASE ~Renews(call[v])
  BY <1>1, <1>2 DEF CallRotates, Renews
<1>3. CASE Renews(call[v])
  <2>1. PICK t, f : t = call[v].tok /\ f = family[t]
    OBVIOUS
  <2>2. t \in Tokens /\ f # None /\ family'[t] = f
    BY <1>1, <1>3, <2>1, CallTypes DEF Base, TypeOK, Shaped, Kept
  <2> QED  BY <1>1, <1>3, <2>1, <2>2 DEF CallRotates, Renews
<1> QED  BY <1>2, <1>3

\* A revocation keeps a family whole.
LEMMA RevokedRotates ==
  ASSUME Base, Rotating, NEW T, Whole(T), NEW r \in Reasons, life' = revokedFor(T, r),
         family' = family, disturbed \subseteq disturbed'
  PROVE  \A f \in Tokens \ disturbed' : OneUsable(f)' /\ DiesWhole(f)'
<1>1. /\ \A t \in Tokens : t \notin T => life'[t] = life[t]
      /\ \A t \in T : t \in Tokens /\ life'[t] \in Reasons
  BY Revoked DEF Base
<1>2. ASSUME NEW f \in Tokens \ disturbed' PROVE OneUsable(f)' /\ DiesWhole(f)'
  <2>1. OneUsable(f) /\ DiesWhole(f)
    BY DEF Rotating
  <2>2. \A t \in T : life'[t] # "usable"
    BY <1>1 DEF Reasons
  <2>3. OneUsable(f)'
    BY <1>1, <2>1, <2>2 DEF OneUsable
  <2>4. DiesWhole(f)'
    BY <1>1, <2>1 DEF DiesWhole, Whole
  <2> QED  BY <2>3, <2>4
<1> QED  BY <1>2

\* A call that touches the families it revokes.
LEMMA RotatingRevocation ==
  ASSUME Base, Alone, Rotating, NEW w \in Workers, reuse(w) \/ inactive(w) \/ revokeAll(w)
  PROVE  Rotating'
<1>1. PICK T, r : /\ T = IF revokeAll(w) THEN Issued ELSE Family(family[call[w].tok])
                  /\ r = IF ~revokeAll(w) /\ reuse(w) THEN "reused" ELSE "ended"
  OBVIOUS
<1>2. /\ Moved(w) /\ Whole(T) /\ life' = revokedFor(T, r) /\ r \in Reasons
      /\ UNCHANGED <<family, disturbed>>
      /\ ~Renews(call[w])'
      /\ \A t \in T : Touches(call[w], family[t])
  <2>1. CASE revokeAll(w)
    <3>1. /\ Moved(w) /\ call[w].pc = "revokeAll" /\ call[w].op \in {"signIn", "endAll"}
          /\ Whole(Issued) /\ life' = revokedFor(Issued, "ended")
          /\ call'[w] = Idle \/ call'[w].op = "signIn"
          /\ UNCHANGED <<family, disturbed>>
      BY <2>1, RevokeAllDoes
    <3>2. \A f : Touches(call[w], f)
      BY <3>1 DEF Touches, Sweeping, Alone, Admins
    <3>3. ~Renews(call[w])'
      BY <3>1, IdleCall DEF Renews
    <3> QED  BY <1>1, <2>1, <3>1, <3>2, <3>3 DEF Reasons
  <2>2. CASE ~revokeAll(w)
    <3>1. PICK f : f = family[call[w].tok]
      OBVIOUS
    <3>2. /\ Moved(w) /\ Renews(call[w]) /\ call[w].pc \in {"reuse", "inactive"}
          /\ Whole(Family(f)) /\ life' = revokedFor(Family(f), r)
          /\ call'[w] = Idle \/ IsReply(call'[w], call[w].dev, None)
          /\ UNCHANGED <<family, disturbed>>
      BY <1>1, <2>2, <3>1, ReuseDoes, InactiveDoes
    <3>3. Touches(call[w], f)
      BY <3>1, <3>2 DEF Touches, Renews
    <3>4. \A t \in T : family[t] = f
      BY <1>1, <2>2, <3>1 DEF Family
    <3>5. ~Renews(call[w])'
      BY <3>2, IdleCall DEF Renews, IsReply
    <3> QED  BY <1>1, <2>2, <3>1, <3>2, <3>3, <3>4, <3>5 DEF Reasons
  <2> QED  BY <2>1, <2>2
<1>3. \A f \in Tokens \ disturbed' : OneUsable(f)' /\ DiesWhole(f)'
  BY <1>2, RevokedRotates
<1>4. \A u \in Tokens : u \notin T => life'[u] = life[u]
  BY <1>2, Revoked DEF Base
<1>5. ASSUME NEW v \in Workers PROVE CallRotates(call[v])'
  <2>1. CASE v = w
    BY <1>2, <2>1 DEF CallRotates
  <2>2. CASE v # w
    <3>1. call'[v] = call[v] /\ Kept
      BY <1>2, <2>2 DEF Moved, Kept
    <3>2. ASSUME Renews(call[v]), family[call[v].tok] \notin disturbed, NEW u \in Tokens,
                 family[u] = family[call[v].tok]
          PROVE  life'[u] = life[u]
      <4>1. u \notin T
        BY <1>2, <2>2, <3>2, TouchesAlone
      <4> QED  BY <1>4, <4>1
    <3> QED  BY <1>2, <3>1, <3>2, RotatesStill
  <2> QED  BY <2>1, <2>2
<1> QED  BY <1>3, <1>5 DEF Rotating

LEMMA RotatingSigningOut ==
  ASSUME Base, Rotating, NEW d \in Devices, signOut(d) \/ revokeOthers(d)
  PROVE  Rotating'
<1>1. PICK T : Ends(T)
  BY SigningOutDoes
<1>2. /\ UNCHANGED <<family, call>> /\ Whole(T) /\ life' = revokedFor(T, "ended")
      /\ disturbed' = disturbed \cup Busy({family[t] : t \in T})
  BY <1>1, SigningOutDoes DEF Ends, Begun, Entered
<1>3. \A f \in Tokens \ disturbed' : OneUsable(f)' /\ DiesWhole(f)'
  BY <1>2, RevokedRotates DEF Reasons
<1>4. \A u \in Tokens : u \notin T => life'[u] = life[u]
  BY <1>2, Revoked DEF Base, Reasons
<1>5. ASSUME NEW v \in Workers PROVE CallRotates(call[v])'
  <2>1. ASSUME Renews(call[v]), family[call[v].tok] \notin disturbed', NEW u \in Tokens,
               family[u] = family[call[v].tok]
        PROVE  life'[u] = life[u]
    <3>1. Touches(call[v], family[u])
      BY <2>1 DEF Touches, Renews, Base, Shaped
    <3>2. u \notin T
      BY <1>2, <2>1, <3>1, TouchedIsBusy
    <3> QED  BY <1>4, <3>2
  <2>2. Kept /\ call'[v] = call[v]
    BY <1>2 DEF Kept
  <2> QED  BY <1>2, <2>1, <2>2, RotatesStill
<1> QED  BY <1>3, <1>5 DEF Rotating

LEMMA RotatingMark ==
  ASSUME Base, Alone, Rotating, NEW w \in Workers, mark(w)
  PROVE  Rotating'
<1>1. PICK t, f : t = call[w].tok /\ f = family[t]
  OBVIOUS
<1>2. /\ Moved(w) /\ Renews(call[w]) /\ call[w].pc = "mark" /\ t \in Tokens /\ f \in Tokens
      /\ \A u \in Tokens : u # t => life'[u] = life[u]
      /\ life[t] = "usable" => life'[t] = "rotated"
      /\ life[t] # "usable" => life'[t] = life[t]
      /\ call'[w].pc \in {"issue", "inactive"} /\ call'[w].tok = t
      /\ UNCHANGED <<family, disturbed>>
  BY <1>1, MarkDoes
<1>3. Touches(call[w], f) /\ life \in [Tokens -> Lives]
  BY <1>1, <1>2 DEF Touches, Renews, Base, TypeOK
<1>4. f \notin disturbed => life[t] = "usable" /\ OneUsable(f) /\ DiesWhole(f)
  BY <1>1, <1>2 DEF Rotating, CallRotates
<1>5. ASSUME NEW g \in Tokens \ disturbed PROVE OneUsable(g)' /\ DiesWhole(g)'
  <2>1. OneUsable(g) /\ DiesWhole(g)
    BY DEF Rotating
  <2>2. OneUsable(g)'
    BY <1>2, <2>1 DEF OneUsable
  <2>3. DiesWhole(g)'
    BY <1>2, <2>1 DEF DiesWhole, Reasons
  <2> QED  BY <2>2, <2>3
<1>6. ASSUME NEW v \in Workers PROVE CallRotates(call[v])'
  <2>1. CASE v = w
    <3>1. CASE f \in disturbed
      BY <1>1, <1>2, <2>1, <3>1 DEF CallRotates
    <3>2. CASE f \notin disturbed
      <4>1. ASSUME NEW u \in Tokens, family[u] = f, u # t PROVE life[u] = "rotated"
        BY <1>1, <1>2, <1>3, <1>4, <3>2, <4>1 DEF OneUsable, DiesWhole, Lives, Reasons
      <4>2. \A u \in Tokens : family'[u] = f => life'[u] = "rotated"
        BY <1>2, <1>4, <3>2, <4>1
      <4> QED  BY <1>1, <1>2, <2>1, <4>2 DEF CallRotates
    <3> QED  BY <3>1, <3>2
  <2>2. CASE v # w
    <3>1. call'[v] = call[v] /\ Kept
      BY <1>2, <2>2 DEF Moved, Kept
    <3>2. ASSUME Renews(call[v]), family[call[v].tok] \notin disturbed, NEW u \in Tokens,
                 family[u] = family[call[v].tok]
          PROVE  life'[u] = life[u]
      <4>1. u # t
        BY <1>1, <1>3, <2>2, <3>2, TouchesAlone
      <4> QED  BY <1>2, <4>1
    <3> QED  BY <1>2, <3>1, <3>2, RotatesStill
  <2> QED  BY <2>1, <2>2
<1> QED  BY <1>2, <1>5, <1>6 DEF Rotating

\* A token n is issued in the family f: none of it can be used.
LEMMA RotatingIssued ==
  ASSUME Base, Rotating, NEW w \in Workers, Moved(w), NEW n \in Tokens, NEW f \in Tokens,
         family[n] = None, family'[n] = f, \A t \in Tokens : t # n => family'[t] = family[t],
         UNCHANGED <<life, disturbed>>, ~Renews(call[w])',
         f \notin disturbed =>
           /\ \A u \in Tokens : family[u] = f => life[u] = "rotated"
           /\ \A v \in Workers \ {w} : Renews(call[v]) => family[call[v].tok] # f
  PROVE  Rotating'
<1>1. life[n] = "usable"
  BY DEF Base, Founded
<1>2. ASSUME NEW g \in Tokens \ disturbed PROVE OneUsable(g)' /\ DiesWhole(g)'
  <2>1. OneUsable(g) /\ DiesWhole(g)
    BY DEF Rotating
  <2>2. CASE g = f
    <3>1. \A u \in Tokens : u # n /\ family'[u] = g => life'[u] = "rotated"
      BY <2>2
    <3>2. life'[n] = "usable" /\ "usable" \notin Reasons /\ "rotated" \notin Reasons
      BY <1>1 DEF Reasons
    <3> QED  BY <3>1, <3>2 DEF OneUsable, DiesWhole
  <2>3. CASE g # f
    BY <2>1, <2>3 DEF OneUsable, DiesWhole
  <2> QED  BY <2>2, <2>3
<1>3. ASSUME NEW v \in Workers PROVE CallRotates(call[v])'
  <2>1. CASE v = w
    BY <2>1 DEF CallRotates
  <2>2. CASE v # w
    <3>1. call'[v] = call[v] /\ Kept
      BY <2>2 DEF Moved, Kept
    <3>2. ASSUME Renews(call[v]), family[call[v].tok] \notin disturbed, NEW u \in Tokens,
                 family'[u] = family[call[v].tok]
          PROVE  family'[u] = family[u] /\ life'[u] = life[u]
      BY <2>2, <3>2
    <3> QED  BY <3>1, <3>2, RotatesStill
  <2> QED  BY <2>1, <2>2
<1> QED  BY <1>2, <1>3 DEF Rotating

LEMMA RotatingIssue ==
  ASSUME Base, Alone, Rotating, NEW w \in Workers, issue(w)
  PROVE  Rotating'
<1>1. PICK n, d, f : n = call[w].next /\ d = call[w].dev /\ f = family[call[w].tok]
  OBVIOUS
<1>2. /\ Moved(w) /\ Renews(call[w]) /\ call[w].pc = "issue"
      /\ f \in Tokens /\ n \in Tokens /\ family[n] = None
      /\ family'[n] = f /\ \A t \in Tokens : t # n => family'[t] = family[t]
      /\ call'[w] = Idle \/ IsReply(call'[w], d, n)
      /\ UNCHANGED <<life, disturbed>>
  BY <1>1, IssueDoes
<1>3. ~Renews(call[w])'
  BY <1>2, IdleCall DEF Renews, IsReply
<1>4. Touches(call[w], f)
  BY <1>1, <1>2 DEF Touches, Renews
<1>5. f \notin disturbed =>
        /\ \A u \in Tokens : family[u] = f => life[u] = "rotated"
        /\ \A v \in Workers \ {w} : Renews(call[v]) => family[call[v].tok] # f
  BY <1>1, <1>2, <1>4, TouchesAlone DEF Rotating, CallRotates
<1> QED  BY <1>2, <1>3, <1>5, RotatingIssued

LEMMA RotatingSignIn ==
  ASSUME Base, Rotating, NEW w \in Workers, signIn(w)
  PROVE  Rotating'
<1>1. PICK n : n = call[w].next
  OBVIOUS
<1>2. /\ Moved(w) /\ n \in Tokens /\ family[n] = None
      /\ family'[n] = n /\ \A t \in Tokens : t # n => family'[t] = family[t]
      /\ call'[w] = Idle /\ UNCHANGED <<life, disturbed>>
  BY <1>1, SignInDoes
<1>3. ~Renews(call[w])'
  BY <1>2, IdleCall DEF Renews
<1>4. ASSUME NEW u \in Tokens, family[u] # None PROVE family[u] # n
  BY <1>2, <1>4 DEF Base, Founded
<1>5. \A u \in Tokens : family[u] # n
  BY <1>2, <1>4, Names
<1>6. \A v \in Workers : Renews(call[v]) => family[call[v].tok] # n
  BY <1>5, CallTypes DEF Base, TypeOK, Shaped
<1> QED  BY <1>2, <1>3, <1>5, <1>6, RotatingIssued

\* A step that touches no token.
LEMMA RotatingKept ==
  ASSUME Base, Rotating, UNCHANGED <<family, life>>, disturbed \subseteq disturbed',
         NEW w \in Workers, Moved(w), CallRotates(call[w])'
  PROVE  Rotating'
<1>1. ASSUME NEW f \in Tokens \ disturbed' PROVE OneUsable(f)' /\ DiesWhole(f)'
  BY DEF Rotating, OneUsable, DiesWhole
<1>2. ASSUME NEW v \in Workers PROVE CallRotates(call[v])'
  <2>1. CASE v = w
    BY <2>1
  <2>2. CASE v # w
    <3>1. call'[v] = call[v] /\ Kept
      BY <2>2 DEF Moved, Kept
    <3> QED  BY <3>1, RotatesStill
  <2> QED  BY <2>1, <2>2
<1> QED  BY <1>1, <1>2 DEF Rotating

LEMMA RotatingOther ==
  ASSUME Base, Rotating, NEW w \in Workers,
         \/ deliver(w) \/ giveUp(w) \/ stop(w) \/ changePassword(w) \/ softDelete(w)
         \/ \E d \in Devices : refreshBegin(w, d) \/ signInBegin(w, d)
  PROVE  Rotating'
<1>1. CASE deliver(w) \/ stop(w)
  <2>1. Moved(w) /\ UNCHANGED <<family, life, disturbed>> /\ call'[w] = Idle
    BY <1>1, DeliverDoes, StopDoes
  <2>2. CallRotates(call[w])'
    BY <2>1, IdleCall DEF CallRotates, Renews
  <2> QED  BY <2>1, <2>2, RotatingKept
<1>2. CASE giveUp(w)
  <2>1. /\ Moved(w) /\ UNCHANGED <<family, life, disturbed>>
        /\ \/ call'[w] = Idle
           \/ /\ Renews(call[w]) /\ call'[w].op = "refresh" /\ call'[w].pc = call[w].pc
              /\ call'[w].tok = call[w].tok
    BY <1>2, GiveUpDoes
  <2>2. CallRotates(call[w])'
    <3>1. CASE call'[w] = Idle
      BY <3>1, IdleCall DEF CallRotates, Renews
    <3>2. CASE call'[w] # Idle
      BY <2>1, <3>2 DEF Rotating, CallRotates, Renews
    <3> QED  BY <3>1, <3>2
  <2> QED  BY <2>1, <2>2, RotatingKept
<1>3. CASE changePassword(w) \/ softDelete(w) \/ \E d \in Devices : signInBegin(w, d)
  <2>1. Moved(w) /\ UNCHANGED <<family, life>> /\ disturbed \subseteq disturbed' /\ call'[w].op # "refresh"
    BY <1>3, EndingBegins, SignInBegins
  <2>2. CallRotates(call[w])'
    BY <2>1 DEF CallRotates, Renews
  <2> QED  BY <2>1, <2>2, RotatingKept
<1>4. CASE \E d \in Devices : refreshBegin(w, d)
  <2>1. PICK d \in Devices : refreshBegin(w, d)
    BY <1>4
  <2>2. /\ Moved(w) /\ UNCHANGED <<family, life>> /\ disturbed \subseteq disturbed'
        /\ call'[w].tok = held[d]
        /\ \/ call'[w].pc = "reuse"
           \/ call'[w].pc = "mark" /\ life[held[d]] = "usable"
    BY <2>1, RefreshBegins
  <2>3. CallRotates(call[w])'
    BY <2>2 DEF CallRotates
  <2> QED  BY <2>2, <2>3, RotatingKept
<1> QED  BY <1>1, <1>2, <1>3, <1>4

LEMMA RotatingStays ==
  ASSUME Rotating, Stays
  PROVE  Rotating'
  BY DEF Rotating, Stays, OneUsable, DiesWhole, CallRotates, Renews

LEMMA RotatingInit ==
  ASSUME Init
  PROVE  Rotating
<1>1. \A w \in Workers : call[w] = Idle
  BY DEF Init
<1>2. \A w \in Workers : ~Renews(call[w])
  BY <1>1, IdleCall DEF Renews
<1>3. \A t \in Tokens, f \in Tokens : family[t] # f
  BY Names DEF Init
<1> QED  BY <1>2, <1>3 DEF Rotating, OneUsable, DiesWhole, CallRotates

LEMMA RotatingStep ==
  ASSUME Base, Alone, Rotating, [Next]_vars
  PROVE  Rotating'
<1>1. ASSUME NEW w \in Workers, deliver(w) \/ giveUp(w) \/ stop(w) PROVE Rotating'
  BY <1>1, RotatingOther
<1>2. ASSUME NEW w \in Workers, reuse(w) \/ mark(w) \/ inactive(w) PROVE Rotating'
  BY <1>2, RotatingRevocation, RotatingMark
<1>3. ASSUME NEW w \in Workers, issue(w) \/ signIn(w) \/ revokeAll(w) PROVE Rotating'
  BY <1>3, RotatingIssue, RotatingSignIn, RotatingRevocation
<1>4. ASSUME NEW w \in Workers, changePassword(w) \/ softDelete(w) PROVE Rotating'
  BY <1>4, RotatingOther
<1>5. ASSUME NEW w \in Workers, NEW d \in Devices, refreshBegin(w, d) \/ signInBegin(w, d)
      PROVE  Rotating'
  BY <1>5, RotatingOther
<1>6. ASSUME NEW d \in Devices, signOut(d) \/ revokeOthers(d) PROVE Rotating'
  BY <1>6, RotatingSigningOut
<1>7. CASE setStatus \/ UNCHANGED vars
  BY <1>7, StayingDoes, RotatingStays
<1> QED  BY <1>1, <1>2, <1>3, <1>4, <1>5, <1>6, <1>7 DEF Next

-----------------------------------------------------------------------------
(* The theorems *)

IInv == Base /\ Owning /\ Replaying /\ Alone /\ Rotating

LEMMA Inductive ==
  Spec => []IInv
<1>1. Init => IInv
  BY BaseInit, OwningInit, ReplayingInit, AloneInit, RotatingInit DEF IInv
<1>2. IInv /\ [Next]_vars => IInv'
  BY BaseStep, OwningStep, ReplayingStep, AloneStep, RotatingStep DEF IInv
<1> QED  BY <1>1, <1>2, PTL DEF Spec

\* The tokens, the devices and the calls stay what the code takes them to be.
THEOREM SessionsTypeCorrect == Spec => []TypeOK
<1>1. IInv => TypeOK
  BY DEF IInv, Base
<1> QED  BY <1>1, Inductive, PTL

\* Rotation hands a session on and never forks it, however many devices and calls.
THEOREM SessionIsNotForked == Spec => []OneUsablePerFamily
<1>1. IInv => OneUsablePerFamily
  BY DEF IInv, Rotating, OneUsable, OneUsablePerFamily, Usable, Issued
<1> QED  BY <1>1, Inductive, PTL

\* No token issued later revives a session that was ended.
THEOREM EndedSessionStaysEnded == Spec => []FamilyDiesWhole
<1>1. IInv => FamilyDiesWhole
  BY DEF IInv, Rotating, DiesWhole, FamilyDiesWhole, Family, Issued
<1> QED  BY <1>1, Inductive, PTL

\* A replay is taken for a theft only where an answer was lost or two tabs of a browser
\* refreshed at once, for any number of devices, tokens and calls.
THEOREM NobodySignedOutForNothing == Spec => []ReplayHasCause
<1>1. IInv => ReplayHasCause
  BY DEF IInv, Replaying
<1> QED  BY <1>1, Inductive, PTL

=============================================================================

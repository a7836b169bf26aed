------------------------------- MODULE Sessions -------------------------------
(***************************************************************************)
(* The sign-in sessions of one person: refresh tokens that rotate within a *)
(* family (apps/api/src/auth/token.service.ts and auth.service.ts) and the *)
(* devices that hold them (apps/web/src/lib/api-client.ts and              *)
(* apps/mobile/src/lib/api-client.ts).                                     *)
(*                                                                         *)
(* A call is read, worked on and answered in separate steps, and the       *)
(* answer may never arrive: the device then still holds the token it sent. *)
(* A browser keeps its token in a cookie that its tabs share, a phone in   *)
(* its keystore.                                                           *)
(***************************************************************************)
EXTENDS Naturals, FiniteSets

CONSTANTS MaxTokens, \* bound on the refresh tokens issued
          Devices,   \* browsers and phones of the person
          Phones,    \* the devices without a cookie jar
          MaxCalls,  \* bound on the API calls in progress together
          NoDevice

ASSUME SessionsAssumption ==
  /\ MaxTokens \in Nat /\ MaxCalls \in Nat
  /\ Phones \subseteq Devices
  /\ NoDevice \notin Devices

Tokens == 1..MaxTokens
Workers == 1..MaxCalls
None == 0   \* no token

VARIABLES family,     \* the token a family began with, None: not issued yet
          life,       \* rotatedAt and revokedReason: a revocation hides a rotation
          status,     \* User.status
          superAdmin, \* the person has the role SUPER_ADMIN
          held,       \* the token in a device's cookie or keystore
          call,       \* what each worker is doing
          outdated,   \* history: families one of whose answers was lost, or that
                      \* two tabs of a browser refreshed at once
          disturbed   \* history: families two calls worked on at once
stored  == <<family, life>>
person  == <<status, superAdmin>>
history == <<outdated, disturbed>>
vars    == <<stored, person, held, call, history>>

\* "ended" stands for every reason but reuse: sign-out, a new password, suspension.
Reasons == {"reused", "ended"}
Lives == {"usable", "rotated"} \cup Reasons

\* SUSPENDED stands for every status that blocks, DELETED for deletedAt.
Statuses == {"ACTIVE", "SUSPENDED", "DELETED"}

Idle == [op |-> "idle", pc |-> "idle", dev |-> NoDevice, tok |-> None, next |-> None]
Calls ==
  [op : {"idle", "refresh", "signIn", "endAll"},
   pc : {"idle", "reuse", "mark", "inactive", "revokeAll", "issue", "reply"},
   dev : Devices \cup {NoDevice},  \* who waits for the answer
   tok : Tokens \cup {None},   \* the token presented
   next : Tokens \cup {None}]  \* the token to be issued and answered, if any

TypeOK ==
  /\ family \in [Tokens -> Tokens \cup {None}]
  /\ life \in [Tokens -> Lives]
  /\ status \in Statuses
  /\ superAdmin \in BOOLEAN
  /\ held \in [Devices -> Tokens \cup {None}]
  /\ call \in [Workers -> Calls]
  /\ outdated \subseteq Tokens
  /\ disturbed \subseteq Tokens

-----------------------------------------------------------------------------

Issued == {t \in Tokens : family[t] # None}
Family(f) == {t \in Issued : family[t] = f}

\* What a refresh would still accept.
Usable == {t \in Issued : life[t] = "usable"}

\* The next token: neither issued nor about to be.
Unissued == {t \in Tokens : family[t] = None /\ \A w \in Workers : call[w].next # t}
Fresh == {t \in Unissued : \A u \in Unissued : t <= u}

\* Families that exist or are about to.
Families ==
  {family[t] : t \in Issued}
    \cup {n \in Tokens : \E w \in Workers : call[w].op = "signIn" /\ call[w].next = n}

\* Between reading and answering.
Working(w) == call[w].pc \notin {"idle", "reply"}

\* A call that revokes every session.
Sweeping(c) == c.op = "endAll" \/ (c.op = "signIn" /\ superAdmin)

\* The families of F that a call in progress may still change.
Busy(F) ==
  {f \in F : \E w \in Workers :
     /\ Working(w)
     /\ \/ Sweeping(call[w])
        \/ call[w].op = "refresh" /\ family[call[w].tok] = f
        \/ call[w].op = "signIn" /\ call[w].next = f}

\* Families F are worked on from now.
Entered(F) == disturbed' = disturbed \cup Busy(F)

Begun(F) == Entered(F) /\ UNCHANGED outdated

revokedFor(T, reason) ==
  [t \in Tokens |-> IF t \in T /\ life[t] \notin Reasons THEN reason ELSE life[t]]

\* Mutant: only the token presented is revoked.
revokePresented(t, reason) == revokedFor({t}, reason)

\* Mutant: the revocation does not say why.
revokeUnnamed(t, reason) == revokedFor(Family(family[t]), "revoked")

revokeFamily(t, reason) == revokedFor(Family(family[t]), reason)

revokeAllForUser == revokedFor(Issued, "ended")

\* The worker that takes the next call.
Free == {w \in Workers : call[w] = Idle /\ \A v \in Workers : call[v] = Idle => w <= v}

Go(w, c) == call' = [call EXCEPT ![w] = c]
Goto(w, pc) == call' = [call EXCEPT ![w].pc = pc]

\* A refresh is over; its answer is on its way if the device still waits for it.
Answer(w, tok) ==
  Go(w, IF call[w].dev = NoDevice THEN Idle
        ELSE [Idle EXCEPT !.op = "refresh", !.pc = "reply", !.dev = call[w].dev,
                          !.next = tok])

-----------------------------------------------------------------------------
(* Devices *)

\* Mutant: every request that is answered 401 refreshes on its own.
anyTime(d) == TRUE

\* refreshInFlight: the requests of an app, or of one tab, share one refresh.  A
\* browser may have any number of tabs, each with a refresh of its own.
noRefreshInFlight(d) ==
  d \in Phones => \A w \in Workers : ~(call[w].op = "refresh" /\ call[w].dev = d)

\* The answer to a refresh arrives.  A refusal clears a cookie; a phone keeps
\* its token, or drops it when it was unlocking (unlockWithBiometrics).
deliver(w) ==
  LET c == call[w] IN
  /\ c.pc = "reply"
  /\ \/ held' = [held EXCEPT ![c.dev] = c.next]
     \/ c.next = None /\ c.dev \in Phones /\ UNCHANGED held
  /\ Go(w, Idle)
  /\ UNCHANGED <<stored, person, history>>

\* The family a refresh takes on, or whose new token is in its answer.
Renewing(c) ==
  IF c.op # "refresh" THEN {} ELSE
    {family[t] : t \in (IF c.pc = "reply" THEN {c.next} ELSE {c.tok}) \ {None}}

\* The device stops waiting: a dropped connection, a closed app.  The call goes
\* on, and its answer reaches nobody.
giveUp(w) ==
  LET c == call[w] IN
  /\ c.op = "refresh" /\ c.dev # NoDevice
  /\ Go(w, IF c.pc = "reply" THEN Idle ELSE [c EXCEPT !.dev = NoDevice])
  /\ \/ UNCHANGED held
     \/ c.dev \in Phones /\ held' = [held EXCEPT ![c.dev] = None]
  /\ outdated' = outdated \cup Renewing(c)
  /\ UNCHANGED <<stored, person, disturbed>>

-----------------------------------------------------------------------------
(* Refreshing: TokenService.rotate, then AuthService.refresh *)

\* Mutant: whoever holds a session may renew it.
renewableByAll == TRUE

\* The check of AuthService.refresh, made on the person read with the token.
renewable == status = "ACTIVE"

\* The tabs of a browser present its token while a refresh of its family is in flight.
tabsAtOnce(d) ==
  d \notin Phones /\ \E w \in Workers : call[w].dev = d /\ family[held[d]] \in Renewing(call[w])

\* findUnique, and what rotate decides on it.
refreshBegin(w, d) ==
  LET t == held[d]
      Read(pc, next) == Go(w, [op |-> "refresh", pc |-> pc, dev |-> d,
                               tok |-> t, next |-> next])
  IN
  /\ w \in Free
  /\ t # None
  /\ noRefreshInFlight(d)
  /\ \/ t \notin Usable /\ Read("reuse", None)
     \/ t \in Usable /\ renewable /\ \E n \in Fresh : Read("mark", n)
     \/ t \in Usable /\ ~renewable /\ Read("mark", None)
  /\ Entered({family[t]})
  /\ outdated' = IF tabsAtOnce(d) THEN outdated \cup {family[t]} ELSE outdated
  /\ UNCHANGED <<stored, person, held>>

\* A token presented again: revokeFamily(REUSE_DETECTED).
reuse(w) ==
  LET c == call[w] IN
  /\ c.pc = "reuse"
  /\ life' = revokeFamily(c.tok, "reused")
  /\ Answer(w, None)
  /\ UNCHANGED <<family, person, held, history>>

\* Mutant: the token is not consumed.
notMarked(t) == life

marked(t) ==
  [life EXCEPT ![t] = IF life[t] = "usable" THEN "rotated" ELSE life[t]]

\* update({ rotatedAt }), by id.
mark(w) ==
  LET c == call[w] IN
  /\ c.pc = "mark"
  /\ life' = marked(c.tok)
  /\ Goto(w, IF c.next # None THEN "issue" ELSE "inactive")
  /\ UNCHANGED <<family, person, held, history>>

\* revokeFamily(USER_INACTIVE).
inactive(w) ==
  LET c == call[w] IN
  /\ c.pc = "inactive"
  /\ life' = revokeFamily(c.tok, "ended")
  /\ Answer(w, None)
  /\ UNCHANGED <<family, person, held, history>>

\* refreshToken.create, in the family refreshed.
issue(w) ==
  LET c == call[w] IN
  /\ c.op = "refresh" /\ c.pc = "issue"
  /\ family' = [family EXCEPT ![c.next] = family[c.tok]]
  /\ Answer(w, c.next)
  /\ UNCHANGED <<life, person, held, history>>

-----------------------------------------------------------------------------
(* Signing in and out, and the password *)

\* login and loginWithSso, once the person has proved who they are.
signInBegin(w, d) ==
  /\ w \in Free
  /\ status = "ACTIVE"
  /\ \E n \in Fresh :
       /\ Go(w, [op |-> "signIn", dev |-> d, tok |-> None, next |-> n,
                 pc |-> IF superAdmin THEN "revokeAll" ELSE "issue"])
       /\ Begun(IF superAdmin THEN Families \cup {n} ELSE {n})
  /\ UNCHANGED <<stored, person, held>>

\* refreshToken.create, in a new family.  The device has the answer or lost it.
signIn(w) ==
  LET c == call[w] IN
  /\ c.op = "signIn" /\ c.pc = "issue"
  /\ family' = [family EXCEPT ![c.next] = c.next]
  /\ held' \in {held, [held EXCEPT ![c.dev] = c.next]}
  /\ Go(w, Idle)
  /\ UNCHANGED <<life, person, history>>

\* revokeAllForUser, before a Super Admin's tokens are issued and after a
\* password was changed or an account deleted.
revokeAll(w) ==
  LET c == call[w] IN
  /\ c.pc = "revokeAll"
  /\ life' = revokeAllForUser
  /\ IF c.op = "signIn" THEN Goto(w, "issue") ELSE Go(w, Idle)
  /\ UNCHANGED <<family, person, held, history>>

\* logout: revokeByToken.  A phone sends no token with it, so nothing is revoked;
\* it forgets its token whatever the answer, a browser when the answer arrives.
signOut(d) ==
  /\ held[d] # None
  /\ IF d \in Phones
     THEN UNCHANGED <<life, history>>
     ELSE /\ life' = revokeFamily(held[d], "ended")
          /\ Begun({family[held[d]]})
  /\ \/ held' = [held EXCEPT ![d] = None]
     \/ d \notin Phones /\ UNCHANGED held
  /\ UNCHANGED <<family, person, call>>

\* revokeOtherSessions: one statement, beside whatever is in progress.
revokeOthers(d) ==
  LET mine == IF held[d] = None THEN {} ELSE Family(family[held[d]])
  IN
  /\ life' = revokedFor(Issued \ mine, "ended")
  /\ Begun({family[t] : t \in Issued \ mine})
  /\ UNCHANGED <<family, person, held, call>>

\* changePassword and resetPassword, up to the sessions being revoked.
changePassword(w) ==
  /\ w \in Free
  /\ Go(w, [Idle EXCEPT !.op = "endAll", !.pc = "revokeAll"])
  /\ Begun(Families)
  /\ UNCHANGED <<stored, person, held>>

\* setStatus: another administrator suspends or activates the account.
setStatus ==
  /\ status # "DELETED"
  /\ status' \in {"ACTIVE", "SUSPENDED"} \ {status}
  /\ UNCHANGED <<stored, superAdmin, held, call, history>>

\* softDelete, up to the sessions being revoked.
softDelete(w) ==
  /\ w \in Free
  /\ status # "DELETED"
  /\ status' = "DELETED"
  /\ Go(w, [Idle EXCEPT !.op = "endAll", !.pc = "revokeAll"])
  /\ Begun(Families)
  /\ UNCHANGED <<stored, superAdmin, held>>

\* The API process stops between two statements.
stop(w) ==
  LET c == call[w] IN
  /\ Working(w)
  /\ Go(w, Idle)
  /\ outdated' = outdated \cup Renewing(c)
  /\ UNCHANGED <<stored, person, held, disturbed>>

-----------------------------------------------------------------------------

Init ==
  /\ family = [t \in Tokens |-> None]
  /\ life = [t \in Tokens |-> "usable"]
  /\ status = "ACTIVE"
  /\ superAdmin \in BOOLEAN
  /\ held = [d \in Devices |-> None]
  /\ call = [w \in Workers |-> Idle]
  /\ outdated = {} /\ disturbed = {}

\* What goes on by itself once a call is under way.
goesOn(w) ==
  reuse(w) \/ mark(w) \/ inactive(w) \/ issue(w) \/ signIn(w) \/ revokeAll(w) \/ deliver(w)

Next ==
  \/ \E w \in Workers :
       \/ deliver(w) \/ giveUp(w) \/ stop(w)
       \/ reuse(w) \/ mark(w) \/ inactive(w) \/ issue(w) \/ signIn(w) \/ revokeAll(w)
       \/ changePassword(w) \/ softDelete(w)
       \/ \E d \in Devices : refreshBegin(w, d) \/ signInBegin(w, d)
  \/ \E d \in Devices : signOut(d) \/ revokeOthers(d)
  \/ setStatus

Spec == Init /\ [][Next]_vars

\* A call goes on, and does not stop at its first write for ever.  A device in
\* use refreshes again and again, its access token living for minutes.
Fairness ==
  /\ \A w \in Workers : WF_vars(goesOn(w)) /\ SF_vars(mark(w))
  /\ \A d \in Devices : SF_vars(\E w \in Workers : refreshBegin(w, d))

FairSpec == Spec /\ Fairness

-----------------------------------------------------------------------------
(* Properties *)

\* A family has one token that can still be used, unless two calls worked on
\* it at once: rotation hands the session on and never forks it.
OneUsablePerFamily ==
  \A f \in Tokens \ disturbed :
    \A s, t \in Usable : family[s] = f /\ family[t] = f => s = t

\* A family is revoked as a whole or not at all, so that no token issued later
\* revives a session that was ended.
FamilyDiesWhole ==
  \A f \in Tokens \ disturbed : \A s, t \in Family(f) :
    (life[s] \in Reasons) <=> (life[t] \in Reasons)

\* Nobody is signed out for doing nothing wrong: reuse is detected only where an
\* answer to a refresh was lost, or where two tabs of a browser refreshed at once,
\* which share a cookie and not refreshInFlight.  A phone is never the cause.
ReplayHasCause == \A t \in Tokens : life[t] = "reused" => family[t] \in outdated

\* The devices of a person who is suspended for good lose their sessions.
SuspensionEndsSessions ==
  <>[](status # "ACTIVE") => <>[](\A d \in Devices : held[d] \notin Usable)

=============================================================================

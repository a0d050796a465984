------------------------- MODULE AuthSessionsProofs -------------------------
(***************************************************************************)
(* Proofs about AuthSessions for every number of workers, passwords,       *)
(* sessions and tokens, every clock and every timeout.                     *)
(***************************************************************************)
EXTENDS AuthSessions, TLAPS

USE AuthAssumption

-----------------------------------------------------------------------------
(* The inductive invariant *)

Logging(w) == req[w].op = "login"
Changing(w) == req[w].op = "change_password"

\* Logins follow one another on the event loop, password changes on the command line.
OneAtATime ==
    \A v, w \in Workers :
        (Logging(v) /\ Logging(w)) \/ (Changing(v) /\ Changing(w)) => v = w

\* How the fields of a transaction hang together.
Shape(r) ==
    /\ r.pc = "idle" <=> r.op = "none"
    /\ r.op = "login" <=> r.pc \in {"previous", "success", "failure"}
    /\ r.op = "change_password" <=> r.pc = "change"
    /\ r.pc \in {"touch", "revoke"} => r.sid \in SessionIds
    /\ r.raced => r.op = "login"

\* A locked account has reached the threshold, or a password change cleared its count.
Threshold(u) == u.locked # 0 => u.failed = 0 \/ u.failed >= MaxFailed

Counted ==
    /\ Threshold(user)
    /\ user.locked = 0 => guesses <= user.failed

AllOver == \A i \in SessionIds : sessions[i].revoked

\* What a login has loaded is what is stored, but for a password change in between, which
\* clears columns, replaces the hash and ends every session.
LoginInFlight(r) ==
    /\ r.password \in Passwords
    /\ r.was.locked <= r.at /\ r.at <= now
    /\ Threshold(r.was)
    /\ user.locked \in {0, r.was.locked} /\ user.failed \in {0, r.was.failed}
    /\ r.was.locked = 0 => guesses <= r.was.failed /\ guesses < MaxFailed
    /\ \A i \in SessionIds : sessions[i] # NoSession => sessions[i].created <= r.at
    /\ r.raced => AllOver

FailureInFlight(r) ==
    /\ r.will.hash = r.was.hash
    /\ r.will.failed = (IF r.was.locked = 0 THEN r.was.failed ELSE 0) + 1
    /\ r.will.locked = IF r.will.failed >= MaxFailed THEN r.at + LockoutTime ELSE 0

SuccessInFlight(r) ==
    /\ r.will.failed = 0 /\ r.will.locked = 0
    /\ r.will.hash = IF r.was.hash.old THEN [of |-> r.password, old |-> FALSE] ELSE r.was.hash
    /\ ~r.raced => r.password = user.hash.of

ChangeInFlight(r) ==
    r.will = [hash |-> [of |-> r.was.hash.of + 1, old |-> FALSE], failed |-> 0, locked |-> 0]

\* A touch read the deadline of a row that may be another session by now; that session
\* was created later, if it is not still to be created.
TouchInFlight(r) ==
    /\ r.until <= now + AbsoluteTimeout
    /\ sessions[r.sid] # NoSession => r.until <= sessions[r.sid].absolute
    /\ \A v \in Workers : Logging(v) => r.until <= req[v].at + AbsoluteTimeout

InFlight(r) ==
    /\ Shape(r)
    /\ r.op = "login" => LoginInFlight(r)
    /\ r.pc = "failure" => FailureInFlight(r)
    /\ r.pc \in {"previous", "success"} => SuccessInFlight(r)
    /\ r.pc = "change" => ChangeInFlight(r)
    /\ r.pc = "touch" => TouchInFlight(r)

\* Sessions of an old password are revoked, or of a login that a change overtook.
CurrentOrOver(s) ==
    s # NoSession => s.created <= now /\ (s.revoked \/ s.raced \/ s.password = user.hash.of)

\* Unless the first hash has outdated parameters, only a password change stores a hash.
HashKept ==
    OldHash \/ /\ ~user.hash.old
               /\ \A w \in Workers : Logging(w) => ~req[w].was.hash.old
               /\ \A w \in Workers : Changing(w) => req[w].was.hash = user.hash

IInv ==
    /\ TypeOK
    /\ OneAtATime
    /\ \A w \in Workers : InFlight(req[w])
    /\ \A i \in SessionIds : CurrentOrOver(sessions[i])
    /\ WithinAbsolute
    /\ Counted
    /\ LockoutBound
    /\ HashKept

-----------------------------------------------------------------------------
(* Facts about operators *)

\* An idle transaction is well typed.
LEMMA IdleType == FirstUser \in User /\ IdleReq \in Request
<1>1. 1 \in Passwords /\ 0 \in Times
  BY DEF Passwords, Times, Horizon
<1>2. FirstUser \in User
  BY <1>1 DEF FirstUser, User, Hash
<1>3. QED
  BY <1>1, <1>2 DEF IdleReq, Request, Pc, Op

\* An UPDATE writes the columns that differ from what was loaded, and keeps the others.
LEMMA UpdatedColumns ==
  ASSUME user \in User, NEW was \in User, NEW will \in User
  PROVE  /\ Updated(was, will) \in User
         /\ Updated(was, will).hash = IF will.hash # was.hash THEN will.hash ELSE user.hash
         /\ Updated(was, will).failed =
              IF will.failed # was.failed THEN will.failed ELSE user.failed
         /\ Updated(was, will).locked =
              IF will.locked # was.locked THEN will.locked ELSE user.locked
  BY DEF Updated, User

\* A transaction that has ended has nothing in flight.
LEMMA IdleInFlight == InFlight(IdleReq) /\ InFlight(IdleReq)'
  BY DEF IdleReq, InFlight, Shape

\* Ending every session changes nothing else about it.
LEMMA AllRevokedEffect ==
  ASSUME sessions \in [SessionIds -> Session \cup {NoSession}], NEW i \in SessionIds
  PROVE  /\ AllRevoked[i] \in Session \cup {NoSession}
         /\ AllRevoked[i] = NoSession <=> sessions[i] = NoSession
         /\ AllRevoked[i].revoked
         /\ AllRevoked[i].created = sessions[i].created
         /\ AllRevoked[i].expires = sessions[i].expires
         /\ AllRevoked[i].absolute = sessions[i].absolute
<1> DEFINE s == sessions[i]
           t == [s EXCEPT !.revoked = TRUE]
<1>1. CASE s = NoSession
  BY <1>1 DEF AllRevoked, NoSession
<1>2. CASE s # NoSession
  <2>1. s \in Session /\ AllRevoked[i] = t
    BY <1>2 DEF AllRevoked
  <2>2. /\ t \in Session /\ t.revoked /\ t.created = s.created /\ t.token = s.token
        /\ t.expires = s.expires /\ t.absolute = s.absolute
    BY <2>1 DEF Session
  <2>3. t # NoSession
    BY <2>2 DEF Session, NoSession, Tokens
  <2>4. QED
    BY <1>2, <2>1, <2>2, <2>3
<1>3. QED
  BY <1>1, <1>2
\* A step that changes nothing but the transaction of one worker keeps the invariant if
\* what it makes of it is in order: a login or a password change that starts is alone, and
\* loads the row as it is.
LEMMA QuietStep ==
  ASSUME IInv, NEW w \in Workers, NEW n \in Request, Become(w, n), InFlight(n)',
         UNCHANGED <<user, sessions, issued, now, guesses>>,
         n.op = "login" =>
             \/ Logging(w) /\ n.at = req[w].at /\ n.was = req[w].was
             \/ (\A v \in Workers \ {w} : ~Logging(v)) /\ n.at = now /\ n.was = user,
         n.op = "change_password" =>
             (\A v \in Workers : ~Changing(v)) /\ n.was = user
  PROVE  IInv'
<1>1. /\ req' \in [Workers -> Request] /\ req'[w] = n
      /\ \A v \in Workers \ {w} : req'[v] = req[v]
  BY DEF Become, IInv, TypeOK
<1>2. TypeOK'
  BY <1>1 DEF IInv, TypeOK
<1>3. OneAtATime'
  BY <1>1 DEF IInv, OneAtATime, Logging, Changing
<1>4. \A v \in Workers : Logging(v)' =>
        \/ Logging(v) /\ req'[v].at = req[v].at /\ req'[v].was = req[v].was
        \/ req'[v].at = now /\ req'[v].was = user
  BY <1>1 DEF Logging
<1>5. ASSUME NEW v \in Workers
      PROVE  InFlight(req[v])'
  <2>1. CASE v = w
    BY <1>1, <2>1
  <2>2. CASE v # w
    <3>1. InFlight(req[v]) /\ req'[v] = req[v]
      BY <1>1, <2>2 DEF IInv
    <3>2. req[v].pc = "touch" => TouchInFlight(req[v])'
      BY <1>4, <3>1 DEF InFlight, TouchInFlight
    <3>3. QED
      BY <3>1, <3>2 DEF InFlight, LoginInFlight, FailureInFlight, SuccessInFlight,
         ChangeInFlight, AllOver
  <2>3. QED
    BY <2>1, <2>2
<1>6. HashKept'
  BY <1>1, <1>4 DEF IInv, HashKept, Logging, Changing
<1>7. QED
  BY <1>2, <1>3, <1>5, <1>6 DEF IInv, CurrentOrOver, WithinAbsolute, Counted, LockoutBound

\* A transaction that ends without a write.
LEMMA EndStep ==
  ASSUME IInv, NEW w \in Workers, Become(w, IdleReq),
         UNCHANGED <<user, sessions, issued, now, guesses>>
  PROVE  IInv'
<1>1. IdleReq.op = "none"
  BY DEF IdleReq
<1>2. QED
  BY <1>1, IdleType, IdleInFlight, QuietStep

-----------------------------------------------------------------------------
(* The steps of a login *)

\* What login makes of the row it loaded.
LEMMA AfterFailureColumns ==
  ASSUME NEW u \in User, NEW t \in Times, u.locked <= t, t + LockoutTime \in Times
  PROVE  /\ AfterFailure(u, t) \in User /\ AfterFailure(u, t).hash = u.hash
         /\ AfterFailure(u, t).failed = (IF u.locked = 0 THEN u.failed ELSE 0) + 1
         /\ AfterFailure(u, t).locked =
              IF AfterFailure(u, t).failed >= MaxFailed THEN t + LockoutTime ELSE 0
<1> DEFINE l == Unlocked(u, t)
           failed == l.failed + 1
           locked == IF failed >= MaxFailed THEN t + LockoutTime ELSE l.locked
<1>1. l \in User /\ l.hash = u.hash /\ l.locked = 0
      /\ l.failed = (IF u.locked = 0 THEN u.failed ELSE 0)
  <2>1. CASE u.locked = 0
    BY <2>1 DEF Unlocked
  <2>2. CASE u.locked # 0
    <3>1. l = [hash |-> u.hash, failed |-> 0, locked |-> 0]
      BY <2>2 DEF Unlocked, User
    <3>2. 0 \in Times
      BY DEF Times, Horizon
    <3>3. l \in User
      BY <3>1, <3>2 DEF User
    <3>4. l.hash = u.hash /\ l.locked = 0 /\ l.failed = 0
      BY <3>1 DEF User
    <3>5. QED
      BY <2>2, <3>3, <3>4
  <2>3. QED
    BY <2>1, <2>2
<1>2. AfterFailure(u, t) = [l EXCEPT !.failed = failed, !.locked = locked]
  BY <1>1 DEF AfterFailure, User
<1>3. failed \in Nat /\ locked \in Times
  BY <1>1 DEF User
<1>4. QED
  BY <1>1, <1>2, <1>3 DEF User

\* A successful login resets counter and lock, and rehashes the password it verified only
\* when the parameters of the hash are outdated.
LEMMA AfterSuccessColumns ==
  ASSUME NEW u \in User, NEW password \in Passwords
  PROVE  /\ AfterSuccess(u, password) \in User
         /\ AfterSuccess(u, password).failed = 0 /\ AfterSuccess(u, password).locked = 0
         /\ AfterSuccess(u, password).hash =
              IF u.hash.old THEN [of |-> password, old |-> FALSE] ELSE u.hash
<1> DEFINE hash == IF u.hash.old THEN [of |-> password, old |-> FALSE] ELSE u.hash
<1>1. hash \in Hash
  BY DEF User, Hash
<1>2. AfterSuccess(u, password) = [hash |-> hash, failed |-> 0, locked |-> 0]
  <2>1. AfterSuccess(u, password) = [u EXCEPT !.failed = 0, !.locked = 0, !.hash = hash]
    BY DEF AfterSuccess, User
  <2> HIDE DEF hash
  <2>2. QED
    BY <2>1 DEF User
<1>3. 0 \in Times
  BY DEF Times, Horizon
<1>4. AfterSuccess(u, password) \in User
  BY <1>1, <1>2, <1>3 DEF User
<1>5. QED
  BY <1>2, <1>4 DEF User

\* Times that are computed from the clock are in range.
LEMMA ClockRange ==
  ASSUME NEW t \in 0..MaxTime
  PROVE  {t, t + IdleTimeout, t + AbsoluteTimeout, t + LockoutTime} \subseteq Times
  BY DEF Times, Horizon

\* Login: no other login is under way, and the row is loaded as it is.
LEMMA LoginStep ==
  ASSUME IInv, NEW w \in Workers, NEW password \in Passwords, NEW token \in 0..issued,
         Login(w, password, token)
  PROVE  IInv'
<1> DEFINE valid == password = user.hash.of
           will == IF valid THEN AfterSuccess(user, password) ELSE AfterFailure(user, now)
           pc == IF valid THEN "previous" ELSE "failure"
           e == [IdleReq EXCEPT !.op = "login", !.password = password, !.token = token,
                                !.at = now, !.was = user, !.will = will, !.pc = pc]
<1>1. /\ \A v \in Workers \ {w} : ~Logging(v)
      /\ user.locked <= now /\ Become(w, e)
      /\ UNCHANGED <<user, sessions, issued, now, guesses>>
  BY DEF Login, LoopFree, Logging
<1>2. /\ user \in User /\ now \in 1..MaxTime /\ token \in Tokens \cup {0}
      /\ guesses \in Nat
  BY DEF IInv, TypeOK, Tokens
<1>3. now \in Times /\ now + LockoutTime \in Times
  BY <1>2, ClockRange
<1>4. will \in User
  BY <1>1, <1>2, <1>3, AfterFailureColumns, AfterSuccessColumns
<1>5. PICK n \in Request :
        /\ Become(w, n) /\ n.op = "login" /\ n.pc = pc /\ n.at = now /\ n.was = user
        /\ n.will = will /\ n.password = password /\ ~n.raced
  <2>1. e \in Request
    BY <1>2, <1>3, <1>4, IdleType DEF Request, Pc, Op
  <2>2. /\ e.op = "login" /\ e.pc = pc /\ e.at = now /\ e.was = user
        /\ e.will = will /\ e.password = password /\ ~e.raced
    BY DEF IdleReq
  <2>3. QED
    BY <1>1, <2>1, <2>2
<1>6. LoginInFlight(n)'
  <2>1. Threshold(n.was) /\ (user.locked = 0 => guesses <= user.failed /\ guesses < MaxFailed)
    BY <1>2, <1>5 DEF IInv, Counted, LockoutBound
  <2>2. \A i \in SessionIds : sessions[i] # NoSession => sessions[i].created <= now
    BY DEF IInv, CurrentOrOver
  <2>3. QED
    BY <1>1, <1>2, <1>5, <2>1, <2>2 DEF LoginInFlight
<1>7. pc = "failure" => FailureInFlight(n)'
  BY <1>1, <1>2, <1>3, <1>5, AfterFailureColumns DEF FailureInFlight
<1>8. pc = "previous" => SuccessInFlight(n)'
  BY <1>1, <1>2, <1>5, AfterSuccessColumns DEF SuccessInFlight
<1>9. InFlight(n)'
  BY <1>5, <1>6, <1>7, <1>8 DEF InFlight, Shape
<1>10. QED
  BY <1>1, <1>5, <1>9, QuietStep

\* LoginPrevious: the login goes on with what it loaded.
LEMMA LoginPreviousStep ==
  ASSUME IInv, NEW w \in Workers, LoginPrevious(w)
  PROVE  IInv'
<1> DEFINE r == req[w]
<1>1. /\ r.pc = "previous" /\ r \in Request /\ InFlight(r) /\ r.op = "login"
      /\ UNCHANGED <<user, sessions, issued, now, guesses>>
  BY DEF LoginPrevious, IInv, TypeOK, InFlight, Shape
<1>2. PICK n \in Request :
        /\ Become(w, n) /\ n.pc = "success" /\ n.op = "login" /\ n.at = r.at
        /\ n.was = r.was /\ n.will = r.will /\ n.password = r.password /\ n.raced = r.raced
  <2>1. CASE Become(w, [r EXCEPT !.pc = "success"])
    <3> DEFINE e == [r EXCEPT !.pc = "success"]
    <3>1. e \in Request
      BY <1>1 DEF Request, Pc
    <3>2. /\ e.pc = "success" /\ e.op = "login" /\ e.at = r.at
          /\ e.was = r.was /\ e.will = r.will /\ e.password = r.password /\ e.raced = r.raced
      BY <1>1 DEF Request
    <3>3. QED
      BY <2>1, <3>1, <3>2
  <2>2. ASSUME NEW i \in SessionIds, Become(w, [r EXCEPT !.pc = "success", !.sid = i])
        PROVE  \E n \in Request :
                 /\ Become(w, n) /\ n.pc = "success" /\ n.op = "login" /\ n.at = r.at
                 /\ n.was = r.was /\ n.will = r.will /\ n.password = r.password
                 /\ n.raced = r.raced
    <3> DEFINE e == [r EXCEPT !.pc = "success", !.sid = i]
    <3>1. e \in Request
      BY <1>1 DEF Request, Pc
    <3>2. /\ e.pc = "success" /\ e.op = "login" /\ e.at = r.at
          /\ e.was = r.was /\ e.will = r.will /\ e.password = r.password /\ e.raced = r.raced
      BY <1>1 DEF Request
    <3>3. QED
      BY <2>2, <3>1, <3>2
  <2>3. QED
    BY <2>1, <2>2 DEF LoginPrevious
<1>3. LoginInFlight(n)' /\ SuccessInFlight(n)'
  BY <1>1, <1>2 DEF InFlight, LoginInFlight, SuccessInFlight, AllOver
<1>4. InFlight(n)'
  BY <1>2, <1>3 DEF InFlight, Shape
<1>5. QED
  BY <1>1, <1>2, <1>4, QuietStep DEF Logging

-----------------------------------------------------------------------------
(* The steps that only read, of a password change and of authentication *)

\* ChangePassword: no other change is under way, and the row is loaded as it is.
LEMMA ChangePasswordStep ==
  ASSUME IInv, NEW w \in Workers, ChangePassword(w)
  PROVE  IInv'
<1> DEFINE will == [hash |-> [of |-> user.hash.of + 1, old |-> FALSE],
                    failed |-> 0, locked |-> 0]
           e == [IdleReq EXCEPT !.op = "change_password", !.pc = "change", !.was = user,
                                !.will = will]
<1>1. /\ \A v \in Workers : ~Changing(v)
      /\ user.hash.of < MaxPassword /\ Become(w, e)
      /\ UNCHANGED <<user, sessions, issued, now, guesses>>
  BY DEF ChangePassword, Changing
<1>2. user \in User
  BY DEF IInv, TypeOK
<1>3. will \in User
  <2>1. user.hash.of + 1 \in Passwords /\ 0 \in Times
    BY <1>1, <1>2 DEF User, Hash, Passwords, Times, Horizon
  <2>2. QED
    BY <2>1 DEF User, Hash
<1>4. PICK n \in Request : /\ Become(w, n) /\ n.op = "change_password" /\ n.pc = "change"
                           /\ n.was = user /\ n.will = will /\ ~n.raced
  <2>1. e \in Request
    BY <1>2, <1>3, IdleType DEF Request, Pc, Op
  <2>2. /\ e.op = "change_password" /\ e.pc = "change" /\ e.was = user /\ e.will = will
        /\ ~e.raced
    BY DEF IdleReq
  <2>3. QED
    BY <1>1, <2>1, <2>2
<1>5. InFlight(n)'
  BY <1>4 DEF InFlight, Shape, ChangeInFlight
<1>6. QED
  BY <1>1, <1>4, <1>5, QuietStep

\* Authenticate: the deadline of the row that is loaded bounds the new one.
LEMMA AuthenticateStep ==
  ASSUME IInv, NEW w \in Workers, NEW op \in Op, NEW i \in SessionIds,
         Authenticate(w, op, i)
  PROVE  IInv'
<1> DEFINE s == sessions[i]
           until == Earlier(now + IdleTimeout, s.absolute)
           pc == IF now - s.last >= TouchInterval THEN "touch" ELSE "revokeRead"
           e == [IdleReq EXCEPT !.op = op, !.token = s.token, !.sid = i, !.at = now,
                                !.kept = s.expires, !.until = until, !.pc = pc]
<1>1. /\ s # NoSession /\ op \in {"request", "logout"} /\ ~Active(w) /\ Become(w, e)
      /\ UNCHANGED <<user, sessions, issued, now, guesses>>
  BY DEF Authenticate, Usable
<1>2. s \in Session /\ now \in 1..MaxTime
  BY <1>1 DEF IInv, TypeOK
<1>3. now \in Times /\ now + IdleTimeout \in Times
  BY <1>2, ClockRange
<1>4. until \in Times /\ until <= s.absolute
  BY <1>2, <1>3 DEF Earlier, Session, Times
<1>5. s.absolute = s.created + AbsoluteTimeout /\ s.created <= now
  BY <1>1 DEF IInv, WithinAbsolute, CurrentOrOver
<1>6. PICK n \in Request : /\ Become(w, n) /\ n.op = op /\ n.pc = pc /\ n.sid = i
                           /\ n.until = until /\ ~n.raced
  <2>1. e \in Request
    BY <1>2, <1>3, <1>4, IdleType DEF Request, Pc, Session
  <2>2. /\ e.op = op /\ e.pc = pc /\ e.sid = i /\ e.until = until /\ ~e.raced
    BY DEF IdleReq
  <2>3. QED
    BY <1>1, <2>1, <2>2
<1>7. \A v \in Workers : Logging(v)' => Logging(v) /\ req'[v] = req[v]
  BY <1>1, <1>6 DEF Become, Logging, IInv, TypeOK
<1>8. \A v \in Workers : Logging(v) => s.created <= req[v].at /\ req[v].at \in Times
  BY <1>1 DEF IInv, TypeOK, InFlight, LoginInFlight, Logging, Request
<1>9. TouchInFlight(n)'
  <2>1. until <= now + AbsoluteTimeout
    BY <1>2, <1>4, <1>5 DEF Session, Times
  <2>2. \A v \in Workers : Logging(v) => until <= req[v].at + AbsoluteTimeout
    BY <1>2, <1>4, <1>5, <1>8 DEF Session, Times
  <2>3. QED
    BY <1>1, <1>4, <1>6, <1>7, <2>1, <2>2 DEF TouchInFlight
<1>10. InFlight(n)'
  BY <1>1, <1>6, <1>9 DEF InFlight, Shape
<1>11. QED
  BY <1>1, <1>6, <1>10, QuietStep

\* RevokeRead: the session is looked up again, or there is none any more.
LEMMA RevokeReadStep ==
  ASSUME IInv, NEW w \in Workers, RevokeRead(w)
  PROVE  IInv'
<1> DEFINE r == req[w]
<1>1. /\ r.pc = "revokeRead" /\ r \in Request /\ InFlight(r)
      /\ UNCHANGED <<user, sessions, issued, now, guesses>>
  BY DEF RevokeRead, IInv, TypeOK
<1>2. ASSUME NEW i \in SessionIds, Become(w, [r EXCEPT !.pc = "revoke", !.sid = i])
      PROVE  IInv'
  <2> DEFINE e == [r EXCEPT !.pc = "revoke", !.sid = i]
  <2>1. PICK n \in Request : /\ Become(w, n) /\ n.op = r.op /\ n.pc = "revoke"
                             /\ n.sid = i /\ n.raced = r.raced
    <3>1. e \in Request
      BY <1>1 DEF Request, Pc
    <3>2. e.op = r.op /\ e.pc = "revoke" /\ e.sid = i /\ e.raced = r.raced
      BY <1>1 DEF Request
    <3>3. QED
      BY <1>2, <3>1, <3>2
  <2>2. InFlight(n)' /\ n.op \notin {"login", "change_password"}
    BY <1>1, <2>1 DEF InFlight, Shape
  <2>3. QED
    BY <1>1, <2>1, <2>2, QuietStep
<1>3. QED
  BY <1>1, <1>2, EndStep DEF RevokeRead

\* Abort: the transaction rolls back.
LEMMA AbortStep ==
  ASSUME IInv, NEW w \in Workers, Abort(w)
  PROVE  IInv'
  BY EndStep DEF Abort

-----------------------------------------------------------------------------
(* The writes of a login *)

\* The write that ends a login keeps the invariant if what becomes of the row, the
\* counter and the sessions is in order, and no session that is there later is older.
LEMMA LoginEndStep ==
  ASSUME IInv, NEW w \in Workers, Logging(w), Become(w, IdleReq), now' = now,
         user' \in User, guesses' \in Nat, issued' \in 0..MaxToken,
         sessions' \in [SessionIds -> Session \cup {NoSession}],
         OldHash \/ user'.hash = user.hash,
         Counted', LockoutBound', WithinAbsolute',
         \A i \in SessionIds : CurrentOrOver(sessions[i])',
         \A i \in SessionIds : sessions'[i] # NoSession =>
             \/ sessions[i] # NoSession /\ sessions'[i].absolute = sessions[i].absolute
             \/ sessions'[i].absolute = req[w].at + AbsoluteTimeout
  PROVE  IInv'
<1>1. /\ req' \in [Workers -> Request] /\ req'[w] = IdleReq
      /\ \A v \in Workers \ {w} : req'[v] = req[v] /\ ~Logging(v)
  BY IdleType DEF Become, IInv, TypeOK, OneAtATime
<1>2. IdleReq.op = "none" /\ \A v \in Workers : ~Logging(v)'
  BY <1>1 DEF IdleReq, Logging
<1>3. TypeOK'
  BY <1>1 DEF IInv, TypeOK
<1>4. OneAtATime'
  BY <1>1, <1>2 DEF IInv, OneAtATime, Logging, Changing
<1>5. ASSUME NEW v \in Workers
      PROVE  InFlight(req[v])'
  <2>1. CASE v = w
    BY <1>1, <2>1, IdleInFlight
  <2>2. CASE v # w
    <3>1. InFlight(req[v]) /\ req'[v] = req[v] /\ req[v].op # "login"
      BY <1>1, <2>2 DEF IInv, Logging
    <3>2. req[v].pc = "touch" => TouchInFlight(req[v])'
      BY <1>2, <3>1 DEF InFlight, TouchInFlight, Shape
    <3>3. QED
      BY <3>1, <3>2 DEF InFlight, Shape, ChangeInFlight
  <2>3. QED
    BY <2>1, <2>2
<1>6. HashKept'
  BY <1>1, <1>2 DEF IInv, HashKept, Logging, Changing
<1>7. QED
  BY <1>3, <1>4, <1>5, <1>6 DEF IInv

\* What the invariant says of a login that is about to write.
LEMMA LoginDue ==
  ASSUME IInv, NEW w \in Workers, req[w].pc \in {"success", "failure"}
  PROVE  /\ Logging(w) /\ req[w] \in Request /\ LoginInFlight(req[w])
         /\ req[w].was \in User /\ req[w].will \in User /\ user \in User
         /\ req[w].at \in 0..MaxTime /\ now \in 1..MaxTime /\ guesses \in Nat
         /\ sessions \in [SessionIds -> Session \cup {NoSession}] /\ issued \in 0..MaxToken
         /\ req[w].pc = "success" => SuccessInFlight(req[w])
         /\ req[w].pc = "failure" => FailureInFlight(req[w])
<1>1. /\ req[w] \in Request /\ user \in User /\ now \in 1..MaxTime /\ guesses \in Nat
      /\ sessions \in [SessionIds -> Session \cup {NoSession}] /\ issued \in 0..MaxToken
  BY DEF IInv, TypeOK
<1>2. req[w].was \in User /\ req[w].will \in User /\ req[w].at \in Times
  BY <1>1 DEF Request
<1>3. Logging(w) /\ InFlight(req[w])
  BY DEF IInv, InFlight, Shape, Logging
<1>4. LoginInFlight(req[w])
  BY <1>3 DEF InFlight, Logging
<1>5. req[w].at \in 0..MaxTime
  BY <1>1, <1>2, <1>4 DEF LoginInFlight, Times
<1>6. QED
  BY <1>1, <1>2, <1>3, <1>4, <1>5 DEF InFlight

\* LoginFails: the threshold locks the account, whatever was changed meanwhile.
LEMMA LoginFailsStep ==
  ASSUME IInv, NEW w \in Workers, LoginFails(w)
  PROVE  IInv'
<1> DEFINE r == req[w]
<1>1. /\ r.pc = "failure" /\ user' = Updated(r.was, r.will) /\ Become(w, IdleReq)
      /\ guesses' = IF r.was.locked # 0 THEN 1 ELSE guesses + 1
      /\ UNCHANGED <<sessions, issued, now>>
  BY DEF LoginFails
<1>2. /\ Logging(w) /\ LoginInFlight(r) /\ FailureInFlight(r)
      /\ r.was \in User /\ r.will \in User /\ user \in User
      /\ r.at \in 0..MaxTime /\ now \in 1..MaxTime /\ guesses \in Nat
      /\ sessions \in [SessionIds -> Session \cup {NoSession}] /\ issued \in 0..MaxToken
  BY <1>1, LoginDue
<1>3. /\ user' \in User /\ user'.hash = user.hash
      /\ user'.failed = IF r.will.failed # r.was.failed THEN r.will.failed ELSE user.failed
      /\ user'.locked = IF r.will.locked # r.was.locked THEN r.will.locked ELSE user.locked
  BY <1>1, <1>2, UpdatedColumns DEF FailureInFlight
<1>4. r.was.failed \in Nat /\ r.was.locked \in Nat /\ user.failed \in Nat /\ user.locked \in Nat
  BY <1>2 DEF User, Times
<1>5. user'.failed = r.will.failed
  BY <1>2, <1>3, <1>4 DEF FailureInFlight, LoginInFlight, Threshold
<1>6. user'.locked = r.will.locked
  <2>1. CASE r.will.failed >= MaxFailed
    BY <1>2, <1>3, <1>4, <2>1 DEF FailureInFlight, LoginInFlight
  <2>2. CASE ~(r.will.failed >= MaxFailed)
    BY <1>2, <1>3, <1>4, <2>2 DEF FailureInFlight, LoginInFlight
  <2>3. QED
    BY <2>1, <2>2
<1>7. guesses' \in Nat /\ Counted' /\ LockoutBound'
  <2>1. CASE r.was.locked = 0
    BY <1>1, <1>2, <1>4, <1>5, <1>6, <2>1
       DEF FailureInFlight, LoginInFlight, Counted, Threshold, LockoutBound
  <2>2. CASE r.was.locked # 0
    BY <1>1, <1>2, <1>4, <1>5, <1>6, <2>2
       DEF FailureInFlight, LoginInFlight, Counted, Threshold, LockoutBound
  <2>3. QED
    BY <2>1, <2>2
<1>8. WithinAbsolute' /\ \A i \in SessionIds : CurrentOrOver(sessions[i])'
  BY <1>1, <1>3 DEF IInv, WithinAbsolute, CurrentOrOver
<1>9. QED
  BY <1>1, <1>2, <1>3, <1>7, <1>8, LoginEndStep

\* A new session is well typed.
LEMMA NewSessionType ==
  ASSUME NEW password \in Passwords, NEW t \in 0..MaxTime, NEW raced \in BOOLEAN,
         issued \in Nat, issued < MaxToken
  PROVE  LET s == NewSession(password, t, raced)
         IN  /\ s \in Session /\ s.created = t /\ s.absolute = t + AbsoluteTimeout
             /\ s.expires <= s.absolute /\ s.password = password /\ s.raced = raced
<1>1. issued + 1 \in Tokens
  BY DEF Tokens
<1>2. {t, t + IdleTimeout, t + AbsoluteTimeout} \subseteq Times
  BY ClockRange
<1>3. /\ Earlier(t + IdleTimeout, t + AbsoluteTimeout) \in Times
      /\ Earlier(t + IdleTimeout, t + AbsoluteTimeout) <= t + AbsoluteTimeout
  BY <1>2 DEF Earlier, Times
<1>4. QED
  BY <1>1, <1>2, <1>3 DEF NewSession, Session

\* Revoking a session changes nothing else about it.
LEMMA RevokedSession ==
  ASSUME NEW s \in Session
  PROVE  LET t == [s EXCEPT !.revoked = TRUE]
         IN  /\ t \in Session /\ t.revoked /\ t.token = s.token /\ t.created = s.created
             /\ t.expires = s.expires /\ t.absolute = s.absolute /\ t.raced = s.raced
             /\ t.password = s.password
  BY DEF Session

\* A session is not the absence of one.
LEMMA SessionIsSome == \A s \in Session : s # NoSession
  BY DEF Session, NoSession, Tokens

\* LoginSucceeds: the new session is of the stored password, or raced and the only one.
LEMMA LoginSucceedsStep ==
  ASSUME IInv, NEW w \in Workers, NEW i \in SessionIds, LoginSucceeds(w, i)
  PROVE  IInv'
<1> DEFINE r == req[w]
           s == NewSession(r.password, r.at, r.raced)
<1>1. /\ r.pc = "success" /\ issued < MaxToken /\ sessions[i] = NoSession
      /\ r.sid # 0 => sessions[r.sid] # NoSession
      /\ user' = Updated(r.was, r.will) /\ Become(w, IdleReq)
      /\ issued' = issued + 1 /\ guesses' = 0 /\ now' = now
      /\ sessions' = [j \in SessionIds |->
           CASE j = i -> s
             [] j = r.sid -> [sessions[j] EXCEPT !.revoked = TRUE]
             [] OTHER -> sessions[j]]
  BY DEF LoginSucceeds, IsNextId
<1>2. /\ Logging(w) /\ r \in Request /\ LoginInFlight(r) /\ SuccessInFlight(r)
      /\ r.was \in User /\ r.will \in User /\ user \in User
      /\ r.at \in 0..MaxTime /\ now \in 1..MaxTime /\ issued \in 0..MaxToken
      /\ sessions \in [SessionIds -> Session \cup {NoSession}]
  BY <1>1, LoginDue
<1>3. r.password \in Passwords /\ r.raced \in BOOLEAN /\ 0 \notin SessionIds
  BY <1>2 DEF LoginInFlight, Request, SessionIds
<1>4. /\ s \in Session /\ s.created = r.at /\ s.absolute = r.at + AbsoluteTimeout
      /\ s.expires <= s.absolute /\ s.password = r.password /\ s.raced = r.raced
  BY <1>1, <1>2, <1>3, NewSessionType
<1> HIDE DEF s
<1>5. sessions'[i] = s
  BY <1>1, <1>3
<1>6. ASSUME NEW j \in SessionIds, j # i
      PROVE  \/ sessions'[j] = sessions[j]
             \/ /\ sessions[j] \in Session
                /\ sessions'[j] = [sessions[j] EXCEPT !.revoked = TRUE]
  <2>1. CASE j = r.sid
    BY <1>1, <1>2, <1>3, <1>6, <2>1
  <2>2. CASE j # r.sid
    BY <1>1, <1>6, <2>2
  <2>3. QED
    BY <2>1, <2>2
<1>7. ASSUME NEW j \in SessionIds, j # i
      PROVE  /\ sessions'[j] \in Session \cup {NoSession}
             /\ sessions'[j] # NoSession => sessions[j] # NoSession
             /\ sessions'[j].absolute = sessions[j].absolute
             /\ sessions'[j].expires = sessions[j].expires
             /\ sessions'[j].created = sessions[j].created
             /\ sessions'[j].password = sessions[j].password
             /\ sessions'[j].raced = sessions[j].raced
             /\ sessions[j].revoked => sessions'[j].revoked
  <2>1. CASE sessions'[j] = sessions[j]
    BY <1>2, <2>1
  <2>2. CASE /\ sessions[j] \in Session
             /\ sessions'[j] = [sessions[j] EXCEPT !.revoked = TRUE]
    BY <2>2, RevokedSession, SessionIsSome
  <2>3. QED
    BY <1>6, <1>7, <2>1, <2>2
<1>8. sessions' \in [SessionIds -> Session \cup {NoSession}]
  <2>1. DOMAIN sessions' = SessionIds /\ sessions' = [j \in SessionIds |-> sessions'[j]]
    BY <1>1
  <2>2. \A j \in SessionIds : sessions'[j] \in Session \cup {NoSession}
    BY <1>4, <1>5, <1>7
  <2>3. QED
    BY <2>1, <2>2
<1>9. /\ user' \in User
      /\ user'.hash = IF r.will.hash # r.was.hash THEN r.will.hash ELSE user.hash
      /\ user'.failed = IF r.will.failed # r.was.failed THEN r.will.failed ELSE user.failed
      /\ user'.locked = IF r.will.locked # r.was.locked THEN r.will.locked ELSE user.locked
  BY <1>1, <1>2, UpdatedColumns
<1>10. OldHash \/ user'.hash = user.hash
  BY <1>2, <1>9 DEF IInv, HashKept, SuccessInFlight
<1>11. user'.failed = 0 /\ user'.locked = 0
  BY <1>2, <1>9 DEF SuccessInFlight, LoginInFlight
<1>12. Counted' /\ LockoutBound'
  BY <1>1, <1>11 DEF Counted, Threshold, LockoutBound
<1>13. WithinAbsolute'
  BY <1>4, <1>5, <1>7 DEF IInv, WithinAbsolute
<1>14. ~r.raced => user'.hash.of = user.hash.of /\ user'.hash.of = r.password
  BY <1>2, <1>9 DEF SuccessInFlight
<1>15. ASSUME NEW j \in SessionIds
       PROVE  CurrentOrOver(sessions[j])'
  <2>1. CASE j = i
    BY <1>1, <1>2, <1>4, <1>5, <1>14, <2>1 DEF CurrentOrOver, LoginInFlight
  <2>2. CASE j # i
    <3>1. CurrentOrOver(sessions[j])
      BY DEF IInv
    <3>2. r.raced => sessions[j].revoked
      BY <1>2 DEF LoginInFlight, AllOver
    <3>3. QED
      BY <1>1, <1>7, <1>14, <2>2, <3>1, <3>2 DEF CurrentOrOver
  <2>3. QED
    BY <2>1, <2>2
<1>16. issued' \in 0..MaxToken /\ guesses' \in Nat
  BY <1>1, <1>2
<1>17. \A j \in SessionIds : sessions'[j] # NoSession =>
         \/ sessions[j] # NoSession /\ sessions'[j].absolute = sessions[j].absolute
         \/ sessions'[j].absolute = r.at + AbsoluteTimeout
  BY <1>4, <1>5, <1>7
<1>18. QED
  BY <1>1, <1>2, <1>8, <1>9, <1>10, <1>12, <1>13, <1>15, <1>16, <1>17, LoginEndStep

-----------------------------------------------------------------------------
(* Writes to the sessions *)

\* What a write may do to a session that it does not create.
Aged(s, t) ==
    \/ t = NoSession
    \/ /\ s # NoSession /\ t.created = s.created /\ t.absolute = s.absolute
       /\ t.password = s.password /\ t.raced = s.raced /\ (s.revoked => t.revoked)
       /\ t.expires <= s.absolute

\* A write that only ages sessions keeps the invariant; the transaction that made it has
\* ended or will look the session up again.
LEMMA AgingStep ==
  ASSUME IInv, UNCHANGED <<user, issued, now, guesses>>,
         sessions' \in [SessionIds -> Session \cup {NoSession}],
         \A i \in SessionIds : Aged(sessions[i], sessions'[i]),
         req' \in [Workers -> Request],
         \A v \in Workers :
             \/ req'[v] = req[v]
             \/ /\ req'[v].op \in {"none", "request", "logout"} /\ ~req'[v].raced
                /\ req'[v].pc = IF req'[v].op = "none" THEN "idle" ELSE "revokeRead"
  PROVE  IInv'
<1>1. TypeOK'
  BY DEF IInv, TypeOK
<1>2. \A v \in Workers : (Logging(v)' => Logging(v) /\ req'[v] = req[v])
                         /\ (Changing(v)' => Changing(v) /\ req'[v] = req[v])
  BY DEF Logging, Changing
<1>3. OneAtATime' /\ HashKept'
  BY <1>2 DEF IInv, OneAtATime, HashKept
<1>4. \A i \in SessionIds : sessions[i].revoked => sessions'[i].revoked
  BY DEF Aged, NoSession
<1>5. \A i \in SessionIds : CurrentOrOver(sessions[i])'
  BY DEF IInv, CurrentOrOver, Aged
<1>6. WithinAbsolute'
  BY DEF IInv, WithinAbsolute, Aged
<1>7. ASSUME NEW v \in Workers
      PROVE  InFlight(req[v])'
  <2>1. CASE req'[v] = req[v]
    <3>1. InFlight(req[v])
      BY DEF IInv
    <3>2. req[v].op = "login" => LoginInFlight(req[v])'
      BY <1>4, <2>1, <3>1 DEF InFlight, LoginInFlight, AllOver, Aged
    <3>3. req[v].pc = "touch" => TouchInFlight(req[v])'
      BY <1>2, <2>1, <3>1 DEF InFlight, TouchInFlight, Aged, Shape
    <3>4. QED
      BY <2>1, <3>1, <3>2, <3>3 DEF InFlight, FailureInFlight, SuccessInFlight,
         ChangeInFlight
  <2>2. CASE req'[v] # req[v]
    BY <2>2 DEF InFlight, Shape
  <2>3. QED
    BY <2>1, <2>2
<1>8. QED
  BY <1>1, <1>3, <1>5, <1>6, <1>7 DEF IInv, Counted, LockoutBound

\* RevokeSessions: every session is revoked.
LEMMA RevokeSessionsStep ==
  ASSUME IInv, RevokeSessions
  PROVE  IInv'
<1>1. sessions' = AllRevoked /\ UNCHANGED <<user, issued, now, req, guesses>>
  BY DEF RevokeSessions
<1>2. /\ sessions \in [SessionIds -> Session \cup {NoSession}] /\ WithinAbsolute
      /\ req \in [Workers -> Request]
  BY DEF IInv, TypeOK
<1>3. sessions' \in [SessionIds -> Session \cup {NoSession}]
  BY <1>1, <1>2, AllRevokedEffect DEF AllRevoked
<1>4. ASSUME NEW i \in SessionIds
      PROVE  Aged(sessions[i], sessions'[i])
  <2>1. CASE sessions[i] = NoSession
    BY <1>1, <1>2, <2>1, AllRevokedEffect DEF Aged
  <2>2. CASE sessions[i] # NoSession
    <3>1. sessions[i] \in Session /\ sessions'[i] = [sessions[i] EXCEPT !.revoked = TRUE]
      BY <1>1, <1>2, <2>2 DEF AllRevoked
    <3>2. QED
      BY <1>2, <2>2, <3>1, RevokedSession DEF Aged, WithinAbsolute
  <2>3. QED
    BY <2>1, <2>2
<1>5. QED
  BY <1>1, <1>2, <1>3, <1>4, AgingStep

\* CleanupExpired: rows go, and their ids may be given to newer sessions.
LEMMA CleanupExpiredStep ==
  ASSUME IInv, CleanupExpired
  PROVE  IInv'
<1>1. /\ sessions' = [i \in SessionIds |->
                        IF Expired(sessions[i]) THEN NoSession ELSE sessions[i]]
      /\ UNCHANGED <<user, issued, now, req, guesses>>
  BY DEF CleanupExpired
<1>2. /\ sessions \in [SessionIds -> Session \cup {NoSession}] /\ WithinAbsolute
      /\ req \in [Workers -> Request]
  BY DEF IInv, TypeOK
<1>3. sessions' \in [SessionIds -> Session \cup {NoSession}]
  BY <1>1, <1>2
<1>4. \A i \in SessionIds : Aged(sessions[i], sessions'[i])
  BY <1>1, <1>2 DEF Aged, WithinAbsolute
<1>5. QED
  BY <1>1, <1>2, <1>3, <1>4, AgingStep

\* What the end of a request makes of it.
LEMMA AfterTouch ==
  ASSUME NEW w \in Workers, req[w] \in Request, Shape(req[w]),
         req[w].pc \in {"touch", "revoke"}
  PROVE  /\ [req[w] EXCEPT !.pc = "revokeRead"] \in Request
         /\ [req[w] EXCEPT !.pc = "revokeRead"].op = req[w].op
         /\ [req[w] EXCEPT !.pc = "revokeRead"].pc = "revokeRead"
         /\ [req[w] EXCEPT !.pc = "revokeRead"].raced = req[w].raced
         /\ ~req[w].raced /\ req[w].op \in {"request", "logout"}
<1>1. req[w].op \in {"request", "logout"} /\ ~req[w].raced
  BY DEF Shape, Request, Op
<1>2. QED
  BY <1>1 DEF Request, Pc

\* Touch: only the activity columns are written.
LEMMA TouchStep ==
  ASSUME IInv, NEW w \in Workers, Touch(w)
  PROVE  IInv'
<1> DEFINE r == req[w]
           s == sessions[r.sid]
           expires == IF r.until # r.kept THEN r.until ELSE s.expires
           t == [s EXCEPT !.last = r.at, !.expires = expires]
<1>1. /\ r.pc = "touch" /\ s # NoSession
      /\ Become(w, IF r.op = "logout" THEN [r EXCEPT !.pc = "revokeRead"] ELSE IdleReq)
      /\ UNCHANGED <<user, issued, now, guesses>>
  BY DEF Touch
<1>2. /\ r \in Request /\ Shape(r) /\ TouchInFlight(r) /\ r.sid \in SessionIds
      /\ s \in Session /\ req \in [Workers -> Request] /\ WithinAbsolute
      /\ sessions \in [SessionIds -> Session \cup {NoSession}]
  BY <1>1 DEF IInv, TypeOK, InFlight, Shape
<1>3. sessions' = [sessions EXCEPT ![r.sid] = t]
  BY <1>1, <1>2 DEF Touch
<1>4. /\ t \in Session /\ t.created = s.created /\ t.absolute = s.absolute
      /\ t.password = s.password /\ t.raced = s.raced /\ t.revoked = s.revoked
      /\ t.expires = expires
  BY <1>2 DEF Session, Request
<1>5. expires <= s.absolute
  BY <1>1, <1>2 DEF TouchInFlight, WithinAbsolute
<1> HIDE DEF t
<1>6. sessions' \in [SessionIds -> Session \cup {NoSession}]
  BY <1>2, <1>3, <1>4
<1>7. \A i \in SessionIds : Aged(sessions[i], sessions'[i])
  BY <1>1, <1>2, <1>3, <1>4, <1>5 DEF Aged, WithinAbsolute
<1>8. req' \in [Workers -> Request]
  BY <1>1, <1>2, IdleType, AfterTouch DEF Become
<1>9. \A v \in Workers :
        \/ req'[v] = req[v]
        \/ /\ req'[v].op \in {"none", "request", "logout"} /\ ~req'[v].raced
           /\ req'[v].pc = IF req'[v].op = "none" THEN "idle" ELSE "revokeRead"
  <2>1. IdleReq.op = "none" /\ IdleReq.pc = "idle" /\ ~IdleReq.raced
    BY DEF IdleReq
  <2>2. QED
    BY <1>1, <1>2, <2>1, AfterTouch DEF Become
<1>10. QED
  BY <1>1, <1>6, <1>7, <1>8, <1>9, AgingStep

\* Revoke: the session is over, or another one has its row id.
LEMMA RevokeStep ==
  ASSUME IInv, NEW w \in Workers, Revoke(w)
  PROVE  IInv'
<1> DEFINE r == req[w]
           s == sessions[r.sid]
           t == [s EXCEPT !.revoked = TRUE]
<1>1. /\ r.pc = "revoke" /\ s # NoSession /\ Become(w, IdleReq)
      /\ UNCHANGED <<user, issued, now, guesses>>
  BY DEF Revoke
<1>2. /\ r \in Request /\ r.sid \in SessionIds
      /\ s \in Session /\ req \in [Workers -> Request] /\ WithinAbsolute
      /\ sessions \in [SessionIds -> Session \cup {NoSession}]
  BY <1>1 DEF IInv, TypeOK, InFlight, Shape
<1>3. sessions' = [sessions EXCEPT ![r.sid] = t]
  BY <1>1, <1>2 DEF Revoke
<1>4. /\ t \in Session /\ t.created = s.created /\ t.absolute = s.absolute
      /\ t.password = s.password /\ t.raced = s.raced /\ t.revoked /\ t.expires = s.expires
  BY <1>2, RevokedSession
<1> HIDE DEF t
<1>5. sessions' \in [SessionIds -> Session \cup {NoSession}]
  BY <1>2, <1>3, <1>4
<1>6. \A i \in SessionIds : Aged(sessions[i], sessions'[i])
  BY <1>1, <1>2, <1>3, <1>4 DEF Aged, WithinAbsolute
<1>7. req' \in [Workers -> Request]
  BY <1>1, <1>2, IdleType DEF Become
<1>8. \A v \in Workers :
        \/ req'[v] = req[v]
        \/ /\ req'[v].op \in {"none", "request", "logout"} /\ ~req'[v].raced
           /\ req'[v].pc = IF req'[v].op = "none" THEN "idle" ELSE "revokeRead"
  <2>1. IdleReq.op = "none" /\ IdleReq.pc = "idle" /\ ~IdleReq.raced
    BY DEF IdleReq
  <2>2. QED
    BY <1>1, <1>2, <2>1 DEF Become
<1>9. QED
  BY <1>1, <1>5, <1>6, <1>7, <1>8, AgingStep

-----------------------------------------------------------------------------
(* The other writes *)

\* Only the logins among the transactions see a password change, and only one mark of it.
LEMMA OvertakenEffect ==
  ASSUME req \in [Workers -> Request], NEW w \in Workers, NEW v \in Workers
  PROVE  /\ Overtaken(w)[v] \in Request
         /\ v = w => Overtaken(w)[v] = IdleReq
         /\ v # w /\ req[v].op # "login" => Overtaken(w)[v] = req[v]
         /\ v # w /\ req[v].op = "login" =>
              LET n == Overtaken(w)[v]
              IN  /\ n.raced /\ n.pc = req[v].pc /\ n.op = "login" /\ n.was = req[v].was
                  /\ n.will = req[v].will /\ n.at = req[v].at /\ n.password = req[v].password
<1>1. CASE v = w
  BY <1>1, IdleType DEF Overtaken
<1>2. CASE v # w /\ req[v].op # "login"
  BY <1>2 DEF Overtaken
<1>3. CASE v # w /\ req[v].op = "login"
  <2> DEFINE n == [req[v] EXCEPT !.raced = TRUE]
  <2>1. Overtaken(w)[v] = n
    BY <1>3 DEF Overtaken
  <2>2. /\ n \in Request /\ n.raced /\ n.pc = req[v].pc /\ n.op = req[v].op
        /\ n.was = req[v].was /\ n.will = req[v].will /\ n.at = req[v].at
        /\ n.password = req[v].password
    BY DEF Request
  <2>3. QED
    BY <1>3, <2>1, <2>2
<1>4. QED
  BY <1>1, <1>2, <1>3

\* What the invariant says of a password change that is about to write: its hash is
\* another one, and it only clears the other columns.
LEMMA ChangeDue ==
  ASSUME IInv, NEW w \in Workers, PasswordChanged(w)
  PROVE  /\ Changing(w) /\ req[w] \in Request /\ user \in User /\ user' \in User
         /\ user'.hash = [of |-> req[w].was.hash.of + 1, old |-> FALSE]
         /\ user'.failed \in {0, user.failed} /\ user'.locked \in {0, user.locked}
<1> DEFINE r == req[w]
<1>1. r.pc = "change" /\ user' = Updated(r.was, r.will)
  BY DEF PasswordChanged
<1>2. /\ r \in Request /\ user \in User /\ InFlight(r)
  BY DEF IInv, TypeOK
<1>3. r.was \in User /\ r.will \in User
  BY <1>2 DEF Request
<1>4. Changing(w) /\ ChangeInFlight(r)
  BY <1>1, <1>2 DEF InFlight, Shape, Changing
<1>5. r.will.hash # r.was.hash
  <2>1. r.will.hash.of = r.was.hash.of + 1 /\ r.was.hash.of \in Nat
    BY <1>3, <1>4 DEF ChangeInFlight, User, Hash, Passwords
  <2>2. QED
    BY <2>1
<1>6. /\ user' \in User /\ user'.hash = r.will.hash
      /\ user'.failed = IF r.will.failed # r.was.failed THEN r.will.failed ELSE user.failed
      /\ user'.locked = IF r.will.locked # r.was.locked THEN r.will.locked ELSE user.locked
  BY <1>1, <1>2, <1>3, <1>5, UpdatedColumns
<1>7. /\ r.will.hash = [of |-> r.was.hash.of + 1, old |-> FALSE]
      /\ r.will.failed = 0 /\ r.will.locked = 0
  BY <1>4 DEF ChangeInFlight
<1>8. QED
  BY <1>2, <1>4, <1>6, <1>7

\* PasswordChanged: every session is over, and every login in flight is marked.
LEMMA PasswordChangedStep ==
  ASSUME IInv, NEW w \in Workers, PasswordChanged(w)
  PROVE  IInv'
<1> DEFINE r == req[w]
<1>1. /\ r.pc = "change" /\ sessions' = AllRevoked
      /\ guesses' = 0 /\ req' = Overtaken(w) /\ UNCHANGED <<issued, now>>
  BY DEF PasswordChanged
<1>2. /\ Changing(w) /\ user \in User /\ user' \in User
      /\ user'.hash = [of |-> r.was.hash.of + 1, old |-> FALSE]
      /\ user'.failed \in {0, user.failed} /\ user'.locked \in {0, user.locked}
  BY ChangeDue
<1>3. /\ req \in [Workers -> Request] /\ WithinAbsolute /\ Counted
      /\ sessions \in [SessionIds -> Session \cup {NoSession}]
  BY DEF IInv, TypeOK
<1>4. sessions' \in [SessionIds -> Session \cup {NoSession}]
  BY <1>1, <1>3, AllRevokedEffect DEF AllRevoked
<1>5. \A i \in SessionIds :
        /\ sessions'[i] = NoSession <=> sessions[i] = NoSession
        /\ sessions'[i].revoked
        /\ sessions'[i].created = sessions[i].created
        /\ sessions'[i].expires = sessions[i].expires
        /\ sessions'[i].absolute = sessions[i].absolute
  BY <1>1, <1>3, AllRevokedEffect
<1>6. /\ req' \in [Workers -> Request]
      /\ req'[w] = IdleReq
      /\ \A v \in Workers \ {w} :
           IF Logging(v)
           THEN /\ req'[v].raced /\ req'[v].pc = req[v].pc /\ req'[v].op = "login"
                /\ req'[v].was = req[v].was /\ req'[v].will = req[v].will
                /\ req'[v].at = req[v].at /\ req'[v].password = req[v].password
           ELSE req'[v] = req[v]
  BY <1>1, <1>3, OvertakenEffect DEF Overtaken, Logging
<1>7. IdleReq.op = "none"
  BY DEF IdleReq
<1>8. TypeOK'
  BY <1>1, <1>2, <1>4, <1>6 DEF IInv, TypeOK
<1>9. \A v \in Workers :
        /\ Logging(v)' => Logging(v) /\ v # w /\ req'[v].at = req[v].at
                            /\ req'[v].was = req[v].was
        /\ ~Changing(v)'
  <2>1. \A v \in Workers \ {w} : ~Changing(v)
    BY <1>2 DEF IInv, OneAtATime
  <2>2. QED
    BY <1>6, <1>7, <2>1 DEF Logging, Changing
<1>10. OneAtATime'
  BY <1>9 DEF IInv, OneAtATime
<1>11. Counted' /\ LockoutBound'
  BY <1>1, <1>2, <1>3 DEF Counted, Threshold, LockoutBound, User
<1>12. HashKept'
  BY <1>2, <1>9 DEF IInv, HashKept
<1>13. WithinAbsolute' /\ \A i \in SessionIds : CurrentOrOver(sessions[i])'
  BY <1>1, <1>3, <1>5 DEF IInv, WithinAbsolute, CurrentOrOver
<1>14. ASSUME NEW v \in Workers
       PROVE  InFlight(req[v])'
  <2>1. CASE v = w
    BY <1>6, <2>1, IdleInFlight
  <2>2. CASE v # w /\ Logging(v)
    <3>1. InFlight(req[v]) /\ LoginInFlight(req[v]) /\ req[v].was \in User
      BY <1>3, <2>2 DEF IInv, InFlight, Logging, Request
    <3>2. /\ req'[v].raced /\ req'[v].pc = req[v].pc /\ req'[v].op = "login"
          /\ req'[v].was = req[v].was /\ req'[v].will = req[v].will
          /\ req'[v].at = req[v].at /\ req'[v].password = req[v].password
      BY <1>6, <2>2
    <3>3. LoginInFlight(req[v])'
      BY <1>1, <1>2, <1>5, <3>1, <3>2 DEF LoginInFlight, AllOver, User
    <3>4. /\ req[v].pc = "failure" => FailureInFlight(req[v])'
          /\ req[v].pc \in {"previous", "success"} => SuccessInFlight(req[v])'
      BY <3>1, <3>2 DEF InFlight, FailureInFlight, SuccessInFlight
    <3>5. req[v].pc \in {"previous", "success", "failure"}
      BY <2>2, <3>1 DEF InFlight, Shape, Logging
    <3>6. QED
      BY <3>2, <3>3, <3>4, <3>5 DEF InFlight, Shape
  <2>3. CASE v # w /\ ~Logging(v)
    <3>1. InFlight(req[v]) /\ req'[v] = req[v]
      BY <1>6, <2>3 DEF IInv
    <3>2. req[v].pc = "touch" => TouchInFlight(req[v])'
      BY <1>1, <1>5, <1>9, <3>1 DEF InFlight, TouchInFlight, Shape
    <3>3. QED
      BY <2>3, <3>1, <3>2 DEF InFlight, Shape, ChangeInFlight, Logging
  <2>4. QED
    BY <2>1, <2>2, <2>3
<1>15. QED
  BY <1>8, <1>10, <1>11, <1>12, <1>13, <1>14 DEF IInv

\* Tick: time only makes what was loaded older.
LEMMA TickStep ==
  ASSUME IInv, Tick
  PROVE  IInv'
<1>1. now < MaxTime /\ now' = now + 1 /\ UNCHANGED <<user, sessions, issued, req, guesses>>
  BY DEF Tick
<1>2. /\ now \in 1..MaxTime /\ req \in [Workers -> Request]
      /\ sessions \in [SessionIds -> Session \cup {NoSession}]
  BY DEF IInv, TypeOK
<1>3. TypeOK'
  BY <1>1, <1>2 DEF IInv, TypeOK
<1>4. /\ OneAtATime' /\ HashKept' /\ Counted' /\ LockoutBound' /\ WithinAbsolute'
  BY <1>1 DEF IInv, OneAtATime, HashKept, Counted, LockoutBound, WithinAbsolute, Logging,
     Changing
<1>5. ASSUME NEW i \in SessionIds
      PROVE  CurrentOrOver(sessions[i])'
  <2>1. sessions[i] # NoSession => sessions[i].created \in Nat
    BY <1>2 DEF Session, Times
  <2>2. QED
    BY <1>1, <1>2, <2>1 DEF IInv, CurrentOrOver
<1>6. ASSUME NEW v \in Workers
      PROVE  InFlight(req[v])'
  <2>1. InFlight(req[v]) /\ req[v].at \in Nat /\ req[v].until \in Nat
    BY <1>2 DEF IInv, Request, Times
  <2>2. req[v].op = "login" => LoginInFlight(req[v])'
    BY <1>1, <1>2, <2>1 DEF InFlight, LoginInFlight, AllOver
  <2>3. req[v].pc = "touch" => TouchInFlight(req[v])'
    BY <1>1, <1>2, <2>1 DEF InFlight, TouchInFlight, Logging
  <2>4. QED
    BY <1>1, <2>1, <2>2, <2>3 DEF InFlight, FailureInFlight, SuccessInFlight, ChangeInFlight
<1>7. QED
  BY <1>3, <1>4, <1>5, <1>6 DEF IInv

-----------------------------------------------------------------------------
(* The invariant *)

\* Nobody has a session, and nobody tries.
LEMMA InitIInv == Init => IInv
<1> SUFFICES ASSUME Init PROVE IInv
  OBVIOUS
<1>1. /\ \A w \in Workers : req[w] = IdleReq
      /\ \A i \in SessionIds : sessions[i] = NoSession
      /\ user = FirstUser /\ guesses = 0
  BY DEF Init
<1>2. IdleReq.op = "none"
  BY DEF IdleReq
<1>3. TypeOK
  BY IdleType DEF Init, TypeOK
<1>4. OneAtATime
  BY <1>1, <1>2 DEF OneAtATime, Logging, Changing
<1>5. \A w \in Workers : InFlight(req[w])
  BY <1>1, IdleInFlight
<1>6. WithinAbsolute /\ \A i \in SessionIds : CurrentOrOver(sessions[i])
  BY <1>1 DEF WithinAbsolute, CurrentOrOver
<1>7. Counted /\ LockoutBound
  BY <1>1 DEF Counted, LockoutBound, Threshold, FirstUser
<1>8. HashKept
  BY <1>1, <1>2 DEF HashKept, Logging, Changing, FirstUser
<1>9. QED
  BY <1>3, <1>4, <1>5, <1>6, <1>7, <1>8 DEF IInv

\* Every step keeps the invariant.
LEMMA NextIInv == IInv /\ [Next]_vars => IInv'
<1> SUFFICES ASSUME IInv, [Next]_vars PROVE IInv'
  OBVIOUS
<1>1. ASSUME NEW w \in Workers,
             \/ \E password \in Passwords, token \in 0..issued : Login(w, password, token)
             \/ LoginPrevious(w) \/ LoginFails(w)
             \/ \E i \in SessionIds : LoginSucceeds(w, i)
      PROVE  IInv'
  BY <1>1, LoginStep, LoginPreviousStep, LoginFailsStep, LoginSucceedsStep
<1>2. ASSUME NEW w \in Workers, ChangePassword(w) \/ PasswordChanged(w)
      PROVE  IInv'
  BY <1>2, ChangePasswordStep, PasswordChangedStep
<1>3. ASSUME NEW w \in Workers,
             \/ \E op \in Op, i \in SessionIds : Authenticate(w, op, i)
             \/ Touch(w) \/ RevokeRead(w) \/ Revoke(w) \/ Abort(w)
      PROVE  IInv'
  BY <1>3, AuthenticateStep, TouchStep, RevokeReadStep, RevokeStep, AbortStep
<1>4. CASE RevokeSessions \/ CleanupExpired \/ Tick
  BY <1>4, RevokeSessionsStep, CleanupExpiredStep, TickStep
<1>5. CASE UNCHANGED vars
  BY <1>5 DEF vars, IInv, TypeOK, OneAtATime, InFlight, LoginInFlight, FailureInFlight,
     SuccessInFlight, ChangeInFlight, TouchInFlight, AllOver, CurrentOrOver, WithinAbsolute,
     Counted, LockoutBound, HashKept, Logging, Changing
<1>6. QED
  BY <1>1, <1>2, <1>3, <1>4, <1>5 DEF Next

-----------------------------------------------------------------------------
(* The theorems *)

\* The invariant holds in every reachable state.
THEOREM Invariance == Spec => []IInv
<1>1. QED
  BY InitIInv, NextIInv, PTL DEF Spec

\* Every variable keeps its type.
THEOREM TypeCorrect == Spec => []TypeOK
<1>1. IInv => TypeOK
  BY DEF IInv
<1>2. QED
  BY <1>1, Invariance, PTL

\* No touch, however late and whatever row it lands on, moves an idle deadline past the
\* absolute one.
THEOREM DeadlinesHold == Spec => []WithinAbsolute
<1>1. IInv => WithinAbsolute
  BY DEF IInv
<1>2. QED
  BY <1>1, Invariance, PTL

\* The threshold locks the account, whatever password changes clear columns beside it.
THEOREM ThresholdLocks == Spec => []LockoutBound
<1>1. IInv => LockoutBound
  BY DEF IInv
<1>2. QED
  BY <1>1, Invariance, PTL

\* A password change leaves no session of an old password but those of the logins it
\* overtook.
THEOREM ChangeEndsSessions == Spec => []OnlyRacingLoginsSurvive
<1>1. IInv => OnlyRacingLoginsSurvive
  BY DEF IInv, CurrentOrOver, OnlyRacingLoginsSurvive, Usable
<1>2. QED
  BY <1>1, Invariance, PTL

\* No step revives a revoked session: not the touch that read it before the revocation,
\* and not a login, a cleanup or a second revocation beside it.
THEOREM NoRevival == Spec => RevocationSticks
<1> DEFINE Sticks == \A i \in SessionIds :
         sessions[i] # NoSession /\ sessions[i].revoked
           /\ sessions'[i].token = sessions[i].token => sessions'[i].revoked
<1>1. IInv /\ [Next]_vars => [Sticks]_vars
  <2> SUFFICES ASSUME IInv, [Next]_vars, NEW i \in SessionIds,
                      sessions[i] # NoSession, sessions[i].revoked
               PROVE  sessions'[i].revoked
    OBVIOUS
  <2>1. sessions \in [SessionIds -> Session \cup {NoSession}] /\ sessions[i] \in Session
    BY DEF IInv, TypeOK
  <2>2. CASE UNCHANGED sessions
    BY <2>2
  <2>3. ASSUME NEW w \in Workers, NEW j \in SessionIds, LoginSucceeds(w, j)
        PROVE  sessions'[i].revoked
    <3>1. i # j
      BY <2>3 DEF LoginSucceeds, IsNextId
    <3>2. sessions'[i] \in {sessions[i], [sessions[i] EXCEPT !.revoked = TRUE]}
      BY <2>3, <3>1 DEF LoginSucceeds
    <3>3. QED
      BY <2>1, <3>2, RevokedSession
  <2>4. CASE sessions' = AllRevoked
    BY <2>1, <2>4, AllRevokedEffect
  <2>5. CASE CleanupExpired
    BY <2>5 DEF CleanupExpired, NoSession
  <2>6. ASSUME NEW w \in Workers, Touch(w)
        PROVE  sessions'[i].revoked
    BY <2>1, <2>6 DEF Touch, Session
  <2>7. ASSUME NEW w \in Workers, Revoke(w)
        PROVE  sessions'[i].revoked
    BY <2>1, <2>7 DEF Revoke, Session
  <2>8. QED
    BY <2>2, <2>3, <2>4, <2>5, <2>6, <2>7 DEF Next, vars, Login, LoginPrevious, LoginFails,
       ChangePassword, PasswordChanged, Authenticate, RevokeRead, Abort, RevokeSessions, Tick
<1>2. QED
  BY <1>1, Invariance, PTL DEF Spec, RevocationSticks

\* As long as no stored hash has outdated parameters, a password that was replaced never
\* comes back.
THEOREM PasswordsMoveOn ==
  ASSUME ~OldHash
  PROVE  Spec => PasswordNeverReverts
<1>1. IInv /\ [Next]_vars => [user'.hash.of >= user.hash.of]_vars
  <2> SUFFICES ASSUME IInv, [Next]_vars PROVE user'.hash.of >= user.hash.of
    OBVIOUS
  <2>1. user \in User /\ user.hash.of \in Nat
    BY DEF IInv, TypeOK, User, Hash, Passwords
  <2>2. CASE UNCHANGED user
    BY <2>1, <2>2
  <2>3. ASSUME NEW w \in Workers, LoginFails(w)
        PROVE  user'.hash.of >= user.hash.of
    <3>1. req[w].pc = "failure" /\ user' = Updated(req[w].was, req[w].will)
      BY <2>3 DEF LoginFails
    <3>2. FailureInFlight(req[w]) /\ req[w].was \in User /\ req[w].will \in User
      BY <3>1, LoginDue
    <3>3. user'.hash = user.hash
      BY <2>1, <3>1, <3>2, UpdatedColumns DEF FailureInFlight
    <3>4. QED
      BY <2>1, <3>3
  <2>4. ASSUME NEW w \in Workers, NEW i \in SessionIds, LoginSucceeds(w, i)
        PROVE  user'.hash.of >= user.hash.of
    <3>1. req[w].pc = "success" /\ user' = Updated(req[w].was, req[w].will)
      BY <2>4 DEF LoginSucceeds
    <3>2. /\ SuccessInFlight(req[w]) /\ req[w].was \in User /\ req[w].will \in User
          /\ Logging(w)
      BY <3>1, LoginDue
    <3>3. ~req[w].was.hash.old
      BY <3>2 DEF IInv, HashKept
    <3>4. user'.hash = user.hash
      BY <2>1, <3>1, <3>2, <3>3, UpdatedColumns DEF SuccessInFlight
    <3>5. QED
      BY <2>1, <3>4
  <2>5. ASSUME NEW w \in Workers, PasswordChanged(w)
        PROVE  user'.hash.of >= user.hash.of
    <3>1. req[w].was.hash = user.hash
      BY <2>5, ChangeDue DEF IInv, HashKept
    <3>2. user'.hash.of = user.hash.of + 1
      <4>1. user'.hash = [of |-> req[w].was.hash.of + 1, old |-> FALSE]
        BY <2>5, ChangeDue
      <4>2. QED
        BY <3>1, <4>1
    <3>3. QED
      BY <2>1, <3>2
  <2>6. QED
    BY <2>2, <2>3, <2>4, <2>5 DEF Next, vars, Login, LoginPrevious, ChangePassword,
       Authenticate, Touch, RevokeRead, Revoke, Abort, RevokeSessions, CleanupExpired, Tick
<1>2. QED
  BY <1>1, Invariance, PTL DEF Spec, PasswordNeverReverts
=============================================================================

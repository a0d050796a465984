---------------------------- MODULE AuthSessions ----------------------------
(***************************************************************************)
(* Login, lockout, password change and server-side sessions of one         *)
(* administrator (AuthService, SessionService).                            *)
(*                                                                         *)
(* login is called from a coroutine, so logins follow one another on the   *)
(* event loop; authentication and logout run in threads; password change,  *)
(* revocation and cleanup are CLI processes.  Each transaction is a SELECT *)
(* and, later, one write: SQLAlchemy updates, by row id, the columns that  *)
(* differ from what was loaded.                                            *)
(***************************************************************************)
EXTENDS Naturals

CONSTANTS
    Workers,          \* concurrent requests and CLI processes
    MaxPassword,      \* bound: how many passwords the account has over time
    MaxSession,       \* bound: largest sessions row id
    MaxToken,         \* bound: session tokens ever issued
    MaxTime,          \* bound: the clock stops here
    IdleTimeout, AbsoluteTimeout, TouchInterval, LockoutTime, MaxFailed,
    OldHash           \* the first password hash has outdated Argon2 parameters

ASSUME AuthAssumption ==
    /\ {MaxPassword, MaxSession, MaxToken, MaxTime, IdleTimeout, AbsoluteTimeout,
        TouchInterval, LockoutTime, MaxFailed} \subseteq Nat \ {0}
    /\ MaxFailed >= 2
    /\ OldHash \in BOOLEAN

VARIABLES
    user,      \* the users row
    sessions,  \* sessions: row id -> row, NoSession where there is none
    issued,    \* tokens issued so far: 1..issued
    now,       \* the clock
    req,       \* worker -> transaction in flight
    guesses    \* wrong passwords answered since the lockout counter was last reset

vars == <<user, sessions, issued, now, req, guesses>>

Passwords == 1..MaxPassword
SessionIds == 1..MaxSession
Tokens == 1..MaxToken
Horizon == MaxTime + IdleTimeout + AbsoluteTimeout + LockoutTime
Times == 0..Horizon

\* A stored hash verifies one password and was made with current or old parameters;
\* locked is 0 when locked_until is NULL.
Hash == [of : Passwords, old : BOOLEAN]
User == [hash : Hash, failed : Nat, locked : Times]

\* password: the password the login that created the session presented; raced: the
\* password was changed while that login was in flight (both for the properties only).
Session == [token : Tokens, created : Times, last : Times, expires : Times,
            absolute : Times, revoked : BOOLEAN, password : Passwords, raced : BOOLEAN]
NoSession == [token |-> 0, created |-> 0, last |-> 0, expires |-> 0, absolute |-> 0,
              revoked |-> TRUE, password |-> 0, raced |-> FALSE]

\* was and will: the users row as loaded and as changed in memory; sid: the loaded
\* session; kept and until: its deadline as loaded and as changed; at: the time read.
Pc == {"idle", "previous", "success", "failure", "change", "touch", "revokeRead", "revoke"}
Op == {"none", "login", "change_password", "request", "logout"}
Request == [pc : Pc, op : Op, token : Tokens \cup {0}, password : Passwords \cup {0},
            sid : SessionIds \cup {0}, was : User, will : User,
            kept : Times, until : Times, at : Times, raced : BOOLEAN]

FirstUser == [hash |-> [of |-> 1, old |-> OldHash], failed |-> 0, locked |-> 0]
IdleReq == [pc |-> "idle", op |-> "none", token |-> 0, password |-> 0, sid |-> 0,
            was |-> FirstUser, will |-> FirstUser, kept |-> 0, until |-> 0, at |-> 0,
            raced |-> FALSE]

Init ==
    /\ user = FirstUser
    /\ sessions = [i \in SessionIds |-> NoSession]
    /\ issued = 0
    /\ now = 1
    /\ req = [w \in Workers |-> IdleReq]
    /\ guesses = 0

Active(w) == req[w].pc # "idle"
Become(w, r) == req' = [req EXCEPT ![w] = r]

\* Mutant: logins run in threads.
LoginInThread(w) == w \in Workers

LoopFree(w) == \A v \in Workers \ {w} : req[v].op # "login"

\* Mutant: the idle deadline is not capped.
Uncapped(a, b) == a

Earlier(a, b) == IF a <= b THEN a ELSE b

\* The users row after an UPDATE of the columns that differ from the loaded ones.
Updated(was, will) ==
    [c \in DOMAIN user |-> IF will[c] # was[c] THEN will[c] ELSE user[c]]

-----------------------------------------------------------------------------
(* AuthService.login *)

\* What login makes of the loaded row before it looks at the password.
Unlocked(u, t) ==
    IF u.locked # 0 /\ u.locked <= t THEN [u EXCEPT !.locked = 0, !.failed = 0] ELSE u

AfterFailure(u, t) ==
    LET failed == Unlocked(u, t).failed + 1
    IN  [Unlocked(u, t) EXCEPT
           !.failed = failed,
           !.locked = IF failed >= MaxFailed THEN t + LockoutTime ELSE @]

\* Mutant: every successful login stores a fresh hash (the other value of old stands for
\* its other salt).
AfterSuccessRehashed(u, password) ==
    [u EXCEPT !.failed = 0, !.locked = 0, !.hash = [of |-> password, old |-> ~@.old]]

\* needs_rehash replaces the hash by one of the password just presented.
AfterSuccess(u, password) ==
    [u EXCEPT !.failed = 0, !.locked = 0,
              !.hash = IF @.old THEN [of |-> password, old |-> FALSE] ELSE @]

\* SELECT of the user and verification; a locked account is refused, leaving no trace
\* but the audit row.
Login(w, password, token) ==
    LET valid == password = user.hash.of
    IN  /\ ~Active(w)
        /\ LoopFree(w)
        /\ user.locked <= now
        /\ Become(w, [IdleReq EXCEPT
             !.op = "login", !.password = password, !.token = token, !.at = now,
             !.was = user,
             !.will = IF valid THEN AfterSuccess(user, password) ELSE AfterFailure(user, now),
             !.pc = IF valid THEN "previous" ELSE "failure"])
        /\ UNCHANGED <<user, sessions, issued, now, guesses>>

\* SELECT of the session whose token came with the login.
LoginPrevious(w) ==
    LET r == req[w]
    IN  /\ r.pc = "previous"
        /\ \/ \E i \in SessionIds :
                /\ r.token # 0 /\ sessions[i].token = r.token /\ ~sessions[i].revoked
                /\ Become(w, [r EXCEPT !.pc = "success", !.sid = i])
           \/ /\ \A i \in SessionIds :
                   r.token = 0 \/ sessions[i].token # r.token \/ sessions[i].revoked
              /\ Become(w, [r EXCEPT !.pc = "success"])
        /\ UNCHANGED <<user, sessions, issued, now, guesses>>

IsNextId(i) ==
    /\ sessions[i] = NoSession
    /\ \A j \in SessionIds : sessions[j] # NoSession => j < i
    /\ i > 1 => sessions[i - 1] # NoSession

\* create_record
NewSession(password, t, raced) ==
    [token |-> issued + 1, created |-> t, last |-> t,
     expires |-> Earlier(t + IdleTimeout, t + AbsoluteTimeout),
     absolute |-> t + AbsoluteTimeout, revoked |-> FALSE, password |-> password,
     raced |-> raced]

\* One write: the user, the revocation of the previous session, the new session.
LoginSucceeds(w, i) ==
    LET r == req[w]
    IN  /\ r.pc = "success"
        /\ issued < MaxToken
        /\ IsNextId(i)
        /\ r.sid # 0 => sessions[r.sid] # NoSession
        /\ user' = Updated(r.was, r.will)
        /\ sessions' = [j \in SessionIds |->
             CASE j = i -> NewSession(r.password, r.at, r.raced)
               [] j = r.sid -> [sessions[j] EXCEPT !.revoked = TRUE]
               [] OTHER -> sessions[j]]
        /\ issued' = issued + 1
        /\ guesses' = 0
        /\ Become(w, IdleReq)
        /\ UNCHANGED now

LoginFails(w) ==
    LET r == req[w]
    IN  /\ r.pc = "failure"
        /\ user' = Updated(r.was, r.will)
        /\ guesses' = IF r.was.locked # 0 THEN 1 ELSE guesses + 1
        /\ Become(w, IdleReq)
        /\ UNCHANGED <<sessions, issued, now>>

-----------------------------------------------------------------------------
(* AuthService.change_password, revoke_sessions; SessionService.cleanup_expired *)

ChangePassword(w) ==
    /\ ~Active(w)
    /\ user.hash.of < MaxPassword
    /\ \A v \in Workers : req[v].op # "change_password"
    /\ Become(w, [IdleReq EXCEPT
         !.op = "change_password", !.pc = "change", !.was = user,
         !.will = [hash |-> [of |-> user.hash.of + 1, old |-> FALSE],
                   failed |-> 0, locked |-> 0]])
    /\ UNCHANGED <<user, sessions, issued, now, guesses>>

AllRevoked == [i \in SessionIds |->
    IF sessions[i] = NoSession THEN NoSession ELSE [sessions[i] EXCEPT !.revoked = TRUE]]

\* The logins in flight when w changes the password.
Overtaken(w) == [v \in Workers |->
    CASE v = w -> IdleReq
      [] v # w /\ req[v].op = "login" -> [req[v] EXCEPT !.raced = TRUE]
      [] OTHER -> req[v]]

\* Mutant: a new password leaves the sessions alone.
PasswordChangedOnly(w) ==
    /\ req[w].pc = "change"
    /\ user' = Updated(req[w].was, req[w].will)
    /\ guesses' = 0
    /\ req' = Overtaken(w)
    /\ UNCHANGED <<sessions, issued, now>>

PasswordChanged(w) ==
    LET r == req[w]
    IN  /\ r.pc = "change"
        /\ user' = Updated(r.was, r.will)
        /\ sessions' = AllRevoked
        /\ guesses' = 0
        /\ req' = Overtaken(w)
        /\ UNCHANGED <<issued, now>>

RevokeSessions ==
    /\ sessions' = AllRevoked
    /\ UNCHANGED <<user, issued, now, req, guesses>>

Expired(s) == s.expires <= now \/ s.absolute <= now

CleanupExpired ==
    /\ sessions' = [i \in SessionIds |->
                      IF Expired(sessions[i]) THEN NoSession ELSE sessions[i]]
    /\ UNCHANGED <<user, issued, now, req, guesses>>

-----------------------------------------------------------------------------
(* SessionService.authenticate and revoke *)

Usable(s) == s # NoSession /\ ~s.revoked /\ ~Expired(s)

\* A request that is authenticated without a touch and does nothing else changes nothing.
Authenticate(w, op, i) ==
    LET s == sessions[i]
        touch == now - s.last >= TouchInterval
    IN  /\ ~Active(w)
        /\ op \in {"request", "logout"}
        /\ Usable(s)
        /\ touch \/ op = "logout"
        /\ Become(w, [IdleReq EXCEPT
             !.op = op, !.token = s.token, !.sid = i, !.at = now, !.kept = s.expires,
             !.until = Earlier(now + IdleTimeout, s.absolute),
             !.pc = IF touch THEN "touch" ELSE "revokeRead"])
        /\ UNCHANGED <<user, sessions, issued, now, guesses>>

\* Mutant: the touch writes the whole row back as it was loaded.
TouchWholeRow(w) ==
    LET r == req[w]
    IN  /\ r.pc = "touch"
        /\ sessions[r.sid] # NoSession
        /\ sessions' = [sessions EXCEPT ![r.sid].last = r.at, ![r.sid].expires = r.until,
                                        ![r.sid].revoked = FALSE]
        /\ Become(w, IF r.op = "logout" THEN [r EXCEPT !.pc = "revokeRead"] ELSE IdleReq)
        /\ UNCHANGED <<user, issued, now, guesses>>

Touch(w) ==
    LET r == req[w]
    IN  /\ r.pc = "touch"
        /\ sessions[r.sid] # NoSession
        /\ sessions' = [sessions EXCEPT
             ![r.sid].last = r.at,
             ![r.sid].expires = IF r.until # r.kept THEN r.until ELSE @]
        /\ Become(w, IF r.op = "logout" THEN [r EXCEPT !.pc = "revokeRead"] ELSE IdleReq)
        /\ UNCHANGED <<user, issued, now, guesses>>

\* revoke looks the token up again.
RevokeRead(w) ==
    LET r == req[w]
        found == {i \in SessionIds : sessions[i].token = r.token /\ ~sessions[i].revoked}
    IN  /\ r.pc = "revokeRead"
        /\ \/ \E i \in found : Become(w, [r EXCEPT !.pc = "revoke", !.sid = i])
           \/ found = {} /\ Become(w, IdleReq)
        /\ UNCHANGED <<user, sessions, issued, now, guesses>>

Revoke(w) ==
    LET r == req[w]
    IN  /\ r.pc = "revoke"
        /\ sessions[r.sid] # NoSession
        /\ sessions' = [sessions EXCEPT ![r.sid].revoked = TRUE]
        /\ Become(w, IdleReq)
        /\ UNCHANGED <<user, issued, now, guesses>>

-----------------------------------------------------------------------------

\* The database is busy, or the UPDATE matches no row: the transaction rolls back.
Abort(w) ==
    /\ req[w].pc \in {"success", "failure", "change", "touch", "revoke"}
    /\ Become(w, IdleReq)
    /\ UNCHANGED <<user, sessions, issued, now, guesses>>

Tick ==
    /\ now < MaxTime
    /\ now' = now + 1
    /\ UNCHANGED <<user, sessions, issued, req, guesses>>

Next ==
    \/ \E w \in Workers :
         \/ \E password \in Passwords, token \in 0..issued : Login(w, password, token)
         \/ LoginPrevious(w) \/ LoginFails(w)
         \/ \E i \in SessionIds : LoginSucceeds(w, i)
         \/ ChangePassword(w) \/ PasswordChanged(w)
         \/ \E op \in Op, i \in SessionIds : Authenticate(w, op, i)
         \/ Touch(w) \/ RevokeRead(w) \/ Revoke(w) \/ Abort(w)
    \/ RevokeSessions \/ CleanupExpired \/ Tick

Spec == Init /\ [][Next]_vars

-----------------------------------------------------------------------------
(* Properties *)

\* Every variable has its type.  failed_login_attempts may pass the threshold: a password
\* change that loaded a locked row whose count was cleared already lifts a newer lock,
\* and leaves the count.
TypeOK ==
    /\ user \in User
    /\ sessions \in [SessionIds -> Session \cup {NoSession}]
    /\ issued \in 0..MaxToken
    /\ now \in 1..MaxTime
    /\ req \in [Workers -> Request]
    /\ guesses \in Nat

\* The idle deadline never exceeds the absolute one, which never moves, even when a
\* late touch lands on a row whose id was given to a newer session.
WithinAbsolute ==
    \A i \in SessionIds : sessions[i] # NoSession =>
        /\ sessions[i].expires <= sessions[i].absolute
        /\ sessions[i].absolute = sessions[i].created + AbsoluteTimeout

\* No step revives a revoked session: a touch that read it before the revocation
\* writes only its activity columns.
RevocationSticks ==
    [][\A i \in SessionIds :
         sessions[i] # NoSession /\ sessions[i].revoked
           /\ sessions'[i].token = sessions[i].token => sessions'[i].revoked]_vars

\* The threshold locks the account: no more than MaxFailed wrong passwords are ever
\* answered between two resets of the counter, and the last of them locked it.
LockoutBound ==
    /\ guesses <= MaxFailed
    /\ guesses = MaxFailed => user.locked # 0

\* change_password "revokes every active session": every usable session comes from a
\* login with the current password.
SessionsOfCurrentPassword ==
    \A i \in SessionIds : Usable(sessions[i]) => sessions[i].password = user.hash.of

\* What change_password guarantees beside the live application: the only sessions of an
\* old password it leaves are those of logins that were in flight when it committed.
OnlyRacingLoginsSurvive ==
    \A i \in SessionIds :
        Usable(sessions[i]) /\ ~sessions[i].raced => sessions[i].password = user.hash.of

\* A password that was replaced never comes back.
PasswordNeverReverts == [][user'.hash.of >= user.hash.of]_vars
=============================================================================

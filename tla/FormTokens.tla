----------------------------- MODULE FormTokens -----------------------------
(***************************************************************************)
(* The signed form tokens of CSRFTokenService in the tabs of one browser:  *)
(* login forms bound to a nonce cookie, administrator forms bound to the   *)
(* session that was logged in when they were rendered.                     *)
(*                                                                         *)
(* Nothing about a token is stored: whether a form still works depends on  *)
(* the clock, the cookies the browser has by now, and the session row.     *)
(* A request takes three steps: it is sent with the cookies of that        *)
(* moment, the server answers, the answer arrives; tabs share the cookies, *)
(* so answers may arrive in another order than the requests were sent.     *)
(***************************************************************************)
EXTENDS Integers

CONSTANTS
    Tabs,            \* of one browser
    MaxSession,      \* bound: logins that succeed
    MaxNonce,        \* bound: login pages rendered
    MaxSecret,       \* bound: values of csrf_secret, one per deployment
    MaxTicks,        \* bound: time that passes
    MaxBack,         \* bound: how far the server's clock is set back in all
    Ttl, LoginTtl,   \* csrf_token_ttl_seconds, login_csrf_ttl_seconds
    Skew             \* _MAX_FUTURE_SKEW_SECONDS

ASSUME TokenAssumption ==
    /\ {MaxSession, MaxNonce, MaxTicks, MaxBack, Skew} \subseteq Nat
    /\ {MaxSecret, Ttl, LoginTtl} \subseteq Nat \ {0}

VARIABLES
    live,      \* sessions that authenticate: neither revoked nor expired
    keys,      \* session -> csrf_secret_hash in its row
    nonces,    \* login pages rendered so far
    secret,    \* csrf_secret of this deployment
    ticks,     \* time that has passed
    now,       \* the server's clock
    jar,       \* the browser's cookies
    page,      \* tab -> the form it shows
    req,       \* tab -> the request under way
    newest     \* ghost: nonce of the login page that arrived last

formVars == <<live, keys, nonces, secret, ticks, now, jar, page, req, newest>>

Sessions == 1..MaxSession
Time == 0..(MaxTicks + MaxBack)

\* A key is the secret and the session token it was derived from, 0 the global key.
Key == [secret : 0..MaxSecret, token : 0..MaxSession]
NoKey == [secret |-> 0, token |-> 0]

\* at: when it was rendered, by true time; of: the session it was rendered for.  Both,
\* and the nonce of an administrator form, are nothing a token is verified by.
Form == [kind : {"none", "login", "admin"}, key : Key, nonce : 0..MaxNonce,
         issued : Time, at : Time, of : 0..MaxSession]
NoForm == [kind |-> "none", key |-> NoKey, nonce |-> 0, issued |-> 0, at |-> 0, of |-> 0]

Jar == [session : 0..MaxSession, nonce : 0..MaxNonce,
        until : 0..(MaxTicks + LoginTtl)]

\* session, nonce: the cookies it was sent with.  answer: the form on the page that
\* comes back; cookies: whether it sets or deletes cookies.
Request == [stage : {"idle", "sent", "authenticated", "answered"},
            op : {"none", "get_login", "get_admin", "login", "post", "logout"},
            session : 0..MaxSession, nonce : 0..MaxNonce, form : Form, answer : Form,
            cookies : {"keep", "nonce", "login", "logout"}, login : 0..MaxSession]
IdleReq == [stage |-> "idle", op |-> "none", session |-> 0, nonce |-> 0, form |-> NoForm,
            answer |-> NoForm, cookies |-> "keep", login |-> 0]

FormInit ==
    /\ live = {}
    /\ keys = [s \in Sessions |-> NoKey]
    /\ nonces = 0
    /\ secret = 1
    /\ ticks = 0
    /\ now = MaxBack
    /\ jar = [session |-> 0, nonce |-> 0, until |-> 0]
    /\ page = [t \in Tabs |-> NoForm]
    /\ req = [t \in Tabs |-> IdleReq]
    /\ newest = 0

Become(t, r) == req' = [req EXCEPT ![t] = r]
Answer(t, form, cookies) ==
    Become(t, [IdleReq EXCEPT !.stage = "answered", !.answer = form, !.cookies = cookies])

-----------------------------------------------------------------------------
(* CSRFTokenService *)

GlobalKey == [secret |-> secret, token |-> 0]

\* Mutants: every administrator form is signed with the global key; the key is derived
\* again from the secret of this deployment.
GlobalSessionKey(s) == GlobalKey
DerivedSessionKey(s) == [secret |-> secret, token |-> s]

\* issue_session_token: the key in the session row, whatever the secret is by now.
SessionKey(s) == keys[s]

LoginForm == [kind |-> "login", key |-> GlobalKey, nonce |-> nonces + 1, issued |-> now,
              at |-> ticks, of |-> 0]
AdminForm(s) == [kind |-> "admin", key |-> SessionKey(s), nonce |-> 0, issued |-> now,
                 at |-> ticks, of |-> s]

\* Mutant: the tolerated skew extends the lifetime.
AgeToleratedTwice(form, ttl) == now - form.issued >= -Skew /\ now - form.issued <= ttl + Skew

AgeAccepted(form, ttl) == now - form.issued >= -Skew /\ now - form.issued <= ttl

VerifyLoginToken(r) ==
    /\ r.nonce # 0
    /\ AgeAccepted(r.form, LoginTtl)
    /\ r.form.nonce = r.nonce
    /\ r.form.key = GlobalKey

VerifySessionToken(r) == AgeAccepted(r.form, Ttl) /\ r.form.key = SessionKey(r.session)

-----------------------------------------------------------------------------
(* The browser *)

\* A page is opened or the form of the page that is shown is submitted.
Send(t, op) ==
    /\ req[t].stage = "idle"
    /\ op = "login" => page[t].kind = "login"
    /\ op \in {"post", "logout"} => page[t].kind = "admin"
    /\ Become(t, [IdleReq EXCEPT !.stage = "sent", !.op = op, !.session = jar.session,
                    !.nonce = IF ticks < jar.until THEN jar.nonce ELSE 0,
                    !.form = IF op \in {"login", "post", "logout"} THEN page[t] ELSE NoForm])
    /\ UNCHANGED <<live, keys, nonces, secret, ticks, now, jar, page, newest>>

\* The cookies of the answer are stored; the tab shows its page, or what it showed before
\* if the user goes back.
Deliver(t) ==
    LET r == req[t]
    IN  /\ r.stage = "answered"
        /\ jar' = CASE r.cookies = "keep" -> jar
                    [] r.cookies = "nonce" ->
                         [jar EXCEPT !.nonce = r.answer.nonce, !.until = ticks + LoginTtl]
                    [] r.cookies = "login" ->
                         [session |-> r.login, nonce |-> 0, until |-> 0]
                    [] r.cookies = "logout" -> [jar EXCEPT !.session = 0]
        /\ newest' = CASE r.answer.kind = "login" -> r.answer.nonce
                       [] r.cookies = "login" -> 0
                       [] OTHER -> newest
        /\ \/ page' = [page EXCEPT ![t] = r.answer]
           \/ r.answer.kind = "none" /\ UNCHANGED page
        /\ Become(t, IdleReq)
        /\ UNCHANGED <<live, keys, nonces, secret, ticks, now>>

-----------------------------------------------------------------------------
(* The login and logout routes, and any administrator page or form *)

\* login_page redirects a browser that is logged in.
ServeLoginPage(t) ==
    LET r == req[t]
    IN  /\ r.stage = "sent" /\ r.op = "get_login"
        /\ \/ /\ r.session \in live
              /\ Answer(t, NoForm, "keep")
              /\ UNCHANGED nonces
           \/ /\ r.session \notin live
              /\ nonces < MaxNonce
              /\ nonces' = nonces + 1
              /\ Answer(t, LoginForm, "nonce")
        /\ UNCHANGED <<live, keys, secret, ticks, now, jar, page, newest>>

ServeAdminPage(t) ==
    LET r == req[t]
    IN  /\ r.stage = "sent" /\ r.op = "get_admin"
        /\ Answer(t, IF r.session \in live THEN AdminForm(r.session) ELSE NoForm, "keep")
        /\ UNCHANGED <<live, keys, nonces, secret, ticks, now, jar, page, newest>>

RefuseLogin(t) ==
    LET r == req[t]
    IN  /\ r.stage = "sent" /\ r.op = "login"
        /\ ~VerifyLoginToken(r)
        /\ Answer(t, NoForm, "keep")
        /\ UNCHANGED <<live, keys, nonces, secret, ticks, now, jar, page, newest>>

\* Mutant: the page that reports a wrong password leaves the nonce cookie alone.
FailLoginKeepsCookie(t) ==
    LET r == req[t]
    IN  /\ r.stage = "sent" /\ r.op = "login"
        /\ VerifyLoginToken(r)
        /\ nonces < MaxNonce
        /\ nonces' = nonces + 1
        /\ Answer(t, LoginForm, "keep")
        /\ UNCHANGED <<live, keys, secret, ticks, now, jar, page, newest>>

\* A wrong password renders the form again, with a new nonce.
FailLogin(t) ==
    LET r == req[t]
    IN  /\ r.stage = "sent" /\ r.op = "login"
        /\ VerifyLoginToken(r)
        /\ nonces < MaxNonce
        /\ nonces' = nonces + 1
        /\ Answer(t, LoginForm, "nonce")
        /\ UNCHANGED <<live, keys, secret, ticks, now, jar, page, newest>>

\* The session that came with the login is revoked, a new one is created.
Login(t, s) ==
    LET r == req[t]
    IN  /\ r.stage = "sent" /\ r.op = "login"
        /\ VerifyLoginToken(r)
        /\ keys[s] = NoKey /\ \A q \in Sessions : q < s => keys[q] # NoKey
        /\ live' = (live \ {r.session}) \cup {s}
        /\ keys' = [keys EXCEPT ![s] = [secret |-> secret, token |-> s]]
        /\ Become(t, [IdleReq EXCEPT !.stage = "answered", !.cookies = "login", !.login = s])
        /\ UNCHANGED <<nonces, secret, ticks, now, jar, page, newest>>

\* require_admin_session; the token is verified later, when the form has been read.
Authenticate(t) ==
    LET r == req[t]
    IN  /\ r.stage = "sent" /\ r.op \in {"post", "logout"}
        /\ \/ r.session \in live /\ Become(t, [r EXCEPT !.stage = "authenticated"])
           \/ r.session \notin live /\ Answer(t, NoForm, "keep")
        /\ UNCHANGED <<live, keys, nonces, secret, ticks, now, jar, page, newest>>

Handle(t) ==
    LET r == req[t]
    IN  /\ r.stage = "authenticated"
        /\ \/ /\ VerifySessionToken(r) /\ r.op = "logout"
              /\ live' = live \ {r.session}
              /\ Answer(t, NoForm, "logout")
           \/ /\ ~VerifySessionToken(r) \/ r.op = "post"
              /\ Answer(t, NoForm, "keep")
              /\ UNCHANGED live
        /\ UNCHANGED <<keys, nonces, secret, ticks, now, jar, page, newest>>

-----------------------------------------------------------------------------
(* Time, deployments and everything else that ends a session *)

Tick ==
    /\ ticks < MaxTicks
    /\ ticks' = ticks + 1
    /\ now' = now + 1
    /\ UNCHANGED <<live, keys, nonces, secret, jar, page, req, newest>>

SetBack ==
    /\ now > ticks
    /\ now' = now - 1
    /\ UNCHANGED <<live, keys, nonces, secret, ticks, jar, page, req, newest>>

\* Idle or absolute timeout, password change, revoke_sessions.
EndSession(s) ==
    /\ s \in live
    /\ live' = live \ {s}
    /\ UNCHANGED <<keys, nonces, secret, ticks, now, jar, page, req, newest>>

\* A deployment with another csrf_secret; requests under way are lost.
Redeploy ==
    /\ secret < MaxSecret
    /\ secret' = secret + 1
    /\ req' = [t \in Tabs |-> IdleReq]
    /\ UNCHANGED <<live, keys, nonces, ticks, now, jar, page, newest>>

FormNext ==
    \/ \E t \in Tabs :
         \/ \E op \in {"get_login", "get_admin", "login", "post", "logout"} : Send(t, op)
         \/ ServeLoginPage(t) \/ ServeAdminPage(t) \/ RefuseLogin(t) \/ FailLogin(t)
         \/ \E s \in Sessions : Login(t, s)
         \/ Authenticate(t) \/ Handle(t) \/ Deliver(t)
    \/ Tick \/ SetBack \/ Redeploy
    \/ \E s \in Sessions : EndSession(s)

FormSpec == FormInit /\ [][FormNext]_formVars

-----------------------------------------------------------------------------
(* Properties *)

\* What a session, a cookie and a form may be.  A session that authenticates has a key in
\* its row: a login never leaves one whose forms cannot be signed.
FormTypeOK ==
    /\ live \subseteq {s \in Sessions : keys[s] # NoKey}
    /\ keys \in [Sessions -> Key]
    /\ nonces \in 0..MaxNonce
    /\ secret \in 1..MaxSecret
    /\ ticks \in 0..MaxTicks
    /\ now \in Time
    /\ jar \in Jar
    /\ page \in [Tabs -> Form]
    /\ req \in [Tabs -> Request]
    /\ newest \in 0..MaxNonce

LoginDue(t) == req[t].stage = "sent" /\ req[t].op = "login"
FormDue(t) == req[t].stage = "authenticated"

Elapsed(form) == ticks - form.at
TurnedBack(form) == Elapsed(form) - (now - form.issued)

\* "A token from a previous session fails after login rotation": a form that is accepted
\* was rendered for the very session that submits it, whatever tabs, logins and
\* deployments came in between.
FormsDieWithSession ==
    \A t \in Tabs : FormDue(t) /\ VerifySessionToken(req[t]) => req[t].form.of = req[t].session

\* However often tabs resubmit a form, it is not accepted longer after it was rendered
\* than its lifetime and all the time by which the clock was ever set back.
AcceptedInTime ==
    \A t \in Tabs :
        LET back == ticks + MaxBack - now
        IN  /\ FormDue(t) /\ VerifySessionToken(req[t]) => Elapsed(req[t].form) <= Ttl + back
            /\ LoginDue(t) /\ VerifyLoginToken(req[t]) => Elapsed(req[t].form) <= LoginTtl + back

\* An administrator's form works for its whole lifetime: as long as its session lives it
\* is not refused because of other tabs, a deployment or a clock set back a little.
FreshFormAccepted ==
    \A t \in Tabs :
        /\ FormDue(t)
        /\ req[t].form.of = req[t].session
        /\ Elapsed(req[t].form) <= Ttl
        /\ TurnedBack(req[t].form) <= Skew
        => VerifySessionToken(req[t])

\* The login page that arrived last works until its cookie expires, whatever the order
\* in which pages, wrong passwords and answers came before it.
NewestLoginWorks ==
    \A t \in Tabs :
        /\ LoginDue(t)
        /\ req[t].form.nonce = newest
        /\ ticks < jar.until
        /\ Elapsed(req[t].form) <= LoginTtl
        /\ TurnedBack(req[t].form) <= Skew
        /\ req[t].form.key = GlobalKey
        => VerifyLoginToken(req[t])
=============================================================================

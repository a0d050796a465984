-------------------------- MODULE AdminPagesProofs --------------------------
(***************************************************************************)
(* Proofs about the forms of an administrator, for every number of tabs,   *)
(* sessions, login pages and deployments, every lifetime and skew, and     *)
(* every way in which time passes and the clock is set back; and about the *)
(* audit log, for every number of requests, events and times and every     *)
(* size of a page.                                                         *)
(***************************************************************************)
EXTENDS AdminPages, FiniteSetTheorems, WellFoundedInduction, SequenceTheorems, TLAPS

USE TokenAssumption

-----------------------------------------------------------------------------
(* Forms: the inductive invariant *)

\* True time t and the clock c: since a form was rendered the clock was only ever set back.
TimeOf(f, t, c) ==
    /\ f.at <= t
    /\ f.issued <= f.at + MaxBack
    /\ f.issued - f.at >= c - t

\* What a form in a tab, in a request or in an answer is, given the keys k of the sessions
\* and the number n of login pages so far.
FormOK(f, k, n, t, c) ==
    /\ f.kind = "none" => f.nonce = 0
    /\ f.kind = "login" => f.nonce \in 1..n /\ TimeOf(f, t, c)
    /\ f.kind = "admin" =>
         /\ f.nonce = 0 /\ TimeOf(f, t, c)
         /\ f.of \in Sessions /\ k[f.of] # NoKey /\ f.key = k[f.of]

FormNow(f) == FormOK(f, keys, nonces, ticks, now)

\* A request carries the form its operation submits, and an answer the cookie of its form.
RequestOK(r, k) ==
    /\ r.stage = "sent" /\ r.op = "login" => r.form.kind = "login"
    /\ r.stage \in {"sent", "authenticated"} /\ r.op \in {"post", "logout"} =>
         r.form.kind = "admin"
    /\ r.stage = "authenticated" =>
         /\ r.op \in {"post", "logout"}
         /\ r.session \in Sessions /\ k[r.session] # NoKey
    /\ r.stage # "answered" => r.answer.kind = "none"
    /\ r.answer.kind = "login" <=> r.cookies = "nonce"

\* A login form that has not arrived yet is the only one with its nonce.
Fresh(t) ==
    req[t].answer.kind = "login" =>
        /\ jar.nonce # req[t].answer.nonce
        /\ \A u \in Tabs :
             /\ page[u].nonce # req[t].answer.nonce
             /\ req[u].form.nonce # req[t].answer.nonce
             /\ u # t => req[u].answer.nonce # req[t].answer.nonce

\* A login form that is submitted and has the nonce of the cookie was sent with that cookie.
Armed(t) ==
    req[t].stage = "sent" /\ req[t].op = "login"
      /\ req[t].form.nonce = jar.nonce /\ ticks < jar.until
    => req[t].nonce = jar.nonce

\* The tabs, with what each of them shows, has sent and will be answered.
TabOK(t) ==
    /\ FormNow(page[t]) /\ FormNow(req[t].form) /\ FormNow(req[t].answer)
    /\ RequestOK(req[t], keys) /\ Fresh(t) /\ Armed(t)

\* Clock, keys and cookies.
ServerOK ==
    /\ ticks <= now /\ now <= ticks + MaxBack
    /\ \A s \in Sessions : keys[s] # NoKey => keys[s].token = s
    /\ jar.nonce = newest /\ newest <= nonces

IInv ==
    /\ FormTypeOK
    /\ ServerOK
    /\ \A t \in Tabs : TabOK(t)

-----------------------------------------------------------------------------
(* How forms and tabs go on *)

\* A form stays what it is while sessions, login pages and time are added.
LEMMA FormStays ==
  ASSUME NEW f \in Form, NEW k, NEW k2, NEW n \in Nat, NEW n2 \in Nat,
         NEW t \in Nat, NEW t2 \in Nat, NEW c \in Int, NEW c2 \in Int,
         FormOK(f, k, n, t, c), n <= n2, t <= t2, c2 - t2 <= c - t,
         \A s \in Sessions : k[s] # NoKey => k2[s] = k[s]
  PROVE  FormOK(f, k2, n2, t2, c2)
<1>1. f.at \in Int /\ f.issued \in Int /\ f.nonce \in Int
  BY DEF Form, Time
<1>2. TimeOf(f, t, c) => TimeOf(f, t2, c2)
  BY <1>1 DEF TimeOf
<1>3. QED
  BY <1>1, <1>2 DEF FormOK

\* No form has a nonce that no login page has yet.
LEMMA NonceBound ==
  ASSUME NEW f \in Form, NEW k, NEW n \in Nat, NEW t, NEW c, FormOK(f, k, n, t, c)
  PROVE  f.nonce \in 0..n
  BY DEF Form, FormOK

\* One tab goes on, and the browser stays as it is.
LEMMA TabStep ==
  ASSUME IInv, NEW t \in Tabs, NEW r \in Request, Become(t, r),
         UNCHANGED <<ticks, now, jar, page, newest>>, FormTypeOK', ServerOK',
         nonces <= nonces', \A s \in Sessions : keys[s] # NoKey => keys'[s] = keys[s],
         FormOK(r.form, keys', nonces', ticks, now),
         FormOK(r.answer, keys', nonces', ticks, now), RequestOK(r, keys'),
         r.answer.kind = "login" => r.answer.nonce > nonces /\ r.form.nonce = 0,
         r.form.nonce = 0 \/ r.form = page[t] \/ r.form = req[t].form,
         r.stage = "sent" /\ r.op = "login" /\ r.form.nonce = jar.nonce /\ ticks < jar.until
           => r.nonce = jar.nonce
  PROVE  IInv'
<1>1. /\ req'[t] = r /\ \A u \in Tabs : u # t => req'[u] = req[u]
      /\ \A u \in Tabs : req[u] \in Request /\ page[u] \in Form
  BY DEF Become, IInv, FormTypeOK
<1>2. /\ nonces \in Nat /\ nonces' \in Nat /\ ticks \in Nat /\ now \in Int
      /\ jar.nonce \in 0..nonces
  BY DEF IInv, FormTypeOK, ServerOK, Time, Jar
<1>3. \A u \in Tabs :
         /\ page[u].nonce \in 0..nonces /\ req[u].form.nonce \in 0..nonces
         /\ req[u].answer.nonce \in 0..nonces
         /\ req[u].form \in Form /\ req[u].answer \in Form
  BY <1>1, <1>2, NonceBound DEF IInv, TabOK, FormNow, Request
<1> DEFINE Kept == /\ nonces <= nonces' /\ ticks <= ticks /\ now - ticks <= now - ticks
                   /\ \A s \in Sessions : keys[s] # NoKey => keys'[s] = keys[s]
<1>4. Kept
  BY <1>2
<1>5. ASSUME NEW u \in Tabs
      PROVE  /\ FormNow(page[u])' /\ FormNow(req[u].form)' /\ FormNow(req[u].answer)'
             /\ RequestOK(req[u], keys)'
  <2>1. FormOK(page[u], keys', nonces', ticks, now)
    <3>1. FormOK(page[u], keys, nonces, ticks, now) /\ page[u] \in Form
      BY <1>1 DEF IInv, TabOK, FormNow
    <3>2. QED
      BY <1>2, <1>4, <3>1, FormStays
  <2>2. CASE u = t
    BY <1>1, <2>1, <2>2 DEF FormNow
  <2>3. CASE u # t
    <3>1. /\ FormOK(req[u].form, keys', nonces', ticks, now)
          /\ FormOK(req[u].answer, keys', nonces', ticks, now)
      <4>1. /\ FormOK(req[u].form, keys, nonces, ticks, now)
            /\ FormOK(req[u].answer, keys, nonces, ticks, now)
            /\ req[u].form \in Form /\ req[u].answer \in Form
        BY <1>3 DEF IInv, TabOK, FormNow
      <4>2. QED
        BY <1>2, <1>4, <4>1, FormStays
    <3>2. RequestOK(req[u], keys')
      BY DEF RequestOK, IInv, TabOK
    <3>3. QED
      BY <1>1, <2>1, <2>3, <3>1, <3>2 DEF FormNow
  <2>4. QED
    BY <2>2, <2>3
<1>6. ASSUME NEW u \in Tabs
      PROVE  Fresh(u)'
  <2>1. CASE u = t
    <3>1. SUFFICES ASSUME r.answer.kind = "login" PROVE Fresh(t)'
      BY <1>1, <2>1 DEF Fresh
    <3>2. r.answer.nonce > nonces /\ r.form.nonce = 0
      BY <3>1
    <3>3. r.answer.nonce \in Nat
      BY DEF Request, Form
    <3>4. QED
      BY <1>1, <1>2, <1>3, <3>2, <3>3 DEF Fresh
  <2>2. CASE u # t /\ req[u].answer.kind = "login"
    <3>1. Fresh(u) /\ FormNow(req[u].answer)
      BY DEF IInv, TabOK
    <3>2. req[u].answer.nonce \in 1..nonces
      BY <2>2, <3>1 DEF FormNow, FormOK
    <3>3. r.form.nonce # req[u].answer.nonce
      BY <1>2, <2>2, <3>1, <3>2 DEF Fresh
    <3>4. r.answer.nonce # req[u].answer.nonce
      <4>1. CASE r.answer.kind = "login"
        BY <1>2, <3>2, <4>1
      <4>2. CASE r.answer.kind # "login"
        <5>1. r.answer.kind \in {"none", "admin"}
          BY <4>2 DEF Request, Form
        <5>2. QED
          BY <1>2, <3>2, <5>1 DEF FormOK
      <4>3. QED
        BY <4>1, <4>2
    <3>5. QED
      BY <1>1, <2>2, <3>1, <3>3, <3>4 DEF Fresh
  <2>3. CASE u # t /\ req[u].answer.kind # "login"
    BY <1>1, <2>3 DEF Fresh
  <2>4. QED
    BY <2>1, <2>2, <2>3
<1>7. ASSUME NEW u \in Tabs
      PROVE  Armed(u)'
  <2>1. CASE u = t
    BY <1>1, <2>1 DEF Armed
  <2>2. CASE u # t
    BY <1>1, <2>2 DEF Armed, IInv, TabOK
  <2>3. QED
    BY <2>1, <2>2
<1>8. QED
  BY <1>5, <1>6, <1>7 DEF IInv, TabOK

\* One tab goes on, and nothing but the sessions that live changes.
LEMMA QuietStep ==
  ASSUME IInv, NEW t \in Tabs, NEW r \in Request, Become(t, r),
         UNCHANGED <<keys, nonces, secret, ticks, now, jar, page, newest>>, live' \subseteq live,
         FormNow(r.form), FormNow(r.answer), RequestOK(r, keys), r.answer.kind # "login",
         r.form.nonce = 0 \/ r.form = page[t] \/ r.form = req[t].form,
         r.stage = "sent" /\ r.op = "login" /\ r.form.nonce = jar.nonce /\ ticks < jar.until
           => r.nonce = jar.nonce
  PROVE  IInv'
<1>1. FormTypeOK'
  <2>1. req' \in [Tabs -> Request]
    BY DEF Become, IInv, FormTypeOK
  <2>2. QED
    BY <2>1 DEF IInv, FormTypeOK
<1>2. ServerOK'
  BY DEF IInv, ServerOK
<1>3. nonces \in Nat
  BY DEF IInv, FormTypeOK
<1>4. QED
  BY <1>1, <1>2, <1>3, TabStep DEF FormNow

\* What is known of a tab and its request.
LEMMA TabFacts ==
  ASSUME IInv, NEW t \in Tabs
  PROVE  /\ req[t] \in Request /\ page[t] \in Form
         /\ FormNow(page[t]) /\ FormNow(req[t].form) /\ FormNow(req[t].answer)
         /\ RequestOK(req[t], keys) /\ Fresh(t) /\ Armed(t)
  BY DEF IInv, FormTypeOK, TabOK

\* An empty form is one, and an idle request is one.
LEMMA NoFormOK ==
  ASSUME IInv
  PROVE  /\ NoForm \in Form /\ NoForm.kind = "none" /\ NoForm.nonce = 0 /\ FormNow(NoForm)
         /\ IdleReq \in Request /\ RequestOK(IdleReq, keys)
         /\ IdleReq.form = NoForm /\ IdleReq.answer = NoForm /\ IdleReq.stage = "idle"
<1>1. NoForm \in Form /\ NoForm.kind = "none" /\ NoForm.nonce = 0
  BY DEF NoForm, Form, NoKey, Key, Time, IInv, FormTypeOK
<1>2. IdleReq \in Request /\ IdleReq.form = NoForm /\ IdleReq.answer = NoForm
      /\ IdleReq.stage = "idle" /\ IdleReq.cookies = "keep"
  BY <1>1 DEF IdleReq, Request
<1>3. RequestOK(IdleReq, keys)
  BY <1>1, <1>2 DEF RequestOK
<1>4. FormNow(NoForm)
  BY <1>1 DEF FormNow, FormOK
<1>5. QED
  BY <1>1, <1>2, <1>3, <1>4

\* An answer with a page f that is no login form.
LEMMA AnswerStep ==
  ASSUME IInv, NEW t \in Tabs, NEW f \in Form, NEW c \in {"keep", "logout"},
         FormNow(f), f.kind # "login", Answer(t, f, c),
         UNCHANGED <<keys, nonces, secret, ticks, now, jar, page, newest>>, live' \subseteq live
  PROVE  IInv'
<1> DEFINE e == [IdleReq EXCEPT !.stage = "answered", !.answer = f, !.cookies = c]
<1>1. /\ e \in Request /\ e.form = NoForm /\ e.answer = f /\ e.stage = "answered"
      /\ e.cookies = c
  BY NoFormOK DEF Request
<1>2. Become(t, e)
  BY DEF Answer
<1> HIDE DEF e
<1>3. PICK r \in Request : /\ Become(t, r) /\ r.form = NoForm /\ r.answer = f
                           /\ r.stage = "answered" /\ r.cookies = c
  BY <1>1, <1>2
<1>4. RequestOK(r, keys)
  BY <1>3 DEF RequestOK
<1>5. FormNow(r.form) /\ FormNow(r.answer) /\ r.form.nonce = 0 /\ r.answer.kind # "login"
  BY <1>3, NoFormOK
<1>6. QED
  BY <1>3, <1>4, <1>5, QuietStep

\* An answer with a new login form.
LEMMA LoginPageStep ==
  ASSUME IInv, NEW t \in Tabs, nonces < MaxNonce, nonces' = nonces + 1,
         Answer(t, LoginForm, "nonce"),
         UNCHANGED <<live, keys, secret, ticks, now, jar, page, newest>>
  PROVE  IInv'
<1>1. /\ nonces \in Nat /\ nonces' \in Nat /\ nonces' \in 1..MaxNonce /\ secret \in 0..MaxSecret
      /\ ticks \in Time /\ now \in Time
  BY DEF IInv, FormTypeOK, Time
<1>2. /\ LoginForm \in Form /\ LoginForm.kind = "login" /\ LoginForm.nonce = nonces'
      /\ LoginForm.issued = now /\ LoginForm.at = ticks
  BY <1>1 DEF LoginForm, Form, GlobalKey, Key
<1>3. FormOK(LoginForm, keys, nonces', ticks, now)
  BY <1>1, <1>2 DEF FormOK, TimeOf, IInv, ServerOK, FormTypeOK, Time
<1> DEFINE e == [IdleReq EXCEPT !.stage = "answered", !.answer = LoginForm, !.cookies = "nonce"]
<1>4. /\ e \in Request /\ e.form = NoForm /\ e.answer = LoginForm /\ e.stage = "answered"
      /\ e.cookies = "nonce"
  BY <1>2, NoFormOK DEF Request
<1>5. Become(t, e)
  BY DEF Answer
<1> HIDE DEF e
<1>6. PICK r \in Request : /\ Become(t, r) /\ r.form = NoForm /\ r.answer = LoginForm
                           /\ r.stage = "answered" /\ r.cookies = "nonce"
  BY <1>4, <1>5
<1>7. RequestOK(r, keys)
  BY <1>2, <1>6 DEF RequestOK
<1>8. FormTypeOK'
  <2>1. req' \in [Tabs -> Request]
    BY <1>6 DEF Become, IInv, FormTypeOK
  <2>2. QED
    BY <1>1, <2>1 DEF IInv, FormTypeOK
<1>9. ServerOK'
  BY <1>1 DEF IInv, ServerOK, FormTypeOK
<1>10. /\ FormOK(r.form, keys, nonces', ticks, now) /\ r.form.nonce = 0
       /\ FormOK(r.answer, keys, nonces', ticks, now) /\ r.answer.nonce > nonces
  <2>1. FormOK(NoForm, keys, nonces', ticks, now)
    BY NoFormOK DEF FormOK
  <2>2. QED
    BY <1>1, <1>2, <1>3, <1>6, <2>1, NoFormOK
<1>11. QED
  BY <1>1, <1>6, <1>7, <1>8, <1>9, <1>10, TabStep

-----------------------------------------------------------------------------
(* One lemma per action *)

\* A form is sent with the cookies of the moment.
LEMMA SendStep ==
  ASSUME IInv, NEW t \in Tabs,
         NEW op \in {"get_login", "get_admin", "login", "post", "logout"}, Send(t, op)
  PROVE  IInv'
<1> DEFINE n == IF ticks < jar.until THEN jar.nonce ELSE 0
           f == IF op \in {"login", "post", "logout"} THEN page[t] ELSE NoForm
           e == [IdleReq EXCEPT !.stage = "sent", !.op = op, !.session = jar.session,
                                !.nonce = n, !.form = f]
<1>1. f \in Form /\ FormNow(f) /\ n \in 0..MaxNonce
  BY TabFacts, NoFormOK DEF IInv, FormTypeOK, Jar
<1>2. f = page[t] \/ f.nonce = 0
  BY NoFormOK
<1>3. /\ op = "login" => f.kind = "login"
      /\ op \in {"post", "logout"} => f.kind = "admin"
  BY DEF Send
<1>4. ticks < jar.until => n = jar.nonce
  OBVIOUS
<1>5. Become(t, e) /\ jar.session \in 0..MaxSession
  BY DEF Send, IInv, FormTypeOK, Jar
<1> HIDE DEF n, f
<1>6. /\ e \in Request /\ e.form = f /\ e.answer = NoForm /\ e.stage = "sent" /\ e.op = op
      /\ e.nonce = n /\ e.cookies = "keep"
  BY <1>1, <1>5, NoFormOK DEF Request, IdleReq
<1> HIDE DEF e
<1>7. PICK r \in Request : /\ Become(t, r) /\ r.form = f /\ r.answer = NoForm
                           /\ r.stage = "sent" /\ r.op = op /\ r.nonce = n /\ r.cookies = "keep"
  BY <1>5, <1>6
<1>8. RequestOK(r, keys)
  BY <1>3, <1>7, NoFormOK DEF RequestOK
<1>9. UNCHANGED <<live, keys, nonces, secret, ticks, now, jar, page, newest>>
  BY DEF Send
<1>10. /\ FormNow(r.form) /\ FormNow(r.answer) /\ r.answer.kind # "login"
       /\ r.form.nonce = 0 \/ r.form = page[t]
  BY <1>1, <1>2, <1>7, NoFormOK
<1>11. QED
  BY <1>4, <1>7, <1>8, <1>9, <1>10, QuietStep

\* The login page: a redirect, or a form with the next nonce.
LEMMA ServeLoginPageStep ==
  ASSUME IInv, NEW t \in Tabs, ServeLoginPage(t)
  PROVE  IInv'
  BY AnswerStep, LoginPageStep, NoFormOK DEF ServeLoginPage

\* An administrator page: a form of the session that the request came with.
LEMMA ServeAdminPageStep ==
  ASSUME IInv, NEW t \in Tabs, ServeAdminPage(t)
  PROVE  IInv'
<1> DEFINE s == req[t].session
           f == IF s \in live THEN AdminForm(s) ELSE NoForm
<1>1. /\ Answer(t, f, "keep")
      /\ UNCHANGED <<live, keys, nonces, secret, ticks, now, jar, page, newest>>
  BY DEF ServeAdminPage
<1>2. f \in Form /\ FormNow(f) /\ f.kind # "login"
  <2>1. CASE s \in live
    <3>1. s \in Sessions /\ keys[s] # NoKey /\ keys[s] \in Key /\ s \in 0..MaxSession
      <4>1. s \in Sessions /\ keys[s] # NoKey /\ keys[s] \in Key
        BY <2>1 DEF IInv, FormTypeOK
      <4>2. QED
        BY <4>1 DEF Sessions
    <3>2. ticks \in Time /\ now \in Time /\ ticks <= now /\ now <= ticks + MaxBack
      BY DEF IInv, FormTypeOK, Time, ServerOK
    <3>3. /\ AdminForm(s) \in Form /\ AdminForm(s).kind = "admin" /\ AdminForm(s).nonce = 0
          /\ AdminForm(s).of = s /\ AdminForm(s).key = keys[s]
          /\ AdminForm(s).issued = now /\ AdminForm(s).at = ticks
      BY <3>1, <3>2 DEF AdminForm, Form, SessionKey
    <3>4. FormNow(AdminForm(s))
      BY <3>1, <3>2, <3>3 DEF FormNow, FormOK, TimeOf, Time
    <3>5. QED
      BY <2>1, <3>3, <3>4
  <2>2. CASE s \notin live
    BY <2>2, NoFormOK
  <2>3. QED
    BY <2>1, <2>2
<1> HIDE DEF f
<1>3. QED
  BY <1>1, <1>2, AnswerStep

\* A login whose form is refused.
LEMMA RefuseLoginStep ==
  ASSUME IInv, NEW t \in Tabs, RefuseLogin(t)
  PROVE  IInv'
  BY AnswerStep, NoFormOK DEF RefuseLogin

\* A login with a wrong password.
LEMMA FailLoginStep ==
  ASSUME IInv, NEW t \in Tabs, FailLogin(t)
  PROVE  IInv'
  BY LoginPageStep DEF FailLogin

\* A login writes the key of a session that had none.
LEMMA LoginStep ==
  ASSUME IInv, NEW t \in Tabs, NEW s \in Sessions, Login(t, s)
  PROVE  IInv'
<1> DEFINE e == [IdleReq EXCEPT !.stage = "answered", !.cookies = "login", !.login = s]
           key == [secret |-> secret, token |-> s]
<1>1. /\ keys[s] = NoKey /\ live' = (live \ {req[t].session}) \cup {s} /\ Become(t, e)
      /\ keys' = [keys EXCEPT ![s] = key]
      /\ UNCHANGED <<nonces, secret, ticks, now, jar, page, newest>>
  BY DEF Login
<1>2. s \in 0..MaxSession /\ s # 0
  BY DEF Sessions
<1>3. key \in Key /\ key # NoKey /\ key.token = s
  BY <1>2 DEF Key, NoKey, IInv, FormTypeOK
<1>4. /\ e \in Request /\ e.form = NoForm /\ e.answer = NoForm /\ e.stage = "answered"
      /\ e.cookies = "login"
  BY <1>2, NoFormOK DEF Request
<1> HIDE DEF e, key
<1>5. PICK r \in Request : /\ Become(t, r) /\ r.form = NoForm /\ r.answer = NoForm
                           /\ r.stage = "answered" /\ r.cookies = "login"
  BY <1>1, <1>4
<1>6. /\ keys' \in [Sessions -> Key] /\ keys'[s] = key
      /\ \A q \in Sessions : q # s => keys'[q] = keys[q]
  BY <1>1, <1>3 DEF IInv, FormTypeOK
<1>7. FormTypeOK'
  <2>1. req' \in [Tabs -> Request]
    BY <1>5 DEF Become, IInv, FormTypeOK
  <2>2. live' \subseteq {q \in Sessions : keys'[q] # NoKey}
    BY <1>1, <1>3, <1>6 DEF IInv, FormTypeOK
  <2>3. QED
    BY <1>1, <1>6, <2>1, <2>2 DEF IInv, FormTypeOK
<1>8. ServerOK'
  BY <1>1, <1>3, <1>6 DEF IInv, ServerOK
<1>9. \A q \in Sessions : keys[q] # NoKey => keys'[q] = keys[q]
  BY <1>1, <1>6
<1>10. RequestOK(r, keys')
  BY <1>5, NoFormOK DEF RequestOK
<1>11. FormOK(NoForm, keys', nonces', ticks, now)
  BY NoFormOK DEF FormOK
<1>12. nonces \in Nat /\ nonces <= nonces'
  BY <1>1 DEF IInv, FormTypeOK
<1>13. FormOK(r.form, keys', nonces', ticks, now) /\ FormOK(r.answer, keys', nonces', ticks, now)
       /\ r.form.nonce = 0 /\ r.answer.kind # "login"
  BY <1>5, <1>11, NoFormOK
<1>14. QED
  BY <1>1, <1>5, <1>7, <1>8, <1>9, <1>10, <1>12, <1>13, TabStep

\* The session is checked before the form is.
LEMMA AuthenticateStep ==
  ASSUME IInv, NEW t \in Tabs, Authenticate(t)
  PROVE  IInv'
<1> DEFINE e == [req[t] EXCEPT !.stage = "authenticated"]
<1>1. /\ UNCHANGED <<live, keys, nonces, secret, ticks, now, jar, page, newest>>
      /\ req[t].stage = "sent" /\ req[t].op \in {"post", "logout"}
  BY DEF Authenticate
<1>2. CASE req[t].session \in live /\ Become(t, e)
  <2>1. req[t] \in Request /\ req[t].session \in Sessions /\ keys[req[t].session] # NoKey
    BY <1>2 DEF IInv, FormTypeOK
  <2>2. /\ e \in Request /\ e.form = req[t].form /\ e.answer = req[t].answer
        /\ e.stage = "authenticated" /\ e.op = req[t].op /\ e.session = req[t].session
        /\ e.cookies = req[t].cookies
    BY <2>1 DEF Request
  <2> HIDE DEF e
  <2>3. PICK r \in Request :
           /\ Become(t, r) /\ r.form = req[t].form /\ r.answer = req[t].answer
           /\ r.stage = "authenticated" /\ r.op = req[t].op /\ r.session = req[t].session
           /\ r.cookies = req[t].cookies
    BY <1>2, <2>2
  <2>4. RequestOK(r, keys) /\ r.answer.kind # "login"
    BY <1>1, <2>1, <2>3, TabFacts DEF RequestOK
  <2>5. FormNow(r.form) /\ FormNow(r.answer)
    BY <2>3, TabFacts
  <2>6. QED
    BY <1>1, <2>3, <2>4, <2>5, QuietStep
<1>3. CASE Answer(t, NoForm, "keep")
  BY <1>1, <1>3, NoFormOK, AnswerStep
<1>4. QED
  BY <1>2, <1>3 DEF Authenticate

\* The form is verified, and a logout ends the session.
LEMMA HandleStep ==
  ASSUME IInv, NEW t \in Tabs, Handle(t)
  PROVE  IInv'
  BY AnswerStep, NoFormOK DEF Handle

\* What a change of the clock, the sessions or the requests leaves to be shown.
LEMMA ClockStep ==
  ASSUME IInv, UNCHANGED <<keys, nonces, secret, jar, page, req, newest>>, live' \subseteq live,
         ticks' \in 0..MaxTicks, now' \in Time, ticks <= ticks', now' - ticks' <= now - ticks,
         ticks' <= now'
  PROVE  IInv'
<1>1. FormTypeOK'
  BY DEF IInv, FormTypeOK
<1>2. /\ nonces \in Nat /\ ticks \in Nat /\ now \in Int /\ ticks' \in Nat /\ now' \in Int
      /\ nonces <= nonces
  BY DEF IInv, FormTypeOK, Time
<1>3. ServerOK'
  BY <1>2 DEF IInv, ServerOK
<1>4. ASSUME NEW f \in Form, FormNow(f)
      PROVE  FormOK(f, keys, nonces, ticks', now')
  <2>1. FormOK(f, keys, nonces, ticks, now)
    BY <1>4 DEF FormNow
  <2>2. QED
    BY <1>2, <2>1, FormStays
<1>5. ASSUME NEW t \in Tabs
      PROVE  TabOK(t)'
  <2>1. /\ page[t] \in Form /\ req[t].form \in Form /\ req[t].answer \in Form
    BY TabFacts DEF Request
  <2>2. FormNow(page[t])' /\ FormNow(req[t].form)' /\ FormNow(req[t].answer)'
    BY <1>4, <2>1, TabFacts DEF FormNow
  <2>3. RequestOK(req[t], keys)' /\ Fresh(t)'
    BY TabFacts DEF RequestOK, Fresh
  <2>4. Armed(t)'
    <3>1. ticks' < jar.until => ticks < jar.until
      BY <1>2 DEF IInv, FormTypeOK, Jar
    <3>2. QED
      BY <3>1, TabFacts DEF Armed
  <2>5. QED
    BY <2>2, <2>3, <2>4 DEF TabOK
<1>6. QED
  BY <1>1, <1>3, <1>5 DEF IInv

\* Time passes, or the clock is set back, or a session ends by itself.
LEMMA TimeStep ==
  ASSUME IInv, Tick \/ SetBack \/ \E s \in Sessions : EndSession(s)
  PROVE  IInv'
<1>1. ticks \in 0..MaxTicks /\ now \in Time /\ ticks <= now /\ now <= ticks + MaxBack
  BY DEF IInv, FormTypeOK, ServerOK
<1>2. ticks \in Int /\ now \in Int
  BY <1>1 DEF Time
<1>3. CASE Tick
  <2>1. ticks' \in 0..MaxTicks /\ now' \in Time
    BY <1>1, <1>3 DEF Tick, Time
  <2>2. QED
    BY <1>1, <1>2, <1>3, <2>1, ClockStep DEF Tick
<1>4. CASE SetBack
  <2>1. now' \in Time
    BY <1>1, <1>4 DEF SetBack, Time
  <2>2. QED
    BY <1>1, <1>2, <1>4, <2>1, ClockStep DEF SetBack
<1>5. CASE \E s \in Sessions : EndSession(s)
  BY <1>1, <1>2, <1>5, ClockStep DEF EndSession
<1>6. QED
  BY <1>3, <1>4, <1>5

\* A deployment loses the requests under way and changes the global key; the keys of the
\* sessions stay.
LEMMA RedeployStep ==
  ASSUME IInv, Redeploy
  PROVE  IInv'
<1>1. /\ req' = [t \in Tabs |-> IdleReq] /\ secret < MaxSecret /\ secret' = secret + 1
      /\ UNCHANGED <<live, keys, nonces, ticks, now, jar, page, newest>>
  BY DEF Redeploy
<1>2. FormTypeOK'
  <2>1. req' \in [Tabs -> Request]
    BY <1>1, NoFormOK
  <2>2. QED
    BY <1>1, <2>1 DEF IInv, FormTypeOK
<1>3. ServerOK'
  BY <1>1 DEF IInv, ServerOK
<1>4. ASSUME NEW t \in Tabs
      PROVE  TabOK(t)'
  <2>1. req'[t] = IdleReq
    BY <1>1
  <2>2. /\ FormNow(page[t])' /\ FormNow(req[t].form)' /\ FormNow(req[t].answer)'
    BY <1>1, <2>1, TabFacts, NoFormOK DEF FormNow
  <2>3. RequestOK(req[t], keys)' /\ Fresh(t)' /\ Armed(t)'
    BY <1>1, <2>1, NoFormOK DEF RequestOK, Fresh, Armed
  <2>4. QED
    BY <2>2, <2>3 DEF TabOK
<1>5. QED
  BY <1>2, <1>3, <1>4 DEF IInv

\* An answer arrives: its cookies are stored and the tab may show its page.
LEMMA DeliverStep ==
  ASSUME IInv, NEW t \in Tabs, Deliver(t)
  PROVE  IInv'
<1> DEFINE a == req[t].answer
           cookies == req[t].cookies
<1>1. /\ Become(t, IdleReq) /\ req[t].stage = "answered"
      /\ UNCHANGED <<live, keys, nonces, secret, ticks, now>>
      /\ \/ page' = [page EXCEPT ![t] = a]
         \/ a.kind = "none" /\ UNCHANGED page
  BY DEF Deliver
<1>2. /\ a \in Form /\ FormNow(a) /\ a.nonce \in 0..MaxNonce
      /\ cookies \in {"keep", "nonce", "login", "logout"} /\ req[t].login \in 0..MaxSession
      /\ a.kind = "login" <=> cookies = "nonce"
  BY TabFacts DEF Request, Form, RequestOK
<1>3. /\ jar.nonce = newest /\ jar \in Jar /\ ticks \in 0..MaxTicks /\ nonces \in Nat
      /\ newest \in 0..MaxNonce /\ LoginTtl \in Nat
  BY DEF IInv, FormTypeOK, ServerOK
<1>4. a.kind = "login" => a.nonce \in 1..nonces
  BY <1>2 DEF FormNow, FormOK
<1> DEFINE Arrived == jar'.nonce = a.nonce /\ a.kind = "login"
           Cleared == jar'.nonce = 0 /\ a.kind # "login"
           Same == jar'.nonce = jar.nonce /\ jar'.until = jar.until /\ a.kind # "login"
<1>5. jar' \in Jar /\ jar'.nonce = newest' /\ (Arrived \/ Cleared \/ Same)
  <2>1. CASE cookies = "keep"
    <3>1. jar' = jar
      BY <2>1 DEF Deliver
    <3>2. newest' = newest
      BY <1>2, <2>1 DEF Deliver
    <3>3. QED
      BY <1>2, <1>3, <2>1, <3>1, <3>2
  <2>2. CASE cookies = "nonce"
    <3>1. jar' = [jar EXCEPT !.nonce = a.nonce, !.until = ticks + LoginTtl]
      BY <2>2 DEF Deliver
    <3>2. newest' = a.nonce
      BY <1>2, <2>2 DEF Deliver
    <3>3. ticks + LoginTtl \in 0..(MaxTicks + LoginTtl)
      BY <1>3
    <3>4. jar' \in Jar /\ jar'.nonce = a.nonce
      BY <1>2, <1>3, <3>1, <3>3 DEF Jar
    <3>5. QED
      BY <1>2, <2>2, <3>2, <3>4
  <2>3. CASE cookies = "login"
    <3>1. jar' = [session |-> req[t].login, nonce |-> 0, until |-> 0]
      BY <2>3 DEF Deliver
    <3>2. newest' = 0
      BY <1>2, <2>3 DEF Deliver
    <3>3. jar' \in Jar /\ jar'.nonce = 0
      BY <1>2, <1>3, <3>1 DEF Jar
    <3>4. QED
      BY <1>2, <2>3, <3>2, <3>3
  <2>4. CASE cookies = "logout"
    <3>1. jar' = [jar EXCEPT !.session = 0]
      BY <2>4 DEF Deliver
    <3>2. newest' = newest
      BY <1>2, <2>4 DEF Deliver
    <3>3. jar' \in Jar /\ jar'.nonce = jar.nonce /\ jar'.until = jar.until
      BY <1>3, <3>1 DEF Jar
    <3>4. QED
      BY <1>2, <1>3, <2>4, <3>2, <3>3
  <2>5. QED
    BY <1>2, <2>1, <2>2, <2>3, <2>4
<1> HIDE DEF Arrived, Cleared, Same
<1>6. \A u \in Tabs : page'[u] = page[u] \/ page'[u] = a
  BY <1>1 DEF IInv, FormTypeOK
<1>7. /\ req'[t] = IdleReq /\ \A u \in Tabs : u # t => req'[u] = req[u]
      /\ req' \in [Tabs -> Request]
  BY <1>1, NoFormOK DEF Become, IInv, FormTypeOK
<1>8. FormTypeOK'
  <2>1. page' \in [Tabs -> Form]
    BY <1>1, <1>2 DEF IInv, FormTypeOK
  <2>2. newest' \in 0..MaxNonce
    BY <1>5 DEF Jar
  <2>3. QED
    BY <1>1, <1>5, <1>7, <2>1, <2>2 DEF IInv, FormTypeOK
<1>9. ServerOK'
  <2>1. newest' <= nonces
    BY <1>3, <1>4, <1>5 DEF Arrived, Cleared, Same, IInv, ServerOK
  <2>2. QED
    BY <1>1, <1>5, <2>1 DEF IInv, ServerOK
<1>10. ASSUME NEW u \in Tabs
       PROVE  TabOK(u)'
  <2>1. FormNow(page[u])'
    BY <1>1, <1>2, <1>6, TabFacts DEF FormNow
  <2>2. CASE u = t
    <3>1. FormNow(req[u].form)' /\ FormNow(req[u].answer)'
      BY <1>1, <1>7, <2>2, NoFormOK DEF FormNow
    <3>2. RequestOK(req[u], keys)' /\ Fresh(u)' /\ Armed(u)'
      BY <1>1, <1>7, <2>2, NoFormOK DEF Fresh, Armed
    <3>3. QED
      BY <2>1, <3>1, <3>2 DEF TabOK
  <2>3. CASE u # t
    <3>1. /\ FormNow(req[u].form)' /\ FormNow(req[u].answer)' /\ RequestOK(req[u], keys)'
      BY <1>1, <1>7, <2>3, TabFacts DEF FormNow
    <3>2. Fresh(u)'
      <4>1. SUFFICES ASSUME req[u].answer.kind = "login"
            PROVE  /\ jar'.nonce # req[u].answer.nonce
                   /\ \A v \in Tabs :
                        /\ page'[v].nonce # req[u].answer.nonce
                        /\ req'[v].form.nonce # req[u].answer.nonce
                        /\ v # u => req'[v].answer.nonce # req[u].answer.nonce
        BY <1>7, <2>3 DEF Fresh
      <4>2. Fresh(u) /\ FormNow(req[u].answer)
        BY TabFacts
      <4>3. /\ jar.nonce # req[u].answer.nonce /\ a.nonce # req[u].answer.nonce
            /\ req[u].answer.nonce # 0
        BY <2>3, <4>1, <4>2 DEF Fresh, FormNow, FormOK
      <4>4. jar'.nonce # req[u].answer.nonce
        BY <1>5, <4>3 DEF Arrived, Cleared, Same
      <4>5. \A v \in Tabs : page'[v].nonce # req[u].answer.nonce
        BY <1>6, <4>1, <4>2, <4>3 DEF Fresh
      <4>6. \A v \in Tabs :
               /\ req'[v].form.nonce # req[u].answer.nonce
               /\ v # u => req'[v].answer.nonce # req[u].answer.nonce
        BY <1>7, <4>1, <4>2, <4>3, NoFormOK DEF Fresh
      <4>7. QED
        BY <4>4, <4>5, <4>6
    <3>3. Armed(u)'
      <4>1. SUFFICES ASSUME req[u].stage = "sent", req[u].op = "login",
                            req[u].form.nonce = jar'.nonce, ticks < jar'.until
            PROVE  req[u].nonce = jar'.nonce
        BY <1>1, <1>7, <2>3 DEF Armed
      <4>2. req[u].form.nonce \in 1..nonces
        BY <4>1, TabFacts DEF RequestOK, FormNow, FormOK
      <4>3. CASE Arrived
        BY <4>1, <4>3, TabFacts DEF Fresh, Arrived
      <4>4. CASE Cleared
        BY <1>3, <4>1, <4>2, <4>4 DEF Cleared
      <4>5. CASE Same
        BY <4>1, <4>5, TabFacts DEF Armed, Same
      <4>6. QED
        BY <1>5, <4>3, <4>4, <4>5
    <3>4. QED
      BY <2>1, <3>1, <3>2, <3>3 DEF TabOK
  <2>4. QED
    BY <2>2, <2>3
<1>11. QED
  BY <1>8, <1>9, <1>10 DEF IInv

-----------------------------------------------------------------------------
(* Theorems *)

\* A browser without cookies and a server without sessions keep the invariant.
LEMMA InitIInv == FormInit => IInv
<1> SUFFICES ASSUME FormInit PROVE IInv
  OBVIOUS
<1>1. /\ NoForm \in Form /\ NoForm.kind = "none" /\ NoForm.nonce = 0
  BY DEF NoForm, Form, NoKey, Key, Time
<1>2. IdleReq \in Request /\ IdleReq.form = NoForm /\ IdleReq.answer = NoForm
      /\ IdleReq.stage = "idle" /\ IdleReq.cookies = "keep"
  BY <1>1 DEF IdleReq, Request
<1>3. FormTypeOK
  <2>1. NoKey \in Key
    BY DEF NoKey, Key
  <2>2. jar \in Jar
    BY DEF FormInit, Jar
  <2>3. now \in Time
    BY DEF FormInit, Time
  <2>4. QED
    BY <1>1, <1>2, <2>1, <2>2, <2>3 DEF FormInit, FormTypeOK
<1>4. ServerOK
  BY DEF FormInit, ServerOK
<1>5. \A t \in Tabs : TabOK(t)
  BY <1>1, <1>2 DEF FormInit, TabOK, FormNow, FormOK, RequestOK, Fresh, Armed
<1>6. QED
  BY <1>3, <1>4, <1>5 DEF IInv

\* Every step of the browser, the server, the clock and the operators keeps it.
LEMMA NextIInv == IInv /\ [FormNext]_formVars => IInv'
<1> SUFFICES ASSUME IInv, [FormNext]_formVars PROVE IInv'
  OBVIOUS
<1>1. CASE \E t \in Tabs, op \in {"get_login", "get_admin", "login", "post", "logout"} :
             Send(t, op)
  BY <1>1, SendStep
<1>2. CASE \E t \in Tabs : \/ ServeLoginPage(t) \/ ServeAdminPage(t) \/ RefuseLogin(t)
                           \/ FailLogin(t)
  BY <1>2, ServeLoginPageStep, ServeAdminPageStep, RefuseLoginStep, FailLoginStep
<1>3. CASE \E t \in Tabs, s \in Sessions : Login(t, s)
  BY <1>3, LoginStep
<1>4. CASE \E t \in Tabs : Authenticate(t) \/ Handle(t) \/ Deliver(t)
  BY <1>4, AuthenticateStep, HandleStep, DeliverStep
<1>5. CASE Tick \/ SetBack \/ \E s \in Sessions : EndSession(s)
  BY <1>5, TimeStep
<1>6. CASE Redeploy
  BY <1>6, RedeployStep
<1>7. CASE UNCHANGED formVars
  <2>1. \A t \in Tabs : TabOK(t)'
    BY <1>7 DEF formVars, IInv, TabOK, FormNow, Fresh, Armed
  <2>2. QED
    BY <1>7, <2>1 DEF formVars, IInv, FormTypeOK, ServerOK
<1>8. QED
  BY <1>1, <1>2, <1>3, <1>4, <1>5, <1>6, <1>7 DEF FormNext

\* The inductive invariant holds in every reachable state: every form anywhere is signed
\* with the key of the session it was rendered for, was rendered no later than now by true
\* time, and a login form that has not arrived yet is the only one with its nonce.
THEOREM Invariance == FormSpec => []IInv
  BY InitIInv, NextIInv, PTL DEF FormSpec

\* The type invariant: among the rest, a session that authenticates has a key in its row.
THEOREM TypeCorrect == FormSpec => []FormTypeOK
<1>1. IInv => FormTypeOK
  BY DEF IInv
<1>2. QED
  BY <1>1, Invariance, PTL

\* A form that is accepted was rendered for the session that submits it: by two keys being
\* equal only if their sessions are.
THEOREM FormsAreBound == FormSpec => []FormsDieWithSession
<1>1. IInv => FormsDieWithSession
  <2> SUFFICES ASSUME IInv, NEW t \in Tabs, FormDue(t), VerifySessionToken(req[t])
               PROVE  req[t].form.of = req[t].session
    BY DEF FormsDieWithSession
  <2>1. /\ req[t].form.kind = "admin" /\ req[t].session \in Sessions
        /\ keys[req[t].session] # NoKey
    BY TabFacts DEF FormDue, RequestOK
  <2>2. /\ req[t].form.of \in Sessions /\ keys[req[t].form.of] # NoKey
        /\ req[t].form.key = keys[req[t].form.of]
    BY <2>1, TabFacts DEF FormNow, FormOK
  <2>3. keys[req[t].form.of] = keys[req[t].session]
    BY <2>2 DEF VerifySessionToken, SessionKey
  <2>4. QED
    BY <2>1, <2>2, <2>3 DEF IInv, ServerOK
<1>2. QED
  BY <1>1, Invariance, PTL

\* What the age of a form is by the clock and by true time.
LEMMA Ages ==
  ASSUME IInv, NEW t \in Tabs, FormDue(t) \/ LoginDue(t)
  PROVE  LET f == req[t].form
         IN  /\ ticks \in Int /\ now \in Int /\ f.at \in Int /\ f.issued \in Int
             /\ f.at <= ticks /\ f.issued <= f.at + MaxBack /\ f.issued - f.at >= now - ticks
<1>1. /\ req[t].form \in Form /\ FormNow(req[t].form) /\ RequestOK(req[t], keys)
  BY TabFacts DEF Request
<1>2. req[t].form.kind \in {"login", "admin"}
  BY <1>1 DEF FormDue, LoginDue, RequestOK
<1>3. TimeOf(req[t].form, ticks, now)
  BY <1>1, <1>2 DEF FormNow, FormOK
<1>4. ticks \in Int /\ now \in Int /\ req[t].form.at \in Int /\ req[t].form.issued \in Int
  BY <1>1 DEF IInv, FormTypeOK, Form, Time
<1>5. QED
  BY <1>3, <1>4 DEF TimeOf

\* No form is accepted longer than its lifetime and the time by which the clock was set
\* back, in all, while it existed or before.
THEOREM FormsExpire == FormSpec => []AcceptedInTime
<1>1. IInv => AcceptedInTime
  <2> SUFFICES ASSUME IInv, NEW t \in Tabs
               PROVE  LET back == ticks + MaxBack - now
                      IN  /\ FormDue(t) /\ VerifySessionToken(req[t]) =>
                               Elapsed(req[t].form) <= Ttl + back
                          /\ LoginDue(t) /\ VerifyLoginToken(req[t]) =>
                               Elapsed(req[t].form) <= LoginTtl + back
    BY DEF AcceptedInTime
  <2>1. CASE FormDue(t) /\ VerifySessionToken(req[t])
    <3>1. ~LoginDue(t) /\ now - req[t].form.issued <= Ttl
      BY <2>1 DEF FormDue, LoginDue, VerifySessionToken, AgeAccepted
    <3>2. QED
      BY <2>1, <3>1, Ages DEF Elapsed
  <2>2. CASE LoginDue(t) /\ VerifyLoginToken(req[t])
    <3>1. ~FormDue(t) /\ now - req[t].form.issued <= LoginTtl
      BY <2>2 DEF FormDue, LoginDue, VerifyLoginToken, AgeAccepted
    <3>2. QED
      BY <2>2, <3>1, Ages DEF Elapsed
  <2>3. QED
    BY <2>1, <2>2
<1>2. QED
  BY <1>1, Invariance, PTL

\* The age of a form that is young by true time, under a clock that was set back little.
LEMMA FreshAge ==
  ASSUME IInv, NEW t \in Tabs, FormDue(t) \/ LoginDue(t), NEW ttl \in Nat,
         Elapsed(req[t].form) <= ttl, TurnedBack(req[t].form) <= Skew
  PROVE  AgeAccepted(req[t].form, ttl)
  BY Ages DEF Elapsed, TurnedBack, AgeAccepted

\* A form of the session that submits it is accepted for its whole lifetime, whatever
\* other tabs and deployments do meanwhile.
THEOREM FormsLast == FormSpec => []FreshFormAccepted
<1>1. IInv => FreshFormAccepted
  <2> SUFFICES ASSUME IInv, NEW t \in Tabs, FormDue(t), req[t].form.of = req[t].session,
                      Elapsed(req[t].form) <= Ttl, TurnedBack(req[t].form) <= Skew
               PROVE  VerifySessionToken(req[t])
    BY DEF FreshFormAccepted
  <2>1. req[t].form.kind = "admin"
    BY TabFacts DEF FormDue, RequestOK
  <2>2. req[t].form.key = keys[req[t].session]
    BY <2>1, TabFacts DEF FormNow, FormOK
  <2>3. AgeAccepted(req[t].form, Ttl)
    BY FreshAge
  <2>4. QED
    BY <2>2, <2>3 DEF VerifySessionToken, SessionKey
<1>2. QED
  BY <1>1, Invariance, PTL

\* The login form that arrived last is accepted until its cookie expires, in whatever
\* order pages, wrong passwords and answers of all tabs came before it: no other answer
\* carries its nonce, so the cookie was that nonce since the form arrived.
THEOREM NewestWorks == FormSpec => []NewestLoginWorks
<1>1. IInv => NewestLoginWorks
  <2> SUFFICES ASSUME IInv, NEW t \in Tabs, LoginDue(t), req[t].form.nonce = newest,
                      ticks < jar.until, Elapsed(req[t].form) <= LoginTtl,
                      TurnedBack(req[t].form) <= Skew, req[t].form.key = GlobalKey
               PROVE  VerifyLoginToken(req[t])
    BY DEF NewestLoginWorks
  <2>1. req[t].form.kind = "login"
    BY TabFacts DEF LoginDue, RequestOK
  <2>2. req[t].form.nonce # 0
    BY <2>1, TabFacts DEF FormNow, FormOK
  <2>3. req[t].nonce = req[t].form.nonce
    BY TabFacts DEF Armed, LoginDue, IInv, ServerOK
  <2>4. AgeAccepted(req[t].form, LoginTtl)
    BY FreshAge
  <2>5. QED
    BY <2>2, <2>3, <2>4 DEF VerifyLoginToken
<1>2. QED
  BY <1>1, Invariance, PTL

HIDE TokenAssumption

-----------------------------------------------------------------------------
(* The order of the audit log *)

\* An event has a time.
LogTyped == log \in Seq([at : Nat, to : ReleaseStatus \cup {"none"}])

\* The order of the audit browser is total: by time and, at the same time, by id.
LEMMA BeforeIsTotal ==
  ASSUME LogTyped
  PROVE  /\ Len(log) \in Nat /\ DOMAIN log = 1..Len(log) /\ IsFiniteSet(DOMAIN log)
         /\ Cardinality(DOMAIN log) = Len(log)
         /\ \A i \in DOMAIN log : ~Before(i, i)
         /\ \A i, j \in DOMAIN log : i = j \/ Before(i, j) \/ Before(j, i)
         /\ \A i, j, k \in DOMAIN log : Before(i, j) /\ Before(j, k) => Before(i, k)
<1>1. Len(log) \in Nat /\ DOMAIN log = 1..Len(log) /\ \A i \in DOMAIN log : log[i].at \in Nat
  <2> DEFINE E == [at : Nat, to : ReleaseStatus \cup {"none"}]
  <2>1. \A e \in E : e.at \in Nat
    OBVIOUS
  <2>2. log \in Seq(E)
    BY DEF LogTyped
  <2> HIDE DEF E
  <2>3. Len(log) \in Nat /\ DOMAIN log = 1..Len(log) /\ \A i \in DOMAIN log : log[i] \in E
    BY <2>2
  <2>4. QED
    BY <2>1, <2>3
<1>2. IsFiniteSet(1..Len(log)) /\ Cardinality(1..Len(log)) = Len(log)
  BY <1>1, FS_Interval
<1>3. /\ \A i \in DOMAIN log : ~Before(i, i)
      /\ \A i, j \in DOMAIN log : i = j \/ Before(i, j) \/ Before(j, i)
  BY <1>1 DEF Before
<1>4. \A i, j, k \in DOMAIN log : Before(i, j) /\ Before(j, k) => Before(i, k)
  BY <1>1 DEF Before
<1>5. QED
  BY <1>1, <1>2, <1>3, <1>4

\* The same of the log after a step.
LEMMA BeforeIsTotalThen ==
  ASSUME LogTyped'
  PROVE  IsFiniteSet(DOMAIN log')
<1>1. log' \in Seq([at : Nat, to : ReleaseStatus \cup {"none"}])
  BY DEF LogTyped
<1>2. Len(log') \in Nat /\ DOMAIN log' = 1..Len(log')
  BY <1>1
<1>3. QED
  BY <1>2, FS_Interval

\* An event that comes before another has a smaller place.
LEMMA PlacesInOrder ==
  ASSUME LogTyped, NEW i \in DOMAIN log
  PROVE  /\ Place(i) \in 1..Len(log)
         /\ \A j \in DOMAIN log : Before(i, j) => Place(i) < Place(j)
<1> DEFINE B(k) == {j \in DOMAIN log : Before(j, k)}
<1>1. \A k : IsFiniteSet(B(k)) /\ Cardinality(B(k)) \in Nat
  <2>1. \A k : B(k) \in SUBSET (DOMAIN log)
    OBVIOUS
  <2> HIDE DEF B
  <2>2. QED
    BY <2>1, BeforeIsTotal, FS_Subset, FS_CardinalityType
<1>2. Cardinality(B(i)) < Len(log)
  <2>1. B(i) \subseteq DOMAIN log /\ B(i) # DOMAIN log
    BY BeforeIsTotal
  <2> HIDE DEF B
  <2>2. Cardinality(B(i)) < Cardinality(DOMAIN log)
    <3>1. IsFiniteSet(DOMAIN log)
      BY BeforeIsTotal
    <3> DEFINE D == DOMAIN log
    <3> HIDE DEF D
    <3>2. IsFiniteSet(D) /\ B(i) \in SUBSET D /\ B(i) # D
      BY <2>1, <3>1 DEF D
    <3>3. Cardinality(B(i)) < Cardinality(D)
      BY <1>1, <3>2, FS_Subset, FS_CardinalityType
    <3>4. QED
      BY <3>3 DEF D
  <2>3. QED
    BY <2>2, BeforeIsTotal
<1>3. ASSUME NEW j \in DOMAIN log, Before(i, j)
      PROVE  Cardinality(B(i)) < Cardinality(B(j))
  <2>1. B(i) \subseteq B(j) /\ B(i) # B(j)
    BY <1>3, BeforeIsTotal
  <2> HIDE DEF B
  <2>2. QED
    BY <1>1, <2>1, FS_Subset
<1>4. \A k : Place(k) = Cardinality(B(k)) + 1
  BY DEF Place
<1> HIDE DEF B
<1>5. Place(i) \in 1..Len(log)
  BY <1>1, <1>2, <1>4, BeforeIsTotal
<1>6. QED
  BY <1>1, <1>3, <1>4, <1>5

\* Every row of the listing is one event, and every event is one row.
LEMMA ListingIsWhole ==
  ASSUME LogTyped
  PROVE  /\ DOMAIN Listing = DOMAIN log
         /\ \A k \in DOMAIN log : Listing[k] \in DOMAIN log /\ Place(Listing[k]) = k
         /\ \A i \in DOMAIN log : Place(i) \in DOMAIN log /\ Listing[Place(i)] = i
<1> DEFINE n == Len(log)
           f == [i \in DOMAIN log |-> Place(i)]
<1>1. n \in Nat /\ DOMAIN log = 1..n /\ IsFiniteSet(DOMAIN log)
  BY BeforeIsTotal
<1>2. \A i \in DOMAIN log : Place(i) \in DOMAIN log
  BY <1>1, PlacesInOrder
<1>3. \A i, j \in DOMAIN log : Place(i) = Place(j) => i = j
  <2>1. SUFFICES ASSUME NEW i \in DOMAIN log, NEW j \in DOMAIN log, Place(i) = Place(j), i # j
                 PROVE  FALSE
    OBVIOUS
  <2>2. Before(i, j) \/ Before(j, i)
    BY <2>1, BeforeIsTotal
  <2>3. Place(i) < Place(j) \/ Place(j) < Place(i)
    BY <2>2, PlacesInOrder
  <2>4. Place(i) \in Nat
    BY <1>1, <1>2
  <2>5. QED
    BY <2>1, <2>3, <2>4
<1>4. f \in Injection(DOMAIN log, DOMAIN log)
  BY <1>2, <1>3 DEF Injection, IsInjective
<1> HIDE DEF f
<1>5. f \in Surjection(DOMAIN log, DOMAIN log)
  BY <1>1, <1>4, FS_Injection
<1>6. \A k \in DOMAIN log : \E i \in DOMAIN log : Place(i) = k
  BY <1>5 DEF Surjection, f
<1>7. \A k \in DOMAIN log : Listing[k] \in DOMAIN log /\ Place(Listing[k]) = k
  BY <1>6 DEF Listing
<1>8. DOMAIN Listing = DOMAIN log
  BY DEF Listing
<1>9. \A i \in DOMAIN log : Listing[Place(i)] = i
  BY <1>2, <1>3, <1>7
<1>10. QED
  BY <1>2, <1>7, <1>8, <1>9

-----------------------------------------------------------------------------
(* The trail *)

\* An event in the log, and what a request is about to write.
EventState == [at : Nat, to : ReleaseStatus \cup {"none"}]
JobState == [pc : {"idle", "read", "written", "noted"}, to : ReleaseStatus \cup {"none"}, at : Nat]

\* Times are of the past; one transaction writes at a time, and no change in the log is
\* later than it; later changes have later ids; the newest made the status what it is.
TrailInv ==
    /\ LogTyped
    /\ clock \in Nat
    /\ job \in [Workers -> JobState]
    /\ \A w \in Workers : job[w].at <= clock
    /\ \A i \in DOMAIN log : log[i].at <= clock
    /\ \A w \in Workers : job[w].pc \in {"read", "written"} => job[w].to # "none"
    /\ \A v, w \in Workers : job[v].pc = "written" /\ job[w].pc = "written" => v = w
    /\ \A w \in Workers, i \in DOMAIN log :
         job[w].pc = "written" /\ log[i].to # "none" => log[i].at <= job[w].at
    /\ \A i, j \in DOMAIN log :
         i < j /\ log[i].to # "none" /\ log[j].to # "none" => log[i].at <= log[j].at
    /\ \/ status = "draft" /\ \A i \in DOMAIN log : log[i].to = "none"
       \/ \E m \in DOMAIN log : /\ log[m].to = status /\ status # "none"
                                 /\ \A i \in DOMAIN log : log[i].to # "none" => i <= m

\* What an event at the end of the log changes.
LEMMA AppendedLog ==
  ASSUME LogTyped, NEW at \in Nat, NEW to \in ReleaseStatus \cup {"none"},
         log' = Appended(at, to)
  PROVE  /\ LogTyped'
         /\ Len(log) \in Nat /\ Len(log') = Len(log) + 1
         /\ DOMAIN log = 1..Len(log) /\ DOMAIN log' = 1..(Len(log) + 1)
         /\ \A i \in DOMAIN log : log'[i] = log[i] /\ log[i].at \in Nat
         /\ log'[Len(log) + 1] = [at |-> at, to |-> to]
<1> DEFINE e == [at |-> at, to |-> to]
<1>1. e \in EventState /\ log \in Seq(EventState)
  BY DEF EventState, LogTyped
<1>2. \A x \in EventState : x.at \in Nat
  BY DEF EventState
<1>3. log' = Append(log, e)
  BY DEF Appended
<1> HIDE DEF e
<1>4. /\ log' \in Seq(EventState) /\ Len(log) \in Nat /\ Len(log') = Len(log) + 1
      /\ DOMAIN log = 1..Len(log) /\ DOMAIN log' = 1..(Len(log) + 1)
      /\ \A i \in DOMAIN log : log'[i] = log[i] /\ log[i] \in EventState
      /\ log'[Len(log) + 1] = e
  BY <1>1, <1>3
<1>5. LogTyped'
  BY <1>4 DEF LogTyped, EventState
<1>6. QED
  BY <1>2, <1>4, <1>5 DEF e

\* A release has no status "none".
LEMMA StatusIsNamed == "none" \notin ReleaseStatus /\ "draft" \in ReleaseStatus
BY DEF ReleaseStatus

\* A step that leaves log and status alone, and writes nothing later than what it finds.
LEMMA QuietTrail ==
  ASSUME TrailInv, UNCHANGED <<status, log>>, clock' \in Nat, clock' >= clock,
         NEW w \in Workers, NEW j \in JobState, job' = [job EXCEPT ![w] = j],
         j.at <= clock, j.pc \in {"read", "written"} => j.to # "none",
         j.pc = "written" => /\ \A v \in Workers : job[v].pc # "written"
                             /\ j.at = clock
  PROVE  TrailInv'
<1>1. LogTyped' /\ clock \in Nat /\ \A i \in DOMAIN log : log[i].at \in Nat
  <2>1. \A x \in EventState : x.at \in Nat
    BY DEF EventState
  <2>2. log \in Seq(EventState)
    BY DEF TrailInv, LogTyped, EventState
  <2>3. \A i \in DOMAIN log : log[i] \in EventState
    BY <2>2
  <2>4. QED
    BY <2>1, <2>3 DEF TrailInv, LogTyped
<1>2. /\ job' \in [Workers -> JobState] /\ job'[w] = j
      /\ \A v \in Workers : v # w => job'[v] = job[v]
      /\ \A v \in Workers : job[v].at \in Nat
  BY DEF TrailInv, JobState
<1>3. j.at \in Nat
  BY DEF JobState
<1>4. \A v \in Workers : job'[v].at <= clock'
  BY <1>1, <1>2, <1>3 DEF TrailInv
<1>5. \A i \in DOMAIN log' : log'[i].at <= clock'
  BY <1>1 DEF TrailInv
<1>6. /\ \A v \in Workers : job'[v].pc \in {"read", "written"} => job'[v].to # "none"
      /\ \A u, v \in Workers : job'[u].pc = "written" /\ job'[v].pc = "written" => u = v
  BY <1>2 DEF TrailInv
<1>7. \A v \in Workers, i \in DOMAIN log' :
        job'[v].pc = "written" /\ log'[i].to # "none" => log'[i].at <= job'[v].at
  BY <1>1, <1>2 DEF TrailInv
<1>8. QED
  BY <1>1, <1>2, <1>4, <1>5, <1>6, <1>7 DEF TrailInv

\* A change is committed by the one transaction that writes: it is the newest.
LEMMA CommitTrail ==
  ASSUME TrailInv, NEW w \in Workers, Commit(w)
  PROVE  TrailInv'
<1> DEFINE n == Len(log)
           e == [at |-> job[w].at, to |-> job[w].to]
<1>1. /\ job[w].pc = "written" /\ job[w].at \in Nat /\ job[w].to \in ReleaseStatus \cup {"none"}
      /\ job[w].to # "none" /\ job[w].at <= clock /\ clock \in Nat /\ clock' = clock
      /\ job' = [job EXCEPT ![w] = IdleJob] /\ status' = job[w].to
      /\ log' = Appended(job[w].at, job[w].to)
  BY DEF TrailInv, JobState, Commit
<1>2. /\ LogTyped' /\ n \in Nat /\ DOMAIN log = 1..n /\ DOMAIN log' = 1..(n + 1)
      /\ \A i \in 1..n : log'[i] = log[i] /\ log[i].at \in Nat
      /\ log'[n + 1] = e
  <2>1. LogTyped
    BY DEF TrailInv
  <2>2. QED
    BY <1>1, <2>1, AppendedLog
<1> HIDE DEF n
<1>3. \A i \in 1..(n + 1) : i = n + 1 \/ i \in 1..n
  BY <1>2
<1>4. IdleJob \in JobState /\ IdleJob.pc = "idle" /\ IdleJob.at = 0
  BY DEF IdleJob, JobState
<1>5. /\ job' \in [Workers -> JobState] /\ job'[w] = IdleJob
      /\ \A v \in Workers : v # w => job'[v] = job[v]
  BY <1>1, <1>4 DEF TrailInv
<1>6. \A v \in Workers : job'[v].pc # "written"
  BY <1>1, <1>4, <1>5 DEF TrailInv
<1>7. \A v \in Workers : job'[v].at <= clock'
  BY <1>1, <1>4, <1>5 DEF TrailInv
<1>8. \A i \in DOMAIN log' : log'[i].at <= clock'
  BY <1>1, <1>2, <1>3 DEF TrailInv
<1>9. \A v \in Workers : job'[v].pc \in {"read", "written"} => job'[v].to # "none"
  BY <1>4, <1>5 DEF TrailInv
<1>10. \A i, j \in DOMAIN log' :
         i < j /\ log'[i].to # "none" /\ log'[j].to # "none" => log'[i].at <= log'[j].at
  <2>1. SUFFICES ASSUME NEW i \in 1..(n + 1), NEW j \in 1..(n + 1), i < j,
                        log'[i].to # "none", log'[j].to # "none"
                 PROVE  log'[i].at <= log'[j].at
    BY <1>2
  <2>2. i \in 1..n /\ log'[i] = log[i]
    BY <1>2, <2>1
  <2>3. CASE j = n + 1
    BY <1>1, <1>2, <2>1, <2>2, <2>3 DEF TrailInv
  <2>4. CASE j \in 1..n
    BY <1>2, <2>1, <2>2, <2>4 DEF TrailInv
  <2>5. QED
    BY <1>3, <2>3, <2>4
<1>11. /\ n + 1 \in DOMAIN log' /\ log'[n + 1].to = status' /\ status' # "none"
       /\ \A i \in DOMAIN log' : i <= n + 1
  BY <1>1, <1>2
<1>12. QED
  BY <1>1, <1>2, <1>5, <1>6, <1>7, <1>8, <1>9, <1>10, <1>11 DEF TrailInv

\* An event without a change waits for the lock, and tells nothing of the status.
LEMMA NoteTrail ==
  ASSUME TrailInv, NEW w \in Workers, CommitNote(w)
  PROVE  TrailInv'
<1> DEFINE n == Len(log)
<1>1. /\ job[w].at \in Nat /\ job[w].at <= clock /\ clock \in Nat /\ clock' = clock
      /\ job' = [job EXCEPT ![w] = IdleJob] /\ status' = status
      /\ log' = Appended(job[w].at, "none")
      /\ \A v \in Workers : job[v].pc # "written"
  BY DEF TrailInv, JobState, CommitNote, Locked
<1>2. /\ LogTyped' /\ n \in Nat /\ DOMAIN log = 1..n /\ DOMAIN log' = 1..(n + 1)
      /\ \A i \in 1..n : log'[i] = log[i] /\ log[i].at \in Nat
      /\ log'[n + 1].at = job[w].at /\ log'[n + 1].to = "none"
  <2>1. LogTyped
    BY DEF TrailInv
  <2>2. log'[Len(log) + 1] = [at |-> job[w].at, to |-> "none"]
    BY <1>1, <2>1, AppendedLog
  <2>3. QED
    BY <1>1, <2>1, <2>2, AppendedLog
<1> HIDE DEF n
<1>3. \A i \in 1..(n + 1) : i = n + 1 \/ i \in 1..n
  BY <1>2
<1>4. IdleJob \in JobState /\ IdleJob.pc = "idle" /\ IdleJob.at = 0
  BY DEF IdleJob, JobState
<1>5. /\ job' \in [Workers -> JobState] /\ job'[w] = IdleJob
      /\ \A v \in Workers : v # w => job'[v] = job[v]
  BY <1>1, <1>4 DEF TrailInv
<1>6. \A v \in Workers : job'[v].pc # "written"
  BY <1>1, <1>4, <1>5
<1>7. \A v \in Workers : job'[v].at <= clock'
  BY <1>1, <1>4, <1>5 DEF TrailInv
<1>8. \A i \in DOMAIN log' : log'[i].at <= clock'
  BY <1>1, <1>2, <1>3 DEF TrailInv
<1>9. \A v \in Workers : job'[v].pc \in {"read", "written"} => job'[v].to # "none"
  BY <1>4, <1>5 DEF TrailInv
<1>10. \A i \in DOMAIN log' : log'[i].to # "none" => i \in DOMAIN log /\ log'[i] = log[i]
  BY <1>2, <1>3
<1>11. \A i, j \in DOMAIN log' :
         i < j /\ log'[i].to # "none" /\ log'[j].to # "none" => log'[i].at <= log'[j].at
  BY <1>10 DEF TrailInv
<1>12. \/ status' = "draft" /\ \A i \in DOMAIN log' : log'[i].to = "none"
       \/ \E m \in DOMAIN log' : /\ log'[m].to = status' /\ status' # "none"
                                  /\ \A i \in DOMAIN log' : log'[i].to # "none" => i <= m
  <2>1. CASE status = "draft" /\ \A i \in DOMAIN log : log[i].to = "none"
    BY <1>1, <1>10, <2>1
  <2>2. ASSUME NEW m \in DOMAIN log, log[m].to = status, status # "none",
               \A i \in DOMAIN log : log[i].to # "none" => i <= m
        PROVE  /\ m \in DOMAIN log' /\ log'[m].to = status' /\ status' # "none"
               /\ \A i \in DOMAIN log' : log'[i].to # "none" => i <= m
    BY <1>1, <1>2, <1>10, <2>2
  <2>3. QED
    BY <2>1, <2>2 DEF TrailInv
<1>13. QED
  BY <1>1, <1>2, <1>5, <1>6, <1>7, <1>8, <1>9, <1>11, <1>12 DEF TrailInv

\* The trail is right at first, and every step keeps it so.
LEMMA TrailAlways == AuditSpec => []TrailInv
<1>1. AuditInit => TrailInv
  <2> SUFFICES ASSUME AuditInit PROVE TrailInv
    OBVIOUS
  <2>1. LogTyped /\ DOMAIN log = {}
    BY DEF AuditInit, LogTyped
  <2>2. IdleJob \in JobState /\ IdleJob.pc = "idle" /\ IdleJob.at = 0
    BY DEF IdleJob, JobState
  <2>3. QED
    BY <2>1, <2>2 DEF AuditInit, TrailInv
<1>2. TrailInv /\ [AuditNext]_auditVars => TrailInv'
  <2> SUFFICES ASSUME TrailInv, [AuditNext]_auditVars PROVE TrailInv'
    OBVIOUS
  <2>1. clock \in Nat /\ \A w \in Workers : job[w] \in JobState
    BY DEF TrailInv
  <2>2. ASSUME NEW w \in Workers, NEW target \in ReleaseStatus, Read(w, target)
        PROVE  TrailInv'
    <3> DEFINE j == [pc |-> "read", to |-> target, at |-> clock]
    <3>1. j \in JobState /\ j.pc = "read" /\ j.to # "none" /\ j.at = clock
      BY <2>1, StatusIsNamed DEF JobState
    <3>2. UNCHANGED <<status, log, clock>> /\ job' = [job EXCEPT ![w] = j]
      BY <2>2 DEF Read
    <3> HIDE DEF j
    <3>3. j.at <= clock /\ clock' \in Nat /\ clock' >= clock
      BY <2>1, <3>1, <3>2
    <3>4. QED
      BY <3>1, <3>2, <3>3, QuietTrail
  <2>3. ASSUME NEW w \in Workers, Write(w)
        PROVE  TrailInv'
    <3> DEFINE j == [job[w] EXCEPT !.pc = "written", !.at = clock]
    <3>1. /\ j \in JobState /\ j.pc = "written" /\ j.at = clock /\ j.to = job[w].to
      BY <2>1 DEF JobState
    <3>2. /\ UNCHANGED <<status, log, clock>> /\ job' = [job EXCEPT ![w] = j]
          /\ job[w].pc = "read" /\ \A v \in Workers : job[v].pc # "written"
      BY <2>3 DEF Write, Locked
    <3> HIDE DEF j
    <3>3. j.at <= clock /\ clock' \in Nat /\ clock' >= clock
      BY <2>1, <3>1, <3>2
    <3>4. j.to # "none"
      BY <3>1, <3>2 DEF TrailInv
    <3>5. QED
      BY <3>1, <3>2, <3>3, <3>4, QuietTrail
  <2>4. ASSUME NEW w \in Workers, Rollback(w) \/ Note(w)
        PROVE  TrailInv'
    <3>1. PICK j \in JobState : /\ j.pc \notin {"read", "written"} /\ j.at <= clock
                                /\ job' = [job EXCEPT ![w] = j]
      <4>1. IdleJob \in JobState /\ IdleJob.pc = "idle" /\ IdleJob.at <= clock
        BY <2>1 DEF IdleJob, JobState
      <4> DEFINE k == [pc |-> "noted", to |-> "none", at |-> clock]
      <4>2. k \in JobState /\ k.pc = "noted" /\ k.at <= clock
        BY <2>1 DEF JobState
      <4>3. job' = [job EXCEPT ![w] = IdleJob] \/ job' = [job EXCEPT ![w] = k]
        BY <2>4 DEF Rollback, Note
      <4> HIDE DEF k
      <4>4. QED
        BY <4>1, <4>2, <4>3
    <3>2. UNCHANGED <<status, log, clock>> /\ clock' \in Nat /\ clock' >= clock
      BY <2>1, <2>4 DEF Rollback, Note
    <3>3. QED
      BY <3>1, <3>2, QuietTrail
  <2>5. ASSUME NEW w \in Workers, Commit(w) \/ CommitNote(w)
        PROVE  TrailInv'
    BY <2>5, CommitTrail, NoteTrail
  <2>6. CASE ClockTicks \/ Open \/ Count \/ Fetch \/ Close \/ UNCHANGED auditVars
    <3>1. UNCHANGED <<status, log, job>> /\ (clock' = clock \/ clock' = clock + 1)
      BY <2>6 DEF ClockTicks, Open, Count, Fetch, Close, auditVars
    <3>2. /\ clock' \in Nat
          /\ \A w \in Workers : job[w].at \in Nat
          /\ \A i \in DOMAIN log : log[i].at \in Nat
      <4>1. log \in Seq(EventState) /\ \A x \in EventState : x.at \in Nat
        BY DEF TrailInv, LogTyped, EventState
      <4>2. \A i \in DOMAIN log : log[i] \in EventState
        BY <4>1
      <4>3. QED
        BY <2>1, <3>1, <4>1, <4>2 DEF JobState
    <3>3. /\ \A w \in Workers : job'[w].at <= clock'
          /\ \A i \in DOMAIN log' : log'[i].at <= clock'
      BY <2>1, <3>1, <3>2 DEF TrailInv
    <3>4. QED
      BY <3>1, <3>2, <3>3 DEF TrailInv, LogTyped
  <2>7. QED
    BY <2>2, <2>3, <2>4, <2>5, <2>6 DEF AuditNext
<1>3. QED
  BY <1>1, <1>2, PTL DEF AuditSpec

\* Of the rows of a set, one is the first.
LEMMA FirstRow ==
  ASSUME NEW S \in SUBSET Nat, S # {}
  PROVE  Min(S) \in S /\ \A k \in S : Min(S) <= k
<1> DEFINE R == {ss \in Nat \X Nat : ss[1] < ss[2]}
<1>1. IsWellFoundedOn(R, Nat)
  BY NatLessThanWellFounded DEF OpToRel
<1> HIDE DEF R
<1>2. PICK k \in S : \A m \in S : ~ (<<m, k>> \in R)
  BY <1>1, WFMin
<1>3. \A m \in S : <<m, k>> \in Nat \X Nat => ~(m < k)
  BY <1>2 DEF R
<1>4. \A m \in S : m \in Nat /\ k \in Nat /\ ~(m < k)
  BY <1>3
<1>5. \A m \in S : k <= m
  BY <1>4
<1>6. QED
  BY <1>5 DEF Min

\* "Each successful write and its audit event are persisted inside the same database
\* transaction": the first change in the audit browser is the one that made the status what
\* it is, however requests overlapped (ReleaseService.transition_status, AuditService).
THEOREM TrailTells == AuditSpec => []TrailTellsStatus
<1>1. TrailInv => TrailTellsStatus
  <2> SUFFICES ASSUME TrailInv PROVE TrailTellsStatus
    OBVIOUS
  <2>0. LogTyped
    BY DEF TrailInv
  <2>1. CASE status = "draft" /\ \A i \in DOMAIN log : log[i].to = "none"
    <3>1. Changes = {}
      BY <2>0, <2>1, ListingIsWhole DEF Changes
    <3>2. QED
      BY <2>1, <3>1 DEF TrailTellsStatus
  <2>2. ASSUME NEW m \in DOMAIN log, log[m].to = status, status # "none",
               \A i \in DOMAIN log : log[i].to # "none" => i <= m
        PROVE  TrailTellsStatus
    <3>1. /\ Place(m) \in Changes /\ Changes \subseteq DOMAIN log
      BY <2>0, <2>2, ListingIsWhole DEF Changes
    <3>2. ASSUME NEW k \in Changes
          PROVE  Place(m) <= k
      <4> DEFINE i == Listing[k]
      <4>1. i \in DOMAIN log /\ Place(i) = k /\ log[i].to # "none"
        BY <2>0, <3>1, ListingIsWhole DEF Changes
      <4>2. i <= m /\ (i < m => log[i].at <= log[m].at)
        BY <2>2, <4>1 DEF TrailInv
      <4>3. i = m \/ Before(m, i)
        <5>1. DOMAIN log \subseteq Nat /\ \A x \in DOMAIN log : log[x].at \in Nat
          <6>1. log \in Seq(EventState) /\ \A x \in EventState : x.at \in Nat
            BY <2>0 DEF LogTyped, EventState
          <6>2. QED
            BY <6>1
        <5>2. i \in Nat /\ m \in Nat /\ log[i].at \in Nat /\ log[m].at \in Nat
          BY <4>1, <5>1
        <5> HIDE DEF i
        <5>3. QED
          BY <4>2, <5>2 DEF Before
      <4>4. Place(m) <= Place(i)
        BY <2>0, <4>1, <4>3, PlacesInOrder, BeforeIsTotal
      <4>5. QED
        BY <4>1, <4>4
    <3>3. Changes \in SUBSET Nat
      BY <2>0, <3>1, BeforeIsTotal
    <3>4. Min(Changes) \in Changes /\ Min(Changes) <= Place(m)
      BY <3>1, <3>3, FirstRow
    <3>5. Min(Changes) = Place(m)
      BY <3>1, <3>2, <3>3, <3>4
    <3>6. Listing[Min(Changes)] = m
      BY <2>0, <3>5, ListingIsWhole
    <3>7. QED
      BY <2>2, <3>1, <3>6 DEF TrailTellsStatus
  <2>3. QED
    BY <2>1, <2>2 DEF TrailInv
<1>2. QED
  BY <1>1, TrailAlways, PTL

-----------------------------------------------------------------------------
(* Pages in numbers *)

\* What is left of a division is less than the divisor.
LEMMA Quotient ==
  ASSUME NEW a \in Nat, NEW p \in Nat \ {0}
  PROVE  /\ a \div p \in Int
         /\ p * (a \div p) <= a /\ a < p * (a \div p) + p
OBVIOUS

\* Multiplication is monotonic.
LEMMA Larger ==
  ASSUME NEW p \in Nat \ {0}, NEW a \in Int, NEW b \in Int, a <= b
  PROVE  p * a <= p * b
OBVIOUS

\* One more page, one more time the rows of a page.
LEMMA OneMore ==
  ASSUME NEW p \in Nat \ {0}, NEW a \in Int
  PROVE  p * (a + 1) = p * a + p /\ p * a \in Int /\ (a + 1 - 1) * p = (a - 1) * p + p /\ p * a = a * p /\ (a - 1) * p = p * a - p
OBVIOUS

\* Products of natural numbers.
LEMMA Products ==
  ASSUME NEW p \in Nat \ {0}, NEW a \in Nat
  PROVE  p * a \in Nat
OBVIOUS

\* There is a page after this one exactly when this one and those before it leave rows over.
LEMMA MorePages ==
  ASSUME NEW n \in Nat, NEW pg \in Nat, NEW p \in Nat \ {0}
  PROVE  pg < ((n + p - 1) \div p) <=> pg * p < n
<1> DEFINE a == n + p - 1
<1>1. a \in Nat /\ a = n + p - 1
  OBVIOUS
<1> HIDE DEF a
<1> DEFINE q == a \div p
<1>2. q \in Int /\ p * q <= a /\ a < p * q + p
  BY <1>1, Quotient
<1> HIDE DEF q
<1> DEFINE x == p * pg
           y == p * q
<1>3. x \in Int /\ y \in Int /\ pg * p = x
  BY <1>2, OneMore
<1>4. ASSUME pg < q PROVE x + p <= y
  <2>1. pg + 1 <= q /\ pg + 1 \in Int
    BY <1>2, <1>4
  <2>2. p * (pg + 1) <= p * q
    BY <1>2, <2>1, Larger
  <2>3. QED
    BY <2>2, OneMore
<1>5. ASSUME ~(pg < q) PROVE y <= x
  BY <1>2, <1>5, Larger
<1>6. y <= a /\ a < y + p
  BY <1>2
<1> HIDE DEF x, y
<1>7. pg < q <=> x < n
  BY <1>1, <1>3, <1>4, <1>5, <1>6, <1>2
<1>8. QED
  BY <1>1, <1>3, <1>7 DEF q, a

-----------------------------------------------------------------------------
(* The walk *)

\* What a walk keeps.
BrowserState == [pc : {"idle", "asking", "counted", "done"}, page : Nat \ {0}, total : Nat,
                 known : SUBSET Nat, shown : Seq(Nat), torn : BOOLEAN, quiet : BOOLEAN]

\* A walk that is under way.
Walking == browser.pc \in {"asking", "counted"}

\* The events there were that by now come before the operator's page have been shown, for an
\* event that is recorded meanwhile only moves others down; the count is of this log; and
\* when nothing was recorded, as many rows were shown as come before the page.
WalkInv ==
    /\ LogTyped
    /\ browser \in BrowserState
    /\ browser.known \subseteq DOMAIN log
    /\ Walking /\ ~browser.torn =>
         \A i \in browser.known : Place(i) <= Offset(browser.page) => i \in Range(browser.shown)
    /\ browser.pc = "counted" /\ ~browser.torn => browser.total = Len(log)
    /\ browser.quiet => ~browser.torn
    /\ browser.quiet /\ browser.pc # "idle" => browser.known = DOMAIN log
    /\ Walking /\ browser.quiet =>
         Len(browser.shown) = Offset(browser.page) /\ Offset(browser.page) <= Len(log)
    /\ WalkSeesAll

\* An event at the end of the log moves others down the pages, never up.
LEMMA PlacesGrow ==
  ASSUME LogTyped, NEW at \in Nat, NEW to \in ReleaseStatus \cup {"none"},
         log' = Appended(at, to), NEW i \in DOMAIN log
  PROVE  Place(i) \in Nat /\ Place(i)' \in Nat /\ Place(i) <= Place(i)'
<1>1. /\ LogTyped' /\ DOMAIN log \subseteq DOMAIN log'
      /\ \A j \in DOMAIN log : log'[j] = log[j]
  <2>1. /\ LogTyped' /\ Len(log) \in Nat
        /\ DOMAIN log = 1..Len(log) /\ DOMAIN log' = 1..(Len(log) + 1)
        /\ \A j \in DOMAIN log : log'[j] = log[j]
    BY AppendedLog
  <2>2. QED
    BY <2>1
<1> DEFINE B == {j \in DOMAIN log : Before(j, i)}
           C == {j \in DOMAIN log' : Before(j, i)'}
<1>2. B \subseteq C /\ C \subseteq DOMAIN log'
  BY <1>1 DEF Before
<1>3. Place(i) = Cardinality(B) + 1 /\ Place(i)' = Cardinality(C) + 1
  BY DEF Place
<1>4. IsFiniteSet(DOMAIN log')
  BY <1>1, BeforeIsTotalThen
<1> HIDE DEF B, C
<1>5. IsFiniteSet(C)
  BY <1>2, <1>4, FS_Subset
<1>6. IsFiniteSet(B) /\ Cardinality(B) <= Cardinality(C)
  BY <1>2, <1>5, FS_Subset
<1>7. Cardinality(B) \in Nat /\ Cardinality(C) \in Nat
  BY <1>5, <1>6, FS_CardinalityType
<1>8. QED
  BY <1>3, <1>6, <1>7

\* What a commit leaves of the walk.
LEMMA NoticedFields ==
  ASSUME browser \in BrowserState, browser' = Noticed
  PROVE  /\ browser' \in BrowserState
         /\ browser'.pc = browser.pc /\ browser'.page = browser.page
         /\ browser'.total = browser.total /\ browser'.known = browser.known
         /\ browser'.shown = browser.shown /\ ~browser'.quiet
         /\ browser'.torn <=> (browser.torn \/ browser.pc = "counted")
BY DEF Noticed, BrowserState

\* The walk goes on when an event is recorded.
LEMMA RecordedWalk ==
  ASSUME WalkInv, NEW at \in Nat, NEW to \in ReleaseStatus \cup {"none"},
         log' = Appended(at, to), browser' = Noticed
  PROVE  WalkInv'
<1>1. LogTyped' /\ DOMAIN log \subseteq DOMAIN log'
  <2>1. LogTyped
    BY DEF WalkInv
  <2>2. /\ LogTyped' /\ Len(log) \in Nat
        /\ DOMAIN log = 1..Len(log) /\ DOMAIN log' = 1..(Len(log) + 1)
    BY <2>1, AppendedLog
  <2>3. QED
    BY <2>2
<1>2. /\ browser' \in BrowserState
      /\ browser'.pc = browser.pc /\ browser'.page = browser.page
      /\ browser'.total = browser.total /\ browser'.known = browser.known
      /\ browser'.shown = browser.shown
  BY NoticedFields DEF WalkInv
<1>3. ~browser'.quiet
  BY NoticedFields DEF WalkInv
<1>4. browser'.torn <=> (browser.torn \/ browser.pc = "counted")
  BY NoticedFields DEF WalkInv
<1>5. browser'.known \subseteq DOMAIN log'
  BY <1>1, <1>2 DEF WalkInv
<1>6. ASSUME Walking', ~browser'.torn, NEW i \in browser'.known,
             (Place(i) <= Offset(browser.page))'
      PROVE  i \in Range(browser'.shown)
  <2>1. Walking /\ ~browser.torn /\ i \in browser.known /\ i \in DOMAIN log
    BY <1>2, <1>4, <1>6 DEF WalkInv, Walking
  <2>2. Place(i) \in Nat /\ Place(i)' \in Nat /\ Place(i) <= Place(i)'
    BY <2>1, PlacesGrow DEF WalkInv
  <2>3. Offset(browser.page)' = Offset(browser.page) /\ Offset(browser.page) \in Int
    BY <1>2, AuditAssumption DEF Offset, WalkInv, BrowserState
  <2>4. Place(i)' <= Offset(browser.page)
    BY <1>6, <2>3
  <2>5. Place(i) <= Offset(browser.page)
    BY <2>2, <2>3, <2>4
  <2>6. QED
    BY <1>2, <2>1, <2>5 DEF WalkInv
<1>7. ASSUME browser'.pc = "counted" PROVE browser'.torn
  BY <1>2, <1>4, <1>7
<1>8. WalkSeesAll'
  BY <1>2, <1>3, <1>4 DEF WalkInv, WalkSeesAll
<1>9. QED
  BY <1>1, <1>2, <1>3, <1>5, <1>6, <1>7, <1>8 DEF WalkInv

-----------------------------------------------------------------------------
(* Pages *)

\* A page has the rows after those of the pages before it, as far as there are any.
LEMMA PageRows ==
  ASSUME LogTyped, NEW pg \in Nat \ {0}
  PROVE  LET upper == IF Offset(pg) + PerPage < Len(log) THEN Offset(pg) + PerPage
                                                            ELSE Len(log)
         IN  /\ Offset(pg) \in Nat /\ Offset(pg + 1) = Offset(pg) + PerPage
             /\ PageItems(pg) \in Seq(Nat)
             /\ Offset(pg) <= Len(log) => Len(PageItems(pg)) = upper - Offset(pg)
             /\ \A i \in DOMAIN log :
                  Offset(pg) < Place(i) /\ Place(i) <= upper => i \in Range(PageItems(pg))
             /\ Range(PageItems(pg)) \subseteq DOMAIN log
<1> DEFINE upper == IF Offset(pg) + PerPage < Len(log) THEN Offset(pg) + PerPage
                                                         ELSE Len(log)
           o == Offset(pg)
           s == PageItems(pg)
<1>1. /\ PerPage \in Nat \ {0} /\ Len(log) \in Nat /\ DOMAIN log = 1..Len(log)
      /\ \A i \in DOMAIN log : Place(i) \in DOMAIN log /\ Listing[Place(i)] = i
      /\ \A k \in DOMAIN log : Listing[k] \in DOMAIN log
  BY AuditAssumption, BeforeIsTotal, ListingIsWhole
<1>2. o \in Nat /\ Offset(pg + 1) = o + PerPage
  <2>1. pg - 1 \in Nat /\ pg - 1 + 1 = pg /\ pg + 1 - 1 = pg
    OBVIOUS
  <2>2. PerPage * (pg - 1) \in Nat
    BY <1>1, <2>1, Products
  <2>3. o = PerPage * (pg - 1) /\ Offset(pg + 1) = PerPage * pg
    BY <1>1, <2>1 DEF Offset
  <2>4. PerPage * pg = PerPage * (pg - 1) + PerPage
    BY <1>1, <2>1, OneMore
  <2>5. QED
    BY <2>2, <2>3, <2>4
<1>3. s = SubSeq(Listing, o + 1, upper)
  BY DEF PageItems
<1>4. upper = (IF o + PerPage < Len(log) THEN o + PerPage ELSE Len(log))
  OBVIOUS
<1> HIDE DEF o, s, upper
<1>5. /\ o \in Nat /\ upper \in Nat /\ upper <= Len(log) /\ Len(log) \in Nat
      /\ o <= Len(log) => o <= upper
  <2>1. PerPage \in Nat /\ Len(log) \in Nat /\ o \in Nat
    BY <1>1, <1>2
  <2>2. CASE o + PerPage < Len(log)
    <3>1. upper = o + PerPage
      BY <1>4, <2>2
    <3>2. QED
      BY <2>1, <2>2, <3>1
  <2>3. CASE ~(o + PerPage < Len(log))
    <3>1. upper = Len(log)
      BY <1>4, <2>3
    <3>2. QED
      BY <2>1, <3>1
  <2>4. QED
    BY <2>2, <2>3
<1>6. \A i \in (o + 1)..upper : Listing[i] \in DOMAIN log
  <2>1. \A i \in (o + 1)..upper : i \in 1..Len(log)
    BY <1>5
  <2>2. QED
    BY <1>1, <2>1
<1>7. /\ s \in Seq(DOMAIN log)
      /\ Len(s) = IF o + 1 <= upper THEN upper - (o + 1) + 1 ELSE 0
      /\ \A i \in 1..(upper - (o + 1) + 1) : s[i] = Listing[o + 1 + i - 1]
  <2>1. o + 1 \in Int /\ upper \in Int
    BY <1>5
  <2>2. QED
    BY <1>3, <1>6, <2>1, SubSeqProperties
<1>8. s \in Seq(Nat) /\ DOMAIN s = 1..Len(s) /\ Range(s) \subseteq DOMAIN log
  <2>1. DOMAIN log \subseteq Nat
    BY <1>1
  <2>2. QED
    BY <1>7, <2>1, SeqMonotonic, LenProperties DEF Range
<1>9. o <= Len(log) => Len(s) = upper - o
  <2>1. Len(s) = IF o + 1 <= upper THEN upper - o ELSE 0
    BY <1>7, <1>5
  <2>2. QED
    BY <1>5, <2>1
<1>10. ASSUME NEW i \in DOMAIN log, o < Place(i), Place(i) <= upper
       PROVE  i \in Range(s)
  <2> DEFINE k == Place(i) - o
  <2>1. Place(i) \in Nat
    BY <1>1
  <2>2. k \in 1..(upper - (o + 1) + 1) /\ o + 1 + k - 1 = Place(i) /\ o + 1 <= upper
    BY <1>10, <1>5, <2>1
  <2>3. Len(s) = upper - (o + 1) + 1
    BY <1>7, <2>2
  <2> HIDE DEF k
  <2>4. s[k] = Listing[Place(i)]
    BY <1>7, <2>2
  <2>5. k \in DOMAIN s /\ s[k] = i
    BY <1>1, <1>8, <2>2, <2>3, <2>4
  <2>6. QED
    BY <2>5 DEF Range
<1>11. QED
  BY <1>2, <1>8, <1>9, <1>10 DEF o, s, upper

-----------------------------------------------------------------------------
(* Steps *)

\* The first page begins at the first row.
LEMMA FirstPage == Offset(1) = 0
BY AuditAssumption DEF Offset

\* A walk that begins knows the events of the log, and has shown none of them.
LEMMA OpenWalk ==
  ASSUME WalkInv, Open
  PROVE  WalkInv'
<1>1. LogTyped /\ Len(log) \in Nat /\ DOMAIN log = 1..Len(log)
  BY BeforeIsTotal DEF WalkInv
<1>2. /\ browser'.pc = "asking" /\ browser'.page = 1 /\ browser'.total = 0
      /\ browser'.known = DOMAIN log /\ browser'.shown = <<>>
      /\ browser' \in BrowserState /\ UNCHANGED <<status, log, clock, job>>
  <2>1. browser' = [pc |-> "asking", page |-> 1, total |-> 0, known |-> DOMAIN log,
                    shown |-> <<>>, torn |-> FALSE, quiet |-> TRUE]
    BY DEF Open, IdleBrowser
  <2>2. DOMAIN log \in SUBSET Nat /\ <<>> \in Seq(Nat)
    BY <1>1
  <2>3. UNCHANGED <<status, log, clock, job>>
    BY DEF Open
  <2>4. QED
    BY <2>1, <2>2, <2>3 DEF BrowserState
<1>3. ~browser'.torn
  BY DEF Open, IdleBrowser
<1>4. browser'.quiet
  BY DEF Open, IdleBrowser
<1>5. LogTyped' /\ browser'.known \subseteq DOMAIN log' /\ browser'.known = DOMAIN log'
  BY <1>1, <1>2 DEF LogTyped
<1>6. Offset(browser'.page) = 0
  BY <1>2, FirstPage
<1>7. \A i \in browser'.known : Place(i)' \in Nat \ {0}
  <2>1. \A i \in DOMAIN log : Place(i) \in Nat \ {0}
    BY <1>1, PlacesInOrder
  <2>2. \A i \in DOMAIN log : Place(i)' = Place(i)
    BY <1>2 DEF Place, Before
  <2>3. QED
    BY <1>2, <2>1, <2>2
<1>8. \A i \in browser'.known : ~(Place(i)' <= Offset(browser'.page))
  BY <1>6, <1>7
<1>9. Len(browser'.shown) = 0 /\ 0 <= Len(log')
  BY <1>1, <1>2
<1>10. WalkSeesAll'
  BY <1>2 DEF WalkSeesAll
<1>11. QED
  BY <1>2, <1>3, <1>5, <1>6, <1>8, <1>9, <1>10 DEF WalkInv, Offset

\* Before the rows of a page are read, the events are counted.
LEMMA CountWalk ==
  ASSUME WalkInv, Count
  PROVE  WalkInv'
<1>1. LogTyped /\ Len(log) \in Nat
  BY BeforeIsTotal DEF WalkInv
<1>2. /\ browser.pc = "asking" /\ browser'.pc = "counted" /\ browser'.total = Len(log)
      /\ browser'.page = browser.page /\ browser'.known = browser.known
      /\ browser'.shown = browser.shown
      /\ browser' \in BrowserState /\ UNCHANGED <<status, log, clock, job>>
  BY <1>1 DEF Count, BrowserState, WalkInv
<1>3. browser'.torn <=> browser.torn
  BY DEF Count, BrowserState, WalkInv
<1>4. browser'.quiet <=> browser.quiet
  BY DEF Count, BrowserState, WalkInv
<1>5. LogTyped' /\ Len(log') = Len(log) /\ DOMAIN log' = DOMAIN log
  BY <1>1, <1>2 DEF LogTyped
<1>6. \A i : Place(i)' = Place(i)
  BY <1>2 DEF Place, Before
<1>7. Offset(browser.page)' = Offset(browser.page)
  BY <1>2 DEF Offset
<1>8. Walking /\ Walking'
  BY <1>2 DEF Walking
<1>9. WalkSeesAll'
  BY <1>2 DEF WalkSeesAll
<1>10. ASSUME ~browser'.torn, NEW i \in browser'.known, Place(i)' <= Offset(browser.page)'
       PROVE  i \in Range(browser'.shown)
  BY <1>2, <1>3, <1>6, <1>7, <1>8, <1>10 DEF WalkInv
<1>11. ASSUME browser'.quiet
       PROVE  /\ ~browser'.torn /\ browser'.known = DOMAIN log'
              /\ Len(browser'.shown) = Offset(browser.page)'
              /\ Offset(browser.page)' <= Len(log')
  BY <1>2, <1>3, <1>4, <1>5, <1>7, <1>8, <1>11 DEF WalkInv
<1>12. browser'.known \subseteq DOMAIN log'
  BY <1>2, <1>5 DEF WalkInv
<1>13. QED
  BY <1>1, <1>2, <1>5, <1>9, <1>10, <1>11, <1>12 DEF WalkInv

\* What the rows of a page change of the walk.
LEMMA FetchFields ==
  ASSUME WalkInv, Fetch, PageItems(browser.page) \in Seq(Nat)
  PROVE  /\ browser.pc = "counted" /\ UNCHANGED <<status, log, clock, job>>
         /\ browser' \in BrowserState
         /\ browser'.shown = browser.shown \o PageItems(browser.page)
         /\ browser'.known = browser.known /\ browser'.total = browser.total
         /\ browser'.torn <=> browser.torn
         /\ browser'.quiet <=> browser.quiet
         /\ IF browser.page < Pages(browser.total)
            THEN browser'.pc = "asking" /\ browser'.page = browser.page + 1
            ELSE browser'.pc = "done" /\ browser'.page = browser.page
<1> DEFINE more == browser.page < Pages(browser.total)
           s == browser.shown \o PageItems(browser.page)
           pc == IF more THEN "asking" ELSE "done"
           pg == IF more THEN browser.page + 1 ELSE browser.page
<1>1. browser \in BrowserState
  BY DEF WalkInv
<1>2. s \in Seq(Nat)
  BY <1>1, ConcatProperties DEF BrowserState
<1>3. /\ pc \in {"asking", "done"} /\ pg \in Nat \ {0}
      /\ IF more THEN pc = "asking" /\ pg = browser.page + 1
                 ELSE pc = "done" /\ pg = browser.page
  BY <1>1 DEF BrowserState
<1>4. /\ browser' = [browser EXCEPT !.pc = pc, !.page = pg, !.shown = s]
      /\ browser.pc = "counted" /\ UNCHANGED <<status, log, clock, job>>
  BY DEF Fetch
<1> HIDE DEF pc, pg, s, more
<1>5. /\ browser' \in BrowserState /\ browser'.pc = pc /\ browser'.page = pg
      /\ browser'.shown = s /\ browser'.known = browser.known
      /\ browser'.total = browser.total
  BY <1>1, <1>2, <1>3, <1>4 DEF BrowserState
<1>6. browser'.torn <=> browser.torn
  BY <1>1, <1>4 DEF BrowserState
<1>7. browser'.quiet <=> browser.quiet
  BY <1>1, <1>4 DEF BrowserState
<1>8. QED
  BY <1>3, <1>4, <1>5, <1>6, <1>7 DEF s, more

\* The rows of a page follow those of the pages before; the last page is the one after which
\* no row is left.
LEMMA FetchWalk ==
  ASSUME WalkInv, Fetch
  PROVE  WalkInv'
<1> DEFINE pg == browser.page
           o == Offset(pg)
           n == Len(log)
           s == PageItems(pg)
           upper == IF o + PerPage < n THEN o + PerPage ELSE n
           more == pg < Pages(browser.total)
<1>1. LogTyped /\ browser \in BrowserState /\ pg \in Nat \ {0} /\ browser.shown \in Seq(Nat)
  BY DEF WalkInv, BrowserState
<1>2. n \in Nat /\ PerPage \in Nat \ {0} /\ Cardinality(DOMAIN log) = n
  BY <1>1, BeforeIsTotal, AuditAssumption
<1>3. /\ o \in Nat /\ Offset(pg + 1) = o + PerPage /\ s \in Seq(Nat)
      /\ o <= n => Len(s) = upper - o
      /\ \A i \in DOMAIN log : o < Place(i) /\ Place(i) <= upper => i \in Range(s)
  BY <1>1, PageRows
<1>4. /\ browser.pc = "counted" /\ UNCHANGED <<status, log, clock, job>>
      /\ browser' \in BrowserState
      /\ browser'.shown = browser.shown \o s
      /\ browser'.known = browser.known
  BY <1>3, FetchFields
<1>5. browser'.torn <=> browser.torn
  BY <1>3, FetchFields
<1>6. browser'.quiet <=> browser.quiet
  BY <1>3, FetchFields
<1>7. IF more THEN browser'.pc = "asking" /\ browser'.page = pg + 1
              ELSE browser'.pc = "done" /\ browser'.page = pg
  BY <1>3, FetchFields
<1>8. ASSUME ~browser.torn PROVE more <=> o + PerPage < n
  <2>1. browser.total = n
    BY <1>4, <1>8 DEF WalkInv
  <2>2. Pages(browser.total) = (n + PerPage - 1) \div PerPage
    BY <2>1 DEF Pages
  <2>3. pg < ((n + PerPage - 1) \div PerPage) <=> pg * PerPage < n
    BY <1>1, <1>2, MorePages
  <2>4. pg + 1 - 1 = pg /\ Offset(pg + 1) = (pg + 1 - 1) * PerPage
    BY <1>1 DEF Offset
  <2>5. pg * PerPage = o + PerPage
    BY <1>3, <2>4
  <2>6. QED
    BY <2>2, <2>3, <2>5
<1>9. /\ Range(browser'.shown) = Range(browser.shown) \cup Range(s)
      /\ Len(browser'.shown) = Len(browser.shown) + Len(s)
  BY <1>1, <1>3, <1>4, RangeConcatenation, ConcatProperties
<1>10. /\ upper \in Nat /\ o + PerPage \in Nat
       /\ o + PerPage < n => upper = o + PerPage
       /\ ~(o + PerPage < n) => upper = n
  BY <1>2, <1>3
<1> HIDE DEF pg, o, n, s, upper, more
<1>11. \A i \in DOMAIN log : Place(i) \in Nat /\ Place(i) <= n
  BY <1>1, <1>2, PlacesInOrder DEF n
<1>12. \A i : Place(i)' = Place(i)
  BY <1>4 DEF Place, Before
<1>13. browser.known \subseteq DOMAIN log /\ Walking
  BY <1>4 DEF WalkInv, Walking
<1>14. ASSUME ~browser.torn, NEW i \in browser.known, Place(i) <= upper
       PROVE  i \in Range(browser'.shown)
  <2>1. CASE Place(i) <= o
    BY <1>9, <1>13, <1>14, <2>1 DEF WalkInv, o, pg
  <2>2. CASE ~(Place(i) <= o)
    <3>1. o < Place(i)
      BY <1>3, <1>11, <1>13, <2>2
    <3>2. QED
      BY <1>3, <1>9, <1>13, <1>14, <3>1
  <2>3. QED
    BY <2>1, <2>2
<1>15. ASSUME browser.quiet
       PROVE  /\ ~browser.torn /\ browser.known = DOMAIN log
              /\ Len(browser'.shown) = upper /\ o <= n
  <2>1. /\ ~browser.torn /\ browser.known = DOMAIN log
        /\ Len(browser.shown) = o /\ o <= n
    BY <1>4, <1>13, <1>15 DEF WalkInv, o, pg, n
  <2>2. QED
    BY <1>3, <1>9, <1>10, <2>1
<1>16. LogTyped' /\ log' = log
  BY <1>1, <1>4 DEF LogTyped
<1>17. CASE more
  <2>1. /\ browser'.pc = "asking" /\ browser'.page = pg + 1
        /\ Offset(browser'.page) = o + PerPage /\ Offset(browser.page)' = o + PerPage
    BY <1>3, <1>7, <1>17 DEF Offset
  <2>2. ASSUME ~browser.torn PROVE upper = o + PerPage /\ o + PerPage < n
    BY <1>8, <1>10, <1>17, <2>2
  <2>3. ASSUME ~browser'.torn, NEW i \in browser'.known, Place(i)' <= Offset(browser.page)'
        PROVE  i \in Range(browser'.shown)
    BY <1>4, <1>5, <1>12, <1>14, <2>1, <2>2, <2>3
  <2>4. ASSUME browser'.quiet
        PROVE  /\ ~browser'.torn /\ browser'.known = DOMAIN log'
               /\ Len(browser'.shown) = Offset(browser.page)'
               /\ Offset(browser.page)' <= Len(log')
    <3>1. /\ ~browser.torn /\ browser.known = DOMAIN log /\ Len(browser'.shown) = upper
      BY <1>6, <1>15, <2>4
    <3>2. upper = o + PerPage /\ o + PerPage <= n
      BY <1>2, <1>10, <2>2, <3>1
    <3>3. QED
      BY <1>4, <1>5, <1>16, <2>1, <3>1, <3>2 DEF n
  <2>5. WalkSeesAll'
    BY <2>1 DEF WalkSeesAll
  <2>6. QED
    BY <1>4, <1>13, <1>16, <2>1, <2>3, <2>4, <2>5 DEF WalkInv
<1>18. CASE ~more
  <2>1. browser'.pc = "done"
    BY <1>7, <1>18
  <2>2. ASSUME ~browser.torn PROVE upper = n
    BY <1>8, <1>10, <1>18, <2>2
  <2>3. ASSUME ~browser'.torn PROVE browser'.known \subseteq Range(browser'.shown)
    <3>1. ASSUME NEW i \in browser.known PROVE i \in Range(browser'.shown)
      BY <1>5, <1>11, <1>13, <1>14, <2>2, <2>3
    <3>2. QED
      BY <1>4, <3>1
  <2>4. ASSUME browser'.quiet
        PROVE  /\ ~browser'.torn /\ browser'.known = DOMAIN log'
               /\ Len(browser'.shown) = Cardinality(browser'.known)
    <3>1. /\ ~browser.torn /\ browser.known = DOMAIN log /\ Len(browser'.shown) = upper
      BY <1>6, <1>15, <2>4
    <3>2. QED
      BY <1>2, <1>4, <1>5, <1>16, <2>2, <3>1 DEF n
  <2>5. WalkSeesAll'
    BY <2>3, <2>4 DEF WalkSeesAll
  <2>6. ~Walking'
    BY <2>1 DEF Walking
  <2>7. QED
    BY <1>4, <1>13, <1>16, <2>1, <2>4, <2>5, <2>6 DEF WalkInv
<1>19. QED
  BY <1>17, <1>18

\* A step that leaves the log and the walk alone, or ends the walk.
LEMMA QuietWalk ==
  ASSUME WalkInv, log' = log, browser' = browser \/ browser' = IdleBrowser
  PROVE  WalkInv'
<1>1. LogTyped' /\ \A i : Place(i)' = Place(i)
  BY DEF WalkInv, LogTyped, Place, Before
<1>2. CASE browser' = browser
  BY <1>1, <1>2 DEF WalkInv, Walking, Offset, WalkSeesAll
<1>3. CASE browser' = IdleBrowser
  <2>1. /\ browser'.pc = "idle" /\ browser'.page = 1 /\ browser'.total = 0
        /\ browser'.known = {} /\ browser'.shown = <<>>
    BY <1>3 DEF IdleBrowser
  <2>2. browser' \in BrowserState
    BY <1>3 DEF IdleBrowser, BrowserState
  <2>3. ~browser'.torn
    BY <1>3 DEF IdleBrowser
  <2>4. QED
    BY <1>1, <2>1, <2>2, <2>3 DEF WalkInv, Walking, WalkSeesAll
<1>4. QED
  BY <1>2, <1>3

\* An operator who follows the links to the last page has seen every event there was when he
\* began, exactly once when nothing was recorded meanwhile, for any number of events, times
\* and requests and any size of a page (audit browser, paginate_scalars).
THEOREM WalkShowsAll == AuditSpec => []WalkSeesAll
<1>1. AuditInit => WalkInv
  <2> SUFFICES ASSUME AuditInit PROVE WalkInv
    OBVIOUS
  <2>1. LogTyped /\ browser = IdleBrowser
    BY DEF AuditInit, LogTyped
  <2>2. /\ browser.pc = "idle" /\ browser.known = {} /\ browser \in BrowserState
    BY <2>1 DEF IdleBrowser, BrowserState
  <2>3. ~browser.torn
    BY <2>1 DEF IdleBrowser
  <2>4. QED
    BY <2>1, <2>2, <2>3 DEF WalkInv, Walking, WalkSeesAll
<1>2. TrailInv /\ WalkInv /\ [AuditNext]_auditVars => WalkInv'
  <2> SUFFICES ASSUME TrailInv, WalkInv, [AuditNext]_auditVars PROVE WalkInv'
    OBVIOUS
  <2>1. ASSUME NEW w \in Workers, Commit(w)
        PROVE  WalkInv'
    <3>1. job[w].at \in Nat /\ job[w].to \in ReleaseStatus \cup {"none"}
      BY DEF TrailInv, JobState
    <3>2. QED
      BY <2>1, <3>1, RecordedWalk DEF Commit
  <2>2. ASSUME NEW w \in Workers, CommitNote(w)
        PROVE  WalkInv'
    <3>1. job[w].at \in Nat /\ "none" \in ReleaseStatus \cup {"none"}
      BY DEF TrailInv, JobState
    <3>2. QED
      BY <2>2, <3>1, RecordedWalk DEF CommitNote
  <2>3. CASE \E w \in Workers : \/ \E target \in ReleaseStatus : Read(w, target)
                                \/ Write(w) \/ Rollback(w) \/ Note(w)
    BY <2>3, QuietWalk DEF Read, Write, Rollback, Note
  <2>4. CASE ClockTicks \/ Close \/ UNCHANGED auditVars
    BY <2>4, QuietWalk DEF ClockTicks, Close, auditVars
  <2>5. QED
    BY <2>1, <2>2, <2>3, <2>4, OpenWalk, CountWalk, FetchWalk DEF AuditNext
<1>3. WalkInv => WalkSeesAll
  BY DEF WalkInv
<1>4. QED
  BY <1>1, <1>2, <1>3, TrailAlways, PTL DEF AuditSpec
=============================================================================

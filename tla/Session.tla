------------------------------ MODULE Session ------------------------------
(***************************************************************************)
(* Signing in and out: backend/app/routers/auth.py and auth.py at the      *)
(* server, frontend/src/context/AuthProvider.tsx with the routes of        *)
(* App.tsx, the form of AuthForm.tsx (LoginPage.tsx, RegisterPage.tsx) and *)
(* the logout modals of DashboardPage.tsx and AnalyticsPage.tsx in the     *)
(* tabs of one browser, which share the cookie that holds the token.       *)
(*                                                                         *)
(* Everything between two awaits is one step.  A handler of the server is  *)
(* one step too: it is synchronous and commits at most once.               *)
(***************************************************************************)
EXTENDS Integers, FiniteSets

CONSTANTS Users, Nobody,
          Tokens, NoToken,
          Tabs,
          MaxReloads, MaxSubmits   \* bounds

ASSUME SessionConstants == /\ Nobody \notin Users /\ NoToken \notin Tokens
                           /\ MaxReloads \in Nat /\ MaxSubmits \in Nat

VARIABLES
  accounts,   \* the users that are registered
  life,       \* of every token: its state at the server
  owner,      \* of every token: whom it was issued to
  cookie,     \* the token in the browser's cookie
  tab,        \* what every tab shows and waits for
  stray,      \* requests on their way whose tab does not wait for them any more
  revoked,    \* history: the tokens a logout that has returned was sent with
  reloads, submits   \* bounds

vars == <<accounts, life, owner, cookie, tab, stray, revoked, reloads, submits>>

-----------------------------------------------------------------------------
(* State. *)

Kinds == {"login", "register", "logout"}
Lives == {"unissued", "live", "expired", "blacklisted"}

\* A request: whom it signs in, the cookie it carries, and the token it is answered with.
Request == [pc : {"idle", "sent", "ok", "bad"}, kind : Kinds, user : Users \cup {Nobody},
            token : Tokens \cup {NoToken}, got : Tokens \cup {NoToken}]
Idle == [pc |-> "idle", kind |-> "logout", user |-> Nobody, token |-> NoToken, got |-> NoToken]
Sent(k, u, t) == [pc |-> "sent", kind |-> k, user |-> u, token |-> t, got |-> NoToken]

(***************************************************************************)
(* call holds the requests under way: first and second are logins and      *)
(* registrations (two is a bound), out is the logout.  form is the call    *)
(* that the form on display waits for, me the GET /me of a page that was   *)
(* loaded.  The rest is history: overtaken says that another answer has    *)
(* come since that GET was sent, late that what is shown was told by a GET *)
(* that was overtaken, and told which cookie that one carried, drift that  *)
(* the cookie was changed, or revoked, on behalf of someone else than the  *)
(* tab, lost that the tab is signed out because of a failure.              *)
(***************************************************************************)
Forms == {"first", "second"}
Calls == Forms \cup {"out"}
Me == [pc : {"idle", "sent", "ok", "bad"}, token : Tokens \cup {NoToken},
       user : Users \cup {Nobody}, overtaken : BOOLEAN]
NoMe == [pc |-> "idle", token |-> NoToken, user |-> Nobody, overtaken |-> FALSE]
Tab == [page : {"login", "register", "inside"}, user : Users \cup {Nobody}, loading : BOOLEAN,
        call : [Calls -> Request], form : Forms \cup {"none"}, me : Me,
        modal : BOOLEAN, late : BOOLEAN, told : Tokens \cup {NoToken}, drift : BOOLEAN,
        lost : BOOLEAN]

\* A page is loaded at p: AuthProvider is mounted and asks who is signed in.
Loaded(p) == [page |-> p, user |-> Nobody, loading |-> TRUE,
              call |-> [f \in Calls |-> Idle], form |-> "none",
              me |-> [NoMe EXCEPT !.pc = "sent", !.token = cookie],
              modal |-> FALSE, late |-> FALSE, told |-> NoToken, drift |-> FALSE, lost |-> FALSE]

\* The browser may hold a session of before.
Init ==
  /\ accounts \in SUBSET Users
  /\ cookie \in Tokens \cup {NoToken}
  /\ \E u \in IF cookie = NoToken THEN {Nobody} ELSE accounts :
       owner = [t \in Tokens |-> IF t = cookie THEN u ELSE Nobody]
  /\ life = [t \in Tokens |-> IF t = cookie THEN "live" ELSE "unissued"]
  /\ tab = [b \in Tabs |-> Loaded("inside")]
  /\ stray = {} /\ revoked = {} /\ reloads = 0 /\ submits = 0

-----------------------------------------------------------------------------
(* The server.  Operators named ..._bug are mutants of the definition they precede. *)

LifeOf(t) == IF t = NoToken THEN "unissued" ELSE life[t]

\* A token is issued to u.
Issue(t, u) ==
  /\ t # NoToken /\ life[t] = "unissued"
  /\ life' = [life EXCEPT ![t] = "live"]
  /\ owner' = [owner EXCEPT ![t] = u]

\* login_user with the right password.
LogsIn(r, t) ==
  /\ r.kind = "login" /\ r.user \in accounts
  /\ Issue(t, r.user)
  /\ UNCHANGED accounts

\* register_user: the new account gets a token too.
Registers(r, t) ==
  /\ r.kind = "register" /\ r.user \notin accounts
  /\ Issue(t, r.user)
  /\ accounts' = accounts \cup {r.user}

LogsOut_cookieOnly_bug(r, t) ==
  /\ r.kind = "logout" /\ t = NoToken
  /\ UNCHANGED <<accounts, owner, life>>
\* logout_user: the token is blacklisted, unless there is none or it has expired; one that
\* is blacklisted already violates the unique constraint and the request fails.
LogsOut(r, t) ==
  /\ r.kind = "logout" /\ t = NoToken
  /\ LifeOf(r.token) # "blacklisted"
  /\ life' = IF LifeOf(r.token) = "live" THEN [life EXCEPT ![r.token] = "blacklisted"] ELSE life
  /\ UNCHANGED <<accounts, owner>>

\* Request r is executed, and answered with token t.
Executed(r, t) == LogsIn(r, t) \/ Registers(r, t) \/ LogsOut(r, t)

\* A token expires, a day after it was issued (its cookie stays for seven).
Expire(t) ==
  /\ life[t] = "live"
  /\ life' = [life EXCEPT ![t] = "expired"]
  /\ UNCHANGED <<accounts, owner, cookie, tab, stray, revoked, reloads, submits>>

\* The other tabs do not know about what tab b has changed.
Drifting(b, T) == [x \in Tabs |-> IF x = b THEN T[x] ELSE [T[x] EXCEPT !.drift = TRUE]]

\* The server executes what a tab waits for; a logout takes effect here for the others.
Serve(b, f) ==
  /\ tab[b].call[f].pc = "sent"
  /\ \E t \in Tokens \cup {NoToken} :
       /\ Executed(tab[b].call[f], t)
       /\ tab' = LET T == [tab EXCEPT ![b].call[f].pc = "ok", ![b].call[f].got = t]
                 IN  IF tab[b].call[f].kind = "logout" THEN Drifting(b, T) ELSE T
  /\ UNCHANGED <<cookie, stray, revoked, reloads, submits>>

\* ... or refuses it: a wrong password, an address that is taken, a second logout.
Refuse(b, f) ==
  /\ tab[b].call[f].pc = "sent"
  /\ tab' = [tab EXCEPT ![b].call[f].pc = "bad"]
  /\ UNCHANGED <<accounts, life, owner, cookie, stray, revoked, reloads, submits>>

\* The server executes, or loses, what nobody waits for.
ServeStray == \E r \in stray :
  /\ \E t \in Tokens \cup {NoToken} : Executed(r, t)
  /\ stray' = stray \ {r}
  /\ tab' = [x \in Tabs |-> [tab[x] EXCEPT !.drift = @ \/ r.kind = "logout"]]
  /\ UNCHANGED <<cookie, revoked, reloads, submits>>
LoseStray == \E r \in stray :
  /\ stray' = stray \ {r}
  /\ UNCHANGED <<accounts, life, owner, cookie, tab, revoked, reloads, submits>>

\* get_current_user for GET /me: the token has to be live.
ServeMe(b) ==
  /\ tab[b].me.pc = "sent"
  /\ tab' = LET t == tab[b].me.token
            IN  IF LifeOf(t) = "live"
                THEN [tab EXCEPT ![b].me.pc = "ok", ![b].me.user = owner[t]]
                ELSE [tab EXCEPT ![b].me.pc = "bad"]
  /\ UNCHANGED <<accounts, life, owner, cookie, stray, revoked, reloads, submits>>

-----------------------------------------------------------------------------
(* The tabs. *)

\* ProtectedRoute and PublicOnlyRoute redirect as soon as they are rendered; a page that is
\* left takes its form or its modal with it, but not the call of the form.
Routed(x) ==
  CASE ~x.loading /\ x.user = Nobody /\ x.page = "inside" ->
         [x EXCEPT !.page = "login", !.modal = FALSE]
    [] ~x.loading /\ x.user # Nobody /\ x.page # "inside" ->
         [x EXCEPT !.page = "inside", !.form = "none"]
    [] OTHER -> x

\* What tab b becomes, when no cookie is touched.
Becomes(b, x) ==
  /\ tab' = [tab EXCEPT ![b] = Routed(x)]
  /\ UNCHANGED <<accounts, life, owner, cookie, reloads>>

\* GET /me is answered, and overwrites what a login or a logout has set meanwhile.
MeAnswers(b) ==
  /\ tab[b].me.pc \in {"ok", "bad"}
  /\ Becomes(b, [tab[b] EXCEPT !.user = tab[b].me.user, !.loading = FALSE, !.me = NoMe,
                   !.lost = FALSE, !.late = tab[b].me.overtaken,
                   !.told = IF tab[b].me.overtaken THEN tab[b].me.token ELSE NoToken])
  /\ UNCHANGED <<stray, revoked, submits>>

MeAborts_keepsWaiting_bug(b) ==
  /\ tab[b].me.pc # "idle"
  /\ Becomes(b, [tab[b] EXCEPT !.user = Nobody, !.me = NoMe, !.lost = TRUE])
  /\ UNCHANGED <<stray, revoked, submits>>
\* GET /me fails on the network, or is aborted after three seconds: this too overwrites.
MeAborts(b) ==
  /\ tab[b].me.pc # "idle"
  /\ Becomes(b, [tab[b] EXCEPT !.user = Nobody, !.loading = FALSE, !.me = NoMe,
                   !.lost = TRUE])
  /\ UNCHANGED <<stray, revoked, submits>>

\* The links between the two forms are never disabled: the form that opens is a new one, and
\* the call of the one that is left goes on.
FollowLink(b) ==
  /\ tab[b].page \in {"login", "register"}
  /\ Becomes(b, [tab[b] EXCEPT !.page = IF @ = "login" THEN "register" ELSE "login",
                               !.form = "none"])
  /\ UNCHANGED <<stray, revoked, submits>>

\* The form passes validateForm and is sent; it is disabled until it returns.
Submit(b) == \E u \in Users, f \in Forms :
  /\ tab[b].page \in {"login", "register"} /\ tab[b].form = "none" /\ tab[b].call[f].pc = "idle"
  /\ f = "second" => tab[b].call["first"].pc # "idle"
  /\ submits < MaxSubmits /\ submits' = submits + 1
  /\ Becomes(b, [tab[b] EXCEPT !.call[f] = Sent(tab[b].page, u, cookie), !.form = f])
  /\ UNCHANGED <<stray, revoked>>

\* The modal of the dashboard or of the analytics page.
AskLogout(b) ==
  /\ tab[b].page = "inside" /\ ~tab[b].loading /\ ~tab[b].modal
  /\ Becomes(b, [tab[b] EXCEPT !.modal = TRUE])
  /\ UNCHANGED <<stray, revoked, submits>>
CancelLogout(b) ==
  /\ tab[b].modal
  /\ Becomes(b, [tab[b] EXCEPT !.modal = FALSE])
  /\ UNCHANGED <<stray, revoked, submits>>
ConfirmLogout(b) ==
  /\ tab[b].modal /\ tab[b].call["out"].pc = "idle"
  /\ submits < MaxSubmits /\ submits' = submits + 1
  /\ Becomes(b, [tab[b] EXCEPT !.call["out"] = Sent("logout", Nobody, cookie), !.modal = FALSE])
  /\ UNCHANGED <<stray, revoked>>

\* An answer reaches tab b with the cookie t; from now on the tab is x.
Returns(b, t, x) ==
  /\ cookie' = t
  /\ tab' = Drifting(b, [tab EXCEPT ![b] = Routed([x EXCEPT !.me.overtaken = x.me.pc # "idle"])])
  /\ UNCHANGED <<accounts, life, owner, stray, reloads, submits>>

\* The form on display, if it waits for call f, is enabled again.
Enabled(b, f) == IF tab[b].form = f THEN "none" ELSE tab[b].form

LoginReturns_keepsUser_bug(b, f) ==
  LET r == tab[b].call[f] IN
  /\ r.pc = "ok" /\ r.kind = "login"
  /\ Returns(b, r.got, [tab[b] EXCEPT !.call[f] = Idle, !.form = Enabled(b, f), !.late = FALSE,
                          !.told = NoToken, !.drift = FALSE, !.lost = FALSE,
                          !.user = IF @ = Nobody THEN r.user ELSE @])
  /\ UNCHANGED revoked
\* login: the user of the answer is signed in.
LoginReturns(b, f) ==
  LET r == tab[b].call[f] IN
  /\ r.pc = "ok" /\ r.kind = "login"
  /\ Returns(b, r.got, [tab[b] EXCEPT !.call[f] = Idle, !.form = Enabled(b, f), !.user = r.user,
                          !.late = FALSE, !.told = NoToken, !.drift = FALSE, !.lost = FALSE])
  /\ UNCHANGED revoked

RegisterReturns_signedOutOnly_bug(b, f) ==
  LET r == tab[b].call[f] IN
  /\ r.pc = "ok" /\ r.kind = "register"
  /\ Returns(b, r.got, [tab[b] EXCEPT !.call[f] = Idle, !.form = "none", !.user = Nobody,
                          !.page = "login", !.late = FALSE, !.told = NoToken, !.drift = FALSE])
  /\ UNCHANGED revoked
\* register: the session that came with the account is ended by a logout of its own.
RegisterReturns(b, f) ==
  LET r == tab[b].call[f] IN
  /\ r.pc = "ok" /\ r.kind = "register"
  /\ Returns(b, r.got, [tab[b] EXCEPT !.call[f] = Sent("logout", Nobody, r.got), !.drift = FALSE])
  /\ UNCHANGED revoked

\* A request that failed at the browser may be executed later.
StillSent(b, f) == IF tab[b].call[f].pc = "sent" THEN {tab[b].call[f]} ELSE {}

SignedOut_keepsModal_bug(b, f) ==
  [tab[b] EXCEPT !.call[f] = Idle, !.user = Nobody, !.late = FALSE, !.told = NoToken,
                 !.form = IF f # "out" /\ tab[b].page # "login" THEN "none" ELSE Enabled(b, f),
                 !.page = IF f \in Forms THEN "login" ELSE @]
\* What a logout leaves, answered or not: nobody is signed in.  A registration goes on to
\* the login page, wherever the tab is by then.
SignedOut(b, f) ==
  [tab[b] EXCEPT !.call[f] = Idle, !.user = Nobody, !.late = FALSE, !.told = NoToken,
                 !.modal = FALSE,
                 !.form = IF f # "out" /\ tab[b].page # "login" THEN "none" ELSE Enabled(b, f),
                 !.page = IF f \in Forms THEN "login" ELSE @]

LogoutReturns(b, f) ==
  /\ tab[b].call[f].pc = "ok" /\ tab[b].call[f].kind = "logout"
  /\ Returns(b, NoToken, [SignedOut(b, f) EXCEPT !.drift = FALSE, !.lost = FALSE])
  /\ revoked' = revoked \cup ({tab[b].call[f].token} \ {NoToken})

\* A logout fails before or after it was executed: the cookie stays.
LogoutFails(b, f) ==
  /\ tab[b].call[f].pc # "idle" /\ tab[b].call[f].kind = "logout"
  /\ Becomes(b, [SignedOut(b, f) EXCEPT !.lost = TRUE, !.me.overtaken = tab[b].me.pc # "idle"])
  /\ stray' = stray \cup StillSent(b, f)
  /\ UNCHANGED <<revoked, submits>>

\* A login or a registration fails: the form shows an error, if it is still there.
FormFails(b, f) ==
  /\ tab[b].call[f].pc # "idle" /\ tab[b].call[f].kind # "logout"
  /\ Becomes(b, [tab[b] EXCEPT !.call[f] = Idle, !.form = Enabled(b, f)])
  /\ stray' = stray \cup StillSent(b, f)
  /\ UNCHANGED <<revoked, submits>>

\* The page is loaded again: the tab waits for nothing of before.
Reload(b) ==
  /\ reloads < MaxReloads /\ reloads' = reloads + 1
  /\ tab' = [tab EXCEPT ![b] = Loaded(@.page)]
  /\ stray' = stray \cup UNION {StillSent(b, f) : f \in Calls}
  /\ UNCHANGED <<accounts, life, owner, cookie, revoked, submits>>

-----------------------------------------------------------------------------
ServerStep ==
  \/ \E b \in Tabs : ServeMe(b) \/ \E f \in Calls : Serve(b, f) \/ Refuse(b, f)
  \/ \E t \in Tokens : Expire(t)
  \/ ServeStray \/ LoseStray

UserStep(b) ==
  FollowLink(b) \/ Submit(b) \/ AskLogout(b) \/ CancelLogout(b) \/ ConfirmLogout(b) \/ Reload(b)

AnswerStep(b) ==
  \/ MeAnswers(b) \/ MeAborts(b)
  \/ \E f \in Forms : LoginReturns(b, f) \/ RegisterReturns(b, f) \/ FormFails(b, f)
  \/ \E f \in Calls : LogoutReturns(b, f) \/ LogoutFails(b, f)

Next == ServerStep \/ \E b \in Tabs : UserStep(b) \/ AnswerStep(b)

Spec == Init /\ [][Next]_vars

-----------------------------------------------------------------------------
(* Properties. *)

\* Every variable keeps its type; a token has an owner once it is issued, and a logout modal
\* never outlives its page.
TypeOK ==
  /\ accounts \subseteq Users
  /\ life \in [Tokens -> Lives]
  /\ owner \in [Tokens -> Users \cup {Nobody}]
  /\ \A t \in Tokens : life[t] = "unissued" <=> owner[t] = Nobody
  /\ cookie \in Tokens \cup {NoToken}
  /\ tab \in [Tabs -> Tab]
  /\ \A b \in Tabs : tab[b].modal => tab[b].page = "inside"
  /\ stray \subseteq Request
  /\ revoked \subseteq Tokens
  /\ reloads \in 0..MaxReloads /\ submits \in 0..MaxSubmits

\* The tab waits for no answer of its own, and no other tab has touched the cookie.
Quiet(b) == (\A f \in Calls : tab[b].call[f].pc = "idle") /\ ~tab[b].drift

(***************************************************************************)
(* Whatever order logins, registrations, logouts and failures come back    *)
(* in, the user on display is the one whose token the browser sends, and   *)
(* that token has not been revoked (AuthProvider.tsx l.42-90).  There are  *)
(* two exceptions: another tab has touched the cookie (Quiet), or the tab  *)
(* shows what a GET /me told it that was sent before its own last login or *)
(* logout came back (late): the login form is there while GET /me is under *)
(* way (App.tsx l.35-39) and its answer overwrites the user                *)
(* (AuthProvider.tsx l.24-29).  Then the user on display is at least the   *)
(* owner of the cookie which that GET carried.                             *)
(***************************************************************************)
SignedInTruthful == \A b \in Tabs :
  tab[b].user # Nobody /\ Quiet(b) =>
    IF tab[b].late THEN owner[tab[b].told] = tab[b].user
    ELSE /\ LifeOf(cookie) \in {"live", "expired"}
         /\ owner[cookie] = tab[b].user

\* A tab that shows nobody leaves no live session in the browser, after a registration too,
\* unless a failure (an aborted GET /me, a failed logout) or another tab is behind it.  One
\* that shows nobody because of a late GET /me can leave the session of the login that it
\* overwrote; that the cookie which the GET carried is no live session is all that holds.
SignedOutTruthful == \A b \in Tabs :
  tab[b].user = Nobody /\ ~tab[b].loading /\ ~tab[b].lost /\ Quiet(b) =>
    LifeOf(IF tab[b].late THEN tab[b].told ELSE cookie) # "live"

\* Who was told that the logout succeeded can rely on it: the token is never accepted again
\* (README ADR 3: immediate revocation), even if two tabs log out at once.
LogoutRevokes == \A t \in revoked : life[t] \in {"blacklisted", "expired"}

\* The protected pages wait only while GET /me is under way, which the timer of three seconds
\* ends if nothing else does: no order of answers leaves the spinner without one.
WaitingEnds == \A b \in Tabs : tab[b].loading => tab[b].me.pc # "idle"
=============================================================================

---------------------------- MODULE SessionProofs ----------------------------
(***************************************************************************)
(* Proofs about Session: the order of logins, registrations, logouts,      *)
(* failures and reloads in any number of tabs makes no tab show what the   *)
(* cookie does not say; only a GET /me that its own tab overtook does, and *)
(* then the tab shows what the cookie of that GET said.  A logout that has *)
(* returned holds.                                                         *)
(***************************************************************************)
EXTENDS Session, TLAPS

USE SessionConstants

-----------------------------------------------------------------------------
(* The inductive invariant. *)

\* A request carries a token that was issued.  A login or a registration that was executed
\* holds a token of its user that no logout has met; an executed logout has ended its token.
ReqOK(r) ==
  /\ r \in Request
  /\ r.kind # "logout" => r.user \in Users
  /\ r.token # NoToken => life[r.token] # "unissued"
  /\ r.kind = "logout" \/ r.pc # "ok" => r.got = NoToken
  /\ r.kind # "logout" /\ r.pc = "ok" =>
       r.got \in Tokens /\ owner[r.got] = r.user /\ life[r.got] \in {"live", "expired"}
  /\ r.kind = "logout" /\ r.pc = "ok" /\ r.token # NoToken =>
       life[r.token] \in {"blacklisted", "expired"}

\* The tab waits for a logout, its own or that of a registration; it ends signed out.
Leaving(x) == \E f \in Calls : x.call[f].pc # "idle" /\ x.call[f].kind = "logout"

\* Nobody but the tab has touched the cookie, and the tab is not about to end its session.
Settled(x) == ~x.drift /\ ~Leaving(x)

Issued(t) == t # NoToken => life[t] # "unissued"
Signed(u) == cookie \in Tokens /\ owner[cookie] = u /\ life[cookie] \in {"live", "expired"}

\* What a tab shows, and what GET /me is about to tell it, agrees with the cookie, unless the
\* GET is overtaken.
Shows(x) == Settled(x) /\ ~x.late =>
  /\ x.user # Nobody => Signed(x.user)
  /\ x.user = Nobody /\ ~x.loading /\ ~x.lost => LifeOf(cookie) # "live"
MeTells(x) == Settled(x) /\ x.me.pc # "idle" /\ ~x.me.overtaken =>
  /\ x.me.token = cookie
  /\ x.me.pc = "ok" => x.me.user # Nobody /\ Signed(x.me.user)
  /\ x.me.pc = "bad" => LifeOf(cookie) # "live"

\* What token t is taken to mean when it shows u, whatever has become of the cookie.
Vouches(t, u) ==
  /\ Issued(t)
  /\ u # Nobody => t \in Tokens /\ owner[t] = u
  /\ u = Nobody => LifeOf(t) # "live"
Told(x) ==
  /\ Issued(x.me.token)
  /\ x.me.pc \in {"ok", "bad"} => Vouches(x.me.token, x.me.user)
  /\ x.late => Vouches(x.told, x.user)
  /\ x.late => x.me.pc = "idle"

TabInv(x) ==
  /\ \A f \in Calls : ReqOK(x.call[f])
  /\ x.loading => x.me.pc # "idle"
  /\ x.me.pc # "ok" => x.me.user = Nobody
  /\ Shows(x) /\ MeTells(x) /\ Told(x)

\* A token that was issued, but whose answer has not come yet, is known to nobody else.
Unknown(g) ==
  /\ cookie # g
  /\ \A c \in Tabs, f \in Calls : tab[c].call[f].token # g
  /\ \A r \in stray : r.token # g
Fresh ==
  /\ \A b \in Tabs, f \in Calls :
       tab[b].call[f].got # NoToken => Unknown(tab[b].call[f].got)
  /\ \A b, c \in Tabs, f, g \in Calls :
       (b # c \/ f # g) /\ tab[b].call[f].got # NoToken =>
         tab[b].call[f].got # tab[c].call[g].got

Rest ==
  /\ \A r \in stray : ReqOK(r) /\ r.pc = "sent"
  /\ cookie # NoToken => life[cookie] # "unissued"

IInv == TypeOK /\ (\A b \in Tabs : TabInv(tab[b])) /\ Fresh /\ Rest /\ LogoutRevokes

-----------------------------------------------------------------------------
(* What a tab knows does not depend on the page it is at. *)

Alike(x, y) ==
  /\ y.user = x.user /\ y.loading = x.loading /\ y.call = x.call /\ y.me = x.me
  /\ y.late = x.late /\ y.told = x.told /\ y.drift = x.drift /\ y.lost = x.lost

\* x with the request r in place of its own.
With(x, f, r) == [x EXCEPT !.call[f] = r]

Modal(x) == x.modal => x.page = "inside"

LEMMA RoutedIs ==
  ASSUME NEW x \in Tab
  PROVE  Routed(x) \in Tab /\ Alike(x, Routed(x)) /\ (Modal(x) => Modal(Routed(x)))
<1>1. CASE ~x.loading /\ x.user = Nobody /\ x.page = "inside"
  <2>1. Routed(x) = [x EXCEPT !.page = "login", !.modal = FALSE]
    BY <1>1 DEF Routed
  <2> QED
    BY <2>1 DEF Tab, Alike, Modal
<1>2. CASE ~x.loading /\ x.user # Nobody /\ x.page # "inside"
  <2>1. Routed(x) = [x EXCEPT !.page = "inside", !.form = "none"]
    BY <1>2 DEF Routed
  <2> QED
    BY <2>1 DEF Tab, Alike, Modal
<1>3. CASE ~(~x.loading /\ x.user = Nobody /\ x.page = "inside")
           /\ ~(~x.loading /\ x.user # Nobody /\ x.page # "inside")
  <2>1. Routed(x) = x
    BY <1>3 DEF Routed
  <2> QED
    BY <2>1 DEF Alike
<1> QED
  BY <1>1, <1>2, <1>3

LEMMA AlikeInv ==
  ASSUME NEW x, NEW y, Alike(x, y)
  PROVE  (TabInv(x) => TabInv(y)) /\ (TabInv(x)' => TabInv(y)')
  BY DEF Alike, TabInv, Shows, MeTells, Told, Settled, Leaving

LEMMA WithIs ==
  ASSUME NEW x \in Tab, NEW f \in Calls, NEW r \in Request
  PROVE  /\ With(x, f, r) \in Tab
         /\ With(x, f, r).call[f] = r
         /\ \A g \in Calls : g # f => With(x, f, r).call[g] = x.call[g]
         /\ With(x, f, r).user = x.user /\ With(x, f, r).loading = x.loading
         /\ With(x, f, r).me = x.me /\ With(x, f, r).drift = x.drift
         /\ With(x, f, r).lost = x.lost /\ With(x, f, r).form = x.form
         /\ With(x, f, r).late = x.late /\ With(x, f, r).told = x.told
         /\ With(x, f, r).modal = x.modal /\ With(x, f, r).page = x.page
<1> DEFINE c == [x.call EXCEPT ![f] = r]
<1>1. x.call \in [Calls -> Request]
  BY DEF Tab
<1>2. c \in [Calls -> Request] /\ c[f] = r /\ \A g \in Calls : g # f => c[g] = x.call[g]
  BY <1>1
<1>3. With(x, f, r) = [x EXCEPT !.call = c]
  BY DEF With
<1> HIDE DEF c
<1> QED
  BY <1>2, <1>3 DEF Tab

-----------------------------------------------------------------------------
(* The server: how tokens age. *)

\* Tokens are issued and expire, and t0 may be blacklisted, all but backwards.
Ages(t0) ==
  /\ life' \in [Tokens -> Lives] /\ owner' \in [Tokens -> Users \cup {Nobody}]
  /\ \A t \in Tokens :
       /\ life[t] # "unissued" =>
            /\ owner'[t] = owner[t]
            /\ \/ life'[t] = life[t]
               \/ life[t] = "live" /\ life'[t] = "expired"
               \/ life[t] = "live" /\ life'[t] = "blacklisted" /\ t = t0
       /\ life'[t] = "unissued" <=> owner'[t] = Nobody

LEMMA AgesFrame ==
  ASSUME TypeOK, UNCHANGED <<life, owner>>
  PROVE  Ages(NoToken)
  BY DEF TypeOK, Ages

LEMMA ReqAges ==
  ASSUME NEW t0 \in Tokens \cup {NoToken}, Ages(t0),
         NEW r, ReqOK(r), t0 # NoToken => r.got # t0
  PROVE  ReqOK(r)'
  BY DEF Ages, ReqOK, Request, Lives

LEMMA VouchesAges ==
  ASSUME NEW t0 \in Tokens \cup {NoToken}, Ages(t0), TypeOK,
         NEW t \in Tokens \cup {NoToken}, NEW u, Vouches(t, u)
  PROVE  Vouches(t, u)'
  BY DEF Ages, Vouches, Issued, LifeOf, TypeOK, Lives

LEMMA TabAges ==
  ASSUME NEW t0 \in Tokens \cup {NoToken}, Ages(t0), TypeOK, Rest, cookie' = cookie,
         NEW x \in Tab, TabInv(x),
         t0 # NoToken => ~Settled(x) /\ \A f \in Calls : x.call[f].got # t0
  PROVE  TabInv(x)'
<1>1. \A f \in Calls : ReqOK(x.call[f])'
  BY ReqAges DEF TabInv
<1>2. Told(x)'
  <2>1. /\ x.me.token \in Tokens \cup {NoToken} /\ x.told \in Tokens \cup {NoToken}
        /\ Told(x)
    BY DEF Tab, Me, TabInv
  <2>2. \A t \in Tokens \cup {NoToken} : Issued(t) => Issued(t)'
    BY DEF Issued, Ages, TypeOK
  <2>3. x.me.pc \in {"ok", "bad"} => Vouches(x.me.token, x.me.user)'
    BY <2>1, VouchesAges DEF Told
  <2>4. x.late => Vouches(x.told, x.user)'
    BY <2>1, VouchesAges DEF Told
  <2> QED
    BY <2>1, <2>2, <2>3, <2>4 DEF Told
<1>3. CASE Settled(x)
  <2>1. t0 = NoToken
    BY <1>3
  <2>2. cookie \in Tokens => life[cookie] # "unissued"
    BY DEF Rest
  <2>3. \A u : Signed(u) => Signed(u)'
    BY <2>1, <2>2 DEF Signed, Ages
  <2>4. LifeOf(cookie) # "live" => LifeOf(cookie)' # "live"
    BY <2>1, <2>2 DEF LifeOf, Ages, TypeOK
  <2>5. Shows(x)'
    BY <1>3, <2>3, <2>4 DEF TabInv, Shows
  <2>6. MeTells(x)'
    BY <1>3, <2>3, <2>4 DEF TabInv, MeTells
  <2> QED
    BY <1>1, <1>2, <2>5, <2>6 DEF TabInv
<1>4. CASE ~Settled(x)
  BY <1>1, <1>2, <1>4 DEF TabInv, Shows, MeTells, Settled, Leaving
<1> QED
  BY <1>3, <1>4

LEMMA ExecutedIs ==
  ASSUME TypeOK, NEW r, ReqOK(r), NEW t \in Tokens \cup {NoToken}, Executed(r, t)
  PROVE  /\ accounts' \subseteq Users
         /\ Ages(IF r.kind = "logout" THEN r.token ELSE NoToken)
         /\ r.kind = "logout" =>
              t = NoToken /\ (r.token # NoToken => life'[r.token] \in {"blacklisted", "expired"})
         /\ r.kind # "logout" =>
              t \in Tokens /\ life[t] = "unissued" /\ life'[t] = "live" /\ owner'[t] = r.user
<1>1. CASE LogsIn(r, t) \/ Registers(r, t)
  <2>1. /\ r.kind # "logout" /\ r.user \in Users /\ Issue(t, r.user)
        /\ accounts' \subseteq Users
    BY <1>1 DEF LogsIn, Registers, ReqOK, TypeOK
  <2>2. t \in Tokens /\ life[t] = "unissued" /\ life'[t] = "live" /\ owner'[t] = r.user
    BY <2>1 DEF Issue, TypeOK
  <2>3. Ages(NoToken)
    BY <2>1, <2>2 DEF Issue, TypeOK, Ages, Lives
  <2> QED
    BY <2>1, <2>2, <2>3
<1>2. CASE LogsOut(r, t)
  <2>1. /\ r.kind = "logout" /\ t = NoToken /\ LifeOf(r.token) # "blacklisted"
        /\ UNCHANGED <<accounts, owner>>
    BY <1>2 DEF LogsOut
  <2>2. r.token \in Tokens \cup {NoToken} /\ (r.token # NoToken => life[r.token] # "unissued")
    BY DEF ReqOK, Request
  <2>3. CASE LifeOf(r.token) = "live"
    <3>1. r.token \in Tokens /\ life[r.token] = "live"
      BY <2>2, <2>3 DEF LifeOf
    <3>2. life' = [life EXCEPT ![r.token] = "blacklisted"]
      BY <1>2, <2>3 DEF LogsOut
    <3>3. Ages(r.token)
      BY <2>1, <3>1, <3>2 DEF Ages, TypeOK, Lives
    <3> QED
      BY <2>1, <3>1, <3>2, <3>3 DEF TypeOK
  <2>4. CASE LifeOf(r.token) # "live"
    <3>1. life' = life
      BY <1>2, <2>4 DEF LogsOut
    <3>2. Ages(r.token)
      BY <2>1, <3>1 DEF Ages, TypeOK
    <3>3. r.token # NoToken => life[r.token] \in {"blacklisted", "expired"}
      BY <2>1, <2>2, <2>4 DEF LifeOf, TypeOK, Lives
    <3> QED
      BY <2>1, <3>1, <3>2, <3>3 DEF TypeOK
  <2> QED
    BY <2>3, <2>4
<1> QED
  BY <1>1, <1>2 DEF Executed

-----------------------------------------------------------------------------
(* Steps that change one tab, and no token. *)

Bounds == reloads \in 0..MaxReloads /\ submits \in 0..MaxSubmits

LEMMA LocalStep ==
  ASSUME IInv, NEW b \in Tabs, NEW y \in Tab, Modal(y), TabInv(y),
         tab' = [tab EXCEPT ![b] = y], UNCHANGED <<accounts, life, owner, cookie, revoked>>,
         \A f \in Calls : /\ y.call[f].got \in {NoToken, tab[b].call[f].got}
                          /\ y.call[f].token \in {NoToken, cookie, tab[b].call[f].token},
         \A r \in stray' : r \in stray \/ \E f \in Calls : r = tab[b].call[f] /\ r.pc = "sent",
         Bounds'
  PROVE  IInv'
<1>1. TypeOK /\ tab \in [Tabs -> Tab]
  BY DEF IInv, TypeOK
<1>2. tab'[b] = y /\ \A c \in Tabs : c # b => tab'[c] = tab[c]
  BY <1>1
<1>3. \A r \in stray' : ReqOK(r) /\ r.pc = "sent"
  BY DEF IInv, Rest, TabInv
<1>4. TypeOK'
  <2>1. stray' \subseteq Request
    BY <1>3 DEF ReqOK
  <2> QED
    BY <1>1, <1>2, <2>1 DEF TypeOK, Modal, Bounds
<1>5. \A r : ReqOK(r) => ReqOK(r)'
  BY DEF ReqOK
<1>6. \A x : TabInv(x) => TabInv(x)'
  BY <1>5 DEF TabInv, Shows, MeTells, Told, Vouches, Issued, Settled, Leaving, Signed, LifeOf
<1>7. ASSUME NEW c \in Tabs PROVE TabInv(tab[c])'
  <2>1. PICK x : x = tab'[c]
    OBVIOUS
  <2>2. TabInv(x)
    BY <1>2, <2>1 DEF IInv
  <2> QED
    BY <1>6, <2>1, <2>2
<1>8. Fresh'
  <2>1. \A g \in Tokens : Unknown(g) => Unknown(g)'
    <3>1. ASSUME NEW g \in Tokens, Unknown(g) PROVE Unknown(g)'
      <4>1. \A c \in Tabs, f \in Calls : tab'[c].call[f].token # g
        BY <1>2, <3>1 DEF Unknown
      <4>2. \A r \in stray' : r.token # g
        BY <3>1 DEF Unknown
      <4> QED
        BY <3>1, <4>1, <4>2 DEF Unknown
    <3> QED
      BY <3>1
  <2>2. \A c \in Tabs, f \in Calls : tab'[c].call[f].got \in {NoToken, tab[c].call[f].got}
    BY <1>2
  <2>3. \A c \in Tabs, f \in Calls : tab[c].call[f].got \in Tokens \cup {NoToken}
    BY <1>1 DEF Tab, Request
  <2>4. Fresh
    BY DEF IInv
  <2> QED
    BY <2>1, <2>2, <2>3, <2>4 DEF Fresh
<1>9. Rest'
  BY <1>3, <1>5 DEF Rest, IInv
<1>10. LogoutRevokes'
  BY DEF LogoutRevokes, IInv
<1> QED
  BY <1>4, <1>7, <1>8, <1>9, <1>10 DEF IInv

LEMMA BecomesStep ==
  ASSUME IInv, NEW b \in Tabs, NEW x \in Tab, Modal(x), TabInv(x),
         Becomes(b, x), UNCHANGED revoked,
         \A f \in Calls : /\ x.call[f].got \in {NoToken, tab[b].call[f].got}
                          /\ x.call[f].token \in {NoToken, cookie, tab[b].call[f].token},
         \A r \in stray' : r \in stray \/ \E f \in Calls : r = tab[b].call[f] /\ r.pc = "sent",
         submits' \in 0..MaxSubmits
  PROVE  IInv'
<1> DEFINE y == Routed(x)
<1>1. y \in Tab /\ Alike(x, y) /\ Modal(y)
  BY RoutedIs
<1>2. TabInv(y)
  BY <1>1, AlikeInv
<1>3. y.call = x.call
  BY <1>1 DEF Alike
<1>4. tab' = [tab EXCEPT ![b] = y] /\ UNCHANGED <<accounts, life, owner, cookie>>
  BY DEF Becomes
<1>5. Bounds'
  BY DEF Becomes, Bounds, IInv, TypeOK
<1> HIDE DEF y
<1> QED
  BY <1>1, <1>2, <1>3, <1>4, <1>5, LocalStep

\* What every tab of the invariant is.
LEMMA TabIs ==
  ASSUME IInv, NEW b \in Tabs
  PROVE  /\ tab[b] \in Tab /\ Modal(tab[b]) /\ TabInv(tab[b])
         /\ tab[b].me \in Me /\ tab[b].call \in [Calls -> Request]
         /\ \A f \in Calls : tab[b].call[f] \in Request /\ ReqOK(tab[b].call[f])
  BY DEF IInv, TypeOK, Modal, Tab, TabInv

-----------------------------------------------------------------------------
(* GET /me. *)

\* The end of a GET /me, in the tab that is signed in as u from then on.
LEMMA MeEnds ==
  ASSUME IInv, NEW b \in Tabs, NEW u \in Users \cup {Nobody}, NEW lost \in BOOLEAN,
         NEW l \in BOOLEAN, NEW t \in Tokens \cup {NoToken},
         NEW x, x = [tab[b] EXCEPT !.user = u, !.loading = FALSE, !.me = NoMe,
                                   !.lost = lost, !.late = l, !.told = t],
         l => Vouches(t, u),
         Settled(tab[b]) /\ ~l =>
           (u # Nobody => Signed(u)) /\ (u = Nobody /\ ~lost => LifeOf(cookie) # "live"),
         Becomes(b, x), UNCHANGED <<stray, revoked, submits>>
  PROVE  IInv'
<1>1. tab[b] \in Tab /\ Modal(tab[b]) /\ TabInv(tab[b])
  BY TabIs
<1>2. x \in Tab
  <2>1. NoMe \in Me
    BY DEF NoMe, Me
  <2> QED
    BY <1>1, <2>1 DEF Tab
<1>3. /\ x.user = u /\ x.loading = FALSE /\ x.me = NoMe /\ x.lost = lost /\ x.late = l
      /\ x.told = t /\ x.drift = tab[b].drift /\ x.call = tab[b].call
      /\ x.modal = tab[b].modal /\ x.page = tab[b].page
  BY <1>1 DEF Tab
<1>4. NoMe.pc = "idle" /\ NoMe.user = Nobody /\ NoMe.token = NoToken
  BY DEF NoMe
<1>5. Settled(x) <=> Settled(tab[b])
  BY <1>3 DEF Settled, Leaving
<1>6. TabInv(x) /\ Modal(x)
  BY <1>1, <1>3, <1>4, <1>5 DEF TabInv, Shows, MeTells, Told, Issued, Modal
<1>7. submits' \in 0..MaxSubmits /\ stray' = stray
  BY DEF IInv, TypeOK
<1> QED
  BY <1>2, <1>3, <1>6, <1>7, BecomesStep

LEMMA MeStep ==
  ASSUME IInv, NEW b \in Tabs, MeAnswers(b) \/ MeAborts(b)
  PROVE  IInv'
<1> DEFINE m == tab[b].me
<1>1. tab[b] \in Tab /\ TabInv(tab[b]) /\ m \in Me
  BY TabIs
<1>2. /\ m.overtaken \in BOOLEAN /\ m.user \in Users \cup {Nobody}
      /\ m.token \in Tokens \cup {NoToken}
      /\ tab[b].late \in BOOLEAN /\ tab[b].told \in Tokens \cup {NoToken}
  BY <1>1 DEF Tab, Me
<1>3. CASE MeAnswers(b)
  <2> DEFINE t == IF m.overtaken THEN m.token ELSE NoToken
             x == [tab[b] EXCEPT !.user = m.user, !.loading = FALSE, !.me = NoMe,
                                 !.lost = FALSE, !.late = m.overtaken, !.told = t]
  <2>1. Becomes(b, x) /\ UNCHANGED <<stray, revoked, submits>> /\ m.pc \in {"ok", "bad"}
    BY <1>3 DEF MeAnswers
  <2>2. t \in Tokens \cup {NoToken}
    BY <1>2
  <2>3. m.overtaken => Vouches(t, m.user)
    BY <1>1, <2>1 DEF TabInv, Told
  <2>4. Settled(tab[b]) /\ ~m.overtaken =>
          (m.user # Nobody => Signed(m.user)) /\ (m.user = Nobody => LifeOf(cookie) # "live")
    BY <1>1, <2>1 DEF TabInv, MeTells
  <2> HIDE DEF x, m, t
  <2> QED
    BY <1>2, <2>1, <2>2, <2>3, <2>4, MeEnds DEF x
<1>4. CASE MeAborts(b)
  <2> DEFINE x == [tab[b] EXCEPT !.user = Nobody, !.loading = FALSE, !.me = NoMe,
                                 !.lost = TRUE, !.late = tab[b].late, !.told = tab[b].told]
  <2>1. x = [tab[b] EXCEPT !.user = Nobody, !.loading = FALSE, !.me = NoMe, !.lost = TRUE]
    BY <1>1 DEF Tab
  <2>2. Becomes(b, x) /\ UNCHANGED <<stray, revoked, submits>> /\ m.pc # "idle"
    BY <1>4, <2>1 DEF MeAborts
  <2>3. ~tab[b].late
    BY <1>1, <2>2 DEF TabInv, Told
  <2> HIDE DEF x, m
  <2> QED
    BY <1>2, <2>2, <2>3, MeEnds DEF x
<1> QED
  BY <1>3, <1>4

LEMMA ServeMeStep ==
  ASSUME IInv, NEW b \in Tabs, ServeMe(b)
  PROVE  IInv'
<1> DEFINE m == tab[b].me
           y == tab'[b]
<1>1. tab \in [Tabs -> Tab] /\ tab[b] \in Tab /\ Modal(tab[b]) /\ TabInv(tab[b]) /\ m \in Me
  BY TabIs DEF IInv, TypeOK
<1>2. /\ m.pc = "sent" /\ m.user = Nobody
      /\ UNCHANGED <<accounts, life, owner, cookie, stray, revoked, reloads, submits>>
  BY <1>1 DEF ServeMe, TabInv
<1>3. PICK n \in Me :
        /\ tab' = [tab EXCEPT ![b] = [tab[b] EXCEPT !.me = n]]
        /\ n.token = m.token /\ n.overtaken = m.overtaken
        /\ \/ n.pc = "ok" /\ LifeOf(m.token) = "live" /\ n.user = owner[m.token]
           \/ n.pc = "bad" /\ LifeOf(m.token) # "live" /\ n.user = Nobody
  <2>1. CASE LifeOf(m.token) = "live"
    <3> DEFINE n == [m EXCEPT !.pc = "ok", !.user = owner[m.token]]
    <3>1. m.token \in Tokens
      BY <1>1, <2>1 DEF Me, LifeOf
    <3>2. n \in Me
      BY <1>1, <3>1 DEF Me, IInv, TypeOK
    <3>3. tab' = [tab EXCEPT ![b].me.pc = "ok", ![b].me.user = owner[m.token]]
      BY <2>1 DEF ServeMe
    <3>4. tab' = [tab EXCEPT ![b] = [tab[b] EXCEPT !.me = n]]
      BY <1>1, <3>3 DEF Tab, Me
    <3> QED
      BY <1>1, <2>1, <3>2, <3>4 DEF Me
  <2>2. CASE LifeOf(m.token) # "live"
    <3> DEFINE n == [m EXCEPT !.pc = "bad"]
    <3>1. n \in Me
      BY <1>1 DEF Me
    <3>2. tab' = [tab EXCEPT ![b].me.pc = "bad"]
      BY <2>2 DEF ServeMe
    <3>3. tab' = [tab EXCEPT ![b] = [tab[b] EXCEPT !.me = n]]
      BY <1>1, <3>2 DEF Tab, Me
    <3> QED
      BY <1>1, <1>2, <2>2, <3>1, <3>3 DEF Me
  <2> QED
    BY <2>1, <2>2
<1>4. /\ [tab[b] EXCEPT !.me = n] \in Tab
      /\ Modal([tab[b] EXCEPT !.me = n])
  BY <1>1 DEF Tab, Modal
<1>5. TabInv([tab[b] EXCEPT !.me = n])
  <2>1. PICK x \in Tab : x = [tab[b] EXCEPT !.me = n]
    BY <1>4
  <2>2. /\ x.me = n /\ x.user = tab[b].user /\ x.loading = tab[b].loading /\ x.call = tab[b].call
        /\ x.drift = tab[b].drift /\ x.lost = tab[b].lost /\ x.late = tab[b].late
        /\ x.told = tab[b].told
    BY <1>1, <2>1 DEF Tab
  <2>3. (\A f \in Calls : ReqOK(x.call[f])) /\ n.pc # "idle"
    BY <1>1, <1>3, <2>2 DEF TabInv
  <2>4. Shows(x)
    BY <1>1, <2>2 DEF TabInv, Shows, Settled, Leaving
  <2>5. MeTells(x)
    <3>1. SUFFICES ASSUME Settled(x), ~n.overtaken
                   PROVE  /\ n.token = cookie
                          /\ n.pc = "ok" => n.user # Nobody /\ Signed(n.user)
                          /\ n.pc = "bad" => LifeOf(cookie) # "live"
      BY <2>2 DEF MeTells
    <3>2. m.token = cookie
      BY <1>1, <1>2, <1>3, <2>2, <3>1 DEF TabInv, MeTells, Settled, Leaving
    <3>3. n.pc = "ok" => n.user # Nobody /\ Signed(n.user)
      BY <1>3, <3>2 DEF Signed, LifeOf, IInv, TypeOK
    <3> QED
      BY <1>3, <3>2, <3>3
  <2>6. n.pc # "ok" => n.user = Nobody
    BY <1>3
  <2>7. Told(x)
    <3>1. Issued(m.token) /\ ~tab[b].late
      BY <1>1, <1>2 DEF TabInv, Told
    <3>2. Vouches(n.token, n.user)
      BY <1>1, <1>3, <3>1 DEF Vouches, LifeOf, Me, IInv, TypeOK
    <3> QED
      BY <1>3, <2>2, <3>1, <3>2 DEF Told
  <2> QED
    BY <2>1, <2>2, <2>3, <2>4, <2>5, <2>6, <2>7 DEF TabInv
<1>6. [tab[b] EXCEPT !.me = n].call = tab[b].call
  BY <1>1 DEF Tab
<1>7. Bounds'
  BY <1>2 DEF Bounds, IInv, TypeOK
<1> QED
  BY <1>2, <1>3, <1>4, <1>5, <1>6, <1>7, LocalStep

-----------------------------------------------------------------------------
(* Forms, modals and failures. *)

LEMMA IdleOK == ReqOK(Idle) /\ Idle.pc = "idle" /\ Idle.kind = "logout"
                /\ Idle.token = NoToken /\ Idle.got = NoToken
  BY DEF ReqOK, Idle, Request, Kinds

LEMMA SentOK ==
  ASSUME NEW k \in Kinds, NEW u \in Users \cup {Nobody}, NEW t \in Tokens \cup {NoToken},
         k # "logout" => u \in Users, t # NoToken => life[t] # "unissued"
  PROVE  /\ ReqOK(Sent(k, u, t))
         /\ Sent(k, u, t).pc = "sent" /\ Sent(k, u, t).kind = k
         /\ Sent(k, u, t).token = t /\ Sent(k, u, t).got = NoToken
  BY DEF ReqOK, Sent, Request

LEMMA CookieOK ==
  ASSUME IInv
  PROVE  cookie \in Tokens \cup {NoToken} /\ (cookie # NoToken => life[cookie] # "unissued")
  BY DEF IInv, TypeOK, Rest

\* A page that changes only where it is, or its modal.
LEMMA MoveStep ==
  ASSUME IInv, NEW b \in Tabs, NEW x \in Tab, Alike(tab[b], x), Modal(x),
         Becomes(b, x), UNCHANGED <<stray, revoked, submits>>
  PROVE  IInv'
<1>1. TabInv(x)
  BY TabIs, AlikeInv
<1>2. x.call = tab[b].call
  BY DEF Alike
<1>3. submits' \in 0..MaxSubmits /\ stray' = stray
  BY DEF IInv, TypeOK
<1> QED
  BY <1>1, <1>2, <1>3, BecomesStep

LEMMA NavigationStep ==
  ASSUME IInv, NEW b \in Tabs, FollowLink(b) \/ AskLogout(b) \/ CancelLogout(b)
  PROVE  IInv'
<1>1. tab[b] \in Tab /\ Modal(tab[b])
  BY TabIs
<1>2. PICK p \in {"login", "register", "inside"}, m \in BOOLEAN, w \in Forms \cup {"none"} :
        /\ Becomes(b, [tab[b] EXCEPT !.page = p, !.modal = m, !.form = w])
        /\ UNCHANGED <<stray, revoked, submits>>
        /\ m => p = "inside"
  <2>1. CASE FollowLink(b)
    <3> DEFINE p == IF tab[b].page = "login" THEN "register" ELSE "login"
    <3>1. [tab[b] EXCEPT !.page = p, !.form = "none"]
            = [tab[b] EXCEPT !.page = p, !.modal = FALSE, !.form = "none"]
      BY <1>1, <2>1 DEF FollowLink, Tab, Modal
    <3>2. /\ Becomes(b, [tab[b] EXCEPT !.page = p, !.form = "none"])
          /\ UNCHANGED <<stray, revoked, submits>>
      BY <2>1 DEF FollowLink
    <3> QED
      BY <3>1, <3>2
  <2>2. CASE AskLogout(b) \/ CancelLogout(b)
    <3>1. PICK m \in BOOLEAN : /\ Becomes(b, [tab[b] EXCEPT !.modal = m])
                               /\ UNCHANGED <<stray, revoked, submits>>
      BY <2>2 DEF AskLogout, CancelLogout
    <3>2. tab[b].page = "inside" /\ tab[b].form \in Forms \cup {"none"}
      BY <1>1, <2>2 DEF AskLogout, CancelLogout, Modal, Tab
    <3>3. [tab[b] EXCEPT !.modal = m]
            = [tab[b] EXCEPT !.page = "inside", !.modal = m, !.form = tab[b].form]
      BY <1>1, <3>2 DEF Tab
    <3> QED
      BY <3>1, <3>2, <3>3
  <2> QED
    BY <2>1, <2>2
<1> DEFINE x == [tab[b] EXCEPT !.page = p, !.modal = m, !.form = w]
<1>3. x \in Tab /\ Alike(tab[b], x) /\ Modal(x)
  BY <1>1, <1>2 DEF Tab, Alike, Modal
<1> HIDE DEF x
<1> QED
  BY <1>2, <1>3, MoveStep DEF x

\* A request is put in the place of an idle one.
LEMMA SubmitStep ==
  ASSUME IInv, NEW b \in Tabs, Submit(b) \/ ConfirmLogout(b)
  PROVE  IInv'
<1>1. tab[b] \in Tab /\ Modal(tab[b]) /\ TabInv(tab[b])
  BY TabIs
<1>2. submits' \in 0..MaxSubmits /\ UNCHANGED <<stray, revoked>>
  <2>1. submits < MaxSubmits /\ submits' = submits + 1 /\ UNCHANGED <<stray, revoked>>
    BY DEF Submit, ConfirmLogout
  <2>2. submits \in 0..MaxSubmits
    BY DEF IInv, TypeOK
  <2> QED
    BY <2>1, <2>2
<1>3. CASE Submit(b)
  <2>1. PICK u \in Users, f \in Forms :
          /\ tab[b].page \in {"login", "register"} /\ tab[b].call[f].pc = "idle"
          /\ Becomes(b, [tab[b] EXCEPT !.call[f] = Sent(tab[b].page, u, cookie), !.form = f])
    BY <1>3 DEF Submit
  <2> DEFINE r == Sent(tab[b].page, u, cookie)
             z == With(tab[b], f, r)
             x == [z EXCEPT !.form = f]
  <2>2. ReqOK(r) /\ r.pc = "sent" /\ r.kind # "logout" /\ r.token = cookie /\ r.got = NoToken
    BY <2>1, CookieOK, SentOK DEF Kinds
  <2>3. x = [tab[b] EXCEPT !.call[f] = r, !.form = f]
    BY <1>1 DEF Tab, With
  <2>4. Becomes(b, x)
    BY <2>1, <2>3
  <2> HIDE DEF r
  <2>5. f \in Calls /\ r \in Request
    BY <2>2 DEF Calls, ReqOK
  <2>6. /\ z \in Tab /\ z.call[f] = r /\ \A g \in Calls : g # f => z.call[g] = tab[b].call[g]
        /\ z.me = tab[b].me /\ z.late = tab[b].late /\ z.told = tab[b].told
        /\ z.user = tab[b].user /\ z.loading = tab[b].loading /\ z.drift = tab[b].drift
        /\ z.lost = tab[b].lost /\ z.modal = tab[b].modal /\ z.page = tab[b].page
    BY <1>1, <2>5, WithIs
  <2> HIDE DEF z
  <2>7. x \in Tab /\ Alike(z, x) /\ x.modal = z.modal /\ x.page = z.page
    BY <2>6 DEF Tab, Alike
  <2>8. Settled(z) => Settled(tab[b])
    BY <2>1, <2>5, <2>6 DEF Settled, Leaving
  <2>9. \A g \in Calls : ReqOK(z.call[g])
    BY <1>1, <2>2, <2>6 DEF TabInv
  <2>10. TabInv(z) /\ Modal(z)
    BY <1>1, <2>6, <2>8, <2>9 DEF TabInv, Shows, MeTells, Told, Modal
  <2>11. TabInv(x) /\ Modal(x)
    BY <2>7, <2>10, AlikeInv DEF Modal
  <2>12. \A g \in Calls : /\ x.call[g].got \in {NoToken, tab[b].call[g].got}
                          /\ x.call[g].token \in {NoToken, cookie, tab[b].call[g].token}
    BY <2>2, <2>6, <2>7 DEF Alike
  <2> HIDE DEF x
  <2> QED
    BY <1>2, <2>4, <2>7, <2>11, <2>12, BecomesStep
<1>4. CASE ConfirmLogout(b)
  <2> DEFINE r == Sent("logout", Nobody, cookie)
             z == With(tab[b], "out", r)
             x == [z EXCEPT !.modal = FALSE]
  <2>1. x = [tab[b] EXCEPT !.call["out"] = r, !.modal = FALSE]
    BY <1>1 DEF Tab, With
  <2>2. Becomes(b, x)
    BY <1>4, <2>1 DEF ConfirmLogout
  <2>3. ReqOK(r) /\ r.pc = "sent" /\ r.kind = "logout" /\ r.token = cookie /\ r.got = NoToken
    BY CookieOK, SentOK DEF Kinds
  <2> HIDE DEF r
  <2>4. "out" \in Calls /\ r \in Request
    BY <2>3 DEF Calls, ReqOK
  <2>5. /\ z \in Tab /\ z.call["out"] = r
        /\ \A g \in Calls : g # "out" => z.call[g] = tab[b].call[g]
        /\ z.me = tab[b].me /\ z.loading = tab[b].loading /\ z.late = tab[b].late
        /\ z.told = tab[b].told /\ z.user = tab[b].user
    BY <1>1, <2>4, WithIs
  <2> HIDE DEF z
  <2>6. x \in Tab /\ Alike(z, x) /\ x.modal = FALSE
    BY <2>5 DEF Tab, Alike
  <2>7. ~Settled(z)
    BY <2>3, <2>4, <2>5 DEF Settled, Leaving
  <2>8. \A g \in Calls : ReqOK(z.call[g])
    BY <1>1, <2>3, <2>5 DEF TabInv
  <2>9. TabInv(z)
    BY <1>1, <2>5, <2>7, <2>8 DEF TabInv, Shows, MeTells, Told
  <2>10. TabInv(x) /\ Modal(x)
    BY <2>6, <2>9, AlikeInv DEF Modal
  <2>11. \A g \in Calls : /\ x.call[g].got \in {NoToken, tab[b].call[g].got}
                          /\ x.call[g].token \in {NoToken, cookie, tab[b].call[g].token}
    BY <2>3, <2>5, <2>6 DEF Alike
  <2> HIDE DEF x
  <2> QED
    BY <1>2, <2>2, <2>6, <2>10, <2>11, BecomesStep
<1> QED
  BY <1>3, <1>4

LEMMA RefuseStep ==
  ASSUME IInv, NEW b \in Tabs, NEW f \in Calls, Refuse(b, f)
  PROVE  IInv'
<1> DEFINE q == tab[b].call[f]
           r == [q EXCEPT !.pc = "bad"]
           x == With(tab[b], f, r)
<1>1. tab \in [Tabs -> Tab] /\ tab[b] \in Tab /\ Modal(tab[b]) /\ TabInv(tab[b])
  BY TabIs DEF IInv, TypeOK
<1>2. q \in Request /\ ReqOK(q)
  BY TabIs
<1>3. q.pc = "sent" /\ UNCHANGED <<accounts, life, owner, cookie, stray, revoked, reloads, submits>>
  BY DEF Refuse
<1>4. /\ r \in Request /\ r.pc = "bad" /\ r.kind = q.kind /\ r.user = q.user
      /\ r.token = q.token /\ r.got = q.got
  BY <1>2 DEF Request
<1>5. ReqOK(r)
  BY <1>2, <1>3, <1>4 DEF ReqOK
<1>6. tab' = [tab EXCEPT ![b] = x]
  BY <1>1, <1>2 DEF Refuse, With, Tab, Request
<1> HIDE DEF r
<1>7. /\ x \in Tab /\ x.call[f] = r /\ \A g \in Calls : g # f => x.call[g] = tab[b].call[g]
      /\ x.user = tab[b].user /\ x.loading = tab[b].loading /\ x.me = tab[b].me
      /\ x.drift = tab[b].drift /\ x.lost = tab[b].lost /\ x.late = tab[b].late
      /\ x.told = tab[b].told /\ x.modal = tab[b].modal /\ x.page = tab[b].page
  BY <1>1, <1>4, WithIs
<1> HIDE DEF x
<1>8. Settled(x) => Settled(tab[b])
  BY <1>3, <1>4, <1>7 DEF Settled, Leaving
<1>9. \A g \in Calls : ReqOK(x.call[g])
  BY <1>1, <1>5, <1>7 DEF TabInv
<1>10. TabInv(x) /\ Modal(x)
  BY <1>1, <1>7, <1>8, <1>9 DEF TabInv, Shows, MeTells, Told, Modal
<1>11. Bounds'
  BY <1>3 DEF Bounds, IInv, TypeOK
<1>12. \A g \in Calls : /\ x.call[g].got \in {NoToken, tab[b].call[g].got}
                        /\ x.call[g].token \in {NoToken, cookie, tab[b].call[g].token}
  BY <1>4, <1>7
<1> QED
  BY <1>3, <1>6, <1>7, <1>10, <1>11, <1>12, LocalStep

LEMMA StillSentIs ==
  ASSUME NEW b \in Tabs, NEW f \in Calls, NEW r \in StillSent(b, f)
  PROVE  r = tab[b].call[f] /\ r.pc = "sent"
  BY DEF StillSent

LEMMA EnabledIs ==
  ASSUME NEW b \in Tabs, tab[b] \in Tab, NEW f
  PROVE  Enabled(b, f) \in Forms \cup {"none"}
  BY DEF Enabled, Tab

LEMMA FormFailsStep ==
  ASSUME IInv, NEW b \in Tabs, NEW f \in Calls, FormFails(b, f)
  PROVE  IInv'
<1> DEFINE z == With(tab[b], f, Idle)
           x == [z EXCEPT !.form = Enabled(b, f)]
<1>1. tab[b] \in Tab /\ Modal(tab[b]) /\ TabInv(tab[b]) /\ Enabled(b, f) \in Forms \cup {"none"}
  BY TabIs, EnabledIs
<1>2. x = [tab[b] EXCEPT !.call[f] = Idle, !.form = Enabled(b, f)]
  BY <1>1 DEF Tab, With
<1>3. /\ tab[b].call[f].kind # "logout" /\ Becomes(b, x) /\ UNCHANGED <<revoked, submits>>
      /\ stray' = stray \cup StillSent(b, f)
  BY <1>2 DEF FormFails
<1>4. Idle \in Request
  BY IdleOK DEF ReqOK
<1>5. /\ z \in Tab /\ z.call[f] = Idle /\ \A g \in Calls : g # f => z.call[g] = tab[b].call[g]
      /\ z.me = tab[b].me /\ z.late = tab[b].late /\ z.told = tab[b].told
      /\ z.user = tab[b].user /\ z.loading = tab[b].loading /\ z.drift = tab[b].drift
      /\ z.lost = tab[b].lost /\ z.modal = tab[b].modal /\ z.page = tab[b].page
  BY <1>1, <1>4, WithIs
<1> HIDE DEF z
<1>6. x \in Tab /\ Alike(z, x) /\ x.modal = z.modal /\ x.page = z.page
  BY <1>1, <1>5 DEF Tab, Alike
<1> HIDE DEF x
<1>7. Settled(z) => Settled(tab[b])
  BY <1>3, <1>5 DEF Settled, Leaving
<1>8. \A g \in Calls : ReqOK(z.call[g])
  BY <1>1, <1>5, IdleOK DEF TabInv
<1>9. TabInv(z)
  BY <1>1, <1>5, <1>7, <1>8 DEF TabInv, Shows, MeTells, Told
<1>10. TabInv(x) /\ Modal(x)
  BY <1>1, <1>5, <1>6, <1>9, AlikeInv DEF Modal
<1>11. \A r \in stray' : r \in stray \/ \E g \in Calls : r = tab[b].call[g] /\ r.pc = "sent"
  BY <1>3, StillSentIs
<1>12. submits' \in 0..MaxSubmits
  BY <1>3 DEF IInv, TypeOK
<1>13. \A g \in Calls : /\ x.call[g].got \in {NoToken, tab[b].call[g].got}
                        /\ x.call[g].token \in {NoToken, cookie, tab[b].call[g].token}
  BY <1>5, <1>6, IdleOK DEF Alike
<1> QED
  BY <1>3, <1>6, <1>10, <1>11, <1>12, <1>13, BecomesStep

\* What a logout makes of its tab.
LEMMA SignedOutIs ==
  ASSUME NEW b \in Tabs, tab[b] \in Tab, NEW f \in Calls
  PROVE  LET x == SignedOut(b, f) IN
         /\ x \in Tab /\ x.user = Nobody /\ x.modal = FALSE /\ x.late = FALSE /\ x.told = NoToken
         /\ x.call[f] = Idle /\ \A g \in Calls : g # f => x.call[g] = tab[b].call[g]
         /\ x.me = tab[b].me /\ x.loading = tab[b].loading
         /\ x.lost = tab[b].lost /\ x.drift = tab[b].drift
<1> DEFINE z == With(tab[b], f, Idle)
           w == IF f # "out" /\ tab[b].page # "login" THEN "none" ELSE Enabled(b, f)
           p == IF f \in Forms THEN "login" ELSE tab[b].page
<1>1. SignedOut(b, f) = [z EXCEPT !.user = Nobody, !.late = FALSE, !.told = NoToken,
                                  !.modal = FALSE, !.form = w, !.page = p]
  BY DEF SignedOut, With, Tab
<1>2. /\ p \in {"login", "register", "inside"} /\ w \in Forms \cup {"none"}
      /\ Idle \in Request
  BY IdleOK, EnabledIs DEF Tab, ReqOK
<1>3. /\ z \in Tab /\ z.call[f] = Idle /\ \A g \in Calls : g # f => z.call[g] = tab[b].call[g]
      /\ z.me = tab[b].me /\ z.loading = tab[b].loading /\ z.drift = tab[b].drift
      /\ z.lost = tab[b].lost
  BY <1>2, WithIs
<1> HIDE DEF z, w, p
<1>4. PICK x : x = SignedOut(b, f)
  OBVIOUS
<1>5. /\ x \in Tab /\ x.user = Nobody /\ x.modal = FALSE /\ x.late = FALSE /\ x.told = NoToken
      /\ x.call = z.call /\ x.me = z.me /\ x.loading = z.loading /\ x.lost = z.lost
      /\ x.drift = z.drift
  BY <1>1, <1>2, <1>3, <1>4 DEF Tab
<1> QED
  BY <1>3, <1>4, <1>5

LEMMA LogoutFailsStep ==
  ASSUME IInv, NEW b \in Tabs, NEW f \in Calls, LogoutFails(b, f)
  PROVE  IInv'
<1> DEFINE z == SignedOut(b, f)
           o == tab[b].me.pc # "idle"
           x == [z EXCEPT !.lost = TRUE, !.me.overtaken = o]
<1>1. tab[b] \in Tab /\ TabInv(tab[b]) /\ tab[b].me \in Me
  BY TabIs
<1>2. /\ Becomes(b, x) /\ UNCHANGED <<revoked, submits>>
      /\ stray' = stray \cup StillSent(b, f)
  BY DEF LogoutFails
<1>3. /\ z \in Tab /\ z.user = Nobody /\ z.modal = FALSE /\ z.late = FALSE
      /\ z.call[f] = Idle /\ \A g \in Calls : g # f => z.call[g] = tab[b].call[g]
      /\ z.me = tab[b].me /\ z.loading = tab[b].loading /\ z.drift = tab[b].drift
  BY <1>1, SignedOutIs
<1>4. o \in BOOLEAN /\ (~o => z.me.pc = "idle")
  BY <1>3
<1> HIDE DEF z, o
<1>5. /\ x \in Tab /\ x.user = Nobody /\ x.modal = FALSE /\ x.late = FALSE /\ x.call = z.call
      /\ x.loading = z.loading /\ x.lost = TRUE
      /\ x.me.pc = tab[b].me.pc /\ x.me.user = tab[b].me.user /\ x.me.overtaken = o
      /\ x.me.token = tab[b].me.token
  BY <1>1, <1>3, <1>4 DEF Tab, Me
<1> HIDE DEF x
<1>6. \A g \in Calls : ReqOK(x.call[g])
  BY <1>1, <1>3, <1>5, IdleOK DEF TabInv
<1>7. TabInv(x) /\ Modal(x)
  <2>1. Shows(x)
    BY <1>5 DEF Shows
  <2>2. MeTells(x)
    BY <1>3, <1>4, <1>5 DEF MeTells
  <2>3. Told(x)
    BY <1>1, <1>5 DEF TabInv, Told
  <2> QED
    BY <1>1, <1>3, <1>5, <1>6, <2>1, <2>2, <2>3 DEF TabInv, Modal
<1>8. \A r \in stray' : r \in stray \/ \E g \in Calls : r = tab[b].call[g] /\ r.pc = "sent"
  BY <1>2, StillSentIs
<1>9. submits' \in 0..MaxSubmits
  BY <1>2 DEF IInv, TypeOK
<1>10. \A g \in Calls : /\ x.call[g].got \in {NoToken, tab[b].call[g].got}
                        /\ x.call[g].token \in {NoToken, cookie, tab[b].call[g].token}
  BY <1>3, <1>5, IdleOK
<1> QED
  BY <1>2, <1>5, <1>7, <1>8, <1>9, <1>10, BecomesStep

LEMMA ReloadStep ==
  ASSUME IInv, NEW b \in Tabs, Reload(b)
  PROVE  IInv'
<1>1. tab \in [Tabs -> Tab] /\ tab[b] \in Tab
  BY TabIs DEF IInv, TypeOK
<1>2. PICK p \in {"login", "register", "inside"} : tab' = [tab EXCEPT ![b] = Loaded(p)]
  BY <1>1 DEF Reload, Tab
<1> DEFINE x == Loaded(p)
           m == [NoMe EXCEPT !.pc = "sent", !.token = cookie]
<1>3. m \in Me /\ m.pc = "sent" /\ m.token = cookie /\ m.user = Nobody /\ Idle \in Request
  BY CookieOK, IdleOK DEF NoMe, Me, ReqOK
<1> HIDE DEF m
<1>4. /\ x \in Tab /\ x.call = [f \in Calls |-> Idle] /\ x.me = m /\ x.user = Nobody
      /\ x.loading = TRUE /\ x.modal = FALSE /\ x.late = FALSE /\ x.lost = FALSE
  BY <1>3 DEF Loaded, Tab, m
<1> HIDE DEF x
<1>5. TabInv(x) /\ Modal(x)
  BY <1>3, <1>4, IdleOK, CookieOK DEF TabInv, Shows, MeTells, Told, Issued, Modal
<1>6. \A r \in stray' : r \in stray \/ \E f \in Calls : r = tab[b].call[f] /\ r.pc = "sent"
  <2>1. stray' = stray \cup UNION {StillSent(b, f) : f \in Calls}
    BY DEF Reload
  <2> QED
    BY <2>1, StillSentIs
<1>7. reloads < MaxReloads /\ reloads' = reloads + 1
      /\ UNCHANGED <<accounts, life, owner, cookie, revoked, submits>>
  BY DEF Reload
<1>8. Bounds'
  <2>1. reloads \in 0..MaxReloads /\ submits \in 0..MaxSubmits
    BY DEF IInv, TypeOK
  <2> QED
    BY <1>7, <2>1 DEF Bounds
<1>9. \A f \in Calls : x.call[f].got = NoToken /\ x.call[f].token = NoToken
  BY <1>4, IdleOK
<1> QED
  BY <1>2, <1>4, <1>5, <1>6, <1>7, <1>8, <1>9, LocalStep DEF x

-----------------------------------------------------------------------------
(* Answers that come with a cookie. *)

\* An answer puts its own token, or none, into the cookie, and leaves tab b as it should be
\* with that cookie; whatever GET /me is under way there has been overtaken.
LEMMA ReturnsStep ==
  ASSUME IInv, NEW b \in Tabs, NEW f \in Calls, NEW t \in {NoToken, tab[b].call[f].got},
         NEW x \in Tab, Modal(x), Returns(b, t, x), submits' = submits,
         \A g \in Calls : ReqOK(x.call[g]),
         x.call[f].got = NoToken, x.call[f].token \in {NoToken, t},
         \A g \in Calls : g # f => x.call[g] = tab[b].call[g],
         x.loading => x.me.pc # "idle", x.me.pc # "ok" => x.me.user = Nobody,
         Told(x),
         Settled(x) =>
           /\ ~x.late
           /\ x.user # Nobody =>
                t \in Tokens /\ owner[t] = x.user /\ life[t] \in {"live", "expired"}
           /\ x.user = Nobody /\ ~x.loading /\ ~x.lost => LifeOf(t) # "live",
         t # NoToken => life[t] # "unissued",
         \A u \in revoked' : u \in Tokens /\ life[u] \in {"blacklisted", "expired"}
  PROVE  IInv'
<1> DEFINE o == x.me.pc # "idle"
           z == [x EXCEPT !.me.overtaken = o]
           y == Routed(z)
<1>1. tab \in [Tabs -> Tab] /\ TypeOK /\ tab[b].call[f] \in Request
  BY TabIs DEF IInv, TypeOK
<1>2. /\ cookie' = t /\ UNCHANGED <<accounts, life, owner, stray, reloads, submits>>
      /\ tab' = Drifting(b, [tab EXCEPT ![b] = y])
  BY DEF Returns
<1>3. o \in BOOLEAN /\ (~o => x.me.pc = "idle")
  OBVIOUS
<1> HIDE DEF o
<1>4. /\ z \in Tab /\ Modal(z) /\ z.call = x.call /\ z.user = x.user
      /\ z.loading = x.loading /\ z.drift = x.drift /\ z.lost = x.lost
      /\ z.late = x.late /\ z.told = x.told /\ z.me.token = x.me.token
      /\ z.me.pc = x.me.pc /\ z.me.user = x.me.user /\ z.me.overtaken = o
  BY <1>3 DEF Tab, Me, Modal
<1> HIDE DEF z
<1>5. y \in Tab /\ Alike(z, y) /\ Modal(y)
  BY <1>4, RoutedIs
<1> HIDE DEF y
<1>6. tab'[b] = y
  BY <1>1, <1>2 DEF Drifting
<1>7. ASSUME NEW c \in Tabs, c # b PROVE tab'[c] = [tab[c] EXCEPT !.drift = TRUE]
  BY <1>1, <1>2, <1>7 DEF Drifting
<1>8. ASSUME NEW c \in Tabs, c # b
      PROVE  /\ tab'[c] \in Tab /\ Modal(tab'[c]) /\ TabInv(tab[c])'
             /\ tab'[c].call = tab[c].call
  <2>1. tab[c] \in Tab /\ Modal(tab[c]) /\ TabInv(tab[c])
    BY TabIs
  <2>2. PICK w : w = [tab[c] EXCEPT !.drift = TRUE]
    OBVIOUS
  <2>3. /\ w \in Tab /\ Modal(w) /\ w.call = tab[c].call /\ w.user = tab[c].user
        /\ w.me = tab[c].me /\ w.loading = tab[c].loading /\ w.drift = TRUE
        /\ w.late = tab[c].late /\ w.told = tab[c].told
    BY <2>1, <2>2 DEF Tab, Modal
  <2>4. \A g \in Calls : ReqOK(w.call[g])'
    BY <1>2, <2>1, <2>3 DEF TabInv, ReqOK
  <2>5. Told(w)'
    BY <1>2, <2>1, <2>3 DEF TabInv, Told, Vouches, Issued, LifeOf
  <2>6. TabInv(w)'
    BY <2>1, <2>3, <2>4, <2>5 DEF TabInv, Shows, MeTells, Settled
  <2>7. w = tab'[c]
    BY <1>7, <1>8, <2>2
  <2> QED
    BY <2>3, <2>6, <2>7
<1>9. TabInv(z)'
  <2>1. \A g \in Calls : ReqOK(z.call[g])'
    BY <1>2, <1>4 DEF ReqOK
  <2>2. (x.loading => x.me.pc # "idle") /\ (x.me.pc # "ok" => x.me.user = Nobody)
    OBVIOUS
  <2>3. MeTells(z)'
    BY <1>3, <1>4 DEF MeTells
  <2>4. Settled(z) => Settled(x)
    BY <1>4 DEF Settled, Leaving
  <2>5. Shows(z)'
    BY <1>2, <1>4, <2>4 DEF Shows, Settled, Leaving, Signed, LifeOf
  <2>6. Told(z)'
    BY <1>2, <1>4 DEF Told, Vouches, Issued, LifeOf
  <2> QED
    BY <1>4, <2>1, <2>2, <2>3, <2>5, <2>6 DEF TabInv
<1>10. TabInv(tab[b])'
  <2>1. PICK v : v = y
    OBVIOUS
  <2>2. PICK w : w = z
    OBVIOUS
  <2> QED
    BY <1>5, <1>6, <1>9, AlikeInv
<1>11. TypeOK'
  <2>1. tab' \in [Tabs -> Tab]
    <3>1. \A c \in Tabs : tab'[c] \in Tab
      BY <1>5, <1>6, <1>8
    <3> QED
      BY <1>2, <3>1 DEF Drifting
  <2>2. \A c \in Tabs : tab'[c].modal => tab'[c].page = "inside"
    BY <1>5, <1>6, <1>8 DEF Modal
  <2>3. t \in Tokens \cup {NoToken}
    BY <1>1 DEF Request
  <2> QED
    BY <1>1, <1>2, <2>1, <2>2, <2>3 DEF TypeOK
<1>12. Fresh'
  <2>1. y.call = x.call
    BY <1>4, <1>5 DEF Alike
  <2>2. ASSUME NEW c \in Tabs, NEW g \in Calls, tab'[c].call[g].got # NoToken
        PROVE  /\ tab[c].call[g].got # NoToken /\ tab'[c].call[g].got = tab[c].call[g].got
               /\ Unknown(tab[c].call[g].got) /\ tab[c].call[g].got # t
    <3>1. c # b \/ g # f
      BY <1>6, <2>1, <2>2
    <3>2. tab'[c].call[g] = tab[c].call[g]
      BY <1>6, <1>8, <2>1, <3>1
    <3> QED
      BY <2>2, <3>1, <3>2 DEF Fresh, IInv
  <2>3. ASSUME NEW c \in Tabs, NEW g \in Calls, tab'[c].call[g].got # NoToken
        PROVE  Unknown(tab[c].call[g].got)'
    <3>1. PICK h : h = tab[c].call[g].got
      OBVIOUS
    <3>2. Unknown(h) /\ h # t /\ h # NoToken
      BY <2>2, <2>3, <3>1
    <3>3. ASSUME NEW d \in Tabs, NEW k \in Calls PROVE tab'[d].call[k].token # h
      BY <1>6, <1>8, <2>1, <3>2 DEF Unknown
    <3>4. Unknown(h)'
      BY <1>2, <3>2, <3>3 DEF Unknown
    <3>5. h = tab'[c].call[g].got
      BY <2>2, <2>3, <3>1
    <3> QED
      BY <3>4, <3>5
  <2>4. \A c, d \in Tabs, g, k \in Calls :
          (c # d \/ g # k) /\ tab'[c].call[g].got # NoToken =>
            tab'[c].call[g].got # tab'[d].call[k].got
    BY <2>2 DEF Fresh, IInv
  <2> QED
    BY <2>3, <2>4 DEF Fresh
<1>13. Rest'
  BY <1>2 DEF Rest, IInv, ReqOK
<1>14. LogoutRevokes'
  BY <1>2 DEF LogoutRevokes
<1> QED
  BY <1>8, <1>10, <1>11, <1>12, <1>13, <1>14 DEF IInv

LEMMA RevokedOK ==
  ASSUME IInv
  PROVE  \A u \in revoked : u \in Tokens /\ life[u] \in {"blacklisted", "expired"}
  BY DEF IInv, TypeOK, LogoutRevokes

\* What GET /me is about to tell does not depend on what an answer makes of the tab.
LEMMA ToldKept ==
  ASSUME NEW x, NEW y, Told(x), y.me = x.me, ~y.late
  PROVE  Told(y)
  BY DEF Told

LEMMA FormReturnsStep ==
  ASSUME IInv, NEW b \in Tabs, NEW f \in Calls, LoginReturns(b, f) \/ RegisterReturns(b, f)
  PROVE  IInv'
<1> DEFINE r == tab[b].call[f]
           t == r.got
<1>1. tab[b] \in Tab /\ Modal(tab[b]) /\ TabInv(tab[b]) /\ r \in Request /\ ReqOK(r)
  BY TabIs
<1>2. r.pc = "ok" /\ r.kind # "logout" /\ UNCHANGED revoked
  BY DEF LoginReturns, RegisterReturns
<1>3. /\ t \in Tokens /\ t # NoToken /\ owner[t] = r.user /\ life[t] \in {"live", "expired"}
      /\ r.user \in Users
  BY <1>1, <1>2 DEF ReqOK
<1>4. \A u \in revoked' : u \in Tokens /\ life[u] \in {"blacklisted", "expired"}
  BY <1>2, RevokedOK
<1>5. CASE LoginReturns(b, f)
  <2> DEFINE z == With(tab[b], f, Idle)
             e == Enabled(b, f)
             x == [z EXCEPT !.form = e, !.user = r.user, !.late = FALSE, !.told = NoToken,
                            !.drift = FALSE, !.lost = FALSE]
  <2>1. x = [tab[b] EXCEPT !.call[f] = Idle, !.form = Enabled(b, f), !.user = r.user,
                           !.late = FALSE, !.told = NoToken, !.drift = FALSE, !.lost = FALSE]
    BY <1>1 DEF Tab, With
  <2>2. Returns(b, t, x)
    BY <1>5, <2>1 DEF LoginReturns
  <2>3. submits' = submits
    BY <2>2 DEF Returns
  <2>4. Idle \in Request /\ e \in Forms \cup {"none"}
    BY <1>1, IdleOK, EnabledIs DEF ReqOK
  <2>5. /\ z \in Tab /\ z.call[f] = Idle /\ \A g \in Calls : g # f => z.call[g] = tab[b].call[g]
        /\ z.me = tab[b].me /\ z.loading = tab[b].loading
        /\ z.modal = tab[b].modal /\ z.page = tab[b].page
    BY <1>1, <2>4, WithIs
  <2> HIDE DEF z, e, t
  <2>6. /\ x \in Tab /\ x.call = z.call /\ x.user = r.user /\ x.late = FALSE
        /\ x.me = z.me /\ x.loading = z.loading /\ x.modal = z.modal /\ x.page = z.page
    BY <1>3, <2>4, <2>5 DEF Tab
  <2> HIDE DEF x, r
  <2>7. \A g \in Calls : ReqOK(x.call[g])
    BY <1>1, <2>5, <2>6, IdleOK DEF TabInv
  <2>8. /\ Modal(x)
        /\ x.loading => x.me.pc # "idle"
        /\ x.me.pc # "ok" => x.me.user = Nobody
    BY <1>1, <2>5, <2>6 DEF Modal, TabInv
  <2>9. Told(x)
    BY <1>1, <2>5, <2>6, ToldKept DEF TabInv
  <2>10. x.call[f].got = NoToken /\ x.call[f].token = NoToken
    BY <2>5, <2>6, IdleOK
  <2>11. x.user # Nobody
    BY <1>3, <2>6
  <2>12. life[t] # "unissued"
    BY <1>3
  <2>13. t \in {NoToken, tab[b].call[f].got}
    BY DEF t, r
  <2> QED
    BY <1>3, <1>4, <2>2, <2>3, <2>5, <2>6, <2>7, <2>8, <2>9, <2>10, <2>11, <2>12, <2>13, ReturnsStep
<1>6. CASE RegisterReturns(b, f)
  <2> DEFINE q == Sent("logout", Nobody, t)
             z == With(tab[b], f, q)
             x == [z EXCEPT !.drift = FALSE]
  <2>1. x = [tab[b] EXCEPT !.call[f] = q, !.drift = FALSE]
    BY <1>1 DEF Tab, With
  <2>2. Returns(b, t, x)
    BY <1>6, <2>1 DEF RegisterReturns
  <2>3. submits' = submits
    BY <2>2 DEF Returns
  <2>4. ReqOK(q) /\ q.pc = "sent" /\ q.kind = "logout" /\ q.token = t /\ q.got = NoToken
    BY <1>3, SentOK DEF Kinds
  <2> HIDE DEF q
  <2>5. /\ z \in Tab /\ z.call[f] = q /\ \A g \in Calls : g # f => z.call[g] = tab[b].call[g]
        /\ z.me = tab[b].me /\ z.loading = tab[b].loading /\ z.late = tab[b].late
        /\ z.told = tab[b].told /\ z.user = tab[b].user
        /\ z.modal = tab[b].modal /\ z.page = tab[b].page
    BY <1>1, <2>4, WithIs DEF ReqOK
  <2> HIDE DEF z
  <2>6. /\ x \in Tab /\ x.call = z.call /\ x.late = z.late /\ x.told = z.told /\ x.user = z.user
        /\ x.me = z.me /\ x.loading = z.loading /\ x.modal = z.modal /\ x.page = z.page
    BY <2>5 DEF Tab
  <2> HIDE DEF x
  <2>7. \A g \in Calls : ReqOK(x.call[g])
    BY <1>1, <2>4, <2>5, <2>6 DEF TabInv
  <2>8. /\ Modal(x)
        /\ x.loading => x.me.pc # "idle"
        /\ x.me.pc # "ok" => x.me.user = Nobody
    BY <1>1, <2>5, <2>6 DEF Modal, TabInv
  <2>9. Told(x)
    BY <1>1, <2>5, <2>6 DEF TabInv, Told
  <2>10. ~Settled(x)
    BY <2>4, <2>5, <2>6 DEF Settled, Leaving
  <2>11. x.call[f].got = NoToken /\ x.call[f].token = t
    BY <2>4, <2>5, <2>6
  <2>12. life[t] # "unissued" /\ t \in {NoToken, tab[b].call[f].got}
    BY <1>3
  <2> HIDE DEF t, r
  <2> QED
    BY <1>4, <2>2, <2>3, <2>5, <2>6, <2>7, <2>8, <2>9, <2>10, <2>11, <2>12, ReturnsStep
<1> QED
  BY <1>5, <1>6

LEMMA LogoutReturnsStep ==
  ASSUME IInv, NEW b \in Tabs, NEW f \in Calls, LogoutReturns(b, f)
  PROVE  IInv'
<1> DEFINE z == SignedOut(b, f)
           x == [z EXCEPT !.drift = FALSE, !.lost = FALSE]
           r == tab[b].call[f]
<1>1. tab[b] \in Tab /\ TabInv(tab[b]) /\ ReqOK(r)
  BY TabIs
<1>2. r.pc = "ok" /\ r.kind = "logout"
  BY DEF LogoutReturns
<1>3. /\ Returns(b, NoToken, x) /\ submits' = submits
      /\ revoked' = revoked \cup ({r.token} \ {NoToken})
  BY DEF LogoutReturns, Returns
<1>4. \A u \in revoked' : u \in Tokens /\ life[u] \in {"blacklisted", "expired"}
  BY <1>1, <1>2, <1>3, RevokedOK DEF ReqOK, Request
<1>5. /\ z \in Tab /\ z.user = Nobody /\ z.modal = FALSE /\ z.late = FALSE
      /\ z.call[f] = Idle /\ \A g \in Calls : g # f => z.call[g] = tab[b].call[g]
      /\ z.me = tab[b].me /\ z.loading = tab[b].loading
  BY <1>1, SignedOutIs
<1> HIDE DEF z
<1>6. /\ x \in Tab /\ x.call = z.call /\ x.me = z.me /\ x.user = Nobody
      /\ x.loading = z.loading /\ x.modal = FALSE /\ x.late = FALSE
  BY <1>5 DEF Tab
<1> HIDE DEF x, r
<1>7. \A g \in Calls : ReqOK(x.call[g])
  BY <1>1, <1>5, <1>6, IdleOK DEF TabInv
<1>8. /\ Modal(x)
      /\ x.loading => x.me.pc # "idle"
      /\ x.me.pc # "ok" => x.me.user = Nobody
  BY <1>1, <1>5, <1>6 DEF TabInv, Modal
<1>9. Told(x)
  BY <1>1, <1>5, <1>6, ToldKept DEF TabInv
<1>10. x.call[f].got = NoToken /\ x.call[f].token = NoToken
  BY <1>5, <1>6, IdleOK
<1>11. LifeOf(NoToken) # "live"
  BY DEF LifeOf
<1> QED
  BY <1>3, <1>4, <1>5, <1>6, <1>7, <1>8, <1>9, <1>10, <1>11, ReturnsStep

-----------------------------------------------------------------------------
(* The server's steps. *)

\* Tokens age, t0 is blacklisted if it is a token; a tab stays as it is or drifts.
LEMMA TabKept ==
  ASSUME IInv, NEW t0 \in Tokens \cup {NoToken}, Ages(t0), cookie' = cookie, NEW c \in Tabs,
         \A d \in Tabs, g \in Calls : t0 # NoToken => tab[d].call[g].got # t0,
         \/ tab'[c] = tab[c] /\ t0 = NoToken
         \/ tab'[c] = [tab[c] EXCEPT !.drift = TRUE]
  PROVE  /\ tab'[c] \in Tab /\ Modal(tab'[c]) /\ TabInv(tab[c])'
         /\ tab'[c].call = tab[c].call
<1>1. tab[c] \in Tab /\ Modal(tab[c]) /\ TabInv(tab[c]) /\ TypeOK /\ Rest
  BY TabIs DEF IInv
<1>2. PICK w : w = tab'[c]
  OBVIOUS
<1>3. CASE tab'[c] = tab[c] /\ t0 = NoToken
  <2>1. TabInv(w)'
    BY <1>1, <1>2, <1>3, TabAges
  <2> QED
    BY <1>1, <1>2, <1>3, <2>1
<1>4. CASE tab'[c] = [tab[c] EXCEPT !.drift = TRUE]
  <2>1. /\ w \in Tab /\ Modal(w) /\ w.call = tab[c].call /\ w.user = tab[c].user
        /\ w.me = tab[c].me /\ w.loading = tab[c].loading /\ w.drift = TRUE
        /\ w.late = tab[c].late /\ w.told = tab[c].told
    BY <1>1, <1>2, <1>4 DEF Tab, Modal
  <2>2. TabInv(w) /\ ~Settled(w)
    BY <1>1, <2>1 DEF TabInv, Shows, MeTells, Told, Settled
  <2>3. t0 # NoToken => \A f \in Calls : w.call[f].got # t0
    BY <2>1
  <2>4. TabInv(w)'
    BY <1>1, <2>1, <2>2, <2>3, TabAges
  <2> QED
    BY <1>2, <2>1, <2>4
<1> QED
  BY <1>3, <1>4

LEMMA RevokesKept ==
  ASSUME IInv, NEW t0, Ages(t0), revoked' = revoked
  PROVE  LogoutRevokes'
  BY DEF IInv, TypeOK, Ages, LogoutRevokes, Lives

LEMMA RestKept ==
  ASSUME IInv, NEW t0 \in Tokens \cup {NoToken}, Ages(t0), cookie' = cookie, stray' \subseteq stray
  PROVE  Rest' /\ stray' \subseteq Request
<1>1. ASSUME NEW r \in stray' PROVE ReqOK(r)' /\ r.pc = "sent" /\ r \in Request
  <2>1. ReqOK(r) /\ r.pc = "sent"
    BY DEF IInv, Rest
  <2>2. r.got = NoToken
    BY <2>1 DEF ReqOK
  <2>3. r.got # t0 \/ t0 = NoToken
    BY <2>2
  <2> QED
    BY <2>1, <2>3, ReqAges DEF ReqOK
<1>2. cookie' # NoToken => life'[cookie'] # "unissued"
  BY DEF IInv, Rest, Ages, TypeOK
<1> QED
  BY <1>1, <1>2 DEF Rest

LEMMA ExpireStep ==
  ASSUME IInv, NEW t \in Tokens, Expire(t)
  PROVE  IInv'
<1>1. /\ life[t] = "live" /\ life' = [life EXCEPT ![t] = "expired"]
      /\ UNCHANGED <<accounts, owner, cookie, tab, stray, revoked, reloads, submits>>
  BY DEF Expire
<1>2. Ages(NoToken)
  BY <1>1 DEF Ages, IInv, TypeOK, Lives
<1>3. \A c \in Tabs : TabInv(tab[c])'
  BY <1>1, <1>2, TabKept
<1>4. TypeOK'
  BY <1>1, <1>2 DEF Ages, IInv, TypeOK
<1>5. Fresh'
  BY <1>1 DEF IInv, Fresh, Unknown
<1> QED
  BY <1>1, <1>2, <1>3, <1>4, <1>5, RevokesKept, RestKept DEF IInv

LEMMA LoseStep ==
  ASSUME IInv, LoseStray
  PROVE  IInv'
<1>1. /\ stray' \subseteq stray
      /\ UNCHANGED <<accounts, life, owner, cookie, tab, revoked, reloads, submits>>
  BY DEF LoseStray
<1>2. Ages(NoToken)
  BY <1>1, AgesFrame DEF IInv
<1>3. \A c \in Tabs : TabInv(tab[c])'
  BY <1>1, <1>2, TabKept
<1>4. TypeOK'
  BY <1>1, <1>2, RestKept DEF IInv, TypeOK
<1>5. Fresh'
  BY <1>1 DEF IInv, Fresh, Unknown
<1> QED
  BY <1>1, <1>2, <1>3, <1>4, <1>5, RevokesKept, RestKept DEF IInv

\* A token that no tab's answer holds is unknown before it is issued.
LEMMA UnissuedUnknown ==
  ASSUME IInv, NEW t \in Tokens, life[t] = "unissued"
  PROVE  Unknown(t) /\ \A c \in Tabs, f \in Calls : tab[c].call[f].got # t
<1>1. \A c \in Tabs, f \in Calls : ReqOK(tab[c].call[f])
  BY TabIs
<1>2. \A r \in stray : ReqOK(r)
  BY DEF IInv, Rest
<1>3. ASSUME NEW r, ReqOK(r) PROVE r.token # t /\ r.got # t
  BY <1>3 DEF ReqOK
<1>4. cookie # t
  BY DEF IInv, Rest
<1> QED
  BY <1>1, <1>2, <1>3, <1>4 DEF Unknown

LEMMA ServeStrayStep ==
  ASSUME IInv, ServeStray
  PROVE  IInv'
<1>1. PICK r \in stray, t \in Tokens \cup {NoToken} :
        /\ Executed(r, t) /\ stray' = stray \ {r}
        /\ tab' = [x \in Tabs |-> [tab[x] EXCEPT !.drift = @ \/ r.kind = "logout"]]
        /\ UNCHANGED <<cookie, revoked, reloads, submits>>
  BY DEF ServeStray
<1> DEFINE t0 == IF r.kind = "logout" THEN r.token ELSE NoToken
<1>2. ReqOK(r) /\ TypeOK /\ tab \in [Tabs -> Tab]
  BY DEF IInv, Rest, TypeOK
<1>3. t0 \in Tokens \cup {NoToken} /\ Ages(t0) /\ accounts' \subseteq Users
  BY <1>1, <1>2, ExecutedIs DEF ReqOK, Request
<1>4. \A d \in Tabs, g \in Calls : t0 # NoToken => tab[d].call[g].got # t0
  BY <1>1 DEF IInv, Fresh, Unknown
<1>5. ASSUME NEW c \in Tabs
      PROVE  \/ tab'[c] = tab[c] /\ t0 = NoToken
             \/ tab'[c] = [tab[c] EXCEPT !.drift = TRUE]
  <2>1. tab[c] \in Tab
    BY <1>2
  <2>2. CASE r.kind = "logout"
    BY <1>1, <2>2
  <2>3. CASE r.kind # "logout"
    <3> DEFINE d == tab[c].drift \/ r.kind = "logout"
    <3>1. d = tab[c].drift
      BY <2>1, <2>3 DEF Tab
    <3>2. tab'[c] = [tab[c] EXCEPT !.drift = d]
      BY <1>1
    <3> HIDE DEF d
    <3>3. tab'[c] = tab[c]
      BY <2>1, <3>1, <3>2 DEF Tab
    <3> QED
      BY <2>3, <3>3
  <2> QED
    BY <2>2, <2>3
<1> HIDE DEF t0
<1>6. ASSUME NEW c \in Tabs
      PROVE  /\ tab'[c] \in Tab /\ Modal(tab'[c]) /\ TabInv(tab[c])'
             /\ tab'[c].call = tab[c].call
  BY <1>1, <1>3, <1>4, <1>5, TabKept
<1>7. TypeOK'
  <2>1. tab' \in [Tabs -> Tab]
    BY <1>1, <1>6
  <2>2. stray' \subseteq Request
    BY <1>1, <1>3, RestKept
  <2> QED
    BY <1>1, <1>2, <1>3, <1>6, <2>1, <2>2 DEF Ages, TypeOK, Modal
<1>8. Fresh'
  BY <1>1, <1>6 DEF IInv, Fresh, Unknown
<1> QED
  BY <1>1, <1>3, <1>6, <1>7, <1>8, RevokesKept, RestKept DEF IInv

LEMMA ServeStep ==
  ASSUME IInv, NEW b \in Tabs, NEW f \in Calls, Serve(b, f)
  PROVE  IInv'
<1>0. PICK r : r = tab[b].call[f]
  OBVIOUS
<1>1. PICK t \in Tokens \cup {NoToken} :
        /\ Executed(r, t)
        /\ tab' = LET T == [tab EXCEPT ![b].call[f].pc = "ok", ![b].call[f].got = t]
                  IN  IF r.kind = "logout" THEN Drifting(b, T) ELSE T
  BY <1>0 DEF Serve
<1>2. r.pc = "sent" /\ UNCHANGED <<cookie, stray, revoked, reloads, submits>>
  BY <1>0 DEF Serve
<1>3. tab \in [Tabs -> Tab] /\ tab[b] \in Tab /\ Modal(tab[b]) /\ TabInv(tab[b]) /\ TypeOK
  BY TabIs DEF IInv, TypeOK
<1>4. r \in Request /\ ReqOK(r)
  BY <1>0, TabIs
<1> DEFINE t0 == IF r.kind = "logout" THEN r.token ELSE NoToken
           q == [r EXCEPT !.pc = "ok", !.got = t]
           T == [tab EXCEPT ![b] = With(tab[b], f, q)]
<1>5. /\ q \in Request /\ q.pc = "ok" /\ q.kind = r.kind /\ q.user = r.user
      /\ q.token = r.token /\ q.got = t
  BY <1>4 DEF Request
<1>6. /\ t0 \in Tokens \cup {NoToken} /\ Ages(t0) /\ accounts' \subseteq Users
      /\ r.kind = "logout" =>
           t = NoToken /\ (r.token # NoToken => life'[r.token] \in {"blacklisted", "expired"})
      /\ r.kind # "logout" =>
           t \in Tokens /\ life[t] = "unissued" /\ life'[t] = "live" /\ owner'[t] = r.user
  BY <1>1, <1>3, <1>4, ExecutedIs DEF Request
<1>7. tab' = IF r.kind = "logout" THEN Drifting(b, T) ELSE T
  <2>1. [tab EXCEPT ![b].call[f].pc = "ok", ![b].call[f].got = t] = T
    <3>1. tab[b].call \in [Calls -> Request]
      BY <1>3 DEF Tab
    <3> DEFINE p == [r EXCEPT !.pc = "ok"]
               c == [tab[b].call EXCEPT ![f] = p]
               y == [tab[b] EXCEPT !.call = c]
               U == [tab EXCEPT ![b] = y]
    <3>2. [tab EXCEPT ![b].call[f].pc = "ok"] = U
      BY <1>0
    <3>3. U[b] = y /\ y.call = c /\ c[f] = p
      BY <1>3, <3>1 DEF Tab
    <3>4. [U EXCEPT ![b].call[f].got = t]
            = [U EXCEPT ![b] = [y EXCEPT !.call = [c EXCEPT ![f] = [p EXCEPT !.got = t]]]]
      BY <3>3
    <3>5. [c EXCEPT ![f] = [p EXCEPT !.got = t]] = [tab[b].call EXCEPT ![f] = q]
      BY <3>1
    <3>6. [y EXCEPT !.call = [tab[b].call EXCEPT ![f] = q]] = With(tab[b], f, q)
      BY <1>3 DEF With, Tab
    <3>7. \A v : [U EXCEPT ![b] = v] = [tab EXCEPT ![b] = v]
      BY <1>3
    <3> HIDE DEF U, y, c, p, q
    <3> QED
      BY <3>2, <3>4, <3>5, <3>6, <3>7
  <2> QED
    BY <1>1, <2>1
<1> HIDE DEF q
<1>20. PICK x : x = With(tab[b], f, q)
  OBVIOUS
<1>8. /\ x \in Tab /\ x.call[f] = q /\ \A g \in Calls : g # f => x.call[g] = tab[b].call[g]
      /\ x.user = tab[b].user /\ x.loading = tab[b].loading /\ x.me = tab[b].me
      /\ x.drift = tab[b].drift /\ x.lost = tab[b].lost /\ x.late = tab[b].late
      /\ x.told = tab[b].told
      /\ x.modal = tab[b].modal /\ x.page = tab[b].page
  BY <1>3, <1>5, <1>20, WithIs
<1> HIDE DEF t0
<1>9. tab'[b] = x
  BY <1>3, <1>7, <1>20 DEF Drifting
<1>10. t0 # NoToken => r.kind = "logout" /\ t0 = r.token
  BY DEF t0
<1>11. \A d \in Tabs, g \in Calls : t0 # NoToken => tab[d].call[g].got # t0
  BY <1>0, <1>10 DEF IInv, Fresh, Unknown
<1>12. ASSUME NEW c \in Tabs, c # b
       PROVE  /\ tab'[c] \in Tab /\ Modal(tab'[c]) /\ TabInv(tab[c])'
              /\ tab'[c].call = tab[c].call
  <2>1. \/ tab'[c] = tab[c] /\ t0 = NoToken
        \/ tab'[c] = [tab[c] EXCEPT !.drift = TRUE]
    <3>1. T[c] = tab[c]
      BY <1>3, <1>12
    <3> QED
      BY <1>7, <1>10, <1>12, <3>1 DEF Drifting
  <2> QED
    BY <1>2, <1>6, <1>11, <2>1, TabKept
<1>13. ReqOK(q)'
  BY <1>2, <1>4, <1>5, <1>6 DEF ReqOK, Ages, Lives, Request
<1>14. \A g \in Calls : ReqOK(x.call[g])'
  <2>1. \A g \in Calls : ReqOK(tab[b].call[g]) /\ (t0 # NoToken => tab[b].call[g].got # t0)
    BY <1>3, <1>11 DEF TabInv
  <2>2. ASSUME NEW g \in Calls PROVE ReqOK(x.call[g])'
    <3>1. CASE g = f
      BY <1>8, <1>13, <3>1
    <3>2. CASE g # f
      <4>1. PICK k : k = x.call[g]
        OBVIOUS
      <4>2. ReqOK(k)'
        BY <1>6, <1>8, <2>1, <3>2, <4>1, ReqAges
      <4> QED
        BY <4>1, <4>2
    <3> QED
      BY <3>1, <3>2
  <2> QED
    BY <2>2
<1>15. TabInv(x)'
  <2>1. PICK w \in Tab : w = tab[b]
    BY <1>3
  <2>2. PICK v : v = [w EXCEPT !.drift = TRUE]
    OBVIOUS
  <2>3. /\ v \in Tab /\ v.call = w.call /\ v.user = w.user /\ v.me = w.me
        /\ v.loading = w.loading /\ v.late = w.late /\ v.told = w.told /\ v.drift = TRUE
    BY <2>1, <2>2 DEF Tab
  <2>4. TabInv(v) /\ ~Settled(v)
    BY <1>3, <2>1, <2>3 DEF TabInv, Shows, MeTells, Told, Settled
  <2>5. t0 # NoToken => \A g \in Calls : v.call[g].got # t0
    BY <1>11, <2>1, <2>3
  <2>6. TabInv(v)'
    BY <1>2, <1>3, <1>6, <2>3, <2>4, <2>5, TabAges DEF IInv
  <2>7. Told(x)'
    BY <1>8, <2>1, <2>3, <2>6 DEF TabInv, Told
  <2>8. CASE r.kind = "logout"
    <3>1. ~Settled(x)
      BY <1>5, <1>8, <2>8 DEF Settled, Leaving
    <3> QED
      BY <1>3, <1>8, <1>14, <2>7, <3>1 DEF TabInv, Shows, MeTells, Settled, Leaving
  <2>9. CASE r.kind # "logout"
    <3>1. t0 = NoToken
      BY <1>10, <2>9
    <3>2. TabInv(w)'
      BY <1>2, <1>3, <1>6, <2>1, <3>1, TabAges DEF IInv
    <3>3. Settled(x) => Settled(w)
      BY <1>0, <1>8, <2>1, <2>9 DEF Settled, Leaving
    <3> QED
      BY <1>8, <1>14, <2>1, <2>7, <3>2, <3>3 DEF TabInv, Shows, MeTells, Settled, Leaving
  <2> QED
    BY <2>8, <2>9
<1>16. Modal(x)
  BY <1>3, <1>8 DEF Modal
<1>17. ASSUME NEW c \in Tabs PROVE tab'[c] \in Tab /\ Modal(tab'[c]) /\ TabInv(tab[c])'
  <2>1. CASE c = b
    BY <1>8, <1>9, <1>15, <1>16, <2>1
  <2>2. CASE c # b
    BY <1>12, <2>2
  <2> QED
    BY <2>1, <2>2
<1>18. TypeOK'
  <2>1. tab' \in [Tabs -> Tab]
    BY <1>3, <1>7, <1>17 DEF Drifting
  <2> QED
    BY <1>2, <1>3, <1>6, <1>17, <2>1 DEF Ages, TypeOK, Modal
<1>19. Fresh'
  <2>1. \A c \in Tabs, g \in Calls : /\ tab'[c].call[g].token = tab[c].call[g].token
                                     /\ c # b \/ g # f => tab'[c].call[g] = tab[c].call[g]
    BY <1>0, <1>5, <1>8, <1>9, <1>12
  <2>2. \A g : Unknown(g) => Unknown(g)'
    BY <1>2, <2>1 DEF Unknown
  <2>3. tab'[b].call[f].got = t
    BY <1>5, <1>8, <1>9
  <2>4. Fresh
    BY DEF IInv
  <2>5. CASE r.kind # "logout"
    <3>1. Unknown(t) /\ \A c \in Tabs, g \in Calls : tab[c].call[g].got # t
      BY <1>6, <2>5, UnissuedUnknown
    <3>2. ASSUME NEW c \in Tabs, NEW g \in Calls, tab'[c].call[g].got # NoToken
          PROVE  Unknown(tab[c].call[g].got)' \/ (c = b /\ g = f)
      <4>1. CASE c # b \/ g # f
        <5>1. PICK h : h = tab[c].call[g].got
          OBVIOUS
        <5>2. tab'[c].call[g].got = h
          BY <2>1, <4>1, <5>1
        <5>3. Unknown(h)'
          BY <2>2, <2>4, <3>2, <5>1, <5>2 DEF Fresh
        <5> QED
          BY <5>1, <5>2, <5>3
      <4> QED
        BY <4>1
    <3>3. ASSUME NEW c \in Tabs, NEW g \in Calls, tab'[c].call[g].got # NoToken
          PROVE  Unknown(tab[c].call[g].got)'
      <4>1. CASE c = b /\ g = f
        <5>1. Unknown(t)'
          BY <2>2, <3>1
        <5> QED
          BY <2>3, <4>1, <5>1
      <4> QED
        BY <3>2, <3>3, <4>1
    <3>4. \A c, d \in Tabs, g, k \in Calls :
            (c # d \/ g # k) /\ tab'[c].call[g].got # NoToken =>
              tab'[c].call[g].got # tab'[d].call[k].got
      BY <2>1, <2>3, <2>4, <3>1 DEF Fresh
    <3> QED
      BY <3>3, <3>4 DEF Fresh
  <2>6. CASE r.kind = "logout"
    <3>1. t = NoToken
      BY <1>6, <2>6
    <3>2. \A c \in Tabs, g \in Calls :
            tab'[c].call[g].got # NoToken => tab'[c].call[g].got = tab[c].call[g].got
      BY <2>1, <2>3, <3>1
    <3>3. ASSUME NEW c \in Tabs, NEW g \in Calls, tab'[c].call[g].got # NoToken
          PROVE  Unknown(tab[c].call[g].got)'
      <4>1. PICK h : h = tab[c].call[g].got
        OBVIOUS
      <4>2. tab'[c].call[g].got = h
        BY <3>2, <3>3, <4>1
      <4>3. Unknown(h)'
        BY <2>2, <2>4, <3>3, <4>1, <4>2 DEF Fresh
      <4> QED
        BY <4>2, <4>3
    <3>4. ASSUME NEW c \in Tabs, NEW d \in Tabs, NEW g \in Calls, NEW k \in Calls,
                 c # d \/ g # k, tab'[c].call[g].got # NoToken
          PROVE  tab'[c].call[g].got # tab'[d].call[k].got
      <4>1. CASE tab'[d].call[k].got = NoToken
        BY <3>4, <4>1
      <4>2. CASE tab'[d].call[k].got # NoToken
        <5>1. tab[c].call[g].got # NoToken => tab[c].call[g].got # tab[d].call[k].got
          BY <2>4, <3>4 DEF Fresh
        <5> QED
          BY <3>2, <3>4, <4>2, <5>1
      <4> QED
        BY <4>1, <4>2
    <3> QED
      BY <3>3, <3>4 DEF Fresh
  <2> QED
    BY <2>5, <2>6
<1> QED
  BY <1>2, <1>6, <1>17, <1>18, <1>19, RevokesKept, RestKept DEF IInv

-----------------------------------------------------------------------------
(* The theorems. *)

LEMMA InitHolds == Init => IInv
<1> SUFFICES ASSUME Init PROVE IInv
  OBVIOUS
<1>1. /\ accounts \subseteq Users /\ cookie \in Tokens \cup {NoToken}
      /\ stray = {} /\ revoked = {} /\ reloads = 0 /\ submits = 0
      /\ life = [t \in Tokens |-> IF t = cookie THEN "live" ELSE "unissued"]
      /\ tab = [b \in Tabs |-> Loaded("inside")]
  BY DEF Init
<1>2. PICK u \in Users \cup {Nobody} :
        /\ owner = [t \in Tokens |-> IF t = cookie THEN u ELSE Nobody]
        /\ cookie # NoToken => u # Nobody
  BY <1>1 DEF Init
<1>3. PICK x : x = Loaded("inside")
  OBVIOUS
<1>4. \A b \in Tabs : tab[b] = x
  BY <1>1, <1>3
<1>5. ReqOK(Idle) /\ Idle.pc = "idle" /\ Idle.kind = "logout" /\ Idle.got = NoToken
      /\ Idle.token = NoToken
  BY IdleOK
<1>6. /\ x \in Tab /\ x.call = [f \in Calls |-> Idle] /\ x.loading /\ x.user = Nobody
      /\ x.modal = FALSE /\ x.page = "inside" /\ x.late = FALSE
      /\ x.me.pc = "sent" /\ x.me.token = cookie /\ x.me.user = Nobody
  <2>1. Idle \in Request
    BY <1>5 DEF ReqOK
  <2> QED
    BY <1>1, <1>3, <2>1 DEF Loaded, Tab, Me, NoMe
<1>7. TabInv(x)
  BY <1>1, <1>5, <1>6 DEF TabInv, Shows, MeTells, Told, Issued
<1>8. TypeOK
  <2>1. life \in [Tokens -> Lives] /\ owner \in [Tokens -> Users \cup {Nobody}]
    BY <1>1, <1>2 DEF Lives
  <2>2. \A t \in Tokens : life[t] = "unissued" <=> owner[t] = Nobody
    BY <1>1, <1>2
  <2>3. tab \in [Tabs -> Tab]
    BY <1>1, <1>4, <1>6
  <2> QED
    BY <1>1, <1>4, <1>6, <2>1, <2>2, <2>3 DEF TypeOK
<1>9. Fresh
  BY <1>4, <1>5, <1>6 DEF Fresh
<1>10. Rest /\ LogoutRevokes
  BY <1>1 DEF Rest, LogoutRevokes
<1> QED
  BY <1>4, <1>7, <1>8, <1>9, <1>10 DEF IInv

LEMMA StutterHolds ==
  ASSUME IInv, UNCHANGED vars
  PROVE  IInv'
  BY DEF vars, IInv, TypeOK, TabInv, ReqOK, Shows, MeTells, Told, Vouches, Issued, Settled,
         Leaving, Signed, LifeOf, Fresh, Unknown, Rest, LogoutRevokes

\* Whatever the server, a user or an answer does next, the invariant survives it.
THEOREM SessionInductive == Spec => []IInv
<1>1. IInv /\ [Next]_vars => IInv'
  <2> SUFFICES ASSUME IInv, [Next]_vars PROVE IInv'
    OBVIOUS
  <2>1. CASE ServerStep
    <3>1. CASE \E b \in Tabs : ServeMe(b)
      BY <3>1, ServeMeStep
    <3>2. CASE \E b \in Tabs, f \in Calls : Serve(b, f) \/ Refuse(b, f)
      BY <3>2, ServeStep, RefuseStep
    <3>3. CASE \E t \in Tokens : Expire(t)
      BY <3>3, ExpireStep
    <3>4. CASE ServeStray \/ LoseStray
      BY <3>4, ServeStrayStep, LoseStep
    <3> QED
      BY <2>1, <3>1, <3>2, <3>3, <3>4 DEF ServerStep
  <2>2. ASSUME NEW b \in Tabs, UserStep(b) PROVE IInv'
    BY <2>2, NavigationStep, SubmitStep, ReloadStep DEF UserStep
  <2>3. ASSUME NEW b \in Tabs, AnswerStep(b) PROVE IInv'
    <3>1. CASE MeAnswers(b) \/ MeAborts(b)
      BY <3>1, MeStep
    <3>2. CASE \E f \in Calls : LoginReturns(b, f) \/ RegisterReturns(b, f)
      BY <3>2, FormReturnsStep
    <3>3. CASE \E f \in Calls : FormFails(b, f)
      BY <3>3, FormFailsStep
    <3>4. CASE \E f \in Calls : LogoutReturns(b, f) \/ LogoutFails(b, f)
      BY <3>4, LogoutReturnsStep, LogoutFailsStep
    <3> QED
      BY <2>3, <3>1, <3>2, <3>3, <3>4 DEF AnswerStep, Calls
  <2>4. CASE UNCHANGED vars
    BY <2>4, StutterHolds
  <2> QED
    BY <2>1, <2>2, <2>3, <2>4 DEF Next
<1> QED
  BY InitHolds, <1>1, PTL DEF Spec

\* Every variable keeps its type, a token has an owner once it is issued, and the logout modal
\* never outlives its page.
THEOREM SessionTypes == Spec => []TypeOK
<1>1. IInv => TypeOK
  BY DEF IInv
<1> QED
  BY SessionInductive, <1>1, PTL

\* A tab that nothing is under way in is settled.
LEMMA QuietSettled ==
  ASSUME NEW b \in Tabs, Quiet(b)
  PROVE  Settled(tab[b])
  BY DEF Quiet, Settled, Leaving

\* The user a quiet tab shows is the one the cookie signs in, unless a GET /me told it that a
\* login or logout of the tab overtook: then it is the owner of the cookie that GET carried
\* (AuthProvider.tsx: login, register, logout and the GET /me of the mount set the user).
THEOREM SignedInIsTruthful == Spec => []SignedInTruthful
<1>1. IInv => SignedInTruthful
  <2> SUFFICES ASSUME IInv, NEW b \in Tabs, tab[b].user # Nobody, Quiet(b)
               PROVE  IF tab[b].late THEN owner[tab[b].told] = tab[b].user
                      ELSE LifeOf(cookie) \in {"live", "expired"} /\ owner[cookie] = tab[b].user
    BY DEF SignedInTruthful
  <2>1. TabInv(tab[b]) /\ Settled(tab[b])
    BY QuietSettled DEF IInv
  <2>2. CASE tab[b].late
    BY <2>1, <2>2 DEF TabInv, Told, Vouches
  <2>3. CASE ~tab[b].late
    <3>1. Signed(tab[b].user)
      BY <2>1, <2>3 DEF TabInv, Shows
    <3> QED
      BY <2>3, <3>1 DEF Signed, LifeOf
  <2> QED
    BY <2>2, <2>3
<1> QED
  BY SessionInductive, <1>1, PTL

\* A quiet tab that shows nobody has no live session left in the cookie, unless a failure or a
\* GET /me that a login overtook is behind it; then the cookie that this GET carried is none
\* (AuthProvider.tsx: register, logout, fetchUser).
THEOREM SignedOutIsTruthful == Spec => []SignedOutTruthful
<1>1. IInv => SignedOutTruthful
  <2> SUFFICES ASSUME IInv, NEW b \in Tabs, tab[b].user = Nobody, ~tab[b].loading, ~tab[b].lost,
                      Quiet(b)
               PROVE  LifeOf(IF tab[b].late THEN tab[b].told ELSE cookie) # "live"
    BY DEF SignedOutTruthful
  <2>1. TabInv(tab[b]) /\ Settled(tab[b])
    BY QuietSettled DEF IInv
  <2>2. CASE tab[b].late
    BY <2>1, <2>2 DEF TabInv, Told, Vouches
  <2>3. CASE ~tab[b].late
    BY <2>1, <2>3 DEF TabInv, Shows
  <2> QED
    BY <2>2, <2>3
<1> QED
  BY SessionInductive, <1>1, PTL

\* A token is never accepted again once the logout it was sent with has returned (auth.py:
\* logout_user and get_current_user).
THEOREM LogoutHolds == Spec => []LogoutRevokes
<1>1. IInv => LogoutRevokes
  BY DEF IInv
<1> QED
  BY SessionInductive, <1>1, PTL

\* A spinner always has a GET /me that will end it (AuthProvider.tsx: setLoading).
THEOREM WaitingAlwaysEnds == Spec => []WaitingEnds
<1>1. IInv => WaitingEnds
  BY DEF IInv, TabInv, WaitingEnds
<1> QED
  BY SessionInductive, <1>1, PTL
=============================================================================

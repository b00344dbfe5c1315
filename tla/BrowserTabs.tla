------------------------------ MODULE BrowserTabs ------------------------------
(***************************************************************************)
(* The tabs of one browser and the authentication routes                   *)
(* (interfaces/http/web/auth.py, admin/auth.py and middleware/auth.py):    *)
(* the tabs share one cookie jar and send their requests independently.    *)
(* A request carries the cookies of the moment it is sent; an answer sets  *)
(* and deletes cookies by name when it arrives, whatever other answers     *)
(* have set meanwhile.                                                     *)
(*                                                                         *)
(* Login transactions and sessions are numbered as they are made; a number *)
(* stands for the random id, and for the state or CSRF token that is kept  *)
(* under it; 0 is none.  The inside of complete_login is in AuthSessions:  *)
(* a transaction is taken at once and a session is known to nobody before  *)
(* its cookie arrives, so a callback is one step here.                     *)
(***************************************************************************)
EXTENDS Naturals

CONSTANTS Tabs,
          FrontOf,    \* tab -> the frontend whose page it shows, "web" or "admin"
          MaxIds      \* bound: transactions and sessions made

Fronts == {"web", "admin"}

ASSUME TabsAssumption == FrontOf \in [Tabs -> Fronts] /\ MaxIds \in Nat

VARIABLES jar,     \* surface -> its cookies: [tx, session]
          kept,    \* the login transactions in Redis, as <<surface, id>>
          store,   \* the sessions in Redis, as <<surface, id>>
          ids,     \* how many have been made
          tab,     \* tab -> [shows: session its page has read from /me, at: transaction it took to the provider]
          net,     \* tab -> its request or the answer to it
          closed   \* sessions whose logout the browser was answered

tabsVars == <<jar, kept, store, ids, tab, net, closed>>

Quiet == [step |-> "idle", kind |-> "none", to |-> "web", tx |-> 0, session |-> 0, value |-> 0, id |-> 0]
NewPage == [shows |-> 0, at |-> 0]

TabsInit == /\ jar = [f \in Fronts |-> [tx |-> 0, session |-> 0]]
            /\ kept = {} /\ store = {} /\ ids = 0 /\ closed = {}
            /\ tab = [x \in Tabs |-> NewPage] /\ net = [x \in Tabs |-> Quiet]

-----------------------------------------------------------------------------
(* What a tab sends.                                                       *)

Send(x, kind, to, value) ==
  /\ net[x].step = "idle"
  /\ net' = [net EXCEPT ![x] = [step |-> "asked", kind |-> kind, to |-> to, tx |-> jar[to].tx,
                                session |-> jar[to].session, value |-> value, id |-> 0]]
  /\ UNCHANGED <<jar, kept, store, ids, tab, closed>>

\* Login, or Me: GET, so neither origin nor token is asked for.
Visit(x) == \E kind \in {"login", "me"} : Send(x, kind, FrontOf[x], 0)

\* The provider sends the browser back with a code, or with an error.
ComeBack(x) == /\ tab[x].at # 0
               /\ \E kind \in {"callback", "error"} : Send(x, kind, FrontOf[x], tab[x].at)

\* An unsafe method: the page adds the token it has read, for either surface.
Order(x) == \E kind \in {"order", "logout"}, to \in Fronts : Send(x, kind, to, tab[x].shows)

-----------------------------------------------------------------------------
(* What the server does.  id is what the answer brings, 0 for a refusal.   *)

TabNow(x, step, id) == net' = [net EXCEPT ![x] = [@ EXCEPT !.step = step, !.id = id]]
AnswerWith(x, id) == TabNow(x, "answered", id)
Asked(x, kinds) == net[x].step = "asked" /\ net[x].kind \in kinds

\* begin_login; without an authorization URL the transaction is deleted again.
LoginRoute(x) ==
  /\ Asked(x, {"login"})
  /\ \/ /\ ids < MaxIds /\ ids' = ids + 1 /\ AnswerWith(x, ids + 1)
        /\ kept' = kept \cup {<<net[x].to, ids + 1>>}
     \/ UNCHANGED <<ids, kept>> /\ AnswerWith(x, 0)
  /\ UNCHANGED <<jar, store, tab, closed>>

\* callback: the transaction that the cookie names is used up, its state compared.
StateMatches(r) == <<r.to, r.tx>> \in kept /\ r.value = r.tx

CallbackRoute(x) ==
  LET r == net[x] IN
  /\ Asked(x, {"callback"})
  /\ kept' = kept \ {<<r.to, r.tx>>}
  /\ \/ /\ StateMatches(r) /\ ids < MaxIds
        /\ ids' = ids + 1 /\ store' = store \cup {<<r.to, ids + 1>>} /\ AnswerWith(x, ids + 1)
     \/ UNCHANGED <<ids, store>> /\ AnswerWith(x, 0)
  /\ UNCHANGED <<jar, tab, closed>>

\* The web callback cancels the transaction of the cookie; the admin callback
\* requires a code and answers 422 without one.
ErrorRoute(x) ==
  /\ Asked(x, {"error"})
  /\ kept' = IF net[x].to = "web" THEN kept \ {<<net[x].to, net[x].tx>>} ELSE kept
  /\ AnswerWith(x, 0)
  /\ UNCHANGED <<jar, store, ids, tab, closed>>

\* get_browser_session
HasSession(r) == <<r.to, r.session>> \in store

MeRoute(x) ==
  /\ Asked(x, {"me"})
  /\ AnswerWith(x, IF HasSession(net[x]) THEN net[x].session ELSE 0)
  /\ UNCHANGED <<jar, kept, store, ids, tab, closed>>

\* validate_csrf of the surface that is asked
OriginAlone(x) == FrontOf[x] = net[x].to                              \* mutants of CsrfValid
AnyToken(x) == FrontOf[x] = net[x].to /\ net[x].value # 0
CsrfValid(x) == FrontOf[x] = net[x].to /\ net[x].value # 0 /\ net[x].value = net[x].session

\* _session lets an unsafe request in, and then its handler runs.
Enter(x) ==
  /\ Asked(x, {"order", "logout"})
  /\ IF HasSession(net[x]) /\ CsrfValid(x)
     THEN TabNow(x, "entered", net[x].session)
     ELSE AnswerWith(x, 0)
  /\ UNCHANGED <<jar, kept, store, ids, tab, closed>>

KeepSession(r) == store                                              \* mutant of EndSession
EndSession(r) == IF r.kind = "logout" THEN store \ {<<r.to, r.session>>} ELSE store

Act(x) ==
  /\ net[x].step = "entered"
  /\ store' = EndSession(net[x])
  /\ AnswerWith(x, net[x].id)
  /\ UNCHANGED <<jar, kept, ids, tab, closed>>

\* Redis forgets, or get_browser_session deletes what it finds expired.
Expire(k) ==
  /\ k \in kept \cup store
  /\ kept' = kept \ {k} /\ store' = store \ {k}
  /\ UNCHANGED <<jar, ids, tab, net, closed>>

-----------------------------------------------------------------------------
(* What the browser does with an answer.                                   *)

KeepCookie(f) == [jar EXCEPT ![f].tx = 0]                            \* mutant of LoggedOut
LoggedOut(f) == [jar EXCEPT ![f].session = 0]

\* Set-Cookie and delete_cookie of the route that answers.
Cookies(r) ==
  CASE r.kind = "login" /\ r.id # 0 -> [jar EXCEPT ![r.to].tx = r.id]
    [] r.kind = "callback" /\ r.id # 0 -> [jar EXCEPT ![r.to] = [tx |-> 0, session |-> r.id]]
    [] r.kind = "callback" /\ r.id = 0 -> [jar EXCEPT ![r.to].tx = 0]
    [] r.kind = "error" /\ r.to = "web" -> [jar EXCEPT ![r.to].tx = 0]
    [] r.kind = "logout" /\ r.id # 0 -> LoggedOut(r.to)
    [] OTHER -> jar

\* A redirect loads another page, which knows no token before it has read /me.
Page(x, r) ==
  CASE r.kind = "login" -> [NewPage EXCEPT !.at = r.id]
    [] r.kind = "me" -> [tab[x] EXCEPT !.shows = r.id]
    [] r.kind = "order" \/ (r.kind = "logout" /\ r.id = 0) -> tab[x]
    [] OTHER -> NewPage

Receive(x) ==
  LET r == net[x] IN
  /\ r.step = "answered"
  /\ jar' = Cookies(r) /\ tab' = [tab EXCEPT ![x] = Page(x, r)]
  /\ closed' = IF r.kind = "logout" /\ r.id # 0 THEN closed \cup {<<r.to, r.id>>} ELSE closed
  /\ net' = [net EXCEPT ![x] = Quiet]
  /\ UNCHANGED <<kept, store, ids>>

\* Redis, the database or the handler fails in a way the route does not expect,
\* before or after what it deletes: the browser gets a 500 that touches no cookie,
\* or nothing at all.
Fail(x) ==
  LET r == net[x] IN
  /\ r.step \in {"asked", "entered"}
  /\ (kept' = kept) \/ (r.kind = "callback" /\ kept' = kept \ {<<r.to, r.tx>>})
  /\ (store' = store) \/ (r.step = "entered" /\ store' = EndSession(r))
  /\ tab' = IF r.kind \in {"login", "callback", "error"} THEN [tab EXCEPT ![x] = NewPage] ELSE tab
  /\ net' = [net EXCEPT ![x] = Quiet]
  /\ UNCHANGED <<jar, ids, closed>>

\* max_age has passed, or the user clears a cookie.
DropCookie(f) ==
  /\ jar' \in {[jar EXCEPT ![f].tx = 0], [jar EXCEPT ![f].session = 0]} /\ jar' # jar
  /\ UNCHANGED <<kept, store, ids, tab, net, closed>>

TabStep(x) == \/ Visit(x) \/ ComeBack(x) \/ Order(x)
              \/ LoginRoute(x) \/ CallbackRoute(x) \/ ErrorRoute(x) \/ MeRoute(x) \/ Enter(x) \/ Act(x)
              \/ Fail(x) \/ Receive(x)
TabsNext == \/ \E x \in Tabs : TabStep(x)
            \/ \E f \in Fronts : DropCookie(f) \/ \E i \in 1..ids : Expire(<<f, i>>)
TabsSpec == TabsInit /\ [][TabsNext]_tabsVars

-----------------------------------------------------------------------------
TabsTypeOK ==
  /\ jar \in [Fronts -> [tx : 0..ids, session : 0..ids]]
  /\ kept \subseteq Fronts \X (1..ids) /\ store \subseteq Fronts \X (1..ids) /\ ids \in 0..MaxIds
  /\ tab \in [Tabs -> [shows : 0..ids, at : 0..ids]]
  /\ net \in [Tabs -> [step : {"idle", "asked", "entered", "answered"},
                       kind : {"none", "login", "callback", "error", "me", "order", "logout"},
                       to : Fronts, tx : 0..ids, session : 0..ids, value : 0..ids, id : 0..ids]]
  /\ closed \subseteq Fronts \X (1..ids)

\* logout: a session whose logout the browser has been answered is neither in its
\* cookie jar nor in Redis, whatever answers of other tabs come late.
LoggedOutStays == closed \cap (store \cup {<<f, jar[f].session>> : f \in Fronts}) = {}

\* validate_csrf: what a page orders is done in the session the page shows, of its
\* own surface and not logged out, although another tab may have signed in anew
\* since, and the cookie is that of the new session.
ActsAsShown ==
  [][\A x \in Tabs : net[x].step # "entered" /\ net'[x].step = "entered" =>
       LET s == <<FrontOf[x], tab[x].shows>> IN
       /\ net'[x].id = tab[x].shows /\ net'[x].to = FrontOf[x]
       /\ s \in store /\ s \notin closed]_tabsVars

\* What holds of the browser's cookies at every moment.
CookiesRight == TabsTypeOK /\ LoggedOutStays
=============================================================================

----------------------------- MODULE WebClient -----------------------------
(***************************************************************************)
(* The session of the Vue front end: the route guard (permission.js), the  *)
(* store's user module, the requests it waits for and vue-router's         *)
(* navigations, in browser tabs that share one cookie.                     *)
(*                                                                         *)
(* A step is one task of a tab's event loop with the microtasks it starts: *)
(* a click, an answer, a chunk that is loaded.  Between them lies every    *)
(* await: the guard's for the user's info, the router's for the component. *)
(* A token stands for itself and for the user it names.                    *)
(***************************************************************************)
EXTENDS Naturals

CONSTANTS Tabs, Tokens, None,
          Pages, Home,    \* the routes that need a session; what '/' redirects to
          MaxNavs,        \* bound: navigations of a tab that are under way at once
          MaxOpens,       \* bound: how often a user opens or reloads a tab
          MaxClicks,      \* bound: routes that users ask for
          MaxForms        \* bound: how often users log in or out

ASSUME NamesAssumption ==
    /\ Home \in Pages /\ {None, "login"} \intersect (Tokens \union Pages) = {}
    /\ None # "login" /\ "none" \notin Tokens \union {None}
ASSUME BoundsAssumption == MaxNavs \in Nat \ {0} /\ {MaxOpens, MaxClicks, MaxForms} \subseteq Nat

VARIABLES cookie, tab,
          wrote, writer, \* history: the tabs that have written the cookie, the last of them
          used           \* how often a tab was opened, a link clicked, a login or logout sent

vars == <<cookie, tab, wrote, writer, used>>

\* A route is a page, or the login page with the page it redirects to afterwards.
Page(p) == [login |-> FALSE, to |-> p]
Login(p) == [login |-> TRUE, to |-> p]
PageRoutes == {Page(p) : p \in Pages}
Routes == PageRoutes \union {Login(p) : p \in Pages \union {None}}
Again == "login"  \* the redirect to a login address of a logout that ends on the login page
NoRoute == Page(None)

\* A navigation that waits: for getInfo, sent with tok, or for the chunk of its page.
NoNav == [at |-> "free", to |-> NoRoute, tok |-> None]
Slots == 1..MaxNavs
Nav == [at : {"free", "info", "load"}, to : Routes \union {Login(Again), NoRoute}, tok : Tokens \union {None}]

\* The tab before the application is loaded into it.
Closed == [up |-> FALSE, token |-> None, name |-> None, page |-> NoRoute,
           nav |-> [i \in Slots |-> NoNav], pending |-> 0, chunks |-> {},
           form |-> "none", leaving |-> FALSE, dialog |-> FALSE, broken |-> FALSE,
           overtaken |-> FALSE]

Init ==
    /\ cookie = None /\ tab = [t \in Tabs |-> Closed]
    /\ wrote = {} /\ writer = None
    /\ used = [opens |-> 0, clicks |-> 0, forms |-> 0]
-----------------------------------------------------------------------------
(* The router and the guard, as functions of a tab x and the cookie c.     *)

Chunk(r) == IF r.login THEN None ELSE r.to

\* The route is confirmed: it becomes the current one.
Confirm(x, r) == [x EXCEPT !.page = r, !.pending = 0]

Free(x) == \E i \in Slots : x.nav[i] = NoNav
Wait(x, place, r) ==
    LET i == CHOOSE j \in Slots : x.nav[j] = NoNav IN
    [x EXCEPT !.nav[i] = [at |-> place, to |-> r, tok |-> IF place = "info" THEN x.token ELSE None],
              !.pending = i]

\* next(): the page's chunk is there, or is fetched now.  That it is there outlives the
\* logout's resetRouter: the new routes import it again, which for a chunk that was fetched
\* is over within the task.
Proceed(x, r) == IF Chunk(r) \in x.chunks THEN Confirm(x, r) ELSE Wait(x, "load", r)

\* next(path), next('/'): where the guard sends a navigation to r at once.
Redirect(r, c) ==
    IF c = None THEN (IF r.login THEN r ELSE Login(r.to))
                ELSE (IF r.login THEN Page(Home) ELSE r)

\* hasGetUserInfo
HasInfoAlways(x) == TRUE
HasInfo(x) == x.name # None

Guard(x, r) == IF r.login \/ HasInfo(x) THEN Proceed(x, r) ELSE Wait(x, "info", r)

\* push, and hash changes.  A route that is the current one is refused before anything else;
\* any other becomes the pending one, and so does what it is redirected to unless that in
\* its turn is the current one.  The navigations under way are no longer the pending one.
Push(x, r, c) ==
    IF r = x.page THEN x
    ELSE LET y == [x EXCEPT !.pending = 0, !.overtaken = @ \/ x.pending # 0] IN
         IF Redirect(r, c) = x.page THEN y ELSE Guard(y, Redirect(r, c))

\* A navigation under way is over.  The router clears its pending field only when it confirms
\* one, but nothing compares the field with a navigation that has ended.
Over(x, i) == [x EXCEPT !.nav[i] = NoNav, !.pending = IF @ = i THEN 0 ELSE @]

\* RESET_STATE with the cookie as it is then.
Reset(x, c) == [x EXCEPT !.token = c, !.name = None]

\* removeToken and RESET_STATE, in this order.
ForgetWrongOrder(x) == Reset(x, cookie)
Forget(x) == Reset(x, None)

Write(t, c) == cookie' = c /\ wrote' = wrote \union {t} /\ writer' = t
KeepCookie == UNCHANGED <<cookie, wrote, writer>>

\* The application starts anew with the store that the cookie gives.
Started(r, c) == Push([Closed EXCEPT !.up = TRUE, !.token = c], r, c)
-----------------------------------------------------------------------------
(* The user.                                                               *)

Spend(what, max) == used[what] < max /\ used' = [used EXCEPT ![what] = @ + 1]

\* The tab is opened at some address, or reloaded (also by toggleSideBar).
Open(t) ==
    /\ Spend("opens", MaxOpens)
    /\ \E r \in Routes : tab' = [tab EXCEPT ![t] = Started(r, cookie)]
    /\ KeepCookie

\* A link, or an address typed in.
Click(t) ==
    /\ tab[t].page # NoRoute /\ Free(tab[t]) /\ Spend("clicks", MaxClicks)
    /\ \E r \in Routes : tab' = [tab EXCEPT ![t] = Push(@, r, cookie)]
    /\ KeepCookie

\* handleLogin, as a user the server knows or not.
Submit(t) ==
    /\ tab[t].page.login /\ tab[t].form = "none" /\ Spend("forms", MaxForms)
    /\ \E u \in Tokens \union {None} : tab' = [tab EXCEPT ![t].form = u]
    /\ KeepCookie

\* Navbar's logout.
Leave(t) ==
    /\ tab[t].page \in PageRoutes /\ ~tab[t].leaving /\ Spend("forms", MaxForms)
    /\ tab' = [tab EXCEPT ![t].leaving = TRUE]
    /\ KeepCookie

\* The dialog after code 50008: stay, or log in again, which reloads the tab.
Dismiss(t) ==
    /\ tab[t].dialog
    /\ \/ tab' = [tab EXCEPT ![t].dialog = FALSE] /\ KeepCookie
       \/ /\ \E r \in Routes : tab' = [tab EXCEPT ![t] = Started(r, None)]
          /\ Write(t, None)
    /\ UNCHANGED used
-----------------------------------------------------------------------------
(* Answers, each of which is a failure after five seconds at the latest.   *)

\* getInfo succeeds: the name is stored, and the guard goes on if it is the pending one's.
InfoArrives(t, i) ==
    LET n == tab[t].nav[i]
        named == [Over(tab[t], i) EXCEPT !.name = n.tok] IN
    /\ n.at = "info" /\ n.tok # None
    /\ tab' = [tab EXCEPT ![t] = IF @.pending = i THEN Proceed(named, n.to) ELSE named]
    /\ KeepCookie /\ UNCHANGED used

\* It fails, with code 50008 if there was no token: resetToken, and to the login page.
ToLoginNever(x, p) == x
ToLogin(x, p) == Push(x, Login(p), None)

InfoFails(t, i) ==
    LET n == tab[t].nav[i]
        lost == Forget(Over(tab[t], i)) IN
    /\ n.at = "info"
    /\ \E code50008 \in BOOLEAN :
          /\ code50008 => n.tok = None
          /\ tab' = [tab EXCEPT ![t] =
                       ToLogin([lost EXCEPT !.dialog = @ \/ code50008], n.to.to)]
    /\ Write(t, None) /\ UNCHANGED used

\* A chunk is fetched, for all that wait for it: the pending navigation is confirmed.
Fetching(x, c) == {i \in Slots : x.nav[i].at = "load" /\ Chunk(x.nav[i].to) = c}
Fetched(x, c) == [x EXCEPT !.nav = [i \in Slots |-> IF i \in Fetching(x, c) THEN NoNav ELSE @[i]],
                           !.pending = IF @ \in Fetching(x, c) THEN 0 ELSE @]

Loaded(t, c) ==
    LET x == tab[t]
        y == [Fetched(x, c) EXCEPT !.chunks = @ \union {c}] IN
    /\ Fetching(x, c) # {}
    /\ tab' = [tab EXCEPT ![t] = IF x.pending \in Fetching(x, c)
                                 THEN Confirm(y, x.nav[x.pending].to) ELSE y]
    /\ KeepCookie /\ UNCHANGED used

\* The chunk cannot be fetched: the navigation is aborted, and that is all.
LoadFails(t, c) ==
    /\ Fetching(tab[t], c) # {}
    /\ tab' = [tab EXCEPT ![t] = [Fetched(@, c) EXCEPT !.broken = TRUE]]
    /\ KeepCookie /\ UNCHANGED used

\* SET_TOKEN, then on to where the login page was to redirect.
LoggedInUnstored(x, u) == x
LoggedIn(x, u) == [x EXCEPT !.token = u]

LoginAnswers(t) ==
    LET u == tab[t].form
        after == [tab[t] EXCEPT !.form = "none"] IN
    /\ u # "none" /\ Free(tab[t])
    /\ \/ /\ u \in Tokens
          /\ \E p \in Pages :
                /\ after.page.login => p = IF after.page.to \in Pages THEN after.page.to ELSE Home
                /\ tab' = [tab EXCEPT ![t] = Push(LoggedIn(after, u), Page(p), u)]
          /\ Write(t, u)
       \/ tab' = [tab EXCEPT ![t] = after] /\ KeepCookie
    /\ UNCHANGED used

\* Navbar goes on to the login page, with the address at that time to come back to.
LogoutPush(x) == ToLogin(x, IF x.page.login THEN Again ELSE x.page.to)

LogoutAnswers(t) ==
    LET after == [tab[t] EXCEPT !.leaving = FALSE] IN
    /\ tab[t].leaving /\ Free(tab[t])
    /\ \/ tab' = [tab EXCEPT ![t] = LogoutPush(Forget(after))] /\ Write(t, None)
       \/ tab' = [tab EXCEPT ![t] = after] /\ KeepCookie
    /\ UNCHANGED used
-----------------------------------------------------------------------------
User(t) == Open(t) \/ Click(t) \/ Submit(t) \/ Leave(t) \/ Dismiss(t)
Answer(t) == \/ \E i \in Slots : InfoArrives(t, i) \/ InfoFails(t, i)
             \/ \E c \in Pages \union {None} : Loaded(t, c) \/ LoadFails(t, c)
             \/ LoginAnswers(t) \/ LogoutAnswers(t)

Next == \E t \in Tabs : User(t) \/ Answer(t)

Spec == Init /\ [][Next]_vars

\* Every request is answered or times out, and every fetch ends; a user need do nothing.
FairSpec == Spec /\ \A t \in Tabs : WF_vars(Answer(t))
-----------------------------------------------------------------------------
(* Properties.                                                             *)

Tab == [up : BOOLEAN, token : Tokens \union {None}, name : Tokens \union {None},
        page : Routes \union {Login(Again), NoRoute}, nav : [Slots -> Nav], pending : 0..MaxNavs,
        chunks : SUBSET (Pages \union {None}), form : Tokens \union {None, "none"},
        leaving : BOOLEAN, dialog : BOOLEAN,
        broken : BOOLEAN, overtaken : BOOLEAN]

\* Every variable keeps its type, and only a navigation that waits is the pending one.
TypeOK ==
    /\ cookie \in Tokens \union {None} /\ tab \in [Tabs -> Tab]
    /\ wrote \subseteq Tabs /\ writer \in Tabs \union {None}
    /\ \A t \in Tabs : tab[t].pending # 0 => tab[t].nav[tab[t].pending] # NoNav

\* A page is shown with the name of its user, until logout begins the way to the login
\* page or the login page's chunk cannot be fetched.  This is so as long as no navigation
\* overtakes another: a guard that fails when another has gone on is sent to the login page
\* it already is on, and the other then shows a page to nobody.
InfoBeforePage ==
    \A t \in Tabs : LET x == tab[t] IN
        (x.page \in PageRoutes /\ x.name = None) =>
            \/ x.overtaken \/ x.broken
            \/ x.pending # 0 /\ x.nav[x.pending].to.login

\* The store's token is the cookie as long as no other tab has written the cookie since
\* ("must remove token first", user.js:71).
StoreFollowsOwnCookie == \A t \in Tabs : writer = t => tab[t].token = cookie

\* Nobody is told "You have been logged out" unless another tab has changed the session.
DialogNeedsAnotherTab == \A t \in Tabs : tab[t].dialog => wrote \ {t} # {}

\* A tab that is opened shows a page in the end, whatever expires, fails or is overtaken,
\* unless the page's chunk cannot be fetched.
TabShowsPage ==
    \A t \in Tabs : tab[t].up /\ tab[t].page = NoRoute
                        ~> tab[t].page # NoRoute \/ tab[t].broken

=============================================================================

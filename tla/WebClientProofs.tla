-------------------------- MODULE WebClientProofs ---------------------------
(***************************************************************************)
(* Proofs about WebClient, for any number of tabs, users and pages, and    *)
(* however many navigations, clicks and forms there are.                   *)
(***************************************************************************)
EXTENDS WebClient, TLAPS

AllRoutes == Routes \union {Login(Again), NoRoute}
Sound(x) == x \in Tab /\ (x.pending # 0 => x.nav[x.pending] # NoNav)

\* What the router leaves alone in a tab.
Keeps(x, y) == y.token = x.token /\ y.dialog = x.dialog

\* A request for the user's info is an old one or is sent with the store's token.
Asks(x, y) == \A i \in Slots : y.nav[i].at = "info" => y.nav[i] = x.nav[i] \/ y.nav[i].tok = x.token
-----------------------------------------------------------------------------
(* The router's functions.                                                 *)

LEMMA WaitWaits ==
    ASSUME NEW x \in Tab, Free(x), NEW r \in AllRoutes, NEW place \in {"info", "load"}
    PROVE  /\ Sound(Wait(x, place, r)) /\ Keeps(x, Wait(x, place, r))
           /\ Asks(x, Wait(x, place, r))
           /\ place = "load" =>
                \A i \in Slots : Wait(x, place, r).nav[i].at = "info" => Wait(x, place, r).nav[i] = x.nav[i]
<1> DEFINE i == CHOOSE j \in Slots : x.nav[j] = NoNav
           n == [at |-> place, to |-> r, tok |-> IF place = "info" THEN x.token ELSE None]
           y == [x EXCEPT !.nav[i] = n, !.pending = i]
<1>1. i \in Slots
  BY DEF Free
<1>2. Wait(x, place, r) = y
  BY DEF Wait
<1>3. n \in Nav /\ n # NoNav
  BY DEF Nav, NoNav, AllRoutes, Tab
<1> HIDE DEF i, n
<1>4. i \in 0..MaxNavs /\ i # 0
  BY <1>1, BoundsAssumption DEF Slots
<1>5. y.nav = [x.nav EXCEPT ![i] = n] /\ y.pending = i
  BY DEF Tab
<1>6. y.nav \in [Slots -> Nav] /\ y.nav[i] = n /\ \A j \in Slots \ {i} : y.nav[j] = x.nav[j]
  BY <1>1, <1>3, <1>5 DEF Tab
<1>7. y \in Tab
  BY <1>1, <1>3, <1>4 DEF Tab
<1>8. Keeps(x, y)
  BY DEF Tab, Keeps
<1>9. /\ n.at = place
      /\ place = "info" => n.tok = x.token
  BY DEF n
<1>10. Sound(y)
  BY <1>3, <1>5, <1>6, <1>7 DEF Sound
<1> HIDE DEF y
<1>11. Asks(x, y)
  BY <1>6, <1>9 DEF Asks
<1>12. place = "load" => \A j \in Slots : y.nav[j].at = "info" => y.nav[j] = x.nav[j]
  BY <1>6, <1>9
<1>13. QED BY <1>2, <1>8, <1>10, <1>11, <1>12

LEMMA ProceedProceeds ==
    ASSUME NEW x \in Tab, Free(x), NEW r \in AllRoutes
    PROVE  /\ Sound(Proceed(x, r)) /\ Keeps(x, Proceed(x, r))
           /\ \A i \in Slots : Proceed(x, r).nav[i].at = "info" => Proceed(x, r).nav[i] = x.nav[i]
<1>1. CASE Chunk(r) \in x.chunks
  <2>1. Proceed(x, r) = [x EXCEPT !.page = r, !.pending = 0]
    BY <1>1 DEF Proceed, Confirm
  <2>2. [x EXCEPT !.page = r, !.pending = 0] \in Tab
    <3>1. 0 \in 0..MaxNavs
      BY BoundsAssumption
    <3>2. r \in Routes \union {Login(Again), NoRoute}
      BY DEF AllRoutes
    <3>3. QED BY <3>1, <3>2 DEF Tab
  <2>3. /\ Proceed(x, r).nav = x.nav /\ Proceed(x, r).pending = 0
        /\ Keeps(x, Proceed(x, r))
    BY <2>1 DEF Keeps, Tab
  <2>4. QED BY <2>1, <2>2, <2>3 DEF Sound
<1>2. CASE Chunk(r) \notin x.chunks
  BY <1>2, WaitWaits DEF Proceed
<1>3. QED BY <1>1, <1>2

LEMMA RedirectRoutes ==
    ASSUME NEW r \in AllRoutes, NEW c
    PROVE  Redirect(r, c) \in AllRoutes /\ (c = None => Redirect(r, c).login)
<1> USE NamesAssumption DEF Redirect, AllRoutes, Routes, PageRoutes, NoRoute, Login, Page
<1>1. CASE r \in Routes /\ r.login
  <2>1. Redirect(r, c) = IF c = None THEN r ELSE Page(Home)
    BY <1>1
  <2>2. QED BY <1>1, <2>1
<1>2. CASE r \in Routes /\ ~r.login
  <2>1. Redirect(r, c) = IF c = None THEN Login(r.to) ELSE r
    BY <1>2
  <2>2. r.to \in Pages
    BY <1>2
  <2>3. Login(r.to) \in AllRoutes /\ Login(r.to).login
    BY <2>2
  <2>4. QED BY <1>2, <2>1, <2>3
<1>3. CASE r = Login(Again)
  <2>1. r.login /\ r \in AllRoutes
    BY <1>3
  <2>2. Redirect(r, c) = IF c = None THEN r ELSE Page(Home)
    BY <2>1
  <2>3. Page(Home) \in AllRoutes
    OBVIOUS
  <2>4. QED BY <2>1, <2>2, <2>3
<1>4. CASE r = NoRoute
  BY <1>4
<1>5. QED BY <1>1, <1>2, <1>3, <1>4

LEMMA PushPushes ==
    ASSUME NEW x, Sound(x), Free(x), NEW r \in AllRoutes, NEW c
    PROVE  /\ Sound(Push(x, r, c)) /\ Keeps(x, Push(x, r, c)) /\ Asks(x, Push(x, r, c))
           /\ c = None => \A i \in Slots : Push(x, r, c).nav[i].at = "info" => Push(x, r, c).nav[i] = x.nav[i]
<1> DEFINE y == [x EXCEPT !.pending = 0, !.overtaken = @ \/ x.pending # 0]
           to == Redirect(r, c)
<1>1. y \in Tab /\ Keeps(x, y) /\ y.nav = x.nav /\ y.token = x.token /\ y.pending = 0
  <2>1. (x.overtaken \/ x.pending # 0) \in BOOLEAN /\ 0 \in 0..MaxNavs /\ x \in Tab
    BY BoundsAssumption DEF Sound
  <2>2. QED BY <2>1 DEF Tab, Keeps
<1>2. Free(y) /\ Sound(y)
  BY <1>1 DEF Free, Sound
<1>3. to \in AllRoutes /\ (c = None => to.login)
  BY RedirectRoutes
<1>4. Push(x, r, c) = IF r = x.page THEN x ELSE IF to = x.page THEN y ELSE Guard(y, to)
  BY DEF Push
<1> HIDE DEF y, to
<1>5. /\ Sound(Guard(y, to)) /\ Keeps(y, Guard(y, to)) /\ Asks(y, Guard(y, to))
      /\ c = None => \A i \in Slots : Guard(y, to).nav[i].at = "info" => Guard(y, to).nav[i] = y.nav[i]
  <2>1. CASE to.login \/ HasInfo(y)
    BY <1>1, <1>2, <1>3, <2>1, ProceedProceeds DEF Guard, Asks
  <2>2. CASE ~(to.login \/ HasInfo(y))
    BY <1>1, <1>2, <1>3, <2>2, WaitWaits DEF Guard
  <2>3. QED BY <2>1, <2>2
<1>6. QED BY <1>1, <1>2, <1>4, <1>5 DEF Keeps, Asks

\* The application's start, whatever it was before.
LEMMA ClosedIsTab == Closed \in Tab /\ Closed.pending = 0 /\ \A i \in Slots : Closed.nav[i] = NoNav
<1>1. NoNav \in Nav
  BY DEF NoNav, Nav
<1>2. 0 \in 0..MaxNavs
  BY BoundsAssumption
<1>3. [i \in Slots |-> NoNav] \in [Slots -> Nav]
  BY <1>1
<1>4. QED BY <1>2, <1>3 DEF Closed, Tab

LEMMA StartedStarts ==
    ASSUME NEW r \in Routes, NEW c \in Tokens \union {None}
    PROVE  /\ Sound(Started(r, c)) /\ Started(r, c).token = c /\ ~Started(r, c).dialog
           /\ \A i \in Slots : Started(r, c).nav[i].at = "info" => c # None /\ Started(r, c).nav[i].tok = c
<1> DEFINE x == [Closed EXCEPT !.up = TRUE, !.token = c]
<1>1. x \in Tab /\ x.token = c /\ ~x.dialog /\ x.pending = 0 /\ \A i \in Slots : x.nav[i] = NoNav
  BY ClosedIsTab DEF Tab, Closed
<1>2. Free(x)
  BY <1>1, BoundsAssumption DEF Free, Slots
<1>3. Started(r, c) = Push(x, r, c)
  BY DEF Started
<1> HIDE DEF x
<1>4. /\ Sound(Push(x, r, c)) /\ Keeps(x, Push(x, r, c)) /\ Asks(x, Push(x, r, c))
      /\ c = None => \A i \in Slots : Push(x, r, c).nav[i].at = "info" => Push(x, r, c).nav[i] = x.nav[i]
  BY <1>1, <1>2, PushPushes DEF Sound, AllRoutes
<1>5. NoNav.at # "info"
  BY DEF NoNav
<1>6. QED BY <1>1, <1>3, <1>4, <1>5 DEF Keeps, Asks
-----------------------------------------------------------------------------
(* What happens to a tab, step by step.                                    *)

\* No dialog is shown, and no request is under way that would be answered with one.
Quiet(x) == ~x.dialog /\ \A i \in Slots : x.nav[i].at = "info" => x.nav[i].tok # None

LEMMA PushQuiet ==
    ASSUME NEW x, Sound(x), Free(x), Quiet(x), NEW r \in AllRoutes, NEW c, c \in {x.token, None}
    PROVE  Quiet(Push(x, r, c))
<1>1. CASE c = None
  BY <1>1, PushPushes DEF Quiet, Keeps
<1>2. CASE c # None
  BY <1>2, PushPushes DEF Quiet, Keeps, Asks
<1>3. QED BY <1>1, <1>2

LEMMA OverEnds ==
    ASSUME NEW x, Sound(x), NEW i \in Slots
    PROVE  /\ Sound(Over(x, i)) /\ Free(Over(x, i)) /\ Keeps(x, Over(x, i))
           /\ Quiet(x) => Quiet(Over(x, i))
<1> DEFINE y == Over(x, i)
<1>1. /\ NoNav \in Nav /\ NoNav.at = "free"
      /\ 0 \in 0..MaxNavs
  BY BoundsAssumption DEF NoNav, Nav
<1>2. /\ y.nav = [x.nav EXCEPT ![i] = NoNav]
      /\ y.pending = IF x.pending = i THEN 0 ELSE x.pending
      /\ y \in Tab /\ Keeps(x, y)
  BY <1>1 DEF Over, Sound, Tab, Keeps
<1> HIDE DEF y
<1>3. y.nav[i] = NoNav /\ \A j \in Slots \ {i} : y.nav[j] = x.nav[j]
  BY <1>2 DEF Sound, Tab
<1>4. y.pending # 0 => y.pending \in Slots \ {i}
  BY <1>2, BoundsAssumption DEF Sound, Tab, Slots
<1>5. Sound(y)
  BY <1>2, <1>3, <1>4 DEF Sound
<1>6. Quiet(x) => Quiet(y)
  BY <1>1, <1>2, <1>3 DEF Quiet, Keeps
<1>7. QED BY <1>2, <1>3, <1>5, <1>6 DEF Free, y

LEMMA ForgetForgets ==
    ASSUME NEW x, Sound(x)
    PROVE  /\ Sound(Forget(x)) /\ (Free(x) => Free(Forget(x))) /\ Forget(x).token = None
           /\ Quiet(x) => Quiet(Forget(x))
<1>1. Forget(x) \in Tab
  BY DEF Forget, Reset, Sound, Tab
<1>2. /\ Forget(x).nav = x.nav /\ Forget(x).pending = x.pending
      /\ Forget(x).dialog = x.dialog /\ Forget(x).token = None
  BY DEF Forget, Reset, Sound, Tab
<1>3. QED BY <1>1, <1>2 DEF Sound, Quiet, Free

LEMMA FetchedEnds ==
    ASSUME NEW x, Sound(x), NEW c
    PROVE  /\ Sound(Fetched(x, c)) /\ Keeps(x, Fetched(x, c))
           /\ Quiet(x) => Quiet(Fetched(x, c))
<1> DEFINE y == Fetched(x, c)
           F == Fetching(x, c)
<1>1. NoNav \in Nav /\ NoNav.at = "free" /\ 0 \in 0..MaxNavs
  BY BoundsAssumption DEF NoNav, Nav
<1>2. x \in Tab /\ x.nav \in [Slots -> Nav]
  BY DEF Sound, Tab
<1>3. [i \in Slots |-> IF i \in F THEN NoNav ELSE x.nav[i]] \in [Slots -> Nav]
  BY <1>1, <1>2
<1> HIDE DEF F
<1>4. y = [x EXCEPT !.nav = [i \in Slots |-> IF i \in F THEN NoNav ELSE @[i]],
                    !.pending = IF @ \in F THEN 0 ELSE @]
  BY DEF Fetched, F
<1>5. /\ y.nav = [i \in Slots |-> IF i \in F THEN NoNav ELSE x.nav[i]]
      /\ y.pending = IF x.pending \in F THEN 0 ELSE x.pending
      /\ Keeps(x, y)
  BY <1>2, <1>4 DEF Tab, Keeps
<1>6. y \in Tab
  BY <1>1, <1>2, <1>3, <1>4 DEF Tab
<1> HIDE DEF y
<1>7. y.pending # 0 => y.pending \in Slots \ F /\ y.pending = x.pending
  BY <1>2, <1>5, BoundsAssumption DEF Tab, Slots
<1>8. Sound(y)
  BY <1>5, <1>6, <1>7 DEF Sound
<1>9. Quiet(x) => Quiet(y)
  BY <1>1, <1>5 DEF Quiet, Keeps
<1>10. QED BY <1>5, <1>8, <1>9 DEF y
-----------------------------------------------------------------------------
(* The invariant.                                                          *)

\* As long as no other tab has written the cookie, it is the store's token.
Undisturbed == \A t \in Tabs : wrote \subseteq {t} => tab[t].token = cookie /\ Quiet(tab[t])

IInv == TypeOK /\ StoreFollowsOwnCookie /\ Undisturbed

LEMMA InitIInv == Init => IInv
<1> SUFFICES ASSUME Init PROVE IInv
  OBVIOUS
<1>1. /\ cookie = None /\ wrote = {} /\ writer = None
      /\ \A t \in Tabs : tab[t] = Closed
      /\ tab = [t \in Tabs |-> Closed]
  BY DEF Init
<1>2. TypeOK
  BY <1>1, ClosedIsTab DEF TypeOK
<1>3. Closed.token = None /\ Quiet(Closed)
  BY ClosedIsTab DEF Closed, Quiet, NoNav
<1>4. QED BY <1>1, <1>2, <1>3 DEF IInv, StoreFollowsOwnCookie, Undisturbed

LEMMA TabIsSound ==
    ASSUME IInv, NEW t \in Tabs
    PROVE  /\ Sound(tab[t]) /\ tab[t] \in Tab
           /\ wrote \subseteq {t} => Quiet(tab[t]) /\ tab[t].token = cookie
BY DEF IInv, TypeOK, Sound, Undisturbed

\* A step of tab t that leaves the cookie alone.
LEMMA KeepStep ==
    ASSUME IInv, NEW t \in Tabs, NEW y, Sound(y), tab' = [tab EXCEPT ![t] = y], KeepCookie,
           y.token = tab[t].token \/ y.token = cookie,
           wrote \subseteq {t} => Quiet(y)
    PROVE  IInv'
<1>1. tab'[t] = y /\ \A s \in Tabs \ {t} : tab'[s] = tab[s]
  BY DEF IInv, TypeOK
<1>2. cookie' = cookie /\ wrote' = wrote /\ writer' = writer
  BY DEF KeepCookie
<1>3. TypeOK'
  BY <1>1, <1>2 DEF IInv, TypeOK, Sound
<1>4. StoreFollowsOwnCookie'
  BY <1>1, <1>2 DEF IInv, StoreFollowsOwnCookie
<1>5. Undisturbed'
  BY <1>1, <1>2 DEF IInv, Undisturbed
<1>6. QED BY <1>3, <1>4, <1>5 DEF IInv

\* A step of tab t that writes the cookie.
LEMMA WriteStep ==
    ASSUME IInv, NEW t \in Tabs, NEW y, Sound(y), tab' = [tab EXCEPT ![t] = y],
           NEW c \in Tokens \union {None}, Write(t, c), y.token = c,
           wrote \subseteq {t} => Quiet(y)
    PROVE  IInv'
<1>1. tab'[t] = y /\ \A s \in Tabs \ {t} : tab'[s] = tab[s]
  BY DEF IInv, TypeOK
<1>2. cookie' = c /\ wrote' = wrote \union {t} /\ writer' = t
  BY DEF Write
<1>3. TypeOK'
  BY <1>1, <1>2 DEF IInv, TypeOK, Sound
<1>4. StoreFollowsOwnCookie'
  BY <1>1, <1>2 DEF IInv, StoreFollowsOwnCookie
<1>5. Undisturbed'
  BY <1>1, <1>2 DEF IInv, Undisturbed
<1>6. QED BY <1>3, <1>4, <1>5 DEF IInv
-----------------------------------------------------------------------------
(* One lemma per action.                                                   *)

LEMMA OpenStep == ASSUME IInv, NEW t \in Tabs, Open(t) PROVE IInv'
<1>1. PICK r \in Routes : tab' = [tab EXCEPT ![t] = Started(r, cookie)]
  BY DEF Open
<1>2. cookie \in Tokens \union {None}
  BY DEF IInv, TypeOK
<1>3. Quiet(Started(r, cookie))
  BY <1>2, StartedStarts DEF Quiet
<1>4. QED BY <1>1, <1>2, <1>3, StartedStarts, KeepStep DEF Open

LEMMA ClickStep == ASSUME IInv, NEW t \in Tabs, Click(t) PROVE IInv'
<1>1. PICK r \in Routes : tab' = [tab EXCEPT ![t] = Push(tab[t], r, cookie)]
  BY DEF Click
<1>2. Sound(tab[t]) /\ Free(tab[t]) /\ r \in AllRoutes
  BY TabIsSound DEF Click, AllRoutes
<1>3. wrote \subseteq {t} => Quiet(Push(tab[t], r, cookie))
  BY <1>2, TabIsSound, PushQuiet
<1>4. Sound(Push(tab[t], r, cookie)) /\ Push(tab[t], r, cookie).token = tab[t].token
  BY <1>2, PushPushes DEF Keeps
<1>5. KeepCookie
  BY DEF Click
<1>6. QED BY <1>1, <1>3, <1>4, <1>5, KeepStep

LEMMA FormStep == ASSUME IInv, NEW t \in Tabs, Submit(t) \/ Leave(t) PROVE IInv'
<1>1. Sound(tab[t]) /\ (wrote \subseteq {t} => Quiet(tab[t]))
  BY TabIsSound
<1>2. CASE Submit(t)
  <2>1. PICK u \in Tokens \union {None} : tab' = [tab EXCEPT ![t] = [tab[t] EXCEPT !.form = u]]
    BY <1>2 DEF Submit
  <2> DEFINE y == [tab[t] EXCEPT !.form = u]
  <2>2. y \in Tab /\ y.token = tab[t].token /\ y.nav = tab[t].nav /\ y.pending = tab[t].pending
        /\ y.dialog = tab[t].dialog
    BY <1>1 DEF Sound, Tab
  <2>3. Sound(y) /\ (wrote \subseteq {t} => Quiet(y))
    BY <1>1, <2>2 DEF Sound, Quiet
  <2>4. KeepCookie
    BY <1>2 DEF Submit
  <2>5. QED BY <2>1, <2>2, <2>3, <2>4, KeepStep
<1>3. CASE Leave(t)
  <2> DEFINE y == [tab[t] EXCEPT !.leaving = TRUE]
  <2>1. tab' = [tab EXCEPT ![t] = y] /\ KeepCookie
    BY <1>3 DEF Leave
  <2>2. y \in Tab /\ y.token = tab[t].token /\ y.nav = tab[t].nav /\ y.pending = tab[t].pending
        /\ y.dialog = tab[t].dialog
    BY <1>1 DEF Sound, Tab
  <2>3. Sound(y) /\ (wrote \subseteq {t} => Quiet(y))
    BY <1>1, <2>2 DEF Sound, Quiet
  <2>4. QED BY <2>1, <2>2, <2>3, KeepStep
<1>4. QED BY <1>2, <1>3

LEMMA DismissStep == ASSUME IInv, NEW t \in Tabs, Dismiss(t) PROVE IInv'
<1>1. CASE tab' = [tab EXCEPT ![t].dialog = FALSE] /\ KeepCookie
  <2> DEFINE y == [tab[t] EXCEPT !.dialog = FALSE]
  <2>1. tab' = [tab EXCEPT ![t] = y]
    BY <1>1
  <2>2. y \in Tab /\ y.token = tab[t].token /\ y.nav = tab[t].nav /\ y.pending = tab[t].pending /\ ~y.dialog
    <3>1. tab[t] \in Tab
      BY TabIsSound
    <3>2. QED BY <3>1 DEF Tab
  <2>3. Sound(y) /\ (wrote \subseteq {t} => Quiet(y))
    BY <2>2, TabIsSound DEF Sound, Quiet
  <2>4. QED BY <1>1, <2>1, <2>2, <2>3, KeepStep
<1>2. CASE Write(t, None) /\ \E r \in Routes : tab' = [tab EXCEPT ![t] = Started(r, None)]
  <2>1. PICK r \in Routes : tab' = [tab EXCEPT ![t] = Started(r, None)]
    BY <1>2
  <2>2. Sound(Started(r, None)) /\ Started(r, None).token = None /\ Quiet(Started(r, None))
    BY StartedStarts DEF Quiet
  <2>3. QED BY <1>2, <2>1, <2>2, WriteStep
<1>3. QED BY <1>1, <1>2 DEF Dismiss

LEMMA InfoArrivesStep == ASSUME IInv, NEW t \in Tabs, NEW i \in Slots, InfoArrives(t, i) PROVE IInv'
<1> DEFINE x == tab[t]
           n == x.nav[i]
           over == Over(x, i)
           named == [over EXCEPT !.name = n.tok]
<1>1. n \in Nav /\ n.to \in AllRoutes /\ n.tok \in Tokens \union {None}
  BY TabIsSound DEF Tab, Nav, AllRoutes
<1>2. /\ Sound(over) /\ Free(over) /\ over.token = x.token
      /\ wrote \subseteq {t} => Quiet(over)
  BY TabIsSound, OverEnds DEF Keeps
<1>3. tab' = [tab EXCEPT ![t] = IF x.pending = i THEN Proceed(named, n.to) ELSE named] /\ KeepCookie
  BY DEF InfoArrives
<1> HIDE DEF n, over, x
<1>4. /\ named \in Tab /\ named.token = x.token /\ named.nav = over.nav
      /\ named.pending = over.pending /\ named.dialog = over.dialog
  BY <1>1, <1>2 DEF Sound, Tab
<1>5. Sound(named) /\ Free(named) /\ (wrote \subseteq {t} => Quiet(named))
  BY <1>2, <1>4 DEF Sound, Free, Quiet
<1> HIDE DEF named
<1>6. /\ Sound(Proceed(named, n.to)) /\ Proceed(named, n.to).token = x.token
      /\ wrote \subseteq {t} => Quiet(Proceed(named, n.to))
  BY <1>1, <1>4, <1>5, ProceedProceeds DEF Keeps, Quiet
<1>7. QED BY <1>3, <1>4, <1>5, <1>6, KeepStep DEF x

LEMMA LoginIsRoute == ASSUME NEW r \in AllRoutes PROVE Login(r.to) \in AllRoutes
<1>1. r.to \in Pages \union {None, Again}
  BY DEF AllRoutes, Routes, PageRoutes, NoRoute, Login, Page
<1>2. QED BY <1>1 DEF AllRoutes, Routes

LEMMA InfoFailsStep == ASSUME IInv, NEW t \in Tabs, NEW i \in Slots, InfoFails(t, i) PROVE IInv'
<1> DEFINE x == tab[t]
           n == x.nav[i]
           over == Over(x, i)
           lost == Forget(over)
<1>1. PICK code50008 \in BOOLEAN :
        /\ code50008 => n.tok = None
        /\ tab' = [tab EXCEPT ![t] = ToLogin([lost EXCEPT !.dialog = @ \/ code50008], n.to.to)]
  BY DEF InfoFails
<1>2. Write(t, None) /\ n.at = "info"
  BY DEF InfoFails
<1>3. n.to \in AllRoutes /\ Login(n.to.to) \in AllRoutes
  BY TabIsSound, LoginIsRoute DEF Tab, Nav, AllRoutes
<1>4. /\ Sound(lost) /\ Free(lost) /\ lost.token = None
      /\ wrote \subseteq {t} => Quiet(lost) /\ ~code50008
  BY <1>1, <1>2, TabIsSound, OverEnds, ForgetForgets DEF Quiet
<1> DEFINE y == [lost EXCEPT !.dialog = @ \/ code50008]
           z == Push(y, Login(n.to.to), None)
<1>5. tab' = [tab EXCEPT ![t] = z]
  BY <1>1 DEF ToLogin
<1> HIDE DEF n, lost
<1>6. /\ y \in Tab /\ y.token = None /\ y.nav = lost.nav /\ y.pending = lost.pending
      /\ ~code50008 /\ ~lost.dialog => ~y.dialog
  <2>1. (lost.dialog \/ code50008) \in BOOLEAN /\ lost \in Tab
    BY <1>4 DEF Sound
  <2>2. QED BY <1>4, <2>1 DEF Tab
<1> HIDE DEF y
<1>7. Sound(y) /\ Free(y) /\ (wrote \subseteq {t} => Quiet(y))
  BY <1>4, <1>6 DEF Sound, Free, Quiet
<1>8. Sound(z) /\ z.token = None /\ (wrote \subseteq {t} => Quiet(z))
  BY <1>3, <1>6, <1>7, PushPushes, PushQuiet DEF Keeps
<1>9. QED BY <1>2, <1>5, <1>8, WriteStep

LEMMA LoadedStep == ASSUME IInv, NEW t \in Tabs, NEW c \in Pages \union {None}, Loaded(t, c) PROVE IInv'
<1> DEFINE x == tab[t]
           f == Fetched(x, c)
           y == [f EXCEPT !.chunks = @ \union {c}]
           r == x.nav[x.pending].to
           z == [y EXCEPT !.page = r, !.pending = 0]
<1>1. tab' = [tab EXCEPT ![t] = IF x.pending \in Fetching(x, c) THEN z ELSE y] /\ KeepCookie
  BY DEF Loaded, Confirm
<1>2. Sound(f) /\ f.token = x.token /\ (wrote \subseteq {t} => Quiet(f))
  BY TabIsSound, FetchedEnds DEF Keeps
<1>3. x.pending \in Fetching(x, c) => r \in Routes \union {Login(Again), NoRoute}
  BY TabIsSound DEF Fetching, Tab, Nav
<1>4. x \in Tab
  BY TabIsSound
<1> HIDE DEF f, r, x
<1>5. /\ y \in Tab /\ y.token = x.token /\ y.nav = f.nav /\ y.pending = f.pending
      /\ y.dialog = f.dialog
  <2>1. f.chunks \union {c} \in SUBSET (Pages \union {None})
    BY <1>2 DEF Sound, Tab
  <2>2. QED BY <1>2, <2>1 DEF Sound, Tab
<1> HIDE DEF y
<1>6. Sound(y) /\ (wrote \subseteq {t} => Quiet(y))
  BY <1>2, <1>5 DEF Sound, Quiet
<1>7. CASE x.pending \in Fetching(x, c)
  <2>1. 0 \in 0..MaxNavs
    BY BoundsAssumption
  <2>2. /\ z \in Tab /\ z.token = x.token /\ z.nav = y.nav /\ z.pending = 0
        /\ z.dialog = y.dialog
    BY <1>3, <1>5, <1>7, <2>1 DEF Tab
  <2>3. Sound(z) /\ (wrote \subseteq {t} => Quiet(z))
    BY <1>6, <2>2 DEF Sound, Quiet
  <2> HIDE DEF z
  <2>4. QED BY <1>1, <1>7, <2>2, <2>3, KeepStep DEF x
<1>8. CASE x.pending \notin Fetching(x, c)
  BY <1>1, <1>5, <1>6, <1>8, KeepStep DEF x
<1>9. QED BY <1>7, <1>8

LEMMA LoadFailsStep == ASSUME IInv, NEW t \in Tabs, NEW c \in Pages \union {None}, LoadFails(t, c) PROVE IInv'
<1> DEFINE f == Fetched(tab[t], c)
           y == [f EXCEPT !.broken = TRUE]
<1>1. tab' = [tab EXCEPT ![t] = y] /\ KeepCookie
  BY DEF LoadFails
<1>2. Sound(f) /\ f.token = tab[t].token /\ (wrote \subseteq {t} => Quiet(f))
  BY TabIsSound, FetchedEnds DEF Keeps
<1> HIDE DEF f
<1>3. /\ y \in Tab /\ y.token = tab[t].token /\ y.nav = f.nav /\ y.pending = f.pending
      /\ y.dialog = f.dialog
  BY <1>2 DEF Sound, Tab
<1>4. Sound(y) /\ (wrote \subseteq {t} => Quiet(y))
  BY <1>2, <1>3 DEF Sound, Quiet
<1>5. QED BY <1>1, <1>3, <1>4, KeepStep

LEMMA LoginStep == ASSUME IInv, NEW t \in Tabs, LoginAnswers(t) PROVE IInv'
<1> DEFINE x == tab[t]
           u == x.form
           after == [x EXCEPT !.form = "none"]
           entered == [after EXCEPT !.token = u]
<1>1. Sound(x) /\ x \in Tab /\ Free(x) /\ (wrote \subseteq {t} => Quiet(x))
  BY TabIsSound DEF LoginAnswers
<1>2. \/ /\ u \in Tokens /\ Write(t, u)
         /\ \E p \in Pages : tab' = [tab EXCEPT ![t] = Push(entered, Page(p), u)]
      \/ tab' = [tab EXCEPT ![t] = after] /\ KeepCookie
  BY DEF LoginAnswers, LoggedIn
<1> HIDE DEF x
<1>3. /\ after \in Tab /\ after.token = x.token /\ after.nav = x.nav
      /\ after.pending = x.pending /\ after.dialog = x.dialog
  BY <1>1 DEF Tab
<1>4. Sound(after) /\ Free(after) /\ (wrote \subseteq {t} => Quiet(after))
  BY <1>1, <1>3 DEF Sound, Free, Quiet
<1> HIDE DEF after, u
<1>5. CASE u \in Tokens
  <2>1. /\ entered \in Tab /\ entered.token = u /\ entered.nav = after.nav
        /\ entered.pending = after.pending /\ entered.dialog = after.dialog
    BY <1>3, <1>5 DEF Tab
  <2>2. Sound(entered) /\ Free(entered) /\ (wrote \subseteq {t} => Quiet(entered))
    BY <1>4, <2>1 DEF Sound, Free, Quiet
  <2> HIDE DEF entered
  <2>3. ASSUME NEW p \in Pages
        PROVE  /\ Sound(Push(entered, Page(p), u)) /\ Push(entered, Page(p), u).token = u
               /\ wrote \subseteq {t} => Quiet(Push(entered, Page(p), u))
    <3>1. Page(p) \in AllRoutes
      BY DEF AllRoutes, Routes, PageRoutes
    <3>2. QED BY <2>1, <2>2, <3>1, PushPushes, PushQuiet DEF Keeps
  <2>4. CASE tab' = [tab EXCEPT ![t] = after] /\ KeepCookie
    BY <1>3, <1>4, <2>4, KeepStep DEF x
  <2>5. CASE Write(t, u) /\ \E p \in Pages : tab' = [tab EXCEPT ![t] = Push(entered, Page(p), u)]
    BY <1>5, <2>3, <2>5, WriteStep
  <2>6. QED BY <1>2, <2>4, <2>5
<1>6. CASE u \notin Tokens
  BY <1>2, <1>3, <1>4, <1>6, KeepStep DEF x
<1>7. QED BY <1>5, <1>6

LEMMA LogoutStep == ASSUME IInv, NEW t \in Tabs, LogoutAnswers(t) PROVE IInv'
<1> DEFINE x == tab[t]
           after == [x EXCEPT !.leaving = FALSE]
           out == Forget(after)
           to == IF out.page.login THEN Again ELSE out.page.to
           z == Push(out, Login(to), None)
<1>1. Sound(x) /\ x \in Tab /\ Free(x) /\ (wrote \subseteq {t} => Quiet(x))
  BY TabIsSound DEF LogoutAnswers
<1>2. \/ tab' = [tab EXCEPT ![t] = z] /\ Write(t, None)
      \/ tab' = [tab EXCEPT ![t] = after] /\ KeepCookie
  BY DEF LogoutAnswers, LogoutPush, ToLogin
<1> HIDE DEF x
<1>3. /\ after \in Tab /\ after.token = x.token /\ after.nav = x.nav
      /\ after.pending = x.pending /\ after.dialog = x.dialog
  BY <1>1 DEF Tab
<1>4. Sound(after) /\ Free(after) /\ (wrote \subseteq {t} => Quiet(after))
  BY <1>1, <1>3 DEF Sound, Free, Quiet
<1> HIDE DEF after
<1>5. /\ Sound(out) /\ Free(out) /\ out.token = None
      /\ wrote \subseteq {t} => Quiet(out)
  BY <1>4, ForgetForgets
<1> HIDE DEF out
<1>6. Login(to) \in AllRoutes
  <2>1. out.page \in AllRoutes
    BY <1>5 DEF Sound, Tab, AllRoutes
  <2>2. CASE out.page.login
    BY <2>2 DEF AllRoutes
  <2>3. CASE ~out.page.login
    BY <2>1, <2>3, LoginIsRoute
  <2>4. QED BY <2>2, <2>3
<1> HIDE DEF to
<1>7. Sound(z) /\ z.token = None /\ (wrote \subseteq {t} => Quiet(z))
  BY <1>5, <1>6, PushPushes, PushQuiet DEF Keeps
<1> HIDE DEF z
<1>8. CASE tab' = [tab EXCEPT ![t] = z] /\ Write(t, None)
  BY <1>7, <1>8, WriteStep
<1>9. CASE tab' = [tab EXCEPT ![t] = after] /\ KeepCookie
  BY <1>3, <1>4, <1>9, KeepStep DEF x
<1>10. QED BY <1>2, <1>8, <1>9

LEMMA NextIInv == IInv /\ [Next]_vars => IInv'
<1>1. ASSUME IInv, NEW t \in Tabs, User(t) PROVE IInv'
  BY <1>1, OpenStep, ClickStep, FormStep, DismissStep DEF User
<1>2. ASSUME IInv, NEW t \in Tabs, Answer(t) PROVE IInv'
  BY <1>2, InfoArrivesStep, InfoFailsStep, LoadedStep, LoadFailsStep, LoginStep, LogoutStep DEF Answer
<1>3. ASSUME IInv, UNCHANGED vars PROVE IInv'
  BY <1>3 DEF vars, IInv, TypeOK, StoreFollowsOwnCookie, Undisturbed, Quiet
<1>4. QED BY <1>1, <1>2, <1>3 DEF Next
-----------------------------------------------------------------------------
(* A page is not shown before the user's info.                             *)

\* Unless one navigation has overtaken another, only the pending one is under way.
Alone(x) == ~x.overtaken => \A i \in Slots : x.nav[i] # NoNav => i = x.pending

\* The login page is there once its chunk is; it takes a logout to come to the address that
\* a logout on the login page leads to.
Routed(x) ==
    /\ \A i \in Slots : x.nav[i].to # Login(Again)
    /\ x.page = Login(Again) => ~x.leaving
    /\ x.page.login => None \in x.chunks

\* The pending page and the current one have the name of their user.
Named(x) ==
    ~x.overtaken /\ ~x.broken =>
        /\ (x.pending # 0 /\ x.nav[x.pending].at = "load" /\ ~x.nav[x.pending].to.login)
               => x.name # None
        /\ (x.page \in PageRoutes /\ x.name = None) => x.pending # 0 /\ x.nav[x.pending].to.login

Good(x) == Alone(x) /\ Routed(x) /\ Named(x)

LEMMA RouteKinds ==
    /\ \A r \in AllRoutes : r.login \in BOOLEAN
    /\ \A r \in PageRoutes : ~r.login
    /\ \A p : Login(p).login
    /\ ~NoRoute.login /\ NoRoute # Login(Again)
    /\ \A r \in Routes : r # Login(Again)
    /\ \A r \in AllRoutes : Chunk(r) \in Pages \union {None}
    /\ \A r : r.login => Chunk(r) = None
<1> USE NamesAssumption DEF NoRoute, Login, Page
<1>1. \A r \in PageRoutes : ~r.login /\ r.to \in Pages
  BY DEF PageRoutes
<1>2. \A p : Login(p).login /\ Login(p).to = p
  OBVIOUS
<1>3. \A r \in Routes : r \in PageRoutes \/ (r.to \in Pages \union {None} /\ r.login)
  <2> SUFFICES ASSUME NEW r \in Routes, r \notin PageRoutes
               PROVE  r.to \in Pages \union {None} /\ r.login
    OBVIOUS
  <2>1. PICK p \in Pages \union {None} : r = [login |-> TRUE, to |-> p]
    BY DEF Routes
  <2>2. QED BY <2>1
<1>4. \A r \in Routes : r # Login(Again)
  BY <1>1, <1>2, <1>3 DEF Again
<1>5. ~NoRoute.login /\ NoRoute.to = None /\ NoRoute # Login(Again)
  OBVIOUS
<1>6. \A r \in AllRoutes : r.login \in BOOLEAN /\ (r.login \/ r.to \in Pages \union {None})
  <2>1. \A r \in PageRoutes : r.login = FALSE
    BY DEF PageRoutes
  <2>2. \A r \in Routes : r \in PageRoutes \/ r.login = TRUE
    BY DEF Routes
  <2>3. NoRoute.login = FALSE /\ Login(Again).login = TRUE
    OBVIOUS
  <2>4. QED BY <1>1, <1>5, <2>1, <2>2, <2>3 DEF AllRoutes
<1>7. /\ \A r \in AllRoutes : Chunk(r) \in Pages \union {None}
      /\ \A r : r.login => Chunk(r) = None
  BY <1>6 DEF Chunk
<1>8. QED BY <1>1, <1>2, <1>4, <1>5, <1>6, <1>7

LEMMA WaitIs ==
    ASSUME NEW x \in Tab, Free(x), NEW r \in AllRoutes, NEW place \in {"info", "load"}
    PROVE  LET y == Wait(x, place, r) IN
           \E i \in Slots :
              /\ x.nav[i] = NoNav /\ y.pending = i /\ y.nav[i].at = place /\ y.nav[i].to = r
              /\ \A j \in Slots \ {i} : y.nav[j] = x.nav[j]
              /\ y.overtaken = x.overtaken /\ y.broken = x.broken /\ y.name = x.name
              /\ y.page = x.page /\ y.chunks = x.chunks /\ y.leaving = x.leaving
<1> DEFINE i == CHOOSE j \in Slots : x.nav[j] = NoNav
           n == [at |-> place, to |-> r, tok |-> IF place = "info" THEN x.token ELSE None]
           y == [x EXCEPT !.nav[i] = n, !.pending = i]
<1>1. i \in Slots /\ x.nav[i] = NoNav
  BY DEF Free
<1>2. Wait(x, place, r) = y
  BY DEF Wait
<1>3. n.at = place /\ n.to = r
  OBVIOUS
<1> HIDE DEF i, n
<1>4. y.nav = [x.nav EXCEPT ![i] = n] /\ y.pending = i
  BY DEF Tab
<1>5. y.nav[i] = n /\ \A j \in Slots \ {i} : y.nav[j] = x.nav[j]
  BY <1>1, <1>4 DEF Tab
<1>6. /\ y.overtaken = x.overtaken /\ y.broken = x.broken /\ y.name = x.name
      /\ y.page = x.page /\ y.chunks = x.chunks /\ y.leaving = x.leaving
  BY DEF Tab
<1> HIDE DEF y
<1>7. QED BY <1>1, <1>2, <1>3, <1>4, <1>5, <1>6

LEMMA ProceedGood ==
    ASSUME NEW x \in Tab, Free(x), Alone(x), Routed(x), x.pending = 0, NEW r \in AllRoutes,
           r = Login(Again) => None \in x.chunks /\ ~x.leaving,
           r.login \/ x.name # None
    PROVE  Good(Proceed(x, r))
<1>1. CASE Chunk(r) \in x.chunks
  <2> DEFINE y == [x EXCEPT !.page = r, !.pending = 0]
  <2>1. Proceed(x, r) = y
    BY <1>1 DEF Proceed, Confirm
  <2>2. /\ y.nav = x.nav /\ y.pending = 0 /\ y.page = r
        /\ y.overtaken = x.overtaken /\ y.broken = x.broken /\ y.name = x.name
        /\ y.chunks = x.chunks /\ y.leaving = x.leaving
    BY DEF Tab
  <2> HIDE DEF y
  <2>3. Alone(y)
    BY <2>2 DEF Alone
  <2>4. Routed(y)
    BY <1>1, <2>2, RouteKinds DEF Routed
  <2>5. Named(y)
    BY <2>2, RouteKinds DEF Named
  <2>6. QED BY <2>1, <2>3, <2>4, <2>5 DEF Good
<1>2. CASE Chunk(r) \notin x.chunks
  <2> DEFINE y == Wait(x, "load", r)
  <2>1. Proceed(x, r) = y
    BY <1>2 DEF Proceed
  <2>2. PICK i \in Slots :
              /\ x.nav[i] = NoNav /\ y.pending = i /\ y.nav[i].at = "load" /\ y.nav[i].to = r
              /\ \A j \in Slots \ {i} : y.nav[j] = x.nav[j]
              /\ y.overtaken = x.overtaken /\ y.broken = x.broken /\ y.name = x.name
              /\ y.page = x.page /\ y.chunks = x.chunks /\ y.leaving = x.leaving
    BY WaitIs
  <2> HIDE DEF y
  <2>3. r # Login(Again)
    BY <1>2, RouteKinds
  <2>4. Alone(y)
    BY <2>2, BoundsAssumption DEF Alone, Slots
  <2>5. Routed(y)
    BY <2>2, <2>3 DEF Routed
  <2>6. Named(y)
    BY <2>2, BoundsAssumption DEF Named, Slots
  <2>7. QED BY <2>1, <2>4, <2>5, <2>6 DEF Good
<1>3. QED BY <1>1, <1>2

\* The pending navigation makes way for another.
LEMMA MakeWay ==
    ASSUME NEW x, Sound(x), Alone(x), Routed(x), Free(x)
    PROVE  LET y == [x EXCEPT !.pending = 0, !.overtaken = @ \/ x.pending # 0] IN
           /\ y \in Tab /\ Free(y) /\ Alone(y) /\ Routed(y) /\ y.pending = 0
           /\ y.page = x.page /\ y.chunks = x.chunks /\ y.leaving = x.leaving
           /\ Named(x) => Named(y)
<1> DEFINE y == [x EXCEPT !.pending = 0, !.overtaken = @ \/ x.pending # 0]
<1>1. (x.overtaken \/ x.pending # 0) \in BOOLEAN /\ 0 \in 0..MaxNavs /\ x \in Tab
  BY BoundsAssumption DEF Sound
<1>2. /\ y \in Tab /\ y.nav = x.nav /\ y.pending = 0 /\ y.page = x.page
      /\ y.broken = x.broken /\ y.name = x.name /\ y.chunks = x.chunks /\ y.leaving = x.leaving
      /\ y.overtaken = (x.overtaken \/ x.pending # 0)
  BY <1>1 DEF Tab
<1> HIDE DEF y
<1>3. Free(y) /\ Routed(y)
  BY <1>2 DEF Free, Routed
<1>4. Alone(y)
  BY <1>2 DEF Alone
<1>5. Named(x) => Named(y)
  BY <1>2 DEF Named
<1>6. QED BY <1>2, <1>3, <1>4, <1>5 DEF y

LEMMA PushGood ==
    ASSUME NEW x, Sound(x), Good(x), Free(x), NEW r \in Routes, NEW c
    PROVE  Good(Push(x, r, c))
<1> DEFINE y == [x EXCEPT !.pending = 0, !.overtaken = @ \/ x.pending # 0]
           to == Redirect(r, c)
<1>1. /\ y \in Tab /\ Free(y) /\ Alone(y) /\ Routed(y) /\ y.pending = 0 /\ Named(y)
  BY MakeWay DEF Good
<1>2. to \in Routes
  <2>1. r.to \in Pages \union {None}
    BY DEF Routes, PageRoutes, Page, Login
  <2>2. Page(Home) \in Routes /\ Login(r.to) \in Routes
    BY <2>1, NamesAssumption DEF Routes, PageRoutes
  <2>3. QED BY <2>2 DEF Redirect
<1>3. Push(x, r, c) = IF r = x.page THEN x ELSE IF to = x.page THEN y ELSE Guard(y, to)
  BY DEF Push
<1> HIDE DEF y, to
<1>4. Good(Guard(y, to))
  <2>1. to # Login(Again) /\ to \in AllRoutes
    BY <1>2, RouteKinds DEF AllRoutes
  <2>2. CASE to.login \/ HasInfo(y)
    BY <1>1, <2>1, <2>2, ProceedGood DEF Guard, HasInfo
  <2>3. CASE ~(to.login \/ HasInfo(y))
    <3> DEFINE z == Wait(y, "info", to)
    <3>1. Guard(y, to) = z
      BY <2>3 DEF Guard
    <3>2. PICK i \in Slots :
              /\ y.nav[i] = NoNav /\ z.pending = i /\ z.nav[i].at = "info" /\ z.nav[i].to = to
              /\ \A j \in Slots \ {i} : z.nav[j] = y.nav[j]
              /\ z.overtaken = y.overtaken /\ z.broken = y.broken /\ z.name = y.name
              /\ z.page = y.page /\ z.chunks = y.chunks /\ z.leaving = y.leaving
      BY <1>1, <2>1, WaitIs
    <3> HIDE DEF z
    <3>3. Alone(z)
      BY <1>1, <3>2, BoundsAssumption DEF Alone, Slots
    <3>4. Routed(z)
      BY <1>1, <2>1, <3>2 DEF Routed
    <3>5. Named(z)
      BY <1>1, <3>2 DEF Named
    <3>6. QED BY <3>1, <3>3, <3>4, <3>5 DEF Good
  <2>4. QED BY <2>2, <2>3
<1>5. QED BY <1>1, <1>3, <1>4 DEF Good

\* On the way to the login page no name is needed.
LEMMA LoginPushGood ==
    ASSUME NEW x, Sound(x), Alone(x), Routed(x), Free(x), NEW p, Login(p) \in AllRoutes,
           Login(p) # x.page,
           Login(p) = Login(Again) => None \in x.chunks /\ ~x.leaving
    PROVE  Good(Push(x, Login(p), None))
<1> DEFINE y == [x EXCEPT !.pending = 0, !.overtaken = @ \/ x.pending # 0]
           r == Login(p)
<1>1. /\ y \in Tab /\ Free(y) /\ Alone(y) /\ Routed(y) /\ y.pending = 0
      /\ y.chunks = x.chunks /\ y.leaving = x.leaving /\ y.page = x.page
  BY MakeWay
<1>2. r.login
  BY RouteKinds
<1>3. Redirect(r, None) = r
  BY <1>2 DEF Redirect
<1> HIDE DEF r
<1>4. Push(x, r, None) = Guard(y, r)
  BY <1>3 DEF Push, r
<1> HIDE DEF y
<1>5. Guard(y, r) = Proceed(y, r)
  BY <1>2 DEF Guard
<1>6. Good(Proceed(y, r))
  BY <1>1, <1>2, ProceedGood DEF r
<1>7. QED BY <1>4, <1>5, <1>6 DEF r

\* What is done besides to a tab: only the fields of the invariant matter.
LEMMA SameGood ==
    ASSUME NEW x, NEW y, Good(x), y.nav = x.nav, y.pending = x.pending, y.page = x.page,
           y.name = x.name, y.chunks = x.chunks, y.broken = x.broken, y.overtaken = x.overtaken,
           y.leaving => x.leaving \/ x.page # Login(Again)
    PROVE  Good(y)
<1>1. Alone(y)
  BY DEF Good, Alone
<1>2. Routed(y)
  BY DEF Good, Routed
<1>3. Named(y)
  BY DEF Good, Named
<1>4. QED BY <1>1, <1>2, <1>3 DEF Good

LEMMA ClosedGood == Good(Closed)
<1>1. /\ Closed.pending = 0 /\ (\A i \in Slots : Closed.nav[i] = NoNav)
      /\ Closed.page = NoRoute /\ ~NoRoute.login /\ NoNav.to = NoRoute
  BY ClosedIsTab DEF Closed, NoRoute, Page, NoNav
<1>2. NoRoute # Login(Again) /\ NoRoute \notin PageRoutes
  BY <1>1, RouteKinds, NamesAssumption DEF NoRoute, Page, PageRoutes
<1>3. QED BY <1>1, <1>2 DEF Good, Alone, Routed, Named

LEMMA StartedGood ==
    ASSUME NEW r \in Routes, NEW c \in Tokens \union {None}
    PROVE  Good(Started(r, c))
<1> DEFINE x == [Closed EXCEPT !.up = TRUE, !.token = c]
<1>1. /\ x \in Tab /\ x.nav = Closed.nav /\ x.pending = Closed.pending /\ x.page = Closed.page
      /\ x.name = Closed.name /\ x.chunks = Closed.chunks /\ x.broken = Closed.broken
      /\ x.overtaken = Closed.overtaken /\ x.leaving = Closed.leaving
  BY ClosedIsTab DEF Tab
<1>2. Started(r, c) = Push(x, r, c)
  BY DEF Started
<1> HIDE DEF x
<1>3. Good(x)
  BY <1>1, ClosedGood, SameGood
<1>4. Free(x) /\ Sound(x)
  BY <1>1, ClosedIsTab, BoundsAssumption DEF Free, Slots, Sound
<1>5. QED BY <1>2, <1>3, <1>4, PushGood

\* A navigation that is over leaves what it was to lead to.
LEMMA OverGood ==
    ASSUME NEW x, Sound(x), Good(x), NEW i \in Slots, x.nav[i] # NoNav
    PROVE  LET y == Over(x, i) IN
           /\ Alone(y) /\ Routed(y)
           /\ ~y.overtaken => y.pending = 0
           /\ y.overtaken = x.overtaken /\ y.page = x.page /\ y.leaving = x.leaving
           /\ y.chunks = x.chunks /\ y.name = x.name /\ y.broken = x.broken
           /\ x.pending = i => y.pending = 0
<1> DEFINE y == Over(x, i)
<1>1. /\ y.nav = [x.nav EXCEPT ![i] = NoNav]
      /\ y.pending = IF x.pending = i THEN 0 ELSE x.pending
      /\ y.overtaken = x.overtaken /\ y.page = x.page /\ y.leaving = x.leaving
      /\ y.chunks = x.chunks /\ y.name = x.name /\ y.broken = x.broken
  BY DEF Over, Sound, Tab
<1> HIDE DEF y
<1>2. y.nav[i] = NoNav /\ \A j \in Slots \ {i} : y.nav[j] = x.nav[j]
  BY <1>1 DEF Sound, Tab
<1>3. ~x.overtaken => i = x.pending /\ \A j \in Slots \ {i} : x.nav[j] = NoNav
  BY DEF Good, Alone
<1>4. Alone(y)
  BY <1>1, <1>2, <1>3 DEF Alone
<1>5. Routed(y)
  BY <1>1, <1>2, RouteKinds DEF Good, Routed, NoNav
<1>6. QED BY <1>1, <1>3, <1>4, <1>5 DEF y

\* The chunk is there: the navigations that waited for it are over.
LEMMA FetchedIs ==
    ASSUME NEW x \in Tab, NEW c
    PROVE  LET y == Fetched(x, c) IN
           /\ \A i \in Slots : y.nav[i] = IF i \in Fetching(x, c) THEN NoNav ELSE x.nav[i]
           /\ y.pending = IF x.pending \in Fetching(x, c) THEN 0 ELSE x.pending
           /\ y.overtaken = x.overtaken /\ y.page = x.page /\ y.leaving = x.leaving
           /\ y.chunks = x.chunks /\ y.name = x.name /\ y.broken = x.broken
<1> DEFINE y == Fetched(x, c)
           F == Fetching(x, c)
<1> HIDE DEF F
<1>1. y = [x EXCEPT !.nav = [i \in Slots |-> IF i \in F THEN NoNav ELSE @[i]],
                    !.pending = IF @ \in F THEN 0 ELSE @]
  BY DEF Fetched, F
<1>2. /\ y.nav = [i \in Slots |-> IF i \in F THEN NoNav ELSE x.nav[i]]
      /\ y.pending = IF x.pending \in F THEN 0 ELSE x.pending
      /\ y.overtaken = x.overtaken /\ y.page = x.page /\ y.leaving = x.leaving
      /\ y.chunks = x.chunks /\ y.name = x.name /\ y.broken = x.broken
  BY <1>1 DEF Tab
<1> HIDE DEF y
<1>3. QED BY <1>2 DEF y, F
-----------------------------------------------------------------------------
AllGood == \A t \in Tabs : Good(tab[t])

LEMMA GoodStep ==
    ASSUME IInv, AllGood, NEW t \in Tabs, NEW y, tab' = [tab EXCEPT ![t] = y], Good(y)
    PROVE  AllGood'
<1>1. tab'[t] = y /\ \A s \in Tabs \ {t} : tab'[s] = tab[s]
  BY DEF IInv, TypeOK
<1>2. QED BY <1>1 DEF AllGood

LEMMA UserGood == ASSUME IInv, AllGood, NEW t \in Tabs, User(t) PROVE AllGood'
<1> DEFINE x == tab[t]
<1>1. Sound(x) /\ x \in Tab /\ Good(x)
  BY TabIsSound DEF AllGood
<1>2. ASSUME NEW r \in Routes, NEW c \in Tokens \union {None},
             tab' = [tab EXCEPT ![t] = Started(r, c)]
      PROVE  AllGood'
  BY <1>2, StartedGood, GoodStep
<1>3. CASE Open(t)
  BY <1>2, <1>3 DEF Open, IInv, TypeOK
<1>4. CASE Click(t)
  <2>1. PICK r \in Routes : tab' = [tab EXCEPT ![t] = Push(x, r, cookie)]
    BY <1>4 DEF Click
  <2>2. Free(x)
    BY <1>4 DEF Click
  <2>3. QED BY <1>1, <2>1, <2>2, PushGood, GoodStep
<1>5. CASE Submit(t)
  <2>1. PICK u \in Tokens \union {None} : tab' = [tab EXCEPT ![t] = [x EXCEPT !.form = u]]
    BY <1>5 DEF Submit
  <2> DEFINE y == [x EXCEPT !.form = u]
  <2>2. /\ y.nav = x.nav /\ y.pending = x.pending /\ y.page = x.page
        /\ y.name = x.name /\ y.chunks = x.chunks /\ y.broken = x.broken
        /\ y.overtaken = x.overtaken /\ y.leaving = x.leaving
    BY <1>1 DEF Tab
  <2> HIDE DEF x, y
  <2>3. Good(y)
    BY <1>1, <2>2, SameGood
  <2>4. QED BY <2>1, <2>3, GoodStep DEF y
<1>6. CASE Leave(t)
  <2> DEFINE y == [x EXCEPT !.leaving = TRUE]
  <2>1. tab' = [tab EXCEPT ![t] = y] /\ x.page \in PageRoutes
    BY <1>6 DEF Leave
  <2>2. x.page # Login(Again)
    BY <2>1, RouteKinds
  <2>3. /\ y.nav = x.nav /\ y.pending = x.pending /\ y.page = x.page
        /\ y.name = x.name /\ y.chunks = x.chunks /\ y.broken = x.broken
        /\ y.overtaken = x.overtaken
    BY <1>1 DEF Tab
  <2> HIDE DEF x, y
  <2>4. Good(y)
    BY <1>1, <2>2, <2>3, SameGood
  <2>5. QED BY <2>1, <2>4, GoodStep
<1>7. CASE Dismiss(t)
  <2>1. CASE tab' = [tab EXCEPT ![t].dialog = FALSE]
    <3> DEFINE y == [x EXCEPT !.dialog = FALSE]
    <3>1. tab' = [tab EXCEPT ![t] = y]
      BY <2>1
    <3>2. /\ y.nav = x.nav /\ y.pending = x.pending /\ y.page = x.page
          /\ y.name = x.name /\ y.chunks = x.chunks /\ y.broken = x.broken
          /\ y.overtaken = x.overtaken /\ y.leaving = x.leaving
      BY <1>1 DEF Tab
    <3> HIDE DEF x, y
    <3>3. Good(y)
      BY <1>1, <3>2, SameGood
    <3>4. QED BY <3>1, <3>3, GoodStep
  <2>2. CASE \E r \in Routes : tab' = [tab EXCEPT ![t] = Started(r, None)]
    BY <1>2, <2>2
  <2>3. QED BY <1>7, <2>1, <2>2 DEF Dismiss
<1>8. QED BY <1>3, <1>4, <1>5, <1>6, <1>7 DEF User

LEMMA InfoArrivesGood ==
    ASSUME IInv, AllGood, NEW t \in Tabs, NEW i \in Slots, InfoArrives(t, i)
    PROVE  AllGood'
<1> DEFINE x == tab[t]
           n == x.nav[i]
           over == Over(x, i)
           named == [over EXCEPT !.name = n.tok]
<1>1. Sound(x) /\ x \in Tab /\ Good(x)
  BY TabIsSound DEF AllGood
<1>2. /\ n.tok # None /\ n.at = "info" /\ n # NoNav
      /\ tab' = [tab EXCEPT ![t] = IF x.pending = i THEN Proceed(named, n.to) ELSE named]
  BY DEF InfoArrives, NoNav
<1>3. n.to \in AllRoutes /\ n.to # Login(Again) /\ n.tok \in Tokens \union {None}
  BY <1>1 DEF Tab, Nav, AllRoutes, Good, Routed
<1>4. Sound(over) /\ Free(over)
  BY <1>1, OverEnds
<1> HIDE DEF x, n
<1>5. /\ Alone(over) /\ Routed(over) /\ (~over.overtaken => over.pending = 0)
      /\ x.pending = i => over.pending = 0
  BY <1>1, <1>2, OverGood DEF n
<1> HIDE DEF over
<1>6. /\ named \in Tab /\ named.name = n.tok /\ named.nav = over.nav
      /\ named.pending = over.pending /\ named.page = over.page /\ named.chunks = over.chunks
      /\ named.broken = over.broken /\ named.overtaken = over.overtaken
      /\ named.leaving = over.leaving
  BY <1>3, <1>4 DEF Sound, Tab
<1> HIDE DEF named
<1>7. Alone(named) /\ Routed(named) /\ Free(named)
  BY <1>4, <1>5, <1>6 DEF Alone, Routed, Free
<1>8. Named(named)
  BY <1>2, <1>6 DEF Named
<1>9. x.pending = i => Good(Proceed(named, n.to))
  BY <1>2, <1>3, <1>5, <1>6, <1>7, ProceedGood
<1>10. QED BY <1>2, <1>7, <1>8, <1>9, GoodStep DEF Good, x

LEMMA InfoFailsGood ==
    ASSUME IInv, AllGood, NEW t \in Tabs, NEW i \in Slots, InfoFails(t, i)
    PROVE  AllGood'
<1> DEFINE x == tab[t]
           n == x.nav[i]
           over == Over(x, i)
           lost == Forget(over)
<1>1. Sound(x) /\ x \in Tab /\ Good(x)
  BY TabIsSound DEF AllGood
<1>2. PICK code50008 \in BOOLEAN :
        tab' = [tab EXCEPT ![t] = ToLogin([lost EXCEPT !.dialog = @ \/ code50008], n.to.to)]
  BY DEF InfoFails
<1>3. n.at = "info" /\ n # NoNav
  BY DEF InfoFails, NoNav
<1>4. n.to \in AllRoutes /\ n.to # Login(Again)
  BY <1>1 DEF Tab, Nav, AllRoutes, Good, Routed
<1>5. n.to.to \in Pages \union {None} /\ Login(n.to.to) \in Routes
  <2> DEFINE r == n.to
  <2>1. r \in Routes \/ r = NoRoute
    BY <1>4 DEF AllRoutes
  <2> HIDE DEF r
  <2>2. r = NoRoute => r.to \in Pages \union {None}
    BY DEF NoRoute, Page
  <2>3. r \in Routes => r.to \in Pages \union {None}
    BY DEF Routes, PageRoutes, Page, Login
  <2>4. r.to \in Pages \union {None}
    BY <2>1, <2>2, <2>3
  <2>5. QED BY <2>4 DEF Routes, r
<1>6. Sound(over) /\ Free(over) /\ Sound(lost) /\ Free(lost)
  BY <1>1, OverEnds, ForgetForgets
<1> HIDE DEF x
<1>7. /\ Alone(over) /\ Routed(over)
      /\ ~over.overtaken => over.pending = 0
  BY <1>1, <1>3, OverGood
<1> DEFINE y == [lost EXCEPT !.dialog = @ \/ code50008]
           p == n.to.to
<1>8. tab' = [tab EXCEPT ![t] = Push(y, Login(p), None)]
  BY <1>2 DEF ToLogin
<1> HIDE DEF over, n
<1>9. /\ lost.nav = over.nav /\ lost.pending = over.pending /\ lost.page = over.page
      /\ lost.chunks = over.chunks /\ lost.broken = over.broken
      /\ lost.overtaken = over.overtaken /\ lost.leaving = over.leaving
  BY <1>6 DEF Forget, Reset, Sound, Tab
<1> HIDE DEF lost
<1>10. /\ y \in Tab /\ y.nav = over.nav /\ y.pending = over.pending /\ y.page = over.page
       /\ y.chunks = over.chunks /\ y.broken = over.broken
       /\ y.overtaken = over.overtaken /\ y.leaving = over.leaving
  <2>1. (lost.dialog \/ code50008) \in BOOLEAN /\ lost \in Tab
    BY <1>6 DEF Sound
  <2>2. QED BY <1>9, <2>1 DEF Tab
<1> HIDE DEF y, p
<1>11. Sound(y) /\ Free(y) /\ Alone(y) /\ Routed(y)
  BY <1>6, <1>7, <1>10 DEF Sound, Free, Alone, Routed
<1>12. CASE Login(p) # y.page
  <2>1. Login(p) # Login(Again) /\ Login(p) \in AllRoutes
    BY <1>5, RouteKinds DEF AllRoutes, p
  <2>2. QED BY <1>8, <1>11, <1>12, <2>1, LoginPushGood, GoodStep
<1>13. CASE Login(p) = y.page
  <2>1. Push(y, Login(p), None) = y
    BY <1>13 DEF Push
  <2>2. y.page \notin PageRoutes
    BY <1>13, RouteKinds
  <2>3. Named(y)
    BY <1>7, <1>10, <2>2 DEF Named
  <2>4. QED BY <1>8, <1>11, <2>1, <2>3, GoodStep DEF Good
<1>14. QED BY <1>12, <1>13

LEMMA LoadedGood ==
    ASSUME IInv, AllGood, NEW t \in Tabs, NEW c \in Pages \union {None}, Loaded(t, c)
    PROVE  AllGood'
<1> DEFINE x == tab[t]
           F == Fetching(x, c)
           f == Fetched(x, c)
           y == [f EXCEPT !.chunks = @ \union {c}]
           r == x.nav[x.pending].to
           z == [y EXCEPT !.page = r, !.pending = 0]
<1>1. Sound(x) /\ x \in Tab /\ Good(x) /\ Sound(f)
  BY TabIsSound, FetchedEnds DEF AllGood
<1>2. /\ F # {} /\ F \subseteq Slots
      /\ tab' = [tab EXCEPT ![t] = IF x.pending \in F THEN z ELSE y]
      /\ \A i \in F : x.nav[i].at = "load" /\ Chunk(x.nav[i].to) = c /\ x.nav[i] # NoNav
  BY DEF Loaded, Confirm, Fetching, NoNav
<1>3. /\ \A i \in Slots : f.nav[i] = IF i \in F THEN NoNav ELSE x.nav[i]
      /\ f.pending = IF x.pending \in F THEN 0 ELSE x.pending
      /\ f.overtaken = x.overtaken /\ f.page = x.page /\ f.leaving = x.leaving
      /\ f.chunks = x.chunks /\ f.name = x.name /\ f.broken = x.broken
  BY <1>1, FetchedIs
<1> HIDE DEF F, f, x
<1>4. /\ y.nav = f.nav /\ y.pending = f.pending /\ y.overtaken = f.overtaken
      /\ y.page = f.page /\ y.leaving = f.leaving /\ y.chunks = f.chunks \union {c}
      /\ y.name = f.name /\ y.broken = f.broken /\ y \in Tab
  <2>1. f.chunks \union {c} \in SUBSET (Pages \union {None})
    BY <1>1 DEF Sound, Tab
  <2>2. QED BY <1>1, <2>1 DEF Sound, Tab
<1> HIDE DEF y
<1>5. NoNav.to # Login(Again)
  BY RouteKinds DEF NoNav
<1>6. Alone(y)
  BY <1>1, <1>3, <1>4 DEF Good, Alone
<1>7. Routed(y)
  BY <1>1, <1>3, <1>4, <1>5 DEF Good, Routed
<1>8. CASE x.pending \notin F
  <2>1. x.overtaken
    BY <1>1, <1>2, <1>8 DEF Good, Alone
  <2>2. Named(y)
    BY <1>3, <1>4, <2>1 DEF Named
  <2>3. QED BY <1>2, <1>6, <1>7, <1>8, <2>2, GoodStep DEF Good
<1>9. CASE x.pending \in F
  <2>1. /\ z.nav = f.nav /\ z.pending = 0 /\ z.overtaken = f.overtaken
        /\ z.page = r /\ z.leaving = f.leaving /\ z.chunks = f.chunks \union {c}
        /\ z.name = f.name /\ z.broken = f.broken
    BY <1>4 DEF Tab
  <2>2. /\ r # Login(Again) /\ (r.login => c = None) /\ x.pending # 0
        /\ x.nav[x.pending].at = "load"
    BY <1>1, <1>2, <1>9, RouteKinds, BoundsAssumption DEF Good, Routed, Slots
  <2> HIDE DEF z
  <2>3. Alone(z)
    BY <1>1, <1>3, <1>9, <2>1 DEF Good, Alone
  <2>4. Routed(z)
    BY <1>1, <1>3, <1>5, <2>1, <2>2 DEF Good, Routed
  <2>5. Named(z)
    BY <1>1, <1>3, <2>1, <2>2, RouteKinds DEF Good, Named
  <2>6. QED BY <1>2, <1>9, <2>3, <2>4, <2>5, GoodStep DEF Good
<1>10. QED BY <1>8, <1>9

LEMMA LoadFailsGood ==
    ASSUME IInv, AllGood, NEW t \in Tabs, NEW c \in Pages \union {None}, LoadFails(t, c)
    PROVE  AllGood'
<1> DEFINE x == tab[t]
           f == Fetched(x, c)
           y == [f EXCEPT !.broken = TRUE]
<1>1. Sound(x) /\ x \in Tab /\ Good(x) /\ Sound(f)
  BY TabIsSound, FetchedEnds DEF AllGood
<1>2. tab' = [tab EXCEPT ![t] = y]
  BY DEF LoadFails
<1>3. /\ \A i \in Slots : f.nav[i] = IF i \in Fetching(x, c) THEN NoNav ELSE x.nav[i]
      /\ f.pending = IF x.pending \in Fetching(x, c) THEN 0 ELSE x.pending
      /\ f.overtaken = x.overtaken /\ f.page = x.page /\ f.leaving = x.leaving
      /\ f.chunks = x.chunks
  BY <1>1, FetchedIs
<1> HIDE DEF f, x
<1>4. /\ y.nav = f.nav /\ y.pending = f.pending /\ y.overtaken = f.overtaken
      /\ y.page = f.page /\ y.leaving = f.leaving /\ y.chunks = f.chunks /\ y.broken
  BY <1>1 DEF Sound, Tab
<1> HIDE DEF y
<1>5. NoNav.to # Login(Again)
  BY RouteKinds DEF NoNav
<1>6. Alone(y)
  BY <1>1, <1>3, <1>4 DEF Good, Alone
<1>7. Routed(y)
  BY <1>1, <1>3, <1>4, <1>5 DEF Good, Routed
<1>8. Named(y)
  BY <1>4 DEF Named
<1>9. QED BY <1>2, <1>6, <1>7, <1>8, GoodStep DEF Good

LEMMA LoginGood ==
    ASSUME IInv, AllGood, NEW t \in Tabs, LoginAnswers(t)
    PROVE  AllGood'
<1> DEFINE x == tab[t]
           u == x.form
           after == [x EXCEPT !.form = "none"]
           entered == [after EXCEPT !.token = u]
<1>1. Sound(x) /\ x \in Tab /\ Good(x) /\ Free(x)
  BY TabIsSound DEF AllGood, LoginAnswers
<1>2. \/ /\ u \in Tokens
         /\ \E p \in Pages : tab' = [tab EXCEPT ![t] = Push(entered, Page(p), u)]
      \/ tab' = [tab EXCEPT ![t] = after]
  BY DEF LoginAnswers, LoggedIn
<1> HIDE DEF x, u
<1>3. /\ after \in Tab /\ after.nav = x.nav /\ after.pending = x.pending /\ after.page = x.page
      /\ after.name = x.name /\ after.chunks = x.chunks /\ after.broken = x.broken
      /\ after.overtaken = x.overtaken /\ after.leaving = x.leaving
  BY <1>1 DEF Tab
<1> HIDE DEF after
<1>4. Good(after)
  BY <1>1, <1>3, SameGood
<1>5. CASE tab' = [tab EXCEPT ![t] = after]
  BY <1>4, <1>5, GoodStep
<1>6. CASE u \in Tokens /\ \E p \in Pages : tab' = [tab EXCEPT ![t] = Push(entered, Page(p), u)]
  <2>1. /\ entered \in Tab /\ entered.nav = x.nav /\ entered.pending = x.pending
        /\ entered.page = x.page /\ entered.name = x.name /\ entered.chunks = x.chunks
        /\ entered.broken = x.broken /\ entered.overtaken = x.overtaken
        /\ entered.leaving = x.leaving
    BY <1>3, <1>6 DEF Tab
  <2> HIDE DEF entered
  <2>2. Good(entered) /\ Sound(entered) /\ Free(entered)
    BY <1>1, <2>1, SameGood DEF Sound, Free
  <2>3. PICK p \in Pages : tab' = [tab EXCEPT ![t] = Push(entered, Page(p), u)]
    BY <1>6
  <2>4. Page(p) \in Routes
    BY DEF Routes, PageRoutes
  <2>5. QED BY <2>2, <2>3, <2>4, PushGood, GoodStep
<1>7. QED BY <1>2, <1>5, <1>6

LEMMA LogoutGood ==
    ASSUME IInv, AllGood, NEW t \in Tabs, LogoutAnswers(t)
    PROVE  AllGood'
<1> DEFINE x == tab[t]
           after == [x EXCEPT !.leaving = FALSE]
           out == Forget(after)
           to == IF out.page.login THEN Again ELSE out.page.to
<1>1. Sound(x) /\ x \in Tab /\ Good(x) /\ Free(x) /\ x.leaving
  BY TabIsSound DEF AllGood, LogoutAnswers
<1>2. \/ tab' = [tab EXCEPT ![t] = Push(out, Login(to), None)]
      \/ tab' = [tab EXCEPT ![t] = after]
  BY DEF LogoutAnswers, LogoutPush, ToLogin
<1> HIDE DEF x
<1>3. /\ after \in Tab /\ after.nav = x.nav /\ after.pending = x.pending /\ after.page = x.page
      /\ after.name = x.name /\ after.chunks = x.chunks /\ after.broken = x.broken
      /\ after.overtaken = x.overtaken /\ after.leaving = FALSE
  BY <1>1 DEF Tab
<1> HIDE DEF after
<1>4. Good(after)
  BY <1>1, <1>3, SameGood
<1>5. /\ out \in Tab /\ out.nav = x.nav /\ out.pending = x.pending /\ out.page = x.page
      /\ out.chunks = x.chunks /\ out.overtaken = x.overtaken /\ out.leaving = FALSE
  BY <1>3 DEF Forget, Reset, Tab
<1> HIDE DEF out
<1>6. Sound(out) /\ Free(out) /\ Alone(out) /\ Routed(out)
  BY <1>1, <1>5 DEF Sound, Free, Good, Alone, Routed
<1>7. Login(to) \in AllRoutes /\ Login(to) # out.page
      /\ (Login(to) = Login(Again) => None \in out.chunks /\ ~out.leaving)
  <2>1. out.page \in AllRoutes
    BY <1>5 DEF Tab, AllRoutes
  <2>2. out.page # Login(Again)
    BY <1>1, <1>5 DEF Good, Routed
  <2>3. CASE out.page.login
    <3>1. to = Again
      BY <2>3
    <3>2. None \in out.chunks
      BY <2>3, <1>6 DEF Routed
    <3>3. QED BY <1>5, <2>2, <3>1, <3>2 DEF AllRoutes
  <2>4. CASE ~out.page.login
    <3>1. to = out.page.to
      BY <2>4
    <3>2. Login(to) \in AllRoutes
      BY <2>1, <3>1, LoginIsRoute
    <3>3. out.page \in PageRoutes \union {NoRoute}
      BY <2>1, <2>4, RouteKinds DEF AllRoutes, Routes, Login
    <3>4. to \in Pages \union {None}
      BY <3>1, <3>3 DEF PageRoutes, NoRoute, Page
    <3>5. Login(to) # Login(Again)
      BY <3>4, RouteKinds DEF Routes
    <3>6. Login(to) # out.page
      BY <2>4, RouteKinds
    <3>7. QED BY <3>2, <3>5, <3>6
  <2>5. QED BY <2>3, <2>4
<1> HIDE DEF to
<1>8. Good(Push(out, Login(to), None))
  BY <1>6, <1>7, LoginPushGood
<1>9. QED BY <1>2, <1>4, <1>8, GoodStep

LEMMA InitGood == Init => AllGood
BY ClosedGood DEF Init, AllGood

LEMMA NextGood == IInv /\ AllGood /\ [Next]_vars => AllGood'
<1>1. ASSUME IInv, AllGood, NEW t \in Tabs, Answer(t) PROVE AllGood'
  BY <1>1, InfoArrivesGood, InfoFailsGood, LoadedGood, LoadFailsGood, LoginGood, LogoutGood DEF Answer
<1>2. ASSUME AllGood, UNCHANGED vars PROVE AllGood'
  BY <1>2 DEF vars, AllGood
<1>3. QED BY <1>1, <1>2, UserGood DEF Next
-----------------------------------------------------------------------------
\* Every variable keeps its type; in particular a navigation that goes on is one that waits.
THEOREM TypeCorrect == Spec => []TypeOK
<1>1. IInv => TypeOK  BY DEF IInv
<1>2. QED BY <1>1, InitIInv, NextIInv, PTL DEF Spec

\* setToken and removeToken are called in the tasks that set the store's token, in every
\* branch of the guard, of login and of logout.
THEOREM StoreFollows == Spec => []StoreFollowsOwnCookie
<1>1. IInv => StoreFollowsOwnCookie  BY DEF IInv
<1>2. QED BY <1>1, InitIInv, NextIInv, PTL DEF Spec

\* The guard asks for the user's info only with a token in the cookie, and without another
\* tab the store's token is that one, so that code 50008 is not the answer.
THEOREM DialogHasCause == Spec => []DialogNeedsAnotherTab
<1>1. IInv => DialogNeedsAnotherTab  BY DEF IInv, Undisturbed, DialogNeedsAnotherTab, Quiet
<1>2. QED BY <1>1, InitIInv, NextIInv, PTL DEF Spec

\* The guard of permission.js: however its requests, the chunks, logins and logouts are
\* answered, a page is shown with its user's name unless navigations overtake one another.
THEOREM PageHasInfo == Spec => []InfoBeforePage
<1>1. AllGood => InfoBeforePage
  BY DEF AllGood, Good, Named, InfoBeforePage
<1>2. QED BY <1>1, InitIInv, NextIInv, InitGood, NextGood, PTL DEF Spec
=============================================================================

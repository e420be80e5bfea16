---------------------------- MODULE StudioProofs ----------------------------
(***************************************************************************)
(* Proofs about Studio, for any constants: what holds of the frame, and    *)
(* that the frame leaves what PageProofs shows of the pages and the dock   *)
(* as it is.                                                               *)
(***************************************************************************)
EXTENDS PageProofs

(* The frame *)

Addresses == Routes \union S!Gate \union {"home"}

ShellRecords == [ready: BOOLEAN, me: BOOLEAN, route: Addresses,
                 from: Addresses \union {NoRoute}, lost: Routes \union {"home", NoRoute}]

AskRecords == [kind: {"me", "login", "whoami", "logout", "poll", "page"}, cookie: 0..MaxLogins,
               from: Addresses \union {NoRoute}, state: {"sent", "ok", "refused", "error"},
               got: 0..MaxLogins]

Numbers == cookie \in 0..MaxLogins /\ last \in 1..MaxLogins /\ alive \subseteq 1..MaxLogins

\* Until the first answer nobody is in, and nothing else is asked; after it, not again.
AtStart ==
    IF shell.ready
    THEN \A a \in asks : a.kind # "me"
    ELSE /\ ~shell.me /\ shell.lost = NoRoute
         /\ \A a \in asks : a.kind = "me"
         /\ \A a, b \in asks : a = b

\* Who is not in is at one of the two forms, and the login form knows what was lost.
AtForm ==
    /\ shell.me => shell.lost = NoRoute
    /\ shell.ready /\ ~shell.me =>
           /\ shell.route \in S!Gate
           /\ shell.lost # NoRoute => shell.from = shell.lost /\ shell.lost \notin S!Gate

\* The login under way is the only one, and it knows as much as the form.
Entering(a) == a.kind \in {"login", "whoami"}
Entry ==
    /\ \A a \in asks : Entering(a) => /\ shell.ready /\ ~shell.me
                                      /\ shell.lost # NoRoute => a.from = shell.lost
    /\ \A a, b \in asks : Entering(a) /\ Entering(b) => a = b

\* Whoever has sent the form off will find a session left to get.
Room == \A a \in asks : a.kind = "login" /\ a.state = "sent" => last < MaxLogins

ShellInv == /\ shell \in ShellRecords /\ asks \subseteq AskRecords /\ Numbers
            /\ AtStart /\ AtForm /\ Entry

\* The step of ReturnsToWhereItWas; and the frame, once it is ready, stays so.
Returns == /\ ~shell.me /\ shell'.me /\ shell.lost # NoRoute => shell'.route = shell.lost
           /\ shell.ready => shell'.ready

----------------------------------------------------------------------------
(* Kinds of steps *)

LEMMA ShellInit == S!Init => ShellInv
<1> SUFFICES ASSUME S!Init PROVE ShellInv
  OBVIOUS
<1>1. PICK r \in Routes : shell = [ready |-> FALSE, me |-> FALSE, route |-> r, from |-> NoRoute,
                                  lost |-> NoRoute]
  BY DEF S!Init
<1>2. shell \in ShellRecords /\ ~shell.ready /\ ~shell.me /\ shell.lost = NoRoute
  BY <1>1 DEF ShellRecords, Addresses
<1>3. Numbers
  BY StudioBounds DEF S!Init, Numbers
<1>4. asks = {S!Ask("me", NoRoute)} /\ S!Ask("me", NoRoute) \in AskRecords
      /\ S!Ask("me", NoRoute).kind = "me"
  BY <1>3, StudioBounds DEF S!Init, S!Ask, AskRecords, Numbers
<1>5. QED
  BY <1>2, <1>3, <1>4 DEF ShellInv, AtStart, AtForm, Entry, Entering

\* The frame is what it was, and so is every request but one, which is answered, lost, or gone.
LEMMA AnswerStep ==
  ASSUME ShellInv, shell' = shell, Numbers', NEW a \in asks, NEW n \in AskRecords,
         n.from = a.from, n.kind = "me" <=> a.kind = "me", Entering(n) => Entering(a),
         asks' \subseteq (asks \ {a}) \union {n}
  PROVE  ShellInv'
<1>1. asks' \subseteq AskRecords
  BY DEF ShellInv
<1>2. AtStart'
  BY DEF ShellInv, AtStart
<1>3. AtForm'
  BY DEF ShellInv, AtForm
<1>4. \A b \in asks' : Entering(b) => /\ shell.ready /\ ~shell.me
                                      /\ shell.lost # NoRoute => b.from = shell.lost
  BY DEF ShellInv, Entry
<1>5. ASSUME NEW b \in asks', NEW c \in asks', Entering(b), Entering(c) PROVE b = c
  <2>1. CASE b \in asks \ {a} /\ c \in asks \ {a}
    BY <1>5, <2>1 DEF ShellInv, Entry
  <2>2. CASE b = n /\ c \in asks \ {a}
    BY <1>5, <2>2 DEF ShellInv, Entry
  <2>3. CASE c = n /\ b \in asks \ {a}
    BY <1>5, <2>3 DEF ShellInv, Entry
  <2>4. QED
    BY <2>1, <2>2, <2>3
<1>6. Entry'
  BY <1>4, <1>5 DEF Entry, Entering
<1>7. QED
  BY <1>1, <1>2, <1>3, <1>6 DEF ShellInv

\* The frame is what it was, and requests go.
LEMMA GoneStep ==
  ASSUME ShellInv, shell' = shell, Numbers', asks' \subseteq asks
  PROVE  ShellInv'
BY DEF ShellInv, AtStart, AtForm, Entry, Entering

\* A request of the dock or of a page, or a logout.
LEMMA RequestStep ==
  ASSUME ShellInv, shell' = shell, Numbers', shell.ready, NEW n \in AskRecords,
         n.kind \in {"logout", "poll", "page"}, asks' = asks \union {n}
  PROVE  ShellInv'
BY DEF ShellInv, AtStart, AtForm, Entry, Entering

\* Somebody is out, at a form that knows what was lost or has forgotten it.
LEMMA OutStep ==
  ASSUME ShellInv, Numbers', asks' \subseteq asks, \A a \in asks' : a.kind # "me",
         shell' \in ShellRecords, shell'.ready, ~shell'.me, shell'.route \in S!Gate,
         \/ shell'.lost = NoRoute
         \/ /\ shell'.lost \notin S!Gate /\ shell'.from = shell'.lost
            /\ \A a \in asks' : ~Entering(a)
  PROVE  ShellInv' /\ Returns
<1>1. AtStart' /\ AtForm'
  BY DEF AtStart, AtForm
<1>2. Entry'
  BY DEF ShellInv, Entry, Entering
<1>3. QED
  BY <1>1, <1>2 DEF ShellInv, Returns

\* A refusal: nothing at a form, and out with whoever is in.
LEMMA UnauthStep ==
  ASSUME ShellInv, Numbers', NEW a \in asks, shell.ready, asks' = asks \ {a},
         shell' = S!Unauth(shell)
  PROVE  ShellInv' /\ Returns
<1>1. shell \in ShellRecords
  BY DEF ShellInv
<1>2. CASE shell.route \in S!Gate
  <2>1. shell' = shell
    BY <1>1, <1>2 DEF S!Unauth, S!Bounced, ShellRecords
  <2>2. QED
    BY <2>1, GoneStep DEF Returns
<1>3. CASE shell.route \notin S!Gate
  <2>1. shell' = [[shell EXCEPT !.me = FALSE, !.route = "login", !.from = shell.route]
                      EXCEPT !.lost = shell.route]
    BY <1>3 DEF S!Unauth, S!Bounced
  <2>2. /\ shell' \in ShellRecords /\ shell'.ready /\ ~shell'.me /\ shell'.route = "login"
        /\ shell'.from = shell.route /\ shell'.lost = shell.route
    BY <1>1, <1>3, <2>1 DEF ShellRecords, Addresses, S!Gate
  <2>3. shell.me
    BY <1>3 DEF ShellInv, AtForm
  <2>4. \A b \in asks : b.kind # "me" /\ ~Entering(b)
    BY <2>3 DEF ShellInv, AtStart, Entry
  <2>5. QED
    BY <1>3, <2>2, <2>4, OutStep DEF S!Gate
<1>4. QED
  BY <1>2, <1>3

----------------------------------------------------------------------------
(* The steps *)

LEMMA NewAsk ==
  ASSUME Numbers, NEW from \in Addresses \union {NoRoute},
         NEW kind \in {"login", "whoami", "logout", "poll", "page"}
  PROVE  /\ S!Ask(kind, from) \in AskRecords
         /\ S!Ask(kind, from).kind = kind /\ S!Ask(kind, from).from = from
BY StudioBounds DEF S!Ask, AskRecords, Numbers

LEMMA AuthorStep ==
  ASSUME ShellInv,
         \/ \E r \in Routes \union {"home"} : S!Go(r)
         \/ S!Gesture \/ \E kind \in {"poll", "page"} : S!Request(kind)
  PROVE  ShellInv' /\ Returns
<1>1. shell \in ShellRecords /\ Numbers
  BY DEF ShellInv
<1>2. ASSUME NEW r \in Routes \union {"home"}, S!Go(r) PROVE ShellInv' /\ Returns
  <2>1. /\ shell' \in ShellRecords /\ shell'.ready = shell.ready /\ shell'.me
        /\ shell'.lost = shell.lost
    BY <1>1, <1>2 DEF S!Go, ShellRecords, Addresses
  <2>2. shell.me /\ shell.ready /\ asks' = asks /\ Numbers'
    BY <1>1, <1>2 DEF S!Go, Numbers, ShellInv, AtStart
  <2>3. AtStart' /\ AtForm' /\ Entry'
    BY <2>1, <2>2 DEF ShellInv, AtStart, AtForm, Entry, Entering
  <2>4. QED
    BY <2>1, <2>2, <2>3 DEF ShellInv, Returns
<1>3. ASSUME NEW r \in S!Gate, S!SwitchForm(r) PROVE ShellInv' /\ Returns
  <2>1. /\ shell' \in ShellRecords /\ shell'.ready /\ ~shell'.me /\ shell'.route = r
        /\ shell'.lost = NoRoute
    BY <1>1, <1>3 DEF S!SwitchForm, S!AtGate, ShellRecords, Addresses, S!Gate
  <2>2. asks' = asks /\ Numbers' /\ \A a \in asks : a.kind # "me"
    BY <1>1, <1>3 DEF S!SwitchForm, S!AtGate, Numbers, ShellInv, AtStart
  <2>3. QED
    BY <2>1, <2>2, OutStep
<1>4. CASE S!Submit
  <2>1. shell.from \in Addresses \union {NoRoute}
    BY <1>1 DEF ShellRecords
  <2>2. PICK from \in Addresses \union {NoRoute} : from = shell.from
    BY <2>1
  <2>3. PICK n \in AskRecords : /\ n.kind = "login" /\ n.from = shell.from
                                /\ asks' = asks \union {n}
    BY <1>1, <1>4, <2>2, NewAsk DEF S!Submit
  <2>4. shell' = shell /\ Numbers' /\ shell.ready /\ ~shell.me
        /\ \A a \in asks : ~Entering(a)
    BY <1>1, <1>4 DEF S!Submit, S!AtGate, Numbers, Entering
  <2>5. asks' \subseteq AskRecords /\ AtStart' /\ AtForm' /\ Entry'
    BY <2>3, <2>4 DEF ShellInv, AtStart, AtForm, Entry, Entering
  <2>6. QED
    BY <2>4, <2>5 DEF ShellInv, Returns
<1>5. CASE S!Logout
  <2>1. PICK n \in AskRecords : n.kind = "logout" /\ asks' = asks \union {n}
    BY <1>1, <1>5, NewAsk DEF S!Logout
  <2>2. shell' = shell /\ Numbers' /\ shell.ready
    BY <1>1, <1>5 DEF S!Logout, Numbers, ShellInv, AtStart
  <2>3. QED
    BY <2>1, <2>2, RequestStep DEF Returns
<1>6. ASSUME NEW kind \in {"poll", "page"}, S!Request(kind) PROVE ShellInv' /\ Returns
  <2>1. PICK n \in AskRecords : n.kind = kind /\ asks' = asks \union {n}
    BY <1>1, <1>6, NewAsk DEF S!Request
  <2>2. shell' = shell /\ Numbers' /\ shell.ready
    BY <1>1, <1>6 DEF S!Request, Numbers, ShellInv, AtStart
  <2>3. QED
    BY <2>1, <2>2, RequestStep DEF Returns
<1>7. QED
  BY <1>2, <1>3, <1>4, <1>5, <1>6 DEF S!Gesture

LEMMA ServedStep ==
  ASSUME ShellInv, NEW a \in asks, NEW s \in {"ok", "refused", "error"}, NEW got \in 0..MaxLogins,
         S!Served(a, s, got), shell' = shell, Numbers'
  PROVE  ShellInv' /\ Returns
<1> DEFINE n == [a EXCEPT !.state = s, !.got = got]
<1>1. a \in AskRecords
  BY DEF ShellInv
<1>2. n \in AskRecords /\ n.kind = a.kind /\ n.from = a.from
  BY <1>1 DEF AskRecords
<1>3. asks' \subseteq (asks \ {a}) \union {n}
  BY DEF S!Served
<1> HIDE DEF n
<1>4. QED
  BY <1>2, <1>3, AnswerStep DEF Entering, Returns

LEMMA ServerStep ==
  ASSUME ShellInv, Room, NEW a \in asks, S!Serve(a) \/ S!Drop(a) PROVE ShellInv' /\ Returns
<1>1. CASE S!ServeRequest(a)
  <2>1. PICK s \in {"ok", "refused"} : S!Served(a, s, 0)
    BY <1>1 DEF S!ServeRequest
  <2>2. Numbers' /\ shell' = shell /\ 0 \in 0..MaxLogins
    BY <1>1, StudioBounds DEF S!ServeRequest, ShellInv, Numbers
  <2>3. QED
    BY <2>1, <2>2, ServedStep
<1>2. CASE S!ServeLogin(a)
  <2>1. PICK got \in 1..MaxLogins : got = last + 1
    BY <1>2, StudioBounds DEF S!ServeLogin, Room, ShellInv, Numbers
  <2>2. S!Served(a, "ok", got) /\ Numbers'
    BY <1>2, <2>1 DEF S!ServeLogin, ShellInv, Numbers
  <2>3. QED
    BY <1>2, <2>2, ServedStep DEF S!ServeLogin
<1>3. CASE S!ServeLogout(a)
  <2>1. Numbers
    BY DEF ShellInv
  <2>2. alive' \subseteq alive /\ cookie' = cookie /\ last' = last
    BY <1>3 DEF S!ServeLogout
  <2>3. Numbers' /\ 0 \in 0..MaxLogins
    BY <2>1, <2>2, StudioBounds DEF Numbers
  <2>4. QED
    BY <1>3, <2>3, ServedStep DEF S!ServeLogout
<1>4. CASE S!Drop(a)
  <2>1. Numbers' /\ shell' = shell /\ 0 \in 0..MaxLogins /\ S!Served(a, "error", 0)
    BY <1>4, StudioBounds DEF S!Drop, ShellInv, Numbers
  <2>2. QED
    BY <2>1, ServedStep
<1>5. QED
  BY <1>1, <1>2, <1>3, <1>4 DEF S!Serve

----------------------------------------------------------------------------
LEMMA MeStep ==
  ASSUME ShellInv, NEW a \in asks, S!MeArrives(a) PROVE ShellInv' /\ Returns
<1>1. shell \in ShellRecords /\ Numbers' /\ ~shell.ready /\ shell.lost = NoRoute
  BY DEF S!MeArrives, ShellInv, AtStart, Numbers
<1>2. asks' = {}
  BY <1>1 DEF S!MeArrives, ShellInv, AtStart
<1>3. CASE a.state = "ok"
  <2> DEFINE s == [shell EXCEPT !.me = TRUE, !.ready = TRUE]
  <2>1. s \in ShellRecords /\ s.me /\ s.ready /\ s.lost = NoRoute /\ shell' = S!Rendered(s)
    BY <1>1, <1>3 DEF S!MeArrives, ShellRecords
  <2> HIDE DEF s
  <2>2. shell' \in ShellRecords /\ shell'.ready /\ shell'.me /\ shell'.lost = NoRoute
    BY <2>1 DEF S!Rendered, ShellRecords, Addresses
  <2>3. QED
    BY <1>1, <1>2, <2>2 DEF ShellInv, AtStart, AtForm, Entry, Returns
<1>4. CASE a.state # "ok"
  <2> DEFINE s == [(IF a.state = "refused" THEN S!Unauth(shell) ELSE shell)
                       EXCEPT !.me = FALSE, !.ready = TRUE]
  <2>1. shell' = S!Rendered(s)
    BY <1>4 DEF S!MeArrives
  <2>2. /\ s \in ShellRecords /\ s.ready /\ ~s.me
        /\ s.lost = NoRoute \/ (s.lost \notin S!Gate /\ s.from = s.lost /\ s.route \in S!Gate)
    <3>1. CASE a.state = "refused" /\ shell.route \notin S!Gate
      <4>1. s = [[[shell EXCEPT !.me = FALSE, !.route = "login", !.from = shell.route]
                      EXCEPT !.lost = shell.route] EXCEPT !.me = FALSE, !.ready = TRUE]
        BY <3>1 DEF S!Unauth, S!Bounced
      <4>2. /\ s \in ShellRecords /\ s.ready /\ ~s.me /\ s.lost = shell.route
            /\ s.from = shell.route /\ s.route = "login"
        BY <1>1, <3>1, <4>1 DEF ShellRecords, Addresses, S!Gate
      <4>3. QED
        BY <3>1, <4>2 DEF S!Gate
    <3>2. CASE ~(a.state = "refused" /\ shell.route \notin S!Gate)
      <4>1. s = [shell EXCEPT !.me = FALSE, !.ready = TRUE]
        BY <1>1, <3>2 DEF S!Unauth, S!Bounced, ShellRecords
      <4>2. QED
        BY <1>1, <4>1 DEF ShellRecords
    <3>3. QED
      BY <3>1, <3>2
  <2> HIDE DEF s
  <2>3. shell' = IF s.route \notin S!Gate
                 THEN [s EXCEPT !.route = "login", !.from = NoRoute] ELSE s
    BY <2>1, <2>2 DEF S!Rendered
  <2>4. /\ shell' \in ShellRecords /\ shell'.ready /\ ~shell'.me /\ shell'.route \in S!Gate
        /\ shell'.lost = NoRoute \/ (shell'.lost \notin S!Gate /\ shell'.from = shell'.lost)
    BY <2>2, <2>3 DEF ShellRecords, Addresses, S!Gate
  <2>5. QED
    BY <1>1, <1>2, <2>4, OutStep
<1>5. QED
  BY <1>3, <1>4

LEMMA RequestArrivesStep ==
  ASSUME ShellInv, NEW a \in asks, S!RequestArrives(a) PROVE ShellInv' /\ Returns
<1>1. shell.ready /\ Numbers'
  BY DEF S!RequestArrives, ShellInv, AtStart, Numbers
<1>2. CASE a.state = "refused"
  BY <1>1, <1>2, UnauthStep DEF S!RequestArrives
<1>3. CASE a.state # "refused"
  BY <1>1, <1>3, GoneStep DEF S!RequestArrives, Returns
<1>4. QED
  BY <1>2, <1>3

LEMMA LoginArrivesStep ==
  ASSUME ShellInv, NEW a \in asks, S!LoginArrives(a) PROVE ShellInv' /\ Returns
<1>1. a \in AskRecords /\ Numbers /\ shell' = shell
  BY DEF S!LoginArrives, ShellInv
<1>2. CASE a.state = "ok"
  <2> DEFINE n == [S!Ask("whoami", a.from) EXCEPT !.cookie = a.got]
  <2>1. n \in AskRecords /\ n.kind = "whoami" /\ n.from = a.from
    BY <1>1, StudioBounds DEF S!Ask, AskRecords, Numbers
  <2>2. asks' \subseteq (asks \ {a}) \union {n} /\ a.kind = "login"
    BY <1>2 DEF S!LoginArrives
  <2>3. Numbers'
    BY <1>1, <1>2 DEF S!LoginArrives, Numbers, AskRecords
  <2> HIDE DEF n
  <2>4. QED
    BY <1>1, <2>1, <2>2, <2>3, AnswerStep DEF Entering, Returns
<1>3. CASE a.state # "ok"
  BY <1>1, <1>3, GoneStep DEF S!LoginArrives, Numbers, Returns
<1>4. QED
  BY <1>2, <1>3

\* The one step that lets somebody in who was out.
LEMMA WhoamiStep ==
  ASSUME ShellInv, NEW a \in asks, S!WhoamiArrives(a) PROVE ShellInv' /\ Returns
<1>1. /\ shell \in ShellRecords /\ a \in AskRecords /\ Numbers' /\ asks' = asks \ {a}
      /\ Entering(a) /\ shell.ready /\ ~shell.me
      /\ (shell.lost # NoRoute => a.from = shell.lost)
  BY DEF S!WhoamiArrives, ShellInv, Numbers, Entry, Entering
<1>2. CASE a.state = "ok"
  <2> DEFINE r == IF a.from = NoRoute THEN "home" ELSE a.from
             s == [shell EXCEPT !.me = TRUE, !.from = NoRoute, !.lost = NoRoute, !.route = r]
  <2>1. r \in Addresses
    BY <1>1 DEF AskRecords, Addresses
  <2>2. shell' = S!Rendered(s)
    BY <1>2 DEF S!WhoamiArrives
  <2>3. shell.lost # NoRoute => r = shell.lost /\ r \notin S!Gate
    BY <1>1 DEF ShellInv, AtForm
  <2> HIDE DEF r
  <2>4. s \in ShellRecords /\ s.ready /\ s.me /\ s.lost = NoRoute /\ s.route = r
    BY <1>1, <2>1 DEF ShellRecords
  <2> HIDE DEF s
  <2>5. shell' = IF s.route \in S!Gate THEN [s EXCEPT !.route = "home"] ELSE s
    BY <2>2, <2>4 DEF S!Rendered
  <2>6. /\ shell' \in ShellRecords /\ shell'.ready /\ shell'.me /\ shell'.lost = NoRoute
        /\ r \notin S!Gate => shell'.route = r
    BY <2>4, <2>5 DEF ShellRecords, Addresses
  <2>7. \A b \in asks' : b.kind # "me" /\ ~Entering(b)
    BY <1>1 DEF ShellInv, AtStart, Entry
  <2>8. AtStart' /\ AtForm' /\ Entry'
    BY <2>6, <2>7 DEF AtStart, AtForm, Entry, Entering
  <2>9. QED
    BY <1>1, <2>3, <2>6, <2>8 DEF ShellInv, Returns
<1>3. CASE a.state = "refused"
  BY <1>1, <1>3, UnauthStep DEF S!WhoamiArrives
<1>4. CASE a.state = "error"
  BY <1>1, <1>4, GoneStep DEF S!WhoamiArrives, Returns
<1>5. QED
  BY <1>1, <1>2, <1>3, <1>4 DEF S!WhoamiArrives, AskRecords

LEMMA LogoutArrivesStep ==
  ASSUME ShellInv, NEW a \in asks, S!LogoutArrives(a) PROVE ShellInv' /\ Returns
<1>1. shell \in ShellRecords /\ shell.ready /\ asks' = asks \ {a}
      /\ \A b \in asks : b.kind # "me"
  BY DEF S!LogoutArrives, ShellInv, AtStart
<1>2. Numbers'
  BY StudioBounds DEF S!LogoutArrives, ShellInv, Numbers
<1>3. /\ shell' \in ShellRecords /\ shell'.ready /\ ~shell'.me /\ shell'.route = "login"
      /\ shell'.lost = NoRoute
  BY <1>1 DEF S!LogoutArrives, ShellRecords, Addresses, S!Gate
<1>4. QED
  BY <1>1, <1>2, <1>3, OutStep DEF S!Gate

----------------------------------------------------------------------------
(* Sessions do not run out on whoever has sent the form off. *)

LEMMA RoomKept ==
  ASSUME Room, last' = last, NEW n, n.kind # "login" \/ n.state # "sent",
         asks' \subseteq asks \union {n}
  PROVE  Room'
BY DEF Room

LEMMA RoomGone == ASSUME Room, last' = last, asks' \subseteq asks PROVE Room'
BY DEF Room

LEMMA RoomAuthor ==
  ASSUME Room,
         \/ \E r \in Routes \union {"home"} : S!Go(r)
         \/ S!Gesture \/ S!Expire \/ S!Request("poll")
  PROVE  Room'
<1>1. CASE \/ S!Expire \/ \E r \in Routes \union {"home"} : S!Go(r)
           \/ \E r \in S!Gate : S!SwitchForm(r)
  BY <1>1, RoomGone DEF S!Expire, S!Go, S!SwitchForm
<1>2. CASE S!Submit
  BY <1>2 DEF S!Submit, S!Ask, Room
<1>3. CASE S!Logout
  <2>1. S!Ask("logout", NoRoute).kind # "login"
    BY DEF S!Ask
  <2>2. QED
    BY <1>3, <2>1, RoomKept DEF S!Logout
<1>4. CASE S!Request("poll")
  <2>1. S!Ask("poll", NoRoute).kind # "login"
    BY DEF S!Ask
  <2>2. QED
    BY <1>4, <2>1, RoomKept DEF S!Request
<1>5. QED
  BY <1>1, <1>2, <1>3, <1>4 DEF S!Gesture

LEMMA RoomServer ==
  ASSUME ShellInv, Room, NEW a \in asks, S!Serve(a) \/ S!Drop(a) PROVE Room'
<1>1. a \in AskRecords
  BY DEF ShellInv
<1>2. ASSUME NEW s \in {"ok", "refused", "error"}, NEW got
      PROVE  [a EXCEPT !.state = s, !.got = got].state # "sent"
  BY <1>1 DEF AskRecords
<1>3. ASSUME NEW s \in {"ok", "refused", "error"}, NEW got, S!Served(a, s, got), last' = last
      PROVE  Room'
  BY <1>2, <1>3, RoomKept DEF S!Served
<1>4. CASE S!ServeRequest(a)
  <2>1. PICK s \in {"ok", "refused"} : S!Served(a, s, 0)
    BY <1>4 DEF S!ServeRequest
  <2>2. QED
    BY <1>3, <1>4, <2>1 DEF S!ServeRequest
<1>5. CASE S!ServeLogout(a) \/ S!Drop(a)
  BY <1>3, <1>5 DEF S!ServeLogout, S!Drop
<1>6. CASE S!ServeLogin(a)
  <2>1. PICK got : got = last + 1
    OBVIOUS
  <2>2. [a EXCEPT !.state = "ok", !.got = got].state # "sent"
    BY <1>2
  <2>3. \A b \in asks' : b.kind = "login" /\ b.state = "sent" => b \in asks \ {a}
    BY <1>6, <2>1, <2>2 DEF S!ServeLogin, S!Served
  <2>4. \A b \in asks \ {a} : b.kind # "login"
    BY <1>6 DEF S!ServeLogin, ShellInv, Entry, Entering
  <2>5. QED
    BY <2>3, <2>4 DEF Room
<1>7. QED
  BY <1>4, <1>5, <1>6 DEF S!Serve

LEMMA RoomArrive == ASSUME Room, NEW a \in asks, S!Arrive(a) PROVE Room'
<1>1. CASE S!LoginArrives(a) /\ a.state = "ok"
  <2>1. [S!Ask("whoami", a.from) EXCEPT !.cookie = a.got].kind # "login"
    BY DEF S!Ask
  <2>2. QED
    BY <1>1, <2>1, RoomKept DEF S!LoginArrives
<1>2. CASE ~(S!LoginArrives(a) /\ a.state = "ok")
  BY <1>2, RoomGone DEF S!Arrive, S!MeArrives, S!RequestArrives, S!LoginArrives,
     S!WhoamiArrives, S!LogoutArrives
<1>3. QED
  BY <1>1, <1>2

----------------------------------------------------------------------------
(* The frame and the rest *)

\* Before the frame is ready there is no page that could have asked for anything, or still has
\* a question open.
Quiet == ~shell.ready => /\ bibleCalls = {} /\ graphCalls = {} /\ fuseCalls = {}
                         /\ labCalls = {} /\ writeCalls = {} /\ extractCalls = {}
                         /\ writing = {} /\ writePage = W!Closed

FrameInv == start \in Routes /\ ShellInv /\ Room /\ Quiet

IInv == /\ FrameInv /\ BibleInv /\ GraphInv /\ FuseInv /\ LabInv /\ WriteInv
        /\ ExtractInv /\ ShelfInv /\ DockInv /\ moves \in Nat

LEMMA FrameStep ==
  ASSUME FrameInv, FrameSteps PROVE FrameInv' /\ (Returns \/ shell' = shell)
<1>1. ShellInv' /\ Returns
  <2>1. CASE \E r \in {start, "home"} : S!Go(r)
    <3>1. \E r \in Routes \union {"home"} : S!Go(r)
      BY <2>1 DEF FrameInv
    <3>2. QED
      BY <3>1, AuthorStep DEF FrameInv
  <2>2. CASE S!Gesture \/ (~Valid /\ S!Request("poll"))
    BY <2>2, AuthorStep DEF FrameInv
  <2>3. CASE S!Expire
    BY <2>3, GoneStep DEF S!Expire, FrameInv, ShellInv, Numbers, Returns
  <2>4. CASE \E a \in asks : S!Serve(a) \/ S!Arrive(a) \/ S!Drop(a)
    BY <2>4, ServerStep, MeStep, RequestArrivesStep, LoginArrivesStep, WhoamiStep,
       LogoutArrivesStep DEF S!Arrive, FrameInv
  <2>5. QED
    BY <2>1, <2>2, <2>3, <2>4 DEF FrameSteps
<1>2. Quiet'
  <2> SUFFICES ASSUME ~shell'.ready PROVE Quiet'
    BY DEF Quiet
  <2>1. PICK r \in Routes \union S!Gate \union {"home"} : Left(r)
    BY DEF FrameSteps, FrameInv, ShellInv, ShellRecords, Addresses
  <2>2. ~shell.ready
    BY <1>1 DEF Returns
  <2>3. /\ bibleCalls = {} /\ graphCalls = {} /\ fuseCalls = {} /\ labCalls = {}
        /\ writeCalls = {} /\ extractCalls = {} /\ writing = {} /\ writePage = W!Closed
    BY <2>2 DEF FrameInv, Quiet
  <2>4. bibleCalls' = {} /\ graphCalls' = {} /\ fuseCalls' = {}
    BY <2>1, <2>3 DEF Left, B!Leave, B!Orphaned, bibleVars, G!Leave, G!Orphaned, graphVars,
       F!Leave, F!Orphaned, fuseVars
  <2>5. /\ labCalls' = {} /\ writeCalls' = {} /\ extractCalls' = {} /\ writing' = {}
        /\ writePage' = W!Closed
    <3>1. ~W!Leave
      BY <2>3 DEF W!Leave, W!Mounted, W!Closed
    <3>2. QED
      BY <2>1, <2>3, <3>1 DEF Left, L!Leave, L!Orphaned, labVars, writeVars, E!Leave, E!Orphaned,
         extractVars
  <2>6. QED
    BY <2>4, <2>5 DEF Quiet
<1>3. Room'
  <2>1. CASE \/ \E r \in {start, "home"} : S!Go(r)
             \/ S!Gesture \/ S!Expire \/ (~Valid /\ S!Request("poll"))
    BY <2>1, RoomAuthor DEF FrameInv
  <2>2. CASE \E a \in asks : S!Serve(a) \/ S!Arrive(a) \/ S!Drop(a)
    BY <2>2, RoomServer, RoomArrive DEF FrameInv
  <2>3. QED
    BY <2>1, <2>2 DEF FrameSteps
<1>4. QED
  BY <1>1, <1>2, <1>3 DEF FrameInv, FrameSteps

\* What a page does to the frame: nothing, or a refusal.
LEMMA PageStep ==
  ASSUME FrameInv, shell.ready,
         \/ UNCHANGED shellVars
         \/ /\ asks' = asks \union {[S!Ask("page", NoRoute) EXCEPT !.state = "refused"]}
            /\ UNCHANGED <<start, shell, cookie, alive, last>>
  PROVE  FrameInv' /\ shell' = shell
<1>1. shell' = shell /\ start' = start /\ Numbers'
  BY DEF shellVars, FrameInv, ShellInv, Numbers
<1>2. ShellInv'
  <2>1. CASE UNCHANGED shellVars
    BY <1>1, <2>1, GoneStep DEF shellVars, FrameInv
  <2>2. CASE asks' = asks \union {[S!Ask("page", NoRoute) EXCEPT !.state = "refused"]}
    <3>1. /\ [S!Ask("page", NoRoute) EXCEPT !.state = "refused"] \in AskRecords
          /\ [S!Ask("page", NoRoute) EXCEPT !.state = "refused"].kind = "page"
      BY StudioBounds DEF FrameInv, ShellInv, Numbers, S!Ask, AskRecords
    <3>2. QED
      BY <1>1, <2>2, <3>1, RequestStep DEF FrameInv
  <2>3. QED
    BY <2>1, <2>2
<1>3. Room'
  <2>1. [S!Ask("page", NoRoute) EXCEPT !.state = "refused"].kind # "login"
    BY DEF S!Ask
  <2>2. QED
    BY <2>1, RoomKept, RoomGone DEF shellVars, FrameInv
<1>4. QED
  BY <1>1, <1>2, <1>3 DEF FrameInv, Quiet

\* Who is at a page is in.
LEMMA AtIsReady == ASSUME FrameInv, NEW r, At(r) PROVE shell.ready
BY DEF At, FrameInv, ShellInv, AtStart

\* A page acts when it is there, and the server when a page has asked it.
LEMMA PageSteps ==
  ASSUME FrameInv,
         BibleSteps \/ GraphSteps \/ FuseSteps \/ LabSteps \/ WriteSteps
  PROVE  FrameInv' /\ shell' = shell
<1>1. shell.ready
  <2>1. CASE BibleSteps
    BY <2>1, AtIsReady DEF BibleSteps, FrameInv, Quiet
  <2>2. CASE GraphSteps
    BY <2>2, AtIsReady DEF GraphSteps, FrameInv, Quiet
  <2>3. CASE FuseSteps
    BY <2>3, AtIsReady DEF FuseSteps, FrameInv, Quiet
  <2>4. CASE LabSteps
    BY <2>4, AtIsReady DEF LabSteps, FrameInv, Quiet
  <2>5. CASE WriteSteps
    <3>1. CASE \E agreed \in BOOLEAN : W!Answer(agreed)
      BY <3>1 DEF W!Answer, W!Closed, FrameInv, Quiet
    <3>2. CASE \E c \in Chapters : W!Elsewhere(c)
      BY <3>2 DEF W!Elsewhere, W!Concerned, W!Mounted, W!Closed, FrameInv, Quiet
    <3>3. CASE \E c \in Chapters : W!JobEnds(c)
      BY <3>3 DEF W!JobEnds, FrameInv, Quiet
    <3>4. CASE writeCalls # {}
      BY <3>4 DEF FrameInv, Quiet
    <3>5. QED
      BY <2>5, <3>1, <3>2, <3>3, <3>4, AtIsReady DEF WriteSteps
  <2>6. QED
    BY <2>1, <2>2, <2>3, <2>4, <2>5
<1>2. \/ UNCHANGED shellVars
      \/ /\ asks' = asks \union {[S!Ask("page", NoRoute) EXCEPT !.state = "refused"]}
         /\ UNCHANGED <<start, shell, cookie, alive, last>>
  BY DEF BibleSteps, GraphSteps, FuseSteps, LabSteps, WriteSteps, Refused
<1>3. QED
  BY <1>1, <1>2, PageStep

\* An extraction may end whoever is there.
LEMMA ExtractFrame ==
  ASSUME FrameInv, ExtractSteps, UNCHANGED <<bibleVars, graphVars, fuseVars, labVars, writeVars>>
  PROVE  FrameInv' /\ shell' = shell
<1>1. CASE shell.ready
  <2>1. \/ UNCHANGED shellVars
        \/ /\ asks' = asks \union {[S!Ask("page", NoRoute) EXCEPT !.state = "refused"]}
           /\ UNCHANGED <<start, shell, cookie, alive, last>>
    BY DEF ExtractSteps, Refused
  <2>2. QED
    BY <1>1, <2>1, PageStep
<1>2. CASE ~shell.ready
  <2>1. UNCHANGED shellVars /\ \E j \in Jobs : E!JobEnds(j)
    BY <1>2, AtIsReady DEF ExtractSteps, FrameInv, Quiet
  <2>2. UNCHANGED <<extractCalls, bibleCalls, graphCalls, fuseCalls, labCalls, writeCalls,
                    writing, writePage>>
    BY <2>1 DEF E!JobEnds, bibleVars, graphVars, fuseVars, labVars, writeVars
  <2>3. ShellInv' /\ shell' = shell /\ start' = start
    BY <2>1, GoneStep DEF shellVars, FrameInv, ShellInv, Numbers
  <2>4. Room'
    BY <2>1, RoomGone DEF shellVars, FrameInv
  <2>5. QED
    BY <2>2, <2>3, <2>4 DEF FrameInv, Quiet
<1>3. QED
  BY <1>1, <1>2

----------------------------------------------------------------------------
(* The parts *)

LEMMA BiblePart ==
  ASSUME BibleInv, BibleSteps \/ UNCHANGED bibleVars \/ (B!Leave /\ FrameSteps)
  PROVE  BibleInv'
<1>1. CASE UNCHANGED bibleVars
  BY <1>1, BibleGoneStep DEF bibleVars
<1>2. CASE B!Leave
  BY <1>2, BibleLeaveStep
<1>3. CASE BibleSteps
  <2>1. B!Next \/ \E k \in bibleCalls : /\ Refused(bibleCalls, k, bibleCalls')
                                       /\ UNCHANGED <<biblePage, entries>>
    BY <1>3 DEF BibleSteps, B!Next
  <2>2. CASE B!Next
    BY <2>2, BibleStep
  <2>3. CASE UNCHANGED <<biblePage, entries>> /\ bibleCalls' \subseteq bibleCalls
    BY <2>3, BibleGoneStep
  <2>4. QED
    BY <2>1, <2>2, <2>3 DEF Refused
<1>4. QED
  BY <1>1, <1>2, <1>3

LEMMA GraphPart ==
  ASSUME GraphInv, GraphSteps \/ UNCHANGED graphVars \/ (G!Leave /\ FrameSteps)
  PROVE  GraphInv' /\ StaysDeleted
<1>1. CASE UNCHANGED graphVars
  BY <1>1, GraphGoneStep DEF graphVars
<1>2. CASE G!Leave
  BY <1>2, GraphLeaveStep
<1>3. CASE GraphSteps
  <2>1. G!Next \/ \E k \in graphCalls : /\ Refused(graphCalls, k, graphCalls')
                                       /\ UNCHANGED <<graphPage, owner, edges>>
    BY <1>3 DEF GraphSteps, G!Next
  <2>2. CASE G!Next
    BY <2>2, GraphStep
  <2>3. CASE UNCHANGED <<graphPage, owner, edges>> /\ graphCalls' \subseteq graphCalls
    BY <2>3, GraphGoneStep
  <2>4. QED
    BY <2>1, <2>2, <2>3 DEF Refused
<1>4. QED
  BY <1>1, <1>2, <1>3

LEMMA FusePart ==
  ASSUME FuseInv, FuseSteps \/ UNCHANGED fuseVars \/ (F!Leave /\ FrameSteps)
  PROVE  FuseInv' /\ (StaysWhole \/ fusePage' = fusePage)
<1>1. CASE UNCHANGED fuseVars
  BY <1>1, FuseGoneStep DEF fuseVars
<1>2. CASE F!Leave
  <2>1. StaysWhole
    BY <1>2, WholeLeave
  <2>2. QED
    BY <1>2, <2>1, FuseLeaveStep
<1>3. CASE FuseSteps
  <2>1. F!Next \/ \E k \in fuseCalls : /\ Refused(fuseCalls, k, fuseCalls')
                                       /\ UNCHANGED <<fusePage, deck>>
    BY <1>3 DEF FuseSteps, F!Next
  <2>2. CASE F!Next
    BY <2>2, FuseStep, WholeStep
  <2>3. CASE UNCHANGED <<fusePage, deck>> /\ fuseCalls' \subseteq fuseCalls
    BY <2>3, FuseGoneStep
  <2>4. QED
    BY <2>1, <2>2, <2>3 DEF Refused
<1>4. QED
  BY <1>1, <1>2, <1>3

LEMMA LabPart ==
  ASSUME LabInv, LabSteps \/ UNCHANGED labVars \/ (L!Leave /\ FrameSteps)
  PROVE  LabInv'
<1>1. CASE UNCHANGED labVars
  BY <1>1, LabGoneStep DEF labVars
<1>2. CASE L!Leave
  BY <1>2, LabLeaveStep
<1>3. CASE LabSteps
  <2>1. L!Next \/ \E k \in labCalls : /\ Refused(labCalls, k, labCalls')
                                       /\ UNCHANGED <<labPage, history, versions, reports>>
    BY <1>3 DEF LabSteps, L!Next
  <2>2. CASE L!Next
    BY <2>2, LabStep
  <2>3. CASE UNCHANGED <<labPage, history, versions, reports>> /\ labCalls' \subseteq labCalls
    BY <2>3, LabGoneStep
  <2>4. QED
    BY <2>1, <2>2, <2>3 DEF Refused
<1>4. QED
  BY <1>1, <1>2, <1>3

LEMMA WritePart ==
  ASSUME WriteInv, WriteSteps \/ UNCHANGED writeVars \/ (W!Leave /\ FrameSteps) PROVE WriteInv'
<1>1. CASE UNCHANGED writeVars
  BY <1>1, WriteGoneStep DEF writeVars
<1>2. CASE W!Leave
  BY <1>2, WriteLeaveStep
<1>3. CASE WriteSteps
  <2>1. W!Next \/ \E k \in writeCalls : /\ Refused(writeCalls, k, writeCalls')
                                        /\ UNCHANGED <<writePage, chapters, writing>>
    BY <1>3 DEF WriteSteps, W!Next, W!Arrive
  <2>2. CASE W!Next
    BY <2>2, WriteStep
  <2>3. CASE UNCHANGED <<writePage, chapters, writing>> /\ writeCalls' \subseteq writeCalls
    BY <2>3, WriteGoneStep
  <2>4. QED
    BY <2>1, <2>2, <2>3 DEF Refused
<1>4. QED
  BY <1>1, <1>2, <1>3

LEMMA ExtractPart ==
  ASSUME ExtractInv, ExtractSteps \/ UNCHANGED extractVars \/ (E!Leave /\ FrameSteps)
  PROVE  ExtractInv'
<1>1. CASE UNCHANGED extractVars
  BY <1>1, ExtractGoneStep DEF extractVars
<1>2. CASE E!Leave
  BY <1>2, ExtractLeaveStep
<1>3. CASE ExtractSteps
  <2>1. E!Next \/ \E k \in extractCalls : /\ Refused(extractCalls, k, extractCalls')
                                          /\ UNCHANGED <<extractPage, assets, extracting>>
    BY <1>3 DEF ExtractSteps, E!Next
  <2>2. CASE E!Next
    BY <2>2, ExtractStep
  <2>3. CASE UNCHANGED <<extractPage, extracting>> /\ extractCalls' \subseteq extractCalls
    BY <2>3, ExtractGoneStep
  <2>4. QED
    BY <2>1, <2>2, <2>3 DEF Refused
<1>4. QED
  BY <1>1, <1>2, <1>3

LEMMA ShelfPart ==
  ASSUME ExtractInv, ShelfInv, ExtractSteps \/ UNCHANGED extractVars \/ (E!Leave /\ FrameSteps)
  PROVE  ShelfInv'
<1>1. CASE UNCHANGED extractVars
  BY <1>1, ShelfGone DEF extractVars
<1>2. CASE E!Leave
  BY <1>2, ShelfLeave DEF ExtractInv
<1>3. CASE ExtractSteps
  <2>1. E!Next \/ \E k \in extractCalls : /\ Refused(extractCalls, k, extractCalls')
                                          /\ UNCHANGED <<extractPage, assets, extracting>>
    BY <1>3 DEF ExtractSteps, E!Next
  <2>2. CASE E!Next
    BY <2>2, ShelfStep
  <2>3. CASE UNCHANGED <<extractPage, assets>> /\ extractCalls' \subseteq extractCalls
    BY <2>3, ShelfGone
  <2>4. QED
    BY <2>1, <2>2, <2>3 DEF Refused
<1>4. QED
  BY <1>1, <1>2, <1>3

LEMMA DockPart ==
  ASSUME DockInv, DockSteps \/ UNCHANGED dockVars PROVE DockInv'
<1>1. CASE UNCHANGED dockVars
  BY <1>1, DockIdleStep DEF dockVars
<1>2. CASE DockSteps
  BY <1>2, DockStep DEF DockSteps
<1>3. QED
  BY <1>1, <1>2

----------------------------------------------------------------------------
(* The count of the author's moves *)

\* A step counts one of the author's moves, or none.
Counts == moves' = moves \/ (moves < MaxMoves /\ moves' = moves + 1)

LEMMA BibleCounts == ASSUME B!Next PROVE Counts
<1>1. CASE B!Gesture
  BY <1>1 DEF B!Gesture, B!SelectEntry, B!StartCreate, B!CloseForm, B!Submit, B!AskDelete, B!AnswerDelete,
     B!Sync, B!Move, Counts
<1>2. CASE B!SyncEnds \/ (B!Leave /\ UNCHANGED moves) \/ \E p \in Projects : B!Visit(p)
  BY <1>2 DEF B!SyncEnds, B!Visit, B!Move, Counts
<1>3. ASSUME NEW k \in bibleCalls, B!Serve(k) \/ B!Arrive(k) \/ B!Drop(k) PROVE Counts
  BY <1>3 DEF B!Serve, B!Arrive, B!Drop, B!Lose, B!ServeList, B!ServeGet, B!ServeCreate, B!ServeDelete,
     B!ServeSync, B!ListArrives, B!EntryArrives, B!CreateArrives, B!PatchArrives,
     B!DeleteArrives, B!SyncArrives, B!CallFails, B!Move, Counts
<1>4. QED
  BY <1>1, <1>2, <1>3 DEF B!Next

LEMMA GraphCounts == ASSUME G!Next PROVE Counts
<1>1. CASE G!Gesture
  BY <1>1 DEF G!Gesture, G!Extract, G!OpenForm, G!CloseForm, G!CreateNode, G!ReleaseNode, G!ResetView,
     G!LayoutRests, G!CloseDrawer, G!SaveNode, G!AskDelete, G!PressNode, G!CreateEdge,
     G!DeleteEdge, G!AnswerDelete, G!Move, Counts
<1>2. CASE (G!Leave /\ UNCHANGED moves) \/ \E p \in Projects : G!Visit(p)
  BY <1>2 DEF G!Visit, G!Move, Counts
<1>3. ASSUME NEW k \in graphCalls, G!Serve(k) \/ G!Arrive(k) \/ G!Drop(k) PROVE Counts
  BY <1>3 DEF G!Serve, G!Arrive, G!Drop, G!Lose, G!ServeLoad, G!ServeCreate, G!ServeSave,
     G!ServeDeleteEdges, G!ServeDeleteNode, G!ServeLink, G!ServeUnlink, G!ServeExtractRead,
     G!ServeExtractWrite, G!GraphArrives, G!CreateArrives, G!SaveArrives, G!DeleteArrives,
     G!CallFails, G!Move, Counts
<1>4. QED
  BY <1>1, <1>2, <1>3 DEF G!Next

LEMMA FuseDoes == ASSUME NEW p, F!Does(p) PROVE Counts
BY DEF F!Does, F!Move, Counts

LEMMA FuseCounts == ASSUME F!Next PROVE Counts
<1>1. CASE F!Gesture
  <2>1. ASSUME NEW c \in Decked, F!ToggleCard(c) PROVE Counts
    BY <2>1, FuseDoes DEF F!ToggleCard
  <2>2. ASSUME NEW c \in Decked, NEW d \in Dims, F!ToggleDim(c, d) PROVE Counts
    BY <2>2, FuseDoes DEF F!ToggleDim
  <2>3. ASSUME NEW c \in Decked, NEW d \in Dims, NEW raw \in Raw, F!SetWeight(c, d, raw)
        PROVE  Counts
    BY <2>3, FuseDoes DEF F!SetWeight
  <2>4. ASSUME NEW c \in Decked, F!FavorCard(c) PROVE Counts
    BY <2>4, FuseDoes DEF F!FavorCard
  <2>5. CASE F!EvenAll
    BY <2>5, FuseDoes DEF F!EvenAll
  <2>6. CASE F!Submit
    BY <2>6 DEF F!Submit, F!Move, Counts
  <2>7. QED
    BY <1>1, <2>1, <2>2, <2>3, <2>4, <2>5, <2>6 DEF F!Gesture, F!ClickSlot, F!ClickDeck, F!SlotDrop
<1>2. CASE F!JobEnds \/ (F!Leave /\ UNCHANGED moves) \/ \E p \in Projects, asked \in Asked : F!Visit(p, asked)
  BY <1>2 DEF F!JobEnds, F!Visit, F!Move, Counts
<1>3. ASSUME NEW k \in fuseCalls, F!Serve(k) \/ F!Arrive(k) \/ F!Drop(k) PROVE Counts
  BY <1>3 DEF F!Serve, F!Arrive, F!Drop, F!Lose, F!ServeList, F!ServeFuse, F!ListArrives, F!ResultArrives,
     F!FuseArrives, F!CallFails, F!Move, Counts
<1>4. QED
  BY <1>1, <1>2, <1>3 DEF F!Next

LEMMA LabCounts == ASSUME L!Next PROVE Counts
<1>1. CASE L!Gesture
  BY <1>1 DEF L!Gesture, L!Retry, L!Reload, L!Type, L!Save, L!SaveByKey, L!Busily, L!StartAudit, L!StartSample,
     L!SelectVersion, L!AnswerSwitch, L!Move, Counts
<1>2. CASE L!Watch \/ (L!Leave /\ UNCHANGED moves) \/ \E c \in Cards : L!Visit(c) \/ L!FromReport(c) \/ L!Return(c)
  BY <1>2 DEF L!FromReport, L!Return, L!Visit, L!Watch, L!AuditSucceeds, L!SampleSucceeds, L!JobFails,
     L!Move, Counts
<1>3. ASSUME NEW k \in labCalls, L!Serve(k) \/ L!Arrive(k) \/ L!Drop(k) PROVE Counts
  BY <1>3 DEF L!Serve, L!Arrive, L!Drop, L!Lose, L!ServeRead, L!ServeSave, L!ServeJob, L!CardArrives,
     L!SaveArrives, L!JobArrives, L!CallFails, L!Move, Counts
<1>4. QED
  BY <1>1, <1>2, <1>3 DEF L!Next

LEMMA WriteCounts == ASSUME W!Next PROVE Counts
<1>1. CASE W!Gesture
  BY <1>1 DEF W!Gesture, W!Click, W!Create, W!Generate, W!Import, W!Write, W!AskDelete, W!Send, W!Move, Counts
<1>2. CASE (\E c \in Chapters : W!JobEnds(c) \/ W!Elsewhere(c)) \/ (\E agreed \in BOOLEAN : W!Answer(agreed))
           \/ (W!Leave /\ UNCHANGED moves) \/ \E card \in BOOLEAN : W!Visit(card)
  BY <1>2 DEF W!JobEnds, W!Elsewhere, W!Answer, W!Visit, W!Move, Counts
<1>3. ASSUME NEW k \in writeCalls, W!Serve(k) \/ W!Arrive(k) \/ W!Drop(k) PROVE Counts
  BY <1>3 DEF W!Serve, W!Arrive, W!Drop, W!Lose, W!ServeList, W!ServeCreate, W!ServeBind, W!ServeWrite,
     W!ServeDelete, W!ServeOutline, W!ServeImport, W!ListArrives, W!BindArrives, W!WriteArrives,
     W!ChangeArrives, W!OutlineArrives, W!ImportArrives, W!CallFails, W!Move, Counts
<1>4. QED
  BY <1>1, <1>2, <1>3 DEF W!Next

LEMMA ExtractCounts == ASSUME E!Next PROVE Counts
<1>1. CASE E!Gesture
  BY <1>1 DEF E!Gesture, E!Reread, E!NextCard, E!Upload, E!StartByKey, E!StartByButton, E!ChooseFile,
     E!Toggle, E!Does, E!StartExtract, E!Move, Counts
<1>2. CASE E!Watch \/ (\E j \in Jobs : E!JobEnds(j)) \/ (E!Leave /\ UNCHANGED moves) \/ \E p \in Projects : E!Visit(p)
  BY <1>2 DEF E!JobEnds, E!Visit, E!Watch, E!Polled, E!PollsLost, E!Move, Counts
<1>3. ASSUME NEW k \in extractCalls, E!Serve(k) \/ E!Arrive(k) \/ E!Drop(k) PROVE Counts
  BY <1>3 DEF E!Serve, E!Arrive, E!Drop, E!Lose, E!ServeLoad, E!ServeUpload, E!ServeExtract,
     E!LoadArrives, E!UploadArrives, E!ExtractArrives, E!ResultArrives, E!CallFails, E!Move, Counts
<1>4. QED
  BY <1>1, <1>2, <1>3 DEF E!Next

\* The frame and the dock count against a bound of their own.
FrameCounts == moves' = moves \/ (moves < FrameMoves /\ moves' = moves + 1)

LEMMA ShellCounts ==
  ASSUME \/ \E r \in {start, "home"} : S!Go(r)
         \/ S!Gesture \/ S!Expire \/ S!Request("poll")
         \/ \E a \in asks : S!Serve(a) \/ S!Arrive(a) \/ S!Drop(a)
  PROVE  FrameCounts
BY DEF S!Go, S!Gesture, S!SwitchForm, S!Submit, S!Logout, S!Expire, S!Request, S!Serve,
   S!ServeRequest, S!ServeLogin, S!ServeLogout, S!Arrive, S!MeArrives, S!RequestArrives,
   S!LoginArrives, S!WhoamiArrives, S!LogoutArrives, S!Drop, S!Move, FrameCounts

LEMMA DockCounts == ASSUME D!Next PROVE FrameCounts
BY DEF D!Next, D!JobEnds, D!Age, D!OnStorage, D!Mount, D!WatchPolled, D!WatchLost, D!Hide,
   D!Polled, D!PollLost, D!Go, D!Register, D!Move, FrameCounts

LEMMA CountedStep == ASSUME moves \in Nat, Next PROVE moves' \in Nat
<1>1. CASE BibleSteps
  <2>1. B!Next \/ moves' = moves
    BY <1>1 DEF BibleSteps, B!Next, Refused
  <2>2. QED
    BY <2>1, BibleCounts DEF Counts
<1>2. CASE GraphSteps
  <2>1. G!Next \/ moves' = moves
    BY <1>2 DEF GraphSteps, G!Next, Refused
  <2>2. QED
    BY <2>1, GraphCounts DEF Counts
<1>3. CASE FuseSteps
  <2>1. F!Next \/ moves' = moves
    BY <1>3 DEF FuseSteps, F!Next, Refused
  <2>2. QED
    BY <2>1, FuseCounts DEF Counts
<1>4. CASE LabSteps
  <2>1. L!Next \/ moves' = moves
    BY <1>4 DEF LabSteps, L!Next, Refused
  <2>2. QED
    BY <2>1, LabCounts DEF Counts
<1>5. CASE WriteSteps
  <2>1. W!Next \/ moves' = moves
    BY <1>5 DEF WriteSteps, W!Next, W!Arrive, Refused
  <2>2. QED
    BY <2>1, WriteCounts DEF Counts
<1>6. CASE ExtractSteps
  <2>1. E!Next \/ moves' = moves
    BY <1>6 DEF ExtractSteps, E!Next, Refused
  <2>2. QED
    BY <2>1, ExtractCounts DEF Counts
<1>7. CASE FrameSteps
  BY <1>7, ShellCounts DEF FrameSteps, FrameCounts
<1>8. CASE DockSteps
  BY <1>8, DockCounts DEF DockSteps, FrameCounts
<1>9. QED
  BY <1>1, <1>2, <1>3, <1>4, <1>5, <1>6, <1>7, <1>8 DEF Next

----------------------------------------------------------------------------
LEMMA InitInv == Init => IInv
<1> SUFFICES ASSUME Init PROVE IInv
  OBVIOUS
<1>1. ShellInv
  BY ShellInit DEF Init
<1>2. start \in Routes
  BY DEF Init, S!Init
<1>3. Quiet
  BY DEF Init, B!Init, G!Init, F!Init, L!Init, W!Init, E!Init, Quiet
<1>4. /\ BibleInv /\ GraphInv /\ FuseInv /\ LabInv /\ WriteInv /\ ExtractInv /\ ShelfInv
      /\ DockInv
  BY BibleInit, GraphInit, FuseInit, LabInit, WriteInit, ExtractInit, ShelfInit, DockInit DEF Init
<1>5. Room
  BY DEF Init, S!Init, S!Ask, Room
<1>6. moves \in Nat
  BY DEF Init, S!Init
<1>7. QED
  BY <1>1, <1>2, <1>3, <1>4, <1>5, <1>6 DEF IInv, FrameInv

LEMMA Step == IInv /\ [Next]_vars => /\ IInv' /\ (Returns \/ shell' = shell) /\ StaysDeleted
                                     /\ StaysWhole \/ fusePage' = fusePage
<1> SUFFICES ASSUME IInv, [Next]_vars
             PROVE  /\ IInv' /\ (Returns \/ shell' = shell) /\ StaysDeleted
                    /\ StaysWhole \/ fusePage' = fusePage
  OBVIOUS
<1>1. FrameInv' /\ (Returns \/ shell' = shell)
  <2>1. CASE BibleSteps \/ GraphSteps \/ FuseSteps \/ LabSteps \/ WriteSteps
    BY <2>1, PageSteps DEF IInv
  <2>2. CASE ExtractSteps /\ UNCHANGED <<bibleVars, graphVars, fuseVars, labVars, writeVars>>
    BY <2>2, ExtractFrame DEF IInv
  <2>3. CASE FrameSteps
    BY <2>3, FrameStep DEF IInv
  <2>4. CASE UNCHANGED <<shellVars, bibleVars, graphVars, fuseVars, labVars, writeVars,
                         extractVars>>
    <3>1. ShellInv' /\ shell' = shell /\ start' = start
      BY <2>4, GoneStep DEF shellVars, IInv, FrameInv, ShellInv, Numbers
    <3>2. Room'
      BY <2>4, RoomGone DEF shellVars, IInv, FrameInv
    <3>3. QED
      BY <2>4, <3>1, <3>2 DEF IInv, FrameInv, Quiet, bibleVars, graphVars, fuseVars, labVars,
         writeVars, extractVars
  <2>5. QED
    BY <2>1, <2>2, <2>3, <2>4 DEF Next, vars
<1>2. WriteInv'
  <2>1. WriteSteps \/ UNCHANGED writeVars \/ (W!Leave /\ FrameSteps)
    BY DEF Next, vars, FrameSteps, Left
  <2>2. QED
    BY <2>1, WritePart DEF IInv
<1>3. ExtractInv' /\ ShelfInv'
  <2>1. ExtractSteps \/ UNCHANGED extractVars \/ (E!Leave /\ FrameSteps)
    BY DEF Next, vars, FrameSteps, Left
  <2>2. QED
    BY <2>1, ExtractPart, ShelfPart DEF IInv
<1>4. DockInv'
  <2>1. DockSteps \/ UNCHANGED dockVars
    BY DEF Next, vars
  <2>2. QED
    BY <2>1, DockPart DEF IInv
<1>5. BibleInv'
  <2>1. BibleSteps \/ UNCHANGED bibleVars \/ (B!Leave /\ FrameSteps)
    BY DEF Next, vars, FrameSteps, Left
  <2>2. QED
    BY <2>1, BiblePart DEF IInv
<1>6. GraphInv' /\ StaysDeleted
  <2>1. GraphSteps \/ UNCHANGED graphVars \/ (G!Leave /\ FrameSteps)
    BY DEF Next, vars, FrameSteps, Left
  <2>2. QED
    BY <2>1, GraphPart DEF IInv
<1>7. LabInv'
  <2>1. LabSteps \/ UNCHANGED labVars \/ (L!Leave /\ FrameSteps)
    BY DEF Next, vars, FrameSteps, Left
  <2>2. QED
    BY <2>1, LabPart DEF IInv
<1>8. FuseInv' /\ (StaysWhole \/ fusePage' = fusePage)
  <2>1. FuseSteps \/ UNCHANGED fuseVars \/ (F!Leave /\ FrameSteps)
    BY DEF Next, vars, FrameSteps, Left
  <2>2. QED
    BY <2>1, FusePart DEF IInv
<1>9. moves' \in Nat
  BY CountedStep DEF IInv, vars
<1>10. QED
  BY <1>1, <1>2, <1>3, <1>4, <1>5, <1>6, <1>7, <1>8, <1>9 DEF IInv

LEMMA Invariance == Spec => []IInv
<1>1. QED
  BY InitInv, Step, PTL DEF Spec

LEMMA FrameIsEnough == FrameInv /\ moves \in Nat => S!TypeOK
<1> SUFFICES ASSUME FrameInv, moves \in Nat PROVE S!TypeOK
  OBVIOUS
<1>1. shell \in ShellRecords /\ Numbers
  BY DEF FrameInv, ShellInv
<1>2. QED
  BY <1>1 DEF S!TypeOK, ShellRecords, Addresses, Numbers

\* For any constants: every page, the frame and the docks keep the shape of their state; weights
\* stay between 0 and 100 (Fuse.tsx: splitEven, setWeight), and the extraction bench shows a
\* sample at most twice (ProjectHome.tsx: load, onUpload).
THEOREM TypeCorrect == Spec => []TypeOK
<1>1. IInv => TypeOK
  <2> SUFFICES ASSUME IInv PROVE TypeOK
    OBVIOUS
  <2>1. start \in Routes /\ S!TypeOK
    BY FrameIsEnough DEF IInv, FrameInv
  <2>2. B!TypeOK /\ G!TypeOK /\ F!TypeOK /\ L!TypeOK
    BY BibleIsEnough, GraphIsEnough, FuseIsEnough, LabIsEnough DEF IInv
  <2>3. W!TypeOK
    BY DEF IInv, WriteInv, WriteServerOK, WritePageOK, WritePageRecords, WriteCallOK, W!TypeOK
  <2>4. E!TypeOK /\ D!TypeOK
    BY ShelfIsEnough DEF IInv, DockInv
  <2>5. QED
    BY <2>1, <2>2, <2>3, <2>4 DEF TypeOK
<1>2. QED
  BY <1>1, Invariance, PTL

\* For any entries, gestures, losses and orders of the answers: a save of the story bible
\* carries the text of the entry it is for (Bible.tsx: onSubmit).
THEOREM SavesGoHome == Spec => []SaveGoesToItsEntry
<1>1. IInv => SaveGoesToItsEntry
  BY BibleIsEnough DEF IInv, SaveGoesToItsEntry
<1>2. QED
  BY <1>1, Invariance, PTL

\* For any cards, reloads, returns and saves: the suggestions of an audit come into the
\* sliders at most once (Lab.tsx: appliedRef).
THEOREM AppliedOnce == Spec => []SuggestionsAppliedOnce
<1>1. IInv => SuggestionsAppliedOnce
  BY LabIsEnough DEF IInv, SuggestionsAppliedOnce
<1>2. QED
  BY <1>1, Invariance, PTL

\* For any nodes, and any calls under way when one is deleted: no step brings a deleted node
\* back (graph.go: handleSaveGraphNode, handleExtractGraph).
THEOREM NothingComesBack == Spec => DeletedStaysDeleted
<1>1. IInv /\ [Next]_vars => [\A n \in Nodes : owner[n] = "gone" => owner'[n] = "gone"]_owner
  BY Step DEF StaysDeleted
<1>2. QED
  BY <1>1, InitInv, Step, PTL DEF Spec, DeletedStaysDeleted

\* For any deck of cards, dimensions and slots, and any gestures and answers: weights that add
\* up to 100 go on adding up, but for the excepted cases (Fuse.tsx: splitEven, balanceDimension,
\* applyFavor, setWeight).
THEOREM WeightsWhole == Spec => WeightsStayWhole
<1>1. IInv /\ [Next]_vars
      => [ /\ F!AddUp(fusePage) /\ fusePage'.cards = fusePage.cards
           /\ Cardinality(F!Selected(fusePage')) <= Slots
           /\ fusePage.mode = "dominant" => fusePage.dominant \in F!Selected(fusePage)
           => F!AddUp(fusePage')]_fusePage
  BY Step DEF StaysWhole
<1>2. QED
  BY <1>1, InitInv, Step, PTL DEF Spec, WeightsStayWhole

\* For any chapters with or without a card and a text, any clicks, dialogs, calls, refusals and
\* logins in any order, and saves of the chapters elsewhere: what is ordered written has its
\* style card, or has lost it since the server said that it was there (Write.tsx: onWrite).
THEOREM OrdersAreBound == Spec => []WritesAreBound
<1>1. IInv => WritesAreBound
  <2> SUFFICES ASSUME IInv, NEW k \in writeCalls, k.kind = "write", k.chapter \in W!Kept
               PROVE  chapters[k.chapter].card \/ chapters[k.chapter].taken > k.seen
    BY DEF WritesAreBound, W!WritesAreBound
  <2>1. Had(k.chapter, k.seen) /\ k.seen \in Nat
    BY DEF IInv, WriteInv, WriteCallOK, W!CallRecords
  <2>2. chapters[k.chapter].taken \in Nat
    BY DEF IInv, WriteInv, WriteServerOK, W!Kept, W!Rows
  <2>3. QED
    BY <2>1, <2>2 DEF Had
<1>2. QED
  BY <1>1, Invariance, PTL

\* For any samples, jobs, losses, refusals and logins: a page whose extraction is running
\* begins no other (ProjectHome.tsx: jobActive).
THEOREM OneAtATime == Spec => []OneExtraction
<1>1. IInv => OneExtraction
  BY DEF IInv, ExtractInv, ExtractHeld, ExtractWatched, ExtractBegins, OneExtraction,
     E!OneExtraction
<1>2. QED
  BY <1>1, Invariance, PTL

\* For any tabs and jobs: the end of a job is told at most once in a tab, and no job leaves
\* the register untold without a reason (JobDock.tsx: DockItem).
THEOREM ToldOnce == Spec => []EndsAreToldOnce
<1>1. IInv => EndsAreToldOnce
  BY DockIsEnough DEF IInv, EndsAreToldOnce
<1>2. QED
  BY <1>1, Invariance, PTL

\* For any number of sessions, refusals and losses in any order: the login after a session's
\* end leads back to the page it ended on (App.tsx: onUnauth).
THEOREM LeadsBack == Spec => ReturnsToWhereItWas
<1>1. IInv /\ [Next]_vars
      => [~shell.me /\ shell'.me /\ shell.lost # NoRoute => shell'.route = shell.lost]_shell
  BY Step DEF Returns
<1>2. QED
  BY <1>1, InitInv, Step, PTL DEF Spec, ReturnsToWhereItWas
=============================================================================

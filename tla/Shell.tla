------------------------------- MODULE Shell -------------------------------
(***************************************************************************)
(* The frame around the pages (web/src/App.tsx), the login form            *)
(* (pages/Login.tsx) and the sessions of the server: who the app believes  *)
(* is logged in, the address, and where a login leads.                     *)
(*                                                                         *)
(* A session is the number its cookie carries.  Every request carries the  *)
(* cookie of the moment it was sent, and its answer may come back under    *)
(* another one.  "poll" and "page" stand for the requests of the dock and  *)
(* of a page; accounts, passwords and the frame's menus are left out.      *)
(***************************************************************************)
EXTENDS Naturals

CONSTANTS Pages,       \* the addresses that need a login
          NoRoute,
          MaxLogins,   \* bound: sessions
          MaxMoves     \* bound: what the author does, lost requests, sessions that expire

VARIABLES
    shell,      \* React state of App and the address with its history state
    cookie,     \* the browser's cookie, 0 for none
    alive,      \* the server: the sessions that are valid
    last,       \* the server: the last session it gave out
    asks,       \* requests under way
    moves

vars == <<shell, cookie, alive, last, asks, moves>>

Move == moves < MaxMoves /\ moves' = moves + 1

Gate == {"login", "register"}

Ask(kind, from) == [kind |-> kind, cookie |-> cookie, from |-> from, state |-> "sent", got |-> 0]

\* The routes: a page without a login leads to the login, the login with one to the projects.
Rendered(s) ==
    IF ~s.ready THEN s
    ELSE IF ~s.me /\ s.route \notin Gate THEN [s EXCEPT !.route = "login", !.from = NoRoute]
    ELSE IF s.me /\ s.route \in Gate THEN [s EXCEPT !.route = "home"]
    ELSE s

Init ==
    /\ \E r \in Pages : shell = [ready |-> FALSE, me |-> FALSE, route |-> r, from |-> NoRoute,
                                 lost |-> NoRoute]
    /\ cookie \in 0..1
    /\ alive \in SUBSET {1}
    /\ last = 1
    /\ asks = {Ask("me", NoRoute)}
    /\ moves = 0

----------------------------------------------------------------------------
(* The author *)

AtGate == shell.ready /\ ~shell.me /\ shell.route \in Gate

Go(r) ==
    /\ shell.me /\ r # shell.route
    /\ Move
    /\ shell' = [shell EXCEPT !.route = r, !.from = NoRoute]
    /\ UNCHANGED <<cookie, alive, last, asks>>

\* The links between the two forms carry no state: where the author came from is forgotten.
SwitchForm(r) ==
    /\ AtGate /\ r # shell.route
    /\ Move
    /\ shell' = [shell EXCEPT !.route = r, !.from = NoRoute, !.lost = NoRoute]
    /\ UNCHANGED <<cookie, alive, last, asks>>

\* onSubmit, which remembers the history state of now
Submit ==
    /\ AtGate /\ last < MaxLogins
    /\ ~\E a \in asks : a.kind \in {"login", "whoami"}
    /\ Move
    /\ asks' = asks \union {Ask("login", shell.from)}
    /\ UNCHANGED <<shell, cookie, alive, last>>

Logout ==
    /\ shell.me
    /\ Move
    /\ asks' = asks \union {Ask("logout", NoRoute)}
    /\ UNCHANGED <<shell, cookie, alive, last>>

\* The dock asks for its jobs and the page for what it shows.
Request(kind) ==
    /\ shell.me /\ ~\E a \in asks : a.kind = kind
    /\ asks' = asks \union {Ask(kind, NoRoute)}
    /\ UNCHANGED <<shell, cookie, alive, last, moves>>

----------------------------------------------------------------------------
(* The server *)

Served(a, state, got) == asks' = (asks \ {a}) \union {[a EXCEPT !.state = state, !.got = got]}

\* Too old, or logged out in another tab
Expire ==
    /\ alive # {}
    /\ Move
    /\ alive' = {}
    /\ UNCHANGED <<shell, cookie, last, asks>>

ServeRequest(a) ==
    /\ a \in asks /\ a.state = "sent" /\ a.kind \notin {"login", "logout"}
    /\ Served(a, IF a.cookie \in alive THEN "ok" ELSE "refused", 0)
    /\ UNCHANGED <<shell, cookie, alive, last, moves>>

ServeLogin(a) ==
    /\ a \in asks /\ a.state = "sent" /\ a.kind = "login"
    /\ last' = last + 1
    /\ alive' = alive \union {last + 1}
    /\ Served(a, "ok", last + 1)
    /\ UNCHANGED <<shell, cookie, moves>>

ServeLogout(a) ==
    /\ a \in asks /\ a.state = "sent" /\ a.kind = "logout"
    /\ alive' = alive \ {a.cookie}
    /\ Served(a, "ok", 0)
    /\ UNCHANGED <<shell, cookie, last, moves>>

----------------------------------------------------------------------------
(* The answers *)

\* Mutation of Bounced: a refusal at the login form counts too.
MBounced(s) == [s EXCEPT !.me = FALSE, !.route = "login", !.from = s.route]

\* onUnauth: to the login form, which is to lead back. At the form nothing happens.
Bounced(s) == IF s.route \in Gate THEN s
              ELSE [s EXCEPT !.me = FALSE, !.route = "login", !.from = s.route]

\* lost is where the author last was when the session turned out to be over.
Unauth(s) == [Bounced(s) EXCEPT !.lost = IF s.route \in Gate THEN s.lost ELSE s.route]

\* me() on mount
MeArrives(a) ==
    /\ a \in asks /\ a.state # "sent" /\ a.kind = "me"
    /\ shell' = Rendered([(IF a.state = "refused" THEN Unauth(shell) ELSE shell)
                              EXCEPT !.me = a.state = "ok", !.ready = TRUE])
    /\ asks' = asks \ {a}
    /\ UNCHANGED <<cookie, alive, last, moves>>

RequestArrives(a) ==
    /\ a \in asks /\ a.state # "sent" /\ a.kind \in {"poll", "page"}
    /\ shell' = IF a.state = "refused" THEN Unauth(shell) ELSE shell
    /\ asks' = asks \ {a}
    /\ UNCHANGED <<cookie, alive, last, moves>>

\* The cookie is set with the answer, and the form asks who it is.
LoginArrives(a) ==
    /\ a \in asks /\ a.state # "sent" /\ a.kind = "login"
    /\ IF a.state = "ok"
       THEN /\ cookie' = a.got
            /\ asks' = (asks \ {a}) \union {[Ask("whoami", a.from) EXCEPT !.cookie = a.got]}
       ELSE asks' = asks \ {a} /\ UNCHANGED cookie
    /\ UNCHANGED <<shell, alive, last, moves>>

\* setMe and navigate
WhoamiArrives(a) ==
    /\ a \in asks /\ a.state # "sent" /\ a.kind = "whoami"
    /\ shell' = CASE a.state = "ok" ->
                     Rendered([shell EXCEPT !.me = TRUE, !.from = NoRoute, !.lost = NoRoute,
                                            !.route = IF a.from = NoRoute THEN "home" ELSE a.from])
                  [] a.state = "refused" -> Unauth(shell)
                  [] a.state = "error" -> shell
    /\ asks' = asks \ {a}
    /\ UNCHANGED <<cookie, alive, last, moves>>

\* finally: whether or not the session is over at the server, and whoever is in by now
LogoutArrives(a) ==
    /\ a \in asks /\ a.state # "sent" /\ a.kind = "logout"
    /\ shell' = [shell EXCEPT !.me = FALSE, !.route = "login", !.from = NoRoute, !.lost = NoRoute]
    /\ cookie' = IF a.state = "ok" THEN 0 ELSE cookie
    /\ asks' = asks \ {a}
    /\ UNCHANGED <<alive, last, moves>>

Drop(a) ==
    /\ a \in asks /\ a.state \in {"sent", "ok"}
    /\ Move
    /\ Served(a, "error", 0)
    /\ UNCHANGED <<shell, cookie, alive, last>>

Gesture == \/ \E r \in Gate : SwitchForm(r)
           \/ Submit \/ Logout

Serve(a) == ServeRequest(a) \/ ServeLogin(a) \/ ServeLogout(a)

Arrive(a) == \/ MeArrives(a) \/ RequestArrives(a) \/ LoginArrives(a) \/ WhoamiArrives(a)
             \/ LogoutArrives(a)

Next == \/ \E r \in Pages \union {"home"} : Go(r)
        \/ Gesture \/ Expire
        \/ \E kind \in {"poll", "page"} : Request(kind)
        \/ \E a \in asks : Serve(a) \/ Arrive(a) \/ Drop(a)

Spec == Init /\ [][Next]_vars

----------------------------------------------------------------------------
TypeOK ==
    /\ shell \in [ready: BOOLEAN, me: BOOLEAN, route: Pages \union Gate \union {"home"},
                  from: Pages \union Gate \union {"home", NoRoute},
                  lost: Pages \union {"home", NoRoute}]
    /\ cookie \in 0..MaxLogins
    /\ alive \subseteq 1..MaxLogins
    /\ last \in 1..MaxLogins
    /\ moves \in Nat

\* A session that ends takes the author to the login form, and the next login leads back to
\* the page it ended on, however many other refusals arrive before, during and after
\* (App.tsx: onUnauth; Login.tsx: onSubmit). Going to the other form, and logging out,
\* forget that page.
ReturnsToWhereItWas ==
    [][~shell.me /\ shell'.me /\ shell.lost # NoRoute => shell'.route = shell.lost]_shell
=============================================================================

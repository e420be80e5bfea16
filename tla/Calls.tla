------------------------------- MODULE Calls -------------------------------
(***************************************************************************)
(* The calls a page has made through request() of web/src/api.ts and not   *)
(* yet got back.  The pages behind the address bar extend this module.     *)
(*                                                                         *)
(* A call is a record with at least: state, "sent", "ok" or "error"; got,  *)
(* what the answer says; live, that the page that made it is still         *)
(* mounted.  The server serves calls in any order, answers arrive in any   *)
(* order, and a call that fails was carried out before it failed or never. *)
(***************************************************************************)
EXTENDS Naturals, FiniteSets

CONSTANT MaxMoves   \* bound: gestures of the author and losses, together

VARIABLES calls, moves

Move == moves < MaxMoves /\ moves' = moves + 1

Waiting(k) == k \in calls /\ k.state = "sent"
Answered(k) == k \in calls /\ k.live /\ k.state = "ok"
Failed(k) == k \in calls /\ k.live /\ k.state = "error"

\* The answer to k is ready. Nobody waits for it when the page is gone.
Reply(k, state, got) ==
    calls' = (calls \ {k}) \union
             IF k.live THEN {[k EXCEPT !.state = state, !.got = got]} ELSE {}

\* The page is unmounted: React drops what the answers would set.
Orphaned == {[k EXCEPT !.live = FALSE] : k \in {c \in calls : c.live /\ c.state = "sent"}}
            \union {c \in calls : ~c.live}

\* A timeout or a lost connection, before the server has carried the call out or after.
Lose(k) ==
    /\ k \in calls /\ k.live /\ k.state \in {"sent", "ok"}
    /\ Move
    /\ calls' = (calls \ {k}) \union {[k EXCEPT !.state = "error"]}
=============================================================================

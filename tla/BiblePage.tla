----------------------------- MODULE BiblePage -----------------------------
(***************************************************************************)
(* The page of the story bible (web/src/pages/Bible.tsx): a list of        *)
(* entries, one form that shows the chosen entry or a new one, and the     *)
(* synchronisation job.  The form's text is named by the entry it was      *)
(* loaded from; what the author types over it keeps that name.             *)
(*                                                                         *)
(* The server keeps entries only; Bible.tla models how it updates them.    *)
(* Search, filter and sort choose among the listed rows and are left out.  *)
(***************************************************************************)
EXTENDS Calls

CONSTANTS Projects, Entries, NoProject, NoEntry

VARIABLES
    page,       \* React state of the mounted page; Closed when it is not mounted
    stored      \* the server: the project of an entry, "free" before and "gone" after

vars == <<page, stored, calls, moves>>

Closed == [project |-> NoProject, listed |-> {}, selected |-> NoEntry, detail |-> NoEntry,
           text |-> NoEntry, creating |-> FALSE, busy |-> FALSE, syncing |-> FALSE,
           asking |-> NoEntry]

Mounted == page.project # NoProject

\* A dialog covers the page.
Free == Mounted /\ page.asking = NoEntry

Call(kind, e, text) == [kind |-> kind, project |-> page.project, entry |-> e, text |-> text,
                        state |-> "sent", got |-> {}, live |-> TRUE]

Stored(p) == {e \in Entries : stored[e] = p}

\* resetEditor
Reset(p) == [p EXCEPT !.selected = NoEntry, !.detail = NoEntry, !.text = NoEntry,
                      !.creating = FALSE]

\* setDetail and the four fields, from one entry
Shown(e) == [page EXCEPT !.detail = e, !.text = e]

Init ==
    /\ page = Closed
    /\ stored \in {[e \in Entries |-> IF e \in S THEN p ELSE "free"] :
                        S \in SUBSET Entries, p \in Projects}
    /\ calls = {} /\ moves = 0

----------------------------------------------------------------------------
(* The author *)

\* The route names a project; the effect asks for its entries. Only the route changes when
\* the page was mounted before, as the browser's history can do.
Visit(p) ==
    /\ p # page.project /\ page.asking = NoEntry
    /\ Move
    /\ page' = [page EXCEPT !.project = p]
    /\ calls' = calls \union {[Call("list", NoEntry, NoEntry) EXCEPT !.project = p]}
    /\ UNCHANGED stored

Leave ==
    /\ Mounted
    /\ page' = Closed
    /\ calls' = Orphaned
    /\ UNCHANGED stored

\* The rows of the list
Row(e) == Free /\ e \in page.listed

SelectEntry(e) ==
    /\ Row(e)
    /\ ~(page.selected = e /\ (page.detail # NoEntry \/ page.creating))
    /\ Move
    /\ page' = [page EXCEPT !.selected = e, !.creating = FALSE]
    /\ calls' = calls \union {Call("get", e, NoEntry)}
    /\ UNCHANGED stored

\* The form is there to be typed in, submitted and closed.
Editing == page.creating \/ page.detail # NoEntry

\* The button is shown while there is no form.
StartCreate ==
    /\ Free /\ ~Editing
    /\ Move
    /\ page' = [Reset(page) EXCEPT !.creating = TRUE]
    /\ UNCHANGED <<stored, calls>>

CloseForm ==
    /\ Free /\ Editing
    /\ Move
    /\ page' = Reset(page)
    /\ UNCHANGED <<stored, calls>>

\* Mutation of Patched: the row that is marked in the list is saved.
MPatchedSelected == Call("patch", page.selected, page.text)

Patched == Call("patch", page.detail, page.text)

Submit ==
    /\ Free /\ Editing /\ ~page.busy
    /\ Move
    /\ calls' = calls \union
                {IF page.creating THEN Call("create", NoEntry, page.text) ELSE Patched}
    /\ page' = [page EXCEPT !.busy = TRUE]
    /\ UNCHANGED stored

\* onDelete up to its confirm(), which remembers the entry that is shown now.
AskDelete ==
    /\ Free /\ page.detail # NoEntry /\ ~page.creating /\ ~page.busy
    /\ Move
    /\ page' = [page EXCEPT !.asking = page.detail]
    /\ UNCHANGED <<stored, calls>>

AnswerDelete(agreed) ==
    /\ page.asking # NoEntry
    /\ page' = [page EXCEPT !.asking = NoEntry, !.busy = @ \/ agreed]
    /\ calls' = IF agreed THEN calls \union {Call("delete", page.asking, NoEntry)} ELSE calls
    /\ UNCHANGED <<stored, moves>>

\* jobId is set by the answer only, so a second click before it submits a second job.
Sync ==
    /\ Free /\ ~page.syncing
    /\ Move
    /\ calls' = calls \union {Call("sync", NoEntry, NoEntry)}
    /\ UNCHANGED <<page, stored>>

----------------------------------------------------------------------------
(* The server *)

ServeList(k) ==
    /\ Waiting(k) /\ k.kind \in {"list", "relist"}
    /\ Reply(k, "ok", Stored(k.project))
    /\ UNCHANGED <<page, stored, moves>>

ServeGet(k) ==
    /\ Waiting(k) /\ k.kind \in {"get", "patch"}
    /\ Reply(k, IF stored[k.entry] \in Projects THEN "ok" ELSE "error", {})
    /\ UNCHANGED <<page, stored, moves>>

ServeCreate(k) ==
    /\ Waiting(k) /\ k.kind = "create"
    /\ \E e \in Stored("free") :
           /\ stored' = [stored EXCEPT ![e] = k.project]
           /\ Reply(k, "ok", {e})
    /\ UNCHANGED <<page, moves>>

ServeDelete(k) ==
    /\ Waiting(k) /\ k.kind = "delete"
    /\ IF stored[k.entry] \in Projects
       THEN stored' = [stored EXCEPT ![k.entry] = "gone"] /\ Reply(k, "ok", {})
       ELSE Reply(k, "error", {}) /\ UNCHANGED stored
    /\ UNCHANGED <<page, moves>>

ServeSync(k) ==
    /\ Waiting(k) /\ k.kind = "sync"
    /\ Reply(k, "ok", {})
    /\ UNCHANGED <<page, stored, moves>>

----------------------------------------------------------------------------
(* The answers.  None is compared with what the page shows by then. *)

ListArrives(k) ==
    /\ Answered(k) /\ k.kind \in {"list", "relist"}
    /\ page' = [page EXCEPT !.listed = k.got]
    /\ calls' = calls \ {k}
    /\ UNCHANGED <<stored, moves>>

EntryArrives(k) ==
    /\ Answered(k) /\ k.kind = "get"
    /\ page' = Shown(k.entry)
    /\ calls' = calls \ {k}
    /\ UNCHANGED <<stored, moves>>

CreateArrives(k) ==
    /\ Answered(k) /\ k.kind = "create"
    /\ page' = [Reset(page) EXCEPT !.listed = @ \union k.got, !.busy = FALSE]
    /\ calls' = calls \ {k}
    /\ UNCHANGED <<stored, moves>>

PatchArrives(k) ==
    /\ Answered(k) /\ k.kind = "patch"
    /\ page' = [Shown(k.entry) EXCEPT !.busy = FALSE]
    /\ calls' = calls \ {k}
    /\ UNCHANGED <<stored, moves>>

DeleteArrives(k) ==
    /\ Answered(k) /\ k.kind = "delete"
    /\ page' = [Reset(page) EXCEPT !.listed = @ \ {k.entry}, !.busy = FALSE]
    /\ calls' = calls \ {k}
    /\ UNCHANGED <<stored, moves>>

SyncArrives(k) ==
    /\ Answered(k) /\ k.kind = "sync"
    /\ page' = [page EXCEPT !.syncing = TRUE]
    /\ calls' = calls \ {k}
    /\ UNCHANGED <<stored, moves>>

\* The catch clauses. A list that fails shows as empty, unless it was read after a job.
CallFails(k) ==
    /\ Failed(k)
    /\ page' = [page EXCEPT !.listed = IF k.kind = "list" THEN {} ELSE @,
                            !.busy = @ /\ k.kind \notin {"create", "patch", "delete"}]
    /\ calls' = calls \ {k}
    /\ UNCHANGED <<stored, moves>>

\* onJobStatus with a final status: the job may have added an entry, and the list is read
\* again if it succeeded.
SyncEnds ==
    /\ page.syncing
    /\ page' = [page EXCEPT !.syncing = FALSE]
    /\ \/ /\ calls' = calls \union {Call("relist", NoEntry, NoEntry)}
          /\ \/ \E e \in Stored("free") : stored' = [stored EXCEPT ![e] = page.project]
             \/ UNCHANGED stored
       \/ UNCHANGED <<calls, stored>>
    /\ UNCHANGED moves

Drop(k) == Lose(k) /\ UNCHANGED <<page, stored>>

Gesture ==
    \/ \E e \in Entries : SelectEntry(e)
    \/ StartCreate \/ CloseForm \/ Submit \/ AskDelete \/ Sync
    \/ \E agreed \in BOOLEAN : AnswerDelete(agreed)

Serve(k) == ServeList(k) \/ ServeGet(k) \/ ServeCreate(k) \/ ServeDelete(k) \/ ServeSync(k)

Arrive(k) == \/ ListArrives(k) \/ EntryArrives(k) \/ CreateArrives(k) \/ PatchArrives(k)
             \/ DeleteArrives(k) \/ SyncArrives(k) \/ CallFails(k)

Next == \/ \E p \in Projects : Visit(p)
        \/ (Leave /\ UNCHANGED moves) \/ Gesture \/ SyncEnds
        \/ \E k \in calls : Serve(k) \/ Arrive(k) \/ Drop(k)

Spec == Init /\ [][Next]_vars

----------------------------------------------------------------------------
TypeOK ==
    /\ page \in [project: Projects \union {NoProject}, listed: SUBSET Entries,
                 selected: Entries \union {NoEntry}, detail: Entries \union {NoEntry},
                 text: Entries \union {NoEntry}, creating: BOOLEAN, busy: BOOLEAN,
                 syncing: BOOLEAN, asking: Entries \union {NoEntry}]
    /\ stored \in [Entries -> Projects \union {"free", "gone"}]
    /\ \A k \in calls : /\ k.kind \in {"list", "relist", "get", "create", "patch", "delete", "sync"}
                        /\ k.entry \in Entries \union {NoEntry}
                        /\ k.state \in {"sent", "ok", "error"}

\* A save writes into an entry the text that was loaded from that entry and typed over,
\* however often the author chose another row, closed the form or began a new entry while
\* answers were under way (Bible.tsx: onSubmit, selectEntry).
SaveGoesToItsEntry == \A k \in calls : k.kind = "patch" => k.text = k.entry
=============================================================================

----------------------------- MODULE WritePage -----------------------------
(***************************************************************************)
(* The list of chapters (web/src/pages/Write.tsx) and the outline planner  *)
(* over it (components/OutlinePlannerModal.tsx).                           *)
(*                                                                         *)
(* A chapter is "free" before it is made and "gone" once deleted; between  *)
(* the two it may have a style card and it may have a text, one without    *)
(* the other too: the chapter page, in another tab or with a save that is  *)
(* late, stores a text without a card and takes a card away.  The page     *)
(* keeps the list as it last read it.  WritePipeline.tla models the jobs   *)
(* and ChapterOrder.tla the order of the chapters; titles, briefs and the  *)
(* export are left out, as is the radar, which reads only.  The project is *)
(* one: every answer is about chapters by their ids.                       *)
(***************************************************************************)
EXTENDS Calls

CONSTANTS Chapters, NoChapter

VARIABLES
    page,
    stored,     \* the server: the rows of chapters
    jobs        \* the chapters a write job is queued or running for

vars == <<page, stored, jobs, calls, moves>>

\* taken is a history variable: how often the chapter has lost its card.
Rows == [state: {"free", "here", "gone"}, card: BOOLEAN, text: BOOLEAN, taken: Nat]
Unmade == [state |-> "free", card |-> FALSE, text |-> FALSE, taken |-> 0]
None == [c \in Chapters |-> Unmade]

Closed == [open |-> FALSE, listed |-> None, pick |-> FALSE, busy |-> FALSE,
           watched |-> NoChapter, active |-> FALSE, asking |-> {},
           planner |-> FALSE, drafting |-> FALSE, outline |-> FALSE, replace |-> FALSE,
           importing |-> FALSE]

Mounted == page.open

\* asking holds the call that goes out if the author agrees.
Free == Mounted /\ page.asking = {}
Overview == Free /\ ~page.planner
Planner == Free /\ page.planner

\* The planner asks for an outline, and then shows it.
Drafting == Planner /\ ~page.outline
Reviewing == Planner /\ page.outline

\* seen is a history variable, of an order and its binding: stored[c].taken when the server
\* said that c has its card.
Call(kind, c) == [kind |-> kind, chapter |-> c, pick |-> kind = "create" /\ page.pick,
                  replace |-> kind = "import" /\ page.replace,
                  state |-> "sent", got |-> None, live |-> TRUE, seen |-> 0]

Kept == {c \in Chapters : stored[c].state = "here"}
Unused == {c \in Chapters : stored[c] = Unmade}

\* Mutation of List: the list names the chapters that are gone too.
MListGone == stored

\* What a list of the project says
List == [c \in Chapters |-> IF c \in Kept THEN stored[c] ELSE Unmade]

Made(card, text) == [Unmade EXCEPT !.state = "here", !.card = card, !.text = text]

\* Bound: chapters get their cards on the way.
Init ==
    /\ page = Closed
    /\ stored \in [Chapters -> {Unmade} \union {Made(FALSE, text) : text \in BOOLEAN}]
    /\ jobs = {}
    /\ calls = {} /\ moves = 0

----------------------------------------------------------------------------
(* The author *)

\* The address may name a card, as the laboratory's link does.
Visit(card) ==
    /\ ~Mounted
    /\ Move
    /\ page' = [page EXCEPT !.open = TRUE, !.pick = card]
    /\ calls' = calls \union {Call("load", NoChapter)}
    /\ UNCHANGED <<stored, jobs>>

\* The page goes, the functions it has begun go on: the dialog is the frame's, and a binding
\* that was answered is followed by its order.
Away == [Closed EXCEPT !.asking = {[k EXCEPT !.live = FALSE] : k \in page.asking}]
Abandoned == Orphaned \union
             {[k EXCEPT !.live = FALSE] : k \in {b \in calls : b.kind = "bind" /\ b.state = "ok"}}

Leave ==
    /\ Mounted
    /\ page' = Away
    /\ calls' = Abandoned
    /\ UNCHANGED <<stored, jobs>>

\* The select of the form, and the planner's button, check box and back button
Pick == Overview /\ page' = [page EXCEPT !.pick = ~@]
OpenPlanner == Overview /\ page' = [page EXCEPT !.planner = TRUE]
ClosePlanner == Planner /\ page' = [page EXCEPT !.planner = FALSE]
Replace == Reviewing /\ page' = [page EXCEPT !.replace = ~@]
DropOutline == Reviewing /\ ~page.importing /\ page' = [page EXCEPT !.outline = FALSE]

Click ==
    /\ Pick \/ OpenPlanner \/ ClosePlanner \/ Replace \/ DropOutline
    /\ Move
    /\ UNCHANGED <<stored, jobs, calls>>

Send(kind, c, p) ==
    /\ Move
    /\ page' = p
    /\ calls' = calls \union {Call(kind, c)}
    /\ UNCHANGED <<stored, jobs>>

\* The form over the list
NewChapter == Overview /\ ~page.busy

Create == NewChapter /\ Send("create", NoChapter, [page EXCEPT !.busy = TRUE])

\* Mutation of Ordered: a chapter that has a text is taken to have its card.
MOrderedByText(c) == LET row == page.listed[c] IN
    [Call(IF row.card \/ row.text THEN "write" ELSE "bind", c) EXCEPT !.seen = row.taken]

\* The first call of onWrite, by the row that was clicked: a chapter without a card is bound,
\* and written when the answer to that is there.
Ordered(c) == LET row == page.listed[c] IN
    [Call(IF row.card THEN "write" ELSE "bind", c) EXCEPT !.seen = row.taken]

\* The list
Row(c) == Overview /\ page.listed[c].state = "here"

\* onWrite up to its first call, or to the question whether the text may go. A second click
\* before the answer finds the button enabled.
Write(c) ==
    /\ Row(c)
    /\ ~(page.active /\ page.watched = c)
    /\ page.listed[c].card \/ page.pick
    /\ Move
    /\ IF page.listed[c].text
       THEN page' = [page EXCEPT !.asking = {Ordered(c)}] /\ UNCHANGED calls
       ELSE calls' = calls \union {Ordered(c)} /\ UNCHANGED page
    /\ UNCHANGED <<stored, jobs>>

\* onDelete up to its question
AskDelete(c) ==
    /\ Row(c)
    /\ Move
    /\ page' = [page EXCEPT !.asking = {Call("delete", c)}]
    /\ UNCHANGED <<stored, jobs, calls>>

\* onWrite and onDelete after their questions, whether or not the page is still there
Answer(agreed) ==
    /\ page.asking # {}
    /\ page' = [page EXCEPT !.asking = {}]
    /\ calls' = IF agreed THEN calls \union page.asking ELSE calls
    /\ UNCHANGED <<stored, jobs, moves>>

\* handleGenerate and handleImport
Generate == Drafting /\ ~page.drafting
            /\ Send("outline", NoChapter, [page EXCEPT !.drafting = TRUE])
Import == Reviewing /\ ~page.importing
          /\ Send("import", NoChapter, [page EXCEPT !.importing = TRUE])

----------------------------------------------------------------------------
(* The server *)

ServeList(k) ==
    /\ Waiting(k) /\ k.kind \in {"load", "reload"}
    /\ Reply(k, "ok", List)
    /\ UNCHANGED <<page, stored, jobs, moves>>

ServeCreate(k) ==
    /\ Waiting(k) /\ k.kind = "create"
    /\ \E c \in Unused : stored' = [stored EXCEPT ![c] = Made(k.pick, FALSE)]
    /\ Reply(k, "ok", None)
    /\ UNCHANGED <<page, jobs, moves>>

\* A chapter that is gone is refused. The answer is waited for without the page too.
ServeBind(k) ==
    /\ Waiting(k) /\ k.kind = "bind"
    /\ IF k.chapter \in Kept
       THEN /\ stored' = [stored EXCEPT ![k.chapter].card = TRUE]
            /\ calls' = (calls \ {k}) \union
                        {[k EXCEPT !.state = "ok", !.seen = stored[k.chapter].taken]}
       ELSE Reply(k, "error", None) /\ UNCHANGED stored
    /\ UNCHANGED <<page, jobs, moves>>

\* A chapter without a card is refused too.
ServeWrite(k) ==
    /\ Waiting(k) /\ k.kind = "write"
    /\ IF k.chapter \in Kept /\ stored[k.chapter].card
       THEN jobs' = jobs \union {k.chapter} /\ Reply(k, "ok", None)
       ELSE Reply(k, "error", None) /\ UNCHANGED jobs
    /\ UNCHANGED <<page, stored, moves>>

ServeDelete(k) ==
    /\ Waiting(k) /\ k.kind = "delete"
    /\ stored' = [stored EXCEPT ![k.chapter].state = "gone"]
    /\ Reply(k, IF k.chapter \in Kept THEN "ok" ELSE "error", None)
    /\ UNCHANGED <<page, jobs, moves>>

ServeOutline(k) ==
    /\ Waiting(k) /\ k.kind = "outline"
    /\ Reply(k, "ok", None)
    /\ UNCHANGED <<page, stored, jobs, moves>>

\* The chapters of the outline are made, with or without the card chosen in the planner,
\* after all the others were deleted if the author asked for that.
ServeImport(k) ==
    /\ Waiting(k) /\ k.kind = "import"
    /\ LET left == [c \in Chapters |-> IF k.replace /\ c \in Kept
                                      THEN [stored[c] EXCEPT !.state = "gone"] ELSE stored[c]]
       IN  \E c \in Unused, card \in BOOLEAN : stored' = [left EXCEPT ![c] = Made(card, FALSE)]
    /\ Reply(k, "ok", None)
    /\ UNCHANGED <<page, jobs, moves>>

\* The chapter page saves a chapter, its card and its text as they are there (Chapter.tsx,
\* onSave): from another tab, or with a call that was sent before this page was opened.
Saved(row, card, text) ==
    [row EXCEPT !.card = card, !.text = text,
                !.taken = IF row.card /\ ~card THEN @ + 1 ELSE @]

\* Bound: while the page or a call it has made could notice.
Concerned == Mounted \/ calls # {} \/ page.asking # {}

Elsewhere(c) ==
    /\ Concerned /\ c \in Kept
    /\ Move
    /\ \E card, text \in BOOLEAN : stored' = [stored EXCEPT ![c] = Saved(@, card, text)]
    /\ stored' # stored
    /\ UNCHANGED <<page, jobs, calls>>

\* A job ends, well or not, and never well for a chapter that is gone; it stores the card it
\* has written by along with the text. The page learns of the one it watches.
Reread == Call("load", NoChapter)

JobEnds(c) ==
    /\ c \in jobs
    /\ jobs' = jobs \ {c}
    /\ \E well \in BOOLEAN :
           /\ well => c \in Kept
           /\ stored' = IF well THEN [stored EXCEPT ![c] = Saved(@, TRUE, TRUE)] ELSE stored
           /\ IF ~(page.active /\ page.watched = c) THEN UNCHANGED <<page, calls>>
              \* JobProgress goes to the chapter that was written.
              ELSE IF well THEN page' = Away /\ calls' = Abandoned
              ELSE /\ page' = [page EXCEPT !.active = FALSE]
                   /\ calls' = calls \union {Reread}
    /\ UNCHANGED moves

----------------------------------------------------------------------------
(* The answers *)

\* The list read after a creation ends it.
ListArrives(k) ==
    /\ Answered(k) /\ k.kind \in {"load", "reload"}
    /\ page' = [page EXCEPT !.listed = k.got, !.busy = @ /\ k.kind # "reload"]
    /\ calls' = calls \ {k}
    /\ UNCHANGED <<stored, jobs, moves>>

BindArrives(k) ==
    /\ k \in calls /\ k.kind = "bind" /\ k.state = "ok"
    /\ calls' = (calls \ {k}) \union {[k EXCEPT !.kind = "write", !.state = "sent"]}
    /\ UNCHANGED <<page, stored, jobs, moves>>

WriteArrives(k) ==
    /\ Answered(k) /\ k.kind = "write"
    /\ page' = [page EXCEPT !.watched = k.chapter, !.active = TRUE]
    /\ calls' = calls \ {k}
    /\ UNCHANGED <<stored, jobs, moves>>

\* Created, deleted: the list is read again.
ChangeArrives(k) ==
    /\ Answered(k) /\ k.kind \in {"create", "delete"}
    /\ calls' = (calls \ {k}) \union {IF k.kind = "create" THEN Call("reload", NoChapter) ELSE Reread}
    /\ UNCHANGED <<page, stored, jobs, moves>>

OutlineArrives(k) ==
    /\ Answered(k) /\ k.kind = "outline"
    /\ page' = [page EXCEPT !.outline = TRUE, !.drafting = FALSE]
    /\ calls' = calls \ {k}
    /\ UNCHANGED <<stored, jobs, moves>>

\* onImportSuccess and onClose
ImportArrives(k) ==
    /\ Answered(k) /\ k.kind = "import"
    /\ page' = [page EXCEPT !.planner = FALSE, !.importing = FALSE]
    /\ calls' = (calls \ {k}) \union {Reread}
    /\ UNCHANGED <<stored, jobs, moves>>

\* A list that cannot be read shows as empty.
CallFails(k) ==
    /\ Failed(k)
    /\ page' = [page EXCEPT !.listed = IF k.kind \in {"load", "reload"} THEN None ELSE @,
                            !.busy = @ /\ k.kind \notin {"create", "reload"},
                            !.drafting = @ /\ k.kind # "outline",
                            !.importing = @ /\ k.kind # "import"]
    /\ calls' = calls \ {k}
    /\ UNCHANGED <<stored, jobs, moves>>

Drop(k) == Lose(k) /\ UNCHANGED <<page, stored, jobs>>

Gesture ==
    \/ Click \/ Create \/ Generate \/ Import
    \/ \E c \in Chapters : Write(c) \/ AskDelete(c)

Serve(k) == \/ ServeList(k) \/ ServeCreate(k) \/ ServeBind(k) \/ ServeWrite(k)
            \/ ServeDelete(k) \/ ServeOutline(k) \/ ServeImport(k)

Arrive(k) == \/ ListArrives(k) \/ BindArrives(k) \/ WriteArrives(k) \/ ChangeArrives(k)
             \/ OutlineArrives(k) \/ ImportArrives(k) \/ CallFails(k)

Next == \/ \E card \in BOOLEAN : Visit(card)
        \/ (Leave /\ UNCHANGED moves) \/ Gesture
        \/ \E agreed \in BOOLEAN : Answer(agreed)
        \/ \E c \in Chapters : JobEnds(c) \/ Elsewhere(c)
        \/ \E k \in calls : Serve(k) \/ Arrive(k) \/ Drop(k)

Spec == Init /\ [][Next]_vars

----------------------------------------------------------------------------
Lists == [Chapters -> [state: {"free", "here"}, card: BOOLEAN, text: BOOLEAN, taken: Nat]]

CallRecords ==
    [kind: {"load", "reload", "create", "bind", "write", "delete", "outline", "import"},
     chapter: Chapters \union {NoChapter}, pick: BOOLEAN, replace: BOOLEAN,
     state: {"sent", "ok", "error"}, got: Lists, live: BOOLEAN, seen: Nat]

TypeOK ==
    /\ page \in [open: BOOLEAN, listed: Lists, pick: BOOLEAN, busy: BOOLEAN,
                 watched: Chapters \union {NoChapter}, active: BOOLEAN,
                 asking: SUBSET CallRecords, planner: BOOLEAN, drafting: BOOLEAN,
                 outline: BOOLEAN, replace: BOOLEAN, importing: BOOLEAN]
    /\ stored \in [Chapters -> Rows]
    /\ jobs \subseteq Chapters

\* A chapter the page orders written has its style card by the time the order is sent,
\* whether it had a text before or not: the list that was clicked on shows the card, or the
\* binding was carried out and answered first, whatever else was clicked, lost or answered
\* in another order while the dialog was open or after the page was gone (Write.tsx:
\* onWrite). The server refuses the others. The exception is a card that was taken away
\* after the server had said that it is there.
WritesAreBound ==
    \A k \in calls : k.kind = "write" /\ k.chapter \in Kept =>
        stored[k.chapter].card \/ stored[k.chapter].taken > k.seen
=============================================================================

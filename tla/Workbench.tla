----------------------------- MODULE Workbench -----------------------------
(***************************************************************************)
(* The chapter page (web/src/pages/Chapter.tsx) in front of WritePipeline: *)
(* what it shows, what the author types, the calls it waits for, and the   *)
(* job whose end it polls.  Calls are served in the order the network and  *)
(* the server choose, an answer may be lost, and the author goes to other  *)
(* chapters and pages meanwhile.                                           *)
(*                                                                         *)
(* The page is the only client.  A text is named by where it comes from: a *)
(* job, or a chapter and whether the author typed it there or had a tool   *)
(* of the page write it.  Title, brief, card and target are one flag, that *)
(* they differ from what is stored, and the summary is another.  What the  *)
(* page reads beside its chapter (cards, neighbours, bible) and the zen    *)
(* mode, which hides the page and its polling, are left out.               *)
(***************************************************************************)
EXTENDS Naturals, FiniteSets

CONSTANTS Jobs, Chapters, Editors, NoChapter, NoText, Keep, MaxRestarts, \* see WritePipeline
          NoJob,
          MaxMoves        \* bound: how often the author opens or leaves a chapter, saves it,
                          \* has it written or uses a tool, and calls time out, together

VARIABLES
    status, progress, target, post, step, canceled, row, patch, persisted, disturbed, restarts,
    page,       \* the page: its route, references and React state
    calls,      \* the calls the page has made and not yet got back
    departed,   \* operationTokenRef of the pages that were left for another page
    moves,      \* how many of these moves were made
    since,      \* history: inputs typed and neither saved nor agreed to be lost
    overwritten, \* history: inputs that an answer replaced
    heard,      \* history: jobs whose id the page has received
    reverted    \* history: chapters whose "writing" a PATCH replaced by an older status

serverVars == <<status, progress, target, post, step, canceled, row, patch, persisted,
                disturbed, restarts>>
storeVars == <<serverVars, reverted>>
inputVars == <<since, overwritten>>
vars == <<storeVars, page, calls, departed, moves, inputVars, heard>>

Edited == Chapters \X {"typed", "tool"}

\* What says that there is none is none of them, and a job's text is not an author's.
ASSUME NamesAreApart ==
    /\ NoChapter \notin Chapters /\ NoJob \notin Jobs
    /\ Jobs \intersect Edited = {}
    /\ {NoText, Keep} \intersect (Jobs \union Edited) = {} /\ NoText # Keep

Server == INSTANCE WritePipeline

Operations == {"idle", "saving", "submitting", "generating", "refreshing"}

\* What load() resets the page to.
Blank == [route |-> NoChapter, due |-> FALSE, epoch |-> 0, token |-> 0, operation |-> "idle",
          ch |-> NoChapter, status |-> "draft", saved |-> NoText, body |-> NoText,
          settings |-> FALSE, summary |-> FALSE, job |-> NoJob, paused |-> FALSE,
          refreshFailed |-> FALSE, selection |-> NoChapter]

\* A call, as the closure that waits for it remembers it; "body" is what it sends and then
\* what the answer says.
Call(kind, c, epoch, token, body, settings) ==
    [kind |-> kind, chapter |-> c, epoch |-> epoch, token |-> token, state |-> "sent",
     via |-> NoJob, status |-> "draft", body |-> body, settings |-> settings]

\* Mutation of Loaded: what was loaded is not compared with the route.
MLoadedAny == page.ch # NoChapter

\* loadedChapter
Loaded == page.ch # NoChapter /\ page.ch = page.route

dirty == page.body # page.saved \/ page.settings \/ page.summary

\* isCurrentRequest
CurrentRequest(k) == k.epoch = page.epoch /\ k.chapter = page.route

\* isCurrentOperation compares the token and the route. Nothing changes either in a page
\* that was left, so to its own calls it stays current.
CurrentOperation(k) == (k.token = page.token /\ k.chapter = page.route) \/ k.token \in departed

\* State set on a page that was left goes nowhere.
Shown(k, p) == IF k.token \in departed THEN page ELSE p

\* applyChapter
Applied(k) == [page EXCEPT !.ch = k.chapter, !.status = k.status, !.saved = k.body,
                           !.body = k.body, !.settings = FALSE, !.summary = FALSE]

\* The inputs applyChapter replaces.
Overwrite == overwritten' = overwritten \union since /\ since' = {}

Init ==
    /\ Server!Init
    /\ page = Blank
    /\ calls = {} /\ departed = {} /\ heard = {} /\ reverted = {} /\ moves = 0
    /\ since = {} /\ overwritten = {}

Move == moves < MaxMoves /\ moves' = moves + 1

----------------------------------------------------------------------------
(* Opening and leaving *)

\* The route changes, by the page's buttons or around them. Until the effect has run the page
\* shows what it showed, if loadedChapter lets it.
Open(c) ==
    /\ Move
    /\ c # page.route /\ ~page.due
    /\ page' = [page EXCEPT !.route = c, !.due = TRUE]
    /\ UNCHANGED <<storeVars, calls, departed, inputVars, heard>>

\* Mutation of Reset: what is shown stays until the answer comes.
MResetKeepsFields == [page EXCEPT !.due = FALSE, !.epoch = @ + 1, !.token = @ + 1,
                                  !.operation = "idle", !.job = NoJob]

\* load() up to its await. The selection of the inline menu is not reset.
Reset == [Blank EXCEPT !.route = page.route, !.epoch = page.epoch + 1, !.token = page.token + 1,
                       !.selection = page.selection]

Load ==
    /\ page' = Reset
    /\ calls' = calls \union {Call("load", Reset.route, Reset.epoch, Reset.token, NoText, FALSE)}
    /\ since' = {}
    /\ UNCHANGED <<storeVars, departed, overwritten, heard>>

\* The effect after a change of the route.
LoadEffect == page.due /\ Load /\ UNCHANGED moves

\* The retry button of a page that could not load its chapter.
Reload ==
    /\ page.route # NoChapter /\ ~page.due /\ ~Loaded
    /\ \A k \in calls : k.kind = "load" => ~CurrentRequest(k)
    /\ Move
    /\ Load

\* Any other page: this one is unmounted and what it waits for finds only its references.
\* A continuation's answer sets its state only. A token nobody waits with is not kept.
Leave ==
    /\ page.route # NoChapter /\ ~page.due
    /\ Move
    /\ page' = [Blank EXCEPT !.epoch = page.epoch + 1, !.token = page.token + 1]
    /\ departed' = {t \in departed \union {page.token} : \E k \in calls : k.token = t}
    /\ calls' = {k \in calls : k.kind # "continue"}
    /\ since' = {}
    /\ UNCHANGED <<storeVars, overwritten, heard>>

\* load() after the await. A chapter that is being written is opened locked.
LoadArrives(k) ==
    /\ k.kind = "load" /\ k.state \in {"ok", "error"}
    /\ calls' = calls \ {k}
    /\ IF CurrentRequest(k) /\ k.state = "ok"
       THEN /\ page' = IF k.status = "writing"
                       THEN [Applied(k) EXCEPT !.token = @ + 1, !.operation = "generating"]
                       ELSE Applied(k)
            /\ Overwrite
       ELSE UNCHANGED <<page, inputVars>>
    /\ UNCHANGED <<storeVars, departed, moves, heard>>

----------------------------------------------------------------------------
(* The author *)

\* The fields are locked by editingLocked.
Type ==
    /\ Loaded /\ page.operation = "idle"
    /\ page' = [page EXCEPT !.body = <<page.route, "typed">>]
    /\ since' = since \union {"text"}
    /\ UNCHANGED <<storeVars, calls, departed, moves, overwritten, heard>>

Adjust ==
    /\ Loaded /\ page.operation = "idle"
    /\ page' = [page EXCEPT !.settings = TRUE]
    /\ since' = since \union {"settings"}
    /\ UNCHANGED <<storeVars, calls, departed, moves, overwritten, heard>>

Summarise ==
    /\ Loaded /\ page.operation = "idle"
    /\ page' = [page EXCEPT !.summary = TRUE]
    /\ since' = since \union {"summary"}
    /\ UNCHANGED <<storeVars, calls, departed, moves, overwritten, heard>>

\* handleBodySelect: a locked text can be selected all the same.
Select ==
    /\ Loaded /\ page.body # NoText
    /\ Move
    /\ page' = [page EXCEPT !.selection = page.route]
    /\ UNCHANGED <<storeVars, calls, departed, inputVars, heard>>

\* handleInlineReplace and handleInlineAppend, with what the model made of the selection.
InlineReplace ==
    /\ Loaded /\ page.selection # NoChapter
    /\ page' = [page EXCEPT !.body = <<page.selection, "tool">>, !.selection = NoChapter]
    /\ UNCHANGED <<storeVars, calls, departed, moves, inputVars, heard>>

\* handleContinue of the branch drawer, one at a time.
AskContinuation ==
    /\ Loaded /\ \A k \in calls : k.kind # "continue"
    /\ Move
    /\ calls' = calls \union {Call("continue", page.route, page.epoch, page.token, NoText, FALSE)}
    /\ UNCHANGED <<storeVars, page, departed, inputVars, heard>>

\* Its answer is appended to the body there is now, whichever chapter's, locked or not.
ContinuationArrives(k) ==
    /\ k.kind = "continue"
    /\ calls' = calls \ {k}
    /\ page' = IF k.state = "error" THEN page
               ELSE [page EXCEPT !.body = <<k.chapter, "tool">>]
    /\ UNCHANGED <<storeVars, departed, moves, inputVars, heard>>

----------------------------------------------------------------------------
(* onSave *)

Save ==
    /\ Loaded /\ page.operation = "idle" /\ dirty
    /\ Move
    /\ page' = [page EXCEPT !.token = @ + 1, !.operation = "saving"]
    /\ calls' = calls \union {Call("save", page.ch, page.epoch, page.token + 1, page.body, FALSE)}
    /\ since' = {}
    /\ UNCHANGED <<storeVars, departed, overwritten, heard>>

\* Mutation of SaveArrives: the lock is not released when the call fails.
MSaveArrivesLocked(k) ==
    /\ k.kind = "save" /\ k.state \in {"ok", "error"}
    /\ calls' = calls \ {k}
    /\ IF CurrentRequest(k) /\ k.token = page.token /\ k.state = "ok"
       THEN page' = [Applied(k) EXCEPT !.operation = "idle"] /\ Overwrite
       ELSE UNCHANGED <<page, inputVars>>
    /\ UNCHANGED <<storeVars, departed, moves, heard>>

SaveArrives(k) ==
    /\ k.kind = "save" /\ k.state \in {"ok", "error"}
    /\ calls' = calls \ {k}
    /\ IF ~CurrentRequest(k) \/ k.token # page.token THEN UNCHANGED <<page, inputVars>>
       ELSE IF k.state = "ok"
            THEN page' = [Applied(k) EXCEPT !.operation = "idle"] /\ Overwrite
            ELSE page' = [page EXCEPT !.operation = "idle"] /\ UNCHANGED inputVars
    /\ UNCHANGED <<storeVars, departed, moves, heard>>

----------------------------------------------------------------------------
(* onWrite *)

\* The rest of onWrite: settings that were changed are saved first, without the text.
Submission(c, epoch, token, settings) ==
    Call(IF settings THEN "presave" ELSE "write", c, epoch, token, Keep, FALSE)

\* Up to the first await: a text, stored or typed, is given up only when the author says so.
\* For a summary nobody is asked. (A write without a card or a brief takes a token and is
\* idle again.)
Write ==
    LET token == page.token + 1 IN
    /\ Loaded /\ page.operation = "idle"
    /\ Move
    /\ page' = [page EXCEPT !.token = token, !.operation = "submitting"]
    /\ IF page.saved # NoText \/ page.body # NoText
       THEN /\ calls' = calls \union
                  {Call("confirm", page.ch, page.epoch, token, Keep, page.settings)}
            /\ UNCHANGED since
       ELSE /\ calls' = calls \union {Submission(page.ch, page.epoch, token, page.settings)}
            /\ since' = since \intersect {"summary"}
    /\ UNCHANGED <<storeVars, departed, overwritten, heard>>

Confirm(k) ==
    /\ k.kind = "confirm"
    /\ IF CurrentOperation(k)
       THEN /\ calls' = (calls \ {k}) \union {Submission(k.chapter, k.epoch, k.token, k.settings)}
            /\ since' = IF k.token \in departed THEN since ELSE {}
       ELSE calls' = calls \ {k} /\ UNCHANGED since
    /\ UNCHANGED <<storeVars, page, departed, moves, overwritten, heard>>

Refuse(k) ==
    /\ k.kind = "confirm"
    /\ calls' = calls \ {k}
    /\ page' = IF CurrentOperation(k) THEN Shown(k, [page EXCEPT !.operation = "idle"]) ELSE page
    /\ UNCHANGED <<storeVars, departed, moves, inputVars, heard>>

\* The stored chapter is the new baseline; the fields stay as they are.
PresaveArrives(k) ==
    LET p == [page EXCEPT !.status = k.status, !.saved = k.body, !.settings = FALSE] IN
    /\ k.kind = "presave" /\ k.state \in {"ok", "error"}
    /\ IF CurrentOperation(k) /\ k.state = "ok"
       THEN /\ page' = Shown(k, p)
            /\ calls' = (calls \ {k}) \union {Submission(k.chapter, k.epoch, k.token, FALSE)}
       ELSE /\ page' = IF CurrentOperation(k)
                       THEN Shown(k, [page EXCEPT !.operation = "idle"]) ELSE page
            /\ calls' = calls \ {k}
    /\ UNCHANGED <<storeVars, departed, moves, inputVars, heard>>

WriteArrives(k) ==
    LET taken == [page EXCEPT !.job = k.via, !.paused = FALSE, !.status = "writing",
                              !.operation = "generating"]
    IN
    /\ k.kind = "write" /\ k.state \in {"ok", "error"}
    /\ calls' = calls \ {k}
    /\ IF CurrentOperation(k) /\ k.state = "ok"
       THEN /\ page' = Shown(k, taken)
            /\ heard' = IF k.token \in departed THEN heard ELSE heard \union {k.via}
       ELSE /\ page' = IF CurrentOperation(k)
                       THEN Shown(k, [page EXCEPT !.operation = "idle"]) ELSE page
            /\ UNCHANGED heard
    /\ UNCHANGED <<storeVars, departed, moves, inputVars>>

----------------------------------------------------------------------------
(* Waiting for the job: useJobPoll and onJobStatus if the page submitted it *)

Polling == Loaded /\ page.job # NoJob /\ page.operation = "generating" /\ ~page.paused

GetChapter(kind, p) == Call(kind, p.ch, p.epoch, p.token, NoText, FALSE)

\* A snapshot that says succeeded: refreshAfterJob, up to its await. An ended row never
\* changes, so that a snapshot is old makes no difference.
PollSucceeded ==
    LET p == [page EXCEPT !.operation = "refreshing", !.refreshFailed = FALSE] IN
    /\ Polling /\ status[page.job] = "succeeded"
    /\ page' = p
    /\ calls' = calls \union {GetChapter("refresh", p)}
    /\ UNCHANGED <<storeVars, departed, moves, inputVars, heard>>

\* Mutation of PollEnded: three lost polls count as a failed job, as they do for a page
\* that gives no onPollError.
MPollEndedByLoss ==
    /\ Polling /\ status[page.job] # "succeeded"
    /\ page' = [page EXCEPT !.job = NoJob, !.operation = "idle"]
    /\ UNCHANGED <<storeVars, calls, departed, moves, inputVars, heard>>

PollEnded ==
    /\ Polling /\ status[page.job] \in {"failed", "canceled"}
    /\ page' = [page EXCEPT !.job = NoJob, !.operation = "idle"]
    /\ UNCHANGED <<storeVars, calls, departed, moves, inputVars, heard>>

\* MAX_GET_FAILURES calls in a row are lost: the page stays locked and offers a retry.
PollLost ==
    /\ Polling
    /\ page' = [page EXCEPT !.paused = TRUE]
    /\ UNCHANGED <<storeVars, calls, departed, moves, inputVars, heard>>

\* Both retry buttons, of the job's progress and of the chapter's state.
RetryPoll ==
    /\ Loaded /\ page.paused /\ page.operation = "generating"
    /\ page' = [page EXCEPT !.paused = FALSE]
    /\ UNCHANGED <<storeVars, calls, departed, moves, inputVars, heard>>

\* Mutation of RefreshArrives: whatever the chapter's status is, it is shown.
MRefreshArrivesWriting(k) ==
    /\ k.kind = "refresh" /\ k.state \in {"ok", "error"}
    /\ calls' = calls \ {k}
    /\ IF CurrentOperation(k) /\ k.state = "ok"
       THEN page' = [Applied(k) EXCEPT !.job = NoJob, !.operation = "idle"] /\ Overwrite
       ELSE UNCHANGED <<page, inputVars>>
    /\ UNCHANGED <<storeVars, departed, moves, heard>>

RefreshArrives(k) ==
    /\ k.kind = "refresh" /\ k.state \in {"ok", "error"}
    /\ calls' = calls \ {k}
    /\ IF ~CurrentOperation(k) \/ k.token \in departed THEN UNCHANGED <<page, inputVars>>
       ELSE IF k.state = "ok" /\ k.status # "writing"
            THEN page' = [Applied(k) EXCEPT !.job = NoJob, !.operation = "idle"] /\ Overwrite
            ELSE page' = [page EXCEPT !.refreshFailed = TRUE] /\ UNCHANGED inputVars
    /\ UNCHANGED <<storeVars, departed, moves, heard>>

RetryRefresh ==
    LET p == [page EXCEPT !.refreshFailed = FALSE] IN
    /\ Loaded /\ page.refreshFailed /\ page.job # NoJob
    /\ page' = p
    /\ calls' = calls \union {GetChapter("refresh", p)}
    /\ UNCHANGED <<storeVars, departed, moves, inputVars, heard>>

(* Waiting for the chapter: the effect that polls it if somebody else submitted the job *)

PollChapter ==
    /\ Loaded /\ page.status = "writing" /\ page.job = NoJob
    /\ page.operation = "generating" /\ ~page.paused
    /\ \A k \in calls : k.kind = "poll" => k.token # page.token
    /\ calls' = calls \union {GetChapter("poll", page)}
    /\ UNCHANGED <<storeVars, page, departed, moves, inputVars, heard>>

PollArrives(k) ==
    /\ k.kind = "poll" /\ k.state \in {"ok", "error"}
    /\ calls' = calls \ {k}
    /\ IF \/ ~CurrentRequest(k) \/ k.token # page.token
          \/ k.state = "ok" /\ k.status = "writing"
       THEN UNCHANGED <<page, inputVars>>
       ELSE IF k.state = "ok"
            THEN page' = [Applied(k) EXCEPT !.operation = "idle"] /\ Overwrite
            ELSE page' = [page EXCEPT !.paused = TRUE] /\ UNCHANGED inputVars
    /\ UNCHANGED <<storeVars, departed, moves, heard>>

----------------------------------------------------------------------------
(* The network and the server *)

pageVars == <<page, departed, moves, inputVars, heard>>

Becomes(k, new) == calls' = (calls \ {k}) \union {new}

\* A call is lost before the server sees it, or its answer is; to one that only reads this
\* is the same.
NetworkError(k) ==
    /\ k.kind # "confirm"
    /\ k.state = "sent" \/ (k.kind \in {"save", "presave", "write"} /\ k.state = "ok")
    /\ Becomes(k, [k EXCEPT !.state = "error"])
    /\ UNCHANGED <<storeVars, pageVars>>

\* The page has waited timeoutMs. The server may get to the request all the same, and its
\* answer is one that nobody waits for.
TimeOut(k) ==
    /\ Move
    /\ k.kind \in {"save", "presave", "write"}
    /\ k.state \in {"sent", "served"} /\ k.token # 0
    /\ calls' = (calls \ {k}) \union {[k EXCEPT !.state = "error"],
                                      [k EXCEPT !.token = 0, !.epoch = 0]}
    /\ UNCHANGED <<storeVars, page, departed, inputVars, heard>>

ServeGet(k) ==
    /\ k.kind \in {"load", "refresh", "poll"} /\ k.state = "sent"
    /\ Becomes(k, [k EXCEPT !.state = "ok", !.status = row[k.chapter].status,
                            !.body = row[k.chapter].body])
    /\ UNCHANGED <<storeVars, pageVars>>

LoadPatch(k, e) ==
    /\ k.kind \in {"save", "presave"} /\ k.state = "sent"
    /\ Server!LoadPatch(e, k.chapter)
    /\ Becomes(k, [k EXCEPT !.state = "served", !.via = e])
    /\ UNCHANGED <<pageVars, reverted>>

\* The answer is what was to be written, not what was.
SavePatch(k) ==
    LET answer == Server!Patched(patch[k.via].loaded, k.body, TRUE) IN
    /\ k.kind \in {"save", "presave"} /\ k.state = "served"
    /\ Server!SavePatch(k.via, k.body, TRUE)
    /\ Becomes(k, [k EXCEPT !.state = "ok", !.status = answer.status, !.body = answer.body])
    /\ reverted' = IF row[k.chapter].status = "writing" /\ answer.status # "writing"
                   THEN reverted \union {k.chapter} ELSE reverted
    /\ UNCHANGED pageVars

CheckWrite(k, j) ==
    /\ k.kind = "write" /\ k.state = "sent"
    /\ Server!CheckWrite(j, k.chapter)
    /\ Becomes(k, [k EXCEPT !.state = "served", !.via = j])
    /\ UNCHANGED <<pageVars, reverted>>

Answered(j, state) ==
    calls' = {IF k.kind = "write" /\ k.state = "served" /\ k.via = j
              THEN [k EXCEPT !.state = state] ELSE k : k \in calls}

ServeWrite(j) ==
    /\ \/ Server!MarkWriting(j) /\ UNCHANGED calls
       \/ Server!EnqueueWrite(j) /\ Answered(j, "ok")
       \/ Server!EnqueueFail(j) /\ Answered(j, "error")
    /\ UNCHANGED <<pageVars, reverted>>

Work(j) ==
    /\ Server!BeginWrite(j) \/ Server!Handle(j)
    /\ UNCHANGED <<calls, pageVars, reverted>>

\* What the server was serving when it went down is not answered.
Restart ==
    /\ Server!Restart
    /\ calls' = {IF k.kind # "confirm" /\ k.state \in {"sent", "served"}
                 THEN [k EXCEPT !.state = "error"] ELSE k : k \in calls}
    /\ UNCHANGED <<pageVars, reverted>>

----------------------------------------------------------------------------
Author ==
    \/ \E c \in Chapters : Open(c)
    \/ Reload \/ Leave \/ Type \/ Adjust \/ Summarise \/ Save \/ Write
    \/ Select \/ InlineReplace \/ AskContinuation
    \/ \E k \in calls : Confirm(k) \/ Refuse(k)
    \/ RetryPoll \/ RetryRefresh

Arrives(k) ==
    \/ LoadArrives(k) \/ SaveArrives(k) \/ PresaveArrives(k) \/ WriteArrives(k)
    \/ RefreshArrives(k) \/ PollArrives(k) \/ ContinuationArrives(k)

Poll == PollSucceeded \/ PollEnded \/ PollChapter

Serves(k) ==
    \/ ServeGet(k) \/ SavePatch(k)
    \/ \E e \in Editors : LoadPatch(k, e)
    \/ \E j \in Jobs : CheckWrite(k, j)

Next ==
    \/ Author
    \/ \E k \in calls : Arrives(k) \/ NetworkError(k) \/ TimeOut(k) \/ Serves(k)
    \/ LoadEffect \/ Poll \/ PollLost
    \/ \E j \in Jobs : ServeWrite(j) \/ Work(j)
    \/ Restart

Spec == Init /\ [][Next]_vars

----------------------------------------------------------------------------
(* Properties *)

TypeOK ==
    /\ Server!TypeOK
    /\ page.route \in Chapters \union {NoChapter}
    /\ page.due \/ page.ch \in {NoChapter, page.route}
    /\ page.operation \in Operations
    /\ page.job \in Jobs \union {NoJob}
    /\ page.job # NoJob => page.operation \in {"generating", "refreshing"}
    /\ \A k \in calls : k.state \in {"sent", "served", "ok", "error"}

\* What an answer or a save says of one chapter never belongs to another, however the
\* author moves between chapters while calls are under way: the page shows, sends and
\* stores under a chapter only what was written for it. Texts of the two tools are excepted.
AtHome(c, text) ==
    /\ \A d \in Chapters : text = <<d, "typed">> => d = c
    /\ text \in Jobs => target[text] = c

ChaptersAreSeparate ==
    /\ Loaded => AtHome(page.route, page.body)
    /\ \A k \in calls : k.kind = "save" => AtHome(k.chapter, k.body)
    /\ \A c \in Chapters : AtHome(c, row[c].body)

\* No text or setting that was typed is replaced by an answer, unless the author agreed to
\* lose it. Summaries are excepted: a write asks for the text only and does not save them.
TypedIsKept == overwritten \subseteq {"summary"}

\* While a write can still change the chapter, the page does not let its author edit, save
\* or submit another one, after leaving and coming back either. The exceptions are the
\* chapters with a write whose answer never came, as the call was lost or the page left:
\* its job is unknown to the page and may end while a second one goes on; and those where a
\* save that the page has given up puts the status from before the write back.
StillWriting(j) == status[j] = "queued" \/ step[j] \in Server!InFlight \union {"claimed", "mark"}

IdleIsQuiet ==
    Loaded /\ page.operation = "idle" =>
        \/ \A j \in Jobs : target[j] = page.route => ~StillWriting(j)
        \/ \E j \in Jobs \ heard : target[j] = page.route
        \/ page.route \in reverted

\* A locked page can always be unlocked: an answer it waits for is to come, or it polls, or
\* it offers a retry, of the poll or of the refresh. No lost call leaves it locked for good.
LockIsAwaited ==
    Loaded /\ page.operation # "idle" =>
        \/ \E k \in calls : k.token = page.token /\ k.kind \notin {"poll", "continue"}
        \/ page.operation = "generating" /\ (page.job # NoJob \/ page.status = "writing")
        \/ page.operation = "refreshing" /\ page.refreshFailed /\ page.job # NoJob

\* What the design says (2026-08-19-chapter-workbench-safety-ui-refinement-design.md:35):
\* while the route shows one chapter, the text of another cannot be edited or submitted.
RouteOwnsText ==
    Loaded /\ page.body \in Edited => page.body[1] = page.route
=============================================================================

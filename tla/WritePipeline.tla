--------------------------- MODULE WritePipeline ---------------------------
(***************************************************************************)
(* Writing a chapter (internal/httpapi/write.go, internal/write/write.go): *)
(* POST marks the chapter "writing" and enqueues a job in two statements;  *)
(* the job's handler loads the chapter, asks the model for a text and      *)
(* writes it back; meanwhile the user edits, deletes, cancels, writes      *)
(* again, and the process restarts.                                        *)
(*                                                                         *)
(* The chapter row and the job row are two records of one thing, and only  *)
(* the code below keeps them in step.  Job rows follow JobLifecycle, which *)
(* JobRunner implements with OneWorkerPerJob; so a running handler is      *)
(* indexed here by its job and the worker that runs it is left out.        *)
(* A statement and the test of its context are one step: ExecContext on a  *)
(* done context fails before it writes.                                    *)
(***************************************************************************)
EXTENDS Naturals

CONSTANTS Jobs,         \* write jobs; each belongs to one POST .../write
          Chapters,
          Editors,      \* PATCH requests that may be in flight at once
          Edited,       \* the texts a PATCH sets
          NoChapter, NoText,
          Keep,         \* a PATCH without a body
          MaxRestarts   \* bound: how often the process restarts

VARIABLES
    status, progress,   \* the job rows, as in JobLifecycle
    target,             \* target[j]: the chapter in j's payload
    post,               \* post[j]: where the POST that enqueues j is
    step,               \* step[j]: where j's handler is
    canceled,           \* jobs marked in Runner.canceled; the context of a running one is done
    row,                \* row[c]: the columns of chapter c the protocol is about
    patch,              \* patch[e]: the row a PATCH has loaded and will write back
    persisted,          \* history: jobs whose text reached the chapter row
    disturbed,          \* history: chapters whose write was disturbed, see WritingIsAccounted
    restarts

jobRows == <<status, progress>>
handlers == <<step, canceled>>
vars == <<jobRows, target, post, handlers, row, patch, persisted, disturbed, restarts>>

Row == INSTANCE JobLifecycle WITH Full <- 0

Texts == {NoText} \union Edited \union Jobs
RowStates == {"draft", "writing", "written", "failed"}
ChapterRows == [exists : BOOLEAN, status : RowStates, body : Texts, card : BOOLEAN]
NoPatch == [chapter |-> NoChapter, loaded |-> [exists |-> FALSE, status |-> "draft",
                                               body |-> NoText, card |-> FALSE]]

Posting == {"idle", "checked", "marked", "over"}
InFlight == {"load", "generate", "persist"}
Steps == {"none", "claimed", "sync", "mark", "ok", "error"} \union InFlight

\* Mutation of SetStatus: the chapter is given a status of the job's vocabulary.
MSetStatusOfJob(c, s) ==
    IF row[c].exists THEN [row EXCEPT ![c].status = IF s = "writing" THEN "queued" ELSE s] ELSE row

\* UPDATE chapters SET status: no rows if the chapter is gone.
SetStatus(c, s) == IF row[c].exists THEN [row EXCEPT ![c].status = s] ELSE row

Init ==
    /\ Row!Init
    /\ target = [j \in Jobs |-> NoChapter]
    /\ post = [j \in Jobs |-> "idle"]
    /\ step = [j \in Jobs |-> "none"]
    /\ canceled = {}
    /\ row = [c \in Chapters |->
                 [exists |-> TRUE, status |-> "draft", body |-> NoText, card |-> TRUE]]
    /\ patch = [e \in Editors |-> NoPatch]
    /\ persisted = {} /\ disturbed = {}
    /\ restarts = 0

----------------------------------------------------------------------------
(* POST /api/chapters/:id/write *)

\* LoadOwned and the checks: the chapter exists and has a card. That another job may be
\* writing it already is not checked.
CheckWrite(j, c) ==
    /\ post[j] = "idle"
    /\ row[c].exists /\ row[c].card
    /\ target' = [target EXCEPT ![j] = c]
    /\ post' = [post EXCEPT ![j] = "checked"]
    /\ UNCHANGED <<jobRows, handlers, row, patch, persisted, disturbed, restarts>>

\* MarkWriting: the chapter says "writing" before there is a job.
MarkWriting(j) ==
    /\ post[j] = "checked"
    /\ post' = [post EXCEPT ![j] = "marked"]
    /\ row' = SetStatus(target[j], "writing")
    /\ disturbed' = disturbed \ {target[j]}
    /\ UNCHANGED <<jobRows, target, handlers, patch, persisted, restarts>>

EnqueueWrite(j) ==
    /\ post[j] = "marked"
    /\ Row!Create(j)
    /\ post' = [post EXCEPT ![j] = "over"]
    /\ UNCHANGED <<target, handlers, row, patch, persisted, disturbed, restarts>>

\* Enqueue's INSERT fails, or the client is gone: 500, and the chapter stays "writing".
EnqueueFail(j) ==
    /\ post[j] = "marked"
    /\ post' = [post EXCEPT ![j] = "over"]
    /\ disturbed' = disturbed \union {target[j]}
    /\ UNCHANGED <<jobRows, target, handlers, row, patch, persisted, restarts>>

----------------------------------------------------------------------------
(* The write job: the runner's claim and finish around JobHandler and Run *)

BeginWrite(j) ==
    /\ Row!Begin(j)
    /\ step' = [step EXCEPT ![j] = "claimed"]
    /\ UNCHANGED <<target, post, canceled, row, patch, persisted, disturbed, restarts>>

StartWrite(j) ==
    /\ step[j] = "claimed" /\ j \notin canceled
    /\ step' = [step EXCEPT ![j] = "load"]
    /\ UNCHANGED <<jobRows, target, post, canceled, row, patch, persisted, disturbed, restarts>>

\* execute returns at once for a job somebody canceled: no handler, no finish.
SkipWrite(j) ==
    /\ step[j] = "claimed" /\ j \in canceled
    /\ step' = [step EXCEPT ![j] = "none"]
    /\ UNCHANGED <<jobRows, target, post, canceled, row, patch, persisted, disturbed, restarts>>

\* Run's reads: the chapter, its card, its siblings, the bible, the key. A canceled
\* context fails the first of them.
Load(j) ==
    /\ step[j] = "load"
    /\ row[target[j]].exists /\ row[target[j]].card /\ j \notin canceled
    /\ step' = [step EXCEPT ![j] = "generate"]
    /\ UNCHANGED <<jobRows, target, post, canceled, row, patch, persisted, disturbed, restarts>>

\* chatChapter returned a text. chatSummary is best effort and decides nothing.
Generate(j) ==
    /\ step[j] = "generate"
    /\ j \notin canceled
    /\ step' = [step EXCEPT ![j] = "persist"]
    /\ UNCHANGED <<jobRows, target, post, canceled, row, patch, persisted, disturbed, restarts>>

\* Mutation of RunError: the error of the last UPDATE is dropped.
MRunErrorDropped(j) ==
    /\ step[j] \in InFlight
    /\ step' = [step EXCEPT ![j] = IF step[j] = "persist" THEN "sync" ELSE "mark"]
    /\ UNCHANGED <<jobRows, target, post, canceled, row, patch, persisted, disturbed, restarts>>

\* Mutation of RunError: Run is started over until it succeeds.
MRunErrorRetry(j) ==
    /\ step[j] \in InFlight
    /\ step' = [step EXCEPT ![j] = IF j \in canceled THEN "mark" ELSE "load"]
    /\ UNCHANGED <<jobRows, target, post, canceled, row, patch, persisted, disturbed, restarts>>

\* Any statement or model call of Run fails: for want of a key, on a bad answer, because
\* the context is canceled, or in the database.
RunError(j) ==
    /\ step[j] \in InFlight
    /\ step' = [step EXCEPT ![j] = "mark"]
    /\ UNCHANGED <<jobRows, target, post, canceled, row, patch, persisted, disturbed, restarts>>

\* persistGenerated: text, card and status in one UPDATE WHERE id, no rows if it is gone.
\* The card columns go back to what Load read.
Persist(j) ==
    /\ step[j] = "persist" /\ j \notin canceled
    /\ step' = [step EXCEPT ![j] = "sync"]
    /\ IF row[target[j]].exists
       THEN /\ row' = [row EXCEPT ![target[j]] = [exists |-> TRUE, status |-> "written",
                                                  body |-> j, card |-> TRUE]]
            /\ persisted' = persisted \union {j}
       ELSE UNCHANGED <<row, persisted>>
    /\ UNCHANGED <<jobRows, target, post, canceled, patch, disturbed, restarts>>

\* syncBible, whatever becomes of it: Run returns the chapter.
SyncBible(j) ==
    /\ step[j] = "sync"
    /\ step' = [step EXCEPT ![j] = "ok"]
    /\ UNCHANGED <<jobRows, target, post, canceled, row, patch, persisted, disturbed, restarts>>

\* Mutation of MarkFailed: an error of Run is only returned.
MMarkFailedNever(j) ==
    /\ step[j] = "mark" /\ j \notin canceled
    /\ step' = [step EXCEPT ![j] = "error"]
    /\ UNCHANGED <<jobRows, target, post, canceled, row, patch, persisted, disturbed, restarts>>

\* JobHandler on an error of Run: markStatus(failed), then the error is returned.
MarkFailed(j) ==
    /\ step[j] = "mark" /\ j \notin canceled
    /\ step' = [step EXCEPT ![j] = "error"]
    /\ row' = SetStatus(target[j], "failed")
    /\ UNCHANGED <<jobRows, target, post, canceled, patch, persisted, disturbed, restarts>>

\* markStatus runs under the job's own context, and its error is dropped: on a canceled
\* context, or a database error, the chapter keeps its status.
MarkFailedFails(j) ==
    /\ step[j] = "mark"
    /\ step' = [step EXCEPT ![j] = "error"]
    /\ disturbed' = disturbed \union {target[j]}
    /\ UNCHANGED <<jobRows, target, post, canceled, row, patch, persisted, restarts>>

\* finish: the row ends as the handler did, if it is still running.
FinishWrite(j) ==
    /\ step[j] \in {"ok", "error"}
    /\ IF status[j] # "running" THEN UNCHANGED jobRows
       ELSE IF step[j] = "ok" THEN Row!Succeed(j) ELSE Row!Fail(j)
    /\ step' = [step EXCEPT ![j] = "none"]
    /\ canceled' = canceled \ {j}
    /\ UNCHANGED <<target, post, row, patch, persisted, disturbed, restarts>>

----------------------------------------------------------------------------
(* What else happens to the two rows *)

\* Cancel's critical section: mark the job and cancel the context of its handler.
CancelSignal(j) ==
    /\ status[j] \in {"queued", "running"} /\ j \notin canceled
    /\ canceled' = canceled \union {j}
    /\ disturbed' = disturbed \union {target[j]}
    /\ UNCHANGED <<jobRows, target, post, step, row, patch, persisted, restarts>>

\* Mutation of CancelWrite: the row is canceled before the job is marked.
MCancelWriteFirst(j) ==
    /\ Row!Abandon(j)
    /\ disturbed' = disturbed \union {target[j]}
    /\ UNCHANGED <<target, post, handlers, row, patch, persisted, restarts>>

\* Cancel's UPDATE; it may never come, JobRunner's CancelFail.
CancelWrite(j) ==
    /\ j \in canceled
    /\ Row!Abandon(j)
    /\ disturbed' = disturbed \union {target[j]}
    /\ UNCHANGED <<target, post, handlers, row, patch, persisted, restarts>>

\* PATCH, its read: the whole row.
LoadPatch(e, c) ==
    /\ patch[e] = NoPatch
    /\ row[c].exists
    /\ patch' = [patch EXCEPT ![e] = [chapter |-> c, loaded |-> row[c]]]
    /\ UNCHANGED <<jobRows, target, post, handlers, row, persisted, disturbed, restarts>>

\* The fields of a PATCH laid over the row it loaded: a body that is not blank makes the
\* chapter written, unless it was being written.
Patched(old, text, card) ==
    LET body == IF text = Keep THEN old.body ELSE text
        written == text \notin {Keep, NoText} /\ old.status # "writing"
    IN  [old EXCEPT !.body = body, !.card = card,
                    !.status = IF written THEN "written" ELSE @]

\* PATCH, its write: UpdateFields puts back every column, changed or not, so it also puts
\* back a status that has moved on since the read.
SavePatch(e, text, card) ==
    LET c == patch[e].chapter IN
    /\ patch[e] # NoPatch
    /\ row' = IF row[c].exists
              THEN [row EXCEPT ![c] = Patched(patch[e].loaded, text, card)] ELSE row
    /\ disturbed' = IF row[c].status # "writing" /\ patch[e].loaded.status = "writing"
                    THEN disturbed \union {c} ELSE disturbed
    /\ patch' = [patch EXCEPT ![e] = NoPatch]
    /\ UNCHANGED <<jobRows, target, post, handlers, persisted, restarts>>

\* DELETE of the chapter, or an outline import that replaces all chapters.
DeleteChapter(c) ==
    /\ row[c].exists
    /\ row' = [row EXCEPT ![c] = [exists |-> FALSE, status |-> "draft",
                                  body |-> NoText, card |-> FALSE]]
    /\ UNCHANGED <<jobRows, target, post, handlers, patch, persisted, disturbed, restarts>>

\* The process goes down and comes up: handlers and requests are gone, running job rows
\* fail as "interrupted", queued ones stay, and no chapter row is looked at.
Restart ==
    /\ restarts < MaxRestarts
    /\ Row!Interrupt
    /\ post' = [j \in Jobs |-> IF post[j] \in {"checked", "marked"} THEN "over" ELSE post[j]]
    /\ step' = [j \in Jobs |-> "none"]
    /\ canceled' = {}
    /\ patch' = [e \in Editors |-> NoPatch]
    /\ disturbed' = disturbed \union
                    {target[j] : j \in {k \in Jobs : step[k] # "none" \/ post[k] = "marked"}}
    /\ restarts' = restarts + 1
    /\ UNCHANGED <<target, row, persisted>>

----------------------------------------------------------------------------
Post(j) ==
    \/ \E c \in Chapters : CheckWrite(j, c)
    \/ MarkWriting(j)

Enqueued(j) == EnqueueWrite(j) \/ EnqueueFail(j)

Handle(j) ==
    \/ StartWrite(j) \/ SkipWrite(j) \/ Load(j) \/ Generate(j) \/ Persist(j) \/ RunError(j)
    \/ SyncBible(j) \/ MarkFailed(j) \/ MarkFailedFails(j) \/ FinishWrite(j)

Cancels(j) == CancelSignal(j) \/ CancelWrite(j)

Edits ==
    \E e \in Editors :
        \/ \E c \in Chapters : LoadPatch(e, c)
        \/ \E text \in Texts \union {Keep}, card \in BOOLEAN : SavePatch(e, text, card)

Next ==
    \/ \E j \in Jobs : Post(j) \/ Enqueued(j) \/ BeginWrite(j) \/ Handle(j) \/ Cancels(j)
    \/ Edits
    \/ \E c \in Chapters : DeleteChapter(c)
    \/ Restart

Spec == Init /\ [][Next]_vars

\* A POST that has marked its chapter goes on to enqueue, a worker takes a queued job
\* (JobRunner's QueuedIsServed), and a handler gets through its steps: every model call
\* times out. Users and operators owe nothing.
Fairness ==
    \A j \in Jobs : WF_vars(Enqueued(j)) /\ WF_vars(BeginWrite(j)) /\ WF_vars(Handle(j))

FairSpec == Spec /\ Fairness

----------------------------------------------------------------------------
(* Properties *)

TypeOK ==
    /\ status \in [Jobs -> Row!Statuses]
    /\ target \in [Jobs -> Chapters \union {NoChapter}]
    /\ post \in [Jobs -> Posting]
    /\ step \in [Jobs -> Steps]
    /\ canceled \subseteq Jobs /\ persisted \subseteq Jobs
    /\ row \in [Chapters -> ChapterRows]
    /\ \A e \in Editors : /\ patch[e].chapter \in Chapters \union {NoChapter}
                          /\ patch[e].loaded \in ChapterRows
    /\ disturbed \subseteq Chapters

\* Somebody is still going to take the chapter out of "writing".
WriteInProgress(c) ==
    \E j \in Jobs :
        /\ target[j] = c
        /\ \/ post[j] = "marked"
           \/ status[j] = "queued"
           \/ step[j] \in InFlight \union {"claimed", "mark"}

\* A chapter that says "writing" has a write in progress. The exceptions are the ones that
\* disturbed collects and no others: the enqueue failed, the job was canceled, the process
\* restarted, the failure could not be written, or a PATCH that had read "writing" wrote
\* it back after the job was over. Two jobs for one chapter, edits and deletions do not
\* add to them.
WritingIsAccounted ==
    \A c \in Chapters :
        row[c].exists /\ row[c].status = "writing" => WriteInProgress(c) \/ c \in disturbed

\* A job that says it succeeded put its text into the chapter, unless the chapter was
\* deleted under it.
SucceededMeansPersisted ==
    \A j \in Jobs : status[j] = "succeeded" => j \in persisted \/ ~row[target[j]].exists

\* A write never replaces the chapter's text once its job row has ended: the user who got
\* 204 from cancel keeps the text there is.
PersistsOnlyWhileRunning ==
    [][\A j \in Jobs : j \in persisted' \ persisted => status[j] = "running"]_vars

\* "writing" ends, however many writes, edits and deletions overlap, unless disturbed.
WritingEnds ==
    \A c \in Chapters :
        row[c].status = "writing" ~> (row[c].status # "writing" \/ c \in disturbed)

\* What the workbench design (2026-08-19-chapter-workbench-design.md:116) says: when the
\* job of a chapter has failed, the chapter is "failed" and not "writing".
FailedJobFreesChapter ==
    \A j \in Jobs :
        status[j] = "failed" /\ row[target[j]].status = "writing" => WriteInProgress(target[j])
=============================================================================

# A TLA+ model of stylelab

stylelab is a single-process Go server (`cmd/stylelab`, `internal/`) with a React front end (`web/`). Authors
upload texts, have a language model extract *style cards* from them, edit and fuse the cards, and have chapters
written in a card's style while a *bible* of characters, settings and plot threads is kept up to date. State lives in one
SQLite database; everything that calls the model runs as a *job* in a pool of goroutines of the same process.

This directory holds TLA+ modules for the parts where requests, jobs and restarts overlap and for the pages in front of
them, the TLC configurations that check them, and TLAPS proofs. `PROJECT.json` maps every definition to the lines it stands for, and lists the runs,
the mutations that show each property can fail, the findings, the hazards and the theorems.

    tlc -workers 2 -config MCJobRunner.cfg MCJobRunner
    tlapm JobRunnerProofs.tla

## 1. Inventory

### Components, their state and their operations

| component | source | state | operations |
|---|---|---|---|
| job runner | `internal/job/runner.go`, `cmd/stylelab/main.go` | table `jobs`; in memory `cancels`, `canceled`, `wake`, the contexts, one goroutine per worker | Enqueue, Cancel, claim, execute, progress, finish, RecoverInterrupted, shutdown |
| chapter writing | `internal/httpapi/write.go`, `internal/write/write.go` | table `chapters` (text, card, status), the write jobs | POST write, JobHandler/Run, PATCH, DELETE |
| chapter order | the same, `internal/httpapi/outline.go` | column `chapters.seq`, UNIQUE per project | create, delete and renumber, import an outline |
| story bible | `internal/bible`, `internal/httpapi/bible.go` | table `bible_entries` | POST, PATCH, DELETE; the sync of chapters (SyncChapter, ApplyOps) |
| style cards, fusion | `internal/httpapi/cards.go`, `internal/fuse`, `internal/card`, `internal/extract` | `style_cards`, `style_card_versions` | extract, edit (new version), fuse |
| projects | `internal/httpapi/projects.go` | `projects`, parent of every row above | create, rename, list, delete (cascades) |
| outline, branch, continuity, audit, sample | `internal/httpapi/*.go`, `internal/audit`, `internal/sample` | one result row or the job's result | one model call each, under the job runner |
| assets | `internal/httpapi/assets.go` | `assets`, files by content hash | upload, list |
| relation graph | `internal/httpapi/graph.go` | nodes and edges of a project | save and delete of each, an extraction that reads, asks the model and writes |
| users, keys | `internal/auth`, `internal/cryptokey` | `users`, sessions, encrypted keys | register, login, logout, expiry, save a key |
| LLM client | `internal/llm` | none | chat, JSON chat with a retry |
| workbench (web) | `web/src/pages/Chapter.tsx` | a chapter as loaded, typed over and waited for | open, save, write, poll a job, tools |
| frame (web) | `App.tsx`, `pages/Login.tsx`, `api.ts` | who is in, the address and its history state; the cookie | routes, login, logout, 401 from any call |
| bible page (web) | `pages/Bible.tsx` | the list, the chosen entry, the form, the sync that is watched | choose, type, save, create, delete, sync |
| graph page (web) | `pages/Graph.tsx`, `components/EntityDrawer.tsx` | the graph, the layout that moves, the drawer | load, extract, add, drag, edit, link, delete |
| fusion bench (web) | `pages/Fuse.tsx`, `components/CardDeckDrawer.tsx` | the cards that are in, the weights per dimension, a mode | put in, take out, weigh, submit |
| card laboratory (web) | `pages/Lab.tsx`, `pages/Audit.tsx` | sliders, the version shown, the jobs; the history state | slide, save, choose a version, audit, sample, apply suggestions |
| chapter list, planner (web) | `pages/Write.tsx`, `components/OutlinePlannerModal.tsx` | rows, the dialog, the job that is watched, an outline | create, bind and write, delete, draft, import |
| extraction bench (web) | `pages/ProjectHome.tsx` | samples, what is picked, the job | upload, pick, extract |
| job dock (web) | `jobs.ts`, `components/JobDock.tsx`, `JobProgress.tsx`, `hooks.ts` | the register in the browser's storage, polls per tab | register, poll, tell, hide |

### How they interact

* HTTP handlers **enqueue** rows in `jobs` and wake the runner; the runner **calls** the handler registered for the
  row's kind with a context and a progress callback; Cancel reaches the handler only through that context.
* A write job **shares the chapter row** with the requests that edit, delete or write that chapter again. The chapter's
  `status` repeats what the job's `status` says, and only the code keeps the two in step.
* A write job ends by calling the bible's sync, whose failure does not fail the job; a sync job does so for every
  written chapter.
* Deleting a project **cascades** to its jobs and chapters while workers hold them.
* The pages poll job rows and read again what the job changed. What a page submits it **registers** in the
  browser's storage, and the dock of every tab polls it too.
* The frame **mounts** the page of the address and drops it when the address changes; its calls go on at the server. Any call
  that is refused **moves** the author to the login form, and the login leads back.

### What is hard

Almost every request reads, computes or waits for a model, and writes, in separate statements on
separate connections (list of `hazards` in `PROJECT.json`, each at its line):

* *interleaving* of claim, cancel, finish and progress on one row; of two writes, a PATCH and a deletion of one chapter;
* *stale reads*: a position, a list of entries, a version number or a whole row, read before the write that uses it;
* *partial failure*: an UPDATE whose error is dropped, an enqueue that fails after the chapter was marked;
* *restart* between any two statements, with only the database left;
* *cancellation* that reaches some of a job's statements and not others;
* *answers* that reach a page which shows another entry, card, chapter or project by then, arrive in another order, or
  never, after the server did what was asked;
* *liveness*: a wake channel of capacity one, handlers that occupy the worker, retries that must end.

### What makes each component correct

* runner: one worker per job; a job row moves queued, running, ended, and never from ended; no running row that
  nobody will end; a canceled handler is told; queued jobs are served.
* chapter writing: a chapter that says "writing" is being written; a job that succeeded put its text there; a job
  that is over no longer touches the text.
* chapter order: positions unique, contiguous when requests do not overlap, and the order of what stays never changes.
* bible: what a user deleted does not come back; a sync changes only what it names; no duplicates.
* cards: the version pointer names the last version; no edit is lost; versions are immutable; a lineage says what was blended.
* pages: what is sent belongs to what it is sent for; what the page locks stays locked while it must and no longer; what
  is derived (weights) stays consistent through every gesture; what a page waits for is heard of once; nothing that was deleted comes back.
* frame: however many calls are refused, the login leads back to where the author was.

## 2. Modules

| module | what it is |
|---|---|
| `JobLifecycle` | abstract specification of a job row: what the runner promises to everything that reads the table |
| `JobRunner` | the runner in full: workers, cancel in two halves, failing UPDATEs, wake channel and timer, shutdown, crash, boot. Implements `JobLifecycle` |
| `JobRunnerProofs` | its theorems |
| `WritePipeline` | chapters and write jobs; its job rows are an instance of `JobLifecycle`, which is how it composes with the runner |
| `ChapterOrder` | `seq` under create, delete-and-renumber, import |
| `Bible` | entries, PATCH, and syncs that apply a batch by an old list |
| `CardVersions` | cards, versions, edits and fusions |
| `Workbench` | the chapter page in front of the server of `WritePipeline`, which it instantiates: each step of the server is a `WritePipeline` action joined to the call it serves |
| `Calls` | what all pages share: calls that are served in any order, answered late, lost, or left behind by a page that is gone |
| `BiblePage`, `GraphPage`, `FusePage`, `LabPage`, `WritePage`, `ExtractPage` | one page each with as much of the server as it can tell apart; all extend `Calls` |
| `JobDock` | the register, the docks and the progress bars of the tabs |
| `Shell` | the frame, the login form, sessions and cookies |
| `Studio` | the client in one browser: instances of the eight, joined by the address, the session and the author's moves |
| `WritePipelineProofs`, `ChapterOrderProofs`, `CardVersionsProofs`, `BibleProofs`, `WorkbenchProofs` | the theorems of the module each is named after |
| `PageProofs` | what the steps of each page and of the docks keep, as lemmas about the instances in `Studio`; the arithmetic of the fusion bench |
| `StudioProofs` | the frame, and the theorems about the client as a whole |
| `MC*` | the instances TLC checks: constants, symmetry |

### State and code

`JobRunner`: `status`, `progress`, `createdAt` are columns of `jobs`; `cancels` and `canceled` are the runner's maps, `ctxDone` the
contexts whose cancel function was called, `wake` the channel's token, `pc`/`job` where each goroutine is. Each critical
section of `mu` and each SQL statement is one action, so Cancel is `CancelMark` and then `CancelUpdate` or `CancelFail`; execute is
`Start` or `Skip`, then the handler, `Finish` or `FinishFail`, `Cleanup`. The handler is arbitrary: it reports any
number, in or out of range, and returns either way at any time. `lost` is a history variable: jobs whose closing UPDATE failed.
`clock` counts rows; that the code's timestamps are text and may tie or sort differently only widens which
queued row is the oldest, and no property speaks of the order of service.

`WritePipeline`: `row[c]` holds the columns of a chapter that the protocol decides by (present, status, text, has a card); a
text is named by the job or user it came from. `post[j]` follows the POST (`CheckWrite`, `MarkWriting`,
`EnqueueWrite`/`EnqueueFail`), `step[j]` the handler (load, generate, persist, sync, or mark failed). `patch[e]` is the row a PATCH
loaded, which it writes back whole. A statement and the test of its context are one step: a statement on a
done context fails before it writes. The worker is left out, because `JobRunner` shows that a job is in at most one worker's
hands.

`ChapterOrder`: `request[r]` holds the position that was read and will be used. `Collides` is the UNIQUE index; a
violated constraint is the error path and changes nothing.

`Bible`: an entry is a key (its kind and name), a content and a status; the id is its index of creation. `sync[s]` carries the attempts, the answer and the
list. `ApplyOps` folds the operations over the rows as they are now and over the maps made from the list,
exactly as the code's loop does, including that an update does not refresh the maps. The answer is arbitrary, drawn from `Answers`.

`CardVersions`: what a version contains is modelled by where it came from: who made it, which version it edits,
which versions were blended and which its lineage names.

`Workbench`: `page` is the React state and the references of `Chapter.tsx` (route, `epoch` and `token` are `loadEpochRef` and
`operationTokenRef`, `operation` is the lock, `job` is `activeJob`). A call is a record with what the waiting closure remembers and
how far it is; the page's code after an `await` is one action per handler (`SaveArrives`, `WriteArrives`, ...), and the tests it begins with are that
action's. `Open` changes the route and `LoadEffect` runs later, as React's effect does. `departed` keeps the tokens of pages
that were left, whose closures go on with references nobody changes any more. `since` and `overwritten` are history.
A client's timeout (`TimeOut`) leaves the request to the server with nobody waiting. `reverted` is history: the chapters whose "writing" a
PATCH replaced by the status it had loaded before (`SavePatch`).

**The pages.** Each has `page`, a record of the React state that decides something, `calls`, and the rows of the server it reads and
changes. A gesture is an action whose guard is what must be rendered and enabled for it (`Form`, `Chip`, `Canvas`, `CanSubmit`, ...). A call
is a record of what the closure remembers: `Serve...` is the handler of the server, `...Arrives` what the page does with the
answer, `CallFails` its catch. A call may be lost before the server carried it out or after (`Drop`); when the page
goes, the call loses its `live` mark and the server carries it out with nobody waiting (`Orphaned`). A dialog is
a field of the page (`asking`) that disables the gestures it covers; back, forward, reload and the keyboard go on under it. On the chapter list
and in the laboratory the field holds the call that goes out if the author agrees, as it was put together by the click.
`ConfirmHost` belongs to the frame, so that a dialog stays when its page goes; `WritePage` keeps it. On the other pages
the bound is that it goes with its page: what could be agreed to is a deletion or a read nobody waits for, which a call that outlives its page is already.

* `BiblePage`: the text of the form is named by the entry it was loaded from, so that a save which goes elsewhere shows.
* `GraphPage`: a deletion of a node is two steps at the server and an extraction a read and a write, as there. `pull` is the set of
  edges the running layout knows, `shown` of a call the edges of the render that made it.
* `FusePage`: the arithmetic of the weights is the code's, with its rounding (`Share`, `Balanced`, `Favored`, `Preset`,
  `NextMode`, `Protected`); a card is its place in the list, which decides who gets the remainder.
* `LabPage`: form and sliders are one value (as loaded, typed over, suggested); `history` is the state a browser keeps with a
  history entry, which outlives reloads and is what the suggestions of an audit travel in.
* `WritePage`: a row has a card or not and a text or not, the two apart as in `onWrite` and `handlePatchChapter`. A click on a row
  with a text asks first, whatever its card; a row without a card is then bound, and ordered when the answer is there (`Ordered`, `Answer`,
  `BindArrives`), with or without the page. `Elsewhere` is the chapter page in another tab, or a save of it that is late: it stores any card and any text
  at any moment, so a card may go while the dialog is open, a binding is answered or an order is on its way. `taken` and `seen` are
  history: how often a chapter has lost its card, and how often it had when the server said to this call that the card is there. A PATCH is one step here; what
  its two steps may undo of another's save is what `Elsewhere` may store, and `WritePipeline` has them apart.
* `ExtractPage`: the list is a bag, because an upload and a list read may both bring the same sample.
* `JobDock`: `dock[t][j]` counts the lost polls in a row; `told` and `released` are history variables.
* `Shell`: a request carries the cookie of the moment it was sent. `lost` is a history variable: where the author was when the session turned
  out to be over, until a login, a logout or a change of form.
* `Studio`: nothing of a page happens without the page and nothing at the server without a session; a call without one is refused, which
  removes it from its page and hands the refusal to the frame in any order (`Refused`). A change of the address is
  `Leave` of the page it leaves, in the same step (`Left`).

## 3. Runs

| run | bounds | checks |
|---|---|---|
| `jobrunner` | 2 jobs, 2 workers, progress 0..1, 1 stop | the safety of the runner and that it implements `JobLifecycle` |
| `jobrunner_live` | 2 jobs, 2 workers, no stop | queued jobs are served, running rows end |
| `jobrunner_cancel` | 2 jobs, 1 worker | a counterexample, see Findings |
| `write_pipeline` | 2 jobs for 1 chapter, 1 PATCH, 1 restart | the chapter row and the job rows agree; "writing" ends |
| `write_failed` | the same | a counterexample |
| `chapter_order` | 5 ids, 3 requests, imports of up to 2 | numbering and order |
| `bible` | 2 keys, 2 entries, 1 sync of up to 2 chapters, 1 PATCH, 2 operations kept of up to 3 | what a sync may do to entries |
| `bible_twins` | 1 key, 2 syncs | a counterexample |
| `card_versions` | 3 cards of 3 versions, 2 edits, 1 fusion of 2 | versions, lineage |
| `workbench` | 2 chapters, 2 jobs, 4 moves of the author and timeouts together, 1 restart | chapters are not mixed, typed text is kept, the lock is right |
| `workbench_tools` | the same | a counterexample |
| `studio` | one page, 2 of each kind of row, 4 fusion cards in 3 slots, 2 tabs with 1 job; 4 moves on the page, 3 of the frame, 3 sessions | what each page, the dock and the frame promise, together |

What the properties say is written above each of them. The bounds are the smallest at which every action occurs and every
race has its participants:

* Two workers and two jobs: the races on a row are between its worker, one other worker and Cancel. The invariants
  are proved for any number, so the bound only concerns liveness. The same goes for the safety of all other runs.
  In `jobrunner_live` the two workers are there for a wake-up that is dropped while one of them is asleep and the other in a
  handler. A queued job therefore never waits behind workers that are all busy, which takes a third job; that instance does not end in
  the time a run has here. `QueuedIsServed` says nothing of the time for which they are all busy, and `RunningEnds` says when it is over.
* `write_pipeline`: one chapter suffices, since no action touches two (bound in `Chapters`); two jobs overlap on it; a
  restart after a restart adds no state the first did not.
* `chapter_order`: a delete whose position was moved by a second delete and then filled by a third request, with
  chapters left over whose order can break.
* `bible`: two entries that are twins or not, a batch with two creates of one key, and a batch that is cut by the cap.
* `card_versions`: two edits of one base with a third version after them; a fusion of two versions of one card or of two cards.
* `workbench`: the shortest mix-ups need a call made in one chapter, a change to another (and back), and a second operation there; a
  write that is confirmed, timed out, and met again after leaving. Four moves hold each of them; what is typed, loaded, polled and
  served does not count as a move.
* `studio`: the author begins on one of the six pages (`start`), may go to the list of projects, which stands for the rest, and
  back. Pages share nothing but the frame, so a state with two pages busy adds no state to either. The servers of the other
  pages begin empty, and a job is followed by the dock while the author is at the list of projects. `MaxMoves` counts gestures and losses
  on a page, `FrameMoves` what befalls the frame: a session that expires, a login and a refusal that is late need
  three. Two rows of a kind are enough for an answer to meet the wrong one; `Slots` is 3 and not 4, with decks of 0, 2 and 4 cards so that
  the deck holds fewer and more cards than fit; one address in `Asked` names cards the deck does not hold; `Raw` has the ends of the branch in `SetWeight`.
  Chapters begin without cards, with texts or without, and get their cards on the way. `Elsewhere` saves while the chapter list, its dialog or one of
  its calls could notice. Projects and chapters are symmetric: no definition chooses among them. The proofs of section 5 remove these bounds from every property of the run.

Four moves of `workbench` are not enough for everything: `IdleIsQuiet` without its third exception passes there and is false. The attempt to prove it
found the counterexample, of seven moves: the author saves, the server loads the row for the PATCH and is slow, the page gives up and unlocks; the author
orders a write, which marks the chapter; the PATCH stores the row it loaded, and with it the status from before; the author
leaves and comes back, and finds an unlocked chapter that the job will replace. `reverted` records just that step.
With it the property is proved for any number of moves; the run stays as it was and shows the other two exceptions and the mutation.

`CHECK_DEADLOCK FALSE` is set where the instance runs out: there each job is enqueued once, each id is issued once, each fusion runs
once, and then nothing is left to do; in `studio` the author's moves are used up and every call has been answered. The runner's runs check deadlock: its workers never stop polling.

**Fairness.** `JobRunner!FairSpec`: weak fairness of each step of a worker outside the handler (goroutines are scheduled, the
50 ms timer fires) and of the second half of a Cancel call. Not fair: clients, the handler's return, stopping and booting. `RunningEnds` therefore
says "or its handler is still running". `WritePipeline!FairSpec`: a POST that marked its chapter goes on to enqueue (or fails), a queued job is
taken, a handler gets through its steps. The second is what `QueuedIsServed` shows of the runner if
handlers return, and they do: each model call has a timeout. A restart, which is not fair, is one of the
exceptions of `WritingEnds`.

Liveness is stated of the runner and of the write pipeline only. A page promises nothing of the kind: the author need not do anything, a lost answer
leaves a spinner until the client's timeout, and the dock gives up after three lost polls by design.

**Mutations.** Every property of a passing run has a mutation of the model, defined next to what it mutates (`M...`), under which
TLC finds the property violated: the claim as a SELECT, a cancel that does not signal, a renumbering that leaves the gap, a version insert without the
compare-and-set.

## 4. Findings

| finding | shown by |
|---|---|
| A cancel whose UPDATE fails can leave a job running for good: the mark makes the worker skip it, and nothing ends the row (`runner.go:187`; test and plan say a canceled job is not left running) | `jobrunner_cancel` |
| A failed write job leaves its chapter "writing" after a restart, or when the failed status cannot be written (`runner.go:112`, `write.go:138`; the workbench design says it becomes "failed") | `write_failed` |
| The create-becomes-update of ApplyOps prevents duplicates only against a list read outside its transaction (`bible.go:419`; its comment promises more) | `bible_twins` |
| The continuation of the branch drawer goes into the chapter that is open when it arrives (`Chapter.tsx:1335`; the safety design says the data of A cannot be edited under B) | `workbench_tools` |
| The tools write into a locked text, and the answer of the running operation replaces it (`Chapter.tsx:152`; the safety design says no answer does) | reading |
| A PATCH that loaded its row before a write was ordered takes the "writing" back, and the chapter opens unlocked while the job runs (`write.go:190`, whose test is on the old row) | the proof of `IdleIsQuiet`, which excepts it |
| A typed summary is lost without a question when a chapter without text is written (`Chapter.tsx:613`) | reading; `TypedIsKept` excepts it |
| `handleCreateCard` inserts into a column that does not exist and always fails (`cards.go:561`) | reading; the reason why the model has no such action |
| Two versions of one card in a fusion are blended as one, while the lineage names both (`fuse_math.go:19`) | reading; `ParentOf` models it, `LineageIsBlended` says which one it is |
| The first layout of the relation graph runs without edges, every later one with the edges before the reload (`Graph.tsx:156`) | reading; `GraphPage.Moving` models it |
| Between two cards in the laboratory a save stores the levels of the one as a version of the other (`Lab.tsx:146`) | reading; `LabPage.Save` models it |
| A job that the storage refuses is in no dock (`jobs.ts:41`; its comment says the dock goes on working) | reading; `JobDock.Register` models it |
| Deleting a project never removes files of blobs (`projects.go:126`; the product design says it does) | reading |

The exceptions that `WritingIsAccounted`, `RunningIsAccounted` and `IdleIsQuiet` list are complete: section 5 proves that there is no other way.

Smaller things the page models have as the code has them, and which the properties except or leave alone:

* Fusion: lists that arrive out of order can hide a chosen card; a visit to another `?cards=` puts more than `Slots` cards in, or
  rebalances while the mode still says custom; a leading card that is no longer in makes sums of 30. `WeightsStayWhole` excepts the last two.
* Laboratory: suggestions go to the card that is shown, which need not be the audited one yet; an audit or sample that succeeds leaves
  the page, and with it what was typed.
* Chapter list: it decides by the row it has, so a chapter written meanwhile is written again without a question; between click
  and answer a second click orders twice; a page that was left still orders what it had begun to bind. `WritesAreBound` holds all the same,
  with the exception it names: a card that another tab has taken away since the server said it was there, and then the server refuses the order. The planner keeps an outline it has imported.
* Extraction: a start whose answer is lost may be repeated, which makes two jobs; the page knows the second only.
* Dock and progress bar may both speak of one end; a success without a page is told of by nobody.
* Frame: a logout that fails leaves the session at the server valid; one whose answer is late logs out whoever is in by then; the links between
  the two forms forget where to lead back.
* Graph: extracting again duplicates edges, and an edge may be saved whose end is gone.
* A second click on synchronise before the first answer submits a second job.

For the author the second finding means more than a wrong word: a page that opens a chapter that says "writing" locks itself and polls it, so a chapter left that
way by a restart cannot be edited, saved or written again in the workbench.

## 5. Proofs

Every theorem holds for any values of the constants that satisfy the assumptions named with it.

| module | theorem | property | assumptions |
|---|---|---|---|
| `JobRunnerProofs` | `TypeCorrect` | `TypeOK` | `NoJob` is not a job, `Full` is a natural number |
| | `Exclusion` | `OneWorkerPerJob` | |
| | `Accounting` | `RunningIsAccounted` | |
| | `Signalling` | `CanceledIsSignalled` | |
| | `NoLateStart` | `NoStartAfterEnd` | |
| | `Refinement` | `RefinesLifecycle` | |
| `WritePipelineProofs` | `TypeCorrect` | `TypeOK` | none |
| | `WritingHasAJob` | `WritingIsAccounted` | |
| | `SuccessIsReal` | `SucceededMeansPersisted` | |
| | `EndedJobsDoNotWrite` | `PersistsOnlyWhileRunning` | |
| `ChapterOrderProofs` | `TypeCorrect` | `TypeOK` | `NoId` is not an id, `MaxImport` is a natural number |
| | `NumberingHolds` | `Numbering` | |
| | `OrderKept` | `OrderPreserved` | |
| `CardVersionsProofs` | `TypeCorrect` | `TypeOK` | the bounds are natural numbers, requests are sequences of references |
| | `Consistency` | `CurrentIsLast` | |
| | `NoLostEdit` | `EditsBuildOnLast` | |
| | `Lineage` | `LineageIsBlended` | |
| | `Immutability` | `VersionsAreFixed` | |
| `BibleProofs` | `TypeCorrect` | `TypeOK` | the bounds are natural numbers (`BoundsAssumption`, `MaxOpsAssumption`), `NoKey` is not a key, an answer is a sequence of operations that `ParseOps` lets through (`AnswersAssumption`) |
| | `LiveOnce` | `EntriesLiveOnce` | |
| | `CurrentListIsSafe` | `CurrentListMakesNoTwin` | |
| | `OnlyTargetsChange` | `TouchesOnlyTargets` | |
| | `StatusByUpdate` | `StatusMovesByUpdate` | |
| `WorkbenchProofs` | `TypeCorrect` | `TypeOK` | `NamesAreApart`: what stands for none is none, and the text of a job is not one of an author |
| | `SeparateChapters` | `ChaptersAreSeparate` | |
| | `TypedTextKept` | `TypedIsKept` | |
| | `QuietWhenIdle` | `IdleIsQuiet` | |
| | `LockAwaited` | `LockIsAwaited` | |
| | `RunsWritePipeline` | implements `WritePipeline` | |
| `StudioProofs`, the whole client | `TypeCorrect` | `TypeOK` | `StudioBounds`: cards have a first version, there may be a session; `FreeIsNoProject`; `DeckIsNumbered`: the deck is a finite set of numbers, sliders go from 0 to 100 |
| | `SavesGoHome` | `SaveGoesToItsEntry` | |
| | `NothingComesBack` | `DeletedStaysDeleted` | |
| | `WeightsWhole` | `WeightsStayWhole` | |
| | `AppliedOnce` | `SuggestionsAppliedOnce` | |
| | `OrdersAreBound` | `WritesAreBound` | |
| | `OneAtATime` | `OneExtraction` | |
| | `ToldOnce` | `EndsAreToldOnce` | |
| | `LeadsBack` | `ReturnsToWhereItWas` | |

None of these invariants is inductive alone. In each module `IInv` adds what the code relies on without saying so.
`InitInv` and a lemma per conjunct or action establish it; `Invariance` concludes.

**`JobRunner`.**

* `HeldHasLeftQueue`: a job in a worker's hands is no longer queued, so no second claim finds it. This carries
  `OneWorkerPerJob`; it needs that no statement ever puts a row back in the queue.
* `CanceledMeaning`, `CancellingMeaning`: a mark in `canceled` stands for an UPDATE that is to come, has failed or
  was made; and while it is to come no worker can be about to start the handler without seeing the mark. They carry
  `RunningIsAccounted` through `Skip`, the only place where a worker drops a row it claimed.
* `ClaimedMeaning`, `RunMeaning`, `ClosingMeaning`: what the row says in each phase of the worker.
  `ClaimedMeaning` gives `NoStartAfterEnd`, `RunMeaning` gives `CanceledIsSignalled`, `ClosingMeaning` lets
  `Cleanup` forget the job.
* `DownIsEmpty`: a process that is down holds nothing, so `Boot` starts from nothing.

`RefinementStep` maps each step to one of `JobLifecycle` or a stutter, using `TypeOK` and `IInv` before the step.

**`WritePipeline`.** `WritingIsAccounted` speaks of any write in progress, also of one that a cancel has doomed: its worker may
skip it, and then nobody is left. The invariant is the stronger `WritingIsUndoomed`: some write of the chapter is in progress and not
canceled, or the chapter is disturbed. Its step splits in two: `WritingBefore` (a chapter ends a step in "writing" only if it began it there, or the step marked
it, or disturbed it; here the PATCH that writes back a loaded status is the hard case) and `UndoomedStep` (such a write survives the step).
`HandlerMeaning` says that a handler whose row is no longer running has a canceled context, which is also why
it cannot persist (`EndedJobsDoNotWrite`). `PastPersist` with `DeletedStep`, no row comes back, gives `SuccessIsReal`.

**`ChapterOrder`.** `RequestMeaning`: every request in flight holds a positive position, and a create works with an id of its own
that has no row yet. So an insert never moves a chapter and a renumbering never produces position 0, which would be a chapter lost. Order and
uniqueness need nothing of what a request has read: whatever the number, `Collides` and `Taken` turn the bad cases into errors. `NoGaps` is
carried by `overlapped`, which the step itself sets when its number no longer holds.

**`CardVersions`.** `EditMeaning`: an edit's base is a version that was current once, so it is not above the current number, and the
compare-and-set succeeds only on the last version. `FusionMeaning`: what a fusion has loaded belongs to its references in order and is stored, and a
reference that names a version was given that one. With `ParentFacts` (Blend's search by card id finds the parent of the last reference to that
card) this gives `Lineage`; that stored versions stay, `GrowStep`, keeps it. `BasesBelow` is needed for the types, and the lemma `HasLast` (a bounded, non-empty set of positions has a
greatest) for the search's result to exist.

**`Bible`.** `Numbered` (ids are issued in order, and an entry has one only from then on) carries `EntriesLiveOnce`. `Prepared` says of a batch
that is about to be applied that its operations came from `Answers` and its list names entries that had been issued. The three action properties
are about a whole batch, which `ApplyOps` folds. `FoldGoesThrough` shows that the
fold goes through the operations one by one; `Induction`, which is about a set of natural numbers instead of an
operator, then carries what each operation keeps to the last state. `FoldGoesThrough` rests on
`Recursion`, that the fold of the community modules is defined at every length. The lemmas `ReviseCarries`, `AlterCarries` and
`AddCarries` are the three branches of the loop; what they carry (`Carried`) is that rows outside the targets are what they were, a status moved only by
an update of that id, and keys that were found in the list stay with one entry.

**`Workbench`.** Four layers, each proved with the ones before it.

* `PageInv`: tokens and epochs only grow (`References`), the page waits for one call at a time (`OneAtATime`), and each
  call that it waits for says what the page looks like (`Waits`): a save is on its way only while the operation is "saving", and so on. So
  an answer that passes the tests behind an `await` is the one the page is waiting for. It gives `TypedIsKept` and `LockIsAwaited`.
* `ServerMeaning`, `Serving`: of the many steps of `WritePipeline` only those occur that a call stands for, and each PATCH and POST under
  way belongs to one call.
* `Home`: every text is where it was written for, on the page, in calls, in the rows and in the hands of a PATCH or a job. It gives `ChaptersAreSeparate`.
* `Quiet`: for each chapter, an exception of `IdleIsQuiet` has happened, which lasts, or: at most one job that the page knows works on the chapter and
  its row says so (`Accounted`), the page is locked if it shows it (`Locked`), and no answer under way can unlock it (`Unlocks`).

`RunsWritePipeline` shows that the server's part of every step is a step of `WritePipeline` or none, so that what is proved there holds here.

**The pages** (`PageProofs`). Each has an invariant of its page, its calls and the rows of its server.

* `BibleInv`: the text of the form and the entry it was loaded from change together only, and a save is made of the two of them, whatever row
  is marked by then.
* `GraphInv`: the shape of the page, of its calls and of what the server stores, which the step `StaysDeleted` needs for all nodes: a save writes
  where there is a row and nowhere else, creation and extraction use ids that were never used.
* `FuseInv` is the shape of the bench, with numbers in range. The rest is arithmetic: `FewCount` (the first n of a finite set of numbers
  are n) and, from it, `SharesAddUp`: the parts `splitEven` makes of a whole add up to it, with each remainder given to the first cards. On it rest the lemmas about what the presets, the sliders, the check boxes and the cards that leave do to a dimension;
  `WholeStep` puts them together.
* `LabInv`: suggestions that can still come into the sliders, from an entry of the history or from the page that came with them, have not been in them yet
  (`Unspent`), through reloads and returns.
* `WriteInv`: a chapter that has its card does not stand without one again unless `taken` counts it (`WriteHadStays`, of every step). So what was once
  right of a chapter and a count (`Had`: it has lost its card more than n times, or n times and has it) stays right. Every list, however old
  (`WriteListIsRight`, of the page and of each answer under way), is right in this sense about the chapters it shows with a card; so is a binding that
  was answered, an order (`WriteCallOK`), and a call that a dialog holds back, however long and whether or not its page is still there (`WritePageOK`).
* `ExtractInv`: `busy` stands for at most one call (`ExtractLocked`), so the answer that releases it releases the last. With that the property
  survives the start of an extraction, which is possible only when nothing is locked and nothing is watched. A job that the page or an answer names is not
  free any more, so no new job can be mistaken for it.
* `ShelfInv`: a sample that the shelf shows is stored, and one that it shows twice is in no answer to an upload any more: the upload of a sample and one
  list that was read after it can both bring it, and nothing brings it a third time.
* `DockInv`: a tab that has told of a job no longer polls it and its register entry is gone, so no second poll tells of it
  (`DockToldIsOver`); `DockGoneForAReason` is the second half of the property with the reasons the steps leave behind.

**`Studio`.** The invariant is that of the frame and those of the pages. A page's steps in the composition are its own, with two things
more: the session may be refused or end under its calls, which only takes calls away (the lemmas `...GoneStep`), and the frame may
take the page away, which is its own `Leave`. `Quiet`: before the frame is ready no page has asked anything, the author's dialog included. `CountedStep`: the gestures share one count.

The frame. `Entry`: one login is under way at most, only while nobody is in, and it knows the address the form knew. `AtForm`: who is not in
is at a form, so a late refusal finds a form and changes nothing. `AtStart` keeps the question the app begins with apart from all others, and `Room`
the numbers of sessions within their bound. The lemmas `OutStep` and `UnauthStep` cover every way out; `WhoamiStep` is the only way in.

**Only model-checked:** liveness (`QueuedIsServed`, `RunningEnds`, `WritingEnds`), which with fairness and ENABLED is beyond the prover, and
the four counterexamples, which are states to be found and not theorems. Every other property of the runs is proved. No module
uses RECURSIVE operators.

## 6. Not modelled

* Texts, prompts, model names, the clamp of lengths: nothing the properties tell apart.
* Chapter splitting, text statistics, the arithmetic of Blend, the budget of RenderForPrompt: pure functions; the last two are planned.
* Accounts, passwords and keys: single statements. Ownership checks (`LoadOwned`) are modelled by their not-found result.
* The event stream and the export read only.
* Blobs by content hash: rows name them, nothing removes them, and no page tells them apart.
* The remaining pages (projects, settings, audit and sample reports, lineage), the command palette, toasts, sound and drawing. The
  palette is modelled by what it does to a page: it changes the address without unmounting it (`Visit`).
* On the pages: search, filters, sorting, zoom, names and texts that no decision depends on.
* Of the chapter page: what it reads beside its chapter, with
  request numbers of its own, the zen mode, deletions (no chapter is deleted under it in `Workbench`), other clients, cancels (no page offers one).

## 7. Plan

Done, in this order: the runner and its life cycle, because everything else runs in it; the write pipeline on top of it; the
three tables with the hardest stale reads; the chapter page; the other pages with state, the dock and the frame, and their composition; the
proofs of section 5.

Next, extending the model:

1. The side panels of the chapter page: cards, neighbours with their cache, and the bible, each with a request number.
2. Pure algorithms as functions against a definition of what they promise: Blend, RenderForPrompt's budget, the client's retry.
3. Two tabs with pages: an entry, a card or a chapter changed in the other tab while this one has it in its form.

Next, proofs: that the runner of `JobRunner` and the job rows of `WritePipeline` are the same life cycle, as an explicit refinement of `JobLifecycle` by
`WritePipeline`; what a completed sync leaves of a list that was old (a bound on the twins of `bible_twins`); whatever the extensions above need.

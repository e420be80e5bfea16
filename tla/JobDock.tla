------------------------------ MODULE JobDock ------------------------------
(***************************************************************************)
(* How the author hears of the jobs: the register of submitted jobs in the *)
(* browser's storage (web/src/jobs.ts), the dock of every tab that polls   *)
(* what is registered (components/JobDock.tsx), the progress bar of the    *)
(* page that submitted one (components/JobProgress.tsx), and the poll they *)
(* share (useJobPoll of hooks.ts).                                         *)
(*                                                                         *)
(* The storage is shared by the tabs and each of its writes is one step; a *)
(* tab hears of another tab's write later.  JobRunner.tla models the jobs. *)
(***************************************************************************)
EXTENDS Naturals

CONSTANTS Tabs, Jobs, NoJob,
          MaxMoves   \* bound: what the author does, losses and the passing of a day

VARIABLES
    status,     \* the server: "none" before a job; "silent" is a success without a page
    registry,   \* localStorage
    dock,       \* dock[t][j]: Off, or the polls in a row that were lost
    watch,      \* the job a page of the tab has a progress bar for
    at,         \* the job whose result the tab shows
    told,       \* told[t][j]: how often the tab said that the job had ended
    released,   \* jobs the author hid or saw the result of, too old ones and unstored ones
    moves

vars == <<status, registry, dock, watch, at, told, released, moves>>

MAX_GET_FAILURES == 3
Off == MAX_GET_FAILURES + 1   \* the dock of the tab does not show the job

Move == moves < MaxMoves /\ moves' = moves + 1

Final == {"succeeded", "silent", "failed", "canceled"}

\* A tab reads the register: new items begin to poll and the others go on.
Shown(t, r) ==
    [j \in Jobs |-> IF j \notin r THEN Off ELSE IF dock[t][j] = Off THEN 0 ELSE dock[t][j]]

Init ==
    /\ status = [j \in Jobs |-> "none"]
    /\ registry = {}
    /\ dock = [t \in Tabs |-> [j \in Jobs |-> Off]]
    /\ watch = [t \in Tabs |-> NoJob]
    /\ at = [t \in Tabs |-> NoJob]
    /\ told = [t \in Tabs |-> [j \in Jobs |-> 0]]
    /\ released = {}
    /\ moves = 0

\* write(): the tab that wrote reads again at once. Storage that is full or forbidden keeps
\* nothing, and then the tab does not show the job either.
Written(t, r) == registry' = r /\ dock' = [dock EXCEPT ![t] = Shown(t, r)]

\* A page's call that submits a job was answered: registerJob, setJobId.
Register(t, j, kept) ==
    /\ status[j] = "none"
    /\ Move
    /\ status' = [status EXCEPT ![j] = "running"]
    /\ Written(t, IF kept THEN registry \union {j} ELSE registry)
    /\ released' = IF kept THEN released ELSE released \union {j}
    /\ watch' = [watch EXCEPT ![t] = j]
    /\ at' = [at EXCEPT ![t] = NoJob]
    /\ UNCHANGED told

JobEnds(j) ==
    /\ status[j] = "running"
    /\ \E how \in Final : status' = [status EXCEPT ![j] = how]
    /\ UNCHANGED <<registry, dock, watch, at, told, released, moves>>

\* Another tab wrote.
OnStorage(t) ==
    /\ dock[t] # Shown(t, registry)
    /\ dock' = [dock EXCEPT ![t] = Shown(t, registry)]
    /\ UNCHANGED <<status, registry, watch, at, told, released, moves>>

\* The tab is reloaded, or the author logs in in it.
Mount(t) ==
    /\ Move
    /\ dock' = [dock EXCEPT ![t] = [j \in Jobs |-> IF j \in registry THEN 0 ELSE Off]]
    /\ watch' = [watch EXCEPT ![t] = NoJob]
    /\ UNCHANGED <<status, registry, at, told, released>>

\* The author goes to the page of a result, or to a page of no job.
Go(t, j) ==
    /\ j # at[t] /\ (j # NoJob => status[j] = "succeeded")
    /\ Move
    /\ at' = [at EXCEPT ![t] = j]
    /\ watch' = [watch EXCEPT ![t] = NoJob]
    /\ UNCHANGED <<status, registry, dock, told, released>>

Hide(t, j) ==
    /\ dock[t][j] # Off
    /\ Move
    /\ Written(t, registry \ {j})
    /\ released' = released \union {j}
    /\ UNCHANGED <<status, watch, at, told>>

\* read() drops a record of more than a day.
Age(j) ==
    /\ j \in registry
    /\ Move
    /\ registry' = registry \ {j}
    /\ released' = released \union {j}
    /\ UNCHANGED <<status, dock, watch, at, told>>

----------------------------------------------------------------------------
(* The polls *)

Polling(t, j) == dock[t][j] \in 0..MAX_GET_FAILURES - 1

\* The toast of an end: none for the result the tab shows, none for a canceled job.
Says(t, j) == \/ status[j] = "succeeded" /\ at[t] # j
              \/ status[j] = "failed"

\* The dock's poll is answered.
Polled(t, j) ==
    /\ Polling(t, j)
    /\ IF status[j] \in Final
       THEN /\ told' = [told EXCEPT ![t][j] = IF Says(t, j) THEN @ + 1 ELSE @]
            /\ released' = IF at[t] = j THEN released \union {j} ELSE released
            /\ Written(t, registry \ {j})
       ELSE dock' = [dock EXCEPT ![t][j] = 0] /\ UNCHANGED <<told, released, registry>>
    /\ UNCHANGED <<status, watch, at, moves>>

\* Mutation of AfterLoss: the poll that is given up ends the job for the dock.
MAfterLoss(t, j) ==
    IF dock[t][j] = MAX_GET_FAILURES - 1 THEN Written(t, registry \ {j})
    ELSE dock' = [dock EXCEPT ![t][j] = @ + 1] /\ UNCHANGED registry

\* Lost polls are counted; after the third the item stays and asks no more.
AfterLoss(t, j) == dock' = [dock EXCEPT ![t][j] = @ + 1] /\ UNCHANGED registry

PollLost(t, j) ==
    /\ Polling(t, j)
    /\ AfterLoss(t, j)
    /\ UNCHANGED <<status, watch, at, told, released, moves>>

\* The progress bar's poll is answered: it goes to the result of a success.
WatchPolled(t) ==
    /\ watch[t] # NoJob /\ status[watch[t]] \in Final
    /\ at' = IF status[watch[t]] = "succeeded" THEN [at EXCEPT ![t] = watch[t]] ELSE at
    /\ watch' = [watch EXCEPT ![t] = NoJob]
    /\ UNCHANGED <<status, registry, dock, told, released, moves>>

WatchLost(t) ==
    /\ watch[t] # NoJob
    /\ watch' = [watch EXCEPT ![t] = NoJob]
    /\ UNCHANGED <<status, registry, dock, at, told, released, moves>>

Next ==
    \/ \E j \in Jobs : JobEnds(j) \/ Age(j)
    \/ \E t \in Tabs : OnStorage(t) \/ Mount(t) \/ WatchPolled(t) \/ WatchLost(t)
    \/ \E t \in Tabs, j \in Jobs : Hide(t, j) \/ Polled(t, j) \/ PollLost(t, j)
    \/ \E t \in Tabs, j \in Jobs \union {NoJob} : Go(t, j)
    \/ \E t \in Tabs, j \in Jobs, kept \in BOOLEAN : Register(t, j, kept)

Spec == Init /\ [][Next]_vars

----------------------------------------------------------------------------
TypeOK ==
    /\ status \in [Jobs -> Final \union {"none", "running"}]
    /\ registry \subseteq Jobs
    /\ dock \in [Tabs -> [Jobs -> 0..Off]]
    /\ watch \in [Tabs -> Jobs \union {NoJob}]
    /\ at \in [Tabs -> Jobs \union {NoJob}]
    /\ told \in [Tabs -> [Jobs -> Nat]]
    /\ released \subseteq Jobs

\* A tab says at most once that a job has ended, and no job leaves the register untold: one
\* that does was told of in some tab, unless the author hid it or was looking at its result,
\* it was canceled, or it succeeded without a page to show. Lost polls, a reload and the
\* other tab's dock change nothing of that (JobDock.tsx: handled, removeJob).
EndsAreToldOnce ==
    /\ \A t \in Tabs, j \in Jobs : told[t][j] <= 1
    /\ \A j \in Jobs \ (registry \union released) :
           status[j] \in {"none", "silent", "canceled"} \/ \E t \in Tabs : told[t][j] = 1
=============================================================================

---------------------------- MODULE ExtractPage ----------------------------
(***************************************************************************)
(* The extraction bench of a project (web/src/pages/ProjectHome.tsx):      *)
(* samples are uploaded and picked, and a job extracts a style card from   *)
(* them while the page polls it.                                           *)
(*                                                                         *)
(* Samples are of one size: Limit of them are 100,000 characters.  The     *)
(* list is a bag, because an upload puts its sample into the list whether  *)
(* or not a list read meanwhile has it already.  Names, the model and the  *)
(* deck are left out.                                                      *)
(***************************************************************************)
EXTENDS Calls, Functions

CONSTANTS Projects, NoProject, Assets, Limit, Jobs, NoJob

VARIABLES
    page,
    stored,     \* the server: the project of a sample, "free" before
    jobs        \* the server: "free", "running", "done" or "failed"

vars == <<page, stored, jobs, calls, moves>>

Nothing == [a \in Assets |-> 0]

Closed == [project |-> NoProject, loaded |-> FALSE, broken |-> FALSE, listed |-> Nothing,
           selected |-> {}, file |-> FALSE, busy |-> FALSE, job |-> NoJob, active |-> FALSE,
           polling |-> FALSE, lost |-> FALSE, result |-> FALSE]

Mounted == page.project # NoProject

\* The benches are rendered; so is JobProgress, once there is a job.
Bench(p) == p.loaded /\ ~p.broken

Call(kind, picked) == [kind |-> kind, project |-> page.project, picked |-> picked,
                       state |-> "sent", got |-> Nothing, live |-> TRUE]
Load == Call("load", {})

AssetsOf(p) == {a \in Assets : stored[a] = p}

\* picked and overSampleLimit
Picked == {a \in page.selected : page.listed[a] > 0}
OverLimit == SumFunctionOnSet(page.listed, Picked) > Limit

Init ==
    /\ page = Closed
    /\ stored \in [Assets -> Projects \union {"free"}]
    /\ jobs = [j \in Jobs |-> "free"]
    /\ calls = {} /\ moves = 0

----------------------------------------------------------------------------
(* The author *)

\* The palette leads from project to project without unmounting the page.
Visit(p) ==
    /\ p # page.project
    /\ Move
    /\ page' = [page EXCEPT !.project = p]
    /\ calls' = calls \union {[Load EXCEPT !.project = p]}
    /\ UNCHANGED <<stored, jobs>>

Leave ==
    /\ Mounted
    /\ page' = Closed
    /\ calls' = Orphaned
    /\ UNCHANGED <<stored, jobs>>

\* The tab is looked at again, or the button of a page that could not be read is pressed.
Reread ==
    /\ Mounted /\ Load \notin calls
    /\ Move
    /\ calls' = calls \union {Load}
    /\ UNCHANGED <<page, stored, jobs>>

\* A gesture that changes the page only.
Does(p) ==
    /\ Bench(page)
    /\ Move
    /\ page' = p
    /\ UNCHANGED <<stored, jobs, calls>>

\* A file that is too large or of another type is not kept.
ChooseFile(fits) == Does([page EXCEPT !.file = fits])

\* The shelf and the tray
OnShelf(a) == page.listed[a] > 0

Toggle(a) ==
    /\ OnShelf(a)
    /\ Does([page EXCEPT !.selected = IF a \in @ THEN @ \ {a} ELSE @ \union {a}])

NextCard == page.result /\ Does([page EXCEPT !.result = FALSE])

\* The form of a sample
UploadForm == Bench(page) /\ page.file /\ ~page.busy

Upload ==
    /\ UploadForm
    /\ Move
    /\ page' = [page EXCEPT !.busy = TRUE]
    /\ calls' = calls \union {Call("upload", {})}
    /\ UNCHANGED <<stored, jobs>>

\* What the key and the button have in common
StartExtract ==
    /\ Mounted /\ ~page.busy /\ ~page.active /\ Picked # {} /\ ~OverLimit
    /\ Move
    /\ page' = [page EXCEPT !.busy = TRUE, !.result = FALSE]
    /\ calls' = calls \union {Call("extract", Picked)}
    /\ UNCHANGED <<stored, jobs>>

\* Ctrl+Enter, on the whole document
StartByKey == StartExtract

\* The button, which the result of the last extraction takes the place of
StartByButton == Bench(page) /\ ~page.result /\ StartExtract

----------------------------------------------------------------------------
(* The server *)

ServeLoad(k) ==
    /\ Waiting(k) /\ k.kind \in {"load", "result"}
    /\ Reply(k, "ok", [a \in Assets |-> IF stored[a] = k.project THEN 1 ELSE 0])
    /\ UNCHANGED <<page, stored, jobs, moves>>

ServeUpload(k) ==
    /\ Waiting(k) /\ k.kind = "upload"
    /\ \E a \in AssetsOf("free") :
           /\ stored' = [stored EXCEPT ![a] = k.project]
           /\ Reply(k, "ok", [Nothing EXCEPT ![a] = 1])
    /\ UNCHANGED <<page, jobs, moves>>

\* The answer names the job: here as a field of the call.
ServeExtract(k) ==
    /\ Waiting(k) /\ k.kind = "extract"
    /\ \E j \in {i \in Jobs : jobs[i] = "free"} :
           /\ jobs' = [jobs EXCEPT ![j] = "running"]
           /\ calls' = (calls \ {k}) \union
                       IF k.live THEN {[k EXCEPT !.state = "ok", !.kind = "started",
                                                 !.picked = {j}]} ELSE {}
    /\ UNCHANGED <<page, stored, moves>>

JobEnds(j) ==
    /\ jobs[j] = "running"
    /\ \E how \in {"done", "failed"} : jobs' = [jobs EXCEPT ![j] = how]
    /\ UNCHANGED <<page, stored, calls, moves>>

----------------------------------------------------------------------------
(* The answers and the polls *)

\* A page that could not be read has taken JobProgress away, and now mounts it again: it
\* asks for the job anew.
LoadArrives(k) ==
    /\ Answered(k) /\ k.kind = "load"
    /\ page' = [page EXCEPT !.listed = k.got, !.loaded = TRUE, !.broken = FALSE,
                            !.polling = @ \/ (page.broken /\ page.job # NoJob)]
    /\ calls' = calls \ {k}
    /\ UNCHANGED <<stored, jobs, moves>>

UploadArrives(k) ==
    /\ Answered(k) /\ k.kind = "upload"
    /\ page' = [page EXCEPT !.listed = [a \in Assets |-> @[a] + k.got[a]],
                            !.selected = @ \union {a \in Assets : k.got[a] > 0},
                            !.file = FALSE, !.busy = FALSE]
    /\ calls' = calls \ {k}
    /\ UNCHANGED <<stored, jobs, moves>>

\* Mutation of Started: the button is not locked until the first poll.
MStarted(p, j) == [p EXCEPT !.job = j, !.busy = FALSE, !.lost = FALSE]

\* setJobId, setJobActive and, in the end, setBusy
Started(p, j) == [p EXCEPT !.job = j, !.active = TRUE, !.busy = FALSE, !.lost = FALSE]

ExtractArrives(k) ==
    /\ Answered(k) /\ k.kind = "started"
    /\ \E j \in k.picked :
           page' = [Started(page, j) EXCEPT !.polling = Bench(page)]
    /\ calls' = calls \ {k}
    /\ UNCHANGED <<stored, jobs, moves>>

ResultArrives(k) ==
    /\ Answered(k) /\ k.kind = "result"
    /\ page' = [page EXCEPT !.result = TRUE]
    /\ calls' = calls \ {k}
    /\ UNCHANGED <<stored, jobs, moves>>

\* A list that cannot be read hides the benches, and with them the watch of the job.
CallFails(k) ==
    /\ Failed(k)
    /\ page' = [page EXCEPT !.broken = @ \/ k.kind = "load",
                            !.loaded = @ \/ k.kind = "load",
                            !.polling = @ /\ k.kind # "load",
                            !.busy = @ /\ k.kind \notin {"upload", "extract", "started"}]
    /\ calls' = calls \ {k}
    /\ UNCHANGED <<stored, jobs, moves>>

\* A poll of useJobPoll is answered, and onStatus and onSucceeded hear of it.
Polled ==
    /\ page.polling
    /\ page' = [page EXCEPT !.active = jobs[page.job] = "running",
                            !.polling = jobs[page.job] = "running"]
    /\ calls' = IF jobs[page.job] = "done" THEN calls \union {Call("result", {})} ELSE calls
    /\ UNCHANGED <<stored, jobs, moves>>

\* Three polls in a row are lost: the hook gives up and reports the job as failed. A page that
\* mounts the watch again may hear of the job once more, but lost remembers it.
PollsLost ==
    /\ page.polling
    /\ Move
    /\ page' = [page EXCEPT !.active = FALSE, !.polling = FALSE, !.lost = TRUE]
    /\ UNCHANGED <<stored, jobs, calls>>

Drop(k) == Lose(k) /\ UNCHANGED <<page, stored, jobs>>

Gesture ==
    \/ Reread \/ NextCard \/ Upload \/ StartByKey \/ StartByButton
    \/ \E fits \in BOOLEAN : ChooseFile(fits)
    \/ \E a \in Assets : Toggle(a)

Watch == Polled \/ PollsLost

Serve(k) == ServeLoad(k) \/ ServeUpload(k) \/ ServeExtract(k)

Arrive(k) == \/ LoadArrives(k) \/ UploadArrives(k) \/ ExtractArrives(k) \/ ResultArrives(k)
             \/ CallFails(k)

Next == \/ \E p \in Projects : Visit(p)
        \/ (Leave /\ UNCHANGED moves) \/ Gesture \/ Watch
        \/ \E j \in Jobs : JobEnds(j)
        \/ \E k \in calls : Serve(k) \/ Arrive(k) \/ Drop(k)

Spec == Init /\ [][Next]_vars

----------------------------------------------------------------------------
TypeOK ==
    /\ page \in [project: Projects \union {NoProject}, loaded: BOOLEAN, broken: BOOLEAN,
                 listed: [Assets -> 0..2], selected: SUBSET Assets, file: BOOLEAN,
                 busy: BOOLEAN, job: Jobs \union {NoJob}, active: BOOLEAN, polling: BOOLEAN,
                 lost: BOOLEAN, result: BOOLEAN]
    /\ stored \in [Assets -> Projects \union {"free"}]
    /\ jobs \in [Jobs -> {"free", "running", "done", "failed"}]

\* While the job of the page is running the page does not begin another, not when its list
\* is read again, cannot be read and takes the watch of the job away, or belongs to another
\* project by now; only three lost polls in a row let go of it (ProjectHome.tsx: jobActive).
OneExtraction ==
    page.job # NoJob /\ jobs[page.job] = "running" /\ ~page.lost
    => page.active /\ ~\E k \in calls : k.live /\ k.kind \in {"extract", "started"}
=============================================================================

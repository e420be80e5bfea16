----------------------------- MODULE JobRunner -----------------------------
(***************************************************************************)
(* internal/job/runner.go: the in-process job runner.  Worker goroutines   *)
(* claim the oldest queued row of the jobs table, run the handler of its   *)
(* kind under a cancellable context and write the outcome back; HTTP       *)
(* requests enqueue and cancel; the process stops, crashes and restarts.   *)
(*                                                                         *)
(* SQLite statements are atomic and durable, so status, progress and       *)
(* createdAt survive a crash; everything else is the memory of the process *)
(* and does not.  A handler is anything that reports progress and returns: *)
(* WritePipeline composes this module with the one that writes chapters.   *)
(* A claim that fails (SQLITE_BUSY) is retried 50ms later and changes      *)
(* nothing, so it is a stuttering step.                                    *)
(***************************************************************************)
EXTENDS Integers

CONSTANTS Jobs,        \* job ids; each is enqueued at most once (ids.New)
          Workers,     \* worker goroutines, STYLELAB_WORKERS of them
          NoJob,       \* what a worker between two jobs holds
          Full,        \* the progress of a finished job, 100 in the code
          MaxCrashes   \* bound: how often the process may go down

ASSUME NoJobAssumption == NoJob \notin Jobs
ASSUME FullAssumption == Full \in Nat

VARIABLES
    status, progress, createdAt,  \* columns of the jobs table
    clock,                        \* the time the next row is created at
    mode,                         \* the process: "up", "stopping" (SIGTERM seen) or "down"
    crashes,                      \* how often it went down, for MaxCrashes
    pc, job,                      \* per worker: where its goroutine is, the job it holds
    cancels,                      \* Runner.cancels: jobs with a registered cancel function
    canceled,                     \* Runner.canceled: jobs somebody asked to cancel
    ctxDone,                      \* jobs whose context has been canceled
    wake,                         \* Runner.wake, a channel of capacity 1, holds a token
    cancelling,                   \* jobs with a Cancel call between its mark and its UPDATE
    lost                          \* history: jobs one of whose closing UPDATEs failed

table == <<status, progress, createdAt, clock>>
runner == <<cancels, canceled, ctxDone>>
process == <<mode, crashes>>
vars == <<table, process, pc, job, runner, wake, cancelling, lost>>

Ended == {"succeeded", "failed", "canceled"}
Statuses == {"absent", "queued", "running", "gone"} \union Ended

\* "poll": about to claim; "wait": blocked on wake or the 50ms timer; "claimed": between
\* claim and execute's lock; "run": in the handler; "succeeding", "failing": the handler
\* has returned, finish has not run; "closing": finish has run, the deferred cleanup has not.
InHandler == {"run"}
Registered == InHandler \union {"succeeding", "failing", "closing"}
Holding == {"claimed"} \union Registered
Phases == {"off", "poll", "wait"} \union Holding

Init ==
    /\ status = [j \in Jobs |-> "absent"]
    /\ progress = [j \in Jobs |-> 0]
    /\ createdAt = [j \in Jobs |-> 0]
    /\ clock = 1
    /\ mode = "up" /\ crashes = 0
    /\ pc = [w \in Workers |-> "poll"]
    /\ job = [w \in Workers |-> NoJob]
    /\ cancels = {} /\ canceled = {} /\ ctxDone = {}
    /\ wake = FALSE /\ cancelling = {} /\ lost = {}

----------------------------------------------------------------------------
(* HTTP requests *)

\* Enqueue: INSERT a queued row, then nudge (a send that is dropped when wake is full).
Enqueue(j) ==
    /\ mode # "down"
    /\ status[j] = "absent"
    /\ status' = [status EXCEPT ![j] = "queued"]
    /\ createdAt' = [createdAt EXCEPT ![j] = clock]
    /\ clock' = clock + 1
    /\ wake' = TRUE
    /\ UNCHANGED <<progress, process, pc, job, runner, cancelling, lost>>

\* Mutation of CancelMark: the handler's context is not canceled.
MCancelMarkSilent(j) ==
    /\ mode # "down"
    /\ status[j] \notin {"absent", "gone"}
    /\ j \notin cancelling
    /\ canceled' = canceled \union {j}
    /\ cancelling' = cancelling \union {j}
    /\ UNCHANGED <<table, process, pc, job, cancels, ctxDone, wake, lost>>

\* Cancel, its critical section: under the lock, remember the job and cancel the context
\* of its handler if one is registered.
CancelMark(j) ==
    /\ mode # "down"
    /\ status[j] \notin {"absent", "gone"}
    /\ j \notin cancelling
    /\ canceled' = canceled \union {j}
    /\ ctxDone' = IF j \in cancels THEN ctxDone \union {j} ELSE ctxDone
    /\ cancelling' = cancelling \union {j}
    /\ UNCHANGED <<table, process, pc, job, cancels, wake, lost>>

\* Mutation of CancelUpdate: only a queued row becomes canceled.
MCancelUpdateQueued(j) ==
    /\ j \in cancelling
    /\ status' = IF status[j] = "queued" THEN [status EXCEPT ![j] = "canceled"] ELSE status
    /\ cancelling' = cancelling \ {j}
    /\ UNCHANGED <<progress, createdAt, clock, process, pc, job, runner, wake, lost>>

\* Cancel, its UPDATE: only a queued or running row becomes canceled.
CancelUpdate(j) ==
    /\ j \in cancelling
    /\ status' = IF status[j] \in {"queued", "running"}
                 THEN [status EXCEPT ![j] = "canceled"] ELSE status
    /\ cancelling' = cancelling \ {j}
    /\ UNCHANGED <<progress, createdAt, clock, process, pc, job, runner, wake, lost>>

\* The UPDATE runs under the request's context: the client went away, or the database failed.
CancelFail(j) ==
    /\ j \in cancelling
    /\ cancelling' = cancelling \ {j}
    /\ lost' = lost \union {j}
    /\ UNCHANGED <<table, process, pc, job, runner, wake>>

\* Deleting a project deletes the rows of its jobs (ON DELETE CASCADE), in any state.
Purge(j) ==
    /\ mode # "down"
    /\ status[j] \notin {"absent", "gone"}
    /\ status' = [status EXCEPT ![j] = "gone"]
    /\ progress' = [progress EXCEPT ![j] = 0]
    /\ createdAt' = [createdAt EXCEPT ![j] = 0]
    /\ UNCHANGED <<clock, process, pc, job, runner, wake, cancelling, lost>>

----------------------------------------------------------------------------
(* Worker goroutines *)

Oldest(j) ==
    /\ status[j] = "queued"
    /\ \A k \in Jobs : status[k] = "queued" => createdAt[j] <= createdAt[k]

\* Mutation of Claim: a SELECT alone, the row stays queued until the job ends.
MClaimSelect(w) ==
    /\ mode = "up" /\ pc[w] = "poll"
    /\ \E j \in Jobs : Oldest(j) /\ job' = [job EXCEPT ![w] = j]
    /\ pc' = [pc EXCEPT ![w] = "claimed"]
    /\ UNCHANGED <<table, process, runner, wake, cancelling, lost>>

\* claim: one UPDATE moves the oldest queued row to running and returns it.
Claim(w) ==
    /\ mode = "up" /\ pc[w] = "poll"
    /\ \E j \in Jobs :
          /\ Oldest(j)
          /\ status' = [status EXCEPT ![j] = "running"]
          /\ job' = [job EXCEPT ![w] = j]
    /\ pc' = [pc EXCEPT ![w] = "claimed"]
    /\ UNCHANGED <<progress, createdAt, clock, process, runner, wake, cancelling, lost>>

\* claim finds no queued row: the worker blocks.
ClaimNone(w) ==
    /\ mode = "up" /\ pc[w] = "poll"
    /\ \A j \in Jobs : status[j] # "queued"
    /\ pc' = [pc EXCEPT ![w] = "wait"]
    /\ UNCHANGED <<table, process, job, runner, wake, cancelling, lost>>

\* The blocked worker receives from wake and claims again.
WakeUp(w) ==
    /\ pc[w] = "wait" /\ wake
    /\ wake' = FALSE
    /\ pc' = [pc EXCEPT ![w] = "poll"]
    /\ UNCHANGED <<table, process, job, runner, cancelling, lost>>

\* Mutation of Timer: the timer's case blocks again, only wake leads back to claiming.
MTimerBlocks(w) ==
    /\ pc[w] = "wait"
    /\ UNCHANGED vars

\* The 50ms timer of the blocked worker fires.
Timer(w) ==
    /\ pc[w] = "wait"
    /\ pc' = [pc EXCEPT ![w] = "poll"]
    /\ UNCHANGED <<table, process, job, runner, wake, cancelling, lost>>

\* The loop's test of ctx.Err, or the select's ctx.Done: the worker returns.
Retire(w) ==
    /\ mode = "stopping" /\ pc[w] \in {"poll", "wait"}
    /\ pc' = [pc EXCEPT ![w] = "off"]
    /\ UNCHANGED <<table, process, job, runner, wake, cancelling, lost>>

\* Mutation of Start: canceled is not consulted.
MStartAnyway(w) ==
    /\ pc[w] = "claimed"
    /\ cancels' = cancels \union {job[w]}
    /\ ctxDone' = ctxDone \ {job[w]}
    /\ pc' = [pc EXCEPT ![w] = "run"]
    /\ UNCHANGED <<table, process, job, canceled, wake, cancelling, lost>>

\* execute, its first critical section, for a job nobody canceled: register the cancel
\* function of a fresh context and call the handler.
Start(w) ==
    /\ pc[w] = "claimed" /\ job[w] \notin canceled
    /\ cancels' = cancels \union {job[w]}
    /\ ctxDone' = ctxDone \ {job[w]}
    /\ pc' = [pc EXCEPT ![w] = "run"]
    /\ UNCHANGED <<table, process, job, canceled, wake, cancelling, lost>>

\* execute for a job in canceled: return at once. The row stays as it is, and so does the
\* entry in canceled, because the deferred cleanup is set up only after this return.
Skip(w) ==
    /\ pc[w] = "claimed" /\ job[w] \in canceled
    /\ pc' = [pc EXCEPT ![w] = "poll"]
    /\ job' = [job EXCEPT ![w] = NoJob]
    /\ UNCHANGED <<table, process, runner, wake, cancelling, lost>>

\* Mutation of Clamp: only the lower bound.
MClampLow(p) == IF p < 0 THEN 0 ELSE p

Clamp(p) == IF p < 0 THEN 0 ELSE IF p > Full THEN Full ELSE p

\* The handler's progress callback: clamped, and only while the row is running.
Report(w, p) ==
    /\ pc[w] \in InHandler
    /\ progress' = IF status[job[w]] = "running"
                   THEN [progress EXCEPT ![job[w]] = Clamp(p)] ELSE progress
    /\ UNCHANGED <<status, createdAt, clock, process, pc, job, runner, wake, cancelling, lost>>

\* The handler returns a result or an error.
Return(w, outcome) ==
    /\ pc[w] \in InHandler
    /\ pc' = [pc EXCEPT ![w] = outcome]
    /\ UNCHANGED <<table, process, job, runner, wake, cancelling, lost>>

\* Mutation of Finish: the UPDATE does not ask for a running row.
MFinishAnyway(w) ==
    /\ pc[w] \in {"succeeding", "failing"}
    /\ LET ok == pc[w] = "succeeding" IN
          status' = [status EXCEPT ![job[w]] = IF ok THEN "succeeded" ELSE "failed"]
    /\ pc' = [pc EXCEPT ![w] = "closing"]
    /\ UNCHANGED <<progress, createdAt, clock, process, job, runner, wake, cancelling, lost>>

\* Mutation of Finish: a handler's error is not written.
MFinishSuccess(w) ==
    /\ pc[w] \in {"succeeding", "failing"}
    /\ status' = IF status[job[w]] = "running" /\ pc[w] = "succeeding"
                 THEN [status EXCEPT ![job[w]] = "succeeded"] ELSE status
    /\ pc' = [pc EXCEPT ![w] = "closing"]
    /\ UNCHANGED <<progress, createdAt, clock, process, job, runner, wake, cancelling, lost>>

\* finish: the row ends as the handler did, if it is still running.
Finish(w) ==
    /\ pc[w] \in {"succeeding", "failing"}
    /\ LET j == job[w] ok == pc[w] = "succeeding" IN
          IF status[j] = "running"
          THEN /\ status' = [status EXCEPT ![j] = IF ok THEN "succeeded" ELSE "failed"]
               /\ progress' = IF ok THEN [progress EXCEPT ![j] = Full] ELSE progress
          ELSE UNCHANGED <<status, progress>>
    /\ pc' = [pc EXCEPT ![w] = "closing"]
    /\ UNCHANGED <<createdAt, clock, process, job, runner, wake, cancelling, lost>>

\* finish drops the error of its UPDATE: the outcome is lost.
FinishFail(w) ==
    /\ pc[w] \in {"succeeding", "failing"}
    /\ pc' = [pc EXCEPT ![w] = "closing"]
    /\ lost' = lost \union {job[w]}
    /\ UNCHANGED <<table, process, job, runner, wake, cancelling>>

\* execute's deferred function: forget the job and go back to claiming.
Cleanup(w) ==
    /\ pc[w] = "closing"
    /\ cancels' = cancels \ {job[w]}
    /\ canceled' = canceled \ {job[w]}
    /\ ctxDone' = ctxDone \ {job[w]}
    /\ pc' = [pc EXCEPT ![w] = "poll"]
    /\ job' = [job EXCEPT ![w] = NoJob]
    /\ UNCHANGED <<table, process, wake, cancelling, lost>>

----------------------------------------------------------------------------
(* The process *)

\* SIGTERM cancels the context every worker and every handler's context derives from.
Shutdown ==
    /\ mode = "up" /\ crashes < MaxCrashes
    /\ mode' = "stopping"
    /\ UNCHANGED <<table, crashes, pc, job, runner, wake, cancelling, lost>>

\* main returns (it waits for no worker), panics or is killed: the memory is gone.
Exit ==
    /\ mode # "down" /\ crashes < MaxCrashes
    /\ mode' = "down" /\ crashes' = crashes + 1
    /\ pc' = [w \in Workers |-> "off"]
    /\ job' = [w \in Workers |-> NoJob]
    /\ cancels' = {} /\ canceled' = {} /\ ctxDone' = {}
    /\ wake' = FALSE /\ cancelling' = {} /\ lost' = {}
    /\ UNCHANGED table

\* main: RecoverInterrupted fails every running row, then Start launches the workers.
Boot ==
    /\ mode = "down"
    /\ status' = [j \in Jobs |-> IF status[j] = "running" THEN "failed" ELSE status[j]]
    /\ mode' = "up"
    /\ pc' = [w \in Workers |-> "poll"]
    /\ UNCHANGED <<progress, createdAt, clock, crashes, job, runner, wake, cancelling, lost>>

----------------------------------------------------------------------------
Requests == \E j \in Jobs : \/ Enqueue(j) \/ Purge(j)
                            \/ CancelMark(j) \/ CancelUpdate(j) \/ CancelFail(j)

\* What the runner itself does, around the handler.
Machinery ==
    \/ \E w \in Workers :
          \/ Claim(w) \/ ClaimNone(w) \/ WakeUp(w) \/ Timer(w) \/ Retire(w)
          \/ Start(w) \/ Skip(w) \/ Finish(w) \/ FinishFail(w) \/ Cleanup(w)
    \/ Shutdown \/ Exit \/ Boot

\* Any handler at all.
Handler(w) ==
    \/ \E p \in -1..(Full + 1) : Report(w, p)
    \/ \E outcome \in {"succeeding", "failing"} : Return(w, outcome)

Next == Requests \/ Machinery \/ \E w \in Workers : Handler(w)

Spec == Init /\ [][Next]_vars

\* Goroutines are scheduled and timers fire; a Cancel call in flight ends one way or the
\* other. Nothing makes a client call, a handler return, or the process stop or restart.
WorkerFairness(w) ==
    /\ WF_vars(Claim(w)) /\ WF_vars(ClaimNone(w)) /\ WF_vars(Timer(w))
    /\ WF_vars(Start(w)) /\ WF_vars(Skip(w))
    /\ WF_vars(Finish(w) \/ FinishFail(w)) /\ WF_vars(Cleanup(w))

Fairness ==
    /\ \A w \in Workers : WorkerFairness(w)
    /\ \A j \in Jobs : WF_vars(CancelUpdate(j) \/ CancelFail(j))

FairSpec == Spec /\ Fairness

----------------------------------------------------------------------------
(* Properties *)

TypeOK ==
    /\ status \in [Jobs -> Statuses]
    /\ progress \in [Jobs -> 0..Full]
    /\ createdAt \in [Jobs -> Nat] /\ clock \in Nat
    /\ mode \in {"up", "stopping", "down"} /\ crashes \in Nat
    /\ pc \in [Workers -> Phases]
    /\ job \in [Workers -> Jobs \union {NoJob}]
    /\ cancels \subseteq Jobs /\ canceled \subseteq Jobs /\ ctxDone \subseteq Jobs
    /\ wake \in BOOLEAN
    /\ cancelling \subseteq Jobs /\ lost \subseteq Jobs
    /\ \A w \in Workers : (job[w] \in Jobs) <=> (pc[w] \in Holding)

\* No job is ever in the hands of two workers, however claims, cancels and restarts
\* interleave: the claim is the only thing that hands jobs out.
OneWorkerPerJob ==
    \A v, w \in Workers : v # w /\ job[v] \in Jobs => job[v] # job[w]

\* While the process lives, a row that says running has someone who will close it: a
\* worker that holds it or the cancel call that made the worker skip it. The exception is
\* a row one of whose closing UPDATEs failed.
RunningIsAccounted ==
    \A j \in Jobs :
        mode # "down" /\ status[j] = "running" =>
            \/ \E w \in Workers : job[w] = j
            \/ j \in cancelling
            \/ j \in lost

\* A handler whose row a user has canceled has been told: its context is canceled.
CanceledIsSignalled ==
    \A w \in Workers : pc[w] = "run" /\ status[job[w]] = "canceled" => job[w] \in ctxDone

\* A handler is never started for a job whose row has already ended: a cancel that
\* completes between claim and execute keeps the handler from running.
NoStartAfterEnd ==
    [][\A w \in Workers : pc[w] # "run" /\ pc'[w] = "run" => status[job[w]] \notin Ended]_vars

\* The runner implements the life cycle of a job row: at most one start, progress only
\* while running, and an ended row never moves again, whichever of finish, cancel,
\* progress callback and restart comes last.
Lifecycle == INSTANCE JobLifecycle
RefinesLifecycle == Lifecycle!Spec

\* A queued job leaves the queue although every wake-up may have been lost, as long as
\* some worker is not inside a handler.
QueuedIsServed ==
    \A j \in Jobs :
        status[j] = "queued" ~>
            \/ status[j] # "queued"
            \/ \A w \in Workers : pc[w] = "run"
            \/ mode # "up"

\* Only a handler that has not returned (every model call times out after 180s), a closing
\* UPDATE that failed or the end of the process keeps a row running.
RunningEnds ==
    \A j \in Jobs :
        status[j] = "running" ~>
            \/ status[j] # "running"
            \/ \E w \in Workers : pc[w] = "run" /\ job[w] = j
            \/ j \in lost
            \/ mode = "down"

\* What runner_test.go:94 and the plan say of a canceled job: it is not left running.
CanceledIsNotLeftRunning ==
    \A j \in Jobs :
        j \in canceled ~>
            \/ status[j] # "running"
            \/ \E w \in Workers : pc[w] = "run" /\ job[w] = j
            \/ mode = "down"
=============================================================================

---------------------------- MODULE JobLifecycle ----------------------------
(***************************************************************************)
(* What the jobs table promises to the rest of stylelab, whatever workers, *)
(* cancel requests and restarts do behind it (README.md:101): a row is     *)
(* created queued, starts at most once, reports progress only while it     *)
(* runs, and once it has ended neither its status nor its progress moves.  *)
(* A row disappears only with its project.                                 *)
(***************************************************************************)
EXTENDS Naturals

CONSTANTS Jobs,      \* ids of the jobs ever enqueued
          Full       \* the progress of a finished job (100 in the code)

VARIABLES status,    \* status[j]: the status column, "absent" before INSERT, "gone" after DELETE
          progress   \* progress[j]: the progress column

lifecycleVars == <<status, progress>>

Ended == {"succeeded", "failed", "canceled"}
Statuses == {"absent", "queued", "running", "gone"} \union Ended

Init ==
    /\ status = [j \in Jobs |-> "absent"]
    /\ progress = [j \in Jobs |-> 0]

Create(j) ==
    /\ status[j] = "absent"
    /\ status' = [status EXCEPT ![j] = "queued"]
    /\ UNCHANGED progress

Begin(j) ==
    /\ status[j] = "queued"
    /\ status' = [status EXCEPT ![j] = "running"]
    /\ UNCHANGED progress

Advance(j) ==
    /\ status[j] = "running"
    /\ \E p \in 0..Full : progress' = [progress EXCEPT ![j] = p]
    /\ UNCHANGED status

Succeed(j) ==
    /\ status[j] = "running"
    /\ status' = [status EXCEPT ![j] = "succeeded"]
    /\ progress' = [progress EXCEPT ![j] = Full]

Fail(j) ==
    /\ status[j] = "running"
    /\ status' = [status EXCEPT ![j] = "failed"]
    /\ UNCHANGED progress

Abandon(j) ==
    /\ status[j] \in {"queued", "running"}
    /\ status' = [status EXCEPT ![j] = "canceled"]
    /\ UNCHANGED progress

\* A restart fails every row that was running, all at once.
Interrupt ==
    /\ status' = [j \in Jobs |-> IF status[j] = "running" THEN "failed" ELSE status[j]]
    /\ UNCHANGED progress

Drop(j) ==
    /\ status[j] # "absent"
    /\ status' = [status EXCEPT ![j] = "gone"]
    /\ progress' = [progress EXCEPT ![j] = 0]

Next ==
    \/ Interrupt
    \/ \E j \in Jobs : \/ Create(j) \/ Begin(j) \/ Advance(j) \/ Succeed(j)
                       \/ Fail(j) \/ Abandon(j) \/ Drop(j)

Spec == Init /\ [][Next]_lifecycleVars
=============================================================================

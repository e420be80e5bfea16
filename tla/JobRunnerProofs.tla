-------------------------- MODULE JobRunnerProofs --------------------------
(***************************************************************************)
(* Proofs about JobRunner, for any numbers of jobs, workers and crashes:   *)
(* its invariants, NoStartAfterEnd, and that it implements JobLifecycle.   *)
(***************************************************************************)
EXTENDS JobRunner, TLAPS

\* A row in a worker's hands has left the queue for good.
HeldHasLeftQueue ==
    \A w \in Workers : job[w] \in Jobs => status[job[w]] \notin {"absent", "queued"}

\* After the process has gone down nothing of it is left.
DownIsEmpty ==
    mode = "down" => /\ \A w \in Workers : job[w] = NoJob /\ pc[w] = "off"
                     /\ cancelling = {} /\ canceled = {}

\* Somebody asked to cancel j: the UPDATE is still to come, has failed, or was made
\* (or found the row ended).
CanceledMeaning ==
    \A j \in canceled :
        /\ status[j] # "absent"
        /\ status[j] \in {"queued", "running"} => j \in cancelling \/ j \in lost

\* While a Cancel call is in flight its mark is there for every worker that may still
\* start the handler, and the handler that runs has been told.
CancellingMeaning ==
    \A j \in cancelling :
        /\ status[j] # "absent"
        /\ status[j] = "queued" => j \in canceled
        /\ \A w \in Workers :
              job[w] = j => /\ pc[w] = "claimed" => j \in canceled
                            /\ pc[w] = "run" => j \in ctxDone

\* The row of a claimed job runs, unless its project went or a cancel came first.
ClaimedMeaning ==
    \A w \in Workers :
        pc[w] = "claimed" =>
            \/ status[job[w]] \in {"running", "gone"}
            \/ status[job[w]] = "canceled" /\ job[w] \in canceled

\* A running handler can be reached by Cancel, and one whose row was canceled was reached.
RunMeaning ==
    \A w \in Workers :
        pc[w] = "run" => /\ job[w] \in cancels
                         /\ status[job[w]] = "canceled" => job[w] \in ctxDone

\* After finish the row is not running, unless the UPDATE failed.
ClosingMeaning ==
    \A w \in Workers :
        pc[w] = "closing" => status[job[w]] # "running" \/ job[w] \in lost

Ownership == OneWorkerPerJob /\ HeldHasLeftQueue /\ DownIsEmpty
Cancellation == CanceledMeaning /\ CancellingMeaning
PhaseMeaning == ClaimedMeaning /\ RunMeaning /\ ClosingMeaning

IInv == TypeOK /\ Ownership /\ Cancellation /\ PhaseMeaning /\ RunningIsAccounted

----------------------------------------------------------------------------
\* The initial state satisfies the inductive invariant.
LEMMA InitInv == Init => IInv
<1> SUFFICES ASSUME Init PROVE IInv
  OBVIOUS
<1> USE NoJobAssumption, FullAssumption DEF Init
<1>1. TypeOK
  <2>1. \A w \in Workers : (job[w] \in Jobs) <=> (pc[w] \in Holding)
    BY DEF Holding, Registered, InHandler
  <2>2. /\ status \in [Jobs -> Statuses] /\ progress \in [Jobs -> 0..Full]
        /\ createdAt \in [Jobs -> Nat]
    BY DEF Statuses
  <2>3. pc \in [Workers -> Phases] /\ job \in [Workers -> Jobs \union {NoJob}]
    BY DEF Phases
  <2> QED
    BY <2>1, <2>2, <2>3 DEF TypeOK
<1>2. Ownership
  BY DEF Ownership, OneWorkerPerJob, HeldHasLeftQueue, DownIsEmpty
<1>3. Cancellation
  BY DEF Cancellation, CanceledMeaning, CancellingMeaning
<1>4. PhaseMeaning
  BY DEF PhaseMeaning, ClaimedMeaning, RunMeaning, ClosingMeaning
<1>5. RunningIsAccounted
  BY DEF RunningIsAccounted
<1> QED
  BY <1>1, <1>2, <1>3, <1>4, <1>5 DEF IInv

\* The variables keep their types. A worker that boots holds no job only because going
\* down took every job away, so the type invariant alone is not inductive.
LEMMA TypeStep ==
  ASSUME TypeOK, DownIsEmpty, [Next]_vars
  PROVE  TypeOK'
<1> USE NoJobAssumption, FullAssumption
    DEF TypeOK, vars, table, runner, process,
        Statuses, Ended, Phases, Holding, Registered, InHandler
<1>1. ASSUME NEW j \in Jobs, Enqueue(j) PROVE TypeOK'
  BY <1>1 DEF Enqueue
<1>2. ASSUME NEW j \in Jobs, CancelMark(j) PROVE TypeOK'
  BY <1>2 DEF CancelMark
<1>3. ASSUME NEW j \in Jobs, CancelUpdate(j) PROVE TypeOK'
  BY <1>3 DEF CancelUpdate
<1>4. ASSUME NEW j \in Jobs, CancelFail(j) PROVE TypeOK'
  BY <1>4 DEF CancelFail
<1>5. ASSUME NEW j \in Jobs, Purge(j) PROVE TypeOK'
  BY <1>5 DEF Purge
<1>6. ASSUME NEW w \in Workers, Claim(w) PROVE TypeOK'
  BY <1>6 DEF Claim, Oldest
<1>7. ASSUME NEW w \in Workers, ClaimNone(w) PROVE TypeOK'
  BY <1>7 DEF ClaimNone
<1>8. ASSUME NEW w \in Workers, WakeUp(w) PROVE TypeOK'
  BY <1>8 DEF WakeUp
<1>9. ASSUME NEW w \in Workers, Timer(w) PROVE TypeOK'
  BY <1>9 DEF Timer
<1>10. ASSUME NEW w \in Workers, Retire(w) PROVE TypeOK'
  BY <1>10 DEF Retire
<1>11. ASSUME NEW w \in Workers, Start(w) PROVE TypeOK'
  BY <1>11 DEF Start
<1>12. ASSUME NEW w \in Workers, Skip(w) PROVE TypeOK'
  BY <1>12 DEF Skip
<1>13. ASSUME NEW w \in Workers, Finish(w) PROVE TypeOK'
  BY <1>13 DEF Finish
<1>14. ASSUME NEW w \in Workers, FinishFail(w) PROVE TypeOK'
  BY <1>14 DEF FinishFail
<1>15. ASSUME NEW w \in Workers, Cleanup(w) PROVE TypeOK'
  BY <1>15 DEF Cleanup
<1>16. ASSUME NEW w \in Workers, NEW p \in -1..(Full + 1), Report(w, p) PROVE TypeOK'
  BY <1>16 DEF Report, Clamp
<1>17. ASSUME NEW w \in Workers, NEW o \in {"succeeding", "failing"}, Return(w, o)
      PROVE TypeOK'
  BY <1>17 DEF Return
<1>18. ASSUME Shutdown PROVE TypeOK'
  BY <1>18 DEF Shutdown
<1>19. ASSUME Exit PROVE TypeOK'
  <2>1. job' \in [Workers -> Jobs \union {NoJob}] /\ pc' \in [Workers -> Phases]
    BY <1>19 DEF Exit
  <2>2. \A w \in Workers : (job'[w] \in Jobs) <=> (pc'[w] \in Holding)
    BY <1>19 DEF Exit
  <2>3. crashes' \in Nat /\ mode' \in {"up", "stopping", "down"}
    BY <1>19 DEF Exit
  <2> QED
    BY <1>19, <2>1, <2>2, <2>3 DEF Exit
<1>20. ASSUME Boot PROVE TypeOK'
  BY <1>20 DEF Boot, DownIsEmpty
<1>21. CASE UNCHANGED vars
  BY <1>21
<1> QED
  BY <1>1, <1>2, <1>3, <1>4, <1>5, <1>6, <1>7, <1>8, <1>9, <1>10, <1>11, <1>12, <1>13,
     <1>14, <1>15, <1>16, <1>17, <1>18, <1>19, <1>20, <1>21
     DEF Next, Requests, Machinery, Handler

----------------------------------------------------------------------------
\* Every step keeps the inductive invariant. Steps whose effect on the parts is the
\* point of the proof say which part needs what; the others are one leaf.
LEMMA InvStep ==
  ASSUME IInv, [Next]_vars
  PROVE  IInv'
<1> DEFINE Parts == Ownership /\ Cancellation /\ PhaseMeaning /\ RunningIsAccounted
<1>0. TypeOK /\ TypeOK' /\ Parts
  BY TypeStep DEF IInv, Ownership
<1>a. Ownership /\ Cancellation /\ PhaseMeaning /\ RunningIsAccounted
  BY <1>0
<1> HIDE DEF Parts
<1> USE NoJobAssumption, <1>0, <1>a
    DEF vars, table, runner, process, Statuses, Ended, Phases, Holding, Registered, InHandler,
        TypeOK, Ownership, OneWorkerPerJob, HeldHasLeftQueue, DownIsEmpty,
        Cancellation, CanceledMeaning, CancellingMeaning,
        PhaseMeaning, ClaimedMeaning, RunMeaning, ClosingMeaning, RunningIsAccounted
<1>1. ASSUME NEW j \in Jobs, Enqueue(j) PROVE Parts'
  BY <1>1 DEF Parts, Enqueue
<1>2. ASSUME NEW j \in Jobs, CancelMark(j) PROVE Parts'
  BY <1>2 DEF Parts, CancelMark
<1>3. ASSUME NEW j \in Jobs, CancelUpdate(j) PROVE Parts'
  <2>1. Ownership'
    BY <1>3 DEF CancelUpdate
  <2>2. Cancellation'
    BY <1>3 DEF CancelUpdate
  <2>3. PhaseMeaning'
    \* a handler whose row becomes canceled was told
    BY <1>3 DEF CancelUpdate
  <2>4. RunningIsAccounted'
    BY <1>3 DEF CancelUpdate
  <2> QED
    BY <2>1, <2>2, <2>3, <2>4 DEF Parts
<1>4. ASSUME NEW j \in Jobs, CancelFail(j) PROVE Parts'
  BY <1>4 DEF Parts, CancelFail
<1>5. ASSUME NEW j \in Jobs, Purge(j) PROVE Parts'
  BY <1>5 DEF Parts, Purge
<1>6. ASSUME NEW w \in Workers, Claim(w) PROVE Parts'
  <2>1. Ownership'
    \* the claimed row was queued, so nobody held it
    BY <1>6 DEF Claim, Oldest
  <2>2. Cancellation'
    BY <1>6 DEF Claim, Oldest
  <2>3. PhaseMeaning'
    BY <1>6 DEF Claim, Oldest
  <2>4. RunningIsAccounted'
    BY <1>6 DEF Claim, Oldest
  <2> QED
    BY <2>1, <2>2, <2>3, <2>4 DEF Parts
<1>7. ASSUME NEW w \in Workers, ClaimNone(w) PROVE Parts'
  BY <1>7 DEF Parts, ClaimNone
<1>8. ASSUME NEW w \in Workers, WakeUp(w) PROVE Parts'
  BY <1>8 DEF Parts, WakeUp
<1>9. ASSUME NEW w \in Workers, Timer(w) PROVE Parts'
  BY <1>9 DEF Parts, Timer
<1>10. ASSUME NEW w \in Workers, Retire(w) PROVE Parts'
  BY <1>10 DEF Parts, Retire
<1>11. ASSUME NEW w \in Workers, Start(w) PROVE Parts'
  <2>1. Ownership'
    BY <1>11 DEF Start
  <2>2. Cancellation'
    \* a call in flight left its mark, so the job is not started
    BY <1>11 DEF Start
  <2>3. PhaseMeaning'
    BY <1>11 DEF Start
  <2>4. RunningIsAccounted'
    BY <1>11 DEF Start
  <2> QED
    BY <2>1, <2>2, <2>3, <2>4 DEF Parts
<1>12. ASSUME NEW w \in Workers, Skip(w) PROVE Parts'
  <2>1. Ownership'
    BY <1>12 DEF Skip
  <2>2. Cancellation'
    BY <1>12 DEF Skip
  <2>3. PhaseMeaning'
    BY <1>12 DEF Skip
  <2>4. RunningIsAccounted'
    \* a marked job still running has its UPDATE to come, or lost it
    BY <1>12 DEF Skip
  <2> QED
    BY <2>1, <2>2, <2>3, <2>4 DEF Parts
<1>13. ASSUME NEW w \in Workers, Finish(w) PROVE Parts'
  BY <1>13 DEF Parts, Finish
<1>14. ASSUME NEW w \in Workers, FinishFail(w) PROVE Parts'
  BY <1>14 DEF Parts, FinishFail
<1>15. ASSUME NEW w \in Workers, Cleanup(w) PROVE Parts'
  <2>1. Ownership'
    BY <1>15 DEF Cleanup
  <2>2. Cancellation'
    \* no other worker holds the job whose mark goes
    BY <1>15 DEF Cleanup
  <2>3. PhaseMeaning'
    BY <1>15 DEF Cleanup
  <2>4. RunningIsAccounted'
    \* finish has run
    BY <1>15 DEF Cleanup
  <2> QED
    BY <2>1, <2>2, <2>3, <2>4 DEF Parts
<1>16. ASSUME NEW w \in Workers, NEW p \in -1..(Full + 1), Report(w, p) PROVE Parts'
  BY <1>16 DEF Parts, Report
<1>17. ASSUME NEW w \in Workers, NEW o \in {"succeeding", "failing"}, Return(w, o)
      PROVE Parts'
  BY <1>17 DEF Parts, Return
<1>18. ASSUME Shutdown PROVE Parts'
  BY <1>18 DEF Parts, Shutdown
<1>19. ASSUME Exit PROVE Parts'
  <2>1. Ownership'
    BY <1>19 DEF Exit
  <2>2. Cancellation'
    BY <1>19 DEF Exit
  <2>3. PhaseMeaning'
    BY <1>19 DEF Exit
  <2>4. RunningIsAccounted'
    BY <1>19 DEF Exit
  <2> QED
    BY <2>1, <2>2, <2>3, <2>4 DEF Parts
<1>20. ASSUME Boot PROVE Parts'
  <2>1. Ownership'
    \* no worker holds a job yet
    BY <1>20 DEF Boot
  <2>2. Cancellation'
    BY <1>20 DEF Boot
  <2>3. PhaseMeaning'
    BY <1>20 DEF Boot
  <2>4. RunningIsAccounted'
    \* every running row was failed
    BY <1>20 DEF Boot
  <2> QED
    BY <2>1, <2>2, <2>3, <2>4 DEF Parts
<1>21. ASSUME UNCHANGED vars PROVE Parts'
  BY <1>21 DEF Parts
<1> HIDE <1>0, <1>a
    DEF vars, table, runner, process, Statuses, Ended, Phases, Holding, Registered, InHandler,
        TypeOK, Ownership, OneWorkerPerJob, HeldHasLeftQueue, DownIsEmpty,
        Cancellation, CanceledMeaning, CancellingMeaning,
        PhaseMeaning, ClaimedMeaning, RunMeaning, ClosingMeaning, RunningIsAccounted
<1>22. Parts'
  BY <1>1, <1>2, <1>3, <1>4, <1>5, <1>6, <1>7, <1>8, <1>9, <1>10, <1>11, <1>12, <1>13,
     <1>14, <1>15, <1>16, <1>17, <1>18, <1>19, <1>20, <1>21
     DEF Next, Requests, Machinery, Handler
<1> QED
  BY <1>0, <1>22 DEF IInv, Parts

\* Type correctness, for every number of jobs, workers and crashes.
THEOREM TypeCorrect == Spec => []TypeOK
<1>1. Init => IInv
  BY InitInv
<1>2. IInv /\ [Next]_vars => IInv'
  BY InvStep
<1>3. IInv => TypeOK
  BY DEF IInv
<1> QED
  BY <1>1, <1>2, <1>3, PTL DEF Spec

\* The inductive invariant holds in every reachable state.
LEMMA Invariance == Spec => []IInv
<1>1. Init => IInv
  BY InitInv
<1>2. IInv /\ [Next]_vars => IInv'
  BY InvStep
<1> QED
  BY <1>1, <1>2, PTL DEF Spec

\* No job is ever in the hands of two workers.
THEOREM Exclusion == Spec => []OneWorkerPerJob
<1>1. IInv => OneWorkerPerJob
  BY DEF IInv, Ownership
<1> QED
  BY <1>1, Invariance, PTL

\* A running row always has someone who will close it, unless a closing UPDATE failed.
THEOREM Accounting == Spec => []RunningIsAccounted
<1>1. IInv => RunningIsAccounted
  BY DEF IInv
<1> QED
  BY <1>1, Invariance, PTL

\* A handler whose row a user has canceled has a canceled context.
THEOREM Signalling == Spec => []CanceledIsSignalled
<1>1. IInv => CanceledIsSignalled
  BY DEF IInv, PhaseMeaning, RunMeaning, CanceledIsSignalled
<1> QED
  BY <1>1, Invariance, PTL

\* The handler of a job whose row has ended is never started: Start finds the job in
\* canceled if a cancel came between claim and execute.
THEOREM NoLateStart == Spec => NoStartAfterEnd
<1> DEFINE Late == \A w \in Workers :
                      pc[w] # "run" /\ pc'[w] = "run" => status[job[w]] \notin Ended
<1>1. IInv /\ [Next]_vars => [Late]_vars
  <2> SUFFICES ASSUME IInv, Next, NEW v \in Workers, pc[v] # "run", pc'[v] = "run"
               PROVE  status[job[v]] \notin Ended
    BY DEF vars
  <2>1. pc \in [Workers -> Phases]
    BY DEF IInv, TypeOK
  <2>2. ASSUME NEW w \in Workers, Start(w) PROVE status[job[v]] \notin Ended
    <3>1. v = w
      BY <2>1, <2>2 DEF Start
    <3> QED
      BY <2>2, <3>1 DEF Start, IInv, PhaseMeaning, ClaimedMeaning, Ended
  <2>3. ~Requests
    BY DEF Requests, Enqueue, Purge, CancelMark, CancelUpdate, CancelFail
  <2>4. ASSUME NEW w \in Workers PROVE ~Handler(w)
    BY <2>1 DEF Handler, Report, Return
  <2>5. ~(Shutdown \/ Exit \/ Boot)
    BY DEF Shutdown, Exit, Boot
  <2>6. ASSUME NEW w \in Workers
        PROVE  ~(\/ Claim(w) \/ ClaimNone(w) \/ WakeUp(w) \/ Timer(w) \/ Retire(w)
                 \/ Skip(w) \/ Finish(w) \/ FinishFail(w) \/ Cleanup(w))
    BY <2>1 DEF Claim, ClaimNone, WakeUp, Timer, Retire, Skip, Finish, FinishFail, Cleanup
  <2> QED
    BY <2>2, <2>3, <2>4, <2>5, <2>6 DEF Next, Machinery
<1> QED
  BY <1>1, Invariance, PTL DEF Spec, NoStartAfterEnd

----------------------------------------------------------------------------
\* Every step of the runner is a step of the life cycle of one row, a restart's
\* interruption of all of them, or nothing a reader of the table sees.
LEMMA RefinementStep ==
  ASSUME IInv, [Next]_vars
  PROVE  [Lifecycle!Next]_(Lifecycle!lifecycleVars)
<1> USE NoJobAssumption, FullAssumption
    DEF Lifecycle!Next, Lifecycle!lifecycleVars
<1>0. /\ status \in [Jobs -> Statuses] /\ progress \in [Jobs -> 0..Full]
      /\ cancelling \subseteq Jobs
      /\ \A w \in Workers : pc[w] \in Holding => job[w] \in Jobs
  BY DEF IInv, TypeOK
<1>1. ASSUME NEW j \in Jobs, Enqueue(j) PROVE Lifecycle!Create(j)
  BY <1>1 DEF Enqueue, Lifecycle!Create
<1>2. ASSUME NEW j \in Jobs, Purge(j) PROVE Lifecycle!Drop(j)
  BY <1>2 DEF Purge, Lifecycle!Drop
<1>3. ASSUME NEW j \in Jobs, CancelUpdate(j)
      PROVE  Lifecycle!Abandon(j) \/ UNCHANGED <<status, progress>>
  BY <1>3 DEF CancelUpdate, Lifecycle!Abandon
<1>4. ASSUME NEW w \in Workers, Claim(w) PROVE \E j \in Jobs : Lifecycle!Begin(j)
  BY <1>4 DEF Claim, Oldest, Lifecycle!Begin
<1>5. ASSUME NEW w \in Workers, NEW p \in -1..(Full + 1), Report(w, p)
      PROVE  Lifecycle!Advance(job[w]) \/ UNCHANGED <<status, progress>>
  <2>1. Clamp(p) \in 0..Full
    BY DEF Clamp
  <2> QED
    BY <1>0, <1>5, <2>1 DEF Report, Lifecycle!Advance
<1>6. ASSUME NEW w \in Workers, Finish(w)
      PROVE  Lifecycle!Succeed(job[w]) \/ Lifecycle!Fail(job[w]) \/ UNCHANGED <<status, progress>>
  BY <1>6 DEF Finish, Lifecycle!Succeed, Lifecycle!Fail
<1>7. ASSUME Boot PROVE Lifecycle!Interrupt
  BY <1>7 DEF Boot, Lifecycle!Interrupt
<1>8. ASSUME NEW w \in Workers,
             \/ ClaimNone(w) \/ WakeUp(w) \/ Timer(w) \/ Retire(w)
             \/ Start(w) \/ Skip(w) \/ FinishFail(w) \/ Cleanup(w)
             \/ \E o \in {"succeeding", "failing"} : Return(w, o)
      PROVE  UNCHANGED <<status, progress>>
  BY <1>8 DEF ClaimNone, WakeUp, Timer, Retire, Start, Skip, FinishFail, Cleanup, Return, table
<1>9. ASSUME NEW j \in Jobs, CancelMark(j) \/ CancelFail(j) PROVE UNCHANGED <<status, progress>>
  BY <1>9 DEF CancelMark, CancelFail, table
<1>10. ASSUME Shutdown \/ Exit PROVE UNCHANGED <<status, progress>>
  BY <1>10 DEF Shutdown, Exit, table
<1>11. CASE UNCHANGED vars
  BY <1>11 DEF vars, table
<1>12. ASSUME NEW w \in Workers, pc[w] \in {"run", "succeeding", "failing"} PROVE job[w] \in Jobs
  BY <1>0, <1>12 DEF Holding, Registered, InHandler
<1>13. ASSUME NEW w \in Workers, Handler(w)
       PROVE  (\E j \in Jobs : Lifecycle!Advance(j)) \/ UNCHANGED <<status, progress>>
  <2>1. job[w] \in Jobs
    BY <1>12, <1>13 DEF Handler, Report, Return, InHandler
  <2> QED
    BY <1>5, <1>8, <1>13, <2>1 DEF Handler
<1>14. ASSUME Requests
       PROVE  (\E j \in Jobs : \/ Lifecycle!Create(j) \/ Lifecycle!Drop(j) \/ Lifecycle!Abandon(j))
              \/ UNCHANGED <<status, progress>>
  BY <1>1, <1>2, <1>3, <1>9, <1>14 DEF Requests
<1>15. ASSUME NEW w \in Workers, Finish(w)
       PROVE  (\E j \in Jobs : Lifecycle!Succeed(j) \/ Lifecycle!Fail(j))
              \/ UNCHANGED <<status, progress>>
  <2>1. job[w] \in Jobs
    BY <1>12, <1>15 DEF Finish
  <2> QED
    BY <1>6, <1>15, <2>1
<1>16. ASSUME Machinery
       PROVE  \/ Lifecycle!Interrupt
              \/ \E j \in Jobs : Lifecycle!Begin(j) \/ Lifecycle!Succeed(j) \/ Lifecycle!Fail(j)
              \/ UNCHANGED <<status, progress>>
  BY <1>4, <1>7, <1>8, <1>10, <1>15, <1>16 DEF Machinery
<1> QED
  BY <1>11, <1>13, <1>14, <1>16 DEF Next

\* The job runner implements the life cycle it promises.
THEOREM Refinement == Spec => RefinesLifecycle
<1>1. Init => Lifecycle!Init
  BY DEF Init, Lifecycle!Init
<1>2. IInv /\ [Next]_vars => [Lifecycle!Next]_(Lifecycle!lifecycleVars)
  BY RefinementStep
<1> QED
  BY <1>1, <1>2, Invariance, PTL DEF Spec, RefinesLifecycle, Lifecycle!Spec
=============================================================================

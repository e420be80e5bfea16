------------------------ MODULE WritePipelineProofs ------------------------
(***************************************************************************)
(* Proofs about WritePipeline, for any numbers of write jobs, chapters,    *)
(* edits and restarts.                                                     *)
(***************************************************************************)
EXTENDS WritePipeline, TLAPS

PatchRows == [chapter : Chapters \union {NoChapter}, loaded : ChapterRows]

Shape ==
    /\ status \in [Jobs -> Row!Statuses]
    /\ target \in [Jobs -> Chapters \union {NoChapter}]
    /\ post \in [Jobs -> Posting]
    /\ step \in [Jobs -> Steps]
    /\ canceled \subseteq Jobs /\ persisted \subseteq Jobs
    /\ row \in [Chapters -> ChapterRows]
    /\ patch \in [Editors -> PatchRows]
    /\ disturbed \subseteq Chapters

\* A job row exists only once its POST is over; its chapter was named before that.
PostMeaning ==
    \A j \in Jobs :
        /\ post[j] # "idle" => target[j] \in Chapters
        /\ post[j] # "over" => status[j] = "absent"

\* A handler runs for a running row, or for one that was canceled under it; then its
\* context is canceled. A job that has no row has not been canceled.
HandlerMeaning ==
    \A j \in Jobs :
        /\ step[j] # "none" => status[j] = "running" \/ (status[j] = "canceled" /\ j \in canceled)
        /\ status[j] = "absent" => j \notin canceled

\* A PATCH in flight names a chapter.
PatchMeaning == \A e \in Editors : patch[e] # NoPatch => patch[e].chapter \in Chapters

\* WriteInProgress, without the writes that a cancel has doomed: they may be skipped or
\* end without touching the chapter.
Undoomed(j, c) ==
    /\ target[j] = c
    /\ \/ post[j] = "marked"
       \/ /\ j \notin canceled
          /\ status[j] = "queued" \/ step[j] \in InFlight \union {"claimed", "mark"}

WritingIsUndoomed ==
    \A c \in Chapters :
        row[c].exists /\ row[c].status = "writing" /\ c \notin disturbed =>
            \E j \in Jobs : Undoomed(j, c)

\* A handler past its UPDATE has written, unless the chapter was gone.
PastPersist ==
    \A j \in Jobs :
        step[j] \in {"sync", "ok"} => j \in persisted \/ ~row[target[j]].exists

Meaning == PostMeaning /\ HandlerMeaning /\ PatchMeaning

IInv == Shape /\ Meaning /\ WritingIsUndoomed /\ PastPersist /\ SucceededMeansPersisted

----------------------------------------------------------------------------
\* UPDATE chapters SET status: what it changes of the rows.
LEMMA SetStatusRow ==
  ASSUME row \in [Chapters -> ChapterRows], NEW c \in Chapters, NEW s \in RowStates
  PROVE  /\ SetStatus(c, s) \in [Chapters -> ChapterRows]
         /\ \A d \in Chapters :
               /\ SetStatus(c, s)[d].exists = row[d].exists
               /\ d # c => SetStatus(c, s)[d] = row[d]
         /\ row[c].exists => SetStatus(c, s)[c].status = s
BY DEF SetStatus, ChapterRows

\* A PATCH writes the status it loaded, or "written".
LEMMA PatchedRow ==
  ASSUME NEW old \in ChapterRows, NEW card \in BOOLEAN,
         NEW text \in Texts \union {Keep}
  PROVE  /\ Patched(old, text, card) \in ChapterRows
         /\ Patched(old, text, card).status = "writing" => old.status = "writing"
<1> DEFINE body == IF text = Keep THEN old.body ELSE text
           written == text \notin {Keep, NoText} /\ old.status # "writing"
           new == [old EXCEPT !.body = body, !.card = card,
                              !.status = IF written THEN "written" ELSE @]
<1>1. Patched(old, text, card) = new
  BY DEF Patched
<1>2. body \in Texts
  BY DEF ChapterRows, Texts
<1> HIDE DEF body, written
<1>3. new \in ChapterRows /\ (new.status = "writing" => old.status = "writing")
  BY <1>2 DEF ChapterRows, RowStates
<1> QED
  BY <1>1, <1>3

LEMMA InitInv == Init => IInv
<1> SUFFICES ASSUME Init PROVE IInv
  OBVIOUS
<1>1. NoPatch \in PatchRows
  BY DEF NoPatch, PatchRows, ChapterRows, RowStates, Texts
<1>2. Shape
  BY <1>1 DEF Init, Shape, Row!Init, Row!Statuses, Row!Ended, Posting, Steps, ChapterRows,
              RowStates, Texts
<1>3. Meaning
  BY DEF Init, Row!Init, Meaning, PostMeaning, HandlerMeaning, PatchMeaning
<1>4. WritingIsUndoomed /\ PastPersist /\ SucceededMeansPersisted
  BY DEF Init, Row!Init, WritingIsUndoomed, PastPersist, SucceededMeansPersisted
<1> QED
  BY <1>2, <1>3, <1>4 DEF IInv

----------------------------------------------------------------------------
LEMMA ShapeStep ==
  ASSUME Shape, Meaning, [Next]_vars
  PROVE  Shape'
<1> USE DEF Shape, jobRows, handlers, vars, Row!Statuses, Row!Ended, Posting, Steps, InFlight
<1>0. \A j \in Jobs : status[j] # "absent" \/ post[j] # "idle" \/ step[j] # "none"
                         => target[j] \in Chapters
  BY DEF Meaning, PostMeaning, HandlerMeaning
<1>1. ASSUME NEW j \in Jobs, NEW c \in Chapters, CheckWrite(j, c) PROVE Shape'
  BY <1>1 DEF CheckWrite
<1>2. ASSUME NEW j \in Jobs, MarkWriting(j) PROVE Shape'
  BY <1>0, <1>2, SetStatusRow DEF MarkWriting, RowStates
<1>3. ASSUME NEW j \in Jobs, EnqueueWrite(j) PROVE Shape'
  BY <1>3 DEF EnqueueWrite, Row!Create
<1>4. ASSUME NEW j \in Jobs, EnqueueFail(j) PROVE Shape'
  BY <1>0, <1>4 DEF EnqueueFail
<1>5. ASSUME NEW j \in Jobs, BeginWrite(j) PROVE Shape'
  BY <1>5 DEF BeginWrite, Row!Begin
<1>6. ASSUME NEW j \in Jobs, StartWrite(j) \/ SkipWrite(j) \/ Load(j) \/ Generate(j) \/ RunError(j)
                             \/ SyncBible(j)
      PROVE  Shape'
  BY <1>6 DEF StartWrite, SkipWrite, Load, Generate, RunError, SyncBible
<1>7. ASSUME NEW j \in Jobs, Persist(j) PROVE Shape'
  <2>1. [exists |-> TRUE, status |-> "written", body |-> j, card |-> TRUE] \in ChapterRows
    BY DEF ChapterRows, RowStates, Texts
  <2> QED
    BY <1>7, <2>1 DEF Persist
<1>8. ASSUME NEW j \in Jobs, MarkFailed(j) PROVE Shape'
  BY <1>0, <1>8, SetStatusRow DEF MarkFailed, RowStates
<1>9. ASSUME NEW j \in Jobs, MarkFailedFails(j) PROVE Shape'
  BY <1>0, <1>9 DEF MarkFailedFails
<1>10. ASSUME NEW j \in Jobs, FinishWrite(j) PROVE Shape'
  BY <1>10 DEF FinishWrite, Row!Succeed, Row!Fail
<1>11. ASSUME NEW j \in Jobs, CancelSignal(j) PROVE Shape'
  BY <1>0, <1>11 DEF CancelSignal
<1>12. ASSUME NEW j \in Jobs, CancelWrite(j) PROVE Shape'
  BY <1>0, <1>12 DEF CancelWrite, Row!Abandon
<1>13. ASSUME NEW e \in Editors, NEW c \in Chapters, LoadPatch(e, c) PROVE Shape'
  <2>1. [chapter |-> c, loaded |-> row[c]] \in PatchRows
    BY DEF PatchRows
  <2> QED
    BY <1>13, <2>1 DEF LoadPatch
<1>14. ASSUME NEW e \in Editors, NEW card \in BOOLEAN,
              NEW text \in Texts \union {Keep},
              SavePatch(e, text, card)
       PROVE  Shape'
  <2>1. patch[e].loaded \in ChapterRows /\ patch[e].chapter \in Chapters
    BY <1>14 DEF SavePatch, PatchRows, Meaning, PatchMeaning
  <2>2. Patched(patch[e].loaded, text, card) \in ChapterRows
    BY <2>1, PatchedRow
  <2>3. NoPatch \in PatchRows
    BY DEF NoPatch, PatchRows, ChapterRows, RowStates, Texts
  <2> QED
    BY <1>14, <2>1, <2>2, <2>3 DEF SavePatch
<1>15. ASSUME NEW c \in Chapters, DeleteChapter(c) PROVE Shape'
  <2>1. [exists |-> FALSE, status |-> "draft", body |-> NoText, card |-> FALSE] \in ChapterRows
    BY DEF ChapterRows, RowStates, Texts
  <2> QED
    BY <1>15, <2>1 DEF DeleteChapter
<1>16. ASSUME Restart PROVE Shape'
  <2>1. NoPatch \in PatchRows
    BY DEF NoPatch, PatchRows, ChapterRows, RowStates, Texts
  <2>2. disturbed' \subseteq Chapters
    BY <1>0, <1>16 DEF Restart
  <2> QED
    BY <1>16, <2>1, <2>2 DEF Restart, Row!Interrupt
<1>17. CASE UNCHANGED vars
  BY <1>17
<1> QED
  BY <1>1, <1>2, <1>3, <1>4, <1>5, <1>6, <1>7, <1>8, <1>9, <1>10, <1>11, <1>12, <1>13, <1>14,
     <1>15, <1>16, <1>17 DEF Next, Post, Enqueued, Handle, Cancels, Edits

LEMMA MeaningStep ==
  ASSUME Shape, Meaning, [Next]_vars
  PROVE  Meaning'
<1> USE DEF Shape, jobRows, handlers, vars, Row!Statuses, Row!Ended, Posting, Steps, InFlight,
            Meaning, PostMeaning, HandlerMeaning
<1>1. PostMeaning' /\ HandlerMeaning'
  <2> DEFINE Goal == PostMeaning' /\ HandlerMeaning'
  <2>1. ASSUME NEW j \in Jobs, NEW c \in Chapters, CheckWrite(j, c) PROVE Goal
    BY <2>1 DEF CheckWrite
  <2>2. ASSUME NEW j \in Jobs, MarkWriting(j) \/ EnqueueFail(j) PROVE Goal
    BY <2>2 DEF MarkWriting, EnqueueFail
  <2>3. ASSUME NEW j \in Jobs, EnqueueWrite(j) PROVE Goal
    BY <2>3 DEF EnqueueWrite, Row!Create
  <2>4. ASSUME NEW j \in Jobs, BeginWrite(j) PROVE Goal
    BY <2>4 DEF BeginWrite, Row!Begin
  <2>5. ASSUME NEW j \in Jobs, StartWrite(j) \/ SkipWrite(j) \/ Load(j) \/ Generate(j)
                               \/ RunError(j) \/ SyncBible(j) \/ Persist(j)
                               \/ MarkFailed(j) \/ MarkFailedFails(j)
        PROVE  Goal
    BY <2>5 DEF StartWrite, SkipWrite, Load, Generate, RunError, SyncBible, Persist, MarkFailed,
                MarkFailedFails
  <2>6. ASSUME NEW j \in Jobs, FinishWrite(j) PROVE Goal
    BY <2>6 DEF FinishWrite, Row!Succeed, Row!Fail
  <2>7. ASSUME NEW j \in Jobs, CancelSignal(j) PROVE Goal
    BY <2>7 DEF CancelSignal
  <2>8. ASSUME NEW j \in Jobs, CancelWrite(j) PROVE Goal
    BY <2>8 DEF CancelWrite, Row!Abandon
  <2>9. ASSUME Restart PROVE Goal
    BY <2>9 DEF Restart, Row!Interrupt
  <2>10. ASSUME UNCHANGED <<jobRows, target, post, handlers>> PROVE Goal
    BY <2>10
  <2> HIDE DEF Goal
  <2>11. Goal
    BY <2>1, <2>2, <2>3, <2>4, <2>5, <2>6, <2>7, <2>8, <2>9, <2>10
       DEF Next, Post, Enqueued, Handle, Cancels, Edits, LoadPatch, SavePatch, DeleteChapter
  <2> QED
    BY <2>11 DEF Goal
<1>2. PatchMeaning'
  <2>1. ASSUME UNCHANGED patch PROVE PatchMeaning'
    BY <2>1 DEF PatchMeaning
  <2>2. ASSUME NEW e \in Editors, NEW c \in Chapters, LoadPatch(e, c) PROVE PatchMeaning'
    BY <2>2 DEF LoadPatch, PatchMeaning
  <2>3. ASSUME NEW e \in Editors, patch' = [patch EXCEPT ![e] = NoPatch] PROVE PatchMeaning'
    BY <2>3 DEF PatchMeaning
  <2>4. ASSUME Restart PROVE PatchMeaning'
    BY <2>4 DEF Restart, PatchMeaning
  <2> QED
    BY <2>1, <2>2, <2>3, <2>4
       DEF Next, Post, Enqueued, Handle, Cancels, Edits, SavePatch, DeleteChapter,
           CheckWrite, MarkWriting, EnqueueFail, EnqueueWrite, BeginWrite, StartWrite, SkipWrite,
           Load, Generate, RunError, SyncBible, Persist, MarkFailed, MarkFailedFails,
           FinishWrite, CancelSignal, CancelWrite
<1> QED
  BY <1>1, <1>2

\* A chapter that a step leaves in "writing" was in "writing" before it, or the step is
\* MarkWriting, or it has disturbed the chapter.
LEMMA WritingBefore ==
  ASSUME Shape, Meaning, [Next]_vars, NEW c \in Chapters,
         row'[c].exists, row'[c].status = "writing", c \notin disturbed',
         ~ \E j \in Jobs : MarkWriting(j) /\ target[j] = c
  PROVE  row[c].exists /\ row[c].status = "writing" /\ c \notin disturbed
<1> USE DEF Shape, vars
<1>1. ASSUME NEW j \in Jobs, MarkWriting(j)
      PROVE  row'[c] = row[c] /\ c \notin disturbed
  <2>1. target[j] \in Chapters /\ target[j] # c
    BY <1>1 DEF MarkWriting, Meaning, PostMeaning
  <2> QED
    BY <1>1, <2>1, SetStatusRow DEF MarkWriting, RowStates
<1>2. ASSUME NEW j \in Jobs, MarkFailed(j)
      PROVE  row'[c] = row[c] /\ c \notin disturbed
  <2>1. target[j] \in Chapters
    BY <1>2 DEF MarkFailed, Meaning, PostMeaning, HandlerMeaning
  <2> QED
    BY <1>2, <2>1, SetStatusRow DEF MarkFailed, RowStates
<1>3. ASSUME NEW j \in Jobs, Persist(j)
      PROVE  row'[c] = row[c] /\ c \notin disturbed
  <2>1. target[j] \in Chapters
    BY <1>3 DEF Persist, Meaning, PostMeaning, HandlerMeaning
  <2> QED
    BY <1>3, <2>1 DEF Persist
<1>4. ASSUME NEW e \in Editors, NEW card \in BOOLEAN,
             NEW text \in Texts \union {Keep},
             SavePatch(e, text, card)
      PROVE  row[c].exists /\ row[c].status = "writing" /\ c \notin disturbed
  <2> DEFINE p == patch[e].chapter
             old == patch[e].loaded
             new == Patched(old, text, card)
  <2>1. old \in ChapterRows /\ p \in Chapters
    BY <1>4 DEF SavePatch, PatchRows, Meaning, PatchMeaning
  <2>2. new.status = "writing" => old.status = "writing"
    BY <2>1, PatchedRow
  <2>3. row' = IF row[p].exists THEN [row EXCEPT ![p] = new] ELSE row
    BY <1>4 DEF SavePatch
  <2>4. disturbed' = IF row[p].status # "writing" /\ old.status = "writing"
                     THEN disturbed \union {p} ELSE disturbed
    BY <1>4 DEF SavePatch
  <2> HIDE DEF p, old, new
  <2>5. CASE c = p /\ row[p].exists
    <3>1. row'[c] = new
      BY <2>1, <2>3, <2>5
    <3> QED
      BY <2>2, <2>4, <2>5, <3>1
  <2>6. CASE ~(c = p /\ row[p].exists)
    <3>1. row'[c] = row[c]
      BY <2>1, <2>3, <2>6
    <3> QED
      BY <2>4, <3>1
  <2> QED
    BY <2>5, <2>6
<1>5. ASSUME NEW d \in Chapters, DeleteChapter(d)
      PROVE  row'[c] = row[c] /\ c \notin disturbed
  BY <1>5 DEF DeleteChapter
<1>6. ASSUME row' = row, disturbed \subseteq disturbed'
      PROVE  row'[c] = row[c] /\ c \notin disturbed
  BY <1>6
<1> QED
  BY <1>1, <1>2, <1>3, <1>4, <1>5, <1>6
     DEF Next, Post, Enqueued, Handle, Cancels, Edits, LoadPatch, CheckWrite, EnqueueFail,
         EnqueueWrite, BeginWrite, StartWrite, SkipWrite, Load, Generate, RunError, SyncBible,
         MarkFailedFails, FinishWrite, CancelSignal, CancelWrite, Restart

\* A write in progress that no cancel has doomed stays one, or the step takes its chapter
\* out of "writing", or disturbs it.
LEMMA UndoomedStep ==
  ASSUME Shape, Meaning, [Next]_vars, NEW c \in Chapters, NEW k \in Jobs, Undoomed(k, c),
         row'[c].exists, row'[c].status = "writing", c \notin disturbed'
  PROVE  Undoomed(k, c)'
<1> USE DEF Shape, jobRows, handlers, vars, Row!Statuses, Row!Ended, Posting, Steps, InFlight,
            Meaning, PostMeaning, HandlerMeaning, Undoomed
<1>1. ASSUME NEW j \in Jobs, NEW d \in Chapters, CheckWrite(j, d) PROVE Undoomed(k, c)'
  BY <1>1 DEF CheckWrite
<1>2. ASSUME NEW j \in Jobs, MarkWriting(j) PROVE Undoomed(k, c)'
  BY <1>2 DEF MarkWriting
<1>3. ASSUME NEW j \in Jobs, EnqueueWrite(j) PROVE Undoomed(k, c)'
  BY <1>3 DEF EnqueueWrite, Row!Create
<1>4. ASSUME NEW j \in Jobs, EnqueueFail(j) PROVE Undoomed(k, c)'
  BY <1>4 DEF EnqueueFail
<1>5. ASSUME NEW j \in Jobs, BeginWrite(j) PROVE Undoomed(k, c)'
  BY <1>5 DEF BeginWrite, Row!Begin
<1>6. ASSUME NEW j \in Jobs, StartWrite(j) \/ SkipWrite(j) \/ Load(j) \/ Generate(j)
                             \/ RunError(j) \/ SyncBible(j) \/ MarkFailedFails(j)
      PROVE  Undoomed(k, c)'
  BY <1>6 DEF StartWrite, SkipWrite, Load, Generate, RunError, SyncBible, MarkFailedFails
<1>7. ASSUME NEW j \in Jobs, Persist(j) PROVE Undoomed(k, c)'
  <2>1. CASE j = k /\ row[c].exists
    <3>1. target[j] = c
      BY <2>1
    <3>2. row'[c].status = "written"
      BY <1>7, <2>1, <3>1 DEF Persist
    <3> QED
      BY <3>2
  <2>2. CASE j = k /\ ~row[c].exists
    BY <1>7, <2>2 DEF Persist
  <2>3. CASE j # k
    BY <1>7, <2>3 DEF Persist
  <2> QED
    BY <2>1, <2>2, <2>3
<1>8. ASSUME NEW j \in Jobs, MarkFailed(j) PROVE Undoomed(k, c)'
  <2>1. CASE j = k
    <3>1. target[j] = c /\ row' = SetStatus(c, "failed")
      BY <1>8, <2>1 DEF MarkFailed
    <3>2. row[c].exists
      BY <3>1, SetStatusRow DEF RowStates
    <3>3. row'[c].status = "failed"
      BY <3>1, <3>2, SetStatusRow DEF RowStates
    <3> QED
      BY <3>3
  <2>2. CASE j # k
    BY <1>8, <2>2 DEF MarkFailed
  <2> QED
    BY <2>1, <2>2
<1>9. ASSUME NEW j \in Jobs, FinishWrite(j) PROVE Undoomed(k, c)'
  BY <1>9 DEF FinishWrite, Row!Succeed, Row!Fail
<1>10. ASSUME NEW j \in Jobs, CancelSignal(j) PROVE Undoomed(k, c)'
  BY <1>10 DEF CancelSignal
<1>11. ASSUME NEW j \in Jobs, CancelWrite(j) PROVE Undoomed(k, c)'
  BY <1>11 DEF CancelWrite, Row!Abandon
<1>12. ASSUME Restart PROVE Undoomed(k, c)'
  <2>1. step[k] = "none" /\ post[k] # "marked"
    BY <1>12 DEF Restart
  <2>2. status[k] = "queued"
    BY <2>1
  <2> QED
    BY <1>12, <2>2 DEF Restart, Row!Interrupt
<1>13. ASSUME UNCHANGED <<jobRows, target, post, handlers>> PROVE Undoomed(k, c)'
  BY <1>13
<1> DEFINE Goal == Undoomed(k, c)'
<1>14. Goal
  <2> HIDE DEF Goal, Undoomed
  <2>0. Undoomed(k, c)' => Goal
    BY DEF Goal
  <2> QED
    BY <2>0, <1>1, <1>2, <1>3, <1>4, <1>5, <1>6, <1>7, <1>8, <1>9, <1>10, <1>11, <1>12, <1>13
       DEF Next, Post, Enqueued, Handle, Cancels, Edits, LoadPatch, SavePatch, DeleteChapter
<1> QED
  BY <1>14 DEF Goal

LEMMA UndoomedInvStep ==
  ASSUME Shape, Meaning, WritingIsUndoomed, [Next]_vars
  PROVE  WritingIsUndoomed'
<1> SUFFICES ASSUME NEW c \in Chapters, row'[c].exists, row'[c].status = "writing",
                    c \notin disturbed'
             PROVE  \E j \in Jobs : Undoomed(j, c)'
  BY DEF WritingIsUndoomed
<1>1. CASE \E j \in Jobs : MarkWriting(j) /\ target[j] = c
  <2>1. PICK j \in Jobs : MarkWriting(j) /\ target[j] = c
    BY <1>1
  <2>2. Undoomed(j, c)'
    BY <2>1 DEF MarkWriting, Undoomed, Shape
  <2> QED
    BY <2>2
<1>2. CASE ~ \E j \in Jobs : MarkWriting(j) /\ target[j] = c
  <2>1. row[c].exists /\ row[c].status = "writing" /\ c \notin disturbed
    BY <1>2, WritingBefore
  <2>2. PICK k \in Jobs : Undoomed(k, c)
    BY <2>1 DEF WritingIsUndoomed
  <2>3. Undoomed(k, c)'
    BY <2>2, UndoomedStep
  <2> QED
    BY <2>3
<1> QED
  BY <1>1, <1>2

----------------------------------------------------------------------------
\* A deleted chapter stays deleted: every statement that writes its row looks for it first.
LEMMA DeletedStep ==
  ASSUME Shape, Meaning, [Next]_vars, NEW c \in Chapters, ~row[c].exists
  PROVE  ~row'[c].exists
<1> USE DEF Shape, vars
<1>1. ASSUME NEW j \in Jobs, MarkWriting(j) \/ MarkFailed(j)
      PROVE  ~row'[c].exists
  <2>1. target[j] \in Chapters
    BY <1>1 DEF MarkWriting, MarkFailed, Meaning, PostMeaning, HandlerMeaning
  <2> QED
    BY <1>1, <2>1, SetStatusRow DEF MarkWriting, MarkFailed, RowStates
<1>2. ASSUME NEW j \in Jobs, Persist(j)
      PROVE  ~row'[c].exists
  BY <1>2 DEF Persist
<1>3. ASSUME NEW e \in Editors, NEW card \in BOOLEAN, NEW text, SavePatch(e, text, card)
      PROVE  ~row'[c].exists
  BY <1>3 DEF SavePatch
<1>4. ASSUME NEW d \in Chapters, DeleteChapter(d)
      PROVE  ~row'[c].exists
  BY <1>4 DEF DeleteChapter
<1>5. ASSUME row' = row
      PROVE  ~row'[c].exists
  BY <1>5
<1> QED
  BY <1>1, <1>2, <1>3, <1>4, <1>5
     DEF Next, Post, Enqueued, Handle, Cancels, Edits, LoadPatch, CheckWrite, EnqueueFail,
         EnqueueWrite, BeginWrite, StartWrite, SkipWrite, Load, Generate, RunError, SyncBible,
         MarkFailedFails, FinishWrite, CancelSignal, CancelWrite, Restart

\* What a step may do to a job that is past its UPDATE, or that has succeeded: it comes
\* from the step before, or is the UPDATE itself.
LEMMA PersistStep ==
  ASSUME Shape, Meaning, PastPersist, SucceededMeansPersisted, [Next]_vars
  PROVE  PastPersist' /\ SucceededMeansPersisted'
<1> USE DEF Shape, jobRows, handlers, vars, Row!Statuses, Row!Ended, Posting, Steps, InFlight
<1> DEFINE Wrote(j) == j \in persisted \/ ~row[target[j]].exists
           Late(j) == step[j] \in {"sync", "ok"} \/ status[j] = "succeeded"
<1>1. \A j \in Jobs : Late(j) => target[j] \in Chapters /\ post[j] # "idle"
  BY DEF Meaning, PostMeaning, HandlerMeaning
<1>2. \A j \in Jobs : post[j] # "idle" => target'[j] = target[j]
  BY DEF Next, Post, Enqueued, Handle, Cancels, Edits, LoadPatch, CheckWrite, EnqueueFail,
         EnqueueWrite, BeginWrite, StartWrite, SkipWrite, Load, Generate, RunError, SyncBible,
         MarkFailedFails, FinishWrite, CancelSignal, CancelWrite, Restart, MarkWriting, Persist,
         MarkFailed, SavePatch, DeleteChapter
<1>3. persisted \subseteq persisted'
  BY DEF Next, Post, Enqueued, Handle, Cancels, Edits, LoadPatch, CheckWrite, EnqueueFail,
         EnqueueWrite, BeginWrite, StartWrite, SkipWrite, Load, Generate, RunError, SyncBible,
         MarkFailedFails, FinishWrite, CancelSignal, CancelWrite, Restart, MarkWriting, Persist,
         MarkFailed, SavePatch, DeleteChapter
<1>4. ASSUME NEW j \in Jobs, Late(j) PROVE Wrote(j)'
  <2>1. Wrote(j) /\ target[j] \in Chapters /\ target'[j] = target[j]
    BY <1>1, <1>2, <1>4 DEF PastPersist, SucceededMeansPersisted
  <2> QED
    BY <1>3, <2>1, DeletedStep
<1>5. ASSUME NEW j \in Jobs, Late(j)', ~Late(j) PROVE Persist(j)
  <2>1. ASSUME NEW i \in Jobs, EnqueueWrite(i) PROVE FALSE
    BY <1>5, <2>1 DEF EnqueueWrite, Row!Create
  <2>2. ASSUME NEW i \in Jobs, BeginWrite(i) PROVE FALSE
    BY <1>5, <2>2 DEF BeginWrite, Row!Begin
  <2>3. ASSUME NEW i \in Jobs, FinishWrite(i) PROVE FALSE
    BY <1>5, <2>3 DEF FinishWrite, Row!Succeed, Row!Fail
  <2>4. ASSUME NEW i \in Jobs, CancelWrite(i) PROVE FALSE
    BY <1>5, <2>4 DEF CancelWrite, Row!Abandon
  <2>5. ASSUME Restart PROVE FALSE
    BY <1>5, <2>5 DEF Restart, Row!Interrupt
  <2>6. ASSUME NEW i \in Jobs, StartWrite(i) \/ SkipWrite(i) \/ Load(i) \/ Generate(i)
                               \/ RunError(i) \/ SyncBible(i) \/ MarkFailed(i)
                               \/ MarkFailedFails(i)
        PROVE  FALSE
    BY <1>5, <2>6 DEF StartWrite, SkipWrite, Load, Generate, RunError, SyncBible, MarkFailed,
                      MarkFailedFails
  <2>7. ASSUME UNCHANGED <<jobRows, step>> PROVE FALSE
    BY <1>5, <2>7
  <2>8. ASSUME NEW i \in Jobs, Persist(i) PROVE i = j
    BY <1>5, <2>8 DEF Persist
  <2> HIDE DEF Late
  <2> QED
    BY <2>1, <2>2, <2>3, <2>4, <2>5, <2>6, <2>7, <2>8
       DEF Next, Post, Enqueued, Handle, Cancels, Edits, LoadPatch, SavePatch, DeleteChapter,
           CheckWrite, MarkWriting, EnqueueFail, CancelSignal
<1>6. ASSUME NEW j \in Jobs, Persist(j) PROVE Wrote(j)'
  BY <1>6 DEF Persist
<1>7. \A j \in Jobs : Late(j)' => Wrote(j)'
  BY <1>4, <1>5, <1>6
<1> QED
  BY <1>7 DEF PastPersist, SucceededMeansPersisted

LEMMA InvStep ==
  ASSUME IInv, [Next]_vars
  PROVE  IInv'
BY ShapeStep, MeaningStep, UndoomedInvStep, PersistStep DEF IInv

LEMMA Invariance == Spec => []IInv
<1>1. IInv /\ [Next]_vars => IInv'
  BY InvStep
<1> QED
  BY InitInv, <1>1, PTL DEF Spec

----------------------------------------------------------------------------
\* The rows keep the columns' values, whatever is written to them and by whom.
THEOREM TypeCorrect == Spec => []TypeOK
<1>1. IInv => TypeOK
  BY DEF IInv, Shape, TypeOK, PatchRows
<1> QED
  BY Invariance, <1>1, PTL

\* A chapter that says "writing" has a write in progress (write.go's MarkWriting, Run and
\* markStatus keep the promise between them), or is one that the five named disturbances
\* left behind: for any number of writes, edits and restarts.
THEOREM WritingHasAJob == Spec => []WritingIsAccounted
<1>1. ASSUME NEW j \in Jobs, NEW c \in Chapters, Undoomed(j, c)
      PROVE  WriteInProgress(c)
  BY <1>1 DEF Undoomed, WriteInProgress
<1>2. IInv => WritingIsAccounted
  BY <1>1 DEF IInv, WritingIsUndoomed, WritingIsAccounted
<1> QED
  BY Invariance, <1>2, PTL

\* A write job that reports success has put its text into the chapter, or the chapter was
\* deleted: finish never reports what persistGenerated did not do.
THEOREM SuccessIsReal == Spec => []SucceededMeansPersisted
<1>1. IInv => SucceededMeansPersisted
  BY DEF IInv
<1> QED
  BY Invariance, <1>1, PTL

\* Once the row of a write job has ended, by cancel above all, the job's handler does not
\* replace the chapter's text any more.
THEOREM EndedJobsDoNotWrite == Spec => PersistsOnlyWhileRunning
<1>1. ASSUME IInv, [Next]_vars
      PROVE  [\A j \in Jobs : j \in persisted' \ persisted => status[j] = "running"]_vars
  <2>1. ASSUME NEW i \in Jobs, Persist(i)
        PROVE  status[i] = "running" /\ persisted' \subseteq persisted \union {i}
    BY <1>1, <2>1 DEF Persist, IInv, Meaning, HandlerMeaning
  <2>2. (\E i \in Jobs : Persist(i)) \/ persisted' = persisted
    BY <1>1 DEF Next, vars, Post, Enqueued, Handle, Cancels, Edits, LoadPatch, SavePatch,
                DeleteChapter, CheckWrite, MarkWriting, EnqueueFail, EnqueueWrite, BeginWrite,
                StartWrite, SkipWrite, Load, Generate, RunError, SyncBible, MarkFailed,
                MarkFailedFails, FinishWrite, CancelSignal, CancelWrite, Restart
  <2> QED
    BY <2>1, <2>2
<1> QED
  BY Invariance, <1>1, PTL DEF Spec, PersistsOnlyWhileRunning
=============================================================================

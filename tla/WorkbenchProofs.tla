-------------------------- MODULE WorkbenchProofs --------------------------
(***************************************************************************)
(* Proofs about Workbench, for any chapters, jobs and editors and any      *)
(* number of moves and restarts.                                           *)
(***************************************************************************)
EXTENDS Workbench, TLAPS

Kinds == {"load", "save", "confirm", "presave", "write", "refresh", "poll", "continue"}
CallStates == {"sent", "served", "ok", "error"}

PageRecords ==
    [route : Chapters \union {NoChapter}, due : BOOLEAN, epoch : Nat, token : Nat,
     operation : Operations, ch : Chapters \union {NoChapter}, status : Server!RowStates,
     saved : Server!Texts, body : Server!Texts, settings : BOOLEAN, summary : BOOLEAN,
     job : Jobs \union {NoJob}, paused : BOOLEAN, refreshFailed : BOOLEAN,
     selection : Chapters \union {NoChapter}]

CallRecords ==
    [kind : Kinds, chapter : Chapters, epoch : Nat, token : Nat, state : CallStates,
     via : Jobs \union Editors \union {NoJob}, status : Server!RowStates,
     body : Server!Texts \union {Keep}, settings : BOOLEAN]

Shape ==
    /\ page \in PageRecords
    /\ calls \subseteq CallRecords
    /\ departed \subseteq Nat
    /\ heard \subseteq Jobs
    /\ since \subseteq {"text", "settings", "summary"}
    /\ reverted \subseteq Chapters

----------------------------------------------------------------------------
(* The page alone *)

\* The calls made since the last load or operation began
Mine(k) == k.token = page.token

\* What the page shows belongs to its route, until the route has changed and the effect has
\* not run; what it waits for belongs to a chapter it shows.
PageMeaning ==
    /\ IF page.due THEN page.ch # page.route ELSE page.ch \in {NoChapter, page.route}
    /\ page.token = 0 \/ page.epoch = 0 =>
           calls = {} /\ page.ch = NoChapter /\ (page.due \/ page.route = NoChapter)
    /\ page.operation # "idle" => page.ch # NoChapter
    /\ page.job # NoJob => page.operation \in {"generating", "refreshing"}
    /\ page.refreshFailed => page.operation = "refreshing"
    /\ page.operation \in {"generating", "refreshing"} => since \subseteq {"summary"}
    /\ page.due => page.route # NoChapter

\* References only grow: a call knows none that is still to come, and one of the last load
\* is of the chapter the page is at, or was at before the route changed.
References ==
    \A k \in calls :
        /\ k.token <= page.token /\ k.epoch <= page.epoch
        /\ Mine(k) => k.epoch = page.epoch
        /\ k.epoch = page.epoch => (k.chapter = page.route <=> ~page.due)

Departed == \A t \in departed : t < page.token /\ t # 0

\* What each call the page waits for says of the page
Waits(k) ==
    /\ k.kind = "load" /\ k.epoch = page.epoch =>
           /\ Mine(k) /\ page.ch = NoChapter /\ since = {}
    /\ Mine(k) =>
           /\ k.kind = "load" => page.operation = "idle"
           /\ k.kind = "save" => page.operation = "saving" /\ since = {}
           /\ k.kind \in {"confirm", "presave", "write"} => page.operation = "submitting"
           /\ k.kind \in {"presave", "write"} => since \subseteq {"summary"}
           /\ k.kind = "refresh" => /\ page.operation = "refreshing" /\ ~page.refreshFailed
                                    /\ page.job # NoJob
           /\ k.kind = "poll" => page.operation = "generating" /\ page.job = NoJob

\* The page waits for one call at a time, continuations aside.
OneAtATime ==
    \A k, l \in calls : Mine(k) /\ Mine(l) /\ "continue" \notin {k.kind, l.kind} => k = l

Awaited ==
    Loaded =>
        /\ page.operation = "saving" => \E k \in calls : Mine(k) /\ k.kind = "save"
        /\ page.operation = "submitting" =>
               \E k \in calls : Mine(k) /\ k.kind \in {"confirm", "presave", "write"}
        /\ page.operation = "generating" => page.job # NoJob \/ page.status = "writing"
        /\ page.operation = "refreshing" =>
               /\ page.job # NoJob
               /\ page.refreshFailed \/ \E k \in calls : Mine(k) /\ k.kind = "refresh"

Asked == References /\ Departed /\ OneAtATime /\ Awaited /\ \A k \in calls : Waits(k)

PageInv == Shape /\ PageMeaning /\ Asked /\ TypedIsKept

----------------------------------------------------------------------------
(* The page and its server *)

PatchRecords == [chapter : Chapters \union {NoChapter}, loaded : Server!ChapterRows]

ServerShape ==
    /\ status \in [Jobs -> Server!Row!Statuses]
    /\ target \in [Jobs -> Chapters \union {NoChapter}]
    /\ post \in [Jobs -> Server!Posting]
    /\ step \in [Jobs -> Server!Steps]
    /\ persisted \subseteq Jobs
    /\ row \in [Chapters -> Server!ChapterRows]
    /\ patch \in [Editors -> PatchRecords]
    /\ disturbed \subseteq Chapters

\* Nobody cancels or deletes here. A job has a chapter once it has a POST, a row once that
\* is over, and a handler while the row says "running".
ServerMeaning ==
    /\ ServerShape
    /\ canceled = {}
    /\ \A c \in Chapters : row[c].exists
    /\ \A e \in Editors : patch[e] # Server!NoPatch => /\ patch[e].chapter \in Chapters
                                                       /\ patch[e].loaded.exists
    /\ \A j \in Jobs : /\ post[j] = "idle" <=> target[j] = NoChapter
                       /\ post[j] # "over" => status[j] = "absent"
                       /\ step[j] # "none" => status[j] = "running"

Patches(k) == k.kind \in {"save", "presave"} /\ k.state = "served"
Posts(k) == k.kind = "write" /\ k.state \in {"served", "ok"}

\* A call in the server's hands is the one its PATCH or POST was made for.
PatchServed ==
    /\ \A k \in calls : Patches(k) => /\ k.via \in Editors /\ patch[k.via] # Server!NoPatch
                                      /\ patch[k.via].chapter = k.chapter
    /\ \A k, l \in calls : Patches(k) /\ Patches(l) /\ k.via = l.via => k = l
PostServed ==
    /\ \A k \in calls : Posts(k) => /\ k.via \in Jobs /\ target[k.via] = k.chapter
                                    /\ k.state = "ok" => post[k.via] = "over"
    /\ \A k, l \in calls : Posts(k) /\ Posts(l) /\ k.via = l.via => k = l
BodyAnswered == \A k \in calls : k.state = "ok" /\ k.kind # "write" => k.body # Keep
HeardIsOver == \A j \in heard : post[j] = "over"

Serving == PatchServed /\ PostServed /\ BodyAnswered /\ HeardIsOver

\* Every text is where it was written for.
Home ==
    /\ \A c \in Chapters : AtHome(c, row[c].body)
    /\ page.ch # NoChapter => AtHome(page.ch, page.body)
    /\ \A k \in calls : AtHome(k.chapter, k.body)
    /\ \A e \in Editors : patch[e] # Server!NoPatch =>
                              AtHome(patch[e].chapter, patch[e].loaded.body)

----------------------------------------------------------------------------
(* Jobs the page knows of *)

\* The answer that names j can still reach the page.
Pending(j) ==
    ~page.due /\ \E k \in calls : Posts(k) /\ k.via = j /\ Mine(k)

Known(j) == j \in heard \/ Pending(j)

Active(j) == StillWriting(j) \/ post[j] = "marked"

\* The exceptions of IdleIsQuiet, which last
Excepted(c) ==
    \/ \E j \in Jobs : target[j] = c /\ ~Known(j)
    \/ c \in reverted

\* One known job at most works on a chapter, and the chapter says so.
Accounted(c) ==
    \A j \in Jobs : target[j] = c /\ Known(j) /\ Active(j) =>
        /\ row[c].status = "writing"
        /\ \A i \in Jobs : target[i] = c /\ Known(i) /\ Active(i) => i = j

Busy(c) == {j \in heard : target[j] = c /\ StillWriting(j)}

\* What the page says of the chapter it shows
Locked(c) ==
    Loaded /\ page.route = c =>
        /\ page.operation \in {"idle", "saving", "submitting", "refreshing"} => Busy(c) = {}
        /\ page.job # NoJob => Busy(c) \subseteq {page.job}

\* An answer that can still unlock the page
Unlocking(k) ==
    /\ k.kind \in {"load", "poll"} /\ k.state = "ok" /\ k.status # "writing"
    /\ k.epoch = page.epoch /\ (k.kind = "load" \/ Mine(k))

Unlocks(c) == \A k \in calls : Unlocking(k) /\ k.chapter = c => Busy(c) = {}

Quiet == \A c \in Chapters : Excepted(c) \/ (Accounted(c) /\ Locked(c) /\ Unlocks(c))

IInv == PageInv /\ ServerMeaning /\ Serving /\ Home /\ Quiet

----------------------------------------------------------------------------
(* The server's part of every step *)

PatchTexts == Server!Texts \union {Keep}

\* WritePipeline's steps, without those nobody takes here.
Serves1(j) ==
    \/ \E c \in Chapters : Server!CheckWrite(j, c)
    \/ Server!MarkWriting(j) \/ Server!EnqueueWrite(j) \/ Server!EnqueueFail(j)
    \/ Server!BeginWrite(j) \/ Server!Handle(j)

ServerSteps ==
    \/ \E j \in Jobs : Serves1(j)
    \/ \E e \in Editors : \/ \E c \in Chapters : Server!LoadPatch(e, c)
                          \/ \E text \in PatchTexts : Server!SavePatch(e, text, TRUE)
    \/ Server!Restart

LEMMA ServerTakes ==
  ASSUME Shape, Serving, Next
  PROVE  ServerSteps \/ UNCHANGED serverVars
<1>1. CASE Author
  BY <1>1 DEF Author, Open, Reload, Load, Leave, Type, Adjust, Summarise, Save, Write, Select,
     InlineReplace, AskContinuation, Confirm, Refuse, RetryPoll, RetryRefresh, storeVars
<1>2. ASSUME NEW k \in calls, Arrives(k) PROVE UNCHANGED serverVars
  BY <1>2 DEF Arrives, LoadArrives, SaveArrives, PresaveArrives, WriteArrives, RefreshArrives,
     PollArrives, ContinuationArrives, storeVars
<1>3. ASSUME NEW k \in calls, NetworkError(k) \/ TimeOut(k) \/ ServeGet(k)
      PROVE  UNCHANGED serverVars
  BY <1>3 DEF NetworkError, TimeOut, ServeGet, storeVars
<1>4. CASE LoadEffect \/ Poll \/ PollLost
  BY <1>4 DEF LoadEffect, Load, Poll, PollSucceeded, PollEnded, PollChapter, PollLost, storeVars
<1>5. ASSUME NEW k \in calls, SavePatch(k) PROVE ServerSteps
  <2>1. k.via \in Editors /\ k.body \in PatchTexts
    BY <1>5 DEF SavePatch, Serving, PatchServed, PostServed, BodyAnswered, HeardIsOver, Patches, Shape, CallRecords, PatchTexts
  <2> QED
    BY <1>5, <2>1 DEF SavePatch, ServerSteps
<1>6. ASSUME NEW k \in calls, NEW e \in Editors, LoadPatch(k, e) PROVE ServerSteps
  BY <1>6 DEF LoadPatch, ServerSteps, Shape, CallRecords
<1>7. ASSUME NEW k \in calls, NEW j \in Jobs, CheckWrite(k, j) PROVE ServerSteps
  BY <1>7 DEF CheckWrite, ServerSteps, Serves1, Shape, CallRecords
<1>8. ASSUME NEW j \in Jobs, ServeWrite(j) \/ Work(j) PROVE ServerSteps
  BY <1>8 DEF ServeWrite, Work, ServerSteps, Serves1
<1>9. CASE Restart
  BY <1>9 DEF Restart, ServerSteps
<1> QED
  BY <1>1, <1>2, <1>3, <1>4, <1>5, <1>6, <1>7, <1>8, <1>9 DEF Next, Serves

LEMMA SetStatusRow ==
  ASSUME row \in [Chapters -> Server!ChapterRows], NEW c \in Chapters, row[c].exists,
         NEW s \in Server!RowStates
  PROVE  /\ Server!SetStatus(c, s) \in [Chapters -> Server!ChapterRows]
         /\ \A d \in Chapters : /\ Server!SetStatus(c, s)[d].exists = row[d].exists
                                /\ Server!SetStatus(c, s)[d].body = row[d].body
                                /\ d # c => Server!SetStatus(c, s)[d] = row[d]
         /\ Server!SetStatus(c, s)[c].status = s
BY DEF Server!SetStatus, Server!ChapterRows

LEMMA PatchedRow ==
  ASSUME NEW old \in Server!ChapterRows, NEW text \in PatchTexts
  PROVE  LET new == Server!Patched(old, text, TRUE) IN
         /\ new \in Server!ChapterRows /\ new.exists = old.exists
         /\ new.body = IF text = Keep THEN old.body ELSE text
         /\ new.status = IF text \notin {Keep, NoText} /\ old.status # "writing"
                         THEN "written" ELSE old.status
<1> DEFINE body == IF text = Keep THEN old.body ELSE text
           written == text \notin {Keep, NoText} /\ old.status # "writing"
           new == [old EXCEPT !.body = body, !.card = TRUE,
                              !.status = IF written THEN "written" ELSE @]
<1>1. Server!Patched(old, text, TRUE) = new
  BY DEF Server!Patched
<1>2. body \in Server!Texts
  BY DEF Server!ChapterRows, PatchTexts
<1> HIDE DEF body, written
<1>3. /\ new \in Server!ChapterRows /\ new.exists = old.exists /\ new.body = body
      /\ new.status = IF written THEN "written" ELSE old.status
  BY <1>2 DEF Server!ChapterRows, Server!RowStates
<1> QED
  BY <1>1, <1>3 DEF body, written

\* The columns the server may write, and that all chapters stay
RowsOK == row \in [Chapters -> Server!ChapterRows] /\ \A c \in Chapters : row[c].exists

LEMMA RowWritten ==
  ASSUME RowsOK, NEW c \in Chapters, NEW new \in Server!ChapterRows, new.exists,
         row' = [row EXCEPT ![c] = new]
  PROVE  RowsOK'
BY DEF RowsOK

LEMMA StatusWritten ==
  ASSUME RowsOK, NEW c \in Chapters, NEW s \in Server!RowStates,
         row' = Server!SetStatus(c, s)
  PROVE  RowsOK'
BY SetStatusRow DEF RowsOK

LEMMA ServerKeeps ==
  ASSUME ServerMeaning, ServerSteps \/ UNCHANGED serverVars
  PROVE  ServerMeaning'
<1> USE DEF ServerMeaning, ServerShape, Server!jobRows, Server!handlers, Server!Row!Statuses,
        Server!Row!Ended, Server!Posting, Server!Steps, Server!InFlight
<1>0. /\ \A j \in Jobs : post[j] # "idle" => target[j] \in Chapters
      /\ NoChapter \notin Chapters /\ RowsOK
  BY NamesAreApart DEF RowsOK
<1>1. ASSUME NEW j \in Jobs, NEW c \in Chapters, Server!CheckWrite(j, c) PROVE ServerMeaning'
  BY <1>0, <1>1 DEF Server!CheckWrite
<1>2. ASSUME NEW j \in Jobs, Server!MarkWriting(j) PROVE ServerMeaning'
  <2>1. target[j] \in Chapters
    BY <1>0, <1>2 DEF Server!MarkWriting
  <2>2. row' = Server!SetStatus(target[j], "writing")
    BY <1>2 DEF Server!MarkWriting
  <2>3. RowsOK'
    BY <1>0, <2>1, <2>2, StatusWritten DEF Server!RowStates
  <2> QED
    BY <1>2, <2>3 DEF Server!MarkWriting, RowsOK
<1>3. ASSUME NEW j \in Jobs, Server!EnqueueWrite(j) \/ Server!EnqueueFail(j)
      PROVE  ServerMeaning'
  BY <1>0, <1>3 DEF Server!EnqueueWrite, Server!EnqueueFail, Server!Row!Create
<1>4. ASSUME NEW j \in Jobs, Server!BeginWrite(j) PROVE ServerMeaning'
  BY <1>4 DEF Server!BeginWrite, Server!Row!Begin
<1>5. ASSUME NEW j \in Jobs, Server!Handle(j) PROVE ServerMeaning'
  <2>1. CASE Server!StartWrite(j) \/ Server!SkipWrite(j) \/ Server!Load(j) \/ Server!Generate(j)
             \/ Server!RunError(j) \/ Server!SyncBible(j)
    BY <2>1 DEF Server!StartWrite, Server!SkipWrite, Server!Load, Server!Generate,
       Server!RunError, Server!SyncBible
  <2>2. CASE Server!Persist(j)
    <3>1. [exists |-> TRUE, status |-> "written", body |-> j, card |-> TRUE]
            \in Server!ChapterRows
      BY DEF Server!ChapterRows, Server!RowStates, Server!Texts
    <3>2. target[j] \in Chapters
      BY <1>0, <2>2 DEF Server!Persist
    <3>3. row' = [row EXCEPT ![target[j]] = [exists |-> TRUE, status |-> "written",
                                             body |-> j, card |-> TRUE]]
      BY <2>2, <3>2 DEF Server!Persist
    <3>4. RowsOK'
      BY <1>0, <3>1, <3>2, <3>3, RowWritten
    <3> QED
      BY <2>2, <3>2, <3>4 DEF Server!Persist, RowsOK
  <2>3. CASE Server!MarkFailed(j)
    <3>1. target[j] \in Chapters
      BY <1>0, <2>3 DEF Server!MarkFailed
    <3>2. row' = Server!SetStatus(target[j], "failed")
      BY <2>3 DEF Server!MarkFailed
    <3>3. RowsOK'
      BY <1>0, <3>1, <3>2, StatusWritten DEF Server!RowStates
    <3> QED
      BY <2>3, <3>3 DEF Server!MarkFailed, RowsOK
  <2>4. CASE Server!MarkFailedFails(j)
    <3>1. target[j] \in Chapters
      BY <1>0, <2>4 DEF Server!MarkFailedFails
    <3> QED
      BY <2>4, <3>1 DEF Server!MarkFailedFails
  <2>5. CASE Server!FinishWrite(j)
    BY <2>5 DEF Server!FinishWrite, Server!Row!Succeed, Server!Row!Fail
  <2> QED
    BY <1>5, <2>1, <2>2, <2>3, <2>4, <2>5 DEF Server!Handle
<1>6. ASSUME NEW e \in Editors, NEW c \in Chapters, Server!LoadPatch(e, c)
      PROVE  ServerMeaning'
  BY <1>6 DEF Server!LoadPatch, PatchRecords
<1>7. ASSUME NEW e \in Editors, NEW text \in PatchTexts, Server!SavePatch(e, text, TRUE)
      PROVE  ServerMeaning'
  <2>1. Server!NoPatch \in PatchRecords
    BY DEF Server!NoPatch, PatchRecords, Server!ChapterRows, Server!RowStates, Server!Texts
  <2>2. patch[e].loaded \in Server!ChapterRows /\ patch[e].loaded.exists
    BY <1>7 DEF PatchRecords, Server!SavePatch
  <2>3. RowsOK'
    <3> DEFINE c == patch[e].chapter
               new == Server!Patched(patch[e].loaded, text, TRUE)
    <3>1. new \in Server!ChapterRows /\ new.exists
      BY <2>2, PatchedRow
    <3>2. patch[e].chapter \in Chapters
      BY <1>7, <1>0 DEF Server!SavePatch
    <3>3. row' = [row EXCEPT ![c] = new]
      BY <1>7, <3>2 DEF Server!SavePatch
    <3> HIDE DEF new
    <3> QED
      BY <1>0, <3>1, <3>2, <3>3, RowWritten
  <2>4. patch' = [patch EXCEPT ![e] = Server!NoPatch]
    BY <1>7 DEF Server!SavePatch
  <2>5. \A d \in Editors : patch'[d] \in PatchRecords
                         /\ (patch'[d] # Server!NoPatch =>
                                patch'[d].chapter \in Chapters /\ patch'[d].loaded.exists)
    BY <2>1, <2>4
  <2>6. disturbed' \subseteq Chapters
    BY <1>7, <1>0 DEF Server!SavePatch
  <2> QED
    BY <1>7, <2>1, <2>3, <2>4, <2>5, <2>6 DEF Server!SavePatch, RowsOK
<1>8. CASE Server!Restart
  <2>1. Server!NoPatch \in PatchRecords
    BY DEF Server!NoPatch, PatchRecords, Server!ChapterRows, Server!RowStates, Server!Texts
  <2> QED
    BY <1>0, <1>8, <2>1 DEF Server!Restart, Server!Row!Interrupt
<1>9. CASE UNCHANGED serverVars
  BY <1>9 DEF serverVars
<1> QED
  BY <1>1, <1>2, <1>3, <1>4, <1>5, <1>6, <1>7, <1>8, <1>9 DEF ServerSteps, Serves1

----------------------------------------------------------------------------
(* The page's part of every step *)

\* The fields of a page or a call are set to what they may be.
LEMMA CallTyped ==
  ASSUME NEW kind \in Kinds, NEW c \in Chapters, NEW epoch \in Nat, NEW token \in Nat,
         NEW body \in PatchTexts, NEW settings \in BOOLEAN
  PROVE  Call(kind, c, epoch, token, body, settings) \in CallRecords
BY DEF Call, CallRecords, CallStates, Server!RowStates, PatchTexts

LEMMA AppliedTyped ==
  ASSUME Shape, NEW k \in calls, k.body # Keep
  PROVE  Applied(k) \in PageRecords
BY DEF Shape, Applied, PageRecords, CallRecords

LEMMA AuthorTyped ==
  ASSUME Shape, PageMeaning, Author \/ LoadEffect PROVE Shape'
<1> USE DEF Shape, inputVars
<1>1. /\ page.route \in Chapters \union {NoChapter} /\ page.ch \in Chapters \union {NoChapter}
      /\ page.epoch \in Nat /\ page.token \in Nat /\ page.epoch + 1 \in Nat
      /\ page.token + 1 \in Nat /\ page.body \in PatchTexts /\ page.settings \in BOOLEAN
  BY DEF PageRecords, PatchTexts
<1>2. \A c \in Chapters : <<c, "typed">> \in Server!Texts /\ <<c, "tool">> \in Server!Texts
  BY DEF Server!Texts, Edited
<1>3. {"load", "save", "confirm", "presave", "write", "refresh", "continue"} \subseteq Kinds
  BY DEF Kinds
<1>4. NoText \in PatchTexts /\ Keep \in PatchTexts /\ NoText \in Server!Texts
  BY DEF PatchTexts, Server!Texts
<1>5. Loaded => page.route \in Chapters
  BY <1>1 DEF Loaded
<1>6. ASSUME NEW c \in Chapters, Open(c) PROVE Shape'
  BY <1>6 DEF Open, PageRecords, storeVars
<1>7. CASE LoadEffect \/ Reload
  <2>1. page.route \in Chapters
    BY <1>1, <1>7 DEF LoadEffect, Reload, PageMeaning
  <2>2. /\ Reset \in PageRecords /\ Reset.route = page.route
        /\ Reset.epoch = page.epoch + 1 /\ Reset.token = page.token + 1
    BY <1>1, <1>4 DEF Reset, Blank, PageRecords, Operations, Server!RowStates
  <2>3. Load
    BY <1>7 DEF LoadEffect, Reload
  <2>4. calls' \subseteq CallRecords
    <3>1. Call("load", page.route, page.epoch + 1, page.token + 1, NoText, FALSE)
            \in CallRecords
      BY <1>1, <1>3, <1>4, <2>1, CallTyped
    <3> QED
      BY <2>2, <2>3, <3>1 DEF Load
  <2> QED
    BY <2>2, <2>3, <2>4 DEF Load, storeVars
<1>8. CASE Leave
  BY <1>1, <1>4, <1>8 DEF Leave, Blank, PageRecords, Operations, Server!RowStates, storeVars
<1>9. CASE Type \/ Adjust \/ Summarise \/ Select \/ RetryPoll
  <2>1. CASE Type
    BY <1>2, <1>5, <2>1 DEF Type, PageRecords, storeVars
  <2>2. CASE Select
    BY <1>5, <2>2 DEF Select, PageRecords, storeVars
  <2>3. CASE Adjust \/ Summarise \/ RetryPoll
    BY <2>3 DEF Adjust, Summarise, RetryPoll, PageRecords, storeVars
  <2> QED
    BY <1>9, <2>1, <2>2, <2>3
<1>10. CASE InlineReplace
  <2>1. page.selection \in Chapters
    BY <1>10 DEF InlineReplace, PageRecords
  <2> QED
    BY <1>2, <1>10, <2>1 DEF InlineReplace, PageRecords, storeVars
<1>11. CASE AskContinuation
  <2>1. Call("continue", page.route, page.epoch, page.token, NoText, FALSE) \in CallRecords
    BY <1>1, <1>3, <1>4, <1>5, <1>11, CallTyped DEF AskContinuation
  <2> QED
    BY <1>11, <2>1 DEF AskContinuation, storeVars
<1>12. CASE Save
  <2>1. Call("save", page.ch, page.epoch, page.token + 1, page.body, FALSE) \in CallRecords
    BY <1>1, <1>3, <1>5, <1>12, CallTyped DEF Save, Loaded
  <2>2. page' \in PageRecords
    BY <1>1, <1>12 DEF Save, PageRecords, Operations
  <2> QED
    BY <1>12, <2>1, <2>2 DEF Save, storeVars
<1>13. CASE Write
  <2>1. \A kind \in {"confirm", "presave", "write"}, b \in BOOLEAN :
           Call(kind, page.ch, page.epoch, page.token + 1, Keep, b) \in CallRecords
    BY <1>1, <1>3, <1>4, <1>5, <1>13, CallTyped DEF Write, Loaded
  <2>2. page' \in PageRecords
    BY <1>1, <1>13 DEF Write, PageRecords, Operations
  <2>3. calls' \subseteq CallRecords
    BY <1>1, <1>13, <2>1 DEF Write, Submission
  <2> QED
    BY <1>13, <2>2, <2>3 DEF Write, storeVars
<1>14. ASSUME NEW k \in calls, Confirm(k) PROVE Shape'
  <2>1. \A kind \in {"presave", "write"} :
           Call(kind, k.chapter, k.epoch, k.token, Keep, FALSE) \in CallRecords
    BY <1>3, <1>4, CallTyped DEF CallRecords
  <2> QED
    BY <1>14, <2>1 DEF Confirm, Submission, storeVars
<1>15. ASSUME NEW k \in calls, Refuse(k) PROVE Shape'
  BY <1>15 DEF Refuse, Shown, PageRecords, Operations, storeVars
<1>16. CASE RetryRefresh
  <2>1. Call("refresh", page.ch, page.epoch, page.token, NoText, FALSE) \in CallRecords
    BY <1>1, <1>3, <1>4, <1>5, <1>16, CallTyped DEF RetryRefresh, Loaded
  <2>2. [page EXCEPT !.refreshFailed = FALSE] \in PageRecords
    BY DEF PageRecords
  <2>3. calls' = calls \union {Call("refresh", page.ch, page.epoch, page.token, NoText, FALSE)}
    BY <1>16 DEF RetryRefresh, GetChapter, PageRecords
  <2> QED
    BY <1>16, <2>1, <2>2, <2>3 DEF RetryRefresh, storeVars
<1> QED
  BY <1>6, <1>7, <1>8, <1>9, <1>10, <1>11, <1>12, <1>13, <1>14, <1>15, <1>16 DEF Author

LEMMA ArrivesTyped ==
  ASSUME Shape, Serving, NEW k \in calls, Arrives(k) PROVE Shape'
<1> USE DEF Shape, inputVars, storeVars
<1>1. k \in CallRecords /\ (k.state = "ok" /\ k.kind # "write" => k.body # Keep)
  BY DEF Serving, PatchServed, PostServed, BodyAnswered, HeardIsOver
<1>2. k.state = "ok" /\ k.kind # "write" => Applied(k) \in PageRecords
  BY <1>1, AppliedTyped
<1>3. page.token \in Nat /\ page.token + 1 \in Nat
  BY DEF PageRecords
<1>4. CASE LoadArrives(k)
  <2>1. k.state = "ok" => Applied(k) \in PageRecords
    BY <1>2, <1>4 DEF LoadArrives
  <2>2. k.state = "ok" => Applied(k).token + 1 \in Nat
    BY <2>1 DEF PageRecords
  <2>3. k.state = "ok" =>
          [Applied(k) EXCEPT !.token = @ + 1, !.operation = "generating"] \in PageRecords
    <3> DEFINE a == Applied(k)
    <3> HIDE DEF a
    <3>1. a \in PageRecords /\ a.token + 1 \in Nat
             => [a EXCEPT !.token = @ + 1, !.operation = "generating"] \in PageRecords
      BY DEF PageRecords, Operations
    <3> QED
      BY <2>1, <2>2, <3>1 DEF a
  <2> QED
    BY <1>4, <2>1, <2>3 DEF LoadArrives, Overwrite
<1>5. k.state = "ok" /\ k.kind # "write" =>
        /\ [Applied(k) EXCEPT !.operation = "idle"] \in PageRecords
        /\ [Applied(k) EXCEPT !.job = NoJob, !.operation = "idle"] \in PageRecords
  <2> DEFINE a == Applied(k)
  <2> HIDE DEF a
  <2>1. a \in PageRecords => /\ [a EXCEPT !.operation = "idle"] \in PageRecords
                             /\ [a EXCEPT !.job = NoJob, !.operation = "idle"] \in PageRecords
    BY DEF PageRecords, Operations
  <2> QED
    BY <1>2, <2>1 DEF a
<1>6. [page EXCEPT !.operation = "idle"] \in PageRecords
  BY DEF PageRecords, Operations
<1>7. CASE SaveArrives(k)
  BY <1>5, <1>6, <1>7 DEF SaveArrives, Overwrite
<1>8. CASE PresaveArrives(k)
  <2>1. k.state = "ok" => [page EXCEPT !.status = k.status, !.saved = k.body, !.settings = FALSE]
                            \in PageRecords
    BY <1>1, <1>8 DEF PresaveArrives, PageRecords, CallRecords
  <2>2. Submission(k.chapter, k.epoch, k.token, FALSE) \in CallRecords
    BY CallTyped DEF Submission, Kinds, PatchTexts, CallRecords
  <2> QED
    BY <1>6, <1>8, <2>1, <2>2 DEF PresaveArrives, Shown
<1>9. CASE WriteArrives(k)
  <2>1. k.state = "ok" => k.via \in Jobs
    BY <1>9 DEF WriteArrives, Serving, PatchServed, PostServed, BodyAnswered, HeardIsOver, Posts
  <2>2. k.state = "ok" => [page EXCEPT !.job = k.via, !.paused = FALSE, !.status = "writing",
                                       !.operation = "generating"] \in PageRecords
    BY <2>1 DEF PageRecords, Operations, Server!RowStates
  <2> QED
    BY <1>6, <1>9, <2>1, <2>2 DEF WriteArrives, Shown
<1>10. CASE RefreshArrives(k)
  <2>1. [page EXCEPT !.refreshFailed = TRUE] \in PageRecords
    BY DEF PageRecords
  <2> QED
    BY <1>5, <1>10, <2>1 DEF RefreshArrives, Overwrite
<1>11. CASE PollArrives(k)
  <2>1. [page EXCEPT !.paused = TRUE] \in PageRecords
    BY DEF PageRecords
  <2> QED
    BY <1>5, <1>11, <2>1 DEF PollArrives, Overwrite
<1>12. CASE ContinuationArrives(k)
  <2>1. [page EXCEPT !.body = <<k.chapter, "tool">>] \in PageRecords
    BY DEF PageRecords, CallRecords, Server!Texts, Edited
  <2> QED
    BY <1>12, <2>1 DEF ContinuationArrives
<1> QED
  BY <1>4, <1>7, <1>8, <1>9, <1>10, <1>11, <1>12 DEF Arrives

LEMMA PollTyped ==
  ASSUME Shape, Poll \/ PollLost PROVE Shape'
<1> USE DEF Shape, inputVars, storeVars
<1>1. \A kind \in {"refresh", "poll"} :
        Loaded => Call(kind, page.ch, page.epoch, page.token, NoText, FALSE) \in CallRecords
  BY CallTyped DEF Loaded, PageRecords, Kinds, PatchTexts, Server!Texts
<1>2. CASE PollSucceeded
  <2> DEFINE p == [page EXCEPT !.operation = "refreshing", !.refreshFailed = FALSE]
  <2>1. p \in PageRecords /\ GetChapter("refresh", p)
                             = Call("refresh", page.ch, page.epoch, page.token, NoText, FALSE)
    BY DEF PageRecords, Operations, GetChapter
  <2> QED
    BY <1>1, <1>2, <2>1 DEF PollSucceeded, Polling
<1>3. CASE PollEnded \/ PollLost
  BY <1>3 DEF PollEnded, PollLost, PageRecords, Operations
<1>4. CASE PollChapter
  BY <1>1, <1>4 DEF PollChapter, GetChapter
<1> QED
  BY <1>2, <1>3, <1>4 DEF Poll

LEMMA NetworkTyped ==
  ASSUME Shape, ServerMeaning, Serving,
         \/ \E k \in calls : NetworkError(k) \/ TimeOut(k) \/ Serves(k)
         \/ \E j \in Jobs : ServeWrite(j) \/ Work(j)
         \/ Restart
  PROVE  Shape'
<1> USE DEF Shape, inputVars, storeVars, pageVars, CallStates
<1>1. ASSUME NEW k \in calls, NetworkError(k) \/ TimeOut(k) PROVE Shape'
  <2>1. /\ [k EXCEPT !.state = "error"] \in CallRecords
        /\ [k EXCEPT !.token = 0, !.epoch = 0] \in CallRecords
    BY DEF CallRecords
  <2> QED
    BY <1>1, <2>1 DEF NetworkError, TimeOut, Becomes
<1>2. ASSUME NEW k \in calls, ServeGet(k) PROVE Shape'
  <2>1. [k EXCEPT !.state = "ok", !.status = row[k.chapter].status,
                  !.body = row[k.chapter].body] \in CallRecords
    BY DEF CallRecords, ServerMeaning, ServerShape, Server!ChapterRows
  <2> QED
    BY <1>2, <2>1 DEF ServeGet, Becomes
<1>3. ASSUME NEW k \in calls, SavePatch(k) PROVE Shape'
  <2> DEFINE answer == Server!Patched(patch[k.via].loaded, k.body, TRUE)
  <2>1. patch[k.via].loaded \in Server!ChapterRows /\ k.body \in PatchTexts /\ k.chapter \in Chapters
    BY <1>3 DEF SavePatch, Serving, PatchServed, PostServed, BodyAnswered, HeardIsOver, Patches, ServerMeaning, ServerShape, PatchRecords,
       CallRecords, PatchTexts
  <2>2. answer \in Server!ChapterRows
    BY <2>1, PatchedRow
  <2> HIDE DEF answer
  <2>3. [k EXCEPT !.state = "ok", !.status = answer.status, !.body = answer.body] \in CallRecords
    BY <2>2 DEF CallRecords, Server!ChapterRows
  <2> QED
    BY <1>3, <2>1, <2>3 DEF SavePatch, Becomes, answer
<1>4. ASSUME NEW k \in calls, NEW e \in Editors, LoadPatch(k, e) PROVE Shape'
  <2>1. [k EXCEPT !.state = "served", !.via = e] \in CallRecords
    BY DEF CallRecords
  <2> QED
    BY <1>4, <2>1 DEF LoadPatch, Becomes
<1>5. ASSUME NEW k \in calls, NEW j \in Jobs, CheckWrite(k, j) PROVE Shape'
  <2>1. [k EXCEPT !.state = "served", !.via = j] \in CallRecords
    BY DEF CallRecords
  <2> QED
    BY <1>5, <2>1 DEF CheckWrite, Becomes
<1>6. \A s \in CallStates : \A k \in calls : [k EXCEPT !.state = s] \in CallRecords
  BY DEF CallRecords
<1>7. ASSUME NEW j \in Jobs, ServeWrite(j) \/ Work(j) PROVE Shape'
  BY <1>6, <1>7 DEF ServeWrite, Work, Answered
<1>8. CASE Restart
  BY <1>6, <1>8 DEF Restart
<1> QED
  BY <1>1, <1>2, <1>3, <1>4, <1>5, <1>7, <1>8 DEF Serves

LEMMA ShapeStep ==
  ASSUME Shape, PageMeaning, ServerMeaning, Serving, [Next]_vars PROVE Shape'
<1>1. CASE UNCHANGED vars
  BY <1>1 DEF Shape, vars, storeVars, inputVars
<1> QED
  BY <1>1, AuthorTyped, ArrivesTyped, PollTyped, NetworkTyped DEF Next

\* A call whose answer has moved on is the same call to the page.
Kin(n, k) == n.kind = k.kind /\ n.chapter = k.chapter /\ n.epoch = k.epoch /\ n.token = k.token

PageKeeps == PageMeaning /\ Asked /\ TypedIsKept

\* With it, the page and its calls are as they were to each other.
LEMMA MappedKeeps ==
  ASSUME PageInv, NEW f, calls' = {f[k] : k \in calls}, \A k \in calls : Kin(f[k], k),
         UNCHANGED pageVars
  PROVE  PageKeeps'
<1> USE DEF pageVars, inputVars
<1>1. PageMeaning'
  BY DEF PageInv, PageMeaning
<1>2. References' /\ Departed'
  BY DEF PageInv, Asked, References, Departed, Mine, Kin
<1>3. OneAtATime'
  BY DEF PageInv, Asked, OneAtATime, Mine, Kin
<1>4. Awaited'
  BY DEF PageInv, Asked, Awaited, Mine, Kin, Loaded
<1>5. ASSUME NEW n \in calls' PROVE Waits(n)'
  <2>1. PICK k \in calls : n = f[k]
    OBVIOUS
  <2>2. Waits(k) /\ Kin(n, k)
    BY <2>1 DEF PageInv, Asked
  <2> QED
    BY <2>2 DEF Waits, Mine, Kin
<1> QED
  BY <1>1, <1>2, <1>3, <1>4, <1>5 DEF PageKeeps, Asked, PageInv, TypedIsKept

LEMMA BecomesKeeps ==
  ASSUME PageInv, NEW k \in calls, NEW n, Kin(n, k), Becomes(k, n), UNCHANGED pageVars
  PROVE  PageKeeps'
<1> DEFINE f == [l \in calls |-> IF l = k THEN n ELSE l]
<1>1. calls' = {f[l] : l \in calls}
  BY DEF Becomes
<1>2. \A l \in calls : Kin(f[l], l)
  BY DEF Kin
<1> HIDE DEF f
<1> QED
  BY <1>1, <1>2, MappedKeeps

LEMMA TimeOutKeeps ==
  ASSUME PageInv, NEW k \in calls, TimeOut(k) PROVE PageKeeps'
<1> DEFINE n == [k EXCEPT !.state = "error"]
           o == [k EXCEPT !.token = 0, !.epoch = 0]
<1>1. /\ calls' = (calls \ {k}) \union {n, o} /\ Kin(n, k)
      /\ o.token = 0 /\ o.epoch = 0 /\ o.kind = k.kind /\ o.kind \in {"save", "presave", "write"}
      /\ k \in CallRecords
  BY DEF TimeOut, Kin, PageInv, Shape, CallRecords
<1>2. UNCHANGED <<page, departed, inputVars, heard>> /\ page \in PageRecords
  BY DEF TimeOut, PageInv, Shape
<1>3. page.token # 0 /\ page.epoch # 0 /\ page.token \in Nat /\ page.epoch \in Nat
  BY DEF PageInv, PageMeaning, Shape, PageRecords
<1> HIDE DEF n, o
<1> USE DEF inputVars
<1>4. PageMeaning'
  BY <1>2, <1>3 DEF PageInv, PageMeaning
<1>5. \A l \in calls' : l = o \/ l = n \/ l \in calls \ {k}
  BY <1>1
<1>6. References'
  BY <1>1, <1>2, <1>3, <1>5 DEF PageInv, Asked, References, Mine, Kin
<1>7. Departed'
  BY <1>2 DEF PageInv, Asked, Departed
<1>8. OneAtATime'
  <2>1. ~Mine(o)' /\ (Mine(n)' <=> Mine(k))
    BY <1>1, <1>2, <1>3 DEF Mine, Kin
  <2> QED
    BY <1>1, <1>2, <1>5, <2>1 DEF PageInv, Asked, OneAtATime, Mine, Kin
<1>9. Awaited'
  BY <1>1, <1>2, <1>5 DEF PageInv, Asked, Awaited, Mine, Kin, Loaded
<1>10. ASSUME NEW l \in calls' PROVE Waits(l)'
  <2>1. CASE l = o
    BY <1>1, <1>2, <1>3, <2>1 DEF Waits, Mine
  <2>2. CASE l = n
    <3>1. Waits(k) /\ Kin(l, k)
      BY <1>1, <2>2 DEF PageInv, Asked
    <3> QED
      BY <1>2, <3>1 DEF Waits, Mine, Kin
  <2>3. CASE l \in calls
    <3>1. Waits(l)
      BY <2>3 DEF PageInv, Asked
    <3> QED
      BY <1>2, <3>1 DEF Waits, Mine
  <2> QED
    BY <1>5, <2>1, <2>2, <2>3
<1> QED
  BY <1>2, <1>4, <1>6, <1>7, <1>8, <1>9, <1>10 DEF PageKeeps, Asked, PageInv, TypedIsKept

LEMMA NetworkKeeps ==
  ASSUME PageInv,
         \/ \E k \in calls : NetworkError(k) \/ TimeOut(k) \/ Serves(k)
         \/ \E j \in Jobs : ServeWrite(j) \/ Work(j)
         \/ Restart
  PROVE  PageKeeps'
<1>0. \A k \in calls : k \in CallRecords
  BY DEF PageInv, Shape
<1>1. ASSUME NEW k \in calls, NetworkError(k) \/ Serves(k) PROVE PageKeeps'
  <2> DEFINE answer == Server!Patched(patch[k.via].loaded, k.body, TRUE)
  <2>1. /\ Kin([k EXCEPT !.state = "error"], k)
        /\ Kin([k EXCEPT !.state = "ok", !.status = row[k.chapter].status,
                         !.body = row[k.chapter].body], k)
        /\ Kin([k EXCEPT !.state = "ok", !.status = answer.status, !.body = answer.body], k)
        /\ \A v : Kin([k EXCEPT !.state = "served", !.via = v], k)
    BY <1>0 DEF Kin, CallRecords
  <2>2. CASE NetworkError(k)
    BY <2>1, <2>2, BecomesKeeps DEF NetworkError
  <2>3. CASE ServeGet(k)
    BY <2>1, <2>3, BecomesKeeps DEF ServeGet
  <2>4. CASE SavePatch(k)
    BY <2>1, <2>4, BecomesKeeps DEF SavePatch
  <2>5. ASSUME NEW e \in Editors, LoadPatch(k, e) PROVE PageKeeps'
    BY <2>1, <2>5, BecomesKeeps DEF LoadPatch
  <2>6. ASSUME NEW j \in Jobs, CheckWrite(k, j) PROVE PageKeeps'
    BY <2>1, <2>6, BecomesKeeps DEF CheckWrite
  <2> QED
    BY <1>1, <2>2, <2>3, <2>4, <2>5, <2>6 DEF Serves
<1>2. ASSUME NEW j \in Jobs, NEW s, Answered(j, s), UNCHANGED pageVars PROVE PageKeeps'
  <2> DEFINE f == [k \in calls |-> IF k.kind = "write" /\ k.state = "served" /\ k.via = j
                                   THEN [k EXCEPT !.state = s] ELSE k]
  <2>1. calls' = {f[k] : k \in calls}
    BY <1>2 DEF Answered
  <2>2. \A k \in calls : Kin(f[k], k)
    BY <1>0 DEF Kin, CallRecords
  <2> HIDE DEF f
  <2> QED
    BY <1>2, <2>1, <2>2, MappedKeeps
<1>3. ASSUME UNCHANGED <<calls, pageVars>> PROVE PageKeeps'
  <2> DEFINE f == [k \in calls |-> k]
  <2>1. calls' = {f[k] : k \in calls} /\ \A k \in calls : Kin(f[k], k)
    BY <1>3 DEF Kin
  <2> HIDE DEF f
  <2> QED
    BY <1>3, <2>1, MappedKeeps
<1>4. ASSUME NEW j \in Jobs, ServeWrite(j) \/ Work(j) PROVE PageKeeps'
  BY <1>2, <1>3, <1>4 DEF ServeWrite, Work
<1>5. CASE Restart
  <2> DEFINE f == [k \in calls |-> IF k.kind # "confirm" /\ k.state \in {"sent", "served"}
                                   THEN [k EXCEPT !.state = "error"] ELSE k]
  <2>1. calls' = {f[k] : k \in calls}
    BY <1>5 DEF Restart
  <2>2. \A k \in calls : Kin(f[k], k)
    BY <1>0 DEF Kin, CallRecords
  <2> HIDE DEF f
  <2> QED
    BY <1>5, <2>1, <2>2, MappedKeeps DEF Restart
<1> QED
  BY <1>1, <1>4, <1>5, TimeOutKeeps

----------------------------------------------------------------------------
(* The steps the page takes itself *)

\* The fields that say what the page waits for
Stands == <<page.route, page.due, page.epoch, page.token, page.operation, page.ch, page.status,
            page.job, page.refreshFailed>>

\* Only what is typed or selected changes, and continuations come and go.
LEMMA FieldsKeep ==
  ASSUME PageInv, UNCHANGED <<Stands, departed, overwritten>>,
         \A k \in calls : k.kind # "continue" => k \in calls',
         \A k \in calls' \ calls :
            /\ k.kind = "continue" /\ k.epoch = page.epoch /\ k.token = page.token
            /\ k.chapter = page.route /\ Loaded,
         since' = since \/ (Loaded /\ page.operation = "idle")
  PROVE  PageKeeps'
<1> USE DEF Stands
<1>0. page.token \in Nat /\ page.epoch \in Nat
  BY DEF PageInv, Shape, PageRecords
<1>1. PageMeaning'
  BY DEF PageInv, PageMeaning, Loaded
<1>2. References' /\ Departed'
  BY <1>0 DEF PageInv, Asked, References, Departed, Mine, Loaded, PageMeaning
<1>3. OneAtATime'
  BY DEF PageInv, Asked, OneAtATime, Mine
<1>4. Awaited'
  BY DEF PageInv, Asked, Awaited, Mine, Loaded
<1>5. ASSUME NEW k \in calls' PROVE Waits(k)'
  <2>1. CASE k \in calls
    <3>1. Waits(k)
      BY <2>1 DEF PageInv, Asked
    <3> QED
      BY <3>1 DEF Waits, Mine, Loaded
  <2>2. CASE k.kind = "continue"
    BY <2>2 DEF Waits
  <2> QED
    BY <2>1, <2>2
<1> QED
  BY <1>1, <1>2, <1>3, <1>4, <1>5 DEF PageKeeps, Asked, PageInv, TypedIsKept

\* A call is over that the page did not wait for.
LEMMA IgnoredKeeps ==
  ASSUME PageInv, UNCHANGED <<Stands, departed, overwritten, since>>,
         NEW k \in calls, calls' = calls \ {k},
         ~Mine(k) \/ k.kind \in {"load", "poll", "continue"} \/ page.due
  PROVE  PageKeeps'
<1> USE DEF Stands
<1>1. PageMeaning'
  BY DEF PageInv, PageMeaning
<1>2. References' /\ Departed' /\ OneAtATime'
  BY DEF PageInv, Asked, References, Departed, Mine, OneAtATime
<1>3. Awaited'
  BY DEF PageInv, Asked, Awaited, Mine, Loaded, PageMeaning
<1>4. ASSUME NEW l \in calls' PROVE Waits(l)'
  <2>1. Waits(l)
    BY DEF PageInv, Asked
  <2> QED
    BY <2>1 DEF Waits, Mine
<1> QED
  BY <1>1, <1>2, <1>3, <1>4 DEF PageKeeps, Asked, PageInv, TypedIsKept

\* The page has what it waited for and waits for nothing: it is idle, or generating.
LEMMA EndedKeeps ==
  ASSUME PageInv, UNCHANGED <<page.route, page.due, page.epoch, page.token, departed>>,
         calls' \subseteq calls, \A k \in calls' : Mine(k) => k.kind = "continue",
         page.ch # NoChapter, page'.ch \in {page.ch, page.route}, page'.ch # NoChapter,
         page.due => page'.ch = page.ch,
         \/ page'.operation = "idle" /\ page'.job = NoJob
         \/ page'.operation = "generating" /\ (page'.job # NoJob \/ page'.status = "writing"),
         ~page'.refreshFailed,
         since' \subseteq since, page'.operation # "idle" => since' \subseteq {"summary"},
         overwritten' \subseteq {"summary"}
  PROVE  PageKeeps'
<1>0. page.token \in Nat /\ page.epoch \in Nat
  BY DEF PageInv, Shape, PageRecords
<1>1. PageMeaning'
  BY DEF PageInv, PageMeaning
<1>2. References' /\ Departed' /\ OneAtATime'
  BY DEF PageInv, Asked, References, Departed, Mine, OneAtATime
<1>3. Awaited'
  BY DEF Awaited, Loaded
<1>4. ASSUME NEW l \in calls' PROVE Waits(l)'
  <2>1. Waits(l) /\ (Mine(l) => l.kind = "continue")
    BY DEF PageInv, Asked
  <2> QED
    BY <2>1 DEF Waits, Mine
<1> QED
  BY <1>1, <1>2, <1>3, <1>4 DEF PageKeeps, Asked, TypedIsKept

\* The page asks for something, and waits for nothing else.
LEMMA AskedKeeps ==
  ASSUME PageInv, Loaded, UNCHANGED <<page.route, page.due, page.epoch, page.ch, departed>>,
         page'.token \in {page.token, page.token + 1},
         NEW n, calls' = calls \union {n},
         \A k \in calls : k.token = page'.token => k.kind = "continue",
         n.chapter = page.route, n.epoch = page.epoch, n.token = page'.token,
         Waits(n)', n.kind # "load",
         page'.job # NoJob => page'.operation \in {"generating", "refreshing"},
         page'.refreshFailed => page'.operation = "refreshing",
         page'.operation \in {"generating", "refreshing"} => since' \subseteq {"summary"},
         \/ page'.operation = "saving" /\ n.kind = "save"
         \/ page'.operation = "submitting" /\ n.kind \in {"confirm", "presave", "write"}
         \/ page'.operation = "generating" /\ page'.status = "writing"
         \/ page'.operation = "refreshing" /\ page'.job # NoJob /\ n.kind = "refresh",
         overwritten' = overwritten
  PROVE  PageKeeps'
<1>0. /\ page.token \in Nat /\ page.epoch \in Nat /\ page'.token # 0
      /\ ~page.due /\ page.epoch # 0
      /\ \A k \in calls : k.token \in Nat /\ k.epoch \in Nat
      /\ departed \subseteq Nat
  BY DEF PageInv, Shape, PageRecords, CallRecords, PageMeaning, Loaded
<1>1. PageMeaning'
  BY <1>0 DEF PageInv, PageMeaning, Loaded
<1>2. References'
  BY <1>0 DEF PageInv, Asked, References, Mine
<1>3. Departed'
  BY <1>0 DEF PageInv, Asked, Departed
<1>4. OneAtATime'
  BY DEF OneAtATime, Mine
<1>5. Awaited'
  BY DEF Awaited, Mine
<1>6. ASSUME NEW l \in calls' PROVE Waits(l)'
  <2>1. CASE l = n
    BY <2>1
  <2>2. CASE l \in calls
    <3>1. Waits(l) /\ (l.token = page'.token => l.kind = "continue")
      BY <2>2 DEF PageInv, Asked
    <3> QED
      BY <3>1 DEF Waits, Mine, Loaded
  <2> QED
    BY <2>1, <2>2
<1> QED
  BY <1>1, <1>2, <1>3, <1>4, <1>5, <1>6 DEF PageKeeps, Asked, PageInv, TypedIsKept

\* The first call of a submission is over and the next one begins.
LEMMA SubmittedKeeps ==
  ASSUME PageInv, NEW k \in calls, k.kind \in {"confirm", "presave"},
         NEW n, n.kind \in {"presave", "write"}, n.chapter = k.chapter, n.epoch = k.epoch,
         n.token = k.token, calls' = (calls \ {k}) \union {n},
         UNCHANGED <<page.route, page.due, page.epoch, page.token, page.operation, page.ch,
                     page.job, page.refreshFailed, departed, overwritten>>,
         Mine(k) \/ page'.status = page.status,
         since' \subseteq since, Mine(k) => since' \subseteq {"summary"}
  PROVE  PageKeeps'
<1>1. PageMeaning'
  BY DEF PageInv, PageMeaning
<1>2. References' /\ Departed'
  BY DEF PageInv, Asked, References, Departed, Mine
<1>3. OneAtATime'
  BY DEF PageInv, Asked, OneAtATime, Mine
<1>4. Waits(k)
  BY DEF PageInv, Asked
<1>5. Awaited'
  BY <1>4 DEF PageInv, Asked, Awaited, Mine, Loaded, Waits
<1>6. ASSUME NEW l \in calls' PROVE Waits(l)'
  <2>1. CASE l = n
    BY <1>4, <2>1 DEF Waits, Mine
  <2>2. CASE l \in calls
    <3>1. Waits(l)
      BY <2>2 DEF PageInv, Asked
    <3> QED
      BY <1>4, <3>1 DEF Waits, Mine
  <2> QED
    BY <2>1, <2>2
<1> QED
  BY <1>1, <1>2, <1>3, <1>5, <1>6 DEF PageKeeps, Asked, PageInv, TypedIsKept

LEMMA AuthorKeeps ==
  ASSUME PageInv, Author \/ LoadEffect PROVE PageKeeps'
<1> USE DEF inputVars
<1>0. /\ page \in PageRecords /\ calls \subseteq CallRecords /\ departed \subseteq Nat
      /\ page.token \in Nat /\ page.epoch \in Nat
      /\ \A k \in calls : k \in CallRecords /\ k.token \in Nat /\ k.epoch \in Nat
      /\ \A k \in calls : k.token <= page.token /\ k.epoch <= page.epoch
      /\ NoChapter \notin Chapters /\ NoJob \notin Jobs
  BY NamesAreApart DEF PageInv, Shape, PageRecords, CallRecords, Asked, References
<1>1. ASSUME NEW c \in Chapters, Open(c) PROVE PageKeeps'
  <2>1. page' = [page EXCEPT !.route = c, !.due = TRUE] /\ c # page.route /\ ~page.due
    BY <1>1 DEF Open
  <2>2. /\ page'.route = c /\ page'.due /\ page'.ch = page.ch /\ page'.token = page.token
        /\ page'.epoch = page.epoch /\ page'.operation = page.operation
        /\ page'.job = page.job /\ page'.refreshFailed = page.refreshFailed
    BY <1>0, <2>1 DEF PageRecords
  <2>3. UNCHANGED <<calls, departed, since, overwritten>>
    BY <1>1 DEF Open
  <2>4. PageMeaning'
    BY <1>0, <2>1, <2>2, <2>3 DEF PageInv, PageMeaning
  <2>5. References' /\ Departed' /\ OneAtATime'
    BY <2>1, <2>2, <2>3 DEF PageInv, Asked, References, Departed, OneAtATime, Mine
  <2>6. Awaited'
    BY <2>2, <2>4 DEF Awaited, Loaded, PageMeaning
  <2>7. \A k \in calls' : Waits(k)'
    BY <2>2, <2>3 DEF PageInv, Asked, Waits, Mine
  <2> QED
    BY <2>3, <2>4, <2>5, <2>6, <2>7 DEF PageKeeps, Asked, PageInv, TypedIsKept
<1>2. CASE LoadEffect \/ Reload
  <2>1. /\ Load /\ page.route # NoChapter
    BY <1>2 DEF LoadEffect, Reload, PageInv, PageMeaning
  <2> DEFINE n == Call("load", Reset.route, Reset.epoch, Reset.token, NoText, FALSE)
  <2>2. /\ page' = Reset /\ Reset.route = page.route /\ Reset.epoch = page.epoch + 1
        /\ Reset.token = page.token + 1 /\ Reset.due = FALSE /\ Reset.ch = NoChapter
        /\ Reset.operation = "idle" /\ Reset.job = NoJob /\ Reset.refreshFailed = FALSE
    BY <2>1 DEF Load, Reset, Blank
  <2>3. /\ n.kind = "load" /\ n.chapter = page.route /\ n.epoch = page'.epoch
        /\ n.token = page'.token
    BY <2>2 DEF Call
  <2>4. /\ calls' = calls \union {n} /\ since' = {} /\ UNCHANGED <<departed, overwritten>>
    BY <2>1 DEF Load
  <2> HIDE DEF n
  <2>5. PageMeaning'
    BY <1>0, <2>1, <2>2, <2>4 DEF PageMeaning
  <2>6. References' /\ Departed' /\ OneAtATime'
    BY <1>0, <2>2, <2>3, <2>4 DEF PageInv, Asked, References, Departed, OneAtATime, Mine
  <2>7. Awaited'
    BY <2>2 DEF Awaited, Loaded
  <2>8. \A k \in calls' : Waits(k)'
    BY <1>0, <2>2, <2>3, <2>4 DEF Waits, Mine
  <2> QED
    BY <2>4, <2>5, <2>6, <2>7, <2>8 DEF PageKeeps, Asked, PageInv, TypedIsKept
<1>3. CASE Leave
  <2>1. /\ page'.route = NoChapter /\ page'.due = FALSE /\ page'.epoch = page.epoch + 1
        /\ page'.token = page.token + 1 /\ page'.ch = NoChapter /\ page'.operation = "idle"
        /\ page'.job = NoJob /\ page'.refreshFailed = FALSE
    BY <1>3 DEF Leave, Blank
  <2>2. /\ calls' \subseteq calls /\ since' = {} /\ overwritten' = overwritten
        /\ departed' \subseteq departed \union {page.token}
    BY <1>3 DEF Leave
  <2>3. page.token # 0
    BY <1>3 DEF Leave, PageInv, PageMeaning
  <2>4. PageMeaning'
    BY <1>0, <2>1, <2>2 DEF PageMeaning
  <2>5. References' /\ Departed' /\ OneAtATime'
    BY <1>0, <2>1, <2>2, <2>3 DEF PageInv, Asked, References, Departed, OneAtATime, Mine
  <2>6. Awaited'
    BY <2>1 DEF Awaited, Loaded
  <2>7. \A k \in calls' : Waits(k)'
    BY <1>0, <2>1, <2>2 DEF Waits, Mine
  <2> QED
    BY <2>2, <2>4, <2>5, <2>6, <2>7 DEF PageKeeps, Asked, PageInv, TypedIsKept
<1>4. CASE Type \/ Adjust \/ Summarise \/ Select \/ InlineReplace \/ RetryPoll
  <2>1. UNCHANGED <<Stands, departed, overwritten, calls>>
    BY <1>0, <1>4 DEF Type, Adjust, Summarise, Select, InlineReplace, RetryPoll, Stands,
       PageRecords
  <2>2. since' = since \/ (Loaded /\ page.operation = "idle")
    BY <1>4 DEF Type, Adjust, Summarise, Select, InlineReplace, RetryPoll
  <2> QED
    BY <2>1, <2>2, FieldsKeep
<1>5. CASE AskContinuation
  <2> DEFINE n == Call("continue", page.route, page.epoch, page.token, NoText, FALSE)
  <2>1. /\ calls' = calls \union {n} /\ Loaded /\ UNCHANGED <<page, departed, overwritten, since>>
    BY <1>5 DEF AskContinuation
  <2>2. /\ n.kind = "continue" /\ n.epoch = page.epoch /\ n.token = page.token
        /\ n.chapter = page.route
    BY DEF Call
  <2> HIDE DEF n
  <2> QED
    BY <2>1, <2>2, FieldsKeep DEF Stands
<1>6. CASE Save
  <2>0. PICK n : n = Call("save", page.ch, page.epoch, page.token + 1, page.body, FALSE)
    OBVIOUS
  <2>1. /\ calls' = calls \union {n} /\ Loaded /\ UNCHANGED <<departed, overwritten>> /\ since' = {}
        /\ page' = [page EXCEPT !.token = @ + 1, !.operation = "saving"]
        /\ page.operation = "idle"
    BY <1>6, <2>0 DEF Save
  <2>2. /\ n.kind = "save" /\ n.epoch = page.epoch /\ n.token = page.token + 1
        /\ n.chapter = page.route
    BY <2>0, <2>1 DEF Call, Loaded
  <2>3. /\ UNCHANGED <<page.route, page.due, page.epoch, page.ch, page.job, page.refreshFailed>>
        /\ page'.token = page.token + 1 /\ page'.operation = "saving"
    BY <1>0, <2>1 DEF PageRecords
  <2>4. \A k \in calls : k.token # page'.token
    BY <1>0, <2>3
  <2>5. Waits(n)'
    BY <2>1, <2>2, <2>3 DEF Waits, Mine
  <2>6. page.job = NoJob /\ ~page.refreshFailed
    BY <2>1 DEF PageInv, PageMeaning
  <2> QED
    BY <2>1, <2>2, <2>3, <2>4, <2>5, <2>6, AskedKeeps
<1>7. CASE Write
  <2>1. PICK n : /\ calls' = calls \union {n} /\ n.kind \in {"confirm", "presave", "write"}
                 /\ n.epoch = page.epoch /\ n.token = page.token + 1 /\ n.chapter = page.ch
                 /\ n.kind = "confirm" \/ since' \subseteq {"summary"}
    <3>1. CASE page.saved # NoText \/ page.body # NoText
      <4> DEFINE n == Call("confirm", page.ch, page.epoch, page.token + 1, Keep, page.settings)
      <4>1. calls' = calls \union {n}
        BY <1>7, <3>1 DEF Write
      <4>2. /\ n.kind = "confirm" /\ n.epoch = page.epoch /\ n.token = page.token + 1
            /\ n.chapter = page.ch
        BY DEF Call
      <4> QED
        BY <4>1, <4>2
    <3>2. CASE ~(page.saved # NoText \/ page.body # NoText)
      <4> DEFINE n == Submission(page.ch, page.epoch, page.token + 1, page.settings)
      <4>1. calls' = calls \union {n} /\ since' \subseteq {"summary"}
        BY <1>7, <3>2 DEF Write
      <4>2. /\ n.kind \in {"presave", "write"} /\ n.epoch = page.epoch
            /\ n.token = page.token + 1 /\ n.chapter = page.ch
        BY DEF Submission, Call
      <4> QED
        BY <4>1, <4>2
    <3> QED
      BY <3>1, <3>2
  <2>2. /\ Loaded /\ UNCHANGED <<departed, overwritten>> /\ page.operation = "idle"
        /\ page' = [page EXCEPT !.token = page.token + 1, !.operation = "submitting"]
    BY <1>7 DEF Write
  <2>3. /\ UNCHANGED <<page.route, page.due, page.epoch, page.ch, page.job, page.refreshFailed>>
        /\ page'.token = page.token + 1 /\ page'.operation = "submitting"
    BY <1>0, <2>2 DEF PageRecords
  <2>4. \A k \in calls : k.token # page'.token
    BY <1>0, <2>3
  <2>5. Waits(n)'
    BY <2>1, <2>2, <2>3 DEF Waits, Mine
  <2>6. page.job = NoJob /\ ~page.refreshFailed
    BY <2>2 DEF PageInv, PageMeaning
  <2>7. n.chapter = page.route
    BY <2>1, <2>2 DEF Loaded
  <2> QED
    BY <2>1, <2>2, <2>3, <2>4, <2>5, <2>6, <2>7, AskedKeeps
<1>8. ASSUME NEW k \in calls, CurrentOperation(k)
      PROVE  IF k.token \in departed THEN ~Mine(k) ELSE Mine(k)
  BY <1>0, <1>8 DEF CurrentOperation, PageInv, Asked, Departed, Mine
<1>9. ASSUME NEW k \in calls, Confirm(k) PROVE PageKeeps'
  <2>1. CASE CurrentOperation(k)
    <3> DEFINE n == Submission(k.chapter, k.epoch, k.token, k.settings)
    <3>1. /\ calls' = (calls \ {k}) \union {n} /\ UNCHANGED <<page, departed, overwritten>>
          /\ k.kind = "confirm" /\ since' = IF k.token \in departed THEN since ELSE {}
      BY <1>9, <2>1 DEF Confirm
    <3>2. /\ n.kind \in {"presave", "write"} /\ n.epoch = k.epoch /\ n.token = k.token
          /\ n.chapter = k.chapter
      BY DEF Submission, Call
    <3> HIDE DEF n
    <3> QED
      BY <1>8, <2>1, <3>1, <3>2, SubmittedKeeps
  <2>2. CASE ~CurrentOperation(k)
    <3>1. ~Mine(k) \/ page.due
      BY <1>0, <1>9, <2>2 DEF CurrentOperation, Mine, PageInv, Asked, References, Confirm
    <3> QED
      BY <1>9, <2>2, <3>1, IgnoredKeeps DEF Confirm, Stands
  <2> QED
    BY <2>1, <2>2
<1>10. ASSUME NEW k \in calls, Refuse(k) PROVE PageKeeps'
  <2>1. /\ calls' = calls \ {k} /\ k.kind = "confirm" /\ UNCHANGED <<departed, since, overwritten>>
    BY <1>10 DEF Refuse
  <2>2. CASE Mine(k) /\ CurrentOperation(k)
    <3>1. k.token \notin departed
      BY <1>8, <2>2
    <3>2. page' = [page EXCEPT !.operation = "idle"]
      BY <1>10, <2>2, <3>1 DEF Refuse, Shown
    <3>3. page'.operation = "idle" /\ UNCHANGED <<page.route, page.due, page.epoch, page.token,
                                                 page.ch, page.job, page.refreshFailed>>
      BY <1>0, <3>2 DEF PageRecords
    <3>4. /\ page.operation = "submitting"
          /\ \A l \in calls' : Mine(l) => l.kind = "continue"
      BY <2>1, <2>2 DEF PageInv, Asked, Waits, OneAtATime
    <3>5. page.ch # NoChapter /\ page.job = NoJob /\ ~page.refreshFailed
      BY <3>4 DEF PageInv, PageMeaning
    <3> QED
      BY <2>1, <3>3, <3>4, <3>5, EndedKeeps DEF PageInv, TypedIsKept
  <2>3. CASE ~(Mine(k) /\ CurrentOperation(k))
    <3>1. page' = page
      BY <1>8, <1>10, <2>3 DEF Refuse, Shown
    <3>2. ~Mine(k) \/ page.due
      BY <2>3 DEF CurrentOperation, Mine, PageInv, Asked, References
    <3> QED
      BY <2>1, <3>1, <3>2, IgnoredKeeps DEF Stands
  <2> QED
    BY <2>2, <2>3
<1>11. CASE RetryRefresh
  <2> DEFINE p == [page EXCEPT !.refreshFailed = FALSE]
  <2>0. PICK n : n = Call("refresh", page.ch, page.epoch, page.token, NoText, FALSE)
    OBVIOUS
  <2>1. /\ Loaded /\ page.refreshFailed /\ page.job # NoJob /\ page' = p
        /\ UNCHANGED <<departed, since, overwritten>> /\ calls' = calls \union {GetChapter("refresh", p)}
    BY <1>11 DEF RetryRefresh
  <2>2. /\ n.kind = "refresh" /\ n.epoch = page.epoch /\ n.token = page.token
        /\ n.chapter = page.route
    BY <2>0, <2>1 DEF Call, Loaded
  <2>3. GetChapter("refresh", p) = n
    BY <1>0, <2>0 DEF GetChapter, PageRecords
  <2>4. /\ UNCHANGED <<page.route, page.due, page.epoch, page.ch, page.job, page.token,
                       page.operation>>
        /\ ~page'.refreshFailed
    BY <1>0, <2>1 DEF PageRecords
  <2>5. /\ page.operation = "refreshing" /\ since \subseteq {"summary"}
    BY <2>1 DEF PageInv, PageMeaning
  <2>6. \A k \in calls : k.token = page.token => k.kind = "continue"
    BY <1>0, <2>1, <2>5 DEF PageInv, Asked, Waits, Mine, CallRecords, Kinds
  <2> HIDE DEF p
  <2>7. Waits(n)'
    BY <2>1, <2>2, <2>4, <2>5 DEF Waits, Mine
  <2> QED
    BY <2>1, <2>2, <2>3, <2>4, <2>5, <2>6, <2>7, AskedKeeps
<1> QED
  BY <1>1, <1>2, <1>3, <1>4, <1>5, <1>6, <1>7, <1>9, <1>10, <1>11 DEF Author

\* What CurrentOperation says of a call: it is one of the page's, or of a page that was left.
LEMMA CurrentIsMine ==
  ASSUME PageInv, NEW k \in calls
  PROVE  /\ CurrentOperation(k) /\ k.token \in departed => ~Mine(k) /\ \A p : Shown(k, p) = page
         /\ CurrentOperation(k) /\ k.token \notin departed
               => Mine(k) /\ ~page.due /\ \A p : Shown(k, p) = p
         /\ ~CurrentOperation(k) => ~Mine(k) \/ page.due
<1>1. page.token \in Nat /\ k.token \in Nat
  BY DEF PageInv, Shape, PageRecords, CallRecords
<1> QED
  BY <1>1 DEF CurrentOperation, PageInv, Asked, Departed, References, Mine, Shown

LEMMA ArrivesKeeps ==
  ASSUME PageInv, NEW k \in calls, Arrives(k) PROVE PageKeeps'
<1> USE DEF inputVars
<1>0. /\ page \in PageRecords /\ k \in CallRecords /\ page.token \in Nat /\ page.epoch \in Nat
      /\ \A l \in calls : l \in CallRecords /\ l.token \in Nat /\ l.epoch \in Nat
      /\ \A l \in calls : l.token <= page.token /\ l.epoch <= page.epoch
      /\ NoChapter \notin Chapters /\ NoJob \notin Jobs /\ k.chapter # NoChapter
      /\ departed \subseteq Nat
  BY NamesAreApart DEF PageInv, Shape, PageRecords, CallRecords, Asked, References
<1>1. /\ Waits(k)
      /\ Mine(k) /\ k.kind # "continue" => \A l \in calls \ {k} : Mine(l) => l.kind = "continue"
  BY DEF PageInv, Asked, OneAtATime
<1>2. /\ Applied(k).route = page.route /\ Applied(k).due = page.due /\ Applied(k).epoch = page.epoch
      /\ Applied(k).token = page.token /\ Applied(k).ch = k.chapter
      /\ Applied(k).operation = page.operation /\ Applied(k).job = page.job
      /\ Applied(k).refreshFailed = page.refreshFailed /\ Applied(k).status = k.status
  BY <1>0 DEF Applied, PageRecords
<1>4. CASE LoadArrives(k)
  <2>1. CASE CurrentRequest(k) /\ k.state = "ok"
    <3>1. /\ calls' = calls \ {k} /\ since' = {} /\ overwritten' = overwritten \union since
          /\ departed' = departed /\ k.kind = "load"
          /\ page' = IF k.status = "writing"
                     THEN [Applied(k) EXCEPT !.token = @ + 1, !.operation = "generating"]
                     ELSE Applied(k)
      BY <1>4, <2>1 DEF LoadArrives, Overwrite
    <3>2. k.epoch = page.epoch /\ k.chapter = page.route /\ ~page.due
      BY <2>1 DEF CurrentRequest, PageInv, Asked, References
    <3>3. Mine(k) /\ page.ch = NoChapter /\ since = {} /\ page.operation = "idle"
      BY <1>1, <3>1, <3>2 DEF Waits
    <3>4. page.job = NoJob /\ ~page.refreshFailed /\ page.token # 0 /\ page.epoch # 0
      BY <3>3 DEF PageInv, PageMeaning
    <3>5. /\ UNCHANGED <<page.route, page.due, page.epoch, page.job, page.refreshFailed>>
          /\ page'.ch = k.chapter /\ page'.status = k.status
          /\ IF k.status = "writing"
             THEN page'.token = page.token + 1 /\ page'.operation = "generating"
             ELSE page'.token = page.token /\ page'.operation = "idle"
      <4>1. CASE k.status = "writing"
        <5>1. page' = [Applied(k) EXCEPT !.token = @ + 1, !.operation = "generating"]
          BY <3>1, <4>1
        <5> QED
          BY <1>0, <1>2, <4>1, <5>1 DEF PageRecords
      <4>2. CASE k.status # "writing"
        BY <1>2, <3>1, <3>3, <4>2
      <4> QED
        BY <4>1, <4>2
    <3>6. PageMeaning'
      BY <1>0, <3>1, <3>2, <3>4, <3>5 DEF PageMeaning
    <3>7. References' /\ Departed'
      BY <1>0, <3>1, <3>5 DEF PageInv, Asked, References, Departed, Mine
    <3>8. \A l \in calls' : Mine(l)' => l.kind = "continue"
      BY <1>0, <1>1, <3>1, <3>3, <3>5 DEF Mine
    <3>9. OneAtATime' /\ Awaited'
      BY <3>5, <3>8 DEF OneAtATime, Awaited, Loaded
    <3>10. ASSUME NEW l \in calls' PROVE Waits(l)'
      <4>1. Waits(l) /\ l \in calls /\ l # k
        BY <3>1 DEF PageInv, Asked
      <4>2. ~(l.kind = "load" /\ l.epoch = page.epoch)
        BY <1>1, <3>1, <3>3, <4>1 DEF Waits
      <4> QED
        BY <3>5, <3>8, <4>1, <4>2 DEF Waits
    <3> QED
      BY <3>1, <3>3, <3>6, <3>7, <3>9, <3>10 DEF PageKeeps, Asked, PageInv, TypedIsKept
  <2>2. CASE ~(CurrentRequest(k) /\ k.state = "ok")
    BY <1>4, <2>2, IgnoredKeeps DEF LoadArrives, Stands
  <2> QED
    BY <2>1, <2>2
\* A save, a refresh or a poll that brings the chapter
<1>5. ASSUME Mine(k), k.chapter = page.route, k.kind \in {"save", "refresh", "poll"},
             calls' = calls \ {k}, Overwrite, departed' = departed,
             \/ page' = [Applied(k) EXCEPT !.operation = "idle"] /\ page.job = NoJob
             \/ page' = [Applied(k) EXCEPT !.job = NoJob, !.operation = "idle"],
             ~page.refreshFailed
      PROVE  PageKeeps'
  <2>1. /\ UNCHANGED <<page.route, page.due, page.epoch, page.token, page.refreshFailed>>
        /\ page'.ch = page.route /\ page'.operation = "idle" /\ page'.job = NoJob
    <3>1. CASE page' = [Applied(k) EXCEPT !.operation = "idle"] /\ page.job = NoJob
      BY <1>0, <1>2, <1>5, <3>1 DEF PageRecords
    <3>2. CASE page' = [Applied(k) EXCEPT !.job = NoJob, !.operation = "idle"]
      BY <1>0, <1>2, <1>5, <3>2 DEF PageRecords
    <3> QED
      BY <1>5, <3>1, <3>2
  <2>2. page.operation \in {"saving", "refreshing", "generating"} /\ since \subseteq {"summary"}
    BY <1>1, <1>5 DEF Waits, PageInv, PageMeaning
  <2>3. page.ch # NoChapter /\ page.route # NoChapter /\ ~page.due
    BY <1>0, <1>5, <2>2 DEF PageInv, PageMeaning, Asked, References
  <2>4. /\ since' = {} /\ overwritten' \subseteq {"summary"}
    BY <1>5, <2>2 DEF Overwrite, PageInv, TypedIsKept
  <2> QED
    BY <1>1, <1>5, <2>1, <2>3, <2>4, EndedKeeps
\* A save or a submission that failed
<1>6. ASSUME Mine(k), k.kind \in {"save", "presave", "write"},
             calls' = calls \ {k}, UNCHANGED <<inputVars, departed>>,
             page' = [page EXCEPT !.operation = "idle"]
      PROVE  PageKeeps'
  <2>1. /\ UNCHANGED <<page.route, page.due, page.epoch, page.token, page.refreshFailed, page.ch,
                       page.job>>
        /\ page'.operation = "idle"
    BY <1>0, <1>6 DEF PageRecords
  <2>2. page.operation \in {"saving", "submitting"}
    BY <1>1, <1>6 DEF Waits
  <2>3. page.ch # NoChapter /\ page.job = NoJob /\ ~page.refreshFailed
    BY <2>2 DEF PageInv, PageMeaning
  <2> QED
    BY <1>1, <1>6, <2>1, <2>3, EndedKeeps DEF PageInv, TypedIsKept
<1>7. CASE SaveArrives(k)
  <2>1. CASE ~CurrentRequest(k) \/ k.token # page.token
    <3>1. ~Mine(k) \/ page.due
      BY <2>1 DEF CurrentRequest, Mine, PageInv, Asked, References
    <3> QED
      BY <1>7, <2>1, <3>1, IgnoredKeeps DEF SaveArrives, Stands
  <2>2. CASE CurrentRequest(k) /\ k.token = page.token
    <3>1. Mine(k) /\ k.chapter = page.route
      BY <2>2 DEF Mine, CurrentRequest
    <3>2. page.job = NoJob /\ ~page.refreshFailed
      BY <1>1, <1>7, <3>1 DEF Waits, SaveArrives, PageInv, PageMeaning
    <3> QED
      BY <1>5, <1>6, <1>7, <2>2, <3>1, <3>2 DEF SaveArrives
  <2> QED
    BY <2>1, <2>2
<1>8. CASE PresaveArrives(k)
  <2>1. CASE ~CurrentOperation(k)
    BY <1>8, <2>1, CurrentIsMine, IgnoredKeeps DEF PresaveArrives, Stands
  <2>2. CASE CurrentOperation(k) /\ k.state = "ok"
    <3> DEFINE p == [page EXCEPT !.status = k.status, !.saved = k.body, !.settings = FALSE]
    <3>0. PICK n : n = Submission(k.chapter, k.epoch, k.token, FALSE)
      OBVIOUS
    <3>1. /\ calls' = (calls \ {k}) \union {n} /\ UNCHANGED <<departed, inputVars>>
          /\ k.kind = "presave" /\ page' = Shown(k, p)
      BY <1>8, <2>2, <3>0 DEF PresaveArrives
    <3>2. /\ n.kind \in {"presave", "write"} /\ n.epoch = k.epoch /\ n.token = k.token
          /\ n.chapter = k.chapter
      BY <3>0 DEF Submission, Call
    <3>3. IF k.token \in departed THEN ~Mine(k) /\ page' = page ELSE Mine(k) /\ page' = p
      BY <2>2, <3>1, CurrentIsMine
    <3>4. UNCHANGED <<page.route, page.due, page.epoch, page.token, page.operation, page.ch,
                      page.job, page.refreshFailed>>
      BY <1>0, <3>3 DEF PageRecords
    <3>5. Mine(k) => since \subseteq {"summary"}
      BY <1>1, <3>1 DEF Waits
    <3> HIDE DEF p
    <3> QED
      BY <3>1, <3>2, <3>3, <3>4, <3>5, SubmittedKeeps
  <2>3. CASE CurrentOperation(k) /\ k.state # "ok" /\ k.token \in departed
    BY <1>8, <2>3, CurrentIsMine, IgnoredKeeps DEF PresaveArrives, Stands
  <2>4. CASE CurrentOperation(k) /\ k.state # "ok" /\ k.token \notin departed
    BY <1>6, <1>8, <2>4, CurrentIsMine DEF PresaveArrives
  <2> QED
    BY <2>1, <2>2, <2>3, <2>4
<1>9. CASE WriteArrives(k)
  <2>1. CASE ~CurrentOperation(k)
    BY <1>9, <2>1, CurrentIsMine, IgnoredKeeps DEF WriteArrives, Stands
  <2>2. CASE CurrentOperation(k) /\ k.token \in departed
    BY <1>9, <2>2, CurrentIsMine, IgnoredKeeps DEF WriteArrives, Stands
  <2>3. CASE CurrentOperation(k) /\ k.state # "ok" /\ k.token \notin departed
    BY <1>6, <1>9, <2>3, CurrentIsMine DEF WriteArrives
  <2>4. CASE CurrentOperation(k) /\ k.state = "ok" /\ k.token \notin departed
    <3>1. /\ calls' = calls \ {k} /\ UNCHANGED <<departed, inputVars>> /\ k.kind = "write"
          /\ page' = [page EXCEPT !.job = k.via, !.paused = FALSE, !.status = "writing",
                                  !.operation = "generating"]
          /\ Mine(k)
      BY <1>9, <2>4, CurrentIsMine DEF WriteArrives
    <3>2. /\ UNCHANGED <<page.route, page.due, page.epoch, page.token, page.refreshFailed, page.ch>>
          /\ page'.operation = "generating" /\ page'.status = "writing"
      BY <1>0, <3>1 DEF PageRecords
    <3>3. page.operation = "submitting" /\ since \subseteq {"summary"}
      BY <1>1, <3>1 DEF Waits
    <3>4. page.ch # NoChapter /\ ~page.refreshFailed
      BY <3>3 DEF PageInv, PageMeaning
    <3> QED
      BY <1>1, <3>1, <3>2, <3>3, <3>4, EndedKeeps DEF PageInv, TypedIsKept
  <2> QED
    BY <2>1, <2>2, <2>3, <2>4
<1>10. CASE RefreshArrives(k)
  <2>1. CASE ~CurrentOperation(k) \/ k.token \in departed
    BY <1>10, <2>1, CurrentIsMine, IgnoredKeeps DEF RefreshArrives, Stands
  <2>2. CASE CurrentOperation(k) /\ k.token \notin departed
    <3>1. /\ Mine(k) /\ ~page.due /\ k.kind = "refresh" /\ calls' = calls \ {k} /\ departed' = departed
      BY <1>10, <2>2, CurrentIsMine DEF RefreshArrives
    <3>2. page.operation = "refreshing" /\ ~page.refreshFailed /\ page.job # NoJob
      BY <1>1, <3>1 DEF Waits
    <3>3. k.chapter = page.route
      BY <3>1 DEF PageInv, Asked, References
    <3>4. CASE k.state = "ok" /\ k.status # "writing"
      BY <1>5, <1>10, <2>2, <3>1, <3>2, <3>3, <3>4 DEF RefreshArrives
    <3>5. CASE ~(k.state = "ok" /\ k.status # "writing")
      <4>1. page' = [page EXCEPT !.refreshFailed = TRUE] /\ UNCHANGED inputVars
        BY <1>10, <2>2, <3>5 DEF RefreshArrives
      <4>2. /\ UNCHANGED <<page.route, page.due, page.epoch, page.token, page.ch, page.job,
                           page.operation, page.status>>
            /\ page'.refreshFailed
        BY <1>0, <4>1 DEF PageRecords
      <4>3. PageMeaning'
        BY <3>1, <3>2, <4>1, <4>2 DEF PageInv, PageMeaning
      <4>4. References' /\ Departed' /\ OneAtATime'
        BY <3>1, <4>2 DEF PageInv, Asked, References, Departed, OneAtATime, Mine
      <4>5. Awaited'
        BY <3>2, <4>2 DEF Awaited
      <4>6. ASSUME NEW l \in calls' PROVE Waits(l)'
        <5>1. Waits(l) /\ (Mine(l) => l.kind = "continue")
          BY <1>1, <3>1 DEF PageInv, Asked
        <5> QED
          BY <4>1, <4>2, <5>1 DEF Waits, Mine
      <4> QED
        BY <4>1, <4>3, <4>4, <4>5, <4>6 DEF PageKeeps, Asked, PageInv, TypedIsKept
    <3> QED
      BY <3>4, <3>5
  <2> QED
    BY <2>1, <2>2
<1>11. CASE PollArrives(k)
  <2>1. CASE page' = page /\ UNCHANGED inputVars
    BY <1>11, <2>1, IgnoredKeeps DEF PollArrives, Stands
  <2>2. CASE page' = [page EXCEPT !.paused = TRUE] /\ UNCHANGED inputVars
    <3>1. UNCHANGED Stands
      BY <1>0, <2>2 DEF Stands, PageRecords
    <3> QED
      BY <1>11, <2>2, <3>1, IgnoredKeeps DEF PollArrives
  <2>3. CASE /\ CurrentRequest(k) /\ k.token = page.token
             /\ page' = [Applied(k) EXCEPT !.operation = "idle"] /\ Overwrite
    <3>1. Mine(k) /\ k.chapter = page.route /\ k.kind = "poll"
      BY <1>11, <2>3 DEF CurrentRequest, Mine, PollArrives
    <3>2. page.operation = "generating" /\ page.job = NoJob
      BY <1>1, <3>1 DEF Waits
    <3>3. ~page.refreshFailed
      BY <3>2 DEF PageInv, PageMeaning
    <3> QED
      BY <1>5, <1>11, <2>3, <3>1, <3>2, <3>3 DEF PollArrives
  <2> QED
    BY <1>11, <2>1, <2>2, <2>3 DEF PollArrives
<1>12. CASE ContinuationArrives(k)
  <2>1. UNCHANGED Stands
    BY <1>0, <1>12 DEF ContinuationArrives, Stands, PageRecords
  <2> QED
    BY <1>12, <2>1, IgnoredKeeps DEF ContinuationArrives
<1> QED
  BY <1>4, <1>7, <1>8, <1>9, <1>10, <1>11, <1>12 DEF Arrives

LEMMA PollKeeps ==
  ASSUME PageInv, Poll \/ PollLost PROVE PageKeeps'
<1> USE DEF inputVars
<1>0. page \in PageRecords /\ NoJob \notin Jobs /\ calls \subseteq CallRecords
  BY NamesAreApart DEF PageInv, Shape
<1>1. CASE PollSucceeded
  <2> DEFINE p == [page EXCEPT !.operation = "refreshing", !.refreshFailed = FALSE]
  <2>0. PICK n : n = Call("refresh", page.ch, page.epoch, page.token, NoText, FALSE)
    OBVIOUS
  <2>1. /\ Loaded /\ page.operation = "generating" /\ page.job # NoJob /\ page' = p
        /\ UNCHANGED <<departed, since, overwritten>>
        /\ calls' = calls \union {GetChapter("refresh", p)}
    BY <1>1 DEF PollSucceeded, Polling
  <2>2. /\ n.kind = "refresh" /\ n.epoch = page.epoch /\ n.token = page.token
        /\ n.chapter = page.route
    BY <2>0, <2>1 DEF Call, Loaded
  <2>3. GetChapter("refresh", p) = n
    BY <1>0, <2>0 DEF GetChapter, PageRecords
  <2>4. /\ UNCHANGED <<page.route, page.due, page.epoch, page.ch, page.job, page.token>>
        /\ ~page'.refreshFailed /\ page'.operation = "refreshing"
    BY <1>0, <2>1 DEF PageRecords
  <2>5. since \subseteq {"summary"}
    BY <2>1 DEF PageInv, PageMeaning
  <2>6. \A k \in calls : k.token = page.token => k.kind = "continue"
    BY <1>0, <2>1 DEF PageInv, Asked, Waits, Mine, CallRecords, Kinds
  <2> HIDE DEF p
  <2>7. Waits(n)'
    BY <2>1, <2>2, <2>4, <2>5 DEF Waits, Mine
  <2> QED
    BY <2>1, <2>2, <2>3, <2>4, <2>5, <2>6, <2>7, AskedKeeps
<1>2. CASE PollEnded
  <2>1. /\ page' = [page EXCEPT !.job = NoJob, !.operation = "idle"]
        /\ Loaded /\ page.operation = "generating" /\ page.job # NoJob
        /\ UNCHANGED <<calls, departed, since, overwritten>>
    BY <1>2 DEF PollEnded, Polling
  <2>2. /\ UNCHANGED <<page.route, page.due, page.epoch, page.ch, page.token, page.refreshFailed>>
        /\ page'.operation = "idle" /\ page'.job = NoJob
    BY <1>0, <2>1 DEF PageRecords
  <2>3. \A k \in calls : Mine(k) => k.kind = "continue"
    BY <1>0, <2>1 DEF PageInv, Asked, Waits, CallRecords, Kinds
  <2>4. ~page.refreshFailed /\ page.ch # NoChapter
    BY <2>1 DEF PageInv, PageMeaning
  <2> QED
    BY <2>1, <2>2, <2>3, <2>4, EndedKeeps DEF PageInv, TypedIsKept
<1>3. CASE PollLost
  <2>1. UNCHANGED <<Stands, departed, overwritten, calls, since>>
    BY <1>0, <1>3 DEF PollLost, Stands, PageRecords
  <2> QED
    BY <2>1, FieldsKeep
<1>4. CASE PollChapter
  <2>0. PICK n : n = GetChapter("poll", page)
    OBVIOUS
  <2>1. /\ Loaded /\ page.operation = "generating" /\ page.job = NoJob /\ page.status = "writing"
        /\ UNCHANGED <<page, departed, since, overwritten>> /\ calls' = calls \union {n}
        /\ \A k \in calls : k.kind = "poll" => k.token # page.token
    BY <1>4, <2>0 DEF PollChapter
  <2>2. /\ n.kind = "poll" /\ n.epoch = page.epoch /\ n.token = page.token
        /\ n.chapter = page.route
    BY <2>0, <2>1 DEF GetChapter, Call, Loaded
  <2>3. since \subseteq {"summary"} /\ ~page.refreshFailed
    BY <2>1 DEF PageInv, PageMeaning
  <2>4. \A k \in calls : k.token = page.token => k.kind = "continue"
    BY <1>0, <2>1 DEF PageInv, Asked, Waits, Mine, CallRecords, Kinds
  <2>5. Waits(n)'
    BY <2>1, <2>2 DEF Waits, Mine
  <2> QED
    BY <2>1, <2>2, <2>3, <2>4, <2>5, AskedKeeps
<1> QED
  BY <1>1, <1>2, <1>3, <1>4 DEF Poll

LEMMA PageStep ==
  ASSUME PageInv, [Next]_vars PROVE PageKeeps'
<1>1. CASE UNCHANGED vars
  <2>1. UNCHANGED <<Stands, departed, overwritten, calls, since>>
    BY <1>1 DEF vars, inputVars, Stands
  <2> QED
    BY <2>1, FieldsKeep
<1> QED
  BY <1>1, AuthorKeeps, ArrivesKeeps, PollKeeps, NetworkKeeps DEF Next

----------------------------------------------------------------------------
(* The calls and their requests *)

PageTakes ==
    \/ Author \/ LoadEffect \/ Poll \/ PollLost
    \/ \E k \in calls : Arrives(k)

\* A step of the page asks, forgets and hears, and changes nothing elsewhere.
LEMMA PageMoves ==
  ASSUME PageInv, PageTakes
  PROVE  /\ UNCHANGED storeVars
         /\ \A n \in calls' : n \in calls \/ n.state = "sent"
         /\ page'.token \in Nat /\ page'.token >= page.token
         /\ page'.epoch \in Nat /\ page'.epoch >= page.epoch
         /\ page.due /\ ~page'.due => page'.token > page.token
         /\ \A j \in heard' : j \in heard \/ Pending(j)
<1>0. page \in PageRecords /\ page.token \in Nat /\ page.epoch \in Nat
  BY DEF PageInv, Shape, PageRecords
<1>1. CASE Author \/ LoadEffect
  <2>1. CASE LoadEffect \/ Reload
    <3>1. Load
      BY <2>1 DEF LoadEffect, Reload
    <3> QED
      BY <1>0, <3>1 DEF Load, Reset, Call, Blank
  <2>2. CASE Leave
    BY <1>0, <2>2 DEF Leave, Blank
  <2>3. CASE Author /\ ~Reload /\ ~Leave
    <3>1. UNCHANGED <<storeVars, heard>>
      BY <2>3 DEF Author, Open, Type, Adjust, Summarise, Save, Write, Select, InlineReplace,
         AskContinuation, Confirm, Refuse, RetryPoll, RetryRefresh
    <3>2. \A n \in calls' : n \in calls \/ n.state = "sent"
      <4>0. /\ \A kind, c, e, t, b, d : Call(kind, c, e, t, b, d).state = "sent"
            /\ \A c, e, t, d : Submission(c, e, t, d).state = "sent"
            /\ \A kind, p : GetChapter(kind, p).state = "sent"
        BY DEF Call, Submission, GetChapter
      <4>1. CASE (\E c \in Chapters : Open(c)) \/ Type \/ Adjust \/ Summarise \/ Select
                 \/ InlineReplace \/ AskContinuation \/ RetryPoll \/ RetryRefresh
        <5>1. CASE AskContinuation
          BY <5>1 DEF AskContinuation, Call
        <5>2. CASE RetryRefresh
          BY <4>0, <5>2 DEF RetryRefresh
        <5> QED
          BY <4>1, <5>1, <5>2 DEF Open, Type, Adjust, Summarise, Select, InlineReplace, RetryPoll
      <4>2. CASE Save \/ Write
        <5>1. CASE Save
          BY <5>1 DEF Save, Call
        <5>2. CASE Write /\ (page.saved # NoText \/ page.body # NoText)
          BY <4>0, <5>2 DEF Write
        <5>3. CASE Write /\ ~(page.saved # NoText \/ page.body # NoText)
          BY <4>0, <5>3 DEF Write
        <5> QED
          BY <4>2, <5>1, <5>2, <5>3
      <4>3. ASSUME NEW k \in calls, Confirm(k) \/ Refuse(k)
            PROVE  \A n \in calls' : n \in calls \/ n.state = "sent"
        BY <4>0, <4>3 DEF Confirm, Refuse
      <4> QED
        BY <2>3, <4>1, <4>2, <4>3 DEF Author
    <3>3. /\ page'.epoch = page.epoch /\ page'.token \in {page.token, page.token + 1}
          /\ page.due => page'.due
      <4>1. CASE (\E c \in Chapters : Open(c)) \/ Type \/ Adjust \/ Summarise \/ Select
                 \/ InlineReplace \/ AskContinuation \/ RetryPoll \/ RetryRefresh
        BY <1>0, <4>1 DEF Open, Type, Adjust, Summarise, Select, InlineReplace,
           AskContinuation, RetryPoll, RetryRefresh, PageRecords
      <4>2. CASE Save \/ Write
        BY <1>0, <4>2 DEF Save, Write, PageRecords
      <4>3. ASSUME NEW k \in calls, Confirm(k) \/ Refuse(k)
            PROVE  /\ page'.epoch = page.epoch /\ page'.token = page.token
                   /\ page'.due = page.due
        BY <1>0, <4>3 DEF Confirm, Refuse, Shown, PageRecords
      <4> QED
        BY <2>3, <4>1, <4>2, <4>3 DEF Author
    <3> QED
      BY <1>0, <3>1, <3>2, <3>3
  <2> QED
    BY <1>1, <2>1, <2>2, <2>3
<1>2. CASE Poll \/ PollLost
  <2>1. /\ UNCHANGED <<storeVars, heard>> /\ \A n \in calls' : n \in calls \/ n.state = "sent"
    BY <1>2 DEF Poll, PollSucceeded, PollEnded, PollChapter, PollLost, GetChapter, Call
  <2>2. page'.epoch = page.epoch /\ page'.token = page.token /\ page'.due = page.due
    BY <1>0, <1>2 DEF Poll, PollSucceeded, PollEnded, PollChapter, PollLost, PageRecords
  <2> QED
    BY <1>0, <2>1, <2>2
<1>3. ASSUME NEW k \in calls, Arrives(k)
      PROVE  /\ UNCHANGED storeVars /\ \A n \in calls' : n \in calls \/ n.state = "sent"
             /\ page'.epoch = page.epoch /\ page'.token \in {page.token, page.token + 1}
             /\ page'.due = page.due
             /\ \A j \in heard' : j \in heard \/ Pending(j)
  <2>0. /\ Applied(k).epoch = page.epoch /\ Applied(k).token = page.token
        /\ Applied(k).due = page.due
    BY <1>0 DEF Applied, PageRecords
  <2>1. UNCHANGED storeVars /\ \A n \in calls' : n \in calls \/ n.state = "sent"
    BY <1>3 DEF Arrives, LoadArrives, SaveArrives, PresaveArrives, WriteArrives, RefreshArrives,
       PollArrives, ContinuationArrives, Submission, Call
  <2>2. /\ page'.epoch = page.epoch /\ page'.token \in {page.token, page.token + 1}
        /\ page'.due = page.due
    <3>1. CASE LoadArrives(k)
      BY <1>0, <2>0, <3>1 DEF LoadArrives, Applied, PageRecords
    <3>2. CASE SaveArrives(k) \/ PollArrives(k)
      BY <1>0, <2>0, <3>2 DEF SaveArrives, PollArrives, Applied, PageRecords
    <3>3. CASE RefreshArrives(k)
      BY <1>0, <2>0, <3>3 DEF RefreshArrives, Applied, PageRecords
    <3>4. CASE PresaveArrives(k) \/ WriteArrives(k) \/ ContinuationArrives(k)
      BY <1>0, <3>4 DEF PresaveArrives, WriteArrives, ContinuationArrives, Shown, PageRecords
    <3> QED
      BY <1>3, <3>1, <3>2, <3>3, <3>4 DEF Arrives
  <2>3. \A j \in heard' : j \in heard \/ Pending(j)
    <3>1. CASE WriteArrives(k)
      BY <3>1, CurrentIsMine DEF WriteArrives, Pending, Posts
    <3>2. CASE ~WriteArrives(k)
      BY <1>3, <3>2 DEF Arrives, LoadArrives, SaveArrives, PresaveArrives, RefreshArrives,
         PollArrives, ContinuationArrives
    <3> QED
      BY <3>1, <3>2
  <2> QED
    BY <2>1, <2>2, <2>3
<1> QED
  BY <1>0, <1>1, <1>2, <1>3 DEF PageTakes

\* A call that is sent, lost, or read for the page is in nobody's hands.
LEMMA ServingKept ==
  ASSUME Serving, UNCHANGED serverVars, \A j \in heard' : j \in heard \/ post[j] = "over",
         \A n \in calls' : n \in calls \/ (~Patches(n) /\ ~Posts(n) /\
                                           (n.state = "ok" => n.body # Keep))
  PROVE  Serving'
BY DEF Serving, PatchServed, PostServed, BodyAnswered, HeardIsOver, Patches, Posts, serverVars

\* What a job's steps and a restart make of a call l
Settled(n, l) ==
    \/ n = l
    \/ /\ l.state \in {"sent", "served"} /\ n.state \in {"ok", "error"}
       /\ n.kind = l.kind /\ n.chapter = l.chapter /\ n.via = l.via /\ n.body = l.body
       /\ n.state = "ok" => Posts(l) /\ post'[l.via] = "over"

LEMMA ServingStep ==
  ASSUME PageInv, ServerMeaning, Serving, [Next]_vars
  PROVE  Serving'
<1>0. /\ \A k \in calls : k \in CallRecords
      /\ NoChapter \notin Chapters /\ Keep \notin Server!Texts
      /\ \A c \in Chapters : row[c] \in Server!ChapterRows /\ row[c].exists
      /\ status \in [Jobs -> Server!Row!Statuses] /\ target \in [Jobs -> Chapters \union {NoChapter}]
      /\ post \in [Jobs -> Server!Posting] /\ patch \in [Editors -> PatchRecords]
      /\ \A j \in Jobs : post[j] = "idle" <=> target[j] = NoChapter
      /\ heard \subseteq Jobs
  BY NamesAreApart DEF PageInv, Shape, ServerMeaning, ServerShape, Server!Texts
<1>1. CASE PageTakes
  <2>1. \A n \in calls' : n \in calls \/ (~Patches(n) /\ ~Posts(n) /\ n.state # "ok")
    BY <1>1, PageMoves DEF Patches, Posts
  <2>2. \A j \in heard' : j \in heard \/ post[j] = "over"
    <3>1. ASSUME NEW k \in calls, Arrives(k), NEW j \in heard' PROVE j \in heard \/ post[j] = "over"
      BY <3>1 DEF Arrives, LoadArrives, SaveArrives, PresaveArrives, WriteArrives,
         RefreshArrives, PollArrives, ContinuationArrives, Serving, PatchServed, PostServed, BodyAnswered, HeardIsOver, Posts
    <3>2. CASE Author \/ LoadEffect \/ Poll \/ PollLost
      BY <3>2 DEF Author, Open, Reload, Load, Leave, Type, Adjust, Summarise, Save, Write, Select,
         InlineReplace, AskContinuation, Confirm, Refuse, RetryPoll, RetryRefresh, LoadEffect,
         Poll, PollSucceeded, PollEnded, PollChapter, PollLost
    <3> QED
      BY <1>1, <3>1, <3>2 DEF PageTakes
  <2> QED
    BY <1>1, <2>1, <2>2, PageMoves, ServingKept DEF storeVars
<1>2. ASSUME NEW k \in calls, NetworkError(k) \/ ServeGet(k) PROVE Serving'
  <2>1. /\ [k EXCEPT !.state = "error"].state = "error"
        /\ [k EXCEPT !.state = "ok", !.status = row[k.chapter].status,
                     !.body = row[k.chapter].body].kind = k.kind
        /\ [k EXCEPT !.state = "ok", !.status = row[k.chapter].status,
                     !.body = row[k.chapter].body].body \in Server!Texts
        /\ [k EXCEPT !.state = "ok", !.status = row[k.chapter].status,
                     !.body = row[k.chapter].body].state = "ok"
    BY <1>0 DEF CallRecords, Server!ChapterRows
  <2>2. UNCHANGED serverVars /\ heard' = heard
    BY <1>2 DEF NetworkError, ServeGet, storeVars, pageVars
  <2>3. \A n \in calls' : n \in calls \/ (~Patches(n) /\ ~Posts(n) /\ (n.state = "ok" => n.body # Keep))
    BY <1>0, <1>2, <2>1 DEF NetworkError, ServeGet, Becomes, Patches, Posts
  <2> QED
    BY <2>2, <2>3, ServingKept
<1>3. ASSUME NEW k \in calls, TimeOut(k) PROVE Serving'
  <2> DEFINE n == [k EXCEPT !.state = "error"]
             o == [k EXCEPT !.token = 0, !.epoch = 0]
  <2>1. /\ n.state = "error" /\ o.kind = k.kind /\ o.chapter = k.chapter /\ o.state = k.state
        /\ o.via = k.via /\ o.body = k.body /\ calls' = (calls \ {k}) \union {n, o}
        /\ UNCHANGED <<serverVars, heard>>
    BY <1>0, <1>3 DEF TimeOut, CallRecords, storeVars
  <2> HIDE DEF n, o
  <2>2. ~Patches(n) /\ ~Posts(n) /\ (Patches(o) <=> Patches(k)) /\ (Posts(o) <=> Posts(k))
    BY <2>1 DEF Patches, Posts
  <2>3. \A l \in calls' : l = n \/ l = o \/ l \in calls \ {k}
    BY <2>1
  <2>4. \A l \in calls' : Patches(l) => /\ l.via \in Editors /\ patch[l.via] # Server!NoPatch
                                        /\ patch[l.via].chapter = l.chapter
    BY <2>1, <2>2, <2>3 DEF Serving, PatchServed, PostServed, BodyAnswered, HeardIsOver
  <2>5. \A l, m \in calls' : Patches(l) /\ Patches(m) /\ l.via = m.via => l = m
    BY <2>1, <2>2, <2>3 DEF Serving, PatchServed, PostServed, BodyAnswered, HeardIsOver
  <2>6. \A l \in calls' : Posts(l) => /\ l.via \in Jobs /\ target[l.via] = l.chapter
                                      /\ l.state = "ok" => post[l.via] = "over"
    BY <2>1, <2>2, <2>3 DEF Serving, PatchServed, PostServed, BodyAnswered, HeardIsOver
  <2>7. \A l, m \in calls' : Posts(l) /\ Posts(m) /\ l.via = m.via => l = m
    BY <2>1, <2>2, <2>3 DEF Serving, PatchServed, PostServed, BodyAnswered, HeardIsOver
  <2>8. \A l \in calls' : l.state = "ok" /\ l.kind # "write" => l.body # Keep
    BY <2>1, <2>3 DEF Serving, PatchServed, PostServed, BodyAnswered, HeardIsOver
  <2> QED
    BY <2>1, <2>4, <2>5, <2>6, <2>7, <2>8 DEF Serving, PatchServed, PostServed, BodyAnswered, HeardIsOver, Patches, Posts, serverVars
<1>4. ASSUME NEW k \in calls, NEW e \in Editors, LoadPatch(k, e) PROVE Serving'
  <2> DEFINE n == [k EXCEPT !.state = "served", !.via = e]
  <2>1. /\ n.kind = k.kind /\ n.chapter = k.chapter /\ n.state = "served" /\ n.via = e
        /\ k.kind \in {"save", "presave"} /\ calls' = (calls \ {k}) \union {n} /\ k.chapter \in Chapters
        /\ patch[e] = Server!NoPatch /\ UNCHANGED <<target, post, heard>>
        /\ patch' = [patch EXCEPT ![e] = [chapter |-> k.chapter, loaded |-> row[k.chapter]]]
    BY <1>0, <1>4 DEF LoadPatch, Becomes, CallRecords, Server!LoadPatch, pageVars
  <2> HIDE DEF n
  <2>2. /\ patch'[e] # Server!NoPatch /\ patch'[e].chapter = k.chapter
        /\ \A d \in Editors : d # e => patch'[d] = patch[d]
    BY <1>0, <2>1 DEF Server!NoPatch
  <2>3. \A l \in calls' : l = n \/ l \in calls \ {k}
    BY <2>1
  <2>4. \A l \in calls : Patches(l) => l.via # e
    BY <2>1 DEF Serving, PatchServed, PostServed, BodyAnswered, HeardIsOver
  <2>5. \A l \in calls' : Patches(l) => /\ l.via \in Editors /\ patch'[l.via] # Server!NoPatch
                                        /\ patch'[l.via].chapter = l.chapter
    BY <2>1, <2>2, <2>3, <2>4 DEF Serving, PatchServed, PostServed, BodyAnswered, HeardIsOver
  <2>6. \A l, m \in calls' : Patches(l) /\ Patches(m) /\ l.via = m.via => l = m
    BY <2>1, <2>3, <2>4 DEF Serving, PatchServed, PostServed, BodyAnswered, HeardIsOver
  <2>7. ~Posts(n) /\ n.state # "ok"
    BY <2>1 DEF Posts
  <2> QED
    BY <2>1, <2>3, <2>5, <2>6, <2>7 DEF Serving, PatchServed, PostServed, BodyAnswered, HeardIsOver, Patches, Posts
<1>5. ASSUME NEW k \in calls, SavePatch(k) PROVE Serving'
  <2> DEFINE answer == Server!Patched(patch[k.via].loaded, k.body, TRUE)
             n == [k EXCEPT !.state = "ok", !.status = answer.status, !.body = answer.body]
  <2>1. /\ n.kind = k.kind /\ n.state = "ok" /\ n.body = answer.body
        /\ Patches(k) /\ calls' = (calls \ {k}) \union {n}
        /\ UNCHANGED <<target, post, heard>> /\ patch' = [patch EXCEPT ![k.via] = Server!NoPatch]
    BY <1>0, <1>5 DEF SavePatch, Becomes, CallRecords, Server!SavePatch, pageVars, Patches
  <2>2. k.via \in Editors /\ patch[k.via].loaded \in Server!ChapterRows /\ k.body \in PatchTexts
    BY <1>0, <2>1 DEF Serving, PatchServed, PostServed, BodyAnswered, HeardIsOver, PatchRecords, CallRecords, PatchTexts
  <2>3. answer.body # Keep
    <3>1. answer.body = IF k.body = Keep THEN patch[k.via].loaded.body ELSE k.body
      BY <2>2, PatchedRow
    <3>2. patch[k.via].loaded.body \in Server!Texts
      BY <2>2 DEF Server!ChapterRows
    <3> QED
      BY <1>0, <3>1, <3>2
  <2> HIDE DEF n, answer
  <2>4. \A l \in calls' : l = n \/ l \in calls \ {k}
    BY <2>1
  <2>5. \A l \in calls' : Patches(l) => l \in calls /\ l.via # k.via /\ patch'[l.via] = patch[l.via]
    BY <1>0, <2>1, <2>4 DEF Serving, PatchServed, PostServed, BodyAnswered, HeardIsOver, Patches
  <2>6. ~Posts(n)
    BY <2>1 DEF Posts, Patches
  <2>7. \A l \in calls' : l.state = "ok" /\ l.kind # "write" => l.body # Keep
    BY <2>1, <2>3, <2>4 DEF Serving, PatchServed, PostServed, BodyAnswered, HeardIsOver
  <2> QED
    BY <2>1, <2>4, <2>5, <2>6, <2>7 DEF Serving, PatchServed, PostServed, BodyAnswered, HeardIsOver, Patches, Posts
<1>6. ASSUME NEW k \in calls, NEW j \in Jobs, CheckWrite(k, j) PROVE Serving'
  <2> DEFINE n == [k EXCEPT !.state = "served", !.via = j]
  <2>1. /\ n.kind = "write" /\ n.chapter = k.chapter /\ n.state = "served" /\ n.via = j
        /\ calls' = (calls \ {k}) \union {n} /\ k.chapter \in Chapters /\ post[j] = "idle"
        /\ UNCHANGED <<patch, heard>> /\ target' = [target EXCEPT ![j] = k.chapter]
        /\ post' = [post EXCEPT ![j] = "checked"]
    BY <1>0, <1>6 DEF CheckWrite, Becomes, CallRecords, Server!CheckWrite, pageVars
  <2> HIDE DEF n
  <2>2. target'[j] = k.chapter /\ \A i \in Jobs : i # j => target'[i] = target[i] /\ post'[i] = post[i]
    BY <1>0, <2>1
  <2>3. \A l \in calls' : l = n \/ l \in calls \ {k}
    BY <2>1
  <2>4. \A l \in calls : Posts(l) => l.via # j
    BY <1>0, <2>1 DEF Serving, PatchServed, PostServed, BodyAnswered, HeardIsOver, CallRecords
  <2>5. \A l \in calls' : Posts(l) => /\ l.via \in Jobs /\ target'[l.via] = l.chapter
                                      /\ l.state = "ok" => post'[l.via] = "over"
    BY <2>1, <2>2, <2>3, <2>4 DEF Serving, PatchServed, PostServed, BodyAnswered, HeardIsOver
  <2>6. \A l, m \in calls' : Posts(l) /\ Posts(m) /\ l.via = m.via => l = m
    BY <2>1, <2>3, <2>4 DEF Serving, PatchServed, PostServed, BodyAnswered, HeardIsOver
  <2>7. \A i \in heard' : post'[i] = "over"
    BY <1>0, <2>1, <2>2 DEF Serving, PatchServed, PostServed, BodyAnswered, HeardIsOver
  <2>8. ~Patches(n) /\ n.state # "ok"
    BY <2>1 DEF Patches
  <2>9. \A l \in calls' : Patches(l) => l \in calls
    BY <2>3, <2>8
  <2>10. \A l \in calls' : l.state = "ok" /\ l.kind # "write" => l.body # Keep
    BY <2>3, <2>8 DEF Serving, PatchServed, PostServed, BodyAnswered, HeardIsOver
  <2>11. \A l, m \in calls' : Patches(l) /\ Patches(m) /\ l.via = m.via => l = m
    BY <2>9 DEF Serving, PatchServed, PostServed, BodyAnswered, HeardIsOver
  <2>12. \A l \in calls' : Patches(l) => /\ l.via \in Editors /\ patch'[l.via] # Server!NoPatch
                                         /\ patch'[l.via].chapter = l.chapter
    BY <2>1, <2>9 DEF Serving, PatchServed, PostServed, BodyAnswered, HeardIsOver
  <2> QED
    <3>1. PatchServed'
      BY <2>11, <2>12 DEF PatchServed, Patches
    <3>2. PostServed'
      BY <2>5, <2>6 DEF PostServed, Posts
    <3> QED
      BY <2>7, <2>10, <3>1, <3>2 DEF Serving, BodyAnswered, HeardIsOver
<1>7. ASSUME NEW f, calls' = {f[l] : l \in calls}, heard' = heard, target' = target,
             \A l \in calls : Settled(f[l], l),
             \A j \in Jobs : post[j] = "over" => post'[j] = "over",
             patch' = patch \/ \A l \in calls : ~Patches(f[l])
      PROVE  Serving'
  <2>1. \A l \in calls : /\ Patches(f[l]) => Patches(l) /\ f[l] = l
                         /\ Posts(f[l]) => Posts(l)
                         /\ f[l].via = l.via /\ f[l].chapter = l.chapter
    BY <1>7 DEF Settled, Patches, Posts
  <2>2. \A l \in calls' : Patches(l) => /\ l.via \in Editors /\ patch'[l.via] # Server!NoPatch
                                        /\ patch'[l.via].chapter = l.chapter
    BY <1>7, <2>1 DEF Serving, PatchServed, PostServed, BodyAnswered, HeardIsOver
  <2>3. \A l, m \in calls' : Patches(l) /\ Patches(m) /\ l.via = m.via => l = m
    BY <1>7, <2>1 DEF Serving, PatchServed, PostServed, BodyAnswered, HeardIsOver
  <2>4. \A l \in calls : Posts(f[l]) => /\ f[l].via \in Jobs /\ target'[f[l].via] = f[l].chapter
                                        /\ f[l].state = "ok" => post'[f[l].via] = "over"
    BY <1>7, <2>1 DEF Settled, Serving, PatchServed, PostServed, BodyAnswered, HeardIsOver
  <2>5. \A l, m \in calls' : Posts(l) /\ Posts(m) /\ l.via = m.via => l = m
    BY <1>7, <2>1 DEF Serving, PatchServed, PostServed, BodyAnswered, HeardIsOver
  <2>6. \A l \in calls' : l.state = "ok" /\ l.kind # "write" => l.body # Keep
    BY <1>7 DEF Settled, Serving, PatchServed, PostServed, BodyAnswered, HeardIsOver, Posts
  <2>7. \A j \in heard' : post'[j] = "over"
    BY <1>0, <1>7 DEF Serving, PatchServed, PostServed, BodyAnswered, HeardIsOver
  <2> QED
    <3>1. PatchServed'
      BY <2>2, <2>3 DEF PatchServed, Patches
    <3>2. PostServed'
      BY <1>7, <2>4, <2>5 DEF PostServed, Posts
    <3> QED
      BY <2>6, <2>7, <3>1, <3>2 DEF Serving, BodyAnswered, HeardIsOver
<1>8. ASSUME NEW j \in Jobs, NEW s \in {"ok", "error"}, Answered(j, s), heard' = heard,
             UNCHANGED <<target, patch>>, post' = [post EXCEPT ![j] = "over"]
      PROVE  Serving'
  <2> DEFINE f == [l \in calls |-> IF l.kind = "write" /\ l.state = "served" /\ l.via = j
                                   THEN [l EXCEPT !.state = s] ELSE l]
  <2>1. calls' = {f[l] : l \in calls}
    BY <1>8 DEF Answered
  <2>2. \A i \in Jobs : post'[i] = IF i = j THEN "over" ELSE post[i]
    BY <1>0, <1>8
  <2>3. \A l \in calls : Settled(f[l], l)
    BY <1>0, <2>2 DEF Settled, Posts, CallRecords
  <2> HIDE DEF f
  <2> QED
    BY <1>7, <1>8, <2>1, <2>2, <2>3
<1>9. ASSUME calls' = calls, UNCHANGED <<target, patch, heard>>,
             \A j \in Jobs : post[j] = "over" => post'[j] = "over"
      PROVE  Serving'
  BY <1>0, <1>9 DEF Serving, PatchServed, PostServed, BodyAnswered, HeardIsOver, Patches, Posts
<1>10. ASSUME NEW j \in Jobs, ServeWrite(j) \/ Work(j) PROVE Serving'
  <2>1. CASE Server!MarkWriting(j) /\ UNCHANGED <<calls, heard>>
    BY <1>0, <1>9, <2>1 DEF Server!MarkWriting
  <2>2. CASE Server!EnqueueWrite(j) /\ Answered(j, "ok") /\ UNCHANGED heard
    BY <1>8, <2>2 DEF Server!EnqueueWrite
  <2>3. CASE Server!EnqueueFail(j) /\ Answered(j, "error") /\ UNCHANGED heard
    BY <1>8, <2>3 DEF Server!EnqueueFail
  <2>4. CASE Work(j)
    <3>1. UNCHANGED <<target, post, patch>>
      BY <2>4 DEF Work, Server!BeginWrite, Server!Handle, Server!StartWrite, Server!SkipWrite,
         Server!Load, Server!Generate, Server!Persist, Server!RunError, Server!SyncBible,
         Server!MarkFailed, Server!MarkFailedFails, Server!FinishWrite
    <3> QED
      BY <1>9, <2>4, <3>1 DEF Work, pageVars
  <2> QED
    BY <1>10, <2>1, <2>2, <2>3, <2>4 DEF ServeWrite, pageVars
<1>11. CASE Restart
  <2> DEFINE f == [l \in calls |-> IF l.kind # "confirm" /\ l.state \in {"sent", "served"}
                                   THEN [l EXCEPT !.state = "error"] ELSE l]
  <2>1. calls' = {f[l] : l \in calls} /\ heard' = heard /\ target' = target
    BY <1>11 DEF Restart, pageVars, Server!Restart
  <2>2. \A j \in Jobs : post[j] = "over" => post'[j] = "over"
    BY <1>0, <1>11 DEF Restart, Server!Restart
  <2>3. \A l \in calls : Settled(f[l], l)
    BY <1>0 DEF Settled, CallRecords
  <2>4. \A l \in calls : ~Patches(f[l])
    BY <1>0 DEF Patches, CallRecords
  <2> HIDE DEF f
  <2> QED
    BY <1>7, <2>1, <2>2, <2>3, <2>4
<1>12. CASE UNCHANGED vars
  BY <1>12 DEF vars, storeVars, serverVars, Serving, PatchServed, PostServed, BodyAnswered, HeardIsOver, Patches, Posts
<1> QED
  BY <1>1, <1>2, <1>3, <1>4, <1>5, <1>6, <1>10, <1>11, <1>12 DEF Next, Serves, PageTakes

----------------------------------------------------------------------------
(* Jobs and texts on the server *)

\* A job keeps its chapter, and once its POST is over it begins to be done at most once.
LEMMA ServerMoves ==
  ASSUME ServerMeaning, ServerSteps \/ UNCHANGED serverVars, NEW j \in Jobs
  PROVE  /\ target[j] # NoChapter => target'[j] = target[j]
         /\ post[j] = "over" => post'[j] = "over" /\ (StillWriting(j)' => StillWriting(j))
<1> USE DEF ServerMeaning, ServerShape, Server!jobRows, Server!handlers, Server!Row!Statuses,
        Server!Row!Ended, Server!Posting, Server!Steps, Server!InFlight, StillWriting
<1>1. ASSUME NEW i \in Jobs, NEW c \in Chapters, Server!CheckWrite(i, c)
      PROVE  /\ target[j] # NoChapter => target'[j] = target[j]
             /\ post[j] = "over" => post'[j] = "over" /\ (StillWriting(j)' => StillWriting(j))
  BY <1>1 DEF Server!CheckWrite
<1>2. ASSUME NEW i \in Jobs, Server!MarkWriting(i) \/ Server!EnqueueFail(i) \/ Server!EnqueueWrite(i)
      PROVE  /\ target'[j] = target[j]
             /\ post[j] = "over" => post'[j] = "over" /\ (StillWriting(j)' => StillWriting(j))
  BY <1>2 DEF Server!MarkWriting, Server!EnqueueFail, Server!EnqueueWrite, Server!Row!Create
<1>3. ASSUME NEW i \in Jobs, Server!BeginWrite(i) \/ Server!Handle(i)
      PROVE  target' = target /\ post' = post /\ (StillWriting(j)' => StillWriting(j))
  <2>1. CASE Server!BeginWrite(i)
    BY <2>1 DEF Server!BeginWrite, Server!Row!Begin
  <2>2. CASE Server!FinishWrite(i)
    BY <2>2 DEF Server!FinishWrite, Server!Row!Succeed, Server!Row!Fail
  <2>3. CASE Server!Handle(i) /\ ~Server!FinishWrite(i)
    BY <2>3 DEF Server!Handle, Server!StartWrite, Server!SkipWrite, Server!Load,
       Server!Generate, Server!Persist, Server!RunError, Server!SyncBible, Server!MarkFailed,
       Server!MarkFailedFails
  <2> QED
    BY <1>3, <2>1, <2>2, <2>3
<1>4. ASSUME NEW e \in Editors, (\E c \in Chapters : Server!LoadPatch(e, c))
                                \/ \E text \in PatchTexts : Server!SavePatch(e, text, TRUE)
      PROVE  UNCHANGED <<target, post, status, step>>
  BY <1>4 DEF Server!LoadPatch, Server!SavePatch
<1>5. CASE Server!Restart
  BY <1>5 DEF Server!Restart, Server!Row!Interrupt
<1>6. CASE UNCHANGED serverVars
  BY <1>6 DEF serverVars
<1> QED
  BY <1>1, <1>2, <1>3, <1>4, <1>5, <1>6 DEF ServerSteps, Serves1

\* Where a text is at home it stays so.
LEMMA AtHomeStays ==
  ASSUME ServerMeaning, ServerSteps \/ UNCHANGED serverVars, NEW c \in Chapters, NEW text,
         AtHome(c, text)
  PROVE  AtHome(c, text)'
BY ServerMoves, NamesAreApart DEF AtHome

\* What neither an author typed nor a job wrote is at home anywhere.
LEMMA NobodysText ==
  ASSUME NEW c, NEW text, text \in {NoText, Keep} \union (Chapters \X {"tool"})
  PROVE  AtHome(c, text)
<1>1. \A d \in Chapters : <<d, "typed">> \in Edited /\ <<d, "tool">> \in Edited
                          /\ <<d, "tool">>[2] = "tool" /\ <<d, "typed">>[2] = "typed"
  BY DEF Edited
<1>2. CASE text \in {NoText, Keep}
  BY <1>1, <1>2, NamesAreApart DEF AtHome
<1>3. CASE text \in Chapters \X {"tool"}
  <2>1. text[2] = "tool" /\ text \in Edited
    BY <1>3 DEF Edited
  <2> QED
    BY <1>1, <2>1, NamesAreApart DEF AtHome
<1> QED
  BY <1>2, <1>3

\* What the author types into a chapter is at home there, and what its job writes.
LEMMA OwnText ==
  ASSUME NEW c \in Chapters
  PROVE  AtHome(c, <<c, "typed">>) /\ \A j \in Jobs : target[j] = c => AtHome(c, j)
<1>1. \A d \in Chapters : <<d, "typed">> \in Edited /\ <<d, "typed">>[1] = d
  BY DEF Edited
<1> QED
  BY <1>1, NamesAreApart DEF AtHome

\* The page shows and sends what it was given, and what its author typed where it is.
LEMMA PageHome ==
  ASSUME PageInv, Serving, Home, PageTakes
  PROVE  /\ page'.ch # NoChapter => AtHome(page'.ch, page'.body)
         /\ \A k \in calls' : AtHome(k.chapter, k.body)
<1>0. /\ page \in PageRecords /\ \A k \in calls : k \in CallRecords /\ AtHome(k.chapter, k.body)
      /\ page.ch # NoChapter => AtHome(page.ch, page.body)
      /\ \A c : AtHome(c, NoText) /\ AtHome(c, Keep)
  BY NobodysText DEF PageInv, Shape, Home
<1>1. CASE Author \/ LoadEffect
  <2>1. CASE LoadEffect \/ Reload
    <3>1. Load
      BY <2>1 DEF LoadEffect, Reload
    <3>2. page'.ch = NoChapter
      BY <3>1 DEF Load, Reset, Blank
    <3>3. \A k \in calls' : k \in calls \/ k.body = NoText
      BY <3>1 DEF Load, Call
    <3> QED
      BY <1>0, <3>2, <3>3
  <2>2. CASE Leave
    BY <1>0, <2>2 DEF Leave, Blank
  <2>3. CASE \E c \in Chapters : Open(c)
    BY <1>0, <2>3 DEF Open, PageRecords
  <2>4. CASE Type
    <3>1. page'.ch = page.ch /\ page'.body = <<page.ch, "typed">> /\ page.ch \in Chapters
      BY <1>0, <2>4 DEF Type, Loaded, PageRecords
    <3> QED
      BY <1>0, <2>4, <3>1, OwnText DEF Type
  <2>5. CASE Adjust \/ Summarise \/ Select \/ RetryPoll
    BY <1>0, <2>5 DEF Adjust, Summarise, Select, RetryPoll, PageRecords
  <2>6. CASE InlineReplace
    <3>1. page'.ch = page.ch /\ page'.body \in Chapters \X {"tool"}
      BY <1>0, <2>6 DEF InlineReplace, PageRecords
    <3> QED
      BY <1>0, <2>6, <3>1, NobodysText DEF InlineReplace
  <2>7. CASE AskContinuation
    BY <1>0, <2>7 DEF AskContinuation, Call
  <2>8. CASE Save
    <3>1. /\ page'.ch = page.ch /\ page'.body = page.body /\ page.ch # NoChapter
          /\ \A k \in calls' : k \in calls \/ (k.chapter = page.ch /\ k.body = page.body)
      BY <1>0, <2>8 DEF Save, Call, PageRecords, Loaded
    <3> QED
      BY <1>0, <3>1
  <2>9. CASE Write
    <3>0. /\ \A c, e, t : \A b \in BOOLEAN : Submission(c, e, t, b).body = Keep
          /\ page.settings \in BOOLEAN
      BY <1>0 DEF Submission, Call, PageRecords
    <3>1. \A k \in calls' : k \in calls \/ k.body = Keep
      <4>1. CASE page.saved # NoText \/ page.body # NoText
        BY <2>9, <4>1 DEF Write, Call
      <4>2. CASE ~(page.saved # NoText \/ page.body # NoText)
        BY <2>9, <3>0, <4>2 DEF Write
      <4> QED
        BY <4>1, <4>2
    <3>2. page'.ch = page.ch /\ page'.body = page.body
      BY <1>0, <2>9 DEF Write, PageRecords
    <3> QED
      BY <1>0, <3>1, <3>2
  <2>10. ASSUME NEW k \in calls, Confirm(k) \/ Refuse(k)
         PROVE  /\ page'.ch = page.ch /\ page'.body = page.body
                /\ \A l \in calls' : l \in calls \/ l.body = Keep
    BY <1>0, <2>10 DEF Confirm, Refuse, Shown, Submission, Call, PageRecords
  <2>11. CASE RetryRefresh
    BY <1>0, <2>11 DEF RetryRefresh, GetChapter, Call, PageRecords
  <2> QED
    BY <1>0, <1>1, <2>1, <2>2, <2>3, <2>4, <2>5, <2>6, <2>7, <2>8, <2>9, <2>10, <2>11 DEF Author
<1>2. CASE Poll \/ PollLost
  <2>1. page'.ch = page.ch /\ page'.body = page.body
    BY <1>0, <1>2 DEF Poll, PollSucceeded, PollEnded, PollChapter, PollLost, PageRecords
  <2>2. \A k \in calls' : k \in calls \/ k.body = NoText
    BY <1>0, <1>2 DEF Poll, PollSucceeded, PollEnded, PollChapter, PollLost, GetChapter, Call
  <2> QED
    BY <1>0, <2>1, <2>2
<1>3. ASSUME NEW k \in calls, Arrives(k)
      PROVE  /\ page'.ch # NoChapter => AtHome(page'.ch, page'.body)
             /\ \A l \in calls' : AtHome(l.chapter, l.body)
  <2>1. Applied(k).ch = k.chapter /\ Applied(k).body = k.body
    BY <1>0 DEF Applied, PageRecords
  <2>2. \A l \in calls' : l \in calls \/ l.body = Keep
    BY <1>3 DEF Arrives, LoadArrives, SaveArrives, PresaveArrives, WriteArrives, RefreshArrives,
       PollArrives, ContinuationArrives, Submission, Call
  <2>3. \/ page'.ch = page.ch /\ page'.body = page.body
        \/ page'.ch = k.chapter /\ page'.body = k.body
        \/ page'.ch = page.ch /\ page'.body \in Chapters \X {"tool"}
    <3>1. CASE LoadArrives(k)
      BY <1>0, <2>1, <3>1 DEF LoadArrives, Applied, PageRecords
    <3>2. CASE SaveArrives(k) \/ PollArrives(k)
      BY <1>0, <2>1, <3>2 DEF SaveArrives, PollArrives, Applied, PageRecords
    <3>3. CASE RefreshArrives(k)
      BY <1>0, <2>1, <3>3 DEF RefreshArrives, Applied, PageRecords
    <3>4. CASE PresaveArrives(k) \/ WriteArrives(k)
      BY <1>0, <3>4 DEF PresaveArrives, WriteArrives, Shown, PageRecords
    <3>5. CASE ContinuationArrives(k)
      BY <1>0, <3>5 DEF ContinuationArrives, PageRecords, CallRecords
    <3> QED
      BY <1>3, <3>1, <3>2, <3>3, <3>4, <3>5 DEF Arrives
  <2> QED
    BY <1>0, <2>2, <2>3, NobodysText
<1> QED
  BY <1>1, <1>2, <1>3 DEF PageTakes

\* Being at home after a step
NextHome(c, text) ==
    /\ \A d \in Chapters : text = <<d, "typed">> => d = c
    /\ text \in Jobs => target'[text] = c

\* A job's step leaves every text where it is at home.
LEMMA WorkHome ==
  ASSUME ServerMeaning, Home, NEW j \in Jobs,
         \/ Server!MarkWriting(j) \/ Server!EnqueueWrite(j) \/ Server!EnqueueFail(j)
         \/ Server!BeginWrite(j) \/ Server!Handle(j)
  PROVE  /\ \A c \in Chapters : AtHome(c, row'[c].body)
         /\ patch' = patch /\ target' = target
<1>0. /\ row \in [Chapters -> Server!ChapterRows] /\ \A c \in Chapters : row[c].exists
      /\ post[j] # "idle" => target[j] \in Chapters
      /\ step[j] # "none" => post[j] = "over"
      /\ \A c \in Chapters : AtHome(c, row[c].body)
  BY DEF ServerMeaning, ServerShape, Home
<1>1. ASSUME NEW s \in Server!RowStates, target[j] \in Chapters,
             row' = Server!SetStatus(target[j], s)
      PROVE  \A c \in Chapters : AtHome(c, row'[c].body)
  BY <1>0, <1>1, SetStatusRow
<1>2. CASE Server!MarkWriting(j)
  <2>1. target[j] \in Chapters /\ row' = Server!SetStatus(target[j], "writing")
    BY <1>0, <1>2 DEF Server!MarkWriting
  <2> QED
    BY <1>1, <1>2, <2>1 DEF Server!MarkWriting, Server!RowStates
<1>3. CASE Server!EnqueueWrite(j) \/ Server!EnqueueFail(j) \/ Server!BeginWrite(j)
  BY <1>0, <1>3 DEF Server!EnqueueWrite, Server!EnqueueFail, Server!BeginWrite
<1>4. CASE Server!Handle(j) /\ ~Server!Persist(j) /\ ~Server!MarkFailed(j)
  BY <1>0, <1>4 DEF Server!Handle, Server!StartWrite, Server!SkipWrite, Server!Load,
     Server!Generate, Server!RunError, Server!SyncBible, Server!MarkFailedFails,
     Server!FinishWrite
<1>5. CASE Server!Persist(j)
  <2>1. target[j] \in Chapters /\ row[target[j]].exists /\ step[j] = "persist"
    BY <1>0, <1>5 DEF Server!Persist
  <2>2. row' = [row EXCEPT ![target[j]] = [exists |-> TRUE, status |-> "written",
                                           body |-> j, card |-> TRUE]]
    BY <1>5, <2>1 DEF Server!Persist
  <2>3. \A c \in Chapters : row'[c].body = IF c = target[j] THEN j ELSE row[c].body
    BY <1>0, <2>1, <2>2
  <2>4. AtHome(target[j], j)
    BY <2>1, OwnText
  <2> QED
    BY <1>0, <1>5, <2>3, <2>4 DEF Server!Persist
<1>6. CASE Server!MarkFailed(j)
  <2>1. target[j] \in Chapters /\ row' = Server!SetStatus(target[j], "failed")
    BY <1>0, <1>6 DEF Server!MarkFailed
  <2> QED
    BY <1>1, <1>6, <2>1 DEF Server!MarkFailed, Server!RowStates
<1> QED
  BY <1>2, <1>3, <1>4, <1>5, <1>6

LEMMA HomeStep ==
  ASSUME PageInv, ServerMeaning, Serving, Home, [Next]_vars PROVE Home'
<1>0. /\ page \in PageRecords /\ \A k \in calls : k \in CallRecords
      /\ row \in [Chapters -> Server!ChapterRows] /\ NoChapter \notin Chapters
      /\ patch \in [Editors -> PatchRecords]
      /\ \A c \in Chapters : row[c].exists
      /\ \A e \in Editors : patch[e] # Server!NoPatch => patch[e].chapter \in Chapters
  BY NamesAreApart DEF PageInv, Shape, ServerMeaning, ServerShape
<1>1. \A c \in Chapters : \A text : AtHome(c, text) => NextHome(c, text)
  <2>1. ServerSteps \/ UNCHANGED serverVars
    BY ServerTakes DEF PageInv, vars, storeVars
  <2>2. \A j \in Jobs : target[j] # NoChapter => target'[j] = target[j]
    BY <2>1, ServerMoves
  <2> QED
    BY <1>0, <2>2 DEF AtHome, NextHome
<1>2. /\ page.ch # NoChapter => NextHome(page.ch, page.body)
      /\ \A k \in calls : NextHome(k.chapter, k.body)
      /\ \A c \in Chapters : NextHome(c, row[c].body)
      /\ \A e \in Editors : patch[e] # Server!NoPatch =>
                               NextHome(patch[e].chapter, patch[e].loaded.body)
  BY <1>0, <1>1 DEF Home, CallRecords, PageRecords
<1>3. ASSUME page'.ch # NoChapter => NextHome(page'.ch, page'.body),
             \A k \in calls' : NextHome(k.chapter, k.body),
             \A c \in Chapters : NextHome(c, row'[c].body),
             \A e \in Editors : patch'[e] # Server!NoPatch =>
                                   NextHome(patch'[e].chapter, patch'[e].loaded.body)
      PROVE  Home'
  BY <1>3 DEF Home, AtHome, NextHome
<1>4. CASE PageTakes
  <2>1. target' = target /\ row' = row /\ patch' = patch
    BY <1>4, PageMoves DEF storeVars, serverVars
  <2>2. /\ page'.ch # NoChapter => NextHome(page'.ch, page'.body)
        /\ \A k \in calls' : NextHome(k.chapter, k.body)
    BY <1>4, <2>1, PageHome DEF AtHome, NextHome
  <2> QED
    BY <1>2, <1>3, <2>1, <2>2
\* The network and the server: the page is as it was.
<1>5. ASSUME UNCHANGED <<page, row, patch>>,
             \A n \in calls' : \E k \in calls : n.chapter = k.chapter /\ n.body = k.body
      PROVE  Home'
  BY <1>2, <1>3, <1>5
<1>6. ASSUME NEW k \in calls, NetworkError(k) \/ TimeOut(k) PROVE Home'
  <2>1. /\ \A n \in calls' : \E l \in calls : n.chapter = l.chapter /\ n.body = l.body
        /\ UNCHANGED <<page, row, patch>>
    BY <1>0, <1>6 DEF NetworkError, TimeOut, Becomes, CallRecords, storeVars, serverVars, pageVars
  <2> QED
    BY <1>5, <2>1
<1>7. ASSUME NEW k \in calls, ServeGet(k) PROVE Home'
  <2> DEFINE n == [k EXCEPT !.state = "ok", !.status = row[k.chapter].status,
                            !.body = row[k.chapter].body]
  <2>1. n.chapter = k.chapter /\ n.body = row[k.chapter].body /\ k.chapter \in Chapters
    BY <1>0 DEF CallRecords
  <2>2. calls' = (calls \ {k}) \union {n} /\ UNCHANGED <<page, row, patch>>
    BY <1>7 DEF ServeGet, Becomes, storeVars, serverVars, pageVars
  <2> HIDE DEF n
  <2> QED
    BY <1>2, <1>3, <2>1, <2>2
<1>8. ASSUME NEW k \in calls, NEW e \in Editors, LoadPatch(k, e) PROVE Home'
  <2>1. /\ UNCHANGED <<page, row>> /\ k.chapter \in Chapters
        /\ \A n \in calls' : \E l \in calls : n.chapter = l.chapter /\ n.body = l.body
        /\ patch' = [patch EXCEPT ![e] = [chapter |-> k.chapter, loaded |-> row[k.chapter]]]
    BY <1>0, <1>8 DEF LoadPatch, Server!LoadPatch, Becomes, CallRecords, pageVars
  <2> QED
    BY <1>0, <1>2, <1>3, <2>1
<1>9. ASSUME NEW k \in calls, SavePatch(k) PROVE Home'
  <2> DEFINE answer == Server!Patched(patch[k.via].loaded, k.body, TRUE)
             n == [k EXCEPT !.state = "ok", !.status = answer.status, !.body = answer.body]
  <2>1. /\ k.via \in Editors /\ patch[k.via] # Server!NoPatch /\ patch[k.via].chapter = k.chapter
        /\ patch[k.via].loaded \in Server!ChapterRows /\ k.body \in PatchTexts
        /\ k.chapter \in Chapters
    BY <1>0, <1>9 DEF SavePatch, Serving, PatchServed, Patches, PatchRecords, CallRecords, PatchTexts
  <2>2. NextHome(k.chapter, answer.body)
    <3>1. answer.body = IF k.body = Keep THEN patch[k.via].loaded.body ELSE k.body
      BY <2>1, PatchedRow
    <3> QED
      BY <1>2, <2>1, <3>1
  <2>3. n.chapter = k.chapter /\ n.body = answer.body
    BY <1>0 DEF CallRecords
  <2>4. /\ calls' = (calls \ {k}) \union {n} /\ page' = page
        /\ row' = [row EXCEPT ![k.chapter] = answer]
        /\ patch' = [patch EXCEPT ![k.via] = Server!NoPatch]
    BY <1>0, <1>9, <2>1 DEF SavePatch, Server!SavePatch, Becomes, pageVars
  <2> HIDE DEF n, answer
  <2>5. \A c \in Chapters : NextHome(c, row'[c].body)
    BY <1>0, <1>2, <2>1, <2>2, <2>4
  <2> QED
    BY <1>0, <1>2, <1>3, <2>2, <2>3, <2>4, <2>5
<1>10. ASSUME NEW k \in calls, NEW j \in Jobs, CheckWrite(k, j) PROVE Home'
  <2>1. /\ \A n \in calls' : \E l \in calls : n.chapter = l.chapter /\ n.body = l.body
        /\ UNCHANGED <<page, row, patch>>
    BY <1>0, <1>10 DEF CheckWrite, Server!CheckWrite, Becomes, CallRecords, pageVars
  <2> QED
    BY <1>5, <2>1
<1>11. ASSUME NEW j \in Jobs, ServeWrite(j) \/ Work(j) PROVE Home'
  <2>1. \A n \in calls' : \E l \in calls : n.chapter = l.chapter /\ n.body = l.body
    BY <1>0, <1>11 DEF ServeWrite, Work, Answered, CallRecords
  <2>2. page' = page
    BY <1>11 DEF ServeWrite, Work, pageVars
  <2>3. /\ \A c \in Chapters : AtHome(c, row'[c].body)
        /\ patch' = patch /\ target' = target
    BY <1>11, WorkHome DEF ServeWrite, Work
  <2> QED
    BY <1>2, <1>3, <2>1, <2>2, <2>3 DEF AtHome, NextHome
<1>12. CASE Restart
  <2>1. \A n \in calls' : \E l \in calls : n.chapter = l.chapter /\ n.body = l.body
    BY <1>0, <1>12 DEF Restart, CallRecords
  <2>2. page' = page /\ row' = row /\ \A e \in Editors : patch'[e] = Server!NoPatch
    BY <1>12 DEF Restart, Server!Restart, pageVars
  <2> QED
    BY <1>2, <1>3, <2>1, <2>2
<1>13. CASE UNCHANGED vars
  BY <1>5, <1>13 DEF vars, storeVars, serverVars
<1> QED
  BY <1>4, <1>6, <1>7, <1>8, <1>9, <1>10, <1>11, <1>12, <1>13 DEF Next, Serves, PageTakes

----------------------------------------------------------------------------
(* Jobs the page knows of *)

\* What the network and the server do to the calls
ServerTurn ==
    \/ \E k \in calls : NetworkError(k) \/ TimeOut(k) \/ Serves(k)
    \/ \E j \in Jobs : ServeWrite(j) \/ Work(j)
    \/ Restart

\* They answer the page's calls and leave the page and what it has heard alone.
LEMMA ServerTurns ==
  ASSUME PageInv, ServerTurn
  PROVE  /\ UNCHANGED <<page, heard>> /\ reverted \subseteq reverted'
         /\ \A n \in calls' : Posts(n) /\ Mine(n) =>
               (\E k \in calls : Posts(k) /\ Mine(k) /\ k.via = n.via) \/ post[n.via] = "idle"
         /\ \A n \in calls' : n.kind \in {"load", "poll"} /\ n.state = "ok" =>
               n \in calls \/ (n.chapter \in Chapters /\ n.status = row[n.chapter].status)
<1> DEFINE Goal == /\ UNCHANGED <<page, heard>> /\ reverted \subseteq reverted'
                   /\ \A n \in calls' : Posts(n) /\ Mine(n) =>
                         (\E k \in calls : Posts(k) /\ Mine(k) /\ k.via = n.via)
                         \/ post[n.via] = "idle"
                   /\ \A n \in calls' : n.kind \in {"load", "poll"} /\ n.state = "ok" =>
                         n \in calls \/ (n.chapter \in Chapters
                                         /\ n.status = row[n.chapter].status)
<1>0. /\ \A k \in calls : k \in CallRecords
      /\ \A k \in calls : page.token # 0
  BY DEF PageInv, Shape, PageMeaning
<1>1. ASSUME NEW k \in calls, NetworkError(k) PROVE Goal
  BY <1>0, <1>1 DEF NetworkError, Becomes, Posts, CallRecords, pageVars, storeVars
<1>2. ASSUME NEW k \in calls, TimeOut(k) PROVE Goal
  BY <1>0, <1>2 DEF TimeOut, Posts, Mine, CallRecords, storeVars
<1>3. ASSUME NEW k \in calls, ServeGet(k) PROVE Goal
  <2> DEFINE n == [k EXCEPT !.state = "ok", !.status = row[k.chapter].status,
                            !.body = row[k.chapter].body]
  <2>1. /\ n.kind = k.kind /\ n.kind # "write" /\ n.chapter = k.chapter
        /\ n.status = row[k.chapter].status /\ k.chapter \in Chapters
    BY <1>0, <1>3 DEF ServeGet, CallRecords
  <2>2. /\ calls' = (calls \ {k}) \union {n} /\ UNCHANGED <<page, heard, reverted>>
    BY <1>3 DEF ServeGet, Becomes, pageVars, storeVars
  <2> HIDE DEF n
  <2> QED
    BY <2>1, <2>2 DEF Posts
<1>4. ASSUME NEW k \in calls, NEW e \in Editors, LoadPatch(k, e) PROVE Goal
  BY <1>0, <1>4 DEF LoadPatch, Becomes, Posts, CallRecords, pageVars
<1>5. ASSUME NEW k \in calls, SavePatch(k) PROVE Goal
  <2> DEFINE answer == Server!Patched(patch[k.via].loaded, k.body, TRUE)
             n == [k EXCEPT !.state = "ok", !.status = answer.status, !.body = answer.body]
  <2>1. n.kind = k.kind /\ n.kind \in {"save", "presave"}
    BY <1>0, <1>5 DEF SavePatch, CallRecords
  <2>2. calls' = (calls \ {k}) \union {n} /\ UNCHANGED <<page, heard>>
    BY <1>5 DEF SavePatch, Becomes, pageVars
  <2>3. reverted \subseteq reverted'
    BY <1>5 DEF SavePatch
  <2> HIDE DEF n, answer
  <2> QED
    BY <2>1, <2>2, <2>3 DEF Posts
<1>6. ASSUME NEW k \in calls, NEW j \in Jobs, CheckWrite(k, j) PROVE Goal
  BY <1>0, <1>6 DEF CheckWrite, Server!CheckWrite, Becomes, Posts, CallRecords, pageVars
<1>7. ASSUME NEW j \in Jobs, ServeWrite(j) \/ Work(j) PROVE Goal
  <2>1. CASE Answered(j, "ok") \/ Answered(j, "error")
    BY <1>0, <1>7, <2>1 DEF ServeWrite, Work, Answered, Posts, Mine, CallRecords, pageVars
  <2>2. CASE UNCHANGED calls
    BY <1>7, <2>2 DEF ServeWrite, Work, pageVars, Mine
  <2> QED
    BY <1>7, <2>1, <2>2 DEF ServeWrite, Work
<1>8. CASE Restart
  BY <1>0, <1>8 DEF Restart, Posts, Mine, CallRecords, pageVars
<1> QED
  BY <1>1, <1>2, <1>3, <1>4, <1>5, <1>6, <1>7, <1>8 DEF ServerTurn, Serves

LEMMA Turns ==
  ASSUME [Next]_vars PROVE PageTakes \/ ServerTurn \/ UNCHANGED vars
BY DEF Next, PageTakes, ServerTurn

\* The page learns of no job it had missed.
LEMMA KnownIsOld ==
  ASSUME PageInv, ServerMeaning, [Next]_vars, NEW j \in Jobs, target[j] # NoChapter, Known(j)'
  PROVE  Known(j)
<1>0. \A k \in calls : k.token \in Nat /\ page.token \in Nat /\ k.token <= page.token
  BY DEF PageInv, Shape, CallRecords, PageRecords, Asked, References
<1>1. CASE PageTakes
  <2>1. /\ page'.token \in Nat /\ page'.token >= page.token
        /\ page.due /\ ~page'.due => page'.token > page.token
        /\ \A n \in calls' : n \in calls \/ n.state = "sent"
        /\ \A i \in heard' : i \in heard \/ Pending(i)
    BY <1>1, PageMoves
  <2>2. CASE j \in heard'
    BY <2>1, <2>2 DEF Known
  <2>3. CASE Pending(j)'
    <3>1. PICK n \in calls' : Posts(n) /\ n.via = j /\ n.token = page'.token /\ ~page'.due
      BY <2>3 DEF Pending, Posts, Mine
    <3>2. n \in calls /\ n.token = page.token /\ ~page.due
      BY <1>0, <2>1, <3>1 DEF Posts
    <3> QED
      BY <3>1, <3>2 DEF Known, Pending, Mine
  <2> QED
    BY <2>2, <2>3 DEF Known
<1>2. CASE ServerTurn
  <2>1. UNCHANGED <<page, heard>>
    BY <1>2, ServerTurns
  <2>2. CASE j \in heard'
    BY <2>1, <2>2 DEF Known
  <2>3. CASE Pending(j)'
    <3>1. PICK n \in calls' : Posts(n) /\ n.via = j /\ Mine(n) /\ ~page.due
      BY <2>1, <2>3 DEF Pending, Posts, Mine
    <3>2. post[j] # "idle"
      BY DEF ServerMeaning
    <3> QED
      BY <1>2, <3>1, <3>2, ServerTurns DEF Known, Pending
  <2> QED
    BY <2>2, <2>3 DEF Known
<1>3. CASE UNCHANGED vars
  BY <1>3 DEF vars, Known, Pending, Posts, Mine
<1> QED
  BY <1>1, <1>2, <1>3, Turns

\* An exception lasts.
AllKnown(c) == \A j \in Jobs : target[j] = c => Known(j)

LEMMA ExceptedStays ==
  ASSUME PageInv, ServerMeaning, Serving, [Next]_vars, NEW c \in Chapters, ~Excepted(c)'
  PROVE  ~Excepted(c) /\ AllKnown(c) /\ c \notin reverted' /\ AllKnown(c)'
<1>1. reverted \subseteq reverted'
  BY Turns, PageMoves, ServerTurns DEF vars, storeVars
<1>2. \A j \in Jobs : target[j] = c => target'[j] = c
  <2>1. ServerSteps \/ UNCHANGED serverVars
    BY ServerTakes DEF PageInv, vars, storeVars
  <2> QED
    BY <2>1, ServerMoves, NamesAreApart
<1>3. ASSUME NEW j \in Jobs, target[j] = c PROVE Known(j)
  <2>1. Known(j)'
    BY <1>2, <1>3 DEF Excepted
  <2> QED
    BY <1>3, <2>1, KnownIsOld, NamesAreApart
<1> QED
  BY <1>1, <1>3 DEF Excepted, AllKnown

----------------------------------------------------------------------------
(* IdleIsQuiet *)

LEMMA AccountedKept ==
  ASSUME NEW c, Accounted(c), AllKnown(c),
         \A j \in Jobs : target'[j] = c /\ Active(j)' => target[j] = c /\ Active(j),
         row'[c] = row[c] \/ row'[c].status = "writing"
  PROVE  Accounted(c)'
BY DEF Accounted, AllKnown

\* Who marks a chapter is its only job: the page that asked for it was not locked before.
LEMMA MarksAlone ==
  ASSUME PageInv, ServerMeaning, Serving, NEW c \in Chapters, Locked(c), AllKnown(c),
         NEW j \in Jobs, target[j] = c, post[j] = "checked"
  PROVE  \A i \in Jobs : target[i] = c /\ Active(i) => i = j
<1>1. j \notin heard /\ Pending(j)
  BY DEF AllKnown, Known, Serving, HeardIsOver
<1>2. PICK k \in calls : Posts(k) /\ k.via = j /\ Mine(k) /\ ~page.due
  BY <1>1 DEF Pending
<1>3. k.chapter = c /\ k.kind = "write"
  BY <1>2 DEF Serving, PostServed, Posts
<1>4. /\ page.operation = "submitting" /\ page.ch # NoChapter
      /\ page.ch = page.route /\ page.route = c
  BY <1>2, <1>3 DEF PageInv, PageMeaning, Asked, References, Waits
<1>5. Busy(c) = {}
  BY <1>4 DEF Locked, Loaded
<1>6. ASSUME NEW i \in Jobs, target[i] = c, Active(i) PROVE i = j
  <2>1. i \notin heard
    <3>1. i \in heard => post[i] = "over"
      BY DEF Serving, HeardIsOver
    <3> QED
      BY <1>5, <1>6, <3>1 DEF Busy, Active
  <2>2. PICK l \in calls : Posts(l) /\ l.via = i /\ Mine(l)
    BY <1>6, <2>1 DEF AllKnown, Known, Pending
  <2>3. k = l
    BY <1>2, <2>2 DEF Posts, PageInv, Asked, OneAtATime
  <2> QED
    BY <1>2, <2>2, <2>3
<1> QED
  BY <1>6

\* One job at most stays at work on a chapter, and the chapter says so.
LEMMA AccountedStep ==
  ASSUME PageInv, ServerMeaning, Serving, [Next]_vars, NEW c \in Chapters,
         ~Excepted(c)', Accounted(c), Locked(c)
  PROVE  Accounted(c)'
<1> USE DEF StillWriting, Active
<1>0. /\ AllKnown(c) /\ AllKnown(c)' /\ c \notin reverted' /\ c # NoChapter
      /\ PageInv /\ \A k \in calls : k \in CallRecords
  BY ExceptedStays, NamesAreApart DEF PageInv, Shape
<1>s. /\ status \in [Jobs -> Server!Row!Statuses] /\ target \in [Jobs -> Chapters \union {NoChapter}]
      /\ post \in [Jobs -> Server!Posting] /\ step \in [Jobs -> Server!Steps]
      /\ row \in [Chapters -> Server!ChapterRows]
      /\ \A d \in Chapters : row[d].exists
      /\ \A j \in Jobs : /\ post[j] = "idle" <=> target[j] = NoChapter
                         /\ post[j] # "over" => status[j] = "absent"
                         /\ step[j] # "none" => status[j] = "running"
  BY DEF ServerMeaning, ServerShape
<1>1. CASE UNCHANGED <<status, step, post, target, row>>
  BY <1>0, <1>1, AccountedKept
<1>2. ASSUME NEW k \in calls, SavePatch(k) PROVE Accounted(c)'
  <2> DEFINE answer == Server!Patched(patch[k.via].loaded, k.body, TRUE)
  <2>1. k.via \in Editors /\ patch[k.via].chapter = k.chapter /\ k.chapter \in Chapters
    BY <1>0, <1>2 DEF SavePatch, Serving, PatchServed, Patches, CallRecords
  <2>2. /\ UNCHANGED <<status, step, post, target>>
        /\ row' = [row EXCEPT ![k.chapter] = answer]
    BY <1>s, <1>2, <2>1 DEF SavePatch, Server!SavePatch, Server!jobRows, Server!handlers
  <2>3. reverted' = IF row[k.chapter].status = "writing" /\ answer.status # "writing"
                    THEN reverted \union {k.chapter} ELSE reverted
    BY <1>2 DEF SavePatch
  <2> HIDE DEF answer
  <2>4. CASE k.chapter # c \/ answer.status = "writing"
    BY <1>0, <1>s, <2>1, <2>2, <2>4, AccountedKept
  <2>5. CASE k.chapter = c /\ answer.status # "writing"
    <3>1. row[c].status # "writing"
      BY <1>0, <2>3, <2>5
    <3> QED
      BY <1>0, <2>2, <3>1 DEF Accounted, AllKnown
  <2> QED
    BY <2>4, <2>5
<1>3. ASSUME NEW k \in calls, NEW j \in Jobs, CheckWrite(k, j) PROVE Accounted(c)'
  <2>1. /\ post[j] = "idle" /\ UNCHANGED <<status, step, row>>
        /\ post' = [post EXCEPT ![j] = "checked"]
        /\ \A i \in Jobs : i # j => target'[i] = target[i]
    BY <1>s, <1>3 DEF CheckWrite, Server!CheckWrite, Server!jobRows, Server!handlers
  <2>2. ~Active(j)'
    BY <1>s, <2>1 DEF Server!InFlight
  <2>3. \A i \in Jobs : i # j /\ Active(i)' => Active(i)
    BY <1>s, <2>1
  <2> QED
    BY <1>0, <2>1, <2>2, <2>3, AccountedKept
<1>4. ASSUME NEW j \in Jobs, Server!MarkWriting(j) PROVE Accounted(c)'
  <2>1. /\ target' = target /\ \A i \in Jobs : i # j /\ Active(i)' => Active(i)
        /\ post[j] = "checked" /\ target[j] \in Chapters
        /\ row' = Server!SetStatus(target[j], "writing")
    BY <1>s, <1>4 DEF Server!MarkWriting, Server!jobRows, Server!handlers
  <2>2. /\ row'[target[j]].status = "writing"
        /\ target[j] # c => row'[c] = row[c]
    BY <1>s, <2>1, SetStatusRow DEF Server!RowStates
  <2>3. CASE target[j] # c
    BY <1>0, <2>1, <2>2, <2>3, AccountedKept
  <2>4. CASE target[j] = c
    <3>1. \A i \in Jobs : target'[i] = c /\ Active(i)' => i = j
      BY <1>0, <2>1, <2>4, MarksAlone
    <3> QED
      BY <2>2, <2>4, <3>1 DEF Accounted
  <2> QED
    BY <2>3, <2>4
<1>5. ASSUME NEW j \in Jobs, Server!EnqueueWrite(j) \/ Server!EnqueueFail(j) \/ Server!BeginWrite(j)
      PROVE  Accounted(c)'
  <2>1. target' = target /\ row' = row
    BY <1>5 DEF Server!EnqueueWrite, Server!EnqueueFail, Server!BeginWrite
  <2>2. \A i \in Jobs : Active(i)' => Active(i)
    BY <1>s, <1>5 DEF Server!EnqueueWrite, Server!EnqueueFail, Server!BeginWrite,
       Server!Row!Create, Server!Row!Begin, Server!InFlight, Server!jobRows, Server!handlers
  <2> QED
    BY <1>0, <2>1, <2>2, AccountedKept
<1>6. ASSUME NEW j \in Jobs, Server!Handle(j), ~Server!Persist(j), ~Server!MarkFailed(j)
      PROVE  Accounted(c)'
  <2>1. target' = target /\ row' = row
    BY <1>6 DEF Server!Handle, Server!StartWrite, Server!SkipWrite, Server!Load,
       Server!Generate, Server!RunError, Server!SyncBible, Server!MarkFailedFails,
       Server!FinishWrite
  <2>2. \A i \in Jobs : Active(i)' => Active(i)
    <3>1. CASE Server!FinishWrite(j)
      BY <1>s, <3>1 DEF Server!FinishWrite, Server!Row!Succeed, Server!Row!Fail,
         Server!jobRows, Server!InFlight
    <3>2. CASE ~Server!FinishWrite(j)
      BY <1>s, <1>6, <3>2 DEF Server!Handle, Server!StartWrite, Server!SkipWrite, Server!Load,
         Server!Generate, Server!RunError, Server!SyncBible, Server!MarkFailedFails,
         Server!jobRows, Server!InFlight
    <3> QED
      BY <3>1, <3>2
  <2> QED
    BY <1>0, <2>1, <2>2, AccountedKept
\* The two that end a write
<1>7. ASSUME NEW j \in Jobs, Server!Persist(j) \/ Server!MarkFailed(j) PROVE Accounted(c)'
  <2>1. /\ target' = target /\ target[j] \in Chapters
        /\ Active(j) /\ ~Active(j)' /\ \A i \in Jobs : i # j /\ Active(i)' => Active(i)
    BY <1>s, <1>7 DEF Server!Persist, Server!MarkFailed, Server!jobRows, Server!InFlight
  <2>2. target[j] # c => row'[c] = row[c]
    <3>1. CASE Server!Persist(j)
      BY <1>s, <3>1 DEF Server!Persist
    <3>2. CASE Server!MarkFailed(j)
      BY <1>s, <2>1, <3>2, SetStatusRow DEF Server!MarkFailed, Server!RowStates
    <3> QED
      BY <1>7, <3>1, <3>2
  <2>3. CASE target[j] # c
    BY <1>0, <2>1, <2>2, <2>3, AccountedKept
  <2>4. CASE target[j] = c
    <3>1. \A i \in Jobs : ~(target'[i] = c /\ Active(i)')
      BY <1>0, <2>1, <2>4 DEF Accounted, AllKnown
    <3> QED
      BY <3>1 DEF Accounted
  <2> QED
    BY <2>3, <2>4
<1>8. CASE Restart
  <2>1. target' = target /\ row' = row
    BY <1>8 DEF Restart, Server!Restart
  <2>2. \A i \in Jobs : Active(i)' => Active(i)
    BY <1>s, <1>8 DEF Restart, Server!Restart, Server!Row!Interrupt, Server!InFlight
  <2> QED
    BY <1>0, <2>1, <2>2, AccountedKept
<1>9. CASE PageTakes
  BY <1>1, <1>9, PageMoves DEF storeVars, serverVars
<1>10. ASSUME NEW k \in calls,
              NetworkError(k) \/ TimeOut(k) \/ ServeGet(k) \/ \E e \in Editors : LoadPatch(k, e)
       PROVE  Accounted(c)'
  BY <1>1, <1>10 DEF NetworkError, TimeOut, ServeGet, LoadPatch, Server!LoadPatch, storeVars,
     serverVars, Server!jobRows, Server!handlers
<1> QED
  BY <1>1, <1>2, <1>3, <1>4, <1>5, <1>6, <1>7, <1>8, <1>9, <1>10, Turns
  DEF ServerTurn, Serves, ServeWrite, Work, vars, storeVars, serverVars

\* A job the page has heard of does not begin to write again.
LEMMA BusyShrinks ==
  ASSUME PageInv, ServerMeaning, Serving, [Next]_vars, NEW c \in Chapters, heard' = heard
  PROVE  Busy(c)' \subseteq Busy(c)
<1>1. ServerSteps \/ UNCHANGED serverVars
  BY ServerTakes DEF PageInv, vars, storeVars
<1>2. \A j \in heard : j \in Jobs /\ post[j] = "over" /\ target[j] # NoChapter
  BY NamesAreApart DEF PageInv, Shape, Serving, HeardIsOver, ServerMeaning
<1>3. \A j \in heard : target'[j] = target[j] /\ (StillWriting(j)' => StillWriting(j))
  BY <1>1, <1>2, ServerMoves
<1> QED
  BY <1>3 DEF Busy

\* What a page may become while its jobs are as they were
LEMMA LockedKept ==
  ASSUME NEW c, Locked(c), Busy(c)' \subseteq Busy(c),
         (Loaded /\ page.route = c)' =>
            \/ Busy(c) = {}
            \/ /\ Loaded /\ page.route = c /\ page'.job \in {page.job, NoJob}
               /\ page'.operation = "generating" \/ page'.operation = page.operation
  PROVE  Locked(c)'
BY DEF Locked

\* An ended row has no handler.
LEMMA EndedIsOver ==
  ASSUME ServerMeaning, NEW j \in Jobs, status[j] \in {"succeeded", "failed", "canceled"}
  PROVE  ~StillWriting(j)
BY DEF ServerMeaning, ServerShape, StillWriting, Server!Steps, Server!InFlight

LEMMA LockedStep ==
  ASSUME PageInv, ServerMeaning, Serving, [Next]_vars, NEW c \in Chapters,
         Locked(c), Unlocks(c)
  PROVE  Locked(c)'
<1>0. /\ page \in PageRecords /\ NoJob \notin Jobs /\ NoChapter \notin Chapters
      /\ page.operation \in Operations /\ page.job \in Jobs \union {NoJob}
      /\ \A k \in calls : k \in CallRecords
  BY NamesAreApart DEF PageInv, Shape, PageRecords
<1>1. heard' = heard => Busy(c)' \subseteq Busy(c)
  BY BusyShrinks
\* What belongs to the page it shows
<1>2. /\ Loaded <=> (page.ch # NoChapter /\ ~page.due)
      /\ ~page.due => page.ch \in {NoChapter, page.route}
      /\ page.operation # "idle" => page.ch # NoChapter
      /\ page.job # NoJob => page.operation \in {"generating", "refreshing"}
      /\ \A k \in calls : /\ Mine(k) => Waits(k)
                          /\ k.kind = "load" /\ k.epoch = page.epoch => page.ch = NoChapter /\ Mine(k)
                          /\ k.epoch = page.epoch /\ ~page.due => k.chapter = page.route
  BY <1>0 DEF Loaded, PageInv, PageMeaning, Asked, References, Waits
<1>3. Loaded /\ page.route = c =>
         /\ page.operation \in {"idle", "saving", "submitting", "refreshing"} => Busy(c) = {}
         /\ page.job # NoJob => Busy(c) \subseteq {page.job}
  BY DEF Locked
<1>4. CASE Author \/ LoadEffect
  <2>1. CASE LoadEffect \/ Reload \/ Leave
    <3>1. page'.ch = NoChapter /\ heard' = heard
      <4>1. CASE Leave
        BY <4>1 DEF Leave, Blank
      <4>2. CASE Load
        BY <4>2 DEF Load, Reset, Blank
      <4> QED
        BY <2>1, <4>1, <4>2 DEF LoadEffect, Reload
    <3> QED
      BY <1>1, <3>1, LockedKept DEF Loaded
  <2>2. ASSUME NEW d \in Chapters, Open(d) PROVE Locked(c)'
    <3>1. page'.ch # page'.route /\ heard' = heard
      BY <1>0, <1>2, <2>2 DEF Open, PageRecords
    <3> QED
      BY <1>1, <3>1, LockedKept DEF Loaded
  <2>3. CASE Type \/ Adjust \/ Summarise \/ Select \/ InlineReplace \/ AskContinuation
             \/ RetryPoll \/ RetryRefresh
    <3>1. /\ page'.ch = page.ch /\ page'.route = page.route /\ page'.job = page.job
          /\ page'.operation = page.operation /\ heard' = heard
      BY <1>0, <2>3 DEF Type, Adjust, Summarise, Select, InlineReplace, AskContinuation,
         RetryPoll, RetryRefresh, PageRecords
    <3> QED
      BY <1>1, <3>1, LockedKept DEF Loaded
  <2>4. CASE Save \/ Write
    <3>1. /\ page'.ch = page.ch /\ page'.route = page.route /\ heard' = heard
          /\ Loaded /\ page.operation = "idle"
      BY <1>0, <2>4 DEF Save, Write, PageRecords
    <3> QED
      BY <1>1, <1>3, <3>1, LockedKept DEF Loaded
  <2>5. ASSUME NEW k \in calls, Confirm(k) \/ Refuse(k) PROVE Locked(c)'
    <3>1. heard' = heard /\ (page' = page \/ (Mine(k) /\ k.kind = "confirm"
             /\ page' = [page EXCEPT !.operation = "idle"]))
      BY <2>5, CurrentIsMine DEF Confirm, Refuse
    <3>2. CASE page' = page
      BY <1>1, <3>1, <3>2, LockedKept DEF Loaded
    <3>3. CASE Mine(k) /\ k.kind = "confirm" /\ page' = [page EXCEPT !.operation = "idle"]
      <4>1. page.operation = "submitting"
        BY <1>2, <3>3 DEF Waits
      <4>2. page'.ch = page.ch /\ page'.route = page.route
        BY <1>0, <3>3 DEF PageRecords
      <4> QED
        BY <1>1, <1>3, <3>1, <4>1, <4>2, LockedKept DEF Loaded
    <3> QED
      BY <3>1, <3>2, <3>3
  <2> QED
    BY <1>4, <2>1, <2>2, <2>3, <2>4, <2>5 DEF Author
<1>5. CASE Poll \/ PollLost
  <2>1. CASE PollSucceeded \/ PollEnded
    <3>1. /\ page.job \in Jobs /\ status[page.job] \in {"succeeded", "failed", "canceled"}
          /\ Loaded
      BY <1>0, <2>1 DEF PollSucceeded, PollEnded, Polling
    <3>2. Loaded /\ page.route = c => Busy(c) = {}
      <4>1. ~StillWriting(page.job)
        BY <3>1, EndedIsOver
      <4> QED
        BY <1>0, <1>3, <3>1, <4>1 DEF Busy
    <3>3. page'.ch = page.ch /\ page'.route = page.route /\ heard' = heard
      BY <1>0, <2>1 DEF PollSucceeded, PollEnded, PageRecords
    <3> QED
      BY <1>1, <3>2, <3>3, LockedKept DEF Loaded
  <2>2. CASE PollChapter \/ PollLost
    <3>1. /\ page'.ch = page.ch /\ page'.route = page.route /\ page'.job = page.job
          /\ page'.operation = page.operation /\ heard' = heard
      BY <1>0, <2>2 DEF PollChapter, PollLost, PageRecords
    <3> QED
      BY <1>1, <3>1, LockedKept DEF Loaded
  <2> QED
    BY <1>5, <2>1, <2>2 DEF Poll
<1>6. ASSUME NEW k \in calls, Arrives(k) PROVE Locked(c)'
  <2>0. /\ Applied(k).ch = k.chapter /\ Applied(k).route = page.route
        /\ Applied(k).operation = page.operation /\ Applied(k).job = page.job
        /\ Applied(k).status = k.status
    BY <1>0 DEF Applied, PageRecords
  <2>1. CASE page' = page /\ heard' = heard
    BY <1>1, <2>1, LockedKept DEF Loaded
  \* Answers to the page's own reads: the chapter they show is not being written.
  <2>2. CASE /\ LoadArrives(k) \/ PollArrives(k)
             /\ page' # page
    <3>1. /\ k.chapter = page.route /\ k.epoch = page.epoch /\ heard' = heard
          /\ k.kind = "poll" => Mine(k)
      BY <2>2 DEF LoadArrives, PollArrives, CurrentRequest, Mine
    <3>2. CASE k.state = "ok" /\ k.status # "writing"
      <4>1. page.route = c => Busy(c) = {}
        BY <2>2, <3>1, <3>2 DEF Unlocks, Unlocking, LoadArrives, PollArrives
      <4>2. page'.route = page.route
        BY <1>0, <2>0, <2>2 DEF LoadArrives, PollArrives, Applied, PageRecords
      <4> QED
        BY <1>1, <3>1, <4>1, <4>2, LockedKept
    <3>3. CASE LoadArrives(k) /\ k.state = "ok" /\ k.status = "writing"
      <4>1. page' = [Applied(k) EXCEPT !.token = @ + 1, !.operation = "generating"]
        BY <2>2, <3>3 DEF LoadArrives
      <4>2. page.job = NoJob
        BY <1>2, <3>1, <3>3 DEF LoadArrives
      <4>3. page'.operation = "generating" /\ page'.job = NoJob
        BY <1>0, <4>1, <4>2 DEF Applied, PageRecords
      <4> QED
        BY <4>3 DEF Locked
    <3>4. CASE PollArrives(k) /\ k.state # "ok"
      <4>1. /\ page'.ch = page.ch /\ page'.route = page.route /\ page'.job = page.job
            /\ page'.operation = page.operation
        BY <1>0, <2>2, <3>4 DEF PollArrives, PageRecords
      <4> QED
        BY <1>1, <3>1, <4>1, LockedKept DEF Loaded
    <3> QED
      BY <2>2, <3>2, <3>3, <3>4 DEF LoadArrives, PollArrives
  \* The end of an operation that had the page locked already
  <2>3. CASE /\ SaveArrives(k) \/ PresaveArrives(k) \/ RefreshArrives(k)
             /\ page' # page
    <3>1. Mine(k) /\ ~page.due /\ heard' = heard
      <4>1. CASE SaveArrives(k)
        BY <1>2, <2>3, <4>1 DEF SaveArrives, CurrentRequest, Mine, PageInv, Asked, References
      <4>2. CASE RefreshArrives(k)
        BY <2>3, <4>2, CurrentIsMine DEF RefreshArrives
      <4>3. CASE PresaveArrives(k)
        <5>1. CurrentOperation(k) /\ heard' = heard
          BY <2>3, <4>3 DEF PresaveArrives
        <5>2. k.token \notin departed
          BY <2>3, <4>3, <5>1 DEF PresaveArrives, Shown
        <5> QED
          BY <5>1, <5>2, CurrentIsMine
      <4> QED
        BY <2>3, <4>1, <4>2, <4>3
    <3>2. /\ page.operation \in {"saving", "submitting", "refreshing"}
          /\ Loaded
      BY <1>2, <2>3, <3>1 DEF SaveArrives, PresaveArrives, RefreshArrives, Waits
    <3>3. page'.route = page.route
      BY <1>0, <2>3 DEF SaveArrives, PresaveArrives, RefreshArrives, Applied, Shown, PageRecords
    <3> QED
      BY <1>1, <1>3, <3>1, <3>2, <3>3, LockedKept
  <2>4. CASE ContinuationArrives(k)
    <3>1. /\ page'.ch = page.ch /\ page'.route = page.route /\ page'.job = page.job
          /\ page'.operation = page.operation /\ heard' = heard
      BY <1>0, <2>4 DEF ContinuationArrives, PageRecords
    <3> QED
      BY <1>1, <3>1, LockedKept DEF Loaded
  \* The page hears of a job: it had none on the chapter.
  <2>5. CASE WriteArrives(k) /\ ~(page' = page /\ heard' = heard)
    <3>1. Mine(k) /\ ~page.due /\ k.kind = "write"
          /\ \A p : k.token \notin departed /\ Shown(k, p) = p
      BY <2>5, CurrentIsMine DEF WriteArrives
    <3>2. page.operation = "submitting" /\ Loaded
      BY <1>2, <3>1 DEF Waits
    <3>3. page'.route = page.route
      BY <1>0, <2>5 DEF WriteArrives, Shown, PageRecords
    <3>4. CASE k.state # "ok"
      BY <1>1, <1>3, <2>5, <3>2, <3>3, <3>4, LockedKept DEF WriteArrives
    <3>5. CASE k.state = "ok"
      <4>1. /\ page'.operation = "generating" /\ page'.job = k.via
            /\ heard' = heard \union {k.via} /\ UNCHANGED <<target, status, step>>
        <5>1. CurrentOperation(k) /\ k.token \notin departed
          BY <2>5, <3>1 DEF WriteArrives
        <5>2. page' = [page EXCEPT !.job = k.via, !.paused = FALSE, !.status = "writing",
                                   !.operation = "generating"]
          BY <2>5, <3>5, <5>1 DEF WriteArrives, Shown
        <5>3. heard' = heard \union {k.via} /\ UNCHANGED <<target, status, step>>
          BY <2>5, <3>5, <5>1 DEF WriteArrives, storeVars, serverVars
        <5> QED
          BY <1>0, <5>2, <5>3 DEF PageRecords
      <4>2. page.route = c => Busy(c)' \subseteq {k.via}
        BY <1>3, <3>2, <4>1 DEF Busy, StillWriting
      <4> QED
        BY <3>3, <4>1, <4>2 DEF Locked
    <3> QED
      BY <3>4, <3>5
  <2> QED
    BY <1>6, <2>1, <2>2, <2>3, <2>4, <2>5
    DEF Arrives, LoadArrives, PollArrives, SaveArrives, PresaveArrives, RefreshArrives
<1>7. CASE ServerTurn \/ UNCHANGED vars
  <2>1. UNCHANGED <<page, heard>>
    BY <1>7, ServerTurns DEF vars
  <2> QED
    BY <1>1, <2>1, LockedKept DEF Loaded
<1> QED
  BY <1>4, <1>5, <1>6, <1>7, Turns DEF PageTakes

\* No answer on its way unlocks the page while a job it knows of writes.
LEMMA UnlocksStep ==
  ASSUME PageInv, ServerMeaning, Serving, [Next]_vars, NEW c \in Chapters,
         Accounted(c), Unlocks(c)
  PROVE  Unlocks(c)'
<1>0. \A k \in calls : /\ k.token \in Nat /\ k.token <= page.token
                       /\ k.epoch \in Nat /\ k.epoch <= page.epoch
  BY DEF PageInv, Shape, CallRecords, Asked, References
<1>1. CASE PageTakes
  <2>1. /\ \A n \in calls' : n \in calls \/ n.state = "sent"
        /\ page'.token \in Nat /\ page'.token >= page.token
        /\ page'.epoch \in Nat /\ page'.epoch >= page.epoch
        /\ UNCHANGED <<target, status, step>>
    BY <1>1, PageMoves DEF storeVars, serverVars
  <2>2. page.token \in Nat /\ page.epoch \in Nat
    BY DEF PageInv, Shape, PageRecords
  <2>3. ASSUME NEW n \in calls', Unlocking(n)' PROVE n \in calls /\ Unlocking(n)
    BY <1>0, <2>1, <2>2, <2>3 DEF Unlocking, Mine
  <2>4. CASE heard' = heard
    BY <2>1, <2>3, <2>4 DEF Unlocks, Busy, StillWriting
  <2>5. CASE heard' # heard
    <3>1. PICK k \in calls : WriteArrives(k)
      BY <1>1, <2>5 DEF PageTakes, Author, Open, Reload, Load, Leave, Type, Adjust, Summarise,
         Save, Write, Select, InlineReplace, AskContinuation, Confirm, Refuse, RetryPoll,
         RetryRefresh, LoadEffect, Poll, PollSucceeded, PollEnded, PollChapter, PollLost,
         Arrives, LoadArrives, SaveArrives, PresaveArrives, RefreshArrives, PollArrives,
         ContinuationArrives
    <3>2. Mine(k) /\ k.kind = "write"
      BY <2>5, <3>1, CurrentIsMine DEF WriteArrives
    <3>3. page.operation = "submitting" /\ page.ch # NoChapter
      BY <3>2 DEF PageInv, PageMeaning, Asked, Waits
    <3>4. \A n \in calls : ~Unlocking(n)
      BY <3>3 DEF Unlocking, PageInv, Asked, Waits
    <3> QED
      BY <2>3, <3>4 DEF Unlocks
  <2> QED
    BY <2>4, <2>5
<1>2. CASE ServerTurn \/ UNCHANGED vars
  <2>1. UNCHANGED <<page, heard>>
    BY <1>2, ServerTurns DEF vars
  <2>2. Busy(c)' \subseteq Busy(c)
    BY <2>1, BusyShrinks
  <2>3. row[c].status # "writing" => Busy(c) = {}
    BY DEF Accounted, Known, Active, Busy, PageInv, Shape
  <2>4. ASSUME NEW n \in calls', Unlocking(n)', n.chapter = c PROVE Busy(c) = {}
    <3>1. CASE n \in calls
      BY <2>1, <2>4, <3>1 DEF Unlocks, Unlocking, Mine
    <3>2. CASE n \notin calls
      BY <1>2, <2>3, <2>4, <3>2, ServerTurns DEF Unlocking, vars
    <3> QED
      BY <3>1, <3>2
  <2> QED
    BY <2>2, <2>4 DEF Unlocks
<1> QED
  BY <1>1, <1>2, Turns

LEMMA QuietStep ==
  ASSUME PageInv, ServerMeaning, Serving, Quiet, [Next]_vars PROVE Quiet'
<1>1. ASSUME NEW c \in Chapters, ~Excepted(c)'
      PROVE  Accounted(c)' /\ Locked(c)' /\ Unlocks(c)'
  <2>1. Accounted(c) /\ Locked(c) /\ Unlocks(c)
    BY <1>1, ExceptedStays DEF Quiet
  <2> QED
    BY <1>1, <2>1, AccountedStep, LockedStep, UnlocksStep
<1> QED
  BY <1>1 DEF Quiet

----------------------------------------------------------------------------
(* The theorems *)

LEMMA InitInv == Init => IInv
<1> SUFFICES ASSUME Init PROVE IInv
  OBVIOUS
<1> USE DEF Init, Server!Init, Server!Row!Init
<1>0. page = Blank /\ calls = {} /\ heard = {} /\ NoText \in Server!Texts
  BY DEF Server!Texts
<1>1. PageInv
  <2>1. Shape
    BY <1>0 DEF Shape, PageRecords, Blank, Operations, Server!RowStates
  <2>2. PageMeaning /\ Asked /\ TypedIsKept
    BY <1>0 DEF PageMeaning, Asked, References, Departed, OneAtATime, Awaited, Blank, Loaded,
       TypedIsKept
  <2> QED
    BY <2>1, <2>2 DEF PageInv
<1>2. ServerMeaning
  <2>1. ServerShape
    BY <1>0 DEF ServerShape, Server!Row!Statuses, Server!Posting, Server!Steps,
       Server!ChapterRows, Server!RowStates, PatchRecords, Server!NoPatch
  <2>2. /\ \A c \in Chapters : row[c].exists
        /\ \A e \in Editors : patch[e] = Server!NoPatch
        /\ \A j \in Jobs : /\ post[j] = "idle" /\ target[j] = NoChapter
                           /\ status[j] = "absent" /\ step[j] = "none"
    OBVIOUS
  <2> QED
    BY <2>1, <2>2 DEF ServerMeaning
<1>3. Serving
  BY <1>0 DEF Serving, PatchServed, PostServed, BodyAnswered, HeardIsOver
<1>4. Home
  BY <1>0, NobodysText DEF Home, Blank
<1>5. Quiet
  BY <1>0 DEF Quiet, Accounted, Locked, Unlocks, Known, Pending, Busy
<1> QED
  BY <1>1, <1>2, <1>3, <1>4, <1>5 DEF IInv

LEMMA Step == IInv /\ [Next]_vars => IInv'
<1> SUFFICES ASSUME IInv, [Next]_vars PROVE IInv'
  OBVIOUS
<1>0. PageInv /\ ServerMeaning /\ Serving /\ Home /\ Quiet
  BY DEF IInv
<1>1. PageInv'
  BY <1>0, ShapeStep, PageStep DEF PageInv, PageKeeps
<1>2. ServerMeaning'
  <2>1. ServerSteps \/ UNCHANGED serverVars
    BY <1>0, ServerTakes DEF PageInv, vars, storeVars
  <2> QED
    BY <1>0, <2>1, ServerKeeps
<1>3. Serving' /\ Home' /\ Quiet'
  BY <1>0, ServingStep, HomeStep, QuietStep
<1> QED
  BY <1>1, <1>2, <1>3 DEF IInv

LEMMA Invariance == Spec => []IInv
BY InitInv, Step, PTL DEF Spec

\* The page, its calls and the server's columns keep their types, and a job is polled only by
\* a page locked for it (Chapter.tsx, the state and the effects of the page).
THEOREM TypeCorrect == Spec => []TypeOK
<1>1. IInv => TypeOK
  <2> SUFFICES ASSUME IInv PROVE TypeOK
    OBVIOUS
  <2>1. Server!TypeOK
    BY DEF IInv, ServerMeaning, ServerShape, Server!TypeOK, PatchRecords
  <2>2. /\ page \in PageRecords /\ \A k \in calls : k \in CallRecords
        /\ page.due \/ page.ch \in {NoChapter, page.route}
        /\ page.job # NoJob => page.operation \in {"generating", "refreshing"}
    BY DEF IInv, PageInv, Shape, PageMeaning
  <2> QED
    BY <2>1, <2>2 DEF TypeOK, PageRecords, CallRecords, CallStates
<1> QED
  BY <1>1, Invariance, PTL

\* However its calls are delayed, lost or reordered while the author goes from chapter to
\* chapter, the page shows, sends and stores under a chapter what was typed or written for it
\* (isCurrentRequest, isCurrentOperation, PATCH and the write job).
THEOREM SeparateChapters == Spec => []ChaptersAreSeparate
<1>1. IInv => ChaptersAreSeparate
  BY NamesAreApart DEF IInv, Home, ChaptersAreSeparate, Loaded, PageInv, Shape, PageRecords
<1> QED
  BY <1>1, Invariance, PTL

\* No answer replaces a text or a setting that was typed after it was asked for: the fields
\* are locked from a save or a write to the answer that applyChapter shows.
THEOREM TypedTextKept == Spec => []TypedIsKept
<1>1. IInv => TypedIsKept
  BY DEF IInv, PageInv
<1> QED
  BY <1>1, Invariance, PTL

\* An idle page shows no chapter one of whose writes may still change it, but for writes the
\* page has no answer from and for saves it gave up (editingLocked, WriteHandler's answer).
THEOREM QuietWhenIdle == Spec => []IdleIsQuiet
<1>1. IInv => IdleIsQuiet
  <2> SUFFICES ASSUME IInv, Loaded, page.operation = "idle",
                      \A j \in Jobs \ heard : target[j] # page.route,
                      page.route \notin reverted,
                      NEW j \in Jobs, target[j] = page.route
               PROVE  ~StillWriting(j)
    BY DEF IdleIsQuiet
  <2>1. page.route \in Chapters
    BY DEF IInv, PageInv, Shape, PageRecords, Loaded
  <2>2. ~Excepted(page.route)
    BY DEF Excepted, Known
  <2>3. Busy(page.route) = {}
    BY <2>1, <2>2 DEF IInv, Quiet, Locked
  <2> QED
    BY <2>3 DEF Busy
<1> QED
  BY <1>1, Invariance, PTL

\* A locked page waits for an answer, polls, or offers the retry of a refresh that failed:
\* no lost call leaves it locked for good.
THEOREM LockAwaited == Spec => []LockIsAwaited
<1>1. IInv => LockIsAwaited
  BY DEF IInv, PageInv, Shape, PageRecords, Operations, Asked, Awaited, Mine, LockIsAwaited
<1> QED
  BY <1>1, Invariance, PTL

\* The server behind the page runs WritePipeline, whatever the page asks and the network
\* loses: what is proved of the write protocol holds here.
THEOREM RunsWritePipeline == Spec => Server!Spec
<1>1. Init => Server!Init
  BY DEF Init
<1>2. IInv /\ [Next]_vars => [Server!Next]_(Server!vars)
  <2> SUFFICES ASSUME IInv, [Next]_vars PROVE Server!Next \/ UNCHANGED Server!vars
    OBVIOUS
  <2>1. CASE UNCHANGED serverVars
    BY <2>1 DEF serverVars, Server!vars, Server!jobRows, Server!handlers
  <2>2. CASE ServerSteps
    <3>1. ASSUME NEW j \in Jobs, Serves1(j) PROVE Server!Next
      BY <3>1 DEF Serves1, Server!Next, Server!Post, Server!Enqueued
    <3>2. ASSUME NEW e \in Editors, \/ \E c \in Chapters : Server!LoadPatch(e, c)
                                    \/ \E text \in PatchTexts : Server!SavePatch(e, text, TRUE)
          PROVE  Server!Edits
      BY <3>2 DEF Server!Edits, PatchTexts
    <3> QED
      BY <2>2, <3>1, <3>2 DEF ServerSteps, Server!Next
  <2> QED
    BY <2>1, <2>2, ServerTakes DEF IInv, PageInv, vars, storeVars
<1> QED
  BY <1>1, <1>2, Invariance, PTL DEF Spec, Server!Spec
=============================================================================

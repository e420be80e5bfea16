----------------------------- MODULE PageProofs -----------------------------
(***************************************************************************)
(* What holds of each page of Studio and of the dock, for any constants:   *)
(* an invariant for each, that its own steps keep.  StudioProofs puts them *)
(* into the frame.                                                         *)
(***************************************************************************)
EXTENDS Studio, FiniteSetTheorems, TLAPS

----------------------------------------------------------------------------
(* The list of chapters and the outline planner *)

WritePageRecords ==
    [open: BOOLEAN, listed: W!Lists, pick: BOOLEAN, busy: BOOLEAN,
     watched: Chapters \union {NoChapter}, active: BOOLEAN, asking: SUBSET W!CallRecords,
     planner: BOOLEAN, drafting: BOOLEAN, outline: BOOLEAN, replace: BOOLEAN, importing: BOOLEAN]

\* When chapter c had lost its card n times it had one again, and what it has lost since counts.
Had(c, n) == /\ chapters[c].taken >= n
             /\ chapters[c].taken = n => chapters[c].card

\* A list, however old, that shows a chapter with a card was right about that.
WriteListIsRight(list) == \A c \in Chapters : list[c].card => Had(c, list[c].taken)

WriteCallOK(k) ==
    /\ k \in W!CallRecords
    /\ WriteListIsRight(k.got)
    /\ k.kind \in {"bind", "write", "delete"} => k.chapter \in Chapters
    /\ k.kind = "write" \/ (k.kind = "bind" /\ k.state = "ok") => Had(k.chapter, k.seen)

\* What the dialog would send is as right as what was sent.
WritePageOK ==
    /\ writePage \in WritePageRecords
    /\ WriteListIsRight(writePage.listed)
    /\ \A k \in writePage.asking : WriteCallOK(k)

WriteServerOK == chapters \in [Chapters -> W!Rows] /\ writing \subseteq Chapters

WriteInv == WriteServerOK /\ WritePageOK /\ \A k \in writeCalls : WriteCallOK(k)

\* What carries everything: no chapter is without its card again unless that is counted.
WriteHadStays ==
    \A c \in Chapters :
        /\ chapters[c].taken \in Nat /\ chapters'[c].taken \in Nat
        /\ chapters'[c].taken >= chapters[c].taken
        /\ chapters'[c].taken = chapters[c].taken /\ chapters[c].card => chapters'[c].card

----------------------------------------------------------------------------
LEMMA WriteHadKept ==
  ASSUME WriteHadStays, NEW c \in Chapters, NEW n \in Nat, Had(c, n)
  PROVE  Had(c, n)'
BY DEF WriteHadStays, Had

LEMMA WriteListStays ==
  ASSUME WriteHadStays, NEW list \in W!Lists, WriteListIsRight(list)
  PROVE  WriteListIsRight(list)'
<1> SUFFICES ASSUME NEW c \in Chapters, list[c].card
             PROVE  Had(c, list[c].taken)'
  BY DEF WriteListIsRight
<1>1. list[c].taken \in Nat
  BY DEF W!Lists
<1>2. Had(c, list[c].taken)
  BY DEF WriteListIsRight
<1>3. QED
  BY <1>1, <1>2, WriteHadKept

LEMMA WriteCallStaysOK ==
  ASSUME WriteHadStays, NEW k, WriteCallOK(k)
  PROVE  WriteCallOK(k)'
<1>1. k \in W!CallRecords /\ k.got \in W!Lists /\ k.seen \in Nat
  BY DEF WriteCallOK, W!CallRecords
<1>2. WriteListIsRight(k.got)'
  BY <1>1, WriteListStays DEF WriteCallOK
<1>3. k.kind = "write" \/ (k.kind = "bind" /\ k.state = "ok") => Had(k.chapter, k.seen)'
  BY <1>1, WriteHadKept DEF WriteCallOK
<1>4. QED
  BY <1>1, <1>2, <1>3 DEF WriteCallOK

LEMMA WritePageStaysOK ==
  ASSUME WriteHadStays, WritePageOK, writePage' \in WritePageRecords,
         writePage'.listed = writePage.listed \/ WriteListIsRight(writePage'.listed),
         \A k \in writePage'.asking : WriteCallOK(k)
  PROVE  WritePageOK'
<1>1. PICK list \in W!Lists : list = writePage'.listed /\ WriteListIsRight(list)
  BY DEF WritePageOK, WritePageRecords
<1>2. WriteListIsRight(list)'
  BY <1>1, WriteListStays
<1>3. ASSUME NEW k \in writePage'.asking PROVE WriteCallOK(k)'
  BY WriteCallStaysOK
<1>4. QED
  BY <1>1, <1>2, <1>3 DEF WritePageOK, WriteListIsRight

LEMMA WriteNothingStored == WriteServerOK /\ chapters' = chapters => WriteHadStays
BY DEF WriteHadStays, WriteServerOK, W!Rows

LEMMA WriteEmptyList == W!None \in W!Lists /\ WriteListIsRight(W!None)
BY DEF W!None, W!Lists, W!Unmade, WriteListIsRight

\* A new call that is no order.
LEMMA WriteNewCall ==
  ASSUME WritePageOK, NEW kind \in {"load", "reload", "create", "bind", "delete",
                               "outline", "import"},
         NEW c \in Chapters \union {NoChapter},
         kind \in {"bind", "delete"} => c \in Chapters
  PROVE  WriteCallOK(W!Call(kind, c))
<1>1. writePage.pick \in BOOLEAN /\ writePage.replace \in BOOLEAN
  BY DEF WritePageOK, WritePageRecords
<1>2. W!Call(kind, c) \in W!CallRecords
  BY <1>1, WriteEmptyList DEF W!Call, W!CallRecords
<1>3. QED
  BY <1>2, WriteEmptyList DEF W!Call, WriteCallOK

\* An order goes to a chapter that the list shows with its card, and a binding to another.
LEMMA WriteOrderOK ==
  ASSUME WritePageOK, NEW c \in Chapters
  PROVE  WriteCallOK(W!Ordered(c))
<1>1. PICK row : row = writePage.listed[c]
  OBVIOUS
<1>2. row.card \in BOOLEAN /\ row.taken \in Nat /\ (row.card => Had(c, row.taken))
  BY <1>1 DEF WritePageOK, WritePageRecords, W!Lists, WriteListIsRight
<1>3. PICK kind \in {"write", "bind"} : kind = IF row.card THEN "write" ELSE "bind"
  OBVIOUS
<1>4. W!Ordered(c) = [W!Call(kind, c) EXCEPT !.seen = row.taken]
  BY <1>1, <1>3 DEF W!Ordered
<1>5. W!Ordered(c) = [kind |-> kind, chapter |-> c, pick |-> FALSE, replace |-> FALSE,
                      state |-> "sent", got |-> W!None, live |-> TRUE, seen |-> row.taken]
  BY <1>3, <1>4 DEF W!Call
<1>6. QED
  BY <1>2, <1>3, <1>5, WriteEmptyList DEF WriteCallOK, W!CallRecords

LEMMA WriteDeadOK ==
  ASSUME NEW c, WriteCallOK(c)
  PROVE  WriteCallOK([c EXCEPT !.live = FALSE])
<1>1. [c EXCEPT !.live = FALSE] \in W!CallRecords
  BY DEF WriteCallOK, W!CallRecords
<1>2. QED
  BY <1>1 DEF WriteCallOK, W!CallRecords

LEMMA WriteAbandonedOK ==
  ASSUME \A k \in writeCalls : WriteCallOK(k)
  PROVE  \A k \in W!Abandoned : WriteCallOK(k)
BY WriteDeadOK DEF W!Abandoned, W!Orphaned

\* The page that is left behind holds the dialog and nothing else.
LEMMA WriteAwayOK ==
  ASSUME WritePageOK
  PROVE  /\ W!Away \in WritePageRecords /\ WriteListIsRight(W!Away.listed)
         /\ \A k \in W!Away.asking : WriteCallOK(k)
<1> DEFINE left == {[k EXCEPT !.live = FALSE] : k \in writePage.asking}
<1>1. \A k \in left : WriteCallOK(k)
  BY WriteDeadOK DEF WritePageOK
<1>2. left \subseteq W!CallRecords
  BY <1>1 DEF WriteCallOK
<1>3. W!Away = [W!Closed EXCEPT !.asking = left]
  BY DEF W!Away
<1> HIDE DEF left
<1>4. W!Away \in WritePageRecords /\ W!Away.listed = W!None /\ W!Away.asking = left
  BY <1>2, <1>3, WriteEmptyList DEF W!Closed, WritePageRecords
<1>5. QED
  BY <1>1, <1>4, WriteEmptyList

LEMMA WriteReplyOK ==
  ASSUME \A k \in writeCalls : WriteCallOK(k), WriteHadStays,
         NEW k \in writeCalls, NEW s \in {"ok", "error"}, NEW got \in W!Lists,
         W!Reply(k, s, got), WriteListIsRight(got)', k.kind # "bind" \/ s = "error"
  PROVE  \A m \in writeCalls' : WriteCallOK(m)'
<1> DEFINE answer == [k EXCEPT !.state = s, !.got = got]
<1>1. WriteCallOK(k)' /\ WriteCallOK(k)
  BY WriteCallStaysOK
<1>2. answer \in W!CallRecords
  BY <1>1 DEF WriteCallOK, W!CallRecords
<1>3. /\ answer.kind = k.kind /\ answer.chapter = k.chapter /\ answer.seen = k.seen
      /\ answer.state = s /\ answer.got = got
  BY <1>1 DEF WriteCallOK, W!CallRecords
<1>4. WriteCallOK(answer)'
  BY <1>1, <1>2, <1>3 DEF WriteCallOK
<1>5. writeCalls' \subseteq writeCalls \union {answer}
  BY DEF W!Reply
<1>6. QED
  BY <1>4, <1>5, WriteCallStaysOK

LEMMA WriteLoseOK ==
  ASSUME \A k \in writeCalls : WriteCallOK(k), NEW k, W!Lose(k)
  PROVE  \A m \in writeCalls' : WriteCallOK(m)
<1> DEFINE lost == [k EXCEPT !.state = "error"]
<1>1. WriteCallOK(k) /\ writeCalls' \subseteq writeCalls \union {lost}
  BY DEF W!Lose
<1>2. lost \in W!CallRecords
  BY <1>1 DEF WriteCallOK, W!CallRecords
<1>3. WriteCallOK(lost)
  BY <1>1, <1>2 DEF WriteCallOK, W!CallRecords
<1>4. QED
  BY <1>1, <1>3

\* A step that stores nothing.
LEMMA WriteQuietStep ==
  ASSUME WriteInv, UNCHANGED <<chapters, writing>>, writePage' \in WritePageRecords,
         writePage'.listed = writePage.listed \/ WriteListIsRight(writePage'.listed),
         \A k \in writePage'.asking : WriteCallOK(k),
         \A k \in writeCalls' : WriteCallOK(k)
  PROVE  WriteInv'
<1>1. WriteHadStays
  BY WriteNothingStored DEF WriteInv
<1>2. \A k \in writeCalls' : WriteCallOK(k)'
  BY <1>1, WriteCallStaysOK
<1>3. WritePageOK'
  BY <1>1, WritePageStaysOK DEF WriteInv
<1>4. WriteServerOK'
  BY DEF WriteInv, WriteServerOK
<1>5. QED
  BY <1>2, <1>3, <1>4 DEF WriteInv

\* A step of the server: the page is what it was.
LEMMA WriteServerStep ==
  ASSUME WriteInv, writePage' = writePage, WriteHadStays, writing' \subseteq Chapters,
         chapters' \in [Chapters -> W!Rows],
         \A k \in writeCalls' : WriteCallOK(k)'
  PROVE  WriteInv'
<1>1. WritePageOK'
  BY WritePageStaysOK DEF WriteInv, WritePageOK
<1>2. WriteServerOK'
  BY DEF WriteInv, WriteServerOK
<1>3. QED
  BY <1>1, <1>2 DEF WriteInv
----------------------------------------------------------------------------
LEMMA WriteMade ==
  ASSUME NEW card \in BOOLEAN, NEW text \in BOOLEAN
  PROVE  W!Made(card, text) \in W!Rows /\ W!Made(card, text).taken = 0 /\ W!Unmade \in W!Rows
BY DEF W!Made, W!Unmade, W!Rows

LEMMA WriteInit == W!Init => WriteInv
<1> SUFFICES ASSUME W!Init PROVE WriteInv
  OBVIOUS
<1>1. WriteServerOK
  BY WriteMade DEF W!Init, WriteServerOK
<1>2. W!Closed \in WritePageRecords /\ W!Closed.listed = W!None /\ W!Closed.asking = {}
  BY WriteEmptyList DEF W!Closed, WritePageRecords
<1>3. WritePageOK
  BY <1>2, WriteEmptyList DEF W!Init, WritePageOK
<1>4. QED
  BY <1>1, <1>3 DEF W!Init, WriteInv

LEMMA WriteVisitStep ==
  ASSUME WriteInv, NEW card \in BOOLEAN, W!Visit(card) PROVE WriteInv'
<1>1. writePage' = [writePage EXCEPT !.open = TRUE, !.pick = card]
      /\ writePage \in WritePageRecords
  BY DEF W!Visit, WriteInv, WritePageOK
<1>2. WriteCallOK(W!Call("load", NoChapter))
  BY WriteNewCall DEF WriteInv
<1>3. writePage' \in WritePageRecords /\ writePage'.listed = writePage.listed
      /\ writePage'.asking = writePage.asking
  BY <1>1 DEF WritePageRecords
<1>4. QED
  BY <1>2, <1>3, WriteQuietStep DEF W!Visit, WriteInv, WritePageOK

LEMMA WriteLeaveStep ==
  ASSUME WriteInv, W!Leave PROVE WriteInv'
<1>1. \A k \in writeCalls' : WriteCallOK(k)
  BY WriteAbandonedOK DEF W!Leave, WriteInv
<1>2. writePage' \in WritePageRecords /\ WriteListIsRight(writePage'.listed)
      /\ \A k \in writePage'.asking : WriteCallOK(k)
  BY WriteAwayOK DEF W!Leave, WriteInv
<1>3. QED
  BY <1>1, <1>2, WriteQuietStep DEF W!Leave

LEMMA WriteClickStep ==
  ASSUME WriteInv, W!Click PROVE WriteInv'
<1>1. writePage \in WritePageRecords
  BY DEF WriteInv, WritePageOK
<1>2. writePage' \in WritePageRecords /\ writePage'.listed = writePage.listed
      /\ writePage'.asking = writePage.asking
  BY <1>1 DEF W!Click, W!Pick, W!OpenPlanner, W!ClosePlanner, W!Replace, W!DropOutline,
     WritePageRecords
<1>3. QED
  BY <1>2, WriteQuietStep DEF W!Click, WriteInv, WritePageOK

\* A call that is not about a chapter.
LEMMA WriteSendStep ==
  ASSUME WriteInv, W!Create \/ W!Generate \/ W!Import PROVE WriteInv'
<1>1. PICK kind \in {"create", "outline", "import"}, p \in
          {[writePage EXCEPT !.busy = TRUE], [writePage EXCEPT !.drafting = TRUE],
           [writePage EXCEPT !.importing = TRUE]} :
              W!Send(kind, NoChapter, p)
  BY DEF W!Create, W!Generate, W!Import
<1>2. writePage \in WritePageRecords
  BY DEF WriteInv, WritePageOK
<1>3. p \in WritePageRecords /\ p.listed = writePage.listed /\ p.asking = writePage.asking
  BY <1>2 DEF WritePageRecords
<1>4. WriteCallOK(W!Call(kind, NoChapter))
  BY WriteNewCall DEF WriteInv
<1>5. QED
  BY <1>1, <1>3, <1>4, WriteQuietStep DEF W!Send, WriteInv, WritePageOK

\* The dialog opens with a call.
LEMMA WriteAskStep ==
  ASSUME WriteInv, NEW k, WriteCallOK(k), writePage' = [writePage EXCEPT !.asking = {k}],
         UNCHANGED <<chapters, writing, writeCalls>>
  PROVE  WriteInv'
<1>1. writePage \in WritePageRecords /\ k \in W!CallRecords
  BY DEF WriteInv, WritePageOK, WriteCallOK
<1>2. writePage' \in WritePageRecords /\ writePage'.listed = writePage.listed
      /\ writePage'.asking = {k}
  BY <1>1 DEF WritePageRecords
<1>3. QED
  BY <1>2, WriteQuietStep DEF WriteInv

LEMMA WriteWriteStep ==
  ASSUME WriteInv, NEW c \in Chapters, W!Write(c) PROVE WriteInv'
<1>1. PICK k : k = W!Ordered(c)
  OBVIOUS
<1>2. WriteCallOK(k)
  BY <1>1, WriteOrderOK DEF WriteInv
<1>3. CASE writePage.listed[c].text
  BY <1>1, <1>2, <1>3, WriteAskStep DEF W!Write
<1>4. CASE ~writePage.listed[c].text
  <2>1. writePage' = writePage /\ writeCalls' = writeCalls \union {k}
    BY <1>1, <1>4 DEF W!Write
  <2>2. QED
    BY <1>2, <2>1, WriteQuietStep DEF W!Write, WriteInv, WritePageOK
<1>5. QED
  BY <1>3, <1>4

LEMMA WriteAskDeleteStep ==
  ASSUME WriteInv, NEW c \in Chapters, W!AskDelete(c) PROVE WriteInv'
<1>1. PICK k : k = W!Call("delete", c)
  OBVIOUS
<1>2. WriteCallOK(k)
  BY <1>1, WriteNewCall DEF WriteInv
<1>3. QED
  BY <1>1, <1>2, WriteAskStep DEF W!AskDelete

\* The dialog sends what it asked about.
LEMMA WriteAnswerStep ==
  ASSUME WriteInv, NEW agreed \in BOOLEAN, W!Answer(agreed) PROVE WriteInv'
<1>1. writePage \in WritePageRecords
  BY DEF WriteInv, WritePageOK
<1>2. writePage' \in WritePageRecords /\ writePage'.listed = writePage.listed
      /\ writePage'.asking = {}
  BY <1>1 DEF W!Answer, WritePageRecords
<1>3. \A k \in writeCalls' : WriteCallOK(k)
  BY DEF W!Answer, WriteInv, WritePageOK
<1>4. QED
  BY <1>2, <1>3, WriteQuietStep DEF W!Answer

----------------------------------------------------------------------------
LEMMA WriteListOK ==
  ASSUME WriteServerOK PROVE W!List \in W!Lists /\ WriteListIsRight(W!List)
<1>1. \A c \in Chapters : chapters[c] \in W!Rows
  BY DEF WriteServerOK
<1>2. \A c \in W!Kept : /\ chapters[c] \in [state: {"free", "here"}, card: BOOLEAN,
                                            text: BOOLEAN, taken: Nat]
                        /\ chapters[c].card => Had(c, chapters[c].taken)
  BY <1>1 DEF W!Kept, W!Rows, Had
<1>3. /\ W!Unmade \in [state: {"free", "here"}, card: BOOLEAN, text: BOOLEAN, taken: Nat]
      /\ W!Unmade.card = FALSE
  BY DEF W!Unmade
<1>4. QED
  BY <1>2, <1>3 DEF W!List, W!Lists, WriteListIsRight

LEMMA WriteNoneStaysRight == WriteListIsRight(W!None)'
BY DEF WriteListIsRight, W!None, W!Unmade

\* One row is saved.
LEMMA WriteSavedOK ==
  ASSUME WriteServerOK, NEW c \in Chapters, NEW card \in BOOLEAN, NEW text \in BOOLEAN,
         chapters' = [chapters EXCEPT ![c] = W!Saved(@, card, text)]
  PROVE  WriteHadStays /\ chapters' \in [Chapters -> W!Rows]
<1>1. PICK row \in W!Rows : row = W!Saved(chapters[c], card, text)
  <2>1. PICK was \in W!Rows : was = chapters[c]
    BY DEF WriteServerOK
  <2>2. CASE was.card /\ ~card
    <3>1. PICK n \in Nat : n = was.taken + 1
      BY DEF W!Rows
    <3>2. W!Saved(was, card, text) = [was EXCEPT !.card = card, !.text = text, !.taken = n]
      BY <2>2, <3>1 DEF W!Saved
    <3>3. QED
      BY <2>1, <3>2 DEF W!Rows
  <2>3. CASE ~(was.card /\ ~card)
    <3>1. W!Saved(was, card, text) = [was EXCEPT !.card = card, !.text = text, !.taken = was.taken]
      BY <2>3 DEF W!Saved
    <3>2. QED
      BY <2>1, <3>1 DEF W!Rows
  <2>4. QED
    BY <2>2, <2>3
<1>2. /\ row.card = card /\ row.taken \in Nat /\ chapters[c].taken \in Nat
      /\ row.taken >= chapters[c].taken
      /\ row.taken = chapters[c].taken /\ chapters[c].card => card
  BY <1>1 DEF W!Saved, WriteServerOK, W!Rows
<1>3. chapters' = [chapters EXCEPT ![c] = row]
  BY <1>1
<1>4. chapters' \in [Chapters -> W!Rows]
  BY <1>3 DEF WriteServerOK
<1>5. \A d \in Chapters : /\ chapters[d].taken \in Nat
                          /\ chapters'[d] = IF d = c THEN row ELSE chapters[d]
  BY <1>3 DEF WriteServerOK, W!Rows
<1>6. QED
  BY <1>2, <1>4, <1>5 DEF WriteHadStays

LEMMA WriteServeStep ==
  ASSUME WriteInv, NEW k \in writeCalls, W!Serve(k) PROVE WriteInv'
<1> USE DEF WriteInv
<1>0. WriteCallOK(k) /\ W!None \in W!Lists
  BY WriteEmptyList
<1>1. CASE W!ServeList(k)
  <2>1. PICK list \in W!Lists : list = W!List
    BY WriteListOK
  <2>2. WriteHadStays /\ WriteListIsRight(list)
    BY <1>1, <2>1, WriteNothingStored, WriteListOK DEF W!ServeList
  <2>3. WriteListIsRight(list)'
    BY <2>2, WriteListStays
  <2>4. k.kind # "bind" /\ W!Reply(k, "ok", list)
    BY <1>1, <2>1 DEF W!ServeList
  <2>5. \A m \in writeCalls' : WriteCallOK(m)'
    BY <2>2, <2>3, <2>4, WriteReplyOK
  <2>6. QED
    BY <1>1, <2>2, <2>5, WriteServerStep DEF W!ServeList, WriteServerOK
<1>2. CASE W!ServeCreate(k)
  <2>1. PICK c \in W!Unused : chapters' = [chapters EXCEPT ![c] = W!Made(k.pick, FALSE)]
    BY <1>2 DEF W!ServeCreate
  <2>2. k.pick \in BOOLEAN
    BY <1>0 DEF WriteCallOK, W!CallRecords
  <2>3. PICK row \in W!Rows : row = W!Made(k.pick, FALSE) /\ row.taken = 0
    BY <2>2, WriteMade
  <2>4. WriteHadStays /\ chapters' \in [Chapters -> W!Rows]
    <3>1. c \in Chapters /\ chapters[c].taken = 0 /\ chapters[c].card = FALSE
      BY <2>1 DEF W!Unused, W!Unmade
    <3>2. chapters' = [chapters EXCEPT ![c] = row]
      BY <2>1, <2>3
    <3>3. \A d \in Chapters : /\ chapters[d].taken \in Nat
                              /\ chapters'[d] = IF d = c THEN row ELSE chapters[d]
      BY <3>1, <3>2 DEF WriteServerOK, W!Rows
    <3>4. WriteHadStays
      <4>1. SUFFICES ASSUME NEW d \in Chapters
                     PROVE  /\ chapters[d].taken \in Nat /\ chapters'[d].taken = chapters[d].taken
                            /\ chapters[d].card => chapters'[d].card
        BY DEF WriteHadStays
      <4>2. CASE d = c
        BY <2>3, <3>1, <3>3, <4>2
      <4>3. CASE d # c
        BY <3>3, <4>3
      <4>4. QED
        BY <4>2, <4>3
    <3>5. QED
      BY <3>1, <3>2, <3>4 DEF WriteServerOK
  <2>5. k.kind # "bind" /\ W!Reply(k, "ok", W!None)
    BY <1>2 DEF W!ServeCreate
  <2>6. \A m \in writeCalls' : WriteCallOK(m)'
    BY <1>0, <2>4, <2>5, WriteNoneStaysRight, WriteReplyOK
  <2>7. QED
    BY <1>2, <2>4, <2>6, WriteServerStep DEF W!ServeCreate, WriteServerOK
<1>3. CASE W!ServeBind(k) /\ k.chapter \in W!Kept
  <2> DEFINE c == k.chapter
             answer == [k EXCEPT !.state = "ok", !.seen = chapters[k.chapter].taken]
  <2>1. /\ c \in Chapters /\ chapters[c].taken \in Nat
        /\ chapters' = [chapters EXCEPT ![c].card = TRUE]
        /\ writeCalls' = (writeCalls \ {k}) \union {answer}
    BY <1>0, <1>3 DEF W!ServeBind, W!Kept, WriteServerOK, W!Rows
  <2>2. /\ chapters' \in [Chapters -> W!Rows]
        /\ \A d \in Chapters : /\ chapters[d].taken \in Nat
                               /\ chapters'[d].taken = chapters[d].taken
                               /\ chapters[d].card => chapters'[d].card
        /\ chapters'[c].card = TRUE
    BY <2>1 DEF WriteServerOK, W!Rows
  <2>3. WriteHadStays
    BY <2>2 DEF WriteHadStays
  <2>4. /\ answer \in W!CallRecords /\ answer.got = k.got /\ answer.kind = k.kind
        /\ answer.chapter = c /\ answer.seen = chapters[c].taken
    BY <1>0, <2>1 DEF WriteCallOK, W!CallRecords
  <2>5. WriteCallOK(k)'
    BY <1>0, <2>3, WriteCallStaysOK
  <2>6. PICK n \in Nat : n = chapters[c].taken /\ Had(c, n)'
    BY <2>1, <2>2 DEF Had
  <2>7. WriteCallOK(answer)'
    BY <1>3, <2>1, <2>4, <2>5, <2>6 DEF WriteCallOK, W!ServeBind
  <2>8. \A m \in writeCalls' : WriteCallOK(m)'
    BY <2>1, <2>3, <2>7, WriteCallStaysOK
  <2>9. QED
    BY <1>3, <2>2, <2>3, <2>8, WriteServerStep DEF W!ServeBind, WriteServerOK
<1>4. CASE W!ServeBind(k) /\ k.chapter \notin W!Kept
  <2>1. chapters' = chapters /\ WriteHadStays /\ W!Reply(k, "error", W!None)
    BY <1>4, WriteNothingStored DEF W!ServeBind
  <2>2. \A m \in writeCalls' : WriteCallOK(m)'
    BY <1>0, <2>1, WriteNoneStaysRight, WriteReplyOK
  <2>3. QED
    BY <1>4, <2>1, <2>2, WriteServerStep DEF W!ServeBind, WriteServerOK
<1>5. CASE W!ServeWrite(k)
  <2>1. chapters' = chapters /\ WriteHadStays /\ writing' \subseteq Chapters
    BY <1>0, <1>5, WriteNothingStored DEF W!ServeWrite, WriteServerOK, WriteCallOK
  <2>2. k.kind # "bind" /\ \E s \in {"ok", "error"} : W!Reply(k, s, W!None)
    BY <1>5 DEF W!ServeWrite
  <2>3. \A m \in writeCalls' : WriteCallOK(m)'
    BY <1>0, <2>1, <2>2, WriteNoneStaysRight, WriteReplyOK
  <2>4. QED
    BY <1>5, <2>1, <2>3, WriteServerStep DEF W!ServeWrite, WriteServerOK
<1>6. CASE W!ServeDelete(k)
  <2>1. k.chapter \in Chapters /\ chapters' = [chapters EXCEPT ![k.chapter].state = "gone"]
    BY <1>0, <1>6 DEF W!ServeDelete, WriteCallOK
  <2>2. WriteHadStays /\ chapters' \in [Chapters -> W!Rows]
    BY <2>1 DEF WriteHadStays, WriteServerOK, W!Rows
  <2>3. k.kind # "bind" /\ \E s \in {"ok", "error"} : W!Reply(k, s, W!None)
    BY <1>6 DEF W!ServeDelete
  <2>4. \A m \in writeCalls' : WriteCallOK(m)'
    BY <1>0, <2>2, <2>3, WriteNoneStaysRight, WriteReplyOK
  <2>5. QED
    BY <1>6, <2>2, <2>4, WriteServerStep DEF W!ServeDelete, WriteServerOK
<1>7. CASE W!ServeOutline(k)
  <2>1. WriteHadStays /\ k.kind # "bind" /\ W!Reply(k, "ok", W!None)
    BY <1>7, WriteNothingStored DEF W!ServeOutline
  <2>2. \A m \in writeCalls' : WriteCallOK(m)'
    BY <1>0, <2>1, WriteNoneStaysRight, WriteReplyOK
  <2>3. QED
    BY <1>7, <2>1, <2>2, WriteServerStep DEF W!ServeOutline, WriteServerOK
<1>8. CASE W!ServeImport(k)
  <2> DEFINE left == [c \in Chapters |-> IF k.replace /\ c \in W!Kept
                                         THEN [chapters[c] EXCEPT !.state = "gone"]
                                         ELSE chapters[c]]
  <2>1. PICK c \in W!Unused, card \in BOOLEAN :
            chapters' = [left EXCEPT ![c] = W!Made(card, FALSE)]
    BY <1>8 DEF W!ServeImport
  <2>2. \A d \in Chapters : /\ left[d] \in W!Rows /\ chapters[d].taken \in Nat
                            /\ left[d].taken = chapters[d].taken
                            /\ left[d].card = chapters[d].card
    BY DEF WriteServerOK, W!Rows
  <2>3. left = [d \in Chapters |-> left[d]]
    OBVIOUS
  <2> HIDE DEF left
  <2>4. PICK row \in W!Rows : row = W!Made(card, FALSE) /\ row.taken = 0
    BY WriteMade
  <2>5. c \in Chapters /\ chapters[c].taken = 0 /\ chapters[c].card = FALSE
    BY <2>1 DEF W!Unused, W!Unmade
  <2>6. \A d \in Chapters : chapters'[d] = IF d = c THEN row ELSE left[d]
    BY <2>1, <2>3, <2>4, <2>5
  <2>7. chapters' \in [Chapters -> W!Rows]
    BY <2>1, <2>2, <2>3, <2>4, <2>5
  <2>8. WriteHadStays
    <3>1. SUFFICES ASSUME NEW d \in Chapters
                   PROVE  /\ chapters[d].taken \in Nat /\ chapters'[d].taken = chapters[d].taken
                          /\ chapters[d].card => chapters'[d].card
      BY DEF WriteHadStays
    <3>2. CASE d = c
      <4>1. chapters'[d] = row
        BY <2>5, <2>6, <3>2
      <4>2. chapters'[d].taken = 0
        BY <2>4, <4>1
      <4>3. chapters[d].taken = 0 /\ ~chapters[d].card
        BY <2>5, <3>2
      <4>4. QED
        BY <4>2, <4>3
    <3>3. CASE d # c
      BY <2>2, <2>6, <3>3
    <3>4. QED
      BY <3>2, <3>3
  <2>9. k.kind # "bind" /\ W!Reply(k, "ok", W!None)
    BY <1>8 DEF W!ServeImport
  <2>10. \A m \in writeCalls' : WriteCallOK(m)'
    BY <1>0, <2>8, <2>9, WriteNoneStaysRight, WriteReplyOK
  <2>11. QED
    BY <1>8, <2>7, <2>8, <2>10, WriteServerStep DEF W!ServeImport, WriteServerOK
<1>9. QED
  BY <1>1, <1>2, <1>3, <1>4, <1>5, <1>6, <1>7, <1>8 DEF W!Serve

----------------------------------------------------------------------------
LEMMA WriteBindArrivesStep ==
  ASSUME WriteInv, NEW k \in writeCalls, W!BindArrives(k) PROVE WriteInv'
<1> DEFINE order == [k EXCEPT !.kind = "write", !.state = "sent"]
<1>1. WriteCallOK(k) /\ k.kind = "bind" /\ k.state = "ok"
  BY DEF WriteInv, W!BindArrives
<1>2. /\ order \in W!CallRecords /\ order.got = k.got /\ order.chapter = k.chapter
      /\ order.seen = k.seen
  BY <1>1 DEF WriteCallOK, W!CallRecords
<1>3. WriteCallOK(order)
  BY <1>1, <1>2 DEF WriteCallOK
<1>4. \A m \in writeCalls' : WriteCallOK(m)
  BY <1>3 DEF W!BindArrives, WriteInv
<1>5. QED
  BY <1>4, WriteQuietStep DEF W!BindArrives, WriteInv, WritePageOK

LEMMA WriteArriveStep ==
  ASSUME WriteInv, NEW k \in writeCalls, W!Arrive(k) PROVE WriteInv'
<1>0. WriteCallOK(k) /\ writePage \in WritePageRecords /\ WriteListIsRight(writePage.listed)
      /\ \A m \in writePage.asking : WriteCallOK(m)
  BY DEF WriteInv, WritePageOK
<1>1. CASE W!ListArrives(k)
  <2>1. k.got \in W!Lists /\ WriteListIsRight(k.got)
    BY <1>0 DEF WriteCallOK, W!CallRecords
  <2>2. writePage' = [writePage EXCEPT !.listed = k.got, !.busy = @ /\ k.kind # "reload"]
    BY <1>1 DEF W!ListArrives
  <2>3. writePage' \in WritePageRecords /\ writePage'.listed = k.got
        /\ writePage'.asking = writePage.asking
    BY <1>0, <2>1, <2>2 DEF WritePageRecords
  <2>4. QED
    BY <1>0, <1>1, <2>1, <2>3, WriteQuietStep DEF W!ListArrives, WriteInv
<1>2. CASE W!BindArrives(k)
  BY <1>2, WriteBindArrivesStep
<1>3. CASE W!WriteArrives(k)
  <2>1. k.chapter \in Chapters
    BY <1>0, <1>3 DEF W!WriteArrives, WriteCallOK
  <2>2. writePage' \in WritePageRecords /\ writePage'.listed = writePage.listed
        /\ writePage'.asking = writePage.asking
    BY <1>0, <1>3, <2>1 DEF W!WriteArrives, WritePageRecords
  <2>3. QED
    BY <1>0, <1>3, <2>2, WriteQuietStep DEF W!WriteArrives, WriteInv
<1>4. CASE W!ChangeArrives(k)
  <2>1. WriteCallOK(W!Call("reload", NoChapter)) /\ WriteCallOK(W!Call("load", NoChapter))
    BY WriteNewCall DEF WriteInv
  <2>2. \A m \in writeCalls' : WriteCallOK(m)
    BY <1>4, <2>1 DEF W!ChangeArrives, W!Reread, WriteInv
  <2>3. QED
    BY <1>0, <1>4, <2>2, WriteQuietStep DEF W!ChangeArrives, WriteInv
<1>5. CASE W!OutlineArrives(k)
  <2>1. writePage' \in WritePageRecords /\ writePage'.listed = writePage.listed
        /\ writePage'.asking = writePage.asking
    BY <1>0, <1>5 DEF W!OutlineArrives, WritePageRecords
  <2>2. QED
    BY <1>0, <1>5, <2>1, WriteQuietStep DEF W!OutlineArrives, WriteInv
<1>6. CASE W!ImportArrives(k)
  <2>1. writePage' \in WritePageRecords /\ writePage'.listed = writePage.listed
        /\ writePage'.asking = writePage.asking
    BY <1>0, <1>6 DEF W!ImportArrives, WritePageRecords
  <2>2. WriteCallOK(W!Call("load", NoChapter))
    BY WriteNewCall DEF WriteInv
  <2>3. QED
    BY <1>0, <1>6, <2>1, <2>2, WriteQuietStep DEF W!ImportArrives, W!Reread, WriteInv
<1>7. CASE W!CallFails(k)
  <2> DEFINE list == IF k.kind \in {"load", "reload"} THEN W!None ELSE writePage.listed
  <2>1. list \in W!Lists /\ WriteListIsRight(list)
    BY <1>0, WriteEmptyList DEF WritePageRecords
  <2>2. PICK busy \in BOOLEAN, drafting \in BOOLEAN, importing \in BOOLEAN :
            writePage' = [writePage EXCEPT !.listed = list, !.busy = busy, !.drafting = drafting,
                                 !.importing = importing]
    BY <1>7, Zenon DEF W!CallFails
  <2> HIDE DEF list
  <2>3. writePage' \in WritePageRecords /\ writePage'.listed = list
        /\ writePage'.asking = writePage.asking
    BY <1>0, <2>1, <2>2 DEF WritePageRecords
  <2>4. QED
    BY <1>0, <1>7, <2>1, <2>3, WriteQuietStep DEF W!CallFails, WriteInv
<1>8. QED
  BY <1>1, <1>2, <1>3, <1>4, <1>5, <1>6, <1>7 DEF W!Arrive

LEMMA WriteDropStep ==
  ASSUME WriteInv, NEW k \in writeCalls, W!Drop(k) PROVE WriteInv'
<1>1. \A m \in writeCalls' : WriteCallOK(m)
  BY WriteLoseOK DEF W!Drop, WriteInv
<1>2. QED
  BY <1>1, WriteQuietStep DEF W!Drop, WriteInv, WritePageOK

LEMMA WriteElsewhereStep ==
  ASSUME WriteInv, NEW c \in Chapters, W!Elsewhere(c) PROVE WriteInv'
<1>1. WriteHadStays /\ chapters' \in [Chapters -> W!Rows]
  BY WriteSavedOK DEF W!Elsewhere, WriteInv
<1>2. \A k \in writeCalls' : WriteCallOK(k)'
  BY <1>1, WriteCallStaysOK DEF W!Elsewhere, WriteInv
<1>3. QED
  BY <1>1, <1>2, WriteServerStep DEF W!Elsewhere, WriteInv, WriteServerOK

\* The end of a job is the one step that changes the server and the page.
LEMMA WriteJobEndsStep ==
  ASSUME WriteInv, NEW c \in Chapters, W!JobEnds(c) PROVE WriteInv'
<1>1. PICK well \in BOOLEAN :
          /\ chapters' = IF well THEN [chapters EXCEPT ![c] = W!Saved(@, TRUE, TRUE)] ELSE chapters
          /\ \/ writePage' = writePage /\ writeCalls' = writeCalls
             \/ writePage' = W!Away /\ writeCalls' = W!Abandoned
             \/ /\ writePage' = [writePage EXCEPT !.active = FALSE]
                /\ writeCalls' = writeCalls \union {W!Reread}
  BY DEF W!JobEnds
<1>2. WriteHadStays /\ chapters' \in [Chapters -> W!Rows]
  <2>1. CASE well
    BY <1>1, <2>1, WriteSavedOK DEF WriteInv
  <2>2. CASE ~well
    BY <1>1, <2>2, WriteNothingStored DEF WriteInv, WriteServerOK
  <2>3. QED
    BY <2>1, <2>2
<1>3. writing' \subseteq Chapters
  BY DEF W!JobEnds, WriteInv, WriteServerOK
<1>4. \A k \in writeCalls' : WriteCallOK(k)'
  <2>1. WriteCallOK(W!Reread)
    BY WriteNewCall DEF W!Reread, WriteInv
  <2>2. \A k \in W!Abandoned : WriteCallOK(k)
    BY WriteAbandonedOK DEF WriteInv
  <2>3. \A k \in writeCalls' : WriteCallOK(k)
    BY <1>1, <2>1, <2>2 DEF WriteInv
  <2>4. QED
    BY <1>2, <2>3, WriteCallStaysOK
<1>5. WritePageOK'
  <2>1. CASE writePage' = W!Away
    BY <1>2, <2>1, WriteAwayOK, WritePageStaysOK DEF WriteInv
  <2>2. CASE writePage' = writePage \/ writePage' = [writePage EXCEPT !.active = FALSE]
    <3>1. writePage' \in WritePageRecords /\ writePage'.listed = writePage.listed
          /\ writePage'.asking = writePage.asking
      BY <2>2 DEF WritePageRecords, WritePageOK, WriteInv
    <3>2. QED
      BY <1>2, <3>1, WritePageStaysOK DEF WriteInv, WritePageOK
  <2>3. QED
    BY <1>1, <2>1, <2>2
<1>6. QED
  BY <1>2, <1>3, <1>4, <1>5 DEF WriteInv, WriteServerOK

\* Calls may be refused and go, whatever happens elsewhere.
LEMMA WriteGoneStep ==
  ASSUME WriteInv, UNCHANGED <<writePage, chapters, writing>>,
         writeCalls' \subseteq writeCalls PROVE WriteInv'
BY WriteQuietStep DEF WriteInv, WritePageOK

LEMMA WriteStep == ASSUME WriteInv, W!Next PROVE WriteInv'
<1>1. CASE \E card \in BOOLEAN : W!Visit(card)
  BY <1>1, WriteVisitStep
<1>2. CASE W!Leave
  BY <1>2, WriteLeaveStep
<1>3. CASE W!Gesture
  BY <1>3, WriteClickStep, WriteSendStep, WriteWriteStep, WriteAskDeleteStep DEF W!Gesture
<1>4. CASE \E c \in Chapters : W!JobEnds(c) \/ W!Elsewhere(c)
  BY <1>4, WriteJobEndsStep, WriteElsewhereStep
<1>5. CASE \E k \in writeCalls : W!Serve(k) \/ W!Arrive(k) \/ W!Drop(k)
  BY <1>5, WriteServeStep, WriteArriveStep, WriteDropStep
<1>6. CASE \E agreed \in BOOLEAN : W!Answer(agreed)
  BY <1>6, WriteAnswerStep
<1> QED
  BY <1>1, <1>2, <1>3, <1>4, <1>5, <1>6 DEF W!Next

----------------------------------------------------------------------------
(* The extraction bench *)

ExtractPageRecords ==
    [project: Projects \union {NoProject}, loaded: BOOLEAN, broken: BOOLEAN,
     listed: [Assets -> Nat], selected: SUBSET Assets, file: BOOLEAN, busy: BOOLEAN,
     job: Jobs \union {NoJob}, active: BOOLEAN, polling: BOOLEAN, lost: BOOLEAN,
     result: BOOLEAN]

ExtractCallRecords ==
    [kind: {"load", "upload", "extract", "started", "result"},
     project: Projects \union {NoProject}, picked: SUBSET (Assets \union Jobs),
     state: {"sent", "ok", "error"}, got: [Assets -> Nat], live: BOOLEAN]

\* The calls that busy stands for, and those of them that begin an extraction.
ExtractPending(k) == k.live /\ k.kind \in {"upload", "extract", "started"}
ExtractBegins(k) == k.live /\ k.kind \in {"extract", "started"}

\* A job that was ever named is no longer free.
ExtractNamesJobs(k) == k.kind = "started" => k.picked \subseteq Jobs
   /\ \A j \in k.picked : extracting[j] # "free"
ExtractCallsOK == extractCalls \subseteq ExtractCallRecords
   /\ \A k \in extractCalls : ExtractNamesJobs(k)

ExtractPageOK == /\ extractPage \in ExtractPageRecords
                 /\ extractPage.job # NoJob => extractPage.job \in Jobs
                    /\ extracting[extractPage.job] # "free"

\* busy stands for at most one call.
ExtractLocked == /\ \A k \in extractCalls : ExtractPending(k) => extractPage.busy
                 /\ \A k, m \in extractCalls : ExtractPending(k) /\ ExtractPending(m) => k = m

\* The conclusion of OneExtraction, by name
ExtractWatched == extractPage.job # NoJob /\ extracting[extractPage.job] = "running"
   /\ ~extractPage.lost
ExtractHeld == ExtractWatched => extractPage.active /\ \A k \in extractCalls : ~ExtractBegins(k)

ExtractInv == extracting \in [Jobs -> {"free", "running", "done", "failed"}] /\ ExtractPageOK
   /\ ExtractCallsOK /\ ExtractLocked /\ ExtractHeld

----------------------------------------------------------------------------
(* Three kinds of steps *)

\* What holds while the jobs only move on: a job that is not free stays so, and none that
\* was named begins to run.
ExtractJobsMoveOn ==
    /\ extracting' \in [Jobs -> {"free", "running", "done", "failed"}]
    /\ \A j \in Jobs : extracting[j] # "free" =>
           extracting'[j] # "free" /\ (extracting'[j] = "running" => extracting[j] = "running")

LEMMA ExtractJobsKept == ExtractInv /\ extracting' = extracting => ExtractJobsMoveOn
BY DEF ExtractInv, ExtractJobsMoveOn

\* The page keeps its lock, its job and its watch; calls go, or come that lock nothing.
LEMMA ExtractQuietStep ==
  ASSUME ExtractInv, ExtractJobsMoveOn, extractPage' \in ExtractPageRecords,
         extractPage'.busy = extractPage.busy, extractPage'.job = extractPage.job,
         extractPage'.active = extractPage.active, extractPage'.lost = extractPage.lost,
         extractCalls' \subseteq ExtractCallRecords,
         \A k \in extractCalls' : k \in extractCalls \/ (~ExtractPending(k) /\ k.kind # "started")
  PROVE  ExtractInv'
<1>1. ExtractPageOK'
  BY DEF ExtractInv, ExtractPageOK, ExtractJobsMoveOn
<1>2. ExtractCallsOK'
  <2> SUFFICES ASSUME NEW k \in extractCalls' PROVE ExtractNamesJobs(k)'
    BY DEF ExtractCallsOK
  <2>1. CASE k \in extractCalls
    BY <2>1 DEF ExtractInv, ExtractCallsOK, ExtractNamesJobs, ExtractJobsMoveOn
  <2>2. CASE k.kind # "started"
    BY <2>2 DEF ExtractNamesJobs
  <2>3. QED
    BY <2>1, <2>2
<1>3. ExtractLocked'
  BY DEF ExtractInv, ExtractLocked, ExtractPending
<1>4. ExtractHeld'
  BY DEF ExtractInv, ExtractPageOK, ExtractHeld, ExtractWatched, ExtractJobsMoveOn,
     ExtractPending, ExtractBegins
<1>5. QED
  BY <1>1, <1>2, <1>3, <1>4 DEF ExtractInv, ExtractJobsMoveOn

\* A call is replaced by its answer; the page is what it was.
LEMMA ExtractAnswerStep ==
  ASSUME ExtractInv, ExtractJobsMoveOn, extractPage' = extractPage, NEW k \in extractCalls,
         NEW n \in ExtractCallRecords, ExtractNamesJobs(n)',
         extractCalls' \subseteq (extractCalls \ {k}) \union {n},
         ExtractPending(n) => ExtractPending(k), ExtractBegins(n) => ExtractBegins(k)
  PROVE  ExtractInv'
<1>1. ExtractPageOK'
  BY DEF ExtractInv, ExtractPageOK, ExtractJobsMoveOn
<1>2. ExtractCallsOK'
  <2> SUFFICES ASSUME NEW m \in extractCalls' PROVE ExtractNamesJobs(m)'
    BY DEF ExtractCallsOK, ExtractInv
  <2>1. CASE m = n
    BY <2>1
  <2>2. CASE m \in extractCalls
    BY <2>2 DEF ExtractInv, ExtractCallsOK, ExtractNamesJobs, ExtractJobsMoveOn
  <2>3. QED
    BY <2>1, <2>2
<1>3. ExtractLocked'
  <2>1. \A m \in extractCalls' : ExtractPending(m) => extractPage.busy
    BY DEF ExtractInv, ExtractLocked
  <2>2. ASSUME NEW a \in extractCalls', NEW b \in extractCalls', ExtractPending(a),
               ExtractPending(b) PROVE a = b
    <3>1. CASE a \in extractCalls \ {k} /\ b \in extractCalls \ {k}
      BY <2>2, <3>1 DEF ExtractInv, ExtractLocked
    <3>2. CASE a = n /\ b \in extractCalls \ {k}
      BY <2>2, <3>2 DEF ExtractInv, ExtractLocked
    <3>3. CASE b = n /\ a \in extractCalls \ {k}
      BY <2>2, <3>3 DEF ExtractInv, ExtractLocked
    <3>4. QED
      BY <3>1, <3>2, <3>3
  <2>3. QED
    BY <2>1, <2>2 DEF ExtractLocked, ExtractPending
<1>4. ExtractHeld'
  <2> SUFFICES ASSUME ExtractWatched' PROVE extractPage.active
     /\ \A m \in extractCalls' : ~ExtractBegins(m)
    BY DEF ExtractHeld, ExtractBegins
  <2>1. ExtractWatched
    BY DEF ExtractWatched, ExtractInv, ExtractPageOK, ExtractJobsMoveOn
  <2>2. QED
    BY <2>1 DEF ExtractInv, ExtractHeld
<1>5. QED
  BY <1>1, <1>2, <1>3, <1>4 DEF ExtractInv, ExtractJobsMoveOn

\* The one call that locks the page is gone, and nothing of the kind comes.
LEMMA ExtractReleaseStep ==
  ASSUME ExtractInv, extracting' = extracting, extractPage' \in ExtractPageRecords,
         NEW k \in extractCalls, ExtractPending(k), extractCalls' = extractCalls \ {k},
         extractPage'.job # NoJob => extractPage'.job \in Jobs
            /\ extracting[extractPage'.job] # "free",
         \/ extractPage'.active
         \/ extractPage'.active = extractPage.active /\ extractPage'.job = extractPage.job
            /\ extractPage'.lost = extractPage.lost
  PROVE  ExtractInv'
<1>1. \A m \in extractCalls' : ~ExtractPending(m)
  BY DEF ExtractInv, ExtractLocked
<1>2. \A m \in extractCalls' : ~ExtractBegins(m)
  BY <1>1 DEF ExtractPending, ExtractBegins
<1>3. ExtractPageOK'
  BY DEF ExtractPageOK
<1>4. ExtractCallsOK'
  BY DEF ExtractInv, ExtractCallsOK, ExtractNamesJobs
<1>5. ExtractLocked'
  BY <1>1 DEF ExtractLocked, ExtractPending
<1>6. ExtractHeld'
  BY <1>2 DEF ExtractInv, ExtractHeld, ExtractWatched, ExtractBegins
<1>7. QED
  BY <1>3, <1>4, <1>5, <1>6 DEF ExtractInv

----------------------------------------------------------------------------
(* The steps *)

LEMMA ExtractInit == E!Init => ExtractInv
<1> SUFFICES ASSUME E!Init PROVE ExtractInv
  OBVIOUS
<1>1. extractPage \in ExtractPageRecords /\ extractPage.job = NoJob
  BY DEF E!Init, E!Closed, E!Nothing, ExtractPageRecords
<1>2. QED
  BY <1>1 DEF E!Init, ExtractInv, ExtractPageOK, ExtractCallsOK, ExtractLocked, ExtractHeld,
     ExtractWatched

LEMMA ExtractNewCall ==
  ASSUME extractPage \in ExtractPageRecords, NEW p \in Projects \union {NoProject},
         NEW kind \in {"load", "upload", "extract", "result"}, NEW picked \in SUBSET Assets
  PROVE  /\ E!Call(kind, picked) \in ExtractCallRecords /\ E!Call(kind, picked).kind = kind
         /\ [E!Load EXCEPT !.project = p] \in ExtractCallRecords
         /\ [E!Load EXCEPT !.project = p].kind = "load"
<1>1. E!Nothing \in [Assets -> Nat]
  BY DEF E!Nothing
<1>2. extractPage.project \in Projects \union {NoProject}
  BY DEF ExtractPageRecords
<1>3. QED
  BY <1>1, <1>2 DEF E!Call, E!Load, ExtractCallRecords

LEMMA ExtractVisitStep ==
  ASSUME ExtractInv, NEW p \in Projects, E!Visit(p) PROVE ExtractInv'
<1>1. extractPage \in ExtractPageRecords /\ extractCalls \subseteq ExtractCallRecords
  BY DEF ExtractInv, ExtractPageOK, ExtractCallsOK
<1>2. [E!Load EXCEPT !.project = p] \in ExtractCallRecords
      /\ [E!Load EXCEPT !.project = p].kind = "load"
  BY <1>1, ExtractNewCall
<1>3. extractPage' \in ExtractPageRecords /\ extractPage'.busy = extractPage.busy
      /\ extractPage'.job = extractPage.job
      /\ extractPage'.active = extractPage.active /\ extractPage'.lost = extractPage.lost
  BY <1>1 DEF E!Visit, ExtractPageRecords
<1>4. \A k \in extractCalls' : k \in extractCalls \/ (~ExtractPending(k) /\ k.kind # "started")
  BY <1>2 DEF E!Visit, ExtractPending
<1>5. QED
  BY <1>1, <1>2, <1>3, <1>4, ExtractJobsKept, ExtractQuietStep DEF E!Visit

\* The page forgets its job, and nothing under way is heard of any more.
LEMMA ExtractLeaveStep ==
  ASSUME ExtractInv, E!Leave PROVE ExtractInv'
<1>1. extractPage' \in ExtractPageRecords /\ extractPage'.job = NoJob
  BY DEF E!Leave, E!Closed, E!Nothing, ExtractPageRecords
<1>2. \A k \in extractCalls' : k \in ExtractCallRecords /\ ~k.live /\ ExtractNamesJobs(k)
  <2> SUFFICES ASSUME NEW k \in extractCalls, k \in ExtractCallRecords, ExtractNamesJobs(k)
               PROVE  /\ [k EXCEPT !.live = FALSE] \in ExtractCallRecords
                      /\ ~[k EXCEPT !.live = FALSE].live
                      /\ ExtractNamesJobs([k EXCEPT !.live = FALSE])
    BY DEF E!Leave, E!Orphaned, ExtractInv, ExtractCallsOK
  <2>1. QED
    BY DEF ExtractCallRecords, ExtractNamesJobs
<1>3. extracting' = extracting
  BY DEF E!Leave
<1>4. ExtractPageOK'
  BY <1>1 DEF ExtractPageOK
<1>5. ExtractCallsOK'
  BY <1>2, <1>3 DEF ExtractCallsOK, ExtractNamesJobs
<1>6. ExtractLocked' /\ ExtractHeld'
  BY <1>1, <1>2 DEF ExtractLocked, ExtractPending, ExtractHeld, ExtractWatched
<1>7. QED
  BY <1>3, <1>4, <1>5, <1>6 DEF ExtractInv

LEMMA ExtractRereadStep ==
  ASSUME ExtractInv, E!Reread PROVE ExtractInv'
<1>1. extractPage \in ExtractPageRecords /\ extractCalls \subseteq ExtractCallRecords
  BY DEF ExtractInv, ExtractPageOK, ExtractCallsOK
<1>2. extractPage.project \in Projects \union {NoProject}
  BY <1>1 DEF ExtractPageRecords
<1>3. E!Load \in ExtractCallRecords /\ E!Load.kind = "load"
  BY <1>1, <1>2, ExtractNewCall DEF E!Load
<1>4. \A k \in extractCalls' : k \in extractCalls \/ (~ExtractPending(k) /\ k.kind # "started")
  BY <1>3 DEF E!Reread, ExtractPending
<1>5. QED
  BY <1>1, <1>3, <1>4, ExtractJobsKept, ExtractQuietStep DEF E!Reread

LEMMA ExtractDoesStep ==
  ASSUME ExtractInv, NEW p \in ExtractPageRecords, p.busy = extractPage.busy,
         p.job = extractPage.job,
         p.active = extractPage.active, p.lost = extractPage.lost, E!Does(p)
  PROVE  ExtractInv'
BY ExtractJobsKept, ExtractQuietStep DEF E!Does, ExtractInv, ExtractCallsOK

LEMMA ExtractLocalStep ==
  ASSUME ExtractInv,
         E!NextCard \/ (\E fits \in BOOLEAN : E!ChooseFile(fits)) \/ \E a \in Assets : E!Toggle(a)
  PROVE  ExtractInv'
<1>1. extractPage \in ExtractPageRecords
  BY DEF ExtractInv, ExtractPageOK
<1>2. CASE E!NextCard
  <2>1. [extractPage EXCEPT !.result = FALSE] \in ExtractPageRecords
    BY <1>1 DEF ExtractPageRecords
  <2>2. QED
    BY <1>1, <1>2, <2>1, ExtractDoesStep DEF E!NextCard, ExtractPageRecords
<1>3. ASSUME NEW fits \in BOOLEAN, E!ChooseFile(fits) PROVE ExtractInv'
  <2>1. [extractPage EXCEPT !.file = fits] \in ExtractPageRecords
    BY <1>1 DEF ExtractPageRecords
  <2>2. QED
    BY <1>1, <1>3, <2>1, ExtractDoesStep DEF E!ChooseFile, ExtractPageRecords
<1>4. ASSUME NEW a \in Assets, E!Toggle(a) PROVE ExtractInv'
  <2> DEFINE picked == IF a \in extractPage.selected THEN extractPage.selected \ {a}
                       ELSE extractPage.selected \union {a}
  <2>1. picked \in SUBSET Assets
    BY <1>1 DEF ExtractPageRecords
  <2>2. E!Does([extractPage EXCEPT !.selected = picked])
    BY <1>4 DEF E!Toggle
  <2> HIDE DEF picked
  <2>3. [extractPage EXCEPT !.selected = picked] \in ExtractPageRecords
    BY <1>1, <2>1 DEF ExtractPageRecords
  <2>4. QED
    BY <1>1, <2>2, <2>3, ExtractDoesStep DEF ExtractPageRecords
<1>5. QED
  BY <1>2, <1>3, <1>4

\* The gestures that lock the page: it was not locked, so nothing was under way.
LEMMA ExtractLockStep ==
  ASSUME ExtractInv, NEW k \in ExtractCallRecords, k.kind \in {"upload", "extract"},
         ~extractPage.busy,
         extractCalls' = extractCalls \union {k}, extracting' = extracting,
            extractPage' \in ExtractPageRecords, extractPage'.busy,
         extractPage'.job = extractPage.job, extractPage'.active = extractPage.active,
            extractPage'.lost = extractPage.lost,
         k.kind = "upload" \/ ~extractPage.active
  PROVE  ExtractInv'
<1>1. \A m \in extractCalls : ~ExtractPending(m)
  BY DEF ExtractInv, ExtractLocked
<1>2. ExtractPageOK'
  BY DEF ExtractInv, ExtractPageOK
<1>3. ExtractCallsOK'
  BY DEF ExtractInv, ExtractCallsOK, ExtractNamesJobs
<1>4. ExtractLocked'
  BY <1>1 DEF ExtractLocked, ExtractPending
<1>5. ExtractHeld'
  BY DEF ExtractInv, ExtractHeld, ExtractWatched, ExtractBegins
<1>6. QED
  BY <1>2, <1>3, <1>4, <1>5 DEF ExtractInv

LEMMA ExtractSendStep ==
  ASSUME ExtractInv, E!Upload \/ E!StartByKey \/ E!StartByButton PROVE ExtractInv'
<1>1. extractPage \in ExtractPageRecords
  BY DEF ExtractInv, ExtractPageOK
<1>2. extractPage.project \in Projects \union {NoProject} /\ E!Picked \in SUBSET Assets
  BY <1>1 DEF ExtractPageRecords, E!Picked
<1>3. CASE E!Upload
  <2>1. E!Call("upload", {}) \in ExtractCallRecords /\ E!Call("upload", {}).kind = "upload"
    BY <1>1, <1>2, ExtractNewCall
  <2>2. extractPage' \in ExtractPageRecords /\ extractPage'.busy
        /\ extractPage'.job = extractPage.job
        /\ extractPage'.active = extractPage.active /\ extractPage'.lost = extractPage.lost
    BY <1>1, <1>3 DEF E!Upload, ExtractPageRecords
  <2>3. QED
    BY <1>3, <2>1, <2>2, ExtractLockStep DEF E!Upload, E!UploadForm
<1>4. CASE E!StartExtract
  <2>1. PICK picked \in SUBSET Assets : picked = E!Picked
    BY <1>2
  <2>2. E!Call("extract", picked) \in ExtractCallRecords /\ E!Call("extract",
        picked).kind = "extract"
    BY <1>1, <1>2, ExtractNewCall
  <2>3. extractPage' \in ExtractPageRecords /\ extractPage'.busy
        /\ extractPage'.job = extractPage.job
        /\ extractPage'.active = extractPage.active /\ extractPage'.lost = extractPage.lost
    BY <1>1, <1>4 DEF E!StartExtract, ExtractPageRecords
  <2>4. QED
    BY <1>4, <2>1, <2>2, <2>3, ExtractLockStep DEF E!StartExtract
<1>5. QED
  BY <1>3, <1>4 DEF E!StartByKey, E!StartByButton

----------------------------------------------------------------------------
LEMMA ExtractReplyStep ==
  ASSUME ExtractInv, NEW k \in extractCalls, NEW got \in [Assets -> Nat], k.kind # "started",
         E!Reply(k, "ok", got), UNCHANGED <<extractPage, extracting>>
  PROVE  ExtractInv'
<1> DEFINE n == [k EXCEPT !.state = "ok", !.got = got]
<1>1. k \in ExtractCallRecords
  BY DEF ExtractInv, ExtractCallsOK
<1>2. n \in ExtractCallRecords /\ n.kind = k.kind /\ n.live = k.live
  BY <1>1 DEF ExtractCallRecords
<1>3. extractCalls' \subseteq (extractCalls \ {k}) \union {n}
  BY DEF E!Reply
<1> HIDE DEF n
<1>4. ExtractNamesJobs(n)' /\ (ExtractPending(n) => ExtractPending(k))
      /\ (ExtractBegins(n) => ExtractBegins(k))
  BY <1>2 DEF ExtractNamesJobs, ExtractPending, ExtractBegins
<1>5. QED
  BY <1>2, <1>3, <1>4, ExtractJobsKept, ExtractAnswerStep

LEMMA ExtractServeStep ==
  ASSUME ExtractInv, NEW k \in extractCalls, E!Serve(k) PROVE ExtractInv'
<1>1. CASE E!ServeLoad(k)
  <2>1. PICK got \in [Assets -> Nat] :
            got = [a \in Assets |-> IF assets[a] = k.project THEN 1 ELSE 0]
    OBVIOUS
  <2>2. QED
    BY <1>1, <2>1, ExtractReplyStep DEF E!ServeLoad
<1>2. CASE E!ServeUpload(k)
  <2>1. PICK a \in Assets : E!Reply(k, "ok", [E!Nothing EXCEPT ![a] = 1])
    BY <1>2 DEF E!ServeUpload, E!AssetsOf
  <2>2. PICK got \in [Assets -> Nat] : got = [E!Nothing EXCEPT ![a] = 1]
    BY DEF E!Nothing
  <2>3. QED
    BY <1>2, <2>1, <2>2, ExtractReplyStep DEF E!ServeUpload
<1>3. CASE E!ServeExtract(k)
  <2>1. PICK j \in Jobs :
            /\ extracting[j] = "free"
            /\ extracting' = [extracting EXCEPT ![j] = "running"]
            /\ extractCalls' \subseteq (extractCalls \ {k}) \union
                   {[k EXCEPT !.state = "ok", !.kind = "started", !.picked = {j}]}
    BY <1>3 DEF E!ServeExtract
  <2> DEFINE n == [k EXCEPT !.state = "ok", !.kind = "started", !.picked = {j}]
  <2>2. k \in ExtractCallRecords /\ k.kind = "extract"
    BY <1>3 DEF ExtractInv, ExtractCallsOK, E!ServeExtract
  <2>3. n \in ExtractCallRecords /\ n.kind = "started" /\ n.live = k.live /\ n.picked = {j}
    BY <2>2 DEF ExtractCallRecords
  <2> HIDE DEF n
  <2>4. ExtractJobsMoveOn
    BY <2>1 DEF ExtractInv, ExtractJobsMoveOn
  <2>5. ExtractNamesJobs(n)' /\ (ExtractPending(n) => ExtractPending(k))
        /\ (ExtractBegins(n) => ExtractBegins(k))
    BY <2>1, <2>2, <2>3 DEF ExtractNamesJobs, ExtractPending, ExtractBegins, ExtractInv
  <2>6. extractCalls' \subseteq (extractCalls \ {k}) \union {n} /\ extractPage' = extractPage
    BY <1>3, <2>1 DEF E!ServeExtract, n
  <2>7. QED
    BY <2>3, <2>4, <2>5, <2>6, ExtractAnswerStep
<1>4. QED
  BY <1>1, <1>2, <1>3 DEF E!Serve

LEMMA ExtractDropStep ==
  ASSUME ExtractInv, NEW k \in extractCalls, E!Drop(k) PROVE ExtractInv'
<1> DEFINE n == [k EXCEPT !.state = "error"]
<1>1. k \in ExtractCallRecords /\ ExtractNamesJobs(k)
  BY DEF ExtractInv, ExtractCallsOK
<1>2. n \in ExtractCallRecords /\ n.kind = k.kind /\ n.live = k.live /\ n.picked = k.picked
  BY <1>1 DEF ExtractCallRecords
<1>3. extractCalls' \subseteq (extractCalls \ {k}) \union {n} /\ extractPage' = extractPage
      /\ extracting' = extracting
  BY DEF E!Drop, E!Lose
<1> HIDE DEF n
<1>4. ExtractNamesJobs(n)' /\ (ExtractPending(n) => ExtractPending(k))
      /\ (ExtractBegins(n) => ExtractBegins(k))
  BY <1>1, <1>2, <1>3 DEF ExtractNamesJobs, ExtractPending, ExtractBegins
<1>5. QED
  BY <1>2, <1>3, <1>4, ExtractJobsKept, ExtractAnswerStep

LEMMA ExtractJobEndsStep ==
  ASSUME ExtractInv, NEW j \in Jobs, E!JobEnds(j) PROVE ExtractInv'
<1>1. ExtractJobsMoveOn
  BY DEF E!JobEnds, ExtractInv, ExtractJobsMoveOn
<1>2. QED
  BY <1>1, ExtractQuietStep DEF E!JobEnds, ExtractInv, ExtractPageOK, ExtractCallsOK

LEMMA ExtractWatchStep ==
  ASSUME ExtractInv, E!Watch PROVE ExtractInv'
<1>1. extractPage \in ExtractPageRecords /\ extractCalls \subseteq ExtractCallRecords
  BY DEF ExtractInv, ExtractPageOK, ExtractCallsOK
<1>2. CASE E!Polled
  <2>1. PICK running \in BOOLEAN : /\ running = (extracting[extractPage.job] = "running")
                                   /\ extractPage' = [extractPage EXCEPT !.active = running,
                                                           !.polling = running]
    BY <1>2, Zenon DEF E!Polled
  <2>2. extractPage' \in ExtractPageRecords /\ extractPage'.busy = extractPage.busy
        /\ extractPage'.job = extractPage.job
        /\ extractPage'.active = running /\ extractPage'.lost = extractPage.lost
    BY <1>1, <2>1 DEF ExtractPageRecords
  <2>3. E!Call("result", {}) \in ExtractCallRecords /\ E!Call("result", {}).kind = "result"
    BY <1>1, ExtractNewCall DEF ExtractPageRecords
  <2>4. extractCalls' \subseteq extractCalls \union {E!Call("result", {})}
        /\ extracting' = extracting
    BY <1>2 DEF E!Polled
  <2>5. \A k \in extractCalls' : k \in extractCalls \/ (k \in ExtractCallRecords
        /\ k.kind = "result")
    BY <2>3, <2>4
  <2>6. ExtractPageOK'
    BY <2>2, <2>4 DEF ExtractInv, ExtractPageOK
  <2>7. ExtractCallsOK'
    BY <1>1, <2>4, <2>5 DEF ExtractInv, ExtractCallsOK, ExtractNamesJobs
  <2>8. ExtractLocked'
    BY <2>2, <2>5 DEF ExtractInv, ExtractLocked, ExtractPending
  <2>9. ExtractHeld'
    BY <2>1, <2>2, <2>4, <2>5 DEF ExtractInv, ExtractHeld, ExtractWatched, ExtractBegins
  <2>10. QED
    BY <2>4, <2>6, <2>7, <2>8, <2>9 DEF ExtractInv
<1>3. CASE E!PollsLost
  <2>1. extractPage' \in ExtractPageRecords /\ extractPage'.busy = extractPage.busy
        /\ extractPage'.job = extractPage.job /\ extractPage'.lost
    BY <1>1, <1>3 DEF E!PollsLost, ExtractPageRecords
  <2>2. extracting' = extracting /\ extractCalls' = extractCalls
    BY <1>3 DEF E!PollsLost
  <2>3. ExtractPageOK' /\ ExtractCallsOK' /\ ExtractLocked' /\ ExtractHeld'
    BY <2>1, <2>2 DEF ExtractInv, ExtractPageOK, ExtractCallsOK, ExtractNamesJobs,
       ExtractLocked, ExtractPending, ExtractHeld, ExtractWatched
  <2>4. QED
    BY <2>2, <2>3 DEF ExtractInv
<1>4. QED
  BY <1>2, <1>3 DEF E!Watch

----------------------------------------------------------------------------
LEMMA ExtractArriveStep ==
  ASSUME ExtractInv, NEW k \in extractCalls, E!Arrive(k) PROVE ExtractInv'
<1>1. extractPage \in ExtractPageRecords /\ extractCalls \subseteq ExtractCallRecords
  BY DEF ExtractInv, ExtractPageOK, ExtractCallsOK
<1>2. k.got \in [Assets -> Nat] /\ ExtractNamesJobs(k)
  BY <1>1 DEF ExtractCallRecords, ExtractInv, ExtractCallsOK
<1>3. CASE E!LoadArrives(k)
  <2>1. PICK polling \in BOOLEAN :
            extractPage' = [extractPage EXCEPT !.listed = k.got, !.loaded = TRUE,
               !.broken = FALSE,
                                 !.polling = polling]
    BY <1>3, Zenon DEF E!LoadArrives
  <2>2. extractPage' \in ExtractPageRecords /\ extractPage'.busy = extractPage.busy
        /\ extractPage'.job = extractPage.job
        /\ extractPage'.active = extractPage.active /\ extractPage'.lost = extractPage.lost
    BY <1>1, <1>2, <2>1 DEF ExtractPageRecords
  <2>3. QED
    BY <1>1, <1>3, <2>2, ExtractJobsKept, ExtractQuietStep DEF E!LoadArrives
<1>4. CASE E!UploadArrives(k)
  <2> DEFINE listed == [a \in Assets |-> extractPage.listed[a] + k.got[a]]
             selected == extractPage.selected \union {a \in Assets : k.got[a] > 0}
  <2>1. listed \in [Assets -> Nat] /\ selected \in SUBSET Assets
    BY <1>1, <1>2 DEF ExtractPageRecords
  <2>2. extractPage' = [extractPage EXCEPT !.listed = listed, !.selected = selected,
        !.file = FALSE,
                             !.busy = FALSE]
    BY <1>4 DEF E!UploadArrives
  <2> HIDE DEF listed, selected
  <2>3. extractPage' \in ExtractPageRecords /\ extractPage'.job = extractPage.job
        /\ extractPage'.active = extractPage.active
        /\ extractPage'.lost = extractPage.lost
    BY <1>1, <2>1, <2>2 DEF ExtractPageRecords
  <2>4. ExtractPending(k) /\ extractCalls' = extractCalls \ {k} /\ extracting' = extracting
    BY <1>4 DEF E!UploadArrives, E!Answered, ExtractPending
  <2>5. QED
    BY <2>3, <2>4, ExtractReleaseStep DEF ExtractInv, ExtractPageOK
<1>5. CASE E!ExtractArrives(k)
  <2>1. PICK j \in k.picked : extractPage' = [E!Started(extractPage,
        j) EXCEPT !.polling = E!Bench(extractPage)]
    BY <1>5 DEF E!ExtractArrives
  <2>2. j \in Jobs /\ extracting[j] # "free"
    BY <1>2, <1>5, <2>1 DEF E!ExtractArrives, ExtractNamesJobs
  <2>3. PICK polling \in BOOLEAN :
            extractPage' = [extractPage EXCEPT !.job = j, !.active = TRUE, !.busy = FALSE,
               !.lost = FALSE,
                                 !.polling = polling]
    BY <2>1, Zenon DEF E!Started, E!Bench
  <2>4. extractPage' \in ExtractPageRecords /\ extractPage'.job = j /\ extractPage'.active
    BY <1>1, <2>2, <2>3 DEF ExtractPageRecords
  <2>5. ExtractPending(k) /\ extractCalls' = extractCalls \ {k} /\ extracting' = extracting
    BY <1>5 DEF E!ExtractArrives, E!Answered, ExtractPending
  <2>6. QED
    BY <2>2, <2>4, <2>5, ExtractReleaseStep
<1>6. CASE E!ResultArrives(k)
  <2>1. extractPage' \in ExtractPageRecords /\ extractPage'.busy = extractPage.busy
        /\ extractPage'.job = extractPage.job
        /\ extractPage'.active = extractPage.active /\ extractPage'.lost = extractPage.lost
    BY <1>1, <1>6 DEF E!ResultArrives, ExtractPageRecords
  <2>2. QED
    BY <1>1, <1>6, <2>1, ExtractJobsKept, ExtractQuietStep DEF E!ResultArrives
<1>7. CASE E!CallFails(k)
  <2>1. extractCalls' = extractCalls \ {k} /\ extracting' = extracting /\ k.live
    BY <1>7 DEF E!CallFails, E!Failed
  <2>2. extractPage.busy \in BOOLEAN
    BY <1>1 DEF ExtractPageRecords
  <2>3. CASE k.kind \in {"upload", "extract", "started"}
    <3>1. PICK broken \in BOOLEAN, loaded \in BOOLEAN, polling \in BOOLEAN :
              extractPage' = [extractPage EXCEPT !.broken = broken, !.loaded = loaded,
                 !.polling = polling,
                                   !.busy = FALSE]
      BY <1>7, <2>3, Zenon DEF E!CallFails
    <3>2. extractPage' \in ExtractPageRecords /\ extractPage'.job = extractPage.job
          /\ extractPage'.active = extractPage.active
          /\ extractPage'.lost = extractPage.lost
      BY <1>1, <3>1 DEF ExtractPageRecords
    <3>3. QED
      BY <2>1, <2>3, <3>2, ExtractReleaseStep DEF ExtractInv, ExtractPageOK, ExtractPending
  <2>4. CASE k.kind \notin {"upload", "extract", "started"}
    <3>1. (extractPage.busy /\ k.kind \notin {"upload", "extract", "started"}) = extractPage.busy
      BY <2>2, <2>4, Zenon
    <3>2. PICK broken \in BOOLEAN, loaded \in BOOLEAN, polling \in BOOLEAN :
              extractPage' = [extractPage EXCEPT !.broken = broken, !.loaded = loaded,
                 !.polling = polling,
                                   !.busy = extractPage.busy]
      BY <1>7, <3>1, Zenon DEF E!CallFails
    <3>3. extractPage' \in ExtractPageRecords /\ extractPage'.job = extractPage.job
          /\ extractPage'.active = extractPage.active
          /\ extractPage'.lost = extractPage.lost /\ extractPage'.busy = extractPage.busy
      BY <1>1, <3>2 DEF ExtractPageRecords
    <3>4. QED
      BY <1>1, <2>1, <3>3, ExtractJobsKept, ExtractQuietStep
  <2>5. QED
    BY <2>3, <2>4
<1>8. QED
  BY <1>3, <1>4, <1>5, <1>6, <1>7 DEF E!Arrive

\* Calls may be refused and go, whatever happens elsewhere.
LEMMA ExtractGoneStep ==
  ASSUME ExtractInv, UNCHANGED <<extractPage, extracting>>,
         extractCalls' \subseteq extractCalls PROVE ExtractInv'
BY ExtractJobsKept, ExtractQuietStep DEF ExtractInv, ExtractPageOK, ExtractCallsOK

LEMMA ExtractStep == ASSUME ExtractInv, E!Next PROVE ExtractInv'
<1>1. CASE \E p \in Projects : E!Visit(p)
  BY <1>1, ExtractVisitStep
<1>2. CASE E!Leave
  BY <1>2, ExtractLeaveStep
<1>3. CASE E!Gesture
  BY <1>3, ExtractRereadStep, ExtractLocalStep, ExtractSendStep DEF E!Gesture
<1>4. CASE E!Watch \/ \E j \in Jobs : E!JobEnds(j)
  BY <1>4, ExtractWatchStep, ExtractJobEndsStep
<1>5. CASE \E k \in extractCalls : E!Serve(k) \/ E!Arrive(k) \/ E!Drop(k)
  BY <1>5, ExtractServeStep, ExtractArriveStep, ExtractDropStep
<1> QED
  BY <1>1, <1>2, <1>3, <1>4, <1>5 DEF E!Next

----------------------------------------------------------------------------
(* The dock *)

\* What was told is over for the tab and for the register.
DockToldIsOver ==
    \A t \in Tabs, j \in Followed :
        told[t][j] # 0 => /\ told[t][j] = 1
                          /\ status[j] # "none"
                          /\ j \notin registry
                          /\ dock[t][j] = D!Off

\* A job is out of the register for a reason.
DockGoneForAReason ==
    \A j \in Followed \ (registry \union released) :
        status[j] \in {"none", "silent", "canceled"} \/ \E t \in Tabs : told[t][j] = 1

DockInv == D!TypeOK /\ DockToldIsOver /\ DockGoneForAReason

----------------------------------------------------------------------------
\* The register as a tab reads it is a dock, and what is not registered is off it.
LEMMA DockShownIsADock ==
  ASSUME D!TypeOK, NEW t \in Tabs, NEW r \in SUBSET Followed
  PROVE  /\ D!Shown(t, r) \in [Followed -> 0..D!Off]
         /\ \A j \in Followed \ r : D!Shown(t, r)[j] = D!Off
<1>1. \A j \in Followed : dock[t][j] \in 0..D!Off /\ D!Off \in 0..D!Off /\ 0 \in 0..D!Off
  BY DEF D!TypeOK, D!Off, D!MAX_GET_FAILURES
<1>2. QED
  BY <1>1 DEF D!Shown

\* A tab that writes a smaller register, or one with a job nobody was told of, forgets
\* nothing that was told.
LEMMA DockWrittenKeepsTold ==
  ASSUME D!TypeOK, DockToldIsOver, NEW t \in Tabs, NEW r \in SUBSET Followed, D!Written(t, r),
         NEW u \in Tabs, NEW j \in Followed, j \notin r, told[u][j] # 0
  PROVE  j \notin registry' /\ dock'[u][j] = D!Off
<1>1. D!Shown(t, r)[j] = D!Off
  BY DockShownIsADock
<1>2. dock[u][j] = D!Off
  BY DEF DockToldIsOver
<1>3. dock' = [dock EXCEPT ![t] = D!Shown(t, r)] /\ registry' = r
  BY DEF D!Written
<1>4. dock'[u] = IF u = t THEN D!Shown(t, r) ELSE dock[u]
  BY <1>3 DEF D!TypeOK
<1>5. QED
  BY <1>1, <1>2, <1>3, <1>4

LEMMA DockWrittenIsTyped ==
  ASSUME D!TypeOK, NEW t \in Tabs, NEW r \in SUBSET Followed, D!Written(t, r)
  PROVE  registry' \subseteq Followed /\ dock' \in [Tabs -> [Followed -> 0..D!Off]]
<1>1. D!Shown(t, r) \in [Followed -> 0..D!Off]
  BY DockShownIsADock
<1>2. QED
  BY <1>1 DEF D!Written, D!TypeOK

----------------------------------------------------------------------------
LEMMA DockInit == D!Init => DockInv
<1> SUFFICES ASSUME D!Init PROVE DockInv
  OBVIOUS
<1>1. D!TypeOK
  BY SMT DEF D!Init, D!TypeOK, D!Final, D!Off, D!MAX_GET_FAILURES
<1>2. DockToldIsOver /\ DockGoneForAReason
  BY DEF D!Init, DockToldIsOver, DockGoneForAReason
<1>3. QED
  BY <1>1, <1>2 DEF DockInv

LEMMA DockRegisterStep ==
  ASSUME DockInv, NEW t \in Tabs, NEW j \in Followed, NEW kept \in BOOLEAN, D!Register(t, j, kept)
  PROVE  DockInv'
<1> DEFINE r == IF kept THEN registry \union {j} ELSE registry
<1> USE DEF DockInv
<1>1. r \in SUBSET Followed /\ D!Written(t, r)
  BY DEF D!Register, D!TypeOK
<1>2. D!TypeOK'
  <2>1. registry' \subseteq Followed /\ dock' \in [Tabs -> [Followed -> 0..D!Off]]
    BY <1>1, DockWrittenIsTyped
  <2>2. QED
    BY <2>1 DEF D!Register, D!TypeOK, D!Final
<1>3. \A i \in Followed : status'[i] = IF i = j THEN "running" ELSE status[i]
  BY DEF D!Register, D!TypeOK
<1>4. told' = told /\ status[j] = "none"
  BY DEF D!Register
<1>5. DockToldIsOver'
  <2> SUFFICES ASSUME NEW u \in Tabs, NEW i \in Followed, told[u][i] # 0
               PROVE  /\ told[u][i] = 1 /\ status'[i] # "none"
                      /\ i \notin registry' /\ dock'[u][i] = D!Off
    BY <1>4 DEF DockToldIsOver
  <2>1. i # j /\ i \notin r /\ told[u][i] = 1 /\ status[i] # "none"
    BY <1>4 DEF DockToldIsOver
  <2>2. QED
    BY <2>1, <1>1, <1>3, DockWrittenKeepsTold
<1>6. DockGoneForAReason'
  <2> SUFFICES ASSUME NEW i \in Followed, i \notin registry', i \notin released'
               PROVE  \/ status'[i] \in {"none", "silent", "canceled"}
                      \/ \E u \in Tabs : told[u][i] = 1
    BY <1>4 DEF DockGoneForAReason
  <2>1. i # j /\ i \notin registry /\ i \notin released
    BY <1>1 DEF D!Register, D!Written
  <2>2. QED
    BY <2>1, <1>3 DEF DockGoneForAReason
<1>7. QED
  BY <1>2, <1>5, <1>6

\* Taking a job out of the register needs a reason.
LEMMA DockRemoveStep ==
  ASSUME DockInv, NEW t \in Tabs, NEW j \in Followed, D!Written(t, registry \ {j}),
         status' = status, watch' = watch, at' = at,
         told' \in [Tabs -> [Followed -> Nat]], released' \subseteq Followed,
         released \subseteq released',
         \A u \in Tabs, i \in Followed : told'[u][i] # told[u][i] =>
             u = t /\ i = j /\ told'[u][i] = 1 /\ status[j] # "none",
         j \in released' \/ status[j] \in {"none", "silent", "canceled"} \/ told'[t][j] = 1
  PROVE  DockInv'
<1> DEFINE r == registry \ {j}
<1> USE DEF DockInv
<1>1. r \in SUBSET Followed
  BY DEF D!TypeOK
<1>2. D!TypeOK'
  <2>1. registry' \subseteq Followed /\ dock' \in [Tabs -> [Followed -> 0..D!Off]]
    BY <1>1, DockWrittenIsTyped
  <2>2. QED
    BY <2>1 DEF D!TypeOK
<1>3. DockToldIsOver'
  <2> SUFFICES ASSUME NEW u \in Tabs, NEW i \in Followed, told'[u][i] # 0
               PROVE  /\ told'[u][i] = 1 /\ status[i] # "none"
                      /\ i \notin registry' /\ dock'[u][i] = D!Off
    BY DEF DockToldIsOver
  <2>1. CASE told[u][i] # 0
    <3>1. i \notin r /\ told[u][i] = 1 /\ status[i] # "none"
      BY <2>1 DEF DockToldIsOver
    <3>2. i \notin registry' /\ dock'[u][i] = D!Off
      BY <3>1, <2>1, <1>1, DockWrittenKeepsTold
    <3>3. QED
      BY <3>1, <3>2
  <2>2. CASE told[u][i] = 0
    <3>1. u = t /\ i = j /\ told'[u][i] = 1 /\ status[j] # "none"
      BY <2>2
    <3>2. dock'[t] = D!Shown(t, r)
      BY <1>1 DEF D!Written, D!TypeOK
    <3>3. D!Shown(t, r)[j] = D!Off
      BY <1>1, DockShownIsADock
    <3>4. QED
      BY <3>1, <3>2, <3>3 DEF D!Written
  <2>3. QED
    BY <2>1, <2>2
<1>4. DockGoneForAReason'
  <2> SUFFICES ASSUME NEW i \in Followed, i \notin registry', i \notin released'
               PROVE  \/ status[i] \in {"none", "silent", "canceled"}
                      \/ \E u \in Tabs : told'[u][i] = 1
    BY DEF DockGoneForAReason
  <2>1. CASE i = j
    BY <2>1
  <2>2. CASE i # j
    <3>1. i \notin registry /\ i \notin released
      BY <2>2 DEF D!Written
    <3>2. \A u \in Tabs : told'[u][i] = told[u][i]
      BY <2>2
    <3>3. QED
      BY <3>1, <3>2 DEF DockGoneForAReason
  <2>3. QED
    BY <2>1, <2>2
<1>5. QED
  BY <1>2, <1>3, <1>4

LEMMA DockPolledStep ==
  ASSUME DockInv, NEW t \in Tabs, NEW j \in Followed, D!Polled(t, j)
  PROVE  DockInv'
<1> USE DEF DockInv
<1>1. dock[t][j] # D!Off /\ told[t][j] = 0
  <2>1. dock[t][j] # D!Off
    BY DEF D!Polled, D!Polling, D!Off, D!MAX_GET_FAILURES
  <2>2. QED
    BY <2>1 DEF DockToldIsOver
<1>2. CASE status[j] \in D!Final
  <2>1. /\ D!Written(t, registry \ {j}) /\ status' = status /\ watch' = watch /\ at' = at
        /\ told' = [told EXCEPT ![t][j] = IF D!Says(t, j) THEN @ + 1 ELSE @]
        /\ released' = IF at[t] = j THEN released \union {j} ELSE released
    BY <1>2 DEF D!Polled
  <2>2. told' \in [Tabs -> [Followed -> Nat]] /\ told'[t][j] = IF D!Says(t, j) THEN 1 ELSE 0
    BY <2>1, <1>1 DEF D!TypeOK
  <2>3. \A u \in Tabs, i \in Followed : ~(u = t /\ i = j) => told'[u][i] = told[u][i]
    BY <2>1 DEF D!TypeOK
  <2>4. status[j] # "none"
    BY <1>2 DEF D!Final
  <2>5. j \in released' \/ status[j] \in {"silent", "canceled"} \/ told'[t][j] = 1
    BY <2>1, <2>2, <1>2 DEF D!Says, D!Final
  <2>6. released' \subseteq Followed /\ released \subseteq released'
    BY <2>1 DEF D!TypeOK
  <2>7. \A u \in Tabs, i \in Followed : told'[u][i] # told[u][i] =>
            u = t /\ i = j /\ told'[u][i] = 1 /\ status[j] # "none"
    BY <2>2, <2>3, <2>4, <1>1
  <2>8. QED
    BY <2>1, <2>2, <2>5, <2>6, <2>7, DockRemoveStep
<1>3. CASE status[j] \notin D!Final
  <2>1. /\ dock' = [dock EXCEPT ![t][j] = 0]
        /\ UNCHANGED <<status, registry, watch, at, told, released>>
    BY <1>3 DEF D!Polled
  <2>2. D!TypeOK'
    BY <2>1, SMT DEF D!TypeOK, D!Off, D!MAX_GET_FAILURES
  <2>3. \A u \in Tabs, i \in Followed : ~(u = t /\ i = j) => dock'[u][i] = dock[u][i]
    BY <2>1 DEF D!TypeOK
  <2>4. DockToldIsOver'
    BY <2>1, <2>3, <1>1 DEF DockToldIsOver
  <2>5. DockGoneForAReason'
    BY <2>1 DEF DockGoneForAReason
  <2>6. QED
    BY <2>2, <2>4, <2>5
<1>4. QED
  BY <1>2, <1>3

LEMMA DockPollLostStep ==
  ASSUME DockInv, NEW t \in Tabs, NEW j \in Followed, D!PollLost(t, j)
  PROVE  DockInv'
<1> USE DEF DockInv
<1>1. /\ dock' = [dock EXCEPT ![t][j] = @ + 1]
      /\ UNCHANGED <<status, registry, watch, at, told, released>>
      /\ dock[t][j] \in 0..2
  BY DEF D!PollLost, D!AfterLoss, D!Polling, D!MAX_GET_FAILURES
<1>2. told[t][j] = 0
  BY <1>1 DEF DockToldIsOver, D!Off, D!MAX_GET_FAILURES
<1>3. D!TypeOK'
  BY <1>1, SMT DEF D!TypeOK, D!Off, D!MAX_GET_FAILURES
<1>4. \A u \in Tabs, i \in Followed : ~(u = t /\ i = j) => dock'[u][i] = dock[u][i]
  BY <1>1 DEF D!TypeOK
<1>5. DockToldIsOver'
  BY <1>1, <1>2, <1>4 DEF DockToldIsOver
<1>6. DockGoneForAReason'
  BY <1>1 DEF DockGoneForAReason
<1>7. QED
  BY <1>3, <1>5, <1>6

LEMMA DockJobEndsStep ==
  ASSUME DockInv, NEW j \in Followed, D!JobEnds(j)
  PROVE  DockInv'
<1> USE DEF DockInv
<1>1. PICK how \in D!Final : status' = [status EXCEPT ![j] = how]
  BY DEF D!JobEnds
<1>2. UNCHANGED <<registry, dock, watch, at, told, released>> /\ status[j] = "running"
  BY DEF D!JobEnds
<1>3. \A i \in Followed : status'[i] = IF i = j THEN how ELSE status[i]
  BY <1>1 DEF D!TypeOK
<1>4. D!TypeOK'
  BY <1>1, <1>2 DEF D!TypeOK
<1>5. how # "none"
  BY <1>1 DEF D!Final
<1>6. DockToldIsOver'
  BY <1>2, <1>3, <1>5 DEF DockToldIsOver
<1>7. DockGoneForAReason'
  BY <1>2, <1>3 DEF DockGoneForAReason
<1>8. QED
  BY <1>4, <1>6, <1>7

\* A tab reads the register, because another wrote it or because it is reloaded.
LEMMA DockReadStep ==
  ASSUME DockInv, NEW t \in Tabs, D!OnStorage(t) \/ D!Mount(t)
  PROVE  DockInv'
<1> USE DEF DockInv
<1> DEFINE d == IF D!OnStorage(t) THEN D!Shown(t, registry)
                ELSE [j \in Followed |-> IF j \in registry THEN 0 ELSE D!Off]
<1>1. /\ dock' = [dock EXCEPT ![t] = d]
      /\ UNCHANGED <<status, registry, at, told, released>>
     
      /\ watch' \in [Tabs -> Followed \union {NoJob}]
  BY DEF D!OnStorage, D!Mount, D!TypeOK
<1>2. d \in [Followed -> 0..D!Off] /\ \A j \in Followed \ registry : d[j] = D!Off
  <2>1. registry \in SUBSET Followed
    BY DEF D!TypeOK
  <2>2. CASE D!OnStorage(t)
    BY <2>1, <2>2, DockShownIsADock
  <2>3. CASE ~D!OnStorage(t)
    BY <2>3, SMT DEF D!Off, D!MAX_GET_FAILURES
  <2>4. QED
    BY <2>2, <2>3
<1> HIDE DEF d
<1>3. D!TypeOK'
  BY <1>1, <1>2 DEF D!TypeOK
<1>4. \A u \in Tabs : dock'[u] = IF u = t THEN d ELSE dock[u]
  BY <1>1 DEF D!TypeOK
<1>5. DockToldIsOver'
  BY <1>1, <1>2, <1>4 DEF DockToldIsOver
<1>6. DockGoneForAReason'
  BY <1>1 DEF DockGoneForAReason
<1>7. QED
  BY <1>3, <1>5, <1>6

LEMMA DockHideStep ==
  ASSUME DockInv, NEW t \in Tabs, NEW j \in Followed, D!Hide(t, j)
  PROVE  DockInv'
<1> USE DEF DockInv
<1>1. /\ D!Written(t, registry \ {j}) /\ released' = released \union {j}
      /\ UNCHANGED <<status, watch, at, told>>
  BY DEF D!Hide, D!TypeOK
<1>2. told' \in [Tabs -> [Followed -> Nat]] /\ released' \subseteq Followed
  BY <1>1 DEF D!TypeOK
<1>3. QED
  BY <1>1, <1>2, DockRemoveStep

LEMMA DockAgeStep ==
  ASSUME DockInv, NEW j \in Followed, D!Age(j)
  PROVE  DockInv'
<1> USE DEF DockInv
<1>1. /\ registry' = registry \ {j} /\ released' = released \union {j}
      /\ UNCHANGED <<status, dock, watch, at, told>>
  BY DEF D!Age, D!TypeOK
<1>2. D!TypeOK'
  BY <1>1 DEF D!TypeOK
<1>3. DockToldIsOver'
  BY <1>1 DEF DockToldIsOver
<1>4. DockGoneForAReason'
  BY <1>1 DEF DockGoneForAReason
<1>5. QED
  BY <1>2, <1>3, <1>4

\* What the author looks at, and the progress bar, touch neither register nor docks.
LEMMA DockLookStep ==
  ASSUME DockInv, NEW t \in Tabs,
         D!WatchPolled(t) \/ D!WatchLost(t) \/ \E j \in Followed \union {NoJob} : D!Go(t, j)
  PROVE  DockInv'
<1> USE DEF DockInv
<1>1. UNCHANGED <<status, registry, dock, told, released>>
  BY DEF D!WatchPolled, D!WatchLost, D!Go, D!TypeOK
<1>2. watch' \in [Tabs -> Followed \union {NoJob}] /\ at' \in [Tabs -> Followed \union {NoJob}]
  BY DEF D!WatchPolled, D!WatchLost, D!Go, D!TypeOK
<1>3. QED
  BY <1>1, <1>2 DEF D!TypeOK, DockToldIsOver, DockGoneForAReason

LEMMA DockIdleStep ==
  ASSUME DockInv, UNCHANGED <<status, registry, dock, watch, at, told, released>> PROVE DockInv'
BY DEF DockInv, D!TypeOK, DockToldIsOver, DockGoneForAReason

LEMMA DockStep == ASSUME DockInv, D!Next PROVE DockInv'
<1>1. CASE \E j \in Followed : D!JobEnds(j) \/ D!Age(j)
  BY <1>1, DockJobEndsStep, DockAgeStep
<1>2. CASE \E t \in Tabs : D!OnStorage(t) \/ D!Mount(t)
  BY <1>2, DockReadStep
<1>3. CASE \E t \in Tabs : \/ D!WatchPolled(t) \/ D!WatchLost(t)
                           \/ \E j \in Followed \union {NoJob} : D!Go(t, j)
  BY <1>3, DockLookStep
<1>4. CASE \E t \in Tabs, j \in Followed : D!Hide(t, j) \/ D!Polled(t, j) \/ D!PollLost(t, j)
  BY <1>4, DockHideStep, DockPolledStep, DockPollLostStep
<1>5. CASE \E t \in Tabs, j \in Followed, kept \in BOOLEAN : D!Register(t, j, kept)
  BY <1>5, DockRegisterStep
<1> QED
  BY <1>1, <1>2, <1>3, <1>4, <1>5 DEF D!Next

LEMMA DockIsEnough == DockInv => D!EndsAreToldOnce
<1> SUFFICES ASSUME DockInv PROVE D!EndsAreToldOnce
  OBVIOUS
<1>1. \A t \in Tabs, j \in Followed : told[t][j] <= 1
  BY DEF DockInv, D!TypeOK, DockToldIsOver
<1> QED
  BY <1>1 DEF DockInv, DockGoneForAReason, D!EndsAreToldOnce
----------------------------------------------------------------------------
(* The story bible *)

BibleKinds == {"list", "relist", "get", "create", "patch", "delete", "sync"}

BiblePageRecords ==
    [project: Projects \union {NoProject}, listed: SUBSET Entries,
     selected: Entries \union {NoEntry}, detail: Entries \union {NoEntry},
     text: Entries \union {NoEntry}, creating: BOOLEAN, busy: BOOLEAN,
     syncing: BOOLEAN, asking: Entries \union {NoEntry}]

BibleCallRecords ==
    [kind: BibleKinds, project: Projects \union {NoProject}, entry: Entries \union {NoEntry},
     text: Entries \union {NoEntry}, state: {"sent", "ok", "error"}, got: SUBSET Entries,
     live: BOOLEAN]

BibleCallOK(k) ==
    /\ k \in BibleCallRecords
    /\ k.kind = "create" => k.project \in Projects
    /\ k.kind = "patch" => k.text = k.entry

\* The form holds the text of the entry it names.
BiblePageOK == biblePage \in BiblePageRecords /\ biblePage.text = biblePage.detail

BibleStored == entries \in [Entries -> Projects \union {"free", "gone"}]

\* Where no page is mounted nothing is awaited or asked and no job is watched.
BibleHome(p, calls) ==
    p.project \in Projects \/ (~p.syncing /\ p.asking = NoEntry /\ \A k \in calls : ~k.live)

BibleInv == /\ BibleStored /\ BiblePageOK /\ BibleHome(biblePage, bibleCalls)
            /\ \A k \in bibleCalls : BibleCallOK(k)

LEMMA BibleInit == B!Init => BibleInv
<1> SUFFICES ASSUME B!Init PROVE BibleInv
  OBVIOUS
<1>1. BibleStored
  BY DEF B!Init, BibleStored
<1>2. BiblePageOK /\ ~biblePage.syncing /\ biblePage.asking = NoEntry
  BY DEF B!Init, B!Closed, BiblePageOK, BiblePageRecords
<1>3. QED
  BY <1>1, <1>2 DEF B!Init, BibleInv, BibleHome

LEMMA BibleGoneStep ==
  ASSUME BibleInv, UNCHANGED <<biblePage, entries>>, bibleCalls' \subseteq bibleCalls
  PROVE  BibleInv'
BY DEF BibleInv, BibleStored, BiblePageOK, BibleHome

\* A new call of a mounted page.
LEMMA BibleNewCall ==
  ASSUME BiblePageOK, NEW kind \in BibleKinds, NEW e \in Entries \union {NoEntry},
         NEW t \in Entries \union {NoEntry}, B!Mounted, kind = "patch" => t = e
  PROVE  BibleCallOK(B!Call(kind, e, t))
<1>1. biblePage.project \in Projects
  BY DEF BiblePageOK, BiblePageRecords, B!Mounted
<1>2. B!Call(kind, e, t) \in BibleCallRecords
  BY <1>1 DEF B!Call, BibleCallRecords
<1>3. QED
  BY <1>1, <1>2 DEF B!Call, BibleCallOK

\* A gesture of the author: the page goes on being mounted.
LEMMA BibleGestureStep ==
  ASSUME BibleInv, B!Mounted, entries' = entries, BiblePageOK',
         biblePage'.project = biblePage.project,
         NEW n, BibleCallOK(n), bibleCalls' \subseteq bibleCalls \union {n}
  PROVE  BibleInv'
<1>1. biblePage.project \in Projects
  BY DEF BibleInv, BiblePageOK, BiblePageRecords, B!Mounted
<1>2. QED
  BY <1>1 DEF BibleInv, BibleStored, BibleHome

LEMMA BibleVisitStep ==
  ASSUME BibleInv, NEW p \in Projects, B!Visit(p) PROVE BibleInv'
<1> DEFINE n == [B!Call("list", NoEntry, NoEntry) EXCEPT !.project = p]
<1>1. biblePage \in BiblePageRecords /\ biblePage.text = biblePage.detail
  BY DEF BibleInv, BiblePageOK
<1>2. biblePage' \in BiblePageRecords /\ biblePage'.text = biblePage'.detail
      /\ biblePage'.project \in Projects
  BY <1>1 DEF B!Visit, BiblePageRecords
<1>3. n \in BibleCallRecords /\ n.kind = "list"
  BY <1>1 DEF B!Call, BibleCallRecords, BibleKinds, BiblePageRecords
<1>4. BibleCallOK(n)
  BY <1>3 DEF BibleCallOK
<1>5. bibleCalls' = bibleCalls \union {n} /\ entries' = entries
  BY DEF B!Visit
<1> HIDE DEF n
<1>6. QED
  BY <1>2, <1>4, <1>5 DEF BibleInv, BibleStored, BiblePageOK, BibleHome

LEMMA BibleOrphans ==
  ASSUME \A k \in bibleCalls : BibleCallOK(k)
  PROVE  \A k \in B!Orphaned : BibleCallOK(k) /\ ~k.live
<1>1. ASSUME NEW c \in bibleCalls
      PROVE  BibleCallOK([c EXCEPT !.live = FALSE]) /\ ~[c EXCEPT !.live = FALSE].live
  <2>1. c \in BibleCallRecords /\ BibleCallOK(c)
    BY DEF BibleCallOK
  <2>2. QED
    BY <2>1 DEF BibleCallOK, BibleCallRecords
<1>2. QED
  BY <1>1 DEF B!Orphaned

LEMMA BibleLeaveStep == ASSUME BibleInv, B!Leave PROVE BibleInv'
<1>1. BiblePageOK' /\ ~biblePage'.syncing /\ biblePage'.asking = NoEntry
  BY DEF B!Leave, B!Closed, BiblePageOK, BiblePageRecords
<1>2. \A k \in bibleCalls' : BibleCallOK(k) /\ ~k.live
  BY BibleOrphans DEF B!Leave, BibleInv
<1>3. QED
  BY <1>1, <1>2 DEF B!Leave, BibleInv, BibleStored, BibleHome

LEMMA BibleGesture == ASSUME BibleInv, B!Gesture PROVE BibleInv'
<1>1. /\ biblePage \in BiblePageRecords /\ biblePage.text = biblePage.detail /\ BiblePageOK
      /\ entries' = entries
  BY DEF BibleInv, BiblePageOK, B!Gesture, B!SelectEntry, B!StartCreate, B!CloseForm, B!Submit,
     B!AskDelete, B!Sync, B!AnswerDelete
<1>2. ASSUME NEW e \in Entries, B!SelectEntry(e) PROVE BibleInv'
  <2>1. biblePage' \in BiblePageRecords /\ biblePage'.text = biblePage'.detail
        /\ biblePage'.project = biblePage.project
    BY <1>1, <1>2 DEF B!SelectEntry, BiblePageRecords
  <2>2. BibleCallOK(B!Call("get", e, NoEntry)) /\ B!Mounted
    BY <1>1, <1>2, BibleNewCall DEF B!SelectEntry, B!Row, B!Free, BibleKinds
  <2>3. bibleCalls' \subseteq bibleCalls \union {B!Call("get", e, NoEntry)}
    BY <1>2 DEF B!SelectEntry
  <2>4. QED
    BY <1>1, <2>1, <2>2, <2>3, BibleGestureStep DEF BiblePageOK
<1>3. CASE B!StartCreate \/ B!CloseForm \/ B!AskDelete
  <2>1. biblePage' \in BiblePageRecords /\ biblePage'.text = biblePage'.detail
        /\ biblePage'.project = biblePage.project
    BY <1>1, <1>3 DEF B!StartCreate, B!CloseForm, B!AskDelete, B!Reset, BiblePageRecords
  <2>2. B!Mounted /\ BibleCallOK(B!Call("sync", NoEntry, NoEntry)) /\ bibleCalls' = bibleCalls
    BY <1>1, <1>3, BibleNewCall DEF B!StartCreate, B!CloseForm, B!AskDelete, B!Free, BibleKinds
  <2>3. QED
    BY <1>1, <2>1, <2>2, BibleGestureStep DEF BiblePageOK
<1>4. CASE B!Submit
  <2>1. biblePage' \in BiblePageRecords /\ biblePage'.text = biblePage'.detail
        /\ biblePage'.project = biblePage.project
    BY <1>1, <1>4 DEF B!Submit, BiblePageRecords
  <2>2. B!Mounted /\ biblePage.detail \in Entries \union {NoEntry}
    BY <1>1, <1>4 DEF B!Submit, B!Free, BiblePageRecords
  <2>3. /\ BibleCallOK(B!Call("create", NoEntry, biblePage.text))
        /\ BibleCallOK(B!Call("patch", biblePage.detail, biblePage.text))
    BY <1>1, <2>2, BibleNewCall DEF BibleKinds
  <2>4. PICK n \in {B!Call("create", NoEntry, biblePage.text), B!Patched} :
            bibleCalls' = bibleCalls \union {n}
    BY <1>4 DEF B!Submit
  <2>5. BibleCallOK(n)
    BY <2>3, <2>4 DEF B!Patched
  <2>6. QED
    BY <1>1, <2>1, <2>2, <2>4, <2>5, BibleGestureStep DEF BiblePageOK
<1>5. CASE B!Sync
  <2>1. B!Mounted /\ BibleCallOK(B!Call("sync", NoEntry, NoEntry))
    BY <1>1, <1>5, BibleNewCall DEF B!Sync, B!Free, BibleKinds
  <2>2. bibleCalls' \subseteq bibleCalls \union {B!Call("sync", NoEntry, NoEntry)}
        /\ biblePage' = biblePage
    BY <1>5 DEF B!Sync
  <2>3. QED
    BY <1>1, <2>1, <2>2, BibleGestureStep DEF BiblePageOK
<1>6. ASSUME NEW agreed \in BOOLEAN, B!AnswerDelete(agreed) PROVE BibleInv'
  <2>1. biblePage' \in BiblePageRecords /\ biblePage'.text = biblePage'.detail
        /\ biblePage'.project = biblePage.project /\ biblePage'.syncing = biblePage.syncing
    BY <1>1, <1>6 DEF B!AnswerDelete, BiblePageRecords
  <2> DEFINE n == B!Call("delete", biblePage.asking, NoEntry)
  <2>2. bibleCalls' \subseteq bibleCalls \union {n}
    BY <1>6 DEF B!AnswerDelete
  <2>3. biblePage.project \in Projects
    BY <1>6 DEF B!AnswerDelete, BibleInv, BibleHome
  <2>4. BibleCallOK(n)
    <3>1. n \in BibleCallRecords /\ n.kind = "delete"
      BY <1>1, <2>3 DEF B!Call, BibleCallRecords, BibleKinds, BiblePageRecords
    <3>2. QED
      BY <3>1 DEF BibleCallOK
  <2> HIDE DEF n
  <2>5. QED
    BY <1>1, <2>1, <2>2, <2>3, <2>4 DEF BibleInv, BibleStored, BiblePageOK, BibleHome
<1>7. QED
  BY <1>2, <1>3, <1>4, <1>5, <1>6 DEF B!Gesture

\* An answer: k is replaced by what it has become, or goes when nobody waits for it.
LEMMA BibleReply ==
  ASSUME BibleInv, NEW k \in bibleCalls, NEW s \in {"ok", "error"}, NEW got \in SUBSET Entries,
         B!Reply(k, s, got)
  PROVE  \A m \in bibleCalls' : BibleCallOK(m) /\ (m.live => \E c \in bibleCalls : c.live)
<1> DEFINE n == [k EXCEPT !.state = s, !.got = got]
<1>1. BibleCallOK(k) /\ k \in BibleCallRecords
  BY DEF BibleInv, BibleCallOK
<1>2. n \in BibleCallRecords /\ n.kind = k.kind /\ n.project = k.project /\ n.entry = k.entry
      /\ n.text = k.text /\ n.live = k.live
  BY <1>1 DEF BibleCallRecords
<1>3. bibleCalls' \subseteq bibleCalls \union {n}
  BY DEF B!Reply
<1> HIDE DEF n
<1>4. BibleCallOK(n)
  BY <1>1, <1>2 DEF BibleCallOK
<1>5. QED
  BY <1>2, <1>3, <1>4 DEF BibleInv

LEMMA BibleServerStep ==
  ASSUME BibleInv, biblePage' = biblePage, BibleStored',
         \A m \in bibleCalls' : BibleCallOK(m) /\ (m.live => \E c \in bibleCalls : c.live)
  PROVE  BibleInv'
BY DEF BibleInv, BiblePageOK, BibleHome

LEMMA BibleServe == ASSUME BibleInv, NEW k \in bibleCalls, B!Serve(k) PROVE BibleInv'
<1>1. BibleCallOK(k) /\ BibleStored
  BY DEF BibleInv
<1>2. CASE B!ServeList(k) \/ B!ServeGet(k) \/ B!ServeSync(k)
  <2>1. B!Stored(k.project) \in SUBSET Entries
    BY DEF B!Stored
  <2>2. PICK s \in {"ok", "error"}, got \in SUBSET Entries : B!Reply(k, s, got)
    BY <1>2, <2>1 DEF B!ServeList, B!ServeGet, B!ServeSync
  <2>3. BibleStored' /\ biblePage' = biblePage
    BY <1>1, <1>2 DEF B!ServeList, B!ServeGet, B!ServeSync, BibleStored
  <2>4. QED
    BY <2>2, <2>3, BibleReply, BibleServerStep
<1>3. CASE B!ServeCreate(k)
  <2>1. PICK e \in Entries : /\ entries' = [entries EXCEPT ![e] = k.project]
                             /\ B!Reply(k, "ok", {e})
    BY <1>3 DEF B!ServeCreate, B!Stored
  <2>2. k.project \in Projects
    BY <1>1, <1>3 DEF B!ServeCreate, BibleCallOK
  <2>3. BibleStored' /\ biblePage' = biblePage
    BY <1>1, <1>3, <2>1, <2>2 DEF B!ServeCreate, BibleStored
  <2>4. QED
    BY <2>1, <2>3, BibleReply, BibleServerStep
<1>4. CASE B!ServeDelete(k)
  <2>1. PICK s \in {"ok", "error"} : B!Reply(k, s, {})
    BY <1>4 DEF B!ServeDelete
  <2>2. BibleStored' /\ biblePage' = biblePage
    BY <1>1, <1>4 DEF B!ServeDelete, BibleStored
  <2>3. QED
    BY <2>1, <2>2, BibleReply, BibleServerStep
<1>5. QED
  BY <1>2, <1>3, <1>4 DEF B!Serve

\* What the page waited for is there: it is mounted.
LEMMA BibleAnswerStep ==
  ASSUME BibleInv, entries' = entries, biblePage' \in BiblePageRecords,
         biblePage'.text = biblePage'.detail, biblePage'.project = biblePage.project,
         NEW k \in bibleCalls, k.live, bibleCalls' = bibleCalls \ {k}
  PROVE  BibleInv'
BY DEF BibleInv, BibleStored, BiblePageOK, BibleHome

LEMMA BibleArrive == ASSUME BibleInv, NEW k \in bibleCalls, B!Arrive(k) PROVE BibleInv'
<1>1. /\ biblePage \in BiblePageRecords /\ biblePage.text = biblePage.detail
      /\ k \in BibleCallRecords
  BY DEF BibleInv, BiblePageOK, BibleCallOK
<1>2. CASE B!EntryArrives(k) \/ B!PatchArrives(k)
  <2>1. PICK e \in Entries \union {NoEntry} : e = k.entry
    BY <1>1 DEF BibleCallRecords
  <2>2. PICK busy \in BOOLEAN :
            biblePage' = [biblePage EXCEPT !.detail = e, !.text = e, !.busy = busy]
    <3>1. CASE B!EntryArrives(k)
      <4>1. biblePage' = [biblePage EXCEPT !.detail = e, !.text = e, !.busy = biblePage.busy]
        BY <1>1, <2>1, <3>1 DEF B!EntryArrives, B!Shown, BiblePageRecords
      <4>2. QED
        BY <1>1, <4>1 DEF BiblePageRecords
    <3>2. CASE B!PatchArrives(k)
      BY <1>1, <2>1, <3>2 DEF B!PatchArrives, B!Shown, BiblePageRecords
    <3>3. QED
      BY <1>2, <3>1, <3>2
  <2>3. biblePage' \in BiblePageRecords /\ biblePage'.text = biblePage'.detail
        /\ biblePage'.project = biblePage.project
    BY <1>1, <2>2 DEF BiblePageRecords
  <2>4. QED
    BY <1>2, <2>3, BibleAnswerStep DEF B!EntryArrives, B!PatchArrives, B!Answered
<1>3. CASE B!CreateArrives(k) \/ B!DeleteArrives(k)
  <2>1. k.got \in SUBSET Entries
    BY <1>1 DEF BibleCallRecords
  <2>2. PICK list \in SUBSET Entries :
            biblePage' = [B!Reset(biblePage) EXCEPT !.listed = list, !.busy = FALSE]
    <3>1. B!Reset(biblePage).listed \in SUBSET Entries
      BY <1>1 DEF B!Reset, BiblePageRecords
    <3>2. QED
      BY <1>3, <2>1, <3>1 DEF B!CreateArrives, B!DeleteArrives
  <2>3. biblePage' \in BiblePageRecords /\ biblePage'.text = biblePage'.detail
        /\ biblePage'.project = biblePage.project
    BY <1>1, <2>2 DEF B!Reset, BiblePageRecords
  <2>4. QED
    BY <1>3, <2>3, BibleAnswerStep DEF B!CreateArrives, B!DeleteArrives, B!Answered
<1>4. CASE B!ListArrives(k) \/ B!SyncArrives(k) \/ B!CallFails(k)
  <2>1. k.got \in SUBSET Entries
    BY <1>1 DEF BibleCallRecords
  <2>2. biblePage' \in BiblePageRecords /\ biblePage'.text = biblePage'.detail
        /\ biblePage'.project = biblePage.project
    BY <1>1, <1>4, <2>1 DEF B!ListArrives, B!SyncArrives, B!CallFails, BiblePageRecords
  <2>3. QED
    BY <1>4, <2>2, BibleAnswerStep
    DEF B!ListArrives, B!SyncArrives, B!CallFails, B!Answered, B!Failed
<1>5. QED
  BY <1>2, <1>3, <1>4 DEF B!Arrive

LEMMA BibleDrop == ASSUME BibleInv, NEW k \in bibleCalls, B!Drop(k) PROVE BibleInv'
<1> DEFINE n == [k EXCEPT !.state = "error"]
<1>1. BibleCallOK(k) /\ k \in BibleCallRecords /\ k.live
  BY DEF BibleInv, BibleCallOK, B!Drop, B!Lose
<1>2. n \in BibleCallRecords /\ n.kind = k.kind /\ n.project = k.project /\ n.entry = k.entry
      /\ n.text = k.text
  BY <1>1 DEF BibleCallRecords
<1>3. bibleCalls' \subseteq bibleCalls \union {n}
  BY DEF B!Drop, B!Lose
<1> HIDE DEF n
<1>4. BibleCallOK(n)
  BY <1>1, <1>2 DEF BibleCallOK
<1>5. QED
  BY <1>1, <1>3, <1>4, BibleServerStep DEF BibleInv, BibleStored, B!Drop

LEMMA BibleSyncEnds == ASSUME BibleInv, B!SyncEnds PROVE BibleInv'
<1>1. biblePage \in BiblePageRecords /\ biblePage.text = biblePage.detail /\ BibleStored
  BY DEF BibleInv, BiblePageOK
<1>2. biblePage.project \in Projects
  BY DEF BibleInv, BibleHome, B!SyncEnds
<1>3. biblePage' \in BiblePageRecords /\ biblePage'.text = biblePage'.detail
      /\ biblePage'.project \in Projects
  BY <1>1, <1>2 DEF B!SyncEnds, BiblePageRecords
<1>4. BibleStored'
  BY <1>1, <1>2 DEF B!SyncEnds, BibleStored, B!Stored
<1> DEFINE n == B!Call("relist", NoEntry, NoEntry)
<1>5. BibleCallOK(n)
  <2>1. n \in BibleCallRecords /\ n.kind = "relist"
    BY <1>2 DEF B!Call, BibleCallRecords, BibleKinds
  <2>2. QED
    BY <2>1 DEF BibleCallOK
<1>6. bibleCalls' \subseteq bibleCalls \union {n}
  BY DEF B!SyncEnds
<1> HIDE DEF n
<1>7. QED
  BY <1>3, <1>4, <1>5, <1>6 DEF BibleInv, BiblePageOK, BibleHome

LEMMA BibleStep == ASSUME BibleInv, B!Next PROVE BibleInv'
<1>1. CASE \E p \in Projects : B!Visit(p)
  BY <1>1, BibleVisitStep
<1>2. CASE \E k \in bibleCalls : B!Serve(k) \/ B!Arrive(k) \/ B!Drop(k)
  BY <1>2, BibleServe, BibleArrive, BibleDrop
<1>3. QED
  BY <1>1, <1>2, BibleLeaveStep, BibleGesture, BibleSyncEnds DEF B!Next

LEMMA BibleIsEnough == BibleInv => B!TypeOK /\ B!SaveGoesToItsEntry
BY DEF BibleInv, BibleStored, BiblePageOK, BiblePageRecords, BibleCallOK, BibleCallRecords,
   BibleKinds, B!TypeOK, B!SaveGoesToItsEntry

----------------------------------------------------------------------------
(* The card laboratory *)

LabKinds == {"load", "current", "version", "save", "audit", "sample"}

LabPageRecords ==
    [card: Cards \union {NoCard}, carries: BOOLEAN, shown: Cards \union {NoCard},
     version: 0..MaxVersion, max: 1..MaxVersion,
     levels: {"loaded", "typed", "suggested"}, applied: BOOLEAN, busy: BOOLEAN,
     auditing: Cards \union {NoCard}, sampling: BOOLEAN, asking: SUBSET L!Reads]

LabCallRecords ==
    [kind: LabKinds, card: Cards, version: 0..MaxVersion, state: {"sent", "ok", "error"},
     got: 0..MaxVersion, live: BOOLEAN]

Histories == [Cards -> [edits: BOOLEAN, times: Nat]]

\* What a card is loaded or saved with is one of its versions.
LabCallOK(k) ==
    /\ k \in LabCallRecords
    /\ k.kind \in {"load", "save"} /\ k.state = "ok" => k.got >= 1

\* A page that has come with suggestions is a card's.
LabPageOK(p) ==
    /\ p \in LabPageRecords
    /\ p.carries => p.card \in Cards

\* Suggestions that can still come into the sliders, from the history's entry or from the page
\* that came with them, were not in them yet.
Unspent(p, h) ==
    /\ \A c \in Cards : h[c].edits => h[c].times = 0
    /\ p.carries => h[p.card].times = 0
    /\ \A c \in Cards : h[c].times <= 1

LabServer == versions \in [Cards -> 1..MaxVersion] /\ reports \subseteq Cards

LabInv == /\ LabServer /\ LabPageOK(labPage) /\ history \in Histories
          /\ Unspent(labPage, history)
          /\ \A k \in labCalls : LabCallOK(k)

LEMMA LabClosed == L!Closed \in LabPageRecords /\ LabPageOK(L!Closed)
BY StudioBounds DEF L!Closed, LabPageRecords, LabPageOK

LEMMA LabInit == L!Init => LabInv
<1> SUFFICES ASSUME L!Init PROVE LabInv
  OBVIOUS
<1>1. LabServer
  BY StudioBounds DEF L!Init, LabServer
<1>2. LabPageOK(labPage) /\ ~labPage.carries
  BY LabClosed DEF L!Init, L!Closed
<1>3. history \in Histories /\ \A c \in Cards : ~history[c].edits /\ history[c].times = 0
  BY DEF L!Init, Histories
<1>4. QED
  BY <1>1, <1>2, <1>3 DEF L!Init, LabInv, Unspent

LEMMA LabGoneStep ==
  ASSUME LabInv, UNCHANGED <<labPage, history, versions, reports>>, labCalls' \subseteq labCalls
  PROVE  LabInv'
BY DEF LabInv, LabServer

\* A page changes that keeps its card and whether it carries suggestions; one call is made.
LEMMA LabQuietStep ==
  ASSUME LabInv, UNCHANGED <<history, versions, reports>>, LabPageOK(labPage)',
         labPage'.card = labPage.card, labPage'.carries => labPage.carries,
         NEW n, LabCallOK(n), labCalls' \subseteq labCalls \union {n}
  PROVE  LabInv'
BY DEF LabInv, LabServer, Unspent

LEMMA LabNewCall ==
  ASSUME NEW kind \in LabKinds, NEW c \in Cards, NEW v \in 0..MaxVersion
  PROVE  LabCallOK(L!Call(kind, c, v))
BY StudioBounds DEF L!Call, LabCallOK, LabCallRecords

\* The suggestions a page carries go into the sliders, once.
LEMMA LabSettled ==
  ASSUME NEW p, NEW h, LabPageOK(p), h \in Histories, Unspent(p, h), L!Settled(p, h)
  PROVE  LabPageOK(labPage)' /\ (history \in Histories)' /\ Unspent(labPage, history)'
<1>1. CASE ~L!Suggested(p)
  <2>1. labPage' = p /\ history' = h
    BY <1>1 DEF L!Settled
  <2>2. QED
    BY <2>1
<1>2. CASE L!Suggested(p)
  <2>1. /\ p \in LabPageRecords /\ p.card \in Cards /\ h[p.card].times = 0
        /\ labPage' = [p EXCEPT !.levels = "suggested", !.applied = TRUE, !.carries = FALSE]
        /\ history' = L!Cleared([h EXCEPT ![p.card].times = @ + 1], p.card)
    BY <1>2 DEF L!Settled, L!Suggested, LabPageOK, Unspent
  <2>2. labPage' \in LabPageRecords /\ ~labPage'.carries /\ labPage'.card \in Cards
    BY <2>1 DEF LabPageRecords
  <2>3. PICK c \in Cards : c = p.card
    BY <2>1
  <2>4. h[c] \in [edits: BOOLEAN, times: Nat] /\ h[c].times = 0
    BY <2>1, <2>3 DEF Histories
  <2>5. history' = [h EXCEPT ![c] = [edits |-> FALSE, times |-> 1]]
    <3>1. PICK g : g = [h EXCEPT ![c].times = @ + 1]
      OBVIOUS
    <3>2. /\ g \in Histories /\ g[c].times = 1 /\ DOMAIN g = Cards
          /\ \A d \in Cards : d # c => g[d] = h[d]
      BY <2>4, <3>1 DEF Histories
    <3>3. history' = [g EXCEPT ![c].edits = FALSE]
      BY <2>1, <2>3, <3>1 DEF L!Cleared
    <3>4. PICK r \in [edits: BOOLEAN, times: Nat] : r = g[c] /\ r.times = 1
      BY <3>2 DEF Histories
    <3> DEFINE s == [r EXCEPT !.edits = FALSE]
    <3>5. s \in [edits: BOOLEAN, times: Nat] /\ ~s.edits /\ s.times = 1
      BY <3>4
    <3>6. history' = [g EXCEPT ![c] = s]
      BY <3>3, <3>4
    <3> HIDE DEF s
    <3>7. s = [edits |-> FALSE, times |-> 1]
      BY <3>5
    <3>8. history' \in [Cards -> [edits: BOOLEAN, times: Nat]]
          /\ \A d \in Cards : history'[d] = IF d = c THEN [edits |-> FALSE, times |-> 1] ELSE h[d]
      BY <3>2, <3>6, <3>7 DEF Histories
    <3>9. QED
      BY <3>8 DEF Histories
  <2>6. /\ history' \in Histories
        /\ \A d \in Cards : history'[d] = IF d = c THEN [edits |-> FALSE, times |-> 1] ELSE h[d]
    BY <2>5 DEF Histories
  <2>7. QED
    BY <2>2, <2>6 DEF LabPageOK, Unspent
<1>3. QED
  BY <1>1, <1>2

LEMMA LabOrphans ==
  ASSUME \A k \in labCalls : LabCallOK(k) PROVE \A k \in L!Orphaned : LabCallOK(k)
<1>1. ASSUME NEW c \in labCalls PROVE LabCallOK([c EXCEPT !.live = FALSE])
  <2>1. c \in LabCallRecords /\ LabCallOK(c)
    BY DEF LabCallOK
  <2>2. QED
    BY <2>1 DEF LabCallOK, LabCallRecords
<1>2. QED
  BY <1>1 DEF L!Orphaned

\* The page is unmounted: by the author, by the browser or by the end of a job.
LEMMA LabClosedStep ==
  ASSUME LabInv, labPage' = L!Closed, labCalls' = L!Orphaned, versions' = versions,
         history' = history, reports' \subseteq Cards
  PROVE  LabInv'
<1>1. LabPageOK(labPage)' /\ ~labPage'.carries
  BY LabClosed DEF L!Closed
<1>2. \A k \in labCalls' : LabCallOK(k)
  BY LabOrphans DEF LabInv
<1>3. QED
  BY <1>1, <1>2 DEF LabInv, LabServer, Unspent

LEMMA LabLeaveStep == ASSUME LabInv, L!Leave PROVE LabInv'
BY LabClosedStep DEF L!Leave, LabInv, LabServer

----------------------------------------------------------------------------
\* A card's page begins, or begins anew.
LEMMA LabComeStep ==
  ASSUME LabInv, NEW c \in Cards, L!Visit(c) \/ L!FromReport(c) \/ L!Return(c)
  PROVE  LabInv'
<1>1. labPage \in LabPageRecords /\ LabPageOK(labPage) /\ Unspent(labPage, history)
      /\ history \in Histories
  BY DEF LabInv, LabPageOK
<1>2. LabCallOK(L!Call("load", c, 0)) /\ labCalls' = labCalls \union {L!Call("load", c, 0)}
  BY LabNewCall, StudioBounds DEF LabKinds, L!Visit, L!FromReport, L!Return
<1>3. LabServer' /\ \A k \in labCalls' : LabCallOK(k)
  BY <1>2 DEF LabInv, LabServer, L!Visit, L!FromReport, L!Return
<1>4. CASE L!Visit(c)
  <2>1. labPage' \in LabPageRecords /\ labPage'.card = c /\ ~labPage'.carries
    BY <1>1, <1>4 DEF L!Visit, LabPageRecords
  <2>2. history' = history
    BY <1>4 DEF L!Visit
  <2>3. QED
    BY <1>1, <1>3, <2>1, <2>2 DEF LabInv, LabPageOK, Unspent
<1>5. CASE L!FromReport(c)
  <2>1. labPage' \in LabPageRecords /\ labPage'.card = c
    BY <1>5, LabClosed DEF L!FromReport, LabPageRecords
  <2>2. history' = [history EXCEPT ![c] = [edits |-> TRUE, times |-> 0]]
    BY <1>5 DEF L!FromReport
  <2>3. /\ history' \in Histories /\ history'[c].times = 0
        /\ \A d \in Cards : d = c \/ history'[d] = history[d]
    BY <1>1, <2>2 DEF Histories
  <2>4. QED
    BY <1>1, <1>3, <2>1, <2>3 DEF LabInv, LabPageOK, Unspent
<1>6. CASE L!Return(c)
  <2>1. PICK p : p = [labPage EXCEPT !.card = c, !.carries = history[c].edits]
    OBVIOUS
  <2>2. PICK h : h = history
    OBVIOUS
  <2>3. history[c].edits \in BOOLEAN
    BY <1>1 DEF Histories
  <2>4. p \in LabPageRecords /\ p.card = c /\ p.carries = history[c].edits
    BY <1>1, <2>1, <2>3 DEF LabPageRecords
  <2>5. LabPageOK(p) /\ Unspent(p, h) /\ h \in Histories /\ L!Settled(p, h)
    BY <1>1, <1>6, <2>1, <2>2, <2>4 DEF L!Return, LabPageOK, Unspent
  <2>6. QED
    BY <1>3, <2>5, LabSettled DEF LabInv
<1>7. QED
  BY <1>4, <1>5, <1>6

LEMMA LabReload == ASSUME LabInv, L!Reload PROVE LabInv'
<1>1. labPage \in LabPageRecords /\ Unspent(labPage, history) /\ history \in Histories
  BY DEF LabInv, LabPageOK
<1>2. PICK c \in Cards : c = labPage.card
  BY <1>1 DEF L!Reload, L!Mounted, LabPageRecords
<1>3. labPage' = [L!Closed EXCEPT !.card = c, !.carries = history[c].edits]
      /\ history[c].edits \in BOOLEAN
  BY <1>1, <1>2 DEF L!Reload, Histories
<1>4. labPage' \in LabPageRecords /\ labPage'.card = c /\ labPage'.carries = history[c].edits
  BY <1>3, LabClosed DEF LabPageRecords
<1>5. \A k \in labCalls' : LabCallOK(k)
  BY <1>2, LabOrphans, LabNewCall, StudioBounds DEF L!Reload, LabInv, LabKinds
<1>6. QED
  BY <1>1, <1>4, <1>5 DEF L!Reload, LabInv, LabServer, LabPageOK, Unspent

\* What the author does on the page, but for the browser's reload.
LEMMA LabGesture == ASSUME LabInv, L!Gesture PROVE LabInv'
<1>1. labPage \in LabPageRecords /\ LabPageOK(labPage)
  BY DEF LabInv, LabPageOK
<1>2. CASE L!Retry
  <2>1. labPage.card \in Cards
    BY <1>1, <1>2 DEF L!Retry, L!Free, L!Mounted, LabPageRecords
  <2>2. LabCallOK(L!Call("load", labPage.card, 0))
    BY <2>1, LabNewCall, StudioBounds DEF LabKinds
  <2>3. QED
    BY <1>1, <1>2, <2>2, LabQuietStep DEF L!Retry
<1>3. CASE L!Type
  <2>1. labPage.card \in Cards
    BY <1>1, <1>3 DEF L!Type, L!Form, L!Free, L!Mounted, LabPageRecords
  <2>2. /\ labPage' \in LabPageRecords /\ labPage'.card = labPage.card
        /\ labPage'.carries = labPage.carries
    BY <1>1, <1>3 DEF L!Type, LabPageRecords
  <2>3. LabCallOK(L!Call("load", labPage.card, 0))
    BY <2>1, LabNewCall, StudioBounds DEF LabKinds
  <2>4. QED
    BY <1>3, <2>1, <2>2, <2>3, LabQuietStep DEF L!Type, LabPageOK
<1>4. ASSUME NEW kind \in {"save", "audit", "sample"}, L!Busily(kind) PROVE LabInv'
  <2>1. labPage.card \in Cards
    BY <1>1, <1>4 DEF L!Busily, L!Mounted, LabPageRecords
  <2>2. /\ labPage' \in LabPageRecords /\ labPage'.card = labPage.card
        /\ labPage'.carries = labPage.carries
    BY <1>1, <1>4 DEF L!Busily, LabPageRecords
  <2>3. LabCallOK(L!Call(kind, labPage.card, 0))
    BY <2>1, LabNewCall, StudioBounds DEF LabKinds
  <2>4. QED
    BY <1>4, <2>1, <2>2, <2>3, LabQuietStep DEF L!Busily, LabPageOK
<1>5. ASSUME labPage.card \in Cards, NEW v \in 0..MaxVersion
      PROVE  L!ReadVersion(v) \in L!Reads /\ LabCallOK(L!ReadVersion(v))
  <2>1. L!ReadVersion(v) \in L!Reads
    BY <1>5, StudioBounds DEF L!ReadVersion, L!Call, L!Reads
  <2>2. LabCallOK(L!ReadVersion(v))
    BY <1>5, LabNewCall, StudioBounds DEF L!ReadVersion, LabKinds
  <2>3. QED
    BY <2>1, <2>2
<1>6. ASSUME NEW v \in 1..MaxVersion, L!SelectVersion(v) PROVE LabInv'
  <2>1. labPage.card \in Cards /\ v \in 0..MaxVersion
    BY <1>1, <1>6, StudioBounds
       DEF L!SelectVersion, L!Chip, L!Form, L!Free, L!Mounted, LabPageRecords
  <2>2. L!ReadVersion(v) \in L!Reads /\ LabCallOK(L!ReadVersion(v))
    BY <1>5, <2>1
  <2>3. PICK k \in L!Reads : k = L!ReadVersion(v) /\ LabCallOK(k)
    BY <2>2
  <2>4. labPage' = labPage \/ labPage' = [labPage EXCEPT !.asking = {k}]
    BY <1>6, <2>3 DEF L!SelectVersion
  <2>5. /\ labPage' \in LabPageRecords /\ labPage'.card = labPage.card
        /\ labPage'.carries = labPage.carries
    BY <1>1, <2>4 DEF LabPageRecords
  <2>6. QED
    BY <1>6, <2>1, <2>3, <2>5, LabQuietStep DEF L!SelectVersion, LabPageOK
<1>7. ASSUME NEW agreed \in BOOLEAN, L!AnswerSwitch(agreed) PROVE LabInv'
  <2>1. /\ labPage' \in LabPageRecords /\ labPage'.card = labPage.card
        /\ labPage'.carries = labPage.carries
    BY <1>1, <1>7 DEF L!AnswerSwitch, LabPageRecords
  <2>2. ASSUME NEW k \in labPage.asking PROVE LabCallOK(k)
    <3>1. k \in L!Reads
      BY <1>1 DEF LabPageRecords
    <3>2. k.kind \in {"current", "version"} /\ k \in LabCallRecords
      BY <3>1, StudioBounds DEF L!Reads, LabCallRecords, LabKinds
    <3>3. QED
      BY <3>2 DEF LabCallOK
  <2>3. \A k \in labCalls' : LabCallOK(k)
    BY <1>7, <2>2 DEF L!AnswerSwitch, LabInv
  <2>4. QED
    BY <1>1, <1>7, <2>1, <2>3 DEF L!AnswerSwitch, LabInv, LabServer, LabPageOK, Unspent
<1>8. QED
  BY <1>2, <1>3, <1>4, <1>6, <1>7, LabReload
  DEF L!Gesture, L!Save, L!SaveByKey, L!StartAudit, L!StartSample

LEMMA LabWatch == ASSUME LabInv, L!Watch PROVE LabInv'
<1>1. labPage \in LabPageRecords /\ LabPageOK(labPage)
  BY DEF LabInv, LabPageOK
<1>2. CASE L!AuditSucceeds
  <2>1. reports' \subseteq Cards
    BY <1>1, <1>2 DEF L!AuditSucceeds, LabPageRecords, LabInv, LabServer
  <2>2. QED
    BY <1>2, <2>1, LabClosedStep DEF L!AuditSucceeds
<1>3. CASE L!SampleSucceeds
  BY <1>3, LabClosedStep DEF L!SampleSucceeds, LabInv, LabServer
<1>4. CASE L!JobFails
  <2>1. /\ labPage' \in LabPageRecords /\ labPage'.card = labPage.card
        /\ labPage'.carries = labPage.carries /\ labPage'.asking = labPage.asking
    BY <1>1, <1>4 DEF L!JobFails, LabPageRecords
  <2>2. LabPageOK(labPage)'
    BY <1>1, <2>1 DEF LabPageOK
  <2>3. QED
    BY <1>4, <2>1, <2>2 DEF L!JobFails, LabInv, LabServer, Unspent
<1>5. QED
  BY <1>2, <1>3, <1>4 DEF L!Watch

LEMMA LabReply ==
  ASSUME LabInv, NEW k \in labCalls, NEW s \in {"ok", "error"}, NEW got \in 0..MaxVersion,
         L!Reply(k, s, got), k.kind \in {"load", "save"} => got >= 1
  PROVE  \A m \in labCalls' : LabCallOK(m)
<1> DEFINE n == [k EXCEPT !.state = s, !.got = got]
<1>1. k \in LabCallRecords
  BY DEF LabInv, LabCallOK
<1>2. n \in LabCallRecords /\ n.kind = k.kind /\ n.got = got
  BY <1>1 DEF LabCallRecords
<1>3. labCalls' \subseteq labCalls \union {n}
  BY DEF L!Reply
<1> HIDE DEF n
<1>4. LabCallOK(n)
  BY <1>2 DEF LabCallOK
<1>5. QED
  BY <1>3, <1>4 DEF LabInv

LEMMA LabServe == ASSUME LabInv, NEW k \in labCalls, L!Serve(k) PROVE LabInv'
<1>1. k \in LabCallRecords /\ k.card \in Cards /\ versions \in [Cards -> 1..MaxVersion]
  BY DEF LabInv, LabCallOK, LabCallRecords, LabServer
<1>2. versions[k.card] \in 1..MaxVersion
  BY <1>1
<1>3. labPage' = labPage /\ history' = history /\ reports' = reports
  BY DEF L!Serve, L!ServeRead, L!ServeSave, L!ServeJob
<1>4. CASE L!ServeRead(k)
  <2>1. PICK got \in 0..MaxVersion :
            L!Reply(k, "ok", got) /\ (k.kind \in {"load", "save"} => got >= 1)
    <3>1. CASE k.kind = "version"
      <4>1. k.version \in 0..MaxVersion
        BY <1>1 DEF LabCallRecords
      <4>2. QED
        BY <1>4, <3>1, <4>1 DEF L!ServeRead
    <3>2. CASE k.kind # "version"
      BY <1>2, <1>4, <3>2, StudioBounds DEF L!ServeRead
    <3>3. QED
      BY <3>1, <3>2
  <2>2. \A m \in labCalls' : LabCallOK(m)
    BY <2>1, LabReply
  <2>3. QED
    BY <1>3, <1>4, <2>2 DEF L!ServeRead, LabInv, LabServer
<1>5. CASE L!ServeSave(k)
  <2>1. PICK got \in 0..MaxVersion : got = versions[k.card] + 1 /\ got >= 1
    BY <1>2, <1>5, StudioBounds DEF L!ServeSave
  <2>2. L!Reply(k, "ok", got) /\ versions' \in [Cards -> 1..MaxVersion]
    BY <1>1, <1>2, <1>5, <2>1, StudioBounds DEF L!ServeSave
  <2>3. \A m \in labCalls' : LabCallOK(m)
    BY <2>1, <2>2, LabReply
  <2>4. QED
    BY <1>3, <2>2, <2>3 DEF LabInv, LabServer
<1>6. CASE L!ServeJob(k)
  <2>1. L!Reply(k, "ok", 0) /\ k.kind \notin {"load", "save"} /\ 0 \in 0..MaxVersion
    BY <1>6, StudioBounds DEF L!ServeJob
  <2>2. \A m \in labCalls' : LabCallOK(m)
    BY <2>1, LabReply
  <2>3. QED
    BY <1>3, <1>6, <2>2 DEF L!ServeJob, LabInv, LabServer
<1>7. QED
  BY <1>4, <1>5, <1>6 DEF L!Serve

LEMMA LabArrive == ASSUME LabInv, NEW k \in labCalls, L!Arrive(k) PROVE LabInv'
<1>1. /\ labPage \in LabPageRecords /\ LabPageOK(labPage) /\ Unspent(labPage, history)
      /\ history \in Histories /\ k \in LabCallRecords
      /\ (k.kind \in {"load", "save"} /\ k.state = "ok" => k.got >= 1)
  BY DEF LabInv, LabPageOK, LabCallOK
<1>2. k.card \in Cards /\ k.got \in 0..MaxVersion
  BY <1>1 DEF LabCallRecords
<1>3. LabServer' /\ \A m \in labCalls' : LabCallOK(m)
  BY DEF LabInv, LabServer, L!Arrive, L!CardArrives, L!SaveArrives, L!JobArrives, L!CallFails
<1>4. CASE L!CardArrives(k) \/ L!SaveArrives(k)
  <2>1. PICK max \in 1..MaxVersion, busy \in BOOLEAN :
            L!Settled([labPage EXCEPT !.shown = k.card, !.version = k.got, !.levels = "loaded",
                                      !.max = max, !.busy = busy], history)
    <3>1. CASE L!CardArrives(k)
      <4>1. PICK max \in 1..MaxVersion : max = IF k.kind = "load" THEN k.got ELSE labPage.max
        BY <1>1, <1>2, <3>1, StudioBounds DEF L!CardArrives, L!Answered, LabPageRecords
      <4>2. [L!Filled(k) EXCEPT !.max = max]
            = [labPage EXCEPT !.shown = k.card, !.version = k.got, !.levels = "loaded",
                              !.max = max, !.busy = labPage.busy]
        BY <1>1 DEF L!Filled, LabPageRecords
      <4>3. [L!Filled(k) EXCEPT !.max = IF k.kind = "load" THEN k.got ELSE @]
            = [L!Filled(k) EXCEPT !.max = max]
        BY <1>1, <4>1 DEF L!Filled, LabPageRecords
      <4>4. QED
        BY <1>1, <3>1, <4>2, <4>3 DEF L!CardArrives, LabPageRecords
    <3>2. CASE L!SaveArrives(k)
      <4>1. PICK max \in 1..MaxVersion : max = k.got
        BY <1>1, <1>2, <3>2, StudioBounds DEF L!SaveArrives, L!Answered
      <4>2. [L!Filled(k) EXCEPT !.max = k.got, !.busy = FALSE]
            = [labPage EXCEPT !.shown = k.card, !.version = k.got, !.levels = "loaded",
                              !.max = max, !.busy = FALSE]
        BY <1>1, <4>1 DEF L!Filled, LabPageRecords
      <4>3. QED
        BY <3>2, <4>2 DEF L!SaveArrives
    <3>3. QED
      BY <1>4, <3>1, <3>2
  <2>2. PICK p : p = [labPage EXCEPT !.shown = k.card, !.version = k.got, !.levels = "loaded",
                                     !.max = max, !.busy = busy]
    OBVIOUS
  <2>3. PICK h : h = history
    OBVIOUS
  <2>4. /\ p \in LabPageRecords /\ p.card = labPage.card /\ p.carries = labPage.carries
        /\ p.asking = labPage.asking
    BY <1>1, <1>2, <2>2 DEF LabPageRecords
  <2>5. LabPageOK(p) /\ Unspent(p, h) /\ h \in Histories
    BY <1>1, <2>3, <2>4 DEF LabPageOK, Unspent
  <2>6. L!Settled(p, h)
    BY <2>1, <2>2, <2>3
  <2>7. QED
    BY <1>3, <2>5, <2>6, LabSettled DEF LabInv
<1>5. CASE L!JobArrives(k) \/ L!CallFails(k)
  <2>1. /\ labPage' \in LabPageRecords /\ labPage'.card = labPage.card
        /\ labPage'.carries = labPage.carries /\ labPage'.asking = labPage.asking
    BY <1>1, <1>2, <1>5 DEF L!JobArrives, L!CallFails, LabPageRecords
  <2>2. LabPageOK(labPage)'
    BY <1>1, <2>1 DEF LabPageOK
  <2>3. history' = history
    BY <1>5 DEF L!JobArrives, L!CallFails
  <2>4. QED
    BY <1>1, <1>3, <2>1, <2>2, <2>3 DEF LabInv, Unspent
<1>6. QED
  BY <1>4, <1>5 DEF L!Arrive

LEMMA LabDrop == ASSUME LabInv, NEW k \in labCalls, L!Drop(k) PROVE LabInv'
<1> DEFINE n == [k EXCEPT !.state = "error"]
<1>1. k \in LabCallRecords
  BY DEF LabInv, LabCallOK
<1>2. n \in LabCallRecords /\ n.state = "error"
  BY <1>1 DEF LabCallRecords
<1>3. labCalls' \subseteq labCalls \union {n}
  BY DEF L!Drop, L!Lose
<1> HIDE DEF n
<1>4. LabCallOK(n)
  BY <1>2 DEF LabCallOK
<1>5. QED
  BY <1>3, <1>4 DEF LabInv, LabServer, Unspent, L!Drop

LEMMA LabStep == ASSUME LabInv, L!Next PROVE LabInv'
<1>1. CASE \E c \in Cards : L!Visit(c) \/ L!FromReport(c) \/ L!Return(c)
  BY <1>1, LabComeStep
<1>2. CASE \E k \in labCalls : L!Serve(k) \/ L!Arrive(k) \/ L!Drop(k)
  BY <1>2, LabServe, LabArrive, LabDrop
<1>3. QED
  BY <1>1, <1>2, LabLeaveStep, LabGesture, LabWatch DEF L!Next

LEMMA LabIsEnough == LabInv => L!TypeOK /\ L!SuggestionsAppliedOnce
BY DEF LabInv, LabServer, LabPageOK, LabPageRecords, Histories, Unspent,
   L!TypeOK, L!SuggestionsAppliedOnce

----------------------------------------------------------------------------
(* The relation graph *)

GraphKinds == {"load", "extract", "create", "save", "delete", "link", "unlink"}

SomeNode == Nodes \union {NoNode}

Graphs == [nodes: SUBSET Nodes, edges: SUBSET G!Edges]

GraphPageRecords ==
    [project: Projects \union {NoProject}, graph: Graphs, pull: SUBSET G!Edges,
     moving: BOOLEAN, drag: SomeNode, drawer: SomeNode, asking: SomeNode, adding: BOOLEAN,
     extracting: BOOLEAN, creating: BOOLEAN, saving: BOOLEAN, linking: BOOLEAN]

GraphCallRecords ==
    [kind: GraphKinds, project: Projects, node: SomeNode, edge: SomeNode \X SomeNode,
     shown: SUBSET G!Edges, state: {"sent", "ok", "error"}, got: Graphs,
     known: SUBSET SomeNode, live: BOOLEAN]

GraphCallOK(k) == k \in GraphCallRecords /\ (k.kind = "link" => k.edge \in G!Edges)

\* A page that asks is a project's.
GraphPageOK(p) == p \in GraphPageRecords /\ (p.asking # NoNode => p.project \in Projects)

GraphServer == /\ owner \in [Nodes -> Projects \union {"free", "gone"}]
               /\ edges \in [Projects -> SUBSET G!Edges]

GraphInv == GraphServer /\ GraphPageOK(graphPage) /\ \A k \in graphCalls : GraphCallOK(k)

\* The step of DeletedStaysDeleted.
StaysDeleted == \A n \in Nodes : owner[n] = "gone" => owner'[n] = "gone"

LEMMA GraphClosed == G!NoGraph \in Graphs /\ GraphPageOK(G!Closed)
BY DEF G!NoGraph, G!Closed, Graphs, GraphPageOK, GraphPageRecords, SomeNode

LEMMA GraphInit == G!Init => GraphInv
<1> SUFFICES ASSUME G!Init PROVE GraphInv
  OBVIOUS
<1>1. GraphServer
  BY DEF G!Init, GraphServer
<1>2. QED
  BY <1>1, GraphClosed DEF G!Init, GraphInv

LEMMA GraphGoneStep ==
  ASSUME GraphInv, UNCHANGED <<graphPage, owner, edges>>, graphCalls' \subseteq graphCalls
  PROVE  GraphInv' /\ StaysDeleted
BY DEF GraphInv, GraphServer, StaysDeleted

\* The server's graph is what it was; calls come and go.
LEMMA GraphQuietStep ==
  ASSUME GraphInv, UNCHANGED <<owner, edges>>, GraphPageOK(graphPage)',
         \A k \in graphCalls' : GraphCallOK(k)
  PROVE  GraphInv' /\ StaysDeleted
BY DEF GraphInv, GraphServer, StaysDeleted

LEMMA GraphNewCall ==
  ASSUME graphPage \in GraphPageRecords, graphPage.project \in Projects,
         NEW kind \in GraphKinds, NEW n \in SomeNode, NEW e \in SomeNode \X SomeNode,
         kind = "link" => e \in G!Edges
  PROVE  GraphCallOK(G!Call(kind, n, e))
<1>1. graphPage.graph.edges \in SUBSET G!Edges
  BY DEF GraphPageRecords, Graphs
<1>2. G!Call(kind, n, e) \in GraphCallRecords
  BY <1>1, GraphClosed DEF G!Call, GraphCallRecords
<1>3. QED
  BY <1>2 DEF G!Call, GraphCallOK

\* The list is asked for, for a project and from a render of the page.
LEMMA GraphLoadCall ==
  ASSUME graphPage \in GraphPageRecords, NEW p \in Projects, NEW shown \in SUBSET G!Edges
  PROVE  GraphCallOK(G!LoadCall(p, shown))
<1>1. <<NoNode, NoNode>> \in SomeNode \X SomeNode /\ NoNode \in SomeNode
  BY DEF SomeNode
<1>2. G!LoadCall(p, shown) \in GraphCallRecords
  BY <1>1, GraphClosed DEF G!LoadCall, G!Call, G!NoEdge, GraphCallRecords, GraphKinds
<1>3. G!LoadCall(p, shown).kind = "load"
  BY DEF G!LoadCall, G!Call
<1>4. QED
  BY <1>2, <1>3 DEF GraphCallOK

LEMMA GraphVisit == ASSUME GraphInv, NEW p \in Projects, G!Visit(p) PROVE GraphInv' /\ StaysDeleted
<1>1. graphPage \in GraphPageRecords /\ graphPage.asking = NoNode
  BY DEF GraphInv, GraphPageOK, G!Visit
<1>2. graphPage' \in GraphPageRecords /\ graphPage'.asking = NoNode
  BY <1>1 DEF G!Visit, GraphPageRecords
<1>3. graphPage.graph.edges \in SUBSET G!Edges
  BY <1>1 DEF GraphPageRecords, Graphs
<1>4. GraphCallOK(G!LoadCall(p, graphPage.graph.edges))
  BY <1>1, <1>3, GraphLoadCall
<1>5. QED
  BY <1>2, <1>4, GraphQuietStep DEF G!Visit, GraphPageOK, GraphInv

LEMMA GraphLeaveStep == ASSUME GraphInv, G!Leave PROVE GraphInv' /\ StaysDeleted
<1>1. ASSUME NEW c \in graphCalls PROVE GraphCallOK([c EXCEPT !.live = FALSE])
  <2>1. c \in GraphCallRecords /\ GraphCallOK(c)
    BY DEF GraphInv, GraphCallOK
  <2>2. QED
    BY <2>1 DEF GraphCallOK, GraphCallRecords
<1>2. \A k \in graphCalls' : GraphCallOK(k)
  BY <1>1 DEF G!Leave, G!Orphaned, GraphInv
<1>3. QED
  BY <1>2, GraphClosed, GraphQuietStep DEF G!Leave

\* A gesture that makes no call.
LEMMA GraphLook ==
  ASSUME GraphInv,
         \/ G!OpenForm \/ G!CloseForm \/ G!ReleaseNode \/ G!LayoutRests \/ G!CloseDrawer
         \/ G!AskDelete
  PROVE  GraphInv' /\ StaysDeleted
<1>1. graphPage \in GraphPageRecords /\ GraphPageOK(graphPage)
  BY DEF GraphInv, GraphPageOK
<1>2. /\ graphPage' \in GraphPageRecords /\ graphPage'.project = graphPage.project
      /\ graphPage'.asking \in {graphPage.asking, NoNode} \/ graphPage.project \in Projects
  <2>1. CASE G!OpenForm \/ G!CloseForm
    BY <1>1, <2>1 DEF G!OpenForm, G!CloseForm, GraphPageRecords
  <2>2. CASE G!ReleaseNode
    <3>1. graphPage.drag \in SomeNode /\ NoNode \in SomeNode
      BY <1>1 DEF GraphPageRecords, SomeNode
    <3>2. QED
      BY <1>1, <2>2, <3>1 DEF G!ReleaseNode, GraphPageRecords
  <2>3. CASE G!LayoutRests
    BY <1>1, <2>3 DEF G!LayoutRests, GraphPageRecords
  <2>4. CASE G!CloseDrawer
    BY <1>1, <2>4 DEF G!CloseDrawer, G!WithoutDrawer, GraphPageRecords, SomeNode
  <2>5. CASE G!AskDelete
    BY <1>1, <2>5 DEF G!AskDelete, G!Drawer, G!Free, G!Mounted, GraphPageRecords
  <2>6. QED
    BY <2>1, <2>2, <2>3, <2>4, <2>5
<1>3. UNCHANGED <<owner, edges>> /\ graphCalls' = graphCalls
  BY DEF G!OpenForm, G!CloseForm, G!ReleaseNode, G!LayoutRests, G!CloseDrawer, G!AskDelete
<1>4. QED
  BY <1>1, <1>2, <1>3, GraphQuietStep DEF GraphPageOK, GraphInv

LEMMA GraphMoving ==
  ASSUME NEW p \in GraphPageRecords, NEW shown \in SUBSET G!Edges
  PROVE  /\ G!Moving(p, shown) \in GraphPageRecords
         /\ G!Moving(p, shown).project = p.project
         /\ G!Moving(p, shown).asking = p.asking
<1>1. G!Between(p.graph.nodes, shown) \in SUBSET G!Edges
  BY DEF G!Between
<1>2. QED
  BY <1>1 DEF G!Moving, GraphPageRecords

LEMMA GraphPull ==
  ASSUME GraphInv, G!ResetView \/ \E n \in Nodes : G!PressNode(n)
  PROVE  GraphInv' /\ StaysDeleted
<1>1. graphPage \in GraphPageRecords /\ GraphPageOK(graphPage)
      /\ graphPage.graph.edges \in SUBSET G!Edges
  BY DEF GraphInv, GraphPageOK, GraphPageRecords, Graphs
<1>2. PICK shown \in SUBSET G!Edges : shown = graphPage.graph.edges
  BY <1>1
<1>3. PICK p \in GraphPageRecords : /\ p.project = graphPage.project /\ p.asking = graphPage.asking
                                    /\ graphPage' = G!Moving(p, shown)
  <2>1. CASE G!ResetView
    BY <1>1, <1>2, <2>1 DEF G!ResetView
  <2>2. ASSUME NEW n \in Nodes, G!PressNode(n)
        PROVE  /\ [graphPage EXCEPT !.drag = n] \in GraphPageRecords
               /\ [graphPage EXCEPT !.drag = n].project = graphPage.project
               /\ [graphPage EXCEPT !.drag = n].asking = graphPage.asking
    BY <1>1 DEF GraphPageRecords, SomeNode
  <2>3. QED
    BY <1>2, <2>1, <2>2 DEF G!PressNode
<1>4. graphPage' \in GraphPageRecords /\ graphPage'.project = graphPage.project
      /\ graphPage'.asking = graphPage.asking
  BY <1>3, GraphMoving
<1>5. UNCHANGED <<owner, edges>> /\ graphCalls' = graphCalls
  BY DEF G!ResetView, G!PressNode
<1>6. QED
  BY <1>1, <1>4, <1>5, GraphQuietStep DEF GraphPageOK, GraphInv

\* A gesture that makes a call.
LEMMA GraphSend ==
  ASSUME GraphInv, NEW kind \in GraphKinds, NEW n \in SomeNode, NEW e \in SomeNode \X SomeNode,
         kind = "link" => e \in G!Edges, graphPage.project \in Projects,
         graphPage' \in GraphPageRecords, graphPage'.project = graphPage.project,
         graphCalls' \subseteq graphCalls \union {G!Call(kind, n, e)}, UNCHANGED <<owner, edges>>
  PROVE  GraphInv' /\ StaysDeleted
<1>1. GraphCallOK(G!Call(kind, n, e))
  BY GraphNewCall DEF GraphInv, GraphPageOK
<1>2. QED
  BY <1>1, GraphQuietStep DEF GraphInv, GraphPageOK

LEMMA GraphAct ==
  ASSUME GraphInv,
         \/ G!Extract \/ G!CreateNode \/ G!SaveNode
         \/ \E t \in Nodes : G!CreateEdge(t)
         \/ \E e \in G!Edges : G!DeleteEdge(e)
         \/ \E agreed \in BOOLEAN : G!AnswerDelete(agreed)
  PROVE  GraphInv' /\ StaysDeleted
<1>1. graphPage \in GraphPageRecords /\ GraphPageOK(graphPage)
  BY DEF GraphInv, GraphPageOK
<1>2. G!Mounted => graphPage.project \in Projects
  BY <1>1 DEF G!Mounted, GraphPageRecords
<1>3. NoNode \in SomeNode /\ G!NoEdge \in SomeNode \X SomeNode
  BY DEF SomeNode, G!NoEdge
<1>4. graphPage.drawer \in SomeNode /\ graphPage.asking \in SomeNode
  BY <1>1 DEF GraphPageRecords
<1>5. CASE G!Extract
  <2>1. graphPage' \in GraphPageRecords /\ graphPage'.project = graphPage.project /\ G!Mounted
    BY <1>1, <1>5 DEF G!Extract, G!Canvas, G!Free, GraphPageRecords
  <2>2. QED
    BY <1>2, <1>3, <1>5, <2>1, GraphSend DEF G!Extract, GraphKinds
<1>6. CASE G!CreateNode
  <2>1. graphPage' \in GraphPageRecords /\ graphPage'.project = graphPage.project /\ G!Mounted
    BY <1>1, <1>6 DEF G!CreateNode, G!Free, GraphPageRecords
  <2>2. QED
    BY <1>2, <1>3, <1>6, <2>1, GraphSend DEF G!CreateNode, GraphKinds
<1>7. CASE G!SaveNode
  <2>1. graphPage' \in GraphPageRecords /\ graphPage'.project = graphPage.project /\ G!Mounted
    BY <1>1, <1>7 DEF G!SaveNode, G!Drawer, G!Free, GraphPageRecords
  <2>2. QED
    BY <1>2, <1>3, <1>4, <1>7, <2>1, GraphSend DEF G!SaveNode, GraphKinds
<1>8. ASSUME NEW t \in Nodes, G!CreateEdge(t) PROVE GraphInv' /\ StaysDeleted
  <2>1. graphPage' \in GraphPageRecords /\ graphPage'.project = graphPage.project /\ G!Mounted
    BY <1>1, <1>8 DEF G!CreateEdge, G!Target, G!Drawer, G!Free, GraphPageRecords
  <2>2. graphPage.drawer \in Nodes
    BY <1>4, <1>8 DEF G!CreateEdge, G!Target, G!Drawer, SomeNode
  <2>3. <<graphPage.drawer, t>> \in G!Edges /\ <<graphPage.drawer, t>> \in SomeNode \X SomeNode
    BY <2>2 DEF G!Edges, SomeNode
  <2>4. QED
    BY <1>2, <1>4, <1>8, <2>1, <2>3, GraphSend DEF G!CreateEdge, GraphKinds
<1>9. ASSUME NEW e \in G!Edges, G!DeleteEdge(e) PROVE GraphInv' /\ StaysDeleted
  <2>1. graphPage' = graphPage /\ G!Mounted
    BY <1>9 DEF G!DeleteEdge, G!Drawer, G!Free
  <2>2. e \in SomeNode \X SomeNode
    BY DEF G!Edges, SomeNode
  <2>3. QED
    BY <1>1, <1>2, <1>4, <1>9, <2>1, <2>2, GraphSend DEF G!DeleteEdge, GraphKinds
<1>10. ASSUME NEW agreed \in BOOLEAN, G!AnswerDelete(agreed) PROVE GraphInv' /\ StaysDeleted
  <2>1. graphPage' \in GraphPageRecords /\ graphPage'.project = graphPage.project
    BY <1>1, <1>3, <1>10 DEF G!AnswerDelete, GraphPageRecords
  <2>2. graphPage.project \in Projects
    BY <1>1, <1>10 DEF G!AnswerDelete, GraphPageOK
  <2>3. QED
    BY <1>3, <1>4, <1>10, <2>1, <2>2, GraphSend DEF G!AnswerDelete, GraphKinds
<1>11. QED
  BY <1>5, <1>6, <1>7, <1>8, <1>9, <1>10

LEMMA GraphGesture == ASSUME GraphInv, G!Gesture PROVE GraphInv' /\ StaysDeleted
<1>1. CASE \/ G!OpenForm \/ G!CloseForm \/ G!ReleaseNode \/ G!LayoutRests \/ G!CloseDrawer
           \/ G!AskDelete
  BY <1>1, GraphLook
<1>2. CASE G!ResetView \/ \E n \in Nodes : G!PressNode(n)
  BY <1>2, GraphPull
<1>3. CASE \/ G!Extract \/ G!CreateNode \/ G!SaveNode
           \/ \E t \in Nodes : G!CreateEdge(t)
           \/ \E e \in G!Edges : G!DeleteEdge(e)
           \/ \E agreed \in BOOLEAN : G!AnswerDelete(agreed)
  BY <1>3, GraphAct
<1>4. QED
  BY <1>1, <1>2, <1>3 DEF G!Gesture

LEMMA GraphReply ==
  ASSUME GraphInv, NEW k \in graphCalls, NEW s \in {"ok", "error"}, NEW got \in Graphs,
         G!Reply(k, s, got)
  PROVE  \A m \in graphCalls' : GraphCallOK(m)
<1> DEFINE n == [k EXCEPT !.state = s, !.got = got]
<1>1. k \in GraphCallRecords /\ GraphCallOK(k)
  BY DEF GraphInv, GraphCallOK
<1>2. n \in GraphCallRecords /\ n.kind = k.kind /\ n.edge = k.edge
  BY <1>1 DEF GraphCallRecords
<1>3. graphCalls' \subseteq graphCalls \union {n}
  BY DEF G!Reply
<1> HIDE DEF n
<1>4. GraphCallOK(n)
  BY <1>1, <1>2 DEF GraphCallOK
<1>5. QED
  BY <1>3, <1>4 DEF GraphInv

\* The first statement of a request: what it found out is kept.
LEMMA GraphFound ==
  ASSUME GraphInv, NEW k \in graphCalls, NEW known \in SUBSET SomeNode,
         graphCalls' = (graphCalls \ {k}) \union {[k EXCEPT !.known = known]}
  PROVE  \A m \in graphCalls' : GraphCallOK(m)
<1> DEFINE n == [k EXCEPT !.known = known]
<1>1. k \in GraphCallRecords /\ GraphCallOK(k)
  BY DEF GraphInv, GraphCallOK
<1>2. n \in GraphCallRecords /\ n.kind = k.kind /\ n.edge = k.edge
  BY <1>1 DEF GraphCallRecords
<1> HIDE DEF n
<1>3. GraphCallOK(n)
  BY <1>1, <1>2 DEF GraphCallOK
<1>4. QED
  BY <1>3 DEF GraphInv, n

LEMMA GraphServerStep ==
  ASSUME GraphInv, graphPage' = graphPage, GraphServer', StaysDeleted,
         \A m \in graphCalls' : GraphCallOK(m)
  PROVE  GraphInv' /\ StaysDeleted
BY DEF GraphInv

LEMMA GraphServe ==
  ASSUME GraphInv, NEW k \in graphCalls, G!Serve(k) PROVE GraphInv' /\ StaysDeleted
<1>1. GraphCallOK(k) /\ k \in GraphCallRecords /\ GraphServer /\ graphPage' = graphPage
  BY DEF GraphInv, GraphCallOK, G!Serve, G!ServeLoad, G!ServeCreate, G!ServeSave,
     G!ServeDeleteEdges, G!ServeDeleteNode, G!ServeLink, G!ServeUnlink, G!ServeExtractRead,
     G!ServeExtractWrite
<1>2. /\ owner \in [Nodes -> Projects \union {"free", "gone"}]
      /\ edges \in [Projects -> SUBSET G!Edges]
      /\ k.project \in Projects /\ k.known \in SUBSET SomeNode /\ k.edge \in SomeNode \X SomeNode
      /\ k.node \in SomeNode
  BY <1>1 DEF GraphServer, GraphCallRecords
<1>3. PICK p \in Projects : p = k.project
  BY <1>2
<1>4. PICK links \in SUBSET G!Edges : links = edges[p]
  BY <1>2
<1>5. G!NodesOf(p) \in SUBSET Nodes /\ G!NoGraph \in Graphs
  BY GraphClosed DEF G!NodesOf
<1>6. CASE G!ServeLoad(k)
  <2>1. G!GraphOf(k.project) \in Graphs
    BY <1>3, <1>4, <1>5 DEF G!GraphOf, Graphs
  <2>2. PICK got \in Graphs : G!Reply(k, "ok", got)
    BY <1>6, <2>1 DEF G!ServeLoad
  <2>3. GraphServer' /\ StaysDeleted
    BY <1>6, <1>1 DEF G!ServeLoad, GraphServer, StaysDeleted
  <2>4. QED
    BY <1>1, <2>2, <2>3, GraphReply, GraphServerStep
<1>7. CASE G!ServeCreate(k)
  <2>1. PICK n \in Nodes : owner[n] = "free" /\ owner' = [owner EXCEPT ![n] = p]
    BY <1>3, <1>7 DEF G!ServeCreate, G!NodesOf
  <2>2. GraphServer' /\ StaysDeleted
    BY <1>2, <1>7, <2>1 DEF G!ServeCreate, GraphServer, StaysDeleted
  <2>3. G!Reply(k, "ok", G!NoGraph)
    BY <1>7 DEF G!ServeCreate
  <2>4. QED
    BY <1>1, <1>5, <2>2, <2>3, GraphReply, GraphServerStep
<1>8. CASE G!ServeSave(k)
  <2>1. GraphServer' /\ StaysDeleted /\ G!Reply(k, "ok", G!NoGraph)
    BY <1>1, <1>8 DEF G!ServeSave, G!SavedNode, GraphServer, StaysDeleted
  <2>2. QED
    BY <1>1, <1>5, <2>1, GraphReply, GraphServerStep
<1>9. CASE G!ServeDeleteEdges(k)
  <2>1. edges' \in [Projects -> SUBSET G!Edges] /\ owner' = owner
    BY <1>2, <1>9 DEF G!ServeDeleteEdges
  <2>2. GraphServer' /\ StaysDeleted
    BY <1>2, <2>1 DEF GraphServer, StaysDeleted
  <2>3. {k.node} \in SUBSET SomeNode
    BY <1>2
  <2>4. \A m \in graphCalls' : GraphCallOK(m)
    BY <1>9, <2>3, GraphFound DEF G!ServeDeleteEdges
  <2>5. QED
    BY <1>1, <2>2, <2>4, GraphServerStep
<1>10. CASE G!ServeDeleteNode(k)
  <2>1. owner' \in [Nodes -> Projects \union {"free", "gone"}] /\ edges' = edges /\ StaysDeleted
    BY <1>2, <1>10 DEF G!ServeDeleteNode, StaysDeleted
  <2>2. GraphServer'
    BY <1>2, <2>1 DEF GraphServer
  <2>3. G!Reply(k, "ok", G!NoGraph)
    BY <1>10 DEF G!ServeDeleteNode
  <2>4. QED
    BY <1>1, <1>5, <2>1, <2>2, <2>3, GraphReply, GraphServerStep
<1>11. CASE G!ServeLink(k) \/ G!ServeUnlink(k)
  <2>1. G!ServeLink(k) => k.edge \in G!Edges
    BY <1>1 DEF G!ServeLink, GraphCallOK
  <2>2. edges' \in [Projects -> SUBSET G!Edges] /\ owner' = owner
    BY <1>2, <1>11, <2>1 DEF G!ServeLink, G!ServeUnlink
  <2>3. GraphServer' /\ StaysDeleted
    BY <1>2, <2>2 DEF GraphServer, StaysDeleted
  <2>4. G!Reply(k, "ok", G!NoGraph)
    BY <1>11 DEF G!ServeLink, G!ServeUnlink
  <2>5. QED
    BY <1>1, <1>5, <2>3, <2>4, GraphReply, GraphServerStep
<1>12. CASE G!ServeExtractRead(k)
  <2>1. G!NodesOf(k.project) \union {NoNode} \in SUBSET SomeNode
    BY DEF G!NodesOf, SomeNode
  <2>2. \A m \in graphCalls' : GraphCallOK(m)
    BY <1>12, <2>1, GraphFound DEF G!ServeExtractRead
  <2>3. GraphServer' /\ StaysDeleted
    BY <1>1, <1>12 DEF G!ServeExtractRead, GraphServer, StaysDeleted
  <2>4. QED
    BY <1>1, <2>2, <2>3, GraphServerStep
<1>13. CASE G!ServeExtractWrite(k)
  <2>1. PICK new \in {{}} \union {{n} : n \in G!NodesOf("free")} :
            \E e \in {{}} \union {{edge} : edge \in new \X (k.known \ {NoNode})} :
                /\ owner' = [n \in Nodes |-> IF n \in new THEN k.project ELSE owner[n]]
                /\ edges' = [edges EXCEPT ![k.project] = @ \union e]
                /\ G!Reply(k, "ok", [nodes |-> G!NodesOf(k.project) \union new,
                                     edges |-> edges[k.project] \union e])
    BY <1>13 DEF G!ServeExtractWrite
  <2>2. PICK e \in {{}} \union {{edge} : edge \in new \X (k.known \ {NoNode})} :
             /\ owner' = [n \in Nodes |-> IF n \in new THEN k.project ELSE owner[n]]
             /\ edges' = [edges EXCEPT ![k.project] = @ \union e]
             /\ G!Reply(k, "ok", [nodes |-> G!NodesOf(k.project) \union new,
                                  edges |-> edges[k.project] \union e])
    BY <2>1
  <2>3. new \subseteq Nodes /\ \A n \in new : owner[n] = "free"
    BY DEF G!NodesOf
  <2>4. k.known \ {NoNode} \subseteq Nodes
    BY <1>2 DEF SomeNode
  <2>5. e \subseteq G!Edges
    BY <2>2, <2>3, <2>4 DEF G!Edges
  <2>6. owner' \in [Nodes -> Projects \union {"free", "gone"}] /\ StaysDeleted
    BY <1>2, <2>2, <2>3 DEF StaysDeleted
  <2>7. edges' \in [Projects -> SUBSET G!Edges]
    BY <1>2, <2>2, <2>5
  <2>8. PICK got \in Graphs : G!Reply(k, "ok", got)
    <3>1. [nodes |-> G!NodesOf(k.project) \union new,
           edges |-> edges[k.project] \union e] \in Graphs
      BY <1>3, <1>4, <1>5, <2>3, <2>5 DEF Graphs
    <3>2. QED
      BY <2>2, <3>1
  <2>9. QED
    BY <1>1, <2>6, <2>7, <2>8, GraphReply, GraphServerStep DEF GraphServer
<1>14. QED
  BY <1>6, <1>7, <1>8, <1>9, <1>10, <1>11, <1>12, <1>13 DEF G!Serve

\* An answer that is followed by a new list, for the project of the call.
LEMMA GraphReread ==
  ASSUME GraphInv, NEW k \in graphCalls, UNCHANGED <<owner, edges>>,
         graphPage' \in GraphPageRecords, graphPage'.project = graphPage.project,
         graphPage'.asking = graphPage.asking,
         graphCalls' \subseteq graphCalls \union {G!LoadCall(k.project, k.shown)}
  PROVE  GraphInv' /\ StaysDeleted
<1>1. k.project \in Projects /\ k.shown \in SUBSET G!Edges /\ graphPage \in GraphPageRecords
  BY DEF GraphInv, GraphCallOK, GraphCallRecords, GraphPageOK
<1>2. GraphCallOK(G!LoadCall(k.project, k.shown))
  BY <1>1, GraphLoadCall
<1>3. QED
  BY <1>2, GraphQuietStep DEF GraphInv, GraphPageOK

LEMMA GraphArrive ==
  ASSUME GraphInv, NEW k \in graphCalls, G!Arrive(k) PROVE GraphInv' /\ StaysDeleted
<1>1. /\ graphPage \in GraphPageRecords /\ GraphPageOK(graphPage) /\ k \in GraphCallRecords
      /\ UNCHANGED <<owner, edges>>
  BY DEF GraphInv, GraphPageOK, GraphCallOK, G!Arrive, G!GraphArrives, G!CreateArrives,
     G!SaveArrives, G!DeleteArrives, G!CallFails
<1>2. CASE G!GraphArrives(k)
  <2>1. PICK shown \in SUBSET G!Edges, got \in Graphs : shown = k.shown /\ got = k.got
    BY <1>1 DEF GraphCallRecords
  <2>2. PICK p \in GraphPageRecords : /\ p = [graphPage EXCEPT !.graph = got]
                                      /\ p.project = graphPage.project
                                      /\ p.asking = graphPage.asking
    <3>1. /\ [graphPage EXCEPT !.graph = got] \in GraphPageRecords
          /\ [graphPage EXCEPT !.graph = got].project = graphPage.project
          /\ [graphPage EXCEPT !.graph = got].asking = graphPage.asking
      BY <1>1 DEF GraphPageRecords
    <3>2. QED
      BY <3>1
  <2>3. PICK q \in GraphPageRecords : /\ q = G!Moving(p, shown)
                                      /\ q.project = graphPage.project
                                      /\ q.asking = graphPage.asking
    <3>1. /\ G!Moving(p, shown) \in GraphPageRecords
          /\ G!Moving(p, shown).project = p.project
          /\ G!Moving(p, shown).asking = p.asking
      BY GraphMoving
    <3>2. QED
      BY <2>2, <3>1
  <2>4. graphPage' = [q EXCEPT !.extracting = @ /\ k.kind # "extract"]
    BY <1>2, <2>1, <2>2, <2>3 DEF G!GraphArrives, G!ShownGraph
  <2>5. graphPage' \in GraphPageRecords /\ graphPage'.project = graphPage.project
        /\ graphPage'.asking = graphPage.asking
    BY <2>3, <2>4 DEF GraphPageRecords
  <2>6. QED
    BY <1>1, <1>2, <2>5, GraphReread DEF G!GraphArrives
<1>3. CASE G!CreateArrives(k)
  <2>1. graphPage' \in GraphPageRecords /\ graphPage'.project = graphPage.project
        /\ graphPage'.asking = graphPage.asking
    BY <1>1, <1>3 DEF G!CreateArrives, GraphPageRecords
  <2>2. QED
    BY <1>1, <1>3, <2>1, GraphReread DEF G!CreateArrives
<1>4. CASE G!SaveArrives(k)
  <2>1. graphPage' \in GraphPageRecords /\ graphPage'.project = graphPage.project
        /\ graphPage'.asking = graphPage.asking
    BY <1>1, <1>4 DEF G!SaveArrives, GraphPageRecords
  <2>2. QED
    BY <1>1, <1>4, <2>1, GraphReread DEF G!SaveArrives
<1>5. CASE G!DeleteArrives(k)
  <2>1. graphPage' \in GraphPageRecords /\ graphPage'.project = graphPage.project
        /\ graphPage'.asking = graphPage.asking
    BY <1>1, <1>5 DEF G!DeleteArrives, G!WithoutDrawer, GraphPageRecords, SomeNode
  <2>2. QED
    BY <1>1, <1>5, <2>1, GraphReread DEF G!DeleteArrives
<1>6. CASE G!CallFails(k)
  <2>1. PICK ex, cr, sa, li \in BOOLEAN :
            graphPage' = [graphPage EXCEPT !.extracting = ex, !.creating = cr, !.saving = sa,
                                           !.linking = li]
    BY <1>6 DEF G!CallFails
  <2>2. graphPage' \in GraphPageRecords /\ graphPage'.project = graphPage.project
        /\ graphPage'.asking = graphPage.asking
    BY <1>1, <2>1 DEF GraphPageRecords
  <2>3. QED
    BY <1>1, <1>6, <2>2, GraphReread DEF G!CallFails
<1>7. QED
  BY <1>2, <1>3, <1>4, <1>5, <1>6 DEF G!Arrive

LEMMA GraphDrop ==
  ASSUME GraphInv, NEW k \in graphCalls, G!Drop(k) PROVE GraphInv' /\ StaysDeleted
<1>1. k \in GraphCallRecords /\ GraphCallOK(k)
  BY DEF GraphInv, GraphCallOK
<1>2. [k EXCEPT !.state = "error"] \in GraphCallRecords
      /\ [k EXCEPT !.state = "error"].kind = k.kind
      /\ [k EXCEPT !.state = "error"].edge = k.edge
  BY <1>1 DEF GraphCallRecords
<1>3. \A m \in graphCalls' : GraphCallOK(m)
  BY <1>1, <1>2 DEF G!Drop, G!Lose, GraphInv, GraphCallOK
<1>4. QED
  BY <1>3, GraphQuietStep DEF G!Drop, GraphInv

LEMMA GraphStep == ASSUME GraphInv, G!Next PROVE GraphInv' /\ StaysDeleted
<1>1. CASE \E p \in Projects : G!Visit(p)
  BY <1>1, GraphVisit
<1>2. CASE \E k \in graphCalls : G!Serve(k) \/ G!Arrive(k) \/ G!Drop(k)
  BY <1>2, GraphServe, GraphArrive, GraphDrop
<1>3. QED
  BY <1>1, <1>2, GraphLeaveStep, GraphGesture DEF G!Next

LEMMA GraphIsEnough == GraphInv => G!TypeOK
BY DEF GraphInv, GraphServer, GraphPageOK, GraphPageRecords, Graphs, SomeNode, G!TypeOK

----------------------------------------------------------------------------
(* The sums of the fusion bench.  Nothing here is about steps: FirstFew has as many cards   *)
(* as it is asked for, and the shares of splitEven add up to what is shared.                *)

\* Induction over the numbers, without an operator: the sets 0..n are well founded.
LEMMA Induction ==
    ASSUME NEW A, 0 \in A, \A n \in Nat : n \in A => n + 1 \in A
    PROVE  Nat \subseteq A
<1>1. SUFFICES ASSUME NEW n \in Nat, n \notin A
               PROVE  FALSE
    OBVIOUS
<1> DEFINE Bounded == {0..m : m \in Nat \ A}
<1>2. Bounded \subseteq FiniteSubsetsOf(Nat) /\ Bounded # {}
    <2>1. \A m \in Nat : 0..m \in SUBSET Nat /\ IsFiniteSet(0..m)
        BY FS_Interval
    <2>2. 0..n \in Bounded
        BY <1>1
    <2> QED
        BY <2>1, <2>2 DEF FiniteSubsetsOf
<1>3. PICK x \in Bounded : \A y \in Bounded : <<y, x>> \notin StrictSubsetOrdering(Nat)
    BY <1>2, FS_StrictSubsetOrderingWellFounded, WFMin
<1>4. PICK m \in Nat \ A : x = 0..m
    BY <1>3
<1>5. m # 0 /\ m - 1 \in Nat /\ m - 1 \notin A
    BY <1>4
<1>6. 0..(m - 1) \in Bounded /\ <<0..(m - 1), x>> \in StrictSubsetOrdering(Nat)
    BY <1>4, <1>5 DEF StrictSubsetOrdering
<1> QED
    BY <1>3, <1>6

LEMMA DivMod ==
  ASSUME NEW t \in Nat, NEW n \in Nat \ {0}
  PROVE  /\ t \div n \in Nat /\ t % n \in 0..(n - 1)
         /\ t = n * (t \div n) + (t % n)
  OBVIOUS

LEMMA Times ==
  ASSUME NEW q \in Nat, NEW n \in Nat \ {0}
  PROVE  /\ q <= n * q /\ q * n = q * (n - 1) + q
  OBVIOUS

LEMMA FiniteExtremes ==
    ASSUME NEW U, IsFiniteSet(U), U \subseteq Nat, NEW T \in SUBSET U, T # {}
    PROVE  /\ \E x \in T : \A y \in T : x <= y
           /\ \E x \in T : \A y \in T : y <= x
<1> DEFINE Good(R) == R # {} => /\ \E x \in R : \A y \in R : x <= y
                                /\ \E x \in R : \A y \in R : y <= x
           A == {n \in Nat : \A R \in SUBSET U : Cardinality(R) = n => Good(R)}
<1>1. 0 \in A
    <2>1. \A R \in SUBSET U : Cardinality(R) = 0 => R = {}
        BY FS_Subset, FS_EmptySet
    <2> QED
        BY <2>1
<1>2. ASSUME NEW n \in Nat, n \in A
      PROVE  n + 1 \in A
    <2>1. SUFFICES ASSUME NEW R \in SUBSET U, Cardinality(R) = n + 1, R # {}
                   PROVE  Good(R)
        OBVIOUS
    <2>2. PICK x \in R : TRUE
        BY <2>1
    <2> DEFINE Q == R \ {x}
    <2>3. IsFiniteSet(R) /\ Cardinality(Q) = n /\ Q \in SUBSET U
        <3>1. IsFiniteSet(R)
            BY FS_Subset
        <3>2. Cardinality(Q) = (n + 1) - 1
            BY <2>1, <2>2, <3>1, FS_RemoveElement
        <3> QED
            BY <3>1, <3>2
    <2>4. Good(Q)
        BY <1>2, <2>3
    <2>5. CASE Q = {}
        <3>1. R = {x} /\ x \in Nat
            BY <2>2, <2>5
        <3> QED
            BY <3>1
    <2>6. CASE Q # {}
        <3>1. PICK l \in Q, h \in Q : \A y \in Q : l <= y /\ y <= h
            BY <2>4, <2>6
        <3>2. x \in Nat /\ l \in Nat /\ h \in Nat /\ \A y \in R : y \in Nat /\ (y = x \/ y \in Q)
            BY <3>1, <2>2, <2>3
        <3>3. \E z \in R : \A y \in R : z <= y
            <4>1. CASE x <= l
                BY <3>1, <3>2, <4>1, <2>2
            <4>2. CASE l <= x
                BY <3>1, <3>2, <4>2, <2>2
            <4> QED
                BY <3>2, <4>1, <4>2
        <3>4. \E z \in R : \A y \in R : y <= z
            <4>1. CASE h <= x
                BY <3>1, <3>2, <4>1, <2>2
            <4>2. CASE x <= h
                BY <3>1, <3>2, <4>2, <2>2
            <4> QED
                BY <3>2, <4>1, <4>2
        <3> QED
            BY <3>3, <3>4
    <2> QED
        BY <2>5, <2>6
<1> HIDE DEF A
<1>3. Cardinality(T) \in Nat
    BY FS_Subset, FS_CardinalityType
<1>4. Cardinality(T) \in A
    BY <1>1, <1>2, <1>3, Induction
<1> QED
    BY <1>4 DEF A

\* Where the sum of f over s comes from, if g has the sums over the smaller sets.
SumFrom(f, g, s) == IF s = {} THEN 0
                    ELSE f[CHOOSE x \in s : TRUE] + g[s \ {CHOOSE x \in s : TRUE}]

LEMMA SmallerSets ==
    ASSUME NEW T, IsFiniteSet(T), NEW s \in SUBSET T
    PROVE  /\ IsFiniteSet(s) /\ Cardinality(s) \in Nat /\ Cardinality(s) <= Cardinality(T)
           /\ Cardinality(s) = 0 <=> s = {}
           /\ \A x \in s : s \ {x} \in SUBSET T /\ Cardinality(s \ {x}) = Cardinality(s) - 1
<1>1. IsFiniteSet(s) /\ Cardinality(s) <= Cardinality(T)
    BY FS_Subset
<1>2. Cardinality(s) \in Nat /\ (Cardinality(s) = 0 <=> s = {})
    BY <1>1, FS_CardinalityType, FS_EmptySet
<1>3. \A x \in s : s \ {x} \in SUBSET T /\ Cardinality(s \ {x}) = Cardinality(s) - 1
    BY <1>1, FS_RemoveElement
<1> QED
    BY <1>1, <1>2, <1>3

\* The recursion of the sum is well defined.
LEMMA SumRecursion ==
    ASSUME NEW f, NEW T, IsFiniteSet(T)
    PROVE  \E g : g = [s \in SUBSET T |-> SumFrom(f, g, s)]
<1> DEFINE U == SUBSET T
           A == {n \in Nat : \E g : \A s \in U :
                    Cardinality(s) <= n => g[s] = SumFrom(f, g, s)}
<1>1. \A s \in U : /\ Cardinality(s) \in Nat
                   /\ s # {} => /\ (CHOOSE x \in s : TRUE) \in s
                                /\ s \ {CHOOSE x \in s : TRUE} \in U
                                /\ Cardinality(s \ {CHOOSE x \in s : TRUE}) = Cardinality(s) - 1
    BY SmallerSets
<1>2. 0 \in A
    <2>1. PICK g : g = [s \in U |-> 0]
        OBVIOUS
    <2>2. ASSUME NEW s \in U, Cardinality(s) <= 0
          PROVE  g[s] = SumFrom(f, g, s)
        <3>0. Cardinality(s) \in Nat /\ Cardinality(s) <= 0
            BY <1>1, <2>2
        <3>1. Cardinality(s) = 0
            BY <3>0
        <3>2. s = {}
            BY <3>1, SmallerSets
        <3> QED
            BY <2>1, <3>2 DEF SumFrom
    <2> QED
        BY <2>2
<1>3. ASSUME NEW n \in Nat, n \in A
      PROVE  n + 1 \in A
    <2>1. PICK g : \A s \in U : Cardinality(s) <= n => g[s] = SumFrom(f, g, s)
        BY <1>3
    <2>2. PICK h : h = [s \in U |-> IF Cardinality(s) <= n THEN g[s] ELSE SumFrom(f, g, s)]
        OBVIOUS
    <2>3. ASSUME NEW s \in U, Cardinality(s) <= n + 1
          PROVE  h[s] = SumFrom(f, h, s)
        <3>1. h[s] = SumFrom(f, g, s)
            BY <2>1, <2>2
        <3>2. s # {} => h[s \ {CHOOSE x \in s : TRUE}] = g[s \ {CHOOSE x \in s : TRUE}]
            BY <1>1, <2>2, <2>3
        <3> QED
            BY <3>1, <3>2 DEF SumFrom
    <2> QED
        BY <2>3
<1> HIDE DEF A
<1>4. Cardinality(T) \in Nat
    BY FS_CardinalityType
<1>5. Cardinality(T) \in A
    BY <1>2, <1>3, <1>4, Induction
<1>6. PICK g : \A s \in U : Cardinality(s) <= Cardinality(T) => g[s] = SumFrom(f, g, s)
    BY <1>5 DEF A
<1>7. PICK h : h = [s \in U |-> g[s]]
    OBVIOUS
<1>8. \A s \in U : h[s] = SumFrom(f, h, s)
    <2>1. SUFFICES ASSUME NEW s \in U
                   PROVE  h[s] = SumFrom(f, h, s)
        OBVIOUS
    <2>2. h[s] = SumFrom(f, g, s)
        BY <1>6, <1>7, SmallerSets
    <2>3. s # {} => h[s \ {CHOOSE x \in s : TRUE}] = g[s \ {CHOOSE x \in s : TRUE}]
        BY <1>1, <1>7
    <2> QED
        BY <2>2, <2>3 DEF SumFrom
<1> QED
    BY <1>7, <1>8

\* What begins with nothing and grows by f[x] with every x is the sum of f.
Grows(f, v, T) == v[{}] = 0 /\ \A s \in SUBSET T : \A x \in s : v[s] = f[x] + v[s \ {x}]

LEMMA SumIs ==
    ASSUME NEW f, NEW T, IsFiniteSet(T), NEW v, Grows(f, v, T)
    PROVE  F!SumFunctionOnSet(f, T) = v[T]
<1> USE DEF Grows
<1>1. PICK g : g = CHOOSE h : h = [s \in SUBSET T |-> SumFrom(f, h, s)]
    OBVIOUS
<1>2. g = [s \in SUBSET T |-> SumFrom(f, g, s)]
    BY <1>1, SumRecursion
<1>3. F!SumFunctionOnSet(f, T) = g[T]
    BY <1>1 DEF F!SumFunctionOnSet, F!FoldFunctionOnSet, F!MapThenFoldSet, SumFrom
<1> DEFINE A == {n \in Nat : \A s \in SUBSET T : Cardinality(s) = n => g[s] = v[s]}
<1>4. 0 \in A
    <2>1. ASSUME NEW s \in SUBSET T, Cardinality(s) = 0
          PROVE  g[s] = v[s]
        <3>1. s = {}
            BY <2>1, SmallerSets
        <3> QED
            BY <1>2, <3>1 DEF SumFrom
    <2> QED
        BY <2>1
<1>5. ASSUME NEW n \in Nat, n \in A
      PROVE  n + 1 \in A
    <2>1. SUFFICES ASSUME NEW s \in SUBSET T, Cardinality(s) = n + 1
                   PROVE  g[s] = v[s]
        OBVIOUS
    <2>2. PICK x : x = CHOOSE y \in s : TRUE
        OBVIOUS
    <2>3. s # {} /\ x \in s
        <3>1. s # {}
            BY <2>1, SmallerSets
        <3> QED
            BY <2>2, <3>1
    <2>4. s \ {x} \in SUBSET T /\ Cardinality(s \ {x}) = n
        BY <2>1, <2>3, SmallerSets
    <2>5. g[s] = f[x] + g[s \ {x}]
        BY <1>2, <2>2, <2>3 DEF SumFrom
    <2>6. g[s \ {x}] = v[s \ {x}]
        BY <1>5, <2>4
    <2> QED
        BY <2>3, <2>5, <2>6
<1> HIDE DEF A
<1>6. Cardinality(T) \in A
    BY <1>4, <1>5, FS_CardinalityType, Induction
<1> QED
    BY <1>3, <1>6 DEF A

LEMMA SameCardinality ==
    ASSUME NEW T
    PROVE  F!Cardinality(T) = Cardinality(T)
    BY DEF F!Cardinality, Cardinality

LEMMA Few ==
    ASSUME NEW T, NEW n
    PROVE  F!FirstFew(T, n) = {c \in T : Cardinality({o \in T : o < c}) < n}
    BY SameCardinality DEF F!FirstFew

\* FirstFew has as many cards as it is asked for.
LEMMA FewCount ==
    ASSUME NEW U, IsFiniteSet(U), U \subseteq Nat, NEW T \in SUBSET U, NEW m \in Nat,
           m <= Cardinality(T)
    PROVE  /\ Cardinality(F!FirstFew(T, m)) = m
           /\ m = Cardinality(T) => F!FirstFew(T, m) = T
<1> DEFINE Right(R) == \A k \in Nat : k <= Cardinality(R) =>
                           /\ Cardinality(F!FirstFew(R, k)) = k
                           /\ k = Cardinality(R) => F!FirstFew(R, k) = R
           A == {n \in Nat : \A R \in SUBSET U : Cardinality(R) = n => Right(R)}
<1>1. 0 \in A
    <2>1. ASSUME NEW R \in SUBSET U, Cardinality(R) = 0, NEW k \in Nat, k <= Cardinality(R)
          PROVE  Cardinality(F!FirstFew(R, k)) = k /\ F!FirstFew(R, k) = R
        <3>0. R = {}
            BY <2>1, SmallerSets
        <3>1. R = {} /\ k = 0
            BY <2>1, <3>0
        <3>2. F!FirstFew(R, k) = {}
            BY <3>1, Few
        <3> QED
            BY <3>1, <3>2, FS_EmptySet
    <2> QED
        BY <2>1
<1>2. ASSUME NEW n \in Nat, n \in A
      PROVE  n + 1 \in A
    <2>1. SUFFICES ASSUME NEW R \in SUBSET U, Cardinality(R) = n + 1
                   PROVE  Right(R)
        OBVIOUS
    <2>2. R # {}
        BY <2>1, SmallerSets
    <2>3. PICK x \in R : \A y \in R : y <= x
        BY <2>2, FiniteExtremes
    <2> DEFINE Q == R \ {x}
    <2>4. Q \in SUBSET U /\ Cardinality(Q) = n
        <3>1. Cardinality(Q) = (n + 1) - 1
            BY <2>1, SmallerSets
        <3> QED
            BY <3>1
    <2>5. Right(Q)
        BY <1>2, <2>4
    <2>6. \A c \in Q : {o \in R : o < c} = {o \in Q : o < c}
        BY <2>3
    <2>7. {o \in R : o < x} = Q
        <3>1. x \in Nat /\ \A o \in R : o \in Nat /\ o <= x
            BY <2>3
        <3>2. \A o \in R : o < x <=> o # x
            BY <3>1
        <3> QED
            BY <3>2
    <2> HIDE DEF Q
    <2>8. \A k : F!FirstFew(R, k) = F!FirstFew(Q, k) \union (IF n < k THEN {x} ELSE {})
        <3>1. SUFFICES ASSUME NEW k
                       PROVE  F!FirstFew(R, k)
                                  = F!FirstFew(Q, k) \union (IF n < k THEN {x} ELSE {})
            OBVIOUS
        <3>2. x \in F!FirstFew(R, k) <=> n < k
            BY <2>4, <2>7, Few
        <3>3. \A c \in Q : c \in F!FirstFew(R, k) <=> c \in F!FirstFew(Q, k)
            BY <2>6, Few DEF Q
        <3>4. F!FirstFew(R, k) \subseteq R /\ F!FirstFew(Q, k) \subseteq Q /\ R = Q \union {x}
            BY Few DEF Q
        <3> QED
            BY <3>2, <3>3, <3>4
    <2>9. ASSUME NEW k \in Nat, k <= n
          PROVE  Cardinality(F!FirstFew(R, k)) = k
        <3>1. F!FirstFew(R, k) = F!FirstFew(Q, k)
            BY <2>8, <2>9
        <3> QED
            BY <2>4, <2>5, <2>9, <3>1
    <2>10. F!FirstFew(R, n + 1) = R
        <3>1. \A c \in R : Cardinality({o \in R : o < c}) < n + 1
            <4>1. ASSUME NEW c \in R
                  PROVE  Cardinality({o \in R : o < c}) < n + 1
                <5>1. {o \in R : o < c} \in SUBSET (R \ {c})
                    OBVIOUS
                <5>2. IsFiniteSet(R \ {c}) /\ Cardinality(R \ {c}) = (n + 1) - 1
                    BY <2>1, FS_Subset, FS_RemoveElement
                <5>3. /\ Cardinality({o \in R : o < c}) \in Nat
                      /\ Cardinality({o \in R : o < c}) <= Cardinality(R \ {c})
                    BY <5>1, <5>2, SmallerSets
                <5> QED
                    BY <5>2, <5>3
            <4> QED
                BY <4>1
        <3> QED
            BY <3>1, Few
    <2> QED
        BY <2>1, <2>9, <2>10
<1> HIDE DEF A
<1>3. Cardinality(T) \in A
    BY <1>1, <1>2, SmallerSets, Induction
<1> QED
    BY <1>3 DEF A

\* The cards of T share the total, and R are they, or they and x, which has w.
Shares(f, total, T) == T # {} /\ \A c \in T : f[c] = F!Share(total, T, c)
Beside(f, R, T, x, w) == /\ x \notin T /\ (R = T \/ R = T \union {x})
                         /\ x \in R => f[x] = w

\* The shares, and the part of the card that does not share, add up.
LEMMA SharesAddUp ==
    ASSUME NEW T \in SUBSET Decked, NEW total \in Nat, NEW x, NEW w \in Nat, NEW R, NEW f,
           Shares(f, total, T), Beside(f, R, T, x, w)
    PROVE  F!SumFunctionOnSet(f, R) = total + (IF x \in R THEN w ELSE 0)
<1> USE DEF Shares, Beside
<1>0. IsFiniteSet(Decked) /\ Decked \subseteq Nat
    BY DeckIsNumbered
<1> DEFINE n == Cardinality(T)
           q == total \div n
           r == total % n
           few == F!FirstFew(T, r)
<1>1. n \in Nat \ {0} /\ IsFiniteSet(T)
    BY <1>0, SmallerSets
<1>2. q \in Nat /\ r \in 0..(n - 1) /\ total = n * q + r
    BY <1>1, DivMod
<1>3. \A c \in T : f[c] = q + (IF c \in few THEN 1 ELSE 0)
    BY SameCardinality DEF F!Share
<1>4. Cardinality(few) = r /\ few \subseteq T
    <2>1. r \in Nat /\ r <= n
        BY <1>1, <1>2
    <2> HIDE DEF r
    <2> QED
        BY <1>0, <2>1, FewCount, Few
<1> HIDE DEF n, q, r, few
<1> DEFINE V(s) == (IF x \in s THEN w ELSE 0) + q * Cardinality(s \intersect T)
                   + Cardinality(s \intersect few)
<1>5. IsFiniteSet(R)
    BY <1>1, FS_AddElement
<1>6. \A s \in SUBSET R : /\ IsFiniteSet(s \intersect T) /\ IsFiniteSet(s \intersect few)
                          /\ Cardinality(s \intersect T) \in Nat
                          /\ Cardinality(s \intersect few) \in Nat
    <2>1. ASSUME NEW s \in SUBSET R
          PROVE  s \intersect T \in SUBSET R /\ s \intersect few \in SUBSET R
        OBVIOUS
    <2> QED
        BY <1>5, <2>1, SmallerSets
<1>7. ASSUME NEW s \in SUBSET R, NEW y \in s
      PROVE  V(s) = f[y] + V(s \ {y})
    <2>1. PICK a, b, z : /\ a = Cardinality(s \intersect T) /\ b = Cardinality(s \intersect few)
                         /\ z = q * a
        OBVIOUS
    <2>2. /\ a \in Nat /\ b \in Nat
          /\ IsFiniteSet(s \intersect T) /\ IsFiniteSet(s \intersect few)
        BY <1>6, <2>1
    <2>3. z \in Nat
        BY <1>2, <2>1, <2>2
    <2>4. V(s) = (IF x \in s THEN w ELSE 0) + z + b
        BY <2>1
    <2>5. CASE y = x
        <3>1. /\ (s \ {y}) \intersect T = s \intersect T
              /\ (s \ {y}) \intersect few = s \intersect few
              /\ f[y] = w /\ x \notin s \ {y} /\ x \in s
            BY <1>4, <2>5
        <3>2. V(s \ {y}) = 0 + z + b
            BY <2>1, <3>1
        <3> HIDE DEF V
        <3> QED
            BY <2>2, <2>3, <2>4, <3>1, <3>2
    <2>6. CASE y # x
        <3>1. y \in T /\ f[y] = q + (IF y \in few THEN 1 ELSE 0) /\ (x \in s <=> x \in s \ {y})
            BY <1>3, <2>6
        <3>2. /\ (s \ {y}) \intersect T = (s \intersect T) \ {y}
              /\ (s \ {y}) \intersect few = (s \intersect few) \ {y}
              /\ y \in s \intersect T
            BY <3>1
        <3>3. Cardinality((s \intersect T) \ {y}) = a - 1
            BY <2>1, <2>2, <3>2, FS_RemoveElement
        <3>4. Cardinality((s \intersect few) \ {y}) = b - (IF y \in few THEN 1 ELSE 0)
            <4>1. y \in s \intersect few <=> y \in few
                OBVIOUS
            <4>2. PICK t : t = s \intersect few
                OBVIOUS
            <4>3. Cardinality(t \ {y}) = IF y \in t THEN b - 1 ELSE b
                BY <2>1, <2>2, <4>2, FS_RemoveElement
            <4> QED
                BY <2>2, <4>1, <4>2, <4>3
        <3>5. a # 0
            BY <2>1, <2>2, <3>2, FS_EmptySet
        <3>6. z = q * (a - 1) + q
            BY <1>2, <2>1, <2>2, <3>5, Times
        <3>7. PICK z1 : z1 = q * (a - 1)
            OBVIOUS
        <3>8. z1 \in Nat
            BY <1>2, <2>2, <3>5, <3>7
        <3>9. V(s \ {y}) = (IF x \in s THEN w ELSE 0) + z1 + (b - (IF y \in few THEN 1 ELSE 0))
            BY <3>1, <3>2, <3>3, <3>4, <3>7
        <3> HIDE DEF V
        <3> QED
            BY <1>2, <2>2, <2>4, <3>1, <3>6, <3>7, <3>8, <3>9
    <2> QED
        BY <2>5, <2>6
<1>8. V({}) = 0
    <2>1. {} \intersect T = {} /\ {} \intersect few = {} /\ Cardinality({}) = 0
        BY FS_EmptySet
    <2> QED
        BY <1>2, <2>1
<1> HIDE DEF V
<1>9. PICK v : v = [s \in SUBSET R |-> V(s)]
    OBVIOUS
<1>10. \A s \in SUBSET R : \A y \in s : v[s] = f[y] + v[s \ {y}]
    BY <1>7, <1>9
<1>11. v[{}] = 0 /\ v[R] = V(R)
    BY <1>8, <1>9
<1>12. F!SumFunctionOnSet(f, R) = V(R)
    <2>1. Grows(f, v, R)
        BY <1>10, <1>11 DEF Grows
    <2> QED
        BY <1>5, <1>11, <2>1, SumIs
<1>13. R \intersect T = T /\ R \intersect few = few
    BY <1>4
<1>14. V(R) = (IF x \in R THEN w ELSE 0) + q * n + r
    BY <1>4, <1>13 DEF V, n
<1>15. PICK z : z = q * n
    OBVIOUS
<1>16. z \in Nat /\ z = n * q
    BY <1>1, <1>2, <1>15
<1> QED
    BY <1>2, <1>12, <1>14, <1>15, <1>16

\* A card of its own
LEMMA OneAddsUp ==
    ASSUME NEW c, NEW f, NEW w \in Nat, NEW R, R \subseteq {c}, c \in R, f[c] = w
    PROVE  F!SumFunctionOnSet(f, R) = w
<1>1. PICK v : v = [s \in SUBSET R |-> IF s = {} THEN 0 ELSE w]
    OBVIOUS
<1>2. ASSUME NEW s \in SUBSET R, NEW y \in s
      PROVE  v[s] = f[y] + v[s \ {y}]
    <2>1. y = c /\ s # {} /\ s \ {y} = {} /\ {} \in SUBSET R
        OBVIOUS
    <2>2. v[s] = w /\ v[{}] = 0 /\ f[y] = w
        BY <1>1, <2>1
    <2> QED
        BY <2>1, <2>2
<1>3. \A s \in SUBSET R : \A y \in s : v[s] = f[y] + v[s \ {y}]
    BY <1>2
<1>4. v[{}] = 0 /\ v[R] = w
    BY <1>1
<1>5. IsFiniteSet(R)
    <2>1. R = {c}
        OBVIOUS
    <2> QED
        BY <2>1, FS_Singleton
<1>6. Grows(f, v, R)
    BY <1>3, <1>4 DEF Grows
<1>7. F!SumFunctionOnSet(f, R) = v[R]
    BY <1>5, <1>6, SumIs
<1> QED
    BY <1>4, <1>7

\* A share is at most what is shared.
LEMMA ShareBounds ==
    ASSUME NEW U, IsFiniteSet(U), U \subseteq Nat, NEW T \in SUBSET U, NEW c \in T,
           NEW total \in Nat
    PROVE  F!Share(total, T, c) \in 0..total
<1> DEFINE n == Cardinality(T)
           q == total \div n
           r == total % n
<1>1. n \in Nat \ {0}
    <2>1. T # {}
        OBVIOUS
    <2>2. IsFiniteSet(T)
        BY FS_Subset
    <2>3. Cardinality(T) \in Nat /\ (Cardinality(T) = 0 <=> T = {})
        BY <2>2, FS_CardinalityType, FS_EmptySet
    <2> QED
        BY <2>1, <2>3
<1>2. q \in Nat /\ r \in 0..(n - 1) /\ total = n * q + r /\ q <= n * q
    BY <1>1, DivMod, Times
<1>3. r = 0 => c \notin F!FirstFew(T, r)
    <2>1. Cardinality({o \in T : o < c}) \in Nat
        <3>1. {o \in T : o < c} \in SUBSET U
            OBVIOUS
        <3> QED
            BY <3>1, SmallerSets
    <2> HIDE DEF r
    <2> QED
        BY <2>1, Few
<1>4. F!Share(total, T, c) = q + (IF c \in F!FirstFew(T, r) THEN 1 ELSE 0)
    BY SameCardinality DEF F!Share
<1> DEFINE m == n * q
<1>5. m \in Nat
    BY <1>1, <1>2
<1> HIDE DEF q, r, n, m
<1> QED
    BY <1>2, <1>3, <1>4, <1>5 DEF m

----------------------------------------------------------------------------
(* The fusion bench *)

FusePageRecords ==
    [project: Projects \union {NoProject}, asked: SUBSET Decked, cards: SUBSET Decked,
     selected: SUBSET Decked, dims: [Decked -> SUBSET Dims],
     weight: [Dims -> [Decked -> 0..100]], mode: {"balanced", "dominant", "custom"},
     dominant: Decked \union {F!NoLeader}, busy: BOOLEAN, active: BOOLEAN]

FuseCallRecords ==
    [kind: {"list", "result", "fuse"}, project: Projects \union {NoProject},
     asked: SUBSET Decked, parents: SUBSET Decked, state: {"sent", "ok", "error"},
     got: SUBSET Decked, live: BOOLEAN]

\* The bench is a project's, or closed, and then nobody waits for an answer.
FuseHome(p, calls) == p.project \in Projects \/ (p = F!Closed /\ \A k \in calls : ~k.live)

FuseInv == /\ fusePage \in FusePageRecords /\ fuseCalls \subseteq FuseCallRecords
           /\ deck \in [Decked -> Projects \union {"free"}]
           /\ FuseHome(fusePage, fuseCalls)

LEMMA FuseClosed == F!Closed \in FusePageRecords
BY DeckIsNumbered DEF F!Closed, FusePageRecords

LEMMA FuseInit == F!Init => FuseInv
<1> SUFFICES ASSUME F!Init PROVE FuseInv
  OBVIOUS
<1>1. deck \in [Decked -> Projects \union {"free"}]
  BY DEF F!Init
<1>2. QED
  BY <1>1, FuseClosed DEF F!Init, FuseInv, FuseHome

LEMMA FuseGoneStep ==
  ASSUME FuseInv, UNCHANGED <<fusePage, deck>>, fuseCalls' \subseteq fuseCalls
  PROVE  FuseInv'
BY DEF FuseInv, FuseHome

LEMMA FuseNewCall ==
  ASSUME FuseInv, NEW kind \in {"list", "result", "fuse"}, NEW parents \in SUBSET Decked
  PROVE  F!Call(kind, parents) \in FuseCallRecords
BY DEF FuseInv, F!Call, FuseCallRecords, FusePageRecords

LEMMA FuseVisit ==
  ASSUME FuseInv, NEW p \in Projects, NEW asked \in Asked, F!Visit(p, asked) PROVE FuseInv'
<1>1. asked \in SUBSET Decked
  BY DEF F!Visit, F!DeckOf
<1>2. fusePage' \in FusePageRecords /\ fusePage'.project = p
  BY <1>1 DEF FuseInv, F!Visit, FusePageRecords
<1>3. F!Call("list", {}) \in FuseCallRecords
  BY FuseNewCall
<1>4. [F!Call("list", {}) EXCEPT !.project = p, !.asked = asked] \in FuseCallRecords
  BY <1>1, <1>3 DEF FuseCallRecords
<1>5. QED
  BY <1>2, <1>4 DEF FuseInv, F!Visit, FuseHome

LEMMA FuseLeaveStep == ASSUME FuseInv, F!Leave PROVE FuseInv'
<1>1. ASSUME NEW c \in fuseCalls
      PROVE  /\ [c EXCEPT !.live = FALSE] \in FuseCallRecords
             /\ ~[c EXCEPT !.live = FALSE].live
  <2>1. c \in FuseCallRecords
    BY DEF FuseInv
  <2>2. QED
    BY <2>1 DEF FuseCallRecords
<1>2. fuseCalls' \subseteq FuseCallRecords /\ \A k \in fuseCalls' : ~k.live
  BY <1>1 DEF F!Leave, F!Orphaned, FuseInv
<1>3. QED
  BY <1>2, FuseClosed DEF F!Leave, FuseInv, FuseHome

LEMMA FuseFirst == ASSUME NEW T \in SUBSET Decked, T # {} PROVE F!First(T) \in T
<1>1. \E x \in T : \A y \in T : x <= y
  BY DeckIsNumbered, FiniteExtremes
<1>2. QED
  BY <1>1 DEF F!First

LEMMA FuseActive ==
  ASSUME NEW p, NEW ids \in SUBSET Decked, NEW d
  PROVE  F!Active(p, ids, d) \in SUBSET Decked /\ F!Active(p, ids, d) \subseteq ids
BY DEF F!Active

LEMMA FuseShare ==
  ASSUME NEW T \in SUBSET Decked, NEW c \in T, NEW total \in Nat
  PROVE  F!Share(total, T, c) \in 0..total
BY DeckIsNumbered, ShareBounds

LEMMA FuseBalanced ==
  ASSUME NEW p \in FusePageRecords, NEW ids \in SUBSET Decked, NEW d \in Dims
  PROVE  F!Balanced(p, ids, d) \in [Decked -> 0..100]
<1>1. p.weight[d] \in [Decked -> 0..100]
  BY DEF FusePageRecords
<1>2. \A c \in F!Active(p, ids, d) : F!Share(100, F!Active(p, ids, d), c) \in 0..100
  BY FuseActive, FuseShare
<1>3. QED
  BY <1>1, <1>2 DEF F!Balanced

\* What a preset leaves alone
FuseKeeps(p, q) ==
    /\ q.project = p.project /\ q.cards = p.cards /\ q.selected = p.selected
    /\ q.dims = p.dims /\ q.mode = p.mode /\ q.dominant = p.dominant

LEMMA FuseWeights ==
  ASSUME NEW p \in FusePageRecords, NEW w \in [Dims -> [Decked -> 0..100]]
  PROVE  /\ [p EXCEPT !.weight = w] \in FusePageRecords /\ [p EXCEPT !.weight = w].weight = w
         /\ FuseKeeps(p, [p EXCEPT !.weight = w])
BY DEF FusePageRecords, FuseKeeps

LEMMA FuseBalancedAll ==
  ASSUME NEW p \in FusePageRecords, NEW ids \in SUBSET Decked
  PROVE  /\ F!BalancedAll(p, ids) \in FusePageRecords /\ FuseKeeps(p, F!BalancedAll(p, ids))
         /\ \A d \in Dims : F!BalancedAll(p, ids).weight[d] = F!Balanced(p, ids, d)
<1>1. PICK w : w = [d \in Dims |-> F!Balanced(p, ids, d)]
  OBVIOUS
<1>2. w \in [Dims -> [Decked -> 0..100]]
  BY <1>1, FuseBalanced
<1>3. F!BalancedAll(p, ids) = [p EXCEPT !.weight = w]
  BY <1>1 DEF F!BalancedAll
<1>4. QED
  BY <1>1, <1>2, <1>3, FuseWeights

\* What applyFavor makes of a dimension
FavoredIn(p, ids, f, d) ==
    LET others == F!Active(p, ids \ {f}, d)
    IN  IF d \notin p.dims[f] THEN F!Balanced(p, ids, d)
        ELSE [c \in Decked |-> IF c = f THEN (IF others = {} THEN 100 ELSE 70)
                               ELSE IF c \in others THEN F!Share(30, others, c)
                               ELSE p.weight[d][c]]

LEMMA FuseFavored ==
  ASSUME NEW p \in FusePageRecords, NEW ids \in SUBSET Decked, NEW f \in Decked
  PROVE  /\ F!Favored(p, ids, f) \in FusePageRecords /\ FuseKeeps(p, F!Favored(p, ids, f))
         /\ \A d \in Dims : F!Favored(p, ids, f).weight[d] = FavoredIn(p, ids, f, d)
<1>1. PICK w : w = [d \in Dims |-> FavoredIn(p, ids, f, d)]
  OBVIOUS
<1>2. ASSUME NEW d \in Dims PROVE FavoredIn(p, ids, f, d) \in [Decked -> 0..100]
  <2>1. p.weight[d] \in [Decked -> 0..100]
    BY DEF FusePageRecords
  <2>2. PICK others \in SUBSET Decked : others = F!Active(p, ids \ {f}, d)
    BY FuseActive
  <2>3. \A c \in others : F!Share(30, others, c) \in 0..30
    BY FuseShare
  <2>4. \A c \in others : F!Share(30, others, c) \in 0..100
    BY <2>3
  <2>5. [c \in Decked |-> IF c = f THEN (IF others = {} THEN 100 ELSE 70)
                          ELSE IF c \in others THEN F!Share(30, others, c)
                          ELSE p.weight[d][c]] \in [Decked -> 0..100]
    BY <2>1, <2>4
  <2>6. QED
    BY <2>2, <2>5, FuseBalanced DEF FavoredIn
<1>3. w \in [Dims -> [Decked -> 0..100]]
  BY <1>1, <1>2
<1>4. F!Favored(p, ids, f) = [p EXCEPT !.weight = w]
  BY <1>1 DEF F!Favored, FavoredIn
<1>5. QED
  BY <1>1, <1>3, <1>4, FuseWeights

LEMMA FusePreset ==
  ASSUME NEW p \in FusePageRecords, NEW ids \in SUBSET Decked
  PROVE  F!Preset(p, ids) \in FusePageRecords /\ FuseKeeps(p, F!Preset(p, ids))
BY FuseBalancedAll, FuseFavored DEF F!Preset

\* A card that is put in or taken out
LEMMA FuseNext ==
  ASSUME FuseInv, NEW c \in Decked
  PROVE  /\ F!PutIn(c) \in FusePageRecords /\ F!TakenOut(c) \in FusePageRecords
         /\ F!PutIn(c).project = fusePage.project /\ F!PutIn(c).cards = fusePage.cards
         /\ F!TakenOut(c).project = fusePage.project /\ F!TakenOut(c).cards = fusePage.cards
<1>1. fusePage \in FusePageRecords
  BY DEF FuseInv
<1>2. F!NextMode \in {"balanced", "dominant", "custom"}
  BY <1>1 DEF F!NextMode, FusePageRecords
<1>3. F!Selected(fusePage) \ {c} \in SUBSET Decked
  BY <1>1 DEF F!Selected, FusePageRecords
<1>4. F!NextDominant(c) \in Decked \union {F!NoLeader}
  BY <1>1, <1>3, FuseFirst DEF F!NextDominant, FusePageRecords
<1>5. F!PutIn(c) \in FusePageRecords /\ F!PutIn(c).project = fusePage.project
      /\ F!PutIn(c).cards = fusePage.cards
  BY <1>1, <1>2, <1>4 DEF F!PutIn, FusePageRecords
<1>6. PICK p \in FusePageRecords : /\ p.project = fusePage.project /\ p.cards = fusePage.cards
                                   /\ F!TakenOut(c) = F!Protected(p, F!Selected(fusePage) \ {c})
  <2>1. PICK p : p = [fusePage EXCEPT !.selected = @ \ {c}, !.mode = F!NextMode,
                                      !.dominant = F!NextDominant(c)]
    OBVIOUS
  <2>2. p \in FusePageRecords /\ p.project = fusePage.project /\ p.cards = fusePage.cards
    BY <1>1, <1>2, <1>4, <2>1 DEF FusePageRecords
  <2>3. QED
    BY <2>1, <2>2 DEF F!TakenOut
<1>7. ASSUME NEW ids
      PROVE  /\ F!Protected(p, ids) \in FusePageRecords
             /\ F!Protected(p, ids).project = p.project /\ F!Protected(p, ids).cards = p.cards
  <2>1. PICK t : t = [x \in Decked |-> IF ids # {} /\ x = F!First(ids)
                          THEN p.dims[x] \union {d \in Dims : F!Active(p, ids, d) = {}}
                          ELSE p.dims[x]]
    OBVIOUS
  <2>2. t \in [Decked -> SUBSET Dims]
    BY <2>1 DEF FusePageRecords
  <2>3. F!Protected(p, ids) = [p EXCEPT !.dims = t]
    BY <2>1 DEF F!Protected
  <2>4. QED
    BY <2>2, <2>3 DEF FusePageRecords
<1>8. QED
  BY <1>5, <1>6, <1>7

LEMMA FuseSelected ==
  ASSUME NEW p \in FusePageRecords
  PROVE  F!Selected(p) \in SUBSET Decked /\ F!Selected(p) \subseteq p.cards
BY DEF FusePageRecords, F!Selected

\* A closed bench shows nothing to click.
LEMMA FuseOpen == ASSUME FuseInv, F!Gesture PROVE fusePage.project \in Projects
<1>1. SUFFICES ASSUME fusePage = F!Closed PROVE FALSE
  BY DEF FuseInv, FuseHome
<1>2. fusePage.cards = {} /\ F!Selected(fusePage) = {} /\ F!Cardinality(F!Selected(fusePage)) = 0
  BY <1>1, SameCardinality, FS_EmptySet DEF F!Closed, F!Selected
<1>3. \A d : F!Active(fusePage, F!Selected(fusePage), d) = {}
  BY <1>2 DEF F!Active
<1>4. \A c \in Decked : ~(F!ClickSlot(c) \/ F!ClickDeck(c) \/ F!SlotDrop(c) \/ F!FavorCard(c))
  BY <1>2 DEF F!ClickSlot, F!ClickDeck, F!SlotDrop, F!ToggleCard, F!FavorCard, F!Offered
<1>5. \A c \in Decked, d \in Dims : ~F!ToggleDim(c, d)
  BY <1>2 DEF F!ToggleDim
<1>6. \A c \in Decked, d \in Dims : \A raw \in Raw : ~F!SetWeight(c, d, raw)
  BY <1>3 DEF F!SetWeight, F!Slider
<1>7. ~F!EvenAll /\ ~F!Submit
  <2>1. ~(F!Cardinality(F!Selected(fusePage)) >= 2)
    BY <1>2
  <2>2. QED
    BY <2>1 DEF F!EvenAll, F!Submit, F!CanSubmit, F!WeightsOk
<1>8. QED
  BY <1>4, <1>5, <1>6, <1>7 DEF F!Gesture

LEMMA FuseGestureStep ==
  ASSUME FuseInv, fusePage.project \in Projects, fusePage' \in FusePageRecords,
         fusePage'.project = fusePage.project, deck' = deck,
         fuseCalls' \subseteq FuseCallRecords
  PROVE  FuseInv'
BY DEF FuseInv, FuseHome

LEMMA FuseToggleCard ==
  ASSUME FuseInv, NEW c \in Decked, F!ToggleCard(c)
  PROVE  /\ \E next \in FusePageRecords :
                /\ next.project = fusePage.project /\ next.cards = fusePage.cards
                /\ fusePage' = F!Preset(next, F!Selected(next))
         /\ fusePage' \in FusePageRecords /\ fusePage'.project = fusePage.project
<1>1. PICK next \in FusePageRecords :
          /\ next.project = fusePage.project /\ next.cards = fusePage.cards
          /\ fusePage' = F!Preset(next, F!Selected(next))
  BY FuseNext DEF F!ToggleCard, F!Does
<1>2. QED
  BY <1>1, FusePreset, FuseSelected DEF FuseKeeps

\* What a slider and a check box make of the bench
\* The weights of a dimension that the slider of c leaves
SlidTo(c, d, raw, others) ==
    [x \in Decked |-> IF x = c THEN raw
                      ELSE IF x \in others THEN F!Share(100 - raw, others, x)
                      ELSE fusePage.weight[d][x]]

FuseRows == [Decked -> 0..100]

Slid(c, d, raw, w, others) ==
    /\ others = F!Active(fusePage, F!Selected(fusePage), d) \ {c}
    /\ w = SlidTo(c, d, raw, others)
    /\ fusePage' = [fusePage EXCEPT !.mode = "custom", !.weight[d] = w]

LEMMA FuseSetWeight ==
  ASSUME FuseInv, NEW c \in Decked, NEW d \in Dims, NEW raw \in Raw, F!SetWeight(c, d, raw)
  PROVE  \E w \in FuseRows, others \in SUBSET Decked : Slid(c, d, raw, w, others)
<1>1. fusePage \in FusePageRecords
  BY DEF FuseInv
<1>2. PICK others \in SUBSET Decked :
          others = F!Active(fusePage, F!Selected(fusePage), d) \ {c}
  BY <1>1, FuseSelected, FuseActive
<1>3. raw \in 0..100
  BY DeckIsNumbered
<1>4. PICK w \in [Decked -> 0..100] : w = SlidTo(c, d, raw, others)
  <2>1. SlidTo(c, d, raw, others) \in [Decked -> 0..100]
    <3>1. fusePage.weight[d] \in [Decked -> 0..100]
      BY <1>1 DEF FusePageRecords
    <3>2. 100 - raw \in Nat
      BY <1>3
    <3>3. \A x \in others : F!Share(100 - raw, others, x) \in 0..(100 - raw)
      BY <3>2, FuseShare
    <3>4. \A x \in others : F!Share(100 - raw, others, x) \in 0..100
      BY <1>3, <3>3
    <3>5. QED
      BY <1>3, <3>1, <3>4 DEF SlidTo
  <2>2. QED
    BY <2>1
<1>5. fusePage' = [fusePage EXCEPT !.mode = "custom", !.weight[d] = w]
  BY <1>1, <1>2, <1>4 DEF F!SetWeight, F!Does, FusePageRecords, SlidTo
<1>6. QED
  BY <1>2, <1>4, <1>5 DEF FuseRows, Slid

LEMMA FuseToggleDim ==
  ASSUME FuseInv, NEW c \in Decked, NEW d \in Dims, F!ToggleDim(c, d)
  PROVE  \E next \in FusePageRecords :
             /\ next.project = fusePage.project /\ next.cards = fusePage.cards
             /\ next.selected = fusePage.selected /\ next.weight = fusePage.weight
             /\ next.mode = fusePage.mode /\ next.dominant = fusePage.dominant
             /\ \A x \in Decked, e \in Dims :
                    e # d => (e \in next.dims[x] <=> e \in fusePage.dims[x])
             /\ IF fusePage.mode = "dominant" /\ fusePage.dominant # F!NoLeader
                THEN fusePage' = F!Favored(next, F!Selected(fusePage), fusePage.dominant)
                ELSE fusePage' = [next EXCEPT !.weight[d] =
                                    F!Balanced(next, F!Selected(fusePage), d)]
<1>1. fusePage \in FusePageRecords
  BY DEF FuseInv
<1>2. PICK next : /\ next = [fusePage EXCEPT !.dims[c] = IF d \notin fusePage.dims[c]
                                                         THEN @ \union {d} ELSE @ \ {d}]
                  /\ IF fusePage.mode = "dominant" /\ fusePage.dominant # F!NoLeader
                     THEN fusePage' = F!Favored(next, F!Selected(fusePage), fusePage.dominant)
                     ELSE fusePage' = [next EXCEPT !.weight[d] =
                                          F!Balanced(next, F!Selected(fusePage), d)]
  BY DEF F!ToggleDim, F!Does
<1>3. fusePage.dims \in [Decked -> SUBSET Dims]
  BY <1>1 DEF FusePageRecords
<1>4. PICK t : t = [fusePage.dims EXCEPT ![c] = IF d \notin fusePage.dims[c]
                                                THEN @ \union {d} ELSE @ \ {d}]
  OBVIOUS
<1>5. /\ t \in [Decked -> SUBSET Dims]
      /\ \A x \in Decked, e \in Dims : e # d => (e \in t[x] <=> e \in fusePage.dims[x])
  BY <1>3, <1>4
<1>6. next = [fusePage EXCEPT !.dims = t]
  BY <1>1, <1>2, <1>4 DEF FusePageRecords
<1>7. next \in FusePageRecords /\ next.dims = t
      /\ next.project = fusePage.project /\ next.cards = fusePage.cards
      /\ next.selected = fusePage.selected /\ next.weight = fusePage.weight
      /\ next.mode = fusePage.mode /\ next.dominant = fusePage.dominant
  BY <1>1, <1>5, <1>6 DEF FusePageRecords
<1>8. QED
  BY <1>2, <1>5, <1>7

LEMMA FuseGesture == ASSUME FuseInv, F!Gesture PROVE FuseInv'
<1>1. fusePage \in FusePageRecords /\ fuseCalls \subseteq FuseCallRecords
      /\ fusePage.project \in Projects
      /\ F!Selected(fusePage) \in SUBSET Decked
  BY FuseOpen, FuseSelected DEF FuseInv
<1>2. deck' = deck /\ (fuseCalls' = fuseCalls \/ F!Submit)
  BY DEF F!Gesture, F!ClickSlot, F!ClickDeck, F!SlotDrop, F!ToggleCard, F!FavorCard,
     F!ToggleDim, F!SetWeight, F!EvenAll, F!Submit, F!Does
<1>3. ASSUME NEW c \in Decked, F!ToggleCard(c)
      PROVE  fusePage' \in FusePageRecords /\ fusePage'.project = fusePage.project
  BY <1>3, FuseToggleCard
<1>4. ASSUME NEW c \in Decked, F!FavorCard(c)
      PROVE  fusePage' \in FusePageRecords /\ fusePage'.project = fusePage.project
  <2>1. PICK p \in FusePageRecords : /\ p.project = fusePage.project
                                     /\ p = F!Favored(fusePage, F!Selected(fusePage), c)
    BY <1>1, FuseFavored DEF FuseKeeps
  <2>2. QED
    BY <1>4, <2>1 DEF F!FavorCard, F!Does, FusePageRecords
<1>5. ASSUME NEW c \in Decked, NEW d \in Dims, F!ToggleDim(c, d)
      PROVE  fusePage' \in FusePageRecords /\ fusePage'.project = fusePage.project
  <2>1. PICK next \in FusePageRecords :
            /\ next.project = fusePage.project
            /\ IF fusePage.mode = "dominant" /\ fusePage.dominant # F!NoLeader
               THEN fusePage' = F!Favored(next, F!Selected(fusePage), fusePage.dominant)
               ELSE fusePage' = [next EXCEPT !.weight[d] =
                                    F!Balanced(next, F!Selected(fusePage), d)]
    BY <1>5, FuseToggleDim
  <2>2. fusePage.dominant # F!NoLeader => fusePage.dominant \in Decked
    BY <1>1 DEF FusePageRecords
  <2>3. F!Balanced(next, F!Selected(fusePage), d) \in [Decked -> 0..100]
    BY <1>1, FuseBalanced
  <2>4. CASE fusePage.mode = "dominant" /\ fusePage.dominant # F!NoLeader
    <3>1. PICK f \in Decked, ids \in SUBSET Decked : f = fusePage.dominant
                                                   /\ ids = F!Selected(fusePage)
      BY <1>1, <2>2, <2>4
    <3>2. fusePage' = F!Favored(next, ids, f)
      BY <2>1, <2>4, <3>1
    <3>3. F!Favored(next, ids, f) \in FusePageRecords
          /\ F!Favored(next, ids, f).project = next.project
      BY FuseFavored DEF FuseKeeps
    <3>4. QED
      BY <2>1, <3>2, <3>3
  <2>5. CASE ~(fusePage.mode = "dominant" /\ fusePage.dominant # F!NoLeader)
    <3>1. PICK w \in [Decked -> 0..100] : w = F!Balanced(next, F!Selected(fusePage), d)
      BY <2>3
    <3>2. fusePage' = [next EXCEPT !.weight[d] = w]
      BY <2>1, <2>5, <3>1
    <3>3. QED
      BY <2>1, <3>2 DEF FusePageRecords
  <2>6. QED
    BY <2>4, <2>5
<1>6. ASSUME NEW c \in Decked, NEW d \in Dims, NEW raw \in Raw, F!SetWeight(c, d, raw)
      PROVE  fusePage' \in FusePageRecords /\ fusePage'.project = fusePage.project
  <2>1. PICK w \in FuseRows : fusePage' = [fusePage EXCEPT !.mode = "custom", !.weight[d] = w]
    BY <1>6, FuseSetWeight DEF Slid
  <2>2. QED
    BY <1>1, <2>1 DEF FusePageRecords, FuseRows
<1>7. ASSUME F!EvenAll
      PROVE  fusePage' \in FusePageRecords /\ fusePage'.project = fusePage.project
  <2>1. PICK p \in FusePageRecords : /\ p.project = fusePage.project
                                     /\ p = F!BalancedAll(fusePage, F!Selected(fusePage))
    BY <1>1, FuseBalancedAll DEF FuseKeeps
  <2>2. QED
    BY <1>7, <2>1 DEF F!EvenAll, F!Does, FusePageRecords
<1>8. ASSUME F!Submit
      PROVE  /\ fusePage' \in FusePageRecords /\ fusePage'.project = fusePage.project
             /\ fuseCalls' \subseteq FuseCallRecords
  BY <1>1, <1>8, FuseNewCall DEF F!Submit, FusePageRecords
<1>9. fusePage' \in FusePageRecords /\ fusePage'.project = fusePage.project
  BY <1>3, <1>4, <1>5, <1>6, <1>7, <1>8 DEF F!Gesture, F!ClickSlot, F!ClickDeck, F!SlotDrop
<1>10. QED
  BY <1>1, <1>2, <1>8, <1>9, FuseGestureStep

LEMMA FuseReply ==
  ASSUME FuseInv, NEW k \in fuseCalls, NEW s \in {"ok", "error"}, NEW got \in SUBSET Decked,
         F!Reply(k, s, got), UNCHANGED <<fusePage, deck>>
  PROVE  FuseInv'
<1>1. k \in FuseCallRecords
  BY DEF FuseInv
<1>2. /\ [k EXCEPT !.state = s, !.got = got] \in FuseCallRecords
      /\ [k EXCEPT !.state = s, !.got = got].live = k.live
  BY <1>1 DEF FuseCallRecords
<1>3. FuseHome(fusePage, fuseCalls')
  BY <1>2 DEF F!Reply, FuseInv, FuseHome
<1>4. QED
  BY <1>2, <1>3 DEF F!Reply, FuseInv

LEMMA FuseServe == ASSUME FuseInv, NEW k \in fuseCalls, F!Serve(k) PROVE FuseInv'
<1>1. CASE F!ServeList(k)
  <2>1. F!DeckOf(k.project) \in SUBSET Decked
    BY DEF F!DeckOf
  <2>2. QED
    BY <1>1, <2>1, FuseReply DEF F!ServeList
<1>2. CASE F!ServeFuse(k)
  BY <1>2, FuseReply DEF F!ServeFuse
<1>3. QED
  BY <1>1, <1>2 DEF F!Serve

LEMMA FuseFew ==
  ASSUME NEW T, NEW n PROVE F!FirstFew(T, n) \subseteq T
BY Few

\* What the effect makes of a list, as the balanced weights of a bench
LEMMA FuseLoaded ==
  ASSUME FuseInv, NEW k \in fuseCalls
  PROVE  \E next \in FusePageRecords :
             /\ next.project = fusePage.project /\ next.cards = k.got
             /\ F!Loaded(k) = F!BalancedAll(next, F!FirstFew(F!Selected(next), Slots))
<1>1. fusePage \in FusePageRecords /\ k.got \in SUBSET Decked /\ k.asked \in SUBSET Decked
  BY DEF FuseInv, FuseCallRecords
<1>2. PICK next : next = [fusePage EXCEPT !.cards = k.got, !.selected = @ \union k.asked]
  OBVIOUS
<1>3. next \in FusePageRecords /\ next.project = fusePage.project /\ next.cards = k.got
  BY <1>1, <1>2 DEF FusePageRecords
<1>4. QED
  BY <1>2, <1>3 DEF F!Loaded

LEMMA FuseArriveStep ==
  ASSUME FuseInv, NEW k \in fuseCalls, k.live, fuseCalls' = fuseCalls \ {k}, deck' = deck,
         fusePage' \in FusePageRecords, fusePage'.project = fusePage.project
  PROVE  FuseInv'
<1>1. fusePage.project \in Projects
  BY DEF FuseInv, FuseHome
<1>2. QED
  BY <1>1, FuseGestureStep DEF FuseInv

LEMMA FuseArrive == ASSUME FuseInv, NEW k \in fuseCalls, F!Arrive(k) PROVE FuseInv'
<1>1. /\ fusePage \in FusePageRecords /\ k.live /\ k.got \in SUBSET Decked
      /\ fuseCalls' = fuseCalls \ {k} /\ deck' = deck
  BY DEF FuseInv, FuseCallRecords, F!Arrive, F!ListArrives, F!ResultArrives, F!FuseArrives,
     F!CallFails, F!Answered, F!Failed
<1>2. CASE F!ListArrives(k)
  <2>1. PICK next \in FusePageRecords, ids \in SUBSET Decked :
            /\ next.project = fusePage.project
            /\ fusePage' = F!BalancedAll(next, ids)
    <3>1. PICK next \in FusePageRecords :
              /\ next.project = fusePage.project
              /\ F!Loaded(k) = F!BalancedAll(next, F!FirstFew(F!Selected(next), Slots))
      BY FuseLoaded
    <3>2. F!FirstFew(F!Selected(next), Slots) \in SUBSET Decked
      BY FuseFew, FuseSelected
    <3>3. QED
      BY <1>2, <3>1, <3>2 DEF F!ListArrives
  <2>2. fusePage' \in FusePageRecords /\ fusePage'.project = fusePage.project
    BY <2>1, FuseBalancedAll DEF FuseKeeps
  <2>3. QED
    BY <1>1, <2>2, FuseArriveStep
<1>3. CASE F!ResultArrives(k) \/ F!FuseArrives(k) \/ F!CallFails(k)
  <2>1. fusePage' \in FusePageRecords /\ fusePage'.project = fusePage.project
    <3>1. CASE F!ResultArrives(k)
      BY <1>1, <3>1 DEF F!ResultArrives, FusePageRecords
    <3>2. CASE F!FuseArrives(k)
      BY <1>1, <3>2 DEF F!FuseArrives, FusePageRecords
    <3>3. CASE F!CallFails(k)
      BY <1>1, <3>3 DEF F!CallFails, FusePageRecords
    <3>4. QED
      BY <1>3, <3>1, <3>2, <3>3
  <2>2. QED
    BY <1>1, <2>1, FuseArriveStep
<1>4. QED
  BY <1>2, <1>3 DEF F!Arrive

LEMMA FuseDrop == ASSUME FuseInv, NEW k \in fuseCalls, F!Drop(k) PROVE FuseInv'
<1>1. k \in FuseCallRecords /\ fusePage.project \in Projects
  BY DEF FuseInv, FuseHome, F!Drop, F!Lose
<1>2. [k EXCEPT !.state = "error"] \in FuseCallRecords
  BY <1>1 DEF FuseCallRecords
<1>3. fuseCalls' \subseteq FuseCallRecords
  BY <1>2 DEF F!Drop, F!Lose, FuseInv
<1>4. QED
  BY <1>1, <1>3, FuseGestureStep DEF F!Drop, FuseInv

LEMMA FuseJobEnds == ASSUME FuseInv, F!JobEnds PROVE FuseInv'
<1>1. fusePage \in FusePageRecords /\ fusePage.project \in Projects
  BY DEF FuseInv, FuseHome, F!JobEnds, F!Closed
<1>2. fusePage' \in FusePageRecords /\ fusePage'.project = fusePage.project
  BY <1>1 DEF F!JobEnds, FusePageRecords
<1>3. fuseCalls' \subseteq FuseCallRecords
  BY FuseNewCall DEF F!JobEnds, FuseInv
<1>4. deck' \in [Decked -> Projects \union {"free"}]
  BY <1>1 DEF F!JobEnds, FuseInv
<1>5. QED
  BY <1>1, <1>2, <1>3, <1>4 DEF FuseInv, FuseHome

LEMMA FuseStep == ASSUME FuseInv, F!Next PROVE FuseInv'
<1>1. CASE \E p \in Projects, asked \in Asked : F!Visit(p, asked)
  BY <1>1, FuseVisit
<1>2. CASE F!Leave
  BY <1>2, FuseLeaveStep
<1>3. CASE F!Gesture \/ F!JobEnds
  BY <1>3, FuseGesture, FuseJobEnds
<1>4. CASE \E k \in fuseCalls : F!Serve(k) \/ F!Arrive(k) \/ F!Drop(k)
  BY <1>4, FuseServe, FuseArrive, FuseDrop
<1>5. QED
  BY <1>1, <1>2, <1>3, <1>4 DEF F!Next

LEMMA FuseIsEnough == FuseInv => F!TypeOK
BY DEF FuseInv, FusePageRecords, F!TypeOK

(* The weights of the bench *)

LEMMA WholeBySums ==
  ASSUME NEW q, \A d \in Dims : F!Active(q, F!Selected(q), d) # {} =>
                    F!SumFunctionOnSet(q.weight[d], F!Active(q, F!Selected(q), d)) = 100
  PROVE  F!AddUp(q)
BY DEF F!AddUp, F!Sum

LEMMA BalancedSum ==
  ASSUME NEW p, NEW ids \in SUBSET Decked, NEW d \in Dims, F!Active(p, ids, d) # {}
  PROVE  F!SumFunctionOnSet(F!Balanced(p, ids, d), F!Active(p, ids, d)) = 100
<1>1. PICK T \in SUBSET Decked : T = F!Active(p, ids, d) /\ T # {} /\ T \subseteq ids
  BY FuseActive
<1>2. PICK f : f = F!Balanced(p, ids, d)
  OBVIOUS
<1>3. \A c \in T : f[c] = F!Share(100, T, c)
  BY <1>1, <1>2 DEF F!Balanced
<1>4. PICK x : x = -1
  OBVIOUS
<1>5. x \notin T
  BY <1>4, DeckIsNumbered
<1>6. F!SumFunctionOnSet(f, T) = 100 + (IF x \in T THEN 0 ELSE 0)
  <2>0. PICK R : R = T
    OBVIOUS
  <2>1. PICK total \in Nat, w \in Nat : total = 100 /\ w = 0 /\ R = T
    BY <2>0
  <2>2. Shares(f, total, T)
    BY <1>1, <1>3, <2>1 DEF Shares
  <2>3. Beside(f, R, T, x, w)
    BY <1>5, <2>1 DEF Beside
  <2>4. F!SumFunctionOnSet(f, R) = total + (IF x \in R THEN w ELSE 0)
    BY <2>2, <2>3, SharesAddUp
  <2>5. QED
    BY <2>1, <2>4
<1>7. QED
  BY <1>1, <1>2, <1>6

LEMMA FavoredSum ==
  ASSUME NEW p \in FusePageRecords, NEW ids \in SUBSET Decked, NEW f \in ids, NEW d \in Dims,
         F!Active(p, ids, d) # {}
  PROVE  F!SumFunctionOnSet(FavoredIn(p, ids, f, d), F!Active(p, ids, d)) = 100
<1>1. CASE d \notin p.dims[f]
  BY <1>1, BalancedSum DEF FavoredIn
<1>2. CASE d \in p.dims[f]
  <2>1. PICK T \in SUBSET Decked : T = F!Active(p, ids \ {f}, d)
    BY FuseActive
  <2>2. PICK R : R = F!Active(p, ids, d)
    OBVIOUS
  <2>3. R = T \union {f} /\ f \notin T
    BY <1>2, <2>1, <2>2 DEF F!Active
  <2>4. PICK w : w = FavoredIn(p, ids, f, d)
    OBVIOUS
  <2>5. /\ w[f] = IF T = {} THEN 100 ELSE 70
        /\ \A c \in T : w[c] = F!Share(30, T, c)
    BY <1>2, <2>1, <2>3, <2>4 DEF FavoredIn
  <2>6. CASE T = {}
    <3>1. R = {f} /\ \A x \in R : w[x] = 100
      BY <2>3, <2>5, <2>6
    <3>2. F!SumFunctionOnSet(w, R) = 100
      <4>1. PICK total \in Nat : total = 100
        OBVIOUS
      <4>2. w[f] = total
        BY <3>1, <4>1
      <4>3. f \in R /\ R \subseteq {f}
        BY <3>1
      <4>4. F!SumFunctionOnSet(w, R) = total
        BY <4>2, <4>3, OneAddsUp
      <4>5. QED
        BY <4>1, <4>4
    <3>3. QED
      BY <2>2, <2>4, <3>2
  <2>7. CASE T # {}
    <3>1. PICK total \in Nat, own \in Nat : total = 30 /\ own = 70
      OBVIOUS
    <3>2. Shares(w, total, T) /\ Beside(w, R, T, f, own)
      BY <2>3, <2>5, <2>7, <3>1 DEF Shares, Beside
    <3>3. F!SumFunctionOnSet(w, R) = total + (IF f \in R THEN own ELSE 0)
      BY <3>2, SharesAddUp
    <3>4. F!SumFunctionOnSet(w, R) = 30 + (IF f \in R THEN 70 ELSE 0)
      BY <3>1, <3>3
    <3>5. QED
      BY <2>2, <2>3, <2>4, <3>4
  <2>8. QED
    BY <2>6, <2>7
<1>3. QED
  BY <1>1, <1>2

\* The weights of q are those a preset gives to p, and the same cards take part.
Alike(p, q) == q.cards = p.cards /\ q.selected = p.selected /\ q.dims = p.dims

LEMMA AlikeActive ==
  ASSUME NEW p, NEW q, Alike(p, q)
  PROVE  /\ F!Selected(q) = F!Selected(p)
         /\ \A ids, d : F!Active(q, ids, d) = F!Active(p, ids, d)
BY DEF Alike, F!Selected, F!Active

LEMMA BalancedIsWhole ==
  ASSUME NEW p \in FusePageRecords, NEW q, Alike(p, q),
         q.weight = F!BalancedAll(p, F!Selected(p)).weight
  PROVE  F!AddUp(q)
<1>1. PICK ids \in SUBSET Decked : ids = F!Selected(p)
  BY FuseSelected
<1>2. \A d \in Dims : q.weight[d] = F!Balanced(p, ids, d)
  BY <1>1, FuseBalancedAll
<1>3. ASSUME NEW d \in Dims, F!Active(p, ids, d) # {}
      PROVE  F!SumFunctionOnSet(q.weight[d], F!Active(p, ids, d)) = 100
  BY <1>2, <1>3, BalancedSum
<1>4. QED
  BY <1>1, <1>3, AlikeActive, WholeBySums

LEMMA FavoredIsWhole ==
  ASSUME NEW p \in FusePageRecords, NEW q, Alike(p, q), NEW f \in F!Selected(p),
         q.weight = F!Favored(p, F!Selected(p), f).weight
  PROVE  F!AddUp(q)
<1>1. PICK ids \in SUBSET Decked : ids = F!Selected(p) /\ f \in ids
  BY FuseSelected
<1>2. \A d \in Dims : q.weight[d] = FavoredIn(p, ids, f, d)
  BY <1>1, FuseFavored
<1>3. ASSUME NEW d \in Dims, F!Active(p, ids, d) # {}
      PROVE  F!SumFunctionOnSet(q.weight[d], F!Active(p, ids, d)) = 100
  BY <1>1, <1>2, <1>3, FavoredSum
<1>4. QED
  BY <1>1, <1>3, AlikeActive, WholeBySums

LEMMA WeightsKept ==
  ASSUME NEW p, NEW q, Alike(p, q), q.weight = p.weight, F!AddUp(p)
  PROVE  F!AddUp(q)
<1>1. ASSUME NEW d \in Dims, F!Active(q, F!Selected(q), d) # {}
      PROVE  F!SumFunctionOnSet(q.weight[d], F!Active(q, F!Selected(q), d)) = 100
  <2>1. F!Active(q, F!Selected(q), d) = F!Active(p, F!Selected(p), d)
    BY AlikeActive
  <2>2. QED
    BY <1>1, <2>1 DEF F!AddUp, F!Sum
<1>2. QED
  BY <1>1, WholeBySums

\* A slider: the card has what it is given, and the others share the rest.
LEMMA SliderIsWhole ==
  ASSUME FuseInv, F!AddUp(fusePage), NEW c \in Decked, NEW d \in Dims, NEW raw \in Raw,
         F!SetWeight(c, d, raw)
  PROVE  F!AddUp(fusePage')
<1>1. fusePage \in FusePageRecords /\ raw \in 0..100
  BY DeckIsNumbered DEF FuseInv
<1>2. PICK w \in FuseRows, others \in SUBSET Decked : Slid(c, d, raw, w, others)
  BY FuseSetWeight
<1>3. PICK q : q = fusePage'
  OBVIOUS
<1>4. /\ Alike(fusePage, q) /\ q.weight[d] = w
      /\ \A e \in Dims : e # d => q.weight[e] = fusePage.weight[e]
  BY <1>1, <1>2, <1>3 DEF Alike, FusePageRecords, FuseRows, Slid
<1>5. \A e : F!Active(q, F!Selected(q), e) = F!Active(fusePage, F!Selected(fusePage), e)
  BY <1>4, AlikeActive
<1>6. F!SumFunctionOnSet(w, F!Active(fusePage, F!Selected(fusePage), d)) = 100
  <2>1. PICK R : R = F!Active(fusePage, F!Selected(fusePage), d)
    OBVIOUS
  <2>2. c \in R /\ others = R \ {c}
    BY <1>2, <2>1 DEF F!SetWeight, F!Slider, Slid
  <2>3. others # {}
    <3>1. SUFFICES ASSUME R = {c} PROVE FALSE
      BY <2>2
    <3>2. F!Cardinality(R) = 1
      BY <3>1, FS_Singleton, SameCardinality
    <3>3. QED
      BY <2>1, <3>2 DEF F!SetWeight, F!Slider
  <2>4. PICK total \in Nat, own \in Nat : total = 100 - raw /\ own = raw
    BY <1>1
  <2>5. Shares(w, total, others)
    BY <1>2, <2>2, <2>3, <2>4 DEF Shares, Slid, SlidTo
  <2>6. Beside(w, R, others, c, own)
    BY <1>2, <2>2, <2>4 DEF Beside, Slid, SlidTo
  <2>7. F!SumFunctionOnSet(w, R) = total + (IF c \in R THEN own ELSE 0)
    BY <2>5, <2>6, SharesAddUp
  <2>8. QED
    BY <1>1, <2>1, <2>2, <2>4, <2>7
<1>7. ASSUME NEW e \in Dims, F!Active(q, F!Selected(q), e) # {}
      PROVE  F!SumFunctionOnSet(q.weight[e], F!Active(q, F!Selected(q), e)) = 100
  <2>1. CASE e = d
    BY <1>4, <1>5, <1>6, <2>1
  <2>2. CASE e # d
    BY <1>4, <1>5, <1>7, <2>2 DEF F!AddUp, F!Sum
  <2>3. QED
    BY <2>1, <2>2
<1>8. F!AddUp(q)
  BY <1>7, WholeBySums
<1>9. QED
  BY <1>3, <1>8

\* A check box: the leading card is favored again, or the dimension is shared evenly.
LEMMA BoxIsWhole ==
  ASSUME FuseInv, F!AddUp(fusePage), NEW c \in Decked, NEW d \in Dims, F!ToggleDim(c, d),
         fusePage.mode = "dominant" => fusePage.dominant \in F!Selected(fusePage)
  PROVE  F!AddUp(fusePage')
<1>1. fusePage \in FusePageRecords
  BY DEF FuseInv
<1>2. PICK next \in FusePageRecords :
          /\ next.cards = fusePage.cards
          /\ next.selected = fusePage.selected /\ next.weight = fusePage.weight
          /\ \A x \in Decked, e \in Dims :
                 e # d => (e \in next.dims[x] <=> e \in fusePage.dims[x])
          /\ IF fusePage.mode = "dominant" /\ fusePage.dominant # F!NoLeader
             THEN fusePage' = F!Favored(next, F!Selected(fusePage), fusePage.dominant)
             ELSE fusePage' = [next EXCEPT !.weight[d] =
                                  F!Balanced(next, F!Selected(fusePage), d)]
  BY FuseToggleDim
<1>3. PICK ids \in SUBSET Decked : ids = F!Selected(fusePage) /\ ids = F!Selected(next)
  BY <1>1, <1>2, FuseSelected DEF F!Selected
<1>4. PICK q : q = fusePage'
  OBVIOUS
<1>5. CASE fusePage.mode = "dominant" /\ fusePage.dominant # F!NoLeader
  <2>1. PICK f \in Decked : f = fusePage.dominant /\ f \in ids
    BY <1>3, <1>5
  <2>2. q = F!Favored(next, F!Selected(next), f)
    BY <1>2, <1>3, <1>4, <1>5, <2>1
  <2>3. FuseKeeps(next, q)
    BY <1>3, <2>2, FuseFavored
  <2>4. Alike(next, q) /\ f \in F!Selected(next)
    BY <1>3, <2>1, <2>3 DEF Alike, FuseKeeps
  <2>5. F!AddUp(q)
    BY <2>2, <2>4, FavoredIsWhole
  <2>6. QED
    BY <1>4, <2>5
<1>6. CASE ~(fusePage.mode = "dominant" /\ fusePage.dominant # F!NoLeader)
  <2>1. PICK w \in [Decked -> 0..100] : w = F!Balanced(next, ids, d)
    BY FuseBalanced
  <2>2. q = [next EXCEPT !.weight[d] = w]
    BY <1>2, <1>3, <1>4, <1>6, <2>1
  <2>3. /\ Alike(next, q) /\ q.weight[d] = w
        /\ \A e \in Dims : e # d => q.weight[e] = next.weight[e]
    BY <2>2 DEF Alike, FusePageRecords
  <2>4. \A e : F!Active(q, F!Selected(q), e) = F!Active(next, ids, e)
    BY <1>3, <2>3, AlikeActive
  <2>5. \A e \in Dims : e # d => F!Active(next, ids, e) = F!Active(fusePage, ids, e)
    BY <1>2 DEF F!Active
  <2>6. ASSUME NEW e \in Dims, F!Active(q, F!Selected(q), e) # {}
        PROVE  F!SumFunctionOnSet(q.weight[e], F!Active(q, F!Selected(q), e)) = 100
    <3>1. CASE e = d
      BY <2>1, <2>3, <2>4, <2>6, <3>1, BalancedSum
    <3>2. CASE e # d
      BY <1>2, <1>3, <2>3, <2>4, <2>5, <2>6, <3>2 DEF F!AddUp, F!Sum
    <3>3. QED
      BY <3>1, <3>2
  <2>7. F!AddUp(q)
    BY <2>6, WholeBySums
  <2>8. QED
    BY <1>4, <2>7
<1>7. QED
  BY <1>5, <1>6

\* The presets share out every dimension again.
LEMMA PresetIsWhole ==
  ASSUME NEW p \in FusePageRecords PROVE F!AddUp(F!Preset(p, F!Selected(p)))
<1>1. PICK q : q = F!Preset(p, F!Selected(p))
  OBVIOUS
<1>2. Alike(p, q)
  BY <1>1, FusePreset, FuseSelected DEF FuseKeeps, Alike
<1>3. CASE p.mode = "dominant" /\ p.dominant \in F!Selected(p)
  <2>1. q = F!Favored(p, F!Selected(p), p.dominant)
    BY <1>1, <1>3 DEF F!Preset
  <2>2. F!AddUp(q)
    BY <1>2, <1>3, <2>1, FavoredIsWhole
  <2>3. QED
    BY <1>1, <2>2
<1>4. CASE ~(p.mode = "dominant" /\ p.dominant \in F!Selected(p))
  <2>1. q = F!BalancedAll(p, F!Selected(p))
    BY <1>1, <1>4 DEF F!Preset
  <2>2. F!AddUp(q)
    BY <1>2, <2>1, BalancedIsWhole
  <2>3. QED
    BY <1>1, <2>2
<1>5. QED
  BY <1>3, <1>4

\* The list, when no more cards are in than there are slots
LEMMA ListIsWhole ==
  ASSUME FuseInv, NEW k \in fuseCalls, F!ListArrives(k),
         Cardinality(F!Selected(fusePage')) <= Slots
  PROVE  F!AddUp(fusePage')
<1>1. PICK next \in FusePageRecords :
          fusePage' = F!BalancedAll(next, F!FirstFew(F!Selected(next), Slots))
  BY FuseLoaded DEF F!ListArrives
<1>2. PICK q : q = fusePage'
  OBVIOUS
<1>3. PICK ids \in SUBSET Decked : ids = F!Selected(next)
  BY FuseSelected
<1>4. PICK few \in SUBSET Decked : few = F!FirstFew(ids, Slots)
  BY FuseFew
<1>5. Alike(next, q)
  BY <1>1, <1>2, <1>3, <1>4, FuseBalancedAll DEF FuseKeeps, Alike
<1>6. F!Selected(q) = ids
  BY <1>3, <1>5, AlikeActive
<1>7. \A c \in ids : Cardinality({o \in ids : o < c}) < Slots
  <2>1. SUFFICES ASSUME NEW c \in ids PROVE Cardinality({o \in ids : o < c}) < Slots
    OBVIOUS
  <2>2. /\ IsFiniteSet(ids) /\ Cardinality(ids) \in Nat
        /\ Cardinality(ids \ {c}) = Cardinality(ids) - 1
    <3>1. IsFiniteSet(ids)
      BY DeckIsNumbered, FS_Subset
    <3>2. QED
      BY <3>1, FS_CardinalityType, FS_RemoveElement
  <2>3. {o \in ids : o < c} \in SUBSET (ids \ {c})
    BY DeckIsNumbered
  <2>4. IsFiniteSet(ids \ {c})
    BY <2>2, FS_Subset
  <2>5. /\ Cardinality({o \in ids : o < c}) \in Nat
        /\ Cardinality({o \in ids : o < c}) <= Cardinality(ids \ {c})
    BY <2>3, <2>4, SmallerSets
  <2>6. Cardinality(ids) <= Slots /\ Slots \in Nat
    BY <1>2, <1>6, DeckIsNumbered
  <2>7. QED
    BY <2>2, <2>5, <2>6
<1>8. few = ids
  BY <1>4, <1>7, Few
<1>9. q.weight = F!BalancedAll(next, F!Selected(next)).weight
  BY <1>1, <1>2, <1>3, <1>4, <1>8
<1>10. F!AddUp(q)
  BY <1>5, <1>9, BalancedIsWhole
<1>11. QED
  BY <1>2, <1>10

\* What a step must keep when nothing excepted happens
StaysWhole ==
    /\ F!AddUp(fusePage) /\ fusePage'.cards = fusePage.cards
    /\ Cardinality(F!Selected(fusePage')) <= Slots
    /\ fusePage.mode = "dominant" => fusePage.dominant \in F!Selected(fusePage)
    => F!AddUp(fusePage')

\* A closed bench has no dimension that a card takes part in.
LEMMA WholeLeave == F!Leave => StaysWhole
<1>1. SUFFICES ASSUME F!Leave PROVE F!AddUp(fusePage')
  BY DEF StaysWhole
<1>2. PICK q : q = fusePage'
  OBVIOUS
<1>3. \A d : F!Active(q, F!Selected(q), d) = {}
  BY <1>1, <1>2 DEF F!Leave, F!Closed, F!Active, F!Selected
<1>4. QED
  BY <1>2, <1>3, WholeBySums

LEMMA WholeStep == ASSUME FuseInv, F!Next PROVE StaysWhole
<1>1. SUFFICES ASSUME F!AddUp(fusePage), fusePage'.cards = fusePage.cards,
                      Cardinality(F!Selected(fusePage')) <= Slots,
                      fusePage.mode = "dominant" => fusePage.dominant \in F!Selected(fusePage)
               PROVE  F!AddUp(fusePage')
  BY DEF StaysWhole
<1>2. fusePage \in FusePageRecords /\ F!Selected(fusePage) \in SUBSET Decked
  BY FuseSelected DEF FuseInv
<1>3. PICK q : q = fusePage'
  OBVIOUS
<1>4. CASE Alike(fusePage, q) /\ q.weight = fusePage.weight
  BY <1>1, <1>3, <1>4, WeightsKept
<1>5. ASSUME NEW p \in Projects, NEW asked \in Asked, F!Visit(p, asked)
      PROVE  Alike(fusePage, q) /\ q.weight = fusePage.weight
  BY <1>2, <1>3, <1>5 DEF F!Visit, Alike, FusePageRecords
<1>6. CASE F!Leave
  BY <1>1, <1>6, WholeLeave DEF StaysWhole
<1>7. CASE F!JobEnds \/ F!Submit
  BY <1>2, <1>3, <1>4, <1>7 DEF F!JobEnds, F!Submit, Alike, FusePageRecords
<1>8. ASSUME NEW c \in Decked, F!ToggleCard(c) PROVE F!AddUp(q)
  BY <1>3, <1>8, FuseToggleCard, PresetIsWhole
<1>9. CASE F!EvenAll
  <2>1. PICK b \in FusePageRecords : b = F!BalancedAll(fusePage, F!Selected(fusePage))
                                     /\ FuseKeeps(fusePage, b)
    BY <1>2, FuseBalancedAll
  <2>2. q = [b EXCEPT !.mode = "balanced"]
    BY <1>3, <1>9, <2>1 DEF F!EvenAll, F!Does
  <2>3. Alike(fusePage, q) /\ q.weight = b.weight
    BY <2>1, <2>2 DEF Alike, FuseKeeps, FusePageRecords
  <2>4. F!AddUp(q)
    BY <1>2, <2>1, <2>3, BalancedIsWhole
  <2>5. QED
    BY <1>3, <2>4
<1>10. ASSUME NEW c \in Decked, F!FavorCard(c) PROVE F!AddUp(q)
  <2>1. PICK b \in FusePageRecords : b = F!Favored(fusePage, F!Selected(fusePage), c)
                                     /\ FuseKeeps(fusePage, b)
    BY <1>2, FuseFavored
  <2>2. q = [b EXCEPT !.mode = "dominant", !.dominant = c] /\ c \in F!Selected(fusePage)
    BY <1>3, <1>10, <2>1 DEF F!FavorCard, F!Offered, F!Does
  <2>3. Alike(fusePage, q) /\ q.weight = b.weight
    BY <2>1, <2>2 DEF Alike, FuseKeeps, FusePageRecords
  <2>4. QED
    BY <1>2, <2>1, <2>2, <2>3, FavoredIsWhole
<1>11. CASE F!Gesture
  <2>1. ASSUME NEW c \in Decked, NEW d \in Dims, F!ToggleDim(c, d) PROVE F!AddUp(q)
    BY <1>1, <1>3, <2>1, BoxIsWhole
  <2>2. ASSUME NEW c \in Decked, NEW d \in Dims, NEW raw \in Raw, F!SetWeight(c, d, raw)
        PROVE  F!AddUp(q)
    BY <1>1, <1>3, <2>2, SliderIsWhole
  <2>3. QED
    BY <1>3, <1>7, <1>8, <1>9, <1>10, <1>11, <2>1, <2>2
       DEF F!Gesture, F!ClickSlot, F!ClickDeck, F!SlotDrop
<1>12. ASSUME NEW k \in fuseCalls, F!Arrive(k) PROVE F!AddUp(q)
  <2>1. CASE F!ListArrives(k)
    BY <1>1, <1>3, <2>1, ListIsWhole
  <2>2. CASE F!ResultArrives(k)
    BY <1>1, <1>2, <1>3, <1>4, <2>2 DEF F!ResultArrives, Alike, FusePageRecords
  <2>3. CASE F!FuseArrives(k)
    BY <1>2, <1>3, <1>4, <2>3 DEF F!FuseArrives, Alike, FusePageRecords
  <2>4. CASE F!CallFails(k)
    BY <1>2, <1>3, <1>4, <2>4 DEF F!CallFails, Alike, FusePageRecords
  <2>5. QED
    BY <1>12, <2>1, <2>2, <2>3, <2>4 DEF F!Arrive
<1>13. ASSUME NEW k \in fuseCalls, F!Serve(k) \/ F!Drop(k)
       PROVE  Alike(fusePage, q) /\ q.weight = fusePage.weight
  BY <1>3, <1>13 DEF F!Serve, F!ServeList, F!ServeFuse, F!Drop, Alike
<1>14. QED
  BY <1>3, <1>4, <1>5, <1>6, <1>7, <1>11, <1>12, <1>13 DEF F!Next

----------------------------------------------------------------------------
(* The shelf of the extraction bench *)

\* The bench is a project's, or closed, and then nobody waits for an answer.
ShelfHome(p, calls) == p.project \in Projects \/ (p = E!Closed /\ \A k \in calls : ~k.live)

\* An answer shows samples once, and none that is not stored.
ShelfCall(k) == /\ k.project \in Projects /\ k.got \in [Assets -> 0..1]
                /\ \A a \in Assets : k.got[a] > 0 => assets[a] # "free"

\* A sample that the shelf shows twice is in no answer to an upload any more.
ShelfTwice(p, calls) ==
    \A a \in Assets : p.listed[a] = 2 =>
        \A k \in calls : k.live /\ k.kind = "upload" => k.got[a] = 0

ShelfInv ==
    /\ assets \in [Assets -> Projects \union {"free"}]
    /\ ShelfHome(extractPage, extractCalls)
    /\ \A k \in extractCalls : ShelfCall(k)
    /\ extractPage.listed \in [Assets -> 0..2]
    /\ \A a \in Assets : extractPage.listed[a] > 0 => assets[a] # "free"
    /\ ShelfTwice(extractPage, extractCalls)

\* What is stored stays stored.
ShelfKept == /\ assets' \in [Assets -> Projects \union {"free"}]
             /\ \A a \in Assets : assets[a] # "free" => assets'[a] # "free"

LEMMA ShelfSame == ASSUME ShelfInv, assets' = assets PROVE ShelfKept
BY DEF ShelfInv, ShelfKept

LEMMA ShelfInit == E!Init => ShelfInv
<1> SUFFICES ASSUME E!Init PROVE ShelfInv
  OBVIOUS
<1>1. assets \in [Assets -> Projects \union {"free"}] /\ extractCalls = {}
      /\ extractPage = E!Closed
  BY DEF E!Init
<1>2. extractPage.listed = [a \in Assets |-> 0]
  BY <1>1 DEF E!Closed, E!Nothing
<1>3. QED
  BY <1>1, <1>2 DEF ShelfInv, ShelfHome, ShelfTwice

\* The shelf is what it was; calls go, or come that show nothing.
LEMMA ShelfQuiet ==
  ASSUME ShelfInv, ShelfKept, extractPage'.listed = extractPage.listed,
         extractPage'.project \in Projects \/ extractPage' = extractPage,
         \A k \in extractCalls' : \/ k \in extractCalls
                                  \/ /\ k.project \in Projects /\ k.got = E!Nothing
                                     /\ extractPage'.project \in Projects
  PROVE  ShelfInv'
<1>1. ASSUME NEW k \in extractCalls' PROVE ShelfCall(k)'
  <2>1. CASE k \in extractCalls
    BY <2>1 DEF ShelfInv, ShelfCall, ShelfKept
  <2>2. CASE k.project \in Projects /\ k.got = E!Nothing
    BY <2>2 DEF ShelfCall, E!Nothing
  <2>3. QED
    BY <1>1, <2>1, <2>2
<1>2. ShelfTwice(extractPage', extractCalls')
  BY DEF ShelfInv, ShelfTwice, E!Nothing
<1>3. ShelfHome(extractPage', extractCalls')
  BY DEF ShelfInv, ShelfHome
<1>4. QED
  BY <1>1, <1>2, <1>3 DEF ShelfInv, ShelfKept

LEMMA ShelfGone ==
  ASSUME ShelfInv, UNCHANGED <<extractPage, assets>>, extractCalls' \subseteq extractCalls
  PROVE  ShelfInv'
BY ShelfSame, ShelfQuiet

LEMMA ShelfLeave == ASSUME ShelfInv, ExtractCallsOK, E!Leave PROVE ShelfInv'
<1>1. extractPage' = E!Closed /\ assets' = assets
  BY DEF E!Leave
<1>2. \A a \in Assets : E!Closed.listed[a] = 0
  BY DEF E!Closed, E!Nothing
<1>3. E!Closed.listed \in [Assets -> 0..2]
  BY DEF E!Closed, E!Nothing
<1>4. ASSUME NEW k \in extractCalls' PROVE ~k.live /\ ShelfCall(k)'
  <2>1. CASE k \in extractCalls /\ ~k.live
    BY <1>1, <2>1 DEF ShelfInv, ShelfCall
  <2>2. ASSUME NEW c \in extractCalls, k = [c EXCEPT !.live = FALSE]
        PROVE  ~k.live /\ ShelfCall(k)'
    <3>1. c \in ExtractCallRecords /\ ShelfCall(c)
      BY <2>2 DEF ExtractCallsOK, ShelfInv
    <3>2. k.project = c.project /\ k.got = c.got /\ ~k.live
      BY <2>2, <3>1 DEF ExtractCallRecords
    <3>3. QED
      BY <1>1, <3>1, <3>2 DEF ShelfCall
  <2>3. QED
    BY <1>4, <2>1, <2>2 DEF E!Leave, E!Orphaned
<1>5. QED
  BY <1>1, <1>2, <1>3, <1>4 DEF ShelfInv, ShelfHome, ShelfTwice

\* An answer that is not about the shelf, a gesture, a poll: the calls that go or come.
LEMMA ShelfLook ==
  ASSUME ShelfInv, ExtractInv,
         \/ E!Gesture \/ E!Watch
         \/ \E p \in Projects : E!Visit(p)
         \/ \E k \in extractCalls : E!ExtractArrives(k) \/ E!ResultArrives(k) \/ E!CallFails(k)
  PROVE  ShelfInv'
<1>1. extractPage \in ExtractPageRecords
  BY DEF ExtractInv, ExtractPageOK
<1>2. extractPage.project \notin Projects => /\ extractPage = E!Closed
                                            /\ \A k \in extractCalls : ~k.live
  BY DEF ShelfInv, ShelfHome
<1>3. extractPage.project \in Projects \/ \E p \in Projects : E!Visit(p)
  <2>1. SUFFICES ASSUME extractPage = E!Closed, \A k \in extractCalls : ~k.live,
                        ~\E p \in Projects : E!Visit(p)
                 PROVE  FALSE
    BY <1>2
  <2>2. ~E!Mounted /\ ~E!Bench(extractPage) /\ ~extractPage.polling
    BY <2>1 DEF E!Closed, E!Mounted, E!Bench
  <2>3. ~E!Gesture
    BY <2>2 DEF E!Gesture, E!Reread, E!NextCard, E!Upload, E!UploadForm, E!StartByKey,
       E!StartByButton, E!StartExtract, E!ChooseFile, E!Toggle, E!Does
  <2>4. ~E!Watch
    BY <2>2 DEF E!Watch, E!Polled, E!PollsLost
  <2>5. QED
    BY <2>1, <2>3, <2>4 DEF E!ExtractArrives, E!ResultArrives, E!CallFails, E!Answered, E!Failed
<1>4. ASSUME NEW kind, NEW picked
      PROVE  /\ E!Call(kind, picked).project = extractPage.project
             /\ E!Call(kind, picked).got = E!Nothing
  BY DEF E!Call
<1>5. CASE \E p \in Projects : E!Visit(p)
  <2>1. PICK p \in Projects : E!Visit(p)
    BY <1>5
  <2>2. PICK k : k = [E!Load EXCEPT !.project = p]
    OBVIOUS
  <2>3. k.project = p /\ k.got = E!Nothing
    BY <2>2 DEF E!Load, E!Call
  <2>4. /\ extractPage'.listed = extractPage.listed /\ extractPage'.project = p
        /\ assets' = assets /\ extractCalls' = extractCalls \union {k}
    BY <1>1, <2>1, <2>2 DEF E!Visit, ExtractPageRecords
  <2>5. QED
    BY <2>3, <2>4, ShelfSame, ShelfQuiet
<1>6. CASE extractPage.project \in Projects /\ ~\E p \in Projects : E!Visit(p)
  <2>1. /\ extractPage'.listed = extractPage.listed
        /\ extractPage'.project = extractPage.project /\ assets' = assets
    <3>1. CASE E!Gesture
      BY <1>1, <3>1 DEF E!Gesture, E!Reread, E!NextCard, E!Upload, E!StartByKey,
         E!StartByButton, E!StartExtract, E!ChooseFile, E!Toggle, E!Does, ExtractPageRecords
    <3>2. CASE E!Watch
      BY <1>1, <3>2 DEF E!Watch, E!Polled, E!PollsLost, ExtractPageRecords
    <3>3. ASSUME NEW k \in extractCalls, E!ExtractArrives(k)
          PROVE  /\ extractPage'.listed = extractPage.listed
                 /\ extractPage'.project = extractPage.project /\ assets' = assets
      BY <1>1, <3>3 DEF E!ExtractArrives, E!Started, ExtractPageRecords
    <3>4. ASSUME NEW k \in extractCalls, E!ResultArrives(k) \/ E!CallFails(k)
          PROVE  /\ extractPage'.listed = extractPage.listed
                 /\ extractPage'.project = extractPage.project /\ assets' = assets
      BY <1>1, <3>4 DEF E!ResultArrives, E!CallFails, ExtractPageRecords
    <3>5. QED
      BY <1>6, <3>1, <3>2, <3>3, <3>4
  <2>2. \A k \in extractCalls' : \/ k \in extractCalls
                                 \/ \E kind, picked : k = E!Call(kind, picked)
    <3>1. CASE E!Gesture
      BY <3>1 DEF E!Gesture, E!Reread, E!NextCard, E!Upload, E!StartByKey,
         E!StartByButton, E!StartExtract, E!ChooseFile, E!Toggle, E!Does, E!Load
    <3>2. CASE E!Watch
      BY <3>2 DEF E!Watch, E!Polled, E!PollsLost
    <3>3. CASE \E k \in extractCalls : E!ExtractArrives(k) \/ E!ResultArrives(k) \/ E!CallFails(k)
      BY <3>3 DEF E!ExtractArrives, E!ResultArrives, E!CallFails
    <3>4. QED
      BY <1>6, <3>1, <3>2, <3>3
  <2>3. QED
    BY <1>4, <1>6, <2>1, <2>2, ShelfSame, ShelfQuiet
<1>7. QED
  BY <1>3, <1>5, <1>6

LEMMA ShelfJobEnds == ASSUME ShelfInv, NEW j \in Jobs, E!JobEnds(j) PROVE ShelfInv'
BY ShelfGone DEF E!JobEnds

LEMMA ShelfDrop == ASSUME ShelfInv, ExtractInv, NEW k \in extractCalls, E!Drop(k) PROVE ShelfInv'
<1>1. PICK n : n = [k EXCEPT !.state = "error"]
  OBVIOUS
<1>2. k \in ExtractCallRecords
  BY DEF ExtractInv, ExtractCallsOK
<1>3. n.project = k.project /\ n.got = k.got /\ n.live = k.live /\ n.kind = k.kind
  BY <1>1, <1>2 DEF ExtractCallRecords
<1>4. /\ extractCalls' = (extractCalls \ {k}) \union {n} /\ extractPage' = extractPage
      /\ assets' = assets
  BY <1>1 DEF E!Drop, E!Lose
<1>5. \A c \in extractCalls' : ShelfCall(c)'
  BY <1>3, <1>4 DEF ShelfInv, ShelfCall
<1>6. ShelfTwice(extractPage', extractCalls')
  BY <1>3, <1>4 DEF ShelfInv, ShelfTwice
<1>7. ShelfHome(extractPage', extractCalls')
  BY <1>3, <1>4 DEF ShelfInv, ShelfHome
<1>8. QED
  BY <1>4, <1>5, <1>6, <1>7 DEF ShelfInv

LEMMA ShelfServe == ASSUME ShelfInv, ExtractInv, NEW k \in extractCalls, E!Serve(k) PROVE ShelfInv'
<1>1. k \in ExtractCallRecords /\ ShelfCall(k)
  BY DEF ExtractInv, ExtractCallsOK, ShelfInv
<1>2. CASE E!ServeLoad(k)
  <2>1. PICK got : got = [a \in Assets |-> IF assets[a] = k.project THEN 1 ELSE 0]
    OBVIOUS
  <2>2. got \in [Assets -> 0..1] /\ \A a \in Assets : got[a] > 0 => assets[a] # "free"
    BY <1>1, <2>1, FreeIsNoProject DEF ShelfCall
  <2>3. PICK n : n = [k EXCEPT !.state = "ok", !.got = got]
    OBVIOUS
  <2>4. n.project = k.project /\ n.got = got /\ n.live = k.live /\ n.kind = k.kind
    BY <1>1, <2>3 DEF ExtractCallRecords
  <2>5. /\ extractCalls' \subseteq extractCalls \union {n} /\ extractPage' = extractPage
        /\ assets' = assets /\ k.kind # "upload" /\ (n \in extractCalls' => n \in extractCalls \/ k.live)
    BY <1>2, <2>1, <2>3 DEF E!ServeLoad, E!Reply
  <2>6. \A c \in extractCalls' : ShelfCall(c)'
    BY <1>1, <2>2, <2>4, <2>5 DEF ShelfInv, ShelfCall
  <2>7. ShelfTwice(extractPage', extractCalls') /\ ShelfHome(extractPage', extractCalls')
    BY <2>4, <2>5 DEF ShelfInv, ShelfTwice, ShelfHome
  <2>8. QED
    BY <2>5, <2>6, <2>7 DEF ShelfInv
<1>3. CASE E!ServeUpload(k)
  <2>1. PICK b \in Assets : /\ assets[b] = "free" /\ assets' = [assets EXCEPT ![b] = k.project]
                            /\ E!Reply(k, "ok", [E!Nothing EXCEPT ![b] = 1])
    BY <1>3 DEF E!ServeUpload, E!AssetsOf
  <2>2. ShelfKept /\ assets'[b] # "free"
    BY <1>1, <2>1, FreeIsNoProject DEF ShelfInv, ShelfKept, ShelfCall
  <2>3. PICK got : got = [E!Nothing EXCEPT ![b] = 1]
    OBVIOUS
  <2>4. got \in [Assets -> 0..1] /\ \A a \in Assets : a # b => got[a] = 0
    BY <2>3 DEF E!Nothing
  <2>5. PICK n : n = [k EXCEPT !.state = "ok", !.got = got]
    OBVIOUS
  <2>6. n.project = k.project /\ n.got = got /\ n.live = k.live /\ n.kind = k.kind
    BY <1>1, <2>5 DEF ExtractCallRecords
  <2>7. /\ extractCalls' \subseteq extractCalls \union {n} /\ extractPage' = extractPage
        /\ (n \in extractCalls' => n \in extractCalls \/ k.live)
    BY <1>3, <2>1, <2>3, <2>5 DEF E!ServeUpload, E!Reply
  <2>8. ShelfCall(n)'
    BY <1>1, <2>2, <2>4, <2>6 DEF ShelfCall
  <2>9. \A c \in extractCalls : ShelfCall(c)'
    BY <2>2 DEF ShelfInv, ShelfCall, ShelfKept
  <2>10. extractPage.listed[b] # 2
    BY <2>1 DEF ShelfInv
  <2>11. ShelfTwice(extractPage', extractCalls')
    BY <2>4, <2>6, <2>7, <2>10 DEF ShelfInv, ShelfTwice
  <2>12. ShelfHome(extractPage', extractCalls')
    BY <2>6, <2>7 DEF ShelfInv, ShelfHome
  <2>13. QED
    BY <2>2, <2>7, <2>8, <2>9, <2>11, <2>12 DEF ShelfInv, ShelfKept
<1>4. CASE E!ServeExtract(k)
  <2>1. PICK j \in Jobs :
            extractCalls' = (extractCalls \ {k}) \union
                IF k.live THEN {[k EXCEPT !.state = "ok", !.kind = "started", !.picked = {j}]} ELSE {}
    BY <1>4 DEF E!ServeExtract
  <2>2. PICK n : n = [k EXCEPT !.state = "ok", !.kind = "started", !.picked = {j}]
    OBVIOUS
  <2>3. n.project = k.project /\ n.got = k.got /\ n.live = k.live /\ n.kind # "upload"
    BY <1>1, <2>2 DEF ExtractCallRecords
  <2>4. /\ extractCalls' \subseteq extractCalls \union {n} /\ extractPage' = extractPage
        /\ assets' = assets /\ (n \in extractCalls' => n \in extractCalls \/ k.live)
    BY <1>4, <2>1, <2>2 DEF E!ServeExtract
  <2>5. \A c \in extractCalls' : ShelfCall(c)'
    BY <1>1, <2>3, <2>4 DEF ShelfInv, ShelfCall
  <2>6. ShelfTwice(extractPage', extractCalls') /\ ShelfHome(extractPage', extractCalls')
    BY <2>3, <2>4 DEF ShelfInv, ShelfTwice, ShelfHome
  <2>7. QED
    BY <2>4, <2>5, <2>6 DEF ShelfInv
<1>5. QED
  BY <1>2, <1>3, <1>4 DEF E!Serve

LEMMA ShelfLoadArrives ==
  ASSUME ShelfInv, ExtractInv, NEW k \in extractCalls, E!LoadArrives(k) PROVE ShelfInv'
<1>1. extractPage \in ExtractPageRecords /\ ShelfCall(k) /\ extractPage.project \in Projects
  BY DEF ExtractInv, ExtractPageOK, ShelfInv, ShelfHome, E!LoadArrives, E!Answered
<1>2. PICK got \in [Assets -> 0..1] : got = k.got
  BY <1>1 DEF ShelfCall
<1>3. /\ extractPage'.listed = got /\ extractPage'.project = extractPage.project
      /\ extractCalls' = extractCalls \ {k} /\ assets' = assets
  BY <1>1, <1>2 DEF E!LoadArrives, ExtractPageRecords
<1>4. \A a \in Assets : got[a] \in 0..2 /\ got[a] # 2 /\ (got[a] > 0 => assets[a] # "free")
  <2>1. \A a \in Assets : got[a] \in 0..1 /\ (got[a] > 0 => assets[a] # "free")
    BY <1>1, <1>2 DEF ShelfCall
  <2>2. QED
    BY <2>1
<1>5. extractPage'.listed \in [Assets -> 0..2]
  BY <1>2, <1>3, <1>4
<1>6. ShelfTwice(extractPage', extractCalls') /\ ShelfHome(extractPage', extractCalls')
  BY <1>1, <1>3, <1>4 DEF ShelfTwice, ShelfHome
<1>7. \A c \in extractCalls' : ShelfCall(c)'
  BY <1>3 DEF ShelfInv, ShelfCall
<1>8. QED
  BY <1>3, <1>4, <1>5, <1>6, <1>7 DEF ShelfInv

LEMMA ShelfUploadArrives ==
  ASSUME ShelfInv, ExtractInv, NEW k \in extractCalls, E!UploadArrives(k) PROVE ShelfInv'
<1>1. /\ extractPage \in ExtractPageRecords /\ ShelfCall(k) /\ extractPage.project \in Projects
      /\ k.live /\ k.kind = "upload"
  BY DEF ExtractInv, ExtractPageOK, ShelfInv, ShelfHome, E!UploadArrives, E!Answered
<1>2. PICK got \in [Assets -> 0..1] : got = k.got
  BY <1>1 DEF ShelfCall
<1>3. PICK old \in [Assets -> 0..2] : old = extractPage.listed
  BY DEF ShelfInv
<1>4. PICK listed : listed = [a \in Assets |-> old[a] + got[a]]
  OBVIOUS
<1>5. /\ extractPage'.listed = listed /\ extractPage'.project = extractPage.project
      /\ extractCalls' = extractCalls \ {k} /\ assets' = assets
  BY <1>1, <1>2, <1>3, <1>4 DEF E!UploadArrives, ExtractPageRecords
<1>6. ASSUME NEW a \in Assets
      PROVE  listed[a] \in 0..2 /\ (listed[a] > 0 => assets[a] # "free")
  <2>1. old[a] \in 0..2 /\ got[a] \in 0..1 /\ listed[a] = old[a] + got[a]
    BY <1>4
  <2>2. (old[a] > 0 => assets[a] # "free") /\ (got[a] > 0 => assets[a] # "free")
    BY <1>1, <1>2, <1>3 DEF ShelfInv, ShelfCall
  <2>3. old[a] = 2 => got[a] = 0
    BY <1>1, <1>2, <1>3 DEF ShelfInv, ShelfTwice
  <2>4. QED
    BY <2>1, <2>2, <2>3
<1>7. listed \in [Assets -> 0..2]
  BY <1>4, <1>6
<1>8. \A c \in extractCalls' : ~(c.live /\ c.kind = "upload")
  BY <1>1, <1>5 DEF ExtractInv, ExtractLocked, ExtractPending
<1>9. ShelfTwice(extractPage', extractCalls') /\ ShelfHome(extractPage', extractCalls')
  BY <1>1, <1>5, <1>8 DEF ShelfTwice, ShelfHome
<1>10. \A c \in extractCalls' : ShelfCall(c)'
  BY <1>5 DEF ShelfInv, ShelfCall
<1>11. QED
  BY <1>5, <1>6, <1>7, <1>9, <1>10 DEF ShelfInv

LEMMA ShelfStep == ASSUME ShelfInv, ExtractInv, E!Next PROVE ShelfInv'
<1>1. CASE E!Gesture \/ E!Watch \/ \E p \in Projects : E!Visit(p)
  BY <1>1, ShelfLook
<1>2. CASE E!Leave
  BY <1>2, ShelfLeave DEF ExtractInv
<1>3. CASE \E j \in Jobs : E!JobEnds(j)
  BY <1>3, ShelfJobEnds
<1>4. ASSUME NEW k \in extractCalls, E!Serve(k) \/ E!Arrive(k) \/ E!Drop(k) PROVE ShelfInv'
  BY <1>4, ShelfServe, ShelfDrop, ShelfLoadArrives, ShelfUploadArrives, ShelfLook DEF E!Arrive
<1>5. QED
  BY <1>1, <1>2, <1>3, <1>4 DEF E!Next

LEMMA ShelfIsEnough == ExtractInv /\ ShelfInv => E!TypeOK
<1> SUFFICES ASSUME ExtractInv, ShelfInv PROVE E!TypeOK
  OBVIOUS
<1>2. extractPage \in ExtractPageRecords
  BY DEF ExtractInv, ExtractPageOK
<1>3. PICK listed \in [Assets -> 0..2] : listed = extractPage.listed
  BY DEF ShelfInv
<1>4. extractPage \in [project: Projects \union {NoProject}, loaded: BOOLEAN, broken: BOOLEAN,
         listed: [Assets -> 0..2], selected: SUBSET Assets, file: BOOLEAN, busy: BOOLEAN,
         job: Jobs \union {NoJob}, active: BOOLEAN, polling: BOOLEAN, lost: BOOLEAN,
         result: BOOLEAN]
  BY <1>2, <1>3 DEF ExtractPageRecords
<1>5. assets \in [Assets -> Projects \union {"free"}]
  BY DEF ShelfInv
<1>6. extracting \in [Jobs -> {"free", "running", "done", "failed"}]
  BY DEF ExtractInv
<1>7. QED
  BY <1>4, <1>5, <1>6 DEF E!TypeOK
=============================================================================

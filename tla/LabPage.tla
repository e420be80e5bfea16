------------------------------ MODULE LabPage ------------------------------
(***************************************************************************)
(* The card laboratory (web/src/pages/Lab.tsx): the sliders and the name   *)
(* of a style card, its versions, and the audit whose suggestions come     *)
(* back into the sliders (pages/Audit.tsx, applyEdits) in the state of the *)
(* browser's history entry.                                                *)
(*                                                                         *)
(* The name and the levels of the form are one value: as loaded with the   *)
(* card that is shown, typed over, or suggested.  CardVersions.tla models  *)
(* what the server makes of a save.  Texts and the model's name are left   *)
(* out.                                                                    *)
(***************************************************************************)
EXTENDS Calls

CONSTANTS Cards, NoCard, MaxVersion   \* bound: versions of a card

VARIABLES
    page,
    history,    \* of the entry of a card's page in the browser's history: does it carry
                \* suggestions, and how often were they loaded since the audit gave them
    versions,   \* the server: the current version of a card
    reports     \* the cards with an audit report

vars == <<page, history, versions, reports, calls, moves>>

Closed == [card |-> NoCard, carries |-> FALSE, shown |-> NoCard, version |-> 0, max |-> 1,
           levels |-> "loaded", applied |-> FALSE, busy |-> FALSE, auditing |-> NoCard,
           sampling |-> FALSE, asking |-> {}]

Mounted == page.card # NoCard

\* asking holds the call that goes out if the author agrees. The dialog covers the page; the
\* browser's buttons, the palette and the keyboard go on.
Free == Mounted /\ page.asking = {}

\* The form is rendered once a card is shown.
Form == Free /\ page.shown # NoCard
Dirty == page.shown # NoCard /\ page.levels # "loaded"

Call(kind, c, v) == [kind |-> kind, card |-> c, version |-> v,
                     state |-> "sent", got |-> 0, live |-> TRUE]

Init ==
    /\ page = Closed
    /\ history = [c \in Cards |-> [edits |-> FALSE, times |-> 0]]
    /\ versions = [c \in Cards |-> 1]
    /\ reports \in {{}, Cards}   \* bound: every card was audited before or none
    /\ calls = {} /\ moves = 0

----------------------------------------------------------------------------
(* Suggestions *)

\* Mutation of Cleared: the history entry keeps its state.
MKept(h, c) == h

\* navigate(location.pathname, { replace: true, state: null })
Cleared(h, c) == [h EXCEPT ![c].edits = FALSE]

\* The effect that looks for suggestions, once a card is shown or the location changes.
Suggested(p) == p.shown # NoCard /\ ~p.applied /\ p.carries

Settled(p, h) ==
    IF Suggested(p)
    THEN /\ page' = [p EXCEPT !.levels = "suggested", !.applied = TRUE, !.carries = FALSE]
         /\ history' = Cleared([h EXCEPT ![p.card].times = @ + 1], p.card)
    ELSE page' = p /\ history' = h

----------------------------------------------------------------------------
(* The author *)

\* A new entry of the history. The palette leads from one card's page to another's without
\* unmounting it: what is shown stays until the answer is there.
Visit(c) ==
    /\ c # page.card
    /\ Move
    /\ page' = [page EXCEPT !.card = c, !.carries = FALSE]
    /\ calls' = calls \union {Call("load", c, 0)}
    /\ UNCHANGED <<history, versions, reports>>

\* applyEdits of the report
FromReport(c) ==
    /\ ~Mounted /\ c \in reports
    /\ Move
    /\ page' = [Closed EXCEPT !.card = c, !.carries = TRUE]
    /\ history' = [history EXCEPT ![c] = [edits |-> TRUE, times |-> 0]]
    /\ calls' = calls \union {Call("load", c, 0)}
    /\ UNCHANGED <<versions, reports>>

\* The browser's back and forward
Return(c) ==
    /\ c # page.card
    /\ Move
    /\ Settled([page EXCEPT !.card = c, !.carries = history[c].edits], history)
    /\ calls' = calls \union {Call("load", c, 0)}
    /\ UNCHANGED <<versions, reports>>

\* The browser's reload: React starts anew, the history does not.
Reload ==
    /\ Mounted
    /\ Move
    /\ page' = [Closed EXCEPT !.card = page.card, !.carries = history[page.card].edits]
    /\ calls' = Orphaned \union {Call("load", page.card, 0)}
    /\ UNCHANGED <<history, versions, reports>>

Leave ==
    /\ Mounted
    /\ page' = Closed
    /\ calls' = Orphaned
    /\ UNCHANGED <<history, versions, reports>>

\* The button of a page whose card could not be read
Retry ==
    /\ Free /\ page.shown = NoCard
    /\ ~ \E k \in calls : k.live
    /\ Move
    /\ calls' = calls \union {Call("load", page.card, 0)}
    /\ UNCHANGED <<page, history, versions, reports>>

\* setLevel, or the name's input
Type ==
    /\ Form /\ page.levels # "typed"
    /\ Move
    /\ page' = [page EXCEPT !.levels = "typed"]
    /\ UNCHANGED <<history, versions, reports, calls>>

\* The last version is read as the current one.
ReadVersion(v) == IF v = page.max THEN Call("current", page.card, 0)
                  ELSE Call("version", page.card, v)

\* The row of versions
Chip(v) == Form /\ v \in 1..page.max

\* onSelectVersion, which asks first when something would be lost, and reads the version of
\* the card that was there when it was clicked
SelectVersion(v) ==
    /\ Chip(v)
    /\ Move
    /\ IF Dirty THEN page' = [page EXCEPT !.asking = {ReadVersion(v)}] /\ UNCHANGED calls
       ELSE calls' = calls \union {ReadVersion(v)} /\ UNCHANGED page
    /\ UNCHANGED <<history, versions, reports>>

AnswerSwitch(agreed) ==
    /\ page.asking # {}
    /\ page' = [page EXCEPT !.asking = {}]
    /\ calls' = IF agreed THEN calls \union page.asking ELSE calls
    /\ UNCHANGED <<history, versions, reports, moves>>

\* A gesture that sends one call and waits for it.
Busily(kind) ==
    /\ Mounted /\ page.shown # NoCard /\ ~page.busy
    /\ Move
    /\ page' = [page EXCEPT !.busy = TRUE]
    /\ calls' = calls \union {Call(kind, page.card, 0)}
    /\ UNCHANGED <<history, versions, reports>>

\* What is typed is saved under the address, whichever card is shown.
Save == Form /\ Busily("save")

\* Ctrl+S, a question open or not
SaveByKey == Dirty /\ Busily("save")

\* The command bar, and the form it opens
CanAudit == Form /\ page.auditing = NoCard
CanSample == Form /\ ~page.sampling

StartAudit == CanAudit /\ Busily("audit")
StartSample == CanSample /\ Busily("sample")

----------------------------------------------------------------------------
(* The server *)

ServeRead(k) ==
    /\ Waiting(k) /\ k.kind \in {"load", "current", "version"}
    /\ Reply(k, "ok", IF k.kind = "version" THEN k.version ELSE versions[k.card])
    /\ UNCHANGED <<page, history, versions, reports, moves>>

ServeSave(k) ==
    /\ Waiting(k) /\ k.kind = "save" /\ versions[k.card] < MaxVersion
    /\ versions' = [versions EXCEPT ![k.card] = @ + 1]
    /\ Reply(k, "ok", versions[k.card] + 1)
    /\ UNCHANGED <<page, history, reports, moves>>

ServeJob(k) ==
    /\ Waiting(k) /\ k.kind \in {"audit", "sample"}
    /\ Reply(k, "ok", 0)
    /\ UNCHANGED <<page, history, versions, reports, moves>>

----------------------------------------------------------------------------
(* The answers.  None is compared with the address or with what was typed by then. *)

Filled(k) == [page EXCEPT !.shown = k.card, !.version = k.got, !.levels = "loaded"]

CardArrives(k) ==
    /\ Answered(k) /\ k.kind \in {"load", "current", "version"}
    /\ Settled([Filled(k) EXCEPT !.max = IF k.kind = "load" THEN k.got ELSE @], history)
    /\ calls' = calls \ {k}
    /\ UNCHANGED <<versions, reports, moves>>

SaveArrives(k) ==
    /\ Answered(k) /\ k.kind = "save"
    /\ Settled([Filled(k) EXCEPT !.max = k.got, !.busy = FALSE], history)
    /\ calls' = calls \ {k}
    /\ UNCHANGED <<versions, reports, moves>>

JobArrives(k) ==
    /\ Answered(k) /\ k.kind \in {"audit", "sample"}
    /\ page' = [page EXCEPT !.busy = FALSE,
                            !.auditing = IF k.kind = "audit" THEN k.card ELSE @,
                            !.sampling = @ \/ k.kind = "sample"]
    /\ calls' = calls \ {k}
    /\ UNCHANGED <<history, versions, reports, moves>>

CallFails(k) ==
    /\ Failed(k)
    /\ page' = [page EXCEPT !.busy = @ /\ k.kind \notin {"save", "audit", "sample"}]
    /\ calls' = calls \ {k}
    /\ UNCHANGED <<history, versions, reports, moves>>

\* The watched job succeeds and its watch goes to the result, whatever was typed ...
AuditSucceeds ==
    /\ page.auditing # NoCard
    /\ reports' = reports \union {page.auditing}
    /\ page' = Closed
    /\ calls' = Orphaned
    /\ UNCHANGED <<history, versions, moves>>

SampleSucceeds ==
    /\ page.sampling
    /\ page' = Closed
    /\ calls' = Orphaned
    /\ UNCHANGED <<history, versions, reports, moves>>

\* ... or it ends otherwise and its button is enabled again.
JobFails ==
    /\ \/ page.auditing # NoCard /\ page' = [page EXCEPT !.auditing = NoCard]
       \/ page.sampling /\ page' = [page EXCEPT !.sampling = FALSE]
    /\ UNCHANGED <<history, versions, reports, calls, moves>>

Drop(k) == Lose(k) /\ UNCHANGED <<page, history, versions, reports>>

Gesture ==
    \/ Retry \/ Reload \/ Type \/ Save \/ SaveByKey \/ StartAudit \/ StartSample
    \/ \E v \in 1..MaxVersion : SelectVersion(v)
    \/ \E agreed \in BOOLEAN : AnswerSwitch(agreed)

Watch == AuditSucceeds \/ SampleSucceeds \/ JobFails

Serve(k) == ServeRead(k) \/ ServeSave(k) \/ ServeJob(k)

Arrive(k) == CardArrives(k) \/ SaveArrives(k) \/ JobArrives(k) \/ CallFails(k)

Next == \/ \E c \in Cards : Visit(c) \/ FromReport(c) \/ Return(c)
        \/ (Leave /\ UNCHANGED moves) \/ Gesture \/ Watch
        \/ \E k \in calls : Serve(k) \/ Arrive(k) \/ Drop(k)

Spec == Init /\ [][Next]_vars

----------------------------------------------------------------------------
Reads == [kind: {"current", "version"}, card: Cards, version: 0..MaxVersion, state: {"sent"},
          got: 0..MaxVersion, live: BOOLEAN]

TypeOK ==
    /\ page \in [card: Cards \union {NoCard}, carries: BOOLEAN, shown: Cards \union {NoCard},
                 version: 0..MaxVersion, max: 1..MaxVersion,
                 levels: {"loaded", "typed", "suggested"}, applied: BOOLEAN, busy: BOOLEAN,
                 auditing: Cards \union {NoCard}, sampling: BOOLEAN, asking: SUBSET Reads]
    /\ history \in [Cards -> [edits: BOOLEAN, times: Nat]]
    /\ versions \in [Cards -> 1..MaxVersion]
    /\ reports \subseteq Cards

\* The suggestions of an audit come into the sliders at most once: not again when the page is
\* reloaded, left and returned to, or shows another card in between, when they would undo
\* what was typed or saved since (Lab.tsx: appliedRef and the replaced history state).
SuggestionsAppliedOnce == \A c \in Cards : history[c].times <= 1
=============================================================================

------------------------------ MODULE FusePage ------------------------------
(***************************************************************************)
(* The fusion bench (web/src/pages/Fuse.tsx) and its deck drawer           *)
(* (components/CardDeckDrawer.tsx): two to Slots cards are chosen, and in  *)
(* every dimension of style the weights of the cards that take part must   *)
(* add up to 100 before a fusion job can be submitted.                     *)
(*                                                                         *)
(* A card is a number, its place in the lists of the server.  Versions,    *)
(* names, the dimension in focus and the level preview are left out.       *)
(***************************************************************************)
EXTENDS Calls, Functions

CONSTANTS Projects, NoProject,
          Cards,      \* 1..n
          Dims,       \* DIMENSION_KEYS
          Slots,      \* 4 in the code
          Decks,      \* bound: the cards a project begins with
          Asked,      \* bound: the ?cards= of the addresses that are visited
          Raw         \* bound: the values the author drags a slider to

VARIABLES
    page,
    deck        \* the server: the project of a card, "free" before

vars == <<page, deck, calls, moves>>

NoLeader == 0   \* no card leads

\* emptyDraft, for every card
Closed == [project |-> NoProject, asked |-> {}, cards |-> {}, selected |-> {},
           dims |-> [c \in Cards |-> Dims], weight |-> [d \in Dims |-> [c \in Cards |-> 0]],
           mode |-> "balanced", dominant |-> NoLeader, busy |-> FALSE, active |-> FALSE]

Mounted == page.project # NoProject

Call(kind, parents) == [kind |-> kind, project |-> page.project, asked |-> page.asked,
                        parents |-> parents, state |-> "sent", got |-> {}, live |-> TRUE]

DeckOf(p) == {c \in Cards : deck[c] = p}

\* selectedIds
Selected(p) == p.cards \intersect p.selected

Init ==
    /\ page = Closed
    /\ \E p \in Projects : deck \in {[c \in Cards |-> IF c \in S THEN p ELSE "free"] : S \in Decks}
    /\ calls = {} /\ moves = 0

----------------------------------------------------------------------------
(* The weights *)

First(S) == CHOOSE c \in S : \A other \in S : c <= other
FirstFew(S, n) == {c \in S : Cardinality({other \in S : other < c}) < n}

Active(p, ids, d) == {c \in ids : d \in p.dims[c]}

\* splitEven: the first cards get the remainder
Share(total, S, c) ==
    total \div Cardinality(S)
    + IF c \in FirstFew(S, total % Cardinality(S)) THEN 1 ELSE 0

\* balanceDimension
Balanced(p, ids, d) ==
    [c \in Cards |-> IF c \notin ids THEN p.weight[d][c]
                     ELSE IF c \in Active(p, ids, d) THEN Share(100, Active(p, ids, d), c)
                     ELSE 0]

BalancedAll(p, ids) == [p EXCEPT !.weight = [d \in Dims |-> Balanced(p, ids, d)]]

\* Mutation of Favored: the others keep what they had.
MFavoredAlone(p, ids, f) ==
    [p EXCEPT !.weight = [d \in Dims |->
        IF d \in p.dims[f] THEN [p.weight[d] EXCEPT ![f] = 70] ELSE Balanced(p, ids, d)]]

\* applyFavor: the card gets 70 and the others share 30, where it takes part.
Favored(p, ids, f) ==
    [p EXCEPT !.weight = [d \in Dims |->
        LET others == Active(p, ids \ {f}, d)
        IN  IF d \notin p.dims[f] THEN Balanced(p, ids, d)
            ELSE [c \in Cards |-> IF c = f THEN (IF others = {} THEN 100 ELSE 70)
                                  ELSE IF c \in others THEN Share(30, others, c)
                                  ELSE p.weight[d][c]]]]

\* applyPreset
Preset(p, ids) == IF p.mode = "dominant" /\ p.dominant \in ids
                  THEN Favored(p, ids, p.dominant) ELSE BalancedAll(p, ids)

\* protectLastSources: what the last source of a dimension gave falls to the first card left.
Protected(p, ids) ==
    [p EXCEPT !.dims = [c \in Cards |->
        IF ids # {} /\ c = First(ids) THEN @[c] \union {d \in Dims : Active(p, ids, d) = {}}
        ELSE @[c]]]

\* sumsFor
Sum(p, d) == SumFunctionOnSet(p.weight[d], Active(p, Selected(p), d))

WeightsOk(p) == Cardinality(Selected(p)) >= 2 /\ \A d \in Dims : Sum(p, d) = 100

----------------------------------------------------------------------------
(* The author *)

\* The sidebar names a project, the other pages add the cards to start with; the effect
\* reads the list whenever one of the two changes. Nothing that was chosen before is reset.
Visit(p, asked) ==
    /\ <<p, asked>> # <<page.project, page.asked>> /\ asked \subseteq DeckOf(p)
    /\ Move
    /\ page' = [page EXCEPT !.project = p, !.asked = asked]
    /\ calls' = calls \union {[Call("list", {}) EXCEPT !.project = p, !.asked = asked]}
    /\ UNCHANGED deck

Leave ==
    /\ Mounted
    /\ page' = Closed
    /\ calls' = Orphaned
    /\ UNCHANGED deck

\* A gesture that changes the page only.
Does(p) ==
    /\ Move
    /\ page' = p
    /\ UNCHANGED <<deck, calls>>

\* The mode and the leading card after a card is put in or taken out.
NextMode == IF page.mode = "custom" THEN "balanced" ELSE page.mode
NextDominant(c) ==
    LET others == Selected(page) \ {c}
    IN  IF c \notin page.selected THEN (IF page.dominant = NoLeader THEN c ELSE page.dominant)
        ELSE IF page.dominant # c THEN page.dominant
        ELSE IF others = {} THEN NoLeader ELSE First(others)

PutIn(c) == [page EXCEPT !.selected = @ \union {c}, !.mode = NextMode,
                         !.dominant = NextDominant(c)]
TakenOut(c) ==
    Protected([page EXCEPT !.selected = @ \ {c}, !.mode = NextMode, !.dominant = NextDominant(c)],
              Selected(page) \ {c})

ToggleCard(c) ==
    /\ c \in page.cards
    /\ c \notin page.selected => Cardinality(Selected(page)) < Slots
    /\ LET next == IF c \in page.selected THEN TakenOut(c) ELSE PutIn(c)
       IN  Does(Preset(next, Selected(next)))

\* The slots, which show the cards that are in, and the drawer, which shows all.
ClickSlot(c) == c \in Selected(page) /\ ToggleCard(c)
ClickDeck(c) == ToggleCard(c)

\* A card of the drawer let fall on a slot, whichever it is.
SlotDrop(c) == c \notin page.selected /\ ToggleCard(c)

EvenAll ==
    /\ Cardinality(Selected(page)) >= 2
    /\ Does([BalancedAll(page, Selected(page)) EXCEPT !.mode = "balanced"])

\* The buttons over the sliders
Offered(c) == c \in Selected(page) /\ Cardinality(Selected(page)) >= 2

FavorCard(c) ==
    /\ Offered(c)
    /\ Does([Favored(page, Selected(page), c) EXCEPT !.mode = "dominant", !.dominant = c])

\* The sliders of the dimension in focus
Slider(c, d) ==
    /\ c \in Active(page, Selected(page), d)
    /\ Cardinality(Active(page, Selected(page), d)) > 1

\* The slider of a card: the others share what it leaves.
SetWeight(c, d, raw) ==
    LET others == Active(page, Selected(page), d) \ {c}
    IN  /\ Slider(c, d)
        /\ Does([page EXCEPT !.mode = "custom",
                  !.weight[d] = [x \in Cards |-> IF x = c THEN raw
                                                ELSE IF x \in others THEN Share(100 - raw, others, x)
                                                ELSE @[x]]])

\* The check box of a card: the last source of a dimension stays in.
ToggleDim(c, d) ==
    LET taking == d \notin page.dims[c]
        next == [page EXCEPT !.dims[c] = IF taking THEN @ \union {d} ELSE @ \ {d}]
    IN  /\ c \in Selected(page)
        /\ taking \/ Cardinality(Active(page, Selected(page), d)) > 1
        /\ Does(IF page.mode = "dominant" /\ page.dominant # NoLeader
                THEN Favored(next, Selected(page), page.dominant)
                ELSE [next EXCEPT !.weight[d] = Balanced(next, Selected(page), d)])

\* The button of the command bar.
CanSubmit == ~page.busy /\ ~page.active /\ WeightsOk(page)

Submit ==
    /\ CanSubmit /\ Cardinality(Selected(page)) <= Slots
    /\ Move
    /\ page' = [page EXCEPT !.busy = TRUE]
    /\ calls' = calls \union {Call("fuse", Selected(page))}
    /\ UNCHANGED deck

----------------------------------------------------------------------------
(* The server and its answers *)

ServeList(k) ==
    /\ Waiting(k) /\ k.kind \in {"list", "result"}
    /\ Reply(k, "ok", DeckOf(k.project))
    /\ UNCHANGED <<page, deck, moves>>

\* handleFuse asks nothing of the parents; the job does.
ServeFuse(k) ==
    /\ Waiting(k) /\ k.kind = "fuse"
    /\ Reply(k, "ok", {})
    /\ UNCHANGED <<page, deck, moves>>

\* What the effect makes of a list: the cards asked for are put in, and the first Slots of
\* those that are in share every dimension evenly, whatever the mode says.
Loaded(k) ==
    LET next == [page EXCEPT !.cards = k.got, !.selected = @ \union k.asked]
    IN  BalancedAll(next, FirstFew(Selected(next), Slots))

ListArrives(k) ==
    /\ Answered(k) /\ k.kind = "list"
    /\ page' = Loaded(k)
    /\ calls' = calls \ {k}
    /\ UNCHANGED <<deck, moves>>

\* onFuseSucceeded: the list only grows here, and the bench keeps its weights.
ResultArrives(k) ==
    /\ Answered(k) /\ k.kind = "result"
    /\ page' = [page EXCEPT !.cards = k.got]
    /\ calls' = calls \ {k}
    /\ UNCHANGED <<deck, moves>>

FuseArrives(k) ==
    /\ Answered(k) /\ k.kind = "fuse"
    /\ page' = [page EXCEPT !.busy = FALSE, !.active = TRUE]
    /\ calls' = calls \ {k}
    /\ UNCHANGED <<deck, moves>>

CallFails(k) ==
    /\ Failed(k)
    /\ page' = [page EXCEPT !.busy = @ /\ k.kind # "fuse"]
    /\ calls' = calls \ {k}
    /\ UNCHANGED <<deck, moves>>

\* The job ends, with a new card of the project in the deck or without, and onStatus and
\* onSucceeded hear of it.
JobEnds ==
    /\ page.active
    /\ page' = [page EXCEPT !.active = FALSE]
    /\ \/ /\ \E c \in DeckOf("free") : deck' = [deck EXCEPT ![c] = page.project]
          /\ calls' = calls \union {Call("result", {})}
       \/ UNCHANGED <<deck, calls>>
    /\ UNCHANGED moves

Drop(k) == Lose(k) /\ UNCHANGED <<page, deck>>

Gesture ==
    \/ \E c \in Cards : ClickSlot(c) \/ ClickDeck(c) \/ SlotDrop(c) \/ FavorCard(c)
    \/ \E c \in Cards, d \in Dims : ToggleDim(c, d) \/ \E raw \in Raw : SetWeight(c, d, raw)
    \/ EvenAll \/ Submit

Serve(k) == ServeList(k) \/ ServeFuse(k)

Arrive(k) == ListArrives(k) \/ ResultArrives(k) \/ FuseArrives(k) \/ CallFails(k)

Next == \/ \E p \in Projects, asked \in Asked : Visit(p, asked)
        \/ (Leave /\ UNCHANGED moves) \/ Gesture \/ JobEnds
        \/ \E k \in calls : Serve(k) \/ Arrive(k) \/ Drop(k)

Spec == Init /\ [][Next]_vars

----------------------------------------------------------------------------
TypeOK ==
    /\ page \in [project: Projects \union {NoProject}, asked: SUBSET Cards,
                 cards: SUBSET Cards, selected: SUBSET Cards, dims: [Cards -> SUBSET Dims],
                 weight: [Dims -> [Cards -> 0..100]], mode: {"balanced", "dominant", "custom"},
                 dominant: Cards \union {NoLeader}, busy: BOOLEAN, active: BOOLEAN]
    /\ deck \in [Cards -> Projects \union {"free"}]

\* In every dimension some card takes part in, the shares add up to 100.
AddUp(p) == \A d \in Dims : Active(p, Selected(p), d) # {} => Sum(p, d) = 100

\* Weights that add up go on adding up, after any sequence of presets, sliders, check boxes,
\* cards put in and taken out and lists read again: the author is never left at a bench that
\* cannot be submitted and that no control explains (Fuse.tsx: weightsOk). What can break
\* them is excepted: a list that hides or shows a card which is in, more cards in than there
\* are slots, and a leading card that is not in the list.
WeightsStayWhole ==
    [][ /\ AddUp(page) /\ page'.cards = page.cards
        /\ Cardinality(Selected(page')) <= Slots
        /\ page.mode = "dominant" => page.dominant \in Selected(page)
        => AddUp(page')]_page
=============================================================================

------------------------------- MODULE Studio -------------------------------
(***************************************************************************)
(* The web client in one browser: the frame decides which page is mounted, *)
(* the pages and the dock share the author, whose moves are counted        *)
(* together, and the server answers them while the session is valid.       *)
(*                                                                         *)
(* Whatever changes the address unmounts the page, which drops the answers *)
(* it waits for; the server carries its calls out all the same.  A call    *)
(* that finds no session is refused, and the refusal reaches the frame at  *)
(* the same time as the page, or after the page is gone.                   *)
(*                                                                         *)
(* Bound: the author begins with a page and goes to no other but the list  *)
(* of projects; pages share nothing but the frame.                         *)
(***************************************************************************)
EXTENDS Naturals, FiniteSets

CONSTANTS
    Projects, NoProject, NoRoute, MaxMoves,
    FrameMoves,     \* bound: moves after which nothing more befalls the frame
    MaxLogins,
    Entries, NoEntry,
    Nodes, NoNode,
    Decked, Decks, Dims, Slots, Asked, Raw,
    Cards, NoCard, MaxVersion,
    Chapters, NoChapter,
    Assets, Limit, Jobs, NoJob,
    Tabs, Followed

\* A card has a version to begin with, and the browser may have a session.
ASSUME StudioBounds == MaxVersion \in Nat \ {0} /\ MaxLogins \in Nat \ {0}

\* What is no project's yet is none's.
ASSUME FreeIsNoProject == "free" \notin Projects

\* The cards of the deck are numbered, and a slider goes from 0 to 100.
ASSUME DeckIsNumbered ==
    Decked \subseteq Nat /\ IsFiniteSet(Decked) /\ Slots \in Nat /\ Raw \subseteq 0..100

VARIABLES
    moves,
    start,          \* the page the author begins with
    shell, cookie, alive, last, asks,
    biblePage, entries, bibleCalls,
    graphPage, owner, edges, graphCalls,
    fusePage, deck, fuseCalls,
    labPage, history, versions, reports, labCalls,
    writePage, chapters, writing, writeCalls,
    extractPage, assets, extracting, extractCalls,
    status, registry, dock, watch, at, told, released

shellVars == <<start, shell, cookie, alive, last, asks>>
bibleVars == <<biblePage, entries, bibleCalls>>
graphVars == <<graphPage, owner, edges, graphCalls>>
fuseVars == <<fusePage, deck, fuseCalls>>
labVars == <<labPage, history, versions, reports, labCalls>>
writeVars == <<writePage, chapters, writing, writeCalls>>
extractVars == <<extractPage, assets, extracting, extractCalls>>
dockVars == <<status, registry, dock, watch, at, told, released>>
vars == <<moves, shellVars, bibleVars, graphVars, fuseVars, labVars, writeVars, extractVars,
          dockVars>>

Routes == {"bible", "graph", "fuse", "lab", "write", "extract"}

S == INSTANCE Shell WITH Pages <- Routes, MaxMoves <- FrameMoves
B == INSTANCE BiblePage WITH page <- biblePage, stored <- entries, calls <- bibleCalls
G == INSTANCE GraphPage WITH page <- graphPage, calls <- graphCalls
F == INSTANCE FusePage WITH page <- fusePage, calls <- fuseCalls, Cards <- Decked
L == INSTANCE LabPage WITH page <- labPage, calls <- labCalls
W == INSTANCE WritePage WITH page <- writePage, stored <- chapters, jobs <- writing,
                             calls <- writeCalls
E == INSTANCE ExtractPage WITH page <- extractPage, stored <- assets, jobs <- extracting,
                               calls <- extractCalls
D == INSTANCE JobDock WITH Jobs <- Followed, MaxMoves <- FrameMoves

At(r) == shell.me /\ shell.route = r
Valid == cookie \in alive

Init ==
    /\ S!Init /\ cookie = 1 /\ start = shell.route
    /\ B!Init /\ (start # "bible" => \A e \in Entries : entries[e] = "free")
    /\ G!Init /\ (start # "graph" => \A n \in Nodes : owner[n] = "free")
    /\ F!Init /\ (start # "fuse" => \A c \in Decked : deck[c] = "free")
    /\ L!Init /\ (start # "lab" => reports = {})
    /\ W!Init /\ (start # "write" => chapters = W!None)
    /\ E!Init /\ (start # "extract" => \A a \in Assets : assets[a] = "free")
    /\ D!Init

\* A page asks in the name of the frame and finds no session.
Refused(calls, k, left) ==
    /\ ~Valid /\ k.state = "sent"
    /\ left = calls \ {k}
    /\ asks' = asks \union {[S!Ask("page", NoRoute) EXCEPT !.state = "refused"]}
    /\ UNCHANGED <<start, shell, cookie, alive, last, moves>>

----------------------------------------------------------------------------
(* The pages.  What happens on a page needs the page; what the server does needs a session, *)
(* but not the page. *)

BibleSteps ==
    \/ /\ UNCHANGED shellVars
       /\ \/ At("bible") /\ (B!Gesture \/ B!SyncEnds \/ \E p \in Projects : B!Visit(p))
          \/ \E k \in bibleCalls : \/ At("bible") /\ (B!Arrive(k) \/ B!Drop(k))
                                   \/ Valid /\ B!Serve(k)
    \/ \E k \in bibleCalls : Refused(bibleCalls, k, bibleCalls') /\ UNCHANGED <<biblePage, entries>>

GraphSteps ==
    \/ /\ UNCHANGED shellVars
       /\ \/ At("graph") /\ (G!Gesture \/ \E p \in Projects : G!Visit(p))
          \/ \E k \in graphCalls : \/ At("graph") /\ (G!Arrive(k) \/ G!Drop(k))
                                   \/ Valid /\ G!Serve(k)
    \/ \E k \in graphCalls : /\ Refused(graphCalls, k, graphCalls')
                             /\ UNCHANGED <<graphPage, owner, edges>>

FuseSteps ==
    \/ /\ UNCHANGED shellVars
       /\ \/ /\ At("fuse")
             /\ \/ F!Gesture \/ F!JobEnds
                \/ \E p \in Projects, asked \in Asked : F!Visit(p, asked)
          \/ \E k \in fuseCalls : \/ At("fuse") /\ (F!Arrive(k) \/ F!Drop(k))
                                  \/ Valid /\ F!Serve(k)
    \/ \E k \in fuseCalls : Refused(fuseCalls, k, fuseCalls') /\ UNCHANGED <<fusePage, deck>>

LabSteps ==
    \/ /\ UNCHANGED shellVars
       /\ \/ /\ At("lab")
             /\ \/ L!Gesture \/ L!Watch
                \/ \E c \in Cards : L!Visit(c) \/ L!FromReport(c) \/ L!Return(c)
          \/ \E k \in labCalls : \/ At("lab") /\ (L!Arrive(k) \/ L!Drop(k))
                                 \/ Valid /\ L!Serve(k)
    \/ \E k \in labCalls : /\ Refused(labCalls, k, labCalls')
                           /\ UNCHANGED <<labPage, history, versions, reports>>

WriteSteps ==
    \/ /\ UNCHANGED shellVars
       /\ \/ At("write") /\ (W!Gesture \/ \E card \in BOOLEAN : W!Visit(card))
          \/ \E agreed \in BOOLEAN : W!Answer(agreed)
          \/ \E c \in Chapters : W!JobEnds(c) \/ (Valid /\ W!Elsewhere(c))
          \/ \E k \in writeCalls : \/ At("write") /\ (W!Arrive(k) \/ W!Drop(k))
                                   \/ W!BindArrives(k)
                                   \/ Valid /\ W!Serve(k)
    \/ \E k \in writeCalls : /\ Refused(writeCalls, k, writeCalls')
                             /\ UNCHANGED <<writePage, chapters, writing>>

ExtractSteps ==
    \/ /\ UNCHANGED shellVars
       /\ \/ At("extract") /\ (E!Gesture \/ E!Watch \/ \E p \in Projects : E!Visit(p))
          \/ \E j \in Jobs : E!JobEnds(j)
          \/ \E k \in extractCalls : \/ At("extract") /\ (E!Arrive(k) \/ E!Drop(k))
                                     \/ Valid /\ E!Serve(k)
    \/ \E k \in extractCalls : /\ Refused(extractCalls, k, extractCalls')
                               /\ UNCHANGED <<extractPage, assets, extracting>>

----------------------------------------------------------------------------
(* The frame.  A request of the dock matters when it is refused: the others change nothing. *)

\* The page of an address, when the address changes.
Left(r) ==
    /\ IF r = "bible" /\ B!Mounted THEN B!Leave ELSE UNCHANGED bibleVars
    /\ IF r = "graph" /\ G!Mounted THEN G!Leave ELSE UNCHANGED graphVars
    /\ IF r = "fuse" /\ F!Mounted THEN F!Leave ELSE UNCHANGED fuseVars
    /\ IF r = "lab" /\ L!Mounted THEN L!Leave ELSE UNCHANGED labVars
    /\ IF r = "write" /\ W!Mounted THEN W!Leave ELSE UNCHANGED writeVars
    /\ IF r = "extract" /\ E!Mounted THEN E!Leave ELSE UNCHANGED extractVars

FrameSteps ==
    /\ UNCHANGED start
    /\ \/ \E r \in {start, "home"} : S!Go(r)
       \/ S!Gesture \/ S!Expire
       \/ ~Valid /\ S!Request("poll")
       \/ \E a \in asks : S!Serve(a) \/ S!Arrive(a) \/ S!Drop(a)
    /\ Left(IF shell'.route = shell.route THEN "home" ELSE shell.route)

\* Bound: jobs are followed while the author is at the list of projects.
DockSteps == At("home") /\ D!Next

Next ==
    \/ BibleSteps /\ UNCHANGED <<graphVars, fuseVars, labVars, writeVars, extractVars, dockVars>>
    \/ GraphSteps /\ UNCHANGED <<bibleVars, fuseVars, labVars, writeVars, extractVars, dockVars>>
    \/ FuseSteps /\ UNCHANGED <<bibleVars, graphVars, labVars, writeVars, extractVars, dockVars>>
    \/ LabSteps /\ UNCHANGED <<bibleVars, graphVars, fuseVars, writeVars, extractVars, dockVars>>
    \/ WriteSteps /\ UNCHANGED <<bibleVars, graphVars, fuseVars, labVars, extractVars, dockVars>>
    \/ ExtractSteps /\ UNCHANGED <<bibleVars, graphVars, fuseVars, labVars, writeVars, dockVars>>
    \/ FrameSteps /\ UNCHANGED dockVars
    \/ DockSteps /\ UNCHANGED <<shellVars, bibleVars, graphVars, fuseVars, labVars, writeVars,
                                extractVars>>

Spec == Init /\ [][Next]_vars

----------------------------------------------------------------------------
\* The state of every page, of the frame and of the dock keeps its shape.
TypeOK ==
    /\ start \in Routes
    /\ S!TypeOK /\ B!TypeOK /\ G!TypeOK /\ F!TypeOK /\ L!TypeOK /\ W!TypeOK /\ E!TypeOK
    /\ D!TypeOK

(* The properties of the pages, which their modules state and relate to the code, in the  *)
(* client as a whole: with the frame, the session and whatever befalls them.             *)

\* Bible.tsx: a save carries the text of the entry it is for.
SaveGoesToItsEntry == B!SaveGoesToItsEntry

\* graph.go: no call that was under way brings back a node that was deleted.
DeletedStaysDeleted == [][\A n \in Nodes : owner[n] = "gone" => owner'[n] = "gone"]_owner

\* Fuse.tsx: weights that add up to 100 go on adding up, but for the excepted cases.
WeightsStayWhole ==
    [][ /\ F!AddUp(fusePage) /\ fusePage'.cards = fusePage.cards
        /\ Cardinality(F!Selected(fusePage')) <= Slots
        /\ fusePage.mode = "dominant" => fusePage.dominant \in F!Selected(fusePage)
        => F!AddUp(fusePage')]_fusePage

\* Lab.tsx: the suggestions of an audit come into the sliders at most once.
SuggestionsAppliedOnce == L!SuggestionsAppliedOnce

\* Write.tsx: a chapter that is ordered written has its style card, or has lost it since.
WritesAreBound == W!WritesAreBound

\* ProjectHome.tsx: no second extraction while the page's own is running.
OneExtraction == E!OneExtraction

\* JobDock.tsx: the end of a job is told at most once in a tab, and in some tab.
EndsAreToldOnce == D!EndsAreToldOnce

\* App.tsx, Login.tsx: the login after a session's end leads back to the page it ended on.
ReturnsToWhereItWas ==
    [][~shell.me /\ shell'.me /\ shell.lost # NoRoute => shell'.route = shell.lost]_shell
=============================================================================

----------------------------- MODULE GraphPage -----------------------------
(***************************************************************************)
(* The relation graph: the page (web/src/pages/Graph.tsx) with its drawer  *)
(* (components/EntityDrawer.tsx), and the server's part in                 *)
(* internal/httpapi/graph.go, one step per SQL statement where two         *)
(* statements of a request can be told apart.                              *)
(*                                                                         *)
(* A node is its id and an edge the pair of its ends: names, texts and     *)
(* positions are left out, and so are the filters, zoom and pan.  The      *)
(* frames of the layout are one loop that runs or is at rest; what it      *)
(* keeps of the graph is the edges that pull.                              *)
(***************************************************************************)
EXTENDS Calls

CONSTANTS Projects, Nodes, NoProject, NoNode

VARIABLES
    page,
    owner,      \* the server: the project of a node, "free" before and "gone" after
    edges       \* the server: the edges of a project

vars == <<page, owner, edges, calls, moves>>

Edges == Nodes \X Nodes
Ends(e) == {e[1], e[2]}

NoGraph == [nodes |-> {}, edges |-> {}]

Closed == [project |-> NoProject, graph |-> NoGraph, pull |-> {}, moving |-> FALSE,
           drag |-> NoNode, drawer |-> NoNode, asking |-> NoNode, adding |-> FALSE,
           extracting |-> FALSE, creating |-> FALSE, saving |-> FALSE, linking |-> FALSE]

Mounted == page.project # NoProject
Free == Mounted /\ page.asking = NoNode

\* The canvas can be reached: neither the drawer nor the form of a new node covers it.
Canvas == Free /\ page.drawer = NoNode /\ ~page.adding

\* A call; the edges the page showed when the gesture behind it was made; and what the
\* server has found out for it.
Call(kind, n, e) == [kind |-> kind, project |-> page.project, node |-> n, edge |-> e,
                     shown |-> page.graph.edges,
                     state |-> "sent", got |-> NoGraph, known |-> {}, live |-> TRUE]
NoEdge == <<NoNode, NoNode>>

\* loadGraph, for a project and from a render of the page
LoadCall(p, shown) == [Call("load", NoNode, NoEdge) EXCEPT !.project = p, !.shown = shown]

NodesOf(p) == {n \in Nodes : owner[n] = p}
GraphOf(p) == [nodes |-> NodesOf(p), edges |-> edges[p]]

\* The edges that pull: those between nodes that are drawn.
Between(S, E) == {e \in E : Ends(e) \subseteq S}

\* startSimulation, with the edges of the render it was called from
Moving(p, shown) == [p EXCEPT !.moving = TRUE, !.pull = Between(p.graph.nodes, shown)]

Init ==
    /\ page = Closed
    /\ \E p \in Projects, S \in SUBSET Nodes :
           owner = [n \in Nodes |-> IF n \in S THEN p ELSE "free"]
    /\ edges = [p \in Projects |-> {}]
    /\ calls = {} /\ moves = 0

----------------------------------------------------------------------------
(* The author *)

Visit(p) ==
    /\ p # page.project /\ page.asking = NoNode
    /\ Move
    /\ page' = [page EXCEPT !.project = p]
    /\ calls' = calls \union {LoadCall(p, page.graph.edges)}
    /\ UNCHANGED <<owner, edges>>

Leave ==
    /\ Mounted
    /\ page' = Closed
    /\ calls' = Orphaned
    /\ UNCHANGED <<owner, edges>>

\* handleAIExtract, from either of its two buttons
Extract ==
    /\ Canvas /\ ~page.extracting
    /\ Move
    /\ page' = [page EXCEPT !.extracting = TRUE]
    /\ calls' = calls \union {Call("extract", NoNode, NoEdge)}
    /\ UNCHANGED <<owner, edges>>

OpenForm ==
    /\ Canvas
    /\ Move
    /\ page' = [page EXCEPT !.adding = TRUE]
    /\ UNCHANGED <<owner, edges, calls>>

CloseForm ==
    /\ Free /\ page.adding
    /\ page' = [page EXCEPT !.adding = FALSE]
    /\ UNCHANGED <<owner, edges, calls, moves>>

\* handleCreateManualNode
CreateNode ==
    /\ Free /\ page.adding /\ ~page.creating
    /\ Move
    /\ page' = [page EXCEPT !.creating = TRUE]
    /\ calls' = calls \union {Call("create", NoNode, NoEdge)}
    /\ UNCHANGED <<owner, edges>>

\* The nodes that are drawn
Drawn(n) == Canvas /\ n \in page.graph.nodes

\* A press on a node pins it and starts the layout; its release is a click too.
PressNode(n) ==
    /\ Drawn(n) /\ page.drag = NoNode
    /\ Move
    /\ page' = Moving([page EXCEPT !.drag = n], page.graph.edges)
    /\ UNCHANGED <<owner, edges, calls>>

ReleaseNode ==
    /\ Canvas /\ page.drag # NoNode
    /\ page' = [page EXCEPT !.drag = NoNode, !.drawer = page.drag]
    /\ UNCHANGED <<owner, edges, calls, moves>>

\* The loop of frames goes on while a node is held.
LayoutRests ==
    /\ page.moving /\ page.drag = NoNode
    /\ page' = [page EXCEPT !.moving = FALSE]
    /\ UNCHANGED <<owner, edges, calls, moves>>

ResetView ==
    /\ Canvas /\ page.drag = NoNode
    /\ Move
    /\ page' = Moving(page, page.graph.edges)
    /\ UNCHANGED <<owner, edges, calls>>

Drawer == Free /\ page.drawer # NoNode

\* The drawer is unmounted with its state.
WithoutDrawer(p) == [p EXCEPT !.drawer = NoNode, !.saving = FALSE, !.linking = FALSE]

CloseDrawer ==
    /\ Drawer
    /\ page' = WithoutDrawer(page)
    /\ UNCHANGED <<owner, edges, calls, moves>>

\* handleSaveNode
SaveNode ==
    /\ Drawer /\ ~page.saving
    /\ Move
    /\ page' = [page EXCEPT !.saving = TRUE]
    /\ calls' = calls \union {Call("save", page.drawer, NoEdge)}
    /\ UNCHANGED <<owner, edges>>

\* handleDeleteNode up to its question: its button stays enabled while a save is under way.
AskDelete ==
    /\ Drawer
    /\ Move
    /\ page' = [page EXCEPT !.asking = page.drawer]
    /\ UNCHANGED <<owner, edges, calls>>

AnswerDelete(agreed) ==
    /\ page.asking # NoNode
    /\ page' = [page EXCEPT !.asking = NoNode]
    /\ calls' = IF agreed THEN calls \union {Call("delete", page.asking, NoEdge)} ELSE calls
    /\ UNCHANGED <<owner, edges, moves>>

\* The form of a new edge offers every other node of the graph that is shown.
Target(t) == Drawer /\ ~page.linking /\ t \in page.graph.nodes \ {page.drawer}

\* handleCreateEdge
CreateEdge(t) ==
    /\ Target(t)
    /\ Move
    /\ page' = [page EXCEPT !.linking = TRUE]
    /\ calls' = calls \union {Call("link", page.drawer, <<page.drawer, t>>)}
    /\ UNCHANGED <<owner, edges>>

\* incidentEdges, of the drawer's node
Incident == {e \in page.graph.edges : page.drawer \in Ends(e)}

\* handleDeleteEdge
DeleteEdge(e) ==
    /\ Drawer /\ e \in Incident
    /\ Move
    /\ calls' = calls \union {Call("unlink", page.drawer, e)}
    /\ UNCHANGED <<page, owner, edges>>

----------------------------------------------------------------------------
(* The server *)

\* The nodes and then the edges of a project.
ServeLoad(k) ==
    /\ Waiting(k) /\ k.kind = "load"
    /\ Reply(k, "ok", GraphOf(k.project))
    /\ UNCHANGED <<page, owner, edges, moves>>

ServeCreate(k) ==
    /\ Waiting(k) /\ k.kind = "create"
    /\ \E n \in NodesOf("free") : owner' = [owner EXCEPT ![n] = k.project]
    /\ Reply(k, "ok", NoGraph)
    /\ UNCHANGED <<page, edges, moves>>

\* Mutation of SavedNode: a node that is not there is written anew.
MSavedNodeAnew(k) == [owner EXCEPT ![k.node] = k.project]

\* UPDATE ... WHERE id = ? AND project_id = ?: a node that is not there is not written, and
\* the answer is the same.
SavedNode(k) == owner

ServeSave(k) ==
    /\ Waiting(k) /\ k.kind = "save"
    /\ owner' = SavedNode(k)
    /\ Reply(k, "ok", NoGraph)
    /\ UNCHANGED <<page, edges, moves>>

\* The first statement of handleDeleteGraphNode, whose error is dropped.
ServeDeleteEdges(k) ==
    /\ Waiting(k) /\ k.kind = "delete" /\ k.known = {}
    /\ \/ edges' = [edges EXCEPT ![k.project] = {e \in @ : k.node \notin Ends(e)}]
       \/ UNCHANGED edges
    /\ calls' = (calls \ {k}) \union {[k EXCEPT !.known = {k.node}]}
    /\ UNCHANGED <<page, owner, moves>>

\* The second.
ServeDeleteNode(k) ==
    /\ Waiting(k) /\ k.kind = "delete" /\ k.known # {}
    /\ owner' = [owner EXCEPT ![k.node] = IF @ = k.project THEN "gone" ELSE @]
    /\ Reply(k, "ok", NoGraph)
    /\ UNCHANGED <<page, edges, moves>>

\* handleSaveGraphEdge does not look for the ends.
ServeLink(k) ==
    /\ Waiting(k) /\ k.kind = "link"
    /\ edges' = [edges EXCEPT ![k.project] = @ \union {k.edge}]
    /\ Reply(k, "ok", NoGraph)
    /\ UNCHANGED <<page, owner, moves>>

ServeUnlink(k) ==
    /\ Waiting(k) /\ k.kind = "unlink"
    /\ edges' = [edges EXCEPT ![k.project] = @ \ {k.edge}]
    /\ Reply(k, "ok", NoGraph)
    /\ UNCHANGED <<page, owner, moves>>

\* handleExtractGraph reads the names that are there ...
ServeExtractRead(k) ==
    /\ Waiting(k) /\ k.kind = "extract" /\ k.known = {}
    /\ calls' = (calls \ {k}) \union {[k EXCEPT !.known = NodesOf(k.project) \union {NoNode}]}
    /\ UNCHANGED <<page, owner, edges, moves>>

\* ... and writes the extracted nodes and edges, ids of names it knew taken from that read.
\* A model that answers nonsense, or with nothing new, leaves the graph as it is.
ServeExtractWrite(k) ==
    /\ Waiting(k) /\ k.kind = "extract" /\ k.known # {}
    /\ \E new \in {{}} \union {{n} : n \in NodesOf("free")} :
       \E e \in {{}} \union {{edge} : edge \in new \X (k.known \ {NoNode})} :
           /\ owner' = [n \in Nodes |-> IF n \in new THEN k.project ELSE owner[n]]
           /\ edges' = [edges EXCEPT ![k.project] = @ \union e]
           /\ Reply(k, "ok", [nodes |-> NodesOf(k.project) \union new,
                              edges |-> edges[k.project] \union e])
    /\ UNCHANGED <<page, moves>>

----------------------------------------------------------------------------
(* The answers *)

\* setGraphData and initSimulation: the layout starts over with the edges of the graph that
\* was shown when the page asked, none of them at first.
ShownGraph(k) == Moving([page EXCEPT !.graph = k.got], k.shown)

GraphArrives(k) ==
    /\ Answered(k) /\ k.kind \in {"load", "extract"}
    /\ page' = [ShownGraph(k) EXCEPT !.extracting = @ /\ k.kind # "extract"]
    /\ calls' = calls \ {k}
    /\ UNCHANGED <<owner, edges, moves>>

\* The form closes and the graph is read again, for the project of the call.
CreateArrives(k) ==
    /\ Answered(k) /\ k.kind = "create"
    /\ page' = [page EXCEPT !.adding = FALSE, !.creating = FALSE]
    /\ calls' = (calls \ {k}) \union {LoadCall(k.project, k.shown)}
    /\ UNCHANGED <<owner, edges, moves>>

\* onNodeUpdated and onEdgeUpdated; the flag of a drawer that was closed is nobody's.
SaveArrives(k) ==
    /\ Answered(k) /\ k.kind \in {"save", "link", "unlink"}
    /\ page' = [page EXCEPT !.saving = @ /\ ~(k.kind = "save" /\ k.node = page.drawer),
                            !.linking = @ /\ ~(k.kind = "link" /\ k.node = page.drawer)]
    /\ calls' = (calls \ {k}) \union {LoadCall(k.project, k.shown)}
    /\ UNCHANGED <<owner, edges, moves>>

\* onClose() closes the drawer that is open by now.
DeleteArrives(k) ==
    /\ Answered(k) /\ k.kind = "delete"
    /\ page' = WithoutDrawer(page)
    /\ calls' = (calls \ {k}) \union {LoadCall(k.project, k.shown)}
    /\ UNCHANGED <<owner, edges, moves>>

CallFails(k) ==
    /\ Failed(k)
    /\ page' = [page EXCEPT !.extracting = @ /\ k.kind # "extract",
                            !.creating = @ /\ k.kind # "create",
                            !.saving = @ /\ ~(k.kind = "save" /\ k.node = page.drawer),
                            !.linking = @ /\ ~(k.kind = "link" /\ k.node = page.drawer)]
    /\ calls' = calls \ {k}
    /\ UNCHANGED <<owner, edges, moves>>

Drop(k) == Lose(k) /\ UNCHANGED <<page, owner, edges>>

Gesture ==
    \/ Extract \/ OpenForm \/ CloseForm \/ CreateNode
    \/ ReleaseNode \/ ResetView \/ LayoutRests \/ CloseDrawer \/ SaveNode \/ AskDelete
    \/ \E n \in Nodes : PressNode(n) \/ CreateEdge(n)
    \/ \E e \in Edges : DeleteEdge(e)
    \/ \E agreed \in BOOLEAN : AnswerDelete(agreed)

Serve(k) == \/ ServeLoad(k) \/ ServeCreate(k) \/ ServeSave(k) \/ ServeDeleteEdges(k)
            \/ ServeDeleteNode(k) \/ ServeLink(k) \/ ServeUnlink(k)
            \/ ServeExtractRead(k) \/ ServeExtractWrite(k)

Arrive(k) == \/ GraphArrives(k) \/ CreateArrives(k) \/ SaveArrives(k) \/ DeleteArrives(k)
             \/ CallFails(k)

Next == \/ \E p \in Projects : Visit(p)
        \/ (Leave /\ UNCHANGED moves) \/ Gesture
        \/ \E k \in calls : Serve(k) \/ Arrive(k) \/ Drop(k)

Spec == Init /\ [][Next]_vars

----------------------------------------------------------------------------
TypeOK ==
    /\ page \in [project: Projects \union {NoProject},
                 graph: [nodes: SUBSET Nodes, edges: SUBSET Edges], pull: SUBSET Edges,
                 moving: BOOLEAN, drag: Nodes \union {NoNode}, drawer: Nodes \union {NoNode},
                 asking: Nodes \union {NoNode}, adding: BOOLEAN, extracting: BOOLEAN,
                 creating: BOOLEAN, saving: BOOLEAN, linking: BOOLEAN]
    /\ owner \in [Nodes -> Projects \union {"free", "gone"}]
    /\ edges \in [Projects -> SUBSET Edges]

\* A node the author deleted stays deleted: no save of its drawer, extraction or other call
\* that was under way then brings it back, in whatever order the server gets to them
\* (graph.go: handleSaveGraphNode, handleExtractGraph).
DeletedStaysDeleted == [][\A n \in Nodes : owner[n] = "gone" => owner'[n] = "gone"]_owner
=============================================================================

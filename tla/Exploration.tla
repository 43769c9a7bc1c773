------------------------------ MODULE Exploration ------------------------------
(***************************************************************************)
(* What a user of the web console explores (apps/web/src/App.tsx): the     *)
(* graph it shows, the focus and the trail to it, the radius, the filters, *)
(* the time, a search and a path.  Answers of the daemon come when they    *)
(* come: a graph that was asked for earlier may land after a newer one,    *)
(* and a search or a path is answered by what was on the screen when it    *)
(* was asked for.  React renders between two events, so that a handler     *)
(* reads the state that was current when its event came.                   *)
(*                                                                         *)
(* How the connection is kept and when a graph is fetched again is in      *)
(* LiveUpdates; here a refresh may land at any time.                       *)
(***************************************************************************)
EXTENDS ConsoleGraph

CONSTANTS DemoGraph,     \* the built-in graph
          History,       \* the graphs the daemon's store has had, in order
          Suggested,     \* anchorId of the built-in graph
          Kinds, Classes,   \* that a filter can hide
          MaxHops,       \* MAX_GRAPH_HOPS, 20
          MaxNodes, MaxEdges,   \* SCENE_BUDGET
          Now,
          Answers,       \* bound: the sets of nodes a search may match
          MaxGestures    \* bound

ASSUME ExplorationAssumption ==
  /\ Now \in Nat /\ MaxHops \in Nat \ {0} /\ MaxNodes \in Nat \ {0} /\ MaxEdges \in Nat
  /\ IsSeq(History) /\ \A g \in {DemoGraph} \cup ToSet(History) : IsGraph(g)
  /\ Suggested \in Ids(DemoGraph)

VARIABLES
  shown,         \* sourceGraph: an index of History, Demo or Empty
  mode,          \* connection, a ConnectionMode
  connecting,
  latest,        \* the daemon's graph that landed last, or 0
  altered,       \* a graph has landed that does not extend the one before it, or has only
                 \* a part of the built-in one
  anchorId, navigationPath, selectedId,
  hops, hiddenKinds, hiddenConfidence, validAt,
  searchGraph, hits,
  searching,     \* the projection of the search under way, or NoGraph
  path,          \* the ends of the explained path, or << >>
  tracing,       \* the ends of the path asked for, or << >>
  gestures

sourceVars == <<shown, mode, connecting, latest, altered>>
placeVars == <<anchorId, navigationPath, selectedId>>
filterVars == <<hops, hiddenKinds, hiddenConfidence, validAt>>
resultVars == <<searchGraph, hits, path>>
vars == <<sourceVars, placeVars, filterVars, resultVars, searching, tracing, gestures>>

-----------------------------------------------------------------------------
(* What is derived from the state.                                         *)

Demo == 0
Empty == Len(History) + 1

GraphOf(s) == IF s = Demo THEN DemoGraph ELSE IF s = Empty THEN NoGraph ELSE History[s]

sourceGraph == GraphOf(shown)

filteredGraph ==
  FilterKinds(FilterAtTime(sourceGraph, validAt), anchorId, hiddenKinds, hiddenConfidence)

projection == AssociativeSubgraph(filteredGraph, anchorId, hops)

neighborhood == IF searchGraph = NoGraph THEN projection ELSE searchGraph

visibleGraph == ApplySceneBudget(neighborhood, MaxNodes, MaxEdges, anchorId)

\* Every node that some part of the page offers to navigate to.
Offered ==
  Ids(visibleGraph) \cup hits \cup Workstreams(sourceGraph) \cup WorkItems(filteredGraph)
    \cup (IF selectedId \in Ids(sourceGraph)
          THEN {selectedId} \cup Connections(filteredGraph, selectedId) ELSE {})

-----------------------------------------------------------------------------
(* Gestures.                                                               *)

Gesture == gestures < MaxGestures /\ gestures' = gestures + 1

\* Mutant: the list of hits stays.
ClearProjectionOnly == searchGraph' = NoGraph /\ path' = << >> /\ UNCHANGED hits

ClearSearchProjection == searchGraph' = NoGraph /\ hits' = {} /\ path' = << >>

IndexIn(s, x) == CHOOSE i \in DOMAIN s : s[i] = x /\ \A j \in 1 .. i - 1 : s[j] # x

\* Mutant: the trail repeats the focus it goes on from.
TrailWhole(id) ==
  LET segment == AssociativePath(filteredGraph, anchorId, id, hops)
  IN IF id \in ToSet(navigationPath)
     THEN SubSeq(navigationPath, 1, IndexIn(navigationPath, id))
     ELSE IF segment = << >> THEN Append(navigationPath, id) ELSE navigationPath \o Tail(segment)

\* The trail to a node: back to where it already was, or on along the shortest path
\* from the focus, or a new one.
TrailTo(id) ==
  LET segment == AssociativePath(filteredGraph, anchorId, id, hops)
  IN IF id \in ToSet(navigationPath)
     THEN SubSeq(navigationPath, 1, IndexIn(navigationPath, id))
     ELSE IF segment = << >> THEN <<id>> ELSE navigationPath \o Tail(segment)

NavigateToNode(id) ==
  /\ id \in Offered /\ Gesture
  /\ navigationPath' = TrailTo(id) /\ anchorId' = id /\ selectedId' = id
  /\ ClearSearchProjection
  /\ UNCHANGED <<sourceVars, filterVars, searching, tracing>>

NavigateBreadcrumb(i) ==
  /\ i \in DOMAIN navigationPath /\ navigationPath[i] \in Ids(sourceGraph) /\ Gesture
  /\ navigationPath' = SubSeq(navigationPath, 1, i)
  /\ anchorId' = navigationPath[i] /\ selectedId' = navigationPath[i]
  /\ ClearSearchProjection
  /\ UNCHANGED <<sourceVars, filterVars, searching, tracing>>

\* Escape, a click on the background, or the drawer's close button.
Dismiss ==
  /\ selectedId # NoNode \/ path # << >>
  /\ Gesture
  /\ selectedId' = NoNode /\ path' = << >>
  /\ UNCHANGED <<sourceVars, anchorId, navigationPath, filterVars>>
  /\ UNCHANGED <<searchGraph, hits, searching, tracing>>

FilterGesture ==
  /\ Gesture /\ ClearSearchProjection
  /\ UNCHANGED <<sourceVars, placeVars, searching, tracing>>

ChangeTime ==
  /\ LET bounds == TimeBounds(sourceGraph, Now)
     IN validAt' \in (bounds.min .. bounds.max) \ {validAt}
  /\ FilterGesture /\ UNCHANGED <<hops, hiddenKinds, hiddenConfidence>>

ChangeHops ==
  /\ hops' \in (1 .. MaxHops) \ {hops}
  /\ FilterGesture /\ UNCHANGED <<hiddenKinds, hiddenConfidence, validAt>>

ToggleKind(k) ==
  /\ hiddenKinds' = (hiddenKinds \cup {k}) \ (hiddenKinds \cap {k})
  /\ FilterGesture /\ UNCHANGED <<hops, hiddenConfidence, validAt>>

ToggleConfidence(c) ==
  /\ hiddenConfidence' = (hiddenConfidence \cup {c}) \ (hiddenConfidence \cap {c})
  /\ FilterGesture /\ UNCHANGED <<hops, hiddenKinds, validAt>>

ResetFilters ==
  /\ hiddenKinds \cup hiddenConfidence # {}
  /\ hiddenKinds' = {} /\ hiddenConfidence' = {}
  /\ FilterGesture /\ UNCHANGED <<hops, validAt>>

\* The clear button of the search field and "Show neighborhood".
ClearSearch ==
  /\ FilterGesture /\ UNCHANGED filterVars

-----------------------------------------------------------------------------
(* Searches and paths.                                                     *)

\* Without a daemon the console searches itself; the focus always scores.
SearchHere ==
  /\ mode # "live" /\ anchorId # NoNode /\ searching = NoGraph /\ Gesture
  /\ searchGraph' = projection
  /\ \E a \in Answers : hits' = (a \cup {anchorId}) \cap Ids(projection)
  /\ UNCHANGED <<sourceVars, placeVars, filterVars, path, searching, tracing>>

\* One search at a time.  What will be shown is decided now.
SubmitSearch ==
  /\ mode = "live" /\ anchorId # NoNode /\ searching = NoGraph /\ Gesture
  /\ searching' = projection
  /\ UNCHANGED <<sourceVars, placeVars, filterVars, resultVars, tracing>>

SearchAnswers ==
  /\ searching # NoGraph /\ searching' = NoGraph
  /\ searchGraph' = searching
  /\ \E a \in Answers : hits' = a \cap Ids(searching)
  /\ UNCHANGED <<sourceVars, placeVars, filterVars, path, tracing, gestures>>

SearchFails ==
  /\ searching # NoGraph /\ searching' = NoGraph
  /\ UNCHANGED <<sourceVars, placeVars, filterVars, resultVars, tracing, gestures>>

\* The drawer offers a path to a selected node that is not the focus.
Explainable == selectedId \in Ids(sourceGraph) /\ selectedId # anchorId

ExplainPathHere ==
  /\ mode # "live" /\ Explainable /\ tracing = << >> /\ Gesture
  /\ path' = IF AssociativePath(filteredGraph, anchorId, selectedId, hops) = << >>
             THEN << >> ELSE <<anchorId, selectedId>>
  /\ UNCHANGED <<sourceVars, placeVars, filterVars, searchGraph, hits, searching, tracing>>

ExplainPath ==
  /\ mode = "live" /\ Explainable /\ tracing = << >> /\ Gesture
  /\ tracing' = <<anchorId, selectedId>>
  /\ UNCHANGED <<sourceVars, placeVars, filterVars, resultVars, searching>>

\* The daemon's path, or its refusal.
PathAnswers ==
  /\ tracing # << >> /\ tracing' = << >>
  /\ path' \in {tracing, << >>}
  /\ UNCHANGED <<sourceVars, placeVars, filterVars, searchGraph, hits, searching, gestures>>

-----------------------------------------------------------------------------
(* Graphs that land.                                                       *)

\* The daemon names no anchor: the first workstream, or the first node.
FallbackAnchor(g) ==
  LET work == Picked(g.nodes, {i \in DOMAIN g.nodes : g.nodes[i].kind = "Workstream"})
  IN IF work # << >> THEN Head(work).id
     ELSE IF g.nodes # << >> THEN Head(g.nodes).id ELSE NoNode

\* loadLiveGraph: the focus and the trail, each by itself, as far as the graph has them.
ShowGraph(v) ==
  LET g == History[v]
      kept == Picked(navigationPath, {i \in DOMAIN navigationPath : navigationPath[i] \in Ids(g)})
  IN /\ shown' = v /\ searchGraph' = NoGraph /\ hits' = {}
     /\ anchorId' = IF anchorId \in Ids(g) THEN anchorId ELSE FallbackAnchor(g)
     /\ navigationPath' = IF kept # << >> THEN kept
                          ELSE IF FallbackAnchor(g) # NoNode THEN <<FallbackAnchor(g)>> ELSE << >>
     /\ validAt' = TimeBounds(g, Now).max
     /\ UNCHANGED <<selectedId, hops, hiddenKinds, hiddenConfidence, path>>

\* h has every node of g, and joins what g joins: not when it is older, nor when an edge
\* has been asserted anew between other nodes.
Extends(g, h) ==
  /\ Ids(g) \subseteq Ids(h)
  /\ \A x, y \in Ids(g) : Adjacent(g, x, y) => Adjacent(h, x, y)

\* g has none of the nodes of the built-in graph, or "brainhub demo" has put them there,
\* joined as they are in it.
Demonstrates(g) ==
  \/ Ids(DemoGraph) \cap Ids(g) = {}
  \/ /\ Ids(DemoGraph) \subseteq Ids(g)
     /\ \A x, y \in Ids(DemoGraph) : Adjacent(DemoGraph, x, y) <=> Adjacent(g, x, y)

Landed(v) ==
  /\ latest' = v
  /\ altered' = \/ altered \/ ~Demonstrates(History[v])
                \/ latest # 0 /\ ~Extends(History[latest], History[v])

\* The first graph of a connection.
Connect(v) ==
  /\ connecting /\ connecting' = FALSE /\ mode' = "live"
  /\ Landed(v) /\ ShowGraph(v)
  /\ UNCHANGED <<searching, tracing, gestures>>

\* A refresh that an update asked for, which nothing aborts.
Refresh(v) ==
  /\ latest # 0
  /\ Landed(v) /\ ShowGraph(v)
  /\ UNCHANGED <<mode, connecting, searching, tracing, gestures>>

\* A wrong token, or no daemon: an empty graph or the built-in one, and nothing else.
ShowFallback ==
  /\ connecting /\ connecting' = FALSE
  /\ \/ shown' = Empty /\ mode' = "offline"
     \/ shown' = Demo /\ mode' = "demo"
  /\ UNCHANGED <<latest, altered, placeVars, filterVars, resultVars, searching, tracing>>
  /\ UNCHANGED gestures

\* saveToken, clearToken: connect again.
SaveToken ==
  /\ ~connecting /\ Gesture /\ connecting' = TRUE
  /\ UNCHANGED <<shown, mode, latest, altered, placeVars, filterVars, resultVars>>
  /\ UNCHANGED <<searching, tracing>>

-----------------------------------------------------------------------------
Init ==
  /\ shown = Demo /\ mode = "demo" /\ connecting = TRUE
  /\ latest = 0 /\ altered = FALSE
  /\ anchorId = Suggested /\ navigationPath = <<Suggested>> /\ selectedId = NoNode
  /\ hops = 2 /\ hiddenKinds = {} /\ hiddenConfidence = {}
  /\ validAt = TimeBounds(DemoGraph, Now).max
  /\ searchGraph = NoGraph /\ hits = {} /\ searching = NoGraph
  /\ path = << >> /\ tracing = << >> /\ gestures = 0

Gestures ==
  \/ \E id \in Offered : NavigateToNode(id)
  \/ \E i \in DOMAIN navigationPath : NavigateBreadcrumb(i)
  \/ Dismiss \/ ChangeTime \/ ChangeHops \/ ResetFilters \/ ClearSearch
  \/ \E k \in Kinds : ToggleKind(k)
  \/ \E c \in Classes : ToggleConfidence(c)
  \/ SearchHere \/ SubmitSearch \/ ExplainPathHere \/ ExplainPath \/ SaveToken

Next ==
  \/ Gestures
  \/ SearchAnswers \/ SearchFails \/ PathAnswers \/ ShowFallback
  \/ \E v \in 1 .. Len(History) : Connect(v) \/ Refresh(v)

Spec == Init /\ [][Next]_vars

-----------------------------------------------------------------------------
(* The inductive invariants.                                               *)

Ranges ==
  /\ shown \in 0 .. Len(History) + 1 /\ latest \in 0 .. Len(History) /\ altered \in BOOLEAN
  /\ hops \in Nat /\ IsSeq(navigationPath)
  /\ IsClosed(searchGraph) /\ IsClosed(searching)

Demonstrated == latest # 0 => Demonstrates(History[latest])

\* The nodes that the page can have heard of.
Known == Ids(DemoGraph) \cup (IF latest = 0 THEN {} ELSE Ids(History[latest]))

IsWalk(g, s) ==
  /\ ToSet(s) \subseteq Ids(g)
  /\ \A i \in 1 .. Len(s) - 1 : Adjacent(g, s[i], s[i + 1])

InTime == shown \in {Demo, Empty, latest}

WithinKnown ==
  Ids(searchGraph) \cup Ids(searching) \cup hits \cup ({selectedId} \ {NoNode}) \subseteq Known

\* The trail is one of a single graph, even if another one is on the page.
OfOneGraph ==
  \/ IsWalk(DemoGraph, navigationPath)
  \/ latest # 0 /\ IsWalk(History[latest], navigationPath)

EndsAtFocus == IF navigationPath = << >> THEN anchorId = NoNode ELSE Last(navigationPath) = anchorId

TrailInv == ~altered => InTime /\ Demonstrated /\ WithinKnown /\ OfOneGraph /\ EndsAtFocus

-----------------------------------------------------------------------------
(* Properties.                                                             *)

\* As long as every graph that landed extended the one before it, the trail leads to the
\* focus, and each of its steps is an edge of the graph on the page: going back along it is
\* possible ("so navigation remains reversible"), whatever was hidden, searched or
\* refreshed on the way (App.tsx:83-89, 245-264).
TrailIsWalk ==
  ~altered =>
    /\ IF navigationPath = << >> THEN anchorId = NoNode ELSE Last(navigationPath) = anchorId
    /\ \A i \in 1 .. Len(navigationPath) - 1 :
         LET x == navigationPath[i]  y == navigationPath[i + 1]
         IN {x, y} \subseteq Ids(sourceGraph) => Adjacent(sourceGraph, x, y)

\* How far a node is from the focus: reachable in d steps if a neighbor is in d - 1.
Near(g, anchor, bound) ==
  LET near[d \in 0 .. bound] ==
        [x \in Ids(g) |-> \/ x = anchor
                          \/ d > 0 /\ \E y \in Ids(g) : Adjacent(g, x, y) /\ near[d - 1][y]]
  IN near

WithinHops(g, anchor, n, bound) == {d \in 0 .. bound : Near(g, anchor, bound)[d][n]}

\* The neighborhood is all that is within the radius of the focus, and the depth each
\* node is labelled with is its distance, for whatever filters and times.
NeighborhoodIsBall ==
  LET g == filteredGraph IN
  /\ Ids(projection) = {n \in Ids(g) : anchorId \in Ids(g) /\ WithinHops(g, anchorId, n, hops) # {}}
  /\ \A n \in Ids(projection) : projection.depth[n] = Min(WithinHops(g, anchorId, n, hops))

\* The path to a node is a shortest one, and there is one iff the node is in the radius.
PathIsShortest ==
  \A n \in Ids(filteredGraph) \ {anchorId} :
    LET way == AssociativePath(filteredGraph, anchorId, n, hops) IN
    /\ (way # << >>) = (n \in Ids(projection))
    /\ way # << >> =>
         /\ Head(way) = anchorId /\ Last(way) = n
         /\ Len(way) = projection.depth[n] + 1
         /\ \A i \in 1 .. Len(way) - 1 : Adjacent(filteredGraph, way[i], way[i + 1])

\* A node next to n and one step nearer to the anchor, joined to it by an edge that is
\* drawn; or the edges between what is drawn are more than the budget, and the ones that
\* join these two are not more certain than any that is drawn.
LeadsBack(g, scene, dist, n, m) ==
  /\ m \in DOMAIN dist /\ dist[m] = dist[n] - 1
  /\ \/ Adjacent(scene, n, m)
     \/ LET kept == Among(g, Ids(scene)) IN
        /\ Adjacent(g, n, m) /\ Len(kept.edges) > MaxEdges
        /\ \A e \in EdgesOf(kept), f \in EdgesOf(scene) :
             {e.source, e.target} = {n, m} => e.confidence <= f.confidence

IsScene(g, scene, anchor) ==
  /\ Len(scene.nodes) <= MaxNodes /\ Len(scene.edges) <= MaxEdges
  /\ EdgesOf(scene) \subseteq {e \in EdgesOf(g) : Joins(e, Ids(scene))}
  /\ anchor \in Ids(scene)
  /\ LET dist == GraphDistance(g, anchor) IN
     \A n \in (Ids(scene) \cap DOMAIN dist) \ {anchor} :
       \E m \in Ids(scene) : LeadsBack(g, scene, dist, n, m)

\* What is drawn, of a projection or of what a search found, holds the budget and the
\* focus.  The nodes that are kept have a neighbor one step nearer that is kept too, and
\* the edge to it is drawn unless more certain edges use the budget up (graph.ts:234-254).
SceneKeepsWays ==
  anchorId \in Ids(neighborhood) => IsScene(neighborhood, visibleGraph, anchorId)

\* Every hit that is listed is in the neighborhood that is drawn with it, even when the
\* answer came after the graph, the focus or the filters changed.
HitsAreShown == hits \subseteq Ids(searchGraph)
================================================================================

----------------------------- MODULE ConsoleGraph -----------------------------
(***************************************************************************)
(* The graph operators of the web console (apps/web/src/lib/graph.ts,      *)
(* lib/workStatus.ts and the lists of its components).  A snapshot is a    *)
(* record of two sequences, of nodes                                       *)
(*   [id, kind, confidence, work, timed, from, to, recorded]               *)
(* and of directed edges                                                   *)
(*   [source, target, relation, class, confidence, timed, from, to].       *)
(* All times are small numbers, and confidences are ranks.  Labels,        *)
(* evidence, provenance and the text score of a search are left out.       *)
(***************************************************************************)
EXTENDS Naturals, Sequences, FiniteSets, SequencesExt

CONSTANTS NoNode,   \* undefined, or the empty id
          Open,     \* no validTo: later than any time
          MaxConfidence   \* ranks of confidence are smaller

ASSUME ConfidencesAssumption == MaxConfidence \in Nat

NoGraph == [nodes |-> << >>, edges |-> << >>]

Ids(g) == {n.id : n \in ToSet(g.nodes)}
EdgesOf(g) == ToSet(g.edges)

Joins(e, ids) == {e.source, e.target} \subseteq ids

Adjacent(g, x, y) == \E e \in EdgesOf(g) : {e.source, e.target} = {x, y}

IsSeq(s) == s \in Seq(ToSet(s))

\* What holds of every snapshot: lists of nodes, each with an id of its own, and of edges.
IsGraph(g) ==
  /\ {"nodes", "edges"} \subseteq DOMAIN g
  /\ IsSeq(g.nodes) /\ IsSeq(g.edges)
  /\ \A i, j \in DOMAIN g.nodes : g.nodes[i].id = g.nodes[j].id => i = j
  /\ \A n \in ToSet(g.nodes) : n.confidence \in 0 .. MaxConfidence - 1 /\ n.id # NoNode
  /\ \A e \in ToSet(g.edges) : e.confidence \in Nat

\* A graph whose edges join its own nodes.
IsClosed(g) == IsGraph(g) /\ \A e \in EdgesOf(g) : Joins(e, Ids(g))

\* Where an edge leads to from a node, in either direction.
Neighbor(e, id) == IF e.source = id THEN e.target
                   ELSE IF e.target = id THEN e.source ELSE NoNode

\* The elements of a sequence with these indices, in their order.
Picked(s, indices) ==
  LET kept[n \in 0 .. Len(s)] ==
        IF n = 0 THEN << >>
        ELSE IF n \in indices THEN Append(kept[n - 1], s[n]) ELSE kept[n - 1]
  IN kept[Len(s)]

\* The nodes with these ids and the edges between them.
Among(g, ids) ==
  [nodes |-> Picked(g.nodes, {i \in DOMAIN g.nodes : g.nodes[i].id \in ids}),
   edges |-> Picked(g.edges, {i \in DOMAIN g.edges : Joins(g.edges[i], ids)})]

-----------------------------------------------------------------------------
(* Filters.                                                                *)

IsValidAt(x, t) == x.timed => x.from <= t /\ t <= x.to

FilterAtTime(g, t) ==
  Among([g EXCEPT !.edges = Picked(@, {i \in DOMAIN @ : IsValidAt(@[i], t)})],
        {n.id : n \in {m \in ToSet(g.nodes) : IsValidAt(m, t)}})

\* The focus is never hidden by its kind.
FilterKinds(g, anchor, hiddenKinds, hiddenConfidence) ==
  Among([g EXCEPT !.edges = Picked(@, {i \in DOMAIN @ : @[i].class \notin hiddenConfidence})],
        {n.id : n \in {m \in ToSet(g.nodes) : m.id = anchor \/ m.kind \notin hiddenKinds}})

\* The ends of the time control, for nodes whose valid time is known.
TimeBounds(g, now) ==
  LET times == UNION {{n.from, IF n.to = Open THEN n.recorded ELSE n.to} :
                        n \in {m \in ToSet(g.nodes) : m.timed}}
  IN [min |-> Min(IF times = {} THEN {now} ELSE times), max |-> Max(times \cup {now})]

-----------------------------------------------------------------------------
(* Neighborhoods and distances.                                            *)

\* What is next to these nodes, along the edges in both directions.
Neighbors(g, ids) == (UNION {{Neighbor(e, id) : e \in EdgesOf(g)} : id \in ids}) \ {NoNode}

\* What is reached level by level.
Reached(g, anchor, hops) ==
  LET reached[depth \in 0 .. hops] ==
        IF depth = 0 THEN {anchor}
        ELSE reached[depth - 1] \cup Neighbors(g, reached[depth - 1])
  IN reached

BoundedSubgraph(g, anchor, hops) ==
  IF anchor \in Ids(g) THEN Among(g, Reached(g, anchor, hops)[hops]) ELSE NoGraph

\* The first occurrences of nodes that have not been seen.
FirstSeen(found, seen) ==
  {i \in DOMAIN found :
     found[i] \notin seen \cup {NoNode} /\ \A j \in 1 .. i - 1 : found[j] # found[i]}

New(found, seen) == Picked(found, FirstSeen(found, seen))

\* The nodes that a visit of this one finds, in the order of the edges.
Discovered(g, id, seen) == New([i \in DOMAIN g.edges |-> Neighbor(g.edges[i], id)], seen)

\* Mutant: what was found last is visited first.
NextStack(queue, found, target) == found \o Tail(queue)

\* What is still to visit after a node: the search ends with the target, but for the
\* nodes found in the same visit after it.
NextQueue(queue, found, target) ==
  LET hit == {k \in DOMAIN found : found[k] = target}
  IN IF hit = {} THEN Tail(queue) \o found
     ELSE SubSeq(found, (CHOOSE k \in hit : TRUE) + 1, Len(found))

\* A visit of the head of the queue.
Visited(s, found, target) ==
  LET seen == DOMAIN s.back
  IN [queue |-> NextQueue(s.queue, found, target),
      back |-> [n \in seen \cup ToSet(found) |->
                  IF n \in seen THEN s.back[n] ELSE Head(s.queue)],
      dist |-> [n \in seen \cup ToSet(found) |->
                  IF n \in seen THEN s.dist[n] ELSE s.dist[Head(s.queue)] + 1]]

Visit(g, s, target) ==
  IF s.queue = << >> THEN s
  ELSE Visited(s, Discovered(g, Head(s.queue), DOMAIN s.back), target)

\* A breadth-first search, visit by visit: the node each was found from, and how far out.
Searched(g, source, target) ==
  LET after[k \in 0 .. Len(g.nodes)] ==
        IF k = 0 THEN [queue |-> <<source>>, back |-> [n \in {source} |-> source],
                       dist |-> [n \in {source} |-> 0]]
        ELSE Visit(g, after[k - 1], target)
  IN after

Explored(g, source, target) == Searched(g, source, target)[Len(g.nodes)]

GraphDistance(g, anchor) == Explored(g, anchor, NoNode).dist

Labelled(g, dist) ==
  [nodes |-> g.nodes, edges |-> g.edges,
   depth |-> [id \in Ids(g) |-> IF id \in DOMAIN dist THEN dist[id] ELSE 0]]

Measured(g, anchor) == Labelled(g, GraphDistance(g, anchor))

\* The neighborhood and the depth each node is labelled with.  Its order, by depth and
\* confidence, is left out.
AssociativeSubgraph(g, anchor, hops) == Measured(BoundedSubgraph(g, anchor, hops), anchor)

\* From a node back the way it was found, node by node.
Cursors(back, target) ==
  LET cursor[k \in 0 .. Cardinality(DOMAIN back)] ==
        IF k = 0 THEN target ELSE back[cursor[k - 1]]
  IN cursor

\* The nodes from the source to a node, along the way it was found.
WayBack(back, source, target) ==
  LET cursor == Cursors(back, target)
      steps == CHOOSE k \in DOMAIN cursor :
                 cursor[k] = source /\ \A j \in 0 .. k - 1 : cursor[j] # source
  IN IF target \in DOMAIN back
     THEN [i \in 1 .. steps + 1 |-> cursor[steps + 1 - i]] ELSE << >>

\* The nodes along the path, or << >> if there is none.
ShortestPath(g, source, target) ==
  IF source = target THEN <<source>>
  ELSE IF {source, target} \subseteq Ids(g)
       THEN WayBack(Explored(g, source, target).back, source, target) ELSE << >>

\* Mutant: the path may leave the radius.
AssociativePathUnbounded(g, source, target, hops) == ShortestPath(g, source, target)

AssociativePath(g, source, target, hops) ==
  ShortestPath(BoundedSubgraph(g, source, hops), source, target)

-----------------------------------------------------------------------------
(* What is drawn and listed.                                               *)

\* The indices that come before this one, by falling keys; elements with equal keys keep
\* their order.
Before(key, i) == {j \in DOMAIN key : key[j] > key[i] \/ (key[j] = key[i] /\ j < i)}

\* The indices of the first n elements.
FirstBy(n, key) == {i \in DOMAIN key : Cardinality(Before(key, i)) < n}

Confidences(s) == [i \in DOMAIN s |-> s[i].confidence]

\* Mutant: the most certain nodes are kept, near or far.
Certainty(g, dist) == Confidences(g.nodes)

\* A key that orders nodes by distance first, then by confidence.
Nearness(g, dist) ==
  [i \in DOMAIN g.nodes |->
     g.nodes[i].confidence +
       MaxConfidence * (Len(g.nodes) - (IF g.nodes[i].id \in DOMAIN dist
                                        THEN dist[g.nodes[i].id] ELSE Len(g.nodes)))]

\* The most certain edges between the nodes that are kept; their order is left out.
WithEdges(g, n) ==
  [nodes |-> g.nodes, edges |-> Picked(g.edges, FirstBy(n, Confidences(g.edges)))]

\* The nearest nodes, the more certain ones first.
ApplySceneBudget(g, maxNodes, maxEdges, anchor) ==
  IF Len(g.nodes) <= maxNodes /\ Len(g.edges) <= maxEdges
  THEN [nodes |-> g.nodes, edges |-> g.edges]
  ELSE WithEdges(Among(g, {g.nodes[i].id : i \in FirstBy(maxNodes, Nearness(g, GraphDistance(g, anchor)))}),
                 maxEdges)

\* The other ends of a node's edges, as the drawer and the list show them.
Connections(g, id) ==
  {Neighbor(e, id) : e \in {x \in EdgesOf(g) : id \in {x.source, x.target}}} \cap Ids(g)

\* Who blocks a task, as far as the snapshot shows it.
Blockers(g, id) ==
  {e.source : e \in {x \in EdgesOf(g) : x.relation = "BLOCKS" /\ x.target = id}} \cap Ids(g)

\* The tasks that wait for somebody and the test results of the work-status panel.
WorkItems(g) ==
  {n.id : n \in {m \in ToSet(g.nodes) :
     \/ m.work = "test"
     \/ m.kind = "Task" /\ (m.work \notin {"completed", "cancelled"} \/ Blockers(g, m.id) # {})}}

\* What the command center offers: the workstreams, its grouping by lane and title left out.
Workstreams(g) == {n.id : n \in {m \in ToSet(g.nodes) : m.kind = "Workstream"}}
================================================================================

-------------------------- MODULE EventStoreReplay --------------------------
(***************************************************************************)
(* Reference definitions for what the event store derives from its         *)
(* journal: the graph that the recorded events project to, replayed in     *)
(* sequence order, and the graph a remote replica obtains from the outbox  *)
(* alone.                                                                  *)
(***************************************************************************)
EXTENDS EventStoreRefinement

\* The graphs of a projection: g after the first n facts of e.
Projection(g, e) ==
  LET graph[n \in 0 .. Len(Facts(e))] ==
        IF n = 0 THEN g ELSE Apply(graph[n - 1], e, Facts(e)[n])
  IN  graph

\* The whole projection of one event.
Projected(g, e) == Projection(g, e)[Len(Facts(e))]

\* The graphs of a replay: what the first n events project to.
Replays(journal) ==
  LET graph[n \in 0 .. Len(journal)] ==
        IF n = 0 THEN EmptyGraph ELSE Projected(graph[n - 1], journal[n])
  IN  graph

Replay(journal) == Replays(journal)[Len(journal)]

\* What the graph payload of the outbox says of a node or of an edge.
Published(table) ==
  [x \in DOMAIN table |-> [review |-> table[x].review, latest |-> table[x].latest,
                           start |-> table[x].start]]

PublishedEdges(table) ==
  [x \in DOMAIN table |-> [source |-> table[x].source, target |-> table[x].target,
                           review |-> table[x].review, latest |-> table[x].latest]]

PublishedGraph(g) == [nodes |-> Published(g.nodes), edges |-> PublishedEdges(g.edges)]

Overlay(old, new) ==
  [x \in DOMAIN old \cup DOMAIN new |-> IF x \in DOMAIN new THEN new[x] ELSE old[x]]

OverlayGraph(g, h) ==
  [nodes |-> Overlay(g.nodes, h.nodes), edges |-> Overlay(g.edges, h.edges)]

\* The graph of a replica after one more payload, whose rows win.
Received(g, payload) == OverlayGraph(g, PublishedGraph(payload))

\* The payloads of the outbox rows, in sequence order.
OutboxOf(d) ==
  [n \in 1 .. d.lastSpool |-> (CHOOSE s \in d.spool : s.sequence = n).payload]

\* The graphs of a replica that applies them one after the other.
Replicas(outbox) ==
  LET graph[n \in 0 .. Len(outbox)] ==
        IF n = 0 THEN EmptyGraph ELSE Received(graph[n - 1], outbox[n])
  IN  graph

Replica(outbox) == Replicas(outbox)[Len(outbox)]

\* docs/architecture.md, write path: "Derived state can always be rebuilt from
\* the event log".  The committed graph is the one the recorded events project
\* to, replayed in sequence order: refused events, retries, crashes between two
\* upserts and resets leave nothing behind.
GraphIsReplay == db.graph = Replay(Journal)

\* The outbox alone rebuilds what it publishes of the graph: no change of a node
\* or edge (a merge, an earlier valid time, a review) misses its outbox row, and
\* the row holds the value after the event, not an intermediate one.
ReplicaFollows == Replica(OutboxOf(db)) = PublishedGraph(db.graph)

\* Why they are kept.  The open transaction has projected the first facts of its event
\* on the committed graph, and its changed rows, laid over that graph, are the graph it
\* has by now.  No two outbox rows have one sequence number.
DerivationInv ==
  /\ GraphIsReplay /\ ReplicaFollows
  /\ \A s, t \in db.spool : s.sequence = t.sequence => s = t
  /\ step # "project" => pos = 1 /\ changed = EmptyGraph
  /\ step = "project" =>
       /\ pos - 1 \in 0 .. Len(Facts(request))
       /\ image.graph = Projection(db.graph, request)[pos - 1]
       /\ image.graph = OverlayGraph(db.graph, changed)
=============================================================================

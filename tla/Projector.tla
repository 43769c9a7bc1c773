------------------------------ MODULE Projector ------------------------------
(***************************************************************************)
(* The canonical projector of packages/core: what one recorded event does  *)
(* to the graph of nodes and edges.  An event is first turned into the     *)
(* sequence of graph facts that the projector asserts, in the order in     *)
(* which it asserts them (Facts); each fact is then applied to the graph   *)
(* by one upsert (Apply), or is refused (Accepts).  EventStore.tla runs    *)
(* the facts one at a time inside a SQLite transaction.                    *)
(*                                                                         *)
(* An event is a record.  Common fields:                                   *)
(*   id, digest   CloudEvents id and SHA-256 of the canonical content      *)
(*   kind         "run" (the base event types), "graph" (relationship and  *)
(*                import events), "feedback", "unsupported"                *)
(*   time         event time                                               *)
(*   nodes, edges explicit graph facts carried by the event                *)
(* and, for a run, workspace, actor, workstream, run, parent, semantic     *)
(* (the topics, tasks, decisions, claims and artifacts); for feedback,     *)
(* target and review.                                                      *)
(***************************************************************************)
EXTENDS Naturals, Sequences, SequencesExt

CONSTANT None            \* absence of a parent session

\* The partial function f with key k bound to v: one upsert into a table.
Put(f, k, v) ==
  [x \in DOMAIN f \cup {k} |-> IF x = k THEN v ELSE f[x]]

EmptyTable == [x \in {} |-> None]

-----------------------------------------------------------------------------
(* The facts an event asserts.                                             *)

\* What a fact says of the event that created its row, of its valid time and of its
\* latest revision.
OwnStamp(e) == [creation |-> e.id, start |-> e.time, latest |-> e.id]

NodeFact(id, review, stamp) ==
  [op |-> "node", id |-> id, review |-> review, stamp |-> stamp,
   source |-> None, target |-> None]

EdgeFact(op, id, review, stamp, source, target) ==
  [op |-> op, id |-> id, review |-> review, stamp |-> stamp,
   source |-> source, target |-> target]

\* A node or edge that does not validate: an error in the middle of the projection.
Malformed(e) ==
  [op |-> "malformed", id |-> None, review |-> "UNREVIEWED", stamp |-> OwnStamp(e),
   source |-> None, target |-> None]

\* An edge without an id of its own is identified by its event and position.
OwnEdgeId(e, label, i) == <<e.id, label, i>>

\* What the event asserts on its own account, unreviewed.
OwnNode(e, id) == NodeFact(id, "UNREVIEWED", OwnStamp(e))

OwnEdge(e, op, label, i, source, target) ==
  EdgeFact(op, OwnEdgeId(e, label, i), "UNREVIEWED", OwnStamp(e), source, target)

\* The four nodes and the two edges every agent run has, and the edge to the
\* parent session, asserted only when the parent is already in the graph.
RunFacts(e) ==
  << OwnNode(e, e.workspace), OwnNode(e, e.actor), OwnNode(e, e.workstream), OwnNode(e, e.run),
     OwnEdge(e, "edge", "workstream-run", 0, e.workstream, e.run),
     OwnEdge(e, "edge", "run-actor", 0, e.run, e.actor) >>
  \o IF e.parent = None THEN <<>>
     ELSE << OwnEdge(e, "edge if target", "run-continuation", 0, e.run, e.parent) >>

\* One topic, task, decision, claim or artifact of a run.  A decision points
\* at the run, everything else is pointed at by it; a claim has an asserter.
SemanticFacts(e, i) ==
  LET s    == e.semantic[i]
      Link == IF s.field = "decisions"
              THEN OwnEdge(e, "edge", s.field, i, s.id, e.run)
              ELSE OwnEdge(e, "edge", s.field, i, e.run, s.id)
  IN  IF ~s.wellFormed THEN << Malformed(e) >>
      ELSE << NodeFact(s.id, s.review, OwnStamp(e)), Link >>
           \o IF s.field # "claims" THEN <<>>
              ELSE << OwnEdge(e, "edge", "claim-actor", i, s.id, e.actor) >>

\* An explicit node or edge in the canonical form, as another export holds it, brings
\* its creating event, valid time and latest revision with it.
Stamp(e, item) == IF item.stamp = None THEN OwnStamp(e) ELSE item.stamp

ExplicitNode(e, n) ==
  IF n.wellFormed THEN NodeFact(n.id, n.review, Stamp(e, n)) ELSE Malformed(e)

\* An explicit edge keeps its own id when it has one: a later event that names
\* the same id asserts the same edge again.
ExplicitEdge(e, i) ==
  LET d == e.edges[i]
  IN  IF ~d.wellFormed THEN Malformed(e)
      ELSE EdgeFact("edge",
             IF d.id = None THEN OwnEdgeId(e, "explicit", i) ELSE d.id,
             d.review, Stamp(e, d), d.source, d.target)

ExplicitFacts(e) ==
  [i \in DOMAIN e.nodes |-> ExplicitNode(e, e.nodes[i])]
    \o [i \in DOMAIN e.edges |-> ExplicitEdge(e, i)]

Facts(e) ==
  CASE e.kind = "run" ->
         RunFacts(e)
           \o FlattenSeq([i \in DOMAIN e.semantic |-> SemanticFacts(e, i)])
           \o ExplicitFacts(e)
    [] e.kind = "graph" -> ExplicitFacts(e)
    [] e.kind = "feedback" ->
         << [op |-> "feedback", id |-> e.target, review |-> e.review,
             stamp |-> OwnStamp(e), source |-> None, target |-> None] >>
    [] OTHER -> <<>>

-----------------------------------------------------------------------------
(* Applying one fact to a graph g, a record of the tables nodes and edges. *)

EmptyGraph == [nodes |-> EmptyTable, edges |-> EmptyTable]

EndpointsExist(g, f) == f.source \in DOMAIN g.nodes /\ f.target \in DOMAIN g.nodes

\* FALSE where the projector raises and the whole event is refused.
Accepts(g, f) ==
  /\ f.op # "malformed"
  /\ f.op = "edge" => EndpointsExist(g, f)
  /\ f.op = "edge if target" /\ f.target \in DOMAIN g.nodes => EndpointsExist(g, f)
  /\ f.op = "feedback" => f.id \in DOMAIN g.nodes \cup DOMAIN g.edges

WritesNode(g, f) ==
  f.op = "node" \/ (f.op = "feedback" /\ f.id \in DOMAIN g.nodes)

WritesEdge(g, f) ==
  \/ f.op = "edge"
  \/ f.op = "edge if target" /\ f.target \in DOMAIN g.nodes
  \/ f.op = "feedback" /\ f.id \notin DOMAIN g.nodes

\* Mutant: the merged node takes the valid time of the latest arrival.
NewNodeLatest(g, f) ==
  [creation |-> IF f.id \in DOMAIN g.nodes THEN g.nodes[f.id].creation ELSE f.stamp.creation,
   start |-> f.stamp.start, review |-> f.review, latest |-> f.stamp.latest]

\* A node that is asserted again keeps its creating event and its earliest valid
\* time.  Everything else is replaced, a review state set by feedback included.
NewNode(g, f) ==
  LET known == f.id \in DOMAIN g.nodes
  IN  [creation |-> IF known THEN g.nodes[f.id].creation ELSE f.stamp.creation,
       start    |-> IF known /\ g.nodes[f.id].start < f.stamp.start
                    THEN g.nodes[f.id].start ELSE f.stamp.start,
       review   |-> f.review,
       latest   |-> f.stamp.latest]

\* An edge that is asserted again keeps only its creating event.
NewEdge(g, f) ==
  [creation |-> IF f.id \in DOMAIN g.edges THEN g.edges[f.id].creation ELSE f.stamp.creation,
   source   |-> f.source,
   target   |-> f.target,
   start    |-> f.stamp.start,
   review   |-> f.review,
   latest   |-> f.stamp.latest]

\* Feedback on a node or an edge changes its review state and nothing else.
ReviewedNode(n, e, f) ==
  [creation |-> n.creation, start |-> n.start, review |-> f.review, latest |-> e.id]

ReviewedEdge(d, e, f) ==
  [creation |-> d.creation, source |-> d.source, target |-> d.target,
   start |-> d.start, review |-> f.review, latest |-> e.id]

\* The row that fact f of event e writes, given the graph g it finds.  Feedback
\* looks for a node first, and for an edge only when there is none.
NodeRow(g, e, f) == IF f.op = "node" THEN NewNode(g, f)
                                     ELSE ReviewedNode(g.nodes[f.id], e, f)

EdgeRow(g, e, f) == IF f.op = "feedback" THEN ReviewedEdge(g.edges[f.id], e, f)
                                         ELSE NewEdge(g, f)

\* The graph h with that row put into it.
Upsert(h, g, e, f) ==
  [nodes |-> IF WritesNode(g, f) THEN Put(h.nodes, f.id, NodeRow(g, e, f)) ELSE h.nodes,
   edges |-> IF WritesEdge(g, f) THEN Put(h.edges, f.id, EdgeRow(g, e, f)) ELSE h.edges]

Apply(g, e, f) == Upsert(g, g, e, f)
=============================================================================

---------------------------- MODULE MCEventStore ----------------------------
(***************************************************************************)
(* Instances of EventStore for TLC.                                        *)
(***************************************************************************)
EXTENDS EventStoreReplay

CONSTANTS wsp, act, str, runA, runB, topic, link   \* node ids and an edge id

Run(id, digest, time, run, parent, semantic) ==
  [id |-> id, digest |-> digest, kind |-> "run", time |-> time,
   workspace |-> wsp, actor |-> act, workstream |-> str, run |-> run,
   parent |-> parent, semantic |-> semantic, nodes |-> <<>>, edges |-> <<>>]

Graph(id, time, nodes, edges) ==
  [id |-> id, digest |-> 1, kind |-> "graph", time |-> time,
   nodes |-> nodes, edges |-> edges]

Feedback(id, target, review) ==
  [id |-> id, digest |-> 1, kind |-> "feedback", time |-> 3,
   target |-> target, review |-> review]

Topic(id) == [id |-> id, review |-> "UNREVIEWED", stamp |-> None, wellFormed |-> TRUE]

Link(source, target) ==
  [id |-> link, source |-> source, target |-> target, review |-> "UNREVIEWED",
   stamp |-> None, wellFormed |-> TRUE]

Semantic(id, field, review) == [id |-> id, field |-> field, review |-> review, wellFormed |-> TRUE]

\* A run that continues another one, with every shape of semantic facts; another
\* event under the same id; and the same run without facts.
Claimant == Run("c", 1, 2, runA, runB,
                << Semantic(topic, "claims", "UNREVIEWED"), Semantic(runB, "artifacts", "UNREVIEWED"),
                   Semantic(topic, "decisions", "NEEDS_REVIEW") >>)
Reused   == Run("c", 2, 2, runA, None, <<>>)

\* An import of another export, with a node that is later than the event and an edge
\* that was reviewed there, and of facts of its own, one edge of them without an id.
Exported(time) == [creation |-> "y", start |-> time, latest |-> "x"]

Again    == Graph("h", 1, << Topic(topic), [Topic(runA) EXCEPT !.stamp = Exported(3)] >>,
                  << [Link(runA, topic) EXCEPT !.stamp = Exported(2), !.review = "ACCEPTED"],
                     [Link(topic, topic) EXCEPT !.id = None] >>)

\* Refused after nodes were written: a task that does not validate, and an edge to
\* nowhere or, where the run exists, the edge without explanation that follows it.
Broken   == Run("y", 1, 1, runA, None,
                << [Semantic(topic, "tasks", "UNREVIEWED") EXCEPT !.wellFormed = FALSE] >>)
Stray    == Graph("x", 1, << Topic(topic) >>,
                  << Link(runA, topic), [Link(topic, topic) EXCEPT !.wellFormed = FALSE] >>)

Accept   == Feedback("f", topic, "ACCEPTED")
RejectEdge == Feedback("r", link, "REJECTED")

CoreEvents == {Claimant, Reused, Again, Broken, Stray, Accept, RejectEdge}

DemoOnly == {"h", "y"}
=============================================================================

----------------------------- MODULE MCExploration -----------------------------
EXTENDS Exploration

N(id, kind, confidence, work) ==
  [id |-> id, kind |-> kind, confidence |-> confidence, work |-> work,
   timed |-> FALSE, from |-> 1, to |-> Open, recorded |-> Now]

E(source, target, relation, class, confidence) ==
  [source |-> source, target |-> target, relation |-> relation, class |-> class,
   confidence |-> confidence, timed |-> FALSE, from |-> 1, to |-> Open]

From(x, t) == [x EXCEPT !.timed = TRUE, !.from = t]

\* A ring of five, one of whose nodes and edges came later, with a task and its blocker.
Ring ==
  LET w == N("w", "Workstream", 3, "none")  t == N("t", "Task", 1, "completed")
      r == N("r", "Run", 2, "none")         d == From(N("d", "Task", 3, "pending"), 2)
      a == From(N("a", "Run", 1, "test"), 1)
      wt == E("w", "t", "HAS", "EXTRACTED", 2)    rw == E("r", "w", "HAS", "EXTRACTED", 3)
      td == From(E("t", "d", "BLOCKS", "EXTRACTED", 1), 1)
      ad == E("a", "d", "VERIFIES", "INFERRED", 1) ra == From(E("r", "a", "HAS", "EXTRACTED", 1), 2)
  IN [nodes |-> <<r, w, t, d, a>>, edges |-> <<wt, rw, td, ad, ra>>]

MCDemoGraph ==
  [nodes |-> <<N("dw", "Workstream", 1, "none"), N("dt", "Task", 1, "pending")>>,
   edges |-> <<E("dw", "dt", "HAS", "EXTRACTED", 1)>>]

\* An empty store, a part of the ring, then the ring and the demonstration.
MCHistory ==
  LET grown == [nodes |-> Ring.nodes \o MCDemoGraph.nodes, edges |-> Ring.edges \o MCDemoGraph.edges]
  IN <<NoGraph, Among(Ring, {"r", "w", "t"}), grown>>

MCAnswers == {{}, {"t", "a", "d"}}
===============================================================================

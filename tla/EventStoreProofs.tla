-------------------------- MODULE EventStoreProofs --------------------------
(***************************************************************************)
(* Safety of the event store for any writers and any events: an inductive  *)
(* invariant that relates the open transaction to the committed database,  *)
(* the properties of EventStore.tla that follow from it, that the store    *)
(* implements the abstract journal of EventLog.tla, and that the graph and *)
(* the outbox are what the journal says (EventStoreReplay.tla).            *)
(***************************************************************************)
EXTENDS EventStoreReplay, WellFoundedInduction, TLAPS

-----------------------------------------------------------------------------
(* The tables and the upserts.                                             *)

\* Put binds one key and leaves the others alone: an upsert changes one row.
LEMMA PutBinds ==
  ASSUME NEW f, NEW k, NEW v
  PROVE  /\ DOMAIN Put(f, k, v) = DOMAIN f \cup {k}
         /\ Put(f, k, v)[k] = v
         /\ \A x \in DOMAIN f : x # k => Put(f, k, v)[x] = f[x]
         /\ IsTable(Put(f, k, v))
BY DEF Put, IsTable

\* The facts a request asserts are well typed.
LEMMA FactTyped ==
  ASSUME NEW e \in Events, NEW i \in DOMAIN Facts(e)
  PROVE  e.id \in EventIds /\ Facts(e)[i].review \in ReviewStates /\ Facts(e)[i].stamp \in Stamps
BY EventsAssumption DEF EventIds

\* The row an accepted fact writes is well typed.
LEMMA RowTyped ==
  ASSUME NEW g, IsGraph(g), NEW e, e.id \in EventIds,
         NEW f, f.review \in ReviewStates, f.stamp \in Stamps, Accepts(g, f)
  PROVE  /\ WritesNode(g, f) => NodeRow(g, e, f) \in NodeRows
         /\ WritesEdge(g, f) => IsEdgeRow(EdgeRow(g, e, f))
<1>1. ASSUME WritesNode(g, f) PROVE NodeRow(g, e, f) \in NodeRows
  <2>1. CASE f.op = "node"
    <3>1. f.id \in DOMAIN g.nodes => g.nodes[f.id] \in NodeRows
      BY DEF IsGraph
    <3> QED BY <2>1, <3>1 DEF NodeRow, NewNode, NodeRows, Stamps
  <2>2. CASE f.op # "node"
    <3>1. g.nodes[f.id] \in NodeRows
      BY <1>1, <2>2 DEF IsGraph, WritesNode
    <3> QED BY <2>2, <3>1 DEF NodeRow, ReviewedNode, NodeRows
  <2> QED BY <2>1, <2>2
<1>2. ASSUME WritesEdge(g, f) PROVE IsEdgeRow(EdgeRow(g, e, f))
  <2>1. CASE f.op = "feedback"
    <3>1. f.id \in DOMAIN g.edges
      BY <1>2, <2>1 DEF WritesEdge, Accepts
    <3>2. IsEdgeRow(g.edges[f.id])
      BY <3>1 DEF IsGraph, IsEdgeRow
    <3> QED BY <2>1, <3>2 DEF EdgeRow, ReviewedEdge, IsEdgeRow
  <2>2. CASE f.op # "feedback"
    <3>1. f.id \in DOMAIN g.edges => g.edges[f.id].creation \in EventIds
      BY DEF IsGraph, IsEdgeRow
    <3> QED BY <2>2, <3>1 DEF EdgeRow, NewEdge, IsEdgeRow, Stamps
  <2> QED BY <2>1, <2>2
<1> QED BY <1>1, <1>2

\* Every row of a table after an upsert is the new one or one that was there.
LEMMA PutCases ==
  ASSUME NEW t, NEW k, NEW v, NEW x \in DOMAIN Put(t, k, v)
  PROVE  (x = k /\ Put(t, k, v)[x] = v) \/ (x \in DOMAIN t /\ x # k /\ Put(t, k, v)[x] = t[x])
BY DEF Put

\* An accepted fact keeps a graph a graph.
LEMMA UpsertTyped ==
  ASSUME NEW h, IsGraph(h), NEW g, IsGraph(g), NEW e, e.id \in EventIds,
         NEW f, f.review \in ReviewStates, f.stamp \in Stamps, Accepts(g, f)
  PROVE  IsGraph(Upsert(h, g, e, f))
<1> DEFINE u  == Upsert(h, g, e, f)
<1>1. IsTable(h.nodes) /\ IsTable(h.edges)
  BY DEF IsGraph
<1>2. IsTable(u.nodes) /\ IsTable(u.edges)
  BY <1>1, PutBinds DEF Upsert
<1>3. ASSUME NEW x \in DOMAIN u.nodes PROVE u.nodes[x] \in NodeRows
  <2>1. \A y \in DOMAIN h.nodes : h.nodes[y] \in NodeRows
    BY DEF IsGraph
  <2>2. CASE WritesNode(g, f)
    <3>1. NodeRow(g, e, f) \in NodeRows
      BY <2>2, RowTyped
    <3>2. u.nodes = Put(h.nodes, f.id, NodeRow(g, e, f))
      BY <2>2 DEF Upsert
    <3> QED BY <1>3, <2>1, <3>1, <3>2, PutCases
  <2>3. CASE ~WritesNode(g, f)
    BY <1>3, <2>1, <2>3 DEF Upsert
  <2> QED BY <2>2, <2>3
<1>4. ASSUME NEW x \in DOMAIN u.edges PROVE IsEdgeRow(u.edges[x])
  <2>1. \A y \in DOMAIN h.edges : IsEdgeRow(h.edges[y])
    BY DEF IsGraph
  <2>2. CASE WritesEdge(g, f)
    <3>1. IsEdgeRow(EdgeRow(g, e, f))
      BY <2>2, RowTyped
    <3>2. u.edges = Put(h.edges, f.id, EdgeRow(g, e, f))
      BY <2>2 DEF Upsert
    <3>3. u.edges[x] = EdgeRow(g, e, f) \/ (x \in DOMAIN h.edges /\ u.edges[x] = h.edges[x])
      BY <1>4, <3>2, PutCases
    <3> QED BY <2>1, <3>1, <3>3
  <2>3. CASE ~WritesEdge(g, f)
    BY <1>4, <2>1, <2>3 DEF Upsert
  <2> QED BY <2>2, <2>3
<1>5. u = [nodes |-> u.nodes, edges |-> u.edges]
  BY DEF Upsert
<1> HIDE DEF u
<1>6. IsGraph(u)
  BY <1>2, <1>3, <1>4, <1>5 DEF IsGraph
<1> QED BY <1>6 DEF u

\* No fact removes a node, and a node that is asserted again keeps its origin.
LEMMA ApplyKeepsNodes ==
  ASSUME NEW g, IsGraph(g), NEW e, e.id \in EventIds,
         NEW f, f.review \in ReviewStates, f.stamp \in Stamps, Accepts(g, f)
  PROVE  /\ DOMAIN g.nodes \subseteq DOMAIN Apply(g, e, f).nodes
         /\ OriginsKept(g, Apply(g, e, f))
<1>1. \A x \in DOMAIN g.nodes : g.nodes[x].start \in Nat
  BY DEF IsGraph, NodeRows
<1>2. CASE WritesNode(g, f)
  <2> DEFINE r == NodeRow(g, e, f)
             h == Apply(g, e, f)
  <2>1. h.nodes = Put(g.nodes, f.id, r)
    BY <1>2 DEF Apply, Upsert
  <2>2. ASSUME f.id \in DOMAIN g.nodes
        PROVE  r.creation = g.nodes[f.id].creation /\ r.start <= g.nodes[f.id].start
    <3>1. g.nodes[f.id].start \in Nat
      BY <1>1, <2>2
    <3>2. CASE f.op = "node"
      BY <2>2, <3>1, <3>2 DEF NodeRow, NewNode, Stamps
    <3>3. CASE f.op # "node"
      BY <3>1, <3>3 DEF NodeRow, ReviewedNode
    <3> QED BY <3>2, <3>3
  <2> HIDE DEF r, h
  <2>3. DOMAIN g.nodes \subseteq DOMAIN h.nodes
    BY <2>1 DEF Put
  <2>4. ASSUME NEW x \in DOMAIN g.nodes
        PROVE  h.nodes[x].creation = g.nodes[x].creation /\ h.nodes[x].start <= g.nodes[x].start
    <3>1. CASE x = f.id
      <4>1. h.nodes[x] = r
        BY <2>1, <3>1 DEF Put
      <4> QED BY <2>2, <3>1, <4>1
    <3>2. CASE x # f.id
      <4>1. h.nodes[x] = g.nodes[x]
        BY <2>1, <3>2 DEF Put
      <4> QED BY <1>1, <4>1
    <3> QED BY <3>1, <3>2
  <2> QED BY <2>3, <2>4 DEF OriginsKept, h
<1>3. CASE ~WritesNode(g, f)
  <2>1. Apply(g, e, f).nodes = g.nodes
    BY <1>3 DEF Apply, Upsert
  <2> QED BY <1>1, <2>1 DEF OriginsKept
<1> QED BY <1>2, <1>3

\* An accepted fact leaves no dangling edge.
LEMMA ApplyKeepsClosed ==
  ASSUME NEW g, IsGraph(g), Closed(g), NEW e, e.id \in EventIds,
         NEW f, f.review \in ReviewStates, f.stamp \in Stamps, Accepts(g, f)
  PROVE  Closed(Apply(g, e, f))
<1> DEFINE h == Apply(g, e, f)
           r == EdgeRow(g, e, f)
<1>1. DOMAIN g.nodes \subseteq DOMAIN h.nodes
  BY ApplyKeepsNodes
<1>2. ASSUME WritesEdge(g, f) PROVE EndpointsExist(g, r)
  <2>1. CASE f.op = "feedback"
    <3>1. f.id \in DOMAIN g.edges
      BY <1>2, <2>1 DEF WritesEdge, Accepts
    <3>2. r.source = g.edges[f.id].source /\ r.target = g.edges[f.id].target
      BY <2>1 DEF EdgeRow, ReviewedEdge
    <3> QED BY <3>1, <3>2 DEF Closed, EndpointsExist
  <2>2. CASE f.op # "feedback"
    <3>1. f.source \in DOMAIN g.nodes /\ f.target \in DOMAIN g.nodes
      BY <1>2, <2>2 DEF WritesEdge, Accepts, EndpointsExist
    <3>2. r.source = f.source /\ r.target = f.target
      BY <2>2 DEF EdgeRow, NewEdge
    <3> QED BY <3>1, <3>2 DEF EndpointsExist
  <2> QED BY <2>1, <2>2
<1>3. h.edges = IF WritesEdge(g, f) THEN Put(g.edges, f.id, r) ELSE g.edges
  BY DEF Apply, Upsert
<1> HIDE DEF h, r
<1>4. ASSUME NEW x \in DOMAIN h.edges PROVE EndpointsExist(g, h.edges[x])
  <2>1. CASE WritesEdge(g, f) /\ x = f.id
    <3>1. h.edges[x] = r
      BY <1>3, <2>1 DEF Put
    <3> QED BY <1>2, <2>1, <3>1
  <2>2. CASE ~(WritesEdge(g, f) /\ x = f.id)
    <3>1. x \in DOMAIN g.edges /\ h.edges[x] = g.edges[x]
      BY <1>3, <1>4, <2>2 DEF Put
    <3> QED BY <3>1 DEF Closed
  <2> QED BY <2>1, <2>2
<1>5. \A x \in DOMAIN h.edges : EndpointsExist(h, h.edges[x])
  BY <1>1, <1>4 DEF EndpointsExist
<1> QED BY <1>5 DEF Closed, h

-----------------------------------------------------------------------------
(* The statements of a transaction.                                        *)

LEMMA EmptyIsSound ==
  /\ IsGraph(EmptyGraph) /\ IsDatabase(EmptyDatabase)
  /\ ContiguousIn(EmptyDatabase) /\ AlignedIn(EmptyDatabase) /\ Closed(EmptyDatabase.graph)
<1>1. IsGraph(EmptyGraph)
  BY DEF IsGraph, EmptyGraph, EmptyTable, IsTable
<1>2. IsDatabase(EmptyDatabase)
  BY <1>1 DEF IsDatabase, EmptyDatabase
<1>3. Closed(EmptyDatabase.graph)
  BY DEF Closed, EmptyDatabase, EmptyGraph, EmptyTable
<1>4. ContiguousIn(EmptyDatabase) /\ AlignedIn(EmptyDatabase)
  BY DEF ContiguousIn, AlignedIn, EmptyDatabase
<1> QED BY <1>1, <1>2, <1>3, <1>4

\* Each statement turns a database into a database.
LEMMA StatementsTyped ==
  ASSUME NEW d, IsDatabase(d), NEW e \in Events, NEW g, IsGraph(g)
  PROVE  /\ IsDatabase(WithEvent(d, e))
         /\ IsDatabase(WithGraph(d, g))
         /\ IsDatabase(WithOutboxRow(d, e, g))
<1>1. e.id \in EventIds
  BY DEF EventIds
<1>2. IsDatabase(WithEvent(d, e))
  BY DEF IsDatabase, WithEvent, EventRows
<1>3. IsDatabase(WithGraph(d, g))
  BY DEF IsDatabase, WithGraph
<1>4. IsDatabase(WithOutboxRow(d, e, g))
  BY <1>1 DEF IsDatabase, WithOutboxRow
<1> QED BY <1>2, <1>3, <1>4

\* What a set of rows projects to when one row is added.
LEMMA OneMoreRow ==
  ASSUME NEW S, NEW n
  PROVE  /\ {r.sequence : r \in S \cup {n}} = {r.sequence : r \in S} \cup {n.sequence}
         /\ {<<r.sequence, r.event.id>> : r \in S \cup {n}}
              = {<<r.sequence, r.event.id>> : r \in S} \cup {<<n.sequence, n.event.id>>}
         /\ {<<r.sequence, r.event>> : r \in S \cup {n}}
              = {<<r.sequence, r.event>> : r \in S} \cup {<<n.sequence, n.event>>}
OBVIOUS

\* The next AUTOINCREMENT value extends the journal without a gap, and a new id
\* keeps its ids distinct.
LEMMA EventExtends ==
  ASSUME NEW d, IsDatabase(d), ContiguousIn(d), NEW e \in Events, RowsOf(d, e.id) = {}
  PROVE  ContiguousIn(WithEvent(d, e))
<1> DEFINE new == [sequence |-> d.lastEvent + 1, event |-> e]
           x   == WithEvent(d, e)
<1>1. d.lastEvent \in Nat /\ d.events \subseteq EventRows
  BY DEF IsDatabase
<1>2. x.events = d.events \cup {new} /\ x.lastEvent = d.lastEvent + 1
  BY DEF WithEvent
<1>3. {r.sequence : r \in x.events} = {r.sequence : r \in d.events} \cup {new.sequence}
  <2> HIDE DEF x, new
  <2> QED BY <1>2, OneMoreRow
<1>4. {r.sequence : r \in x.events} = 1 .. x.lastEvent
  BY <1>1, <1>2, <1>3 DEF ContiguousIn
<1>5. ASSUME NEW r \in d.events
      PROVE  r.sequence # new.sequence /\ r.event.id # new.event.id
  <2>1. r.sequence \in 1 .. d.lastEvent
    BY <1>5 DEF ContiguousIn
  <2>2. r.event.id # e.id
    BY <1>5 DEF RowsOf
  <2> QED BY <1>1, <2>1, <2>2
<1> HIDE DEF x, new
<1>6. \A r, s \in x.events : r.sequence = s.sequence \/ r.event.id = s.event.id => r = s
  BY <1>2, <1>5 DEF ContiguousIn
<1> QED BY <1>4, <1>6 DEF ContiguousIn, x

\* The transaction of append_event as a whole keeps journal and outbox in step.
LEMMA CommitAligns ==
  ASSUME NEW d, IsDatabase(d), ContiguousIn(d), AlignedIn(d),
         NEW e \in Events, RowsOf(d, e.id) = {}, NEW g, NEW p
  PROVE  /\ ContiguousIn(WithOutboxRow(WithGraph(WithEvent(d, e), g), e, p))
         /\ AlignedIn(WithOutboxRow(WithGraph(WithEvent(d, e), g), e, p))
<1> DEFINE c == WithOutboxRow(WithGraph(WithEvent(d, e), g), e, p)
           v == WithEvent(d, e)
<1>1. c.events = v.events /\ c.lastEvent = v.lastEvent
  BY DEF WithOutboxRow, WithGraph
<1>2. ContiguousIn(c)
  BY <1>1, EventExtends DEF ContiguousIn
<1>3. /\ c.events = d.events \cup {[sequence |-> d.lastEvent + 1, event |-> e]}
      /\ c.spool = d.spool \cup {[sequence |-> d.lastSpool + 1, event |-> e.id, payload |-> p]}
      /\ c.lastEvent = d.lastEvent + 1 /\ c.lastSpool = d.lastSpool + 1
      /\ c.checkpoint = d.lastEvent + 1
  BY DEF WithOutboxRow, WithGraph, WithEvent
<1>4. d.lastSpool = d.lastEvent
  BY DEF AlignedIn
<1> DEFINE ne == [sequence |-> d.lastEvent + 1, event |-> e]
           ns == [sequence |-> d.lastSpool + 1, event |-> e.id, payload |-> p]
<1>5. {<<r.sequence, r.event.id>> : r \in c.events}
        = {<<r.sequence, r.event.id>> : r \in d.events} \cup {<<d.lastEvent + 1, e.id>>}
  <2>1. c.events = d.events \cup {ne} /\ ne.sequence = d.lastEvent + 1 /\ ne.event.id = e.id
    BY <1>3
  <2> HIDE DEF c, ne
  <2> QED BY <2>1, OneMoreRow
<1>6. {<<s.sequence, s.event>> : s \in c.spool}
        = {<<s.sequence, s.event>> : s \in d.spool} \cup {<<d.lastSpool + 1, e.id>>}
  <2>1. c.spool = d.spool \cup {ns} /\ ns.sequence = d.lastSpool + 1 /\ ns.event = e.id
    BY <1>3
  <2> HIDE DEF c, ns
  <2> QED BY <2>1, OneMoreRow
<1>7. {<<r.sequence, r.event.id>> : r \in c.events} = {<<s.sequence, s.event>> : s \in c.spool}
  BY <1>4, <1>5, <1>6 DEF AlignedIn
<1> HIDE DEF c
<1>8. AlignedIn(c)
  BY <1>3, <1>4, <1>7 DEF AlignedIn
<1> QED BY <1>2, <1>8 DEF c

-----------------------------------------------------------------------------
(* The inductive invariant.                                                *)

Inv == TypeOK /\ TransactionInv

\* A transaction that ends in a sound database which still holds every row that
\* has been or will be told to a caller re-establishes the invariant.
LEMMA EndSound ==
  ASSUME Inv, NEW c, IsDatabase(c), ContiguousIn(c), AlignedIn(c), Closed(c.graph),
         End(c), receipts' = receipts,
         answer' \in [Writers -> Replies \cup {None}],
         \A t \in receipts : t.event.id \in DemoIds \/ t \in c.events,
         \A w \in Writers : answer'[w] # None =>
           RowOf(answer'[w]).event.id \in DemoIds \/ RowOf(answer'[w]) \in c.events
  PROVE  Inv'
<1>1. /\ db' = c /\ image' = c /\ holder' = NoWriter /\ step' = "closed"
      /\ request' = None /\ pos' = 1 /\ changed' = EmptyGraph
  BY DEF End
<1>2. TypeOK'
  BY <1>1, EmptyIsSound DEF Inv, TypeOK
<1>3. TransactionInv'
  BY <1>1 DEF TransactionInv, JournalContiguous, OutboxAligned, GraphClosed,
              ReceiptsDurable, Rely
<1> QED BY <1>2, <1>3 DEF Inv

\* The committed database is sound, and holds what callers rely on.
LEMMA RollbackSound ==
  ASSUME Inv, Rollback, receipts' = receipts,
         answer' \in [Writers -> Replies \cup {None}],
         \A w \in Writers : answer'[w] = answer[w] \/ answer'[w] = None
  PROVE  Inv'
<1>1. /\ IsDatabase(db) /\ ContiguousIn(db) /\ AlignedIn(db) /\ Closed(db.graph)
      /\ \A t \in receipts : t.event.id \in DemoIds \/ t \in db.events
      /\ \A w \in Writers : answer[w] # None =>
           RowOf(answer[w]).event.id \in DemoIds \/ RowOf(answer[w]) \in db.events
  BY DEF Inv, TypeOK, TransactionInv, JournalContiguous, OutboxAligned, GraphClosed,
         ReceiptsDurable, Rely
<1>2. \A w \in Writers : answer'[w] # None =>
        RowOf(answer'[w]).event.id \in DemoIds \/ RowOf(answer'[w]) \in db.events
  BY <1>1
<1> QED BY <1>1, <1>2, EndSound DEF Rollback

\* Opening a transaction touches nothing but the lock.
LEMMA BeginSound ==
  ASSUME Inv, NEW w \in Writers, NEW next, NEW e, Begin(w, next, e),
         \/ next = "insert" /\ e \in Events
         \/ next = "reset" /\ e = None
  PROVE  Inv'
<1>1. TypeOK'
  BY EventsAssumption DEF Inv, TypeOK, Begin
<1>2. step = "closed"
  BY DEF Begin, Inv, TypeOK
<1>3. TransactionInv'
  BY <1>2 DEF Begin, Inv, TransactionInv, JournalContiguous, OutboxAligned, GraphClosed,
              ReceiptsDurable, Rely
<1> QED BY <1>1, <1>3 DEF Inv

LEMMA InsertSound ==
  ASSUME Inv, NEW w \in Writers, RecordInsert(w)
  PROVE  Inv'
<1>1. image = db /\ request \in Events
  BY DEF Inv, TypeOK, TransactionInv, RecordInsert
<1>2. image' = WithEvent(db, request) /\ RowsOf(db, request.id) = {}
  BY <1>1 DEF RecordInsert
<1>3. image'.graph = db.graph
  BY <1>2 DEF WithEvent
<1>4. TypeOK'
  BY <1>1, <1>2, StatementsTyped, EmptyIsSound DEF Inv, TypeOK, RecordInsert
<1>5. image' = WithGraph(WithEvent(db, request), image'.graph)
  BY <1>2 DEF WithEvent, WithGraph
<1>6. OriginsKept(db.graph, db.graph)
  BY DEF Inv, TypeOK, IsDatabase, IsGraph, NodeRows, OriginsKept
<1>7. TransactionInv'
  BY <1>2, <1>3, <1>5, <1>6
     DEF RecordInsert, Inv, TransactionInv, JournalContiguous, OutboxAligned, GraphClosed,
         ReceiptsDurable, Rely, RowsOf
<1> QED BY <1>4, <1>7 DEF Inv

LEMMA ProjectSound ==
  ASSUME Inv, NEW w \in Writers, ProjectFact(w)
  PROVE  Inv'
<1> DEFINE f == Facts(request)[pos]
           h == Apply(image.graph, request, f)
<1>1. /\ request \in Events /\ pos \in DOMAIN Facts(request)
      /\ IsGraph(image.graph) /\ Accepts(image.graph, f)
  BY DEF ProjectFact, Inv, TypeOK, IsDatabase
<1>2. request.id \in EventIds /\ f.review \in ReviewStates /\ f.stamp \in Stamps
  BY <1>1, FactTyped
<1>3. image' = WithGraph(image, h) /\ changed' = Upsert(changed, image.graph, request, f)
  BY DEF ProjectFact
<1>4. IsGraph(h) /\ IsGraph(changed')
  BY <1>1, <1>2, <1>3, UpsertTyped DEF Apply, Inv, TypeOK
<1>5. DOMAIN image.graph.nodes \subseteq DOMAIN h.nodes /\ OriginsKept(image.graph, h)
  BY <1>1, <1>2, ApplyKeepsNodes
<1>6. Closed(h)
  BY <1>1, <1>2, ApplyKeepsClosed DEF Inv, TransactionInv
<1> HIDE DEF f, h
<1>7. TypeOK'
  BY <1>1, <1>3, <1>4, StatementsTyped DEF Inv, TypeOK, ProjectFact
<1>8. image'.graph = h
  BY <1>3 DEF WithGraph
<1>9. image' = WithGraph(WithEvent(db, request), h)
  BY <1>3 DEF ProjectFact, Inv, TransactionInv, WithGraph
<1>10. DOMAIN db.graph.nodes \subseteq DOMAIN h.nodes /\ OriginsKept(db.graph, h)
  <2>1. DOMAIN db.graph.nodes \subseteq DOMAIN image.graph.nodes /\ OriginsKept(db.graph, image.graph)
    BY DEF ProjectFact, Inv, TransactionInv
  <2>2. \A x \in DOMAIN db.graph.nodes : db.graph.nodes[x].start \in Nat
    BY DEF Inv, TypeOK, IsDatabase, IsGraph, NodeRows
  <2>3. \A x \in DOMAIN image.graph.nodes : image.graph.nodes[x].start \in Nat
    BY <1>1 DEF IsGraph, NodeRows
  <2>4. \A x \in DOMAIN h.nodes : h.nodes[x].start \in Nat
    BY <1>4 DEF IsGraph, NodeRows
  <2> QED BY <1>5, <2>1, <2>2, <2>3, <2>4 DEF OriginsKept
<1>11. TransactionInv'
  BY <1>6, <1>8, <1>9, <1>10
     DEF ProjectFact, Inv, TransactionInv, JournalContiguous, OutboxAligned, GraphClosed,
         ReceiptsDurable, Rely, RowsOf
<1> QED BY <1>7, <1>11 DEF Inv

LEMMA CommitSound ==
  ASSUME Inv, NEW w \in Writers, RecordCommit(w)
  PROVE  Inv'
<1> DEFINE c   == WithOutboxRow(image, request, changed)
           row == [sequence |-> image.lastEvent, event |-> request]
<1>1. /\ request \in Events /\ IsDatabase(db) /\ IsDatabase(image) /\ IsGraph(changed)
      /\ RowsOf(db, request.id) = {} /\ ContiguousIn(db) /\ AlignedIn(db)
      /\ image = WithGraph(WithEvent(db, request), image.graph)
      /\ Closed(image.graph)
  BY DEF RecordCommit, Inv, TypeOK, TransactionInv, JournalContiguous, OutboxAligned
<1>2. End(c) /\ receipts' = receipts
      /\ answer' = [answer EXCEPT ![w] = [event |-> request, sequence |-> image.lastEvent,
                                          accepted |-> TRUE]]
  BY DEF RecordCommit, Answer
<1>3. IsDatabase(c)
  BY <1>1, StatementsTyped
<1>4. ContiguousIn(c) /\ AlignedIn(c)
  <2>1. c = WithOutboxRow(WithGraph(WithEvent(db, request), image.graph), request, changed)
    BY <1>1
  <2> QED BY <1>1, <2>1, CommitAligns
<1>5. c.graph = image.graph /\ c.events = image.events
  BY DEF WithOutboxRow
<1>6. /\ image.lastEvent = db.lastEvent + 1
      /\ image.events = db.events \cup {row}
  BY <1>1 DEF WithGraph, WithEvent
<1>7. db.events \subseteq c.events /\ row \in c.events
  BY <1>5, <1>6
<1>8. [event |-> request, sequence |-> image.lastEvent, accepted |-> TRUE] \in Replies
  <2>1. image.lastEvent \in Nat \ {0}
    BY <1>1, <1>6 DEF IsDatabase
  <2> QED BY <1>1, <2>1 DEF Replies
<1>9. answer' \in [Writers -> Replies \cup {None}]
  BY <1>2, <1>8 DEF Inv, TypeOK
<1> HIDE DEF c
<1>10. \A t \in receipts : t.event.id \in DemoIds \/ t \in c.events
  BY <1>7 DEF Inv, TransactionInv, ReceiptsDurable, Rely
<1>11. ASSUME NEW v \in Writers, answer'[v] # None
       PROVE  RowOf(answer'[v]).event.id \in DemoIds \/ RowOf(answer'[v]) \in c.events
  <2>1. CASE v = w
    <3>1. RowOf(answer'[v]) = row
      BY <1>2, <2>1 DEF RowOf, Inv, TypeOK
    <3> QED BY <1>7, <3>1
  <2>2. CASE v # w
    <3>1. answer'[v] = answer[v]
      BY <1>2, <2>2 DEF Inv, TypeOK
    <3> QED BY <1>7, <1>11, <3>1 DEF Inv, TransactionInv, Rely
  <2> QED BY <2>1, <2>2
<1> QED BY <1>1, <1>2, <1>3, <1>4, <1>5, <1>9, <1>10, <1>11, EndSound

\* The row a duplicate is answered with holds the very event that was submitted.
LEMMA DuplicateSound ==
  ASSUME Inv, NEW w \in Writers, RecordDuplicate(w)
  PROVE  Inv'
<1>1. image = db /\ request \in Events /\ db.events \subseteq EventRows
  BY DEF RecordDuplicate, Inv, TypeOK, IsDatabase, TransactionInv
<1>2. PICK r \in RowsOf(db, request.id) :
        /\ r.event.digest = request.digest
        /\ answer' = [answer EXCEPT ![w] = [event |-> request, sequence |-> r.sequence,
                                            accepted |-> FALSE]]
  BY <1>1 DEF RecordDuplicate, Answer
<1>3. r \in db.events /\ r \in EventRows /\ r.event = request
  BY <1>1, <1>2, EventsAssumption DEF RowsOf, EventRows
<1>4. r = [sequence |-> r.sequence, event |-> request] /\ r.sequence \in Nat \ {0}
  BY <1>3 DEF EventRows
<1>5. answer' \in [Writers -> Replies \cup {None}]
  BY <1>1, <1>2, <1>4 DEF Inv, TypeOK, Replies
<1>6. ASSUME NEW v \in Writers, answer'[v] # None
      PROVE  RowOf(answer'[v]).event.id \in DemoIds \/ RowOf(answer'[v]) \in db.events
  <2>1. CASE v = w
    <3>1. RowOf(answer'[v]) = r
      BY <1>2, <1>4, <2>1 DEF RowOf, Inv, TypeOK
    <3> QED BY <1>3, <3>1
  <2>2. CASE v # w
    <3>1. answer'[v] = answer[v]
      BY <1>2, <2>2 DEF Inv, TypeOK
    <3> QED BY <1>6, <3>1 DEF Inv, TransactionInv, Rely
  <2> QED BY <2>1, <2>2
<1>7. /\ IsDatabase(db) /\ ContiguousIn(db) /\ AlignedIn(db) /\ Closed(db.graph)
      /\ \A t \in receipts : t.event.id \in DemoIds \/ t \in db.events
  BY DEF Inv, TypeOK, TransactionInv, JournalContiguous, OutboxAligned, GraphClosed,
         ReceiptsDurable, Rely
<1>8. End(db) /\ receipts' = receipts
  BY <1>1 DEF RecordDuplicate, Commit
<1> QED BY <1>5, <1>6, <1>7, <1>8, EndSound

LEMMA ReturnSound ==
  ASSUME Inv, NEW w \in Writers, Return(w)
  PROVE  Inv'
<1>1. answer[w] \in Replies /\ Rely(RowOf(answer[w]))
  BY DEF Return, Inv, TypeOK, TransactionInv
<1>2. RowOf(answer[w]) \in EventRows
  BY <1>1 DEF Replies, RowOf, EventRows
<1>3. /\ receipts' = receipts \cup {RowOf(answer[w])}
      /\ answer' = [answer EXCEPT ![w] = None]
      /\ UNCHANGED <<db, image, holder, step, request, pos, changed>>
  BY DEF Return, transaction
<1>4. TypeOK'
  BY <1>2, <1>3 DEF Inv, TypeOK
<1>5. ReceiptsDurable'
  BY <1>1, <1>3 DEF Inv, TransactionInv, ReceiptsDurable, Rely
<1>6. ASSUME NEW v \in Writers, answer'[v] # None
      PROVE  RowOf(answer'[v]).event.id \in DemoIds \/ RowOf(answer'[v]) \in db'.events
  <2>1. answer'[v] = answer[v] /\ db' = db
    BY <1>3, <1>6 DEF Inv, TypeOK
  <2> QED BY <1>6, <2>1 DEF Inv, TransactionInv, Rely
<1>7. TransactionInv'
  BY <1>3, <1>5, <1>6 DEF Inv, TransactionInv, JournalContiguous, OutboxAligned, GraphClosed,
                          RowsOf, Rely
<1> QED BY <1>4, <1>7 DEF Inv

\* A reset erases nothing that a caller relies on: every recorded event is a demo
\* event, so every row that was or will be told is one too.
LEMMA ResetSound ==
  ASSUME Inv, NEW w \in Writers, ResetCommit(w)
  PROVE  Inv'
<1>1. \A r \in db.events : r.event.id \in DemoIds
  BY DEF ResetCommit, Inv, TransactionInv, OnlyDemoEvents
<1>2. \A t \in receipts : t.event.id \in DemoIds
  BY <1>1 DEF Inv, TransactionInv, ReceiptsDurable, Rely
<1>3. \A v \in Writers : answer[v] # None => RowOf(answer[v]).event.id \in DemoIds
  BY <1>1 DEF Inv, TransactionInv, Rely
<1>4. End(EmptyDatabase) /\ receipts' = receipts /\ answer' = answer
  BY DEF ResetCommit
<1>5. answer' \in [Writers -> Replies \cup {None}]
  BY <1>4 DEF Inv, TypeOK
<1> QED BY <1>2, <1>3, <1>4, <1>5, EmptyIsSound, EndSound

LEMMA CrashSound ==
  ASSUME Inv, NEW w \in Writers, Crash(w)
  PROVE  Inv'
<1>1. /\ answer' = [answer EXCEPT ![w] = None] /\ receipts' = receipts
      /\ answer' \in [Writers -> Replies \cup {None}]
      /\ \A v \in Writers : answer'[v] = answer[v] \/ answer'[v] = None
  BY DEF Crash, Inv, TypeOK
<1>2. CASE holder = w
  BY <1>1, <1>2, RollbackSound DEF Crash
<1>3. CASE holder # w
  <2>1. UNCHANGED <<db, image, holder, step, request, pos, changed>>
    BY <1>3 DEF Crash, transaction
  <2>2. TypeOK'
    BY <1>1, <2>1 DEF Inv, TypeOK
  <2>3. TransactionInv'
    BY <1>1, <2>1 DEF Inv, TransactionInv, JournalContiguous, OutboxAligned, GraphClosed,
                      ReceiptsDurable, Rely, RowsOf
  <2> QED BY <2>2, <2>3 DEF Inv
<1> QED BY <1>2, <1>3

\* A refused event, a conflict and a refused reset leave the committed database.
LEMMA RefusalSound ==
  ASSUME Inv, NEW w \in Writers, RecordConflict(w) \/ ProjectFails(w) \/ ResetRefused(w)
  PROVE  Inv'
<1>1. Rollback /\ answer' = answer /\ receipts' = receipts
  BY DEF RecordConflict, ProjectFails, ResetRefused
<1>2. answer' \in [Writers -> Replies \cup {None}]
  BY <1>1 DEF Inv, TypeOK
<1> QED BY <1>1, <1>2, RollbackSound

LEMMA InitSound == Init => Inv
<1> SUFFICES ASSUME Init PROVE Inv
  OBVIOUS
<1>1. TypeOK
  BY EmptyIsSound, EventsAssumption DEF Init, TypeOK
<1>2. TransactionInv
  BY EmptyIsSound DEF Init, TransactionInv, JournalContiguous, OutboxAligned, GraphClosed,
                      ReceiptsDurable
<1> QED BY <1>1, <1>2 DEF Inv

LEMMA NextSound == Inv /\ [Next]_vars => Inv'
<1> SUFFICES ASSUME Inv, [Next]_vars PROVE Inv'
  OBVIOUS
<1>1. CASE UNCHANGED vars
  <2>1. TypeOK'
    BY <1>1 DEF Inv, TypeOK, vars, transaction
  <2>2. TransactionInv'
    BY <1>1 DEF Inv, vars, transaction, TransactionInv, JournalContiguous, OutboxAligned,
                GraphClosed, ReceiptsDurable, Rely, RowsOf
  <2> QED BY <2>1, <2>2 DEF Inv
<1>2. ASSUME NEW w \in Writers, RecordBegin(w) PROVE Inv'
  BY <1>2, BeginSound DEF RecordBegin
<1>3. ASSUME NEW w \in Writers, ResetBegin(w) PROVE Inv'
  BY <1>3, BeginSound DEF ResetBegin
<1>4. ASSUME NEW w \in Writers, WriterStep(w) PROVE Inv'
  BY <1>4, RefusalSound, DuplicateSound, InsertSound, ProjectSound, CommitSound,
     ResetSound DEF WriterStep
<1>5. ASSUME NEW w \in Writers, Return(w) \/ Crash(w) PROVE Inv'
  BY <1>5, ReturnSound, CrashSound
<1> QED BY <1>1, <1>2, <1>3, <1>4, <1>5 DEF Next

\* The inductive invariant holds in every reachable state.
THEOREM Invariance == Spec => []Inv
BY InitSound, NextSound, PTL DEF Spec

-----------------------------------------------------------------------------
(* What follows from it.                                                   *)

\* The tables, the open transaction and the replies always have their types.
THEOREM TypeCorrect == Spec => []TypeOK
<1>1. Inv => TypeOK
  BY DEF Inv
<1> QED BY <1>1, Invariance, PTL

\* append_event numbers the journal 1, 2, 3, ... and records each id once.
THEOREM JournalIsContiguous == Spec => []JournalContiguous
<1>1. Inv => JournalContiguous
  BY DEF Inv, TransactionInv
<1> QED BY <1>1, Invariance, PTL

\* Event n, outbox row n and the checkpoint are committed together.
THEOREM OutboxStaysAligned == Spec => []OutboxAligned
<1>1. Inv => OutboxAligned
  BY DEF Inv, TransactionInv
<1> QED BY <1>1, Invariance, PTL

\* No projection, complete, refused or interrupted, leaves a dangling edge.
THEOREM GraphStaysClosed == Spec => []GraphClosed
<1>1. Inv => GraphClosed
  BY DEF Inv, TransactionInv
<1> QED BY <1>1, Invariance, PTL

\* What append_event told a caller stays true across retries, crashes and resets.
THEOREM ReceiptsStayDurable == Spec => []ReceiptsDurable
<1>1. Inv => ReceiptsDurable
  BY DEF Inv, TransactionInv
<1> QED BY <1>1, Invariance, PTL

\* Every step leaves the committed database alone, replaces it by the image of the
\* transaction that commits, or empties it when there are demo events only.
LEMMA CommittedStep ==
  ASSUME Inv, [Next]_vars
  PROVE  \/ db' = db
         \/ /\ step = "project"
            /\ db'.events = image.events /\ db'.graph = image.graph
         \/ /\ \A r \in db.events : r.event.id \in DemoIds
            /\ db' = EmptyDatabase
<1>1. CASE UNCHANGED vars
  BY <1>1 DEF vars
<1>2. ASSUME NEW w \in Writers, RecordBegin(w) \/ ResetBegin(w) PROVE db' = db
  BY <1>2 DEF RecordBegin, ResetBegin, Begin
<1>3. ASSUME NEW w \in Writers,
             RecordConflict(w) \/ ProjectFails(w) \/ ResetRefused(w) \/ Return(w) \/ Crash(w)
      PROVE  db' = db
  BY <1>3 DEF RecordConflict, ProjectFails, ResetRefused, Return, Crash, Rollback, End
<1>4. ASSUME NEW w \in Writers, RecordInsert(w) \/ ProjectFact(w) PROVE db' = db
  BY <1>4 DEF RecordInsert, ProjectFact
<1>5. ASSUME NEW w \in Writers, RecordDuplicate(w) PROVE db' = db
  BY <1>5 DEF RecordDuplicate, Commit, End, Inv, TransactionInv
<1>6. ASSUME NEW w \in Writers, RecordCommit(w)
      PROVE  step = "project" /\ db'.events = image.events /\ db'.graph = image.graph
  BY <1>6 DEF RecordCommit, End, WithOutboxRow
<1>7. ASSUME NEW w \in Writers, ResetCommit(w)
      PROVE  (\A r \in db.events : r.event.id \in DemoIds) /\ db' = EmptyDatabase
  BY <1>7 DEF ResetCommit, End, OnlyDemoEvents, Inv, TransactionInv
<1> QED BY <1>1, <1>2, <1>3, <1>4, <1>5, <1>6, <1>7 DEF Next, WriterStep

\* No step loses or renumbers a recorded event that is not a demo event.
THEOREM PersonalHistoryIsKept == Spec => PersonalHistoryKept
<1>1. Inv /\ [Next]_vars
        => [\A r \in db.events : r.event.id \in DemoIds \/ r \in db'.events]_db
  <2> SUFFICES ASSUME Inv, [Next]_vars, NEW r \in db.events
               PROVE  r.event.id \in DemoIds \/ r \in db'.events
    OBVIOUS
  <2>1. step = "project" => db.events \subseteq image.events
    <3>1. step = "project" => image = WithGraph(WithEvent(db, request), image.graph)
      BY DEF Inv, TransactionInv
    <3> QED BY <3>1 DEF WithGraph, WithEvent
  <2> QED BY <2>1, CommittedStep
<1> QED BY <1>1, Invariance, PTL DEF Spec, PersonalHistoryKept

\* Events that arrive late or again never change which event created a node, and
\* only ever move the start of its valid time back.
THEOREM NodeOriginIsStable == Spec => NodeOriginStable
<1>1. Inv /\ [Next]_vars => [OriginsKept(db.graph, db'.graph)]_db
  <2> SUFFICES ASSUME Inv, [Next]_vars PROVE db' = db \/ OriginsKept(db.graph, db'.graph)
    OBVIOUS
  <2>1. step = "project" => OriginsKept(db.graph, image.graph)
    BY DEF Inv, TransactionInv
  <2>2. db' = EmptyDatabase => OriginsKept(db.graph, db'.graph)
    BY DEF EmptyDatabase, EmptyGraph, EmptyTable, OriginsKept
  <2> QED BY <2>1, <2>2, CommittedStep DEF OriginsKept
<1> QED BY <1>1, Invariance, PTL DEF Spec, NodeOriginStable

-----------------------------------------------------------------------------
(* The store implements the abstract journal.                              *)

\* In a contiguous journal every row is the one the mapping finds at its sequence.
LEMMA JournalRows ==
  ASSUME NEW d, IsDatabase(d), ContiguousIn(d), NEW r \in d.events
  PROVE  r.sequence \in DOMAIN JournalOf(d) /\ JournalOf(d)[r.sequence] = r.event
<1>1. r.sequence \in 1 .. d.lastEvent
  BY DEF ContiguousIn
<1>2. \A q \in d.events : q.sequence = r.sequence => q = r
  BY DEF ContiguousIn
<1>3. (CHOOSE q \in d.events : q.sequence = r.sequence) = r
  BY <1>2
<1> QED BY <1>1, <1>3 DEF JournalOf

\* And every entry of the journal is a row.
LEMMA JournalEntries ==
  ASSUME NEW d, IsDatabase(d), ContiguousIn(d), NEW n \in 1 .. d.lastEvent
  PROVE  \E r \in d.events : r.sequence = n /\ JournalOf(d)[n] = r.event
<1>1. PICK r \in d.events : r.sequence = n
  BY DEF ContiguousIn
<1> QED BY <1>1, JournalRows

LEMMA JournalIsSequence ==
  ASSUME NEW d, IsDatabase(d), ContiguousIn(d)
  PROVE  JournalOf(d) \in Seq(Events) /\ Len(JournalOf(d)) = d.lastEvent
<1>1. d.lastEvent \in Nat
  BY DEF IsDatabase
<1>2. \A n \in 1 .. d.lastEvent : JournalOf(d)[n] \in Events
  BY JournalEntries DEF IsDatabase, EventRows
<1>3. JournalOf(d) = [n \in 1 .. d.lastEvent |-> JournalOf(d)[n]]
  BY DEF JournalOf
<1> QED BY <1>1, <1>2, <1>3

\* The empty database is the empty journal.
LEMMA JournalOfEmpty == JournalOf(EmptyDatabase) = << >>
BY DEF JournalOf, EmptyDatabase

\* One more row is one more entry.
LEMMA JournalGrows ==
  ASSUME NEW d, IsDatabase(d), ContiguousIn(d), NEW c, IsDatabase(c), ContiguousIn(c),
         NEW e \in Events, c.lastEvent = d.lastEvent + 1,
         c.events = d.events \cup {[sequence |-> d.lastEvent + 1, event |-> e]}
  PROVE  JournalOf(c) = Append(JournalOf(d), e)
<1> DEFINE J == JournalOf(d)
           K == JournalOf(c)
<1>1. d.lastEvent \in Nat
  BY DEF IsDatabase
<1>2. J \in Seq(Events) /\ Len(J) = d.lastEvent /\ K \in Seq(Events) /\ Len(K) = d.lastEvent + 1
  BY JournalIsSequence
<1>3. K[d.lastEvent + 1] = e
  <2> DEFINE row == [sequence |-> d.lastEvent + 1, event |-> e]
  <2>1. row \in c.events /\ row.sequence = d.lastEvent + 1 /\ row.event = e
    OBVIOUS
  <2> HIDE DEF row
  <2> QED BY <2>1, JournalRows
<1>4. ASSUME NEW n \in 1 .. d.lastEvent PROVE K[n] = J[n]
  <2>1. PICK r \in d.events : r.sequence = n /\ J[n] = r.event
    BY JournalEntries
  <2>2. r \in c.events
    OBVIOUS
  <2> QED BY <2>1, <2>2, JournalRows
<1> HIDE DEF J, K
<1>5. K = Append(J, e)
  BY <1>1, <1>2, <1>3, <1>4
<1> QED BY <1>5 DEF J, K

\* Before its commit a recorded event's id is not taken in the journal.
LEMMA IdIsFree ==
  ASSUME Inv, step = "project"
  PROVE  ~Log!Taken(request.id)
<1>1. IsDatabase(db) /\ ContiguousIn(db) /\ RowsOf(db, request.id) = {}
  BY DEF Inv, TypeOK, TransactionInv, JournalContiguous
<1>2. ASSUME NEW n \in DOMAIN Journal PROVE Journal[n].id # request.id
  <2>1. n \in 1 .. db.lastEvent
    BY DEF Journal, JournalOf
  <2>2. PICK r \in db.events : r.sequence = n /\ Journal[n] = r.event
    BY <1>1, <2>1, JournalEntries DEF Journal
  <2> QED BY <1>1, <2>2 DEF RowsOf
<1> QED BY <1>2 DEF Log!Taken

LEMMA CommitRecords ==
  ASSUME Inv, NEW w \in Writers, RecordCommit(w)
  PROVE  Log!Record(request)
<1>1. step = "project" /\ request \in Events /\ receipts' = receipts
  BY DEF RecordCommit, Inv, TypeOK
<1>2. Inv'
  BY CommitSound
<1>3. image = WithGraph(WithEvent(db, request), image.graph)
  BY <1>1 DEF Inv, TransactionInv
<1>4. db' = WithOutboxRow(image, request, changed)
  BY DEF RecordCommit, End
<1>5. /\ db'.lastEvent = db.lastEvent + 1
      /\ db'.events = db.events \cup {[sequence |-> db.lastEvent + 1, event |-> request]}
  BY <1>3, <1>4 DEF WithOutboxRow, WithGraph, WithEvent
<1>6. IsDatabase(db) /\ ContiguousIn(db) /\ IsDatabase(db') /\ ContiguousIn(db')
  BY <1>2 DEF Inv, TypeOK, TransactionInv, JournalContiguous
<1>7. Journal' = Append(Journal, request)
  BY <1>1, <1>5, <1>6, JournalGrows DEF Journal
<1> QED BY <1>1, <1>7, IdIsFree DEF Log!Record

LEMMA ReturnTells ==
  ASSUME Inv, NEW w \in Writers, Return(w)
  PROVE  Log!Tell
<1> DEFINE t == RowOf(answer[w])
<1>1. receipts' = receipts \cup {t} /\ db' = db
  BY DEF Return
<1>2. IsDatabase(db) /\ ContiguousIn(db) /\ Rely(t)
  BY DEF Return, Inv, TypeOK, TransactionInv, JournalContiguous
<1> HIDE DEF t
<1>3. t.event.id \in DemoIds \/ (t.sequence \in DOMAIN Journal /\ Journal[t.sequence] = t.event)
  BY <1>2, JournalRows DEF Rely, Journal
<1>4. t \in receipts' /\ UNCHANGED Journal
  BY <1>1 DEF Journal
<1> QED BY <1>1, <1>3, <1>4 DEF Log!Tell

LEMMA ResetErases ==
  ASSUME Inv, NEW w \in Writers, ResetCommit(w)
  PROVE  Log!Erase
<1>1. IsDatabase(db) /\ ContiguousIn(db) /\ image = db
  BY DEF ResetCommit, Inv, TypeOK, TransactionInv, JournalContiguous
<1>2. \A r \in db.events : r.event.id \in DemoIds
  BY <1>1 DEF ResetCommit, OnlyDemoEvents
<1>3. \A n \in DOMAIN Journal : Journal[n].id \in DemoIds
  <2> SUFFICES ASSUME NEW n \in 1 .. db.lastEvent PROVE Journal[n].id \in DemoIds
    BY DEF Journal, JournalOf
  <2>1. PICK r \in db.events : Journal[n] = r.event
    BY <1>1, JournalEntries DEF Journal
  <2> QED BY <1>2, <2>1
<1>4. db' = EmptyDatabase /\ receipts' = receipts
  BY DEF ResetCommit, End
<1>5. Journal' = << >>
  BY <1>4, JournalOfEmpty DEF Journal
<1> QED BY <1>3, <1>4, <1>5 DEF Log!Erase

\* Everything else is invisible.
LEMMA OthersStutter ==
  ASSUME Inv, NEW w \in Writers,
         \/ RecordBegin(w) \/ ResetBegin(w) \/ RecordConflict(w) \/ RecordDuplicate(w)
         \/ RecordInsert(w) \/ ProjectFact(w) \/ ProjectFails(w) \/ ResetRefused(w) \/ Crash(w)
  PROVE  UNCHANGED <<Journal, receipts>>
<1>1. db' = db /\ receipts' = receipts
  <2>1. CASE RecordBegin(w) \/ ResetBegin(w)
    BY <2>1 DEF RecordBegin, ResetBegin, Begin
  <2>2. CASE RecordConflict(w) \/ ProjectFails(w) \/ ResetRefused(w) \/ Crash(w)
    BY <2>2 DEF RecordConflict, ProjectFails, ResetRefused, Crash, Rollback, End
  <2>3. CASE RecordDuplicate(w)
    BY <2>3 DEF RecordDuplicate, Commit, End, Inv, TransactionInv
  <2>4. CASE RecordInsert(w) \/ ProjectFact(w)
    BY <2>4 DEF RecordInsert, ProjectFact
  <2> QED BY <2>1, <2>2, <2>3, <2>4
<1> QED BY <1>1 DEF Journal

\* Every behaviour of the event store is a behaviour of the abstract journal.
THEOREM Refinement == Spec => ImplementsEventLog
<1>1. Init => Log!Init
  BY JournalOfEmpty DEF Init, Log!Init, Journal
<1>2. Inv /\ [Next]_vars => [Log!Next]_<<Journal, receipts>>
  <2> SUFFICES ASSUME Inv, [Next]_vars
               PROVE  Log!Next \/ UNCHANGED <<Journal, receipts>>
    OBVIOUS
  <2>1. CASE UNCHANGED vars
    BY <2>1 DEF vars, Journal
  <2>2. ASSUME NEW w \in Writers, RecordCommit(w) PROVE Log!Next
    <3>1. request \in Events
      BY <2>2 DEF RecordCommit, Inv, TypeOK
    <3> QED BY <2>2, <3>1, CommitRecords DEF Log!Next
  <2>3. ASSUME NEW w \in Writers, Return(w) PROVE Log!Next
    BY <2>3, ReturnTells DEF Log!Next
  <2>4. ASSUME NEW w \in Writers, ResetCommit(w) PROVE Log!Next
    BY <2>4, ResetErases DEF Log!Next
  <2> QED BY <2>1, <2>2, <2>3, <2>4, OthersStutter DEF Next, WriterStep
<1> QED BY <1>1, <1>2, Invariance, PTL DEF Spec, ImplementsEventLog, Log!Spec

-----------------------------------------------------------------------------
(* Recursive functions on an initial segment of the naturals.  Each of the *)
(* three replays is a function defined by recursion; that there is one is  *)
(* proved from the least number for which there would be none.             *)

\* A set of naturals has a least element.
LEMMA LeastNatural ==
  ASSUME NEW T, T \subseteq Nat, T # {}
  PROVE  \E k \in T : \A m \in T : ~(m < k)
<1>1. IsWellFoundedOn(OpToRel(<, Nat), Nat)
  BY NatLessThanWellFounded, Zenon
<1>2. PICK k \in T : \A m \in T : <<m, k>> \notin OpToRel(<, Nat)
  BY <1>1, WFMin, Zenon
<1> QED BY <1>2 DEF OpToRel

IsProjection(p, N, g, e) ==
  p = [n \in 0 .. N |-> IF n = 0 THEN g ELSE Apply(p[n - 1], e, Facts(e)[n])]

LEMMA ProjectionExists ==
  ASSUME NEW g, NEW e, NEW N \in Nat
  PROVE  \E p : IsProjection(p, N, g, e)
<1> DEFINE T == {k \in Nat : ~\E p : IsProjection(p, k, g, e)}
<1> SUFFICES ASSUME T # {} PROVE FALSE
  OBVIOUS
<1>1. PICK k \in T : \A m \in T : ~(m < k)
  <2> HIDE DEF T
  <2>1. T \subseteq Nat
    BY DEF T
  <2> QED BY <2>1, LeastNatural
<1>2. k # 0
  <2>1. IsProjection([n \in 0 .. 0 |-> g], 0, g, e)
    BY DEF IsProjection
  <2> QED BY <2>1
<1>3. k - 1 \in Nat /\ k - 1 < k
  BY <1>2
<1>4. PICK p : IsProjection(p, k - 1, g, e)
  BY <1>1, <1>3
<1> DEFINE q == [n \in 0 .. k |-> IF n = k THEN Apply(p[k - 1], e, Facts(e)[k]) ELSE p[n]]
<1>5. \A n \in 0 .. k - 1 : p[n] = IF n = 0 THEN g ELSE Apply(p[n - 1], e, Facts(e)[n])
  BY <1>4 DEF IsProjection
<1>6. ASSUME NEW n \in 0 .. k
      PROVE  q[n] = IF n = 0 THEN g ELSE Apply(q[n - 1], e, Facts(e)[n])
  <2>1. n # 0 => q[n - 1] = p[n - 1]
    BY <1>3
  <2>2. n = k => q[n] = Apply(p[n - 1], e, Facts(e)[n])
    BY <1>3
  <2>3. n # k => n \in 0 .. k - 1 /\ q[n] = p[n]
    BY <1>3
  <2> HIDE DEF q
  <2> QED BY <1>2, <1>5, <2>1, <2>2, <2>3
<1>7. IsProjection(q, k, g, e)
  <2>1. q = [n \in 0 .. k |-> q[n]]
    OBVIOUS
  <2> HIDE DEF q
  <2>2. q = [n \in 0 .. k |-> IF n = 0 THEN g ELSE Apply(q[n - 1], e, Facts(e)[n])]
    BY <1>6, <2>1
  <2> QED BY <2>2 DEF IsProjection
<1> HIDE DEF q
<1> QED BY <1>7

LEMMA ProjectionUnfolds ==
  ASSUME NEW g, NEW e, Len(Facts(e)) \in Nat
  PROVE  /\ Projection(g, e)[0] = g
         /\ \A n \in 1 .. Len(Facts(e)) :
              Projection(g, e)[n] = Apply(Projection(g, e)[n - 1], e, Facts(e)[n])
<1> DEFINE p == Projection(g, e)
<1>1. \E q : IsProjection(q, Len(Facts(e)), g, e)
  BY ProjectionExists
<1>2. p = CHOOSE q : IsProjection(q, Len(Facts(e)), g, e)
  BY DEF Projection, IsProjection
<1> HIDE DEF p
<1>3. IsProjection(p, Len(Facts(e)), g, e)
  BY <1>1, <1>2
<1>4. \A n \in 0 .. Len(Facts(e)) :
        p[n] = IF n = 0 THEN g ELSE Apply(p[n - 1], e, Facts(e)[n])
  BY <1>3 DEF IsProjection
<1>5. 0 \in 0 .. Len(Facts(e))
      /\ \A n \in 1 .. Len(Facts(e)) : n \in 0 .. Len(Facts(e)) /\ n # 0
  OBVIOUS
<1>6. p[0] = g /\ \A n \in 1 .. Len(Facts(e)) : p[n] = Apply(p[n - 1], e, Facts(e)[n])
  BY <1>4, <1>5
<1> QED BY <1>6 DEF p

-----------------------------------------------------------------------------
(* The replay of a journal.                                                *)

IsReplay(p, N, J) ==
  p = [n \in 0 .. N |-> IF n = 0 THEN EmptyGraph ELSE Projected(p[n - 1], J[n])]

LEMMA ReplayExists ==
  ASSUME NEW J, NEW N \in Nat
  PROVE  \E p : IsReplay(p, N, J)
<1> DEFINE T == {k \in Nat : ~\E p : IsReplay(p, k, J)}
<1> SUFFICES ASSUME T # {} PROVE FALSE
  OBVIOUS
<1>1. PICK k \in T : \A m \in T : ~(m < k)
  <2>1. T \subseteq Nat
    OBVIOUS
  <2> HIDE DEF T
  <2> QED BY <2>1, LeastNatural
<1>2. k # 0
  <2>1. IsReplay([n \in 0 .. 0 |-> EmptyGraph], 0, J)
    BY DEF IsReplay
  <2> QED BY <2>1
<1>3. k - 1 \in Nat /\ k - 1 < k
  BY <1>2
<1>4. PICK p : IsReplay(p, k - 1, J)
  BY <1>1, <1>3
<1> DEFINE q == [n \in 0 .. k |-> IF n = k THEN Projected(p[k - 1], J[k]) ELSE p[n]]
<1>5. \A n \in 0 .. k - 1 : p[n] = IF n = 0 THEN EmptyGraph ELSE Projected(p[n - 1], J[n])
  BY <1>4 DEF IsReplay
<1>6. ASSUME NEW n \in 0 .. k
      PROVE  q[n] = IF n = 0 THEN EmptyGraph ELSE Projected(q[n - 1], J[n])
  <2>1. n # 0 => q[n - 1] = p[n - 1]
    BY <1>3
  <2>2. n = k => q[n] = Projected(p[n - 1], J[n])
    BY <1>3
  <2>3. n # k => n \in 0 .. k - 1 /\ q[n] = p[n]
    BY <1>3
  <2> HIDE DEF q
  <2> QED BY <1>2, <1>5, <2>1, <2>2, <2>3
<1>7. IsReplay(q, k, J)
  <2>1. q = [n \in 0 .. k |-> q[n]]
    OBVIOUS
  <2> HIDE DEF q
  <2>2. q = [n \in 0 .. k |-> IF n = 0 THEN EmptyGraph ELSE Projected(q[n - 1], J[n])]
    BY <1>6, <2>1
  <2> QED BY <2>2 DEF IsReplay
<1> HIDE DEF q
<1> QED BY <1>7

\* Where two sequences agree, so do their replays.
LEMMA ReplayAgrees ==
  ASSUME NEW N \in Nat, NEW M \in Nat, N <= M, NEW J, NEW K,
         \A n \in 1 .. N : J[n] = K[n],
         NEW p, IsReplay(p, N, J), NEW q, IsReplay(q, M, K),
         NEW i \in 0 .. N
  PROVE  p[i] = q[i]
<1> DEFINE T == {k \in 0 .. N : p[k] # q[k]}
<1> SUFFICES ASSUME T # {} PROVE FALSE
  OBVIOUS
<1>1. PICK k \in T : \A m \in T : ~(m < k)
  <2>1. T \subseteq Nat
    OBVIOUS
  <2> HIDE DEF T
  <2> QED BY <2>1, LeastNatural
<1>2. k \in 0 .. N /\ k \in 0 .. M /\ p[k] # q[k]
  OBVIOUS
<1>3. /\ p[k] = IF k = 0 THEN EmptyGraph ELSE Projected(p[k - 1], J[k])
      /\ q[k] = IF k = 0 THEN EmptyGraph ELSE Projected(q[k - 1], K[k])
  BY <1>2 DEF IsReplay
<1>4. k # 0
  BY <1>2, <1>3
<1>5. k - 1 \in 0 .. N /\ k - 1 < k /\ k \in 1 .. N
  BY <1>2, <1>4
<1>6. p[k - 1] = q[k - 1]
  BY <1>1, <1>5
<1> QED BY <1>2, <1>3, <1>4, <1>5, <1>6

LEMMA ReplaysDefined ==
  ASSUME NEW J, Len(J) \in Nat
  PROVE  IsReplay(Replays(J), Len(J), J)
<1> DEFINE p == Replays(J)
<1>1. p = CHOOSE q : IsReplay(q, Len(J), J)
  BY DEF Replays, IsReplay
<1> HIDE DEF p
<1>2. IsReplay(p, Len(J), J)
  BY <1>1, ReplayExists
<1> QED BY <1>2 DEF p

\* The replay of a journal and one more event is that event's projection on the replay.
LEMMA ReplayOfNothing == Replay(<< >>) = EmptyGraph
<1>1. Len(<< >>) = 0 /\ 0 \in Nat /\ 0 \in 0 .. 0
  OBVIOUS
<1>2. IsReplay(Replays(<< >>), 0, << >>)
  BY <1>1, ReplaysDefined
<1>3. Replays(<< >>)[0] = EmptyGraph
  BY <1>1, <1>2 DEF IsReplay
<1> QED BY <1>1, <1>3 DEF Replay

LEMMA ReplayExtends ==
  ASSUME NEW J \in Seq(Events), NEW e \in Events
  PROVE  Replay(Append(J, e)) = Projected(Replay(J), e)
<1> DEFINE K == Append(J, e)
           N == Len(J)
           p == Replays(J)
           q == Replays(K)
<1>1. /\ N \in Nat /\ Len(K) = N + 1 /\ Len(K) \in Nat /\ K[N + 1] = e
      /\ \A n \in 1 .. N : J[n] = K[n]
  OBVIOUS
<1> HIDE DEF K, N
<1>2. IsReplay(p, N, J) /\ IsReplay(q, N + 1, K)
  BY <1>1, ReplaysDefined DEF N
<1> HIDE DEF p, q
<1>3. p[N] = q[N]
  BY <1>1, <1>2, ReplayAgrees
<1>4. q[N + 1] = Projected(q[N], e)
  <2>1. N + 1 \in 0 .. N + 1 /\ N + 1 # 0 /\ N + 1 - 1 = N
    BY <1>1
  <2> QED BY <1>1, <1>2, <2>1 DEF IsReplay
<1>5. Replay(K) = q[N + 1] /\ Replay(J) = p[N]
  BY <1>1 DEF Replay, p, q, N
<1> QED BY <1>3, <1>4, <1>5 DEF K

-----------------------------------------------------------------------------
(* The replica of an outbox.                                               *)

IsReplica(p, N, J) ==
  p = [n \in 0 .. N |-> IF n = 0 THEN EmptyGraph ELSE Received(p[n - 1], J[n])]

LEMMA ReplicaExists ==
  ASSUME NEW J, NEW N \in Nat
  PROVE  \E p : IsReplica(p, N, J)
<1> DEFINE T == {k \in Nat : ~\E p : IsReplica(p, k, J)}
<1> SUFFICES ASSUME T # {} PROVE FALSE
  OBVIOUS
<1>1. PICK k \in T : \A m \in T : ~(m < k)
  <2>1. T \subseteq Nat
    OBVIOUS
  <2> HIDE DEF T
  <2> QED BY <2>1, LeastNatural
<1>2. k # 0
  <2>1. IsReplica([n \in 0 .. 0 |-> EmptyGraph], 0, J)
    BY DEF IsReplica
  <2> QED BY <2>1
<1>3. k - 1 \in Nat /\ k - 1 < k
  BY <1>2
<1>4. PICK p : IsReplica(p, k - 1, J)
  BY <1>1, <1>3
<1> DEFINE q == [n \in 0 .. k |-> IF n = k THEN Received(p[k - 1], J[k]) ELSE p[n]]
<1>5. \A n \in 0 .. k - 1 : p[n] = IF n = 0 THEN EmptyGraph ELSE Received(p[n - 1], J[n])
  BY <1>4 DEF IsReplica
<1>6. ASSUME NEW n \in 0 .. k
      PROVE  q[n] = IF n = 0 THEN EmptyGraph ELSE Received(q[n - 1], J[n])
  <2>1. n # 0 => q[n - 1] = p[n - 1]
    BY <1>3
  <2>2. n = k => q[n] = Received(p[n - 1], J[n])
    BY <1>3
  <2>3. n # k => n \in 0 .. k - 1 /\ q[n] = p[n]
    BY <1>3
  <2> HIDE DEF q
  <2> QED BY <1>2, <1>5, <2>1, <2>2, <2>3
<1>7. IsReplica(q, k, J)
  <2>1. q = [n \in 0 .. k |-> q[n]]
    OBVIOUS
  <2> HIDE DEF q
  <2>2. q = [n \in 0 .. k |-> IF n = 0 THEN EmptyGraph ELSE Received(q[n - 1], J[n])]
    BY <1>6, <2>1
  <2> QED BY <2>2 DEF IsReplica
<1> HIDE DEF q
<1> QED BY <1>7

\* Where two sequences agree, so do their replicas.
LEMMA ReplicaAgrees ==
  ASSUME NEW N \in Nat, NEW M \in Nat, N <= M, NEW J, NEW K,
         \A n \in 1 .. N : J[n] = K[n],
         NEW p, IsReplica(p, N, J), NEW q, IsReplica(q, M, K),
         NEW i \in 0 .. N
  PROVE  p[i] = q[i]
<1> DEFINE T == {k \in 0 .. N : p[k] # q[k]}
<1> SUFFICES ASSUME T # {} PROVE FALSE
  OBVIOUS
<1>1. PICK k \in T : \A m \in T : ~(m < k)
  <2>1. T \subseteq Nat
    OBVIOUS
  <2> HIDE DEF T
  <2> QED BY <2>1, LeastNatural
<1>2. k \in 0 .. N /\ k \in 0 .. M /\ p[k] # q[k]
  OBVIOUS
<1>3. /\ p[k] = IF k = 0 THEN EmptyGraph ELSE Received(p[k - 1], J[k])
      /\ q[k] = IF k = 0 THEN EmptyGraph ELSE Received(q[k - 1], K[k])
  BY <1>2 DEF IsReplica
<1>4. k # 0
  BY <1>2, <1>3
<1>5. k - 1 \in 0 .. N /\ k - 1 < k /\ k \in 1 .. N
  BY <1>2, <1>4
<1>6. p[k - 1] = q[k - 1]
  BY <1>1, <1>5
<1> QED BY <1>2, <1>3, <1>4, <1>5, <1>6

LEMMA ReplicasDefined ==
  ASSUME NEW J, Len(J) \in Nat
  PROVE  IsReplica(Replicas(J), Len(J), J)
<1> DEFINE p == Replicas(J)
<1>1. p = CHOOSE q : IsReplica(q, Len(J), J)
  BY DEF Replicas, IsReplica
<1> HIDE DEF p
<1>2. IsReplica(p, Len(J), J)
  BY <1>1, ReplicaExists
<1> QED BY <1>2 DEF p

LEMMA ReplicaOfNothing == Replica(<< >>) = EmptyGraph
<1>1. Len(<< >>) = 0 /\ 0 \in Nat /\ 0 \in 0 .. 0
  OBVIOUS
<1>2. IsReplica(Replicas(<< >>), 0, << >>)
  BY <1>1, ReplicasDefined
<1>3. Replicas(<< >>)[0] = EmptyGraph
  BY <1>1, <1>2 DEF IsReplica
<1> QED BY <1>1, <1>3 DEF Replica

\* One more row is laid over the replica.
LEMMA ReplicaExtends ==
  ASSUME NEW N \in Nat, NEW J, Len(J) = N, NEW K, Len(K) = N + 1,
         \A n \in 1 .. N : J[n] = K[n]
  PROVE  Replica(K) = Received(Replica(J), K[N + 1])
<1> DEFINE p == Replicas(J)
           q == Replicas(K)
<1>1. IsReplica(p, N, J) /\ IsReplica(q, N + 1, K)
  BY ReplicasDefined
<1> HIDE DEF p, q
<1>2. p[N] = q[N]
  BY <1>1, ReplicaAgrees
<1>3. q[N + 1] = Received(q[N], K[N + 1])
  <2>1. N + 1 \in 0 .. N + 1 /\ N + 1 # 0 /\ N + 1 - 1 = N
    OBVIOUS
  <2> QED BY <1>1, <2>1 DEF IsReplica
<1>4. Replica(K) = q[N + 1] /\ Replica(J) = p[N]
  BY DEF Replica, p, q
<1> QED BY <1>2, <1>3, <1>4

-----------------------------------------------------------------------------
(* The committed graph and the replica, step by step.                      *)

LEMMA OverlayOfPut ==
  ASSUME NEW t, NEW c, NEW k, NEW v
  PROVE  Overlay(t, Put(c, k, v)) = Put(Overlay(t, c), k, v)
BY DEF Overlay, Put

\* A row that is written to the graph and to the changed rows.
LEMMA OverlayOfUpsert ==
  ASSUME NEW g, NEW h, NEW i, i = OverlayGraph(g, h), NEW e, NEW f
  PROVE  Upsert(i, i, e, f) = OverlayGraph(g, Upsert(h, i, e, f))
<1> DEFINE u == Upsert(h, i, e, f)
           x == Upsert(i, i, e, f)
<1>1. i.nodes = Overlay(g.nodes, h.nodes) /\ i.edges = Overlay(g.edges, h.edges)
  BY DEF OverlayGraph
<1>2. x.nodes = Overlay(g.nodes, u.nodes)
  BY <1>1, OverlayOfPut DEF Upsert
<1>3. x.edges = Overlay(g.edges, u.edges)
  BY <1>1, OverlayOfPut DEF Upsert
<1>4. x = [nodes |-> x.nodes, edges |-> x.edges]
  BY DEF Upsert
<1> HIDE DEF x, u
<1>5. x = OverlayGraph(g, u)
  BY <1>2, <1>3, <1>4 DEF OverlayGraph
<1> QED BY <1>5 DEF x, u

LEMMA OverlayOfNothing ==
  ASSUME NEW g, IsGraph(g)
  PROVE  OverlayGraph(g, EmptyGraph) = g
<1>1. ASSUME NEW t, IsTable(t) PROVE Overlay(t, EmptyTable) = t
  BY <1>1 DEF IsTable, Overlay, EmptyTable
<1>2. Overlay(g.nodes, EmptyTable) = g.nodes /\ Overlay(g.edges, EmptyTable) = g.edges
  BY <1>1 DEF IsGraph
<1>3. OverlayGraph(g, EmptyGraph) = [nodes |-> g.nodes, edges |-> g.edges]
  BY <1>2 DEF OverlayGraph, EmptyGraph
<1> QED BY <1>3 DEF IsGraph

\* What is published of an overlay is the overlay of what is published.
LEMMA PublishedOverlay ==
  ASSUME NEW g, NEW h
  PROVE  PublishedGraph(OverlayGraph(g, h))
           = OverlayGraph(PublishedGraph(g), PublishedGraph(h))
<1>1. ASSUME NEW t, NEW c
      PROVE  Published(Overlay(t, c)) = Overlay(Published(t), Published(c))
  BY DEF Published, Overlay
<1>2. ASSUME NEW t, NEW c
      PROVE  PublishedEdges(Overlay(t, c)) = Overlay(PublishedEdges(t), PublishedEdges(c))
  BY DEF PublishedEdges, Overlay
<1> QED BY <1>1, <1>2 DEF PublishedGraph, OverlayGraph

\* What a database that is committed has to satisfy.
DerivedIn(d) ==
  /\ d.graph = Replay(JournalOf(d))
  /\ Replica(OutboxOf(d)) = PublishedGraph(d.graph)
  /\ \A s, t \in d.spool : s.sequence = t.sequence => s = t

LEMMA EmptyIsDerived == DerivedIn(EmptyDatabase)
<1>1. EmptyDatabase.graph = EmptyGraph /\ EmptyDatabase.spool = {}
  BY DEF EmptyDatabase
<1>2. OutboxOf(EmptyDatabase) = << >>
  BY DEF OutboxOf, EmptyDatabase
<1>3. PublishedGraph(EmptyGraph) = EmptyGraph
  <2>1. Published(EmptyTable) = EmptyTable
    BY DEF Published, EmptyTable
  <2>2. PublishedEdges(EmptyTable) = EmptyTable
    BY DEF PublishedEdges, EmptyTable
  <2> QED BY <2>1, <2>2 DEF PublishedGraph, EmptyGraph
<1> QED BY <1>1, <1>2, <1>3, JournalOfEmpty, ReplayOfNothing, ReplicaOfNothing DEF DerivedIn

LEMMA EndDerived ==
  ASSUME NEW c, DerivedIn(c), End(c)
  PROVE  DerivationInv'
<1>1. db' = c /\ step' = "closed" /\ pos' = 1 /\ changed' = EmptyGraph
  BY DEF End
<1> QED BY <1>1 DEF DerivationInv, DerivedIn, GraphIsReplay, ReplicaFollows, Journal

LEMMA CommittedIsDerived == DerivationInv => DerivedIn(db)
BY DEF DerivationInv, DerivedIn, GraphIsReplay, ReplicaFollows, Journal

LEMMA OutboxIsSequence ==
  ASSUME NEW d, d.lastSpool \in Nat
  PROVE  Len(OutboxOf(d)) = d.lastSpool
<1> DEFINE q == OutboxOf(d)
           S == {q[n] : n \in 1 .. d.lastSpool}
<1>1. q = [n \in 1 .. d.lastSpool |-> q[n]]
  BY DEF OutboxOf
<1> HIDE DEF q
<1>2. q \in [1 .. d.lastSpool -> S]
  BY <1>1
<1> HIDE DEF S
<1>3. Len(q) = d.lastSpool
  BY <1>2
<1> QED BY <1>3 DEF q

\* The outbox with one more row.
LEMMA OutboxGrows ==
  ASSUME NEW d, ContiguousIn(d), AlignedIn(d), d.lastSpool \in Nat,
         \A s, t \in d.spool : s.sequence = t.sequence => s = t,
         NEW c, NEW row, row.sequence = d.lastSpool + 1, c.spool = d.spool \cup {row},
         c.lastSpool = d.lastSpool + 1
  PROVE  /\ \A s, t \in c.spool : s.sequence = t.sequence => s = t
         /\ \A n \in 1 .. d.lastSpool : OutboxOf(c)[n] = OutboxOf(d)[n]
         /\ OutboxOf(c)[d.lastSpool + 1] = row.payload
<1>1. \A s \in d.spool : s.sequence \in 1 .. d.lastSpool
  <2> TAKE s \in d.spool
  <2>1. PICK r \in d.events : <<r.sequence, r.event.id>> = <<s.sequence, s.event>>
    <3>1. <<s.sequence, s.event>> \in {<<q.sequence, q.event.id>> : q \in d.events}
      BY Zenon DEF AlignedIn
    <3> QED BY <3>1
  <2>2. r.sequence \in 1 .. d.lastEvent
    BY DEF ContiguousIn
  <2>3. r.sequence = s.sequence
    BY <2>1
  <2> QED BY <2>2, <2>3 DEF AlignedIn
<1>2. \A n \in 1 .. d.lastSpool : \E s \in d.spool : s.sequence = n
  <2> TAKE n \in 1 .. d.lastSpool
  <2>1. PICK r \in d.events : r.sequence = n
    BY DEF ContiguousIn, AlignedIn
  <2>2. PICK s \in d.spool : <<s.sequence, s.event>> = <<r.sequence, r.event.id>>
    <3>1. <<r.sequence, r.event.id>> \in {<<q.sequence, q.event>> : q \in d.spool}
      BY Zenon DEF AlignedIn
    <3> QED BY <3>1
  <2>3. s.sequence = r.sequence
    BY <2>2
  <2> QED BY <2>1, <2>3
<1>3. \A s, t \in c.spool : s.sequence = t.sequence => s = t
  BY <1>1
<1>4. ASSUME NEW n \in 1 .. d.lastSpool PROVE OutboxOf(c)[n] = OutboxOf(d)[n]
  <2>1. PICK s \in d.spool : s.sequence = n
    BY <1>2
  <2>2. (CHOOSE t \in d.spool : t.sequence = n) = s
    BY <2>1
  <2>3. (CHOOSE t \in c.spool : t.sequence = n) = s
    BY <1>3, <2>1
  <2>4. n \in 1 .. c.lastSpool
    OBVIOUS
  <2> QED BY <2>2, <2>3, <2>4 DEF OutboxOf
<1>5. OutboxOf(c)[d.lastSpool + 1] = row.payload
  <2>1. (CHOOSE t \in c.spool : t.sequence = d.lastSpool + 1) = row
    BY <1>3
  <2> QED BY <2>1 DEF OutboxOf
<1> QED BY <1>3, <1>4, <1>5

\* A commit: the event is projected completely, and its changed rows are published.
LEMMA CommitDerives ==
  ASSUME Inv, DerivationInv, NEW w \in Writers, RecordCommit(w)
  PROVE  DerivationInv'
<1> DEFINE c == WithOutboxRow(image, request, changed)
           row == [sequence |-> image.lastSpool + 1, event |-> request.id,
                   payload |-> changed]
<1>1. /\ step = "project" /\ request \in Events
      /\ IsDatabase(db) /\ ContiguousIn(db) /\ AlignedIn(db)
      /\ image = WithGraph(WithEvent(db, request), image.graph)
  BY DEF RecordCommit, Inv, TypeOK, TransactionInv, JournalContiguous, OutboxAligned
<1>2. End(c) /\ db' = c
  BY DEF RecordCommit, End
<1>3. IsDatabase(c) /\ ContiguousIn(c)
  BY <1>2, CommitSound DEF Inv, TypeOK, TransactionInv, JournalContiguous
<1>4. /\ image.lastSpool = db.lastSpool /\ image.spool = db.spool
      /\ image.events = db.events \cup {[sequence |-> db.lastEvent + 1, event |-> request]}
      /\ image.lastEvent = db.lastEvent + 1
  BY <1>1 DEF WithGraph, WithEvent
<1>5. /\ c.graph = image.graph /\ c.lastEvent = db.lastEvent + 1
      /\ c.events = db.events \cup {[sequence |-> db.lastEvent + 1, event |-> request]}
      /\ c.spool = db.spool \cup {row} /\ c.lastSpool = db.lastSpool + 1
  BY <1>4 DEF WithOutboxRow
<1>6. row.sequence = db.lastSpool + 1 /\ row.payload = changed
  BY <1>4
<1> HIDE DEF c, row
<1>7. image.graph = Projected(db.graph, request)
  <2>1. /\ pos - 1 \in 0 .. Len(Facts(request)) /\ pos \in Nat
        /\ image.graph = Projection(db.graph, request)[pos - 1]
    BY <1>1 DEF DerivationInv, Inv, TypeOK
  <2>2. DOMAIN Facts(request) = 1 .. Len(Facts(request)) /\ Len(Facts(request)) \in Nat
    BY <1>1, EventsAssumption
  <2>3. pos \notin 1 .. Len(Facts(request))
    BY <2>2 DEF RecordCommit
  <2>4. pos - 1 = Len(Facts(request))
    BY <2>1, <2>2, <2>3
  <2> QED BY <2>1, <2>4 DEF Projected
<1>8. c.graph = Replay(JournalOf(c))
  <2>1. JournalOf(c) = Append(JournalOf(db), request)
    BY <1>1, <1>3, <1>5, JournalGrows
  <2>2. JournalOf(db) \in Seq(Events)
    BY <1>1, JournalIsSequence
  <2>3. db.graph = Replay(JournalOf(db))
    BY DEF DerivationInv, GraphIsReplay, Journal
  <2>4. Replay(JournalOf(c)) = Projected(db.graph, request)
    BY <1>1, <2>1, <2>2, <2>3, ReplayExtends
  <2> QED BY <1>5, <1>7, <2>4
<1>9. /\ Replica(OutboxOf(c)) = PublishedGraph(c.graph)
      /\ \A s, t \in c.spool : s.sequence = t.sequence => s = t
  <2>1. db.lastSpool \in Nat /\ c.lastSpool \in Nat
    BY <1>1, <1>3 DEF IsDatabase
  <2>2. \A s, t \in db.spool : s.sequence = t.sequence => s = t
    BY DEF DerivationInv
  <2>3. /\ \A s, t \in c.spool : s.sequence = t.sequence => s = t
        /\ \A n \in 1 .. db.lastSpool : OutboxOf(c)[n] = OutboxOf(db)[n]
        /\ OutboxOf(c)[db.lastSpool + 1] = changed
    BY <1>1, <1>5, <1>6, <2>1, <2>2, OutboxGrows
  <2>4. Len(OutboxOf(db)) = db.lastSpool /\ Len(OutboxOf(c)) = db.lastSpool + 1
    BY <1>5, <2>1, OutboxIsSequence
  <2>5. Replica(OutboxOf(c))
          = Received(Replica(OutboxOf(db)), changed)
    <3>1. \A n \in 1 .. db.lastSpool : OutboxOf(db)[n] = OutboxOf(c)[n]
      BY <2>3
    <3>2. Replica(OutboxOf(c))
            = Received(Replica(OutboxOf(db)), OutboxOf(c)[db.lastSpool + 1])
      BY <2>1, <2>4, <3>1, ReplicaExtends
    <3> QED BY <2>3, <3>2
  <2>6. Replica(OutboxOf(db)) = PublishedGraph(db.graph)
    BY DEF DerivationInv, ReplicaFollows
  <2>7. image.graph = OverlayGraph(db.graph, changed)
    BY <1>1 DEF DerivationInv
  <2> QED BY <1>5, <2>3, <2>5, <2>6, <2>7, PublishedOverlay DEF Received
<1> QED BY <1>2, <1>8, <1>9, EndDerived DEF DerivedIn

LEMMA ProjectDerives ==
  ASSUME Inv, DerivationInv, NEW w \in Writers, ProjectFact(w)
  PROVE  DerivationInv'
<1> DEFINE f == Facts(request)[pos]
           g == image.graph
<1>1. /\ step = "project" /\ request \in Events /\ pos \in DOMAIN Facts(request)
      /\ pos - 1 \in 0 .. Len(Facts(request)) /\ pos \in Nat
      /\ g = Projection(db.graph, request)[pos - 1]
      /\ g = OverlayGraph(db.graph, changed)
  BY DEF ProjectFact, DerivationInv, Inv, TypeOK
<1>2. DOMAIN Facts(request) = 1 .. Len(Facts(request)) /\ Len(Facts(request)) \in Nat
  BY <1>1, EventsAssumption
<1>3. /\ pos' = pos + 1 /\ pos' - 1 = pos /\ pos' - 1 \in 0 .. Len(Facts(request))
  BY <1>1, <1>2 DEF ProjectFact
<1>4. /\ image'.graph = Apply(g, request, f) /\ changed' = Upsert(changed, g, request, f)
      /\ UNCHANGED <<db, step, request>>
  BY DEF ProjectFact, WithGraph
<1>5. image'.graph = Projection(db.graph, request)[pos]
  <2>1. pos \in 1 .. Len(Facts(request))
    BY <1>1, <1>2
  <2>2. Projection(db.graph, request)[pos]
          = Apply(Projection(db.graph, request)[pos - 1], request, f)
    BY <1>2, <2>1, ProjectionUnfolds
  <2> HIDE DEF g, f
  <2> QED BY <1>1, <1>4, <2>2
<1>6. image'.graph = OverlayGraph(db.graph, changed')
  <2> HIDE DEF g, f
  <2> QED BY <1>1, <1>4, OverlayOfUpsert DEF Apply
<1> QED BY <1>1, <1>3, <1>4, <1>5, <1>6
        DEF DerivationInv, GraphIsReplay, ReplicaFollows, Journal

LEMMA InsertDerives ==
  ASSUME Inv, DerivationInv, NEW w \in Writers, RecordInsert(w)
  PROVE  DerivationInv'
<1>1. /\ image = db /\ pos = 1 /\ changed = EmptyGraph /\ request \in Events
      /\ IsGraph(db.graph)
  BY DEF RecordInsert, Inv, TypeOK, IsDatabase, TransactionInv, DerivationInv
<1>2. /\ image'.graph = db.graph /\ step' = "project"
      /\ UNCHANGED <<db, request, pos, changed>>
  BY <1>1 DEF RecordInsert, WithEvent
<1>3. Len(Facts(request)) \in Nat /\ 1 - 1 = 0 /\ pos - 1 \in 0 .. Len(Facts(request))
  BY <1>1, EventsAssumption
<1>4. image'.graph = Projection(db.graph, request)[pos - 1]
  BY <1>1, <1>2, <1>3, ProjectionUnfolds
<1>5. image'.graph = OverlayGraph(db.graph, changed)
  BY <1>1, <1>2, OverlayOfNothing
<1> QED BY <1>2, <1>3, <1>4, <1>5
        DEF DerivationInv, GraphIsReplay, ReplicaFollows, Journal

LEMMA DerivationStep == Inv /\ DerivationInv /\ [Next]_vars => DerivationInv'
<1> SUFFICES ASSUME Inv, DerivationInv, [Next]_vars PROVE DerivationInv'
  OBVIOUS
<1>1. ASSUME UNCHANGED <<db, image, step, request, pos, changed>> PROVE DerivationInv'
  BY <1>1 DEF DerivationInv, GraphIsReplay, ReplicaFollows, Journal
<1>2. ASSUME NEW w \in Writers, RecordBegin(w) \/ ResetBegin(w) PROVE DerivationInv'
  <2>1. step # "project" /\ step' # "project" /\ UNCHANGED <<db, pos, changed>>
    BY <1>2 DEF RecordBegin, ResetBegin, Begin, Inv, TypeOK
  <2> QED BY <2>1 DEF DerivationInv, GraphIsReplay, ReplicaFollows, Journal
<1>3. ASSUME NEW w \in Writers,
             RecordConflict(w) \/ ProjectFails(w) \/ ResetRefused(w)
      PROVE  DerivationInv'
  BY <1>3, CommittedIsDerived, EndDerived
  DEF RecordConflict, ProjectFails, ResetRefused, Rollback
<1>4. ASSUME NEW w \in Writers, RecordDuplicate(w) PROVE DerivationInv'
  <2>1. End(db)
    BY <1>4 DEF RecordDuplicate, Commit, Inv, TransactionInv
  <2> QED BY <2>1, CommittedIsDerived, EndDerived
<1>5. ASSUME NEW w \in Writers, ResetCommit(w) PROVE DerivationInv'
  BY <1>5, EmptyIsDerived, EndDerived DEF ResetCommit
<1>6. ASSUME NEW w \in Writers, Return(w) PROVE DerivationInv'
  BY <1>1, <1>6 DEF Return, transaction
<1>7. ASSUME NEW w \in Writers, Crash(w) PROVE DerivationInv'
  <2>1. CASE holder = w
    BY <1>7, <2>1, CommittedIsDerived, EndDerived DEF Crash, Rollback
  <2>2. CASE holder # w
    BY <1>1, <1>7, <2>2 DEF Crash, transaction
  <2> QED BY <2>1, <2>2
<1>8. CASE UNCHANGED vars
  BY <1>1, <1>8 DEF vars, transaction
<1> QED
  BY <1>2, <1>3, <1>4, <1>5, <1>6, <1>7, <1>8, InsertDerives, ProjectDerives, CommitDerives
  DEF Next, WriterStep

LEMMA InitDerived == Init => DerivationInv
<1> SUFFICES ASSUME Init PROVE DerivationInv
  OBVIOUS
<1>1. db = EmptyDatabase /\ step = "closed" /\ pos = 1 /\ changed = EmptyGraph
  BY DEF Init
<1> QED BY <1>1, EmptyIsDerived
        DEF DerivationInv, DerivedIn, GraphIsReplay, ReplicaFollows, Journal

\* The transaction invariant and the relation of an open projection to the replay.
THEOREM Derivation == Spec => [](Inv /\ DerivationInv)
BY InitSound, NextSound, InitDerived, DerivationStep, PTL DEF Spec

\* The graph can be rebuilt from the journal at any time, whatever was refused, retried,
\* interrupted or reset.
THEOREM GraphRebuilds == Spec => []GraphIsReplay
<1>1. DerivationInv => GraphIsReplay
  BY DEF DerivationInv
<1> QED BY <1>1, Derivation, PTL

\* A replica that is fed with nothing but the outbox has what the graph publishes.
THEOREM ReplicaIsFaithful == Spec => []ReplicaFollows
<1>1. DerivationInv => ReplicaFollows
  BY DEF DerivationInv
<1> QED BY <1>1, Derivation, PTL
=============================================================================

----------------------------- MODULE EventStore -----------------------------
(***************************************************************************)
(* The local event store (packages/core/src/brainhub/store.py) and the     *)
(* writers that share it.                                                  *)
(*                                                                         *)
(* A writer is a thread or a process that calls append_event: the daemon's *)
(* request threads, the command line, a direct MCP server.  Every write is *)
(* one SQLite transaction opened with BEGIN IMMEDIATE, so at most one is   *)
(* open; it works on an image of the database that becomes the database    *)
(* when it commits and is discarded when it rolls back or its process      *)
(* dies.  db is what any other connection reads.                           *)
(***************************************************************************)
EXTENDS Projector, FiniteSets

CONSTANTS Writers,       \* threads and processes that write to the database
          Events,        \* the events that may be submitted, again and again
          DemoIds,       \* event ids a demo reset may erase
          NoWriter       \* the write lock is free

ReviewStates == {"UNREVIEWED", "ACCEPTED", "REJECTED", "NEEDS_REVIEW"}

EventIds == {e.id : e \in Events}

Stamps == [creation : EventIds, start : Nat, latest : EventIds]

ASSUME EventsAssumption ==
  /\ NoWriter \notin Writers
  /\ None \notin Events
  /\ \A e \in Events :
       /\ e.time \in Nat
       /\ DOMAIN Facts(e) = 1 .. Len(Facts(e)) /\ Len(Facts(e)) \in Nat
       /\ \A i \in DOMAIN Facts(e) :
            Facts(e)[i].review \in ReviewStates /\ Facts(e)[i].stamp \in Stamps
  /\ \A e, d \in Events : e.id = d.id /\ e.digest = d.digest => e = d

VARIABLES
  db,        \* the committed database
  image,     \* the database as the open transaction sees it
  holder,    \* the writer whose transaction is open, or NoWriter
  step,      \* what the open transaction does next
  request,   \* the event it records, or None
  pos,       \* the next fact of that event to project
  changed,   \* the nodes and edges it has changed so far, with their new rows
  answer,    \* what append_event returned to a writer that has not replied yet
  receipts   \* the event rows callers have been told of

transaction == <<image, holder, step, request, pos, changed>>
vars == <<db, transaction, answer, receipts>>

-----------------------------------------------------------------------------
(* The tables.  events and spool are sets of rows; lastEvent and lastSpool  *)
(* are the AUTOINCREMENT counters that SQLite keeps for them.               *)

EmptyDatabase ==
  [events |-> {}, lastEvent |-> 0, spool |-> {}, lastSpool |-> 0,
   graph |-> EmptyGraph, checkpoint |-> 0]

\* INSERT INTO events: the next AUTOINCREMENT value is the sequence of the event.
WithEvent(d, e) ==
  [events |-> d.events \cup {[sequence |-> d.lastEvent + 1, event |-> e]},
   lastEvent |-> d.lastEvent + 1, spool |-> d.spool, lastSpool |-> d.lastSpool,
   graph |-> d.graph, checkpoint |-> d.checkpoint]

\* One upsert into nodes or edges.
WithGraph(d, g) ==
  [events |-> d.events, lastEvent |-> d.lastEvent, spool |-> d.spool,
   lastSpool |-> d.lastSpool, graph |-> g, checkpoint |-> d.checkpoint]

\* The checkpoint moves to the event and INSERT INTO sync_spool queues its payload.
WithOutboxRow(d, e, payload) ==
  [events |-> d.events, lastEvent |-> d.lastEvent,
   spool |-> d.spool \cup {[sequence |-> d.lastSpool + 1, event |-> e.id,
                            payload |-> payload]},
   lastSpool |-> d.lastSpool + 1, graph |-> d.graph, checkpoint |-> d.lastEvent]

RowsOf(d, id) == {r \in d.events : r.event.id = id}

Begin(w, next, e) ==
  /\ holder = NoWriter
  /\ answer[w] = None
  /\ holder' = w
  /\ step' = next
  /\ request' = e
  /\ UNCHANGED <<db, image, pos, changed, answer, receipts>>

\* The transaction ends: committed is the database it leaves behind.
End(committed) ==
  /\ db' = committed
  /\ image' = committed
  /\ holder' = NoWriter
  /\ step' = "closed"
  /\ request' = None
  /\ pos' = 1
  /\ changed' = EmptyGraph

Commit   == End(image)
Rollback == End(db)

Answer(w, e, sequence, accepted) ==
  answer' = [answer EXCEPT ![w] = [event |-> e, sequence |-> sequence,
                                   accepted |-> accepted]]

-----------------------------------------------------------------------------
(* append_event                                                            *)

RecordBegin(w) == \E e \in Events : Begin(w, "insert", e)

\* The id is already bound to other content: EventIntegrityError.
RecordConflict(w) ==
  /\ holder = w /\ step = "insert"
  /\ \E r \in RowsOf(image, request.id) : r.event.digest # request.digest
  /\ Rollback
  /\ UNCHANGED <<answer, receipts>>

\* Mutant: the digest of the recorded event is not compared.
RecordDuplicateAny(w) ==
  /\ holder = w /\ step = "insert"
  /\ \E r \in RowsOf(image, request.id) : Answer(w, request, r.sequence, FALSE)
  /\ Commit
  /\ UNCHANGED receipts

\* A retry of an event that is already recorded: the first sequence again.
RecordDuplicate(w) ==
  /\ holder = w /\ step = "insert"
  /\ \E r \in RowsOf(image, request.id) :
       /\ r.event.digest = request.digest
       /\ Answer(w, request, r.sequence, FALSE)
  /\ Commit
  /\ UNCHANGED receipts

RecordInsert(w) ==
  /\ holder = w /\ step = "insert"
  /\ RowsOf(image, request.id) = {}
  /\ image' = WithEvent(image, request)
  /\ step' = "project"
  /\ UNCHANGED <<db, holder, request, pos, changed, answer, receipts>>

\* Mutants of ProjectFact: the outbox gets a node as the event states it, not as it
\* was merged; a review of an edge does not reach the outbox; a node that exists
\* is left as it is (DO NOTHING instead of DO UPDATE).
ProjectFactUnmerged(w) ==
  /\ holder = w /\ step = "project"
  /\ pos \in DOMAIN Facts(request)
  /\ LET f == Facts(request)[pos]
     IN  /\ Accepts(image.graph, f)
         /\ image' = WithGraph(image, Apply(image.graph, request, f))
         /\ changed' = Upsert(changed, IF f.op = "node" THEN EmptyGraph ELSE image.graph,
                              request, f)
  /\ pos' = pos + 1
  /\ UNCHANGED <<db, holder, step, request, answer, receipts>>

ProjectFactSilent(w) ==
  /\ holder = w /\ step = "project"
  /\ pos \in DOMAIN Facts(request)
  /\ LET f == Facts(request)[pos]
     IN  /\ Accepts(image.graph, f)
         /\ image' = WithGraph(image, Apply(image.graph, request, f))
         /\ changed' = IF f.op = "feedback" /\ WritesEdge(image.graph, f) THEN changed
                       ELSE Upsert(changed, image.graph, request, f)
  /\ pos' = pos + 1
  /\ UNCHANGED <<db, holder, step, request, answer, receipts>>

ProjectFactOnce(w) ==
  /\ holder = w /\ step = "project"
  /\ pos \in DOMAIN Facts(request)
  /\ LET f == Facts(request)[pos]
     IN  /\ Accepts(image.graph, f)
         /\ image' = IF f.op = "node" /\ f.id \in DOMAIN image.graph.nodes THEN image
                     ELSE WithGraph(image, Apply(image.graph, request, f))
         /\ changed' = Upsert(changed, image.graph, request, f)
  /\ pos' = pos + 1
  /\ UNCHANGED <<db, holder, step, request, answer, receipts>>

\* One upsert of the projector.
ProjectFact(w) ==
  /\ holder = w /\ step = "project"
  /\ pos \in DOMAIN Facts(request)
  /\ LET f == Facts(request)[pos]
     IN  /\ Accepts(image.graph, f)
         /\ image' = WithGraph(image, Apply(image.graph, request, f))
         /\ changed' = Upsert(changed, image.graph, request, f)
  /\ pos' = pos + 1
  /\ UNCHANGED <<db, holder, step, request, answer, receipts>>

\* Mutant: the upserts done so far survive the failure.
ProjectFailsKeepsGraph(w) ==
  /\ holder = w /\ step = "project"
  /\ pos \in DOMAIN Facts(request)
  /\ ~Accepts(image.graph, Facts(request)[pos])
  /\ End([db EXCEPT !.graph = image.graph])
  /\ UNCHANGED <<answer, receipts>>

\* Mutant: the exception leaves the transaction open.
ProjectFailsOpen(w) ==
  /\ holder = w /\ step = "project"
  /\ pos \in DOMAIN Facts(request)
  /\ ~Accepts(image.graph, Facts(request)[pos])
  /\ step' = "closed" /\ request' = None
  /\ UNCHANGED <<db, image, holder, pos, changed, answer, receipts>>

\* ProjectionIntegrityError, or an error turned into one, half way through.
ProjectFails(w) ==
  /\ holder = w /\ step = "project"
  /\ pos \in DOMAIN Facts(request)
  /\ ~Accepts(image.graph, Facts(request)[pos])
  /\ Rollback
  /\ UNCHANGED <<answer, receipts>>

\* The last fact is projected: checkpoint, outbox row and COMMIT.
RecordCommit(w) ==
  /\ holder = w /\ step = "project"
  /\ pos \notin DOMAIN Facts(request)
  /\ End(WithOutboxRow(image, request, changed))
  /\ Answer(w, request, image.lastEvent, TRUE)
  /\ UNCHANGED receipts

\* The event row that an answer names.
RowOf(a) == [sequence |-> a.sequence, event |-> a.event]

\* The caller receives the RecordResponse.
Return(w) ==
  /\ answer[w] # None
  /\ receipts' = receipts \cup {RowOf(answer[w])}
  /\ answer' = [answer EXCEPT ![w] = None]
  /\ UNCHANGED <<db, transaction>>

-----------------------------------------------------------------------------
(* reset_if_only_events, used by the demo command                          *)

ResetBegin(w) == Begin(w, "reset", None)

OnlyDemoEvents(d) == {r.event.id : r \in d.events} \subseteq DemoIds

ResetRefused(w) ==
  /\ holder = w /\ step = "reset"
  /\ ~OnlyDemoEvents(image)
  /\ Rollback
  /\ UNCHANGED <<answer, receipts>>

\* Mutants of ResetCommit: the outbox counter is not restarted; the events are not
\* looked at.
ResetCommitKeepsCounter(w) ==
  /\ holder = w /\ step = "reset"
  /\ OnlyDemoEvents(image)
  /\ End([EmptyDatabase EXCEPT !.lastSpool = image.lastSpool])
  /\ UNCHANGED <<answer, receipts>>

ResetCommitAlways(w) ==
  /\ holder = w /\ step = "reset"
  /\ End(EmptyDatabase)
  /\ UNCHANGED <<answer, receipts>>

\* Every table is emptied and the AUTOINCREMENT counters start again.
ResetCommit(w) ==
  /\ holder = w /\ step = "reset"
  /\ OnlyDemoEvents(image)
  /\ End(EmptyDatabase)
  /\ UNCHANGED <<answer, receipts>>

-----------------------------------------------------------------------------
\* The process of w dies: an open transaction is rolled back by SQLite, and a
\* reply that was not sent is lost.
Crash(w) ==
  /\ holder = w \/ answer[w] # None
  /\ IF holder = w THEN Rollback ELSE UNCHANGED <<db, transaction>>
  /\ answer' = [answer EXCEPT ![w] = None]
  /\ UNCHANGED receipts

Init ==
  /\ db = EmptyDatabase
  /\ image = EmptyDatabase
  /\ holder = NoWriter
  /\ step = "closed"
  /\ request = None
  /\ pos = 1
  /\ changed = EmptyGraph
  /\ answer = [w \in Writers |-> None]
  /\ receipts = {}

WriterStep(w) ==
  \/ RecordConflict(w) \/ RecordDuplicate(w) \/ RecordInsert(w)
  \/ ProjectFact(w) \/ ProjectFails(w) \/ RecordCommit(w)
  \/ ResetRefused(w) \/ ResetCommit(w)

Next ==
  \E w \in Writers :
    \/ RecordBegin(w) \/ ResetBegin(w)
    \/ WriterStep(w)
    \/ Return(w) \/ Crash(w)

Spec == Init /\ [][Next]_vars

\* The writer that holds the lock, the only one with such a step, keeps running: nothing
\* in a transaction waits.
FairSpec == Spec /\ WF_vars(\E w \in Writers : WriterStep(w))

-----------------------------------------------------------------------------
(* Correctness                                                             *)

NodeRows == [creation : EventIds, start : Nat, review : ReviewStates, latest : EventIds]

IsEdgeRow(r) ==
  r \in [creation : EventIds, source : {r.source}, target : {r.target},
         start : Nat, review : ReviewStates, latest : EventIds]

IsTable(t) == t = [x \in DOMAIN t |-> t[x]]

IsGraph(g) ==
  /\ g = [nodes |-> g.nodes, edges |-> g.edges]
  /\ IsTable(g.nodes) /\ IsTable(g.edges)
  /\ \A x \in DOMAIN g.nodes : g.nodes[x] \in NodeRows
  /\ \A x \in DOMAIN g.edges : IsEdgeRow(g.edges[x])

EventRows == [sequence : Nat \ {0}, event : Events]

IsDatabase(d) ==
  /\ d = [events |-> d.events, lastEvent |-> d.lastEvent, spool |-> d.spool,
          lastSpool |-> d.lastSpool, graph |-> d.graph, checkpoint |-> d.checkpoint]
  /\ d.events \subseteq EventRows
  /\ d.lastEvent \in Nat /\ d.lastSpool \in Nat /\ d.checkpoint \in Nat
  /\ \A s \in d.spool :
       /\ s = [sequence |-> s.sequence, event |-> s.event, payload |-> s.payload]
       /\ s.sequence \in Nat \ {0} /\ s.event \in EventIds /\ IsGraph(s.payload)
  /\ IsGraph(d.graph)

Replies == [event : Events, sequence : Nat \ {0}, accepted : BOOLEAN]

\* Type invariant: the shape of the tables, of the open transaction and of the
\* replies, and that an open transaction is always one of append_event's or of
\* reset_if_only_events' two points of progress.
TypeOK ==
  /\ IsDatabase(db) /\ IsDatabase(image)
  /\ holder \in Writers \cup {NoWriter}
  /\ step \in {"closed", "insert", "project", "reset"}
  /\ step = "closed" <=> holder = NoWriter
  /\ step \in {"insert", "project"} <=> request # None
  /\ request \in Events \cup {None}
  /\ pos \in Nat \ {0}
  /\ IsGraph(changed)
  /\ answer \in [Writers -> Replies \cup {None}]
  /\ receipts \subseteq EventRows

ContiguousIn(d) ==
  /\ {r.sequence : r \in d.events} = 1 .. d.lastEvent
  /\ \A r, s \in d.events : r.sequence = s.sequence \/ r.event.id = s.event.id => r = s

AlignedIn(d) ==
  /\ {<<r.sequence, r.event.id>> : r \in d.events} = {<<s.sequence, s.event>> : s \in d.spool}
  /\ d.lastSpool = d.lastEvent
  /\ d.checkpoint = d.lastEvent

Closed(g) == \A x \in DOMAIN g.edges : EndpointsExist(g, g.edges[x])

\* The journal has no gap and no repetition: the committed sequences are exactly
\* 1 .. lastEvent, one event each, and no event id is recorded twice, whatever
\* was retried, refused half way through its projection or killed.
JournalContiguous == ContiguousIn(db)

\* Events, outbox rows and the projector checkpoint move together: the outbox row
\* of sequence n is the one of event n, although the two tables count their rows
\* separately, and the checkpoint is the last event.
OutboxAligned == AlignedIn(db)

\* The committed graph has no dangling edge, whichever facts an event asserted,
\* in whichever order, and wherever its projection was refused.
GraphClosed == Closed(db.graph)

Rely(row) == row.event.id \in DemoIds \/ row \in db.events

\* A caller that was told a sequence number can rely on it: unless it is a demo
\* event that a reset erased, the event is recorded under that sequence for good,
\* with the content the caller sent.
ReceiptsDurable ==
  \A t \in receipts : Rely(t)

OriginsKept(g, h) ==
  \A x \in DOMAIN g.nodes \cap DOMAIN h.nodes :
    /\ h.nodes[x].creation = g.nodes[x].creation
    /\ h.nodes[x].start <= g.nodes[x].start

\* Why the properties above are kept.  Outside a projection the image of an open
\* transaction is the committed database; during one it is the committed database
\* with one more event, whose id is new, and a graph that has grown without losing
\* a node or its origin.  What will be told to a caller can be relied on already.
TransactionInv ==
  /\ JournalContiguous /\ OutboxAligned /\ GraphClosed /\ ReceiptsDurable
  /\ Closed(image.graph)
  /\ step # "project" => image = db
  /\ step = "project" =>
       /\ RowsOf(db, request.id) = {}
       /\ image = WithGraph(WithEvent(db, request), image.graph)
       /\ DOMAIN db.graph.nodes \subseteq DOMAIN image.graph.nodes
       /\ OriginsKept(db.graph, image.graph)
  /\ \A w \in Writers : answer[w] # None => Rely(RowOf(answer[w]))

\* No step ever loses or renumbers a recorded event that is not a demo event: a
\* reset refuses to run when another writer got one in first.
PersonalHistoryKept ==
  [][\A r \in db.events : r.event.id \in DemoIds \/ r \in db'.events]_db

\* As long as a node exists its creating event never changes and its valid time
\* never starts later, in whatever order late and retried events arrive.
NodeOriginStable == [][OriginsKept(db.graph, db'.graph)]_db

\* The write lock is always given back: every transaction ends, the ones that
\* fail included, or no event would ever be recorded again.
TransactionsEnd == holder # NoWriter ~> holder = NoWriter
=============================================================================

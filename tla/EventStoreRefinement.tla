------------------------ MODULE EventStoreRefinement ------------------------
(***************************************************************************)
(* The event store implements the abstract journal of EventLog.tla: the    *)
(* transactions, their partial effects, failures and crashes are invisible *)
(* to whoever reads the journal or is told a sequence number.              *)
(***************************************************************************)
EXTENDS EventStore

\* The journal: the event of each committed sequence number.
JournalOf(d) ==
  [n \in 1 .. d.lastEvent |-> (CHOOSE r \in d.events : r.sequence = n).event]

Journal == JournalOf(db)

Log == INSTANCE EventLog WITH log <- Journal, told <- receipts

\* Every behaviour of the store is one of the abstract journal: an event appears
\* in it in one step and whole, once per id, a reply names the sequence the event
\* has, and only a reset that finds demo events alone takes anything back.
ImplementsEventLog == Log!Spec
=============================================================================

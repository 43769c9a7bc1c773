------------------------------ MODULE GraphSync ------------------------------
(***************************************************************************)
(* Graph-only synchronization: the outbox of the local store               *)
(* (packages/core/src/brainhub/store.py: next_sync_batch,                  *)
(* acknowledge_sync), the cloud function that ingests batches              *)
(* (cloud/migrations/002_atomic_sync_ingest.sql), and the courier between  *)
(* them, which is not in the repository.  A courier asks the local API for *)
(* the next batch, sends it to the cloud, and reports the sequence the     *)
(* cloud returned back to the local API.  It may die, time out, repeat any *)
(* call and be one of several; a call may arrive late.  So any batch that  *)
(* was ever handed out may reach the cloud at any time and any number of   *)
(* times, and so may any acknowledgement that was ever earned.             *)
(*                                                                         *)
(* The outbox only grows here, one row per recorded event, numbered        *)
(* without a gap: EventStore.tla shows that append_event does this.  Its   *)
(* reset for demonstrations is not part of this module.                    *)
(***************************************************************************)
EXTENDS Naturals, Sequences, FiniteSets, Functions

CONSTANTS Couriers,      \* concurrent callers of GET /v1/sync/batch
          Events,        \* the recorded events, each with its graph payload
          Limits,        \* the batch limits that callers ask for
          MaxBatch,      \* the most events a batch may hold, 500
          NoRead         \* a courier has no call in progress

ASSUME SyncAssumption ==
  /\ MaxBatch \in Nat \ {0}
  /\ 1 .. MaxBatch \subseteq Limits /\ Limits \subseteq Nat \ {0}

VARIABLES
  outbox,    \* sync_spool: the event of every row, by sequence
  acked,     \* the sequences whose acknowledged_at is set
  issued,    \* sync_issued_batches, in the order of issued_at
  reading,   \* the rows a call of next_sync_batch has read, or NoRead
  handed,    \* every batch a courier was given
  cursor,    \* the cloud's installations.last_cursor
  batches,   \* the cloud's sync_batches, with the events they were accepted with
  ledger,    \* the cloud's graph_events, by sequence
  earned     \* every boundary the cloud returned to a courier

local == <<outbox, acked, issued, reading, handed>>
cloud == <<cursor, batches, ledger, earned>>
vars == <<local, cloud>>

-----------------------------------------------------------------------------
(* Helpers.                                                                *)

\* Mutant: the id of a batch only depends on where it begins.
BatchIdOfFirst(first, last) == <<first, first>>

\* uuid5(installation, "first:last")
BatchId(first, last) == <<first, last>>

Batch(first, last, rows) == [first |-> first, last |-> last, rows |-> rows]

IdOf(b) == BatchId(b.first, b.last)

Pending == DOMAIN outbox \ acked

UpTo(last) == {s \in Pending : s <= last}

\* The call asks for at most limit rows and gets the first ones that are not
\* acknowledged: as many as that, or all of them.
Selects(limit, first, last) ==
  /\ first \in Pending /\ last \in Pending
  /\ \A s \in Pending : first <= s
  /\ Cardinality(UpTo(last)) <= limit
  /\ Cardinality(UpTo(last)) = limit \/ UpTo(last) = Pending

\* The batch made of those rows.
Selected(first, last) == Batch(first, last, Restrict(outbox, UpTo(last)))

Bounded(limit) == IF limit > MaxBatch THEN MaxBatch ELSE limit

-----------------------------------------------------------------------------
(* The local store.                                                        *)

\* append_event commits one more row.
Record(e) ==
  /\ e \notin Range(outbox)
  /\ outbox' = Append(outbox, e)
  /\ UNCHANGED <<acked, issued, reading, handed, cloud>>

\* next_sync_batch, first half: the rows are read.
NextBatchRead(c, limit) ==
  /\ reading[c] = NoRead
  /\ \E first, last \in Pending :
       /\ Selects(Bounded(limit), first, last)
       /\ reading' = [reading EXCEPT ![c] = Selected(first, last)]
  /\ UNCHANGED <<outbox, acked, issued, handed, cloud>>

IssueRow(b) == [id |-> IdOf(b), first |-> b.first, last |-> b.last, acked |-> FALSE]

\* next_sync_batch, second half: INSERT OR IGNORE in a transaction of its own.
NextBatchIssue(c) ==
  /\ reading[c] # NoRead
  /\ issued' = IF \E i \in DOMAIN issued : issued[i].id = IdOf(reading[c])
               THEN issued
               ELSE Append(issued, IssueRow(reading[c]))
  /\ handed' = handed \cup {reading[c]}
  /\ reading' = [reading EXCEPT ![c] = NoRead]
  /\ UNCHANGED <<outbox, acked, cloud>>

\* The call dies between the two halves.
NextBatchDies(c) ==
  /\ reading[c] # NoRead
  /\ reading' = [reading EXCEPT ![c] = NoRead]
  /\ UNCHANGED <<outbox, acked, issued, handed, cloud>>

Open(i, last) == i \in DOMAIN issued /\ issued[i].last = last /\ ~issued[i].acked

Acknowledged(r) == [id |-> r.id, first |-> r.first, last |-> r.last, acked |-> TRUE]

\* acknowledge_sync: the latest open batch that ends there, whichever batch it was
\* that the cloud took, and the rows of its range.  No such batch: 409, no change.
Acknowledge(last) ==
  /\ last \in earned
  /\ \E i \in DOMAIN issued :
       /\ Open(i, last) /\ \A j \in DOMAIN issued : Open(j, last) => j <= i
       /\ acked' = acked \cup (DOMAIN outbox \cap issued[i].first .. issued[i].last)
       /\ issued' = [issued EXCEPT ![i] = Acknowledged(issued[i])]
  /\ UNCHANGED <<outbox, reading, handed, cloud>>

-----------------------------------------------------------------------------
(* The cloud.                                                              *)

Known(b) == \E k \in batches : IdOf(k) = IdOf(b)

\* The next batch in order, with one event for each of its sequences.
InOrder(b) ==
  /\ ~Known(b)
  /\ b.first = cursor + 1
  /\ DOMAIN b.rows = b.first .. b.last
  /\ b.last - b.first < MaxBatch

\* The ledger with the events of b.
Extended(b) ==
  [s \in DOMAIN ledger \cup DOMAIN b.rows |->
     IF s \in DOMAIN b.rows THEN b.rows[s] ELSE ledger[s]]

\* A batch is taken: cursor, audit row and events in one transaction.
Ingest(b) ==
  /\ InOrder(b)
  /\ cursor' = b.last
  /\ batches' = batches \cup {b}
  /\ ledger' = Extended(b)
  /\ earned' = earned \cup {b.last}
  /\ UNCHANGED local

\* Mutant: a batch whose events the cloud already has is treated as a retry.
IngestReplayedCovered(b) ==
  /\ b.first <= cursor
  /\ earned' = earned \cup {b.last}
  /\ UNCHANGED <<local, cursor, batches, ledger>>

\* A batch that was taken before, the same in content and bounds: its boundary
\* again.  Any other batch is refused, with no change.
IngestReplayed(b) ==
  /\ b \in batches
  /\ earned' = earned \cup {b.last}
  /\ UNCHANGED <<local, cursor, batches, ledger>>

-----------------------------------------------------------------------------
NoLedger == [s \in {} |-> NoRead]

Init ==
  /\ outbox = <<>> /\ acked = {} /\ issued = <<>>
  /\ reading = [c \in Couriers |-> NoRead] /\ handed = {}
  /\ cursor = 0 /\ batches = {} /\ ledger = NoLedger /\ earned = {}

Next ==
  \/ \E e \in Events : Record(e)
  \/ \E c \in Couriers :
       \/ \E limit \in Limits : NextBatchRead(c, limit)
       \/ NextBatchIssue(c)
       \/ NextBatchDies(c)
  \/ \E b \in handed : Ingest(b) \/ IngestReplayed(b)
  \/ \E last \in earned : Acknowledge(last)

Spec == Init /\ [][Next]_vars

-----------------------------------------------------------------------------
(* Correctness                                                             *)

IsBatch(b) ==
  /\ b = Batch(b.first, b.last, b.rows)
  /\ b.first \in Nat \ {0} /\ b.last \in Nat /\ b.first <= b.last
  /\ b.last <= Len(outbox)
  /\ b.rows = Restrict(outbox, b.first .. b.last)

IssueRows == [id : Nat \X Nat, first : Nat \ {0}, last : Nat, acked : BOOLEAN]

IsIssueRow(r) ==
  /\ r.id = BatchId(r.first, r.last)
  /\ r.first <= r.last /\ r.last <= Len(outbox)

\* Type invariant: among the rest, every batch that is read, handed out or taken
\* is a gapless range of the outbox with the content of its rows.
TypeOK ==
  /\ outbox \in Seq(Events)
  /\ acked \subseteq DOMAIN outbox
  /\ issued \in Seq(IssueRows)
  /\ \A i \in DOMAIN issued : IsIssueRow(issued[i])
  /\ reading = [c \in Couriers |-> reading[c]]
  /\ \A c \in Couriers : reading[c] # NoRead => IsBatch(reading[c])
  /\ \A b \in handed : IsBatch(b)
  /\ cursor \in 0 .. Len(outbox)
  /\ batches \subseteq handed
  /\ earned = {b.last : b \in batches}

\* What is acknowledged is always a prefix of the outbox: no event is skipped by
\* callers with other limits, late acknowledgements or batches that overlap.
AcknowledgedPrefix ==
  \A s \in acked, t \in DOMAIN outbox : t <= s => t \in acked

\* The cloud holds the first events of the outbox, as they were recorded.
CloudIsPrefix == ledger = Restrict(outbox, 1 .. cursor)

\* An event is only given up locally when the cloud has it: acknowledge_sync is told
\* a boundary and marks the range of some batch that ends there, not of the batch
\* that was taken.
AcknowledgedIsStored ==
  \A s \in acked : s \in DOMAIN ledger /\ ledger[s] = outbox[s]

\* The local store will find a row for an acknowledgement of b: it has one, or it
\* inserts one when it hands b out.
HasOpenRow(b) ==
  \/ \E i \in DOMAIN issued : Open(i, b.last)
  \/ \A i \in DOMAIN issued : issued[i].id # IdOf(b)

\* Synchronization never gets stuck for good: whatever acknowledgements were lost
\* while the outbox grew, there is a limit for which the next batch is one that the
\* cloud accepts and that can be acknowledged afterwards.  (It need not be the limit
\* that was used before: a batch that was taken has to be asked for again with its
\* own bounds.)
Resumable ==
  Pending # {} =>
    \E limit \in Limits, first, last \in Pending :
      /\ Selects(Bounded(limit), first, last)
      /\ Selected(first, last) \in batches \/ InOrder(Selected(first, last))
      /\ HasOpenRow(Selected(first, last))

\* The first k rows are acknowledged, and k is where a batch the cloud took ends.
ReleasedUpTo(k) == acked = 1 .. k /\ k \in {0} \cup earned

\* Why the properties above are kept.  A batch only ever begins right after rows that
\* are acknowledged, so whichever batch an acknowledgement finds, it extends the
\* prefix; the batches that the cloud took form a chain from 1 to the cursor.
SyncInv ==
  /\ CloudIsPrefix
  /\ \E k \in 0 .. Len(outbox) : ReleasedUpTo(k)
  /\ \A c \in Couriers : reading[c] # NoRead => 1 .. reading[c].first - 1 \subseteq acked
  /\ \A i \in DOMAIN issued :
       /\ 1 .. issued[i].first - 1 \subseteq acked
       /\ issued[i].acked => issued[i].last \in acked
  /\ \A b \in batches : b.last <= cursor /\ b.last - b.first < MaxBatch
  /\ \A a \in {0} \cup earned : a = cursor \/ \E b \in batches : b.first = a + 1

\* The contract that a user of synchronization sees, Replication.tla: a log, a
\* replica that is a prefix of it, and the length of the released part.
Contract == INSTANCE Replication
              WITH log <- outbox, replica <- ledger, released <- Cardinality(acked)

\* The two stores and the couriers together copy the log in order, never change
\* what was copied and release locally only what was copied, whatever is lost,
\* repeated or late in between.
ImplementsReplication == Contract!Spec
=============================================================================

--------------------------- MODULE GraphSyncProofs ---------------------------
(***************************************************************************)
(* Theorems about GraphSync, for any couriers, events, limits and batch    *)
(* size.                                                                   *)
(***************************************************************************)
EXTENDS GraphSync, FiniteSetTheorems, TLAPS

Inv == TypeOK /\ SyncInv

\* A batch that was read stays a range of the outbox when the outbox grows.
LEMMA BatchKept ==
  ASSUME outbox \in Seq(Events), NEW e \in Events, outbox' = Append(outbox, e),
         NEW b, IsBatch(b)
  PROVE  IsBatch(b)'
  BY DEF IsBatch, Batch, Restrict

LEMMA InitInv == Init => Inv
  BY SMT DEF Init, Inv, TypeOK, SyncInv, CloudIsPrefix, ReleasedUpTo, NoLedger, Restrict,
         IsBatch, Batch, IsIssueRow, IssueRows, BatchId

\* Rows from the first pending one to a later one are a range of the outbox.
LEMMA SelectedIsBatch ==
  ASSUME TypeOK, NEW k \in 0 .. Len(outbox), acked = 1 .. k,
         NEW limit, NEW first, NEW last, Selects(limit, first, last)
  PROVE  /\ first = k + 1 /\ last \in k + 1 .. Len(outbox)
         /\ UpTo(last) = k + 1 .. last
         /\ IsBatch(Selected(first, last))
  <1>1. Pending = k + 1 .. Len(outbox)
    BY DEF Pending, TypeOK
  <1>2. first = k + 1 /\ last \in k + 1 .. Len(outbox)
    <2>1. Len(outbox) \in Nat /\ k \in Nat
      BY DEF TypeOK
    <2>2. first \in k + 1 .. Len(outbox) /\ last \in k + 1 .. Len(outbox)
      BY <1>1 DEF Selects
    <2>3. k + 1 \in Pending
      BY <1>1, <2>1, <2>2
    <2> QED BY <2>1, <2>2, <2>3 DEF Selects
  <1>3. UpTo(last) = k + 1 .. last
    BY <1>1, <1>2 DEF UpTo, TypeOK
  <1>4. IsBatch(Selected(first, last))
    BY <1>2, <1>3 DEF IsBatch, Selected, Batch, TypeOK
  <1> QED BY <1>2, <1>3, <1>4

-----------------------------------------------------------------------------
(* One lemma per action.                                                   *)

LEMMA RecordInv ==
  ASSUME Inv, NEW e \in Events, Record(e)
  PROVE  Inv'
  <1> USE DEF Record, cloud
  <1>1. outbox' = Append(outbox, e) /\ outbox \in Seq(Events) /\ Len(outbox) \in Nat
    BY DEF Inv, TypeOK
  <1>2. outbox' \in Seq(Events) /\ Len(outbox') = Len(outbox) + 1
    BY <1>1
  <1>3. \A b : IsBatch(b) => IsBatch(b)'
    BY <1>1, BatchKept
  <1>4. TypeOK'
    <2>1. \A r \in IssueRows : IsIssueRow(r) => IsIssueRow(r)'
      BY <1>1, <1>2 DEF IsIssueRow, IssueRows
    <2>2. \A i \in DOMAIN issued : issued[i] \in IssueRows
      BY DEF Inv, TypeOK
    <2>3. acked \subseteq DOMAIN outbox' /\ cursor \in 0 .. Len(outbox')
      BY <1>1, <1>2 DEF Inv, TypeOK
    <2> QED BY <1>2, <1>3, <2>1, <2>2, <2>3 DEF Inv, TypeOK
  <1>5. CloudIsPrefix'
    BY <1>1, <1>2 DEF Inv, TypeOK, SyncInv, CloudIsPrefix, Restrict
  <1>6. \E k \in 0 .. Len(outbox') : ReleasedUpTo(k)'
    BY <1>1, <1>2 DEF Inv, SyncInv, ReleasedUpTo
  <1> QED BY <1>4, <1>5, <1>6 DEF Inv, SyncInv

LEMMA ReadInv ==
  ASSUME Inv, NEW c \in Couriers, NEW limit \in Limits, NextBatchRead(c, limit)
  PROVE  Inv'
  <1> USE DEF NextBatchRead, cloud
  <1>1. PICK k \in 0 .. Len(outbox) : ReleasedUpTo(k)
    BY DEF Inv, SyncInv
  <1>2. PICK first \in Pending, last \in Pending :
          /\ Selects(Bounded(limit), first, last)
          /\ reading' = [reading EXCEPT ![c] = Selected(first, last)]
    OBVIOUS
  <1>3. first = k + 1 /\ IsBatch(Selected(first, last))
    BY <1>1, <1>2, SelectedIsBatch DEF Inv, ReleasedUpTo
  <1>4. Selected(first, last).first = k + 1
    BY <1>3 DEF Selected, Batch
  <1>5. 1 .. Selected(first, last).first - 1 \subseteq acked
    BY <1>1, <1>4 DEF ReleasedUpTo
  <1>6. \A b : IsBatch(b) <=> IsBatch(b)'
    BY DEF IsBatch
  <1>7. TypeOK'
    BY <1>2, <1>3, <1>6 DEF Inv, TypeOK, IsIssueRow
  <1>8. SyncInv'
    BY <1>2, <1>5 DEF Inv, TypeOK, SyncInv, CloudIsPrefix, ReleasedUpTo
  <1> QED BY <1>7, <1>8 DEF Inv

LEMMA IssueInv ==
  ASSUME Inv, NEW c \in Couriers, NextBatchIssue(c)
  PROVE  Inv'
  <1> USE DEF NextBatchIssue, cloud
  <1> DEFINE b == reading[c]
  <1>1. IsBatch(b) /\ 1 .. b.first - 1 \subseteq acked
    BY DEF Inv, TypeOK, SyncInv
  <1>2. IssueRow(b) \in IssueRows /\ IsIssueRow(IssueRow(b))
    BY <1>1, Len(outbox) \in Nat
       DEF IssueRow, IssueRows, IsIssueRow, IsBatch, IdOf, BatchId, Inv, TypeOK
  <1>3. IssueRow(b).first = b.first /\ ~IssueRow(b).acked
    BY DEF IssueRow
  <1>4. issued' = issued \/ issued' = Append(issued, IssueRow(b))
    OBVIOUS
  <1>5. /\ issued' \in Seq(IssueRows)
        /\ \A i \in DOMAIN issued' :
             (i \in DOMAIN issued /\ issued'[i] = issued[i]) \/ issued'[i] = IssueRow(b)
    BY <1>2, <1>4 DEF Inv, TypeOK
  <1>6. \A d : IsBatch(d) <=> IsBatch(d)'
    BY DEF IsBatch
  <1>7. TypeOK'
    BY <1>1, <1>2, <1>5, <1>6 DEF Inv, TypeOK, IsIssueRow
  <1>8. SyncInv'
    BY <1>1, <1>3, <1>5 DEF Inv, TypeOK, SyncInv, CloudIsPrefix, ReleasedUpTo
  <1> QED BY <1>7, <1>8 DEF Inv

LEMMA DiesInv ==
  ASSUME Inv, NEW c \in Couriers, NextBatchDies(c)
  PROVE  Inv'
  BY DEF Inv, TypeOK, SyncInv, CloudIsPrefix, ReleasedUpTo, IsBatch, IsIssueRow,
         NextBatchDies, cloud

LEMMA AcknowledgeInv ==
  ASSUME Inv, NEW last \in earned, Acknowledge(last)
  PROVE  Inv'
  <1> USE DEF Acknowledge, cloud
  <1>1. PICK k \in 0 .. Len(outbox) : ReleasedUpTo(k)
    BY DEF Inv, SyncInv
  <1>2. PICK i \in DOMAIN issued :
          /\ Open(i, last)
          /\ acked' = acked \cup (DOMAIN outbox \cap issued[i].first .. issued[i].last)
          /\ issued' = [issued EXCEPT ![i] = Acknowledged(issued[i])]
    OBVIOUS
  <1> DEFINE f == issued[i].first
             n == IF last > k THEN last ELSE k
  <1>3. /\ issued[i] \in IssueRows /\ IsIssueRow(issued[i]) /\ issued[i].last = last
        /\ Len(outbox) \in Nat /\ DOMAIN outbox = 1 .. Len(outbox)
    BY <1>2 DEF Inv, TypeOK, Open
  <1>4. f \in Nat \ {0} /\ last \in Nat /\ f <= last /\ last <= Len(outbox)
    BY <1>3 DEF IssueRows, IsIssueRow
  <1>5. 1 .. f - 1 \subseteq 1 .. k
    BY <1>1, <1>2 DEF Inv, SyncInv, ReleasedUpTo
  <1>6. f <= k + 1
    <2>1. CASE f = 1 BY <2>1
    <2>2. CASE f # 1
      <3>1. f - 1 \in 1 .. f - 1 BY <1>4, <2>2
      <3> QED BY <1>4, <1>5, <3>1
    <2> QED BY <2>1, <2>2
  <1>7. acked' = 1 .. n /\ n \in 0 .. Len(outbox) /\ acked \subseteq acked' /\ last \in acked'
    BY <1>1, <1>2, <1>3, <1>4, <1>6 DEF ReleasedUpTo
  <1>8. ReleasedUpTo(n)'
    BY <1>1, <1>7 DEF ReleasedUpTo
  <1>9. Acknowledged(issued[i]) \in IssueRows /\ IsIssueRow(Acknowledged(issued[i]))
    BY <1>3 DEF Acknowledged, IssueRows, IsIssueRow
  <1>10. /\ issued' \in Seq(IssueRows) /\ DOMAIN issued' = DOMAIN issued
         /\ \A j \in DOMAIN issued :
              issued'[j] = IF j = i THEN Acknowledged(issued[i]) ELSE issued[j]
    BY <1>2, <1>9 DEF Inv, TypeOK
  <1>11. \A b : IsBatch(b) <=> IsBatch(b)'
    BY DEF IsBatch
  <1>12. TypeOK'
    BY <1>3, <1>7, <1>9, <1>10, <1>11 DEF Inv, TypeOK, IsIssueRow
  <1>13. SyncInv'
    <2>1. /\ Acknowledged(issued[i]).first = f
          /\ Acknowledged(issued[i]).last = last
      BY <1>3 DEF Acknowledged
    <2>2. \A j \in DOMAIN issued' :
            /\ 1 .. issued'[j].first - 1 \subseteq acked'
            /\ issued'[j].acked => issued'[j].last \in acked'
      BY <1>2, <1>7, <1>10, <2>1 DEF Inv, SyncInv
    <2> HIDE DEF n
    <2> QED BY <1>7, <1>8, <2>2 DEF Inv, SyncInv, CloudIsPrefix
  <1> QED BY <1>12, <1>13 DEF Inv

LEMMA IngestInv ==
  ASSUME Inv, NEW b \in handed, Ingest(b)
  PROVE  Inv'
  <1> USE DEF Ingest, local
  <1>1. /\ IsBatch(b) /\ b.first = cursor + 1 /\ b.last - b.first < MaxBatch
        /\ cursor \in 0 .. Len(outbox) /\ Len(outbox) \in Nat /\ outbox \in Seq(Events)
    BY DEF Inv, TypeOK, InOrder
  <1>2. /\ b.first \in Nat /\ b.last \in Nat /\ b.first <= b.last /\ b.last <= Len(outbox)
        /\ b.rows = Restrict(outbox, b.first .. b.last)
    BY <1>1 DEF IsBatch
  <1>3. \A d : IsBatch(d) <=> IsBatch(d)'
    BY DEF IsBatch
  <1>4. TypeOK'
    BY <1>1, <1>2, <1>3 DEF Inv, TypeOK, IsIssueRow
  <1>5. CloudIsPrefix'
    <2>1. ledger = Restrict(outbox, 1 .. cursor)
      BY DEF Inv, SyncInv, CloudIsPrefix
    <2>2. DOMAIN ledger \cup DOMAIN b.rows = 1 .. b.last
      BY <1>1, <1>2, <2>1 DEF Restrict
    <2>3. \A s \in 1 .. b.last :
            (IF s \in DOMAIN b.rows THEN b.rows[s] ELSE ledger[s]) = outbox[s]
      BY <1>1, <1>2, <2>1 DEF Restrict
    <2>4. ledger' = [s \in 1 .. b.last |-> outbox[s]]
      BY <2>2, <2>3 DEF Extended
    <2> QED BY <2>4 DEF CloudIsPrefix, Restrict
  <1>6. \E k \in 0 .. Len(outbox') : ReleasedUpTo(k)'
    BY DEF Inv, SyncInv, ReleasedUpTo
  <1>7. \A d \in batches' : d.last <= cursor' /\ d.last - d.first < MaxBatch
    <2>1. \A d \in batches : d.last \in Nat /\ d.last <= cursor
      BY DEF Inv, TypeOK, SyncInv, IsBatch
    <2> QED BY <1>1, <1>2, <2>1 DEF Inv, SyncInv
  <1>8. \A a \in {0} \cup earned' : a = cursor' \/ \E d \in batches' : d.first = a + 1
    BY <1>1, <1>2 DEF Inv, SyncInv
  <1> QED BY <1>4, <1>5, <1>6, <1>7, <1>8 DEF Inv, SyncInv

LEMMA IngestReplayedInv ==
  ASSUME Inv, NEW b \in handed, IngestReplayed(b)
  PROVE  Inv'
  BY DEF Inv, TypeOK, SyncInv, CloudIsPrefix, ReleasedUpTo, IsBatch, IsIssueRow,
         IngestReplayed, local

LEMMA StutterInv ==
  ASSUME Inv, UNCHANGED vars
  PROVE  Inv'
  BY DEF Inv, TypeOK, SyncInv, CloudIsPrefix, ReleasedUpTo, IsBatch, IsIssueRow,
         vars, local, cloud

LEMMA NextInv == Inv /\ [Next]_vars => Inv'
  BY RecordInv, ReadInv, IssueInv, DiesInv, AcknowledgeInv, IngestInv,
     IngestReplayedInv, StutterInv DEF Next

\* Everything in the invariant, for every instance.
THEOREM Invariance == Spec => []Inv
  BY InitInv, NextInv, PTL DEF Spec

\* Type correctness: every batch that is read, handed out or taken is a gapless range
\* of the outbox with the content of its rows (TypeOK).
THEOREM TypeCorrect == Spec => []TypeOK
  BY Invariance, PTL DEF Inv

\* No event is skipped: what is acknowledged is a prefix of the outbox, whatever
\* the callers' limits and however late and repeated their calls.
THEOREM AcknowledgedIsPrefix == Spec => []AcknowledgedPrefix
  <1>1. Inv => AcknowledgedPrefix
    <2> SUFFICES ASSUME Inv PROVE AcknowledgedPrefix OBVIOUS
    <2>1. PICK k \in 0 .. Len(outbox) : acked = 1 .. k
      BY DEF Inv, SyncInv, ReleasedUpTo
    <2> QED BY <2>1 DEF Inv, TypeOK, AcknowledgedPrefix
  <1> QED BY <1>1, Invariance, PTL

\* The cloud's ledger is always the first part of the outbox.
THEOREM CloudStaysPrefix == Spec => []CloudIsPrefix
  <1>1. Inv => CloudIsPrefix
    BY DEF Inv, SyncInv
  <1> QED BY <1>1, Invariance, PTL

\* The released part is not longer than the cloud's.
LEMMA ReleasedBehindCursor ==
  ASSUME Inv, NEW k \in 0 .. Len(outbox), ReleasedUpTo(k)
  PROVE  k <= cursor
  BY DEF Inv, TypeOK, SyncInv, ReleasedUpTo

\* No event is given up locally before the cloud has it with the same content.
THEOREM NothingLost == Spec => []AcknowledgedIsStored
  <1>1. Inv => AcknowledgedIsStored
    <2> SUFFICES ASSUME Inv, NEW s \in acked
                 PROVE  s \in DOMAIN ledger /\ ledger[s] = outbox[s]
      BY DEF AcknowledgedIsStored
    <2>1. PICK k \in 0 .. Len(outbox) : ReleasedUpTo(k)
      BY DEF Inv, SyncInv
    <2>2. k <= cursor
      BY <2>1, ReleasedBehindCursor
    <2>3. s \in 1 .. cursor
      BY <2>1, <2>2 DEF ReleasedUpTo, Inv, TypeOK
    <2> QED BY <2>3 DEF Inv, SyncInv, CloudIsPrefix, Restrict
  <1> QED BY <1>1, Invariance, PTL

\* Whatever was lost, there is a limit with which synchronization goes on: the rest
\* of the batch that the cloud took, or one more row.
THEOREM NeverStuck == Spec => []Resumable
  <1>1. Inv => Resumable
    <2> SUFFICES ASSUME Inv, Pending # {}
                 PROVE  \E limit \in Limits, first, last \in Pending :
                          /\ Selects(Bounded(limit), first, last)
                          /\ \/ Selected(first, last) \in batches
                             \/ InOrder(Selected(first, last))
                          /\ HasOpenRow(Selected(first, last))
      BY DEF Resumable
    <2>1. PICK k \in 0 .. Len(outbox) : ReleasedUpTo(k)
      BY DEF Inv, SyncInv
    <2>2. k \in Nat /\ Len(outbox) \in Nat /\ DOMAIN outbox = 1 .. Len(outbox)
          /\ cursor \in Nat /\ cursor <= Len(outbox) /\ k <= cursor
      BY <2>1, ReleasedBehindCursor DEF Inv, TypeOK
    <2>3. Pending = k + 1 .. Len(outbox) /\ k + 1 \in Pending
      BY <2>1, <2>2 DEF Pending, ReleasedUpTo
    \* A range of at most MaxBatch rows is what the limit of its size selects.
    <2>4. ASSUME NEW last \in Pending, last - (k + 1) < MaxBatch
          PROVE  /\ last - k \in Limits
                 /\ Selects(Bounded(last - k), k + 1, last)
                 /\ Selected(k + 1, last) = Batch(k + 1, last, Restrict(outbox, k + 1 .. last))
      <3>1. UpTo(last) = k + 1 .. last
        BY <2>2, <2>3 DEF UpTo
      <3>2. last - k \in 1 .. MaxBatch /\ Bounded(last - k) = last - k
        BY <2>2, <2>3, <2>4, SyncAssumption DEF Bounded
      <3>3. Cardinality(UpTo(last)) = last - k
        BY <2>2, <2>3, <3>1, FS_Interval
      <3>4. \A s \in Pending : k + 1 <= s
        BY <2>2, <2>3
      <3> QED BY <2>3, <3>1, <3>2, <3>3, <3>4, SyncAssumption DEF Selects, Selected
    \* Its row was not acknowledged before: its boundary is still pending.
    <2>5. ASSUME NEW last \in Pending
          PROVE  HasOpenRow(Selected(k + 1, last))
      <3> DEFINE b == Selected(k + 1, last)
      <3>1. b.first = k + 1 /\ b.last = last
        BY DEF Selected, Batch
      <3>2. ASSUME NEW i \in DOMAIN issued, issued[i].id = IdOf(b)
            PROVE  Open(i, b.last)
        <4>1. issued[i].last = last
          BY <3>1, <3>2 DEF IdOf, BatchId, Inv, TypeOK, IsIssueRow
        <4>2. last \notin acked
          BY DEF Pending
        <4> QED BY <3>1, <4>1, <4>2 DEF Open, Inv, SyncInv
      <3> QED BY <3>2 DEF HasOpenRow
    <2>6. CASE k = cursor
      <3>1. PICK last \in Pending : last = k + 1
        BY <2>3
      <3> DEFINE b == Selected(k + 1, last)
      <3>2. last - (k + 1) < MaxBatch
        BY <2>2, <3>1, SyncAssumption
      <3>3. b = Batch(k + 1, last, Restrict(outbox, k + 1 .. last))
        BY <2>4, <3>2
      <3>4. b.first = k + 1 /\ b.last = last /\ DOMAIN b.rows = k + 1 .. last
        BY <3>3 DEF Batch, Restrict
      <3> HIDE DEF b
      <3>5. ~Known(b)
        <4> SUFFICES ASSUME NEW d \in batches, IdOf(d) = IdOf(b) PROVE FALSE
          BY DEF Known
        <4>1. d.last = k + 1
          BY <3>1, <3>4 DEF IdOf, BatchId
        <4> QED BY <2>2, <2>6, <4>1 DEF Inv, SyncInv
      <3>6. b.last - b.first < MaxBatch
        BY <3>2, <3>4
      <3>7. b.first = cursor + 1 /\ DOMAIN b.rows = b.first .. b.last
        BY <2>6, <3>4
      <3>8. InOrder(b)
        BY <3>5, <3>6, <3>7, Zenon DEF InOrder
      <3> QED BY <2>3, <2>4, <2>5, <3>2, <3>8 DEF b
    <2>7. CASE k # cursor
      <3>1. PICK d \in batches : d.first = k + 1
        BY <2>1, <2>7 DEF Inv, SyncInv, ReleasedUpTo
      <3>2. IsBatch(d)
        BY DEF Inv, TypeOK
      <3>3. d.last \in Pending /\ d.last - (k + 1) < MaxBatch
        BY <2>2, <2>3, <3>1, <3>2 DEF IsBatch, Inv, SyncInv
      <3>4. d = Batch(k + 1, d.last, Restrict(outbox, k + 1 .. d.last))
        BY <3>1, <3>2 DEF IsBatch
      <3>5. Selected(k + 1, d.last) \in batches
        BY <2>4, <3>3, <3>4
      <3> QED BY <2>3, <2>4, <2>5, <3>3, <3>5
    <2> QED BY <2>6, <2>7
  <1> QED BY <1>1, Invariance, PTL

\* The two stores and their couriers implement the contract of Replication.tla.
THEOREM Refinement == Spec => ImplementsReplication
  <1>1. Init => Contract!Init
    BY FS_EmptySet DEF Init, Contract!Init, NoLedger
  <1>3. Inv => Len(ledger) = cursor /\ cursor \in Nat
    BY DEF Inv, TypeOK, SyncInv, CloudIsPrefix, Restrict
  <1>4. ASSUME Inv, NEW e \in Events, Record(e)
        PROVE  Contract!Extend
    BY <1>4 DEF Record, cloud, Contract!Extend
  <1>5. ASSUME Inv, NEW b \in handed, Ingest(b)
        PROVE  Contract!Copy
    <2>1. /\ IsBatch(b) /\ b.first = cursor + 1
          /\ cursor \in 0 .. Len(outbox) /\ Len(outbox) \in Nat /\ outbox \in Seq(Events)
      BY <1>5 DEF Ingest, Inv, TypeOK, InOrder
    <2>2. b.last \in cursor + 1 .. Len(outbox)
      BY <2>1 DEF IsBatch
    <2>3. ledger' = Restrict(outbox, 1 .. b.last)
      BY <1>5, IngestInv DEF Inv, SyncInv, CloudIsPrefix, Ingest, local
    <2>4. SubSeq(outbox, 1, b.last) = Restrict(outbox, 1 .. b.last)
      BY <2>1, <2>2 DEF Restrict
    <2>5. b.last \in Len(ledger) + 1 .. Len(outbox)
      BY <1>3, <1>5, <2>2
    <2> QED BY <1>5, <2>3, <2>4, <2>5 DEF Ingest, local, Contract!Copy
  <1>6. ASSUME Inv, NEW last \in earned, Acknowledge(last)
        PROVE  Contract!Release \/ UNCHANGED <<outbox, ledger, Cardinality(acked)>>
    <2>1. Inv' /\ UNCHANGED <<outbox, ledger>> /\ acked \subseteq acked'
      BY <1>6, AcknowledgeInv DEF Acknowledge, cloud
    <2>2. PICK k \in 0 .. Len(outbox) : ReleasedUpTo(k)
      BY <1>6 DEF Inv, SyncInv
    <2>3. PICK n \in 0 .. Len(outbox) : ReleasedUpTo(n)'
      BY <2>1 DEF Inv, SyncInv
    <2>4. Cardinality(acked) = k /\ Cardinality(acked)' = n
      <3>1. Len(outbox) \in Nat
        BY <1>6 DEF Inv, TypeOK
      <3>2. \A m \in Nat : Cardinality(1 .. m) = m
        BY FS_Interval
      <3>3. acked = 1 .. k /\ acked' = 1 .. n /\ k \in Nat /\ n \in Nat
        BY <2>2, <2>3, <3>1 DEF ReleasedUpTo
      <3> QED BY <3>2, <3>3
    <2>5. k <= n
      <3>1. CASE k = 0 BY <3>1
      <3>2. CASE k # 0
        <4>1. k \in acked BY <2>2, <3>2 DEF ReleasedUpTo
        <4>2. k \in acked' BY <2>1, <4>1
        <4> QED BY <2>3, <4>2 DEF ReleasedUpTo
      <3> QED BY <3>1, <3>2
    <2>6. n <= cursor'
      BY <2>1, <2>3 DEF Inv, TypeOK, SyncInv, ReleasedUpTo
    <2>7. cursor' = cursor
      BY <1>6 DEF Acknowledge, cloud
    <2>8. n <= Len(ledger)
      BY <1>3, <1>6, <2>6, <2>7
    <2> QED BY <1>3, <1>6, <2>1, <2>4, <2>5, <2>8 DEF Contract!Release
  <1>7. Inv /\ [Next]_vars => [Contract!Next]_<<outbox, ledger, Cardinality(acked)>>
    <2> SUFFICES ASSUME Inv, [Next]_vars
                 PROVE  Contract!Next \/ UNCHANGED <<outbox, ledger, Cardinality(acked)>>
      OBVIOUS
    <2>1. CASE UNCHANGED vars
      BY <2>1 DEF vars, local, cloud
    <2>2. ASSUME NEW c \in Couriers,
                 \/ \E limit \in Limits : NextBatchRead(c, limit)
                 \/ NextBatchIssue(c) \/ NextBatchDies(c)
          PROVE  UNCHANGED <<outbox, ledger, Cardinality(acked)>>
      BY <2>2 DEF NextBatchRead, NextBatchIssue, NextBatchDies, cloud
    <2>3. ASSUME NEW b \in handed, IngestReplayed(b)
          PROVE  UNCHANGED <<outbox, ledger, Cardinality(acked)>>
      BY <2>3 DEF IngestReplayed, local
    <2> QED BY <1>4, <1>5, <1>6, <2>1, <2>2, <2>3 DEF Next, Contract!Next
  <1> QED BY <1>1, <1>7, Invariance, PTL
          DEF Spec, ImplementsReplication, Contract!Spec, Contract!vars
=============================================================================

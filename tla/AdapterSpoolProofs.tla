-------------------------- MODULE AdapterSpoolProofs --------------------------
(***************************************************************************)
(* Proofs about AdapterSpool, for any number of hooks and drainers that    *)
(* may be killed anywhere, any events and any bounds: no queued event      *)
(* vanishes, and the spool and the quarantine exceed their bounds by no    *)
(* more than the other actors at work can cause.                           *)
(***************************************************************************)
EXTENDS AdapterSpool, FiniteSetTheorems, SequenceTheorems, TLAPS

-----------------------------------------------------------------------------
(* Counting what remains in a directory.                                   *)

\* Nothing can remain that is not there; all of it remains when what was seen leaves
\* room already, and room is left when all of it was seen.
LEMMA RemainingBounds ==
  ASSUME NEW bound \in Nat \ {0}, NEW S, IsFiniteSet(S), NEW seen
  PROVE  /\ Remaining(bound, S, seen) \in Nat
         /\ Remaining(bound, S, seen) <= Cardinality(S)
         /\ Cardinality(S \cap seen) < bound =>
              Remaining(bound, S, seen) = Cardinality(S)
         /\ S \subseteq seen => Remaining(bound, S, seen) <= bound - 1
<1>1. /\ IsFiniteSet(S \ seen) /\ IsFiniteSet(S \cap seen)
      /\ Cardinality(S \ seen) = Cardinality(S) - Cardinality(S \cap seen)
  BY FS_Difference, FS_Intersection
<1>2. /\ Cardinality(S) \in Nat /\ Cardinality(S \ seen) \in Nat
      /\ Cardinality(S \cap seen) \in Nat
  BY <1>1, FS_CardinalityType
<1>3. S \subseteq seen => Cardinality(S \ seen) = 0
  <2>1. S \subseteq seen => S \ seen = {}
    OBVIOUS
  <2> QED BY <2>1, FS_EmptySet
<1> QED BY <1>1, <1>2, <1>3 DEF Remaining, Least

\* Less remains of less, as long as the same part of it was seen.
LEMMA RemainingShrinks ==
  ASSUME NEW bound \in Nat \ {0}, NEW S, IsFiniteSet(S), NEW T \in SUBSET S,
         NEW seen, NEW seen2, T \cap seen2 = T \cap seen
  PROVE  Remaining(bound, T, seen2) <= Remaining(bound, S, seen)
<1>1. IsFiniteSet(S \ seen) /\ IsFiniteSet(S \cap seen)
  BY FS_Difference, FS_Intersection
<1>2. T \ seen2 \in SUBSET (S \ seen) /\ T \cap seen2 \in SUBSET (S \cap seen)
  OBVIOUS
<1>3. /\ Cardinality(T \ seen2) <= Cardinality(S \ seen)
      /\ Cardinality(T \cap seen2) <= Cardinality(S \cap seen)
      /\ IsFiniteSet(T \ seen2) /\ IsFiniteSet(T \cap seen2)
  BY <1>1, <1>2, FS_Subset
<1>4. /\ Cardinality(T \ seen2) \in Nat /\ Cardinality(T \cap seen2) \in Nat
      /\ Cardinality(S \ seen) \in Nat /\ Cardinality(S \cap seen) \in Nat
  BY <1>1, <1>3, FS_CardinalityType
<1> QED BY <1>3, <1>4 DEF Remaining, Least

\* One thing more lets at most one thing more remain.
LEMMA RemainingGrows ==
  ASSUME NEW bound \in Nat \ {0}, NEW S, IsFiniteSet(S), NEW x,
         NEW seen, NEW seen2, S \cap seen2 = S \cap seen
  PROVE  Remaining(bound, S \cup {x}, seen2) <= Remaining(bound, S, seen) + 1
<1> DEFINE T == S \cup {x}
<1> SUFFICES Remaining(bound, T, seen2) <= Remaining(bound, S, seen) + 1
  OBVIOUS
<1>1. IsFiniteSet(S \ seen) /\ IsFiniteSet(S \cap seen)
  BY FS_Difference, FS_Intersection
<1>0. Cardinality(S \ seen) \in Nat /\ Cardinality(S \cap seen) \in Nat
  BY <1>1, FS_CardinalityType
<1>2. CASE x \in S
  <2>1. T = S
    BY <1>2
  <2>2. T \ seen2 = S \ seen /\ T \cap seen2 = S \cap seen
    BY <2>1
  <2>3. Remaining(bound, T, seen2) = Remaining(bound, S, seen)
    BY <2>2 DEF Remaining
  <2> QED BY <1>0, <2>3 DEF Remaining, Least
<1>3. CASE x \notin S /\ x \in seen2
  <2>1. T \ seen2 = S \ seen /\ T \cap seen2 = (S \cap seen) \cup {x}
    BY <1>3
  <2>2. Cardinality((S \cap seen) \cup {x}) = Cardinality(S \cap seen) + 1
    BY <1>1, <1>3, FS_AddElement
  <2>3. /\ Cardinality(T \ seen2) = Cardinality(S \ seen)
        /\ Cardinality(T \cap seen2) = Cardinality(S \cap seen) + 1
    BY <2>1, <2>2
  <2> HIDE DEF T
  <2> QED BY <1>0, <2>3 DEF Remaining, Least
<1>4. CASE x \notin S /\ x \notin seen2
  <2>1. T \ seen2 = (S \ seen) \cup {x} /\ T \cap seen2 = S \cap seen
    BY <1>4
  <2>2. Cardinality((S \ seen) \cup {x}) = Cardinality(S \ seen) + 1
    BY <1>1, <1>4, FS_AddElement
  <2>3. /\ Cardinality(T \ seen2) = Cardinality(S \ seen) + 1
        /\ Cardinality(T \cap seen2) = Cardinality(S \cap seen)
    BY <2>1, <2>2
  <2> HIDE DEF T
  <2> QED BY <1>0, <2>3 DEF Remaining, Least
<1> QED BY <1>2, <1>3, <1>4

-----------------------------------------------------------------------------
(* Actors that leave room for each other.                                  *)

\* A step after which nobody leaves more, and nobody more is at work.
LEMMA RoomKept ==
  ASSUME NEW A, IsFiniteSet(A), NEW bound \in Nat,
         NEW r \in [A -> Nat], NEW busy \in SUBSET A,
         NEW r2 \in [A -> Nat], NEW busy2 \in SUBSET busy,
         \A a \in busy2 : r2[a] <= r[a],
         LeaveRoom(A, bound, r, busy)
  PROVE  LeaveRoom(A, bound, r2, busy2)
<1> SUFFICES ASSUME NEW B \in SUBSET busy2, B # {}
             PROVE  \E a \in B : r2[a] + Cardinality(B) <= bound - 1 + Cardinality(A)
  BY DEF LeaveRoom
<1>1. PICK a \in B : r[a] + Cardinality(B) <= bound - 1 + Cardinality(A)
  BY DEF LeaveRoom
<1>2. Cardinality(B) \in Nat /\ Cardinality(A) \in Nat
  BY FS_Subset, FS_CardinalityType
<1>3. r2[a] <= r[a] /\ r2[a] \in Nat /\ r[a] \in Nat
  OBVIOUS
<1> QED BY <1>1, <1>2, <1>3

\* An actor goes to work and has seen everything.
LEMMA RoomBegun ==
  ASSUME NEW A, IsFiniteSet(A), NEW bound \in Nat,
         NEW r \in [A -> Nat], NEW busy \in SUBSET A, NEW x \in A,
         NEW r2 \in [A -> Nat], r2[x] <= bound - 1,
         \A a \in busy \ {x} : r2[a] <= r[a],
         LeaveRoom(A, bound, r, busy)
  PROVE  LeaveRoom(A, bound, r2, busy \cup {x})
<1> SUFFICES ASSUME NEW B \in SUBSET (busy \cup {x}), B # {}
             PROVE  \E a \in B : r2[a] + Cardinality(B) <= bound - 1 + Cardinality(A)
  BY DEF LeaveRoom
<1>1. B \in SUBSET A
  OBVIOUS
<1>2. Cardinality(B) \in Nat /\ Cardinality(A) \in Nat /\ Cardinality(B) <= Cardinality(A)
  BY <1>1, FS_Subset, FS_CardinalityType
<1>3. CASE x \in B
  BY <1>2, <1>3
<1>4. CASE x \notin B
  <2>1. B \in SUBSET busy
    BY <1>4
  <2>2. PICK a \in B : r[a] + Cardinality(B) <= bound - 1 + Cardinality(A)
    BY <2>1 DEF LeaveRoom
  <2>3. r2[a] <= r[a] /\ r2[a] \in Nat /\ r[a] \in Nat
    BY <1>4, <2>1
  <2> QED BY <1>2, <2>2, <2>3
<1> QED BY <1>3, <1>4

\* An actor x that leaves all n things there are adds one more and is done.
LEMMA RoomUsed ==
  ASSUME NEW A, IsFiniteSet(A), NEW bound \in Nat, NEW n \in Nat,
         NEW r \in [A -> Nat], NEW busy \in SUBSET A, NEW x \in busy, r[x] = n,
         NEW r2 \in [A -> Nat],
         \A a \in busy \ {x} : r2[a] <= r[a] + 1 /\ r2[a] <= n + 1,
         LeaveRoom(A, bound, r, busy)
  PROVE  /\ LeaveRoom(A, bound, r2, busy \ {x})
         /\ n + 1 <= bound - 1 + Cardinality(A)
<1>0. Cardinality(A) \in Nat
  BY FS_CardinalityType
<1>1. ASSUME NEW B \in SUBSET (busy \ {x}), B # {}
      PROVE  \E a \in B : r2[a] + Cardinality(B) <= bound - 1 + Cardinality(A)
  <2>1. B \in SUBSET A /\ x \notin B /\ B \cup {x} \in SUBSET busy
    OBVIOUS
  <2>2. IsFiniteSet(B) /\ Cardinality(B) \in Nat
    BY <2>1, FS_Subset, FS_CardinalityType
  <2>3. Cardinality(B \cup {x}) = Cardinality(B) + 1
    BY <2>1, <2>2, FS_AddElement
  <2>4. PICK a \in B \cup {x} :
          r[a] + Cardinality(B \cup {x}) <= bound - 1 + Cardinality(A)
    BY <2>1 DEF LeaveRoom
  <2>5. r[a] \in Nat
    BY <2>1
  <2>6. CASE a = x
    <3>1. PICK b \in B : TRUE
      BY <1>1
    <3>2. r2[b] \in Nat /\ r2[b] <= n + 1
      BY <2>1
    <3> QED BY <1>0, <2>2, <2>3, <2>4, <2>6, <3>2
  <2>7. CASE a # x
    <3>1. a \in B /\ r2[a] \in Nat /\ r2[a] <= r[a] + 1
      BY <2>7
    <3> QED BY <1>0, <2>2, <2>3, <2>4, <2>5, <3>1
  <2> QED BY <2>6, <2>7
<1>2. n + 1 <= bound - 1 + Cardinality(A)
  <2>1. r[x] + Cardinality({x}) <= bound - 1 + Cardinality(A)
    BY DEF LeaveRoom
  <2>2. Cardinality({x}) = 1
    BY FS_Singleton
  <2> QED BY <1>0, <2>1, <2>2
<1> QED BY <1>1, <1>2 DEF LeaveRoom

-----------------------------------------------------------------------------
(* Types.                                                                  *)

\* One hook moves, the clock does not go back.
LEMMA HookMoves ==
  ASSUME TypeOK, NEW h \in Hooks, NEW s, HookBecomes(h, s), HookTyped(s, clock'),
         clock' \in 0 .. MaxWrites, clock <= clock'
  PROVE  /\ hook' = [g \in Hooks |-> hook'[g]]
         /\ hook'[h] = s
         /\ \A g \in Hooks \ {h} : hook'[g] = hook[g]
         /\ \A g \in Hooks : HookTyped(hook'[g], clock')
<1>1. /\ hook' = [g \in Hooks |-> hook'[g]]
      /\ hook'[h] = s
      /\ \A g \in Hooks \ {h} : hook'[g] = hook[g]
  BY DEF TypeOK, HooksTyped, HookBecomes
<1>2. ASSUME NEW g \in Hooks \ {h} PROVE HookTyped(hook'[g], clock')
  <2>1. hook'[g] = hook[g] /\ HookTyped(hook[g], clock)
    BY <1>1 DEF TypeOK, HooksTyped
  <2>2. \A m : m \in 1 .. clock => m \in 1 .. clock'
    BY DEF TypeOK, HooksTyped
  <2> QED BY <2>1, <2>2 DEF HookTyped
<1> QED BY <1>1, <1>2

\* One drainer moves.
LEMMA DrainerMoves ==
  ASSUME TypeOK, NEW d \in Drainers, NEW s, DrainerBecomes(d, s), DrainerTyped(s)
  PROVE  /\ drainer' = [c \in Drainers |-> drainer'[c]]
         /\ drainer'[d] = s
         /\ \A c \in Drainers \ {d} : drainer'[c] = drainer[c]
         /\ \A c \in Drainers : DrainerTyped(drainer'[c])
BY DEF TypeOK, DrainersTyped, DrainerBecomes

LEMMA IdleTyped == DrainerTyped(DrainerIdle) /\ \A n \in Nat : HookTyped(HookIdle, n)
<1>1. IsFiniteSet({}) /\ << >> \in Seq(Events)
  BY FS_EmptySet
<1> QED BY <1>1 DEF DrainerTyped, DrainerIdle, Drainer, HookTyped, HookIdle, Hook

\* Fewer files are still files.
LEMMA FilesRemoved ==
  ASSUME TypeOK, NEW F \in SUBSET files
  PROVE  /\ F \subseteq Files /\ IsFiniteSet(F)
         /\ \A f, g \in F : f.event.id = g.event.id \/ f.mtime = g.mtime => f = g
BY FS_Subset DEF TypeOK, FilesTyped

LEMMA FileOfKnown ==
  ASSUME TypeOK, NEW id, HasFile(id)
  PROVE  FileOf(id) \in files /\ FileOf(id).event.id = id /\ FileOf(id).event \in Events
BY DEF TypeOK, FilesTyped, HasFile, FileOf, Files

\* The quarantine without one record: a sequence of the others.
LEMMA UnshelvedSequence ==
  ASSUME quarantine \in Seq(Events), NEW e
  PROVE  /\ Unshelved(e) \in Seq(Events)
         /\ ToSet(Unshelved(e)) \subseteq ToSet(quarantine)
         /\ (\A i, j \in DOMAIN quarantine : quarantine[i] = quarantine[j] => i = j) =>
              /\ \A i, j \in DOMAIN Unshelved(e) :
                   Unshelved(e)[i] = Unshelved(e)[j] => i = j
              /\ ToSet(Unshelved(e)) = ToSet(quarantine) \ {e}
              /\ Len(Unshelved(e)) <= Len(quarantine)
<1>1. CASE e \notin ToSet(quarantine)
  BY <1>1 DEF Unshelved
<1>2. CASE e \in ToSet(quarantine)
  <2> DEFINE k == CHOOSE i \in DOMAIN quarantine : quarantine[i] = e
             rest == Unshelved(e)
  <2>1. k \in 1 .. Len(quarantine) /\ quarantine[k] = e
    BY <1>2 DEF ToSet
  <2>2. rest = SubSeq(quarantine, 1, k - 1) \o SubSeq(quarantine, k + 1, Len(quarantine))
    BY <1>2 DEF Unshelved, RemoveAt
  <2> HIDE DEF k, rest
  <2>3. /\ rest \in Seq(Events) /\ Len(rest) = Len(quarantine) - 1
        /\ \A i \in 1 .. Len(rest) :
             rest[i] = quarantine[IF i < k THEN i ELSE i + 1]
    <3> DEFINE front == SubSeq(quarantine, 1, k - 1)
               back == SubSeq(quarantine, k + 1, Len(quarantine))
    <3>1. Len(quarantine) \in Nat /\ \A i \in 1 .. Len(quarantine) : quarantine[i] \in Events
      OBVIOUS
    <3>2. /\ front \in Seq(Events) /\ Len(front) = k - 1
          /\ \A i \in 1 .. k - 1 : front[i] = quarantine[i]
      BY <2>1, <3>1, SubSeqProperties
    <3>3. /\ back \in Seq(Events) /\ Len(back) = Len(quarantine) - k
          /\ \A i \in 1 .. Len(quarantine) - k : back[i] = quarantine[k + i]
      BY <2>1, <3>1
    <3> HIDE DEF front, back
    <3>4. rest = front \o back
      BY <2>2 DEF front, back
    <3>5. rest \in Seq(Events) /\ Len(rest) = Len(quarantine) - 1
      <4>1. rest \in Seq(Events) /\ Len(rest) = Len(front) + Len(back)
        BY <3>2, <3>3, <3>4, ConcatProperties
      <4> QED BY <2>1, <3>1, <3>2, <3>3, <4>1
    <3>6. ASSUME NEW i \in 1 .. Len(rest)
          PROVE  rest[i] = quarantine[IF i < k THEN i ELSE i + 1]
      <4>1. CASE i < k
        BY <2>1, <3>1, <3>2, <3>3, <3>4, <3>5, <4>1
      <4>2. CASE i >= k
        <5>1. rest[i] = back[i - (k - 1)]
          BY <2>1, <3>1, <3>2, <3>3, <3>4, <3>5, <4>2
        <5>2. back[i - (k - 1)] = quarantine[i + 1]
          <6>1. i - (k - 1) \in 1 .. Len(quarantine) - k /\ k + (i - (k - 1)) = i + 1
            BY <2>1, <3>1, <3>5, <4>2
          <6> QED BY <3>3, <6>1
        <5> QED BY <2>1, <4>2, <5>1, <5>2
      <4> QED BY <2>1, <4>1, <4>2
    <3> QED BY <3>5, <3>6
  <2>4. DOMAIN rest = 1 .. Len(rest) /\ DOMAIN quarantine = 1 .. Len(quarantine)
    BY <2>3
  <2>5. ToSet(rest) \subseteq ToSet(quarantine)
    BY <2>1, <2>3, <2>4 DEF ToSet
  <2>6. ASSUME \A i, j \in DOMAIN quarantine : quarantine[i] = quarantine[j] => i = j
        PROVE  /\ \A i, j \in DOMAIN rest : rest[i] = rest[j] => i = j
               /\ ToSet(rest) = ToSet(quarantine) \ {e}
    <3>1. \A i, j \in DOMAIN rest : rest[i] = rest[j] => i = j
      BY <2>1, <2>3, <2>4, <2>6
    <3>2. e \notin ToSet(rest)
      BY <2>1, <2>3, <2>4, <2>6 DEF ToSet
    <3>3. ASSUME NEW x \in ToSet(quarantine) \ {e} PROVE x \in ToSet(rest)
      <4>1. PICK i \in 1 .. Len(quarantine) : quarantine[i] = x
        BY <2>4 DEF ToSet
      <4>2. i # k
        BY <2>1, <4>1
      <4>3. CASE i < k
        <5>1. i \in 1 .. Len(rest) /\ rest[i] = x
          BY <2>1, <2>3, <4>1, <4>3
        <5> QED BY <2>4, <5>1 DEF ToSet
      <4>4. CASE i > k
        <5>1. i - 1 \in 1 .. Len(rest) /\ rest[i - 1] = x
          BY <2>1, <2>3, <4>1, <4>4
        <5> QED BY <2>4, <5>1 DEF ToSet
      <4> QED BY <2>1, <4>1, <4>2, <4>3, <4>4
    <3> QED BY <2>5, <3>1, <3>2, <3>3
  <2> QED BY <2>3, <2>5, <2>6 DEF rest
<1> QED BY <1>1, <1>2

LEMMA HookTypes ==
  ASSUME TypeOK, MtimesDiffer, NEW h \in Hooks,
         \/ \E e \in Events : EnqueueBegin(h, e)
         \/ HookStep(h) \/ HookDies(h)
  PROVE  TypeOK'
<1> USE DEF TypeOK
<1>0. FilesTyped /\ HooksTyped /\ DrainersTyped /\ RestTyped /\ clock \in Nat
  BY SpoolAssumption DEF HooksTyped
\* A hook that moves, and leaves the files alone.
<1>1. ASSUME NEW s, HookBecomes(h, s), HookTyped(s, clock), queued' \subseteq Events,
             UNCHANGED <<files, clock, drainer, service, quarantine, pruned, shelved>>
      PROVE  TypeOK'
  <2>1. HooksTyped'
    BY <1>0, <1>1, HookMoves DEF HooksTyped
  <2> QED BY <1>0, <1>1, <2>1 DEF service, FilesTyped, DrainersTyped, RestTyped
<1>2. ASSUME NEW e \in Events, EnqueueBegin(h, e) PROVE TypeOK'
  <2> DEFINE s == Hook(IF HasFile(e.id) THEN "known" ELSE "list", e, {}, 0, 0)
  <2>1. HookTyped(s, clock)
    BY FS_EmptySet DEF HookTyped, Hook, Listing
  <2> HIDE DEF s
  <2>2. HookBecomes(h, s)
    BY <1>2 DEF EnqueueBegin, s
  <2> QED BY <1>0, <1>1, <1>2, <2>1, <2>2 DEF EnqueueBegin, history, RestTyped
<1>8. HookTyped(HookIdle, clock) /\ HookTyped(hook[h], clock)
  BY <1>0, IdleTyped DEF HooksTyped
<1>9. ASSUME EnqueueCompare(h) PROVE TypeOK'
  <2>1. hook[h].event \in Events
    BY <1>8, <1>9 DEF EnqueueCompare, HookTyped
  <2>2. queued' \subseteq Events
    BY <1>0, <1>9, <2>1 DEF EnqueueCompare, RestTyped
  <2> QED BY <1>1, <1>8, <1>9, <2>2 DEF EnqueueCompare
<1>10. ASSUME EnqueueList(h) PROVE TypeOK'
  <2> DEFINE s == Hook("sort", hook[h].event, files, 0, 0)
  <2>1. HookTyped(s, clock)
    BY <1>0, <1>8, <1>10 DEF EnqueueList, HookTyped, Hook, FilesTyped, Listing
  <2> HIDE DEF s
  <2>2. HookBecomes(h, s)
    BY <1>10 DEF EnqueueList, s
  <2> QED BY <1>0, <1>1, <1>10, <2>1, <2>2 DEF EnqueueList, history, RestTyped
<1>3. Listed(h) \subseteq Files /\ IsFiniteSet(Listed(h))
  <2>1. Listed(h) \in SUBSET files
    BY DEF Listed
  <2> QED BY <2>1, FilesRemoved
<1>11. ASSUME EnqueueSort(h) PROVE TypeOK'
  <2> DEFINE s == Hook("size", hook[h].event, Listed(h), 0, 0)
  <2>1. HookTyped(s, clock)
    BY <1>3, <1>8, <1>11 DEF EnqueueSort, HookTyped, Hook, Listing
  <2> HIDE DEF s
  <2>2. HookBecomes(h, s) \/ HookBecomes(h, HookIdle)
    BY <1>11 DEF EnqueueSort, s
  <2> QED BY <1>0, <1>1, <1>8, <1>11, <2>1, <2>2 DEF EnqueueSort, history, RestTyped
<1>12. ASSUME EnqueueSize(h) PROVE TypeOK'
  <2> DEFINE s == Hook("prune", hook[h].event, hook[h].listing, Bytes(Listed(h)), 0)
  <2>1. HookTyped(s, clock)
    BY <1>8, <1>12 DEF EnqueueSize, HookTyped, Hook, Listing
  <2> HIDE DEF s
  <2>2. HookBecomes(h, s) \/ HookBecomes(h, HookIdle)
    BY <1>12 DEF EnqueueSize, s
  <2> QED BY <1>0, <1>1, <1>8, <1>12, <2>1, <2>2 DEF EnqueueSize, history, RestTyped
<1>4. ASSUME EnqueuePrune(h) PROVE TypeOK'
  <2>1. HookTyped(hook[h], clock) /\ hook[h].event \in Events
    BY <1>0, <1>4 DEF EnqueuePrune, HooksTyped, HookTyped
  <2>2. PICK oldest, freed :
          /\ oldest \in hook[h].listing
          /\ files' = Unlinked(oldest.event.id)
          /\ HookBecomes(h, Hook("prune", hook[h].event, hook[h].listing \ {oldest},
                                 hook[h].total - freed, 0))
    BY <1>4 DEF EnqueuePrune
  <2> DEFINE s == Hook("prune", hook[h].event, hook[h].listing \ {oldest},
                       hook[h].total - freed, 0)
  <2>3. files' \in SUBSET files
    BY <2>2 DEF Unlinked
  <2>4. FilesTyped'
    BY <2>3, FilesRemoved DEF FilesTyped
  <2>5. IsFiniteSet(hook[h].listing \ {oldest})
    BY <2>1, FS_RemoveElement DEF HookTyped
  <2>6. HookTyped(s, clock')
    BY <2>1, <2>5 DEF HookTyped, Hook, Listing
  <2>7. clock' = clock
    BY <1>4 DEF EnqueuePrune
  <2> HIDE DEF s
  <2>8. HookBecomes(h, s)
    BY <2>2 DEF s
  <2>9. HooksTyped'
    BY <1>0, <2>6, <2>7, <2>8, HookMoves DEF HooksTyped
  <2>10. NamesOf(files \ files') \subseteq EventIds
    BY <1>0 DEF FilesTyped, Files, NamesOf, EventIds
  <2>11. RestTyped'
    BY <1>0, <1>4, <2>10 DEF EnqueuePrune, service, RestTyped
  <2> QED BY <1>0, <1>4, <2>4, <2>9, <2>11 DEF EnqueuePrune, DrainersTyped
<1>5. ASSUME EnqueueWrite(h) PROVE TypeOK'
  <2> DEFINE s == Hook("link", hook[h].event, {}, 0, clock + 1)
  <2>1. HookTyped(hook[h], clock) /\ hook[h].event \in Events
    BY <1>0, <1>5 DEF EnqueueWrite, HooksTyped, HookTyped
  <2>2. clock' = clock + 1 /\ clock' \in 0 .. MaxWrites /\ clock <= clock'
    BY <1>0, <1>5, SpoolAssumption DEF EnqueueWrite, HooksTyped
  <2>3. HookTyped(s, clock')
    BY <1>0, <2>1, <2>2, FS_EmptySet DEF HookTyped, Hook, Listing
  <2> HIDE DEF s
  <2>4. HookBecomes(h, s)
    BY <1>5 DEF EnqueueWrite, s
  <2>5. HooksTyped'
    BY <2>2, <2>3, <2>4, HookMoves DEF HooksTyped
  <2> QED BY <1>0, <1>5, <2>5 DEF EnqueueWrite, service, history, FilesTyped, DrainersTyped, RestTyped
<1>6. ASSUME EnqueueLink(h) PROVE TypeOK'
  <2> DEFINE e == hook[h].event
             new == [event |-> e, mtime |-> hook[h].mtime]
  <2>1. hook[h].at = "link" /\ e \in Events /\ hook[h].mtime \in 1 .. clock
    BY <1>0, <1>6 DEF EnqueueLink, HooksTyped, HookTyped
  <2>2. new \in Files
    BY <1>0, <2>1, SpoolAssumption DEF Files, HooksTyped
  <2>3. CASE HasFile(e.id)
    <3> DEFINE s == Hook("known", e, {}, 0, 0)
    <3>1. HookTyped(s, clock)
      BY <2>1, FS_EmptySet DEF HookTyped, Hook, Listing
    <3> HIDE DEF s
    <3>2. HookBecomes(h, s)
      BY <1>6, <2>3 DEF EnqueueLink, s
    <3> QED BY <1>0, <1>1, <1>6, <2>3, <3>1, <3>2 DEF EnqueueLink, RestTyped
  <2>4. CASE ~HasFile(e.id)
    <3>1. files' = files \cup {new} /\ queued' = queued \cup {e}
      BY <1>6, <2>4 DEF EnqueueLink
    <3>2. \A f \in files : f.event.id # new.event.id /\ f.mtime # new.mtime
      BY <2>1, <2>4 DEF HasFile, MtimesDiffer
    <3>3. IsFiniteSet(files')
      BY <1>0, <3>1, FS_AddElement DEF FilesTyped
    <3>4. FilesTyped'
      BY <1>0, <2>2, <3>1, <3>2, <3>3 DEF FilesTyped
    <3>5. clock' = clock /\ HookBecomes(h, HookIdle)
      BY <1>6, <2>4 DEF EnqueueLink
    <3>6. HooksTyped'
      BY <1>0, <3>5, IdleTyped, HookMoves DEF HooksTyped
    <3>7. RestTyped'
      BY <1>0, <1>6, <2>1, <3>1 DEF EnqueueLink, service, RestTyped
    <3> QED BY <1>0, <1>6, <3>4, <3>6, <3>7 DEF EnqueueLink, DrainersTyped
  <2> QED BY <2>3, <2>4
<1>7. ASSUME HookDies(h) PROVE TypeOK'
  <2>1. clock' = clock /\ HookBecomes(h, HookIdle)
    BY <1>7 DEF HookDies
  <2>2. HooksTyped'
    BY <1>0, <2>1, IdleTyped, HookMoves DEF HooksTyped
  <2> QED BY <1>0, <1>7, <2>2 DEF HookDies, service, history, FilesTyped, DrainersTyped, RestTyped
<1> QED BY <1>2, <1>4, <1>5, <1>6, <1>7, <1>9, <1>10, <1>11, <1>12 DEF HookStep

LEMMA DrainerTypes ==
  ASSUME TypeOK, NEW d \in Drainers,
         \/ Progress(d) \/ Answered(d) \/ PostUnanswered(d)
         \/ Acknowledge(d) \/ AcknowledgeFails(d)
         \/ Quarantines(d) \/ QuarantineFails(d) \/ DrainerDies(d)
  PROVE  TypeOK'
<1> USE DEF TypeOK
<1> DEFINE s == drainer[d]
<1>0. /\ DrainerTyped(s)
      /\ s.at \notin {"idle", "read"} => s.event \in Events
      /\ s.batch \subseteq Files /\ s.seen \in Seq(Events) /\ << >> \in Seq(Events)
  BY DEF DrainersTyped, DrainerTyped
\* What the step makes of the drainer is all that needs a look when it leaves the files
\* alone.
<1> DEFINE Becomes(n) == DrainerBecomes(d, n) /\ DrainerTyped(n)
<1>1. ASSUME NEW n, Becomes(n), UNCHANGED <<files, clock, hook>>, RestTyped'
      PROVE  TypeOK'
  <2>1. DrainersTyped'
    BY <1>1, DrainerMoves DEF DrainersTyped
  <2> QED BY <1>1, <2>1 DEF FilesTyped, HooksTyped
<1>2. Becomes(DrainerIdle) <=> GivesUp(d)
  BY IdleTyped DEF GivesUp
<1>3. ASSUME FlushBegin(d) PROVE TypeOK'
  <2>1. PICK batch \in SUBSET files : DrainerBecomes(d, Drainer("read", batch, Nothing, <<>>))
    BY <1>3 DEF FlushBegin
  <2>2. DrainerTyped(Drainer("read", batch, Nothing, <<>>))
    BY <1>0 DEF DrainerTyped, Drainer, FilesTyped
  <2> QED BY <1>1, <1>3, <2>1, <2>2 DEF FlushBegin, service, history, RestTyped
<1>4. ASSUME FlushRead(d) PROVE TypeOK'
  <2>1. PICK f \in s.batch :
          DrainerBecomes(d,
            IF HasFile(f.event.id)
            THEN Drainer("post", s.batch \ {f}, FileOf(f.event.id).event, <<>>)
            ELSE Drainer("read", s.batch \ {f}, Nothing, <<>>))
    BY <1>4 DEF FlushRead
  <2>2. HasFile(f.event.id) => FileOf(f.event.id).event \in Events
    BY FileOfKnown
  <2>3. /\ DrainerTyped(Drainer("read", s.batch \ {f}, Nothing, <<>>))
        /\ HasFile(f.event.id) =>
             DrainerTyped(Drainer("post", s.batch \ {f}, FileOf(f.event.id).event, <<>>))
    BY <1>0, <2>2 DEF DrainerTyped, Drainer
  <2> QED BY <1>1, <1>4, <2>1, <2>3 DEF FlushRead, service, history, RestTyped
<1>5. ASSUME FlushEnd(d) PROVE TypeOK'
  BY <1>1, <1>2, <1>5 DEF FlushEnd, service, history, RestTyped
<1>6. ASSUME PostAccepted(d) PROVE TypeOK'
  <2>1. DrainerTyped(Drainer("acknowledge", s.batch, s.event, <<>>))
    BY <1>0, <1>6 DEF PostAccepted, DrainerTyped, Drainer
  <2> QED BY <1>0, <1>1, <1>6, <2>1 DEF PostAccepted, history, RestTyped
<1>7. ASSUME PostRefused(d) PROVE TypeOK'
  <2>1. DrainerTyped(Drainer("quarantine", s.batch, s.event, <<>>))
    BY <1>0, <1>7 DEF PostRefused, DrainerTyped, Drainer
  <2> QED BY <1>1, <1>7, <2>1 DEF PostRefused, service, history, RestTyped
<1>8. ASSUME PostUnanswered(d) PROVE TypeOK'
  <2>1. late' \subseteq Events
    BY <1>0, <1>8 DEF PostUnanswered, RestTyped
  <2> QED BY <1>1, <1>2, <1>8, <2>1 DEF PostUnanswered, history, RestTyped
<1>9. ASSUME Acknowledge(d) PROVE TypeOK'
  <2>1. DrainerTyped(Drainer("read", s.batch, Nothing, <<>>))
    BY <1>0 DEF DrainerTyped, Drainer
  <2>2. DrainersTyped'
    BY <1>9, <2>1, DrainerMoves DEF Acknowledge, NextFile, DrainersTyped
  <2>3. files' \in SUBSET files
    BY <1>9 DEF Acknowledge, Unlinked
  <2>4. FilesTyped'
    BY <2>3, FilesRemoved DEF FilesTyped
  <2> QED BY <1>9, <2>2, <2>4 DEF Acknowledge, service, history, HooksTyped, RestTyped
<1>10. ASSUME QuarantineBegin(d) PROVE TypeOK'
  <2>1. /\ DrainerTyped(Drainer("acknowledge", s.batch, s.event, <<>>))
        /\ DrainerTyped(Drainer("store", s.batch, s.event, quarantine))
    BY <1>0, <1>10 DEF QuarantineBegin, DrainerTyped, Drainer, RestTyped
  <2> QED BY <1>1, <1>10, <2>1 DEF QuarantineBegin, service, history, RestTyped
<1>11. ASSUME QuarantinePrune(d) PROVE TypeOK'
  <2>1. Tail(s.seen) \in Seq(Events)
    BY <1>0, <1>11 DEF QuarantinePrune
  <2>2. DrainerTyped(Drainer("store", s.batch, s.event, Tail(s.seen)))
    BY <1>0, <1>11, <2>1 DEF QuarantinePrune, DrainerTyped, Drainer
  <2>3. quarantine' \in Seq(Events)
    BY <1>11, UnshelvedSequence DEF QuarantinePrune, RestTyped
  <2> QED BY <1>1, <1>11, <2>2, <2>3 DEF QuarantinePrune, service, history, RestTyped
<1>12. ASSUME QuarantineStore(d) PROVE TypeOK'
  <2>1. DrainerTyped(Drainer("acknowledge", s.batch, s.event, <<>>))
    BY <1>0, <1>12 DEF QuarantineStore, DrainerTyped, Drainer
  <2>2. s.event \in Events
    BY <1>0, <1>12 DEF QuarantineStore
  <2>3. quarantine' \in Seq(Events) /\ shelved' \subseteq EventIds
    BY <1>12, <2>2 DEF QuarantineStore, RestTyped, EventIds
  <2> QED BY <1>1, <1>12, <2>1, <2>3 DEF QuarantineStore, service, RestTyped
<1>13. ASSUME QuarantineFails(d) PROVE TypeOK'
  BY <1>1, <1>2, <1>13 DEF QuarantineFails, service, history, RestTyped
<1>14. ASSUME DrainerDies(d) PROVE TypeOK'
  BY <1>1, <1>2, <1>14 DEF DrainerDies, service, history, RestTyped
<1>15. ASSUME AcknowledgeFails(d) PROVE TypeOK'
  BY <1>1, <1>2, <1>15 DEF AcknowledgeFails, service, history, RestTyped
<1> QED
  BY <1>3, <1>4, <1>5, <1>6, <1>7, <1>8, <1>9, <1>10, <1>11, <1>12, <1>13, <1>14, <1>15
  DEF Progress, Answered, Quarantines

LEMMA TypeStep ==
  ASSUME TypeOK, MtimesDiffer, [Next]_vars
  PROVE  TypeOK'
<1>1. ASSUME NEW e \in Events, ServedLate(e) PROVE TypeOK'
  BY <1>1 DEF ServedLate, history, TypeOK, FilesTyped, HooksTyped, DrainersTyped, RestTyped
<1>2. CASE UNCHANGED vars
  BY <1>2 DEF vars, service, history, TypeOK, FilesTyped, HooksTyped, DrainersTyped, RestTyped
<1> QED BY <1>1, <1>2, HookTypes, DrainerTypes DEF Next

-----------------------------------------------------------------------------
(* mtimes.  Only a hook that has written its temporary file adds one.      *)

LEMMA MtimesStep ==
  ASSUME TypeOK, MtimesDiffer, [Next]_vars
  PROVE  MtimesDiffer'
<1>0. /\ clock \in Nat /\ hook = [h \in Hooks |-> hook[h]]
      /\ \A h \in Hooks : hook[h].at = "link" => hook[h].mtime \in 1 .. clock
      /\ \A f \in files : f.mtime \in Nat
  BY SpoolAssumption DEF TypeOK, FilesTyped, HooksTyped, HookTyped, Files
\* Fewer files, and a hook that is not about to link, take nothing away.
<1>1. ASSUME files' \in SUBSET files, hook' = hook, clock' = clock PROVE MtimesDiffer'
  BY <1>1 DEF MtimesDiffer
<1>2. ASSUME NEW h \in Hooks, NEW s, HookBecomes(h, s), s.at # "link",
             files' \in SUBSET files, clock' = clock
      PROVE  MtimesDiffer'
  BY <1>0, <1>2 DEF MtimesDiffer, HookBecomes
<1>3. ASSUME NEW h \in Hooks, EnqueueCompare(h) \/ EnqueueList(h) PROVE MtimesDiffer'
  BY <1>2, <1>3 DEF EnqueueCompare, EnqueueList, Hook, HookIdle
<1>4. ASSUME NEW h \in Hooks, NEW e \in Events, EnqueueBegin(h, e) PROVE MtimesDiffer'
  BY <1>2, <1>4 DEF EnqueueBegin, Hook
<1>5. ASSUME NEW h \in Hooks, EnqueueSort(h) \/ EnqueueSize(h) PROVE MtimesDiffer'
  <2>1. \E s : HookBecomes(h, s) /\ s.at # "link"
    BY <1>5 DEF EnqueueSort, EnqueueSize, Hook, HookIdle
  <2> QED BY <1>2, <1>5, <2>1 DEF EnqueueSort, EnqueueSize
<1>6. ASSUME NEW h \in Hooks, EnqueuePrune(h) PROVE MtimesDiffer'
  <2>1. \E s : HookBecomes(h, s) /\ s.at # "link"
    BY <1>6 DEF EnqueuePrune, Hook
  <2>2. files' \in SUBSET files /\ clock' = clock
    BY <1>6 DEF EnqueuePrune, Unlinked
  <2> QED BY <1>2, <2>1, <2>2
<1>7. ASSUME NEW h \in Hooks, EnqueueWrite(h) PROVE MtimesDiffer'
  <2>1. /\ clock' = clock + 1 /\ files' = files
        /\ hook' = [hook EXCEPT ![h] = Hook("link", hook[h].event, {}, 0, clock + 1)]
    BY <1>7 DEF EnqueueWrite, HookBecomes
  <2>2. /\ hook'[h].mtime = clock + 1
        /\ \A g \in Hooks \ {h} : hook'[g] = hook[g]
    BY <1>0, <2>1 DEF Hook
  <2>3. \A f \in files : f.mtime <= clock
    BY DEF MtimesDiffer
  <2>4. \A f \in files' : f.mtime <= clock'
    BY <1>0, <2>1, <2>3
  <2>5. ASSUME NEW g \in Hooks, hook'[g].at = "link" PROVE \A f \in files' : f.mtime # hook'[g].mtime
    BY <1>0, <2>1, <2>2, <2>3, <2>5 DEF MtimesDiffer
  <2>6. ASSUME NEW g \in Hooks, NEW k \in Hooks \ {g},
               hook'[g].at = "link", hook'[k].at = "link"
        PROVE  hook'[k].mtime # hook'[g].mtime
    <3>1. CASE g = h
      BY <1>0, <2>2, <2>6, <3>1
    <3>2. CASE k = h
      BY <1>0, <2>2, <2>6, <3>2
    <3>3. CASE g # h /\ k # h
      BY <2>2, <2>6, <3>3 DEF MtimesDiffer
    <3> QED BY <3>1, <3>2, <3>3
  <2> QED BY <2>4, <2>5, <2>6 DEF MtimesDiffer
<1>8. ASSUME NEW h \in Hooks, EnqueueLink(h) PROVE MtimesDiffer'
  <2> DEFINE new == [event |-> hook[h].event, mtime |-> hook[h].mtime]
  <2>0. CASE HasFile(hook[h].event.id)
    BY <1>2, <1>8, <2>0 DEF EnqueueLink, Hook
  <2>1. CASE /\ hook[h].at = "link" /\ clock' = clock
             /\ files' = files \cup {new}
             /\ hook' = [hook EXCEPT ![h] = HookIdle]
    <3>1. /\ hook'[h].at = "idle"
          /\ \A g \in Hooks \ {h} : hook'[g] = hook[g]
      BY <1>0, <2>1 DEF HookIdle, Hook
    <3>2. \A f \in files' : f \in files \/ f.mtime = hook[h].mtime
      BY <2>1
    <3> HIDE DEF new
    <3> QED BY <1>0, <2>1, <3>1, <3>2 DEF MtimesDiffer
  <2> QED BY <1>8, <2>0, <2>1 DEF EnqueueLink, HookBecomes
<1>9. ASSUME NEW h \in Hooks, HookDies(h) PROVE MtimesDiffer'
  BY <1>2, <1>9 DEF HookDies, HookIdle, Hook
<1>10. ASSUME NEW d \in Drainers, Acknowledge(d) \/ AcknowledgeFails(d) PROVE MtimesDiffer'
  BY <1>1, <1>10 DEF Acknowledge, AcknowledgeFails, Unlinked
<1>11. CASE UNCHANGED <<files, hook, clock>>
  BY <1>1, <1>11
<1> QED
  BY <1>3, <1>4, <1>5, <1>6, <1>7, <1>8, <1>9, <1>10, <1>11
  DEF Next, vars, HookStep, Progress, Answered, Quarantines, FlushBegin, FlushRead, FlushEnd,
      PostAccepted, PostRefused, PostUnanswered, QuarantineBegin, QuarantinePrune,
      QuarantineStore, QuarantineFails, DrainerDies, ServedLate

-----------------------------------------------------------------------------
(* No queued event vanishes.                                               *)

\* What was recorded or put into quarantine stays accounted for.
LEMMA AccountsKept ==
  ASSUME DeletesAreAccounted, recorded \subseteq recorded', shelved \subseteq shelved',
         ToSet(quarantine') \subseteq ToSet(quarantine), drainer' = drainer
  PROVE  DeletesAreAccounted'
BY DEF DeletesAreAccounted, Accounted, IdsOf

LEMMA AccountsMove ==
  ASSUME TypeOK, DeletesAreAccounted, recorded \subseteq recorded', shelved \subseteq shelved',
         IdsOf(ToSet(quarantine')) \subseteq shelved',
         NEW d \in Drainers, NEW s, DrainerBecomes(d, s),
         s.at = "acknowledge" => s.event.id \in IdsOf(recorded') \cup shelved'
  PROVE  DeletesAreAccounted'
<1>1. /\ drainer'[d] = s
      /\ \A c \in Drainers \ {d} : drainer'[c] = drainer[c]
  BY DEF TypeOK, DrainersTyped, DrainerBecomes
<1> QED BY <1>1 DEF DeletesAreAccounted, Accounted, IdsOf

LEMMA AccountsStep ==
  ASSUME TypeOK, DeletesAreAccounted, [Next]_vars
  PROVE  DeletesAreAccounted'
<1>0. IdsOf(ToSet(quarantine)) \subseteq shelved
  BY DEF DeletesAreAccounted
<1>1. CASE UNCHANGED <<drainer, service, quarantine, shelved>>
  BY <1>1, AccountsKept DEF service
<1>2. ASSUME NEW d \in Drainers, NEW s, DrainerBecomes(d, s), s.at # "acknowledge",
             UNCHANGED <<recorded, quarantine, shelved>>
      PROVE  DeletesAreAccounted'
  BY <1>0, <1>2, AccountsMove
<1>3. ASSUME NEW d \in Drainers, Progress(d) PROVE DeletesAreAccounted'
  <2>1. CASE FlushBegin(d)
    BY <1>2, <2>1 DEF FlushBegin, service, history, Drainer
  <2>2. CASE FlushRead(d)
    <3>1. \E s : DrainerBecomes(d, s) /\ s.at # "acknowledge"
      BY <2>2 DEF FlushRead, Drainer
    <3> QED BY <1>2, <2>2, <3>1 DEF FlushRead, service, history
  <2>3. CASE FlushEnd(d)
    BY <1>2, <2>3 DEF FlushEnd, GivesUp, DrainerIdle, service, history, Drainer
  <2>5. CASE QuarantineBegin(d)
    <3>1. CASE drainer[d].event \in ToSet(quarantine)
      <4>1. drainer[d].event.id \in shelved
        BY <1>0, <3>1 DEF IdsOf
      <4> QED BY <1>0, <2>5, <3>1, <4>1, AccountsMove
              DEF QuarantineBegin, service, history, Drainer
    <3>2. CASE drainer[d].event \notin ToSet(quarantine)
      BY <1>2, <2>5, <3>2 DEF QuarantineBegin, service, history, Drainer
    <3> QED BY <3>1, <3>2
  <2> QED BY <1>3, <2>1, <2>2, <2>3, <2>5 DEF Progress
<1>11. ASSUME NEW d \in Drainers, Acknowledge(d) \/ AcknowledgeFails(d)
       PROVE  DeletesAreAccounted'
  BY <1>2, <1>11
  DEF Acknowledge, AcknowledgeFails, NextFile, GivesUp, DrainerIdle, service, history, Drainer
<1>4. ASSUME NEW d \in Drainers, PostAccepted(d) PROVE DeletesAreAccounted'
  <2>1. drainer[d].event.id \in IdsOf(recorded')
    BY <1>4 DEF PostAccepted, IdsOf
  <2> QED BY <1>0, <1>4, <2>1, AccountsMove DEF PostAccepted, history, Drainer
<1>5. ASSUME NEW d \in Drainers, PostRefused(d) PROVE DeletesAreAccounted'
  BY <1>2, <1>5 DEF PostRefused, service, history, Drainer
<1>6. ASSUME NEW d \in Drainers, PostUnanswered(d) PROVE DeletesAreAccounted'
  BY <1>2, <1>6 DEF PostUnanswered, GivesUp, DrainerIdle, history, Drainer
<1>7. ASSUME NEW d \in Drainers, QuarantinePrune(d) PROVE DeletesAreAccounted'
  <2>1. ToSet(quarantine') \subseteq ToSet(quarantine)
    BY <1>7, UnshelvedSequence DEF QuarantinePrune, TypeOK, RestTyped
  <2>2. IdsOf(ToSet(quarantine')) \subseteq shelved
    BY <1>0, <2>1 DEF IdsOf
  <2> QED BY <1>7, <2>2, AccountsMove DEF QuarantinePrune, service, history, Drainer
<1>8. ASSUME NEW d \in Drainers, QuarantineStore(d) PROVE DeletesAreAccounted'
  <2> DEFINE e == drainer[d].event
  <2>1. e \in Events /\ quarantine \in Seq(Events)
    BY <1>8 DEF QuarantineStore, TypeOK, DrainersTyped, DrainerTyped, RestTyped
  <2>2. ToSet(quarantine') \subseteq ToSet(quarantine) \cup {e}
    <3>1. ToSet(Append(quarantine, e)) \subseteq ToSet(quarantine) \cup {e}
      BY <2>1 DEF ToSet
    <3> QED BY <1>8, <3>1 DEF QuarantineStore
  <2>3. shelved' = shelved \cup {e.id}
    BY <1>8 DEF QuarantineStore
  <2>4. IdsOf(ToSet(quarantine')) \subseteq shelved'
    BY <1>0, <2>2, <2>3 DEF IdsOf
  <2> QED BY <1>8, <2>3, <2>4, AccountsMove DEF QuarantineStore, service, Drainer
<1>9. ASSUME NEW d \in Drainers, QuarantineFails(d) \/ DrainerDies(d)
      PROVE  DeletesAreAccounted'
  BY <1>2, <1>9 DEF QuarantineFails, DrainerDies, GivesUp, DrainerIdle, service, history, Drainer
<1>10. ASSUME NEW e \in Events, ServedLate(e) PROVE DeletesAreAccounted'
  BY <1>10, AccountsKept DEF ServedLate, history
<1> QED
  BY <1>1, <1>3, <1>4, <1>5, <1>6, <1>7, <1>8, <1>9, <1>10, <1>11
  DEF Next, vars, history, HookStep, Answered, Quarantines, EnqueueBegin, EnqueueCompare,
      EnqueueList, EnqueueSort, EnqueueSize, EnqueuePrune, EnqueueWrite, EnqueueLink, HookDies

\* A queued event is looked for in four places; every step leaves it in one of them.
LEMMA VanishStep ==
  ASSUME TypeOK, NothingVanishes, DeletesAreAccounted, [Next]_vars
  PROVE  NothingVanishes'
<1> DEFINE Places == NamesOf(files) \cup IdsOf(recorded) \cup shelved \cup pruned
<1>0. IdsOf(queued) \subseteq Places /\ NamesOf(files) = IdsOf({f.event : f \in files})
  BY DEF NothingVanishes, NamesOf, IdsOf
<1>1. ASSUME queued' = queued, Places \subseteq Places' PROVE NothingVanishes'
  BY <1>0, <1>1 DEF NothingVanishes, NamesOf, IdsOf
<1>2. ASSUME UNCHANGED <<files, queued, pruned>>, recorded \subseteq recorded',
             shelved \subseteq shelved'
      PROVE  NothingVanishes'
  BY <1>1, <1>2 DEF NamesOf, IdsOf
<1>3. ASSUME NEW h \in Hooks, EnqueueCompare(h) PROVE NothingVanishes'
  <2> DEFINE e == hook[h].event
  <2>1. HasFile(e.id) => e.id \in NamesOf(files)
    BY DEF HasFile, NamesOf
  <2>2. queued' \subseteq queued \cup (IF HasFile(e.id) THEN {e} ELSE {})
    BY <1>3 DEF EnqueueCompare
  <2>3. UNCHANGED <<files, recorded, shelved, pruned>>
    BY <1>3 DEF EnqueueCompare, service
  <2> QED BY <1>0, <2>1, <2>2, <2>3 DEF NothingVanishes, NamesOf, IdsOf
<1>4. ASSUME NEW h \in Hooks, EnqueuePrune(h) PROVE NothingVanishes'
  <2>1. pruned' = pruned \cup NamesOf(files \ files')
    BY <1>4 DEF EnqueuePrune
  <2>2. UNCHANGED <<recorded, shelved, queued>>
    BY <1>4 DEF EnqueuePrune, service
  <2> QED BY <1>1, <2>1, <2>2 DEF NamesOf
<1>5. ASSUME NEW h \in Hooks, EnqueueLink(h) PROVE NothingVanishes'
  <2> DEFINE e == hook[h].event
             new == [event |-> e, mtime |-> hook[h].mtime]
  <2>0. UNCHANGED <<recorded, shelved, pruned>>
    BY <1>5 DEF EnqueueLink, service
  <2>1. CASE HasFile(e.id)
    BY <1>2, <1>5, <2>0, <2>1 DEF EnqueueLink
  <2>2. CASE ~HasFile(e.id)
    <3>1. files' = files \cup {new} /\ queued' = queued \cup {e}
      BY <1>5, <2>2 DEF EnqueueLink
    <3>2. new \in files' /\ new.event.id = e.id
      BY <3>1
    <3>3. e.id \in NamesOf(files')
      BY <3>2 DEF NamesOf
    <3> QED BY <1>0, <2>0, <3>1, <3>3 DEF NothingVanishes, NamesOf, IdsOf
  <2> QED BY <2>1, <2>2
<1>6. ASSUME NEW d \in Drainers, Acknowledge(d) PROVE NothingVanishes'
  <2>1. drainer[d].event.id \in IdsOf(recorded) \cup shelved
    BY <1>6 DEF Acknowledge, DeletesAreAccounted, Accounted
  <2>2. NamesOf(files) \subseteq NamesOf(files') \cup {drainer[d].event.id}
    BY <1>6 DEF Acknowledge, Unlinked, NamesOf
  <2>3. UNCHANGED <<recorded, shelved, pruned, queued>>
    BY <1>6 DEF Acknowledge, service, history
  <2> QED BY <1>1, <2>1, <2>2, <2>3
<1> QED
  BY <1>2, <1>3, <1>4, <1>5, <1>6
  DEF Next, vars, service, history, HookStep, Progress, Answered, Quarantines, EnqueueBegin,
      EnqueueList, EnqueueSort, EnqueueSize, EnqueueWrite, HookDies, AcknowledgeFails, FlushBegin, FlushRead, FlushEnd, PostAccepted,
      PostRefused, PostUnanswered, QuarantineBegin, QuarantinePrune, QuarantineStore,
      QuarantineFails, DrainerDies, ServedLate

-----------------------------------------------------------------------------
(* The bound of the spool.                                                 *)

LEMMA HookLeavesBounds ==
  ASSUME TypeOK, NEW h \in Hooks
  PROVE  HookLeaves(h) \in Nat /\ HookLeaves(h) <= Cardinality(files)
BY RemainingBounds, SpoolAssumption DEF HookLeaves, TypeOK, FilesTyped

\* Files are told apart by their names, so a hook finds no more of them than it listed.
LEMMA ListedIsNoMore ==
  ASSUME TypeOK, NEW h \in Hooks
  PROVE  /\ IsFiniteSet(Listed(h))
         /\ Cardinality(Listed(h)) <= Cardinality(hook[h].listing)
<1> DEFINE L == hook[h].listing
           entry == [f \in Listed(h) |-> CHOOSE g \in L : g.event.id = f.event.id]
<1>1. IsFiniteSet(L)
  BY DEF TypeOK, HooksTyped, HookTyped
<1>2. \A f \in Listed(h) : entry[f] \in L /\ entry[f].event.id = f.event.id
  BY DEF Listed, NamesOf
<1>3. entry \in Injection(Listed(h), L)
  <2>1. entry \in [Listed(h) -> L]
    BY <1>2
  <2>2. \A f, g \in Listed(h) : entry[f] = entry[g] => f = g
    BY <1>2 DEF Listed, TypeOK, FilesTyped
  <2> HIDE DEF entry, L
  <2> QED BY <2>1, <2>2 DEF Injection, IsInjective
<1> HIDE DEF entry, L
<1>4. IsFiniteSet(Listed(h)) /\ Cardinality(Listed(h)) <= Cardinality(L)
  BY <1>1, <1>3, FS_Injection
<1> QED BY <1>4 DEF L

\* A step that adds no file and after which every hook at work leaves no more.
LEMMA HooksKeepRoom ==
  ASSUME TypeOK, TypeOK', SpoolNearBound, HooksLeaveRoom,
         files' \in SUBSET files, BusyHooks' \in SUBSET BusyHooks,
         \A h \in BusyHooks' : /\ HookLeaves(h)' <= HookLeaves(h)
                               /\ hook'[h].at = "link" => hook'[h].listing = {}
  PROVE  SpoolNearBound' /\ HooksLeaveRoom'
<1> DEFINE r == [h \in Hooks |-> HookLeaves(h)]
           r2 == [h \in Hooks |-> HookLeaves(h)']
<1>1. r \in [Hooks -> Nat] /\ r2 \in [Hooks -> Nat]
  <2>1. \A h \in Hooks : HookLeaves(h)' \in Nat
    BY HookLeavesBounds, SpoolAssumption, RemainingBounds DEF HookLeaves, TypeOK, FilesTyped
  <2> QED BY <2>1, HookLeavesBounds
<1>2. \A h \in BusyHooks' : r2[h] <= r[h]
  BY DEF BusyHooks
<1>3. LeaveRoom(Hooks, MaxEvents, r, BusyHooks)
  BY DEF HooksLeaveRoom
<1>4. BusyHooks \in SUBSET Hooks
  BY DEF BusyHooks
<1> HIDE DEF r, r2
<1>5. LeaveRoom(Hooks, MaxEvents, r2, BusyHooks')
  BY <1>1, <1>2, <1>3, <1>4, RoomKept, SpoolAssumption
<1>6. HooksLeaveRoom'
  BY <1>5 DEF HooksLeaveRoom, LeaveRoom, BusyHooks, Listing, r2
<1>7. Cardinality(files') <= Cardinality(files)
  BY FS_Subset DEF TypeOK, FilesTyped
<1>8. /\ Cardinality(files) \in Nat /\ Cardinality(files') \in Nat
      /\ Cardinality(Hooks) \in Nat
  BY FS_CardinalityType, SpoolAssumption DEF TypeOK, FilesTyped
<1>9. SpoolNearBound'
  BY <1>7, <1>8, SpoolAssumption DEF SpoolNearBound
<1> QED BY <1>6, <1>9

\* Removing files lets no hook leave more, as long as it looks for the same names, or for
\* names that are gone.
LEMMA HookLeavesLess ==
  ASSUME TypeOK, NEW h \in Hooks, files' \in SUBSET files,
         \A f \in files' : f.event.id \in NamesOf(hook[h].listing)
                             <=> f.event.id \in NamesOf(hook'[h].listing)
  PROVE  HookLeaves(h)' <= HookLeaves(h)
<1>1. files' \cap Listed(h)' = files' \cap Listed(h)
  BY DEF Listed
<1>2. IsFiniteSet(files)
  BY DEF TypeOK, FilesTyped
<1>3. Remaining(MaxEvents, files', Listed(h)') <= Remaining(MaxEvents, files, Listed(h))
  BY <1>1, <1>2, RemainingShrinks, SpoolAssumption
<1> QED BY <1>3 DEF HookLeaves

LEMMA SpoolBoundStep ==
  ASSUME TypeOK, TypeOK', SpoolNearBound, HooksLeaveRoom, [Next]_vars
  PROVE  SpoolNearBound' /\ HooksLeaveRoom'
<1> DEFINE Goal == SpoolNearBound' /\ HooksLeaveRoom'
<1>0. /\ hook = [h \in Hooks |-> hook[h]] /\ IsFiniteSet(files) /\ IsFiniteSet(Hooks)
      /\ Cardinality(files) \in Nat /\ Cardinality(Hooks) \in Nat
      /\ MaxEvents \in Nat \ {0}
  BY FS_CardinalityType, SpoolAssumption DEF TypeOK, FilesTyped, HooksTyped
<1>1. ASSUME hook' = hook, files' \in SUBSET files PROVE Goal
  BY <1>1, HookLeavesLess, HooksKeepRoom DEF BusyHooks, HooksLeaveRoom
<1>2. ASSUME NEW h \in Hooks, NEW s, HookBecomes(h, s), s.at \notin Listing, files' = files
      PROVE  Goal
  <2>1. \A g \in Hooks : hook'[g] = IF g = h THEN s ELSE hook[g]
    BY <1>0, <1>2 DEF HookBecomes
  <2>2. \A g \in BusyHooks' : g \in BusyHooks /\ hook'[g] = hook[g]
    BY <1>2, <2>1 DEF BusyHooks
  <2>3. \A g \in BusyHooks' : g \in Hooks
    BY DEF BusyHooks
  <2>4. \A g \in BusyHooks' : /\ HookLeaves(g)' <= HookLeaves(g)
                              /\ hook'[g].at = "link" => hook'[g].listing = {}
    BY <1>2, <2>2, <2>3, HookLeavesLess DEF HooksLeaveRoom
  <2> QED BY <1>2, <2>2, <2>4, HooksKeepRoom
<1>13. HookIdle.at \notin Listing
  BY DEF HookIdle, Hook, Listing
\* A hook that stays at work and leaves no more, while no file is added.
<1>3. ASSUME NEW h \in BusyHooks, NEW s, HookBecomes(h, s), files' \in SUBSET files,
             HookLeaves(h)' <= HookLeaves(h), s.at = "link" => s.listing = {}
      PROVE  Goal
  <2>1. h \in Hooks /\ \A g \in Hooks : hook'[g] = IF g = h THEN s ELSE hook[g]
    BY <1>0, <1>3 DEF HookBecomes, BusyHooks
  <2>2. BusyHooks' \in SUBSET BusyHooks
    BY <1>3, <2>1 DEF BusyHooks
  <2>3. ASSUME NEW g \in BusyHooks' PROVE HookLeaves(g)' <= HookLeaves(g)
    <3>1. CASE g = h
      BY <1>3, <3>1
    <3>2. CASE g # h
      <4>1. g \in Hooks /\ hook'[g] = hook[g]
        BY <2>1, <3>2 DEF BusyHooks
      <4> QED BY <1>3, <4>1, HookLeavesLess
    <3> QED BY <3>1, <3>2
  <2>4. \A g \in Hooks : hook'[g].at = "link" => hook'[g].listing = {}
    BY <1>3, <2>1 DEF HooksLeaveRoom
  <2>5. \A g \in BusyHooks' : g \in Hooks
    BY DEF BusyHooks
  <2> QED BY <1>3, <2>2, <2>3, <2>4, <2>5, HooksKeepRoom
<1>14. ASSUME NEW h \in Hooks, NEW e \in Events, EnqueueBegin(h, e) PROVE Goal
  BY <1>2, <1>14 DEF EnqueueBegin, Hook, Listing
<1>15. ASSUME NEW h \in Hooks, EnqueueCompare(h) \/ HookDies(h) PROVE Goal
  BY <1>2, <1>13, <1>15 DEF EnqueueCompare, HookDies
<1>4. ASSUME NEW h \in Hooks, EnqueueList(h) PROVE Goal
  <2> DEFINE s == Hook("sort", hook[h].event, files, 0, 0)
             r == [g \in Hooks |-> HookLeaves(g)]
             r2 == [g \in Hooks |-> HookLeaves(g)']
  <2>1. /\ files' = files
        /\ \A g \in Hooks : hook'[g] = IF g = h THEN s ELSE hook[g]
    BY <1>0, <1>4 DEF EnqueueList, HookBecomes
  <2>2. Listed(h)' = files
    BY <2>1 DEF Listed, Hook, NamesOf
  <2>3. HookLeaves(h)' <= MaxEvents - 1
    <3>1. Remaining(MaxEvents, files, files) <= MaxEvents - 1
      BY <1>0, RemainingBounds
    <3> QED BY <2>1, <2>2, <3>1 DEF HookLeaves
  <2>4. \A g \in Hooks : HookLeaves(g)' \in Nat
    BY RemainingBounds, SpoolAssumption DEF HookLeaves, TypeOK, FilesTyped
  <2>5. \A g \in Hooks \ {h} : HookLeaves(g)' <= HookLeaves(g)
    BY <2>1, HookLeavesLess
  <2>6. BusyHooks' = BusyHooks \cup {h} /\ BusyHooks \in SUBSET Hooks
    BY <2>1 DEF BusyHooks, Hook, Listing
  <2>7. r \in [Hooks -> Nat] /\ r2 \in [Hooks -> Nat] /\ r2[h] <= MaxEvents - 1
    BY <2>3, <2>4, HookLeavesBounds
  <2>8. \A g \in BusyHooks \ {h} : r2[g] <= r[g]
    BY <2>5, <2>6
  <2>9. LeaveRoom(Hooks, MaxEvents, r, BusyHooks)
    BY DEF HooksLeaveRoom
  <2>10. LeaveRoom(Hooks, MaxEvents, r2, BusyHooks')
    <3> HIDE DEF r, r2
    <3> QED BY <1>0, <2>6, <2>7, <2>8, <2>9, RoomBegun
  <2>11. \A g \in Hooks : hook'[g].at = "link" => hook'[g].listing = {}
    BY <2>1 DEF HooksLeaveRoom, Hook
  <2>12. HooksLeaveRoom'
    BY <2>10, <2>11 DEF HooksLeaveRoom
  <2> QED BY <2>1, <2>12 DEF SpoolNearBound
\* A pass over the listing leaves it as it is, or ends the hook.
<1>5. ASSUME NEW h \in Hooks, EnqueueSort(h) \/ EnqueueSize(h) PROVE Goal
  <2>1. files' = files /\ h \in BusyHooks
    BY <1>5 DEF EnqueueSort, EnqueueSize, BusyHooks, Listing
  <2>2. CASE AllThere(hook[h].listing)
    <3>1. PICK s : /\ HookBecomes(h, s) /\ s.at # "link"
                   /\ s.listing \in {Listed(h), hook[h].listing}
      BY <1>5, <2>2 DEF EnqueueSort, EnqueueSize, Hook
    <3>2. hook'[h].listing = s.listing
      BY <1>0, <3>1 DEF HookBecomes
    <3>3. NamesOf(s.listing) = NamesOf(hook[h].listing)
      <4> DEFINE names == NamesOf(hook[h].listing)
      <4>1. names \subseteq NamesOf(files)
        BY <2>2 DEF AllThere
      <4> HIDE DEF names
      <4>2. NamesOf({f \in files : f.event.id \in names}) = names
        BY <4>1 DEF NamesOf
      <4> QED BY <3>1, <4>2 DEF Listed, names
    <3>4. HookLeaves(h)' <= HookLeaves(h)
      BY <2>1, <3>2, <3>3, HookLeavesLess
    <3> QED BY <1>3, <2>1, <3>1, <3>4
  <2>3. CASE ~AllThere(hook[h].listing)
    BY <1>2, <1>5, <1>13, <2>1, <2>3 DEF EnqueueSort, EnqueueSize
  <2> QED BY <2>2, <2>3
<1>6. ASSUME NEW h \in Hooks, EnqueuePrune(h) PROVE Goal
  <2>1. PICK oldest, freed :
          /\ oldest \in hook[h].listing
          /\ files' = Unlinked(oldest.event.id)
          /\ HookBecomes(h, Hook("prune", hook[h].event, hook[h].listing \ {oldest},
                                 hook[h].total - freed, 0))
    BY <1>6 DEF EnqueuePrune
  <2> DEFINE s == Hook("prune", hook[h].event, hook[h].listing \ {oldest},
                       hook[h].total - freed, 0)
  <2>2. hook'[h].listing = hook[h].listing \ {oldest} /\ s.at = "prune" /\ h \in BusyHooks
    BY <1>0, <1>6, <2>1 DEF HookBecomes, Hook, EnqueuePrune, BusyHooks, Listing
  <2>3. files' \in SUBSET files /\ \A f \in files' : f.event.id # oldest.event.id
    BY <2>1 DEF Unlinked
  <2>4. HookLeaves(h)' <= HookLeaves(h)
    BY <2>2, <2>3, HookLeavesLess DEF NamesOf
  <2>5. HookBecomes(h, s)
    BY <2>1
  <2> HIDE DEF s
  <2> QED BY <1>3, <2>2, <2>3, <2>4, <2>5
<1>7. ASSUME NEW h \in Hooks, EnqueueWrite(h) PROVE Goal
  <2> DEFINE s == Hook("link", hook[h].event, {}, 0, clock + 1)
  <2>1. /\ h \in BusyHooks /\ files' = files /\ ~MustPrune(hook[h]) /\ HookBecomes(h, s)
    BY <1>7 DEF EnqueueWrite, BusyHooks, Listing
  <2>2. Cardinality(hook[h].listing) < MaxEvents
    <3>1. IsFiniteSet(hook[h].listing)
      BY DEF TypeOK, HooksTyped, HookTyped
    <3>2. Cardinality(hook[h].listing) \in Nat
      BY <3>1, FS_CardinalityType
    <3>3. hook[h].listing = {} => Cardinality(hook[h].listing) = 0
      BY FS_EmptySet
    <3> QED BY <1>0, <2>1, <3>2, <3>3 DEF MustPrune
  <2>3. HookLeaves(h) = Cardinality(files)
    <3>1. files \cap Listed(h) = Listed(h)
      BY DEF Listed
    <3>2. Cardinality(Listed(h)) < MaxEvents
      <4>1. IsFiniteSet(hook[h].listing)
        BY DEF TypeOK, HooksTyped, HookTyped
      <4>2. Cardinality(Listed(h)) \in Nat /\ Cardinality(hook[h].listing) \in Nat
        BY <4>1, ListedIsNoMore, FS_CardinalityType
      <4> QED BY <1>0, <2>2, <4>2, ListedIsNoMore
    <3> QED BY <1>0, <3>1, <3>2, RemainingBounds DEF HookLeaves
  <2>4. HookLeaves(h)' <= Cardinality(files)
    <3>1. Remaining(MaxEvents, files, Listed(h)') <= Cardinality(files)
      BY <1>0, RemainingBounds
    <3> QED BY <2>1, <3>1 DEF HookLeaves
  <2>5. s.listing = {}
    BY DEF Hook
  <2> HIDE DEF s
  <2> QED BY <1>3, <2>1, <2>3, <2>4, <2>5
<1>8. ASSUME NEW h \in Hooks, EnqueueLink(h) PROVE Goal
  <2> DEFINE e == hook[h].event
             new == [event |-> e, mtime |-> hook[h].mtime]
             r == [g \in Hooks |-> HookLeaves(g)]
             r2 == [g \in Hooks |-> HookLeaves(g)']
             n == Cardinality(files)
  <2>1. hook[h].at = "link" /\ hook[h].listing = {}
    BY <1>8 DEF EnqueueLink, HooksLeaveRoom
  <2>2. CASE HasFile(e.id)
    BY <1>2, <1>8, <2>2 DEF EnqueueLink, Hook, Listing
  <2>3. CASE ~HasFile(e.id)
    <3>1. files' = files \cup {new} /\ HookBecomes(h, HookIdle)
      BY <1>8, <2>3 DEF EnqueueLink
    <3> HIDE DEF new
    <3>2. \A g \in Hooks : hook'[g] = IF g = h THEN HookIdle ELSE hook[g]
      BY <1>0, <3>1 DEF HookBecomes
    <3>3. /\ BusyHooks' = BusyHooks \ {h} /\ h \in BusyHooks
          /\ BusyHooks \in SUBSET Hooks
      BY <1>13, <2>1, <3>2 DEF BusyHooks, Listing
    <3>4. Cardinality(files') \in Nat /\ Cardinality(files') <= n + 1
      <4>1. /\ IsFiniteSet(files')
            /\ Cardinality(files') = IF new \in files THEN n ELSE n + 1
        BY <1>0, <3>1, FS_AddElement
      <4>2. Cardinality(files') \in Nat
        BY <4>1, FS_CardinalityType
      <4> QED BY <1>0, <4>1, <4>2
    <3>5. r[h] = n
      <4>1. Listed(h) = {}
        BY <2>1 DEF Listed, NamesOf
      <4>2. Cardinality(files \cap {}) < MaxEvents
        <5>1. files \cap {} = {}
          OBVIOUS
        <5> QED BY <1>0, <5>1, FS_EmptySet
      <4>3. Remaining(MaxEvents, files, {}) = n
        BY <1>0, <4>2, RemainingBounds
      <4> QED BY <4>1, <4>3 DEF HookLeaves
    <3>6. \A g \in Hooks : HookLeaves(g)' \in Nat /\ HookLeaves(g)' <= Cardinality(files')
      BY RemainingBounds, SpoolAssumption DEF HookLeaves, TypeOK, FilesTyped
    <3>7. ASSUME NEW g \in Hooks \ {h} PROVE HookLeaves(g)' <= HookLeaves(g) + 1
      <4>1. files \cap Listed(g)' = files \cap Listed(g)
        BY <3>1, <3>2 DEF Listed
      <4>2. Remaining(MaxEvents, files', Listed(g)')
              <= Remaining(MaxEvents, files, Listed(g)) + 1
        BY <1>0, <3>1, <4>1, RemainingGrows
      <4> QED BY <4>2 DEF HookLeaves
    <3>8. r \in [Hooks -> Nat] /\ r2 \in [Hooks -> Nat]
      BY <3>6, HookLeavesBounds
    <3>9. \A g \in BusyHooks \ {h} : r2[g] <= r[g] + 1 /\ r2[g] <= n + 1
      <4>1. \A g \in BusyHooks \ {h} : g \in Hooks
        BY <3>3
      <4> QED BY <1>0, <3>4, <3>6, <3>7, <4>1
    <3>10. LeaveRoom(Hooks, MaxEvents, r, BusyHooks)
      BY DEF HooksLeaveRoom
    <3>11. /\ LeaveRoom(Hooks, MaxEvents, r2, BusyHooks \ {h})
           /\ n + 1 <= MaxEvents - 1 + Cardinality(Hooks)
      <4> HIDE DEF r, r2, n
      <4>1. n \in Nat
        BY <1>0 DEF n
      <4> QED BY <1>0, <3>3, <3>5, <3>8, <3>9, <3>10, <4>1, RoomUsed
    <3>12. SpoolNearBound'
      BY <1>0, <3>4, <3>11 DEF SpoolNearBound
    <3>13. \A g \in Hooks : hook'[g].at = "link" => hook'[g].listing = {}
      BY <3>2 DEF HooksLeaveRoom, HookIdle, Hook
    <3>14. HooksLeaveRoom'
      BY <3>3, <3>11, <3>13 DEF HooksLeaveRoom
    <3> QED BY <3>12, <3>14
  <2> QED BY <2>2, <2>3
<1>10. ASSUME NEW d \in Drainers, Acknowledge(d) PROVE Goal
  BY <1>1, <1>10 DEF Acknowledge, Unlinked
<1>11. ASSUME UNCHANGED <<files, hook>> PROVE Goal
  BY <1>1, <1>11
<1> HIDE DEF Goal
<1>12. Goal
  BY <1>4, <1>5, <1>6, <1>7, <1>8, <1>10, <1>11, <1>14, <1>15
  DEF Next, vars, HookStep, Progress, Answered, Quarantines, AcknowledgeFails, FlushBegin,
      FlushRead, FlushEnd, PostAccepted, PostRefused, PostUnanswered, QuarantineBegin,
      QuarantinePrune, QuarantineStore, QuarantineFails, DrainerDies, ServedLate
<1> QED BY <1>12 DEF Goal

-----------------------------------------------------------------------------
(* The bound of the quarantine.                                            *)

\* A sequence has a finite number of elements, no more than its length; as many when it
\* repeats none.
LEMMA ElementsOfSequence ==
  ASSUME NEW q \in Seq(Events)
  PROVE  /\ IsFiniteSet(ToSet(q)) /\ Cardinality(ToSet(q)) \in Nat
         /\ Cardinality(ToSet(q)) <= Len(q)
         /\ (\A i, j \in DOMAIN q : q[i] = q[j] => i = j) => Cardinality(ToSet(q)) = Len(q)
<1>1. q \in [1 .. Len(q) -> ToSet(q)] /\ DOMAIN q = 1 .. Len(q) /\ Len(q) \in Nat
  BY DEF ToSet
<1>2. q \in Surjection(1 .. Len(q), ToSet(q))
  BY <1>1 DEF Surjection, ToSet
<1>3. IsFiniteSet(1 .. Len(q)) /\ Cardinality(1 .. Len(q)) = Len(q)
  <2> DEFINE n == Len(q)
  <2>1. n \in Nat /\ n \in Int /\ 1 \in Int
    BY <1>1
  <2> HIDE DEF n
  <2>2. /\ IsFiniteSet(1 .. n)
        /\ Cardinality(1 .. n) = IF 1 > n THEN 0 ELSE n - 1 + 1
    BY <2>1, FS_Interval
  <2>3. Cardinality(1 .. n) = n
    BY <2>1, <2>2
  <2> QED BY <2>2, <2>3 DEF n
<1>4. /\ IsFiniteSet(ToSet(q)) /\ Cardinality(ToSet(q)) <= Len(q)
      /\ Cardinality(ToSet(q)) = Len(q) <=> q \in Injection(1 .. Len(q), ToSet(q))
  BY <1>2, <1>3, FS_Surjection
<1>5. (\A i, j \in DOMAIN q : q[i] = q[j] => i = j) => q \in Injection(1 .. Len(q), ToSet(q))
  BY <1>1 DEF Injection, IsInjective
<1> QED BY <1>4, <1>5, FS_CardinalityType

LEMMA DrainerLeavesBounds ==
  ASSUME TypeOK, NEW d \in Drainers
  PROVE  DrainerLeaves(d) \in Nat
BY ElementsOfSequence, RemainingBounds, SpoolAssumption DEF DrainerLeaves, TypeOK, RestTyped

NoRecordTwice == \A i, j \in DOMAIN quarantine : quarantine[i] = quarantine[j] => i = j

\* A step that adds no record and after which every drainer at work leaves no more.
LEMMA DrainersKeepRoom ==
  ASSUME TypeOK, TypeOK', QuarantineNearBound, DrainersLeaveRoom,
         Len(quarantine') <= Len(quarantine), NoRecordTwice',
         BusyDrainers' \in SUBSET BusyDrainers,
         \A d \in BusyDrainers' : DrainerLeaves(d)' <= DrainerLeaves(d)
  PROVE  QuarantineNearBound' /\ DrainersLeaveRoom'
<1> DEFINE r == [d \in Drainers |-> DrainerLeaves(d)]
           r2 == [d \in Drainers |-> DrainerLeaves(d)']
<1>1. r \in [Drainers -> Nat] /\ r2 \in [Drainers -> Nat]
  <2>1. \A d \in Drainers : DrainerLeaves(d)' \in Nat
    BY ElementsOfSequence, RemainingBounds, SpoolAssumption
    DEF DrainerLeaves, TypeOK, RestTyped
  <2> QED BY <2>1, DrainerLeavesBounds
<1>2. \A d \in BusyDrainers' : r2[d] <= r[d]
  BY DEF BusyDrainers
<1>3. LeaveRoom(Drainers, MaxShelved, r, BusyDrainers)
  BY DEF DrainersLeaveRoom
<1>4. BusyDrainers \in SUBSET Drainers
  BY DEF BusyDrainers
<1> HIDE DEF r, r2
<1>5. LeaveRoom(Drainers, MaxShelved, r2, BusyDrainers')
  BY <1>1, <1>2, <1>3, <1>4, RoomKept, SpoolAssumption
<1>6. DrainersLeaveRoom'
  BY <1>5 DEF DrainersLeaveRoom, NoRecordTwice, LeaveRoom, BusyDrainers, r2
<1>7. Len(quarantine) \in Nat /\ Len(quarantine') \in Nat /\ Cardinality(Drainers) \in Nat
  BY FS_CardinalityType, SpoolAssumption DEF TypeOK, RestTyped
<1>8. QuarantineNearBound'
  BY <1>7, SpoolAssumption DEF QuarantineNearBound
<1> QED BY <1>6, <1>8

LEMMA QuarantineBoundStep ==
  ASSUME TypeOK, TypeOK', QuarantineNearBound, DrainersLeaveRoom, [Next]_vars
  PROVE  QuarantineNearBound' /\ DrainersLeaveRoom'
<1> DEFINE Goal == QuarantineNearBound' /\ DrainersLeaveRoom'
           Q == ToSet(quarantine)
<1>0. /\ drainer = [d \in Drainers |-> drainer[d]]
      /\ quarantine \in Seq(Events) /\ Len(quarantine) \in Nat /\ NoRecordTwice
      /\ IsFiniteSet(Drainers) /\ Cardinality(Drainers) \in Nat
      /\ MaxShelved \in Nat \ {0}
  BY FS_CardinalityType, SpoolAssumption
  DEF TypeOK, RestTyped, DrainersTyped, DrainersLeaveRoom, NoRecordTwice
<1>1. IsFiniteSet(Q) /\ Cardinality(Q) \in Nat /\ Cardinality(Q) = Len(quarantine)
  BY <1>0, ElementsOfSequence DEF NoRecordTwice
<1> HIDE DEF Q
\* A drainer that is not about to store anything leaves the others as they are.
<1>2. ASSUME NEW d \in Drainers, NEW s, DrainerBecomes(d, s), s.at # "store",
             quarantine' = quarantine
      PROVE  Goal
  <2>1. \A c \in Drainers : drainer'[c] = IF c = d THEN s ELSE drainer[c]
    BY <1>0, <1>2 DEF DrainerBecomes
  <2>2. \A c \in BusyDrainers' : c \in BusyDrainers /\ drainer'[c] = drainer[c]
    BY <1>2, <2>1 DEF BusyDrainers
  <2>3. \A c \in BusyDrainers' : DrainerLeaves(c)' = DrainerLeaves(c)
    BY <1>2, <2>2 DEF DrainerLeaves
  <2>4. \A c \in BusyDrainers' : DrainerLeaves(c)' \in Nat
    <3>1. \A c \in BusyDrainers' : c \in Drainers
      BY DEF BusyDrainers
    <3> QED BY <2>3, <3>1, DrainerLeavesBounds
  <2>5. NoRecordTwice' /\ Len(quarantine') <= Len(quarantine)
    BY <1>0, <1>2 DEF NoRecordTwice
  <2> QED BY <2>2, <2>3, <2>4, <2>5, DrainersKeepRoom
<1>3. ASSUME NEW d \in Drainers, Progress(d) PROVE Goal
  <2>1. ASSUME FlushBegin(d) PROVE Goal
    BY <1>2, <2>1 DEF FlushBegin, Drainer
  <2>2. ASSUME FlushRead(d) PROVE Goal
    <3>1. \E s : DrainerBecomes(d, s) /\ s.at # "store"
      BY <2>2 DEF FlushRead, Drainer
    <3> QED BY <1>2, <2>2, <3>1 DEF FlushRead
  <2>3. ASSUME FlushEnd(d) PROVE Goal
    BY <1>2, <2>3 DEF FlushEnd, GivesUp, DrainerIdle, Drainer
  <2>5. ASSUME QuarantineBegin(d), drainer[d].event \in ToSet(quarantine) PROVE Goal
    BY <1>2, <2>5 DEF QuarantineBegin, Drainer
  \* The directory is read: nothing in it is unseen.
  <2>6. ASSUME QuarantineBegin(d), drainer[d].event \notin ToSet(quarantine) PROVE Goal
    <3> DEFINE s == Drainer("store", drainer[d].batch, drainer[d].event, quarantine)
               r == [c \in Drainers |-> DrainerLeaves(c)]
               r2 == [c \in Drainers |-> DrainerLeaves(c)']
    <3>1. /\ quarantine' = quarantine
          /\ \A c \in Drainers : drainer'[c] = IF c = d THEN s ELSE drainer[c]
      BY <1>0, <2>6 DEF QuarantineBegin, DrainerBecomes
    <3>2. DrainerLeaves(d)' <= MaxShelved - 1
      <4>1. Remaining(MaxShelved, Q, Q) <= MaxShelved - 1
        BY <1>0, <1>1, RemainingBounds
      <4> QED BY <3>1, <4>1 DEF DrainerLeaves, Drainer, Q
    <3>3. \A c \in Drainers \ {d} : DrainerLeaves(c)' = DrainerLeaves(c)
      BY <3>1 DEF DrainerLeaves
    <3>4. \A c \in Drainers : DrainerLeaves(c)' \in Nat
      BY ElementsOfSequence, RemainingBounds, SpoolAssumption
      DEF DrainerLeaves, TypeOK, RestTyped
    <3>5. r \in [Drainers -> Nat] /\ r2 \in [Drainers -> Nat] /\ r2[d] <= MaxShelved - 1
      BY <3>2, <3>4, DrainerLeavesBounds
    <3>6. BusyDrainers' = BusyDrainers \cup {d} /\ BusyDrainers \in SUBSET Drainers
      BY <3>1 DEF BusyDrainers, Drainer
    <3>7. \A c \in BusyDrainers \ {d} : r2[c] <= r[c]
      BY <3>3, <3>5, <3>6
    <3>8. LeaveRoom(Drainers, MaxShelved, r, BusyDrainers)
      BY DEF DrainersLeaveRoom
    <3>9. LeaveRoom(Drainers, MaxShelved, r2, BusyDrainers')
      <4> HIDE DEF r, r2
      <4> QED BY <1>0, <3>5, <3>6, <3>7, <3>8, RoomBegun
    <3> QED BY <3>1, <3>9 DEF DrainersLeaveRoom, QuarantineNearBound
  <2> QED BY <1>3, <2>1, <2>2, <2>3, <2>5, <2>6 DEF Progress
<1>10. ASSUME NEW d \in Drainers, Acknowledge(d) \/ AcknowledgeFails(d) PROVE Goal
  BY <1>2, <1>10 DEF Acknowledge, AcknowledgeFails, NextFile, GivesUp, DrainerIdle, Drainer
<1>4. ASSUME NEW d \in Drainers, Answered(d) PROVE Goal
  BY <1>2, <1>4 DEF Answered, PostAccepted, PostRefused, Drainer
<1>5. ASSUME NEW d \in Drainers, PostUnanswered(d) \/ QuarantineFails(d) \/ DrainerDies(d)
      PROVE  Goal
  BY <1>2, <1>5 DEF PostUnanswered, QuarantineFails, DrainerDies, GivesUp, DrainerIdle, Drainer
\* A record that goes was seen by the drainer that removes it.
<1>6. ASSUME NEW d \in Drainers, QuarantinePrune(d) PROVE Goal
  <2> DEFINE old == Head(drainer[d].seen)
             s == Drainer("store", drainer[d].batch, drainer[d].event, Tail(drainer[d].seen))
  <2>0. drainer[d].seen \in Seq(Events) /\ drainer[d].seen # << >>
    BY <1>6 DEF QuarantinePrune, TypeOK, DrainersTyped, DrainerTyped
  <2>1. /\ quarantine' = Unshelved(old) /\ drainer[d].at = "store"
        /\ \A c \in Drainers : drainer'[c] = IF c = d THEN s ELSE drainer[c]
    BY <1>0, <1>6 DEF QuarantinePrune, DrainerBecomes
  <2>2. /\ ToSet(quarantine') = Q \ {old} /\ NoRecordTwice'
        /\ Len(quarantine') <= Len(quarantine)
    BY <1>0, <2>1, UnshelvedSequence DEF NoRecordTwice, Q
  <2>3. BusyDrainers' = BusyDrainers
    BY <2>1 DEF BusyDrainers, Drainer
  <2>4. ToSet(drainer[d].seen) = ToSet(Tail(drainer[d].seen)) \cup {old}
    <3> DEFINE t == drainer[d].seen
    <3>1. /\ Tail(t) \in Seq(Events) /\ Len(Tail(t)) = Len(t) - 1 /\ Len(t) \in Nat \ {0}
          /\ \A i \in 1 .. Len(Tail(t)) : Tail(t)[i] = t[i + 1]
          /\ old = t[1]
      BY <2>0
    <3>2. DOMAIN t = 1 .. Len(t) /\ DOMAIN Tail(t) = 1 .. Len(t) - 1
      BY <2>0, <3>1
    <3> HIDE DEF t, old
    <3>3. ASSUME NEW i \in 1 .. Len(t), i # 1 PROVE t[i] \in ToSet(Tail(t))
      <4>1. i - 1 \in 1 .. Len(t) - 1 /\ Tail(t)[i - 1] = t[i]
        BY <3>1, <3>3
      <4> QED BY <3>2, <4>1 DEF ToSet
    <3>4. ASSUME NEW i \in 1 .. Len(t) - 1 PROVE Tail(t)[i] \in ToSet(t)
      <4>1. i + 1 \in 1 .. Len(t) /\ Tail(t)[i] = t[i + 1]
        BY <3>1
      <4> QED BY <3>2, <4>1 DEF ToSet
    <3>5. ToSet(t) \subseteq ToSet(Tail(t)) \cup {old}
      BY <3>1, <3>2, <3>3 DEF ToSet
    <3>6. ToSet(Tail(t)) \subseteq ToSet(t) /\ old \in ToSet(t)
      BY <3>1, <3>2, <3>4 DEF ToSet
    <3>7. ToSet(t) = ToSet(Tail(t)) \cup {old}
      BY <3>5, <3>6
    <3> QED BY <3>7 DEF t
  <2>5. ASSUME NEW c \in BusyDrainers PROVE DrainerLeaves(c)' <= DrainerLeaves(c)
    <3> DEFINE T == Q \ {old}
               seen == ToSet(drainer[c].seen)
               seen2 == ToSet(drainer'[c].seen)
    <3>1. c \in Drainers
      BY DEF BusyDrainers
    <3>2. T \cap seen2 = T \cap seen
      <4>1. CASE c = d
        <5>1. drainer'[c].seen = Tail(drainer[d].seen) /\ drainer[c].seen = drainer[d].seen
          <6>1. s.seen = Tail(drainer[d].seen)
            BY DEF Drainer
          <6> HIDE DEF s
          <6>2. drainer'[c] = s /\ drainer[c] = drainer[d]
            BY <2>1, <3>1, <4>1
          <6> QED BY <6>1, <6>2
        <5>2. seen2 = ToSet(Tail(drainer[d].seen)) /\ seen = ToSet(drainer[d].seen)
          BY <5>1
        <5>3. seen = seen2 \cup {old}
          BY <2>4, <5>2
        <5> HIDE DEF seen, seen2, old
        <5> QED BY <5>3
      <4>2. CASE c # d
        BY <2>1, <3>1, <4>2
      <4> QED BY <4>1, <4>2
    <3>3. T \in SUBSET Q
      OBVIOUS
    <3> HIDE DEF T, seen, seen2
    <3>4. Remaining(MaxShelved, T, seen2) <= Remaining(MaxShelved, Q, seen)
      BY <1>0, <1>1, <3>2, <3>3, RemainingShrinks
    <3> QED BY <2>2, <3>4 DEF DrainerLeaves, Q, T, seen, seen2
  <2> QED BY <2>2, <2>3, <2>5, DrainersKeepRoom
\* A record is added by a drainer that leaves all there are.
<1>7. ASSUME NEW d \in Drainers, QuarantineStore(d) PROVE Goal
  <2> DEFINE e == drainer[d].event
             s == Drainer("acknowledge", drainer[d].batch, e, <<>>)
             r == [c \in Drainers |-> DrainerLeaves(c)]
             r2 == [c \in Drainers |-> DrainerLeaves(c)']
             n == Len(quarantine)
  <2>1. /\ drainer[d].at = "store" /\ HasRoom(drainer[d].seen) /\ DrainerBecomes(d, s)
        /\ \A c \in Drainers : drainer'[c] = IF c = d THEN s ELSE drainer[c]
    BY <1>0, <1>7 DEF QuarantineStore, DrainerBecomes
  <2>2. e \in Events /\ drainer[d].seen \in Seq(Events) /\ s.at # "store"
    BY <2>1 DEF TypeOK, DrainersTyped, DrainerTyped, Drainer
  <2>3. ASSUME e \in ToSet(quarantine) PROVE Goal
    <3>1. quarantine' = quarantine
      BY <1>7, <2>3 DEF QuarantineStore
    <3> HIDE DEF s, e, Goal
    <3> QED BY <1>2, <2>1, <2>2, <3>1
  <2>4. ASSUME e \notin ToSet(quarantine) PROVE Goal
    <3>1. quarantine' = Append(quarantine, e)
      BY <1>7, <2>4 DEF QuarantineStore
    <3>2. /\ Len(quarantine') = n + 1 /\ DOMAIN quarantine' = 1 .. n + 1
          /\ DOMAIN quarantine = 1 .. n
          /\ quarantine'[n + 1] = e /\ \A i \in 1 .. n : quarantine'[i] = quarantine[i]
      BY <1>0, <2>2, <3>1
    <3>3. ToSet(quarantine') = Q \cup {e}
      <4>1. ToSet(quarantine') \subseteq Q \cup {e}
        BY <1>0, <3>2 DEF ToSet, Q
      <4>2. e \in ToSet(quarantine')
        BY <1>0, <3>2 DEF ToSet
      <4>3. ASSUME NEW i \in 1 .. n PROVE quarantine[i] \in ToSet(quarantine')
        <5>1. i \in 1 .. n + 1 /\ quarantine'[i] = quarantine[i]
          BY <1>0, <3>2
        <5> QED BY <3>2, <5>1 DEF ToSet
      <4>4. Q \subseteq ToSet(quarantine')
        BY <3>2, <4>3 DEF ToSet, Q
      <4> QED BY <4>1, <4>2, <4>4
    <3>4. NoRecordTwice'
      <4>1. \A i \in 1 .. n : quarantine[i] # e
        BY <2>4, <3>2 DEF ToSet
      <4> QED BY <1>0, <3>2, <4>1 DEF NoRecordTwice
    <3>5. /\ BusyDrainers' = BusyDrainers \ {d} /\ d \in BusyDrainers
          /\ BusyDrainers \in SUBSET Drainers
      BY <2>1 DEF BusyDrainers, Drainer
    <3>6. r[d] = n
      <4> DEFINE seen == ToSet(drainer[d].seen)
      <4>1. IsFiniteSet(seen) /\ Cardinality(seen) \in Nat /\ Cardinality(seen) < MaxShelved
        <5>1. Cardinality(seen) <= Len(drainer[d].seen) /\ Len(drainer[d].seen) < MaxShelved
          BY <2>1, <2>2, ElementsOfSequence DEF HasRoom
        <5>2. Len(drainer[d].seen) \in Nat /\ IsFiniteSet(seen) /\ Cardinality(seen) \in Nat
          BY <2>2, ElementsOfSequence
        <5> QED BY <1>0, <5>1, <5>2
      <4> HIDE DEF seen
      <4>2. Cardinality(Q \cap seen) \in Nat /\ Cardinality(Q \cap seen) <= Cardinality(seen)
        BY <4>1, FS_Intersection, FS_CardinalityType
      <4>3. Remaining(MaxShelved, Q, seen) = Cardinality(Q)
        BY <1>0, <1>1, <4>1, <4>2, RemainingBounds
      <4> QED BY <1>1, <4>3 DEF DrainerLeaves, Q, seen
    <3>7. \A c \in Drainers : DrainerLeaves(c)' \in Nat /\ DrainerLeaves(c)' <= n + 1
      <4>1. IsFiniteSet(Q \cup {e}) /\ Cardinality(Q \cup {e}) <= n + 1
        <5>1. n \in Nat /\ Cardinality(Q) = n
          BY <1>0, <1>1
        <5> HIDE DEF e, n
        <5>2. /\ IsFiniteSet(Q \cup {e})
              /\ Cardinality(Q \cup {e})
                   = IF e \in Q THEN Cardinality(Q) ELSE Cardinality(Q) + 1
          BY <1>1, FS_AddElement
        <5> QED BY <5>1, <5>2
      <4>2. \A x : /\ Remaining(MaxShelved, Q \cup {e}, x) \in Nat
                   /\ Remaining(MaxShelved, Q \cup {e}, x) <= Cardinality(Q \cup {e})
        BY <1>0, <4>1, RemainingBounds
      <4>3. Cardinality(Q \cup {e}) \in Nat /\ n \in Nat
        BY <1>0, <4>1, FS_CardinalityType
      <4>4. \A c \in Drainers :
              DrainerLeaves(c)' = Remaining(MaxShelved, Q \cup {e}, ToSet(drainer'[c].seen))
        BY <3>3 DEF DrainerLeaves
      <4> HIDE DEF e, n
      <4>5. \A x : /\ Remaining(MaxShelved, Q \cup {e}, x) \in Nat
                   /\ Remaining(MaxShelved, Q \cup {e}, x) <= n + 1
        BY <4>1, <4>2, <4>3
      <4> QED BY <4>4, <4>5
    <3>8. ASSUME NEW c \in Drainers \ {d} PROVE DrainerLeaves(c)' <= DrainerLeaves(c) + 1
      <4>1. drainer'[c] = drainer[c]
        BY <2>1
      <4>2. Remaining(MaxShelved, Q \cup {e}, ToSet(drainer[c].seen))
              <= Remaining(MaxShelved, Q, ToSet(drainer[c].seen)) + 1
        BY <1>0, <1>1, RemainingGrows
      <4> QED BY <3>3, <4>1, <4>2 DEF DrainerLeaves, Q
    <3>9. r \in [Drainers -> Nat] /\ r2 \in [Drainers -> Nat]
      BY <3>7, DrainerLeavesBounds
    <3>10. \A c \in BusyDrainers \ {d} : r2[c] <= r[c] + 1 /\ r2[c] <= n + 1
      <4>1. \A c \in BusyDrainers \ {d} : c \in Drainers
        BY <3>5
      <4> QED BY <3>7, <3>8, <4>1
    <3>11. LeaveRoom(Drainers, MaxShelved, r, BusyDrainers)
      BY DEF DrainersLeaveRoom
    <3>12. /\ LeaveRoom(Drainers, MaxShelved, r2, BusyDrainers \ {d})
           /\ n + 1 <= MaxShelved - 1 + Cardinality(Drainers)
      <4> HIDE DEF r, r2, n
      <4>1. n \in Nat
        BY <1>0 DEF n
      <4> QED BY <1>0, <3>5, <3>6, <3>9, <3>10, <3>11, <4>1, RoomUsed
    <3>13. QuarantineNearBound'
      BY <1>0, <3>2, <3>12 DEF QuarantineNearBound
    <3>14. DrainersLeaveRoom'
      BY <3>4, <3>5, <3>12 DEF DrainersLeaveRoom, NoRecordTwice
    <3> QED BY <3>13, <3>14
  <2> QED BY <2>3, <2>4
<1>8. ASSUME UNCHANGED <<drainer, quarantine>> PROVE Goal
  BY <1>8 DEF QuarantineNearBound, DrainersLeaveRoom, LeaveRoom, DrainerLeaves, BusyDrainers
<1> HIDE DEF Goal
<1>9. Goal
  BY <1>3, <1>4, <1>5, <1>6, <1>7, <1>8, <1>10
  DEF Next, vars, HookStep, Quarantines, EnqueueBegin, EnqueueCompare, EnqueueList,
      EnqueueSort, EnqueueSize, EnqueuePrune, EnqueueWrite, EnqueueLink, HookDies, ServedLate
<1> QED BY <1>9 DEF Goal

-----------------------------------------------------------------------------
(* The theorems.                                                           *)

LEMMA InitHolds == Init => SpoolInv
<1> SUFFICES ASSUME Init PROVE SpoolInv
  OBVIOUS
<1>1. /\ IsFiniteSet({}) /\ Cardinality({}) = 0 /\ << >> \in Seq(Events)
      /\ Cardinality(Hooks) \in Nat /\ Cardinality(Drainers) \in Nat
  BY FS_EmptySet, FS_CardinalityType, SpoolAssumption
<1>2. TypeOK
  BY <1>1, IdleTyped, SpoolAssumption
  DEF Init, TypeOK, FilesTyped, HooksTyped, DrainersTyped, RestTyped
<1>3. MtimesDiffer
  BY DEF Init, MtimesDiffer, HookIdle, Hook
<1>4. NothingVanishes /\ DeletesAreAccounted
  BY DEF Init, NothingVanishes, DeletesAreAccounted, IdsOf, ToSet, DrainerIdle, Drainer
<1>5. SpoolNearBound /\ QuarantineNearBound
  BY <1>1, SpoolAssumption DEF Init, SpoolNearBound, QuarantineNearBound
<1>6. HooksLeaveRoom
  <2>1. BusyHooks = {}
    BY DEF Init, BusyHooks, HookIdle, Hook, Listing
  <2> QED BY <2>1 DEF Init, HooksLeaveRoom, LeaveRoom, HookIdle, Hook
<1>7. DrainersLeaveRoom
  <2>1. BusyDrainers = {}
    BY DEF Init, BusyDrainers, DrainerIdle, Drainer
  <2> QED BY <2>1 DEF Init, DrainersLeaveRoom, LeaveRoom
<1> QED BY <1>2, <1>3, <1>4, <1>5, <1>6, <1>7 DEF SpoolInv

LEMMA StepHolds == SpoolInv /\ [Next]_vars => SpoolInv'
<1> SUFFICES ASSUME SpoolInv, [Next]_vars PROVE SpoolInv'
  OBVIOUS
<1>1. TypeOK'
  BY TypeStep DEF SpoolInv
<1> QED
  BY <1>1, MtimesStep, AccountsStep, VanishStep, SpoolBoundStep, QuarantineBoundStep
  DEF SpoolInv

\* The invariant, by induction over the steps.
THEOREM Invariance == Spec => []SpoolInv
BY InitHolds, StepHolds, PTL DEF Spec

\* Whatever is killed between two calls, files stay told apart by their names and mtimes.
THEOREM TypeCorrect == Spec => []TypeOK
<1>1. SpoolInv => TypeOK
  BY DEF SpoolInv
<1> QED BY Invariance, <1>1, PTL

\* Of every event that a hook was told is queued, something is left: its file, its record
\* in the service, its quarantine, or the fact that the bound pushed it out.
THEOREM QueuedIsAccountedFor == Spec => []NothingVanishes
<1>1. SpoolInv => NothingVanishes
  BY DEF SpoolInv
<1> QED BY Invariance, <1>1, PTL

\* Any number of hooks, each of which lists, prunes and links in its own time, exceed the
\* bound by at most one file for each of them but one.
THEOREM SpoolStaysNearBound == Spec => []SpoolNearBound
<1>1. SpoolInv => SpoolNearBound
  BY DEF SpoolInv
<1> QED BY Invariance, <1>1, PTL

\* The same for drainers and the quarantine.
THEOREM QuarantineStaysNearBound == Spec => []QuarantineNearBound
<1>1. SpoolInv => QuarantineNearBound
  BY DEF SpoolInv
<1> QED BY Invariance, <1>1, PTL
=============================================================================

--------------------------- MODULE ReadModelsProofs ---------------------------
(***************************************************************************)
(* Proofs about ReadModels, for every number of threads and commits and    *)
(* every history of the graph: every request is answered from versions the *)
(* store had while it was in progress, and neither cache goes back or      *)
(* claims more than it holds.                                              *)
(***************************************************************************)
EXTENDS ReadModels, TLAPS

Labels == {"idle", "observe", "check", "version", "lookup", "install", "label", "ensure",
           "compare", "rebuild", "list", "recheck", "source", "swap", "use", "done", "failed"}

\* The control points past a request's first snapshot.
Supplied == {"label", "ensure", "compare", "rebuild", "list", "recheck", "source",
             "swap", "use", "done", "failed"}

Versions == 0 .. MaxVersion

TypeOK ==
  /\ version \in Versions
  /\ cache \in Versions \cup {-1} /\ cacheLock \in Threads \cup {NoThread}
  /\ label \in Versions \cup {-1} /\ indexed \in Versions \cup {-1}
  /\ rebuildLock \in Threads \cup {NoThread}
  /\ attempt \in Nat /\ listed \in Versions
  /\ pc \in [Threads -> Labels] /\ op \in [Threads -> Ops]
  /\ from \in [Threads -> Versions] /\ seen \in [Threads -> Versions]
  /\ round \in [Threads -> 0 .. 2] /\ first \in [Threads -> Versions]
  /\ used \in [Threads -> SUBSET Int]

\* Nothing is ahead of the store, and the index not of its nodes.
Behind ==
  /\ cache <= version
  /\ label <= indexed /\ indexed <= version /\ listed <= version

\* Only the holder of a lock is between taking and releasing it.
Locks ==
  \A t \in Threads :
    /\ pc[t] = "install" => cacheLock = t
    /\ pc[t] \in {"list", "recheck", "source", "swap"} => rebuildLock = t

\* What a thread has read is no older than its request and no newer than the store.
Reading ==
  \A t \in Threads :
    /\ from[t] <= version /\ seen[t] <= version
    /\ pc[t] \in {"check", "lookup", "install", "compare", "list", "recheck", "source", "swap"}
         => from[t] <= seen[t]

\* A lock's holder installs nothing older than what it replaces.
Holding ==
  \A t \in Threads :
    /\ pc[t] = "install" => cache <= seen[t]
    /\ pc[t] \in {"list", "recheck", "source", "swap"} => label <= seen[t]
    /\ pc[t] \in {"recheck", "swap"} => seen[t] <= listed

\* The caches an answer is completed from are no older than the request.
Serving ==
  \A t \in Threads :
    /\ pc[t] = "label" => from[t] <= cache
    /\ pc[t] = "use" => from[t] <= label

\* What has gone into an answer so far.
Answering ==
  \A t \in Threads :
    /\ used[t] \subseteq from[t] .. version
    /\ pc[t] = "idle" => used[t] = {}
    /\ pc[t] \in Supplied => used[t] # {}

IInv == TypeOK /\ Behind /\ Locks /\ Reading /\ Holding /\ Serving /\ Answering

-----------------------------------------------------------------------------
(* What a step of one thread may do.                                       *)

\* A snapshot decides where the thread goes on and goes into its answer.
LEMMA TookFacts ==
  ASSUME TypeOK, NEW t \in Threads, NEW v \in Versions, Took(t, v)
  PROVE  \E l \in {"version", "label", "ensure", "failed"}, u \in SUBSET Int :
           /\ pc' = [pc EXCEPT ![t] = l]
           /\ used' = [used EXCEPT ![t] = u]
           /\ u \subseteq used[t] \cup {v}
           /\ l # "version" => u # {}
           /\ round' \in [Threads -> 0 .. 2]
           /\ first' \in [Threads -> Versions]
<1>1. used \in [Threads -> SUBSET Int] /\ pc \in [Threads -> Labels] /\ op[t] \in Ops
  BY DEF TypeOK
<1>2. round \in [Threads -> 0 .. 2] /\ first \in [Threads -> Versions] /\ v \in Int
  BY DEF TypeOK, Versions
<1>3. CASE round[t] = 0
  <2>1. /\ pc' = [pc EXCEPT ![t] = "version"]
        /\ used' = used /\ first' = first /\ round' = [round EXCEPT ![t] = 1]
    BY <1>3 DEF Took, Goto
  <2>2. used' = [used EXCEPT ![t] = used[t]]
    BY <2>1, <1>1
  <2>3. round' \in [Threads -> 0 .. 2]
    BY <2>1, <1>2
  <2> QED BY <2>1, <2>2, <2>3, <1>1, <1>2
<1>4. CASE round[t] = 1
  <2>1. /\ pc' = [pc EXCEPT ![t] = AfterFirst(op[t], v)]
        /\ used' = [used EXCEPT ![t] = {v}]
        /\ round' = [round EXCEPT ![t] = 2] /\ first' = [first EXCEPT ![t] = v]
    BY <1>4 DEF Took, Goto
  <2>2. AfterFirst(op[t], v) \in {"version", "label", "ensure", "failed"}
    BY <1>1 DEF AfterFirst, Onward, Ops
  <2>3. round' \in [Threads -> 0 .. 2] /\ first' \in [Threads -> Versions]
    BY <2>1, <1>2
  <2>4. {v} \in SUBSET Int /\ {v} # {} /\ {v} \subseteq used[t] \cup {v}
    BY <1>2
  <2> HIDE DEF AfterFirst
  <2> QED BY <2>1, <2>2, <2>3, <2>4
<1>5. CASE round[t] = 2
  <2>1. /\ pc' = [pc EXCEPT ![t] = AfterSecond(first[t], v)]
        /\ used' = [used EXCEPT ![t] = used[t] \cup {v}]
        /\ round' = round /\ first' = first
    BY <1>5 DEF Took, Goto
  <2>2. AfterSecond(first[t], v) \in {"label", "failed"}
    BY DEF AfterSecond
  <2>3. (used[t] \cup {v}) \in SUBSET Int /\ used[t] \cup {v} # {}
    BY <1>1, <1>2
  <2> QED BY <2>1, <2>2, <2>3, <1>2
<1> QED BY <1>2, <1>3, <1>4, <1>5 DEF Took
-----------------------------------------------------------------------------
(* Every step keeps every part of the invariant.                           *)

\* The threads' control and the caches keep their types.
LEMMA TypeOKStep == IInv /\ [Next]_vars => TypeOK'
<1> SUFFICES ASSUME IInv, [Next]_vars PROVE TypeOK'
  OBVIOUS
<1> USE DEF Versions, NotLoaded
<1>1. CASE UNCHANGED vars
  BY <1>1 DEF IInv, TypeOK, vars, graphVars, indexVars
<1>2. CASE Commit
  BY <1>2, ReadAssumption DEF IInv, TypeOK, Commit, graphVars, indexVars
<1>3. ASSUME NEW t \in Threads, NEW o \in Ops, Ask(t, o) PROVE TypeOK'
  BY <1>3 DEF IInv, TypeOK, Ask, Goto, Labels, graphVars, indexVars
<1>4. ASSUME NEW t \in Threads, Observe(t) PROVE TypeOK'
  BY <1>4 DEF IInv, TypeOK, Observe, Goto, ReadsVersion, graphVars, indexVars, Labels
<1>5. ASSUME NEW t \in Threads, Check(t) PROVE TypeOK'
  BY <1>5 DEF IInv, TypeOK, Check, Goto, graphVars, indexVars, Labels
<1>6. ASSUME NEW t \in Threads, ReadVersion(t) PROVE TypeOK'
  BY <1>6 DEF IInv, TypeOK, ReadVersion, Goto, ReadsVersion, graphVars, indexVars, Labels
<1>7. ASSUME NEW t \in Threads, Hit(t) PROVE TypeOK'
  <2>1. PICK l \in {"version", "label", "ensure", "failed"}, u \in SUBSET Int :
          /\ pc' = [pc EXCEPT ![t] = l] /\ used' = [used EXCEPT ![t] = u]
          /\ u \subseteq used[t] \cup {cache} /\ (l # "version" => u # {})
          /\ round' \in [Threads -> 0 .. 2] /\ first' \in [Threads -> Versions]
    BY <1>7, TookFacts DEF Hit, IInv, TypeOK
  <2> QED BY <1>7, <2>1 DEF IInv, TypeOK, Hit, graphVars, indexVars, Labels
<1>8. ASSUME NEW t \in Threads, Miss(t) PROVE TypeOK'
  BY <1>8 DEF IInv, TypeOK, Miss, Goto, ReadsVersion, indexVars, Labels
<1>9. ASSUME NEW t \in Threads, Install(t) PROVE TypeOK'
  <2>1. PICK l \in {"version", "label", "ensure", "failed"}, u \in SUBSET Int :
          /\ pc' = [pc EXCEPT ![t] = l] /\ used' = [used EXCEPT ![t] = u]
          /\ u \subseteq used[t] \cup {seen[t]} /\ (l # "version" => u # {})
          /\ round' \in [Threads -> 0 .. 2] /\ first' \in [Threads -> Versions]
    BY <1>9, TookFacts DEF Install, IInv, TypeOK
  <2> QED BY <1>9, <2>1 DEF IInv, TypeOK, Install, indexVars, Labels
<1>10. ASSUME NEW t \in Threads, Label(t) PROVE TypeOK'
  BY <1>10 DEF IInv, TypeOK, Label, Goto, graphVars, indexVars, Labels
<1>11. ASSUME NEW t \in Threads, Ensure(t) PROVE TypeOK'
  BY <1>11 DEF IInv, TypeOK, Ensure, Goto, ReadsVersion, graphVars, indexVars, Labels
<1>12. ASSUME NEW t \in Threads, Compare(t) PROVE TypeOK'
  BY <1>12 DEF IInv, TypeOK, Compare, Goto, graphVars, indexVars, Labels
<1>13. ASSUME NEW t \in Threads, Rebuild(t) PROVE TypeOK'
  BY <1>13 DEF IInv, TypeOK, Rebuild, Goto, ReadsVersion, graphVars, Labels
<1>14. ASSUME NEW t \in Threads, List(t) PROVE TypeOK'
  BY <1>14 DEF IInv, TypeOK, List, Goto, graphVars, Labels
<1>15. ASSUME NEW t \in Threads, Recheck(t) PROVE TypeOK'
  BY <1>15 DEF IInv, TypeOK, Recheck, Goto, graphVars, Labels
<1>16. ASSUME NEW t \in Threads, Source(t) PROVE TypeOK'
  BY <1>16 DEF IInv, TypeOK, Source, Goto, ReadsVersion, graphVars, indexVars, Labels
<1>17. ASSUME NEW t \in Threads, Swap(t) PROVE TypeOK'
  BY <1>17 DEF IInv, TypeOK, Swap, Goto, graphVars, Labels
<1>18. ASSUME NEW t \in Threads, Use(t) PROVE TypeOK'
  BY <1>18 DEF IInv, TypeOK, Use, Goto, graphVars, indexVars, Labels
<1>19. ASSUME NEW t \in Threads, Take(t) PROVE TypeOK'
  BY <1>19, ReadAssumption DEF IInv, TypeOK, Take, Goto, graphVars, indexVars, Labels
<1> QED BY <1>1, <1>2, <1>3, <1>4, <1>5, <1>6, <1>7, <1>8, <1>9, <1>10, <1>11, <1>12, <1>13, <1>14, <1>15, <1>16, <1>17, <1>18, <1>19 DEF Next, Work

\* Nothing is installed or read that the store has not reached, and the index is
\* swapped in with nodes at least as new as its label (graph.py, search.py).
LEMMA BehindStep == IInv /\ [Next]_vars => Behind'
<1> SUFFICES ASSUME IInv, [Next]_vars PROVE Behind'
  OBVIOUS
<1> USE DEF Versions, NotLoaded
<1>1. CASE UNCHANGED vars
  BY <1>1 DEF IInv, Behind, TypeOK, vars, graphVars, indexVars
<1>2. CASE Commit
  BY <1>2 DEF IInv, Behind, TypeOK, Commit, graphVars, indexVars
<1>3. ASSUME NEW t \in Threads, NEW o \in Ops, Ask(t, o) PROVE Behind'
  BY <1>3 DEF IInv, Behind, TypeOK, Ask, Goto, graphVars, indexVars
<1>4. ASSUME NEW t \in Threads, Observe(t) PROVE Behind'
  BY <1>4 DEF IInv, Behind, TypeOK, Observe, Goto, graphVars, indexVars
<1>5. ASSUME NEW t \in Threads, Check(t) PROVE Behind'
  BY <1>5 DEF IInv, Behind, TypeOK, Check, Goto, graphVars, indexVars
<1>6. ASSUME NEW t \in Threads, ReadVersion(t) PROVE Behind'
  BY <1>6 DEF IInv, Behind, TypeOK, ReadVersion, Goto, graphVars, indexVars
<1>7. ASSUME NEW t \in Threads, Hit(t) PROVE Behind'
  <2>1. PICK l \in {"version", "label", "ensure", "failed"}, u \in SUBSET Int :
          /\ pc' = [pc EXCEPT ![t] = l] /\ used' = [used EXCEPT ![t] = u]
          /\ u \subseteq used[t] \cup {cache} /\ (l # "version" => u # {})
          /\ round' \in [Threads -> 0 .. 2] /\ first' \in [Threads -> Versions]
    BY <1>7, TookFacts DEF Hit, IInv, TypeOK
  <2> QED BY <1>7, <2>1 DEF IInv, Behind, TypeOK, Hit, graphVars, indexVars
<1>8. ASSUME NEW t \in Threads, Miss(t) PROVE Behind'
  BY <1>8 DEF IInv, Behind, TypeOK, Miss, Goto, indexVars
<1>9. ASSUME NEW t \in Threads, Install(t) PROVE Behind'
  <2>1. PICK l \in {"version", "label", "ensure", "failed"}, u \in SUBSET Int :
          /\ pc' = [pc EXCEPT ![t] = l] /\ used' = [used EXCEPT ![t] = u]
          /\ u \subseteq used[t] \cup {seen[t]} /\ (l # "version" => u # {})
          /\ round' \in [Threads -> 0 .. 2] /\ first' \in [Threads -> Versions]
    BY <1>9, TookFacts DEF Install, IInv, TypeOK
  <2> QED BY <1>9, <2>1 DEF IInv, Behind, Reading, TypeOK, Install, indexVars
<1>10. ASSUME NEW t \in Threads, Label(t) PROVE Behind'
  BY <1>10 DEF IInv, Behind, TypeOK, Label, Goto, graphVars, indexVars
<1>11. ASSUME NEW t \in Threads, Ensure(t) PROVE Behind'
  BY <1>11 DEF IInv, Behind, TypeOK, Ensure, Goto, graphVars, indexVars
<1>12. ASSUME NEW t \in Threads, Compare(t) PROVE Behind'
  BY <1>12 DEF IInv, Behind, TypeOK, Compare, Goto, graphVars, indexVars
<1>13. ASSUME NEW t \in Threads, Rebuild(t) PROVE Behind'
  BY <1>13 DEF IInv, Behind, TypeOK, Rebuild, Goto, graphVars
<1>14. ASSUME NEW t \in Threads, List(t) PROVE Behind'
  BY <1>14 DEF IInv, Behind, TypeOK, List, Goto, graphVars
<1>15. ASSUME NEW t \in Threads, Recheck(t) PROVE Behind'
  BY <1>15 DEF IInv, Behind, TypeOK, Recheck, Goto, graphVars
<1>16. ASSUME NEW t \in Threads, Source(t) PROVE Behind'
  BY <1>16 DEF IInv, Behind, TypeOK, Source, Goto, graphVars, indexVars
<1>17. ASSUME NEW t \in Threads, Swap(t) PROVE Behind'
  BY <1>17 DEF IInv, Behind, Holding, TypeOK, Swap, Goto, graphVars
<1>18. ASSUME NEW t \in Threads, Use(t) PROVE Behind'
  BY <1>18 DEF IInv, Behind, TypeOK, Use, Goto, graphVars, indexVars
<1>19. ASSUME NEW t \in Threads, Take(t) PROVE Behind'
  BY <1>19 DEF IInv, Behind, TypeOK, Take, Goto, graphVars, indexVars
<1> QED BY <1>1, <1>2, <1>3, <1>4, <1>5, <1>6, <1>7, <1>8, <1>9, <1>10, <1>11, <1>12, <1>13, <1>14, <1>15, <1>16, <1>17, <1>18, <1>19 DEF Next, Work

\* _cache_lock and _rebuild_lock are held from the read to the installation.
LEMMA LocksStep == IInv /\ [Next]_vars => Locks'
<1> SUFFICES ASSUME IInv, [Next]_vars PROVE Locks'
  OBVIOUS
<1> USE DEF Versions, NotLoaded
<1>1. CASE UNCHANGED vars
  BY <1>1 DEF IInv, Locks, TypeOK, vars, graphVars, indexVars
<1>2. CASE Commit
  BY <1>2 DEF IInv, Locks, TypeOK, Commit, graphVars, indexVars
<1>3. ASSUME NEW t \in Threads, NEW o \in Ops, Ask(t, o) PROVE Locks'
  BY <1>3 DEF IInv, Locks, TypeOK, Ask, Goto, graphVars, indexVars
<1>4. ASSUME NEW t \in Threads, Observe(t) PROVE Locks'
  BY <1>4 DEF IInv, Locks, TypeOK, Observe, Goto, graphVars, indexVars
<1>5. ASSUME NEW t \in Threads, Check(t) PROVE Locks'
  BY <1>5 DEF IInv, Locks, TypeOK, Check, Goto, graphVars, indexVars
<1>6. ASSUME NEW t \in Threads, ReadVersion(t) PROVE Locks'
  BY <1>6 DEF IInv, Locks, TypeOK, ReadVersion, Goto, graphVars, indexVars
<1>7. ASSUME NEW t \in Threads, Hit(t) PROVE Locks'
  <2>1. PICK l \in {"version", "label", "ensure", "failed"}, u \in SUBSET Int :
          /\ pc' = [pc EXCEPT ![t] = l] /\ used' = [used EXCEPT ![t] = u]
          /\ u \subseteq used[t] \cup {cache} /\ (l # "version" => u # {})
          /\ round' \in [Threads -> 0 .. 2] /\ first' \in [Threads -> Versions]
    BY <1>7, TookFacts DEF Hit, IInv, TypeOK
  <2> QED BY <1>7, <2>1 DEF IInv, Locks, TypeOK, Hit, graphVars, indexVars
<1>8. ASSUME NEW t \in Threads, Miss(t) PROVE Locks'
  BY <1>8, ReadAssumption DEF IInv, Locks, TypeOK, Miss, Goto, indexVars
<1>9. ASSUME NEW t \in Threads, Install(t) PROVE Locks'
  <2>1. PICK l \in {"version", "label", "ensure", "failed"}, u \in SUBSET Int :
          /\ pc' = [pc EXCEPT ![t] = l] /\ used' = [used EXCEPT ![t] = u]
          /\ u \subseteq used[t] \cup {seen[t]} /\ (l # "version" => u # {})
          /\ round' \in [Threads -> 0 .. 2] /\ first' \in [Threads -> Versions]
    BY <1>9, TookFacts DEF Install, IInv, TypeOK
  <2> QED BY <1>9, <2>1 DEF IInv, Locks, TypeOK, Install, indexVars
<1>10. ASSUME NEW t \in Threads, Label(t) PROVE Locks'
  BY <1>10 DEF IInv, Locks, TypeOK, Label, Goto, graphVars, indexVars
<1>11. ASSUME NEW t \in Threads, Ensure(t) PROVE Locks'
  BY <1>11 DEF IInv, Locks, TypeOK, Ensure, Goto, graphVars, indexVars
<1>12. ASSUME NEW t \in Threads, Compare(t) PROVE Locks'
  BY <1>12 DEF IInv, Locks, TypeOK, Compare, Goto, graphVars, indexVars
<1>13. ASSUME NEW t \in Threads, Rebuild(t) PROVE Locks'
  BY <1>13, ReadAssumption DEF IInv, Locks, TypeOK, Rebuild, Goto, graphVars
<1>14. ASSUME NEW t \in Threads, List(t) PROVE Locks'
  BY <1>14 DEF IInv, Locks, TypeOK, List, Goto, graphVars
<1>15. ASSUME NEW t \in Threads, Recheck(t) PROVE Locks'
  BY <1>15 DEF IInv, Locks, TypeOK, Recheck, Goto, graphVars
<1>16. ASSUME NEW t \in Threads, Source(t) PROVE Locks'
  BY <1>16 DEF IInv, Locks, TypeOK, Source, Goto, graphVars, indexVars
<1>17. ASSUME NEW t \in Threads, Swap(t) PROVE Locks'
  BY <1>17 DEF IInv, Locks, TypeOK, Swap, Goto, graphVars
<1>18. ASSUME NEW t \in Threads, Use(t) PROVE Locks'
  BY <1>18 DEF IInv, Locks, TypeOK, Use, Goto, graphVars, indexVars
<1>19. ASSUME NEW t \in Threads, Take(t) PROVE Locks'
  BY <1>19 DEF IInv, Locks, TypeOK, Take, Goto, graphVars, indexVars
<1> QED BY <1>1, <1>2, <1>3, <1>4, <1>5, <1>6, <1>7, <1>8, <1>9, <1>10, <1>11, <1>12, <1>13, <1>14, <1>15, <1>16, <1>17, <1>18, <1>19 DEF Next, Work

\* A thread reads the version after its request came in.
LEMMA ReadingStep == IInv /\ [Next]_vars => Reading'
<1> SUFFICES ASSUME IInv, [Next]_vars PROVE Reading'
  OBVIOUS
<1> USE DEF Versions, NotLoaded
<1>1. CASE UNCHANGED vars
  BY <1>1 DEF IInv, Reading, TypeOK, vars
<1>2. CASE Commit
  BY <1>2 DEF IInv, Reading, TypeOK, Commit
<1>3. ASSUME NEW t \in Threads, NEW o \in Ops, Ask(t, o) PROVE Reading'
  BY <1>3 DEF IInv, Reading, TypeOK, Ask, Goto
<1>4. ASSUME NEW t \in Threads, Observe(t) PROVE Reading'
  BY <1>4 DEF IInv, Reading, TypeOK, Observe, Goto, ReadsVersion
<1>5. ASSUME NEW t \in Threads, Check(t) PROVE Reading'
  BY <1>5 DEF IInv, Reading, TypeOK, Check, Goto
<1>6. ASSUME NEW t \in Threads, ReadVersion(t) PROVE Reading'
  BY <1>6 DEF IInv, Reading, TypeOK, ReadVersion, Goto, ReadsVersion
<1>7. ASSUME NEW t \in Threads, Hit(t) PROVE Reading'
  <2>1. PICK l \in {"version", "label", "ensure", "failed"}, u \in SUBSET Int :
          /\ pc' = [pc EXCEPT ![t] = l] /\ used' = [used EXCEPT ![t] = u]
          /\ u \subseteq used[t] \cup {cache} /\ (l # "version" => u # {})
          /\ round' \in [Threads -> 0 .. 2] /\ first' \in [Threads -> Versions]
    BY <1>7, TookFacts DEF Hit, IInv, TypeOK
  <2> QED BY <1>7, <2>1 DEF IInv, Reading, TypeOK, Hit
<1>8. ASSUME NEW t \in Threads, Miss(t) PROVE Reading'
  BY <1>8 DEF IInv, Reading, TypeOK, Miss, Goto, ReadsVersion
<1>9. ASSUME NEW t \in Threads, Install(t) PROVE Reading'
  <2>1. PICK l \in {"version", "label", "ensure", "failed"}, u \in SUBSET Int :
          /\ pc' = [pc EXCEPT ![t] = l] /\ used' = [used EXCEPT ![t] = u]
          /\ u \subseteq used[t] \cup {seen[t]} /\ (l # "version" => u # {})
          /\ round' \in [Threads -> 0 .. 2] /\ first' \in [Threads -> Versions]
    BY <1>9, TookFacts DEF Install, IInv, TypeOK
  <2> QED BY <1>9, <2>1 DEF IInv, Reading, TypeOK, Install
<1>10. ASSUME NEW t \in Threads, Label(t) PROVE Reading'
  BY <1>10 DEF IInv, Reading, TypeOK, Label, Goto
<1>11. ASSUME NEW t \in Threads, Ensure(t) PROVE Reading'
  BY <1>11 DEF IInv, Reading, TypeOK, Ensure, Goto, ReadsVersion
<1>12. ASSUME NEW t \in Threads, Compare(t) PROVE Reading'
  BY <1>12 DEF IInv, Reading, TypeOK, Compare, Goto
<1>13. ASSUME NEW t \in Threads, Rebuild(t) PROVE Reading'
  BY <1>13 DEF IInv, Reading, TypeOK, Rebuild, Goto, ReadsVersion
<1>14. ASSUME NEW t \in Threads, List(t) PROVE Reading'
  BY <1>14 DEF IInv, Reading, TypeOK, List, Goto
<1>15. ASSUME NEW t \in Threads, Recheck(t) PROVE Reading'
  BY <1>15 DEF IInv, Reading, TypeOK, Recheck, Goto
<1>16. ASSUME NEW t \in Threads, Source(t) PROVE Reading'
  BY <1>16 DEF IInv, Reading, TypeOK, Source, Goto, ReadsVersion
<1>17. ASSUME NEW t \in Threads, Swap(t) PROVE Reading'
  BY <1>17 DEF IInv, Reading, TypeOK, Swap, Goto
<1>18. ASSUME NEW t \in Threads, Use(t) PROVE Reading'
  BY <1>18 DEF IInv, Reading, TypeOK, Use, Goto
<1>19. ASSUME NEW t \in Threads, Take(t) PROVE Reading'
  BY <1>19 DEF IInv, Reading, TypeOK, Take, Goto
<1> QED BY <1>1, <1>2, <1>3, <1>4, <1>5, <1>6, <1>7, <1>8, <1>9, <1>10, <1>11, <1>12, <1>13, <1>14, <1>15, <1>16, <1>17, <1>18, <1>19 DEF Next, Work

\* A reload or a rebuild replaces nothing newer than what it has read.
LEMMA HoldingStep == IInv /\ [Next]_vars => Holding'
<1> SUFFICES ASSUME IInv, [Next]_vars PROVE Holding'
  OBVIOUS
<1> USE DEF Versions, NotLoaded
<1>1. CASE UNCHANGED vars
  BY <1>1 DEF IInv, Holding, TypeOK, vars, graphVars, indexVars
<1>2. CASE Commit
  BY <1>2 DEF IInv, Holding, TypeOK, Commit, graphVars, indexVars
<1>3. ASSUME NEW t \in Threads, NEW o \in Ops, Ask(t, o) PROVE Holding'
  BY <1>3 DEF IInv, Holding, TypeOK, Ask, Goto, graphVars, indexVars
<1>4. ASSUME NEW t \in Threads, Observe(t) PROVE Holding'
  BY <1>4 DEF IInv, Holding, TypeOK, Observe, Goto, ReadsVersion, graphVars, indexVars
<1>5. ASSUME NEW t \in Threads, Check(t) PROVE Holding'
  BY <1>5 DEF IInv, Holding, TypeOK, Check, Goto, graphVars, indexVars
<1>6. ASSUME NEW t \in Threads, ReadVersion(t) PROVE Holding'
  BY <1>6 DEF IInv, Holding, TypeOK, ReadVersion, Goto, ReadsVersion, graphVars, indexVars
<1>7. ASSUME NEW t \in Threads, Hit(t) PROVE Holding'
  <2>1. PICK l \in {"version", "label", "ensure", "failed"}, u \in SUBSET Int :
          /\ pc' = [pc EXCEPT ![t] = l] /\ used' = [used EXCEPT ![t] = u]
          /\ u \subseteq used[t] \cup {cache} /\ (l # "version" => u # {})
          /\ round' \in [Threads -> 0 .. 2] /\ first' \in [Threads -> Versions]
    BY <1>7, TookFacts DEF Hit, IInv, TypeOK
  <2> QED BY <1>7, <2>1 DEF IInv, Holding, TypeOK, Hit, graphVars, indexVars
<1>8. ASSUME NEW t \in Threads, Miss(t) PROVE Holding'
  BY <1>8 DEF IInv, Behind, Holding, TypeOK, Miss, Goto, ReadsVersion, indexVars
<1>9. ASSUME NEW t \in Threads, Install(t) PROVE Holding'
  <2>1. PICK l \in {"version", "label", "ensure", "failed"}, u \in SUBSET Int :
          /\ pc' = [pc EXCEPT ![t] = l] /\ used' = [used EXCEPT ![t] = u]
          /\ u \subseteq used[t] \cup {seen[t]} /\ (l # "version" => u # {})
          /\ round' \in [Threads -> 0 .. 2] /\ first' \in [Threads -> Versions]
    BY <1>9, TookFacts DEF Install, IInv, TypeOK
  <2> QED BY <1>9, <2>1 DEF IInv, Holding, Locks, TypeOK, Install, indexVars
<1>10. ASSUME NEW t \in Threads, Label(t) PROVE Holding'
  BY <1>10 DEF IInv, Holding, TypeOK, Label, Goto, graphVars, indexVars
<1>11. ASSUME NEW t \in Threads, Ensure(t) PROVE Holding'
  BY <1>11 DEF IInv, Holding, TypeOK, Ensure, Goto, ReadsVersion, graphVars, indexVars
<1>12. ASSUME NEW t \in Threads, Compare(t) PROVE Holding'
  BY <1>12 DEF IInv, Holding, TypeOK, Compare, Goto, graphVars, indexVars
<1>13. ASSUME NEW t \in Threads, Rebuild(t) PROVE Holding'
  BY <1>13 DEF IInv, Behind, Holding, TypeOK, Rebuild, Goto, ReadsVersion, graphVars
<1>14. ASSUME NEW t \in Threads, List(t) PROVE Holding'
  BY <1>14 DEF IInv, Holding, Reading, TypeOK, List, Goto, graphVars
<1>15. ASSUME NEW t \in Threads, Recheck(t) PROVE Holding'
  BY <1>15 DEF IInv, Holding, TypeOK, Recheck, Goto, graphVars
<1>16. ASSUME NEW t \in Threads, Source(t) PROVE Holding'
  BY <1>16 DEF IInv, Behind, Holding, TypeOK, Source, Goto, ReadsVersion, graphVars, indexVars
<1>17. ASSUME NEW t \in Threads, Swap(t) PROVE Holding'
  BY <1>17 DEF IInv, Holding, Locks, TypeOK, Swap, Goto, graphVars
<1>18. ASSUME NEW t \in Threads, Use(t) PROVE Holding'
  BY <1>18 DEF IInv, Holding, TypeOK, Use, Goto, graphVars, indexVars
<1>19. ASSUME NEW t \in Threads, Take(t) PROVE Holding'
  BY <1>19 DEF IInv, Holding, TypeOK, Take, Goto, graphVars, indexVars
<1> QED BY <1>1, <1>2, <1>3, <1>4, <1>5, <1>6, <1>7, <1>8, <1>9, <1>10, <1>11, <1>12, <1>13, <1>14, <1>15, <1>16, <1>17, <1>18, <1>19 DEF Next, Work

\* A thread that completes its answer from a cache finds it fresh enough.
LEMMA ServingStep == IInv /\ [Next]_vars => Serving'
<1> SUFFICES ASSUME IInv, [Next]_vars PROVE Serving'
  OBVIOUS
<1> USE DEF Versions, NotLoaded
<1>1. CASE UNCHANGED vars
  BY <1>1 DEF IInv, Serving, TypeOK, vars, graphVars, indexVars
<1>2. CASE Commit
  BY <1>2 DEF IInv, Serving, TypeOK, Commit, graphVars, indexVars
<1>3. ASSUME NEW t \in Threads, NEW o \in Ops, Ask(t, o) PROVE Serving'
  BY <1>3 DEF IInv, Serving, TypeOK, Ask, Goto, graphVars, indexVars
<1>4. ASSUME NEW t \in Threads, Observe(t) PROVE Serving'
  BY <1>4 DEF IInv, Serving, TypeOK, Observe, Goto, graphVars, indexVars
<1>5. ASSUME NEW t \in Threads, Check(t) PROVE Serving'
  BY <1>5 DEF IInv, Serving, TypeOK, Check, Goto, graphVars, indexVars
<1>6. ASSUME NEW t \in Threads, ReadVersion(t) PROVE Serving'
  BY <1>6 DEF IInv, Serving, TypeOK, ReadVersion, Goto, graphVars, indexVars
<1>7. ASSUME NEW t \in Threads, Hit(t) PROVE Serving'
  <2>1. PICK l \in {"version", "label", "ensure", "failed"}, u \in SUBSET Int :
          /\ pc' = [pc EXCEPT ![t] = l] /\ used' = [used EXCEPT ![t] = u]
          /\ u \subseteq used[t] \cup {cache} /\ (l # "version" => u # {})
          /\ round' \in [Threads -> 0 .. 2] /\ first' \in [Threads -> Versions]
    BY <1>7, TookFacts DEF Hit, IInv, TypeOK
  <2> QED BY <1>7, <2>1 DEF IInv, Reading, Serving, TypeOK, Hit, graphVars, indexVars
<1>8. ASSUME NEW t \in Threads, Miss(t) PROVE Serving'
  BY <1>8 DEF IInv, Serving, TypeOK, Miss, Goto, indexVars
<1>9. ASSUME NEW t \in Threads, Install(t) PROVE Serving'
  <2>1. PICK l \in {"version", "label", "ensure", "failed"}, u \in SUBSET Int :
          /\ pc' = [pc EXCEPT ![t] = l] /\ used' = [used EXCEPT ![t] = u]
          /\ u \subseteq used[t] \cup {seen[t]} /\ (l # "version" => u # {})
          /\ round' \in [Threads -> 0 .. 2] /\ first' \in [Threads -> Versions]
    BY <1>9, TookFacts DEF Install, IInv, TypeOK
  <2> QED BY <1>9, <2>1 DEF IInv, Holding, Reading, Serving, TypeOK, Install, indexVars
<1>10. ASSUME NEW t \in Threads, Label(t) PROVE Serving'
  BY <1>10 DEF IInv, Serving, TypeOK, Label, Goto, graphVars, indexVars
<1>11. ASSUME NEW t \in Threads, Ensure(t) PROVE Serving'
  BY <1>11 DEF IInv, Serving, TypeOK, Ensure, Goto, graphVars, indexVars
<1>12. ASSUME NEW t \in Threads, Compare(t) PROVE Serving'
  BY <1>12 DEF IInv, Reading, Serving, TypeOK, Compare, Goto, graphVars, indexVars
<1>13. ASSUME NEW t \in Threads, Rebuild(t) PROVE Serving'
  BY <1>13 DEF IInv, Serving, TypeOK, Rebuild, Goto, graphVars
<1>14. ASSUME NEW t \in Threads, List(t) PROVE Serving'
  BY <1>14 DEF IInv, Serving, TypeOK, List, Goto, graphVars
<1>15. ASSUME NEW t \in Threads, Recheck(t) PROVE Serving'
  BY <1>15 DEF IInv, Serving, TypeOK, Recheck, Goto, graphVars
<1>16. ASSUME NEW t \in Threads, Source(t) PROVE Serving'
  BY <1>16 DEF IInv, Serving, TypeOK, Source, Goto, graphVars, indexVars
<1>17. ASSUME NEW t \in Threads, Swap(t) PROVE Serving'
  BY <1>17 DEF IInv, Holding, Reading, Serving, TypeOK, Swap, Goto, graphVars
<1>18. ASSUME NEW t \in Threads, Use(t) PROVE Serving'
  BY <1>18 DEF IInv, Serving, TypeOK, Use, Goto, graphVars, indexVars
<1>19. ASSUME NEW t \in Threads, Take(t) PROVE Serving'
  BY <1>19 DEF IInv, Serving, TypeOK, Take, Goto, graphVars, indexVars
<1> QED BY <1>1, <1>2, <1>3, <1>4, <1>5, <1>6, <1>7, <1>8, <1>9, <1>10, <1>11, <1>12, <1>13, <1>14, <1>15, <1>16, <1>17, <1>18, <1>19 DEF Next, Work

\* Only versions between the request and now go into an answer.
LEMMA AnsweringStep == IInv /\ [Next]_vars => Answering'
<1> SUFFICES ASSUME IInv, [Next]_vars PROVE Answering'
  OBVIOUS
<1> USE DEF Versions, NotLoaded
<1>1. CASE UNCHANGED vars
  BY <1>1 DEF IInv, Answering, TypeOK, vars
<1>2. CASE Commit
  BY <1>2 DEF IInv, Answering, TypeOK, Commit
<1>3. ASSUME NEW t \in Threads, NEW o \in Ops, Ask(t, o) PROVE Answering'
  BY <1>3 DEF IInv, Answering, TypeOK, Ask, Goto, Supplied
<1>4. ASSUME NEW t \in Threads, Observe(t) PROVE Answering'
  BY <1>4 DEF IInv, Answering, TypeOK, Observe, Goto, Supplied
<1>5. ASSUME NEW t \in Threads, Check(t) PROVE Answering'
  BY <1>5 DEF IInv, Answering, TypeOK, Check, Goto, Supplied
<1>6. ASSUME NEW t \in Threads, ReadVersion(t) PROVE Answering'
  BY <1>6 DEF IInv, Answering, TypeOK, ReadVersion, Goto, Supplied
<1>7. ASSUME NEW t \in Threads, Hit(t) PROVE Answering'
  <2>1. PICK l \in {"version", "label", "ensure", "failed"}, u \in SUBSET Int :
          /\ pc' = [pc EXCEPT ![t] = l] /\ used' = [used EXCEPT ![t] = u]
          /\ u \subseteq used[t] \cup {cache} /\ (l # "version" => u # {})
          /\ round' \in [Threads -> 0 .. 2] /\ first' \in [Threads -> Versions]
    BY <1>7, TookFacts DEF Hit, IInv, TypeOK
  <2>2. from[t] <= cache /\ cache <= version /\ cache \in Int /\ version \in Int /\ from[t] \in Int
    BY <1>7 DEF IInv, TypeOK, Reading, Hit
  <2>3. u \subseteq from[t] .. version
    BY <2>1, <2>2 DEF IInv, Answering
  <2>4. from' = from /\ version' = version
    BY <1>7 DEF Hit
  <2>5. pc \in [Threads -> Labels] /\ used \in [Threads -> SUBSET Int]
    BY DEF IInv, TypeOK
  <2> QED BY <2>1, <2>3, <2>4, <2>5 DEF IInv, Answering, Supplied
<1>8. ASSUME NEW t \in Threads, Miss(t) PROVE Answering'
  BY <1>8 DEF IInv, Answering, TypeOK, Miss, Goto, Supplied
<1>9. ASSUME NEW t \in Threads, Install(t) PROVE Answering'
  <2>1. PICK l \in {"version", "label", "ensure", "failed"}, u \in SUBSET Int :
          /\ pc' = [pc EXCEPT ![t] = l] /\ used' = [used EXCEPT ![t] = u]
          /\ u \subseteq used[t] \cup {seen[t]} /\ (l # "version" => u # {})
          /\ round' \in [Threads -> 0 .. 2] /\ first' \in [Threads -> Versions]
    BY <1>9, TookFacts DEF Install, IInv, TypeOK
  <2>2. from[t] <= seen[t] /\ seen[t] <= version /\ seen[t] \in Int /\ version \in Int /\ from[t] \in Int
    BY <1>9 DEF IInv, TypeOK, Reading, Install
  <2>3. u \subseteq from[t] .. version
    BY <2>1, <2>2 DEF IInv, Answering
  <2>4. from' = from /\ version' = version
    BY <1>9 DEF Install
  <2>5. pc \in [Threads -> Labels] /\ used \in [Threads -> SUBSET Int]
    BY DEF IInv, TypeOK
  <2> QED BY <2>1, <2>3, <2>4, <2>5 DEF IInv, Answering, Supplied
<1>10. ASSUME NEW t \in Threads, Label(t) PROVE Answering'
  BY <1>10 DEF IInv, Answering, Behind, Serving, TypeOK, Label, Goto
<1>11. ASSUME NEW t \in Threads, Ensure(t) PROVE Answering'
  BY <1>11 DEF IInv, Answering, TypeOK, Ensure, Goto, Supplied
<1>12. ASSUME NEW t \in Threads, Compare(t) PROVE Answering'
  BY <1>12 DEF IInv, Answering, TypeOK, Compare, Goto, Supplied
<1>13. ASSUME NEW t \in Threads, Rebuild(t) PROVE Answering'
  BY <1>13 DEF IInv, Answering, TypeOK, Rebuild, Goto, Supplied
<1>14. ASSUME NEW t \in Threads, List(t) PROVE Answering'
  BY <1>14 DEF IInv, Answering, TypeOK, List, Goto, Supplied
<1>15. ASSUME NEW t \in Threads, Recheck(t) PROVE Answering'
  BY <1>15 DEF IInv, Answering, TypeOK, Recheck, Goto, Supplied
<1>16. ASSUME NEW t \in Threads, Source(t) PROVE Answering'
  BY <1>16 DEF IInv, Answering, TypeOK, Source, Goto, Supplied
<1>17. ASSUME NEW t \in Threads, Swap(t) PROVE Answering'
  BY <1>17 DEF IInv, Answering, TypeOK, Swap, Goto, Supplied
<1>18. ASSUME NEW t \in Threads, Use(t) PROVE Answering'
  BY <1>18 DEF IInv, Answering, Behind, Serving, TypeOK, Use, Goto
<1>19. ASSUME NEW t \in Threads, Take(t) PROVE Answering'
  BY <1>19 DEF IInv, Answering, TypeOK, Take, Goto, Supplied
<1> QED BY <1>1, <1>2, <1>3, <1>4, <1>5, <1>6, <1>7, <1>8, <1>9, <1>10, <1>11, <1>12, <1>13, <1>14, <1>15, <1>16, <1>17, <1>18, <1>19 DEF Next, Work

-----------------------------------------------------------------------------
(* The theorems.                                                           *)

\* The inductive invariant holds of every behaviour of the read side.
THEOREM Invariance == Spec => []IInv
<1>1. Init => IInv
  BY ReadAssumption
  DEF Init, IInv, TypeOK, Behind, Locks, Reading, Holding, Serving, Answering, Labels,
      Supplied, Versions, NotLoaded, Ops
<1>2. IInv /\ [Next]_vars => IInv'
  BY TypeOKStep, BehindStep, LocksStep, ReadingStep, HoldingStep, ServingStep, AnsweringStep
  DEF IInv
<1> QED BY <1>1, <1>2, PTL DEF Spec

\* The search index is never labelled with a version whose nodes it lacks, however
\* many commits fall into a rebuild (search.py: _rebuild_snapshot).
THEOREM IndexNeverAhead == Spec => []IndexNotAhead
<1>1. IInv => IndexNotAhead
  BY DEF IInv, Behind, IndexNotAhead
<1> QED BY <1>1, Invariance, PTL

\* No thread ever replaces the cached graph or the index by an older one.
THEOREM CachesNeverGoBack == Spec => CachesMoveForward
<1>1. IInv /\ [Next]_vars => [cache <= cache' /\ label <= label']_vars
  <2> SUFFICES ASSUME IInv, [Next]_vars
               PROVE  cache <= cache' /\ label <= label'
    OBVIOUS
  <2>1. cache \in Int /\ label \in Int
    BY DEF IInv, TypeOK, Versions
  <2>2. CASE cache' = cache /\ label' = label
    BY <2>1, <2>2
  <2>3. ASSUME NEW t \in Threads, Install(t) PROVE cache <= cache' /\ label <= label'
    BY <2>1, <2>3 DEF Install, indexVars, IInv, Holding
  <2>4. ASSUME NEW t \in Threads, Swap(t) PROVE cache <= cache' /\ label <= label'
    BY <2>1, <2>4 DEF Swap, graphVars, IInv, Holding
  <2> QED
    BY <2>2, <2>3, <2>4
    DEF Next, Work, vars, graphVars, indexVars, Commit, Ask, Observe, Check, ReadVersion,
        Hit, Miss, Label, Ensure, Compare, Rebuild, List, Recheck, Source, Use, Take
<1> QED BY <1>1, Invariance, PTL DEF Spec, CachesMoveForward

-----------------------------------------------------------------------------
(* The read side implements FreshReads.                                    *)

\* What a thread does to its request changes nothing the client sees until it
\* completes the answer.
LEMMA WorkIsAnswerOrNothing ==
  ASSUME IInv, IInv', NEW t \in Threads, NEW l \in Labels \ {"idle"},
         pc' = [pc EXCEPT ![t] = l], pc[t] \notin {"idle", "done", "failed"},
         \A s \in Threads \ {t} : used'[s] = used[s],
         UNCHANGED <<version, from>>
  PROVE  Fresh!Answer(t) \/ UNCHANGED Fresh!vars
<1>1. pc \in [Threads -> Labels] /\ used' \in [Threads -> SUBSET Int] /\ from[t] \in Nat
  BY DEF IInv, TypeOK, Versions
<1>2. Asked' = Asked
  BY <1>1 DEF Asked
<1>3. \A s \in Threads \ {t} : AnswerOf'[s] = AnswerOf[s]
  BY <1>1 DEF AnswerOf, Answered
<1>4. AnswerOf[t] = {}
  BY DEF AnswerOf, Answered
<1>5. CASE l \notin {"done", "failed"}
  <2>1. AnswerOf'[t] = {}
    BY <1>1, <1>5 DEF AnswerOf, Answered
  <2>2. AnswerOf' = AnswerOf
    BY <1>3, <1>4, <2>1 DEF AnswerOf
  <2> QED BY <1>2, <2>2 DEF Fresh!vars
<1>6. CASE l \in {"done", "failed"}
  <2>1. AnswerOf'[t] = used'[t]
    BY <1>1, <1>6 DEF AnswerOf, Answered
  <2>2. AnswerOf' = [AnswerOf EXCEPT ![t] = used'[t]]
    BY <1>3, <2>1 DEF AnswerOf
  <2>3. used'[t] \in (SUBSET (Asked[t] .. version)) \ {{}}
    <3>1. Answering'
      BY DEF IInv
    <3>2. pc'[t] = l /\ from'[t] = from[t]
      BY <1>1
    <3>3. used'[t] \subseteq from[t] .. version /\ used'[t] # {}
      BY <1>6, <3>1, <3>2 DEF Answering, Supplied
    <3>4. Asked[t] = from[t]
      BY DEF Asked
    <3>5. used'[t] \in SUBSET (from[t] .. version) /\ used'[t] \notin {{}}
      BY <3>3
    <3> QED BY <3>4, <3>5
  <2>4. Asked[t] # Nothing
    BY <1>1, ReadAssumption DEF Asked
  <2> QED BY <1>2, <1>4, <2>2, <2>3, <2>4 DEF Fresh!Answer
<1> QED BY <1>5, <1>6

\* Every step of a thread that has a request is such a step.
LEMMA WorkMaps ==
  ASSUME IInv, IInv', NEW t \in Threads, Work(t)
  PROVE  Fresh!Answer(t) \/ UNCHANGED Fresh!vars
<1>1. PICK l \in Labels \ {"idle"} :
        /\ pc' = [pc EXCEPT ![t] = l]
        /\ pc[t] \notin {"idle", "done", "failed"}
        /\ \A s \in Threads \ {t} : used'[s] = used[s]
        /\ UNCHANGED <<version, from>>
  <2>0. used \in [Threads -> SUBSET Int] /\ op \in [Threads -> Ops] /\ first \in [Threads -> Versions]
    BY DEF IInv, TypeOK
  <2>1. CASE Hit(t)
    <3>1. Took(t, cache) /\ cache \in Versions /\ pc[t] = "lookup" /\ UNCHANGED <<version, from>>
      BY <2>1 DEF Hit, IInv, TypeOK, NotLoaded, indexVars
    <3> QED BY <2>0, <3>1, TookFacts DEF IInv, Labels
  <2>2. CASE Install(t)
    <3>1. Took(t, seen[t]) /\ seen[t] \in Versions /\ pc[t] = "install" /\ UNCHANGED <<version, from>>
      BY <2>2 DEF Install, IInv, TypeOK, indexVars
    <3> QED BY <2>0, <3>1, TookFacts DEF IInv, Labels
  <2>3. CASE Observe(t)
    BY <2>0, <2>3 DEF Observe, Goto, Labels, graphVars, indexVars
  <2>4. CASE Check(t)
    BY <2>0, <2>4 DEF Check, Goto, Labels, graphVars, indexVars
  <2>5. CASE ReadVersion(t)
    BY <2>0, <2>5 DEF ReadVersion, Goto, Labels, graphVars, indexVars
  <2>6. CASE Miss(t)
    BY <2>0, <2>6 DEF Miss, Goto, Labels, graphVars, indexVars
  <2>7. CASE Label(t)
    BY <2>0, <2>7 DEF Label, Goto, Labels, graphVars, indexVars
  <2>8. CASE Ensure(t)
    BY <2>0, <2>8 DEF Ensure, Goto, Labels, graphVars, indexVars
  <2>9. CASE Compare(t)
    BY <2>0, <2>9 DEF Compare, Goto, Labels, graphVars, indexVars
  <2>10. CASE Rebuild(t)
    BY <2>0, <2>10 DEF Rebuild, Goto, Labels, graphVars, indexVars
  <2>11. CASE List(t)
    BY <2>0, <2>11 DEF List, Goto, Labels, graphVars, indexVars
  <2>12. CASE Recheck(t)
    BY <2>0, <2>12 DEF Recheck, Goto, Labels, graphVars, indexVars
  <2>13. CASE Source(t)
    BY <2>0, <2>13 DEF Source, Goto, Labels, graphVars, indexVars
  <2>14. CASE Swap(t)
    BY <2>0, <2>14 DEF Swap, Goto, Labels, graphVars, indexVars
  <2>15. CASE Use(t)
    BY <2>0, <2>15 DEF Use, Goto, Labels, graphVars, indexVars
  <2> QED BY <2>1, <2>2, <2>3, <2>4, <2>5, <2>6, <2>7, <2>8, <2>9, <2>10, <2>11, <2>12, <2>13, <2>14, <2>15 DEF Work
<1> QED BY <1>1, WorkIsAnswerOrNothing

\* A request that comes in is asked at the version of that moment.
LEMMA AskMaps ==
  ASSUME IInv, NEW t \in Threads, NEW o \in Ops, Ask(t, o)
  PROVE  Fresh!Ask(t)
<1>1. pc \in [Threads -> Labels] /\ from \in [Threads -> Versions]
  BY DEF IInv, TypeOK
<1>2. PICK l \in {"version", "observe"} : pc' = [pc EXCEPT ![t] = l]
  BY DEF Ask, Goto
<1>3. pc[t] = "idle" /\ from' = [from EXCEPT ![t] = version] /\ UNCHANGED <<version, used>>
  BY DEF Ask
<1>4. Asked[t] = Nothing
  BY <1>3 DEF Asked
<1>5. Asked' = [Asked EXCEPT ![t] = version]
  BY <1>1, <1>2, <1>3 DEF Asked
<1>6. AnswerOf' = AnswerOf
  BY <1>1, <1>2, <1>3 DEF AnswerOf, Answered
<1> QED BY <1>3, <1>4, <1>5, <1>6 DEF Fresh!Ask

\* The client takes an answer that there is.
LEMMA TakeMaps ==
  ASSUME IInv, NEW t \in Threads, Take(t)
  PROVE  Fresh!Take(t)
<1>1. pc \in [Threads -> Labels] /\ from \in [Threads -> Versions]
  BY DEF IInv, TypeOK
<1>2. used \in [Threads -> SUBSET Int]
  BY DEF IInv, TypeOK
<1>3. /\ pc[t] \in {"done", "failed"} /\ pc' = [pc EXCEPT ![t] = "idle"]
      /\ from' = [from EXCEPT ![t] = 0] /\ used' = [used EXCEPT ![t] = {}]
      /\ UNCHANGED version
  BY DEF Take, Goto
<1>4. AnswerOf[t] # {}
  BY <1>3 DEF AnswerOf, Answered, IInv, Answering, Supplied
<1>5. Asked' = [Asked EXCEPT ![t] = Nothing]
  BY <1>1, <1>3 DEF Asked
<1>6. AnswerOf' = [AnswerOf EXCEPT ![t] = {}]
  BY <1>1, <1>2, <1>3 DEF AnswerOf, Answered
<1> QED BY <1>3, <1>4, <1>5, <1>6 DEF Fresh!Take

\* Whatever the caches hold, every answer is made of versions the store had while
\* the request was in progress (graph.py, search.py, service.py).
THEOREM AnswersAreFresh == Spec => ImplementsFreshReads
<1>1. Init => Fresh!Init
  BY DEF Init, Fresh!Init, Asked, AnswerOf, Answered
<1>2. IInv /\ IInv' /\ [Next]_vars => [Fresh!Next]_Fresh!vars
  <2> SUFFICES ASSUME IInv, IInv', [Next]_vars
               PROVE  Fresh!Next \/ UNCHANGED Fresh!vars
    OBVIOUS
  <2>1. CASE UNCHANGED vars
    BY <2>1 DEF vars, Fresh!vars, Asked, AnswerOf, Answered
  <2>2. CASE Commit
    <3>1. version' = version + 1 /\ Asked' = Asked /\ AnswerOf' = AnswerOf
      BY <2>2 DEF Commit, Asked, AnswerOf, Answered
    <3> QED BY <3>1 DEF Fresh!Next, Fresh!Commit
  <2>3. ASSUME NEW t \in Threads, NEW o \in Ops, Ask(t, o) PROVE Fresh!Next
    BY <2>3, AskMaps DEF Fresh!Next
  <2>4. ASSUME NEW t \in Threads, Work(t) PROVE Fresh!Next \/ UNCHANGED Fresh!vars
    BY <2>4, WorkMaps DEF Fresh!Next
  <2>5. ASSUME NEW t \in Threads, Take(t) PROVE Fresh!Next
    BY <2>5, TakeMaps DEF Fresh!Next
  <2> QED BY <2>1, <2>2, <2>3, <2>4, <2>5 DEF Next
<1> QED BY <1>1, <1>2, Invariance, PTL DEF Spec, ImplementsFreshReads

-----------------------------------------------------------------------------
(* A request that fails had a reason.                                      *)

\* Only expand takes a second snapshot, and never one older than the first.
SecondSnapshot ==
  \A t \in Threads :
    round[t] = 2 /\ pc[t] \in {"version", "lookup", "install"} =>
      op[t] = "expand" /\ from[t] <= first[t] /\ first[t] <= cache

Explained(t) ==
  \E v, w \in from[t] .. version :
    /\ v <= w
    /\ \/ NotFound(op[t], v)
       \/ op[t] = "expand" /\ v < w /\ ~(Reach[v] \subseteq NodesAt[w])

\* A snapshot that makes a request fail explains why.
LEMMA FailureHasAReason ==
  ASSUME IInv, SecondSnapshot, NEW t \in Threads, NEW v \in Versions,
         pc[t] \in {"lookup", "install"}, from[t] <= v, v <= version, cache <= v,
         Took(t, v), pc'[t] = "failed"
  PROVE  Explained(t)
<1>1. /\ pc \in [Threads -> Labels] /\ op[t] \in Ops /\ round[t] \in 0 .. 2
      /\ from[t] \in Int /\ first[t] \in Versions /\ version \in Int /\ cache \in Int
  BY DEF IInv, TypeOK, Versions
<1>2. CASE round[t] = 0
  BY <1>1, <1>2 DEF Took, Goto
<1>3. CASE round[t] = 1
  <2>1. AfterFirst(op[t], v) = "failed"
    BY <1>1, <1>3 DEF Took, Goto
  <2>2. NotFound(op[t], v)
    BY <1>1, <2>1 DEF AfterFirst, Onward, Ops
  <2>3. v \in from[t] .. version /\ v <= v
    BY <1>1 DEF Versions
  <2> QED BY <2>2, <2>3 DEF Explained
<1>4. CASE round[t] = 2
  <2>1. AfterSecond(first[t], v) = "failed"
    BY <1>1, <1>4 DEF Took, Goto
  <2>2. ~(Reach[first[t]] \subseteq NodesAt[v])
    BY <2>1 DEF AfterSecond
  <2>3. op[t] = "expand" /\ from[t] <= first[t] /\ first[t] <= cache
    BY <1>4 DEF SecondSnapshot
  <2>4. first[t] \in from[t] .. version /\ v \in from[t] .. version /\ first[t] <= v
    BY <1>1, <2>3 DEF Versions
  <2>5. first[t] # v
    BY <1>1, <2>2, ReadAssumption DEF Versions
  <2>6. first[t] < v
    BY <1>1, <2>4, <2>5 DEF Versions
  <2> QED BY <2>2, <2>3, <2>4, <2>6 DEF Explained
<1> QED BY <1>1, <1>2, <1>3, <1>4

\* Its first snapshot is the one a thread goes on with.
LEMMA FirstSnapshotKept ==
  ASSUME IInv, NEW t \in Threads, NEW v \in Versions, pc[t] \in {"lookup", "install"},
         from[t] <= v, Took(t, v), round'[t] = 2, pc'[t] \in {"version", "lookup", "install"}
  PROVE  op[t] = "expand" /\ from[t] <= first'[t] /\ first'[t] = v
<1>1. /\ pc \in [Threads -> Labels] /\ op[t] \in Ops
      /\ round \in [Threads -> 0 .. 2] /\ first \in [Threads -> Versions]
  BY DEF IInv, TypeOK
<1>2. CASE round[t] = 0
  BY <1>1, <1>2 DEF Took
<1>3. CASE round[t] = 1
  <2>1. AfterFirst(op[t], v) \in {"version", "lookup", "install"} /\ first'[t] = v
    BY <1>1, <1>3 DEF Took, Goto
  <2>2. op[t] = "expand"
    BY <1>1, <2>1 DEF AfterFirst, Onward, Ops
  <2> QED BY <2>1, <2>2
<1>4. CASE round[t] = 2
  BY <1>1, <1>4 DEF Took, Goto, AfterSecond
<1> QED BY <1>1, <1>2, <1>3, <1>4

\* The step of another thread leaves the reason of a failure alone.
LEMMA ReasonKept ==
  ASSUME IInv, IInv', NEW t \in Threads, Explained(t),
         from'[t] = from[t], op'[t] = op[t], version <= version'
  PROVE  Explained(t)'
<1>1. version \in Int /\ version' \in Int /\ from[t] \in Int
  BY DEF IInv, TypeOK, Versions
<1>2. from[t] .. version \subseteq from'[t] .. version'
  BY <1>1
<1> QED BY <1>2 DEF Explained, NotFound

\* Both parts are kept when a thread takes a snapshot ...
LEMMA TookKeeps ==
  ASSUME IInv, IInv', SecondSnapshot, FailuresExplained, NEW t \in Threads,
         NEW v \in Versions, pc[t] \in {"lookup", "install"}, from[t] <= v, v <= version,
         cache <= v, cache' = v, Took(t, v), UNCHANGED <<version, op, from>>
  PROVE  SecondSnapshot' /\ FailuresExplained'
<1>1. \A s \in Threads \ {t} : pc'[s] = pc[s] /\ round'[s] = round[s] /\ first'[s] = first[s]
  BY DEF Took, Goto, IInv, TypeOK
<1>2. SecondSnapshot'
  <2> SUFFICES ASSUME NEW s \in Threads, round'[s] = 2,
                      pc'[s] \in {"version", "lookup", "install"}
               PROVE  op[s] = "expand" /\ from[s] <= first'[s] /\ first'[s] <= v
    BY DEF SecondSnapshot
  <2>1. CASE s = t
    BY <2>1, FirstSnapshotKept DEF Versions
  <2>2. CASE s # t
    BY <1>1, <2>2 DEF SecondSnapshot, IInv, TypeOK, Versions
  <2> QED BY <2>1, <2>2
<1>3. FailuresExplained'
  <2> SUFFICES ASSUME NEW s \in Threads, pc'[s] = "failed" PROVE Explained(s)'
    BY DEF FailuresExplained, Explained
  <2>1. Explained(s)
    <3>1. CASE s = t
      BY <3>1, FailureHasAReason
    <3>2. CASE s # t
      BY <1>1, <3>2 DEF FailuresExplained, Explained
    <3> QED BY <3>1, <3>2
  <2>2. version <= version'
    BY DEF IInv, TypeOK, Versions
  <2> QED BY <2>1, <2>2, ReasonKept
<1> QED BY <1>2, <1>3

\* ... and by every other step.
LEMMA OthersKeep ==
  ASSUME IInv, IInv', SecondSnapshot, FailuresExplained,
         \A s \in Threads : pc'[s] = "failed" => pc[s] = "failed",
         \A s \in Threads : pc'[s] = "failed" => from'[s] = from[s] /\ op'[s] = op[s],
         version <= version', cache <= cache',
         \A s \in Threads : round'[s] = 2 /\ pc'[s] \in {"version", "lookup", "install"} =>
           /\ round[s] = 2 /\ pc[s] \in {"version", "lookup", "install"}
           /\ op'[s] = op[s] /\ from'[s] = from[s] /\ first'[s] = first[s]
  PROVE  SecondSnapshot' /\ FailuresExplained'
<1>1. SecondSnapshot'
  BY DEF SecondSnapshot, IInv, TypeOK, Versions
<1>2. FailuresExplained'
  <2> SUFFICES ASSUME NEW s \in Threads, pc'[s] = "failed" PROVE Explained(s)'
    BY DEF FailuresExplained, Explained
  <2>1. Explained(s)
    BY DEF FailuresExplained, Explained
  <2> QED BY <2>1, ReasonKept
<1> QED BY <1>1, <1>2

\* A request fails only for a graph the store had while it was in progress
\* (graph.py: neighborhood_ids, path, expand).
THEOREM FailuresAreExplained == Spec => []FailuresExplained
<1>1. Init => SecondSnapshot /\ FailuresExplained
  BY DEF Init, SecondSnapshot, FailuresExplained
<1>2. IInv /\ IInv' /\ SecondSnapshot /\ FailuresExplained /\ [Next]_vars
        => SecondSnapshot' /\ FailuresExplained'
  <2> SUFFICES ASSUME IInv, IInv', SecondSnapshot, FailuresExplained, [Next]_vars
               PROVE  SecondSnapshot' /\ FailuresExplained'
    OBVIOUS
  <2>0. /\ version \in Int /\ cache \in Int /\ pc \in [Threads -> Labels]
        /\ round \in [Threads -> 0 .. 2] /\ first \in [Threads -> Versions]
        /\ op \in [Threads -> Ops] /\ from \in [Threads -> Versions]
    BY DEF IInv, TypeOK, Versions
  <2>1. CASE UNCHANGED vars
    BY <2>0, <2>1, OthersKeep DEF vars, graphVars
  <2>2. CASE Commit
    BY <2>0, <2>2, OthersKeep DEF Commit, graphVars
  <2>3. ASSUME NEW t \in Threads, NEW o \in Ops, Ask(t, o)
        PROVE  SecondSnapshot' /\ FailuresExplained'
    BY <2>0, <2>3, OthersKeep DEF Ask, Goto, graphVars
  <2>4. ASSUME NEW t \in Threads, Observe(t) PROVE SecondSnapshot' /\ FailuresExplained'
    BY <2>0, <2>4, OthersKeep DEF Observe, Goto, graphVars
  <2>5. ASSUME NEW t \in Threads, Check(t) PROVE SecondSnapshot' /\ FailuresExplained'
    BY <2>0, <2>5, OthersKeep DEF Check, Goto, graphVars
  <2>6. ASSUME NEW t \in Threads, ReadVersion(t) PROVE SecondSnapshot' /\ FailuresExplained'
    BY <2>0, <2>6, OthersKeep DEF ReadVersion, Goto, graphVars
  <2>7. ASSUME NEW t \in Threads, Hit(t) PROVE SecondSnapshot' /\ FailuresExplained'
    <3>1. /\ cache \in Versions /\ pc[t] \in {"lookup", "install"} /\ Took(t, cache)
          /\ from[t] <= cache /\ cache <= version /\ cache <= cache /\ cache' = cache
          /\ UNCHANGED <<version, op, from>>
      BY <2>7 DEF Hit, IInv, TypeOK, Behind, Reading, Holding, Versions, NotLoaded, graphVars, indexVars
    <3> QED BY <3>1, TookKeeps
  <2>8. ASSUME NEW t \in Threads, Miss(t) PROVE SecondSnapshot' /\ FailuresExplained'
    BY <2>0, <2>8, OthersKeep DEF Miss, Goto
  <2>9. ASSUME NEW t \in Threads, Install(t) PROVE SecondSnapshot' /\ FailuresExplained'
    <3>1. /\ seen[t] \in Versions /\ pc[t] \in {"lookup", "install"} /\ Took(t, seen[t])
          /\ from[t] <= seen[t] /\ seen[t] <= version /\ cache <= seen[t] /\ cache' = seen[t]
          /\ UNCHANGED <<version, op, from>>
      BY <2>9 DEF Install, IInv, TypeOK, Behind, Reading, Holding, Versions, NotLoaded, graphVars, indexVars
    <3> QED BY <3>1, TookKeeps
  <2>10. ASSUME NEW t \in Threads, Label(t) PROVE SecondSnapshot' /\ FailuresExplained'
    BY <2>0, <2>10, OthersKeep DEF Label, Goto, graphVars
  <2>11. ASSUME NEW t \in Threads, Ensure(t) PROVE SecondSnapshot' /\ FailuresExplained'
    BY <2>0, <2>11, OthersKeep DEF Ensure, Goto, graphVars
  <2>12. ASSUME NEW t \in Threads, Compare(t) PROVE SecondSnapshot' /\ FailuresExplained'
    BY <2>0, <2>12, OthersKeep DEF Compare, Goto, graphVars
  <2>13. ASSUME NEW t \in Threads, Rebuild(t) PROVE SecondSnapshot' /\ FailuresExplained'
    BY <2>0, <2>13, OthersKeep DEF Rebuild, Goto, graphVars
  <2>14. ASSUME NEW t \in Threads, List(t) PROVE SecondSnapshot' /\ FailuresExplained'
    BY <2>0, <2>14, OthersKeep DEF List, Goto, graphVars
  <2>15. ASSUME NEW t \in Threads, Recheck(t) PROVE SecondSnapshot' /\ FailuresExplained'
    BY <2>0, <2>15, OthersKeep DEF Recheck, Goto, graphVars
  <2>16. ASSUME NEW t \in Threads, Source(t) PROVE SecondSnapshot' /\ FailuresExplained'
    BY <2>0, <2>16, OthersKeep DEF Source, Goto, graphVars
  <2>17. ASSUME NEW t \in Threads, Swap(t) PROVE SecondSnapshot' /\ FailuresExplained'
    BY <2>0, <2>17, OthersKeep DEF Swap, Goto, graphVars
  <2>18. ASSUME NEW t \in Threads, Use(t) PROVE SecondSnapshot' /\ FailuresExplained'
    BY <2>0, <2>18, OthersKeep DEF Use, Goto, graphVars
  <2>19. ASSUME NEW t \in Threads, Take(t) PROVE SecondSnapshot' /\ FailuresExplained'
    BY <2>0, <2>19, OthersKeep DEF Take, Goto, graphVars
  <2> QED BY <2>1, <2>2, <2>3, <2>4, <2>5, <2>6, <2>7, <2>8, <2>9, <2>10, <2>11, <2>12, <2>13, <2>14, <2>15, <2>16, <2>17, <2>18, <2>19 DEF Next, Work
<1> QED BY <1>1, <1>2, Invariance, PTL DEF Spec
===============================================================================

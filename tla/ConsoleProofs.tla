----------------------------- MODULE ConsoleProofs -----------------------------
(***************************************************************************)
(* Proofs about the web console, for graphs of any size and any number of  *)
(* gestures, commits and faults.                                           *)
(*                                                                         *)
(* First, what the operators of ConsoleGraph compute: lists of picked      *)
(* elements, filters, balls around a node, the breadth-first search, the   *)
(* ways it finds, and the scene budget.  They are recursive functions over *)
(* the naturals, so that a lemma about one is an induction over the set of *)
(* numbers for which it holds.  Then what Exploration builds on them: the  *)
(* neighborhood, paths and the scene at any time, and the trail, which is  *)
(* the one result that depends on the order of steps.  Last, the stream of *)
(* LiveUpdates: while the badge says Live, no commit can get lost.         *)
(***************************************************************************)
EXTENDS Exploration, LiveUpdates, FiniteSetTheorems, SequenceTheorems, WellFoundedInduction, TLAPS


\* A set of naturals has a least element, and so a set that has 0 and with every
\* number the next has all.
LEMMA LeastNatural ==
  ASSUME NEW T, T \subseteq Nat, T # {}
  PROVE  \E k \in T : \A m \in T : ~(m < k)
<1>1. IsWellFoundedOn(OpToRel(<, Nat), Nat)
  BY NatLessThanWellFounded, Zenon
<1>2. PICK k \in T : \A m \in T : <<m, k>> \notin OpToRel(<, Nat)
  BY <1>1, WFMin, Zenon
<1> QED BY <1>2 DEF OpToRel

\* A set with 0 and with the successor of each of its numbers has all of them.
LEMMA Induction ==
  ASSUME NEW S, 0 \in S, \A n \in Nat : n \in S => n + 1 \in S
  PROVE  Nat \subseteq S
<1> SUFFICES ASSUME Nat \ S # {} PROVE FALSE
  OBVIOUS
<1>1. PICK k \in Nat \ S : \A m \in Nat \ S : ~(m < k)
  BY LeastNatural
<1>2. k - 1 \in Nat /\ k - 1 < k /\ (k - 1) + 1 = k
  BY <1>1
<1> QED BY <1>1, <1>2

\* The same up to a bound.
LEMMA InductionUpTo ==
  ASSUME NEW N \in Nat, NEW S, 0 \in S, \A n \in 0 .. N - 1 : n \in S => n + 1 \in S
  PROVE  0 .. N \subseteq S
<1> DEFINE T == {n \in Nat : n \in S \/ n > N}
<1>1. 0 \in T
  OBVIOUS
<1>2. \A n \in Nat : n \in T => n + 1 \in T
  OBVIOUS
<1> HIDE DEF T
<1>3. Nat \subseteq T
  BY <1>1, <1>2, Induction
<1>4. ASSUME NEW n \in 0 .. N PROVE n \in S
  BY <1>3 DEF T
<1> QED BY <1>4

\* A sequence is a function on the numbers from 1 to its length.
LEMMA SeqParts ==
  ASSUME NEW s, IsSeq(s)
  PROVE  /\ Len(s) \in Nat /\ DOMAIN s = 1 .. Len(s)
         /\ s = [i \in 1 .. Len(s) |-> s[i]]
         /\ ToSet(s) = {s[i] : i \in 1 .. Len(s)}
  BY DEF IsSeq, ToSet

\* A sequence over any set is one over its own elements.
LEMMA SeqIsSeq ==
  ASSUME NEW T, NEW s \in Seq(T)
  PROVE  IsSeq(s) /\ ToSet(s) \subseteq T
<1>1. /\ Len(s) \in Nat /\ DOMAIN s = 1 .. Len(s) /\ s = [i \in 1 .. Len(s) |-> s[i]]
      /\ \A i \in 1 .. Len(s) : s[i] \in T
  OBVIOUS
<1>2. ToSet(s) = {s[i] : i \in 1 .. Len(s)}
  BY <1>1 DEF ToSet
<1>3. s \in [1 .. Len(s) -> ToSet(s)]
  BY <1>1, <1>2
<1>4. s \in Seq(ToSet(s))
  BY <1>1, <1>3, SeqDef
<1> QED BY <1>1, <1>2, <1>4 DEF IsSeq

-----------------------------------------------------------------------------
(* The elements that are picked from a sequence.                           *)

IsKept(p, s, indices, N) ==
  p = [n \in 0 .. N |->
         IF n = 0 THEN << >>
         ELSE IF n \in indices THEN Append(p[n - 1], s[n]) ELSE p[n - 1]]

\* The recursive function by which elements are picked exists, by induction over its bound.
LEMMA KeptExists ==
  ASSUME NEW s, NEW indices, NEW N \in Nat
  PROVE  \E p : IsKept(p, s, indices, N)
<1> DEFINE Step(p, n) == IF n \in indices THEN Append(p, s[n]) ELSE p
           S == {k \in Nat : \E p : IsKept(p, s, indices, k)}
<1>1. 0 \in S
  <2>1. IsKept([n \in 0 .. 0 |-> << >>], s, indices, 0)
    BY DEF IsKept
  <2> QED BY <2>1
<1>2. ASSUME NEW k \in Nat, k \in S PROVE k + 1 \in S
  <2>1. PICK p : IsKept(p, s, indices, k)
    BY <1>2
  <2> DEFINE q == [n \in 0 .. k + 1 |-> IF n = k + 1 THEN Step(p[k], k + 1) ELSE p[n]]
  <2>2. \A n \in 0 .. k : p[n] = IF n = 0 THEN << >> ELSE Step(p[n - 1], n)
    BY <2>1 DEF IsKept
  <2>3. ASSUME NEW n \in 0 .. k + 1
        PROVE  q[n] = IF n = 0 THEN << >> ELSE Step(q[n - 1], n)
    <3>1. n # 0 => q[n - 1] = p[n - 1]
      OBVIOUS
    <3>2. n = k + 1 => n # 0 /\ q[n] = Step(p[n - 1], n)
      OBVIOUS
    <3>3. n # k + 1 => n \in 0 .. k /\ q[n] = p[n]
      OBVIOUS
    <3> HIDE DEF q, Step
    <3> QED BY <2>2, <3>1, <3>2, <3>3
  <2>4. q = [n \in 0 .. k + 1 |-> q[n]]
    OBVIOUS
  <2> HIDE DEF q
  <2>5. IsKept(q, s, indices, k + 1)
    BY <2>3, <2>4 DEF IsKept
  <2> QED BY <2>5
<1> HIDE DEF S
<1>3. Nat \subseteq S
  BY <1>1, <1>2, Induction
<1> QED BY <1>3 DEF S

\* r is what was picked from s at the indices of J.
IsPart(r, s, J) ==
  /\ r \in Seq(ToSet(s))
  /\ \A x : (\E k \in DOMAIN r : r[k] = x) <=> (\E i \in J : s[i] = x)
  /\ Len(r) = Cardinality(J)
  /\ (\A i, j \in J : s[i] = s[j] => i = j) => (\A i, j \in DOMAIN r : r[i] = r[j] => i = j)
  /\ J = {} => r = << >>

IsPicked(r, s, indices) ==
  /\ IsPart(r, s, indices \cap (1 .. Len(s)))
  /\ 1 .. Len(s) \subseteq indices => r = [i \in 1 .. Len(s) |-> s[i]]

\* What the recursive function has picked after every prefix, by induction over the prefix.
LEMMA KeptSound ==
  ASSUME NEW s, IsSeq(s), NEW I, NEW p, IsKept(p, s, I, Len(s))
  PROVE  IsPicked(p[Len(s)], s, I)
<1> DEFINE Found(m) == \A x : (\E k \in DOMAIN p[m] : p[m][k] = x) <=> (\E i \in I \cap (1 .. m) : s[i] = x)
           Apart(m) == (\A i, j \in I \cap (1 .. m) : s[i] = s[j] => i = j) =>
                         (\A i, j \in DOMAIN p[m] : p[m][i] = p[m][j] => i = j)
           Counted(m) == Len(p[m]) = Cardinality(I \cap (1 .. m))
           Whole(m) == 1 .. m \subseteq I => p[m] = [i \in 1 .. m |-> s[i]]
           NonePicked(m) == I \cap (1 .. m) = {} => p[m] = << >>
           Good(m) == /\ p[m] \in Seq(ToSet(s)) /\ Found(m) /\ Apart(m) /\ Counted(m)
                      /\ Whole(m) /\ NonePicked(m)
           S == {m \in 0 .. Len(s) : Good(m)}
<1>0. /\ Len(s) \in Nat /\ DOMAIN s = 1 .. Len(s)
      /\ \A m \in 0 .. Len(s) : p[m] = IF m = 0 THEN << >>
           ELSE IF m \in I THEN Append(p[m - 1], s[m]) ELSE p[m - 1]
  BY SeqParts DEF IsKept
<1>1. 0 \in S
  <2>1. p[0] = << >> /\ I \cap (1 .. 0) = {} /\ 0 \in 0 .. Len(s) /\ << >> \in Seq(ToSet(s)) /\ 1 .. 0 = {}
    BY <1>0
  <2>2. Cardinality({}) = 0
    BY FS_EmptySet
  <2>3. << >> = [i \in {} |-> s[i]] /\ DOMAIN << >> = {} /\ Len(<< >>) = 0
    OBVIOUS
  <2>4. Found(0)
    BY <2>1, <2>3
  <2>5. Apart(0)
    BY <2>1, <2>3
  <2>6. Counted(0)
    BY <2>1, <2>2, <2>3
  <2>7. Whole(0) /\ NonePicked(0)
    BY <2>1, <2>3
  <2> QED BY <2>1, <2>4, <2>5, <2>6, <2>7
<1>2. ASSUME NEW m \in 0 .. Len(s) - 1, m \in S PROVE m + 1 \in S
  <2> DEFINE J == I \cap (1 .. m)
             K == I \cap (1 .. m + 1)
  <2>0. /\ m \in Nat /\ m + 1 \in 0 .. Len(s) /\ m + 1 \in 1 .. Len(s) /\ s[m + 1] \in ToSet(s)
        /\ p[m + 1] = IF m + 1 \in I THEN Append(p[m], s[m + 1]) ELSE p[m]
        /\ Good(m) /\ m + 1 \notin J /\ IsFiniteSet(J)
    <3>1. m \in Nat /\ m + 1 \in 0 .. Len(s) /\ m + 1 \in 1 .. Len(s) /\ (m + 1) - 1 = m /\ m + 1 # 0
      BY <1>0
    <3>2. IsFiniteSet(1 .. m) /\ J \subseteq 1 .. m /\ m + 1 \notin J
      BY <3>1, FS_Interval
    <3>3. s[m + 1] \in ToSet(s)
      BY <1>0, <3>1, SeqParts
    <3>4. p[m + 1] = IF m + 1 \in I THEN Append(p[m], s[m + 1]) ELSE p[m]
      BY <1>0, <3>1
    <3>5. Good(m)
      BY <1>2
    <3> HIDE DEF Good, J
    <3> QED BY <3>1, <3>2, <3>3, <3>4, <3>5, FS_Subset
  <2>1. CASE m + 1 \in I
    <3>1. K = J \cup {m + 1}
      BY <2>0, <2>1
    <3>2. Cardinality(K) = Cardinality(J) + 1
      <4> HIDE DEF J, K
      <4> QED BY <2>0, <3>1, FS_AddElement
    <3>3. /\ p[m + 1] = Append(p[m], s[m + 1]) /\ p[m + 1] \in Seq(ToSet(s))
          /\ Len(p[m + 1]) = Len(p[m]) + 1 /\ Len(p[m]) \in Nat
          /\ DOMAIN p[m + 1] = DOMAIN p[m] \cup {Len(p[m]) + 1} /\ DOMAIN p[m] = 1 .. Len(p[m])
          /\ \A k \in DOMAIN p[m] : p[m + 1][k] = p[m][k]
          /\ p[m + 1][Len(p[m]) + 1] = s[m + 1]
      <4>1. p[m] \in Seq(ToSet(s)) /\ s[m + 1] \in ToSet(s) /\ p[m + 1] = Append(p[m], s[m + 1])
        BY <2>0, <2>1
      <4> QED BY ONLY <4>1, AppendProperties
    <3>4. Found(m + 1)
      <4> HIDE DEF J, K
      <4>1. ASSUME NEW x, NEW k \in DOMAIN p[m + 1], p[m + 1][k] = x
            PROVE  \E i \in K : s[i] = x
        <5>1. CASE k \in DOMAIN p[m]
          <6>1. p[m][k] = x
            BY <3>3, <4>1, <5>1
          <6>2. \E i \in J : s[i] = x
            BY <2>0, <5>1, <6>1 DEF J
          <6> QED BY <3>1, <6>2
        <5>2. CASE k = Len(p[m]) + 1
          BY <3>1, <3>3, <4>1, <5>2
        <5> QED BY <3>3, <5>1, <5>2
      <4>2. ASSUME NEW x, NEW i \in K, s[i] = x
            PROVE  \E k \in DOMAIN p[m + 1] : p[m + 1][k] = x
        <5>1. CASE i \in J
          <6>1. \E k \in DOMAIN p[m] : p[m][k] = x
            BY <2>0, <4>2, <5>1 DEF J
          <6> QED BY <3>3, <6>1
        <5>2. CASE i = m + 1
          BY <3>3, <4>2, <5>2
        <5> QED BY <3>1, <5>1, <5>2
      <4> QED BY <4>1, <4>2 DEF K
    <3>5. Apart(m + 1)
      <4> SUFFICES ASSUME \A i, j \in K : s[i] = s[j] => i = j,
                          NEW i \in DOMAIN p[m + 1], NEW j \in DOMAIN p[m + 1], p[m + 1][i] = p[m + 1][j]
                   PROVE  i = j
        BY DEF K
      <4> HIDE DEF J, K
      <4>1. \A k \in DOMAIN p[m] : p[m][k] # s[m + 1]
        <5> SUFFICES ASSUME NEW k \in DOMAIN p[m], p[m][k] = s[m + 1] PROVE FALSE
          OBVIOUS
        <5>1. PICK a \in J : s[a] = s[m + 1]
          BY <2>0 DEF J
        <5> QED BY <2>0, <3>1, <5>1
      <4>2. \A a, b \in DOMAIN p[m] : p[m][a] = p[m][b] => a = b
        <5>1. \A a, b \in J : s[a] = s[b] => a = b
          BY <3>1
        <5> QED BY <2>0, <5>1 DEF J
      <4> QED BY <3>3, <4>1, <4>2
    <3>6. Counted(m + 1)
      BY <2>0, <3>2, <3>3
    <3>7. NonePicked(m + 1)
      BY <2>0, <2>1, <3>1
    <3>8. Whole(m + 1)
      <4> SUFFICES ASSUME 1 .. m + 1 \subseteq I PROVE p[m + 1] = [i \in 1 .. m + 1 |-> s[i]]
        OBVIOUS
      <4>1. p[m] = [i \in 1 .. m |-> s[i]]
        BY <2>0
      <4>2. Len(p[m]) = m
        BY <2>0, <4>1
      <4>3. p[m + 1] = [i \in 1 .. m + 1 |-> p[m + 1][i]]
        BY <2>0, <3>3, <4>2
      <4>4. \A i \in 1 .. m : p[m + 1][i] = s[i]
        BY <2>0, <3>3, <4>1, <4>2
      <4>5. \A i \in 1 .. m + 1 : p[m + 1][i] = s[i]
        BY <2>0, <3>3, <4>2, <4>4
      <4> QED BY <4>3, <4>5
    <3> HIDE DEF Found, Apart, Counted, Whole, NonePicked
    <3> QED BY <2>0, <3>3, <3>4, <3>5, <3>6, <3>7, <3>8
  <2>2. CASE m + 1 \notin I
    <3>1. K = J /\ p[m + 1] = p[m] /\ ~(1 .. m + 1 \subseteq I)
      BY <2>0, <2>2
    <3>2. Found(m + 1) /\ Apart(m + 1) /\ Counted(m + 1) /\ Whole(m + 1) /\ NonePicked(m + 1) /\ p[m + 1] \in Seq(ToSet(s))
      BY <2>0, <3>1
    <3> QED BY <2>0, <3>2
  <2> QED BY <2>1, <2>2
<1> HIDE DEF S
<1>3. 0 .. Len(s) \subseteq S
  BY <1>0, <1>1, <1>2, InductionUpTo
<1>4. Good(Len(s))
  <2>1. Len(s) \in S
    BY <1>0, <1>3
  <2> QED BY <2>1 DEF S
<1> QED BY <1>4 DEF IsPart, IsPicked

\* Picked is one such function's last value.
LEMMA PickedPart ==
  ASSUME NEW s, IsSeq(s), NEW I
  PROVE  IsPicked(Picked(s, I), s, I)
<1> DEFINE p == CHOOSE q : IsKept(q, s, I, Len(s))
<1>1. Len(s) \in Nat /\ Len(s) \in 0 .. Len(s)
  BY SeqParts
<1>2. \E q : IsKept(q, s, I, Len(s))
  BY <1>1, KeptExists
<1>3. IsKept(p, s, I, Len(s))
  BY <1>2
<1>4. Picked(s, I) = p[Len(s)]
  BY DEF Picked, IsKept
<1> HIDE DEF p
<1>5. IsPicked(p[Len(s)], s, I)
  BY <1>3, KeptSound
<1> QED BY <1>4, <1>5

IsSublist(r, s, indices) ==
  /\ IsSeq(r) /\ r \in Seq(ToSet(s))
  /\ ToSet(r) = {s[i] : i \in indices \cap DOMAIN s}
  /\ Len(r) = Cardinality(indices \cap DOMAIN s)
  /\ (\A i, j \in indices \cap DOMAIN s : s[i] = s[j] => i = j) =>
       (\A i, j \in DOMAIN r : r[i] = r[j] => i = j)
  /\ indices \cap DOMAIN s = {} => r = << >>
  /\ DOMAIN s \subseteq indices => r = s

\* Picked returns as many elements as there are indices, those at the indices, and s itself for all
\* (filter of graph.ts).
LEMMA PickedSound ==
  ASSUME NEW s, IsSeq(s), NEW I
  PROVE  IsSublist(Picked(s, I), s, I)
<1> DEFINE r == Picked(s, I)
           J == I \cap DOMAIN s
<1>1. /\ Len(s) \in Nat /\ DOMAIN s = 1 .. Len(s) /\ s = [i \in 1 .. Len(s) |-> s[i]]
  BY SeqParts
<1>2. IsPart(r, s, J)
  BY <1>1, PickedPart DEF IsPicked
<1>3. 1 .. Len(s) \subseteq I => r = [i \in 1 .. Len(s) |-> s[i]]
  BY PickedPart DEF IsPicked
<1> HIDE DEF r, J
<1>4. ToSet(r) = {s[i] : i \in J}
  <2>1. ToSet(r) = {r[k] : k \in DOMAIN r}
    BY DEF ToSet
  <2>2. ASSUME NEW x PROVE x \in ToSet(r) <=> x \in {s[i] : i \in J}
    <3>1. (\E k \in DOMAIN r : r[k] = x) <=> (\E i \in J : s[i] = x)
      BY <1>2 DEF IsPart
    <3> QED BY <2>1, <3>1
  <2> QED BY <2>2
<1>5. IsSeq(r)
  BY <1>2, SeqIsSeq DEF IsPart
<1>7. /\ r \in Seq(ToSet(s)) /\ Len(r) = Cardinality(J)
      /\ (J = {} => r = << >>)
      /\ (\A i, j \in J : s[i] = s[j] => i = j) => (\A i, j \in DOMAIN r : r[i] = r[j] => i = j)
  BY <1>2 DEF IsPart
<1>8. DOMAIN s \subseteq I => r = s
  BY <1>1, <1>3
<1> QED BY ONLY <1>4, <1>5, <1>7, <1>8 DEF r, J, IsSublist

\* The graph with no nodes.
LEMMA EmptyGraph == IsClosed(NoGraph) /\ Ids(NoGraph) = {} /\ EdgesOf(NoGraph) = {}
<1>1. ToSet(<< >>) = {} /\ IsSeq(<< >>)
  BY DEF ToSet, IsSeq
<1> QED BY <1>1 DEF IsClosed, IsGraph, Ids, EdgesOf, NoGraph

\* A list of some of the nodes and some of the edges is a graph.
LEMMA PickedGraph ==
  ASSUME NEW g, IsGraph(g), NEW I, NEW J, NEW h,
         {"nodes", "edges"} \subseteq DOMAIN h,
         h.nodes = Picked(g.nodes, I), h.edges = Picked(g.edges, J)
  PROVE  /\ IsGraph(h)
         /\ Ids(h) = {g.nodes[i].id : i \in I \cap DOMAIN g.nodes}
         /\ EdgesOf(h) = {g.edges[i] : i \in J \cap DOMAIN g.edges}
<1>0. IsSeq(g.nodes) /\ IsSeq(g.edges)
  BY DEF IsGraph
<1>9. IsSublist(Picked(g.nodes, I), g.nodes, I) /\ IsSublist(Picked(g.edges, J), g.edges, J)
  BY <1>0, PickedSound
<1>1. /\ IsSeq(h.nodes) /\ ToSet(h.nodes) = {g.nodes[i] : i \in I \cap DOMAIN g.nodes}
      /\ (\A i, j \in I \cap DOMAIN g.nodes : g.nodes[i] = g.nodes[j] => i = j) =>
           (\A i, j \in DOMAIN h.nodes : h.nodes[i] = h.nodes[j] => i = j)
  BY <1>9 DEF IsSublist
<1>2. IsSeq(h.edges) /\ ToSet(h.edges) = {g.edges[i] : i \in J \cap DOMAIN g.edges}
  BY <1>9 DEF IsSublist
<1>3. ToSet(g.nodes) = {g.nodes[i] : i \in DOMAIN g.nodes}
  BY DEF ToSet
<1>4. ToSet(g.edges) = {g.edges[i] : i \in DOMAIN g.edges}
  BY DEF ToSet
<1>5. ToSet(h.nodes) \subseteq ToSet(g.nodes) /\ ToSet(h.edges) \subseteq ToSet(g.edges)
  BY <1>1, <1>2, <1>3, <1>4
<1>6. Ids(h) = {g.nodes[i].id : i \in I \cap DOMAIN g.nodes}
  BY <1>1 DEF Ids
<1>7. ASSUME NEW i \in DOMAIN h.nodes, NEW j \in DOMAIN h.nodes, h.nodes[i].id = h.nodes[j].id
      PROVE  i = j
  <2>1. ToSet(h.nodes) = {h.nodes[k] : k \in DOMAIN h.nodes}
    BY DEF ToSet
  <2>2. PICK a \in I \cap DOMAIN g.nodes : h.nodes[i] = g.nodes[a]
    BY <1>1, <2>1
  <2>3. PICK b \in I \cap DOMAIN g.nodes : h.nodes[j] = g.nodes[b]
    BY <1>1, <2>1
  <2>4. a = b
    BY <1>7, <2>2, <2>3 DEF IsGraph
  <2>5. \A c, d \in I \cap DOMAIN g.nodes : g.nodes[c] = g.nodes[d] => c = d
    BY DEF IsGraph
  <2> QED BY <1>1, <2>2, <2>3, <2>4, <2>5
<1> QED BY <1>1, <1>2, <1>5, <1>6, <1>7 DEF IsGraph, EdgesOf

\* Among leaves the nodes with these ids and the edges between them.
LEMMA AmongGraph ==
  ASSUME NEW g, IsGraph(g), NEW ids
  PROVE  /\ IsGraph(Among(g, ids)) /\ Ids(Among(g, ids)) = Ids(g) \cap ids
         /\ EdgesOf(Among(g, ids)) = {e \in EdgesOf(g) : Joins(e, ids)}
         /\ ids \subseteq Ids(g) => IsClosed(Among(g, ids))
<1> DEFINE h == Among(g, ids)
           I == {i \in DOMAIN g.nodes : g.nodes[i].id \in ids}
           J == {i \in DOMAIN g.edges : Joins(g.edges[i], ids)}
<1>1. /\ {"nodes", "edges"} \subseteq DOMAIN h
      /\ h.nodes = Picked(g.nodes, I) /\ h.edges = Picked(g.edges, J)
  BY DEF Among
<1>2. /\ IsGraph(h)
      /\ Ids(h) = {g.nodes[i].id : i \in I \cap DOMAIN g.nodes}
      /\ EdgesOf(h) = {g.edges[i] : i \in J \cap DOMAIN g.edges}
  <2> HIDE DEF h, I, J
  <2> QED BY <1>1, PickedGraph
<1>3. Ids(g) = {g.nodes[i].id : i \in DOMAIN g.nodes}
  BY DEF Ids, ToSet
<1>4. EdgesOf(g) = {g.edges[i] : i \in DOMAIN g.edges}
  BY DEF EdgesOf, ToSet
<1>5. Ids(h) = Ids(g) \cap ids
  BY <1>2, <1>3
<1>6. EdgesOf(h) = {e \in EdgesOf(g) : Joins(e, ids)}
  BY <1>2, <1>4
<1>7. ids \subseteq Ids(g) => \A e \in EdgesOf(h) : Joins(e, Ids(h))
  BY <1>5, <1>6 DEF Joins
<1> QED BY <1>2, <1>5, <1>6, <1>7 DEF IsClosed

\* A filter of edges, and then of nodes.
LEMMA TwiceFiltered ==
  ASSUME NEW h, IsGraph(h), NEW J, NEW ids, ids \subseteq Ids(h)
  PROVE  LET k == Among([h EXCEPT !.edges = Picked(@, J)], ids)
         IN IsClosed(k) /\ Ids(k) \subseteq Ids(h) /\ EdgesOf(k) \subseteq EdgesOf(h)
<1> DEFINE f == [h EXCEPT !.edges = Picked(@, J)]
           k == Among(f, ids)
<1>1. /\ {"nodes", "edges"} \subseteq DOMAIN f
      /\ f.nodes = h.nodes /\ f.edges = Picked(h.edges, J)
  BY DEF IsGraph
<1>2. h.nodes = Picked(h.nodes, DOMAIN h.nodes)
  <2>1. IsSeq(h.nodes)
    BY DEF IsGraph
  <2>2. IsSublist(Picked(h.nodes, DOMAIN h.nodes), h.nodes, DOMAIN h.nodes)
    BY <2>1, PickedSound
  <2> QED BY <2>2 DEF IsSublist
<1>3. /\ IsGraph(f)
      /\ Ids(f) = {h.nodes[i].id : i \in DOMAIN h.nodes \cap DOMAIN h.nodes}
      /\ EdgesOf(f) = {h.edges[i] : i \in J \cap DOMAIN h.edges}
  <2>1. f.nodes = Picked(h.nodes, DOMAIN h.nodes)
    BY <1>1, <1>2
  <2> HIDE DEF f
  <2> QED BY <1>1, <2>1, PickedGraph
<1>4. Ids(h) = {h.nodes[i].id : i \in DOMAIN h.nodes}
  BY DEF Ids, ToSet
<1>5. EdgesOf(h) = {h.edges[i] : i \in DOMAIN h.edges}
  BY DEF EdgesOf, ToSet
<1>6. Ids(f) = Ids(h) /\ EdgesOf(f) \subseteq EdgesOf(h)
  BY <1>3, <1>4, <1>5
<1> HIDE DEF f
<1>7. /\ Ids(k) = Ids(f) \cap ids /\ EdgesOf(k) = {e \in EdgesOf(f) : Joins(e, ids)}
      /\ ids \subseteq Ids(f) => IsClosed(k)
  BY <1>3, AmongGraph
<1> QED BY <1>6, <1>7 DEF f

\* Both filters of the page leave a graph whose edges join its own nodes (graph.ts:42-53,
\* App.tsx:179-189).
LEMMA FilteredGraph ==
  ASSUME NEW g, IsGraph(g), NEW t, NEW anchor, NEW kinds, NEW classes
  PROVE  LET f == FilterKinds(FilterAtTime(g, t), anchor, kinds, classes)
         IN IsClosed(f) /\ Ids(f) \subseteq Ids(g) /\ EdgesOf(f) \subseteq EdgesOf(g)
<1> DEFINE m == FilterAtTime(g, t)
           f == FilterKinds(m, anchor, kinds, classes)
<1>1. IsClosed(m) /\ Ids(m) \subseteq Ids(g) /\ EdgesOf(m) \subseteq EdgesOf(g)
  <2> DEFINE ids == {n.id : n \in {n \in ToSet(g.nodes) : IsValidAt(n, t)}}
             J == {i \in DOMAIN g.edges : IsValidAt(g.edges[i], t)}
  <2>1. m = Among([g EXCEPT !.edges = Picked(@, J)], ids)
    BY DEF FilterAtTime
  <2>2. ids \subseteq Ids(g)
    BY DEF Ids
  <2> HIDE DEF m, ids, J
  <2> QED BY <2>1, <2>2, TwiceFiltered
<1> HIDE DEF m
<1>2. IsClosed(f) /\ Ids(f) \subseteq Ids(m) /\ EdgesOf(f) \subseteq EdgesOf(m)
  <2> DEFINE ids == {n.id : n \in {n \in ToSet(m.nodes) : n.id = anchor \/ n.kind \notin kinds}}
             J == {i \in DOMAIN m.edges : m.edges[i].class \notin classes}
  <2>1. f = Among([m EXCEPT !.edges = Picked(@, J)], ids)
    BY DEF FilterKinds
  <2>2. ids \subseteq Ids(m)
    BY DEF Ids
  <2>3. IsGraph(m)
    BY <1>1 DEF IsClosed
  <2> HIDE DEF f, ids, J
  <2> QED BY <2>1, <2>2, <2>3, TwiceFiltered
<1> QED BY <1>1, <1>2 DEF m

\* A function on 0 .. N, value by value.
Iterates(f, V, z, N, G) ==
  f \in [0 .. N -> V] /\ f[0] = z /\ \A n \in 1 .. N : f[n] = G[n][f[n - 1]]

\* A recursive function with values in a set exists.
LEMMA Recursion ==
  ASSUME NEW V, NEW z \in V, NEW N \in Nat, NEW G,
         \A n \in 1 .. N : \A v \in V : G[n][v] \in V
  PROVE  \E f : Iterates(f, V, z, N, G)
<1> DEFINE Upto(f, k) == /\ f \in [0 .. k -> V] /\ f[0] = z
                         /\ \A n \in 1 .. k : f[n] = G[n][f[n - 1]]
           S == {k \in 0 .. N : \E f : Upto(f, k)}
<1>1. 0 \in S
  <2> DEFINE f == [n \in 0 .. 0 |-> z]
  <2>1. Upto(f, 0)
    OBVIOUS
  <2> HIDE DEF f
  <2> QED BY <2>1
<1>2. ASSUME NEW k \in 0 .. N - 1, k \in S PROVE k + 1 \in S
  <2>1. PICK f : Upto(f, k)
    BY <1>2
  <2> DEFINE q == [n \in 0 .. k + 1 |-> IF n = k + 1 THEN G[k + 1][f[k]] ELSE f[n]]
  <2>2. G[k + 1][f[k]] \in V
    BY <2>1
  <2>3. q \in [0 .. k + 1 -> V] /\ q[0] = z
    BY <2>1, <2>2
  <2>4. ASSUME NEW n \in 1 .. k + 1 PROVE q[n] = G[n][q[n - 1]]
    <3>1. CASE n = k + 1
      <4>1. n - 1 = k /\ k \in 0 .. k + 1 /\ k # k + 1
        BY <3>1
      <4>2. q[n] = G[k + 1][f[k]] /\ q[n - 1] = f[k]
        BY <3>1, <4>1
      <4> HIDE DEF q
      <4> QED BY <3>1, <4>1, <4>2
    <3>2. CASE n # k + 1
      <4>1. n \in 1 .. k /\ n - 1 \in 0 .. k + 1 /\ n - 1 # k + 1 /\ n \in 0 .. k + 1
        BY <3>2
      <4>2. q[n] = f[n] /\ q[n - 1] = f[n - 1]
        BY <3>2, <4>1
      <4> HIDE DEF q
      <4> QED BY <2>1, <4>1, <4>2
    <3> QED BY <3>1, <3>2
  <2> HIDE DEF q
  <2> QED BY <2>3, <2>4
<1> HIDE DEF S
<1>3. 0 .. N \subseteq S
  BY <1>1, <1>2, InductionUpTo
<1> QED BY <1>3 DEF S, Iterates

-----------------------------------------------------------------------------
(* Balls.                                                                  *)

\* The nodes next to a set of nodes.
Around(g, ids) == {x \in Ids(g) : \E y \in ids : Adjacent(g, x, y)}

\* In a closed graph the ends of the edges at some nodes are the nodes next to them.
LEMMA NeighborsAround ==
  ASSUME NEW g, IsClosed(g), NEW ids, ids \subseteq Ids(g)
  PROVE  Neighbors(g, ids) = Around(g, ids)
<1>1. NoNode \notin Ids(g)
  BY DEF IsClosed, IsGraph, Ids
<1>2. ASSUME NEW e \in EdgesOf(g), NEW y \in ids, Neighbor(e, y) # NoNode
      PROVE  Neighbor(e, y) \in Ids(g) /\ {e.source, e.target} = {Neighbor(e, y), y}
  BY <1>2 DEF Neighbor, IsClosed, Joins
<1>3. ASSUME NEW e \in EdgesOf(g), NEW y \in ids, NEW x, {e.source, e.target} = {x, y}
      PROVE  Neighbor(e, y) = x
  BY <1>3 DEF Neighbor
<1>4. Neighbors(g, ids) \subseteq Around(g, ids)
  <2> SUFFICES ASSUME NEW x \in Neighbors(g, ids) PROVE x \in Around(g, ids)
    OBVIOUS
  <2>1. PICK y \in ids, e \in EdgesOf(g) : x = Neighbor(e, y) /\ x # NoNode
    BY DEF Neighbors
  <2> QED BY <1>2, <2>1 DEF Around, Adjacent
<1>5. Around(g, ids) \subseteq Neighbors(g, ids)
  <2> SUFFICES ASSUME NEW x \in Around(g, ids) PROVE x \in Neighbors(g, ids)
    OBVIOUS
  <2>1. PICK y \in ids, e \in EdgesOf(g) : {e.source, e.target} = {x, y}
    BY DEF Around, Adjacent
  <2>2. Neighbor(e, y) = x /\ x # NoNode
    BY <1>1, <1>3, <2>1 DEF Around
  <2> QED BY <2>2 DEF Neighbors
<1> QED BY <1>4, <1>5

Ball(g, anchor, d) == Reached(g, anchor, d)[d]

\* Level by level, boundedSubgraph reaches what is next to what it has reached.
LEMMA ReachedLevels ==
  ASSUME NEW g, IsClosed(g), NEW anchor \in Ids(g), NEW radius \in Nat
  PROVE  LET r == Reached(g, anchor, radius) IN
         /\ r[0] = {anchor}
         /\ \A d \in 0 .. radius : r[d] \subseteq Ids(g)
         /\ \A d \in 0 .. radius - 1 : r[d + 1] = r[d] \cup Around(g, r[d])
<1> DEFINE Level(r) == [d \in 0 .. radius |->
             IF d = 0 THEN {anchor}
             ELSE r[d - 1] \cup Neighbors(g, r[d - 1])]
           G == [n \in 1 .. radius |-> [v \in SUBSET Ids(g) |-> v \cup Around(g, v)]]
           q == CHOOSE r : r = Level(r)
<1>1. \A n \in 1 .. radius : \A v \in SUBSET Ids(g) : G[n][v] = v \cup Around(g, v)
  OBVIOUS
<1>2. \A v \in SUBSET Ids(g) : v \cup Around(g, v) \in SUBSET Ids(g)
  BY DEF Around
<1>3. \E f : Iterates(f, SUBSET Ids(g), {anchor}, radius, G)
  <2>1. {anchor} \in SUBSET Ids(g)
    OBVIOUS
  <2> HIDE DEF G
  <2>2. \A n \in 1 .. radius : \A v \in SUBSET Ids(g) : G[n][v] \in SUBSET Ids(g)
    BY <1>1, <1>2
  <2> QED BY <2>1, <2>2, Recursion
<1> HIDE DEF G
<1>4. PICK f \in [0 .. radius -> SUBSET Ids(g)] :
        f[0] = {anchor} /\ \A n \in 1 .. radius : f[n] = G[n][f[n - 1]]
  BY <1>3 DEF Iterates
<1>5. ASSUME NEW d \in 0 .. radius PROVE f[d] = Level(f)[d]
  <2>1. CASE d = 0
    BY <1>4, <2>1
  <2>2. CASE d # 0
    <3>1. d \in 1 .. radius /\ d - 1 \in 0 .. radius
      BY <2>2
    <3>2. f[d] = f[d - 1] \cup Around(g, f[d - 1])
      BY <1>1, <1>4, <3>1
    <3>3. f[d - 1] \subseteq Ids(g)
      BY <1>4, <3>1
    <3>4. Neighbors(g, f[d - 1]) = Around(g, f[d - 1])
      BY <3>3, NeighborsAround
    <3> QED BY <2>2, <3>2, <3>4
  <2> QED BY <2>1, <2>2
<1>6. f = Level(f)
  BY <1>4, <1>5
<1>7. q = Level(q)
  BY <1>6
<1>8. Reached(g, anchor, radius) = q
  BY DEF Reached
<1>9. \A d \in 0 .. radius : q[d] = IF d = 0 THEN {anchor}
             ELSE q[d - 1] \cup Neighbors(g, q[d - 1])
  BY <1>7
<1> HIDE DEF q
<1>10. q[0] = {anchor}
  <2>1. 0 \in 0 .. radius
    OBVIOUS
  <2> QED BY <1>9, <2>1, Zenon
<1> DEFINE S == {d \in 0 .. radius : q[d] \subseteq Ids(g)}
<1>11. ASSUME NEW d \in 0 .. radius - 1, q[d] \subseteq Ids(g)
       PROVE  q[d + 1] = q[d] \cup Around(g, q[d])
  <2>1. d + 1 \in 0 .. radius /\ d + 1 # 0 /\ (d + 1) - 1 = d
    OBVIOUS
  <2>2. q[d + 1] = q[d] \cup Neighbors(g, q[d])
    BY <1>9, <2>1
  <2> QED BY <1>11, <2>2, NeighborsAround
<1>12. 0 .. radius \subseteq S
  <2>1. 0 \in S
    BY <1>10
  <2>2. \A n \in 0 .. radius - 1 : n \in S => n + 1 \in S
    <3> SUFFICES ASSUME NEW n \in 0 .. radius - 1, q[n] \subseteq Ids(g)
                 PROVE  q[n + 1] \subseteq Ids(g)
      OBVIOUS
    <3> QED BY <1>11 DEF Around
  <2> HIDE DEF S
  <2> QED BY <2>1, <2>2, InductionUpTo
<1> QED BY <1>8, <1>10, <1>11, <1>12

\* A level does not depend on how many levels follow.
LEMMA LevelIsBall ==
  ASSUME NEW g, IsClosed(g), NEW anchor \in Ids(g)
  PROVE  \A d, radius \in Nat : d <= radius => Reached(g, anchor, radius)[d] = Ball(g, anchor, d)
<1> DEFINE S == {d \in Nat : \A radius \in Nat : d <= radius =>
                   Reached(g, anchor, radius)[d] = Ball(g, anchor, d)}
<1>1. 0 \in S
  <2>1. \A radius \in Nat : Reached(g, anchor, radius)[0] = {anchor}
    BY ReachedLevels
  <2> QED BY <2>1 DEF Ball
<1>2. ASSUME NEW d \in Nat, d \in S PROVE d + 1 \in S
  <2>1. \A radius \in Nat : d + 1 <= radius =>
          Reached(g, anchor, radius)[d + 1] = Ball(g, anchor, d) \cup Around(g, Ball(g, anchor, d))
    <3> SUFFICES ASSUME NEW radius \in Nat, d + 1 <= radius
                 PROVE  Reached(g, anchor, radius)[d + 1]
                          = Ball(g, anchor, d) \cup Around(g, Ball(g, anchor, d))
      OBVIOUS
    <3>1. d \in 0 .. radius - 1 /\ d <= radius
      OBVIOUS
    <3>2. Reached(g, anchor, radius)[d + 1]
            = Reached(g, anchor, radius)[d] \cup Around(g, Reached(g, anchor, radius)[d])
      BY <3>1, ReachedLevels
    <3> QED BY <1>2, <3>1, <3>2
  <2>2. Ball(g, anchor, d + 1) = Ball(g, anchor, d) \cup Around(g, Ball(g, anchor, d))
    BY <2>1 DEF Ball
  <2>3. \A radius \in Nat : d + 1 <= radius => Reached(g, anchor, radius)[d + 1] = Ball(g, anchor, d + 1)
    BY <2>1, <2>2
  <2> QED BY <2>3
<1> HIDE DEF S
<1>3. Nat \subseteq S
  BY <1>1, <1>2, Induction
<1> QED BY <1>3 DEF S

\* A ball of radius d + 1 is a ball of radius d and what is next to it.
LEMMA BallSteps ==
  ASSUME NEW g, IsClosed(g), NEW anchor \in Ids(g)
  PROVE  /\ Ball(g, anchor, 0) = {anchor}
         /\ \A d \in Nat : /\ Ball(g, anchor, d) \subseteq Ids(g)
                           /\ Ball(g, anchor, d + 1) =
                                Ball(g, anchor, d) \cup Around(g, Ball(g, anchor, d))
<1>1. Ball(g, anchor, 0) = {anchor}
  BY ReachedLevels DEF Ball
<1>2. ASSUME NEW d \in Nat PROVE Ball(g, anchor, d) \subseteq Ids(g)
  <2>1. d \in 0 .. d
    OBVIOUS
  <2> QED BY <2>1, ReachedLevels DEF Ball
<1>3. ASSUME NEW d \in Nat
      PROVE  Ball(g, anchor, d + 1) = Ball(g, anchor, d) \cup Around(g, Ball(g, anchor, d))
  <2>1. d \in 0 .. (d + 1) - 1 /\ d <= d + 1 /\ d + 1 \in Nat
    OBVIOUS
  <2>2. Reached(g, anchor, d + 1)[d + 1]
          = Reached(g, anchor, d + 1)[d] \cup Around(g, Reached(g, anchor, d + 1)[d])
    BY <2>1, ReachedLevels
  <2>3. Reached(g, anchor, d + 1)[d] = Ball(g, anchor, d)
    BY <2>1, LevelIsBall
  <2> QED BY <2>2, <2>3 DEF Ball
<1> QED BY <1>1, <1>2, <1>3

\* Balls grow with their radius, and none of their nodes but the anchor is alone.
LEMMA BallGrows ==
  ASSUME NEW g, IsClosed(g), NEW anchor \in Ids(g)
  PROVE  /\ \A d, e \in Nat : d <= e => Ball(g, anchor, d) \subseteq Ball(g, anchor, e)
         /\ \A d \in Nat : Ball(g, anchor, d) \subseteq {anchor} \cup Around(g, Ball(g, anchor, d))
<1>1. ASSUME NEW d \in Nat
      PROVE  \A e \in Nat : d <= e => Ball(g, anchor, d) \subseteq Ball(g, anchor, e)
  <2> DEFINE S == {e \in Nat : d <= e => Ball(g, anchor, d) \subseteq Ball(g, anchor, e)}
  <2>1. 0 \in S
    OBVIOUS
  <2>2. ASSUME NEW e \in Nat, e \in S PROVE e + 1 \in S
    <3>1. Ball(g, anchor, e) \subseteq Ball(g, anchor, e + 1)
      BY BallSteps
    <3> QED BY <2>2, <3>1
  <2> HIDE DEF S
  <2>3. Nat \subseteq S
    BY <2>1, <2>2, Induction
  <2> QED BY <2>3 DEF S
<1> DEFINE S == {d \in Nat : Ball(g, anchor, d) \subseteq {anchor} \cup Around(g, Ball(g, anchor, d))}
<1>2. 0 \in S
  BY BallSteps
<1>3. ASSUME NEW d \in Nat, d \in S PROVE d + 1 \in S
  <2>1. Ball(g, anchor, d + 1) = Ball(g, anchor, d) \cup Around(g, Ball(g, anchor, d))
    BY BallSteps
  <2>2. Around(g, Ball(g, anchor, d)) \subseteq Around(g, Ball(g, anchor, d + 1))
    BY <2>1 DEF Around
  <2> QED BY <1>3, <2>1, <2>2
<1> HIDE DEF S
<1>4. Nat \subseteq S
  BY <1>2, <1>3, Induction
<1> QED BY <1>1, <1>4 DEF S

\* n is d steps from the anchor, and no fewer.
IsAway(g, anchor, n, d) ==
  /\ d \in Nat /\ n \in Ball(g, anchor, d)
  /\ \A e \in Nat : n \in Ball(g, anchor, e) => d <= e

\* A node has at most one distance.
LEMMA AwayUnique ==
  ASSUME NEW g, NEW anchor, NEW n, NEW d, NEW e,
         IsAway(g, anchor, n, d), IsAway(g, anchor, n, e)
  PROVE  d = e
  BY DEF IsAway

\* The nodes within the radius are the same in the graph that is cut at a larger one.
LEMMA CutBall ==
  ASSUME NEW g, IsClosed(g), NEW anchor \in Ids(g), NEW radius \in Nat
  PROVE  LET b == BoundedSubgraph(g, anchor, radius) IN
         /\ IsClosed(b) /\ Ids(b) = Ball(g, anchor, radius) /\ anchor \in Ids(b)
         /\ EdgesOf(b) \subseteq EdgesOf(g)
         /\ \A d \in 0 .. radius : Ball(b, anchor, d) = Ball(g, anchor, d)
         /\ \A n, d : IsAway(b, anchor, n, d) <=> d <= radius /\ IsAway(g, anchor, n, d)
<1> DEFINE b == BoundedSubgraph(g, anchor, radius)
           B == Ball(g, anchor, radius)
<1>1. b = Among(g, B)
  BY DEF BoundedSubgraph, Ball
<1>2. B \subseteq Ids(g) /\ IsGraph(g)
  BY BallSteps DEF IsClosed
<1>3. /\ IsClosed(b) /\ Ids(b) = Ids(g) \cap B
      /\ EdgesOf(b) = {e \in EdgesOf(g) : Joins(e, B)}
  <2> HIDE DEF b, B
  <2> QED BY <1>1, <1>2, AmongGraph
<1>4. Ids(b) = B /\ anchor \in Ids(b)
  <2>1. anchor \in Ball(g, anchor, 0) /\ 0 \in Nat /\ 0 <= radius
    BY BallSteps
  <2>2. anchor \in B
    BY <2>1, BallGrows
  <2> QED BY <1>2, <1>3, <2>2
<1> HIDE DEF b, B
<1>5. \A x, y \in B : Adjacent(b, x, y) <=> Adjacent(g, x, y)
  BY <1>3 DEF Adjacent, Joins
<1> DEFINE S == {d \in 0 .. radius : Ball(b, anchor, d) = Ball(g, anchor, d)}
<1>6. \A d \in 0 .. radius : Ball(g, anchor, d) \subseteq B
  BY BallGrows DEF B
<1>7. 0 \in S
  <2>1. Ball(b, anchor, 0) = {anchor} /\ Ball(g, anchor, 0) = {anchor}
    BY <1>3, <1>4, BallSteps
  <2> QED BY <2>1
<1>8. ASSUME NEW d \in 0 .. radius - 1, d \in S PROVE d + 1 \in S
  <2>1. /\ Ball(b, anchor, d + 1) = Ball(b, anchor, d) \cup Around(b, Ball(b, anchor, d))
        /\ Ball(g, anchor, d + 1) = Ball(g, anchor, d) \cup Around(g, Ball(g, anchor, d))
    BY <1>3, <1>4, BallSteps
  <2>2. Ball(b, anchor, d) = Ball(g, anchor, d)
    BY <1>8
  <2>3. Ball(g, anchor, d + 1) \subseteq B /\ Ball(g, anchor, d) \subseteq B
    BY <1>6
  <2>4. Around(b, Ball(g, anchor, d)) = Around(g, Ball(g, anchor, d))
    BY <1>2, <1>4, <1>5, <2>1, <2>3 DEF Around
  <2>5. Ball(b, anchor, d + 1) = Ball(g, anchor, d + 1)
    <3> HIDE DEF S
    <3> QED BY <2>1, <2>2, <2>4
  <2>6. d + 1 \in 0 .. radius
    OBVIOUS
  <2> QED BY <2>5, <2>6
<1> HIDE DEF S
<1>9. 0 .. radius \subseteq S
  BY <1>7, <1>8, InductionUpTo
<1>10. \A d \in 0 .. radius : Ball(b, anchor, d) = Ball(g, anchor, d)
  BY <1>9 DEF S
<1>11. \A d \in Nat : Ball(b, anchor, d) \subseteq B
  BY <1>3, <1>4, BallSteps
<1>12. ASSUME NEW n, NEW d PROVE IsAway(b, anchor, n, d) <=> d <= radius /\ IsAway(g, anchor, n, d)
  <2>1. ASSUME IsAway(b, anchor, n, d) PROVE d <= radius /\ IsAway(g, anchor, n, d)
    <3>1. n \in Ball(b, anchor, radius)
      BY <1>10, <1>11, <2>1 DEF IsAway, B
    <3>2. d <= radius /\ d \in 0 .. radius
      BY <2>1, <3>1 DEF IsAway
    <3>3. n \in Ball(g, anchor, d)
      BY <1>10, <2>1, <3>2 DEF IsAway
    <3>4. ASSUME NEW e \in Nat, n \in Ball(g, anchor, e) PROVE d <= e
      <4>1. CASE e <= radius
        BY <1>10, <2>1, <3>4, <4>1 DEF IsAway
      <4> QED BY <3>2, <4>1
    <3> QED BY <3>2, <3>3, <3>4 DEF IsAway
  <2>2. ASSUME d <= radius, IsAway(g, anchor, n, d) PROVE IsAway(b, anchor, n, d)
    <3>1. d \in 0 .. radius
      BY <2>2 DEF IsAway
    <3>2. n \in Ball(b, anchor, d)
      BY <1>10, <2>2, <3>1 DEF IsAway
    <3>3. ASSUME NEW e \in Nat, n \in Ball(b, anchor, e) PROVE d <= e
      <4>1. CASE e <= radius
        BY <1>10, <2>2, <3>3, <4>1 DEF IsAway
      <4> QED BY <3>1, <4>1
    <3> QED BY <3>1, <3>2, <3>3 DEF IsAway
  <2> QED BY <2>1, <2>2
<1> QED BY <1>3, <1>4, <1>10, <1>12 DEF b, B

\* A node away from the anchor has a neighbor one step nearer.
LEMMA NearerNeighbor ==
  ASSUME NEW g, IsClosed(g), NEW anchor \in Ids(g), NEW n, NEW d, IsAway(g, anchor, n, d)
  PROVE  /\ d = 0 <=> n = anchor
         /\ n # anchor => \E m \in Ids(g) : Adjacent(g, n, m) /\ IsAway(g, anchor, m, d - 1)
<1>1. Ball(g, anchor, 0) = {anchor} /\ d \in Nat /\ 0 \in Nat
  BY BallSteps DEF IsAway
<1>2. d = 0 <=> n = anchor
  BY <1>1 DEF IsAway
<1>3. ASSUME n # anchor
      PROVE  \E m \in Ids(g) : Adjacent(g, n, m) /\ IsAway(g, anchor, m, d - 1)
  <2>1. d - 1 \in Nat /\ (d - 1) + 1 = d /\ ~(d <= d - 1)
    BY <1>1, <1>2, <1>3
  <2>2. n \notin Ball(g, anchor, d - 1) /\ n \in Ball(g, anchor, d)
    BY <2>1 DEF IsAway
  <2>3. n \in Around(g, Ball(g, anchor, d - 1))
    BY <2>1, <2>2, BallSteps
  <2>4. PICK m \in Ball(g, anchor, d - 1) : Adjacent(g, n, m)
    BY <2>3 DEF Around
  <2>5. m \in Ids(g)
    BY <2>1, BallSteps
  <2>6. ASSUME NEW e \in Nat, m \in Ball(g, anchor, e) PROVE d - 1 <= e
    <3>1. n \in Ids(g)
      BY <2>3 DEF Around
    <3>2. n \in Ball(g, anchor, e + 1)
      BY <2>4, <2>6, <3>1, BallSteps DEF Around
    <3>3. d <= e + 1
      BY <3>2 DEF IsAway
    <3> QED BY <1>1, <3>3
  <2>7. IsAway(g, anchor, m, d - 1)
    BY <2>1, <2>6 DEF IsAway
  <2> QED BY <2>4, <2>5, <2>7
<1> QED BY <1>2, <1>3

-----------------------------------------------------------------------------
(* Searches.                                                               *)

\* A visit finds the neighbors that have not been seen, each once.
LEMMA DiscoveredNeighbors ==
  ASSUME NEW g, IsClosed(g), NEW id \in Ids(g), NEW seen
  PROVE  LET r == Discovered(g, id, seen) IN
         /\ r \in Seq(Ids(g)) /\ \A i, j \in DOMAIN r : r[i] = r[j] => i = j
         /\ ToSet(r) = {x \in Ids(g) : Adjacent(g, x, id) /\ x \notin seen}
<1> DEFINE f == [i \in DOMAIN g.edges |-> Neighbor(g.edges[i], id)]
           J == FirstSeen(f, seen)
           r == Discovered(g, id, seen)
<1>1. /\ DOMAIN g.edges = 1 .. Len(g.edges) /\ Len(g.edges) \in Nat
      /\ EdgesOf(g) = {g.edges[i] : i \in DOMAIN g.edges}
  BY SeqParts DEF IsClosed, IsGraph, EdgesOf, ToSet
<1>2. DOMAIN f = 1 .. Len(g.edges) /\ f \in Seq({f[i] : i \in DOMAIN f})
  BY <1>1
<1>3. IsSeq(f) /\ ToSet(f) = {f[i] : i \in DOMAIN f}
  BY <1>2 DEF IsSeq, ToSet
<1>4. \A x : x \in Neighbors(g, {id}) <=> x # NoNode /\ \E i \in DOMAIN f : f[i] = x
  <2> SUFFICES ASSUME NEW x
               PROVE  x \in Neighbors(g, {id}) <=> x # NoNode /\ \E i \in DOMAIN f : f[i] = x
    OBVIOUS
  <2>1. x \in Neighbors(g, {id}) <=> x # NoNode /\ \E e \in EdgesOf(g) : x = Neighbor(e, id)
    BY DEF Neighbors
  <2>2. DOMAIN f = DOMAIN g.edges /\ \A i \in DOMAIN f : f[i] = Neighbor(g.edges[i], id)
    OBVIOUS
  <2> HIDE DEF f
  <2>3. (\E e \in EdgesOf(g) : x = Neighbor(e, id)) <=> \E i \in DOMAIN f : f[i] = x
    BY <1>1, <2>2
  <2> QED BY <2>1, <2>3
<1>5. Neighbors(g, {id}) = {x \in Ids(g) : Adjacent(g, x, id)}
  BY NeighborsAround DEF Around
<1>6. r = Picked(f, J)
  BY DEF Discovered, New
<1> HIDE DEF f, r
<1>7. J \subseteq DOMAIN f
  BY DEF FirstSeen
<1>8. \A i, j \in J : f[i] = f[j] => i = j
  <2> SUFFICES ASSUME NEW i \in J, NEW j \in J, f[i] = f[j], i < j PROVE FALSE
    BY <1>2, <1>7
  <2>1. i \in 1 .. j - 1 /\ \A k \in 1 .. j - 1 : f[k] # f[j]
    BY <1>2, <1>7 DEF FirstSeen
  <2> QED BY <2>1
<1>9. ASSUME NEW i \in DOMAIN f, f[i] \notin seen \cup {NoNode}
      PROVE  \E j \in J : f[j] = f[i]
  <2> DEFINE T == {k \in DOMAIN f : f[k] = f[i]}
  <2>1. T \subseteq Nat /\ T # {}
    BY <1>2
  <2>2. PICK j \in T : \A k \in T : ~(k < j)
    <3> HIDE DEF T
    <3> QED BY <2>1, LeastNatural
  <2>3. \A k \in 1 .. j - 1 : f[k] # f[j]
    BY <1>2, <2>2
  <2>4. j \in J
    BY <1>9, <2>2, <2>3 DEF FirstSeen
  <2> QED BY <2>2, <2>4
<1>10. IsSublist(r, f, J)
  BY <1>3, <1>6, PickedSound
<1>11. /\ r \in Seq(ToSet(r)) /\ ToSet(r) = {f[i] : i \in J \cap DOMAIN f}
       /\ \A i, j \in DOMAIN r : r[i] = r[j] => i = j
  BY <1>7, <1>8, <1>10 DEF IsSublist, IsSeq
<1>12. \A i \in J : f[i] \notin seen \cup {NoNode}
  BY DEF FirstSeen
<1>13. ToSet(r) = {x \in Ids(g) : Adjacent(g, x, id) /\ x \notin seen}
  <2> SUFFICES ASSUME NEW x
               PROVE  x \in ToSet(r) <=> x \in Neighbors(g, {id}) /\ x \notin seen
    BY <1>5
  <2>1. x \in ToSet(r) <=> \E i \in J : f[i] = x
    BY <1>7, <1>11
  <2> HIDE DEF J
  <2>2. ASSUME NEW i \in J, f[i] = x PROVE x \in Neighbors(g, {id}) /\ x \notin seen
    BY <1>4, <1>7, <1>12, <2>2
  <2>3. ASSUME x \in Neighbors(g, {id}), x \notin seen PROVE \E j \in J : f[j] = x
    BY <1>4, <1>9, <2>3
  <2> QED BY <2>1, <2>2, <2>3
<1>14. r \in Seq(Ids(g))
  BY <1>11, <1>13
<1> QED BY <1>11, <1>13, <1>14 DEF r

States(g) == [queue : Seq(Ids(g)),
              back : UNION {[D -> Ids(g)] : D \in SUBSET Ids(g)},
              dist : UNION {[D -> Nat] : D \in SUBSET Ids(g)}]

\* Every node that has been found was found from a neighbor, one step nearer to the source.
Traced(g, source, s) ==
  LET D == DOMAIN s.back IN
  /\ s \in States(g) /\ DOMAIN s.dist = D
  /\ \A i \in DOMAIN s.queue : s.queue[i] \in D
  /\ source \in D /\ s.dist[source] = 0
  /\ \A n \in D : s.back[n] \in D /\ s.dist[n] < Cardinality(D)
  /\ \A n \in D \ {source} : s.dist[n] = s.dist[s.back[n]] + 1 /\ Adjacent(g, s.back[n], n)

\* There are no more ids than nodes.
LEMMA FiniteIds ==
  ASSUME NEW g, IsGraph(g)
  PROVE  IsFiniteSet(Ids(g)) /\ Cardinality(Ids(g)) <= Len(g.nodes) /\ Len(g.nodes) \in Nat
<1> DEFINE f == [i \in 1 .. Len(g.nodes) |-> g.nodes[i].id]
<1>1. Len(g.nodes) \in Nat /\ DOMAIN g.nodes = 1 .. Len(g.nodes)
  BY SeqParts DEF IsGraph
<1>2. Ids(g) = {g.nodes[i].id : i \in 1 .. Len(g.nodes)}
  BY <1>1 DEF Ids, ToSet
<1>3. f \in Surjection(1 .. Len(g.nodes), Ids(g))
  BY <1>2 DEF Surjection
<1>4. IsFiniteSet(1 .. Len(g.nodes)) /\ Cardinality(1 .. Len(g.nodes)) = Len(g.nodes)
  BY <1>1, FS_Interval
<1> HIDE DEF f
<1> QED BY <1>1, <1>3, <1>4, FS_Surjection

\* A visit keeps Traced.
LEMMA VisitTraces ==
  ASSUME NEW g, IsClosed(g), NEW source, NEW target, NEW s, Traced(g, source, s)
  PROVE  Traced(g, source, Visit(g, s, target))
<1>1. CASE s.queue = << >>
  BY <1>1 DEF Visit
<1>2. CASE s.queue # << >>
  <2> DEFINE D == DOMAIN s.back
             h == Head(s.queue)
             f == Discovered(g, h, D)
             t == Visited(s, f, target)
             E == D \cup ToSet(f)
  <2>1. /\ s.queue \in Seq(Ids(g)) /\ D \subseteq Ids(g) /\ h = s.queue[1] /\ h \in D
        /\ \A n \in D : s.dist[n] \in Nat /\ s.back[n] \in D
    <3>1. s \in States(g) /\ DOMAIN s.dist = D /\ \A i \in DOMAIN s.queue : s.queue[i] \in D
      BY DEF Traced
    <3>2. s.queue \in Seq(Ids(g)) /\ D \subseteq Ids(g) /\ s.dist \in [D -> Nat]
      BY <3>1 DEF States
    <3>3. 1 \in DOMAIN s.queue /\ h = s.queue[1]
      BY <1>2, <3>2
    <3> QED BY <3>1, <3>2, <3>3 DEF Traced
  <2>2. /\ f \in Seq(Ids(g)) /\ ToSet(f) = {x \in Ids(g) : Adjacent(g, x, h) /\ x \notin D}
    <3> HIDE DEF D, h
    <3> QED BY <2>1, DiscoveredNeighbors
  <2> HIDE DEF f
  <2>3. /\ t.queue = NextQueue(s.queue, f, target)
        /\ t = [queue |-> t.queue, back |-> t.back, dist |-> t.dist]
        /\ t.back = [n \in E |-> IF n \in D THEN s.back[n] ELSE h]
        /\ t.dist = [n \in E |-> IF n \in D THEN s.dist[n] ELSE s.dist[h] + 1]
    BY DEF Visited
  <2>4. Visit(g, s, target) = t
    BY <1>2 DEF Visit, f
  <2>5. \A i \in DOMAIN f : f[i] \in ToSet(f)
    BY DEF ToSet
  <2>6. /\ t.queue \in Seq(Ids(g))
        /\ \A i \in DOMAIN t.queue : t.queue[i] \in D \cup ToSet(f)
    <3> DEFINE hit == {k \in DOMAIN f : f[k] = target}
    <3>1. CASE hit = {}
      <4>1. t.queue = Tail(s.queue) \o f
        BY <2>3, <3>1 DEF NextQueue
      <4>2. Tail(s.queue) \in Seq(Ids(g)) /\ \A i \in DOMAIN Tail(s.queue) : Tail(s.queue)[i] \in D
        <5>1. \A i \in 1 .. Len(s.queue) : s.queue[i] \in D
          BY <2>1 DEF Traced
        <5> QED BY <1>2, <2>1, <5>1
      <4>3. f \in Seq(Ids(g))
        BY <2>2
      <4> QED BY <2>5, <4>1, <4>2, <4>3
    <3>2. CASE hit # {}
      <4> DEFINE m == CHOOSE k \in hit : TRUE
      <4>1. t.queue = SubSeq(f, m + 1, Len(f)) /\ m \in DOMAIN f
        BY <2>3, <3>2 DEF NextQueue
      <4> HIDE DEF m
      <4>2. m \in 1 .. Len(f) /\ Len(f) \in Nat
        BY <2>2, <4>1
      <4>3. /\ t.queue \in Seq(Ids(g)) /\ DOMAIN t.queue = 1 .. Len(f) - m
            /\ \A i \in 1 .. Len(f) - m : t.queue[i] = f[i + m]
        BY <2>2, <4>1, <4>2
      <4>4. \A i \in 1 .. Len(f) - m : i + m \in DOMAIN f
        BY <2>2, <4>2
      <4> QED BY <2>5, <4>3, <4>4
    <3> QED BY <3>1, <3>2
  <2>7. /\ E \subseteq Ids(g) /\ t.back \in [E -> Ids(g)] /\ t.dist \in [E -> Nat]
        /\ \A n \in E : t.back[n] \in D
    BY <2>1, <2>2, <2>3
  <2>8. t \in States(g) /\ DOMAIN t.back = E /\ DOMAIN t.dist = E
    <3> HIDE DEF t, E
    <3> QED BY <2>3, <2>6, <2>7 DEF States
  <2>9. source \in E /\ t.dist[source] = 0
    BY <2>3 DEF Traced
  <2>10. \A n \in E \ {source} : t.dist[n] = t.dist[t.back[n]] + 1 /\ Adjacent(g, t.back[n], n)
    <3> SUFFICES ASSUME NEW n \in E, n # source
                 PROVE  t.dist[n] = t.dist[t.back[n]] + 1 /\ Adjacent(g, t.back[n], n)
      OBVIOUS
    <3>1. CASE n \in D
      <4>1. /\ s.dist[n] = s.dist[s.back[n]] + 1 /\ Adjacent(g, s.back[n], n)
            /\ s.back[n] \in D
        BY <3>1 DEF Traced
      <4>2. t.back[n] = s.back[n] /\ t.dist[n] = s.dist[n] /\ t.dist[s.back[n]] = s.dist[s.back[n]]
        BY <2>3, <3>1, <4>1
      <4> QED BY <4>1, <4>2
    <3>2. CASE n \notin D
      <4>1. t.back[n] = h /\ t.dist[n] = s.dist[h] + 1 /\ t.dist[h] = s.dist[h]
        BY <2>1, <2>3, <3>2
      <4>2. Adjacent(g, n, h)
        BY <2>2, <3>2
      <4>3. Adjacent(g, h, n)
        BY <4>2 DEF Adjacent
      <4> QED BY <4>1, <4>3
    <3> QED BY <3>1, <3>2
  <2>11. \A n \in E : t.dist[n] < Cardinality(E)
    <3>1. IsFiniteSet(D) /\ IsFiniteSet(E) /\ D \subseteq E
      <4>1. IsFiniteSet(Ids(g))
        BY FiniteIds DEF IsClosed
      <4> QED BY <2>1, <2>7, <4>1, FS_Subset
    <3>2. Cardinality(D) \in Nat /\ Cardinality(E) \in Nat /\ Cardinality(D) <= Cardinality(E)
          /\ (D # E => Cardinality(D) < Cardinality(E))
      <4> HIDE DEF D, E
      <4> QED BY <3>1, FS_Subset, FS_CardinalityType
    <3>3. \A n \in D : s.dist[n] < Cardinality(D)
      BY DEF Traced
    <3> SUFFICES ASSUME NEW n \in E PROVE t.dist[n] < Cardinality(E)
      OBVIOUS
    <3>4. CASE n \in D
      <4>1. t.dist[n] = s.dist[n] /\ s.dist[n] \in Nat
        BY <2>1, <2>3, <3>4
      <4> HIDE DEF t, E, D
      <4> QED BY <3>2, <3>3, <3>4, <4>1
    <3>5. CASE n \notin D
      <4>1. t.dist[n] = s.dist[h] + 1 /\ s.dist[h] \in Nat /\ s.dist[h] < Cardinality(D) /\ D # E
        BY <2>1, <2>3, <3>3, <3>5
      <4> HIDE DEF t, E, D, h
      <4> QED BY <3>2, <4>1
    <3> QED BY <3>4, <3>5
  <2> HIDE DEF t
  <2>12. \A i \in DOMAIN t.queue : t.queue[i] \in E
    BY <2>6
  <2> QED BY <2>4, <2>7, <2>8, <2>9, <2>10, <2>11, <2>12 DEF Traced
<1> QED BY <1>1, <1>2

\* What the search has found at some distance is in the ball of that radius.
LEMMA TracedInBalls ==
  ASSUME NEW g, IsClosed(g), NEW source \in Ids(g), NEW s, Traced(g, source, s)
  PROVE  \A n \in DOMAIN s.back : s.dist[n] \in Nat /\ n \in Ball(g, source, s.dist[n])
<1> DEFINE D == DOMAIN s.back
           S == {d \in Nat : \A n \in D : s.dist[n] = d => n \in Ball(g, source, d)}
<1>1. D \subseteq Ids(g) /\ \A n \in D : s.dist[n] \in Nat
  <2>1. s \in States(g) /\ DOMAIN s.dist = D
    BY DEF Traced
  <2>2. D \subseteq Ids(g) /\ s.dist \in [D -> Nat]
    BY <2>1 DEF States
  <2> QED BY <2>2
<1>2. /\ \A n \in D : s.back[n] \in D
      /\ \A n \in D \ {source} : s.dist[n] = s.dist[s.back[n]] + 1 /\ Adjacent(g, s.back[n], n)
  BY DEF Traced
<1> HIDE DEF D
<1>3. 0 \in S
  <2> SUFFICES ASSUME NEW n \in D, s.dist[n] = 0 PROVE n \in Ball(g, source, 0)
    OBVIOUS
  <2>1. n = source
    <3> SUFFICES ASSUME n # source PROVE FALSE
      OBVIOUS
    <3>1. s.dist[s.back[n]] \in Nat /\ s.dist[n] = s.dist[s.back[n]] + 1
      BY <1>1, <1>2
    <3> QED BY <3>1
  <2> QED BY <2>1, BallSteps
<1>4. ASSUME NEW d \in Nat, d \in S PROVE d + 1 \in S
  <2> SUFFICES ASSUME NEW n \in D, s.dist[n] = d + 1 PROVE n \in Ball(g, source, d + 1)
    OBVIOUS
  <2>1. CASE n = source
    <3>1. s.dist[source] = 0
      BY DEF Traced
    <3> QED BY <2>1, <3>1
  <2>2. CASE n # source
    <3>1. s.back[n] \in D /\ s.dist[s.back[n]] = d /\ Adjacent(g, s.back[n], n)
      BY <1>1, <1>2, <2>2
    <3>2. s.back[n] \in Ball(g, source, d)
      BY <1>4, <3>1
    <3>3. Adjacent(g, n, s.back[n])
      BY <3>1 DEF Adjacent
    <3>4. n \in Around(g, Ball(g, source, d))
      BY <1>1, <3>2, <3>3 DEF Around
    <3> QED BY <3>4, BallSteps
  <2> QED BY <2>1, <2>2
<1> HIDE DEF S
<1>5. Nat \subseteq S
  BY <1>3, <1>4, Induction
<1> QED BY <1>1, <1>5 DEF S, D

\* What has been visited, and what waits in the order in which it was found.
Waiting(s) == {s.queue[i] : i \in DOMAIN s.queue}
Done(s) == DOMAIN s.back \ Waiting(s)

\* The nodes are visited by rising distance, and all that is next to them has been found.
InOrder(g, s) ==
  /\ \A i, j \in DOMAIN s.queue : s.queue[i] = s.queue[j] => i = j
  /\ \A i, j \in DOMAIN s.queue : i <= j => s.dist[s.queue[i]] <= s.dist[s.queue[j]]
  /\ \A j \in DOMAIN s.queue : s.dist[s.queue[j]] <= s.dist[s.queue[1]] + 1
  /\ \A n \in Done(s) : \A x \in Ids(g) : Adjacent(g, x, n) =>
       x \in DOMAIN s.back /\ s.dist[x] <= s.dist[n] + 1
  /\ s.queue # << >> => \A n \in Done(s) : s.dist[n] <= s.dist[s.queue[1]]

\* A visit that does not find the target keeps InOrder, and is done with the head of the queue.
LEMMA VisitInOrder ==
  ASSUME NEW g, IsClosed(g), NEW source, NEW target, NEW s, Traced(g, source, s),
         InOrder(g, s), s.queue # << >>, target \notin DOMAIN Visit(g, s, target).back
  PROVE  /\ InOrder(g, Visit(g, s, target))
         /\ Done(Visit(g, s, target)) = Done(s) \cup {s.queue[1]}
<1> DEFINE D == DOMAIN s.back
           q == s.queue
           h == Head(q)
           f == Discovered(g, h, D)
           t == Visited(s, f, target)
           r == t.queue
           E == D \cup ToSet(f)
           L == Len(q) - 1
<1>1. /\ q \in Seq(Ids(g)) /\ D \subseteq Ids(g) /\ h = q[1] /\ h \in D
      /\ \A n \in D : s.dist[n] \in Nat
      /\ \A i \in DOMAIN q : q[i] \in D
      /\ Len(q) \in Nat /\ Len(q) # 0 /\ L \in Nat /\ DOMAIN q = 1 .. L + 1
  <2>1. s \in States(g) /\ DOMAIN s.dist = D /\ \A i \in DOMAIN s.queue : s.queue[i] \in D
    BY DEF Traced
  <2>2. s.queue \in Seq(Ids(g)) /\ D \subseteq Ids(g) /\ s.dist \in [D -> Nat]
    BY <2>1 DEF States
  <2>3. Len(q) \in Nat /\ Len(q) # 0 /\ DOMAIN q = 1 .. Len(q) /\ h = s.queue[1]
    BY <2>2
  <2>4. L \in Nat /\ L + 1 = Len(q) /\ 1 \in DOMAIN q
    BY <2>3
  <2> QED BY <2>1, <2>2, <2>3, <2>4 DEF Traced
<1>2. /\ f \in Seq(Ids(g)) /\ ToSet(f) = {x \in Ids(g) : Adjacent(g, x, h) /\ x \notin D}
      /\ \A i, j \in DOMAIN f : f[i] = f[j] => i = j
  <2> HIDE DEF D, h
  <2> QED BY <1>1, DiscoveredNeighbors
<1>3. Visit(g, s, target) = t
  BY DEF Visit
<1> HIDE DEF f
<1>4. /\ r = NextQueue(q, f, target) /\ DOMAIN t.back = E
      /\ t.dist = [n \in E |-> IF n \in D THEN s.dist[n] ELSE s.dist[h] + 1]
  BY DEF Visited
<1>5. /\ \A n \in D : t.dist[n] = s.dist[n]
      /\ \A n \in ToSet(f) : n \notin D /\ t.dist[n] = s.dist[h] + 1
  BY <1>2, <1>4
<1>6. ToSet(f) = {f[i] : i \in DOMAIN f} /\ DOMAIN f = 1 .. Len(f) /\ Len(f) \in Nat
  BY <1>2 DEF ToSet
<1>7. r = Tail(q) \o f
  <2>1. target \notin ToSet(f)
    BY <1>3, <1>4
  <2> QED BY <1>4, <1>6, <2>1 DEF NextQueue
<1>8. /\ Len(r) = L + Len(f) /\ DOMAIN r = 1 .. L + Len(f)
      /\ \A i \in 1 .. L : r[i] = q[i + 1]
      /\ \A i \in 1 .. Len(f) : r[L + i] = f[i]
  <2>1. Tail(q) \in Seq(Ids(g)) /\ Len(Tail(q)) = L /\ \A i \in 1 .. L : Tail(q)[i] = q[i + 1]
    BY <1>1
  <2>2. /\ Tail(q) \o f \in Seq(Ids(g)) /\ Len(Tail(q) \o f) = L + Len(f)
        /\ \A i \in 1 .. L + Len(f) : (Tail(q) \o f)[i] = IF i <= L THEN Tail(q)[i] ELSE f[i - L]
    <3> HIDE DEF q, L
    <3> QED BY <1>2, <2>1, ConcatProperties
  <2>3. /\ r \in Seq(Ids(g)) /\ Len(r) = L + Len(f)
        /\ \A i \in 1 .. L + Len(f) : r[i] = IF i <= L THEN Tail(q)[i] ELSE f[i - L]
    BY <1>7, <2>2
  <2>4. DOMAIN r = 1 .. L + Len(f)
    BY <2>3
  <2> HIDE DEF q, r, L
  <2>5. \A i \in 1 .. L : i \in 1 .. L + Len(f) /\ i <= L
    BY <1>1, <1>6
  <2>6. \A i \in 1 .. Len(f) : L + i \in 1 .. L + Len(f) /\ ~(L + i <= L) /\ (L + i) - L = i
    BY <1>1, <1>6
  <2>7. \A i \in 1 .. L : r[i] = q[i + 1]
    BY <2>1, <2>3, <2>5
  <2>8. \A i \in 1 .. Len(f) : r[L + i] = f[i]
    <3> SUFFICES ASSUME NEW i \in 1 .. Len(f) PROVE r[L + i] = f[i]
      OBVIOUS
    <3>1. r[L + i] = f[(L + i) - L]
      BY <2>3, <2>6
    <3> QED BY <2>6, <3>1
  <2> QED BY <2>3, <2>4, <2>7, <2>8
<1> DEFINE Old(i) == i \in 1 .. L /\ i \in DOMAIN r /\ i + 1 \in DOMAIN q /\ r[i] = q[i + 1] /\ r[i] \in D
           Fresh(i) == i \in L + 1 .. L + Len(f) /\ i - L \in DOMAIN f /\ r[i] = f[i - L] /\ r[i] \in ToSet(f)
<1>9. ASSUME NEW i \in DOMAIN r PROVE Old(i) \/ Fresh(i)
  <2>1. CASE i \in 1 .. L
    BY <1>1, <1>8, <2>1
  <2>2. CASE i \notin 1 .. L
    <3>1. i - L \in 1 .. Len(f) /\ L + (i - L) = i
      BY <1>1, <1>6, <1>8, <2>2
    <3> HIDE DEF L, r
    <3> QED BY <1>1, <1>6, <1>8, <3>1
  <2> QED BY <2>1, <2>2
<1> HIDE DEF t
<1>10. Waiting(t) = (Waiting(s) \ {h}) \cup ToSet(f)
  <2>1. \A i \in 2 .. L + 1 : i - 1 \in 1 .. L /\ (i - 1) + 1 = i /\ i \in DOMAIN q /\ q[i] # q[1]
    <3>1. \A i \in 2 .. L + 1 : i - 1 \in 1 .. L /\ (i - 1) + 1 = i /\ i \in DOMAIN q /\ 1 \in DOMAIN q /\ i # 1
      BY <1>1
    <3> QED BY <3>1 DEF InOrder
  <2>2. \A i \in DOMAIN q : i = 1 \/ i \in 2 .. L + 1
    BY <1>1
  <2>3. Waiting(s) \ {h} = {q[i] : i \in 2 .. L + 1}
    BY <1>1, <2>1, <2>2 DEF Waiting
  <2>4. {q[i] : i \in 2 .. L + 1} = {r[i] : i \in 1 .. L}
    <3>1. \A i \in 2 .. L + 1 : i - 1 \in 1 .. L /\ r[i - 1] = q[i]
      BY <1>8, <2>1
    <3>2. \A i \in 1 .. L : i + 1 \in 2 .. L + 1 /\ r[i] = q[i + 1]
      BY <1>1, <1>8
    <3> HIDE DEF r, q, L
    <3> QED BY <3>1, <3>2
  <2>5. ToSet(f) = {r[i] : i \in L + 1 .. L + Len(f)}
    <3>1. \A i \in L + 1 .. L + Len(f) : i - L \in DOMAIN f /\ r[i] = f[i - L]
      <4>1. \A i \in L + 1 .. L + Len(f) : i \in DOMAIN r /\ i \notin 1 .. L
        BY <1>1, <1>6, <1>8
      <4> QED BY <1>9, <4>1
    <3>2. \A i \in DOMAIN f : L + i \in L + 1 .. L + Len(f) /\ r[L + i] = f[i]
      BY <1>1, <1>6, <1>8
    <3> HIDE DEF r, L
    <3> QED BY <1>6, <3>1, <3>2
  <2>6. DOMAIN r = (1 .. L) \cup (L + 1 .. L + Len(f))
    BY <1>1, <1>6, <1>8
  <2>7. Waiting(t) = {r[i] : i \in 1 .. L} \cup {r[i] : i \in L + 1 .. L + Len(f)}
    <3>1. Waiting(t) = {r[i] : i \in DOMAIN r}
      BY DEF Waiting
    <3> HIDE DEF r, L
    <3> QED BY <2>6, <3>1
  <2> QED BY <2>3, <2>4, <2>5, <2>7
<1>11. h \in Waiting(s)
  BY <1>1 DEF Waiting
<1>12. Done(t) = Done(s) \cup {h}
  BY <1>1, <1>4, <1>5, <1>10, <1>11 DEF Done
<1>13. \A i, j \in DOMAIN r : r[i] = r[j] => i = j
  <2> SUFFICES ASSUME NEW i \in DOMAIN r, NEW j \in DOMAIN r, r[i] = r[j] PROVE i = j
    OBVIOUS
  <2>1. \A a, b \in DOMAIN q : q[a] = q[b] => a = b
    BY DEF InOrder
  <2>2. CASE Old(i) /\ Old(j)
    <3>1. i + 1 = j + 1
      BY <2>1, <2>2
    <3> QED BY <2>2, <3>1
  <2>3. CASE Fresh(i) /\ Fresh(j)
    <3>1. i - L = j - L
      BY <1>2, <2>3
    <3> QED BY <1>1, <2>3, <3>1
  <2>4. CASE (Old(i) /\ Fresh(j)) \/ (Fresh(i) /\ Old(j))
    BY <1>5, <2>4
  <2> QED BY <1>9, <2>2, <2>3, <2>4
<1>14. \A i \in DOMAIN q : s.dist[q[i]] \in Nat /\ s.dist[q[i]] <= s.dist[h] + 1 /\ s.dist[h] <= s.dist[q[i]]
       /\ s.dist[h] \in Nat
  <2>1. 1 \in DOMAIN q /\ \A i \in DOMAIN q : 1 <= i
    BY <1>1
  <2> QED BY <1>1, <2>1 DEF InOrder
<1>15. \A i, j \in DOMAIN r : i <= j => t.dist[r[i]] <= t.dist[r[j]]
  <2> SUFFICES ASSUME NEW i \in DOMAIN r, NEW j \in DOMAIN r, i <= j
               PROVE  t.dist[r[i]] <= t.dist[r[j]]
    OBVIOUS
  <2>1. CASE Old(i) /\ Old(j)
    <3>1. i + 1 <= j + 1
      BY <2>1
    <3>2. s.dist[q[i + 1]] <= s.dist[q[j + 1]]
      BY <2>1, <3>1 DEF InOrder
    <3> QED BY <1>5, <2>1, <3>2
  <2>2. CASE Old(i) /\ Fresh(j)
    <3>1. t.dist[r[i]] = s.dist[q[i + 1]] /\ t.dist[r[j]] = s.dist[h] + 1
      BY <1>5, <2>2
    <3> QED BY <1>14, <2>2, <3>1
  <2>3. CASE Fresh(i) /\ Fresh(j)
    <3>1. t.dist[r[i]] = s.dist[h] + 1 /\ t.dist[r[j]] = s.dist[h] + 1 /\ s.dist[h] \in Nat
      BY <1>1, <1>5, <2>3
    <3> QED BY <3>1
  <2>4. ~(Fresh(i) /\ Old(j))
    BY <1>1
  <2> QED BY <1>9, <2>1, <2>2, <2>3, <2>4
<1>16. \A j \in DOMAIN r : /\ t.dist[r[j]] <= s.dist[h] + 1 /\ s.dist[h] <= t.dist[r[j]]
                           /\ t.dist[r[j]] \in Nat
                           /\ ~Old(j) => t.dist[r[j]] = s.dist[h] + 1
  <2> SUFFICES ASSUME NEW j \in DOMAIN r
               PROVE  /\ t.dist[r[j]] <= s.dist[h] + 1 /\ s.dist[h] <= t.dist[r[j]]
                      /\ t.dist[r[j]] \in Nat
                      /\ ~Old(j) => t.dist[r[j]] = s.dist[h] + 1
    OBVIOUS
  <2>1. CASE Old(j)
    BY <1>5, <1>14, <2>1
  <2>2. CASE Fresh(j) /\ ~Old(j)
    <3>1. t.dist[r[j]] = s.dist[h] + 1 /\ s.dist[h] \in Nat
      BY <1>1, <1>5, <2>2
    <3> QED BY <3>1
  <2> QED BY <1>9, <2>1, <2>2
<1>17. \A j \in DOMAIN r : t.dist[r[j]] <= t.dist[r[1]] + 1
  <2> SUFFICES ASSUME NEW j \in DOMAIN r PROVE t.dist[r[j]] <= t.dist[r[1]] + 1
    OBVIOUS
  <2>1. 1 \in DOMAIN r
    BY <1>1, <1>6, <1>8
  <2> QED BY <1>1, <1>16, <2>1
<1>18. ASSUME NEW n \in Done(t), NEW x \in Ids(g), Adjacent(g, x, n)
       PROVE  x \in DOMAIN t.back /\ t.dist[x] <= t.dist[n] + 1
  <2>1. CASE n \in Done(s)
    <3>1. x \in D /\ s.dist[x] <= s.dist[n] + 1
      BY <1>18, <2>1 DEF InOrder
    <3>2. n \in D
      BY <2>1 DEF Done
    <3> QED BY <1>4, <1>5, <3>1, <3>2
  <2>2. CASE n = h
    <3>1. CASE x \notin D
      <4>1. x \in ToSet(f)
        BY <1>2, <1>18, <2>2, <3>1
      <4>2. t.dist[x] = s.dist[h] + 1 /\ t.dist[h] = s.dist[h] /\ s.dist[h] \in Nat
        BY <1>1, <1>5, <4>1
      <4> QED BY <1>4, <2>2, <4>1, <4>2
    <3>2. CASE x \in Waiting(s)
      <4>1. PICK i \in DOMAIN q : x = q[i]
        BY <3>2 DEF Waiting
      <4> QED BY <1>1, <1>4, <1>5, <1>14, <2>2, <4>1
    <3>3. CASE x \in Done(s)
      <4>1. s.dist[x] <= s.dist[h] /\ x \in D
        BY <1>1, <3>3 DEF InOrder, Done
      <4> QED BY <1>1, <1>4, <1>5, <2>2, <4>1
    <3> QED BY <3>1, <3>2, <3>3 DEF Done
  <2> QED BY <1>12, <2>1, <2>2
<1>19. ASSUME r # << >>, NEW n \in Done(t) PROVE t.dist[n] <= t.dist[r[1]]
  <2>1. 1 \in DOMAIN r
    <3>1. Len(r) # 0
      BY <1>1, <1>2, <1>7, <1>19
    <3> QED BY <1>1, <1>6, <1>8, <3>1
  <2>2. t.dist[n] <= s.dist[h] /\ n \in D
    <3>1. CASE n = h
      BY <1>1, <1>5, <3>1
    <3>2. CASE n \in Done(s)
      BY <1>1, <1>5, <3>2 DEF InOrder, Done
    <3> QED BY <1>12, <3>1, <3>2
  <2>3. s.dist[h] <= t.dist[r[1]] /\ t.dist[r[1]] \in Nat /\ t.dist[n] \in Nat /\ s.dist[h] \in Nat
    BY <1>1, <1>5, <1>16, <2>1, <2>2
  <2> QED BY <2>2, <2>3
<1>20. InOrder(g, t)
  BY <1>13, <1>15, <1>17, <1>18, <1>19 DEF InOrder
<1> QED BY <1>1, <1>3, <1>12, <1>20

\* All that is as near as the node that is visited next has been found.
LEMMA FoundInOrder ==
  ASSUME NEW g, IsClosed(g), NEW source \in Ids(g), NEW s, Traced(g, source, s), InOrder(g, s)
  PROVE  \A d \in Nat : s.queue = << >> \/ d <= s.dist[s.queue[1]] =>
           \A x \in Ball(g, source, d) : x \in DOMAIN s.back /\ s.dist[x] <= d
<1> DEFINE D == DOMAIN s.back
           Reach(d) == s.queue = << >> \/ d <= s.dist[s.queue[1]]
           S == {d \in Nat : Reach(d) => \A x \in Ball(g, source, d) : x \in D /\ s.dist[x] <= d}
<1>1. /\ D \subseteq Ids(g) /\ \A n \in D : s.dist[n] \in Nat
      /\ \A i \in DOMAIN s.queue : s.queue[i] \in D
      /\ source \in D /\ s.dist[source] = 0
      /\ s.queue # << >> => 1 \in DOMAIN s.queue
  <2>1. s \in States(g) /\ DOMAIN s.dist = D
    BY DEF Traced
  <2>2. D \subseteq Ids(g) /\ s.dist \in [D -> Nat] /\ s.queue \in Seq(Ids(g))
    BY <2>1 DEF States
  <2>3. s.queue # << >> => 1 \in DOMAIN s.queue
    BY <2>2
  <2> QED BY <2>2, <2>3 DEF Traced
<1> HIDE DEF D
<1>2. 0 \in S
  BY <1>1, BallSteps
<1>3. ASSUME NEW d \in Nat, d \in S PROVE d + 1 \in S
  <2> SUFFICES ASSUME Reach(d + 1), NEW x \in Ball(g, source, d + 1)
               PROVE  x \in D /\ s.dist[x] <= d + 1
    OBVIOUS
  <2>1. Reach(d)
    BY <1>1
  <2>2. \A y \in Ball(g, source, d) : y \in D /\ s.dist[y] <= d
    BY <1>3, <2>1
  <2>3. CASE x \in Ball(g, source, d)
    BY <1>1, <2>2, <2>3
  <2>4. CASE x \notin Ball(g, source, d)
    <3>1. x \in Around(g, Ball(g, source, d))
      BY <2>4, BallSteps
    <3>2. PICK y \in Ball(g, source, d) : x \in Ids(g) /\ Adjacent(g, x, y)
      BY <3>1 DEF Around
    <3>3. y \in D /\ s.dist[y] <= d /\ s.dist[y] \in Nat
      BY <1>1, <2>2
    <3>4. y \notin Waiting(s)
      <4> SUFFICES ASSUME NEW i \in DOMAIN s.queue, y = s.queue[i] PROVE FALSE
        BY DEF Waiting
      <4>1. s.queue # << >> /\ 1 \in DOMAIN s.queue /\ 1 <= i
        <5>1. s \in States(g)
          BY DEF Traced
        <5>2. s.queue \in Seq(Ids(g))
          BY <5>1 DEF States
        <5> QED BY <5>2
      <4>2. s.dist[s.queue[1]] <= s.dist[y]
        BY <4>1 DEF InOrder
      <4>3. s.dist[s.queue[1]] \in Nat /\ d + 1 <= s.dist[s.queue[1]]
        BY <1>1, <4>1
      <4> QED BY <3>3, <4>2, <4>3
    <3>5. y \in Done(s)
      BY <3>3, <3>4 DEF Done, D
    <3>6. x \in D /\ s.dist[x] <= s.dist[y] + 1
      BY <3>2, <3>5 DEF InOrder, D
    <3> QED BY <1>1, <3>3, <3>6
  <2> QED BY <2>3, <2>4
<1> HIDE DEF S
<1>4. Nat \subseteq S
  BY <1>2, <1>3, Induction
<1> QED BY <1>4 DEF S, D

Start(source) == [queue |-> <<source>>, back |-> [n \in {source} |-> source],
                  dist |-> [n \in {source} |-> 0]]

\* Before the first visit.
LEMMA StartSound ==
  ASSUME NEW g, IsClosed(g), NEW source \in Ids(g)
  PROVE  /\ Traced(g, source, Start(source)) /\ InOrder(g, Start(source))
         /\ DOMAIN Start(source).back = {source}
<1> DEFINE s == Start(source)
<1>1. /\ s.queue = <<source>> /\ s.back = [n \in {source} |-> source]
      /\ s.dist = [n \in {source} |-> 0]
      /\ s = [queue |-> s.queue, back |-> s.back, dist |-> s.dist]
  BY DEF Start
<1> HIDE DEF s
<1>2. /\ DOMAIN s.queue = {1} /\ s.queue[1] = source /\ s.queue \in Seq(Ids(g))
      /\ DOMAIN s.back = {source} /\ s.back[source] = source /\ DOMAIN s.dist = {source}
      /\ s.dist[source] = 0 /\ s.back \in [{source} -> Ids(g)] /\ s.dist \in [{source} -> Nat]
  BY <1>1
<1>3. s \in States(g)
  <2>1. {source} \in SUBSET Ids(g)
    OBVIOUS
  <2> QED BY <1>1, <1>2, <2>1 DEF States
<1>4. Cardinality({source}) = 1
  BY FS_Singleton
<1>5. Traced(g, source, s)
  BY <1>2, <1>3, <1>4 DEF Traced
<1>6. Done(s) = {}
  BY <1>2 DEF Done, Waiting
<1>7. InOrder(g, s)
  BY <1>2, <1>6 DEF InOrder
<1> QED BY <1>2, <1>5, <1>7 DEF s

\* Searched goes on by visits.
LEMMA SearchSteps ==
  ASSUME NEW g, IsClosed(g), NEW source \in Ids(g), NEW target
  PROVE  LET r == Searched(g, source, target) IN
         /\ r[0] = Start(source)
         /\ \A k \in 0 .. Len(g.nodes) - 1 : r[k + 1] = Visit(g, r[k], target)
<1> DEFINE N == Len(g.nodes)
           V == {s \in States(g) : Traced(g, source, s)}
           G == [n \in 1 .. N |-> [v \in V |-> Visit(g, v, target)]]
           After(r) == [k \in 0 .. N |-> IF k = 0 THEN Start(source) ELSE Visit(g, r[k - 1], target)]
           q == CHOOSE r : r = After(r)
<1>1. N \in Nat
  BY FiniteIds DEF IsClosed
<1>2. \A n \in 1 .. N : \A v \in V : G[n][v] = Visit(g, v, target)
  OBVIOUS
<1>3. \A v \in V : Visit(g, v, target) \in V
  <2>1. ASSUME NEW v, Traced(g, source, v) PROVE v \in V
    BY <2>1 DEF Traced
  <2> QED BY <2>1, VisitTraces
<1>4. Start(source) \in V
  BY StartSound DEF Traced
<1>5. \E f : Iterates(f, V, Start(source), N, G)
  <2> HIDE DEF G, V, N
  <2>1. \A n \in 1 .. N : \A v \in V : G[n][v] \in V
    BY <1>2, <1>3
  <2> QED BY <1>1, <1>4, <2>1, Recursion
<1> HIDE DEF G, V
<1>6. PICK f : Iterates(f, V, Start(source), N, G)
  BY <1>5
<1>7. /\ f \in [0 .. N -> V] /\ f[0] = Start(source)
      /\ \A n \in 1 .. N : f[n] = G[n][f[n - 1]]
  BY <1>6 DEF Iterates
<1>8. ASSUME NEW k \in 0 .. N PROVE f[k] = After(f)[k]
  <2>1. CASE k = 0
    BY <1>7, <2>1
  <2>2. CASE k # 0
    <3>1. k \in 1 .. N /\ k - 1 \in 0 .. N
      BY <1>1, <2>2
    <3>2. f[k] = Visit(g, f[k - 1], target)
      BY <1>2, <1>7, <3>1
    <3> QED BY <2>2, <3>2
  <2> QED BY <2>1, <2>2
<1>9. f = After(f)
  BY <1>7, <1>8
<1>10. q = After(q)
  BY <1>9
<1>11. Searched(g, source, target) = q
  BY DEF Searched, Start
<1>12. \A k \in 0 .. N : q[k] = IF k = 0 THEN Start(source) ELSE Visit(g, q[k - 1], target)
  BY <1>10
<1> HIDE DEF q
<1>13. q[0] = Start(source)
  <2>1. 0 \in 0 .. N
    BY <1>1
  <2> QED BY <1>12, <2>1, Zenon
<1>14. ASSUME NEW k \in 0 .. N - 1 PROVE q[k + 1] = Visit(g, q[k], target)
  <2>1. k + 1 \in 0 .. N /\ k + 1 # 0 /\ (k + 1) - 1 = k
    BY <1>1
  <2> QED BY <1>12, <2>1
<1> QED BY <1>11, <1>13, <1>14

\* A visit forgets nothing, and what it finds is one step further than what it visits.
LEMMA VisitKeeps ==
  ASSUME NEW g, NEW target, NEW s, DOMAIN s.dist = DOMAIN s.back
  PROVE  LET t == Visit(g, s, target) IN
         /\ DOMAIN s.back \subseteq DOMAIN t.back
         /\ \A n \in DOMAIN s.back : t.dist[n] = s.dist[n]
         /\ \A n \in DOMAIN t.back \ DOMAIN s.back : s.queue # << >> /\ t.dist[n] = s.dist[Head(s.queue)] + 1
<1>1. CASE s.queue = << >>
  BY <1>1 DEF Visit
<1>2. CASE s.queue # << >>
  <2> DEFINE D == DOMAIN s.back
             f == Discovered(g, Head(s.queue), D)
             t == Visited(s, f, target)
  <2>1. Visit(g, s, target) = t
    BY <1>2 DEF Visit
  <2> HIDE DEF f
  <2>2. /\ DOMAIN t.back = D \cup ToSet(f)
        /\ \A n \in D \cup ToSet(f) : t.dist[n] = IF n \in D THEN s.dist[n] ELSE s.dist[Head(s.queue)] + 1
    BY DEF Visited
  <2> QED BY <1>2, <2>1, <2>2
<1> QED BY <1>1, <1>2

\* How far a search has come after k visits: the target has not been found and all is in
\* order, or it was found along a shortest way.
Progress(g, source, target, s, k) ==
  /\ Traced(g, source, s)
  /\ \/ /\ target \notin DOMAIN s.back /\ InOrder(g, s)
        /\ s.queue = << >> \/ k <= Cardinality(Done(s))
     \/ target \in DOMAIN s.back /\ IsAway(g, source, target, s.dist[target])

\* Every visit goes on: another node is done, the target was found, or nothing is left.
LEMMA VisitProgress ==
  ASSUME NEW g, IsClosed(g), NEW source \in Ids(g), NEW target, NEW s, NEW k \in Nat,
         Progress(g, source, target, s, k)
  PROVE  Progress(g, source, target, Visit(g, s, target), k + 1)
<1> DEFINE t == Visit(g, s, target)
           D == DOMAIN s.back
<1>1. Traced(g, source, s) /\ Traced(g, source, t) /\ DOMAIN s.dist = D
  <2>1. Traced(g, source, s)
    BY DEF Progress
  <2>2. Traced(g, source, t)
    BY <2>1, VisitTraces
  <2> QED BY <2>1, <2>2 DEF Traced
<1>2. /\ D \subseteq DOMAIN t.back
      /\ \A n \in D : t.dist[n] = s.dist[n]
      /\ \A n \in DOMAIN t.back \ D : s.queue # << >> /\ t.dist[n] = s.dist[Head(s.queue)] + 1
  BY <1>1, VisitKeeps
<1>3. CASE target \in D
  <2>1. IsAway(g, source, target, s.dist[target])
    BY <1>3 DEF Progress
  <2>2. target \in DOMAIN t.back /\ t.dist[target] = s.dist[target]
    BY <1>2, <1>3
  <2> QED BY <1>1, <2>1, <2>2 DEF Progress
<1>4. CASE target \notin D /\ target \in DOMAIN t.back
  <2>1. s.queue # << >> /\ t.dist[target] = s.dist[Head(s.queue)] + 1
    BY <1>2, <1>4
  <2>2. s.queue \in Seq(Ids(g)) /\ Head(s.queue) = s.queue[1] /\ s.queue[1] \in D
    <3>1. s \in States(g)
      BY <1>1 DEF Traced
    <3>2. s.queue \in Seq(Ids(g))
      BY <3>1 DEF States
    <3>3. Head(s.queue) = s.queue[1] /\ 1 \in DOMAIN s.queue
      BY <2>1, <3>2
    <3> QED BY <1>1, <3>2, <3>3 DEF Traced
  <2> DEFINE d == s.dist[s.queue[1]]
  <2>3. d \in Nat
    BY <1>1, <2>2, TracedInBalls
  <2>4. target \notin Ball(g, source, d)
    <3>1. InOrder(g, s)
      BY <1>4 DEF Progress
    <3>2. d <= s.dist[s.queue[1]]
      BY <2>3
    <3> HIDE DEF d
    <3> QED BY <1>1, <1>4, <2>3, <3>1, <3>2, FoundInOrder
  <2>5. t.dist[target] = d + 1 /\ target \in Ball(g, source, d + 1)
    <3>1. target \in Ball(g, source, t.dist[target])
      BY <1>1, <1>4, TracedInBalls
    <3> QED BY <2>1, <2>2, <3>1
  <2> HIDE DEF d
  <2>6. \A e \in Nat : target \in Ball(g, source, e) => d + 1 <= e
    <3> SUFFICES ASSUME NEW e \in Nat, target \in Ball(g, source, e), e <= d PROVE FALSE
      BY <2>3
    <3> QED BY <2>3, <2>4, BallGrows
  <2>7. IsAway(g, source, target, t.dist[target])
    BY <2>3, <2>5, <2>6 DEF IsAway
  <2> QED BY <1>1, <1>4, <2>7 DEF Progress
<1>5. CASE target \notin DOMAIN t.back
  <2>1. target \notin D /\ InOrder(g, s) /\ (s.queue = << >> \/ k <= Cardinality(Done(s)))
    BY <1>2, <1>5 DEF Progress
  <2>2. CASE s.queue = << >>
    <3>1. t = s
      BY <2>2 DEF Visit
    <3> QED BY <1>1, <2>1, <2>2, <3>1 DEF Progress
  <2>3. CASE s.queue # << >>
    <3>1. InOrder(g, t) /\ Done(t) = Done(s) \cup {s.queue[1]}
      BY <1>1, <1>5, <2>1, <2>3, VisitInOrder
    <3>2. s.queue[1] \notin Done(s)
      <4>1. s \in States(g)
        BY <1>1 DEF Traced
      <4>2. s.queue \in Seq(Ids(g))
        BY <4>1 DEF States
      <4>3. 1 \in DOMAIN s.queue
        BY <2>3, <4>2
      <4> QED BY <4>3 DEF Done, Waiting
    <3>3. IsFiniteSet(Done(s))
      <4>1. D \subseteq Ids(g)
        <5>1. s \in States(g)
          BY <1>1 DEF Traced
        <5> QED BY <5>1 DEF States
      <4>2. Done(s) \subseteq Ids(g)
        BY <4>1 DEF Done
      <4> QED BY <4>2, FiniteIds, FS_Subset DEF IsClosed
    <3>4. Cardinality(Done(t)) = Cardinality(Done(s)) + 1 /\ Cardinality(Done(s)) \in Nat
      BY <3>1, <3>2, <3>3, FS_AddElement, FS_CardinalityType
    <3>5. k + 1 <= Cardinality(Done(t))
      BY <2>1, <2>3, <3>4
    <3> QED BY <1>1, <1>5, <3>1, <3>5 DEF Progress
  <2> QED BY <2>2, <2>3
<1> QED BY <1>3, <1>4, <1>5

\* After as many visits as there are nodes the search has ended.
LEMMA SearchProgress ==
  ASSUME NEW g, IsClosed(g), NEW source \in Ids(g), NEW target, target # source
  PROVE  Progress(g, source, target, Explored(g, source, target), Len(g.nodes))
<1> DEFINE r == Searched(g, source, target)
           N == Len(g.nodes)
           S == {k \in 0 .. N : Progress(g, source, target, r[k], k)}
<1>0. N \in Nat
  BY FiniteIds DEF IsClosed
<1>1. 0 \in S
  <2>1. r[0] = Start(source)
    BY SearchSteps
  <2>2. Done(Start(source)) = {}
    BY DEF Done, Waiting, Start
  <2>3. 0 <= Cardinality(Done(Start(source)))
    BY <2>2, FS_EmptySet
  <2>4. Progress(g, source, target, Start(source), 0)
    BY <2>3, StartSound DEF Progress
  <2> QED BY <1>0, <2>1, <2>4
<1>2. ASSUME NEW k \in 0 .. N - 1, k \in S PROVE k + 1 \in S
  <2>1. r[k + 1] = Visit(g, r[k], target)
    BY SearchSteps
  <2>2. Progress(g, source, target, r[k], k) /\ k \in Nat
    BY <1>2
  <2> HIDE DEF r
  <2>3. Progress(g, source, target, Visit(g, r[k], target), k + 1)
    BY <2>2, VisitProgress
  <2> QED BY <1>0, <2>1, <2>3
<1> HIDE DEF S
<1>3. 0 .. N \subseteq S
  BY <1>0, <1>1, <1>2, InductionUpTo
<1>4. Explored(g, source, target) = r[N]
  BY DEF Explored
<1>5. N \in S
  BY <1>0, <1>3
<1> QED BY <1>4, <1>5 DEF S

\* A search finds its target, or all that can be reached, each node as near as it is.
LEMMA SearchSound ==
  ASSUME NEW g, IsClosed(g), NEW source \in Ids(g), NEW target, target # source
  PROVE  LET s == Explored(g, source, target) IN
         /\ Traced(g, source, s)
         /\ target \in DOMAIN s.back => IsAway(g, source, target, s.dist[target])
         /\ target \notin DOMAIN s.back =>
              \A n, d : d \in Nat /\ n \in Ball(g, source, d) =>
                n \in DOMAIN s.back /\ IsAway(g, source, n, s.dist[n])
<1> DEFINE s == Explored(g, source, target)
           D == DOMAIN s.back
<1>1. Progress(g, source, target, s, Len(g.nodes))
  BY SearchProgress
<1> HIDE DEF s
<1>2. Traced(g, source, s)
  BY <1>1 DEF Progress
<1>3. target \in D => IsAway(g, source, target, s.dist[target])
  BY <1>1 DEF Progress
<1>4. ASSUME target \notin D, NEW n, NEW d \in Nat, n \in Ball(g, source, d)
      PROVE  n \in D /\ IsAway(g, source, n, s.dist[n])
  <2>1. InOrder(g, s) /\ (s.queue = << >> \/ Len(g.nodes) <= Cardinality(Done(s)))
    BY <1>1, <1>4 DEF Progress
  <2>2. s.queue = << >>
    <3> SUFFICES ASSUME s.queue # << >> PROVE FALSE
      OBVIOUS
    <3>1. s \in States(g)
      BY <1>2 DEF Traced
    <3>2. s.queue \in Seq(Ids(g)) /\ D \subseteq Ids(g)
      BY <3>1 DEF States
    <3>3. 1 \in DOMAIN s.queue
      BY <3>2
    <3>4. s.queue[1] \in Waiting(s) /\ s.queue[1] \in Ids(g)
      BY <3>2, <3>3 DEF Waiting
    <3>5. Done(s) \subseteq Ids(g) /\ Done(s) # Ids(g)
      BY <3>2, <3>4 DEF Done
    <3>6. Cardinality(Done(s)) < Cardinality(Ids(g)) /\ Cardinality(Done(s)) \in Nat /\ Cardinality(Ids(g)) \in Nat
      <4>1. IsFiniteSet(Ids(g))
        BY FiniteIds DEF IsClosed
      <4>2. IsFiniteSet(Done(s))
        BY <3>5, <4>1, FS_Subset
      <4> QED BY <3>5, <4>1, <4>2, FS_Subset, FS_CardinalityType
    <3>7. Cardinality(Ids(g)) <= Len(g.nodes) /\ Len(g.nodes) \in Nat
      BY FiniteIds DEF IsClosed
    <3> QED BY <2>1, <3>6, <3>7
  <2>3. \A e \in Nat : \A x \in Ball(g, source, e) : x \in D /\ s.dist[x] <= e
    BY <1>2, <2>1, <2>2, FoundInOrder
  <2>4. n \in D
    BY <1>4, <2>3
  <2>5. s.dist[n] \in Nat /\ n \in Ball(g, source, s.dist[n])
    BY <1>2, <2>4, TracedInBalls
  <2> QED BY <2>3, <2>4, <2>5 DEF IsAway
<1> QED BY <1>2, <1>3, <1>4 DEF s

-----------------------------------------------------------------------------
(* Paths.                                                                  *)

IsCursor(c, back, target, N) ==
  c = [k \in 0 .. N |-> IF k = 0 THEN target ELSE back[c[k - 1]]]

\* Going back from a node, step by step.
LEMMA CursorSteps ==
  ASSUME NEW back, NEW target \in DOMAIN back, \A n \in DOMAIN back : back[n] \in DOMAIN back,
         Cardinality(DOMAIN back) \in Nat
  PROVE  LET c == Cursors(back, target)  N == Cardinality(DOMAIN back) IN
         /\ DOMAIN c = 0 .. N /\ c[0] = target
         /\ \A k \in 0 .. N - 1 : c[k + 1] = back[c[k]]
<1> DEFINE N == Cardinality(DOMAIN back)
           G == [n \in 1 .. N |-> back]
           q == CHOOSE c : IsCursor(c, back, target, N)
<1>1. \E f : Iterates(f, DOMAIN back, target, N, G)
  <2>1. \A n \in 1 .. N : \A v \in DOMAIN back : G[n][v] \in DOMAIN back
    OBVIOUS
  <2> HIDE DEF G, N
  <2>2. N \in Nat
    BY DEF N
  <2> QED BY <2>1, <2>2, Recursion
<1>2. PICK f : Iterates(f, DOMAIN back, target, N, G)
  BY <1>1
<1>3. f \in [0 .. N -> DOMAIN back] /\ f[0] = target /\ \A n \in 1 .. N : f[n] = back[f[n - 1]]
  BY <1>2 DEF Iterates
<1>4. IsCursor(f, back, target, N)
  <2>1. ASSUME NEW k \in 0 .. N PROVE f[k] = IF k = 0 THEN target ELSE back[f[k - 1]]
    BY <1>3
  <2> QED BY <1>3, <2>1 DEF IsCursor
<1>5. IsCursor(q, back, target, N)
  BY <1>4
<1>6. Cursors(back, target) = q
  BY DEF Cursors, IsCursor
<1> HIDE DEF q
<1>7. DOMAIN q = 0 .. N /\ \A k \in 0 .. N : q[k] = IF k = 0 THEN target ELSE back[q[k - 1]]
  BY <1>5 DEF IsCursor
<1>8. q[0] = target
  <2>1. 0 \in 0 .. N
    OBVIOUS
  <2> QED BY <1>7, <2>1, Zenon
<1>9. ASSUME NEW k \in 0 .. N - 1 PROVE q[k + 1] = back[q[k]]
  <2>1. k + 1 \in 0 .. N /\ k + 1 # 0 /\ (k + 1) - 1 = k
    OBVIOUS
  <2> QED BY <1>7, <2>1
<1> QED BY <1>6, <1>7, <1>8, <1>9

\* A way of d steps, from node to neighbor.
IsWay(g, w, source, target, d) ==
  /\ w \in Seq(Ids(g)) /\ Len(w) = d + 1 /\ w[1] = source /\ w[d + 1] = target
  /\ \A i \in 1 .. d : Adjacent(g, w[i], w[i + 1])

\* The way back from a node is a way of as many steps as its distance.
LEMMA WayBackSound ==
  ASSUME NEW g, IsClosed(g), NEW source, NEW s, Traced(g, source, s), NEW target \in DOMAIN s.back
  PROVE  IsWay(g, WayBack(s.back, source, target), source, target, s.dist[target])
<1> DEFINE D == DOMAIN s.back
           c == Cursors(s.back, target)
           N == Cardinality(D)
           L == s.dist[target]
           w == WayBack(s.back, source, target)
<1>1. /\ D \subseteq Ids(g) /\ \A n \in D : s.dist[n] \in Nat /\ s.back[n] \in D
      /\ \A n \in D \ {source} : s.dist[n] = s.dist[s.back[n]] + 1 /\ Adjacent(g, s.back[n], n)
      /\ source \in D /\ s.dist[source] = 0 /\ L < N
  <2>1. s \in States(g) /\ DOMAIN s.dist = D
    BY DEF Traced
  <2>2. D \subseteq Ids(g) /\ s.dist \in [D -> Nat]
    BY <2>1 DEF States
  <2> QED BY <2>2 DEF Traced
<1>2. N \in Nat
  <2>1. IsFiniteSet(D)
    BY <1>1, FiniteIds, FS_Subset DEF IsClosed
  <2> QED BY <2>1, FS_CardinalityType
<1>3. DOMAIN c = 0 .. N /\ c[0] = target /\ \A k \in 0 .. N - 1 : c[k + 1] = s.back[c[k]]
  <2>1. target \in DOMAIN s.back /\ \A n \in DOMAIN s.back : s.back[n] \in DOMAIN s.back
    BY <1>1
  <2> QED BY <1>2, <2>1, CursorSteps
<1> HIDE DEF c, D, N
<1> DEFINE S == {k \in 0 .. L : c[k] \in D /\ s.dist[c[k]] = L - k}
<1>4. L \in Nat /\ target \in D
  BY <1>1 DEF D
<1>5. 0 \in S
  BY <1>3, <1>4
<1>6. \A k \in 0 .. L - 1 : k \in S => c[k] # source /\ k \in 0 .. N - 1
  BY <1>1, <1>2, <1>4
<1>7. ASSUME NEW k \in 0 .. L - 1, k \in S PROVE k + 1 \in S
  <2>1. c[k] # source /\ c[k + 1] = s.back[c[k]] /\ c[k] \in D /\ s.dist[c[k]] = L - k
    BY <1>3, <1>6, <1>7
  <2>2. s.dist[c[k + 1]] + 1 = L - k /\ c[k + 1] \in D /\ s.dist[c[k + 1]] \in Nat
    BY <1>1, <2>1
  <2>3. s.dist[c[k + 1]] = L - (k + 1) /\ k + 1 \in 0 .. L
    BY <1>4, <2>2
  <2> QED BY <2>2, <2>3
<1> HIDE DEF S, L
<1>8. 0 .. L \subseteq S
  BY <1>4, <1>5, <1>7, InductionUpTo
<1>9. \A k \in 0 .. L : c[k] \in D /\ s.dist[c[k]] = L - k
  BY <1>8 DEF S
<1>10. c[L] = source
  <2>1. L \in 0 .. L /\ L - L = 0
    BY <1>4
  <2>2. c[L] \in D /\ s.dist[c[L]] = 0
    BY <1>9, <2>1
  <2> SUFFICES ASSUME c[L] # source PROVE FALSE
    OBVIOUS
  <2>3. 0 = s.dist[s.back[c[L]]] + 1 /\ s.back[c[L]] \in D
    BY <1>1, <2>2
  <2>4. s.dist[s.back[c[L]]] \in Nat
    BY <1>1, <2>3
  <2> QED BY <2>3, <2>4
<1>11. \A k \in 0 .. L - 1 : c[k] # source
  <2> SUFFICES ASSUME NEW k \in 0 .. L - 1, c[k] = source PROVE FALSE
    OBVIOUS
  <2>1. k \in 0 .. L /\ L - k # 0
    BY <1>4
  <2> QED BY <1>1, <1>9, <2>1
<1> DEFINE First(k) == c[k] = source /\ \A j \in 0 .. k - 1 : c[j] # source
           steps == CHOOSE k \in DOMAIN c : First(k)
<1>12. L \in DOMAIN c /\ First(L)
  BY <1>1, <1>2, <1>3, <1>4, <1>10, <1>11 DEF L
<1>13. steps \in DOMAIN c /\ First(steps)
  <2> HIDE DEF First
  <2> QED BY <1>12
<1> HIDE DEF steps
<1>14. steps = L
  <2>1. steps \in Nat
    BY <1>3, <1>2, <1>13
  <2>2. ~(steps < L)
    BY <1>4, <1>11, <1>13, <2>1
  <2>3. ~(L < steps)
    BY <1>4, <1>10, <1>13, <2>1
  <2> QED BY <1>4, <2>1, <2>2, <2>3
<1>15. w = [i \in 1 .. L + 1 |-> c[L + 1 - i]]
  <2>1. w = [i \in 1 .. steps + 1 |-> c[steps + 1 - i]]
    BY <1>4 DEF WayBack, steps, c, D
  <2> QED BY <1>14, <2>1
<1> HIDE DEF w
<1>16. \A i \in 1 .. L + 1 : L + 1 - i \in 0 .. L /\ w[i] = c[L + 1 - i]
  BY <1>4, <1>15
<1>17. w \in Seq(Ids(g)) /\ Len(w) = L + 1
  <2>1. w \in [1 .. L + 1 -> Ids(g)]
    BY <1>1, <1>9, <1>15, <1>16
  <2>2. L + 1 \in Nat
    BY <1>4
  <2> QED BY <2>1, <2>2
<1>18. w[1] = source /\ w[L + 1] = target
  <2>1. 1 \in 1 .. L + 1 /\ L + 1 \in 1 .. L + 1 /\ L + 1 - 1 = L /\ L + 1 - (L + 1) = 0
    BY <1>4
  <2> QED BY <1>3, <1>10, <1>16, <2>1
<1>19. ASSUME NEW i \in 1 .. L PROVE Adjacent(g, w[i], w[i + 1])
  <2> DEFINE k == L - i
  <2>1. k \in 0 .. L - 1 /\ k \in 0 .. N - 1 /\ k \in 0 .. L /\ L + 1 - i = k + 1 /\ L + 1 - (i + 1) = k
        /\ i \in 1 .. L + 1 /\ i + 1 \in 1 .. L + 1
    BY <1>1, <1>2, <1>4 DEF L
  <2> HIDE DEF k
  <2>2. w[i] = c[k + 1] /\ w[i + 1] = c[k]
    BY <1>16, <2>1
  <2>3. c[k + 1] = s.back[c[k]]
    BY <1>3, <2>1
  <2>4. c[k] \in D \ {source}
    BY <1>9, <1>11, <2>1
  <2> QED BY <1>1, <2>2, <2>3, <2>4
<1> QED BY <1>17, <1>18, <1>19 DEF IsWay, w, L

\* There is a path iff there is one, and it is a shortest one.
LEMMA PathSound ==
  ASSUME NEW g, IsClosed(g), NEW source \in Ids(g), NEW target \in Ids(g), target # source
  PROVE  LET way == ShortestPath(g, source, target) IN
         /\ way # << >> => \E d : IsAway(g, source, target, d) /\ IsWay(g, way, source, target, d)
         /\ \A d \in Nat : target \in Ball(g, source, d) => way # << >>
<1> DEFINE s == Explored(g, source, target)
           way == ShortestPath(g, source, target)
<1>1. /\ Traced(g, source, s)
      /\ target \in DOMAIN s.back => IsAway(g, source, target, s.dist[target])
      /\ \A d \in Nat : target \in Ball(g, source, d) => target \in DOMAIN s.back
  BY SearchSound
<1>2. way = WayBack(s.back, source, target)
  BY DEF ShortestPath
<1> HIDE DEF s
<1>3. ASSUME target \in DOMAIN s.back
      PROVE  /\ IsAway(g, source, target, s.dist[target])
             /\ IsWay(g, way, source, target, s.dist[target]) /\ way # << >>
  <2>1. IsWay(g, way, source, target, s.dist[target])
    BY <1>1, <1>2, <1>3, WayBackSound
  <2>2. IsAway(g, source, target, s.dist[target])
    BY <1>1, <1>3
  <2>3. way # << >>
    <3>1. Len(way) = s.dist[target] + 1 /\ s.dist[target] \in Nat
      BY <2>1, <2>2 DEF IsWay, IsAway
    <3> QED BY <3>1
  <2> QED BY <2>1, <2>2, <2>3
<1>4. target \notin DOMAIN s.back => way = << >>
  BY <1>2 DEF WayBack
<1> QED BY <1>1, <1>3, <1>4

\* The depth that a node is labelled with is its distance.
LEMMA DepthSound ==
  ASSUME NEW g, IsClosed(g), NEW anchor \in Ids(g)
  PROVE  \A n, d : d \in Nat /\ n \in Ball(g, anchor, d) =>
           /\ n \in DOMAIN GraphDistance(g, anchor)
           /\ IsAway(g, anchor, n, GraphDistance(g, anchor)[n])
<1> DEFINE s == Explored(g, anchor, NoNode)
<1>1. NoNode \notin Ids(g)
  BY DEF IsClosed, IsGraph, Ids
<1>2. /\ Traced(g, anchor, s)
      /\ NoNode \notin DOMAIN s.back =>
              \A n, d : d \in Nat /\ n \in Ball(g, anchor, d) =>
                n \in DOMAIN s.back /\ IsAway(g, anchor, n, s.dist[n])
  BY <1>1, SearchSound
<1>3. DOMAIN s.dist = DOMAIN s.back /\ DOMAIN s.back \subseteq Ids(g)
  <2>1. s \in States(g) /\ DOMAIN s.dist = DOMAIN s.back
    BY <1>2 DEF Traced
  <2> HIDE DEF s
  <2> QED BY <2>1 DEF States
<1>4. GraphDistance(g, anchor) = s.dist
  BY DEF GraphDistance
<1> QED BY <1>1, <1>2, <1>3, <1>4

\* Distances are those of the nodes that can be reached.
LEMMA DistancesSound ==
  ASSUME NEW g, IsClosed(g), NEW anchor \in Ids(g)
  PROVE  LET dist == GraphDistance(g, anchor) IN
         /\ DOMAIN dist \subseteq Ids(g) /\ anchor \in DOMAIN dist
         /\ \A n \in DOMAIN dist : IsAway(g, anchor, n, dist[n])
<1> DEFINE s == Explored(g, anchor, NoNode)
           dist == GraphDistance(g, anchor)
<1>1. NoNode \notin Ids(g)
  BY DEF IsClosed, IsGraph, Ids
<1>2. Traced(g, anchor, s)
  BY <1>1, SearchSound
<1>3. dist = s.dist
  BY DEF GraphDistance
<1>4. DOMAIN s.dist = DOMAIN s.back /\ DOMAIN s.back \subseteq Ids(g) /\ anchor \in DOMAIN s.back
  <2>1. s \in States(g) /\ DOMAIN s.dist = DOMAIN s.back /\ anchor \in DOMAIN s.back
    BY <1>2 DEF Traced
  <2> HIDE DEF s
  <2> QED BY <2>1 DEF States
<1>5. ASSUME NEW n \in DOMAIN dist PROVE IsAway(g, anchor, n, dist[n])
  <2>1. s.dist[n] \in Nat /\ n \in Ball(g, anchor, s.dist[n])
    BY <1>2, <1>3, <1>4, <1>5, TracedInBalls
  <2> QED BY <2>1, DepthSound
<1> QED BY <1>3, <1>4, <1>5

-----------------------------------------------------------------------------
(* The scene.                                                              *)

\* Before is an order of all indices.
LEMMA BeforeFacts ==
  ASSUME NEW N \in Nat, NEW key \in [1 .. N -> Int]
  PROVE  /\ \A i \in 1 .. N : /\ IsFiniteSet(Before(key, i)) /\ Cardinality(Before(key, i)) \in Nat
                              /\ i \notin Before(key, i)
         /\ \A i, j \in 1 .. N : i \in Before(key, j) =>
              Before(key, i) \subseteq Before(key, j)
                /\ Cardinality(Before(key, i)) < Cardinality(Before(key, j))
         /\ \A i, j \in 1 .. N : i = j \/ i \in Before(key, j) \/ j \in Before(key, i)
<1>1. IsFiniteSet(1 .. N)
  BY FS_Interval
<1>2. ASSUME NEW i \in 1 .. N
      PROVE  /\ Before(key, i) \subseteq 1 .. N
             /\ IsFiniteSet(Before(key, i)) /\ Cardinality(Before(key, i)) \in Nat
             /\ i \notin Before(key, i)
  <2>1. Before(key, i) \subseteq 1 .. N
    BY DEF Before
  <2>2. i \notin Before(key, i)
    BY DEF Before
  <2> QED BY <1>1, <2>1, <2>2, FS_Subset, FS_CardinalityType
<1>3. ASSUME NEW i \in 1 .. N, NEW j \in 1 .. N, i \in Before(key, j)
      PROVE  /\ Before(key, i) \subseteq Before(key, j)
             /\ Cardinality(Before(key, i)) < Cardinality(Before(key, j))
  <2>1. Before(key, i) \subseteq Before(key, j)
    BY <1>3 DEF Before
  <2>2. Before(key, i) # Before(key, j)
    BY <1>2, <1>3
  <2> QED BY <1>2, <2>1, <2>2, FS_Subset
<1>4. ASSUME NEW i \in 1 .. N, NEW j \in 1 .. N, i # j
      PROVE  i \in Before(key, j) \/ j \in Before(key, i)
  <2>1. key[i] \in Int /\ key[j] \in Int /\ i \in Int /\ j \in Int
    OBVIOUS
  <2>2. key[i] > key[j] \/ key[j] > key[i] \/ (key[i] = key[j] /\ (i < j \/ j < i))
    BY <1>4, <2>1
  <2>3. i \in DOMAIN key /\ j \in DOMAIN key
    OBVIOUS
  <2>4. ASSUME i \notin Before(key, j) PROVE ~(key[i] > key[j]) /\ ~(key[i] = key[j] /\ i < j)
    BY <2>3, <2>4 DEF Before
  <2>5. ASSUME j \notin Before(key, i) PROVE ~(key[j] > key[i]) /\ ~(key[i] = key[j] /\ j < i)
    BY <2>3, <2>5 DEF Before
  <2> QED BY <2>2, <2>4, <2>5
<1> QED BY <1>2, <1>3, <1>4

\* The first n indices are at most n, have everything with a greater key, and have the greatest.
LEMMA FirstByBound ==
  ASSUME NEW N \in Nat, NEW key \in [1 .. N -> Int], NEW n \in Nat
  PROVE  /\ FirstBy(n, key) \subseteq 1 .. N /\ IsFiniteSet(FirstBy(n, key))
         /\ Cardinality(FirstBy(n, key)) <= n
         /\ \A i \in FirstBy(n, key) : \A j \in 1 .. N : key[j] > key[i] => j \in FirstBy(n, key)
         /\ n # 0 => \A i \in 1 .. N : (\A j \in 1 .. N : key[j] <= key[i] /\ (j = i \/ key[j] # key[i])) =>
              i \in FirstBy(n, key)
<1> DEFINE F == FirstBy(n, key)
           C(i) == Cardinality(Before(key, i))
<1>1. F = {i \in 1 .. N : C(i) < n}
  BY DEF FirstBy
<1>2. F \subseteq 1 .. N /\ IsFiniteSet(F)
  BY <1>1, FS_Interval, FS_Subset
<1>3. ASSUME NEW i \in F, NEW j \in 1 .. N, key[j] > key[i] PROVE j \in F
  <2>1. i \in 1 .. N /\ C(i) < n
    BY <1>1, <1>3
  <2>3. j \in Before(key, i)
    <3>1. j \in DOMAIN key
      OBVIOUS
    <3> QED BY ONLY <1>3, <3>1 DEF Before
  <2>2. C(j) < C(i) /\ C(j) \in Nat /\ C(i) \in Nat
    BY <2>1, <2>3, BeforeFacts
  <2> QED BY <1>1, <2>1, <2>2
<1>4. ASSUME n # 0, NEW i \in 1 .. N,
             \A j \in 1 .. N : key[j] <= key[i] /\ (j = i \/ key[j] # key[i])
      PROVE  i \in F
  <2>1. Before(key, i) = {}
    BY <1>4 DEF Before
  <2>2. C(i) = 0
    BY <2>1, FS_EmptySet
  <2> QED BY <1>1, <1>4, <2>2
<1>5. Cardinality(F) <= n
  <2>1. CASE F = {}
    BY <2>1, FS_EmptySet
  <2>2. CASE F # {}
    <3> DEFINE T == {n - C(i) : i \in F}
    <3> HIDE DEF F, C
    <3>1. T \subseteq Nat /\ T # {}
      BY <1>1, <2>2, BeforeFacts DEF C
    <3>2. PICK m \in T : \A k \in T : ~(k < m)
      <4> HIDE DEF T
      <4> QED BY <3>1, LeastNatural
    <3>3. PICK final \in F : m = n - C(final)
      BY <3>2
    <3>4. \A i \in F : C(i) \in Nat /\ i \in 1 .. N
      BY <1>2, BeforeFacts DEF C
    <3>5. \A i \in F : ~(C(final) < C(i))
      <4> SUFFICES ASSUME NEW i \in F PROVE ~(C(final) < C(i))
        OBVIOUS
      <4>1. n - C(i) \in T
        OBVIOUS
      <4>2. ~(n - C(i) < n - C(final))
        BY <3>2, <3>3, <4>1
      <4>3. C(i) \in Nat /\ C(final) \in Nat
        BY <3>4
      <4> QED BY <4>2, <4>3
    <3>6. F \ {final} \subseteq Before(key, final)
      <4> SUFFICES ASSUME NEW i \in F, i # final, i \notin Before(key, final) PROVE FALSE
        OBVIOUS
      <4>1. final \in Before(key, i)
        BY <3>4, BeforeFacts
      <4>2. C(final) < C(i)
        BY <3>4, <4>1, BeforeFacts DEF C
      <4> QED BY <3>5, <4>2
    <3>7. IsFiniteSet(Before(key, final)) /\ C(final) \in Nat /\ C(final) < n
      BY <1>1, <3>4, BeforeFacts DEF C
    <3>8. Cardinality(F \ {final}) <= C(final) /\ Cardinality(F \ {final}) = Cardinality(F) - 1
          /\ Cardinality(F) \in Nat
      BY <1>2, <3>6, <3>7, FS_Subset, FS_RemoveElement, FS_CardinalityType DEF C
    <3> QED BY <3>7, <3>8
  <2> QED BY <2>1, <2>2
<1> QED BY <1>2, <1>3, <1>4, <1>5

KeyOf(confidence, most, nodes, distance) == confidence + most * (nodes - distance)

\* A nearer node has a greater key, whatever the confidences are.
LEMMA KeysByDistance ==
  ASSUME NEW M \in Nat, NEW N \in Nat, NEW c \in 0 .. M - 1, NEW d \in 0 .. M - 1,
         NEW x \in Nat, NEW y \in Nat, x < y
  PROVE  KeyOf(c, M, N, x) > KeyOf(d, M, N, y)
<1>1. M * (N - x) = M * (N - y) + M * (y - x)
  OBVIOUS
<1>2. M * (y - x) >= M
  <2>1. M * (y - x) = M + M * (y - x - 1)
    OBVIOUS
  <2>2. y - x - 1 \in Nat
    OBVIOUS
  <2>3. \A k \in Nat : M * k \in Nat
    OBVIOUS
  <2> QED BY <2>1, <2>2, <2>3
<1>3. M * (N - x) \in Int /\ M * (N - y) \in Int /\ M * (y - x) \in Int
  OBVIOUS
<1> QED BY <1>1, <1>2, <1>3 DEF KeyOf

\* The most certain edges are at most n; one is left out only if there are more than n, and
\* it is not more certain than any that is kept.
LEMMA CutEdges ==
  ASSUME NEW g, IsGraph(g), NEW n \in Nat
  PROVE  LET w == WithEdges(g, n) IN
         /\ w.nodes = g.nodes /\ EdgesOf(w) \subseteq EdgesOf(g) /\ Len(w.edges) <= n
         /\ \A e \in EdgesOf(g) \ EdgesOf(w) :
              Len(g.edges) > n /\ \A f \in EdgesOf(w) : e.confidence <= f.confidence
<1> DEFINE w == WithEdges(g, n)
           c == Confidences(g.edges)
           M == Len(g.edges)
           F == FirstBy(n, c)
<1>1. w.nodes = g.nodes /\ w.edges = Picked(g.edges, F)
  BY DEF WithEdges
<1>2. /\ M \in Nat /\ DOMAIN g.edges = 1 .. M /\ IsSeq(g.edges)
      /\ EdgesOf(g) = {g.edges[i] : i \in 1 .. M}
  BY SeqParts DEF IsGraph, EdgesOf
<1>3. c \in [1 .. M -> Int] /\ \A i \in 1 .. M : c[i] = g.edges[i].confidence
  <2>1. \A i \in 1 .. M : g.edges[i].confidence \in Int
    BY <1>2 DEF IsGraph, EdgesOf
  <2> HIDE DEF M
  <2> QED BY <1>2, <2>1 DEF Confidences
<1> HIDE DEF c, M, w
<1>4. F \subseteq 1 .. M /\ Cardinality(F) <= n
      /\ \A i \in F : \A j \in 1 .. M : c[j] > c[i] => j \in F
  BY <1>2, <1>3, FirstByBound
<1>5. ASSUME NEW i \in 1 .. M, i \notin F PROVE M > n
  <2>1. Cardinality(Before(c, i)) >= n
    <3>1. i \in DOMAIN c /\ Cardinality(Before(c, i)) \in Nat
      BY <1>2, <1>3, BeforeFacts
    <3> QED BY <1>5, <3>1 DEF FirstBy
  <2>2. Before(c, i) \subseteq (1 .. M) \ {i}
    BY <1>3 DEF Before
  <2>3. IsFiniteSet(1 .. M) /\ Cardinality(1 .. M) = M
    BY <1>2, FS_Interval
  <2>4. IsFiniteSet((1 .. M) \ {i}) /\ Cardinality((1 .. M) \ {i}) = M - 1
    BY <2>3, FS_RemoveElement
  <2>5. Cardinality(Before(c, i)) <= M - 1 /\ Cardinality(Before(c, i)) \in Nat
    BY <2>2, <2>4, FS_Subset, FS_CardinalityType
  <2> QED BY <1>2, <2>1, <2>5
<1>6. IsSublist(w.edges, g.edges, F)
  BY <1>1, <1>2, PickedSound
<1> HIDE DEF F
<1>7. F \cap DOMAIN g.edges = F
  BY <1>2, <1>4
<1>8. EdgesOf(w) = {g.edges[i] : i \in F} /\ Len(w.edges) <= n
  BY <1>4, <1>6, <1>7 DEF IsSublist, EdgesOf
<1>9. ASSUME NEW e \in EdgesOf(g) \ EdgesOf(w)
      PROVE  M > n /\ \A f \in EdgesOf(w) : e.confidence <= f.confidence
  <2>1. PICK i \in 1 .. M : e = g.edges[i]
    BY <1>2
  <2>2. i \notin F
    BY <1>8, <1>9, <2>1
  <2>3. ASSUME NEW f \in EdgesOf(w) PROVE e.confidence <= f.confidence
    <3>1. PICK j \in F : f = g.edges[j]
      BY <1>8
    <3>2. j \in 1 .. M /\ ~(c[i] > c[j]) /\ c[i] \in Int /\ c[j] \in Int
      BY <1>3, <1>4, <2>2
    <3>3. c[i] <= c[j]
      BY <3>2
    <3> QED BY <1>3, <2>1, <3>1, <3>2, <3>3
  <2> QED BY <1>5, <2>2, <2>3
<1>10. EdgesOf(w) \subseteq EdgesOf(g)
  BY <1>2, <1>4, <1>8
<1> QED BY <1>1, <1>8, <1>9, <1>10 DEF w, M

\* What the budget keeps: nodes that are at most as many as it allows, the anchor, and with
\* a node all that is nearer.
NodesKept(p, ids, anchor, maxNodes) ==
  LET dist == GraphDistance(p, anchor)
      a == Among(p, ids)
  IN /\ ids \subseteq Ids(p) /\ anchor \in ids
     /\ IsGraph(a) /\ Ids(a) = ids /\ Len(a.nodes) <= maxNodes
     /\ \A n \in ids \cap DOMAIN dist, m \in DOMAIN dist : dist[m] < dist[n] => m \in ids

Nearest(p, anchor, maxNodes) ==
  {p.nodes[i].id : i \in FirstBy(maxNodes, Nearness(p, GraphDistance(p, anchor)))}

LEMMA NearestSound ==
  ASSUME NEW p, IsClosed(p), NEW anchor \in Ids(p), NEW maxNodes \in Nat \ {0}
  PROVE  NodesKept(p, Nearest(p, anchor, maxNodes), anchor, maxNodes)
<1> DEFINE N == Len(p.nodes)
           dist == GraphDistance(p, anchor)
           key == Nearness(p, dist)
           ids == Nearest(p, anchor, maxNodes)
           a == Among(p, ids)
           depth == [n \in Ids(p) |-> IF n \in DOMAIN dist THEN dist[n] ELSE N]
<1>1. /\ N \in Nat /\ DOMAIN p.nodes = 1 .. N /\ Ids(p) = {p.nodes[i].id : i \in 1 .. N}
      /\ \A i \in 1 .. N : p.nodes[i] \in ToSet(p.nodes)
  <2>1. IsSeq(p.nodes)
    BY DEF IsClosed, IsGraph
  <2>2. /\ Len(p.nodes) \in Nat /\ DOMAIN p.nodes = 1 .. Len(p.nodes)
        /\ ToSet(p.nodes) = {p.nodes[i] : i \in 1 .. Len(p.nodes)}
    BY ONLY <2>1, SeqParts
  <2>3. Ids(p) = {p.nodes[i].id : i \in 1 .. Len(p.nodes)}
    BY ONLY <2>2 DEF Ids
  <2> QED BY <2>2, <2>3
<1>2. PICK top \in 1 .. N : p.nodes[top].id = anchor
  BY <1>1
<1>3. /\ DOMAIN dist \subseteq Ids(p) /\ anchor \in DOMAIN dist
      /\ \A n \in DOMAIN dist : IsAway(p, anchor, n, dist[n])
  BY DistancesSound
<1>4. /\ \A n \in DOMAIN dist : dist[n] \in Nat /\ (dist[n] = 0 <=> n = anchor)
      /\ dist[anchor] = 0
  <2> SUFFICES ASSUME NEW n \in DOMAIN dist PROVE dist[n] \in Nat /\ (dist[n] = 0 <=> n = anchor)
    BY <1>3
  <2>1. IsAway(p, anchor, n, dist[n])
    BY <1>3
  <2> QED BY <2>1, NearerNeighbor DEF IsAway
<1> HIDE DEF dist
<1>5. /\ \A n \in Ids(p) : depth[n] \in Nat /\ (n # anchor => depth[n] > 0)
      /\ depth[anchor] = 0
      /\ \A n \in DOMAIN dist : depth[n] = dist[n]
  <2>1. N \in Nat \ {0}
    BY <1>1, <1>2
  <2> HIDE DEF N
  <2>2. ASSUME NEW n \in Ids(p) PROVE depth[n] \in Nat /\ (n # anchor => depth[n] > 0)
    BY <1>4, <2>1
  <2>3. depth[anchor] = 0 /\ \A n \in DOMAIN dist : depth[n] = dist[n]
    BY <1>3, <1>4
  <2> QED BY <2>2, <2>3
<1>6. \A i \in 1 .. N : p.nodes[i].id \in Ids(p) /\ p.nodes[i].confidence \in 0 .. MaxConfidence - 1
  BY <1>1 DEF IsClosed, IsGraph
<1>7. MaxConfidence \in Nat \ {0}
  <2>1. p.nodes[top].confidence \in 0 .. MaxConfidence - 1
    BY <1>6
  <2> QED BY <2>1, ConfidencesAssumption
<1>8. /\ key \in [1 .. N -> Int]
      /\ \A i \in 1 .. N : key[i] = KeyOf(p.nodes[i].confidence, MaxConfidence, N, depth[p.nodes[i].id])
  <2>1. key = [i \in 1 .. N |-> p.nodes[i].confidence + MaxConfidence * (N - depth[p.nodes[i].id])]
    BY <1>1, <1>6 DEF Nearness
  <2>2. \A i \in 1 .. N : p.nodes[i].confidence + MaxConfidence * (N - depth[p.nodes[i].id]) \in Int
    <3> SUFFICES ASSUME NEW i \in 1 .. N
                 PROVE  p.nodes[i].confidence + MaxConfidence * (N - depth[p.nodes[i].id]) \in Int
      OBVIOUS
    <3>1. depth[p.nodes[i].id] \in Nat /\ p.nodes[i].confidence \in Int
      BY <1>5, <1>6, <1>7
    <3>2. N - depth[p.nodes[i].id] \in Int /\ MaxConfidence \in Int
      BY <1>1, <1>7, <3>1
    <3> QED BY <3>1, <3>2
  <2> HIDE DEF key, depth
  <2> QED BY <2>1, <2>2 DEF KeyOf
<1> HIDE DEF key, depth
<1>9. \A i, j \in 1 .. N : depth[p.nodes[i].id] < depth[p.nodes[j].id] => key[i] > key[j]
  <2> SUFFICES ASSUME NEW i \in 1 .. N, NEW j \in 1 .. N,
                      depth[p.nodes[i].id] < depth[p.nodes[j].id]
               PROVE  key[i] > key[j]
    OBVIOUS
  <2> DEFINE c == p.nodes[i].confidence
             d == p.nodes[j].confidence
             x == depth[p.nodes[i].id]
             y == depth[p.nodes[j].id]
  <2>1. /\ c \in 0 .. MaxConfidence - 1 /\ d \in 0 .. MaxConfidence - 1
        /\ x \in Nat /\ y \in Nat /\ x < y /\ MaxConfidence \in Nat /\ N \in Nat
    BY <1>1, <1>5, <1>6, <1>7
  <2>2. key[i] = KeyOf(c, MaxConfidence, N, x) /\ key[j] = KeyOf(d, MaxConfidence, N, y)
    BY <1>8
  <2> HIDE DEF c, d, x, y, N
  <2>3. KeyOf(c, MaxConfidence, N, x) > KeyOf(d, MaxConfidence, N, y)
    BY ONLY <2>1, KeysByDistance
  <2> QED BY <2>2, <2>3
<1>10. \A i \in 1 .. N : key[i] <= key[top] /\ (i = top \/ key[i] # key[top])
  <2> SUFFICES ASSUME NEW i \in 1 .. N, i # top PROVE key[i] < key[top]
    <3>1. \A i \in 1 .. N : key[i] \in Int
      BY <1>8
    <3> QED BY <3>1
  <2>1. p.nodes[i].id # anchor
    BY <1>1, <1>2 DEF IsClosed, IsGraph
  <2>2. depth[p.nodes[top].id] < depth[p.nodes[i].id]
    BY <1>2, <1>5, <1>6, <2>1
  <2>3. key[top] > key[i] /\ key[top] \in Int /\ key[i] \in Int
    BY <1>8, <1>9, <2>2
  <2> QED BY <2>3
<1> DEFINE F == FirstBy(maxNodes, key)
<1>11. /\ F \subseteq 1 .. N /\ IsFiniteSet(F) /\ Cardinality(F) <= maxNodes
       /\ \A i \in F : \A j \in 1 .. N : key[j] > key[i] => j \in F
       /\ top \in F
  <2>1. maxNodes \in Nat /\ maxNodes # 0
    OBVIOUS
  <2> QED BY <1>1, <1>8, <1>10, <2>1, FirstByBound
<1> HIDE DEF F
<1>12. ids = {p.nodes[i].id : i \in F}
  BY DEF F, Nearest, key, dist
<1> HIDE DEF ids
<1>13. ids \subseteq Ids(p) /\ anchor \in ids
  BY <1>1, <1>2, <1>11, <1>12
<1>14. IsGraph(a) /\ Ids(a) = ids /\ Len(a.nodes) = Cardinality(F)
  <2> DEFINE I == {i \in DOMAIN p.nodes : p.nodes[i].id \in ids}
  <2>1. IsGraph(p)
    BY DEF IsClosed
  <2>2. Ids(a) = Ids(p) \cap ids /\ IsGraph(a)
    BY ONLY <2>1, AmongGraph
  <2>3. I = F
    BY <1>1, <1>11, <1>12 DEF IsClosed, IsGraph
  <2>4. a.nodes = Picked(p.nodes, I)
    BY DEF Among
  <2> HIDE DEF I, a
  <2>5. IsSublist(a.nodes, p.nodes, F)
    BY <2>1, <2>3, <2>4, PickedSound DEF IsGraph
  <2>6. F \cap DOMAIN p.nodes = F
    BY <1>1, <1>11
  <2>7. Len(a.nodes) = Cardinality(F)
    BY <2>5, <2>6 DEF IsSublist
  <2> QED BY <1>13, <2>2, <2>7
<1>15. ASSUME NEW n \in ids \cap DOMAIN dist, NEW m \in DOMAIN dist, dist[m] < dist[n] PROVE m \in ids
  <2>1. PICK i \in F : n = p.nodes[i].id
    BY <1>12
  <2>2. PICK j \in 1 .. N : m = p.nodes[j].id
    BY <1>1, <1>3
  <2>3. depth[m] < depth[n]
    BY <1>5, <1>15
  <2>4. j \in F
    BY <1>9, <1>11, <2>1, <2>2, <2>3
  <2> QED BY <1>12, <2>2, <2>4
<1>16. Len(a.nodes) <= maxNodes
  BY <1>11, <1>14
<1>17. NodesKept(p, ids, anchor, maxNodes)
  BY <1>13, <1>14, <1>15, <1>16 DEF NodesKept, dist
<1> QED BY <1>17 DEF ids

\* What is drawn of a graph keeps the budget and the anchor, and the way one step back from
\* each node, as far as the budget has room for its edge.
LEMMA SceneSound ==
  ASSUME NEW p, IsClosed(p), NEW anchor \in Ids(p), MaxNodes \in Nat \ {0}, MaxEdges \in Nat
  PROVE  IsScene(p, ApplySceneBudget(p, MaxNodes, MaxEdges, anchor), anchor)
<1> DEFINE scene == ApplySceneBudget(p, MaxNodes, MaxEdges, anchor)
           dist == GraphDistance(p, anchor)
<1>1. /\ DOMAIN dist \subseteq Ids(p) /\ anchor \in DOMAIN dist
      /\ \A n \in DOMAIN dist : IsAway(p, anchor, n, dist[n])
  BY DistancesSound
<1>2. ASSUME NEW n \in DOMAIN dist, n # anchor
      PROVE  \E m \in DOMAIN dist : Adjacent(p, n, m) /\ dist[m] = dist[n] - 1 /\ dist[m] < dist[n]
  <2>1. IsAway(p, anchor, n, dist[n])
    BY <1>1
  <2>2. PICK m \in Ids(p) : Adjacent(p, n, m) /\ IsAway(p, anchor, m, dist[n] - 1)
    BY <1>2, <2>1, NearerNeighbor
  <2>3. m \in DOMAIN dist /\ IsAway(p, anchor, m, dist[m])
    BY <2>2, DepthSound DEF IsAway
  <2>4. dist[m] = dist[n] - 1
    BY <2>2, <2>3, AwayUnique
  <2>5. dist[m] < dist[n]
    BY <2>1, <2>4 DEF IsAway
  <2> QED BY <2>2, <2>3, <2>4, <2>5
<1> HIDE DEF dist
<1>3. CASE Len(p.nodes) <= MaxNodes /\ Len(p.edges) <= MaxEdges
  <2>1. scene = [nodes |-> p.nodes, edges |-> p.edges]
    BY <1>3 DEF ApplySceneBudget
  <2>2. /\ Len(scene.nodes) <= MaxNodes /\ Len(scene.edges) <= MaxEdges
        /\ Ids(scene) = Ids(p) /\ EdgesOf(scene) = EdgesOf(p)
    BY <1>3, <2>1 DEF Ids, EdgesOf
  <2> HIDE DEF scene
  <2>3. EdgesOf(scene) \subseteq {e \in EdgesOf(p) : Joins(e, Ids(scene))}
    BY <2>2 DEF IsClosed
  <2>4. ASSUME NEW n \in (Ids(scene) \cap DOMAIN dist) \ {anchor}
        PROVE  \E m \in Ids(scene) : LeadsBack(p, scene, dist, n, m)
    <3>1. PICK m \in DOMAIN dist : Adjacent(p, n, m) /\ dist[m] = dist[n] - 1
      BY <1>2
    <3>2. Adjacent(scene, n, m) /\ m \in Ids(scene)
      BY <1>1, <2>2, <3>1 DEF Adjacent
    <3> QED BY <3>1, <3>2 DEF LeadsBack
  <2> QED BY <2>2, <2>3, <2>4 DEF IsScene, dist, scene
<1>4. CASE ~(Len(p.nodes) <= MaxNodes /\ Len(p.edges) <= MaxEdges)
  <2> DEFINE ids == Nearest(p, anchor, MaxNodes)
             a == Among(p, ids)
  <2>1. scene = WithEdges(a, MaxEdges)
    BY <1>4 DEF ApplySceneBudget, Nearest
  <2>2. NodesKept(p, ids, anchor, MaxNodes)
    BY NearestSound
  <2> HIDE DEF ids, scene
  <2>3. /\ ids \subseteq Ids(p) /\ anchor \in ids
        /\ IsGraph(a) /\ Ids(a) = ids /\ Len(a.nodes) <= MaxNodes
        /\ \A n \in ids \cap DOMAIN dist, m \in DOMAIN dist : dist[m] < dist[n] => m \in ids
    BY <2>2 DEF NodesKept, dist
  <2>4. EdgesOf(a) = {e \in EdgesOf(p) : Joins(e, ids)}
    <3>1. IsGraph(p)
      BY DEF IsClosed
    <3> QED BY ONLY <3>1, AmongGraph
  <2> HIDE DEF a
  <2>5. /\ scene.nodes = a.nodes /\ EdgesOf(scene) \subseteq EdgesOf(a) /\ Len(scene.edges) <= MaxEdges
        /\ \A e \in EdgesOf(a) \ EdgesOf(scene) :
             Len(a.edges) > MaxEdges /\ \A f \in EdgesOf(scene) : e.confidence <= f.confidence
    BY <2>1, <2>3, CutEdges
  <2>6. Ids(scene) = ids
    BY <2>3, <2>5 DEF Ids
  <2>7. Among(p, Ids(scene)) = a
    BY <2>6 DEF a
  <2>8. ASSUME NEW n \in (Ids(scene) \cap DOMAIN dist) \ {anchor}
        PROVE  \E m \in Ids(scene) : LeadsBack(p, scene, dist, n, m)
    <3>1. PICK m \in DOMAIN dist : Adjacent(p, n, m) /\ dist[m] = dist[n] - 1 /\ dist[m] < dist[n]
      BY <1>2
    <3>2. m \in ids /\ n \in ids
      BY <2>3, <2>6, <3>1
    <3>3. PICK e \in EdgesOf(p) : {e.source, e.target} = {n, m}
      BY <3>1 DEF Adjacent
    <3>4. e \in EdgesOf(a)
      BY <2>4, <3>2, <3>3 DEF Joins
    <3>5. CASE Adjacent(scene, n, m)
      BY <2>6, <3>1, <3>2, <3>5 DEF LeadsBack
    <3>6. CASE ~Adjacent(scene, n, m)
      <4>1. \A x \in EdgesOf(a) : {x.source, x.target} = {n, m} => x \notin EdgesOf(scene)
        BY <3>6 DEF Adjacent
      <4>2. Len(a.edges) > MaxEdges
        BY <2>5, <3>3, <3>4, <4>1
      <4>3. \A x \in EdgesOf(a), f \in EdgesOf(scene) :
              {x.source, x.target} = {n, m} => x.confidence <= f.confidence
        BY <2>5, <4>1
      <4> QED BY <2>6, <2>7, <3>1, <3>2, <4>2, <4>3 DEF LeadsBack
    <3> QED BY <3>5, <3>6
  <2> QED BY <2>3, <2>4, <2>5, <2>6, <2>8 DEF IsScene, dist, scene
<1> QED BY <1>3, <1>4

-----------------------------------------------------------------------------
(* The neighborhood of a focus.                                            *)

IsNear(f, g, anchor, bound) ==
  f = [d \in 0 .. bound |->
         [x \in Ids(g) |-> \/ x = anchor
                           \/ d > 0 /\ \E y \in Ids(g) : Adjacent(g, x, y) /\ f[d - 1][y]]]

\* The reference definition of a neighborhood agrees with balls.
LEMMA NearIsBall ==
  ASSUME NEW g, IsClosed(g), NEW anchor \in Ids(g), NEW bound \in Nat
  PROVE  \A d \in 0 .. bound : \A x \in Ids(g) :
           Near(g, anchor, bound)[d][x] <=> x \in Ball(g, anchor, d)
<1> DEFINE f == [d \in 0 .. bound |-> [x \in Ids(g) |-> x \in Ball(g, anchor, d)]]
           q == CHOOSE r : IsNear(r, g, anchor, bound)
           Reaches(r, d, x) == x = anchor \/ (d > 0 /\ \E y \in Ids(g) : Adjacent(g, x, y) /\ r[d - 1][y])
<1>1. \A d \in Nat : \A x \in Ids(g) :
        x \in Ball(g, anchor, d + 1) <=>
          x = anchor \/ \E y \in Ids(g) : Adjacent(g, x, y) /\ y \in Ball(g, anchor, d)
  <2> SUFFICES ASSUME NEW d \in Nat, NEW x \in Ids(g)
               PROVE  x \in Ball(g, anchor, d + 1) <=>
                        x = anchor \/ \E y \in Ids(g) : Adjacent(g, x, y) /\ y \in Ball(g, anchor, d)
    OBVIOUS
  <2>1. Ball(g, anchor, d + 1) = Ball(g, anchor, d) \cup Around(g, Ball(g, anchor, d))
        /\ Ball(g, anchor, d) \subseteq Ids(g)
    BY BallSteps
  <2>2. Ball(g, anchor, d) \subseteq {anchor} \cup Around(g, Ball(g, anchor, d))
    BY BallGrows
  <2>3. anchor \in Ball(g, anchor, d)
    <3>1. Ball(g, anchor, 0) = {anchor} /\ 0 \in Nat /\ 0 <= d
      BY BallSteps
    <3> QED BY <3>1, BallGrows
  <2>4. x \in Around(g, Ball(g, anchor, d)) <=>
          \E y \in Ids(g) : Adjacent(g, x, y) /\ y \in Ball(g, anchor, d)
    BY <2>1 DEF Around
  <2> QED BY <2>1, <2>2, <2>3, <2>4
<1>2. \A x \in Ids(g) : x \in Ball(g, anchor, 0) <=> x = anchor
  BY BallSteps
<1>3. ASSUME NEW d \in 0 .. bound, NEW x \in Ids(g)
      PROVE  f[d][x] <=> Reaches(f, d, x)
  <2>1. f[d][x] <=> x \in Ball(g, anchor, d)
    OBVIOUS
  <2>2. CASE d = 0
    BY <1>2, <2>1, <2>2
  <2>3. CASE d # 0
    <3>1. d - 1 \in Nat /\ d - 1 \in 0 .. bound /\ (d - 1) + 1 = d /\ d > 0
      BY <2>3
    <3>2. \A y \in Ids(g) : f[d - 1][y] <=> y \in Ball(g, anchor, d - 1)
      BY <3>1
    <3>3. x \in Ball(g, anchor, d) <=>
            x = anchor \/ \E y \in Ids(g) : Adjacent(g, x, y) /\ y \in Ball(g, anchor, d - 1)
      BY <1>1, <3>1
    <3> HIDE DEF f
    <3> QED BY <2>1, <3>1, <3>2, <3>3
  <2> QED BY <2>2, <2>3
<1>4. IsNear(f, g, anchor, bound)
  <2>1. \A d \in 0 .. bound : f[d] = [x \in Ids(g) |-> Reaches(f, d, x)]
    <3> SUFFICES ASSUME NEW d \in 0 .. bound PROVE f[d] = [x \in Ids(g) |-> Reaches(f, d, x)]
      OBVIOUS
    <3>1. f[d] = [x \in Ids(g) |-> x \in Ball(g, anchor, d)]
      OBVIOUS
    <3>2. \A x \in Ids(g) : (x \in Ball(g, anchor, d)) = Reaches(f, d, x)
      <4> SUFFICES ASSUME NEW x \in Ids(g) PROVE (x \in Ball(g, anchor, d)) = Reaches(f, d, x)
        OBVIOUS
      <4>1. x \in Ball(g, anchor, d) <=> Reaches(f, d, x)
        <5>1. f[d][x] <=> x \in Ball(g, anchor, d)
          OBVIOUS
        <5> HIDE DEF f, Reaches
        <5> QED BY <1>3, <5>1
      <4> HIDE DEF f
      <4> QED BY <4>1
    <3> HIDE DEF f, Reaches
    <3> QED BY <3>1, <3>2
  <2>2. f = [d \in 0 .. bound |-> f[d]]
    OBVIOUS
  <2> HIDE DEF f
  <2> QED BY <2>1, <2>2 DEF IsNear
<1>5. IsNear(q, g, anchor, bound)
  <2> HIDE DEF f
  <2> QED BY <1>4
<1>6. Near(g, anchor, bound) = q
  BY DEF Near, IsNear
<1> HIDE DEF q, f
<1> DEFINE S == {d \in 0 .. bound : \A x \in Ids(g) : q[d][x] <=> x \in Ball(g, anchor, d)}
<1>7. \A d \in 0 .. bound : \A x \in Ids(g) : q[d][x] <=> Reaches(q, d, x)
  BY <1>5 DEF IsNear
<1>8. 0 \in S
  <2>1. 0 \in 0 .. bound
    OBVIOUS
  <2> QED BY <1>2, <1>7, <2>1
<1>9. ASSUME NEW d \in 0 .. bound - 1, d \in S PROVE d + 1 \in S
  <2>1. d + 1 \in 0 .. bound /\ (d + 1) - 1 = d /\ d + 1 > 0 /\ d \in Nat
    OBVIOUS
  <2> SUFFICES ASSUME NEW x \in Ids(g) PROVE q[d + 1][x] <=> x \in Ball(g, anchor, d + 1)
    BY <2>1
  <2>2. q[d + 1][x] <=> x = anchor \/ \E y \in Ids(g) : Adjacent(g, x, y) /\ q[d][y]
    BY <1>7, <2>1
  <2> QED BY <1>1, <1>9, <2>1, <2>2
<1> HIDE DEF S
<1>10. 0 .. bound \subseteq S
  BY <1>8, <1>9, InductionUpTo
<1> QED BY <1>6, <1>10 DEF S

\* The radii within which a node is.
LEMMA WithinHopsBalls ==
  ASSUME NEW g, IsClosed(g), NEW anchor \in Ids(g), NEW bound \in Nat, NEW n \in Ids(g)
  PROVE  WithinHops(g, anchor, n, bound) = {d \in 0 .. bound : n \in Ball(g, anchor, d)}
  BY NearIsBall DEF WithinHops

\* Balls and distances depend on nothing but ids and edges.
LEMMA SameBalls ==
  ASSUME NEW g, IsClosed(g), NEW h, IsClosed(h), Ids(h) = Ids(g), EdgesOf(h) = EdgesOf(g),
         NEW anchor \in Ids(g)
  PROVE  /\ \A d \in Nat : Ball(h, anchor, d) = Ball(g, anchor, d)
         /\ \A n, d : IsAway(h, anchor, n, d) <=> IsAway(g, anchor, n, d)
<1> DEFINE S == {d \in Nat : Ball(h, anchor, d) = Ball(g, anchor, d)}
<1>1. 0 \in S
  BY BallSteps
<1>2. ASSUME NEW d \in Nat, d \in S PROVE d + 1 \in S
  <2>1. /\ Ball(h, anchor, d + 1) = Ball(h, anchor, d) \cup Around(h, Ball(h, anchor, d))
        /\ Ball(g, anchor, d + 1) = Ball(g, anchor, d) \cup Around(g, Ball(g, anchor, d))
    BY BallSteps
  <2>2. Around(h, Ball(h, anchor, d)) = Around(g, Ball(g, anchor, d))
    BY <1>2 DEF Around, Adjacent
  <2>3. Ball(h, anchor, d) = Ball(g, anchor, d)
    BY <1>2
  <2>4. Ball(h, anchor, d + 1) = Ball(g, anchor, d + 1)
    BY <2>1, <2>2, <2>3
  <2> QED BY <2>4
<1> HIDE DEF S
<1>3. Nat \subseteq S
  BY <1>1, <1>2, Induction
<1> QED BY <1>3 DEF S, IsAway

\* The projection is the ball around the focus, labelled with the distances.
LEMMA ProjectionSound ==
  ASSUME NEW g, IsClosed(g), NEW anchor \in Ids(g), NEW radius \in Nat
  PROVE  LET p == AssociativeSubgraph(g, anchor, radius) IN
         /\ IsClosed(p) /\ Ids(p) = Ball(g, anchor, radius) /\ anchor \in Ids(p)
         /\ Ids(p) \subseteq Ids(g) /\ EdgesOf(p) \subseteq EdgesOf(g)
         /\ \A n \in Ids(p) : /\ IsAway(g, anchor, n, p.depth[n]) /\ p.depth[n] <= radius
                              /\ IsAway(p, anchor, n, p.depth[n])
<1> DEFINE b == BoundedSubgraph(g, anchor, radius)
           p == AssociativeSubgraph(g, anchor, radius)
           dist == GraphDistance(b, anchor)
<1>1. /\ IsClosed(b) /\ Ids(b) = Ball(g, anchor, radius) /\ anchor \in Ids(b)
      /\ EdgesOf(b) \subseteq EdgesOf(g)
      /\ \A d \in 0 .. radius : Ball(b, anchor, d) = Ball(g, anchor, d)
      /\ \A n, d : IsAway(b, anchor, n, d) <=> d <= radius /\ IsAway(g, anchor, n, d)
  BY CutBall
<1> HIDE DEF b
<1>2. /\ {"nodes", "edges"} \subseteq DOMAIN p /\ p.nodes = b.nodes /\ p.edges = b.edges
      /\ p.depth = [id \in Ids(b) |-> IF id \in DOMAIN dist THEN dist[id] ELSE 0]
  BY DEF AssociativeSubgraph, Measured, Labelled, b
<1> HIDE DEF p, dist
<1>3. Ids(p) = Ids(b) /\ EdgesOf(p) = EdgesOf(b)
  BY <1>2 DEF Ids, EdgesOf
<1>4. IsClosed(p)
  BY <1>1, <1>2, <1>3 DEF IsClosed, IsGraph
<1>5. ASSUME NEW n \in Ids(p)
      PROVE  IsAway(b, anchor, n, p.depth[n])
  <2>1. n \in Ball(b, anchor, radius)
    BY <1>1, <1>3
  <2>2. n \in DOMAIN dist /\ IsAway(b, anchor, n, dist[n])
    BY <1>1, <2>1, DepthSound DEF dist
  <2>3. p.depth[n] = dist[n]
    BY <1>2, <1>3, <2>2
  <2> QED BY <2>2, <2>3
<1>6. \A n, d : IsAway(p, anchor, n, d) <=> IsAway(b, anchor, n, d)
  BY <1>1, <1>3, <1>4, SameBalls
<1>7. Ball(g, anchor, radius) \subseteq Ids(g)
  BY BallSteps
<1> QED BY <1>1, <1>3, <1>4, <1>5, <1>6, <1>7 DEF p

\* Without its anchor the projection is empty.
LEMMA ProjectionOff ==
  ASSUME NEW g, NEW anchor, anchor \notin Ids(g), NEW radius
  PROVE  LET p == AssociativeSubgraph(g, anchor, radius) IN
         /\ IsClosed(p) /\ p.nodes = << >> /\ p.edges = << >> /\ Ids(p) = {} /\ EdgesOf(p) = {}
<1> DEFINE p == AssociativeSubgraph(g, anchor, radius)
<1>1. BoundedSubgraph(g, anchor, radius) = NoGraph
  BY DEF BoundedSubgraph
<1>2. {"nodes", "edges"} \subseteq DOMAIN p /\ p.nodes = NoGraph.nodes /\ p.edges = NoGraph.edges
  BY <1>1 DEF AssociativeSubgraph, Measured, Labelled
<1>3. NoGraph.nodes = << >> /\ NoGraph.edges = << >>
  BY DEF NoGraph
<1> HIDE DEF p
<1>4. Ids(p) = Ids(NoGraph) /\ EdgesOf(p) = EdgesOf(NoGraph)
  BY <1>2 DEF Ids, EdgesOf
<1>5. IsClosed(p)
  BY <1>2, <1>4, EmptyGraph DEF IsClosed, IsGraph
<1> QED BY <1>2, <1>3, <1>4, <1>5, EmptyGraph DEF p

IsBallAround(p, g, anchor, radius) ==
  /\ Ids(p) = {n \in Ids(g) : anchor \in Ids(g) /\ WithinHops(g, anchor, n, radius) # {}}
  /\ \A n \in Ids(p) : p.depth[n] = Min(WithinHops(g, anchor, n, radius))

\* NeighborhoodIsBall for any graph, anchor and radius.
LEMMA NeighborhoodSound ==
  ASSUME NEW g, IsClosed(g), NEW anchor, NEW radius \in Nat
  PROVE  IsBallAround(AssociativeSubgraph(g, anchor, radius), g, anchor, radius)
<1> DEFINE p == AssociativeSubgraph(g, anchor, radius)
<1>1. CASE anchor \notin Ids(g)
  BY <1>1, ProjectionOff DEF IsBallAround
<1>2. CASE anchor \in Ids(g)
  <2>1. /\ Ids(p) = Ball(g, anchor, radius) /\ Ids(p) \subseteq Ids(g)
        /\ \A n \in Ids(p) : IsAway(g, anchor, n, p.depth[n]) /\ p.depth[n] <= radius
    BY <1>2, ProjectionSound
  <2> HIDE DEF p
  <2> DEFINE W(n) == WithinHops(g, anchor, n, radius)
  <2>2. \A n \in Ids(g) : W(n) = {d \in 0 .. radius : n \in Ball(g, anchor, d)}
    BY <1>2, WithinHopsBalls
  <2>3. ASSUME NEW n \in Ids(g) PROVE n \in Ids(p) <=> W(n) # {}
    <3>1. radius \in 0 .. radius /\ \A d \in 0 .. radius : d \in Nat /\ d <= radius
      OBVIOUS
    <3>2. \A d \in 0 .. radius : Ball(g, anchor, d) \subseteq Ball(g, anchor, radius)
      BY <1>2, <3>1, BallGrows
    <3> QED BY <2>1, <2>2, <3>1, <3>2
  <2>4. ASSUME NEW n \in Ids(p) PROVE p.depth[n] = Min(W(n))
    <3> DEFINE d == p.depth[n]
    <3>1. IsAway(g, anchor, n, d) /\ d <= radius /\ n \in Ids(g)
      BY <2>1
    <3> HIDE DEF d, W
    <3>2. d \in W(n) /\ \A e \in W(n) : e \in Nat /\ d <= e
      BY <2>2, <3>1 DEF IsAway
    <3>3. d \in Nat /\ \A e \in W(n) : (\A c \in W(n) : e <= c) => e = d
      BY <3>2
    <3>4. Min(W(n)) = d
      BY <3>2, <3>3 DEF Min
    <3> QED BY <3>4 DEF d
  <2>5. Ids(p) = {n \in Ids(g) : anchor \in Ids(g) /\ W(n) # {}}
    BY <1>2, <2>1, <2>3
  <2> QED BY <2>4, <2>5 DEF IsBallAround, p
<1> QED BY <1>1, <1>2

IsShortestWay(way, p, g, anchor, n) ==
  /\ (way # << >>) = (n \in Ids(p))
  /\ way # << >> =>
       /\ Head(way) = anchor /\ Last(way) = n
       /\ Len(way) = p.depth[n] + 1
       /\ \A i \in 1 .. Len(way) - 1 : Adjacent(g, way[i], way[i + 1])

\* PathIsShortest for any graph, anchor, radius and node.
LEMMA PathFound ==
  ASSUME NEW g, IsClosed(g), NEW anchor, NEW radius \in Nat, NEW n \in Ids(g), n # anchor
  PROVE  IsShortestWay(AssociativePath(g, anchor, n, radius),
                       AssociativeSubgraph(g, anchor, radius), g, anchor, n)
<1> DEFINE p == AssociativeSubgraph(g, anchor, radius)
           b == BoundedSubgraph(g, anchor, radius)
           way == AssociativePath(g, anchor, n, radius)
<1>0. way = ShortestPath(b, anchor, n)
  BY DEF AssociativePath
<1>1. CASE anchor \notin Ids(g)
  <2>1. b = NoGraph
    BY <1>1 DEF BoundedSubgraph
  <2>2. way = << >>
    BY <1>0, <2>1, EmptyGraph DEF ShortestPath
  <2>3. n \notin Ids(p)
    BY <1>1, ProjectionOff
  <2> QED BY <2>2, <2>3 DEF IsShortestWay
<1>2. CASE anchor \in Ids(g)
  <2>1. /\ IsClosed(b) /\ Ids(b) = Ball(g, anchor, radius) /\ anchor \in Ids(b)
        /\ EdgesOf(b) \subseteq EdgesOf(g)
        /\ \A d \in 0 .. radius : Ball(b, anchor, d) = Ball(g, anchor, d)
        /\ \A m, d : IsAway(b, anchor, m, d) <=> d <= radius /\ IsAway(g, anchor, m, d)
    BY <1>2, CutBall
  <2>2. /\ Ids(p) = Ball(g, anchor, radius)
        /\ \A m \in Ids(p) : IsAway(g, anchor, m, p.depth[m])
    BY <1>2, ProjectionSound
  <2> HIDE DEF p, b, way
  <2>3. CASE n \notin Ids(p)
    <3>1. way = << >>
      BY <1>0, <2>1, <2>2, <2>3 DEF ShortestPath
    <3> QED BY <2>3, <3>1 DEF IsShortestWay, p, way
  <2>4. CASE n \in Ids(p)
    <3>1. n \in Ids(b) /\ n \in Ball(b, anchor, radius)
      BY <2>1, <2>2, <2>4
    <3>2. way # << >>
      BY <1>0, <2>1, <3>1, PathSound
    <3>3. PICK d : IsAway(b, anchor, n, d) /\ IsWay(b, way, anchor, n, d)
      BY <1>0, <2>1, <3>1, <3>2, PathSound
    <3>4. d \in Nat /\ p.depth[n] = d
      BY <2>1, <2>2, <2>4, <3>3, AwayUnique DEF IsAway
    <3>5. /\ way \in Seq(Ids(b)) /\ Len(way) = d + 1 /\ way[1] = anchor /\ way[d + 1] = n
          /\ \A i \in 1 .. d : Adjacent(b, way[i], way[i + 1])
      BY <3>3 DEF IsWay
    <3>6. \A x, y : Adjacent(b, x, y) => Adjacent(g, x, y)
      BY <2>1 DEF Adjacent
    <3>7. Head(way) = anchor /\ Last(way) = n /\ Len(way) - 1 = d
      BY <3>2, <3>4, <3>5 DEF Last
    <3> QED BY <2>4, <3>2, <3>4, <3>5, <3>6, <3>7 DEF IsShortestWay, p, way
  <2> QED BY <2>3, <2>4
<1> QED BY <1>1, <1>2

-----------------------------------------------------------------------------
(* What a step does.                                                       *)

\* Neither the graph nor the place changes.
Stays ==
  /\ shown' = shown /\ latest' = latest /\ altered' = altered
  /\ anchorId' = anchorId /\ navigationPath' = navigationPath
  /\ selectedId' \in {selectedId, NoNode} /\ hops' \in {hops} \cup 1 .. MaxHops
  /\ searching' \in {searching, NoGraph, projection}
  /\ \/ searchGraph' = searchGraph /\ hits' = hits
     \/ searchGraph' \in {NoGraph, projection, searching} /\ hits' \subseteq Ids(searchGraph')

\* The page goes to a node along a trail.
Goes(id, trail) ==
  /\ shown' = shown /\ latest' = latest /\ altered' = altered /\ hops' = hops
  /\ anchorId' = id /\ selectedId' = id /\ navigationPath' = trail
  /\ searchGraph' = NoGraph /\ hits' = {} /\ searching' = searching

Lands(v) ==
  Landed(v) /\ ShowGraph(v) /\ searching' = searching

Falls ==
  /\ shown' \in {Demo, Empty} /\ latest' = latest /\ altered' = altered
  /\ UNCHANGED <<placeVars, filterVars, resultVars, searching>>

\* A filter gesture neither loads a graph nor goes anywhere.
LEMMA FilterStays ==
  ASSUME FilterGesture, hops' \in {hops} \cup 1 .. MaxHops
  PROVE  Stays
  BY DEF FilterGesture, ClearSearchProjection, Stays, sourceVars, placeVars, Ids, NoGraph, ToSet

\* Every step is of one of these kinds.
LEMMA StepKinds ==
  ASSUME [Next]_vars
  PROVE  \/ Stays \/ Falls
         \/ \E id \in Offered : Goes(id, TrailTo(id))
         \/ \E i \in DOMAIN navigationPath :
              /\ navigationPath[i] \in Ids(sourceGraph)
              /\ Goes(navigationPath[i], SubSeq(navigationPath, 1, i))
         \/ \E v \in 1 .. Len(History) : Lands(v)
<1> DEFINE Navigates == \E id \in Offered : Goes(id, TrailTo(id))
           Returns == \E i \in DOMAIN navigationPath :
                        /\ navigationPath[i] \in Ids(sourceGraph)
                        /\ Goes(navigationPath[i], SubSeq(navigationPath, 1, i))
           Loads == \E v \in 1 .. Len(History) : Lands(v)
           OneKind == Stays \/ Falls \/ Navigates \/ Returns \/ Loads
<1> USE DEF sourceVars, placeVars, filterVars, resultVars
<1>1. ASSUME UNCHANGED vars PROVE Stays
  BY <1>1 DEF vars, Stays
<1>2. ASSUME NEW id \in Offered, NavigateToNode(id) PROVE Goes(id, TrailTo(id))
  BY <1>2 DEF NavigateToNode, ClearSearchProjection, Goes
<1>3. ASSUME NEW i \in DOMAIN navigationPath, NavigateBreadcrumb(i)
      PROVE  /\ navigationPath[i] \in Ids(sourceGraph)
             /\ Goes(navigationPath[i], SubSeq(navigationPath, 1, i))
  BY <1>3 DEF NavigateBreadcrumb, ClearSearchProjection, Goes
<1>4. ASSUME Dismiss PROVE Stays
  BY <1>4 DEF Dismiss, Stays
<1>5. ASSUME ChangeTime \/ ResetFilters \/ ClearSearch PROVE Stays
  BY <1>5, FilterStays DEF ChangeTime, ResetFilters, ClearSearch
<1>6. ASSUME ChangeHops PROVE Stays
  BY <1>6, FilterStays DEF ChangeHops
<1>7. ASSUME NEW k \in Kinds, ToggleKind(k) PROVE Stays
  BY <1>7, FilterStays DEF ToggleKind
<1>8. ASSUME NEW c \in Classes, ToggleConfidence(c) PROVE Stays
  BY <1>8, FilterStays DEF ToggleConfidence
<1>9. ASSUME SearchHere PROVE Stays
  <2>1. searchGraph' = projection /\ hits' \subseteq Ids(projection) /\ searching' = searching
    BY <1>9 DEF SearchHere
  <2> QED BY <1>9, <2>1 DEF SearchHere, Stays
<1>10. ASSUME SubmitSearch PROVE Stays
  BY <1>10 DEF SubmitSearch, Stays
<1>11. ASSUME SearchAnswers PROVE Stays
  <2>1. searchGraph' = searching /\ hits' \subseteq Ids(searching) /\ searching' = NoGraph
    BY <1>11 DEF SearchAnswers
  <2> QED BY <1>11, <2>1 DEF SearchAnswers, Stays
<1>12. ASSUME SearchFails PROVE Stays
  BY <1>12 DEF SearchFails, Stays
<1>13. ASSUME ExplainPathHere \/ ExplainPath PROVE Stays
  BY <1>13 DEF ExplainPathHere, ExplainPath, Stays
<1>14. ASSUME PathAnswers PROVE Stays
  BY <1>14 DEF PathAnswers, Stays
<1>15. ASSUME SaveToken PROVE Stays
  BY <1>15 DEF SaveToken, Stays
<1>16. ASSUME ShowFallback PROVE Falls
  BY <1>16 DEF ShowFallback, Falls
<1>17. ASSUME NEW v \in 1 .. Len(History), Connect(v) \/ Refresh(v) PROVE Lands(v)
  BY <1>17 DEF Connect, Refresh, Lands
<1> HIDE DEF Stays, Falls, Goes, Lands
<1>18. ASSUME NEW id \in Offered, NavigateToNode(id) PROVE Navigates
  BY <1>2, <1>18
<1>19. ASSUME NEW i \in DOMAIN navigationPath, NavigateBreadcrumb(i) PROVE Returns
  BY <1>3, <1>19
<1>20. ASSUME NEW v \in 1 .. Len(History), Connect(v) \/ Refresh(v) PROVE Loads
  BY <1>17, <1>20
<1> HIDE DEF Navigates, Returns, Loads
<1>21. ASSUME Gestures PROVE OneKind
  BY <1>4, <1>5, <1>6, <1>7, <1>8, <1>9, <1>10, <1>13, <1>15, <1>18, <1>19, <1>21 DEF Gestures
<1>22. ASSUME Next PROVE OneKind
  BY <1>11, <1>12, <1>14, <1>16, <1>20, <1>21, <1>22 DEF Next
<1> QED BY <1>1, <1>22 DEF Navigates, Returns, Loads

-----------------------------------------------------------------------------
(* Trails.                                                                 *)

\* The elements of a prefix.
LEMMA PrefixSound ==
  ASSUME NEW T, NEW s \in Seq(T), NEW i \in DOMAIN s
  PROVE  LET t == SubSeq(s, 1, i) IN
         /\ t \in Seq(T) /\ Len(t) = i /\ i \in 1 .. Len(s) /\ \A j \in 1 .. i : t[j] = s[j]
  BY DEF Last

\* The elements of a trail that goes on along a way.
LEMMA ExtensionSound ==
  ASSUME NEW T, NEW s \in Seq(T), NEW w \in Seq(T), NEW d \in Nat, Len(w) = d + 1
  PROVE  LET t == s \o Tail(w) IN
         /\ t \in Seq(T) /\ Len(t) = Len(s) + d /\ Len(s) \in Nat
         /\ \A i \in 1 .. Len(s) : t[i] = s[i]
         /\ \A i \in 1 .. d : t[Len(s) + i] = w[i + 1]
<1>1. Tail(w) \in Seq(T) /\ Len(Tail(w)) = d /\ \A i \in 1 .. d : Tail(w)[i] = w[i + 1]
  BY DEF Last
<1> DEFINE u == Tail(w)
           t == s \o u
<1> HIDE DEF u
<1>2. /\ t \in Seq(T) /\ Len(t) = Len(s) + d /\ Len(s) \in Nat
      /\ \A i \in 1 .. Len(s) + d : t[i] = IF i <= Len(s) THEN s[i] ELSE u[i - Len(s)]
  BY <1>1, ConcatProperties DEF u
<1> HIDE DEF t
<1>3. \A i \in 1 .. Len(s) : t[i] = s[i]
  <2>1. \A i \in 1 .. Len(s) : i \in 1 .. Len(s) + d /\ i <= Len(s)
    BY <1>2
  <2> QED BY <1>2, <2>1
<1>4. \A i \in 1 .. d : t[Len(s) + i] = w[i + 1]
  <2>1. \A i \in 1 .. d : Len(s) + i \in 1 .. Len(s) + d /\ ~(Len(s) + i <= Len(s)) /\ (Len(s) + i) - Len(s) = i
    BY <1>2
  <2>2. \A i \in 1 .. d : u[i] = w[i + 1]
    BY <1>1 DEF u
  <2> QED BY <1>2, <2>1, <2>2
<1> QED BY <1>2, <1>3, <1>4 DEF t, u

\* A prefix of a walk is a walk to the node it is cut at.
LEMMA PrefixIsWalk ==
  ASSUME NEW g, NEW s, IsSeq(s), IsWalk(g, s), NEW i \in DOMAIN s
  PROVE  LET t == SubSeq(s, 1, i) IN
         IsWalk(g, t) /\ IsSeq(t) /\ t # << >> /\ Last(t) = s[i]
<1> DEFINE t == SubSeq(s, 1, i)
           T == ToSet(s)
<1>1. s \in Seq(T) /\ T = {s[j] : j \in DOMAIN s} /\ DOMAIN s = 1 .. Len(s) /\ Len(s) \in Nat
  BY SeqParts DEF IsSeq, ToSet
<1>2. t \in Seq(T) /\ Len(t) = i /\ i \in 1 .. Len(s) /\ \A j \in 1 .. i : t[j] = s[j]
  <2> HIDE DEF T
  <2> QED BY <1>1, PrefixSound
<1> HIDE DEF t, T
<1>3. IsSeq(t) /\ ToSet(t) \subseteq T
  BY <1>2, SeqIsSeq
<1>4. \A j \in 1 .. Len(t) - 1 : Adjacent(g, t[j], t[j + 1])
  <2> SUFFICES ASSUME NEW j \in 1 .. i - 1 PROVE Adjacent(g, t[j], t[j + 1])
    BY <1>2
  <2>1. j \in 1 .. i /\ j + 1 \in 1 .. i /\ j \in 1 .. Len(s) - 1
    BY <1>1, <1>2
  <2> QED BY <1>2, <2>1 DEF IsWalk
<1>5. t # << >> /\ Last(t) = s[i]
  <2>1. i \in 1 .. i
    BY <1>1, <1>2
  <2> QED BY <1>2, <2>1 DEF Last
<1>6. T \subseteq Ids(g)
  BY DEF IsWalk, T
<1> QED BY <1>3, <1>4, <1>5, <1>6 DEF IsWalk, t

\* A walk goes on along a way from its end.
LEMMA ExtensionIsWalk ==
  ASSUME NEW g, NEW s, IsSeq(s), IsWalk(g, s), s # << >>, NEW target, NEW d \in Nat \ {0}, NEW w,
         IsWay(g, w, Last(s), target, d)
  PROVE  LET t == s \o Tail(w) IN
         IsWalk(g, t) /\ t # << >> /\ Last(t) = target
<1> DEFINE T == Ids(g)
           t == s \o Tail(w)
           L == Len(s)
<1>1. s \in Seq(T) /\ DOMAIN s = 1 .. L /\ L \in Nat /\ L # 0
  <2>1. s \in Seq(ToSet(s)) /\ ToSet(s) \subseteq T
    BY DEF IsSeq, IsWalk
  <2> QED BY <2>1
<1>2. w \in Seq(T) /\ Len(w) = d + 1 /\ w[1] = s[L] /\ w[d + 1] = target
      /\ \A i \in 1 .. d : Adjacent(g, w[i], w[i + 1])
  BY DEF IsWay, Last
<1>3. /\ t \in Seq(T) /\ Len(t) = L + d
      /\ \A i \in 1 .. L : t[i] = s[i]
      /\ \A i \in 1 .. d : t[L + i] = w[i + 1]
  <2> HIDE DEF T
  <2> QED BY <1>1, <1>2, ExtensionSound
<1> HIDE DEF T, t, L
<1>4. ASSUME NEW i \in 1 .. Len(t) - 1 PROVE Adjacent(g, t[i], t[i + 1])
  <2>1. CASE i < L
    <3>1. i \in 1 .. L /\ i + 1 \in 1 .. L /\ i \in 1 .. L - 1
      BY <1>1, <1>3, <2>1
    <3>2. Adjacent(g, s[i], s[i + 1])
      BY <3>1 DEF IsWalk, L
    <3> QED BY <1>3, <3>1, <3>2
  <2>2. CASE i = L
    <3>1. i \in 1 .. L /\ 1 \in 1 .. d
      BY <1>1, <2>2
    <3>2. t[i] = w[1] /\ t[i + 1] = w[2]
      BY <1>2, <1>3, <2>2, <3>1
    <3> QED BY <1>2, <3>1, <3>2
  <2>3. CASE i > L
    <3> DEFINE k == i - L
    <3>1. k \in 1 .. d /\ k + 1 \in 1 .. d /\ L + k = i /\ L + (k + 1) = i + 1
      BY <1>1, <1>3, <2>3
    <3> HIDE DEF k
    <3>2. t[i] = w[k + 1] /\ t[i + 1] = w[k + 1 + 1]
      BY <1>3, <3>1
    <3> QED BY <1>2, <3>1, <3>2
  <2> QED BY <1>1, <1>3, <2>1, <2>2, <2>3
<1>5. t # << >> /\ Last(t) = target
  <2>1. d \in 1 .. d
    OBVIOUS
  <2>2. t[L + d] = target
    BY <1>2, <1>3, <2>1
  <2>3. Len(t) # 0
    BY <1>1, <1>3
  <2> QED BY <1>3, <2>2, <2>3 DEF Last
<1>6. ToSet(t) \subseteq Ids(g)
  BY <1>3, SeqIsSeq DEF T
<1> QED BY <1>4, <1>5, <1>6 DEF IsWalk, t

-----------------------------------------------------------------------------
(* The graphs of the page.                                                 *)

\* The graphs that can be on the page.
LEMMA HistorySound ==
  /\ Len(History) \in Nat /\ IsGraph(DemoGraph)
  /\ \A v \in 1 .. Len(History) : IsGraph(History[v])
<1>1. IsSeq(History) /\ \A g \in {DemoGraph} \cup ToSet(History) : IsGraph(g)
  BY ExplorationAssumption
<1>2. Len(History) \in Nat /\ ToSet(History) = {History[i] : i \in 1 .. Len(History)}
  BY <1>1, SeqParts
<1> QED BY <1>1, <1>2

\* What is filtered is a closed part of the graph on the page.
LEMMA SourceSound ==
  ASSUME Ranges
  PROVE  /\ IsGraph(sourceGraph) /\ IsClosed(filteredGraph)
         /\ Ids(filteredGraph) \subseteq Ids(sourceGraph)
         /\ EdgesOf(filteredGraph) \subseteq EdgesOf(sourceGraph)
<1>1. IsGraph(sourceGraph)
  <2>1. shown \in 0 .. Len(History) + 1 /\ Len(History) \in Nat
    BY HistorySound DEF Ranges
  <2>2. shown # Demo /\ shown # Empty => shown \in 1 .. Len(History)
    BY <2>1 DEF Demo, Empty
  <2>3. IsGraph(NoGraph)
    BY EmptyGraph DEF IsClosed
  <2> QED BY <2>2, <2>3, HistorySound DEF sourceGraph, GraphOf
<1> QED BY <1>1, FilteredGraph DEF filteredGraph

\* The projection is a part of what is filtered, with or without its anchor.
LEMMA ShownSound ==
  ASSUME Ranges
  PROVE  IsClosed(projection) /\ Ids(projection) \subseteq Ids(filteredGraph)
<1>1. IsClosed(filteredGraph) /\ hops \in Nat
  BY SourceSound DEF Ranges
<1>2. CASE anchorId \in Ids(filteredGraph)
  BY <1>1, <1>2, ProjectionSound DEF projection
<1>3. CASE anchorId \notin Ids(filteredGraph)
  BY <1>3, ProjectionOff DEF projection
<1> QED BY <1>2, <1>3

-----------------------------------------------------------------------------
(* The trail to a node.                                                    *)

\* IndexIn finds an element of the sequence.
LEMMA IndexSound ==
  ASSUME NEW s, IsSeq(s), NEW x \in ToSet(s)
  PROVE  IndexIn(s, x) \in DOMAIN s /\ s[IndexIn(s, x)] = x
<1> DEFINE T == {i \in DOMAIN s : s[i] = x}
<1>1. DOMAIN s = 1 .. Len(s) /\ Len(s) \in Nat
  BY SeqParts
<1>2. T \subseteq Nat /\ T # {}
  BY <1>1 DEF ToSet
<1>3. PICK k \in T : \A m \in T : ~(m < k)
  <2> HIDE DEF T
  <2> QED BY <1>2, LeastNatural
<1>4. k \in DOMAIN s /\ s[k] = x /\ \A j \in 1 .. k - 1 : s[j] # x
  <2> SUFFICES ASSUME NEW j \in 1 .. k - 1, s[j] = x PROVE FALSE
    BY <1>3
  <2>1. k \in 1 .. Len(s)
    BY <1>1, <1>3
  <2>2. j \in DOMAIN s /\ j < k
    BY <1>1, <2>1
  <2> QED BY <1>3, <2>2
<1> QED BY <1>4 DEF IndexIn

\* A way in a part of a graph is one in the graph.
LEMMA WayIn ==
  ASSUME NEW g, NEW h, Ids(h) \subseteq Ids(g), EdgesOf(h) \subseteq EdgesOf(g),
         NEW w, NEW x, NEW y, NEW d \in Nat, IsWay(h, w, x, y, d)
  PROVE  IsWay(g, w, x, y, d)
<1>1. \A a, b : Adjacent(h, a, b) => Adjacent(g, a, b)
  BY DEF Adjacent
<1>2. w \in Seq(Ids(g))
  BY DEF IsWay
<1> QED BY <1>1, <1>2 DEF IsWay

\* A path within the radius is a way of at least one step.
LEMMA SegmentSound ==
  ASSUME NEW g, IsClosed(g), NEW anchor, NEW id, id # anchor, NEW radius \in Nat,
         AssociativePath(g, anchor, id, radius) # << >>
  PROVE  \E d \in Nat \ {0} : IsWay(g, AssociativePath(g, anchor, id, radius), anchor, id, d)
<1> DEFINE b == BoundedSubgraph(g, anchor, radius)
           way == AssociativePath(g, anchor, id, radius)
<1>1. way = ShortestPath(b, anchor, id) /\ {anchor, id} \subseteq Ids(b)
  BY DEF AssociativePath, ShortestPath
<1>2. anchor \in Ids(g)
  <2> SUFFICES ASSUME anchor \notin Ids(g) PROVE FALSE
    OBVIOUS
  <2>1. b = NoGraph
    BY DEF BoundedSubgraph
  <2> QED BY <1>1, <2>1, EmptyGraph
<1>3. /\ IsClosed(b) /\ Ids(b) = Ball(g, anchor, radius) /\ EdgesOf(b) \subseteq EdgesOf(g)
      /\ Ids(b) \subseteq Ids(g)
  BY <1>2, CutBall, BallSteps
<1>4. way # << >>
  OBVIOUS
<1> HIDE DEF b, way
<1>5. PICK d : IsAway(b, anchor, id, d) /\ IsWay(b, way, anchor, id, d)
  BY <1>1, <1>3, <1>4, PathSound
<1>6. d \in Nat \ {0}
  BY <1>5 DEF IsAway, IsWay
<1>7. IsWay(g, way, anchor, id, d)
  BY <1>3, <1>5, <1>6, WayIn
<1> QED BY <1>6, <1>7 DEF way

\* The trail that a navigation leaves.
TrailKind(s, anchor, g, id, trail) ==
  \/ \E i \in DOMAIN s : s[i] = id /\ trail = SubSeq(s, 1, i)
  \/ trail = <<id>>
  \/ id = anchor /\ id \notin ToSet(s) /\ trail = s
  \/ id # anchor /\ \E d \in Nat \ {0} : \E w : IsWay(g, w, anchor, id, d) /\ trail = s \o Tail(w)

\* TrailTo returns nothing else.
LEMMA TrailKinds ==
  ASSUME Ranges, NEW id
  PROVE  TrailKind(navigationPath, anchorId, sourceGraph, id, TrailTo(id))
<1> DEFINE way == AssociativePath(filteredGraph, anchorId, id, hops)
<1>1. /\ IsClosed(filteredGraph) /\ hops \in Nat /\ IsSeq(navigationPath)
      /\ Ids(filteredGraph) \subseteq Ids(sourceGraph) /\ EdgesOf(filteredGraph) \subseteq EdgesOf(sourceGraph)
  BY SourceSound DEF Ranges
<1>2. CASE id \in ToSet(navigationPath)
  BY <1>1, <1>2, IndexSound DEF TrailTo, TrailKind
<1>3. CASE id \notin ToSet(navigationPath) /\ way = << >>
  BY <1>3 DEF TrailTo, TrailKind
<1>4. CASE id \notin ToSet(navigationPath) /\ way # << >> /\ id = anchorId
  <2>1. way = <<id>>
    BY <1>4 DEF AssociativePath, ShortestPath
  <2>2. Tail(<<id>>) = << >>
    OBVIOUS
  <2>3. navigationPath \o << >> = navigationPath
    BY <1>1, ConcatEmptySeq DEF IsSeq
  <2>4. TrailTo(id) = navigationPath \o Tail(way)
    BY <1>4 DEF TrailTo
  <2> HIDE DEF way
  <2>5. TrailTo(id) = navigationPath
    BY <2>1, <2>2, <2>3, <2>4
  <2> QED BY <1>4, <2>5 DEF TrailKind
<1>5. CASE id \notin ToSet(navigationPath) /\ way # << >> /\ id # anchorId
  <2>1. TrailTo(id) = navigationPath \o Tail(way)
    BY <1>5 DEF TrailTo
  <2>2. PICK d \in Nat \ {0} : IsWay(filteredGraph, way, anchorId, id, d)
    BY <1>1, <1>5, SegmentSound
  <2> HIDE DEF way
  <2>3. IsWay(sourceGraph, way, anchorId, id, d)
    BY <1>1, <2>2, WayIn
  <2> QED BY <1>5, <2>1, <2>2, <2>3 DEF TrailKind
<1> QED BY <1>2, <1>3, <1>4, <1>5

-----------------------------------------------------------------------------
(* The state stays in its ranges.                                          *)

\* Ranges holds at first.
LEMMA RangesInit == Init => Ranges
<1> SUFFICES ASSUME Init PROVE Ranges
  OBVIOUS
<1>1. Len(History) \in Nat
  BY HistorySound
<1>2. shown \in 0 .. Len(History) + 1 /\ latest \in 0 .. Len(History)
  BY <1>1 DEF Init, Demo
<1>3. IsSeq(navigationPath)
  <2>1. <<Suggested>> \in Seq({Suggested})
    OBVIOUS
  <2> QED BY <2>1, SeqIsSeq DEF Init
<1> QED BY <1>2, <1>3, EmptyGraph DEF Init, Ranges

\* A trail is a sequence.
LEMMA TrailIsSeq ==
  ASSUME NEW s, IsSeq(s), NEW anchor, NEW g, NEW id, NEW trail, TrailKind(s, anchor, g, id, trail)
  PROVE  IsSeq(trail)
<1>1. CASE \E i \in DOMAIN s : s[i] = id /\ trail = SubSeq(s, 1, i)
  <2>1. PICK i \in DOMAIN s : trail = SubSeq(s, 1, i)
    BY <1>1
  <2>2. trail \in Seq(ToSet(s))
    BY <2>1, PrefixSound DEF IsSeq
  <2> QED BY <2>2, SeqIsSeq
<1>2. CASE trail = <<id>>
  <2>1. <<id>> \in Seq({id})
    OBVIOUS
  <2> QED BY <1>2, <2>1, SeqIsSeq
<1>3. CASE \E d \in Nat \ {0} : \E w : IsWay(g, w, anchor, id, d) /\ trail = s \o Tail(w)
  <2>0. PICK d \in Nat \ {0} : \E w : IsWay(g, w, anchor, id, d) /\ trail = s \o Tail(w)
    BY <1>3
  <2>1. PICK w : IsWay(g, w, anchor, id, d) /\ trail = s \o Tail(w)
    BY <2>0
  <2> DEFINE T == ToSet(s) \cup Ids(g)
  <2>2. s \in Seq(T) /\ w \in Seq(T) /\ Len(w) = d + 1
    BY <2>1 DEF IsSeq, IsWay
  <2> HIDE DEF T
  <2>3. trail \in Seq(T)
    BY <2>1, <2>2, ExtensionSound
  <2> QED BY <2>3, SeqIsSeq
<1> QED BY <1>1, <1>2, <1>3 DEF TrailKind

\* Every step keeps Ranges.
LEMMA RangesNext ==
  ASSUME Ranges, [Next]_vars
  PROVE  Ranges'
<1> USE DEF Ranges
<1>0. /\ IsClosed(projection) /\ IsClosed(NoGraph) /\ IsClosed(searchGraph) /\ IsClosed(searching)
      /\ Len(History) \in Nat /\ MaxHops \in Nat
  BY ShownSound, EmptyGraph, HistorySound, ExplorationAssumption
<1>1. CASE Stays
  <2>1. IsClosed(searchGraph') /\ IsClosed(searching') /\ hops' \in Nat
    BY <1>0, <1>1 DEF Stays
  <2> QED BY <1>1, <2>1 DEF Stays
<1>2. CASE Falls
  BY <1>0, <1>2 DEF Falls, Demo, Empty, placeVars, filterVars, resultVars
<1>3. ASSUME NEW id \in Offered, Goes(id, TrailTo(id)) PROVE Ranges'
  <2>1. IsSeq(TrailTo(id))
    BY TrailKinds, TrailIsSeq
  <2> QED BY <1>0, <1>3, <2>1 DEF Goes
<1>4. ASSUME NEW i \in DOMAIN navigationPath,
             Goes(navigationPath[i], SubSeq(navigationPath, 1, i))
      PROVE  Ranges'
  <2>1. SubSeq(navigationPath, 1, i) \in Seq(ToSet(navigationPath))
    BY PrefixSound DEF IsSeq
  <2>2. IsSeq(SubSeq(navigationPath, 1, i))
    BY <2>1, SeqIsSeq
  <2> QED BY <1>0, <1>4, <2>2 DEF Goes
<1>5. ASSUME NEW v \in 1 .. Len(History), Lands(v) PROVE Ranges'
  <2> DEFINE g == History[v]
             kept == Picked(navigationPath, {i \in DOMAIN navigationPath : navigationPath[i] \in Ids(g)})
  <2>1. IsSeq(kept)
    BY PickedSound DEF IsSublist
  <2>2. IsSeq(<< >>) /\ IsSeq(<<FallbackAnchor(g)>>)
    <3>1. << >> \in Seq({}) /\ <<FallbackAnchor(g)>> \in Seq({FallbackAnchor(g)})
      OBVIOUS
    <3> QED BY <3>1, SeqIsSeq
  <2>3. navigationPath' \in {kept, << >>, <<FallbackAnchor(g)>>}
    BY <1>5 DEF Lands, ShowGraph
  <2> HIDE DEF kept, g
  <2>4. IsSeq(navigationPath')
    BY <2>1, <2>2, <2>3
  <2>5. latest' \in 0 .. Len(History) /\ altered' \in BOOLEAN /\ shown' \in 0 .. Len(History) + 1
    BY <1>0, <1>5 DEF Lands, Landed, ShowGraph
  <2> QED BY <1>0, <1>5, <2>4, <2>5 DEF Lands, ShowGraph
<1> QED
  <2> HIDE DEF Ranges
  <2> QED BY <1>1, <1>2, <1>3, <1>4, <1>5, StepKinds

\* The graphs on the page are graphs, and the trail is a sequence: every neighborhood, path and
\* scene that is computed from the state is one the lemmas are about.
THEOREM TypeCorrectConsole == Spec => []Ranges
  BY RangesInit, RangesNext, PTL DEF Spec

-----------------------------------------------------------------------------
(* The properties of the neighborhood, of a path and of the scene.         *)

\* The neighborhood on the page is all that is within the radius of the focus, labelled with
\* the distances, for every graph, filter, time and radius (graph.ts:55-136).
THEOREM NeighborhoodCorrect == Spec => []NeighborhoodIsBall
<1>1. Ranges => NeighborhoodIsBall
  BY SourceSound, NeighborhoodSound DEF NeighborhoodIsBall, IsBallAround, projection, Ranges
<1> QED BY <1>1, TypeCorrectConsole, PTL

\* The explained path is a shortest one within the radius, and there is one for every node of
\* the neighborhood (graph.ts:109-232).
THEOREM PathCorrect == Spec => []PathIsShortest
<1>1. Ranges => PathIsShortest
  BY SourceSound, PathFound DEF PathIsShortest, IsShortestWay, projection, Ranges
<1> QED BY <1>1, TypeCorrectConsole, PTL

\* What is drawn keeps the budget and the focus; every node that is kept has a neighbor one
\* step nearer that is kept too, and the edge to it is drawn unless edges that are at least
\* as certain use the budget up, for every graph and budget (graph.ts:234-254).
THEOREM SceneCorrect == Spec => []SceneKeepsWays
<1>1. ASSUME Ranges PROVE SceneKeepsWays
  <2>1. MaxNodes \in Nat \ {0} /\ MaxEdges \in Nat
    BY ExplorationAssumption
  <2>2. IsClosed(neighborhood)
    BY <1>1, ShownSound DEF Ranges, neighborhood
  <2> QED BY <2>1, <2>2, SceneSound DEF SceneKeepsWays, visibleGraph
<1> QED BY <1>1, TypeCorrectConsole, PTL

\* Every listed hit is in the neighborhood that was found with it, however late the answer
\* came (App.tsx:202-243).
THEOREM HitsCorrect == Spec => []HitsAreShown
<1>1. Init => HitsAreShown
  BY DEF Init, HitsAreShown
<1>2. ASSUME HitsAreShown, [Next]_vars PROVE HitsAreShown'
  <2> USE DEF HitsAreShown
  <2>1. CASE Stays
    BY <1>2, <2>1 DEF Stays
  <2>2. CASE Falls
    BY <1>2, <2>2 DEF Falls, resultVars
  <2>3. ASSUME NEW id, NEW trail, Goes(id, trail) PROVE HitsAreShown'
    BY <2>3 DEF Goes
  <2>4. ASSUME NEW v \in 1 .. Len(History), Lands(v) PROVE HitsAreShown'
    BY <2>4 DEF Lands, ShowGraph
  <2> HIDE DEF HitsAreShown
  <2> QED BY <1>2, <2>1, <2>2, <2>3, <2>4, StepKinds
<1> QED BY <1>1, <1>2, PTL DEF Spec

-----------------------------------------------------------------------------
(* What the page knows.                                                    *)

\* No node of a graph has the empty id.
LEMMA IdsAreNodes ==
  ASSUME NEW g, IsGraph(g)
  PROVE  NoNode \notin Ids(g)
  BY DEF IsGraph, Ids

\* The page shows the daemon's latest graph or a fallback.
LEMMA SourceInTime ==
  ASSUME Ranges, InTime
  PROVE  \/ sourceGraph = DemoGraph
         \/ sourceGraph = NoGraph
         \/ latest \in 1 .. Len(History) /\ latest # 0 /\ sourceGraph = History[latest]
<1>1. latest \in 0 .. Len(History) /\ Len(History) \in Nat
  BY HistorySound DEF Ranges
<1>2. CASE shown = latest /\ latest # 0
  <2>1. latest \in 1 .. Len(History) /\ latest # Demo /\ latest # Empty
    BY <1>1, <1>2 DEF Demo, Empty
  <2> QED BY <1>2, <2>1 DEF sourceGraph, GraphOf
<1>3. CASE shown = Empty
  <2>1. Empty # Demo
    BY <1>1 DEF Empty, Demo
  <2> QED BY <1>3, <2>1 DEF sourceGraph, GraphOf
<1>4. CASE shown = Demo
  BY <1>4 DEF sourceGraph, GraphOf
<1> QED BY <1>2, <1>3, <1>4 DEF InTime, Demo

\* The budget adds no node.
LEMMA SceneIds ==
  ASSUME NEW g, IsClosed(g), NEW m, NEW e, NEW anchor
  PROVE  Ids(ApplySceneBudget(g, m, e, anchor)) \subseteq Ids(g)
<1> DEFINE S == {g.nodes[i].id : i \in FirstBy(m, Nearness(g, GraphDistance(g, anchor)))}
           a == Among(g, S)
<1>1. CASE Len(g.nodes) <= m /\ Len(g.edges) <= e
  BY <1>1 DEF ApplySceneBudget, Ids
<1>2. CASE ~(Len(g.nodes) <= m /\ Len(g.edges) <= e)
  <2>1. ApplySceneBudget(g, m, e, anchor) = WithEdges(a, e)
    BY <1>2 DEF ApplySceneBudget
  <2>2. Ids(a) \subseteq Ids(g)
    <3> HIDE DEF S
    <3> QED BY AmongGraph DEF IsClosed
  <2> HIDE DEF a
  <2>3. Ids(WithEdges(a, e)) = Ids(a)
    BY DEF WithEdges, Ids
  <2> QED BY <2>1, <2>2, <2>3
<1> QED BY <1>1, <1>2

\* Everything that is offered is of a graph the page has had.
LEMMA KnownGraphs ==
  ASSUME Ranges, InTime, WithinKnown
  PROVE  /\ Ids(sourceGraph) \subseteq Known /\ Ids(projection) \subseteq Known
         /\ Offered \subseteq Known /\ NoNode \notin Known
<1>1. Ids(sourceGraph) \subseteq Known
  BY SourceInTime, EmptyGraph DEF Known
<1>2. Ids(filteredGraph) \subseteq Ids(sourceGraph) /\ Ids(projection) \subseteq Ids(filteredGraph)
      /\ IsClosed(projection) /\ IsClosed(searchGraph)
  BY SourceSound, ShownSound DEF Ranges
<1>3. Ids(visibleGraph) \subseteq Known
  <2>1. IsClosed(neighborhood) /\ Ids(neighborhood) \subseteq Known
    BY <1>1, <1>2 DEF neighborhood, WithinKnown
  <2> QED BY <2>1, SceneIds DEF visibleGraph
<1>4. Workstreams(sourceGraph) \subseteq Ids(sourceGraph) /\ WorkItems(filteredGraph) \subseteq Ids(filteredGraph)
  BY DEF Workstreams, WorkItems, Ids
<1>5. Connections(filteredGraph, selectedId) \subseteq Ids(filteredGraph)
  BY DEF Connections
<1>6. hits \subseteq Known
  BY DEF WithinKnown
<1>7. Offered \subseteq Known
  <2>1. ASSUME NEW id \in Offered
        PROVE  id \in Ids(visibleGraph) \cup hits \cup Ids(sourceGraph) \cup Ids(filteredGraph)
    BY <1>4, <1>5, <2>1 DEF Offered
  <2> QED BY <1>1, <1>2, <1>3, <1>6, <2>1
<1>8. NoNode \notin Known
  <2>1. latest # 0 => latest \in 1 .. Len(History)
    BY HistorySound DEF Ranges
  <2> QED BY <2>1, HistorySound, IdsAreNodes DEF Known
<1> QED BY <1>1, <1>2, <1>7, <1>8

\* The fallback focus is a node of the graph, if it has any.
LEMMA FallbackSound ==
  ASSUME NEW g, IsGraph(g)
  PROVE  FallbackAnchor(g) \in Ids(g) \cup {NoNode}
<1> DEFINE I == {i \in DOMAIN g.nodes : g.nodes[i].kind = "Workstream"}
           work == Picked(g.nodes, I)
<1>1. IsSeq(g.nodes)
  BY DEF IsGraph
<1>2. work \in Seq(ToSet(g.nodes))
  <2> HIDE DEF I
  <2> QED BY <1>1, PickedSound DEF IsSublist
<1>3. g.nodes \in Seq(ToSet(g.nodes))
  BY <1>1 DEF IsSeq
<1> HIDE DEF work
<1>4. /\ work # << >> => Head(work) \in ToSet(g.nodes)
      /\ g.nodes # << >> => Head(g.nodes) \in ToSet(g.nodes)
  <2> DEFINE T == ToSet(g.nodes)
             nodes == g.nodes
  <2>1. nodes \in Seq(T) /\ work \in Seq(T)
    BY <1>2, <1>3
  <2> HIDE DEF T, nodes
  <2>2. /\ work # << >> => Head(work) \in T
        /\ nodes # << >> => Head(nodes) \in T
    BY <2>1
  <2> QED BY <2>2 DEF T, nodes
<1>5. /\ work # << >> => Head(work).id \in Ids(g)
      /\ g.nodes # << >> => Head(g.nodes).id \in Ids(g)
  BY <1>4 DEF Ids
<1>6. FallbackAnchor(g) = IF work # << >> THEN Head(work).id
                          ELSE IF g.nodes # << >> THEN Head(g.nodes).id ELSE NoNode
  BY DEF FallbackAnchor, work
<1> QED BY <1>5, <1>6

-----------------------------------------------------------------------------
(* The trail.                                                              *)

\* A walk is one in every graph that has its nodes and adjacencies.
LEMMA WalkMoves ==
  ASSUME NEW g, NEW h, Ids(g) \subseteq Ids(h),
         \A x, y \in Ids(g) : Adjacent(g, x, y) => Adjacent(h, x, y),
         NEW s, IsSeq(s), IsWalk(g, s)
  PROVE  IsWalk(h, s)
<1>1. \A i \in 1 .. Len(s) : s[i] \in Ids(g)
  BY SeqParts DEF IsWalk
<1>2. \A i \in 1 .. Len(s) - 1 : i \in 1 .. Len(s) /\ i + 1 \in 1 .. Len(s)
  BY SeqParts
<1> QED BY <1>1, <1>2 DEF IsWalk

\* A way is one in every graph that has its nodes and adjacencies.
LEMMA WayMoves ==
  ASSUME NEW g, NEW h, Ids(g) \subseteq Ids(h),
         \A x, y \in Ids(g) : Adjacent(g, x, y) => Adjacent(h, x, y),
         NEW w, NEW a, NEW b, NEW d \in Nat, IsWay(g, w, a, b, d)
  PROVE  IsWay(h, w, a, b, d)
<1>1. w \in Seq(Ids(g)) /\ Len(w) = d + 1
  BY DEF IsWay
<1>2. \A i \in 1 .. d : w[i] \in Ids(g) /\ w[i + 1] \in Ids(g)
  BY <1>1
<1>3. w \in Seq(Ids(h))
  BY <1>1
<1> QED BY <1>2, <1>3 DEF IsWay

\* A trail of one node.
LEMMA SingleIsWalk ==
  ASSUME NEW g, NEW id \in Ids(g)
  PROVE  IsWalk(g, <<id>>) /\ <<id>> # << >> /\ Last(<<id>>) = id /\ IsSeq(<<id>>)
<1>1. <<id>> \in Seq({id})
  OBVIOUS
<1>2. IsSeq(<<id>>) /\ ToSet(<<id>>) \subseteq {id}
  BY <1>1, SeqIsSeq
<1>3. Len(<<id>>) = 1 /\ 1 .. Len(<<id>>) - 1 = {}
  OBVIOUS
<1> QED BY <1>2, <1>3 DEF IsWalk, Last

\* A trail of none.
LEMMA EmptyIsWalk ==
  ASSUME NEW g
  PROVE  IsWalk(g, << >>)
  BY DEF IsWalk, ToSet

\* The end of a trail is on it.
LEMMA LastIsIn ==
  ASSUME NEW s, IsSeq(s), s # << >>
  PROVE  Last(s) \in ToSet(s)
<1>1. Len(s) \in Nat /\ ToSet(s) = {s[i] : i \in 1 .. Len(s)} /\ s \in Seq(ToSet(s))
  BY SeqParts DEF IsSeq
<1>2. Len(s) \in 1 .. Len(s)
  <2> DEFINE T == ToSet(s)
  <2>1. s \in Seq(T)
    BY <1>1
  <2> HIDE DEF T
  <2> QED BY <2>1
<1> QED BY <1>1, <1>2 DEF Last

\* A graph of the daemon's, and the built-in one, if they share a node.
LEMMA SharedDemonstration ==
  ASSUME NEW v, Demonstrates(History[v]), NEW x \in Ids(DemoGraph), x \in Ids(History[v])
  PROVE  /\ Ids(DemoGraph) \subseteq Ids(History[v])
         /\ \A a, b \in Ids(DemoGraph) : Adjacent(DemoGraph, a, b) <=> Adjacent(History[v], a, b)
  BY DEF Demonstrates

\* The trail is one of a single graph that the page knows, and leads to a node.
Leads(s, v, id) ==
  /\ IsWalk(DemoGraph, s) \/ (v # 0 /\ IsWalk(History[v], s))
  /\ IF s = << >> THEN id = NoNode ELSE Last(s) = id

\* Every navigation goes on with a walk of one graph, or begins another one.
LEMMA TrailGoesOn ==
  ASSUME Ranges, InTime, Demonstrated, WithinKnown, Leads(navigationPath, latest, anchorId),
         NEW id \in Known, NEW trail, TrailKind(navigationPath, anchorId, sourceGraph, id, trail)
  PROVE  Leads(trail, latest, id)
<1> DEFINE s == navigationPath
<1>0. /\ IsSeq(s) /\ (latest # 0 => latest \in 1 .. Len(History)) /\ NoNode \notin Known
  BY KnownGraphs, HistorySound DEF Ranges
<1> HIDE DEF s
<1>1. CASE \E i \in DOMAIN s : s[i] = id /\ trail = SubSeq(s, 1, i)
  <2>1. PICK i \in DOMAIN s : s[i] = id /\ trail = SubSeq(s, 1, i)
    BY <1>1
  <2>2. ASSUME NEW g, IsWalk(g, s) PROVE IsWalk(g, trail) /\ trail # << >> /\ Last(trail) = id
    BY <1>0, <2>1, <2>2, PrefixIsWalk
  <2> QED BY <2>2 DEF Leads, s
<1>2. CASE trail = <<id>>
  <2>1. ASSUME NEW g, id \in Ids(g) PROVE IsWalk(g, trail) /\ trail # << >> /\ Last(trail) = id
    BY <1>2, <2>1, SingleIsWalk
  <2>2. id \in Ids(DemoGraph) \/ (latest # 0 /\ id \in Ids(History[latest]))
    BY DEF Known
  <2> QED BY <2>1, <2>2 DEF Leads
<1>3. CASE id = anchorId /\ id \notin ToSet(s) /\ trail = s
  <2>1. s # << >> => Last(s) \in ToSet(s)
    BY <1>0, LastIsIn
  <2> QED BY <1>0, <1>3, <2>1 DEF Leads, s
<1>4. CASE id # anchorId /\ \E d \in Nat \ {0} : \E w : IsWay(sourceGraph, w, anchorId, id, d) /\ trail = s \o Tail(w)
  <2>0. PICK d \in Nat \ {0} : \E w : IsWay(sourceGraph, w, anchorId, id, d) /\ trail = s \o Tail(w)
    BY <1>4
  <2>1. PICK w : IsWay(sourceGraph, w, anchorId, id, d) /\ trail = s \o Tail(w)
    BY <2>0
  <2>2. anchorId \in Ids(sourceGraph)
    <3>1. w \in Seq(Ids(sourceGraph)) /\ Len(w) = d + 1 /\ w[1] = anchorId
      BY <2>1 DEF IsWay
    <3>2. 1 \in 1 .. d + 1
      OBVIOUS
    <3> QED BY <3>1, <3>2
  <2>3. anchorId # NoNode /\ s # << >> /\ Last(s) = anchorId /\ anchorId \in ToSet(s)
    <3>1. anchorId # NoNode
      BY <1>0, <2>2, KnownGraphs
    <3>2. s # << >> /\ Last(s) = anchorId
      BY <3>1 DEF Leads, s
    <3> QED BY <1>0, <3>1, <3>2, LastIsIn
  <2>4. ASSUME NEW g, IsWalk(g, s), IsWay(g, w, anchorId, id, d)
        PROVE  IsWalk(g, trail) /\ trail # << >> /\ Last(trail) = id
    BY <1>0, <2>1, <2>3, <2>4, ExtensionIsWalk
  <2>5. sourceGraph # NoGraph
    BY <2>2, EmptyGraph
  <2>6. CASE sourceGraph = DemoGraph /\ IsWalk(DemoGraph, s)
    BY <2>1, <2>4, <2>6 DEF Leads
  <2>7. CASE sourceGraph = DemoGraph /\ latest # 0 /\ IsWalk(History[latest], s)
    <3>1. latest \in 1 .. Len(History) /\ anchorId \in Ids(DemoGraph) /\ anchorId \in Ids(History[latest])
      BY <1>0, <2>2, <2>3, <2>7 DEF IsWalk
    <3>2. IsWay(History[latest], w, anchorId, id, d)
      BY <2>1, <2>7, <3>1, SharedDemonstration, WayMoves DEF Demonstrated
    <3> QED BY <2>4, <2>7, <3>2 DEF Leads
  <2>8. CASE latest \in 1 .. Len(History) /\ latest # 0 /\ sourceGraph = History[latest] /\ IsWalk(DemoGraph, s)
    <3>1. anchorId \in Ids(DemoGraph) /\ anchorId \in Ids(History[latest])
      BY <2>2, <2>3, <2>8 DEF IsWalk
    <3>2. IsWalk(History[latest], s)
      BY <1>0, <2>8, <3>1, SharedDemonstration, WalkMoves DEF Demonstrated
    <3> QED BY <2>1, <2>4, <2>8, <3>2 DEF Leads
  <2>9. CASE latest \in 1 .. Len(History) /\ latest # 0 /\ sourceGraph = History[latest] /\ IsWalk(History[latest], s)
    BY <2>1, <2>4, <2>9 DEF Leads
  <2> QED BY <2>5, <2>6, <2>7, <2>8, <2>9, SourceInTime DEF Leads, s
<1> QED BY <1>1, <1>2, <1>3, <1>4 DEF TrailKind, s

\* A graph that extends the one before it takes the trail as a whole or not at all.
LEMMA TrailLands ==
  ASSUME Ranges, Leads(navigationPath, latest, anchorId),
         NEW v \in 1 .. Len(History), Demonstrates(History[v]),
         latest # 0 => Extends(History[latest], History[v]), ShowGraph(v)
  PROVE  Leads(navigationPath', v, anchorId')
<1> DEFINE g == History[v]
           s == navigationPath
           I == {i \in DOMAIN s : s[i] \in Ids(g)}
           kept == Picked(s, I)
           fallback == FallbackAnchor(g)
<1>0. /\ IsSeq(s) /\ IsGraph(g) /\ v # 0 /\ NoNode \notin Ids(g)
      /\ DOMAIN s = 1 .. Len(s) /\ ToSet(s) = {s[i] : i \in DOMAIN s}
      /\ latest # 0 => latest \in 1 .. Len(History)
  BY HistorySound, IdsAreNodes, SeqParts DEF Ranges, ToSet
<1>1. /\ anchorId' = IF anchorId \in Ids(g) THEN anchorId ELSE fallback
      /\ navigationPath' = IF kept # << >> THEN kept
                           ELSE IF fallback # NoNode THEN <<fallback>> ELSE << >>
  BY DEF ShowGraph
<1>2. fallback \in Ids(g) \cup {NoNode}
  BY <1>0, FallbackSound
<1> HIDE DEF fallback
<1>3. /\ DOMAIN s \subseteq I => kept = s
      /\ I \cap DOMAIN s = {} => kept = << >>
  <2> HIDE DEF I
  <2>1. IsSublist(kept, s, I)
    BY <1>0, PickedSound
  <2> HIDE DEF kept
  <2> QED BY <2>1 DEF IsSublist
<1> HIDE DEF s, g, kept
<1>4. CASE s # << >> /\ IsWalk(g, s)
  <2>1. DOMAIN s \subseteq I
    BY <1>0, <1>4 DEF IsWalk
  <2>2. anchorId = Last(s) /\ Last(s) \in Ids(g)
    <3>1. Last(s) \in ToSet(s)
      BY <1>0, <1>4, LastIsIn
    <3> QED BY <1>4, <3>1 DEF IsWalk, Leads, s
  <2>3. navigationPath' = s /\ anchorId' = anchorId
    BY <1>1, <1>3, <1>4, <2>1, <2>2
  <2> QED BY <1>0, <1>4, <2>2, <2>3 DEF Leads, g
<1>5. CASE kept = << >> /\ anchorId \notin Ids(g)
  <2>1. fallback # NoNode => /\ IsWalk(g, <<fallback>>) /\ <<fallback>> # << >>
                             /\ Last(<<fallback>>) = fallback
    BY <1>2, SingleIsWalk
  <2>2. IsWalk(g, << >>)
    BY EmptyIsWalk
  <2> QED BY <1>0, <1>1, <1>5, <2>1, <2>2 DEF Leads, g
<1>6. CASE s = << >>
  <2>1. anchorId = NoNode
    BY <1>6 DEF Leads, s
  <2>2. kept = << >>
    <3>1. DOMAIN s = {}
      BY <1>6
    <3> QED BY <1>3, <3>1
  <2> QED BY <1>0, <1>5, <2>1, <2>2
<1>7. CASE s # << >> /\ IsWalk(DemoGraph, s) /\ Ids(DemoGraph) \cap Ids(g) = {}
  <2>1. I \cap DOMAIN s = {}
    BY <1>0, <1>7 DEF IsWalk
  <2>2. anchorId \in Ids(DemoGraph)
    <3>1. Last(s) \in ToSet(s)
      BY <1>0, <1>7, LastIsIn
    <3> QED BY <1>7, <3>1 DEF IsWalk, Leads, s
  <2> QED BY <1>3, <1>5, <1>7, <2>1, <2>2
<1>8. CASE s # << >> /\ IsWalk(DemoGraph, s) /\ Ids(DemoGraph) \cap Ids(g) # {}
  <2>1. PICK x \in Ids(DemoGraph) : x \in Ids(g)
    BY <1>8
  <2>2. IsWalk(g, s)
    BY <1>0, <1>8, <2>1, SharedDemonstration, WalkMoves DEF g
  <2> QED BY <1>4, <1>8, <2>2
<1>9. CASE s # << >> /\ latest # 0 /\ IsWalk(History[latest], s)
  <2>1. IsWalk(g, s)
    BY <1>0, <1>9, WalkMoves DEF g, Extends
  <2> QED BY <1>4, <1>9, <2>1
<1> QED BY <1>6, <1>7, <1>8, <1>9 DEF Leads, s

\* TrailInv holds at first.
LEMMA TrailInit == Init => TrailInv
<1> SUFFICES ASSUME Init PROVE TrailInv
  OBVIOUS
<1>1. Suggested \in Ids(DemoGraph)
  BY ExplorationAssumption
<1>2. IsWalk(DemoGraph, <<Suggested>>) /\ <<Suggested>> # << >> /\ Last(<<Suggested>>) = Suggested
  BY <1>1, SingleIsWalk
<1>3. InTime /\ Demonstrated /\ WithinKnown
  BY EmptyGraph DEF Init, InTime, WithinKnown, Demonstrated
<1>4. OfOneGraph /\ EndsAtFocus
  BY <1>2 DEF Init, OfOneGraph, EndsAtFocus
<1> QED BY <1>3, <1>4 DEF TrailInv

\* Every step keeps TrailInv.
LEMMA TrailNext ==
  ASSUME Ranges, TrailInv, [Next]_vars
  PROVE  TrailInv'
<1> SUFFICES ASSUME ~altered' PROVE (InTime /\ Demonstrated /\ WithinKnown /\ OfOneGraph /\ EndsAtFocus)'
  BY DEF TrailInv
<1>1. ASSUME ~altered
      PROVE  InTime /\ Demonstrated /\ WithinKnown /\ Leads(navigationPath, latest, anchorId)
  BY <1>1 DEF TrailInv, OfOneGraph, EndsAtFocus, Leads
<1>2. ASSUME Leads(navigationPath', latest', anchorId') PROVE (OfOneGraph /\ EndsAtFocus)'
  BY <1>2 DEF OfOneGraph, EndsAtFocus, Leads
<1>3. CASE Stays
  <2>1. ~altered
    BY <1>3 DEF Stays
  <2>2. (Known)' = Known
    BY <1>3 DEF Stays, Known
  <2>3. Ids(projection) \subseteq Known /\ Ids(NoGraph) = {}
    BY <1>1, <2>1, KnownGraphs, EmptyGraph
  <2>4. WithinKnown'
    BY <1>1, <1>3, <2>1, <2>2, <2>3 DEF Stays, WithinKnown
  <2>5. InTime' /\ Demonstrated' /\ Leads(navigationPath', latest', anchorId')
    BY <1>1, <1>3, <2>1 DEF Stays, InTime, Demonstrated
  <2> QED BY <1>2, <2>4, <2>5
<1>4. CASE Falls
  <2>1. ~altered
    BY <1>4 DEF Falls
  <2> QED BY <1>1, <1>2, <1>4, <2>1
        DEF Falls, InTime, Demonstrated, WithinKnown, Known, placeVars, resultVars
<1>5. ASSUME NEW id, id \in Offered \/ id \in ToSet(navigationPath), NEW trail,
             TrailKind(navigationPath, anchorId, sourceGraph, id, trail), Goes(id, trail)
      PROVE  (InTime /\ Demonstrated /\ WithinKnown /\ OfOneGraph /\ EndsAtFocus)'
  <2>1. ~altered
    BY <1>5 DEF Goes
  <2>2. (Known)' = Known
    BY <1>5 DEF Goes, Known
  <2>3. id \in Known
    BY <1>1, <1>5, <2>1, KnownGraphs DEF Leads, IsWalk, Known
  <2>4. Leads(trail, latest, id)
    BY <1>1, <1>5, <2>1, <2>3, TrailGoesOn
  <2>5. WithinKnown'
    BY <1>1, <1>5, <2>1, <2>2, <2>3, EmptyGraph DEF Goes, WithinKnown
  <2> QED BY <1>1, <1>2, <1>5, <2>1, <2>4, <2>5 DEF Goes, InTime, Demonstrated
<1>6. ASSUME NEW id \in Offered, Goes(id, TrailTo(id))
      PROVE  (InTime /\ Demonstrated /\ WithinKnown /\ OfOneGraph /\ EndsAtFocus)'
  BY <1>5, <1>6, TrailKinds
<1>7. ASSUME NEW i \in DOMAIN navigationPath,
             Goes(navigationPath[i], SubSeq(navigationPath, 1, i))
      PROVE  (InTime /\ Demonstrated /\ WithinKnown /\ OfOneGraph /\ EndsAtFocus)'
  <2>1. navigationPath[i] \in ToSet(navigationPath)
    BY DEF ToSet
  <2>2. TrailKind(navigationPath, anchorId, sourceGraph, navigationPath[i], SubSeq(navigationPath, 1, i))
    BY DEF TrailKind
  <2> QED BY <1>5, <1>7, <2>1, <2>2
<1>8. ASSUME NEW v \in 1 .. Len(History), Lands(v)
      PROVE  (InTime /\ Demonstrated /\ WithinKnown /\ OfOneGraph /\ EndsAtFocus)'
  <2>1. /\ ~altered /\ latest' = v /\ shown' = v /\ Demonstrates(History[v])
        /\ latest # 0 => Extends(History[latest], History[v])
    BY <1>8 DEF Lands, Landed, ShowGraph
  <2>2. Known \subseteq (Known)'
    <3>1. v # 0
      OBVIOUS
    <3> QED BY <2>1, <3>1 DEF Known, Extends
  <2>3. WithinKnown'
    BY <1>1, <1>8, <2>1, <2>2, EmptyGraph DEF Lands, ShowGraph, WithinKnown
  <2>4. Leads(navigationPath', latest', anchorId')
    BY <1>1, <1>8, <2>1, TrailLands DEF Lands
  <2> QED BY <1>2, <2>1, <2>3, <2>4 DEF InTime, Demonstrated
<1> QED BY <1>3, <1>4, <1>6, <1>7, <1>8, StepKinds

\* As long as every graph that landed extended the one before it, the trail leads to the focus
\* along edges of the graph on the page, whatever was shown, hidden or searched on the way (App.tsx:245-264).
THEOREM TrailCorrect == Spec => []TrailIsWalk
<1>1. Init => Ranges /\ TrailInv
  BY RangesInit, TrailInit
<1>2. (Ranges /\ TrailInv) /\ [Next]_vars => (Ranges /\ TrailInv)'
  BY RangesNext, TrailNext
<1>3. ASSUME Ranges, TrailInv PROVE TrailIsWalk
  <2> SUFFICES ASSUME ~altered PROVE TrailIsWalk
    BY DEF TrailIsWalk
  <2> DEFINE s == navigationPath
  <2>1. InTime /\ Demonstrated /\ OfOneGraph /\ EndsAtFocus
    BY <1>3 DEF TrailInv
  <2>2. ASSUME NEW i \in 1 .. Len(s) - 1, s[i] \in Ids(sourceGraph), s[i + 1] \in Ids(sourceGraph)
        PROVE  Adjacent(sourceGraph, s[i], s[i + 1])
    <3>1. /\ IsSeq(s) /\ i \in 1 .. Len(s) /\ i + 1 \in 1 .. Len(s)
          /\ ToSet(s) = {s[j] : j \in 1 .. Len(s)} /\ (latest # 0 => latest \in 1 .. Len(History))
      BY <1>3, SeqParts, HistorySound DEF Ranges
    <3> DEFINE x == s[i]
               y == s[i + 1]
    <3>2. x \in ToSet(s) /\ y \in ToSet(s)
      BY <3>1
    <3>3. ASSUME NEW g, IsWalk(g, s)
          PROVE  x \in Ids(g) /\ y \in Ids(g) /\ Adjacent(g, x, y)
      BY <3>2, <3>3 DEF IsWalk
    <3>4. \/ sourceGraph = DemoGraph
          \/ latest \in 1 .. Len(History) /\ latest # 0 /\ sourceGraph = History[latest]
      BY <1>3, <2>1, <2>2, SourceInTime, EmptyGraph
    <3>5. IsWalk(DemoGraph, s) \/ (latest # 0 /\ IsWalk(History[latest], s))
      BY <2>1 DEF OfOneGraph
    <3>6. ASSUME latest # 0, x \in Ids(DemoGraph), x \in Ids(History[latest]),
                 y \in Ids(DemoGraph), y \in Ids(History[latest])
          PROVE  Adjacent(DemoGraph, x, y) <=> Adjacent(History[latest], x, y)
      BY <2>1, <3>6, SharedDemonstration DEF Demonstrated
    <3> HIDE DEF s, x, y
    <3> QED BY <2>2, <3>3, <3>4, <3>5, <3>6 DEF x, y
  <2> QED BY <2>1, <2>2 DEF TrailIsWalk, EndsAtFocus
<1> QED BY <1>1, <1>2, <1>3, PTL DEF Spec

-----------------------------------------------------------------------------
(* The stream of updates.                                                  *)

Versions == 0 .. MaxVersion
Stages == {"none", "auth", "version", "ready", "wait", "poll", "send", "note"}

LiveTypeOK ==
  /\ version \in Versions /\ unpublished \subseteq Versions
  /\ queue \in Seq(Versions) /\ server \in Stages
  /\ last \in Versions /\ message \in Versions /\ wire \in Nat
  /\ socket \in {"none", "connecting", "open", "retry"}
  /\ closing \in BOOLEAN /\ timer \in BOOLEAN
  /\ streamOpen \in BOOLEAN /\ connection \in {"demo", "offline", "live"}
  /\ phase \in {"idle", "health", "graph"} /\ asked \in Requests /\ tokenOk \in BOOLEAN
  /\ pending \in [Requests -> Nat] /\ landed \in Versions
  /\ failed \in BOOLEAN /\ faults \in Nat

\* The task and its queue exist as long as the socket is open; past the check of the
\* token, the token is right.
Served ==
  /\ (socket = "open") = (server # "none")
  /\ Subscribed => tokenOk

\* No message is about a version the store has not reached.
NotAhead ==
  /\ last <= version /\ message <= version
  /\ \A v \in unpublished : v <= version
  /\ \A i \in 1 .. Len(queue) : queue[i] <= version

\* A live console has a subscription, and a lost one has been reported.
Streaming ==
  /\ (connection = "live") = (socket # "none")
  /\ socket = "retry" => ~streamOpen

LiveInv == LiveTypeOK /\ NotAhead /\ Served /\ Streaming /\ CommitIsOnItsWay

-----------------------------------------------------------------------------
\* The console starts without a subscription.
LEMMA LiveInitHolds == LiveInit => LiveInv
<1> SUFFICES ASSUME LiveInit PROVE LiveInv
  OBVIOUS
<1>1. pending \in [Requests -> Nat] /\ queue \in Seq(Versions) /\ 0 \in Versions
  BY LiveAssumption DEF LiveInit, Versions
<1>2. asked \in Requests /\ unpublished \subseteq Versions
  BY LiveAssumption DEF LiveInit, Requests, Denied
<1>3. LiveTypeOK
  BY <1>1, <1>2 DEF LiveInit
<1>4. NotAhead /\ Served /\ Streaming /\ CommitIsOnItsWay
  BY LiveAssumption DEF LiveInit, NotAhead, Served, Streaming, Subscribed, CommitIsOnItsWay, BadgeLive
<1> QED BY <1>3, <1>4 DEF LiveInv

\* What a task leaves behind.
LEMMA GoneTyped ==
  ASSUME Gone
  PROVE  /\ queue' \in Seq(Versions) /\ server' = "none" /\ wire' = 0
         /\ last' \in Versions /\ message' \in Versions
<1>1. 0 \in Versions
  BY LiveAssumption DEF Versions
<1>2. << >> \in Seq(Versions)
  OBVIOUS
<1> QED BY <1>1, <1>2 DEF Gone

\* One lemma for each step; in each, the conjuncts of the invariant one by one.
LEMMA CommitKeeps ==
  ASSUME LiveInv, Commit
  PROVE  LiveInv'
<1> USE LiveAssumption DEF serverVars, streamVars, connectVars
<1>0. /\ version' = version + 1
      /\ UNCHANGED <<serverVars, streamVars, connectVars, pending, landed, failed, faults>>
  BY DEF Commit
<1>1. LiveTypeOK'
  BY DEF LiveInv, Commit, LiveTypeOK, Versions
<1>2. Served' /\ Streaming'
  BY DEF LiveInv, Commit, Served, Streaming, Subscribed
<1>3. CommitIsOnItsWay'
  <2> SUFFICES ASSUME BadgeLive' PROVE WillTell'
    BY DEF CommitIsOnItsWay
  <2>1. socket \in {"connecting", "open"}
    BY <1>0 DEF LiveInv, Streaming, LiveTypeOK, BadgeLive
  <2>2. CASE socket = "connecting"
    BY <1>0, <2>2 DEF WillTell
  <2>3. CASE socket = "open"
    <3>1. server \in Stages /\ server # "none"
      BY <2>3 DEF LiveInv, Served, LiveTypeOK
    <3>2. last # version' /\ message # version'
      BY <1>0 DEF LiveInv, NotAhead, LiveTypeOK, Versions
    <3> QED BY <1>0, <3>1, <3>2 DEF WillTell, Stages
  <2> QED BY <2>1, <2>2, <2>3
<1>4. NotAhead'
  BY DEF LiveInv, NotAhead, Commit, LiveTypeOK, Versions
<1> QED BY <1>1, <1>2, <1>3, <1>4 DEF LiveInv

LEMMA PublishKeeps ==
  ASSUME LiveInv, NEW v \in unpublished, Publish(v)
  PROVE  LiveInv'
<1> USE LiveAssumption DEF serverVars, streamVars, connectVars
<1>0. queue' \in Seq(Versions) /\ (queue' = queue \/ queue' # << >>)
  <2> DEFINE kept == IF Len(queue) = MaxQueue THEN Tail(queue) ELSE queue
  <2>1. queue \in Seq(Versions) /\ v \in Versions
    BY DEF LiveInv, LiveTypeOK
  <2>2. kept \in Seq(Versions)
    <3>1. CASE Len(queue) = MaxQueue
      <4>1. queue # << >>
        BY <2>1, <3>1
      <4> QED BY <2>1, <3>1, <4>1
    <3>2. CASE Len(queue) # MaxQueue
      BY <2>1, <3>2
    <3> QED BY <3>1, <3>2
  <2>3. Append(kept, v) \in Seq(Versions) /\ Append(kept, v) # << >>
    <3> HIDE DEF kept
    <3> QED BY <2>1, <2>2
  <2>4. queue' = queue \/ queue' = Append(kept, v)
    BY DEF Publish
  <2> QED BY <2>1, <2>3, <2>4
<1>10. unpublished' \subseteq Versions
  BY DEF LiveInv, LiveTypeOK, Publish
<1>1. LiveTypeOK'
  BY <1>0, <1>10 DEF LiveInv, Publish, LiveTypeOK
<1>2. Served' /\ Streaming'
  BY DEF LiveInv, Publish, Subscribed, Served, Streaming
<1>3. CommitIsOnItsWay'
  BY <1>0 DEF LiveInv, Publish, CommitIsOnItsWay, BadgeLive, WillTell
<1>4. NotAhead'
  BY DEF LiveInv, NotAhead, Publish
<1> QED BY <1>1, <1>2, <1>3, <1>4 DEF LiveInv

LEMMA AcceptKeeps ==
  ASSUME LiveInv, Accept
  PROVE  LiveInv'
<1> USE LiveAssumption DEF serverVars, streamVars, connectVars
<1>1. LiveTypeOK'
  BY DEF LiveInv, Accept, LiveTypeOK, Stages
<1>2. Served' /\ Streaming'
  BY DEF LiveInv, Accept, Served, Streaming, Subscribed
<1>3. CommitIsOnItsWay'
  BY DEF LiveInv, Accept, CommitIsOnItsWay, BadgeLive, WillTell
<1>4. NotAhead'
  BY DEF LiveInv, NotAhead, Accept
<1> QED BY <1>1, <1>2, <1>3, <1>4 DEF LiveInv

LEMMA RejectKeeps ==
  ASSUME LiveInv, Reject
  PROVE  LiveInv'
<1> USE LiveAssumption DEF serverVars, streamVars, connectVars
<1>0. /\ queue' \in Seq(Versions) /\ server' = "none" /\ wire' = 0
      /\ last' \in Versions /\ message' \in Versions
  BY GoneTyped DEF Reject
<1>1. LiveTypeOK'
  BY <1>0 DEF LiveInv, Reject, Closed, LiveTypeOK, Stages
<1>2. Served' /\ Streaming'
  BY <1>0 DEF LiveInv, Reject, Closed, Served, Streaming, Subscribed
<1>3. CommitIsOnItsWay'
  BY <1>0 DEF LiveInv, Reject, Closed, CommitIsOnItsWay, BadgeLive, WillTell
<1>4. NotAhead'
  BY DEF LiveInv, NotAhead, Reject, Gone, Closed, LiveTypeOK, Versions
<1> QED BY <1>1, <1>2, <1>3, <1>4 DEF LiveInv

LEMMA SubscribeKeeps ==
  ASSUME LiveInv, Subscribe
  PROVE  LiveInv'
<1> USE LiveAssumption DEF serverVars, streamVars, connectVars
<1>1. LiveTypeOK'
  BY DEF LiveInv, Subscribe, ConsoleUnchanged, LiveTypeOK, Stages
<1>2. Served' /\ Streaming'
  BY DEF LiveInv, Subscribe, ConsoleUnchanged, Served, Streaming
<1>3. CommitIsOnItsWay'
  BY DEF LiveInv, Subscribe, ConsoleUnchanged, CommitIsOnItsWay, BadgeLive, WillTell
<1>4. NotAhead'
  BY DEF LiveInv, NotAhead, Subscribe, ConsoleUnchanged
<1> QED BY <1>1, <1>2, <1>3, <1>4 DEF LiveInv

LEMMA ReadVersionKeeps ==
  ASSUME LiveInv, ReadVersion
  PROVE  LiveInv'
<1> USE LiveAssumption DEF serverVars, streamVars, connectVars
<1>1. LiveTypeOK'
  BY DEF LiveInv, ReadVersion, ConsoleUnchanged, LiveTypeOK, Stages
<1>2. Served' /\ Streaming'
  BY DEF LiveInv, ReadVersion, ConsoleUnchanged, Served, Streaming, Subscribed
<1>3. CommitIsOnItsWay'
  BY DEF LiveInv, ReadVersion, ConsoleUnchanged, CommitIsOnItsWay, BadgeLive, WillTell
<1>4. NotAhead'
  BY DEF LiveInv, NotAhead, ReadVersion, ConsoleUnchanged, LiveTypeOK, Versions
<1> QED BY <1>1, <1>2, <1>3, <1>4 DEF LiveInv

LEMMA SendReadyKeeps ==
  ASSUME LiveInv, SendReady
  PROVE  LiveInv'
<1> USE LiveAssumption DEF serverVars, streamVars, connectVars
<1>1. LiveTypeOK'
  BY DEF LiveInv, SendReady, ConsoleUnchanged, LiveTypeOK, Stages
<1>2. Served' /\ Streaming'
  BY DEF LiveInv, SendReady, ConsoleUnchanged, Served, Streaming, Subscribed
<1>3. CommitIsOnItsWay'
  BY DEF LiveInv, SendReady, ConsoleUnchanged, LiveTypeOK, CommitIsOnItsWay, BadgeLive, WillTell
<1>4. NotAhead'
  BY DEF LiveInv, NotAhead, SendReady, ConsoleUnchanged
<1> QED BY <1>1, <1>2, <1>3, <1>4 DEF LiveInv

LEMMA TakeMessageKeeps ==
  ASSUME LiveInv, TakeMessage
  PROVE  LiveInv'
<1> USE LiveAssumption DEF serverVars, streamVars, connectVars
<1>1. LiveTypeOK'
  BY DEF LiveInv, TakeMessage, ConsoleUnchanged, LiveTypeOK, Stages
<1>2. Served' /\ Streaming'
  BY DEF LiveInv, TakeMessage, ConsoleUnchanged, Served, Streaming, Subscribed
<1>3. CommitIsOnItsWay'
  BY DEF LiveInv, TakeMessage, ConsoleUnchanged, CommitIsOnItsWay, BadgeLive, WillTell
<1>4. NotAhead'
  BY DEF LiveInv, NotAhead, TakeMessage, ConsoleUnchanged
<1> QED BY <1>1, <1>2, <1>3, <1>4 DEF LiveInv

LEMMA TimeOutKeeps ==
  ASSUME LiveInv, TimeOut
  PROVE  LiveInv'
<1> USE LiveAssumption DEF serverVars, streamVars, connectVars
<1>1. LiveTypeOK'
  BY DEF LiveInv, TimeOut, ConsoleUnchanged, LiveTypeOK, Stages
<1>2. Served' /\ Streaming'
  BY DEF LiveInv, TimeOut, ConsoleUnchanged, Served, Streaming, Subscribed
<1>3. CommitIsOnItsWay'
  BY DEF LiveInv, TimeOut, ConsoleUnchanged, CommitIsOnItsWay, BadgeLive, WillTell
<1>4. NotAhead'
  BY DEF LiveInv, NotAhead, TimeOut, ConsoleUnchanged
<1> QED BY <1>1, <1>2, <1>3, <1>4 DEF LiveInv

LEMMA PollKeeps ==
  ASSUME LiveInv, Poll
  PROVE  LiveInv'
<1> USE LiveAssumption DEF serverVars, streamVars, connectVars
<1>1. LiveTypeOK'
  BY DEF LiveInv, Poll, ConsoleUnchanged, LiveTypeOK, Stages
<1>2. Served' /\ Streaming'
  BY DEF LiveInv, Poll, ConsoleUnchanged, Served, Streaming, Subscribed
<1>3. CommitIsOnItsWay'
  BY DEF LiveInv, Poll, ConsoleUnchanged, CommitIsOnItsWay, BadgeLive, WillTell
<1>4. NotAhead'
  BY DEF LiveInv, NotAhead, Poll, ConsoleUnchanged, LiveTypeOK, Versions
<1> QED BY <1>1, <1>2, <1>3, <1>4 DEF LiveInv

LEMMA SendKeeps ==
  ASSUME LiveInv, Send
  PROVE  LiveInv'
<1> USE LiveAssumption DEF serverVars, streamVars, connectVars
<1>1. LiveTypeOK'
  BY DEF LiveInv, Send, ConsoleUnchanged, LiveTypeOK, Stages
<1>2. Served' /\ Streaming'
  BY DEF LiveInv, Send, ConsoleUnchanged, Served, Streaming, Subscribed
<1>3. CommitIsOnItsWay'
  BY DEF LiveInv, Send, ConsoleUnchanged, LiveTypeOK, CommitIsOnItsWay, BadgeLive, WillTell
<1>4. NotAhead'
  BY DEF LiveInv, NotAhead, Send, ConsoleUnchanged
<1> QED BY <1>1, <1>2, <1>3, <1>4 DEF LiveInv

LEMMA NoteKeeps ==
  ASSUME LiveInv, Note
  PROVE  LiveInv'
<1> USE LiveAssumption DEF serverVars, streamVars, connectVars
<1>1. LiveTypeOK'
  BY DEF LiveInv, Note, ConsoleUnchanged, LiveTypeOK, Versions, Stages
<1>2. Served' /\ Streaming'
  BY DEF LiveInv, Note, ConsoleUnchanged, Served, Streaming, Subscribed
<1>3. CommitIsOnItsWay'
  BY DEF LiveInv, Note, ConsoleUnchanged, CommitIsOnItsWay, BadgeLive, WillTell
<1>4. NotAhead'
  BY DEF LiveInv, NotAhead, Note, ConsoleUnchanged, LiveTypeOK, Versions
<1> QED BY <1>1, <1>2, <1>3, <1>4 DEF LiveInv

LEMMA DropKeeps ==
  ASSUME LiveInv, Drop
  PROVE  LiveInv'
<1> USE LiveAssumption DEF serverVars, streamVars, connectVars
<1>0. /\ queue' \in Seq(Versions) /\ server' = "none" /\ wire' = 0
      /\ last' \in Versions /\ message' \in Versions
  BY GoneTyped DEF Drop
<1>10. closing' \in BOOLEAN
  BY DEF LiveInv, LiveTypeOK, Drop, Closed
<1>11. faults' \in Nat
  BY DEF LiveInv, LiveTypeOK, Drop, Fault
<1>1. LiveTypeOK'
  BY <1>0, <1>10, <1>11 DEF LiveInv, Drop, Closed, LiveTypeOK, Stages
<1>2. Served' /\ Streaming'
  BY <1>0 DEF LiveInv, Drop, Closed, Served, Streaming, Subscribed
<1>3. CommitIsOnItsWay'
  BY <1>0 DEF LiveInv, Drop, Closed, CommitIsOnItsWay, BadgeLive, WillTell
<1>4. NotAhead'
  BY DEF LiveInv, NotAhead, Drop, Gone, Closed, LiveTypeOK, Versions
<1> QED BY <1>1, <1>2, <1>3, <1>4 DEF LiveInv

LEMMA ReconnectKeeps ==
  ASSUME LiveInv, Reconnect
  PROVE  LiveInv'
<1> USE LiveAssumption DEF serverVars, streamVars, connectVars
<1>1. LiveTypeOK'
  BY DEF LiveInv, Reconnect, LiveTypeOK
<1>2. Served' /\ Streaming'
  BY DEF LiveInv, Reconnect, Served, Streaming, Subscribed
<1>3. CommitIsOnItsWay'
  BY DEF LiveInv, Reconnect, CommitIsOnItsWay, BadgeLive, WillTell
<1>4. NotAhead'
  BY DEF LiveInv, NotAhead, Reconnect
<1> QED BY <1>1, <1>2, <1>3, <1>4 DEF LiveInv

LEMMA LateCloseKeeps ==
  ASSUME LiveInv, LateClose
  PROVE  LiveInv'
<1> USE LiveAssumption DEF serverVars, streamVars, connectVars
<1>1. LiveTypeOK'
  BY DEF LiveInv, LateClose, LiveTypeOK
<1>2. Served' /\ Streaming'
  BY DEF LiveInv, LateClose, Served, Streaming, Subscribed
<1>3. CommitIsOnItsWay'
  BY DEF LiveInv, LateClose, CommitIsOnItsWay, BadgeLive, WillTell
<1>4. NotAhead'
  BY DEF LiveInv, NotAhead, LateClose
<1> QED BY <1>1, <1>2, <1>3, <1>4 DEF LiveInv

LEMMA DeliverKeeps ==
  ASSUME LiveInv, Deliver
  PROVE  LiveInv'
<1> USE LiveAssumption DEF serverVars, streamVars, connectVars
<1>1. LiveTypeOK'
  BY DEF LiveInv, Deliver, LiveTypeOK
<1>2. Served' /\ Streaming'
  BY DEF LiveInv, Deliver, Served, Streaming, Subscribed
<1>3. CommitIsOnItsWay'
  BY DEF LiveInv, Deliver, CommitIsOnItsWay, BadgeLive, WillTell
<1>4. NotAhead'
  BY DEF LiveInv, NotAhead, Deliver
<1> QED BY <1>1, <1>2, <1>3, <1>4 DEF LiveInv

LEMMA RefetchKeeps ==
  ASSUME LiveInv, Refetch
  PROVE  LiveInv'
<1> USE LiveAssumption DEF serverVars, streamVars, connectVars
<1>0. RequestedAt \in Requests /\ pending' = [pending EXCEPT ![RequestedAt] = @ + 1]
  BY DEF LiveInv, LiveTypeOK, Refetch, RequestedAt, Requests, Denied
<1>10. pending' \in [Requests -> Nat]
  BY <1>0 DEF LiveInv, LiveTypeOK
<1>1. LiveTypeOK'
  BY <1>10 DEF LiveInv, Refetch, RequestedAt, LiveTypeOK
<1>2. Served' /\ Streaming'
  BY DEF LiveInv, Refetch, RequestedAt, Served, Streaming, Subscribed
<1>3. CommitIsOnItsWay'
  <2>1. CASE tokenOk
    <3>1. RequestedAt = version /\ version \in version .. MaxVersion /\ version' = version
      BY <2>1 DEF RequestedAt, Refetch, LiveInv, LiveTypeOK, Versions
    <3>2. pending'[version] > 0
      BY <1>0, <3>1 DEF LiveInv, LiveTypeOK
    <3> QED BY <3>1, <3>2 DEF CommitIsOnItsWay
  <2>2. CASE ~tokenOk
    <3>1. UNCHANGED <<connection, streamOpen, socket, server>>
      BY DEF Refetch
    <3>2. ASSUME BadgeLive PROVE socket = "connecting" \/ server = "auth"
      <4>1. socket \in {"connecting", "open"}
        BY <3>2 DEF LiveInv, LiveTypeOK, Streaming, BadgeLive
      <4>2. socket = "open" => server \in Stages \ {"none"} /\ ~Subscribed
        BY <2>2 DEF LiveInv, LiveTypeOK, Served
      <4> QED BY <4>1, <4>2 DEF Subscribed, Stages
    <3> QED BY <3>1, <3>2 DEF CommitIsOnItsWay, BadgeLive, WillTell
  <2> QED BY <2>1, <2>2
<1>4. NotAhead'
  BY DEF LiveInv, NotAhead, Refetch, RequestedAt
<1> QED BY <1>1, <1>2, <1>3, <1>4 DEF LiveInv

LEMMA LandKeeps ==
  ASSUME LiveInv, NEW a \in Requests, Land(a)
  PROVE  LiveInv'
<1> USE LiveAssumption DEF serverVars, streamVars, connectVars
<1>1. LiveTypeOK'
  BY DEF LiveInv, Land, Show, LiveTypeOK, Versions
<1>2. Served' /\ Streaming'
  BY DEF LiveInv, Land, Show, Served, Streaming, Subscribed
<1>3. CommitIsOnItsWay'
  BY DEF LiveInv, Land, Show, LiveTypeOK, Versions, CommitIsOnItsWay, BadgeLive, WillTell
<1>4. NotAhead'
  BY DEF LiveInv, NotAhead, Land, Show
<1> QED BY <1>1, <1>2, <1>3, <1>4 DEF LiveInv

LEMMA RefetchFailsKeeps ==
  ASSUME LiveInv, NEW a \in Requests, RefetchFails(a)
  PROVE  LiveInv'
<1> USE LiveAssumption DEF serverVars, streamVars, connectVars
<1>0. pending' \in [Requests -> Nat]
  BY DEF LiveInv, LiveTypeOK, RefetchFails
<1>10. faults' \in Nat
  BY DEF LiveInv, LiveTypeOK, RefetchFails, Fault
<1>11. failed' \in BOOLEAN
  BY DEF LiveInv, LiveTypeOK, RefetchFails
<1>1. LiveTypeOK'
  BY <1>0, <1>10, <1>11 DEF LiveInv, RefetchFails, LiveTypeOK
<1>2. Served' /\ Streaming'
  BY DEF LiveInv, RefetchFails, Served, Streaming, Subscribed
<1>3. CommitIsOnItsWay'
  BY DEF LiveInv, RefetchFails, CommitIsOnItsWay, BadgeLive, WillTell
<1>4. NotAhead'
  BY DEF LiveInv, NotAhead, RefetchFails
<1> QED BY <1>1, <1>2, <1>3, <1>4 DEF LiveInv

LEMMA HealthAnswersKeeps ==
  ASSUME LiveInv, HealthAnswers
  PROVE  LiveInv'
<1> USE LiveAssumption DEF serverVars, streamVars, connectVars
<1>1. LiveTypeOK'
  BY DEF LiveInv, HealthAnswers, RequestedAt, LiveTypeOK, Versions, Requests, Denied
<1>2. Served' /\ Streaming'
  BY DEF LiveInv, HealthAnswers, RequestedAt, Served, Streaming, Subscribed
<1>3. CommitIsOnItsWay'
  BY DEF LiveInv, HealthAnswers, RequestedAt, CommitIsOnItsWay, BadgeLive, WillTell
<1>4. NotAhead'
  BY DEF LiveInv, NotAhead, HealthAnswers, RequestedAt
<1> QED BY <1>1, <1>2, <1>3, <1>4 DEF LiveInv

LEMMA ConnectedKeeps ==
  ASSUME LiveInv, Connected
  PROVE  LiveInv'
<1> USE LiveAssumption DEF serverVars, streamVars, connectVars
<1>1. LiveTypeOK'
  BY DEF LiveInv, Connected, Show, LiveTypeOK, Requests, Denied
<1>2. Served' /\ Streaming'
  BY DEF LiveInv, Connected, Show, Served, Streaming, Subscribed
<1>3. CommitIsOnItsWay'
  BY DEF LiveInv, Connected, Show, LiveTypeOK, Versions, CommitIsOnItsWay, BadgeLive, WillTell
<1>4. NotAhead'
  BY DEF LiveInv, NotAhead, Connected, Show
<1> QED BY <1>1, <1>2, <1>3, <1>4 DEF LiveInv

LEMMA RefusedKeeps ==
  ASSUME LiveInv, Refused
  PROVE  LiveInv'
<1> USE LiveAssumption DEF serverVars, streamVars, connectVars
<1>0. /\ queue' \in Seq(Versions) /\ server' = "none" /\ wire' = 0
      /\ last' \in Versions /\ message' \in Versions
  BY GoneTyped DEF Refused, Resubscribe
<1>10. closing' \in BOOLEAN
  BY DEF LiveInv, Refused, Resubscribe
<1>12. timer' \in BOOLEAN /\ socket' \in {"none", "connecting", "open", "retry"}
  BY DEF LiveInv, Refused, Resubscribe
<1>1. LiveTypeOK'
  BY <1>0, <1>12, <1>10 DEF LiveInv, Refused, LiveTypeOK, Stages, Requests
<1>2. Served' /\ Streaming'
  BY <1>0 DEF LiveInv, Refused, Resubscribe, Served, Streaming, Subscribed
<1>3. CommitIsOnItsWay'
  BY <1>0 DEF LiveInv, Refused, Resubscribe, CommitIsOnItsWay, BadgeLive, WillTell
<1>4. NotAhead'
  BY DEF LiveInv, NotAhead, Refused, Resubscribe, Gone, LiveTypeOK, Versions
<1> QED BY <1>1, <1>2, <1>3, <1>4 DEF LiveInv

LEMMA ConnectFailsKeeps ==
  ASSUME LiveInv, ConnectFails
  PROVE  LiveInv'
<1> USE LiveAssumption DEF serverVars, streamVars, connectVars
<1>0. /\ queue' \in Seq(Versions) /\ server' = "none" /\ wire' = 0
      /\ last' \in Versions /\ message' \in Versions
  BY GoneTyped DEF ConnectFails, Resubscribe
<1>10. closing' \in BOOLEAN
  BY DEF LiveInv, ConnectFails, Resubscribe
<1>12. timer' \in BOOLEAN /\ socket' \in {"none", "connecting", "open", "retry"}
  BY DEF LiveInv, ConnectFails, Resubscribe
<1>11. faults' \in Nat
  BY DEF LiveInv, LiveTypeOK, ConnectFails, Fault
<1>1. LiveTypeOK'
  BY <1>0, <1>12, <1>10, <1>11 DEF LiveInv, ConnectFails, LiveTypeOK, Stages, Requests, Denied
<1>2. Served' /\ Streaming'
  BY <1>0 DEF LiveInv, ConnectFails, Resubscribe, Served, Streaming, Subscribed
<1>3. CommitIsOnItsWay'
  BY <1>0 DEF LiveInv, ConnectFails, Resubscribe, CommitIsOnItsWay, BadgeLive, WillTell
<1>4. NotAhead'
  BY DEF LiveInv, NotAhead, ConnectFails, Resubscribe, Gone, LiveTypeOK, Versions
<1> QED BY <1>1, <1>2, <1>3, <1>4 DEF LiveInv

LEMMA ChangeTokenKeeps ==
  ASSUME LiveInv, ChangeToken
  PROVE  LiveInv'
<1> USE LiveAssumption DEF serverVars, streamVars, connectVars
<1>0. \/ connection # "live" /\ UNCHANGED serverVars
      \/ /\ queue' \in Seq(Versions) /\ server' = "none" /\ wire' = 0
         /\ last' \in Versions /\ message' \in Versions
  BY GoneTyped DEF ChangeToken, Resubscribe
<1>10. closing' \in BOOLEAN
  BY DEF LiveInv, LiveTypeOK, ChangeToken, Resubscribe
<1>12. timer' \in BOOLEAN /\ socket' \in {"none", "connecting", "open", "retry"}
  BY DEF LiveInv, LiveTypeOK, ChangeToken, Resubscribe
<1>11. faults' \in Nat
  BY DEF LiveInv, LiveTypeOK, ChangeToken, Fault
<1>13. /\ queue' \in Seq(Versions) /\ server' \in Stages /\ wire' \in Nat
       /\ last' \in Versions /\ message' \in Versions
  BY <1>0 DEF LiveInv, LiveTypeOK, Stages
<1>14. asked' \in Requests /\ tokenOk' \in BOOLEAN
  BY DEF ChangeToken, Requests, Denied
<1>1. LiveTypeOK'
  BY <1>10, <1>11, <1>12, <1>13, <1>14 DEF LiveInv, ChangeToken, LiveTypeOK
<1>2. Served' /\ Streaming'
  BY <1>0 DEF LiveInv, ChangeToken, Resubscribe, Served, Streaming, Subscribed
<1>3. CommitIsOnItsWay'
  BY <1>0 DEF LiveInv, ChangeToken, Resubscribe, CommitIsOnItsWay, BadgeLive, WillTell
<1>4. NotAhead'
  BY DEF LiveInv, NotAhead, ChangeToken, Resubscribe, Gone, LiveTypeOK, Versions
<1> QED BY <1>1, <1>2, <1>3, <1>4 DEF LiveInv

-----------------------------------------------------------------------------
\* The invariant is inductive.
LEMMA LiveStepKeeps == LiveInv /\ [LiveNext]_liveVars => LiveInv'
<1> SUFFICES ASSUME LiveInv, [LiveNext]_liveVars PROVE LiveInv'
  OBVIOUS
<1>1. CASE Commit
  BY <1>1, CommitKeeps
<1>2. CASE \E v \in unpublished : Publish(v)
  BY <1>2, PublishKeeps
<1>3. CASE Accept
  BY <1>3, AcceptKeeps
<1>4. CASE Reject
  BY <1>4, RejectKeeps
<1>5. CASE Subscribe
  BY <1>5, SubscribeKeeps
<1>6. CASE ReadVersion
  BY <1>6, ReadVersionKeeps
<1>7. CASE SendReady
  BY <1>7, SendReadyKeeps
<1>8. CASE TakeMessage
  BY <1>8, TakeMessageKeeps
<1>9. CASE Poll
  BY <1>9, PollKeeps
<1>10. CASE Send
  BY <1>10, SendKeeps
<1>11. CASE Note
  BY <1>11, NoteKeeps
<1>12. CASE Drop
  BY <1>12, DropKeeps
<1>13. CASE Reconnect
  BY <1>13, ReconnectKeeps
<1>14. CASE LateClose
  BY <1>14, LateCloseKeeps
<1>15. CASE Deliver
  BY <1>15, DeliverKeeps
<1>16. CASE Refetch
  BY <1>16, RefetchKeeps
<1>17. CASE \E a \in Requests : Land(a)
  BY <1>17, LandKeeps
<1>18. CASE \E a \in Requests : RefetchFails(a)
  BY <1>18, RefetchFailsKeeps
<1>19. CASE HealthAnswers
  BY <1>19, HealthAnswersKeeps
<1>20. CASE Connected
  BY <1>20, ConnectedKeeps
<1>21. CASE Refused
  BY <1>21, RefusedKeeps
<1>22. CASE ConnectFails
  BY <1>22, ConnectFailsKeeps
<1>23. CASE ChangeToken
  BY <1>23, ChangeTokenKeeps
<1>24. CASE TimeOut
  BY <1>24, TimeOutKeeps
<1>25. CASE UNCHANGED liveVars
  BY <1>25 DEF LiveInv, LiveTypeOK, NotAhead, Served, Streaming, Subscribed, CommitIsOnItsWay, BadgeLive,
     WillTell, liveVars, serverVars, streamVars, connectVars
<1> QED
  BY <1>1, <1>2, <1>3, <1>4, <1>5, <1>6, <1>7, <1>8, <1>9, <1>10, <1>11, <1>12, <1>13, <1>14,
     <1>15, <1>16, <1>17, <1>18, <1>19, <1>20, <1>21, <1>22, <1>23, <1>24, <1>25
     DEF LiveNext, Daemon, Console

\* The inductive invariant: the stream's and the task's stages fit together.
THEOREM LiveInvariance == LiveSpec => []LiveInv
<1>1. LiveInit => LiveInv
  BY LiveInitHolds
<1>2. LiveInv /\ [LiveNext]_liveVars => LiveInv'
  BY LiveStepKeeps
<1> QED BY <1>1, <1>2, PTL DEF LiveSpec

\* While the badge says Live, the newest commit has been shown or something that will
\* fetch it is under way, whatever was lost, told out of order or dropped from a full
\* queue (api.py:482-541, App.tsx:132-146).
THEOREM NoCommitIsLost == LiveSpec => []CommitIsOnItsWay
<1>1. LiveInv => CommitIsOnItsWay
  BY DEF LiveInv
<1> QED BY <1>1, LiveInvariance, PTL
================================================================================

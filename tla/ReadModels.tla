------------------------------ MODULE ReadModels ------------------------------
(***************************************************************************)
(* The read side of the service (packages/core/src/brainhub/service.py,    *)
(* graph.py, search.py): request threads that answer from a cached graph   *)
(* and a cached search index while other threads and processes commit.     *)
(* Both caches are versioned by the projector's checkpoint.  The graph is  *)
(* reloaded in one SQLite snapshot under a lock; the index is rebuilt in   *)
(* several steps, each of which sees the store as it is by then, and is    *)
(* swapped in under the version that was read first.                       *)
(*                                                                         *)
(* A graph is known by the version it was read at.  NodesAt gives the      *)
(* nodes that are valid at the requested moment in each version, Reach     *)
(* those of them within the asked radius of the anchor.  Versions only     *)
(* grow: a reset of the store is not part of this module.                  *)
(***************************************************************************)
EXTENDS Integers

CONSTANTS Threads,      \* the request threads of the daemon
          MaxVersion,   \* bound: how many events are committed
          MaxRetries,   \* rebuilds that are started over in one call, 2
          NodesAt,      \* the valid nodes of every version
          Reach,        \* the anchor's neighborhood in every version
          Anchor, Target,
          NoThread,     \* a lock nobody holds
          Nothing       \* no request

ASSUME ReadAssumption ==
  /\ MaxVersion \in Nat /\ MaxRetries \in Nat
  /\ NoThread \notin Threads
  /\ \A v \in 0 .. MaxVersion : Reach[v] \subseteq NodesAt[v]
  /\ Nothing \notin Nat

NotLoaded == -1         \* _cache_version, _projection_version at start

VARIABLES
  version,       \* MAX(last_sequence) of projector_checkpoint
  cache,         \* EvidenceGraph._cache_version, the version of _cache
  cacheLock,     \* who holds _cache_lock over a reload
  label,         \* SearchIndex._projection_version
  indexed,       \* the version whose nodes the index holds
  rebuildLock,   \* who holds _rebuild_lock
  attempt,       \* _rebuild_snapshot's argument
  listed,        \* the version its list_nodes saw
  pc, op,        \* where a thread is in which request
  from,          \* the version when the request came in
  seen,          \* the version the thread read last
  round,         \* which _snapshot call: 0 the refresh, then 1 and 2
  first,         \* the version of the snapshot whose neighborhood is used
  used           \* the versions the answer is made of

graphVars == <<cache, cacheLock>>
indexVars == <<label, indexed, rebuildLock, attempt, listed>>
vars == <<version, graphVars, indexVars, pc, op, from, seen, round, first, used>>

Ops == {"graph", "expand", "path", "search"}

-----------------------------------------------------------------------------
(* Helpers.                                                                *)

Goto(t, l) == pc' = [pc EXCEPT ![t] = l]

ReadsVersion(t) == seen' = [seen EXCEPT ![t] = version]

\* The 404s: an anchor or an end of a path that the graph lacks, or no path.
NotFound(o, v) ==
  \/ o # "graph" /\ Anchor \notin NodesAt[v]
  \/ o = "path" /\ Target \notin Reach[v]

\* Where a request goes on after its first snapshot.
Onward == [graph |-> "label", path |-> "label", expand |-> "version", search |-> "ensure"]
AfterFirst(o, v) == IF NotFound(o, v) THEN "failed" ELSE Onward[o]

\* expand looks the nodes of the first snapshot's neighborhood up in the second.
AfterSecond(v, w) == IF Reach[v] \subseteq NodesAt[w] THEN "label" ELSE "failed"

\* _snapshot returned version v to thread t.
Took(t, v) ==
  \/ /\ round[t] = 0
     /\ Goto(t, "version") /\ round' = [round EXCEPT ![t] = 1]
     /\ UNCHANGED <<first, used>>
  \/ /\ round[t] = 1
     /\ Goto(t, AfterFirst(op[t], v)) /\ round' = [round EXCEPT ![t] = 2]
     /\ first' = [first EXCEPT ![t] = v]
     /\ used' = [used EXCEPT ![t] = {v}]
  \/ /\ round[t] = 2
     /\ Goto(t, AfterSecond(first[t], v))
     /\ used' = [used EXCEPT ![t] = @ \cup {v}]
     /\ UNCHANGED <<round, first>>

-----------------------------------------------------------------------------
(* The store and the clients.                                              *)

\* Some thread or process commits an event.
Commit ==
  /\ version < MaxVersion
  /\ version' = version + 1
  /\ UNCHANGED <<graphVars, indexVars, pc, op, from, seen, round, first, used>>

\* A request comes in; search takes its snapshot without refreshing first.
Ask(t, o) ==
  /\ pc[t] = "idle"
  /\ Goto(t, IF o = "search" THEN "version" ELSE "observe")
  /\ op' = [op EXCEPT ![t] = o]
  /\ from' = [from EXCEPT ![t] = version]
  /\ round' = [round EXCEPT ![t] = 1]
  /\ UNCHANGED <<version, graphVars, indexVars, seen, first, used>>

\* The answer or the error goes back.
Take(t) ==
  /\ pc[t] \in {"done", "failed"}
  /\ Goto(t, "idle")
  /\ from' = [from EXCEPT ![t] = 0] /\ seen' = [seen EXCEPT ![t] = 0]
  /\ first' = [first EXCEPT ![t] = 0] /\ used' = [used EXCEPT ![t] = {}]
  /\ UNCHANGED <<version, graphVars, indexVars, op, round>>

-----------------------------------------------------------------------------
(* The graph.                                                              *)

\* refresh_graph_if_stale reads the version.
Observe(t) ==
  /\ pc[t] = "observe"
  /\ ReadsVersion(t) /\ Goto(t, "check")
  /\ UNCHANGED <<version, graphVars, indexVars, op, from, round, first, used>>

\* refresh_if_loaded: a graph that was loaded at another version is reloaded first.
Check(t) ==
  /\ pc[t] = "check" /\ cacheLock = NoThread
  /\ Goto(t, "version")
  /\ round' = [round EXCEPT ![t] = IF cache \notin {NotLoaded, seen[t]} THEN 0 ELSE 1]
  /\ UNCHANGED <<version, graphVars, indexVars, op, from, seen, first, used>>

\* _snapshot reads the version before it takes the lock.
ReadVersion(t) ==
  /\ pc[t] = "version"
  /\ ReadsVersion(t) /\ Goto(t, "lookup")
  /\ UNCHANGED <<version, graphVars, indexVars, op, from, round, first, used>>

\* Mutant: whatever is loaded is current.
HitAnything(t) ==
  /\ pc[t] = "lookup" /\ cacheLock = NoThread
  /\ cache # NotLoaded
  /\ Took(t, cache)
  /\ UNCHANGED <<version, graphVars, indexVars, op, from, seen>>

\* The cached graph has the version that was read.
Hit(t) ==
  /\ pc[t] = "lookup" /\ cacheLock = NoThread
  /\ cache # NotLoaded /\ cache = seen[t]
  /\ Took(t, cache)
  /\ UNCHANGED <<version, graphVars, indexVars, op, from, seen>>

\* Mutant: the store is read without the lock.
MissUnlocked(t) ==
  /\ pc[t] = "lookup"
  /\ cache = NotLoaded \/ cache # seen[t]
  /\ ReadsVersion(t) /\ Goto(t, "install")
  /\ UNCHANGED <<version, graphVars, indexVars, op, from, round, first, used>>

\* Mutant: the reading thread never gives the lock back.
MissForGood(t) ==
  /\ pc[t] = "lookup" /\ cacheLock = NoThread
  /\ cache = NotLoaded \/ cache # seen[t]
  /\ cacheLock' = t
  /\ ReadsVersion(t) /\ Goto(t, "wait")
  /\ UNCHANGED <<version, cache, indexVars, op, from, round, first, used>>

\* It has not: nodes, edges and checkpoint are read in one transaction.
Miss(t) ==
  /\ pc[t] = "lookup" /\ cacheLock = NoThread
  /\ cache = NotLoaded \/ cache # seen[t]
  /\ cacheLock' = t
  /\ ReadsVersion(t) /\ Goto(t, "install")
  /\ UNCHANGED <<version, cache, indexVars, op, from, round, first, used>>

Install(t) ==
  /\ pc[t] = "install"
  /\ cache' = seen[t] /\ cacheLock' = NoThread
  /\ Took(t, seen[t])
  /\ UNCHANGED <<version, indexVars, op, from, seen>>

\* The answer is labelled with the version the cache has by now.
Label(t) ==
  /\ pc[t] = "label" /\ cacheLock = NoThread
  /\ used' = [used EXCEPT ![t] = @ \cup {cache}]
  /\ Goto(t, "done")
  /\ UNCHANGED <<version, graphVars, indexVars, op, from, seen, round, first>>

-----------------------------------------------------------------------------
(* The search index.                                                       *)

\* ensure_current reads the version ...
Ensure(t) ==
  /\ pc[t] = "ensure"
  /\ ReadsVersion(t) /\ Goto(t, "compare")
  /\ UNCHANGED <<version, graphVars, indexVars, op, from, round, first, used>>

\* ... and compares it with the one the index has by then.
Compare(t) ==
  /\ pc[t] = "compare"
  /\ Goto(t, IF label # seen[t] THEN "rebuild" ELSE "use")
  /\ UNCHANGED <<version, graphVars, indexVars, op, from, seen, round, first, used>>

\* rebuild: one at a time; the version is read before the nodes.
Rebuild(t) ==
  /\ pc[t] = "rebuild" /\ rebuildLock = NoThread
  /\ rebuildLock' = t /\ attempt' = 0
  /\ ReadsVersion(t) /\ Goto(t, "list")
  /\ UNCHANGED <<version, graphVars, label, indexed, listed, op, from, round, first, used>>

\* list_nodes, and the index that is built from it.
List(t) ==
  /\ pc[t] = "list"
  /\ listed' = version /\ Goto(t, "recheck")
  /\ UNCHANGED <<version, graphVars, label, indexed, rebuildLock, attempt>>
  /\ UNCHANGED <<op, from, seen, round, first, used>>

\* The store has moved on while the index was built: start over, not for ever.
Recheck(t) ==
  /\ pc[t] = "recheck"
  /\ \/ /\ version # seen[t] /\ attempt < MaxRetries
        /\ attempt' = attempt + 1 /\ Goto(t, "source")
     \/ /\ version = seen[t] \/ attempt >= MaxRetries
        /\ Goto(t, "swap") /\ UNCHANGED attempt
  /\ UNCHANGED <<version, graphVars, label, indexed, rebuildLock, listed>>
  /\ UNCHANGED <<op, from, seen, round, first, used>>

Source(t) ==
  /\ pc[t] = "source"
  /\ ReadsVersion(t) /\ Goto(t, "list")
  /\ UNCHANGED <<version, graphVars, indexVars, op, from, round, first, used>>

\* Mutant: the index is labelled with the version the store has when it is done.
SwapAsLatest(t) ==
  /\ pc[t] = "swap"
  /\ label' = version /\ indexed' = listed
  /\ rebuildLock' = NoThread /\ Goto(t, "use")
  /\ UNCHANGED <<version, graphVars, attempt, listed, op, from, seen, round, first, used>>

\* The finished index is swapped in, under the version that was read first.
Swap(t) ==
  /\ pc[t] = "swap"
  /\ label' = seen[t] /\ indexed' = listed
  /\ rebuildLock' = NoThread /\ Goto(t, "use")
  /\ UNCHANGED <<version, graphVars, attempt, listed, op, from, seen, round, first, used>>

\* search takes a copy of the index and ranks the neighborhood in it.
Use(t) ==
  /\ pc[t] = "use"
  /\ used' = [used EXCEPT ![t] = @ \cup {label, indexed}]
  /\ Goto(t, "done")
  /\ UNCHANGED <<version, graphVars, indexVars, op, from, seen, round, first>>

-----------------------------------------------------------------------------
Init ==
  /\ version = 0
  /\ cache = NotLoaded /\ cacheLock = NoThread
  /\ label = NotLoaded /\ indexed = NotLoaded
  /\ rebuildLock = NoThread /\ attempt = 0 /\ listed = 0
  /\ pc = [t \in Threads |-> "idle"] /\ op = [t \in Threads |-> "graph"]
  /\ from = [t \in Threads |-> 0] /\ seen = [t \in Threads |-> 0]
  /\ round = [t \in Threads |-> 1] /\ first = [t \in Threads |-> 0]
  /\ used = [t \in Threads |-> {}]

Work(t) ==
  \/ Observe(t) \/ Check(t) \/ ReadVersion(t) \/ Hit(t) \/ Miss(t) \/ Install(t)
  \/ Label(t) \/ Ensure(t) \/ Compare(t) \/ Rebuild(t) \/ List(t) \/ Recheck(t)
  \/ Source(t) \/ Swap(t) \/ Use(t)

Next ==
  \/ Commit
  \/ \E t \in Threads : (\E o \in Ops : Ask(t, o)) \/ Work(t) \/ Take(t)

\* A thread of the pool that has a request goes on with it.
Spec == Init /\ [][Next]_vars /\ \A t \in Threads : WF_vars(Work(t))

-----------------------------------------------------------------------------
(* Properties.                                                             *)

Answered(t) == pc[t] \in {"done", "failed"}

\* What FreshReads calls asked and answer.
Asked == [t \in Threads |-> IF pc[t] = "idle" THEN Nothing ELSE from[t]]
AnswerOf == [t \in Threads |-> IF Answered(t) THEN used[t] ELSE {}]

Fresh == INSTANCE FreshReads
  WITH Readers <- Threads, asked <- Asked, answer <- AnswerOf

\* Every version an answer is made of or labelled with is one the store had
\* between the request and the answer, for the graph, its neighborhoods and paths
\* (graph.py) and for anchored search (search.py), whatever was cached before.
ImplementsFreshReads == Fresh!Init /\ [][Fresh!Next]_Fresh!vars

\* The index is never labelled with a version whose nodes it lacks: ensure_current
\* would take it for current from then on (search.py: _rebuild_snapshot).
IndexNotAhead == label <= indexed

\* Neither cache is ever replaced by an older one, in whichever order the threads
\* that reload it finish (graph.py: _snapshot, search.py: rebuild).
CachesMoveForward == [][cache <= cache' /\ label <= label']_vars

\* A request fails only for a graph the store had while it was in progress: what
\* it asks for was not there, or expand's two snapshots (graph.py:152) straddle a commit
\* that took away a node of the neighborhood.
FailuresExplained ==
  \A t \in Threads : pc[t] = "failed" =>
    \E v, w \in from[t] .. version :
      /\ v <= w
      /\ \/ NotFound(op[t], v)
         \/ op[t] = "expand" /\ v < w /\ ~(Reach[v] \subseteq NodesAt[w])

\* Every request is answered, although reloads and rebuilds wait for each other and
\* a rebuild starts over when the store moves on.
RequestsFinish == \A t \in Threads : (pc[t] # "idle") ~> Answered(t)
===============================================================================

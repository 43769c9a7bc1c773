# Brain Hub, modelled in TLA+

Brain Hub is a local-first memory for coding agents: agents' events go into an
append-only journal in SQLite, a projector derives a graph from them, and a service, MCP
servers, a console and a graph-only cloud replica read that graph. This directory holds
TLA+ modules translated from the source, the TLC instances that check them, and TLAPS
proofs of what matters most. All paths below are relative to `src/`.

- [The system](#the-system): parts, state, operations, how they meet, what is hard
- [Modules](#modules): which module models what, and how state and actions correspond
- [Runs](#runs): what TLC checks, with which bounds, and what it shows
- [Fairness](#fairness) and [proofs](#proofs)
- [Divergences](#divergences) between the code and what it says of itself
- [Not modelled](#not-modelled) and the [plan](#plan)

## The system

| Part | State it keeps | Operations | Where |
|---|---|---|---|
| Event store | `events`, `nodes`, `edges`, `projector_checkpoints`, `sync_spool` and the two AUTOINCREMENT counters, all in one SQLite file | `append_event`, `reset_if_only_events`, readers | `packages/core/src/brainhub/store.py` |
| Projector | none of its own: writes nodes and edges through the store | `project` (run, semantic, graph, feedback facts) | `projector.py` |
| Graph sync, local side | `acknowledged_at` of every outbox row, `sync_issued_batches` | `next_sync_batch`, `acknowledge_sync` | `store.py` |
| Graph sync, cloud side | `installations.last_cursor`, `sync_batches`, `graph_events` | `ingest_sync_batch` | `cloud/migrations/001`, `002` |
| Adapter spool | `.json` files of a directory, a quarantine directory | `enqueue`, `pending`, `acknowledge`, `QuarantineStore.store` | `adapters/src/brainhub_adapters/` |
| Delivery | the batch a drainer has in hand | `flush_spool`, `watch_spool`, `_flush_spool_directly` | `deliver.py`, `watch.py`, `cli.py` |
| Key selection | keychain entry, key file, provider marker, lock file | `DefaultKeyProvider.get_key` | `crypto.py` |
| Service lifecycle | `service.json`, the service lock, the two ports, processes | `start`, `stop`, `status`, `_service` | `cli.py` |
| Graph cache, search index | a snapshot and a version each | `snapshot`, `expand`, `path`, `search` | `graph.py`, `search.py` |
| Live updates | a bounded queue per subscriber, the version its socket was told, the console's socket, timer and connection | `_publish`, WebSocket loop, console refetch | `service.py`, `api.py`, `apps/web/src/api.ts`, `App.tsx` |
| Web console | the graph shown, focus, trail, selection, radius, filters, time, search result, path | navigation, filters, search, path, refresh | `apps/web/src/App.tsx`, `lib/graph.ts`, `lib/workStatus.ts`, `components/` |
| Store migrations | marker rows, legacy rows, the WAL | `_migrate*` at every opening | `store.py` |
| Orchestrator | one JSON file and one thread per job | `submit`, `run`, `cancel` | `orchestrator.py` |
| Installer | `runtime/versions/*`, `runtime/current.json`, launchers, the plugin copy and its backup, the agents' MCP entries, `runtime/install.lock` | `install_runtime`, `write_current_runtime`, `write_shims`, `install_plugin_copy`, `register_codex_plugin`, `register_agent_mcps` | `scripts/install.py` |

**How they meet.** A hook (a short process started by an agent host) normalises an event
and puts it into the spool directory. A drainer (a thread of the managed service or of a
direct MCP server, or a foreground command) posts spooled files to the service, which
calls `append_event`; accepted files are deleted, refused ones go to the quarantine. Every
process opens the same database: it selects the master key first, and then all writers
share SQLite's single write lock (`BEGIN IMMEDIATE`). One transaction writes the event
row, the projected nodes and edges, the checkpoint and the outbox row. An outside courier
takes batches from the outbox to the cloud and brings boundaries back. Commands start and
stop the service through a state file and a lock. Readers work on cached snapshots that a
version number invalidates.

**What is hard.** Nothing here is distributed consensus; the difficulties are several
processes that share files without a common lock (spool, state file, key files), calls
that are retried after an answer was lost (hooks, drainers, couriers), steps of one
operation that fail half way (a projection, a migration, an installation), and reads that
are stale when they are used (directory listings, state files, snapshots). `PROJECT.json`
lists the hazards one by one, each at its line, with the properties that cover it.

**What makes each part correct.**

- *Store*: an id is recorded once; sequences have no gap; event, graph, checkpoint and
  outbox row appear together or not at all; what a caller was told stays true; the graph
  is what a replay of the journal yields, and the outbox alone yields the replica's graph.
- *Sync*: the cloud has a prefix of the outbox, unaltered; a row is given up locally only
  when the cloud has it; no sequence of lost answers makes progress impossible.
- *Spool*: an event whose hook was told it is queued is never lost, except by the
  documented pruning; the directories stay bounded; a bad record does not block others.
- *Keys*: one database, one key, whoever creates it and whatever fails; the code keeps this for
  all that is written from the choice of a key on (see [divergences](#divergences)).
- *Readers*: an answer is made of versions the store had while it was computed; a cache is
  never labelled with a version it does not hold and never goes back.
- *Live updates*: while the badge says Live no commit is lost between store and console.
- *Console*: the trail leads to the focus along edges, neighborhood, depth and path agree, the
  nodes that the scene budget keeps have a way back to the focus, drawn as far as its edges
  suffice, hits belong to what is drawn.
- *Service*: at most one daemon serves, commands find it, and no start leaves a stray.
- *Installer*: wherever an installation breaks off, what is pointed at is complete; one that
  gets through leaves one runtime everywhere; a plugin copy and the entries that the user had
  made before are not lost. Three losses are excused (see [divergences](#divergences)).

## Modules

`MC*.tla` instantiate a family for TLC, `*Proofs.tla` hold its theorems.

### `Projector`, `EventStore`, `EventStoreReplay`, `EventLog`, `EventStoreRefinement`

`Projector` is a pure module: `Facts(e)` is the sequence of node, edge and feedback facts
that `Projector.project` writes for one event, and `Apply(g, e, f)` what one fact does to a
graph. A fact that the code refuses (an edge without its endpoint, feedback on an unknown
target, an item that does not validate, be it of a graph or of a run) makes `Accepts` false.
Titles, evidence, confidence and the derivation of ids are left out: a node has an id, its
creating event, its earliest valid time, its review state and the event that wrote it last. An
edge has its endpoints too. An item of another Brain Hub's export brings its own creating event,
valid time and latest revision along (`Stamp`); any other has those of the event it came with.

`EventStore` is the transaction around it. `db` is what another connection reads; `image`
is the database as the open transaction sees it; `holder` has the write lock.

| Action | Code |
|---|---|
| `RecordBegin` | `transaction()`: `BEGIN IMMEDIATE` |
| `RecordDuplicate`, `RecordConflict` | the lookup by id: same digest, other digest |
| `RecordInsert` | `INSERT INTO events` |
| `ProjectFact` (one per fact), `ProjectFails` | `Projector.project`, its exceptions and the rollback |
| `RecordCommit` | checkpoint, outbox row, `COMMIT` |
| `Return` | the caller is told the sequence |
| `ResetBegin`, `ResetRefused`, `ResetCommit` | `reset_if_only_events` |
| `Crash` | the process of the writer dies; a pending answer is lost |

`EventLog` is the abstract journal (append once per id, tell a sequence, erase demo events),
and `EventStoreRefinement` maps the store to it. `EventStoreReplay` defines the reference for
what is derived: `Projection(g, e)`, `Replay(journal)` and `Replica(outbox)` are recursive
functions over the facts of an event, the events of a journal and the payloads of an outbox;
the graph must be the replay, and the replica's graph what the outbox publishes of it.

### `GraphSync`, `Replication`

The outbox grows; couriers call `next_sync_batch` in its two transactions (`SelectRows`
reads, a later one records the batch as issued), die in between, and keep every batch they
were handed. Since a call may be delayed, lost or repeated, *any* batch ever handed out may
reach the cloud at any time, any number of times, and any boundary the cloud ever returned
may be acknowledged at any time. `Ingest` and `IngestReplayed` are `ingest_sync_batch`
(the cursor check, the receipts, the replay of a known batch); `Acknowledge` is
`acknowledge_sync`. `Replication` is the contract: a log, an in-order copy of it and a
released part never longer than the copy. The courier is not in the repository: it is
modelled from the API it calls.

### `AdapterSpool`

Files of a directory, hooks and drainers. `enqueue` is a step for each of its calls, because a
directory listing is stale as soon as it is read: is there a file of that name
(`EnqueueBegin`), list the directory (`EnqueueList`), look at the times of what was listed
(`EnqueueSort`) and then at the sizes (`EnqueueSize`), either of which ends the hook if a file
is gone, prune one file (`EnqueuePrune`), write the temporary file (`EnqueueWrite`), link it
(`EnqueueLink`), and read what another hook has linked first (`EnqueueCompare`). A listing is the set of files that were seen; the oldest of it goes first, and of two
files with one mtime either. A drainer lists, reads one file, posts it, and then deletes it
by name (`AcknowledgeFails` is a disk that refuses), quarantines it, or gives up; an unanswered post may still be served later
(`ServedLate`). To quarantine is to list the records (`QuarantineBegin`), to prune the oldest
of the listing one at a time (`QuarantinePrune`) and to link the new record
(`QuarantineStore`); how many bytes the records have is left open, so that the drainer may
prune more than their number asks for, and `QuarantineFails` is a disk that refuses. Hooks and
drainers in `Mortal` may be killed between any two steps. A hook that runs again has the
same id and other content. Three history variables record what hooks were told, what was
pruned and what was quarantined.

### `KeySelection`

`DefaultKeyProvider.get_key` step by step for any number of processes: take the lock file,
read the marker, use the pinned provider or adopt an existing keychain entry or follow the
first-use policy (headless or not), create a key, persist the marker. The keychain may
refuse any call, or store a key and then report an error. Key material may be lost
`MaxLosses` times. `legacy` is a database older than the marker, with rows under the key that
its early release left in the keychain. The history variable `missed` says that a process
looked for that key before a provider was pinned and did not find it, because it was lost or
because the keychain did not answer.

### `ServiceLifecycle`

Shells run `start`, `stop` and `status`; daemons run `service_command`. The state file is
read in `ReadFile`, judged in `CheckProcess` and `ProbeHeld`/`ProbeFree` (the probe *takes*
the lock for a moment), and deleted in `Unlink`, whatever it holds by then. The
termination of a daemon is `RequestShutdown`, `SendTerm`, `SendKill` with the waits between
them; the removal of its state is a read (`RemoveState`) and a later deletion
(`DeleteState`). A start polls (`PollFinds`, `PollAgain`, `PollEnds`) and cleans up after
itself (`Failed`, `ReapTerm`, `Reaped`). `os.kill(pid, 0)` finds a dead child that its start has
not reaped, so such a daemon may pass for a living one (`MayExist`): the reader goes on to the
probe, and a termination may signal it, wait for it in vain and fail (`TerminateFails`). A daemon binds the console's port, takes the lock,
registers, serves, closes, unregisters, exits, and may die at any of these. A health check
may time out, so a start may judge a healthy service unhealthy. This is the POSIX variant;
process ids are not reused; commands are not killed.

### `Installer`

Processes that run `install_checkout`. A runtime is named by its source's fingerprint
(`source[i]`), its directory is absent, partial (no usable manifest), ready or worn (a
manifest, but failing its smoke tests).

| Actions | Code |
|---|---|
| `Begin`, `Ends` | `installation_lock`, tried once |
| `Inspect`, `Reuse`, `SmokeFails`, `Quarantine`, `Create`, `Build`, `WriteManifest`, `BuildFails`, `RemoveVersion` | `install_runtime` |
| `Point`, `WriteShim`, `SkipPlugin` | `write_current_runtime`, `write_shims` (one launcher per step), `--no-plugin` |
| `Stage`, `Retire`, `NoteRetired`, `DropsBackup`, `Activate`, `RemoveBackup`, `KeepsBoth`, `ActivateFails` | `install_plugin_copy` with its `finally` |
| `AddMarketplace`, `AddPlugin`, `VerifyPlugin`, `SkipCodex` | `register_codex_plugin` |
| `GetClaude` to `RestoreClaude` | `register_claude_mcp` |
| `ReadConfig`, `WriteConfig`, `SkipConfig` | `install_json_mcp_config` for each agent with a file |
| `Fails`, `Dies` | an exception, an interrupt or a kill between any two steps |
| `Damage`, `UserEdits` | a complete runtime breaks; the user edits an agent's entry |

`suspect` remembers the runtimes that broke or failed a test since they were built: the
installer sets such a runtime aside although it is in use, and the code promises nothing of
it then. `strays` says whether a backup of the plugin copy was left behind. A source is
fixed while it is installed, and a runtime does not break while it is being installed. The
files of Cursor and Antigravity come in any order. The stop of the old service, whose
outcome the installer ignores, is `ServiceLifecycle`'s. The download and the archive checks
only choose the source.

### `ReadModels`, `FreshReads`

Request threads of the daemon over the cached graph (`graph.py`) and the search index
(`search.py`). A thread asks (`Ask`) for the graph, a neighborhood, a path or a search. The
graph's readers check the version before the lock (`Observe`, `Check`), take the lock, read the
version (`ReadVersion`) and keep the cache (`Hit`) or load it (`Miss`, `Install`); `expand`
does so twice and reads the version a third time (`Onward`, `Label`). A search compares the index's label
(`Ensure`, `Compare`), rebuilds under its lock (`Rebuild`, `Source`, `List`, `Recheck`, `Swap`) and
uses what is there (`Use`). `Commit` is any recorder, in this process or another. A graph of
a version is all the model keeps of its data; `NodesAt` and `Reach` say what a version
contains. `FreshReads` is the contract: an answer is a set of versions that the store had
between the request and the answer; `expand` may mix two of them.

### `LiveUpdates`

One console and the task of the daemon that serves its current socket.

| Actions | Code |
|---|---|
| `Commit`, `Publish` | `record`; `_publish`, in any order, a full queue loses its oldest message |
| `Accept`, `Reject`, `Subscribe`, `ReadVersion`, `SendReady` | `websocket_updates` up to its loop |
| `TakeMessage`, `TimeOut`, `Poll`, `Send`, `Note` | its loop: the queue, the timeout and the version that is read some time after it, `last_version` |
| `Reconnect`, `LateClose`, `Deliver`, `Refetch`, `Land`, `RefetchFails` | `subscribeToEvents` and the subscription effect |
| `HealthAnswers`, `Connected`, `Refused`, `ConnectFails`, `ChangeToken` | the connect effect, `saveToken`, `clearToken` |
| `Drop` | the network or the daemon ends a socket |

A request is known by the version the store had when it was made; what lands is any version
since then, which is `FreshReads` of one graph. `landed` is the newest version that was ever
shown: that an older answer which lands later replaces it on the page is the subject of
`Exploration`.

### `ConsoleGraph`, `Exploration`

`ConsoleGraph` has the pure functions of `lib/graph.ts` as operators on sequences of nodes and
edges: filters by time, the neighborhood level by level, distances and shortest paths by a
queue in the order of the edges, the scene budget by depth and confidence. The order of
the result lists and the text scores of a search are left out. `Exploration` is the page: one
action per handler of `App.tsx`, and one for each answer of the daemon, which comes at any later
time. A search shows the neighborhood it was submitted with and a path the ends it was
asked for with, as the closures of the code do. `Offered` is every node that some part of
the page lets the user navigate to. `mode` is the page's `connection`, `ShowFallback` and
`SaveToken` the failing branch of the connect effect and `saveToken` or `clearToken`, as this
page of the console sees them; `LiveUpdates` has the same events as seen by the stream.

`altered` remembers whether a graph ever landed that does not extend the one before it. There
are three ways to that. Refetches are neither aborted nor numbered, so that an older graph may
replace a newer one. An explicit edge may be asserted anew between other nodes (`store.py:587`).
A store may have a part of the demonstration only, or have joined its nodes in another way.
After any of these a trail may name edges that the page does not show, and `TrailIsWalk`
promises nothing: neither the refresh nor a navigation that goes on from there repairs them.

## Runs

| Run | Instance | Shows |
|---|---|---|
| `event_store_core` | 2 writers, 7 events: a run, another event under its id, an import and the same nodes again, an edge whose endpoint may be missing, a malformed fact, feedback on known and unknown targets; an import of nodes and edges with their own history, a task that does not validate; demo resets; fair | what callers were told stays true, personal history and node origins are kept, the outbox stays aligned, the graph is the replay of the journal and the outbox rebuilds the replica, a writer that keeps running gives the write lock back, `ImplementsEventLog` (`OutboxAligned`, `ReceiptsDurable`, `GraphIsReplay`, `ReplicaFollows`, `PersonalHistoryKept`, `NodeOriginStable`, `TransactionsEnd`) |
| `graph_sync` | 2 couriers, 4 events, limits 1..3, batches of at most 2 | nothing is released that the cloud lacks, resumability, `ImplementsReplication` (`AcknowledgedIsStored`, `Resumable`) |
| `adapter_spool` | 2 hooks, 1 drainer, all mortal, 4 events, 3 writes, a bound of one file | no queued event vanishes; the spool exceeds its bound by at most the hooks that race, but one; its one drainer keeps the quarantine within its bound (`NothingVanishes`, `SpoolNearBound`, `QuarantineNearBound`) |
| `adapter_spool_drains` | 1 mortal hook, 2 drainers, fair | every file leaves the spool (`EveryFileLeaves`) |
| `key_selection` | 3 processes, a new database or one of an early release, keychain trouble, one loss | all that is written has one key; the rows of an early release have it too, unless a process missed it (`TypeOK`, `ProcessesAgree`, `OneKeyUnlessMissed`) |
| `key_selection_upgrade` | 2 processes, an early release, no loss | **violation**: a second key, because the keychain did not answer (`OneKey`) |
| `service_lifecycle` | 2 shells, 2 daemons, 1 configuration, fair | the file names the live service or nothing, no stray child, an ended service is gone; as long as one shell alone has run commands, a serving daemon is registered between them; every command ends (`TypeOK`, `FileNamesHolder`, `NoStrayChild`, `EndsWhatItSaw`, `ControllableAlone`, `CommandsEnd`) |
| `service_orphan` | 2 shells, 1 daemon | **violation**: a daemon no command can find (`Controllable`) |
| `installer` | 2 installers, 2 runtimes, 2 launchers, Claude and 1 agent with a file | whatever breaks off, what is pointed at is complete; unless it failed by itself; one runtime everywhere; a plugin copy is lost only by an interrupt between two statements, and an entry of the user's own only if made after the installer looked (`NamedAreComplete`, `OneRuntime`, `CopyKept`, `ForeignKept`) |
| `read_models` | 2 threads, 3 commits, 2 retries of a rebuild | answers are made of versions current during the request (`ImplementsFreshReads`), caches do not go back, failures are explained, requests finish (`IndexNotAhead`, `FailuresExplained`, `CachesMoveForward`, `RequestsFinish`) |
| `live_updates` | 2 commits, a queue of 1, 2 faults | while the badge says Live the newest commit is shown or on its way; without failed requests it arrives (`CommitIsOnItsWay`, `CommitReachesConsole`) |
| `exploration` | a demo graph of 2 nodes, a store of 0, 3 and then 7 nodes with the demonstration, radius to 3, a scene of 4 nodes and 2 edges, 4 gestures | trail, neighborhood, path, scene and hits stay consistent (`TrailIsWalk`, `NeighborhoodIsBall`, `PathIsShortest`, `SceneKeepsWays`, `HitsAreShown`) |

**Why the bounds are enough.** A transaction excludes all others, so two writers show every
interleaving of transactions, answers and crashes; the events are chosen so that each
branch of `append_event` and of the projector is taken (a passing run fires every action).
In sync, what matters is that batches can overlap, nest and share an end: four events with
batches of up to two give all of these, and a limit above the maximum shows the cap. In
the spool, a hazard needs one actor with a stale listing and one that acts meanwhile; a
bound of one file makes every second write prune. Three key processes are one that dies with
the lock, one that follows, one that holds an older answer. For the service, two shells and two daemons allow a replacement during a start, which needs
no second configuration: a health check that takes too long also replaces (`ServesWanted`,
which does speak of configurations, is proved and in no run). Two installers show
that the lock keeps them apart and that one repairs what the other left; two runtimes are an
old and a new one, two launchers a first and a last one. Two request threads are one that refreshes and
one that reads; three commits allow one before, during and after a rebuild, and one for each of
the three reads of `expand`. A queue of one message drops on the second publication, two commits can be
published in the wrong order, and two faults are a lost stream and a token changed while it is
restored. In the console, a ring of five has two ways around and a radius smaller than it; four gestures
are enough for a search, a navigation, a filter and a breadcrumb on top of any sequence of
graphs that land, which are not gestures and are not bounded. A scene of four nodes and two
edges cuts the ring's nodes and, of what is left, its edges. The proofs remove these bounds for
all safety properties of every component.

Deadlock checking is off only for the families whose environment is bounded (sync: no
more events; spool: no more writes; live updates: no more commits and faults; exploration: no
more gestures, and a page where nothing is asked for waits).

## Fairness

- `EventStore!FairSpec`: weak fairness of the statements of the open transaction, of which
  there is one at a time. A thread inside `transaction()` runs to the `COMMIT` or the `ROLLBACK`, or its
  process dies, which is an action too. Nothing makes a caller submit an event.
- `AdapterSpool!FairSpec`: `watch_spool` loops for ever and catches every failure (weak
  fairness of its own steps); a service asked again and again answers again and again, and
  the disk refuses neither a deletion nor a quarantine record for ever (strong fairness of the
  answer, of the deletion, of the removal of an old record and of the new one). Hooks are not fair. With a service that never answers the files stay: the
  code promises nothing else.
- `ServiceLifecycle!FairSpec`: a command's process is scheduled, and its polling loop
  compares the monotonic clock with a deadline, so it does not loop for ever (strong
  fairness of `PollEnds`). Daemons are not fair: a daemon that hangs at start-up, or does
  not react to a shutdown, does not keep a command from ending.
- `ReadModels!Spec`: a request's thread goes on (weak fairness of its own steps); nothing
  makes a client ask, or a recorder commit. A rebuild's retries are bounded by the code.
- `LiveUpdates!LiveSpec`: the event loops of the daemon and of the page go on with whatever there is
  to do (weak fairness of each), and every request is answered or fails. Which of several
  enabled steps is taken is left open; commits, faults and token changes are not fair. The
  property excuses a failed request, because the console does not repeat it, and a wrong token.

## Proofs

Every leaf is checked by `tlapm` 1.4.5 (Z3, Zenon, LS4). All theorems hold for every value of
the constants under the named assumptions of the modules.

- **`EventStoreProofs`** (assumption `EventsAssumption`: an id and a digest determine the
  event, facts are a finite sequence). The inductive invariant is `TypeOK /\ TransactionInv`.
  `JournalContiguous` and the others are not inductive alone: a commit makes the open
  transaction's image the database, so the invariant must say what the image is (the
  committed database, or that database plus one event with a fresh id and a graph that has
  only grown), and what is in an undelivered answer. Lemmas about the projector say that a
  fact keeps the graph closed, keeps nodes and their origin, and keeps types.
  - *Refinement*: initial states map to initial states; the commit of a new event is `Record`,
    `Return` is `Tell`, a successful reset is `Erase`, all else stutters.
  - *What is derived* (`GraphRebuilds`, `ReplicaIsFaithful`): `DerivationInv` says that in an open
    transaction the graph is the projection of the event's facts so far, and the committed
    graph overlaid by the rows that changed. A commit makes the journal and the outbox one
    longer, so the proofs need that a replay of one event more is one projection more. This
    is an induction over the length of a journal. The library's induction theorems take an
    operator and cannot be used; instead `LeastNatural` (every set of naturals that is not
    empty has a least element, from the well-foundedness of `<`) is applied to the set of
    lengths at which the statement fails. The same gives that the recursive functions exist and
    that those of a longer journal agree with those of a shorter one.
- **`GraphSyncProofs`** (assumption `SyncAssumption`: every limit from 1 to `MaxBatch` may be
  asked for). The invariant `SyncInv` adds to the properties that a batch begins right after
  acknowledged rows and that accepted batches form a chain from 1 to the cursor. `NeverStuck`
  needs the assumption: a courier that only ever asks for one fixed limit can get stuck after
  a lost acknowledgement, because the batch it must repeat may have had another length.
- **`AdapterSpoolProofs`** (assumption `SpoolAssumption`: positive bounds, finitely many hooks
  and drainers, and an event is never larger than the spool). For `NothingVanishes` the
  invariant says of every drainer about to delete a file by name that the id it read is
  recorded or quarantined: what it deletes may be another file by then, but of the same id.
  For the bounds the invariant counts. `Remaining(bound, S, seen)` is how many of the things
  in a directory are still there when an actor that has seen some of them has made room for
  one more. Of every set of hooks at work, one (the last that listed the directory) leaves
  room for all of them within `MaxEvents - 1 + |Hooks|`, because what it has not seen was put
  there by others since. With the hook that links its file as the set, the bound follows. The
  quarantine is the same argument with drainers.
- **`KeySelectionProofs`** (assumption `KeyAssumption`: the bounds are numbers). `KeyInv` adds to the
  properties that before there is a marker nothing is in use and only the holder of the lock
  chooses (`Unpinned`), that the material of the pinned provider is the key in use or lost
  (`PinnedMaterial`), what a process is about to pin (`Selected`), and that the keychain of an early
  release has its key until a process missed it or it is lost (`Adoptable`). Nothing is assumed
  of the keychain: what fails there is in the properties, as `missed`.
- **`ServiceLifecycleProofs`**. `ServiceInv` says which daemons a command may speak of at each
  step, that a start which still replaces a service has no child, and that what is being
  removed from the state file is dead. `CommandsControl` and `StartsServeWanted` hold as
  long as one shell alone has run commands (`Sole`): the run `service_orphan` shows that
  with two a service can get out of reach. `Alone(s)` follows what that shell
  knows of a service that it did not launch just now: the state file names it until the
  command has read it, then `seen` does, then `target`, and a daemon is launched, or a file
  deleted after a negative answer, only when there is no such service.
- **`InstallerProofs`** (assumption `InstallerAssumption`: at least one launcher, and the names
  of nothing, of the user's entries, of Claude and of the runtimes differ). `InstallInv` adds
  to the properties where each part may be: only the holder of the lock is at work, what is
  being built is not in use or is suspect, launchers before the next one are done, a backup
  exists only between the retirement and the activation, and an entry of the user's own is
  never the one that is about to be replaced. The action properties follow from it.

- **`ReadModelsProofs`** (assumption `ReadAssumption`: in every version the neighborhood of the
  anchor consists of valid nodes). The invariant says what the holder of each lock has read since it took it,
  and that all that went into an answer so far is a version between the request's and now.
  `AnswersAreFresh` is the refinement of `FreshReads`; that caches never go back follows from
  the locks, and holds although the version is read outside of them.
- **`ConsoleProofs`** has the console's two modules. Assumptions: `ConfidencesAssumption` (there is a
  greatest confidence), `ExplorationAssumption` (the bounds are numbers, every graph has finite lists
  of edges and of nodes with an id of their own, and the suggested focus is a node of the
  built-in graph), `LiveAssumption`. Nothing is assumed about how the daemon's graphs follow each
  other.
  - *The stream*: `CommitIsOnItsWay` is inductive with types and three facts: no message is
    about a version the store has not reached (`NotAhead`), a task exists exactly while the socket
    is open and past its check the token is right (`Served`), and a live console has a
    subscription whose loss was reported (`Streaming`).
  - *What is computed*: `NeighborhoodIsBall`, `PathIsShortest` and `SceneKeepsWays` hold in every
    state because of what the operators compute for every graph. The operators are recursive
    functions over the naturals, and each lemma about one is an induction over the set of numbers
    for which it holds (`Induction`, from the well-foundedness of `<`). The reference is
    `Ball(g, a, d)`, all that is at most `d` edges away. A level of `boundedSubgraph` is a ball
    (`ReachedLevels`, `LevelIsBall`). For the breadth-first search two invariants are kept by every visit:
    what is found has a way back of as many steps as its distance (`Traced`), and the queue is in the
    order of distance, with everything nearer than its head already found (`InOrder`). A visit that
    finds nothing has one node less to do (`VisitProgress`), so as many visits as there are nodes are
    enough. For the scene, a nearer node has the greater key whatever the confidences are
    (`KeysByDistance`), so whoever is kept has a kept neighbor one step nearer (`NearestSound`); an
    edge that is cut has as many edges as the budget before it (`CutEdges`), and what is cut is
    no more certain than what is drawn.
  - *What depends on the order of steps*: `Ranges` (every graph in the state is closed, the trail is a
    sequence) carries the three results above and `HitsAreShown`. For `TrailIsWalk` the invariant is
    `TrailInv`: the trail as a whole is a walk of one graph, the built-in one or the daemon's latest
    one, and leads to the focus, and everything that is selected, hit or being searched is of one of
    the two. It must say so of a graph that need not be on the page: a fallback may hide the
    daemon's graph, and the user may go on from there on nodes that both share.

The inductive invariants are proved and in no run; so are `TypeOK`, `JournalContiguous`,
`GraphClosed` (store), `TypeOK`, `AcknowledgedPrefix`, `CloudIsPrefix` (sync), `PinnedForever`
(keys), `ServesWanted` (service) and `TypeOK` (installer): TLC agreed with each before it was proved, and the runs now
check what these invariants are for.

*Only model-checked*: all liveness (`TransactionsEnd`, `EveryFileLeaves`, `CommandsEnd`,
`RequestsFinish`, `CommitReachesConsole`), which the prover cannot treat. Every invariant and
every action property of a passing run is proved. `OneKey` and, once two shells have run
commands, `Controllable` do not hold.

## Divergences

Two have a run that shows them.

- `service_orphan`: `_read_service_state` deletes the state file whenever its own earlier read was
  negative, and may delete what a daemon has just written; that daemon serves on and neither
  `status`, `stop` nor `start` finds it.
- `key_selection_upgrade`: `crypto.py:471` wants reinstalls to adopt the existing key, and
  `docs/security.md:47` says that no replacement key is ever generated for an existing
  installation, but a keychain that does not answer counts as one without a key
  (`crypto.py:476`). The rows of an early release then have another key than what follows.

The others were met while modelling and are recorded here; no run is spent on them.

- `docs/architecture.md:56` says that old assertions are retained, but an explicit edge id that is
  used again replaces what the edge asserts (`store.py:587`).
- `_managed_mcp_executable` recognises an entry by resolving its program with `strict=True`
  (`install.py:1289`); when that runtime's directory is gone the installer's own entry counts
  as "a different brain-hub MCP entry" and is not upgraded.
- The drawer offers "Explain path" for a selected node that is not the focus
  (`DetailsDrawer.tsx:103`), but every selection in the page moves the focus too, so that it is
  offered only after a refresh has moved the focus away.
- The work-status panel gets the filtered graph (`App.tsx:499`): a task whose blocker is hidden by a
  filter or by the time is shown as pending.

Some losses contradict no document, so that a property excuses them by name and has no run that
shows them:

- *Installer*: an interrupt between the statement that moves the plugin copy away and the one that
  notes it makes the clean-up delete the only copy (`install.py:1111`, `DropsBackup`, excused in
  `CopyKept`). A runtime in use that fails its smoke test is set aside, and if its rebuild fails
  the pointer, the launchers and the agents name nothing (`install.py:632`, `suspect`, excused in
  `NamedAreComplete`). An entry that the user makes after the installer has read the agent's file
  is overwritten with the file (`install.py:1363`, excused in `ForeignKept`).
- *Spool*: a file that disappears under a hook's listing ends the hook, with a message on
  stderr, and its event is dropped (`spool.py:48`), and a stale total prunes more than the bound needs (`spool.py:86`).
- *Readers*: one answer of `expand` may mix two versions of the graph (`graph.py:152`).
- *Console*: an older graph may stay on the page until the next update (`App.tsx:138`), a search may
  be shown under another focus than its own (`App.tsx:227`), and the late end of a replaced
  socket turns the badge off (`api.ts:428`).

`spool.py:27` says that neither bound of the spool is exceeded; racing hooks exceed both until
a later hook prunes. `SpoolNearBound` states by how much, and no run is spent on the wording.

## Not modelled

- *Power loss*: with WAL and `synchronous=NORMAL` a committed transaction may be lost when the
  machine (not the process) stops. The model takes a commit as durable.
- *Reset and sync together*: the demo reset restarts the outbox under the same installation
  id. It is documented for isolated evaluation databases; the sync module has no reset.
- *Windows variants* of locks, mutexes and process handling.
- *Pure data*: redaction, capture policy, id derivation, payload formatting, encryption,
  normalisation, Graphify parsing, layout of the console, cloud roles and deployment files.
- *An edit of the source while it is installed*: the installer fingerprints a checkout before
  the package manager reads it (`install.py:594`); the model takes the source as fixed.
- *Temporary files* that a killed hook leaves behind: nothing in the program reads them.

- *Store migrations*: each is one transaction under the write lock, guarded by a marker; what is
  hard about them is when the WAL file still holds plaintext, which is SQLite's and the operating
  system's doing.
- *Orchestrator*: one thread and one writer per job record. A service that stops while a job
  runs leaves the record `running`, and the panel's poll (`OrchestratorPanel.tsx:27`) may
  overwrite the jobs it has just started; both are single steps and no property is stated.
- *The rest of the console*: drawing and layout (`GraphScene.tsx`, `Graph3D.tsx`), dialogs, the
  switches between views, and the normalisation of answers in `api.ts`.
- *The bundle* `packages/core/src/brainhub/web_dist/assets/*.js`: generated from `apps/web` and three.js; it
  is two thirds of the repository's JavaScript and has no behaviour of its own beyond the
  sources that are modelled.

## Plan

What is left, in order of weight:

1. Composition: the spool's drainer against `EventLog` instead of a set of recorded events, and
   `LiveUpdates` with several consoles.
2. `StoreMigrations`, with a model of the WAL, and the job records of the orchestrator.

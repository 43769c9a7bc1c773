---------------------------- MODULE AdapterSpool ----------------------------
(***************************************************************************)
(* The disk spool between agent hooks and the local service                *)
(* (adapters/src/brainhub_adapters: spool.py, deliver.py, quarantine.py,   *)
(* watch.py, and _flush_spool_directly of packages/core).                  *)
(*                                                                         *)
(* A hook is a short process that enqueues one event and exits.  A drainer *)
(* is a watch loop: the thread of the managed service, the thread of a     *)
(* direct MCP server, or the foreground command; several may share the     *)
(* spool.  They only meet in the file system, where each call below is     *)
(* atomic and a sequence of calls is not, and any of them may be killed    *)
(* between two calls.  The service on the other side of a delivery records *)
(* each id once (EventLog.tla), and its answers may be late or lost.       *)
(*                                                                         *)
(* An event is a record with its id, the version of its content (a hook    *)
(* that is run again has the same id and another observation time), its    *)
(* size in bytes, and whether the service accepts it at all.               *)
(***************************************************************************)
EXTENDS Integers, Sequences, SequencesExt, FiniteSets, FiniteSetsExt

CONSTANTS Hooks, Drainers,
          Mortal,                \* the hooks and drainers that may be killed
          Events,
          MaxEvents, MaxBytes,   \* the bounds of the spool
          MaxShelved,            \* the bound of the quarantine
          Limit,                 \* files per flush
          Nothing,               \* no event in hand
          MaxWrites              \* bound of the model: files ever written

ASSUME SpoolAssumption ==
  /\ MaxEvents \in Nat \ {0} /\ MaxBytes \in Nat \ {0}
  /\ MaxShelved \in Nat \ {0} /\ Limit \in Nat \ {0} /\ MaxWrites \in Nat
  /\ IsFiniteSet(Hooks) /\ IsFiniteSet(Drainers)
  /\ Nothing \notin Events
  /\ \A e \in Events : e.size \in 1 .. MaxBytes /\ e.valid \in BOOLEAN

VARIABLES
  files,       \* the .json files of the spool, one per id: event and mtime
  clock,       \* the mtime of the file that was written last
  hook,        \* where each hook is in enqueue
  drainer,     \* where each drainer is in flush_spool
  recorded,    \* the events the service has recorded
  late,        \* deliveries given up by their drainer, still to be served
  quarantine,  \* the quarantined events, oldest first
  queued,      \* history: the events whose hook was told "queued" or "duplicate"
  pruned,      \* history: the ids that were pruned from the spool
  shelved      \* history: the ids that were put into quarantine

service == <<recorded, late>>
history == <<queued, pruned, shelved>>
vars == <<files, clock, hook, drainer, service, quarantine, history>>

-----------------------------------------------------------------------------
(* The spool directory.  The name of a file is a digest of the event id.    *)

HasFile(id) == \E f \in files : f.event.id = id
FileOf(id) == CHOOSE f \in files : f.event.id = id
Unlinked(id) == {f \in files : f.event.id # id}

\* _files(): sorted by mtime, then name.  A listing is the set of the files that were
\* seen, and this is the one that comes first.
IsOldest(f, S) == f \in S /\ \A g \in S : f.mtime <= g.mtime

NamesOf(S) == {f.event.id : f \in S}

Bytes(S) == MapThenSumSet(LAMBDA f : f.event.size, S)

-----------------------------------------------------------------------------
(* BoundedSpool.enqueue.                                                   *)

\* Where a hook is: the event it has, the listing it still may prune, the bytes it
\* believes that listing has, and the mtime of its temporary file.
Hook(at, e, listing, total, mtime) ==
  [at |-> at, event |-> e, listing |-> listing, total |-> total, mtime |-> mtime]

HookIdle == Hook("idle", Nothing, {}, 0, 0)

HookBecomes(h, state) == hook' = [hook EXCEPT ![h] = state]

\* The files that have the names of its listing now.
Listed(h) == {f \in files : f.event.id \in NamesOf(hook[h].listing)}

\* Is there a file of that name?
EnqueueBegin(h, e) ==
  /\ hook[h].at = "idle" /\ clock < MaxWrites
  /\ HookBecomes(h, Hook(IF HasFile(e.id) THEN "known" ELSE "list", e, {}, 0, 0))
  /\ UNCHANGED <<files, clock, drainer, service, quarantine, history>>

\* A file that was there is read: "duplicate" for the same content, else, also when
\* it is gone by now, "conflict".
EnqueueCompare(h) ==
  LET e == hook[h].event
  IN  /\ hook[h].at = "known"
      /\ queued' = IF HasFile(e.id) /\ FileOf(e.id).event = e THEN queued \cup {e}
                   ELSE queued
      /\ HookBecomes(h, HookIdle)
      /\ UNCHANGED <<files, clock, drainer, service, quarantine, pruned, shelved>>

\* The directory is read.
EnqueueList(h) ==
  /\ hook[h].at = "list"
  /\ HookBecomes(h, Hook("sort", hook[h].event, files, 0, 0))
  /\ UNCHANGED <<files, clock, drainer, service, quarantine, history>>

\* Two passes look at every file of the listing, the first for its mtime and the second
\* for its size.  One that is gone by then ends the hook: its event is dropped with a
\* message on stderr.
AllThere(listing) == NamesOf(listing) \subseteq NamesOf(files)

EnqueueSort(h) ==
  /\ hook[h].at = "sort"
  /\ HookBecomes(h, IF AllThere(hook[h].listing)
                    THEN Hook("size", hook[h].event, Listed(h), 0, 0) ELSE HookIdle)
  /\ UNCHANGED <<files, clock, drainer, service, quarantine, history>>

EnqueueSize(h) ==
  LET s == hook[h]
  IN  /\ s.at = "size"
      /\ HookBecomes(h, IF AllThere(s.listing)
                        THEN Hook("prune", s.event, s.listing, Bytes(Listed(h)), 0)
                        ELSE HookIdle)
      /\ UNCHANGED <<files, clock, drainer, service, quarantine, history>>

\* Mutant: the new event is not counted.
MustPruneLate(s) ==
  s.listing # {} /\ (Cardinality(s.listing) > MaxEvents \/ s.total > MaxBytes)

MustPrune(s) ==
  /\ s.listing # {}
  /\ Cardinality(s.listing) >= MaxEvents \/ s.total + s.event.size > MaxBytes

\* The oldest file of the listing goes.  When another process was faster, the hook
\* goes on with the next one and does not correct its total.
EnqueuePrune(h) ==
  LET s == hook[h]
  IN  /\ s.at = "prune" /\ MustPrune(s)
      /\ \E oldest \in s.listing :
           LET id == oldest.event.id
               freed == IF HasFile(id) THEN FileOf(id).event.size ELSE 0
           IN  /\ IsOldest(oldest, s.listing)
               /\ files' = Unlinked(id)
               /\ HookBecomes(h, Hook("prune", s.event, s.listing \ {oldest},
                                      s.total - freed, 0))
      /\ pruned' = pruned \cup NamesOf(files \ files')
      /\ UNCHANGED <<clock, drainer, service, quarantine, queued, shelved>>

\* The temporary file is written and flushed.
EnqueueWrite(h) ==
  /\ hook[h].at = "prune" /\ ~MustPrune(hook[h])
  /\ clock < MaxWrites
  /\ clock' = clock + 1
  /\ HookBecomes(h, Hook("link", hook[h].event, {}, 0, clock + 1))
  /\ UNCHANGED <<files, drainer, service, quarantine, history>>

\* os.link: never replaces a file.  When another hook was faster, its file is read.
EnqueueLink(h) ==
  LET e == hook[h].event
  IN  /\ hook[h].at = "link"
      /\ IF HasFile(e.id)
         THEN /\ HookBecomes(h, Hook("known", e, {}, 0, 0))
              /\ UNCHANGED <<files, queued>>
         ELSE /\ files' = files \cup {[event |-> e, mtime |-> hook[h].mtime]}
              /\ queued' = queued \cup {e}
              /\ HookBecomes(h, HookIdle)
      /\ UNCHANGED <<clock, drainer, service, quarantine, pruned, shelved>>

HookDies(h) ==
  /\ h \in Mortal /\ hook[h].at # "idle"
  /\ HookBecomes(h, HookIdle)
  /\ UNCHANGED <<files, clock, drainer, service, quarantine, history>>

-----------------------------------------------------------------------------
(* flush_spool and _flush_spool_directly.                                  *)

\* Where a drainer is: the files still to be visited, as they were listed, the event
\* in hand, and the quarantined events it still may prune.
Drainer(at, batch, e, seen) == [at |-> at, batch |-> batch, event |-> e, seen |-> seen]

DrainerIdle == Drainer("idle", {}, Nothing, <<>>)

DrainerBecomes(d, state) == drainer' = [drainer EXCEPT ![d] = state]

NextFile(d) == DrainerBecomes(d, Drainer("read", drainer[d].batch, Nothing, <<>>))
GivesUp(d) == DrainerBecomes(d, DrainerIdle)

\* The first files of the listing.  (A file that vanishes during the listing ends
\* the cycle with no effect.)
FlushBegin(d) ==
  /\ drainer[d].at = "idle" /\ files # {}
  /\ \E batch \in SUBSET files :
       /\ Cardinality(batch) = Min({Limit, Cardinality(files)})
       /\ \A f \in batch, g \in files \ batch : f.mtime <= g.mtime
       /\ DrainerBecomes(d, Drainer("read", batch, Nothing, <<>>))
  /\ UNCHANGED <<files, clock, hook, service, quarantine, history>>

\* The next file is read by its name; one that is gone is passed over.
FlushRead(d) ==
  LET s == drainer[d]
  IN  /\ s.at = "read"
      /\ \E f \in s.batch :
           LET id == f.event.id
           IN  /\ IsOldest(f, s.batch)
               /\ DrainerBecomes(d,
                    IF HasFile(id)
                    THEN Drainer("post", s.batch \ {f}, FileOf(id).event, <<>>)
                    ELSE Drainer("read", s.batch \ {f}, Nothing, <<>>))
      /\ UNCHANGED <<files, clock, hook, service, quarantine, history>>

FlushEnd(d) ==
  /\ drainer[d].at = "read" /\ drainer[d].batch = {}
  /\ GivesUp(d)
  /\ UNCHANGED <<files, clock, hook, service, quarantine, history>>

\* The service refuses for good content it does not accept and an id that is bound
\* to other content: 400, 409, 413, 422.
Refuses(e) == ~e.valid \/ \E r \in recorded : r.id = e.id /\ r # e

\* Answered with success: recorded now or before.
PostAccepted(d) ==
  /\ drainer[d].at = "post" /\ ~Refuses(drainer[d].event)
  /\ recorded' = recorded \cup {drainer[d].event}
  /\ DrainerBecomes(d, Drainer("acknowledge", drainer[d].batch, drainer[d].event, <<>>))
  /\ UNCHANGED <<files, clock, hook, late, quarantine, history>>

\* Mutant: a refusal stops the flush like a failure of the service.
PostRefusedStops(d) ==
  /\ drainer[d].at = "post" /\ Refuses(drainer[d].event)
  /\ GivesUp(d)
  /\ UNCHANGED <<files, clock, hook, service, quarantine, history>>

PostRefused(d) ==
  /\ drainer[d].at = "post" /\ Refuses(drainer[d].event)
  /\ DrainerBecomes(d, Drainer("quarantine", drainer[d].batch, drainer[d].event, <<>>))
  /\ UNCHANGED <<files, clock, hook, service, quarantine, history>>

\* Mutant: an event is acknowledged although no answer came.
PostUnansweredAcknowledged(d) ==
  /\ drainer[d].at = "post"
  /\ DrainerBecomes(d, Drainer("acknowledge", drainer[d].batch, drainer[d].event, <<>>))
  /\ UNCHANGED <<files, clock, hook, service, quarantine, history>>

\* No usable answer (connection, timeout, 401, 429, 5xx): the flush stops, and the
\* request may still be served later.
PostUnanswered(d) ==
  /\ drainer[d].at = "post"
  /\ late' \in {late, late \cup {drainer[d].event}}
  /\ GivesUp(d)
  /\ UNCHANGED <<files, clock, hook, recorded, quarantine, history>>

ServedLate(e) ==
  /\ e \in late
  /\ late' = late \ {e}
  /\ recorded' = IF Refuses(e) THEN recorded ELSE recorded \cup {e}
  /\ UNCHANGED <<files, clock, hook, drainer, quarantine, history>>

\* acknowledge: the file of that name is unlinked, if there is one.
Acknowledge(d) ==
  /\ drainer[d].at = "acknowledge"
  /\ files' = Unlinked(drainer[d].event.id)
  /\ NextFile(d)
  /\ UNCHANGED <<clock, hook, service, quarantine, history>>

\* It cannot be unlinked (OSError): the flush ends, the file stays.
AcknowledgeFails(d) ==
  /\ drainer[d].at = "acknowledge"
  /\ GivesUp(d)
  /\ UNCHANGED <<files, clock, hook, service, quarantine, history>>

\* BoundedQuarantine.add: nothing to do for a record that is there, else the directory
\* is read.
QuarantineBegin(d) ==
  LET s == drainer[d]
  IN  /\ s.at = "quarantine"
      /\ DrainerBecomes(d,
           IF s.event \in ToSet(quarantine)
           THEN Drainer("acknowledge", s.batch, s.event, <<>>)
           ELSE Drainer("store", s.batch, s.event, quarantine))
      /\ UNCHANGED <<files, clock, hook, service, quarantine, history>>

\* The quarantine without the record of e, which another drainer may have pruned.
Unshelved(e) ==
  IF e \in ToSet(quarantine)
  THEN RemoveAt(quarantine, CHOOSE i \in DOMAIN quarantine : quarantine[i] = e)
  ELSE quarantine

\* The oldest record that was seen goes: because there are too many, or because they
\* are too large, which is left open here.
QuarantinePrune(d) ==
  LET s == drainer[d]
  IN  /\ s.at = "store" /\ s.seen # <<>>
      /\ quarantine' = Unshelved(Head(s.seen))
      /\ DrainerBecomes(d, Drainer("store", s.batch, s.event, Tail(s.seen)))
      /\ UNCHANGED <<files, clock, hook, service, history>>

\* Mutant: one record too many is left.
HasRoomLate(seen) == Len(seen) <= MaxShelved

HasRoom(seen) == Len(seen) < MaxShelved

\* os.link, which never replaces a record; then the file may be acknowledged.
QuarantineStore(d) ==
  LET s == drainer[d]
  IN  /\ s.at = "store" /\ HasRoom(s.seen)
      /\ quarantine' = IF s.event \in ToSet(quarantine) THEN quarantine
                       ELSE Append(quarantine, s.event)
      /\ shelved' = shelved \cup {s.event.id}
      /\ DrainerBecomes(d, Drainer("acknowledge", s.batch, s.event, <<>>))
      /\ UNCHANGED <<files, clock, hook, service, queued, pruned>>

\* Quarantining fails somewhere (OSError): the flush stops, the file stays.
QuarantineFails(d) ==
  /\ drainer[d].at = "store"
  /\ GivesUp(d)
  /\ UNCHANGED <<files, clock, hook, service, quarantine, history>>

DrainerDies(d) ==
  /\ d \in Mortal /\ drainer[d].at # "idle"
  /\ GivesUp(d)
  /\ UNCHANGED <<files, clock, hook, service, quarantine, history>>

-----------------------------------------------------------------------------
Init ==
  /\ files = {} /\ clock = 0
  /\ hook = [h \in Hooks |-> HookIdle] /\ drainer = [d \in Drainers |-> DrainerIdle]
  /\ recorded = {} /\ late = {} /\ quarantine = <<>>
  /\ queued = {} /\ pruned = {} /\ shelved = {}

HookStep(h) ==
  \/ EnqueueCompare(h) \/ EnqueueList(h) \/ EnqueueSort(h) \/ EnqueueSize(h)
  \/ EnqueuePrune(h) \/ EnqueueWrite(h) \/ EnqueueLink(h)

Progress(d) ==
  \/ FlushBegin(d) \/ FlushRead(d) \/ FlushEnd(d) \/ QuarantineBegin(d)

Answered(d) == PostAccepted(d) \/ PostRefused(d)

Quarantines(d) == QuarantinePrune(d) \/ QuarantineStore(d)

Next ==
  \/ \E h \in Hooks :
       \/ \E e \in Events : EnqueueBegin(h, e)
       \/ HookStep(h) \/ HookDies(h)
  \/ \E d \in Drainers :
       \/ Progress(d) \/ Answered(d) \/ PostUnanswered(d)
       \/ Acknowledge(d) \/ AcknowledgeFails(d)
       \/ Quarantines(d) \/ QuarantineFails(d) \/ DrainerDies(d)
  \/ \E e \in Events : ServedLate(e)

Spec == Init /\ [][Next]_vars

\* The watch loop starts over after every failure and never stops by itself.  Of the
\* environment it is assumed that a drainer that is not mortal keeps running, that a
\* service that is asked again and again answers again and again, and that the disk
\* refuses neither a deletion nor a record for ever.
FairSpec ==
  /\ Spec
  /\ \A d \in Drainers :
       /\ WF_vars(Progress(d)) /\ SF_vars(Answered(d)) /\ SF_vars(Acknowledge(d))
       /\ SF_vars(QuarantinePrune(d)) /\ SF_vars(QuarantineStore(d))

-----------------------------------------------------------------------------
(* Correctness                                                             *)

EventIds == {e.id : e \in Events}
Files == [event : Events, mtime : 1 .. MaxWrites]

\* The hook has read the directory.
Listing == {"sort", "size", "prune", "link"}

HookTyped(s, now) ==
  /\ s = Hook(s.at, s.event, s.listing, s.total, s.mtime)
  /\ s.at \in {"idle", "known", "list"} \cup Listing
  /\ s.at # "idle" => s.event \in Events
  /\ s.listing \subseteq Files /\ IsFiniteSet(s.listing)
  /\ s.at = "link" => s.mtime \in 1 .. now

DrainerTyped(s) ==
  /\ s = Drainer(s.at, s.batch, s.event, s.seen)
  /\ s.at \in {"idle", "read", "post", "acknowledge", "quarantine", "store"}
  /\ s.at \notin {"idle", "read"} => s.event \in Events
  /\ s.batch \subseteq Files
  /\ s.seen \in Seq(Events)

FilesTyped ==
  /\ files \subseteq Files /\ IsFiniteSet(files)
  /\ \A f, g \in files : f.event.id = g.event.id \/ f.mtime = g.mtime => f = g

HooksTyped ==
  /\ clock \in 0 .. MaxWrites
  /\ hook = [h \in Hooks |-> hook[h]]
  /\ \A h \in Hooks : HookTyped(hook[h], clock)

DrainersTyped ==
  /\ drainer = [d \in Drainers |-> drainer[d]]
  /\ \A d \in Drainers : DrainerTyped(drainer[d])

RestTyped ==
  /\ recorded \subseteq Events /\ late \subseteq Events /\ queued \subseteq Events
  /\ quarantine \in Seq(Events)
  /\ pruned \subseteq EventIds /\ shelved \subseteq EventIds

\* Type invariant.
TypeOK == FilesTyped /\ HooksTyped /\ DrainersTyped /\ RestTyped

IdsOf(S) == {e.id : e \in S}

\* docs/operations.md: no loss under process restart with at-least-once replay.  The
\* id of every event that a hook was told is queued stays accounted for: spooled,
\* recorded, put into quarantine or pruned at the bound, although drainers delete by
\* name what they read some steps before and may die in between.
NothingVanishes ==
  IdsOf(queued) \subseteq
    IdsOf({f.event : f \in files}) \cup IdsOf(recorded) \cup shelved \cup pruned

\* The bounds, with the excess that hooks which list the directory at the same time
\* can cause: one file for every hook but the last.  (spool.py:27 promises that there is
\* none, which holds for one hook at a time.)
SpoolNearBound ==
  Cardinality(files) <= MaxEvents + Cardinality(Hooks) - 1

QuarantineNearBound ==
  Len(quarantine) <= MaxShelved + Cardinality(Drainers) - 1

\* adapters/README.md: a bad record cannot block later work.  Every file leaves the
\* spool, also those behind refused ones, however often the service fails to answer.
EveryFileLeaves ==
  \A e \in Events : e \in {f.event : f \in files} ~> e \notin {f.event : f \in files}

-----------------------------------------------------------------------------
(* Why the properties are kept.                                            *)

\* mtimes tell files apart, those that are still to be linked included.
MtimesDiffer ==
  /\ \A f \in files : f.mtime <= clock
  /\ \A h \in Hooks : hook[h].at = "link" =>
       /\ \A f \in files : f.mtime # hook[h].mtime
       /\ \A g \in Hooks \ {h} : hook[g].at = "link" => hook[g].mtime # hook[h].mtime

\* What a drainer is about to delete has been recorded or put into quarantine.
Accounted(id) == id \in IdsOf(recorded) \cup shelved

DeletesAreAccounted ==
  /\ IdsOf(ToSet(quarantine)) \subseteq shelved
  /\ \A d \in Drainers :
       drainer[d].at = "acknowledge" => Accounted(drainer[d].event.id)

\* How many of the things in a directory S are still there when an actor that has seen
\* some of them has made room for one more: those it has not seen, and of the others one
\* less than the bound.
Least(m, n) == IF m <= n THEN m ELSE n

Remaining(bound, S, seen) ==
  Cardinality(S \ seen) + Least(bound - 1, Cardinality(S \cap seen))

\* Of any set of actors at work, one (the last that read the directory) leaves room for
\* all of them within the bound: what came later is of actors outside of the set, which
\* read it later still, or of actors that were at work then and are not any more.
LeaveRoom(Actors, bound, remaining, busy) ==
  \A B \in SUBSET busy : B # {} =>
    \E a \in B : remaining[a] + Cardinality(B) <= bound - 1 + Cardinality(Actors)

HookLeaves(h) == Remaining(MaxEvents, files, Listed(h))
BusyHooks == {h \in Hooks : hook[h].at \in Listing}

HooksLeaveRoom ==
  /\ \A h \in Hooks : hook[h].at = "link" => hook[h].listing = {}
  /\ LeaveRoom(Hooks, MaxEvents, [h \in Hooks |-> HookLeaves(h)], BusyHooks)

DrainerLeaves(d) == Remaining(MaxShelved, ToSet(quarantine), ToSet(drainer[d].seen))
BusyDrainers == {d \in Drainers : drainer[d].at = "store"}

DrainersLeaveRoom ==
  /\ \A i, j \in DOMAIN quarantine : quarantine[i] = quarantine[j] => i = j
  /\ LeaveRoom(Drainers, MaxShelved, [d \in Drainers |-> DrainerLeaves(d)], BusyDrainers)

\* The inductive invariant.
SpoolInv ==
  /\ TypeOK /\ MtimesDiffer
  /\ NothingVanishes /\ DeletesAreAccounted
  /\ SpoolNearBound /\ HooksLeaveRoom
  /\ QuarantineNearBound /\ DrainersLeaveRoom
=============================================================================

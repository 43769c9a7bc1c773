------------------------------ MODULE LiveUpdates ------------------------------
(***************************************************************************)
(* How a commit reaches an open console: the subscriber's queue and the    *)
(* WebSocket task of the daemon (packages/core/src/brainhub/service.py,    *)
(* api.py), and the console that reconnects, debounces and refetches       *)
(* (apps/web/src/api.ts, App.tsx).  Messages carry a version, but a        *)
(* console reacts to every message alike: it asks for the whole graph.     *)
(* What it gets is what FreshReads promises, a version the store had       *)
(* between the request and the answer.                                     *)
(*                                                                         *)
(* One console, and of the daemon's tasks the one that serves its current  *)
(* socket.  Times are left to the order of steps: the 250 ms debounce, the *)
(* poll interval and the growing reconnect delay.                          *)
(***************************************************************************)
EXTENDS Naturals, Sequences

CONSTANTS MaxVersion,   \* bound: commits
          MaxQueue,     \* size of a subscriber's queue, 100
          MaxFaults     \* bound: lost connections, failed requests, token changes

ASSUME LiveAssumption == MaxVersion \in Nat /\ MaxQueue \in Nat \ {0} /\ MaxFaults \in Nat

VARIABLES
  version,       \* the store's projection_version
  unpublished,   \* committed by threads of this daemon, not yet published
  queue,         \* the asyncio.Queue of the console's subscription
  server,        \* where its WebSocket task is
  last,          \* its last_version
  message,       \* the version in the message it sends
  wire,          \* how many messages are on their way to the console
  socket,        \* "none", "connecting", "open" or "retry"
  closing,       \* a socket the console has given up will still report its end
  timer,         \* refreshTimer is armed
  pending,       \* how many refetches are under way, by the version at their request
  streamOpen, connection,
  phase,         \* of the connect effect: "idle", "health" or "graph"
  asked,         \* the version when its graph was requested
  tokenOk,       \* the console's token is the one the daemon wants
  landed,        \* the newest version that was ever shown, or 0
  failed,        \* a request for the graph has failed
  faults

serverVars == <<queue, server, last, message, wire>>
streamVars == <<socket, closing, timer, streamOpen>>
connectVars == <<connection, phase, asked, tokenOk>>
liveVars == <<version, unpublished, serverVars, streamVars, connectVars, pending, landed, failed, faults>>

Denied == MaxVersion + 1     \* a request with the wrong token, which is answered 401

-----------------------------------------------------------------------------
(* The daemon.                                                             *)

\* An event is recorded, by a thread of the daemon or by another process.
Commit ==
  /\ version < MaxVersion
  /\ version' = version + 1
  /\ unpublished' \in {unpublished, unpublished \cup {version'}}
  /\ UNCHANGED <<serverVars, streamVars, connectVars, pending, landed, failed, faults>>

Subscribed == server \in {"version", "ready", "wait", "poll", "send", "note"}

\* _publish, in whatever order the recording threads get to it; a full queue
\* loses its oldest message.
Publish(v) ==
  /\ v \in unpublished /\ unpublished' = unpublished \ {v}
  /\ queue' = IF ~Subscribed THEN queue
              ELSE Append(IF Len(queue) = MaxQueue THEN Tail(queue) ELSE queue, v)
  /\ UNCHANGED <<version, server, last, message, wire, streamVars, connectVars>>
  /\ UNCHANGED <<pending, landed, failed, faults>>

\* The handshake and the browser's open event, which sends the token.
Accept ==
  /\ socket = "connecting"
  /\ socket' = "open" /\ streamOpen' = TRUE /\ server' = "auth"
  /\ UNCHANGED <<version, unpublished, queue, last, message, wire, closing, timer>>
  /\ UNCHANGED <<connectVars, pending, landed, failed, faults>>

\* The end of the task, and all it had for the console.
Gone == queue' = << >> /\ server' = "none" /\ wire' = 0 /\ last' = 0 /\ message' = 0

\* The browser's close event: try again later.
Closed == socket' = "retry" /\ streamOpen' = FALSE

Reject ==
  /\ server = "auth" /\ ~tokenOk
  /\ Gone /\ Closed
  /\ UNCHANGED <<version, unpublished, closing, timer, connectVars, pending, landed, failed, faults>>

\* What every step of the WebSocket task leaves alone.
ConsoleUnchanged ==
  UNCHANGED <<version, unpublished, streamVars, connectVars, pending, landed, failed, faults>>

Subscribe ==
  /\ server = "auth" /\ tokenOk
  /\ server' = "version" /\ queue' = << >>
  /\ UNCHANGED <<last, message, wire>> /\ ConsoleUnchanged

ReadVersion ==
  /\ server = "version"
  /\ last' = version /\ server' = "ready"
  /\ UNCHANGED <<queue, message, wire>> /\ ConsoleUnchanged

SendReady ==
  /\ server = "ready"
  /\ wire' = wire + 1 /\ server' = "wait"
  /\ UNCHANGED <<queue, last, message>> /\ ConsoleUnchanged

TakeMessage ==
  /\ server = "wait" /\ queue # << >>
  /\ message' = Head(queue) /\ queue' = Tail(queue) /\ server' = "send"
  /\ UNCHANGED <<last, wire>> /\ ConsoleUnchanged

\* Nothing was published for a while.
TimeOut ==
  /\ server = "wait" /\ queue = << >>
  /\ server' = "poll"
  /\ UNCHANGED <<queue, last, message, wire>> /\ ConsoleUnchanged

\* Mutant: only what this daemon publishes is told.
PollNothing ==
  /\ server = "poll"
  /\ last' = version /\ server' = "wait"
  /\ UNCHANGED <<queue, message, wire>> /\ ConsoleUnchanged

\* Has another process committed?  Something may be published before the version is read.
Poll ==
  /\ server = "poll"
  /\ \/ version = last /\ server' = "wait" /\ UNCHANGED message
     \/ version # last /\ server' = "send" /\ message' = version
  /\ UNCHANGED <<queue, last, wire>> /\ ConsoleUnchanged

Send ==
  /\ server = "send"
  /\ wire' = wire + 1 /\ server' = "note"
  /\ UNCHANGED <<queue, last, message>> /\ ConsoleUnchanged

\* Mutant: the version the store has by now counts as told.
NoteLatest ==
  /\ server = "note"
  /\ last' = version /\ server' = "wait" /\ message' = 0
  /\ UNCHANGED <<queue, wire>> /\ ConsoleUnchanged

\* What was told is what was sent, even if an older version than the one before.
Note ==
  /\ server = "note"
  /\ last' = message /\ server' = "wait" /\ message' = 0
  /\ UNCHANGED <<queue, wire>> /\ ConsoleUnchanged

-----------------------------------------------------------------------------
(* The console's stream.                                                   *)

Fault == faults < MaxFaults /\ faults' = faults + 1

\* The network or the daemon ends the connection, or there is none to be had.
Drop ==
  /\ socket \in {"connecting", "open"} /\ Fault
  /\ Gone /\ Closed
  /\ UNCHANGED <<version, unpublished, closing, timer, connectVars, pending, landed, failed>>

Reconnect ==
  /\ socket = "retry" /\ socket' = "connecting"
  /\ UNCHANGED <<version, unpublished, serverVars, closing, timer, streamOpen>>
  /\ UNCHANGED <<connectVars, pending, landed, failed, faults>>

\* The close event of a socket that was given up comes late.
LateClose ==
  /\ closing /\ closing' = FALSE /\ streamOpen' = FALSE
  /\ UNCHANGED <<version, unpublished, serverVars, socket, timer>>
  /\ UNCHANGED <<connectVars, pending, landed, failed, faults>>

\* Any message arms the timer anew.
Deliver ==
  /\ wire > 0 /\ wire' = wire - 1 /\ timer' = TRUE
  /\ UNCHANGED <<version, unpublished, queue, server, last, message, socket, closing, streamOpen>>
  /\ UNCHANGED <<connectVars, pending, landed, failed, faults>>

RequestedAt == IF tokenOk THEN version ELSE Denied

\* loadLiveGraph, without the abort signal of the connect effect.
Refetch ==
  /\ timer /\ timer' = FALSE
  /\ pending' = [pending EXCEPT ![RequestedAt] = @ + 1]
  /\ UNCHANGED <<version, unpublished, serverVars, socket, closing, streamOpen>>
  /\ UNCHANGED <<connectVars, landed, failed, faults>>

Show(a) == \E v \in a .. version : landed' = IF v > landed THEN v ELSE landed

\* The answers come in any order.
Land(a) ==
  /\ a \in 0 .. version /\ pending[a] > 0
  /\ pending' = [pending EXCEPT ![a] = @ - 1]
  /\ Show(a)
  /\ UNCHANGED <<version, unpublished, serverVars, streamVars, connectVars, failed, faults>>

\* A refetch that fails is not repeated; the badge says so.
RefetchFails(a) ==
  /\ pending[a] > 0 /\ pending' = [pending EXCEPT ![a] = @ - 1]
  /\ streamOpen' = FALSE
  /\ \/ a = Denied /\ UNCHANGED <<failed, faults>>
     \/ a # Denied /\ Fault /\ failed' = TRUE
  /\ UNCHANGED <<version, unpublished, serverVars, socket, closing, timer, connectVars, landed>>

-----------------------------------------------------------------------------
(* The connection.                                                         *)

\* The cleanup of the subscription effect, and what is subscribed instead.
Resubscribe(next) ==
  /\ timer' = FALSE /\ closing' = (closing \/ socket \in {"connecting", "open"})
  /\ socket' = next /\ Gone

HealthAnswers ==
  /\ phase = "health" /\ phase' = "graph" /\ asked' = RequestedAt
  /\ UNCHANGED <<version, unpublished, serverVars, streamVars, connection, tokenOk>>
  /\ UNCHANGED <<pending, landed, failed, faults>>

\* The first graph has come: the subscription starts, unless there is one already.
Connected ==
  /\ phase = "graph" /\ asked # Denied
  /\ phase' = "idle" /\ connection' = "live" /\ Show(asked)
  /\ socket' = IF connection = "live" THEN socket ELSE "connecting"
  /\ UNCHANGED <<version, unpublished, serverVars, closing, timer, streamOpen>>
  /\ asked' = 0 /\ UNCHANGED <<tokenOk, pending, failed, faults>>

Refused ==
  /\ phase = "graph" /\ asked = Denied
  /\ phase' = "idle" /\ connection' = "offline" /\ Resubscribe("none")
  /\ asked' = 0 /\ UNCHANGED <<version, unpublished, streamOpen, tokenOk, pending, landed, failed, faults>>

\* No daemon: the demonstration graph, or nothing, depending on the build.
ConnectFails ==
  /\ phase \in {"health", "graph"} /\ Fault /\ failed' = TRUE
  /\ phase' = "idle" /\ connection' \in {"demo", "offline"} /\ Resubscribe("none")
  /\ asked' = 0 /\ UNCHANGED <<version, unpublished, streamOpen, tokenOk, pending, landed>>

\* saveToken, clearToken: the connect effect starts over, and the subscription.
ChangeToken ==
  /\ Fault /\ tokenOk' \in BOOLEAN
  /\ phase' = "health" /\ asked' = 0
  /\ IF connection = "live" THEN Resubscribe("connecting")
     ELSE UNCHANGED <<socket, closing, timer, serverVars>>
  /\ UNCHANGED <<version, unpublished, streamOpen, connection, pending, landed, failed>>

-----------------------------------------------------------------------------
Requests == 0 .. Denied

LiveInit ==
  /\ version = 0 /\ unpublished = {}
  /\ queue = << >> /\ server = "none" /\ last = 0 /\ message = 0 /\ wire = 0
  /\ socket = "none" /\ closing = FALSE /\ timer = FALSE /\ streamOpen = FALSE
  /\ connection = "demo" /\ phase = "health" /\ asked = 0 /\ tokenOk \in BOOLEAN
  /\ pending = [a \in Requests |-> 0] /\ landed = 0 /\ failed = FALSE /\ faults = 0

Daemon ==
  \/ \E v \in unpublished : Publish(v)
  \/ Accept \/ Reject \/ Subscribe \/ ReadVersion \/ SendReady
  \/ TakeMessage \/ TimeOut \/ Poll \/ Send \/ Note

Console ==
  \/ Reconnect \/ LateClose \/ Deliver \/ Refetch
  \/ HealthAnswers \/ Connected \/ Refused

LiveNext ==
  \/ Commit \/ Daemon \/ Console \/ Drop \/ ConnectFails \/ ChangeToken
  \/ \E a \in Requests : Land(a) \/ RefetchFails(a)

\* The event loops of the daemon and of the console go on with whatever there is to do,
\* and every request is answered or fails.
LiveSpec ==
  /\ LiveInit /\ [][LiveNext]_liveVars
  /\ WF_liveVars(Daemon) /\ WF_liveVars(Console)
  /\ WF_liveVars(\E a \in Requests : Land(a) \/ RefetchFails(a))

-----------------------------------------------------------------------------
(* Properties.                                                             *)

BadgeLive == connection = "live" /\ streamOpen

\* The daemon has something for the console or will find that it has.
WillTell ==
  \/ socket = "connecting"
  \/ server \in {"auth", "version", "ready", "send"}
  \/ queue # << >>
  \/ server \in {"wait", "poll"} /\ last # version
  \/ server = "note" /\ message # version

\* While the badge says Live, the newest commit has been shown or something is under
\* way that will fetch it: a message to come, on the wire or waiting for the debounce,
\* or a request made after the commit.  This is what the queue that drops its oldest,
\* the poll for other processes' commits, versions told out of order (api.py:515-537)
\* and the subscription's restarts must not break.
CommitIsOnItsWay ==
  BadgeLive =>
    \/ landed >= version
    \/ WillTell \/ wire > 0 \/ timer
    \/ \E a \in version .. MaxVersion : pending[a] > 0

\* Every commit is shown in the end, whoever made it and however often the connection
\* is lost, unless a request for the graph fails (it is not repeated) or the console's
\* token is wrong.
CommitReachesConsole ==
  \A v \in 1 .. MaxVersion :
    (version >= v) ~> (landed >= v \/ failed \/ ~tokenOk)
================================================================================

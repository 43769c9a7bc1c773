-------------------------- MODULE ServiceLifecycle --------------------------
(***************************************************************************)
(* The managed background service of one user: the commands start (and ui, *)
(* which runs the same function), stop and status, and the daemons they    *)
(* launch (packages/core/src/brainhub/cli.py).  They share a state file,   *)
(* which names the daemon that serves, a lock that this daemon holds, and  *)
(* the port of the console.  Every read of the state file may delete it.   *)
(*                                                                         *)
(* The model is the POSIX one.  Process ids are not reused, and a daemon's *)
(* number stands for its process id and its instance id.  A command whose  *)
(* own process is killed is left out: its child then becomes the service.  *)
(***************************************************************************)
EXTENDS Naturals, FiniteSets

CONSTANTS
  Shell,       \* the terminals and hosts that run commands
  Config,      \* the configurations (runtime and settings) a command may want
  MaxDaemons   \* bound on the daemons that are launched

None == 0
Daemon == 1..MaxDaemons

ASSUMPTION ServiceAssumption ==
  /\ MaxDaemons \in Nat
  /\ Shell \cap Nat = {}
  /\ Config # {}

VARIABLES
  file,      \* the daemon that the state file names, or None
  lock,      \* who holds the service lock: a daemon, or a shell that probes it
  daemon,    \* where each daemon is in service_command
  config,    \* the configuration it was launched with
  launched,  \* how many daemons were launched
  pc,        \* where each shell is in its command
  op,        \* its command
  want,      \* the configuration it runs under
  back,      \* where _read_service_state returns to
  seen,      \* what _read_service_state returns
  target,    \* the daemon that _terminate_service_process is to end
  child,     \* the daemon that this start has launched
  managed    \* the daemons that a start has answered with

daemons == <<daemon, config, launched>>
call == <<op, want, child>>
vars == <<file, lock, daemon, config, launched, pc, op, want, back, seen, target, child, managed>>

\* From the bound console port on, under the lock, and alive.
Ports == {"bound", "locked", "registered", "serving", "closing"}
Locked == {"locked", "registered", "serving", "closing", "closed", "removed"}
Alive == Ports \cup Locked \cup {"starting"}

Dead(d) == daemon[d] = "dead"

\* _process_exists: also true of a dead child that the start which launched it has not
\* reaped, which it does at a moment of its own.
MayExist(d) == Dead(d) => \E s \in Shell : child[s] = d

\* What the model says of a daemon that is not launched and a shell that never ran.
AnyConfig == CHOOSE c \in Config : TRUE

Init ==
  /\ file = None /\ lock = None
  /\ daemon = [d \in Daemon |-> "none"]
  /\ config = [d \in Daemon |-> AnyConfig]
  /\ launched = 0
  /\ pc = [s \in Shell |-> "idle"]
  /\ op = [s \in Shell |-> "none"]
  /\ want = [s \in Shell |-> AnyConfig]
  /\ back = [s \in Shell |-> "status"]
  /\ seen = [s \in Shell |-> None]
  /\ target = [s \in Shell |-> None]
  /\ child = [s \in Shell |-> None]
  /\ managed = {}

Goto(s, step) == pc' = [pc EXCEPT ![s] = step]

\* _read_service_state is called, and its answer is used at step next.
Read(s, next) ==
  /\ Goto(s, "read")
  /\ back' = [back EXCEPT ![s] = next]

\* The process of daemon d ends: the system takes its lock and its ports back.
Ends(d) ==
  /\ daemon' = [daemon EXCEPT ![d] = "dead"]
  /\ lock' = IF lock = d THEN None ELSE lock

\* SIGTERM: default action, or the server's handler once the server runs; a dead
\* process takes it without a word.
Signalled(d) ==
  \/ Ends(d)
  \/ /\ daemon[d] \in {"serving", "closing"}
     /\ daemon' = [daemon EXCEPT ![d] = "closing"]
     /\ UNCHANGED lock

----------------------------------------------------------------------------
(* The daemon: service_command.                                            *)

\* The console's port comes first; a daemon that does not get it gives up.
BindUi(d) ==
  /\ daemon[d] = "starting"
  /\ daemon' = [daemon EXCEPT ![d] =
       IF \E other \in Daemon : daemon[other] \in Ports THEN "dead" ELSE "bound"]
  /\ UNCHANGED <<file, lock, config, launched, pc, op, want, back, seen, target, child, managed>>

\* Mutant: the daemon waits for no lock.
TakeNoLock(d) ==
  /\ daemon[d] = "bound"
  /\ daemon' = [daemon EXCEPT ![d] = "locked"]
  /\ lock' = d
  /\ UNCHANGED <<file, config, launched, pc, op, want, back, seen, target, child, managed>>

\* The lock is tried once, and given up when a daemon or a probe holds it.
TakeLock(d) ==
  /\ daemon[d] = "bound"
  /\ IF lock = None
     THEN /\ daemon' = [daemon EXCEPT ![d] = "locked"]
          /\ lock' = d
     ELSE Ends(d)
  /\ UNCHANGED <<file, config, launched, pc, op, want, back, seen, target, child, managed>>

Register(d) ==
  /\ daemon[d] = "locked"
  /\ daemon' = [daemon EXCEPT ![d] = "registered"]
  /\ file' = d
  /\ UNCHANGED <<lock, config, launched, pc, op, want, back, seen, target, child, managed>>

\* The API is up, or its port belongs to another program.
Serve(d) ==
  /\ daemon[d] = "registered"
  /\ \E step \in {"serving", "closing"} : daemon' = [daemon EXCEPT ![d] = step]
  /\ UNCHANGED <<file, lock, config, launched, pc, op, want, back, seen, target, child, managed>>

CloseUi(d) ==
  /\ daemon[d] = "closing"
  /\ daemon' = [daemon EXCEPT ![d] = "closed"]
  /\ UNCHANGED <<file, lock, config, launched, pc, op, want, back, seen, target, child, managed>>

Unregister(d) ==
  /\ daemon[d] = "closed"
  /\ daemon' = [daemon EXCEPT ![d] = "removed"]
  /\ file' = IF file = d THEN None ELSE file
  /\ UNCHANGED <<lock, config, launched, pc, op, want, back, seen, target, child, managed>>

Exit(d) ==
  /\ daemon[d] = "removed"
  /\ Ends(d)
  /\ UNCHANGED <<file, config, launched, pc, op, want, back, seen, target, child, managed>>

\* The store does not open, the machine kills the daemon, the user does.
Dies(d) ==
  /\ daemon[d] \in Alive
  /\ Ends(d)
  /\ UNCHANGED <<file, config, launched, pc, op, want, back, seen, target, child, managed>>

DaemonRuns(d) ==
  BindUi(d) \/ TakeLock(d) \/ Register(d) \/ Serve(d) \/ CloseUi(d) \/ Unregister(d) \/ Exit(d)

----------------------------------------------------------------------------
(* Reading the state file: _read_service_state.                            *)

Begin(s) ==
  /\ pc[s] = "idle"
  /\ \E o \in {"start", "stop", "status"}, w \in Config :
       /\ op' = [op EXCEPT ![s] = o]
       /\ want' = [want EXCEPT ![s] = w]
       /\ Read(s, IF o = "start" THEN "ensure" ELSE o)
  /\ UNCHANGED <<file, lock, daemons, seen, target, child, managed>>

ReadFile(s) ==
  /\ pc[s] = "read"
  /\ seen' = [seen EXCEPT ![s] = file]
  /\ Goto(s, IF file = None THEN "unlink" ELSE "exists")
  /\ UNCHANGED <<file, lock, daemons, call, back, target, managed>>

CheckProcess(s) ==
  /\ pc[s] = "exists"
  /\ \/ MayExist(seen[s]) /\ Goto(s, "probe")
     \/ Dead(seen[s]) /\ Goto(s, "unlink")
  /\ UNCHANGED <<file, lock, daemons, call, back, seen, target, managed>>

\* _service_lock_is_held takes the lock itself when nobody has it.
ProbeHeld(s) ==
  /\ pc[s] = "probe" /\ lock # None
  /\ Goto(s, back[s])
  /\ UNCHANGED <<file, lock, daemons, call, back, seen, target, managed>>

ProbeFree(s) ==
  /\ pc[s] = "probe" /\ lock = None
  /\ lock' = s
  /\ Goto(s, "probing")
  /\ UNCHANGED <<file, daemons, call, back, seen, target, managed>>

\* Mutant: the probe does not give the lock back.
ProbeKept(s) ==
  /\ pc[s] = "probing"
  /\ Goto(s, "unlink")
  /\ UNCHANGED <<file, lock, daemons, call, back, seen, target, managed>>

ProbeEnd(s) ==
  /\ pc[s] = "probing"
  /\ lock' = None
  /\ Goto(s, "unlink")
  /\ UNCHANGED <<file, daemons, call, back, seen, target, managed>>

\* No file, a dead daemon or no lock: whatever the file names by now is deleted.
Unlink(s) ==
  /\ pc[s] = "unlink"
  /\ file' = None
  /\ seen' = [seen EXCEPT ![s] = None]
  /\ Goto(s, back[s])
  /\ UNCHANGED <<lock, daemons, call, back, target, managed>>

ReadsState(s) ==
  ReadFile(s) \/ CheckProcess(s) \/ ProbeHeld(s) \/ ProbeFree(s) \/ ProbeEnd(s) \/ Unlink(s)

----------------------------------------------------------------------------
(* Ending a daemon: _terminate_service_process, _remove_service_state.     *)

\* A command ends, and has answered with daemon d when d is one.
Finish(s, d) ==
  /\ Goto(s, "idle")
  /\ child' = [child EXCEPT ![s] = None]
  /\ target' = [target EXCEPT ![s] = None]
  /\ seen' = [seen EXCEPT ![s] = None]
  /\ managed' = managed \cup ({d} \ {None})

Terminated(s) ==
  IF op[s] = "stop" THEN Finish(s, None)
  ELSE /\ Goto(s, "launch")
       /\ UNCHANGED <<child, target, seen, managed>>

\* The target is seen to be gone.  A start's own child never is: nothing reaps it here.
Gone(s) == Dead(target[s]) /\ target[s] # child[s]

\* The daemon is asked over HTTP; the request reaches it or does not.
RequestShutdown(s) ==
  /\ pc[s] = "terminate"
  /\ \/ /\ Gone(s)
        /\ Goto(s, "remove") /\ UNCHANGED daemon
     \/ /\ MayExist(target[s])
        /\ Goto(s, "wait")
        /\ \/ UNCHANGED daemon
           \/ /\ daemon[target[s]] = "serving"
              /\ daemon' = [daemon EXCEPT ![target[s]] = "closing"]
  /\ UNCHANGED <<file, lock, config, launched, call, back, seen, target, managed>>

Waited(s) ==
  /\ pc[s] \in {"wait", "signalled", "killed"} /\ Gone(s)
  /\ Goto(s, "remove")
  /\ UNCHANGED <<file, lock, daemons, call, back, seen, target, managed>>

\* Mutant: the state file is removed as soon as the daemon was told to stop.
SendTermOnly(s) ==
  /\ pc[s] = "wait" /\ MayExist(target[s])
  /\ Signalled(target[s])
  /\ Goto(s, "remove")
  /\ UNCHANGED <<file, config, launched, call, back, seen, target, managed>>

SendTerm(s) ==
  /\ pc[s] = "wait" /\ MayExist(target[s])
  /\ Signalled(target[s])
  /\ Goto(s, "signalled")
  /\ UNCHANGED <<file, config, launched, call, back, seen, target, managed>>

SendKill(s) ==
  /\ pc[s] = "signalled" /\ MayExist(target[s])
  /\ Ends(target[s])
  /\ Goto(s, "killed")
  /\ UNCHANGED <<file, config, launched, call, back, seen, target, managed>>

\* A signal finds no process any more and raises, or the killed process does not
\* exit: it waits for its start to reap it.  A start that ends its own child goes on.
TerminateFails(s) ==
  /\ \/ pc[s] \in {"wait", "signalled"} /\ Gone(s)
     \/ pc[s] = "killed" /\ MayExist(target[s])
  /\ IF target[s] = child[s]
     THEN Goto(s, "reap") /\ UNCHANGED <<child, target, seen, managed>>
     ELSE Finish(s, None)
  /\ UNCHANGED <<file, lock, daemons, op, want, back>>

\* Only the target's own file is deleted, judged by a read before the deletion.
RemoveState(s) ==
  /\ pc[s] = "remove"
  /\ \/ /\ file = None
        /\ Goto(s, "unlink") /\ back' = [back EXCEPT ![s] = "delete"]
        /\ UNCHANGED <<child, target, seen, managed>>
     \/ /\ file = target[s]
        /\ Goto(s, "delete")
        /\ UNCHANGED <<child, target, seen, managed, back>>
     \/ /\ file \notin {None, target[s]}
        /\ Terminated(s) /\ UNCHANGED back
  /\ UNCHANGED <<file, lock, daemons, op, want>>

DeleteState(s) ==
  /\ pc[s] = "delete"
  /\ file' = None
  /\ Terminated(s)
  /\ UNCHANGED <<lock, daemons, op, want, back>>

Terminates(s) ==
  \/ RequestShutdown(s) \/ Waited(s) \/ SendTerm(s) \/ SendKill(s) \/ TerminateFails(s)
  \/ RemoveState(s) \/ DeleteState(s)

----------------------------------------------------------------------------
(* The commands: status, stop, and start (_ensure_service).                *)

StatusAnswers(s) ==
  /\ pc[s] = "status"
  /\ Finish(s, None)
  /\ UNCHANGED <<file, lock, daemons, op, want, back>>

StopAnswers(s) ==
  /\ pc[s] = "stop"
  /\ IF seen[s] = None THEN Finish(s, None)
     ELSE /\ Goto(s, "terminate")
          /\ target' = [target EXCEPT ![s] = seen[s]]
          /\ UNCHANGED <<child, seen, managed>>
  /\ UNCHANGED <<file, lock, daemons, op, want, back>>

\* Both ports answer with this instance, and it is the configuration wanted.
Healthy(s) ==
  /\ seen[s] # None
  /\ daemon[seen[s]] = "serving"
  /\ config[seen[s]] = want[s]

EnsureFinds(s) ==
  /\ pc[s] = "ensure" /\ Healthy(s)
  /\ Finish(s, seen[s])
  /\ UNCHANGED <<file, lock, daemons, op, want, back>>

\* Another configuration, or a health check that fails or takes too long.
EnsureReplaces(s) ==
  /\ pc[s] = "ensure" /\ seen[s] # None
  /\ Goto(s, "terminate")
  /\ target' = [target EXCEPT ![s] = seen[s]]
  /\ UNCHANGED <<file, lock, daemons, call, back, seen, managed>>

EnsureLaunches(s) ==
  /\ pc[s] = "ensure" /\ seen[s] = None
  /\ Goto(s, "launch")
  /\ UNCHANGED <<file, lock, daemons, call, back, seen, target, managed>>

Launch(s) ==
  /\ pc[s] = "launch" /\ launched < MaxDaemons
  /\ launched' = launched + 1
  /\ daemon' = [daemon EXCEPT ![launched + 1] = "starting"]
  /\ config' = [config EXCEPT ![launched + 1] = want[s]]
  /\ child' = [child EXCEPT ![s] = launched + 1]
  /\ target' = [target EXCEPT ![s] = None]
  /\ Read(s, "poll")
  /\ UNCHANGED <<file, lock, op, want, seen, managed>>

LaunchFails(s) ==
  /\ pc[s] = "launch"
  /\ Finish(s, None)
  /\ UNCHANGED <<file, lock, daemons, op, want, back>>

\* Mutant: a start that finds another start's service leaves its own child alone.
PollLeavesChild(s) ==
  /\ pc[s] = "poll" /\ Healthy(s)
  /\ Finish(s, seen[s])
  /\ UNCHANGED <<file, lock, daemons, op, want, back>>

\* Another start's service will do: the own child is ended first.
PollFinds(s) ==
  /\ pc[s] = "poll" /\ Healthy(s)
  /\ IF seen[s] = child[s] THEN Finish(s, seen[s])
     ELSE /\ Goto(s, "reap")
          /\ target' = [target EXCEPT ![s] = seen[s]]
          /\ UNCHANGED <<child, seen, managed>>
  /\ UNCHANGED <<file, lock, daemons, op, want, back>>

PollAgain(s) ==
  /\ pc[s] = "poll" /\ ~(seen[s] = None /\ Dead(child[s]))
  /\ Goto(s, "read")
  /\ UNCHANGED <<file, lock, daemons, call, back, seen, target, managed>>

\* Mutant: the poll waits for the child, without a deadline.
PollEndsOnDeath(s) ==
  /\ pc[s] = "poll" /\ seen[s] = None /\ Dead(child[s])
  /\ Read(s, "failed")
  /\ UNCHANGED <<file, lock, daemons, call, seen, target, managed>>

\* The child is gone, or the deadline has passed.
PollEnds(s) ==
  /\ pc[s] = "poll"
  /\ Read(s, "failed")
  /\ UNCHANGED <<file, lock, daemons, call, seen, target, managed>>

\* Mutant: the child of a failed start is ended only where the state file names it.
FailedLeavesChild(s) ==
  /\ pc[s] = "failed"
  /\ IF seen[s] = child[s]
     THEN /\ Goto(s, "terminate")
          /\ target' = [target EXCEPT ![s] = child[s]]
          /\ UNCHANGED <<child, seen, managed>>
     ELSE Finish(s, None)
  /\ UNCHANGED <<file, lock, daemons, op, want, back>>

Failed(s) ==
  /\ pc[s] = "failed"
  /\ IF seen[s] = child[s]
     THEN /\ Goto(s, "terminate")
          /\ target' = [target EXCEPT ![s] = child[s]]
     ELSE /\ Goto(s, "reap")
          /\ UNCHANGED target
  /\ UNCHANGED <<file, lock, daemons, call, back, seen, managed>>

\* _terminate_and_reap_child: SIGTERM, a bounded wait, SIGKILL.
ReapTerm(s) ==
  /\ pc[s] = "reap"
  /\ Signalled(child[s])
  /\ Goto(s, "reaping")
  /\ UNCHANGED <<file, config, launched, call, back, seen, target, managed>>

Reaped(s) ==
  /\ pc[s] = "reaping"
  /\ Ends(child[s])
  /\ Finish(s, IF target[s] = child[s] THEN None ELSE target[s])
  /\ UNCHANGED <<file, config, launched, op, want, back>>

Answers(s) ==
  \/ StatusAnswers(s) \/ StopAnswers(s)
  \/ EnsureFinds(s) \/ EnsureReplaces(s) \/ EnsureLaunches(s) \/ Launch(s) \/ LaunchFails(s)
  \/ PollFinds(s) \/ PollAgain(s) \/ PollEnds(s)
  \/ Failed(s) \/ ReapTerm(s) \/ Reaped(s)

Runs(s) == ReadsState(s) \/ Terminates(s) \/ Answers(s)

Next ==
  \/ \E d \in Daemon : DaemonRuns(d) \/ Dies(d)
  \/ \E s \in Shell : Begin(s) \/ Runs(s)

Spec == Init /\ [][Next]_vars

\* A command's process is scheduled, and its polling loop has a deadline.
FairSpec ==
  /\ Spec
  /\ \A s \in Shell : WF_vars(Runs(s)) /\ SF_vars(PollEnds(s))
----------------------------------------------------------------------------
Steps == {"read", "exists", "probe", "probing", "unlink", "status", "stop", "ensure",
          "launch", "poll", "failed", "reap", "reaping", "terminate", "wait",
          "signalled", "killed", "remove", "delete"}

DaemonTypes ==
  /\ file \in Daemon \cup {None}
  /\ lock \in Daemon \cup Shell \cup {None}
  /\ daemon \in [Daemon -> Alive \cup {"none", "dead"}]
  /\ config \in [Daemon -> Config]
  /\ launched \in 0..MaxDaemons
  /\ managed \subseteq Daemon

ShellTypes ==
  /\ pc \in [Shell -> Steps \cup {"idle"}]
  /\ op \in [Shell -> {"none", "start", "stop", "status"}]
  /\ want \in [Shell -> Config]
  /\ back \in [Shell -> {"ensure", "poll", "failed", "status", "stop", "delete"}]
  /\ seen \in [Shell -> Daemon \cup {None}]
  /\ target \in [Shell -> Daemon \cup {None}]
  /\ child \in [Shell -> Daemon \cup {None}]

LockHeld ==
  /\ \A d \in Daemon : daemon[d] \in Locked <=> lock = d
  /\ \A s \in Shell : pc[s] = "probing" <=> lock = s

\* Types, and the lock: it is held by the one daemon between _service_lock and its
\* exit, or for a moment by a command that probes it.
TypeOK == DaemonTypes /\ ShellTypes /\ LockHeld

\* The state file never names another daemon than the one that serves: what a
\* command reads, signals and deletes under a live service is that service.
\* (_atomic_write_service_state and _remove_service_state run under the lock.)
FileNamesHolder ==
  \A d \in Daemon :
    daemon[d] \in {"registered", "serving", "closing", "closed"} => file \in {d, None}

\* A start leaves no process behind that it has not answered with: a daemon that
\* lives is somebody's child still, or the service a start has reported.
NoStrayChild ==
  \A d \in Daemon : daemon[d] \in Alive =>
    d \in managed \/ \E s \in Shell : child[s] = d

\* README.md: "Use brainhub start, brainhub status, and brainhub stop for explicit
\* lifecycle control."  When no command runs, the daemon that serves is the one the
\* state file names, or no command would ever find it again.
Controllable ==
  (\A s \in Shell : pc[s] = "idle") =>
    \A d \in Daemon : daemon[d] = "serving" => file = d

\* What is left of it: as long as one shell alone has run commands, it holds, also
\* where that shell's own start deletes the file its daemon has written meanwhile.
Sole(s) == \A t \in Shell \ {s} : op[t] = "none"

ControllableAlone == \A s \in Shell : Sole(s) => Controllable

\* After a start, also one that failed, no service of another configuration runs.
\* (_ensure_service, where one shell alone runs commands.)
ServesWanted ==
  \A s \in Shell : Sole(s) /\ pc[s] = "idle" /\ op[s] = "start" =>
    \A d \in Daemon : daemon[d] = "serving" => config[d] = want[s]

\* What a stop or a replacing start was told to end is gone when the command goes
\* on, and the state file does not name it any more.
EndsWhatItSaw ==
  [][\A s \in Shell :
       pc[s] \in {"remove", "delete"} /\ pc'[s] \in {"idle", "launch"}
         => daemon'[target[s]] = "dead" /\ file' # target[s]]_vars

\* What these rest on: each step of a command has the daemons it speaks of; a start
\* that still replaces an old service has no child; and what is removed from the
\* state file is dead and stays so.
Reading == {"read", "exists", "probe", "probing"}
Ending == {"terminate", "wait", "signalled", "killed", "remove", "delete"}
Removing(s) == pc[s] \in {"remove", "delete"} \/ (pc[s] = "unlink" /\ back[s] = "delete")

ReadInv(s) ==
  /\ pc[s] \in {"exists", "probe", "probing"} => seen[s] # None
  /\ pc[s] \in Reading => back[s] # "delete"
  /\ pc[s] = "poll" => back[s] = "poll"

EndInv(s) ==
  /\ pc[s] \in Ending \/ Removing(s) => target[s] # None /\ child[s] \in {None, target[s]}
  /\ pc[s] = "killed" => Dead(target[s])
  /\ Removing(s) => Dead(target[s]) /\ child[s] = None

OpInv(s) ==
  /\ \/ pc[s] \in {"ensure", "launch", "poll", "failed", "reap", "reaping"}
     \/ pc[s] \in Reading \cup {"unlink"} /\ back[s] \in {"ensure", "poll", "failed"}
     => op[s] = "start"
  /\ pc[s] = "stop" \/ (pc[s] \in Reading \cup {"unlink"} /\ back[s] = "stop")
     => op[s] = "stop"
  /\ pc[s] = "status" \/ (pc[s] \in Reading \cup {"unlink"} /\ back[s] = "status")
     => op[s] = "status"
  /\ pc[s] \in Ending \/ Removing(s) => op[s] # "status"
  /\ op[s] = "none" => pc[s] = "idle"

ChildInv(s) ==
  /\ \/ pc[s] \in {"poll", "failed", "reap", "reaping"}
     \/ pc[s] \in Reading \cup {"unlink"} /\ back[s] \in {"poll", "failed"}
     => child[s] # None
  /\ \/ op[s] # "start" \/ pc[s] \in {"idle", "status", "stop", "ensure", "launch"}
     \/ pc[s] \in Reading \cup {"unlink"} /\ back[s] \in {"status", "stop", "ensure"}
     => child[s] = None

Unlaunched ==
  /\ \A d \in Daemon : d > launched => daemon[d] = "none"
  /\ file <= launched
  /\ \A s \in Shell : seen[s] <= launched /\ target[s] <= launched /\ child[s] <= launched

ServiceInv ==
  /\ TypeOK /\ FileNamesHolder /\ NoStrayChild /\ Unlaunched
  /\ \A s \in Shell : ReadInv(s) /\ EndInv(s) /\ OpInv(s) /\ ChildInv(s)

\* What ControllableAlone and ServesWanted rest on.  A daemon that may
\* serve and is not the child of the running start is a service it knows of: the state
\* file names it until the command has read it, then seen does, then target, and the
\* file is deleted and a daemon launched only when there is no such service.
Launching == {"launch", "poll", "failed", "reap", "reaping"}
Asking(s) == pc[s] \in {"ensure", "stop", "status"}
AsksNext(s) == back[s] \in {"ensure", "stop", "status"}
Serving == {"serving", "closing", "closed"}
Governing(s) == {d \in Daemon \ {child[s]} : daemon[d] \in Serving}

Grown(s) == \A d \in Daemon \ {child[s]} : daemon[d] \in Alive => daemon[d] \in Serving \cup {"removed"}

FileKnows(s) ==
  \/ pc[s] = "idle" \/ Asking(s)
  \/ pc[s] \in Reading \cup {"unlink"} /\ AsksNext(s)
  => \A d \in Governing(s) : file = d

SeenKnows(s) ==
  Asking(s) \/ (pc[s] \in Reading \ {"read"} /\ AsksNext(s))
  => \A d \in Governing(s) : seen[s] = d

TargetKnows(s) ==
  pc[s] \in Ending \/ Removing(s) => \A d \in Governing(s) : target[s] = d

NoneBeside(s) ==
  \/ pc[s] \in Launching \cup {"unlink"}
  \/ pc[s] \in Reading /\ back[s] \in {"poll", "failed"}
  => Governing(s) = {}

ChildNamed(s) ==
  /\ pc[s] \in {"exists", "probe", "poll"} /\ seen[s] = child[s] /\ child[s] # None
  /\ daemon[child[s]] \in Serving \cup {"registered"}
  => file = child[s]

Configured(s) ==
  pc[s] = "idle" /\ op[s] = "start" =>
    \A d \in Governing(s) : daemon[d] = "serving" => config[d] = want[s]

Alone(s) ==
  /\ Grown(s) /\ FileKnows(s) /\ SeenKnows(s) /\ TargetKnows(s)
  /\ NoneBeside(s) /\ ChildNamed(s) /\ Configured(s)

\* Every command ends, whatever the others and the daemons do meanwhile.
CommandsEnd == \A s \in Shell : pc[s] # "idle" ~> pc[s] = "idle"
=============================================================================

------------------------------ MODULE Installer ------------------------------
(***************************************************************************)
(* The installer (scripts/install.py, install_checkout and what it calls): *)
(* a runtime for the source it was started with, the pointer to the active *)
(* runtime, the launchers, the plugin copy and the registrations with the  *)
(* agents.  Every step may fail, be interrupted by the user (Ctrl-C), or   *)
(* be the last of a process that is killed; the next installation starts   *)
(* from what is left.  Runtimes and hosts also change from outside.        *)
(*                                                                         *)
(* A runtime is named by its source fingerprint, and a source is fixed     *)
(* while it is installed.  A plugin copy is named by the runtime whose     *)
(* Python its hooks run.  `brainhub stop`, which is run before the pointer *)
(* moves and whose outcome is ignored, is the stop of ServiceLifecycle.    *)
(***************************************************************************)
EXTENDS Naturals

CONSTANTS
  Installers,   \* the processes
  Runtimes,     \* the runtimes, one for every source that may be installed
  FileHosts,    \* the agents that are registered in a JSON file (Cursor, Antigravity)
  Claude,       \* the agent that is registered with its own command
  Shims,        \* number of launchers
  None,
  Foreign       \* an entry of the user's own

Hosts == FileHosts \cup {Claude}

ASSUMPTION InstallerAssumption ==
  /\ Shims \in Nat \ {0}
  /\ None \notin Runtimes \cup {Foreign} \cup Installers
  /\ Foreign \notin Runtimes
  /\ Claude \notin FileHosts

VARIABLES
  version,   \* the directory of each runtime, see States
  current,   \* runtime/current.json
  shim,      \* the runtime each launcher runs
  plugin,    \* the installed plugin copy
  strays,    \* whether a backup of a plugin copy was left behind
  entry,     \* the MCP server each host has under the name brain-hub
  market,    \* which marketplace Codex knows the plugin from
  codex,     \* the plugin version Codex has
  lock,      \* who holds runtime/install.lock
  pc,        \* where each installer is
  source,    \* the runtime it installs
  next,      \* the launcher it writes next
  todo,      \* the hosts it has not looked at yet
  host,      \* the host it is at
  seen,      \* the entry that it found there
  backup,    \* the plugin copy it moved out of the way
  result,    \* what it reports of Codex
  left,      \* the hosts of which it reports an entry of somebody else
  suspect    \* the runtimes that were damaged or failed a test after they were complete

disk == <<version, current, shim>>
copies == <<plugin, strays>>
agents == <<entry, market, codex>>
locals == <<source, next, todo, host, seen, backup, result, left>>
vars == <<version, current, shim, plugin, strays, entry, market, codex, lock, pc,
          source, next, todo, host, seen, backup, result, left, suspect>>

\* No directory; one without a usable manifest; a complete runtime that works; one
\* with a manifest that fails the smoke tests.
States == {"absent", "partial", "ready", "worn"}

Init ==
  /\ version = [r \in Runtimes |-> "absent"]
  /\ current = None
  /\ shim = [c \in 1..Shims |-> None]
  /\ plugin = None /\ strays = FALSE
  /\ entry \in [Hosts -> {None, Foreign}]
  /\ market \in {"none", "other"} /\ codex = None
  /\ lock = None
  /\ pc = [i \in Installers |-> "idle"]
  /\ source = [i \in Installers |-> None]
  /\ next = [i \in Installers |-> 1]
  /\ todo = [i \in Installers |-> {}]
  /\ host = [i \in Installers |-> None]
  /\ seen = [i \in Installers |-> None]
  /\ backup = [i \in Installers |-> None]
  /\ result = [i \in Installers |-> FALSE]
  /\ left = [i \in Installers |-> {}]
  /\ suspect = {}

Goto(i, step) == pc' = [pc EXCEPT ![i] = step]

\* The installation is over: a failure is reported, or everything was done.
Ends(i) ==
  /\ Goto(i, "idle")
  /\ lock' = IF lock = i THEN None ELSE lock
  /\ source' = [source EXCEPT ![i] = None]
  /\ next' = [next EXCEPT ![i] = 1]
  /\ todo' = [todo EXCEPT ![i] = {}]
  /\ host' = [host EXCEPT ![i] = None]
  /\ seen' = [seen EXCEPT ![i] = None]
  /\ backup' = [backup EXCEPT ![i] = None]
  /\ result' = [result EXCEPT ![i] = FALSE]
  /\ left' = [left EXCEPT ![i] = {}]

-----------------------------------------------------------------------------
(* The runtime: installation_lock, install_runtime.                        *)

\* Mutant: nothing keeps a second installer out.
BeginUnlocked(i, r) ==
  /\ pc[i] = "idle"
  /\ lock' = i
  /\ source' = [source EXCEPT ![i] = r]
  /\ Goto(i, "inspect")
  /\ UNCHANGED <<disk, copies, agents, next, todo, host, seen, backup, result, left, suspect>>

\* The lock is tried once; when it is taken, the command fails and changes nothing.
Begin(i, r) ==
  /\ pc[i] = "idle" /\ lock = None
  /\ lock' = i
  /\ source' = [source EXCEPT ![i] = r]
  /\ Goto(i, "inspect")
  /\ UNCHANGED <<disk, copies, agents, next, todo, host, seen, backup, result, left, suspect>>

Inspect(i) ==
  /\ pc[i] = "inspect"
  /\ \/ version[source[i]] = "absent" /\ Goto(i, "create")
     \/ version[source[i]] = "partial" /\ Goto(i, "quarantine")
     \/ version[source[i]] \in {"ready", "worn"} /\ Goto(i, "smoke")
  /\ UNCHANGED <<disk, copies, agents, lock, locals, suspect>>

\* Mutant: a manifest is enough.
ReuseUntested(i) ==
  /\ pc[i] = "smoke"
  /\ Goto(i, "point")
  /\ UNCHANGED <<disk, copies, agents, lock, locals, suspect>>

\* The smoke tests of an existing runtime pass.
Reuse(i) ==
  /\ pc[i] = "smoke" /\ version[source[i]] = "ready"
  /\ Goto(i, "point")
  /\ UNCHANGED <<disk, copies, agents, lock, locals, suspect>>

\* They fail, of a runtime that works too (memory, a full disk, a virus scanner).
SmokeFails(i) ==
  /\ pc[i] = "smoke"
  /\ suspect' = suspect \cup {source[i]}
  /\ Goto(i, "quarantine")
  /\ UNCHANGED <<disk, copies, agents, lock, locals>>

Quarantine(i) ==
  /\ pc[i] = "quarantine"
  /\ version' = [version EXCEPT ![source[i]] = "absent"]
  /\ Goto(i, "create")
  /\ UNCHANGED <<current, shim, copies, agents, lock, locals, suspect>>

\* Mutant: older runtimes make room for the new one.
CreatePrunes(i) ==
  /\ pc[i] = "create"
  /\ version' = [r \in Runtimes |-> IF r = source[i] THEN "partial" ELSE "absent"]
  /\ Goto(i, "build")
  /\ UNCHANGED <<current, shim, copies, agents, lock, locals, suspect>>

Create(i) ==
  /\ pc[i] = "create"
  /\ version' = [version EXCEPT ![source[i]] = "partial"]
  /\ Goto(i, "build")
  /\ UNCHANGED <<current, shim, copies, agents, lock, locals, suspect>>

\* The environment, the packages and the smoke tests of the new runtime.
Build(i) ==
  /\ pc[i] = "build"
  /\ Goto(i, "manifest")
  /\ UNCHANGED <<disk, copies, agents, lock, locals, suspect>>

WriteManifest(i) ==
  /\ pc[i] = "manifest"
  /\ version' = [version EXCEPT ![source[i]] = "ready"]
  /\ suspect' = suspect \ {source[i]}
  /\ Goto(i, "point")
  /\ UNCHANGED <<current, shim, copies, agents, lock, locals>>

\* One of these fails or is interrupted.
BuildFails(i) ==
  /\ pc[i] \in {"build", "manifest"}
  /\ Goto(i, "remove")
  /\ UNCHANGED <<disk, copies, agents, lock, locals, suspect>>

\* The new directory is removed, as far as that is possible; its manifest may stay, if
\* the interrupt came right after that was written.
RemoveVersion(i) ==
  /\ pc[i] = "remove"
  /\ \E rest \in {"absent", "partial", "worn"} :
       version' = [version EXCEPT ![source[i]] = rest]
  /\ Ends(i)
  /\ UNCHANGED <<current, shim, copies, agents, suspect>>

-----------------------------------------------------------------------------
(* The pointer and the launchers: write_current_runtime, write_shims.      *)

\* The manifest is read again; a runtime without one is not pointed at.
Point(i) ==
  /\ pc[i] = "point" /\ version[source[i]] \in {"ready", "worn"}
  /\ current' = source[i]
  /\ Goto(i, "shims")
  /\ UNCHANGED <<version, shim, copies, agents, lock, locals, suspect>>

\* After the last launcher the PATH block of the profile is renewed.
WriteShim(i) ==
  /\ pc[i] = "shims"
  /\ shim' = [shim EXCEPT ![next[i]] = source[i]]
  /\ next' = [next EXCEPT ![i] = IF next[i] = Shims THEN 1 ELSE next[i] + 1]
  /\ Goto(i, IF next[i] = Shims THEN "plugin" ELSE "shims")
  /\ UNCHANGED <<version, current, copies, agents, lock, source, todo, host, seen, backup,
                 result, left, suspect>>

\* --no-plugin: that was all.
SkipPlugin(i) ==
  /\ pc[i] = "plugin"
  /\ Ends(i)
  /\ UNCHANGED <<disk, copies, agents, suspect>>

\* Any of the steps that only stop the installation when they fail.
Fails(i) ==
  /\ pc[i] \in {"quarantine", "create", "point", "shims", "plugin", "retire"}
  /\ Ends(i)
  /\ UNCHANGED <<disk, copies, agents, suspect>>

-----------------------------------------------------------------------------
(* The plugin copy: install_plugin_copy.                                   *)

\* The new copy is staged next to the installed one and configured.
Stage(i) ==
  /\ pc[i] = "plugin"
  /\ Goto(i, IF plugin = None THEN "activate" ELSE "retire")
  /\ UNCHANGED <<disk, copies, agents, lock, locals, suspect>>

\* The installed copy becomes the backup; that it did is noted in the next step only.
Retire(i) ==
  /\ pc[i] = "retire"
  /\ plugin' = None
  /\ backup' = [backup EXCEPT ![i] = plugin]
  /\ Goto(i, "retired")
  /\ UNCHANGED <<disk, strays, agents, lock, source, next, todo, host, seen, result, left, suspect>>

NoteRetired(i) ==
  /\ pc[i] = "retired"
  /\ Goto(i, "activate")
  /\ UNCHANGED <<disk, copies, agents, lock, locals, suspect>>

\* Interrupted before it was noted: the backup is taken for an empty directory.
DropsBackup(i) ==
  /\ pc[i] = "retired"
  /\ Ends(i)
  /\ UNCHANGED <<disk, copies, agents, suspect>>

Activate(i) ==
  /\ pc[i] = "activate"
  /\ plugin' = source[i]
  /\ Goto(i, "activated")
  /\ UNCHANGED <<disk, strays, agents, lock, locals, suspect>>

\* The backup is removed, as far as that is possible.
RemoveBackup(i) ==
  /\ pc[i] = "activated"
  /\ strays' \in {strays, strays \/ backup[i] # None}
  /\ backup' = [backup EXCEPT ![i] = None]
  /\ Goto(i, "codex")
  /\ UNCHANGED <<disk, plugin, agents, lock, source, next, todo, host, seen, result, left, suspect>>

\* Interrupted before that: a backup cannot replace the new copy and stays.
KeepsBoth(i) ==
  /\ pc[i] = "activated"
  /\ strays' = (strays \/ backup[i] # None)
  /\ Ends(i)
  /\ UNCHANGED <<disk, plugin, agents, suspect>>

\* Mutant: the backup is removed whether or not it could be restored.
ActivateFailsAlways(i) ==
  /\ pc[i] = "activate"
  /\ plugin' \in {None, backup[i]}
  /\ Ends(i)
  /\ UNCHANGED <<disk, strays, agents, suspect>>

\* The new copy cannot be moved into place, or the user interrupts: the backup is
\* moved back, or stays where it is when that fails too.
ActivateFails(i) ==
  /\ pc[i] = "activate"
  /\ \/ plugin' = backup[i] /\ UNCHANGED strays
     \/ strays' = (strays \/ backup[i] # None) /\ UNCHANGED plugin
  /\ Ends(i)
  /\ UNCHANGED <<disk, agents, suspect>>

-----------------------------------------------------------------------------
(* Codex: register_codex_plugin.  No failure stops the installation.       *)

\* There is no Codex, another marketplace has the plugin, or a call fails.
SkipCodex(i) ==
  /\ pc[i] \in {"codex", "codexAdd", "codexVerify"}
  /\ Goto(i, "claude") /\ todo' = [todo EXCEPT ![i] = Hosts]
  /\ UNCHANGED <<disk, copies, agents, lock, source, next, host, seen, backup, result, left, suspect>>

\* Another marketplace is seen only if Codex lists its marketplaces.
AddMarketplace(i) ==
  /\ pc[i] = "codex"
  /\ market' = "ours"
  /\ Goto(i, "codexAdd")
  /\ UNCHANGED <<disk, copies, entry, codex, lock, locals, suspect>>

\* Codex installs the copy, or says that it has the plugin and keeps what it has.
AddPlugin(i) ==
  /\ pc[i] = "codexAdd"
  /\ codex' \in {plugin, codex}
  /\ Goto(i, "codexVerify")
  /\ UNCHANGED <<disk, copies, entry, market, lock, locals, suspect>>

\* Mutant: "already installed" is taken for success.
VerifyNothing(i) ==
  /\ pc[i] = "codexVerify"
  /\ result' = [result EXCEPT ![i] = TRUE]
  /\ Goto(i, "claude") /\ todo' = [todo EXCEPT ![i] = Hosts]
  /\ UNCHANGED <<disk, copies, agents, lock, source, next, host, seen, backup, left, suspect>>

VerifyPlugin(i) ==
  /\ pc[i] = "codexVerify"
  /\ result' = [result EXCEPT ![i] = codex = plugin]
  /\ Goto(i, "claude") /\ todo' = [todo EXCEPT ![i] = Hosts]
  /\ UNCHANGED <<disk, copies, agents, lock, source, next, host, seen, backup, left, suspect>>

-----------------------------------------------------------------------------
(* The agents: register_claude_mcp, install_json_mcp_config.               *)

\* Entries that _managed_mcp_executable may take for the installer's own, and for
\* somebody else's: the executable that they name must exist.
MayBeOwn(e)   == e \in Runtimes /\ version[e] # "absent"
MayBeOther(e) == e = Foreign \/ (e \in Runtimes /\ version[e] # "ready")

\* Mutant: whatever the host has is replaced.
OfInterestAny(e, r) == e # r

\* An entry that is added or brought up to date: none, or an older one of its own.
OfInterest(e, r) == e # r /\ (e = None \/ MayBeOwn(e))

\* The installer looks at host h, and goes on at step after unless it leaves h alone.
Looks(i, h, after) ==
  /\ host' = [host EXCEPT ![i] = h]
  /\ seen' = [seen EXCEPT ![i] = entry[h]]
  /\ todo' = [todo EXCEPT ![i] = @ \ {h}]
  /\ \/ OfInterest(entry[h], source[i]) /\ Goto(i, after) /\ UNCHANGED left
     \/ /\ entry[h] # source[i] /\ MayBeOther(entry[h])
        /\ left' = [left EXCEPT ![i] = @ \cup {h}] /\ Goto(i, "files")
     \/ entry[h] = source[i] /\ Goto(i, "files") /\ UNCHANGED left
  /\ UNCHANGED <<disk, copies, agents, lock, source, next, backup, result, suspect>>

\* The command is asked for the entry, and an older one is removed before the new one
\* is added.
GetClaude(i) ==
  /\ pc[i] = "claude"
  /\ Looks(i, Claude, IF entry[Claude] = None THEN "claudeAdd" ELSE "claudeRemove")

\* There is no such host, or it cannot be asked or read.
SkipClaude(i) ==
  /\ pc[i] = "claude"
  /\ todo' = [todo EXCEPT ![i] = @ \ {Claude}]
  /\ Goto(i, "files")
  /\ UNCHANGED <<disk, copies, agents, lock, source, next, host, seen, backup, result, left, suspect>>

\* What an entry of Claude may be after a call that was to make it e and that may have
\* failed, before or after it took effect.
ClaudeBecomes(e) ==
  /\ entry' \in {entry, [entry EXCEPT ![Claude] = e]}
  /\ UNCHANGED <<market, codex>>

RemoveClaude(i) ==
  /\ pc[i] = "claudeRemove"
  /\ entry' = [entry EXCEPT ![Claude] = None]
  /\ Goto(i, "claudeAdd")
  /\ UNCHANGED <<disk, copies, market, codex, lock, locals, suspect>>

RemoveClaudeFails(i) ==
  /\ pc[i] = "claudeRemove"
  /\ ClaudeBecomes(None)
  /\ Goto(i, "files")
  /\ UNCHANGED <<disk, copies, lock, locals, suspect>>

\* add-json refuses a name that exists.
AddClaude(i) ==
  /\ pc[i] = "claudeAdd" /\ entry[Claude] = None
  /\ entry' = [entry EXCEPT ![Claude] = source[i]]
  /\ Goto(i, "files")
  /\ UNCHANGED <<disk, copies, market, codex, lock, locals, suspect>>

AddClaudeFails(i) ==
  /\ pc[i] = "claudeAdd"
  /\ ClaudeBecomes(IF entry[Claude] = None THEN source[i] ELSE entry[Claude])
  /\ Goto(i, IF seen[i] = None THEN "files" ELSE "claudeBack")
  /\ UNCHANGED <<disk, copies, lock, locals, suspect>>

\* The old entry is added again; the outcome is ignored.
RestoreClaude(i) ==
  /\ pc[i] = "claudeBack"
  /\ ClaudeBecomes(IF entry[Claude] = None THEN seen[i] ELSE entry[Claude])
  /\ Goto(i, "files")
  /\ UNCHANGED <<disk, copies, lock, locals, suspect>>

ReadConfig(i, h) ==
  /\ pc[i] = "files" /\ h \in todo[i]
  /\ Looks(i, h, "write")

SkipConfig(i, h) ==
  /\ pc[i] = "files" /\ h \in todo[i]
  /\ todo' = [todo EXCEPT ![i] = @ \ {h}]
  /\ UNCHANGED <<disk, copies, agents, lock, pc, source, next, host, seen, backup, result,
                 left, suspect>>

\* The whole file is replaced, whatever was done to it since it was read.
WriteConfig(i) ==
  /\ pc[i] = "write"
  /\ \/ entry' = [entry EXCEPT ![host[i]] = source[i]]
     \/ UNCHANGED entry
  /\ Goto(i, "files")
  /\ UNCHANGED <<disk, copies, market, codex, lock, locals, suspect>>

AllRegistered(i) ==
  /\ pc[i] = "files" /\ todo[i] = {}
  /\ Goto(i, "done")
  /\ UNCHANGED <<disk, copies, agents, lock, locals, suspect>>

Finish(i) ==
  /\ pc[i] = "done"
  /\ Ends(i)
  /\ UNCHANGED <<disk, copies, agents, suspect>>

\* The process is killed: its locks and its memory are gone, its files stay.
Dies(i) ==
  /\ pc[i] # "idle"
  /\ strays' = (strays \/ backup[i] # None)
  /\ Ends(i)
  /\ UNCHANGED <<disk, plugin, agents, suspect>>

-----------------------------------------------------------------------------
(* The environment.                                                        *)

\* A complete runtime is damaged, for instance by an upgrade of the base Python,
\* while it is not being installed.
Damage(r) ==
  /\ \A i \in Installers : source[i] # r
  /\ version[r] \in {"ready", "worn"}
  /\ version' \in {[version EXCEPT ![r] = state] : state \in {"absent", "partial", "worn"}}
  /\ suspect' = suspect \cup {r}
  /\ UNCHANGED <<current, shim, copies, agents, lock, pc, locals>>

\* The user registers a server of the same name with a host, or removes the entry.
UserEdits(h) ==
  /\ entry' \in {[entry EXCEPT ![h] = e] : e \in {None, Foreign}}
  /\ UNCHANGED <<disk, copies, market, codex, lock, pc, locals, suspect>>

Steps(i) ==
  \/ \E r \in Runtimes : Begin(i, r)
  \/ Inspect(i) \/ Reuse(i) \/ SmokeFails(i) \/ Quarantine(i) \/ Create(i) \/ Build(i)
  \/ WriteManifest(i) \/ BuildFails(i) \/ RemoveVersion(i)
  \/ Point(i) \/ WriteShim(i) \/ SkipPlugin(i) \/ Fails(i)
  \/ Stage(i) \/ Retire(i) \/ NoteRetired(i) \/ DropsBackup(i) \/ Activate(i)
  \/ RemoveBackup(i) \/ KeepsBoth(i) \/ ActivateFails(i)
  \/ SkipCodex(i) \/ AddMarketplace(i) \/ AddPlugin(i) \/ VerifyPlugin(i)
  \/ GetClaude(i) \/ SkipClaude(i) \/ RemoveClaude(i) \/ RemoveClaudeFails(i)
  \/ AddClaude(i) \/ AddClaudeFails(i) \/ RestoreClaude(i)
  \/ \E h \in FileHosts : ReadConfig(i, h) \/ SkipConfig(i, h)
  \/ WriteConfig(i) \/ AllRegistered(i) \/ Finish(i) \/ Dies(i)

Next ==
  \/ \E i \in Installers : Steps(i)
  \/ \E r \in Runtimes : Damage(r)
  \/ \E h \in Hosts : UserEdits(h)

Spec == Init /\ [][Next]_vars

-----------------------------------------------------------------------------
(* Correctness                                                             *)

\* Where the pointer and the launchers are done, and where the plugin is too.
Registering ==
  {"codex", "codexAdd", "codexVerify", "claude", "claudeRemove", "claudeAdd", "claudeBack",
   "files", "write", "done"}
Launchable == {"plugin", "retire", "retired", "activate", "activated"} \cup Registering
Steppings ==
  {"idle", "inspect", "smoke", "quarantine", "create", "build", "manifest", "remove",
   "point", "shims"} \cup Launchable

\* Type invariant.
TypeOK ==
  /\ version \in [Runtimes -> States]
  /\ current \in Runtimes \cup {None}
  /\ shim \in [1..Shims -> Runtimes \cup {None}]
  /\ plugin \in Runtimes \cup {None} /\ strays \in BOOLEAN
  /\ entry \in [Hosts -> Runtimes \cup {None, Foreign}]
  /\ market \in {"none", "other", "ours"} /\ codex \in Runtimes \cup {None}
  /\ lock \in Installers \cup {None}
  /\ pc \in [Installers -> Steppings]
  /\ source \in [Installers -> Runtimes \cup {None}]
  /\ next \in [Installers -> 1..Shims]
  /\ todo \in [Installers -> SUBSET Hosts]
  /\ host \in [Installers -> Hosts \cup {None}]
  /\ seen \in [Installers -> Runtimes \cup {None, Foreign}]
  /\ backup \in [Installers -> Runtimes \cup {None}]
  /\ result \in [Installers -> BOOLEAN]
  /\ left \in [Installers -> SUBSET Hosts]
  /\ suspect \subseteq Runtimes

\* What somebody may start: the pointer (the plugin's hooks), the launchers, the MCP
\* servers that hosts start, and the Python of the plugin copy.
Named ==
  ({current, plugin} \cup {shim[c] : c \in 1..Shims} \cup {entry[h] : h \in Hosts})
    \cap Runtimes

\* README.md: the installer keeps the previous runtime available when the source
\* changes.  Wherever an installation fails, is interrupted or dies, whatever is
\* pointed at is a complete runtime, unless that runtime itself was damaged or failed
\* its own test.
NamedAreComplete == \A r \in Named : version[r] = "ready" \/ r \in suspect

\* install_checkout: one run installs one runtime.  An installation that gets past the
\* launchers has the pointer and every launcher at its own, working runtime, one that
\* gets past the plugin has the plugin copy there too, and what it reports of Codex is
\* so, whatever earlier installations that broke off have left.
OneRuntime ==
  \A i \in Installers :
    /\ pc[i] \in Launchable =>
         /\ current = source[i] /\ \A c \in 1..Shims : shim[c] = source[i]
         /\ version[source[i]] = "ready"
    /\ pc[i] \in Registering => plugin = source[i]
    /\ result[i] => codex = source[i]

HasCopy == plugin # None \/ strays \/ \E i \in Installers : backup[i] # None

\* test_plugin_staging_is_cleaned_and_previous_copy_restored_on_activation_failure: once
\* there is a plugin copy there always is one, in place or as a backup, but for an
\* interrupt between the two statements of install_plugin_copy that move the copy away
\* and note it.
CopyKept == [][HasCopy /\ ~HasCopy' => \E i \in Installers : DropsBackup(i)]_vars

\* README.md: registration does not overwrite an unrelated entry.  Only an entry that
\* the user made after the installer looked can be overwritten.
ForeignKept ==
  [][\A h \in Hosts : entry[h] = Foreign /\ entry'[h] # Foreign =>
       UserEdits(h) \/ \E i \in Installers : host[i] = h /\ seen[i] # Foreign]_vars

-----------------------------------------------------------------------------
(* The inductive invariant.                                                *)

Complete(r) == version[r] = "ready" \/ r \in suspect

Building == {"quarantine", "create", "build", "manifest", "remove"}

\* Only the holder of the lock is at work, and an idle installer remembers nothing.
WorkInv(i) ==
  /\ pc[i] # "idle" => lock = i /\ source[i] \in Runtimes
  /\ pc[i] = "idle" => source[i] = None /\ backup[i] = None /\ ~result[i]

\* What it installs is not in use while it is being built, and works from then on.
RuntimeInv(i) ==
  /\ pc[i] \in Building => version[source[i]] # "ready" \/ source[i] \in suspect
  /\ pc[i] \in {"point", "shims"} \cup Launchable => version[source[i]] = "ready"

\* The pointer and the launchers are moved one after the other.
PointerInv(i) ==
  /\ pc[i] \in {"shims"} \cup Launchable => current = source[i]
  /\ pc[i] # "shims" => next[i] = 1
  /\ pc[i] = "shims" => \A c \in 1..Shims : c < next[i] => shim[c] = source[i]
  /\ pc[i] \in Launchable => \A c \in 1..Shims : shim[c] = source[i]

PluginInv(i) ==
  /\ backup[i] # None => pc[i] \in {"retired", "activate", "activated"}
  /\ pc[i] \in {"retired", "activate"} => plugin = None
  /\ pc[i] \in {"activated"} \cup Registering => plugin = source[i]
  /\ result[i] => codex = source[i] /\ pc[i] \in Registering \ {"codex", "codexAdd", "codexVerify"}

\* No entry of the user's own is about to be replaced.
HostInv(i) ==
  /\ pc[i] \in {"claudeRemove", "claudeAdd", "claudeBack", "write"} => seen[i] # Foreign
  /\ pc[i] \in {"claudeRemove", "claudeAdd", "claudeBack"} => host[i] = Claude

\* Everything that is named, or may be named again, is complete.
NamedInv ==
  /\ current \in Runtimes => Complete(current)
  /\ plugin \in Runtimes => Complete(plugin)
  /\ \A c \in 1..Shims : shim[c] \in Runtimes => Complete(shim[c])
  /\ \A h \in Hosts : entry[h] \in Runtimes => Complete(entry[h])
  /\ \A i \in Installers : backup[i] \in Runtimes => Complete(backup[i])
  /\ \A i \in Installers : seen[i] \in Runtimes => Complete(seen[i])

InstallInv ==
  /\ TypeOK /\ NamedInv
  /\ \A i \in Installers :
       WorkInv(i) /\ RuntimeInv(i) /\ PointerInv(i) /\ PluginInv(i) /\ HostInv(i)
=============================================================================

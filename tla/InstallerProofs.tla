--------------------------- MODULE InstallerProofs ---------------------------
(***************************************************************************)
(* Theorems about Installer, for any number of installers, runtimes, hosts *)
(* and launchers.                                                          *)
(*                                                                         *)
(* The inductive invariant is InstallInv of Installer.  Its step is shown  *)
(* group by group, one step per action; TypeOK of the actions with several *)
(* outcomes comes first, with the Boolean variable strays apart from the   *)
(* rest.  What a group shows of all the installers (NamedInv) or of each   *)
(* of them (WorkInv, RuntimeInv, PointerInv, PluginInv) rests on the lock: *)
(* whoever is not idle holds it, so every other installer is idle.         *)
(***************************************************************************)
EXTENDS Installer, TLAPS

-----------------------------------------------------------------------------
(* Types.                                                                  *)

\* An installer goes to one of the steps there are.
LEMMA GotoType ==
  ASSUME InstallInv, NEW i \in Installers, NEW s \in Steppings, Goto(i, s)
  PROVE  pc' \in [Installers -> Steppings]
  BY SMT DEF InstallInv, TypeOK, Goto

LEMMA InspectType ==
  ASSUME InstallInv, NEW i \in Installers, Inspect(i)
  PROVE  TypeOK'
  <1>1. \E s \in Steppings : Goto(i, s)
    BY ZenonT(30) DEF Inspect, Steppings
  <1>2. pc' \in [Installers -> Steppings]
    BY <1>1, GotoType
  <1> QED BY <1>2, SMT DEF InstallInv, TypeOK, Inspect, disk, copies, agents, locals

LEMMA RemoveBackupType ==
  ASSUME InstallInv, NEW i \in Installers, RemoveBackup(i)
  PROVE  TypeOK'
  <1>1. strays' \in BOOLEAN
    BY ZenonT(30) DEF RemoveBackup, InstallInv, TypeOK
  <1>2. /\ pc' \in [Installers -> Steppings]
        /\ backup' \in [Installers -> Runtimes \cup {None}]
    BY SMT DEF InstallInv, TypeOK, RemoveBackup, Goto, Steppings, Launchable, Registering
  <1> QED BY <1>1, <1>2, SMT DEF InstallInv, TypeOK, RemoveBackup, disk, agents

LEMMA ActivateFailsType ==
  ASSUME InstallInv, NEW i \in Installers, ActivateFails(i)
  PROVE  TypeOK'
  <1>1. strays' \in BOOLEAN
    BY ZenonT(30) DEF ActivateFails, InstallInv, TypeOK
  <1>2. plugin' \in Runtimes \cup {None}
    BY SMT DEF ActivateFails, InstallInv, TypeOK
  <1> QED
    BY <1>1, <1>2, InstallerAssumption, SMT
       DEF InstallInv, TypeOK, ActivateFails, Ends, Goto, Steppings, disk, agents

LEMMA LooksType ==
  ASSUME InstallInv, NEW i \in Installers, NEW h \in Hosts, NEW after \in Steppings,
         Looks(i, h, after)
  PROVE  TypeOK'
  <1>1. \E s \in Steppings : Goto(i, s)
    BY ZenonT(30) DEF Looks, Steppings, Launchable, Registering
  <1>2. pc' \in [Installers -> Steppings]
    BY <1>1, GotoType
  <1>3. /\ host' \in [Installers -> Hosts \cup {None}]
        /\ seen' \in [Installers -> Runtimes \cup {None, Foreign}]
    BY SMT DEF InstallInv, TypeOK, Looks
  <1>4. todo' \in [Installers -> SUBSET Hosts]
    BY SMT DEF InstallInv, TypeOK, Looks
  <1>5. left' \in [Installers -> SUBSET Hosts]
    BY SMT DEF InstallInv, TypeOK, Looks
  <1> QED
    BY <1>2, <1>3, <1>4, <1>5, SMT DEF InstallInv, TypeOK, Looks, disk, copies, agents

LEMMA GetClaudeType ==
  ASSUME InstallInv, NEW i \in Installers, GetClaude(i)
  PROVE  TypeOK'
  <1>1. \E s \in Steppings : Looks(i, Claude, s)
    BY DEF GetClaude, Steppings, Launchable, Registering
  <1>2. Claude \in Hosts
    BY DEF Hosts
  <1> QED BY <1>1, <1>2, LooksType

-----------------------------------------------------------------------------
(* The inductive step.                                                     *)

\* Making a runtime.
LEMMA RuntimeSteps ==
  ASSUME InstallInv, NEW i \in Installers,
         \/ (\E r \in Runtimes : Begin(i, r)) \/ Inspect(i) \/ Reuse(i)
         \/ SmokeFails(i) \/ Quarantine(i) \/ Create(i) \/ Build(i)
         \/ WriteManifest(i) \/ BuildFails(i) \/ RemoveVersion(i)
  PROVE  InstallInv'
  <1> USE InstallerAssumption
          DEF InstallInv, TypeOK, NamedInv, WorkInv, RuntimeInv, PointerInv, PluginInv,
              HostInv, Complete, Building, Launchable, Registering, Steppings, States,
              Hosts, Goto, disk, copies, agents, locals
  <1>1. ASSUME NEW r \in Runtimes, Begin(i, r) PROVE InstallInv'
    BY <1>1, SMTT(30) DEF Begin
  <1>2. CASE Inspect(i)
    <2> USE <1>2 DEF Inspect
    <2>1. TypeOK'
      BY ONLY <1>2, InstallInv, InspectType
    <2>2. NamedInv'
      BY SMTT(20)
    <2>3. ASSUME NEW j \in Installers PROVE WorkInv(j)'
      BY SMTT(20)
    <2>4. ASSUME NEW j \in Installers PROVE RuntimeInv(j)'
      BY SMTT(20)
    <2>5. ASSUME NEW j \in Installers PROVE PointerInv(j)'
      BY SMTT(20)
    <2>6. ASSUME NEW j \in Installers PROVE PluginInv(j)'
      BY SMTT(20)
    <2>7. ASSUME NEW j \in Installers PROVE HostInv(j)'
      BY SMTT(20)
    <2> QED BY ONLY <2>1, <2>2, <2>3, <2>4, <2>5, <2>6, <2>7 DEF InstallInv
  <1>3. CASE Reuse(i)
    BY <1>3, SMTT(30) DEF Reuse
  <1>4. CASE SmokeFails(i)
    BY <1>4, SMTT(30) DEF SmokeFails
  <1>5. CASE Quarantine(i)
    BY <1>5, SMTT(30) DEF Quarantine
  <1>6. CASE Create(i)
    BY <1>6, SMTT(30) DEF Create
  <1>7. CASE Build(i)
    BY <1>7, SMTT(30) DEF Build
  <1>8. CASE WriteManifest(i)
    BY <1>8, SMTT(30) DEF WriteManifest
  <1>9. CASE BuildFails(i)
    BY <1>9, SMTT(30) DEF BuildFails
  <1>10. CASE RemoveVersion(i)
    BY <1>10, SMTT(30) DEF RemoveVersion, Ends
  <1> HIDE DEF InstallInv
  <1> QED BY <1>1, <1>2, <1>3, <1>4, <1>5, <1>6, <1>7, <1>8, <1>9, <1>10

\* The runtime that is pointed at works, and nothing was set aside or reported yet.
LEMMA PointStep ==
  ASSUME InstallInv, NEW i \in Installers, Point(i), NEW j \in Installers
  PROVE  RuntimeInv(j)' /\ PluginInv(j)'
  <1>1. RuntimeInv(i) /\ RuntimeInv(j) /\ PluginInv(j) /\ PluginInv(i)
    BY DEF InstallInv
  <1>2. pc \in [Installers -> Steppings]
    BY DEF InstallInv, TypeOK
  <1>3. ~result[i] /\ backup[i] = None
    BY <1>1, Zenon DEF PluginInv, Point, Registering
  <1>4. version[source[i]] = "ready"
    BY <1>1, SMT DEF RuntimeInv, Point
  <1>5. CASE j = i
    <2>1. PluginInv(j)'
      BY <1>1, <1>2, <1>3, <1>5, SMT
         DEF PluginInv, Point, Registering, Goto, agents, copies, locals
    <2>2. RuntimeInv(j)'
      BY <1>2, <1>4, <1>5, SMT DEF RuntimeInv, Building, Point, Goto, locals
    <2> QED BY <2>1, <2>2
  <1>6. CASE j # i
    <2>1. PluginInv(j)'
      BY <1>1, <1>2, <1>3, <1>6, SMT
         DEF PluginInv, Point, Registering, Goto, agents, copies, locals
    <2>2. RuntimeInv(j)'
      BY <1>1, <1>2, <1>6, SMT DEF RuntimeInv, Point, Goto, locals
    <2> QED BY <2>1, <2>2
  <1> QED BY <1>5, <1>6

\* A launcher is written: those before the next one run the new runtime.
LEMMA WriteShimPointer ==
  ASSUME InstallInv, NEW i \in Installers, WriteShim(i), NEW j \in Installers
  PROVE  PointerInv(j)'
  <1>1. pc[i] # "idle" /\ lock = i /\ (pc[j] # "idle" => j = i) /\ source[i] \in Runtimes
    BY SMT DEF InstallInv, WorkInv, WriteShim
  <1>2. /\ pc \in [Installers -> Steppings] /\ shim \in [1..Shims -> Runtimes \cup {None}]
        /\ next \in [Installers -> 1..Shims]
    BY DEF InstallInv, TypeOK
  <1>3. CASE j # i
    <2>1. pc'[j] = "idle" /\ next'[j] = next[j] /\ next[j] = 1
      BY <1>1, <1>2, <1>3, SMT DEF InstallInv, PointerInv, WriteShim, Goto
    <2> QED BY <2>1, SMT DEF PointerInv, Launchable, Registering
  <1>4. CASE j = i
    <2>1. /\ current' = source'[i] /\ source'[i] = source[i]
          /\ \A c \in 1..Shims : shim'[c] = IF c = next[i] THEN source[i] ELSE shim[c]
          /\ \A c \in 1..Shims : c < next[i] => shim[c] = source[i]
      BY <1>1, <1>2, SMT DEF InstallInv, WriteShim, PointerInv
    <2>2. CASE next[i] = Shims
      <3>1. pc'[i] = "plugin" /\ next'[i] = 1 /\ \A c \in 1..Shims : shim'[c] = source[i]
        BY <1>1, <1>2, <2>1, <2>2, InstallerAssumption, SMT DEF WriteShim, Goto
      <3> QED BY <3>1, <2>1, <1>4, SMT DEF PointerInv
    <2>3. CASE next[i] # Shims
      <3>1. pc'[i] = "shims" /\ next'[i] = next[i] + 1 /\ next[i] \in Nat
        BY <1>1, <1>2, <2>1, <2>3, InstallerAssumption, SMT DEF WriteShim, Goto
      <3>2. \A c \in 1..Shims : c < next'[i] => shim'[c] = source[i]
        BY <1>1, <1>2, <2>1, <2>3, <3>1, InstallerAssumption, SMT
      <3> QED BY <3>1, <3>2, <2>1, <1>4, SMT DEF PointerInv, Launchable, Registering
    <2> QED BY <2>2, <2>3
  <1> QED BY <1>3, <1>4

\* The pointer and the launchers.
LEMMA PointerSteps ==
  ASSUME InstallInv, NEW i \in Installers,
         \/ Point(i) \/ WriteShim(i) \/ SkipPlugin(i) \/ Fails(i)
  PROVE  InstallInv'
  <1> USE InstallerAssumption
          DEF InstallInv, TypeOK, NamedInv, WorkInv, RuntimeInv, PointerInv, PluginInv,
              HostInv, Complete, Building, Launchable, Registering, Steppings, States,
              Hosts, Goto, disk, copies, agents, locals
  <1>1. CASE Point(i)
    <2> USE <1>1 DEF Point
    <2>1. TypeOK'
      BY SMTT(20)
    <2>2. NamedInv'
      BY SMTT(20)
    <2>3. ASSUME NEW j \in Installers PROVE WorkInv(j)'
      BY SMTT(20)
    <2>4. ASSUME NEW j \in Installers PROVE RuntimeInv(j)'
      BY ONLY <1>1, InstallInv, j \in Installers, PointStep
    <2>5. ASSUME NEW j \in Installers PROVE PointerInv(j)'
      BY SMTT(20)
    <2>6. ASSUME NEW j \in Installers PROVE PluginInv(j)'
      BY ONLY <1>1, InstallInv, j \in Installers, PointStep
    <2>7. ASSUME NEW j \in Installers PROVE HostInv(j)'
      BY SMTT(20)
    <2> QED BY ONLY <2>1, <2>2, <2>3, <2>4, <2>5, <2>6, <2>7 DEF InstallInv
  <1>2. CASE WriteShim(i)
    <2> USE <1>2 DEF WriteShim
    <2>1. TypeOK'
      BY SMTT(20)
    <2>2. NamedInv'
      BY SMTT(20)
    <2>3. ASSUME NEW j \in Installers PROVE WorkInv(j)'
      BY SMTT(20)
    <2>4. ASSUME NEW j \in Installers PROVE RuntimeInv(j)'
      BY SMTT(20)
    <2>5. ASSUME NEW j \in Installers PROVE PointerInv(j)'
      BY ONLY <1>2, InstallInv, InstallerAssumption, j \in Installers, WriteShimPointer
    <2>6. ASSUME NEW j \in Installers PROVE PluginInv(j)'
      BY SMTT(20)
    <2>7. ASSUME NEW j \in Installers PROVE HostInv(j)'
      BY SMTT(20)
    <2> QED BY ONLY <2>1, <2>2, <2>3, <2>4, <2>5, <2>6, <2>7 DEF InstallInv
  <1>3. CASE SkipPlugin(i)
    BY <1>3, SMTT(30) DEF SkipPlugin, Ends
  <1>4. CASE Fails(i)
    BY <1>4, SMTT(30) DEF Fails, Ends
  <1> HIDE DEF InstallInv
  <1> QED BY <1>1, <1>2, <1>3, <1>4

\* The plugin copy.
LEMMA PluginSteps ==
  ASSUME InstallInv, NEW i \in Installers,
         \/ Stage(i) \/ Retire(i) \/ NoteRetired(i) \/ DropsBackup(i) \/ Activate(i)
         \/ RemoveBackup(i) \/ KeepsBoth(i) \/ ActivateFails(i)
  PROVE  InstallInv'
  <1> USE InstallerAssumption
          DEF InstallInv, TypeOK, NamedInv, WorkInv, RuntimeInv, PointerInv, PluginInv,
              HostInv, Complete, Building, Launchable, Registering, Steppings, States,
              Hosts, Goto, disk, copies, agents, locals
  <1>1. CASE Stage(i)
    BY <1>1, SMTT(30) DEF Stage
  <1>2. CASE Retire(i)
    BY <1>2, SMTT(30) DEF Retire
  <1>3. CASE NoteRetired(i)
    BY <1>3, SMTT(30) DEF NoteRetired
  <1>4. CASE DropsBackup(i)
    BY <1>4, SMTT(30) DEF DropsBackup, Ends
  <1>5. CASE Activate(i)
    BY <1>5, SMTT(30) DEF Activate
  <1>6. CASE RemoveBackup(i)
    <2> USE <1>6 DEF RemoveBackup
    <2>1. TypeOK'
      BY ONLY <1>6, InstallInv, RemoveBackupType
    <2>2. NamedInv'
      BY SMTT(20)
    <2>3. ASSUME NEW j \in Installers PROVE WorkInv(j)'
      BY SMTT(20)
    <2>4. ASSUME NEW j \in Installers PROVE RuntimeInv(j)'
      BY SMTT(20)
    <2>5. ASSUME NEW j \in Installers PROVE PointerInv(j)'
      BY SMTT(20)
    <2>6. ASSUME NEW j \in Installers PROVE PluginInv(j)'
      BY SMTT(20)
    <2>7. ASSUME NEW j \in Installers PROVE HostInv(j)'
      BY SMTT(20)
    <2> QED BY ONLY <2>1, <2>2, <2>3, <2>4, <2>5, <2>6, <2>7 DEF InstallInv
  <1>7. CASE KeepsBoth(i)
    BY <1>7, SMTT(30) DEF KeepsBoth, Ends
  <1>8. CASE ActivateFails(i)
    <2> USE <1>8 DEF ActivateFails, Ends
    <2>1. TypeOK'
      BY ONLY <1>8, InstallInv, ActivateFailsType
    <2>2. NamedInv'
      BY SMTT(20)
    <2>3. ASSUME NEW j \in Installers PROVE WorkInv(j)'
      BY SMTT(20)
    <2>4. ASSUME NEW j \in Installers PROVE RuntimeInv(j)'
      BY SMTT(20)
    <2>5. ASSUME NEW j \in Installers PROVE PointerInv(j)'
      BY SMTT(20)
    <2>6. ASSUME NEW j \in Installers PROVE PluginInv(j)'
      BY SMTT(20)
    <2>7. ASSUME NEW j \in Installers PROVE HostInv(j)'
      BY SMTT(20)
    <2> QED BY ONLY <2>1, <2>2, <2>3, <2>4, <2>5, <2>6, <2>7 DEF InstallInv
  <1> HIDE DEF InstallInv
  <1> QED BY <1>1, <1>2, <1>3, <1>4, <1>5, <1>6, <1>7, <1>8

\* Codex.
LEMMA CodexSteps ==
  ASSUME InstallInv, NEW i \in Installers,
         \/ SkipCodex(i) \/ AddMarketplace(i) \/ AddPlugin(i) \/ VerifyPlugin(i)
  PROVE  InstallInv'
  <1> USE InstallerAssumption
          DEF InstallInv, TypeOK, NamedInv, WorkInv, RuntimeInv, PointerInv, PluginInv,
              HostInv, Complete, Building, Launchable, Registering, Steppings, States,
              Hosts, Goto, disk, copies, agents, locals
  <1>1. CASE SkipCodex(i)
    BY <1>1, SMTT(30) DEF SkipCodex
  <1>2. CASE AddMarketplace(i)
    BY <1>2, SMTT(30) DEF AddMarketplace
  <1>3. CASE AddPlugin(i)
    BY <1>3, SMTT(30) DEF AddPlugin
  <1>4. CASE VerifyPlugin(i)
    BY <1>4, SMTT(30) DEF VerifyPlugin
  <1> HIDE DEF InstallInv
  <1> QED BY <1>1, <1>2, <1>3, <1>4

\* Claude.
LEMMA ClaudeSteps ==
  ASSUME InstallInv, NEW i \in Installers,
         \/ GetClaude(i) \/ SkipClaude(i) \/ RemoveClaude(i) \/ RemoveClaudeFails(i)
         \/ AddClaude(i) \/ AddClaudeFails(i) \/ RestoreClaude(i)
  PROVE  InstallInv'
  <1> USE InstallerAssumption
          DEF InstallInv, TypeOK, NamedInv, WorkInv, RuntimeInv, PointerInv, PluginInv,
              HostInv, Complete, Building, Launchable, Registering, Steppings, States,
              Hosts, Goto, disk, copies, agents, locals
  <1>1. CASE GetClaude(i)
    <2> USE <1>1 DEF GetClaude, Looks, OfInterest, MayBeOwn, MayBeOther
    <2>1. TypeOK'
      BY ONLY <1>1, InstallInv, GetClaudeType
    <2>2. NamedInv'
      BY SMTT(20)
    <2>3. ASSUME NEW j \in Installers PROVE WorkInv(j)'
      BY SMTT(20)
    <2>4. ASSUME NEW j \in Installers PROVE RuntimeInv(j)'
      BY SMTT(20)
    <2>5. ASSUME NEW j \in Installers PROVE PointerInv(j)'
      BY SMTT(20)
    <2>6. ASSUME NEW j \in Installers PROVE PluginInv(j)'
      BY SMTT(20)
    <2>7. ASSUME NEW j \in Installers PROVE HostInv(j)'
      BY SMTT(20)
    <2> QED BY ONLY <2>1, <2>2, <2>3, <2>4, <2>5, <2>6, <2>7 DEF InstallInv
  <1>2. CASE SkipClaude(i)
    BY <1>2, SMTT(30) DEF SkipClaude
  <1>3. CASE RemoveClaude(i)
    BY <1>3, SMTT(30) DEF RemoveClaude
  <1>4. CASE RemoveClaudeFails(i)
    BY <1>4, SMTT(30) DEF RemoveClaudeFails, ClaudeBecomes
  <1>5. CASE AddClaude(i)
    BY <1>5, SMTT(30) DEF AddClaude
  <1>6. CASE AddClaudeFails(i)
    BY <1>6, SMTT(30) DEF AddClaudeFails, ClaudeBecomes
  <1>7. CASE RestoreClaude(i)
    BY <1>7, SMTT(30) DEF RestoreClaude, ClaudeBecomes
  <1> HIDE DEF InstallInv
  <1> QED BY <1>1, <1>2, <1>3, <1>4, <1>5, <1>6, <1>7

\* What is written into a file is the runtime that was just installed.
LEMMA WriteConfigNamed ==
  ASSUME InstallInv, NEW i \in Installers, WriteConfig(i)
  PROVE  NamedInv'
  <1>1. \A h \in Hosts : entry'[h] = entry[h] \/ entry'[h] = source[i]
    BY SMT DEF InstallInv, TypeOK, WriteConfig
  <1>2. Complete(source[i])
    BY SMT DEF InstallInv, RuntimeInv, Complete, WriteConfig, Launchable, Registering
  <1> QED
    BY <1>1, <1>2, SMT DEF InstallInv, NamedInv, Complete, WriteConfig, disk, copies, locals

\* The agents with a file, and the end.
LEMMA FileSteps ==
  ASSUME InstallInv, NEW i \in Installers,
         \/ (\E h \in FileHosts : ReadConfig(i, h))
         \/ (\E h \in FileHosts : SkipConfig(i, h)) \/ WriteConfig(i)
         \/ AllRegistered(i) \/ Finish(i) \/ Dies(i)
  PROVE  InstallInv'
  <1> USE InstallerAssumption
          DEF InstallInv, TypeOK, NamedInv, WorkInv, RuntimeInv, PointerInv, PluginInv,
              HostInv, Complete, Building, Launchable, Registering, Steppings, States,
              Hosts, Goto, disk, copies, agents, locals
  <1>1. ASSUME NEW h \in FileHosts, ReadConfig(i, h) PROVE InstallInv'
    <2> USE <1>1 DEF ReadConfig, Looks, OfInterest, MayBeOwn, MayBeOther
    <2>1. TypeOK'
      <3>1. Looks(i, h, "write") /\ h \in Hosts /\ "write" \in Steppings
        BY ONLY <1>1 DEF ReadConfig, Hosts, Steppings, Launchable, Registering
      <3> QED BY ONLY <3>1, InstallInv, LooksType
    <2>2. NamedInv'
      BY SMTT(20)
    <2>3. ASSUME NEW j \in Installers PROVE WorkInv(j)'
      BY SMTT(20)
    <2>4. ASSUME NEW j \in Installers PROVE RuntimeInv(j)'
      BY SMTT(20)
    <2>5. ASSUME NEW j \in Installers PROVE PointerInv(j)'
      BY SMTT(20)
    <2>6. ASSUME NEW j \in Installers PROVE PluginInv(j)'
      BY SMTT(20)
    <2>7. ASSUME NEW j \in Installers PROVE HostInv(j)'
      BY SMTT(20)
    <2> QED BY ONLY <2>1, <2>2, <2>3, <2>4, <2>5, <2>6, <2>7 DEF InstallInv
  <1>2. ASSUME NEW h \in FileHosts, SkipConfig(i, h) PROVE InstallInv'
    BY <1>2, SMTT(30) DEF SkipConfig
  <1>3. CASE WriteConfig(i)
    <2> USE <1>3 DEF WriteConfig
    <2>1. TypeOK'
      BY SMTT(20)
    <2>2. NamedInv'
      BY ONLY <1>3, InstallInv, WriteConfigNamed
    <2>3. ASSUME NEW j \in Installers PROVE WorkInv(j)'
      BY SMTT(20)
    <2>4. ASSUME NEW j \in Installers PROVE RuntimeInv(j)'
      BY SMTT(20)
    <2>5. ASSUME NEW j \in Installers PROVE PointerInv(j)'
      BY SMTT(20)
    <2>6. ASSUME NEW j \in Installers PROVE PluginInv(j)'
      BY SMTT(20)
    <2>7. ASSUME NEW j \in Installers PROVE HostInv(j)'
      BY SMTT(20)
    <2> QED BY ONLY <2>1, <2>2, <2>3, <2>4, <2>5, <2>6, <2>7 DEF InstallInv
  <1>4. CASE AllRegistered(i)
    BY <1>4, SMTT(30) DEF AllRegistered
  <1>5. CASE Finish(i)
    BY <1>5, SMTT(30) DEF Finish, Ends
  <1>6. CASE Dies(i)
    BY <1>6, SMTT(30) DEF Dies, Ends
  <1> HIDE DEF InstallInv
  <1> QED BY <1>1, <1>2, <1>3, <1>4, <1>5, <1>6

\* The environment.
LEMMA EnvironmentSteps ==
  ASSUME InstallInv,
         \/ \E r \in Runtimes : Damage(r)
         \/ \E h \in Hosts : UserEdits(h)
         \/ UNCHANGED vars
  PROVE  InstallInv'
  <1> USE InstallerAssumption
          DEF InstallInv, TypeOK, NamedInv, WorkInv, RuntimeInv, PointerInv, PluginInv,
              HostInv, Complete, Building, Launchable, Registering, Steppings, States,
              disk, copies, agents, locals
  <1>1. ASSUME NEW r \in Runtimes, Damage(r) PROVE InstallInv'
    <2>1. \E state \in {"absent", "partial", "worn"} : version' = [version EXCEPT ![r] = state]
      BY ONLY <1>1 DEF Damage
    <2> QED BY <1>1, <2>1, SMTT(30) DEF Damage
  <1>2. ASSUME NEW h \in Hosts, UserEdits(h) PROVE InstallInv'
    <2>1. \E e \in {None, Foreign} : entry' = [entry EXCEPT ![h] = e]
      BY ONLY <1>2 DEF UserEdits
    <2> QED BY <1>2, <2>1, SMTT(30) DEF UserEdits
  <1>3. CASE UNCHANGED vars
    BY <1>3, SMTT(30) DEF vars
  <1> HIDE DEF InstallInv
  <1> QED BY <1>1, <1>2, <1>3

LEMMA InitInv == Init => InstallInv
  <1> SUFFICES ASSUME Init PROVE InstallInv
    OBVIOUS
  <1>1. TypeOK
    <2>1. strays \in BOOLEAN /\ result \in [Installers -> BOOLEAN]
      BY Zenon DEF Init
    <2>2. entry \in [Hosts -> Runtimes \cup {None, Foreign}]
      BY SMT DEF Init
    <2> QED BY <2>1, <2>2, InstallerAssumption, SMTT(30) DEF Init, TypeOK, States, Steppings
  <1>2. NamedInv
    BY InstallerAssumption, SMTT(30) DEF Init, NamedInv, Complete
  <1>3. ASSUME NEW i \in Installers
        PROVE  WorkInv(i) /\ RuntimeInv(i) /\ PointerInv(i) /\ PluginInv(i) /\ HostInv(i)
    <2>1. pc[i] = "idle" /\ source[i] = None /\ backup[i] = None /\ ~result[i] /\ next[i] = 1
      BY DEF Init
    <2> QED BY <2>1, SMT
         DEF WorkInv, RuntimeInv, PointerInv, PluginInv, HostInv, Building, Launchable,
             Registering
  <1> QED BY <1>1, <1>2, <1>3 DEF InstallInv

LEMMA InstallInvHolds == Spec => []InstallInv
  <1>1. Init => InstallInv
    BY InitInv
  <1>2. InstallInv /\ [Next]_vars => InstallInv'
    <2> SUFFICES ASSUME InstallInv, [Next]_vars PROVE InstallInv'
      OBVIOUS
    <2>1. ASSUME NEW i \in Installers, Steps(i) PROVE InstallInv'
      BY <2>1, RuntimeSteps, PointerSteps, PluginSteps, CodexSteps, ClaudeSteps, FileSteps
         DEF Steps
    <2> QED BY <2>1, EnvironmentSteps DEF Next
  <1> QED BY <1>1, <1>2, PTL DEF Spec

-----------------------------------------------------------------------------
(* The theorems.                                                           *)

\* An installation loses a copy of the plugin in no other way.
LEMMA KeptBySteps ==
  ASSUME InstallInv, NEW i \in Installers, Steps(i), HasCopy, ~HasCopy'
  PROVE  DropsBackup(i)
  <1>1. /\ backup \in [Installers -> Runtimes \cup {None}]
        /\ None \notin Runtimes /\ WorkInv(i) /\ PluginInv(i)
    BY InstallerAssumption DEF InstallInv, TypeOK
  <1>2. ASSUME pc[i] # "idle"
        PROVE  source[i] \in Runtimes /\ \A j \in Installers : j # i => backup[j] = None
    BY <1>2, InstallerAssumption, SMT DEF InstallInv, WorkInv
  <1>3. plugin' = None /\ ~strays' /\ \A j \in Installers : backup'[j] = None
    BY Zenon DEF HasCopy
  <1>4. plugin # None \/ strays \/ \E j \in Installers : backup[j] # None
    BY Zenon DEF HasCopy
  <1>5. ASSUME plugin' = plugin, strays' = strays, backup' = backup PROVE FALSE
    BY <1>3, <1>4, <1>5, Zenon
  <1>6. \/ RemoveVersion(i) \/ SkipPlugin(i) \/ Fails(i) \/ Finish(i) \/ Retire(i)
        \/ DropsBackup(i) \/ Activate(i) \/ RemoveBackup(i) \/ KeepsBoth(i)
        \/ ActivateFails(i) \/ Dies(i)
    BY <1>5, SMT
         DEF copies, Steps, Begin, Inspect, Reuse, SmokeFails, Quarantine, Create,
             Build, WriteManifest, BuildFails, Point, WriteShim, Stage, NoteRetired,
             SkipCodex, AddMarketplace, AddPlugin, VerifyPlugin, GetClaude, SkipClaude,
             RemoveClaude, RemoveClaudeFails, AddClaude, AddClaudeFails, RestoreClaude,
             ReadConfig, SkipConfig, WriteConfig, AllRegistered, Looks, locals
  <1>7. pc[i] # "idle"
    BY <1>6, SMT
       DEF RemoveVersion, SkipPlugin, Fails, Finish, Retire, DropsBackup, Activate,
           RemoveBackup, KeepsBoth, ActivateFails, Dies
  <1>8. CASE RemoveVersion(i) \/ SkipPlugin(i) \/ Fails(i) \/ Finish(i)
    <2>1. UNCHANGED copies /\ backup[i] = None
      BY <1>1, <1>8, SMT DEF RemoveVersion, SkipPlugin, Fails, Finish, PluginInv
    <2>2. \A j \in Installers : backup[j] = None
      BY <1>2, <1>7, <2>1
    <2> QED BY <1>3, <1>4, <2>1, <2>2, Zenon DEF copies
  <1>9. CASE Retire(i)
    <2>1. UNCHANGED strays /\ backup[i] = None /\ backup'[i] = plugin
      BY <1>1, <1>9, SMT DEF Retire, PluginInv
    <2> QED BY <1>2, <1>3, <1>4, <1>7, <2>1, Zenon
  <1>10. CASE Activate(i) \/ RemoveBackup(i) \/ KeepsBoth(i)
    <2>1. plugin' = source[i]
      BY <1>1, <1>10, SMT DEF Activate, RemoveBackup, KeepsBoth, PluginInv
    <2> QED BY <1>1, <1>2, <1>3, <1>7, <2>1
  <1>11. CASE ActivateFails(i)
    <2>1. plugin = None
      BY <1>1, <1>11, SMT DEF ActivateFails, PluginInv
    <2>2. CASE plugin' = backup[i] /\ UNCHANGED strays
      BY <1>2, <1>3, <1>4, <1>7, <2>1, <2>2, Zenon
    <2>3. CASE strays' = (strays \/ backup[i] # None)
      BY <1>2, <1>3, <1>4, <1>7, <2>1, <2>3, Zenon
    <2> QED BY <1>11, <2>2, <2>3, Zenon DEF ActivateFails
  <1>12. CASE Dies(i)
    <2>1. UNCHANGED plugin /\ backup[i] = None /\ ~strays
      BY <1>3, <1>12, Zenon DEF Dies
    <2> QED BY <1>2, <1>3, <1>4, <1>7, <2>1, Zenon
  <1> QED BY <1>6, <1>8, <1>9, <1>10, <1>11, <1>12

\* What an installation does to an entry of the user's own, it does to the entry it saw.
LEMMA ForeignBySteps ==
  ASSUME InstallInv, NEW i \in Installers, Steps(i), NEW h \in Hosts,
         entry[h] = Foreign, entry'[h] # Foreign
  PROVE  host[i] = h /\ seen[i] # Foreign
  <1> USE DEF disk, copies, agents, locals
  <1>1. \/ RemoveClaude(i) \/ RemoveClaudeFails(i) \/ AddClaude(i) \/ AddClaudeFails(i)
        \/ RestoreClaude(i) \/ WriteConfig(i)
      BY SMT
         DEF Steps, Begin, Inspect, Reuse, SmokeFails, Quarantine, Create, Build,
             WriteManifest, BuildFails, RemoveVersion, Point, WriteShim, SkipPlugin,
             Fails, Stage, Retire, NoteRetired, DropsBackup, Activate, RemoveBackup,
             KeepsBoth, ActivateFails, SkipCodex, AddMarketplace, AddPlugin,
             VerifyPlugin, GetClaude, SkipClaude, ReadConfig, SkipConfig, AllRegistered,
             Finish, Dies, Looks
  <1>2. entry \in [Hosts -> Runtimes \cup {None, Foreign}] /\ HostInv(i)
    BY DEF InstallInv, TypeOK
  <1>3. pc[i] \in {"claudeRemove", "claudeAdd", "claudeBack", "write"}
    BY <1>1, SMT
       DEF RemoveClaude, RemoveClaudeFails, AddClaude, AddClaudeFails, RestoreClaude,
           WriteConfig
  <1>4. CASE WriteConfig(i)
    BY <1>2, <1>3, <1>4, SMT DEF HostInv, WriteConfig
  <1>5. CASE ~WriteConfig(i)
    <2>1. h = Claude
      BY <1>1, <1>2, <1>5, SMT
         DEF RemoveClaude, RemoveClaudeFails, AddClaude, AddClaudeFails, RestoreClaude,
             ClaudeBecomes
    <2>2. pc[i] # "write"
      BY <1>1, <1>5, SMT
         DEF RemoveClaude, RemoveClaudeFails, AddClaude, AddClaudeFails, RestoreClaude
    <2> QED BY <1>2, <1>3, <2>1, <2>2, SMT DEF HostInv
  <1> QED BY <1>4, <1>5

\* Every variable of the installer keeps its type.
THEOREM TypeCorrect == Spec => []TypeOK
  <1>1. InstallInv => TypeOK
    BY DEF InstallInv
  <1> QED BY <1>1, InstallInvHolds, PTL

\* However an installation breaks off, what the pointer, the launchers, the plugin copy
\* and the agents name is a complete runtime (install_runtime, write_current_runtime,
\* write_shims, install_plugin_copy and the registrations).
THEOREM NamedStayComplete == Spec => []NamedAreComplete
  <1>1. InstallInv => NamedAreComplete
    BY SMT DEF InstallInv, NamedInv, Complete, NamedAreComplete, Named
  <1> QED BY <1>1, InstallInvHolds, PTL

\* An installation that is past a step has done what the step does.
LEMMA OneRuntimeHere ==
  ASSUME InstallInv
  PROVE  OneRuntime
  <1> SUFFICES ASSUME NEW i \in Installers
      PROVE  /\ pc[i] \in Launchable =>
                  /\ current = source[i] /\ \A c \in 1..Shims : shim[c] = source[i]
                  /\ version[source[i]] = "ready"
             /\ pc[i] \in Registering => plugin = source[i]
             /\ result[i] => codex = source[i]
    BY DEF OneRuntime
  <1>1. RuntimeInv(i) /\ PointerInv(i) /\ PluginInv(i)
    BY DEF InstallInv
  <1> QED BY <1>1 DEF RuntimeInv, PointerInv, PluginInv

\* One run of install_checkout installs one runtime everywhere, and reports of Codex what
\* is so.
THEOREM OneRuntimeEverywhere == Spec => []OneRuntime
  <1>1. InstallInv => OneRuntime
    BY OneRuntimeHere
  <1> QED BY <1>1, InstallInvHolds, PTL

\* install_plugin_copy keeps a copy of the plugin, but for an interrupt between the two
\* statements that move it away and note that.
THEOREM CopyIsKept == Spec => CopyKept
  <1>1. InstallInv /\ [Next]_vars =>
          [HasCopy /\ ~HasCopy' => \E i \in Installers : DropsBackup(i)]_vars
    <2> SUFFICES ASSUME InstallInv, Next, HasCopy, ~HasCopy'
                 PROVE  \E i \in Installers : DropsBackup(i)
      BY DEF HasCopy, vars
    <2>1. ASSUME NEW i \in Installers, Steps(i) PROVE \E j \in Installers : DropsBackup(j)
      BY <2>1, KeptBySteps
    <2>2. ASSUME NEW r \in Runtimes, Damage(r) PROVE FALSE
      BY <2>2 DEF Damage, HasCopy, copies, locals
    <2>3. ASSUME NEW h \in Hosts, UserEdits(h) PROVE FALSE
      BY <2>3 DEF UserEdits, HasCopy, copies, locals
    <2> QED BY <2>1, <2>2, <2>3 DEF Next
  <1> QED BY <1>1, InstallInvHolds, PTL DEF Spec, CopyKept

\* The installer replaces no entry of the user's own that it has seen (register_claude_mcp,
\* install_json_mcp_config).
THEOREM ForeignIsKept == Spec => ForeignKept
  <1>1. InstallInv /\ [Next]_vars =>
          [\A h \in Hosts : entry[h] = Foreign /\ entry'[h] # Foreign =>
             UserEdits(h) \/ \E i \in Installers : host[i] = h /\ seen[i] # Foreign]_vars
    <2> SUFFICES ASSUME InstallInv, Next, NEW h \in Hosts,
                        entry[h] = Foreign, entry'[h] # Foreign
                 PROVE  UserEdits(h) \/ \E i \in Installers : host[i] = h /\ seen[i] # Foreign
      BY DEF vars
    <2>1. ASSUME NEW i \in Installers, Steps(i)
          PROVE  host[i] = h /\ seen[i] # Foreign
      BY <2>1, ForeignBySteps
    <2>2. ASSUME NEW r \in Runtimes, Damage(r) PROVE FALSE
      BY <2>2 DEF Damage, agents
    <2>3. ASSUME NEW g \in Hosts, UserEdits(g) PROVE g = h
      BY <2>3, SMT DEF UserEdits, InstallInv, TypeOK
    <2> QED BY <2>1, <2>2, <2>3 DEF Next
  <1> QED BY <1>1, InstallInvHolds, PTL DEF Spec, ForeignKept
==============================================================================

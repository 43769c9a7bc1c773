----------------------- MODULE ServiceLifecycleProofs -----------------------
(***************************************************************************)
(* Theorems about ServiceLifecycle, for any shells, configurations and     *)
(* number of daemons.                                                      *)
(***************************************************************************)
EXTENDS ServiceLifecycle, TLAPS

LEMMA InitInv == Init => ServiceInv
  <1>1. Config # {} => AnyConfig \in Config
    BY DEF AnyConfig
  <1> QED
    BY <1>1, ServiceAssumption, SMT DEF Init, ServiceInv, TypeOK, DaemonTypes, ShellTypes, LockHeld,
       FileNamesHolder, NoStrayChild, Unlaunched, ReadInv, EndInv, OpInv, ChildInv, Removing, Reading,
       Ending, Steps, Alive, Ports, Locked, Daemon, None, Dead

-----------------------------------------------------------------------------
\* A command that ends, or goes on after it has ended a daemon, keeps the types.
LEMMA FinishTypes ==
  ASSUME ShellTypes, managed \subseteq Daemon,
         NEW s \in Shell, NEW d \in Daemon \cup {None}, Finish(s, d)
  PROVE  /\ pc' \in [Shell -> Steps \cup {"idle"}]
         /\ seen' \in [Shell -> Daemon \cup {None}]
         /\ target' \in [Shell -> Daemon \cup {None}]
         /\ child' \in [Shell -> Daemon \cup {None}]
         /\ managed' \subseteq Daemon
  BY DEF Finish, Goto, ShellTypes, Steps

LEMMA TerminatedTypes ==
  ASSUME ShellTypes, managed \subseteq Daemon, NEW s \in Shell, Terminated(s)
  PROVE  /\ pc' \in [Shell -> Steps \cup {"idle"}]
         /\ seen' \in [Shell -> Daemon \cup {None}]
         /\ target' \in [Shell -> Daemon \cup {None}]
         /\ child' \in [Shell -> Daemon \cup {None}]
         /\ managed' \subseteq Daemon
  <1>1. CASE op[s] = "stop"
    BY <1>1, FinishTypes DEF Terminated
  <1>2. CASE op[s] # "stop"
    BY <1>2 DEF Terminated, Goto, ShellTypes, Steps
  <1> QED BY <1>1, <1>2

-----------------------------------------------------------------------------
\* The end of a daemon gives its lock back and nobody else's.
LEMMA EndsLock ==
  ASSUME ServiceAssumption, DaemonTypes, LockHeld, NEW d \in Daemon, Ends(d),
         \A s \in Shell : pc'[s] = "probing" <=> pc[s] = "probing"
  PROVE  LockHeld'
  <1>1. \A x \in Daemon : daemon'[x] = IF x = d THEN "dead" ELSE daemon[x]
    BY DEF Ends, DaemonTypes
  <1>2. \A s \in Shell : s \notin Daemon /\ s # None
    BY SMT DEF ServiceAssumption, Daemon, None
  <1>3. None \notin Daemon
    BY SMT DEF Daemon, None
  <1>4. lock' = IF lock = d THEN None ELSE lock
    BY DEF Ends
  <1> QED BY <1>1, <1>2, <1>3, <1>4, SMTT(20) DEF LockHeld, Locked

\* A daemon that takes a signal keeps the types.
LEMMA SignalledTypes ==
  ASSUME DaemonTypes, NEW d \in Daemon, Signalled(d), UNCHANGED <<file, config, launched, managed>>
  PROVE  DaemonTypes'
  <1>1. daemon' \in [Daemon -> Alive \cup {"none", "dead"}]
    BY DEF DaemonTypes, Signalled, Ends, Alive, Ports, Locked
  <1>2. lock' \in Daemon \cup Shell \cup {None}
    BY DEF DaemonTypes, Signalled, Ends
  <1> QED BY <1>1, <1>2 DEF DaemonTypes

LEMMA Parts ==
  ASSUME DaemonTypes', ShellTypes', LockHeld', FileNamesHolder', NoStrayChild', Unlaunched',
         \A t \in Shell : ReadInv(t)', \A t \in Shell : EndInv(t)', \A t \in Shell : OpInv(t)', \A t \in Shell : ChildInv(t)'
  PROVE  ServiceInv'
  BY DEF ServiceInv, TypeOK

LEMMA DaemonInv ==
  ASSUME ServiceInv, NEW d \in Daemon, DaemonRuns(d) \/ Dies(d)
  PROVE  ServiceInv'
  <1>types. ShellTypes /\ LockHeld /\ managed \subseteq Daemon
    BY DEF ServiceInv, TypeOK, DaemonTypes
  <1> USE ServiceAssumption DEF ServiceInv, TypeOK, DaemonTypes, ShellTypes, LockHeld,
     FileNamesHolder, NoStrayChild, Unlaunched, ReadInv, EndInv, OpInv, ChildInv, Removing, Reading,
     Ending, Steps, Alive, Ports, Locked, Daemon, None, Dead, Ends
  <1>1. ASSUME BindUi(d) PROVE ServiceInv'
    BY <1>1, SMTT(60) DEF BindUi
  <1>2. ASSUME TakeLock(d) PROVE ServiceInv'
    <2> USE <1>2 DEF TakeLock
    <2>1. DaemonTypes'
      BY SMTT(20)
    <2>2. ShellTypes'
      BY SMTT(20)
    <2>3. LockHeld'
      <3>1. CASE lock = None
        <4>1. \A x \in Daemon : daemon'[x] = IF x = d THEN "locked" ELSE daemon[x]
          BY <3>1, SMTT(20)
        <4>2. lock' = d /\ pc' = pc
          BY <3>1, SMTT(20)
        <4>3. d \in Nat /\ d # None
          BY ONLY d \in Daemon, ServiceAssumption, SMT DEF ServiceAssumption, Daemon, None
        <4>4. d \notin Shell
          BY ONLY <4>3, ServiceAssumption DEF ServiceAssumption
        <4>5. None \notin Daemon \cup Shell
          BY ONLY ServiceAssumption, SMT DEF ServiceAssumption, Daemon, None
        <4> QED BY ONLY <1>types, d \in Daemon, <3>1, <4>1, <4>2, <4>3, <4>4, <4>5, SMTT(20) DEF LockHeld, Locked
      <3>2. CASE lock # None
        <4> HIDE DEF DaemonTypes, LockHeld, Ends, Locked
        <4> QED BY <3>2, EndsLock
      <3> QED BY <3>1, <3>2
    <2>4. FileNamesHolder'
      BY SMTT(20)
    <2>5. NoStrayChild'
      BY SMTT(20)
    <2>6. Unlaunched'
      BY SMTT(20)
    <2>7. ASSUME NEW t \in Shell PROVE ReadInv(t)'
      BY SMTT(20)
    <2>8. ASSUME NEW t \in Shell PROVE EndInv(t)'
      BY SMTT(20)
    <2>9. ASSUME NEW t \in Shell PROVE OpInv(t)'
      BY SMTT(20)
    <2>10. ASSUME NEW t \in Shell PROVE ChildInv(t)'
      BY SMTT(20)
    <2> QED BY ONLY <2>1, <2>2, <2>3, <2>4, <2>5, <2>6, <2>7, <2>8, <2>9, <2>10, Parts
  <1>3. ASSUME Register(d) PROVE ServiceInv'
    BY <1>3, SMTT(60) DEF Register
  <1>4. ASSUME Serve(d) PROVE ServiceInv'
    BY <1>4, SMTT(60) DEF Serve
  <1>5. ASSUME CloseUi(d) PROVE ServiceInv'
    BY <1>5, SMTT(60) DEF CloseUi
  <1>6. ASSUME Unregister(d) PROVE ServiceInv'
    BY <1>6, SMTT(60) DEF Unregister
  <1>7. ASSUME Exit(d) PROVE ServiceInv'
    <2> USE <1>7 DEF Exit
    <2>1. DaemonTypes'
      BY SMTT(20)
    <2>2. ShellTypes'
      BY SMTT(20)
    <2>3. LockHeld'
      <3> HIDE DEF DaemonTypes, LockHeld, Ends, Locked
      <3> QED BY EndsLock
    <2>4. FileNamesHolder'
      BY SMTT(20)
    <2>5. NoStrayChild'
      BY SMTT(20)
    <2>6. Unlaunched'
      BY SMTT(20)
    <2>7. ASSUME NEW t \in Shell PROVE ReadInv(t)'
      BY SMTT(20)
    <2>8. ASSUME NEW t \in Shell PROVE EndInv(t)'
      BY SMTT(20)
    <2>9. ASSUME NEW t \in Shell PROVE OpInv(t)'
      BY SMTT(20)
    <2>10. ASSUME NEW t \in Shell PROVE ChildInv(t)'
      BY SMTT(20)
    <2> QED BY ONLY <2>1, <2>2, <2>3, <2>4, <2>5, <2>6, <2>7, <2>8, <2>9, <2>10, Parts
  <1>8. ASSUME Dies(d) PROVE ServiceInv'
    BY <1>8, SMTT(60) DEF Dies
  <1> HIDE DEF ServiceInv
  <1> QED BY <1>1, <1>2, <1>3, <1>4, <1>5, <1>6, <1>7, <1>8 DEF DaemonRuns

LEMMA ShellInv ==
  ASSUME ServiceInv, NEW s \in Shell, Begin(s) \/ Runs(s)
  PROVE  ServiceInv'
  <1>types. ShellTypes /\ LockHeld /\ managed \subseteq Daemon
    BY DEF ServiceInv, TypeOK, DaemonTypes
  <1> USE ServiceAssumption DEF ServiceInv, TypeOK, DaemonTypes, ShellTypes, LockHeld,
     FileNamesHolder, NoStrayChild, Unlaunched, ReadInv, EndInv, OpInv, ChildInv, Removing, Reading,
     Ending, Steps, Alive, Ports, Locked, Daemon, None, Dead, Ends, Signalled, Gone, Goto, Read, Finish, Terminated, Healthy, daemons, call
  <1>1. ASSUME Begin(s) PROVE ServiceInv'
    BY <1>1, SMTT(60) DEF Begin
  <1>2. ASSUME ReadFile(s) PROVE ServiceInv'
    BY <1>2, SMTT(60) DEF ReadFile
  <1>3. ASSUME CheckProcess(s) PROVE ServiceInv'
    BY <1>3, SMTT(60) DEF CheckProcess
  <1>4. ASSUME ProbeHeld(s) PROVE ServiceInv'
    <2> USE <1>4 DEF ProbeHeld
    <2>1. DaemonTypes'
      BY SMTT(20)
    <2>2. ShellTypes'
      BY SMTT(20)
    <2>3. LockHeld'
      BY SMTT(20)
    <2>4. FileNamesHolder'
      BY SMTT(20)
    <2>5. NoStrayChild'
      BY SMTT(20)
    <2>6. Unlaunched'
      BY SMTT(20)
    <2>7. ASSUME NEW t \in Shell PROVE ReadInv(t)'
      BY SMTT(20)
    <2>8. ASSUME NEW t \in Shell PROVE EndInv(t)'
      BY SMTT(20)
    <2>9. ASSUME NEW t \in Shell PROVE OpInv(t)'
      BY SMTT(20)
    <2>10. ASSUME NEW t \in Shell PROVE ChildInv(t)'
      BY SMTT(20)
    <2> QED BY ONLY <2>1, <2>2, <2>3, <2>4, <2>5, <2>6, <2>7, <2>8, <2>9, <2>10, Parts
  <1>5. ASSUME ProbeFree(s) PROVE ServiceInv'
    <2> USE <1>5 DEF ProbeFree
    <2>1. DaemonTypes'
      BY SMTT(20)
    <2>2. ShellTypes'
      BY SMTT(20)
    <2>3. LockHeld'
      BY SMTT(20)
    <2>4. FileNamesHolder'
      BY SMTT(20)
    <2>5. NoStrayChild'
      BY SMTT(20)
    <2>6. Unlaunched'
      BY SMTT(20)
    <2>7. ASSUME NEW t \in Shell PROVE ReadInv(t)'
      BY SMTT(20)
    <2>8. ASSUME NEW t \in Shell PROVE EndInv(t)'
      BY SMTT(20)
    <2>9. ASSUME NEW t \in Shell PROVE OpInv(t)'
      BY SMTT(20)
    <2>10. ASSUME NEW t \in Shell PROVE ChildInv(t)'
      BY SMTT(20)
    <2> QED BY ONLY <2>1, <2>2, <2>3, <2>4, <2>5, <2>6, <2>7, <2>8, <2>9, <2>10, Parts
  <1>6. ASSUME ProbeEnd(s) PROVE ServiceInv'
    BY <1>6, SMTT(60) DEF ProbeEnd
  <1>7. ASSUME Unlink(s) PROVE ServiceInv'
    BY <1>7, SMTT(60) DEF Unlink
  <1>8. ASSUME RequestShutdown(s) PROVE ServiceInv'
    <2> USE <1>8 DEF RequestShutdown
    <2>1. DaemonTypes'
      BY SMTT(20)
    <2>2. ShellTypes'
      <3>1. pc' \in [Shell -> Steps \cup {"idle"}]
        BY SMTT(20)
      <3> QED BY ONLY <1>types, RequestShutdown(s), <3>1 DEF ShellTypes, RequestShutdown, call
    <2>3. LockHeld'
      BY SMTT(20)
    <2>4. FileNamesHolder'
      BY SMTT(20)
    <2>5. NoStrayChild'
      BY SMTT(20)
    <2>6. Unlaunched'
      BY SMTT(20)
    <2>7. ASSUME NEW t \in Shell PROVE ReadInv(t)'
      BY SMTT(20)
    <2>8. ASSUME NEW t \in Shell PROVE EndInv(t)'
      BY SMTT(20)
    <2>9. ASSUME NEW t \in Shell PROVE OpInv(t)'
      BY SMTT(20)
    <2>10. ASSUME NEW t \in Shell PROVE ChildInv(t)'
      BY SMTT(20)
    <2> QED BY ONLY <2>1, <2>2, <2>3, <2>4, <2>5, <2>6, <2>7, <2>8, <2>9, <2>10, Parts
  <1>9. ASSUME Waited(s) PROVE ServiceInv'
    BY <1>9, SMTT(60) DEF Waited
  <1>10. ASSUME SendTerm(s) PROVE ServiceInv'
    <2> USE <1>10 DEF SendTerm
    <2>1. DaemonTypes'
      <3>1. target[s] \in Daemon
        BY SMTT(20)
      <3> HIDE DEF DaemonTypes, Ends, Signalled
      <3> QED BY <3>1, SignalledTypes
    <2>2. ShellTypes'
      BY SMTT(20)
    <2>3. LockHeld'
      <3>1. target[s] \in Daemon /\ (\A t \in Shell : pc'[t] = "probing" <=> pc[t] = "probing")
        BY SMTT(20)
      <3> HIDE DEF DaemonTypes, LockHeld, Ends, Locked
      <3>2. CASE Ends(target[s])
        BY <3>1, <3>2, EndsLock
      <3>3. CASE UNCHANGED lock /\ daemon' = [daemon EXCEPT ![target[s]] = "closing"] /\ daemon[target[s]] \in {"serving", "closing"}
        BY <3>1, <3>3, SMTT(20) DEF DaemonTypes, LockHeld, Locked
      <3> QED BY <3>2, <3>3
    <2>4. FileNamesHolder'
      BY SMTT(20)
    <2>5. NoStrayChild'
      BY SMTT(20)
    <2>6. Unlaunched'
      BY SMTT(20)
    <2>7. ASSUME NEW t \in Shell PROVE ReadInv(t)'
      BY SMTT(20)
    <2>8. ASSUME NEW t \in Shell PROVE EndInv(t)'
      BY SMTT(20)
    <2>9. ASSUME NEW t \in Shell PROVE OpInv(t)'
      BY SMTT(20)
    <2>10. ASSUME NEW t \in Shell PROVE ChildInv(t)'
      BY SMTT(20)
    <2> QED BY ONLY <2>1, <2>2, <2>3, <2>4, <2>5, <2>6, <2>7, <2>8, <2>9, <2>10, Parts
  <1>11. ASSUME SendKill(s) PROVE ServiceInv'
    <2> USE <1>11 DEF SendKill
    <2>1. DaemonTypes'
      BY SMTT(20)
    <2>2. ShellTypes'
      BY SMTT(20)
    <2>3. LockHeld'
      <3>1. target[s] \in Daemon /\ (\A t \in Shell : pc'[t] = "probing" <=> pc[t] = "probing")
        BY SMTT(20)
      <3> HIDE DEF DaemonTypes, LockHeld, Ends, Locked
      <3> QED BY <3>1, EndsLock
    <2>4. FileNamesHolder'
      BY SMTT(20)
    <2>5. NoStrayChild'
      BY SMTT(20)
    <2>6. Unlaunched'
      BY SMTT(20)
    <2>7. ASSUME NEW t \in Shell PROVE ReadInv(t)'
      BY SMTT(20)
    <2>8. ASSUME NEW t \in Shell PROVE EndInv(t)'
      BY SMTT(20)
    <2>9. ASSUME NEW t \in Shell PROVE OpInv(t)'
      BY SMTT(20)
    <2>10. ASSUME NEW t \in Shell PROVE ChildInv(t)'
      BY SMTT(20)
    <2> QED BY ONLY <2>1, <2>2, <2>3, <2>4, <2>5, <2>6, <2>7, <2>8, <2>9, <2>10, Parts
  <1>12. ASSUME TerminateFails(s) PROVE ServiceInv'
    <2> USE <1>12 DEF TerminateFails
    <2>0. managed' \subseteq Daemon /\ ShellTypes'
      <3>1. CASE target[s] = child[s]
        <4>1. UNCHANGED <<child, managed, seen, target>>
          BY <3>1, Zenon
        <4>2. pc' \in [Shell -> Steps \cup {"idle"}]
          BY <3>1, SMTT(20)
        <4>3. target' \in [Shell -> Daemon \cup {None}]
          BY <4>1, <3>1, SMTT(20)
        <4>4. UNCHANGED <<op, want>> /\ back' \in [Shell -> {"ensure", "poll", "failed", "status", "stop", "delete"}]
          BY <3>1, SMTT(20)
        <4> QED BY ONLY <1>types, <4>1, <4>2, <4>3, <4>4, SMTT(20) DEF ShellTypes
      <3>2. CASE target[s] # child[s]
        <4> HIDE DEF Finish, Terminated
        <4> QED BY <3>2, FinishTypes, TerminatedTypes, SMTT(20)
      <3> QED BY <3>1, <3>2, Zenon
    <2>1. DaemonTypes'
      <3> HIDE DEF Finish, Terminated, ShellTypes
      <3> QED BY <2>0, SMTT(20)
    <2>2. ShellTypes'
      BY <2>0
    <2>3. LockHeld'
      BY SMTT(20)
    <2>4. FileNamesHolder'
      BY SMTT(20)
    <2>5. NoStrayChild'
      BY SMTT(20)
    <2>6. Unlaunched'
      BY SMTT(20)
    <2>7. ASSUME NEW t \in Shell PROVE ReadInv(t)'
      BY SMTT(20)
    <2>8. ASSUME NEW t \in Shell PROVE EndInv(t)'
      BY SMTT(20)
    <2>9. ASSUME NEW t \in Shell PROVE OpInv(t)'
      BY SMTT(20)
    <2>10. ASSUME NEW t \in Shell PROVE ChildInv(t)'
      BY SMTT(20)
    <2> QED BY ONLY <2>1, <2>2, <2>3, <2>4, <2>5, <2>6, <2>7, <2>8, <2>9, <2>10, Parts
  <1>13. ASSUME RemoveState(s) PROVE ServiceInv'
    <2> USE <1>13 DEF RemoveState
    <2>0. managed' \subseteq Daemon /\ ShellTypes'
      <3>1. CASE file = None
        <4>1. UNCHANGED <<child, managed, seen, target>>
          BY <3>1, Zenon
        <4>2. pc' \in [Shell -> Steps \cup {"idle"}]
          BY <3>1, SMTT(20)
        <4>3. target' \in [Shell -> Daemon \cup {None}]
          BY <4>1, <3>1, SMTT(20)
        <4>4. UNCHANGED <<op, want>> /\ back' \in [Shell -> {"ensure", "poll", "failed", "status", "stop", "delete"}]
          BY <3>1, SMTT(20)
        <4> QED BY ONLY <1>types, <4>1, <4>2, <4>3, <4>4, SMTT(20) DEF ShellTypes
      <3>2. CASE file # None /\ file = target[s]
        <4>1. UNCHANGED <<child, managed, seen, target>>
          BY <3>2, Zenon
        <4>2. pc' \in [Shell -> Steps \cup {"idle"}]
          BY <3>2, SMTT(20)
        <4>3. target' \in [Shell -> Daemon \cup {None}]
          BY <4>1, <3>2, SMTT(20)
        <4>4. UNCHANGED <<op, want>> /\ back' \in [Shell -> {"ensure", "poll", "failed", "status", "stop", "delete"}]
          BY <3>2, SMTT(20)
        <4> QED BY ONLY <1>types, <4>1, <4>2, <4>3, <4>4, SMTT(20) DEF ShellTypes
      <3>3. CASE file \notin {None, target[s]}
        <4> HIDE DEF Finish, Terminated
        <4> QED BY <3>3, FinishTypes, TerminatedTypes, SMTT(20)
      <3> QED BY <3>1, <3>2, <3>3, Zenon
    <2>1. DaemonTypes'
      <3> HIDE DEF Finish, Terminated, ShellTypes
      <3> QED BY <2>0, SMTT(20)
    <2>2. ShellTypes'
      BY <2>0
    <2>3. LockHeld'
      BY SMTT(20)
    <2>4. FileNamesHolder'
      BY SMTT(20)
    <2>5. NoStrayChild'
      BY SMTT(20)
    <2>6. Unlaunched'
      <3>1. (\A d \in Daemon : d > launched => daemon[d] = "none")' /\ file' <= launched'
        BY SMTT(20)
      <3>2. ASSUME NEW t \in Shell PROVE seen'[t] <= launched' /\ target'[t] <= launched' /\ child'[t] <= launched'
        <4>1. CASE t = s BY <4>1, SMTT(20)
        <4>2. CASE t # s BY <4>2, SMTT(20)
        <4> QED BY <4>1, <4>2
      <3> QED BY <3>1, <3>2
    <2>7. ASSUME NEW t \in Shell PROVE ReadInv(t)'
      BY SMTT(20)
    <2>8. ASSUME NEW t \in Shell PROVE EndInv(t)'
      BY SMTT(20)
    <2>9. ASSUME NEW t \in Shell PROVE OpInv(t)'
      BY SMTT(20)
    <2>10. ASSUME NEW t \in Shell PROVE ChildInv(t)'
      BY SMTT(20)
    <2> QED BY ONLY <2>1, <2>2, <2>3, <2>4, <2>5, <2>6, <2>7, <2>8, <2>9, <2>10, Parts
  <1>14. ASSUME DeleteState(s) PROVE ServiceInv'
    <2> USE <1>14 DEF DeleteState
    <2>0. managed' \subseteq Daemon /\ ShellTypes'
      <3> HIDE DEF Finish, Terminated
      <3> QED BY FinishTypes, TerminatedTypes, SMTT(20)
    <2>1. DaemonTypes'
      <3> HIDE DEF Finish, Terminated, ShellTypes
      <3> QED BY <2>0, SMTT(20)
    <2>2. ShellTypes'
      BY <2>0
    <2>3. LockHeld'
      BY SMTT(20)
    <2>4. FileNamesHolder'
      BY SMTT(20)
    <2>5. NoStrayChild'
      BY SMTT(20)
    <2>6. Unlaunched'
      <3>1. (\A d \in Daemon : d > launched => daemon[d] = "none")' /\ file' <= launched'
        BY SMTT(20)
      <3>2. ASSUME NEW t \in Shell PROVE seen'[t] <= launched' /\ target'[t] <= launched' /\ child'[t] <= launched'
        <4>1. CASE t = s BY <4>1, SMTT(20)
        <4>2. CASE t # s BY <4>2, SMTT(20)
        <4> QED BY <4>1, <4>2
      <3> QED BY <3>1, <3>2
    <2>7. ASSUME NEW t \in Shell PROVE ReadInv(t)'
      BY SMTT(20)
    <2>8. ASSUME NEW t \in Shell PROVE EndInv(t)'
      BY SMTT(20)
    <2>9. ASSUME NEW t \in Shell PROVE OpInv(t)'
      BY SMTT(20)
    <2>10. ASSUME NEW t \in Shell PROVE ChildInv(t)'
      BY SMTT(20)
    <2> QED BY ONLY <2>1, <2>2, <2>3, <2>4, <2>5, <2>6, <2>7, <2>8, <2>9, <2>10, Parts
  <1>15. ASSUME StatusAnswers(s) PROVE ServiceInv'
    <2> USE <1>15 DEF StatusAnswers
    <2>0. managed' \subseteq Daemon /\ ShellTypes'
      <3> HIDE DEF Finish, Terminated
      <3> QED BY FinishTypes, TerminatedTypes, SMTT(20)
    <2>1. DaemonTypes'
      <3> HIDE DEF Finish, Terminated, ShellTypes
      <3> QED BY <2>0, SMTT(20)
    <2>2. ShellTypes'
      BY <2>0
    <2>3. LockHeld'
      BY SMTT(20)
    <2>4. FileNamesHolder'
      BY SMTT(20)
    <2>5. NoStrayChild'
      BY SMTT(20)
    <2>6. Unlaunched'
      BY SMTT(20)
    <2>7. ASSUME NEW t \in Shell PROVE ReadInv(t)'
      BY SMTT(20)
    <2>8. ASSUME NEW t \in Shell PROVE EndInv(t)'
      BY SMTT(20)
    <2>9. ASSUME NEW t \in Shell PROVE OpInv(t)'
      BY SMTT(20)
    <2>10. ASSUME NEW t \in Shell PROVE ChildInv(t)'
      BY SMTT(20)
    <2> QED BY ONLY <2>1, <2>2, <2>3, <2>4, <2>5, <2>6, <2>7, <2>8, <2>9, <2>10, Parts
  <1>16. ASSUME StopAnswers(s) PROVE ServiceInv'
    <2> USE <1>16 DEF StopAnswers
    <2>0. managed' \subseteq Daemon /\ ShellTypes'
      <3>1. CASE seen[s] = None
        <4> HIDE DEF Finish, Terminated
        <4> QED BY <3>1, FinishTypes, TerminatedTypes, SMTT(20)
      <3>2. CASE seen[s] # None
        <4>1. UNCHANGED <<child, managed, seen>>
          BY <3>2, Zenon
        <4>2. pc' \in [Shell -> Steps \cup {"idle"}]
          BY <3>2, SMTT(20)
        <4>3. target' \in [Shell -> Daemon \cup {None}]
          BY <4>1, <3>2, SMTT(20)
        <4>4. UNCHANGED <<op, want>> /\ back' \in [Shell -> {"ensure", "poll", "failed", "status", "stop", "delete"}]
          BY <3>2, SMTT(20)
        <4> QED BY ONLY <1>types, <4>1, <4>2, <4>3, <4>4, SMTT(20) DEF ShellTypes
      <3> QED BY <3>1, <3>2, Zenon
    <2>1. DaemonTypes'
      <3> HIDE DEF Finish, Terminated, ShellTypes
      <3> QED BY <2>0, SMTT(20)
    <2>2. ShellTypes'
      BY <2>0
    <2>3. LockHeld'
      BY SMTT(20)
    <2>4. FileNamesHolder'
      BY SMTT(20)
    <2>5. NoStrayChild'
      BY SMTT(20)
    <2>6. Unlaunched'
      <3>1. (\A d \in Daemon : d > launched => daemon[d] = "none")' /\ file' <= launched'
        BY SMTT(20)
      <3>2. ASSUME NEW t \in Shell PROVE seen'[t] <= launched' /\ target'[t] <= launched' /\ child'[t] <= launched'
        <4>1. CASE t = s BY <4>1, SMTT(20)
        <4>2. CASE t # s BY <4>2, SMTT(20)
        <4> QED BY <4>1, <4>2
      <3> QED BY <3>1, <3>2
    <2>7. ASSUME NEW t \in Shell PROVE ReadInv(t)'
      BY SMTT(20)
    <2>8. ASSUME NEW t \in Shell PROVE EndInv(t)'
      BY SMTT(20)
    <2>9. ASSUME NEW t \in Shell PROVE OpInv(t)'
      BY SMTT(20)
    <2>10. ASSUME NEW t \in Shell PROVE ChildInv(t)'
      BY SMTT(20)
    <2> QED BY ONLY <2>1, <2>2, <2>3, <2>4, <2>5, <2>6, <2>7, <2>8, <2>9, <2>10, Parts
  <1>17. ASSUME EnsureFinds(s) PROVE ServiceInv'
    <2> USE <1>17 DEF EnsureFinds
    <2>0. managed' \subseteq Daemon /\ ShellTypes'
      <3> HIDE DEF Finish, Terminated
      <3> QED BY FinishTypes, TerminatedTypes, SMTT(20)
    <2>1. DaemonTypes'
      <3> HIDE DEF Finish, Terminated, ShellTypes
      <3> QED BY <2>0, SMTT(20)
    <2>2. ShellTypes'
      BY <2>0
    <2>3. LockHeld'
      BY SMTT(20)
    <2>4. FileNamesHolder'
      BY SMTT(20)
    <2>5. NoStrayChild'
      BY SMTT(20)
    <2>6. Unlaunched'
      BY SMTT(20)
    <2>7. ASSUME NEW t \in Shell PROVE ReadInv(t)'
      BY SMTT(20)
    <2>8. ASSUME NEW t \in Shell PROVE EndInv(t)'
      BY SMTT(20)
    <2>9. ASSUME NEW t \in Shell PROVE OpInv(t)'
      BY SMTT(20)
    <2>10. ASSUME NEW t \in Shell PROVE ChildInv(t)'
      BY SMTT(20)
    <2> QED BY ONLY <2>1, <2>2, <2>3, <2>4, <2>5, <2>6, <2>7, <2>8, <2>9, <2>10, Parts
  <1>18. ASSUME EnsureReplaces(s) PROVE ServiceInv'
    BY <1>18, SMTT(60) DEF EnsureReplaces
  <1>19. ASSUME EnsureLaunches(s) PROVE ServiceInv'
    BY <1>19, SMTT(60) DEF EnsureLaunches
  <1>20. ASSUME Launch(s) PROVE ServiceInv'
    <2> USE <1>20 DEF Launch
    <2>1. DaemonTypes'
      BY SMTT(20)
    <2>2. ShellTypes'
      BY SMTT(20)
    <2>3. LockHeld'
      BY SMTT(20)
    <2>4. FileNamesHolder'
      BY SMTT(20)
    <2>5. NoStrayChild'
      BY SMTT(20)
    <2>6. Unlaunched'
      <3>1. (\A d \in Daemon : d > launched => daemon[d] = "none")' /\ file' <= launched'
        BY SMTT(20)
      <3>2. ASSUME NEW t \in Shell PROVE seen'[t] <= launched' /\ target'[t] <= launched' /\ child'[t] <= launched'
        <4>1. CASE t = s BY <4>1, SMTT(20)
        <4>2. CASE t # s BY <4>2, SMTT(20)
        <4> QED BY <4>1, <4>2
      <3> QED BY <3>1, <3>2
    <2>7. ASSUME NEW t \in Shell PROVE ReadInv(t)'
      BY SMTT(20)
    <2>8. ASSUME NEW t \in Shell PROVE EndInv(t)'
      BY SMTT(20)
    <2>9. ASSUME NEW t \in Shell PROVE OpInv(t)'
      BY SMTT(20)
    <2>10. ASSUME NEW t \in Shell PROVE ChildInv(t)'
      <3>1. CASE t = s BY <3>1, SMTT(20)
      <3>2. CASE t # s BY <3>2, SMTT(20)
      <3> QED BY <3>1, <3>2
    <2> QED BY ONLY <2>1, <2>2, <2>3, <2>4, <2>5, <2>6, <2>7, <2>8, <2>9, <2>10, Parts
  <1>21. ASSUME LaunchFails(s) PROVE ServiceInv'
    <2> USE <1>21 DEF LaunchFails
    <2>0. managed' \subseteq Daemon /\ ShellTypes'
      <3> HIDE DEF Finish, Terminated
      <3> QED BY FinishTypes, TerminatedTypes, SMTT(20)
    <2>1. DaemonTypes'
      <3> HIDE DEF Finish, Terminated, ShellTypes
      <3> QED BY <2>0, SMTT(20)
    <2>2. ShellTypes'
      BY <2>0
    <2>3. LockHeld'
      BY SMTT(20)
    <2>4. FileNamesHolder'
      BY SMTT(20)
    <2>5. NoStrayChild'
      BY SMTT(20)
    <2>6. Unlaunched'
      BY SMTT(20)
    <2>7. ASSUME NEW t \in Shell PROVE ReadInv(t)'
      BY SMTT(20)
    <2>8. ASSUME NEW t \in Shell PROVE EndInv(t)'
      BY SMTT(20)
    <2>9. ASSUME NEW t \in Shell PROVE OpInv(t)'
      BY SMTT(20)
    <2>10. ASSUME NEW t \in Shell PROVE ChildInv(t)'
      BY SMTT(20)
    <2> QED BY ONLY <2>1, <2>2, <2>3, <2>4, <2>5, <2>6, <2>7, <2>8, <2>9, <2>10, Parts
  <1>22. ASSUME PollFinds(s) PROVE ServiceInv'
    <2> USE <1>22 DEF PollFinds
    <2>0. managed' \subseteq Daemon /\ ShellTypes'
      <3>1. CASE seen[s] = child[s]
        <4> HIDE DEF Finish, Terminated
        <4> QED BY <3>1, FinishTypes, TerminatedTypes, SMTT(20)
      <3>2. CASE seen[s] # child[s]
        <4>1. UNCHANGED <<child, managed, seen>>
          BY <3>2, Zenon
        <4>2. pc' \in [Shell -> Steps \cup {"idle"}]
          BY <3>2, SMTT(20)
        <4>3. target' \in [Shell -> Daemon \cup {None}]
          BY <4>1, <3>2, SMTT(20)
        <4>4. UNCHANGED <<op, want>> /\ back' \in [Shell -> {"ensure", "poll", "failed", "status", "stop", "delete"}]
          BY <3>2, SMTT(20)
        <4> QED BY ONLY <1>types, <4>1, <4>2, <4>3, <4>4, SMTT(20) DEF ShellTypes
      <3> QED BY <3>1, <3>2, Zenon
    <2>1. DaemonTypes'
      <3> HIDE DEF Finish, Terminated, ShellTypes
      <3> QED BY <2>0, SMTT(20)
    <2>2. ShellTypes'
      BY <2>0
    <2>3. LockHeld'
      BY SMTT(20)
    <2>4. FileNamesHolder'
      BY SMTT(20)
    <2>5. NoStrayChild'
      BY SMTT(20)
    <2>6. Unlaunched'
      <3>1. (\A d \in Daemon : d > launched => daemon[d] = "none")' /\ file' <= launched'
        BY SMTT(20)
      <3>2. ASSUME NEW t \in Shell PROVE seen'[t] <= launched' /\ target'[t] <= launched' /\ child'[t] <= launched'
        <4>1. CASE t = s BY <4>1, SMTT(20)
        <4>2. CASE t # s BY <4>2, SMTT(20)
        <4> QED BY <4>1, <4>2
      <3> QED BY <3>1, <3>2
    <2>7. ASSUME NEW t \in Shell PROVE ReadInv(t)'
      BY SMTT(20)
    <2>8. ASSUME NEW t \in Shell PROVE EndInv(t)'
      BY SMTT(20)
    <2>9. ASSUME NEW t \in Shell PROVE OpInv(t)'
      BY SMTT(20)
    <2>10. ASSUME NEW t \in Shell PROVE ChildInv(t)'
      BY SMTT(20)
    <2> QED BY ONLY <2>1, <2>2, <2>3, <2>4, <2>5, <2>6, <2>7, <2>8, <2>9, <2>10, Parts
  <1>23. ASSUME PollAgain(s) PROVE ServiceInv'
    BY <1>23, SMTT(60) DEF PollAgain
  <1>24. ASSUME PollEnds(s) PROVE ServiceInv'
    BY <1>24, SMTT(60) DEF PollEnds
  <1>25. ASSUME Failed(s) PROVE ServiceInv'
    <2> USE <1>25 DEF Failed
    <2>1. DaemonTypes'
      BY SMTT(20)
    <2>2. ShellTypes'
      <3>1. pc' \in [Shell -> Steps \cup {"idle"}]
        <4>1. PICK step \in Steps : pc' = [pc EXCEPT ![s] = step]
          BY ONLY Failed(s), SMT DEF Failed, Goto, Steps
        <4> QED BY ONLY <1>types, <4>1 DEF ShellTypes
      <3>2. target' \in [Shell -> Daemon \cup {None}]
        BY SMTT(20)
      <3> QED BY ONLY <1>types, Failed(s), <3>1, <3>2 DEF ShellTypes, Failed, call
    <2>3. LockHeld'
      BY SMTT(20)
    <2>4. FileNamesHolder'
      BY SMTT(20)
    <2>5. NoStrayChild'
      BY SMTT(20)
    <2>6. Unlaunched'
      BY SMTT(20)
    <2>7. ASSUME NEW t \in Shell PROVE ReadInv(t)'
      BY SMTT(20)
    <2>8. ASSUME NEW t \in Shell PROVE EndInv(t)'
      BY SMTT(20)
    <2>9. ASSUME NEW t \in Shell PROVE OpInv(t)'
      BY SMTT(20)
    <2>10. ASSUME NEW t \in Shell PROVE ChildInv(t)'
      BY SMTT(20)
    <2> QED BY ONLY <2>1, <2>2, <2>3, <2>4, <2>5, <2>6, <2>7, <2>8, <2>9, <2>10, Parts
  <1>26. ASSUME ReapTerm(s) PROVE ServiceInv'
    <2> USE <1>26 DEF ReapTerm
    <2>1. DaemonTypes'
      <3>1. child[s] \in Daemon
        BY SMTT(20)
      <3> HIDE DEF DaemonTypes, Ends, Signalled
      <3> QED BY <3>1, SignalledTypes
    <2>2. ShellTypes'
      BY SMTT(20)
    <2>3. LockHeld'
      <3>1. child[s] \in Daemon /\ (\A t \in Shell : pc'[t] = "probing" <=> pc[t] = "probing")
        BY SMTT(20)
      <3> HIDE DEF DaemonTypes, LockHeld, Ends, Locked
      <3>2. CASE Ends(child[s])
        BY <3>1, <3>2, EndsLock
      <3>3. CASE UNCHANGED lock /\ daemon' = [daemon EXCEPT ![child[s]] = "closing"] /\ daemon[child[s]] \in {"serving", "closing"}
        BY <3>1, <3>3, SMTT(20) DEF DaemonTypes, LockHeld, Locked
      <3> QED BY <3>2, <3>3
    <2>4. FileNamesHolder'
      BY SMTT(20)
    <2>5. NoStrayChild'
      BY SMTT(20)
    <2>6. Unlaunched'
      BY SMTT(20)
    <2>7. ASSUME NEW t \in Shell PROVE ReadInv(t)'
      BY SMTT(20)
    <2>8. ASSUME NEW t \in Shell PROVE EndInv(t)'
      BY SMTT(20)
    <2>9. ASSUME NEW t \in Shell PROVE OpInv(t)'
      BY SMTT(20)
    <2>10. ASSUME NEW t \in Shell PROVE ChildInv(t)'
      BY SMTT(20)
    <2> QED BY ONLY <2>1, <2>2, <2>3, <2>4, <2>5, <2>6, <2>7, <2>8, <2>9, <2>10, Parts
  <1>27. ASSUME Reaped(s) PROVE ServiceInv'
    <2> USE <1>27 DEF Reaped
    <2>0. managed' \subseteq Daemon /\ ShellTypes'
      <3>1. target[s] \in Daemon \cup {None} /\ child[s] \in Daemon
        BY SMTT(20)
      <3>2. (IF target[s] = child[s] THEN None ELSE target[s]) \in Daemon \cup {None}
        BY ONLY <3>1
      <3> HIDE DEF Finish, Terminated
      <3>3. PICK d \in Daemon \cup {None} : Finish(s, d)
        BY ONLY <3>2, <1>27 DEF Reaped
      <3> QED BY <3>3, FinishTypes, SMTT(20)
    <2>1. DaemonTypes'
      <3> HIDE DEF Finish, Terminated
      <3> QED BY <2>0, SMTT(20)
    <2>2. ShellTypes'
      BY <2>0
    <2>3. LockHeld'
      <3>1. child[s] \in Daemon /\ (\A t \in Shell : pc'[t] = "probing" <=> pc[t] = "probing")
        BY SMTT(20)
      <3> HIDE DEF DaemonTypes, LockHeld, Ends, Locked
      <3> QED BY <3>1, EndsLock
    <2>4. FileNamesHolder'
      BY SMTT(20)
    <2>5. NoStrayChild'
      BY SMTT(20)
    <2>6. Unlaunched'
      BY SMTT(20)
    <2>7. ASSUME NEW t \in Shell PROVE ReadInv(t)'
      BY SMTT(20)
    <2>8. ASSUME NEW t \in Shell PROVE EndInv(t)'
      BY SMTT(20)
    <2>9. ASSUME NEW t \in Shell PROVE OpInv(t)'
      BY SMTT(20)
    <2>10. ASSUME NEW t \in Shell PROVE ChildInv(t)'
      BY SMTT(20)
    <2> QED BY ONLY <2>1, <2>2, <2>3, <2>4, <2>5, <2>6, <2>7, <2>8, <2>9, <2>10, Parts
  <1> HIDE DEF ServiceInv
  <1> QED BY <1>1, <1>2, <1>3, <1>4, <1>5, <1>6, <1>7, <1>8, <1>9, <1>10, <1>11, <1>12, <1>13, <1>14, <1>15, <1>16, <1>17, <1>18, <1>19, <1>20, <1>21, <1>22, <1>23, <1>24, <1>25, <1>26, <1>27 DEF Runs, ReadsState, Terminates, Answers

LEMMA StepInv ==
  ASSUME ServiceInv, [Next]_vars
  PROVE  ServiceInv'
  <1>1. CASE UNCHANGED vars
    BY <1>1 DEF vars, ServiceInv, TypeOK, DaemonTypes, ShellTypes, LockHeld, FileNamesHolder, NoStrayChild, Unlaunched,
       ReadInv, EndInv, OpInv, ChildInv, Removing, Dead
  <1>2. CASE Next
    BY <1>2, DaemonInv, ShellInv DEF Next
  <1> QED BY <1>1, <1>2

\* The strengthened invariant holds whatever the commands and daemons do.
THEOREM Invariance == Spec => []ServiceInv
  <1> QED BY InitInv, StepInv, PTL DEF Spec

\* Types, and who holds the lock.
THEOREM TypeCorrect == Spec => []TypeOK
  <1>1. ServiceInv => TypeOK
    BY DEF ServiceInv
  <1> QED BY <1>1, Invariance, PTL

\* Under a live service the state file names that service or nothing.
THEOREM FileNamesTheHolder == Spec => []FileNamesHolder
  <1>1. ServiceInv => FileNamesHolder
    BY DEF ServiceInv
  <1> QED BY <1>1, Invariance, PTL

\* No start leaves a process behind that it has not answered with.
THEOREM NoChildStrays == Spec => []NoStrayChild
  <1>1. ServiceInv => NoStrayChild
    BY DEF ServiceInv
  <1> QED BY <1>1, Invariance, PTL

-----------------------------------------------------------------------------
\* A step of one shell or of a daemon leaves the other shells where they are.
LEMMA OthersStay ==
  ASSUME TypeOK, NEW s \in Shell, NEW t \in Shell, t # s, Begin(t) \/ Runs(t)
  PROVE  pc'[s] = pc[s]
  <1> USE DEF TypeOK, ShellTypes, Goto, Read, Finish, Terminated, Gone, Dead
  <1>1. CASE Begin(t)
    BY <1>1, SMT DEF Begin
  <1>2. CASE ReadsState(t)
    BY <1>2, SMT DEF ReadsState, ReadFile, CheckProcess, ProbeHeld, ProbeFree, ProbeEnd, Unlink
  <1>3. CASE Terminates(t)
    BY <1>3, SMT DEF Terminates, RequestShutdown, Waited, SendTerm, SendKill, TerminateFails,
       RemoveState, DeleteState
  <1>4. CASE Answers(t)
    BY <1>4, SMT DEF Answers, StatusAnswers, StopAnswers, EnsureFinds, EnsureReplaces,
       EnsureLaunches, Launch, LaunchFails, PollFinds, PollAgain, PollEnds, Failed, ReapTerm, Reaped
  <1> QED BY <1>1, <1>2, <1>3, <1>4 DEF Runs

LEMMA RemovalStep ==
  ASSUME ServiceInv, Next, NEW s \in Shell,
         pc[s] \in {"remove", "delete"}, pc'[s] \in {"idle", "launch"}
  PROVE  daemon'[target[s]] = "dead" /\ file' # target[s]
  <1>1. daemon[target[s]] = "dead" /\ target[s] # None /\ TypeOK
    BY DEF ServiceInv, EndInv, Removing, Dead
  <1>2. ASSUME NEW d \in Daemon, DaemonRuns(d) \/ Dies(d) PROVE FALSE
    BY <1>2 DEF DaemonRuns, BindUi, TakeLock, Register, Serve, CloseUi, Unregister, Exit, Dies
  <1>3. ASSUME NEW t \in Shell, t # s, Begin(t) \/ Runs(t) PROVE FALSE
    BY <1>1, <1>3, OthersStay
  <1>4. Begin(s) \/ Runs(s)
    BY <1>2, <1>3 DEF Next
  <1>5. RemoveState(s) \/ DeleteState(s)
    BY <1>4, SMT DEF Begin, Runs, ReadsState, Terminates, Answers, ReadFile, CheckProcess, ProbeHeld, ProbeFree, ProbeEnd, Unlink, RequestShutdown, Waited, SendTerm, SendKill, TerminateFails, StatusAnswers, StopAnswers, EnsureFinds, EnsureReplaces, EnsureLaunches, Launch, LaunchFails, PollFinds, PollAgain, PollEnds, Failed, ReapTerm, Reaped
  <1>6. CASE RemoveState(s)
    <2>1. file \notin {None, target[s]}
      BY <1>1, <1>6, SMT DEF RemoveState, Goto, TypeOK, ShellTypes
    <2> QED BY <1>1, <1>6, <2>1 DEF RemoveState, daemons
  <1>7. CASE DeleteState(s)
    BY <1>1, <1>7 DEF DeleteState, daemons
  <1> QED BY <1>5, <1>6, <1>7

\* A command that was told to end a service goes on only when it is gone.
THEOREM EndsWhatWasSeen == Spec => EndsWhatItSaw
  <1>1. ASSUME ServiceInv, [Next]_vars
        PROVE  [\A s \in Shell :
                  pc[s] \in {"remove", "delete"} /\ pc'[s] \in {"idle", "launch"}
                    => daemon'[target[s]] = "dead" /\ file' # target[s]]_vars
    BY <1>1, RemovalStep
  <1> QED BY <1>1, Invariance, PTL DEF Spec, EndsWhatItSaw

-----------------------------------------------------------------------------
\* Where one shell runs, no daemon becomes a second service beside the one it knows.
LEMMA DaemonAlone ==
  ASSUME ServiceInv, NEW s \in Shell, Alone(s), NEW d \in Daemon, DaemonRuns(d) \/ Dies(d)
  PROVE  Alone(s)'
  <1>1. /\ \A x \in Daemon : daemon[x] \in Locked <=> lock = x
        /\ daemon \in [Daemon -> Alive \cup {"none", "dead"}]
        /\ lock # None => \A x \in Daemon : lock = x => daemon[x] \in Locked
        /\ None \notin Daemon /\ child[s] \in Daemon \cup {None}
    BY SMT DEF ServiceInv, TypeOK, DaemonTypes, ShellTypes, LockHeld, None, Daemon
  <1> USE <1>1 DEF Alone, Grown, FileKnows, SeenKnows, TargetKnows, NoneBeside, ChildNamed, Configured, Governing, Asking, AsksNext, Removing, Serving, Launching, Reading, Ending,
     Alive, Ports, Locked, Dead, Ends, ServiceInv, EndInv
  <1>2. ASSUME BindUi(d) PROVE Alone(s)'
    BY <1>2, SMTT(60) DEF BindUi
  <1>3. ASSUME TakeLock(d) PROVE Alone(s)'
    BY <1>3, SMTT(60) DEF TakeLock
  <1>4. ASSUME Register(d) PROVE Alone(s)'
    BY <1>4, SMTT(60) DEF Register
  <1>5. ASSUME Serve(d) PROVE Alone(s)'
    BY <1>5, SMTT(60) DEF Serve
  <1>6. ASSUME CloseUi(d) PROVE Alone(s)'
    BY <1>6, SMTT(60) DEF CloseUi
  <1>7. ASSUME Unregister(d) PROVE Alone(s)'
    BY <1>7, SMTT(60) DEF Unregister
  <1>8. ASSUME Exit(d) PROVE Alone(s)'
    BY <1>8, SMTT(60) DEF Exit
  <1>9. ASSUME Dies(d) PROVE Alone(s)'
    BY <1>9, SMTT(60) DEF Dies
  <1> QED BY <1>2, <1>3, <1>4, <1>5, <1>6, <1>7, <1>8, <1>9 DEF DaemonRuns

LEMMA ShellAlone ==
  ASSUME ServiceInv, NEW s \in Shell, Alone(s), Begin(s) \/ Runs(s)
  PROVE  Alone(s)'
  <1>1. /\ \A x \in Daemon : daemon[x] \in Locked <=> lock = x
        /\ pc[s] = "probing" <=> lock = s
        /\ daemon \in [Daemon -> Alive \cup {"none", "dead"}]
        /\ None \notin Daemon /\ child[s] \in Daemon \cup {None} /\ seen[s] \in Daemon \cup {None}
        /\ target[s] \in Daemon \cup {None} /\ file \in Daemon \cup {None}
        /\ s \notin Daemon /\ launched \in 0 .. MaxDaemons
        /\ \A x \in Daemon : x > launched => daemon[x] = "none"
        /\ pc \in [Shell -> Steps \cup {"idle"}]
        /\ back[s] \in {"ensure", "poll", "failed", "status", "stop", "delete"}
        /\ DOMAIN op = Shell /\ DOMAIN want = Shell /\ DOMAIN back = Shell /\ DOMAIN seen = Shell
        /\ DOMAIN target = Shell /\ DOMAIN child = Shell
        /\ ReadInv(s) /\ EndInv(s) /\ OpInv(s) /\ ChildInv(s)
    BY ServiceAssumption, SMTT(30)
    DEF ServiceInv, TypeOK, DaemonTypes, ShellTypes, LockHeld, None, Daemon, ServiceAssumption, Unlaunched
  <1> USE <1>1 DEF Alone, Grown, FileKnows, SeenKnows, TargetKnows, NoneBeside, ChildNamed, Configured, Governing, Asking, AsksNext, Removing, Serving, Launching, Reading, Ending,
     Alive, Ports, Locked, Dead, Ends, Signalled, Gone, ReadInv, EndInv, OpInv, ChildInv, Goto, Read, Finish, Terminated, Healthy, daemons, call
  <1>2. ASSUME Begin(s) PROVE Alone(s)'
    BY <1>2, SMTT(60) DEF Begin
  <1>3. ASSUME ReadFile(s) PROVE Alone(s)'
    <2>1. /\ UNCHANGED <<file, daemon, config, op, want, back, target, child>>
          /\ pc' = [pc EXCEPT ![s] = pc'[s]]
          /\ Governing(s)' = Governing(s)
      BY <1>3 DEF ReadFile
    <2> HIDE DEF Governing
    <2>2. \A x \in Governing(s) : daemon[x] \in Serving
      BY DEF Governing
    <2>3. Grown(s)'
      BY <1>3, <2>1, <2>2, SMTT(30) DEF ReadFile
    <2>4. FileKnows(s)'
      BY <1>3, <2>1, <2>2, SMTT(30) DEF ReadFile
    <2>5. SeenKnows(s)'
      BY <1>3, <2>1, <2>2, SMTT(30) DEF ReadFile
    <2>6. TargetKnows(s)'
      BY <1>3, <2>1, <2>2, SMTT(30) DEF ReadFile
    <2>7. NoneBeside(s)'
      <3>1. CASE back[s] \in {"poll", "failed"}
        BY <1>3, <2>1, <3>1, SMTT(30) DEF ReadFile
      <3>2. CASE AsksNext(s)
        <4>1. file # None => pc'[s] = "exists"
          BY <1>3, SMTT(30) DEF ReadFile
        <4>2. file = None => Governing(s) = {}
          <5>1. \A d \in Governing(s) : file = d /\ d \in Daemon
            BY <1>3, <3>2, SMTT(30) DEF ReadFile, Governing
          <5>2. None \notin Daemon
            OBVIOUS
          <5> QED BY ONLY <5>1, <5>2, Zenon
        <4> QED BY <2>1, <3>2, <4>1, <4>2, SMTT(30)
      <3> QED BY <1>3, <3>1, <3>2, SMTT(30) DEF ReadFile
    <2>8. ChildNamed(s)'
      BY <1>3, <2>1, <2>2, SMTT(30) DEF ReadFile
    <2>9. Configured(s)'
      BY <1>3, <2>1, <2>2, SMTT(30) DEF ReadFile
    <2> QED BY <2>3, <2>4, <2>5, <2>6, <2>7, <2>8, <2>9
  <1>4. ASSUME CheckProcess(s) PROVE Alone(s)'
    <2>1. /\ UNCHANGED <<file, daemon, config, op, want, back, target, child>>
          /\ pc' = [pc EXCEPT ![s] = pc'[s]]
          /\ Governing(s)' = Governing(s)
      BY <1>4 DEF CheckProcess
    <2> HIDE DEF Governing
    <2>2. \A x \in Governing(s) : daemon[x] \in Serving
      BY DEF Governing
    <2>3. Grown(s)'
      BY <1>4, <2>1, <2>2, SMTT(30) DEF CheckProcess
    <2>4. FileKnows(s)'
      BY <1>4, <2>1, <2>2, SMTT(30) DEF CheckProcess
    <2>5. SeenKnows(s)'
      BY <1>4, <2>1, <2>2, SMTT(30) DEF CheckProcess
    <2>6. TargetKnows(s)'
      BY <1>4, <2>1, <2>2, SMTT(30) DEF CheckProcess
    <2>7. NoneBeside(s)'
      BY <1>4, <2>1, <2>2, SMTT(30) DEF CheckProcess
    <2>8. ChildNamed(s)'
      BY <1>4, <2>1, <2>2, SMTT(30) DEF CheckProcess
    <2>9. Configured(s)'
      BY <1>4, <2>1, <2>2, SMTT(30) DEF CheckProcess
    <2> QED BY <2>3, <2>4, <2>5, <2>6, <2>7, <2>8, <2>9
  <1>5. ASSUME ProbeHeld(s) PROVE Alone(s)'
    <2>1. /\ UNCHANGED <<file, daemon, config, op, want, back, target, child>>
          /\ pc' = [pc EXCEPT ![s] = pc'[s]]
          /\ Governing(s)' = Governing(s)
      BY <1>5 DEF ProbeHeld
    <2> HIDE DEF Governing
    <2>2. \A x \in Governing(s) : daemon[x] \in Serving
      BY DEF Governing
    <2>3. Grown(s)'
      BY <1>5, <2>1, <2>2, SMTT(30) DEF ProbeHeld
    <2>4. FileKnows(s)'
      BY <1>5, <2>1, <2>2, SMTT(30) DEF ProbeHeld
    <2>5. SeenKnows(s)'
      BY <1>5, <2>1, <2>2, SMTT(30) DEF ProbeHeld
    <2>6. TargetKnows(s)'
      BY <1>5, <2>1, <2>2, SMTT(30) DEF ProbeHeld
    <2>7. NoneBeside(s)'
      BY <1>5, <2>1, <2>2, SMTT(30) DEF ProbeHeld
    <2>8. ChildNamed(s)'
      BY <1>5, <2>1, <2>2, SMTT(30) DEF ProbeHeld
    <2>9. Configured(s)'
      BY <1>5, <2>1, <2>2, SMTT(30) DEF ProbeHeld
    <2> QED BY <2>3, <2>4, <2>5, <2>6, <2>7, <2>8, <2>9
  <1>6. ASSUME ProbeFree(s) PROVE Alone(s)'
    BY <1>6, SMTT(60) DEF ProbeFree
  <1>7. ASSUME ProbeEnd(s) PROVE Alone(s)'
    BY <1>7, SMTT(60) DEF ProbeEnd
  <1>8. ASSUME Unlink(s) PROVE Alone(s)'
    <2> USE <1>8 DEF Unlink
    <2>1. Grown(s)'
      BY SMTT(30)
    <2>2. FileKnows(s)'
      BY SMTT(30)
    <2>3. SeenKnows(s)'
      BY SMTT(30)
    <2>4. TargetKnows(s)'
      BY SMTT(30)
    <2>5. NoneBeside(s)'
      BY SMTT(30)
    <2>6. ChildNamed(s)'
      BY SMTT(30)
    <2>7. Configured(s)'
      BY SMTT(30)
    <2> QED BY <2>1, <2>2, <2>3, <2>4, <2>5, <2>6, <2>7
  <1>9. ASSUME RequestShutdown(s) PROVE Alone(s)'
    BY <1>9, SMTT(60) DEF RequestShutdown
  <1>10. ASSUME Waited(s) PROVE Alone(s)'
    BY <1>10, SMTT(60) DEF Waited
  <1>11. ASSUME SendTerm(s) PROVE Alone(s)'
    BY <1>11, SMTT(60) DEF SendTerm
  <1>12. ASSUME SendKill(s) PROVE Alone(s)'
    BY <1>12, SMTT(60) DEF SendKill
  <1>13. ASSUME TerminateFails(s) PROVE Alone(s)'
    <2> USE <1>13 DEF TerminateFails
    <2>1. Grown(s)'
      BY SMTT(30)
    <2>2. FileKnows(s)'
      BY SMTT(30)
    <2>3. SeenKnows(s)'
      BY SMTT(30)
    <2>4. TargetKnows(s)'
      BY SMTT(30)
    <2>5. NoneBeside(s)'
      BY SMTT(30)
    <2>6. ChildNamed(s)'
      BY SMTT(30)
    <2>7. Configured(s)'
      BY SMTT(30)
    <2> QED BY <2>1, <2>2, <2>3, <2>4, <2>5, <2>6, <2>7
  <1>14. ASSUME RemoveState(s) PROVE Alone(s)'
    <2> USE <1>14 DEF RemoveState
    <2>1. Grown(s)'
      BY SMTT(30)
    <2>2. FileKnows(s)'
      BY SMTT(30)
    <2>3. SeenKnows(s)'
      BY SMTT(30)
    <2>4. TargetKnows(s)'
      BY SMTT(30)
    <2>5. NoneBeside(s)'
      BY SMTT(30)
    <2>6. ChildNamed(s)'
      BY SMTT(30)
    <2>7. Configured(s)'
      BY SMTT(30)
    <2> QED BY <2>1, <2>2, <2>3, <2>4, <2>5, <2>6, <2>7
  <1>15. ASSUME DeleteState(s) PROVE Alone(s)'
    <2> USE <1>15 DEF DeleteState
    <2>1. Grown(s)'
      BY SMTT(30)
    <2>2. FileKnows(s)'
      BY SMTT(30)
    <2>3. SeenKnows(s)'
      BY SMTT(30)
    <2>4. TargetKnows(s)'
      BY SMTT(30)
    <2>5. NoneBeside(s)'
      BY SMTT(30)
    <2>6. ChildNamed(s)'
      BY SMTT(30)
    <2>7. Configured(s)'
      BY SMTT(30)
    <2> QED BY <2>1, <2>2, <2>3, <2>4, <2>5, <2>6, <2>7
  <1>16. ASSUME StatusAnswers(s) PROVE Alone(s)'
    <2> USE <1>16 DEF StatusAnswers
    <2>1. Grown(s)'
      BY SMTT(30)
    <2>2. FileKnows(s)'
      BY SMTT(30)
    <2>3. SeenKnows(s)'
      BY SMTT(30)
    <2>4. TargetKnows(s)'
      BY SMTT(30)
    <2>5. NoneBeside(s)'
      BY SMTT(30)
    <2>6. ChildNamed(s)'
      BY SMTT(30)
    <2>7. Configured(s)'
      BY SMTT(30)
    <2> QED BY <2>1, <2>2, <2>3, <2>4, <2>5, <2>6, <2>7
  <1>17. ASSUME StopAnswers(s) PROVE Alone(s)'
    <2> USE <1>17 DEF StopAnswers
    <2>1. Grown(s)'
      BY SMTT(30)
    <2>2. FileKnows(s)'
      BY SMTT(30)
    <2>3. SeenKnows(s)'
      BY SMTT(30)
    <2>4. TargetKnows(s)'
      BY SMTT(30)
    <2>5. NoneBeside(s)'
      BY SMTT(30)
    <2>6. ChildNamed(s)'
      BY SMTT(30)
    <2>7. Configured(s)'
      BY SMTT(30)
    <2> QED BY <2>1, <2>2, <2>3, <2>4, <2>5, <2>6, <2>7
  <1>18. ASSUME EnsureFinds(s) PROVE Alone(s)'
    <2> USE <1>18 DEF EnsureFinds
    <2>1. Grown(s)'
      BY SMTT(30)
    <2>2. FileKnows(s)'
      BY SMTT(30)
    <2>3. SeenKnows(s)'
      BY SMTT(30)
    <2>4. TargetKnows(s)'
      BY SMTT(30)
    <2>5. NoneBeside(s)'
      BY SMTT(30)
    <2>6. ChildNamed(s)'
      BY SMTT(30)
    <2>7. Configured(s)'
      BY SMTT(30)
    <2> QED BY <2>1, <2>2, <2>3, <2>4, <2>5, <2>6, <2>7
  <1>19. ASSUME EnsureReplaces(s) PROVE Alone(s)'
    BY <1>19, SMTT(60) DEF EnsureReplaces
  <1>20. ASSUME EnsureLaunches(s) PROVE Alone(s)'
    BY <1>20, SMTT(60) DEF EnsureLaunches
  <1>21. ASSUME Launch(s) PROVE Alone(s)'
    BY <1>21, SMTT(60) DEF Launch
  <1>22. ASSUME LaunchFails(s) PROVE Alone(s)'
    BY <1>22, SMTT(60) DEF LaunchFails
  <1>23. ASSUME PollFinds(s) PROVE Alone(s)'
    <2> USE <1>23 DEF PollFinds
    <2>1. Grown(s)'
      BY SMTT(30)
    <2>2. FileKnows(s)'
      BY SMTT(30)
    <2>3. SeenKnows(s)'
      BY SMTT(30)
    <2>4. TargetKnows(s)'
      BY SMTT(30)
    <2>5. NoneBeside(s)'
      BY SMTT(30)
    <2>6. ChildNamed(s)'
      BY SMTT(30)
    <2>7. Configured(s)'
      BY SMTT(30)
    <2> QED BY <2>1, <2>2, <2>3, <2>4, <2>5, <2>6, <2>7
  <1>24. ASSUME PollAgain(s) PROVE Alone(s)'
    <2> USE <1>24 DEF PollAgain
    <2>1. Grown(s)'
      BY SMTT(30)
    <2>2. FileKnows(s)'
      BY SMTT(30)
    <2>3. SeenKnows(s)'
      BY SMTT(30)
    <2>4. TargetKnows(s)'
      BY SMTT(30)
    <2>5. NoneBeside(s)'
      BY SMTT(30)
    <2>6. ChildNamed(s)'
      BY SMTT(30)
    <2>7. Configured(s)'
      BY SMTT(30)
    <2> QED BY <2>1, <2>2, <2>3, <2>4, <2>5, <2>6, <2>7
  <1>25. ASSUME PollEnds(s) PROVE Alone(s)'
    <2> USE <1>25 DEF PollEnds
    <2>1. Grown(s)'
      BY SMTT(30)
    <2>2. FileKnows(s)'
      BY SMTT(30)
    <2>3. SeenKnows(s)'
      BY SMTT(30)
    <2>4. TargetKnows(s)'
      BY SMTT(30)
    <2>5. NoneBeside(s)'
      BY SMTT(30)
    <2>6. ChildNamed(s)'
      BY SMTT(30)
    <2>7. Configured(s)'
      BY SMTT(30)
    <2> QED BY <2>1, <2>2, <2>3, <2>4, <2>5, <2>6, <2>7
  <1>26. ASSUME Failed(s) PROVE Alone(s)'
    <2> USE <1>26 DEF Failed
    <2>1. Grown(s)'
      BY SMTT(30)
    <2>2. FileKnows(s)'
      BY SMTT(30)
    <2>3. SeenKnows(s)'
      BY SMTT(30)
    <2>4. TargetKnows(s)'
      BY SMTT(30)
    <2>5. NoneBeside(s)'
      BY SMTT(30)
    <2>6. ChildNamed(s)'
      BY SMTT(30)
    <2>7. Configured(s)'
      BY SMTT(30)
    <2> QED BY <2>1, <2>2, <2>3, <2>4, <2>5, <2>6, <2>7
  <1>27. ASSUME ReapTerm(s) PROVE Alone(s)'
    <2> USE <1>27 DEF ReapTerm
    <2>1. Grown(s)'
      BY SMTT(30)
    <2>2. FileKnows(s)'
      BY SMTT(30)
    <2>3. SeenKnows(s)'
      BY SMTT(30)
    <2>4. TargetKnows(s)'
      BY SMTT(30)
    <2>5. NoneBeside(s)'
      BY SMTT(30)
    <2>6. ChildNamed(s)'
      BY SMTT(30)
    <2>7. Configured(s)'
      BY SMTT(30)
    <2> QED BY <2>1, <2>2, <2>3, <2>4, <2>5, <2>6, <2>7
  <1>28. ASSUME Reaped(s) PROVE Alone(s)'
    <2> USE <1>28 DEF Reaped
    <2>1. Grown(s)'
      BY SMTT(30)
    <2>2. FileKnows(s)'
      BY SMTT(30)
    <2>3. SeenKnows(s)'
      BY SMTT(30)
    <2>4. TargetKnows(s)'
      BY SMTT(30)
    <2>5. NoneBeside(s)'
      BY SMTT(30)
    <2>6. ChildNamed(s)'
      BY SMTT(30)
    <2>7. Configured(s)'
      BY SMTT(30)
    <2> QED BY <2>1, <2>2, <2>3, <2>4, <2>5, <2>6, <2>7
  <1> HIDE DEF Alone
  <1> QED BY <1>2, <1>3, <1>4, <1>5, <1>6, <1>7, <1>8, <1>9, <1>10, <1>11, <1>12, <1>13, <1>14, <1>15, <1>16, <1>17, <1>18, <1>19, <1>20, <1>21, <1>22, <1>23, <1>24, <1>25, <1>26, <1>27, <1>28 DEF Runs, ReadsState, Terminates, Answers

LEMMA InitAlone == ASSUME Init, NEW s \in Shell PROVE Alone(s)
  BY SMTT(30) DEF Init, Alone, Grown, FileKnows, SeenKnows, TargetKnows, NoneBeside, ChildNamed, Configured,
     Governing, Asking, AsksNext, Serving, Launching, Reading, Ending, Removing, Alive, Ports, Locked, None

\* A shell that has run a command has always run one, and one that runs is no other than
\* the sole user.
LEMMA SoleStep ==
  ASSUME ServiceInv, NEW s \in Shell, NEW t \in Shell, Begin(t) \/ Runs(t), Sole(s)'
  PROVE  Sole(s) /\ t = s
  <1> USE DEF ServiceInv, TypeOK, ShellTypes, Goto, Read, Finish, Terminated
  <1>1. op[t] # "none" \/ Begin(t)
    BY SMT DEF OpInv, Runs, ReadsState, ReadFile, CheckProcess, ProbeHeld, ProbeFree, ProbeEnd, Unlink,
       Terminates, RequestShutdown, Waited, SendTerm, SendKill, TerminateFails, RemoveState, DeleteState,
       Answers, StatusAnswers, StopAnswers, EnsureFinds, EnsureReplaces, EnsureLaunches, Launch,
       LaunchFails, PollFinds, PollAgain, PollEnds, Failed, ReapTerm, Reaped
  <1>2. op' = op \/ Begin(t)
    BY DEF Runs, ReadsState, ReadFile, CheckProcess, ProbeHeld, ProbeFree, ProbeEnd, Unlink,
       Terminates, RequestShutdown, Waited, SendTerm, SendKill, TerminateFails, RemoveState, DeleteState,
       Answers, StatusAnswers, StopAnswers, EnsureFinds, EnsureReplaces, EnsureLaunches, Launch,
       LaunchFails, PollFinds, PollAgain, PollEnds, Failed, ReapTerm, Reaped, call
  <1>3. CASE Begin(t)
    <2>1. PICK o \in {"start", "stop", "status"} : op' = [op EXCEPT ![t] = o]
      BY <1>3 DEF Begin
    <2>2. op'[t] # "none" /\ \A r \in Shell \ {t} : op'[r] = op[r]
      BY <2>1
    <2> QED BY <2>2 DEF Sole
  <1>4. CASE op' = op /\ op[t] # "none"
    BY <1>4 DEF Sole
  <1> QED BY <1>1, <1>2, <1>3, <1>4

LEMMA StepAlone ==
  ASSUME NEW s \in Shell, ServiceInv, Sole(s) => Alone(s), [Next]_vars, Sole(s)'
  PROVE  Alone(s)'
  <1>1. CASE UNCHANGED vars
    BY <1>1 DEF vars, call, Sole, Alone, Grown, FileKnows, SeenKnows, TargetKnows, NoneBeside, ChildNamed,
       Configured, Governing, Asking, AsksNext, Removing
  <1>2. CASE \E d \in Daemon : DaemonRuns(d) \/ Dies(d)
    <2>1. op' = op
      BY <1>2 DEF DaemonRuns, BindUi, TakeLock, Register, Serve, CloseUi, Unregister, Exit, Dies, call
    <2> QED BY <1>2, <2>1, DaemonAlone DEF Sole
  <1>3. CASE \E t \in Shell : Begin(t) \/ Runs(t)
    BY <1>3, SoleStep, ShellAlone
  <1> QED BY <1>1, <1>2, <1>3 DEF Next

LEMMA AloneInvariance == Spec => [](ServiceInv /\ \A s \in Shell : Sole(s) => Alone(s))
  <1> DEFINE AloneInv == \A s \in Shell : Sole(s) => Alone(s)
  <1>1. Init => AloneInv
    BY InitAlone
  <1>2. ServiceInv /\ AloneInv /\ [Next]_vars => AloneInv'
    BY StepAlone
  <1> HIDE DEF AloneInv
  <1>3. Spec => [](ServiceInv /\ AloneInv)
    BY <1>1, <1>2, Invariance, PTL DEF Spec
  <1> QED BY <1>3 DEF AloneInv

\* Between commands every service that is left is one a start has answered with.
LEMMA IdleGoverns ==
  ASSUME NEW s \in Shell, ServiceInv, pc[s] = "idle", NEW d \in Daemon, daemon[d] = "serving"
  PROVE  d \in Governing(s)
  BY SMT DEF ServiceInv, ChildInv, Governing, Serving, None, Daemon

\* Where one shell alone runs commands, no service is ever out of their reach.
THEOREM CommandsControl == Spec => []ControllableAlone
  <1>1. ASSUME ServiceInv, \A s \in Shell : Sole(s) => Alone(s) PROVE ControllableAlone
    BY <1>1, IdleGoverns DEF ControllableAlone, Controllable, Alone, FileKnows
  <1> QED BY <1>1, AloneInvariance, PTL

\* Where one shell alone runs commands, only what its last start wanted is served.
THEOREM StartsServeWanted == Spec => []ServesWanted
  <1>1. ASSUME ServiceInv, \A s \in Shell : Sole(s) => Alone(s) PROVE ServesWanted
    BY <1>1, IdleGoverns DEF ServesWanted, Alone, Configured
  <1> QED BY <1>1, AloneInvariance, PTL
=============================================================================

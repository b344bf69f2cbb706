-------------------------- MODULE GoalStateProofs --------------------------
(***************************************************************************)
(* Proofs about GoalState, for any number of goal states, certificates,    *)
(* failures and restarts: type correctness; goal states are executed in    *)
(* the order in which they were created as long as the HostGAPlugin keeps  *)
(* supporting vmSettings and Fast Track stays enabled, and none twice by   *)
(* one process as long as vmSettings stay supported; and a Fast Track goal *)
(* state is executed with its certificate on disk, or there is a reason    *)
(* why not.                                                                *)
(***************************************************************************)
EXTENDS GoalState, TLAPS

----------------------------------------------------------------------------
(* The inductive invariant.                                                *)

(* The services: the vmSettings always describe the newest goal state; the *)
(* WireServer has it too, unless it was published via Fast Track.          *)
Services ==
    /\ supported
    /\ enabled
    /\ executed <= clock
    /\ ws.num >= 1
    /\ ws.created <= clock
    /\ vm.num >= 1
    /\ vm.created = clock
    /\ vm.source \in Sources
    /\ vm.source = "Fabric" => ws.created = clock

(* The host plugin client asks on every update, and what it has cached     *)
(* under the current ETag is what the plugin serves.                       *)
Plugin ==
    /\ hp.recheck
    /\ hp.cached.num <= vm.num
    /\ (hp.cached # NoGS /\ hp.cached.num = vm.num) => hp.cached = vm

(* During an update, the document is at most as old as the one before.     *)
Updating == pc \in {"vmSettings", "decide"}

Document ==
    /\ pc # "restore"
    /\ Updating =>
         /\ snap.num >= 1
         /\ inc <= snap.num
         /\ snap.num <= ws.num
         /\ snap.created <= ws.created
         /\ snap.num = ws.num => snap.created = ws.created

(* Once the vmSettings are there, either one of the two goal states of the *)
(* update is as new as what was executed, or the WireServer has moved on   *)
(* to one that is since the document was fetched.                          *)
Received ==
    pc = "decide" =>
        /\ got.settings.created <= clock
        /\ got.updated => got.settings.source = "FastTrack"
        /\ \/ snap.created >= executed
           \/ got.settings.created >= executed
           \/ snap.num < ws.num /\ ws.created >= executed

(* The goal state in memory.                                               *)
Kept ==
    /\ inc <= ws.num
    /\ egs.created <= clock
    /\ egs = NoGS <=> inc = 0
    /\ init => inc # 0
    /\ pc \in {"check", "execute", "report", "reportFailure"} => inc # 0

(* A goal state older than what was executed (by a previous process) may   *)
(* be in memory, but then the WireServer has a newer incarnation, which    *)
(* the update that precedes every execution picks up.                      *)
CaughtUp ==
    /\ (pc \in {"execute", "report"} \/ (pc = "check" /\ init))
         => egs.created >= executed
    /\ (inc # 0 /\ egs.created < executed) =>
         IF Updating THEN inc < snap.num /\ snap.created >= executed
                     ELSE inc < ws.num /\ ws.created >= executed

IInv == /\ TypeOK
        /\ Services
        /\ Plugin
        /\ Document
        /\ Received
        /\ Kept
        /\ CaughtUp

----------------------------------------------------------------------------
(* Type correctness.                                                       *)

(* What a new process has in memory instead of a goal state.               *)
LEMMA NoGSType ==
    /\ NoGS \in GoalStates
    /\ Id(NoGS) \in Ids
    /\ NothingReceived \in [settings: GoalStates, updated: BOOLEAN]
BY Zenon DEF NoGS, GoalStates, Id, Ids, NothingReceived

(* What the two services publish is a goal state.                          *)
LEMMA GoalStateTypes ==
    ASSUME NEW n \in Nat, NEW time \in Nat, NEW c \in Nat
    PROVE  /\ FabricGoalState(n, time) \in GoalStates
           /\ FastTrackGoalState(n, time, c) \in GoalStates
BY Zenon DEF FabricGoalState, FastTrackGoalState, GoalStates, Sources

(* Marking a goal state as outdated, or not, gives a goal state.           *)
LEMMA OutdatedType ==
    ASSUME NEW g \in GoalStates, NEW b \in BOOLEAN
    PROVE  [g EXCEPT !.outdated = b] \in GoalStates
BY Zenon DEF GoalStates

(* The types hold when the agent starts for the first time.               *)
LEMMA TypeInit == Init => TypeOK
<1> SUFFICES ASSUME Init PROVE TypeOK
    BY Zenon
<1> USE BoundsAssumption, NoGSType DEF Init
<1>1. ServicesTypeOK
    BY GoalStateTypes DEF ServicesTypeOK
<1>2. DiskTypeOK
    BY Zenon DEF DiskTypeOK, Absent
<1>3. NewHostPlugin(ftFile) \in HostPlugins
    BY DEF NewHostPlugin, FastTrackTimestamp, HostPlugins, Absent, Corrupt
<1>4. MemoryTypeOK
    BY <1>3, Zenon DEF MemoryTypeOK
<1>5. LoopTypeOK
    BY DEF LoopTypeOK
<1>6. HistoryTypeOK
  <2>1. 0 \in 0..MaxFailures /\ 0 \in 0..MaxCrashes /\ 0 \in 0..MaxMigrations
    OBVIOUS
  <2> QED
    BY <2>1, ZenonT(60) DEF HistoryTypeOK
<1> QED
    BY <1>1, <1>2, <1>4, <1>5, <1>6, Zenon DEF TypeOK

(* Every step of the services and of the agent keeps the types.            *)
LEMMA TypeStep == TypeOK /\ [Next]_vars => TypeOK'
<1> SUFFICES ASSUME TypeOK, [Next]_vars PROVE TypeOK'
    BY Zenon
<1> USE BoundsAssumption, SwitchesAssumption DEF TypeOK
<1>1. CASE PublishFabric
  <2>1. ServicesTypeOK'
    <3>1. clock \in 1..MaxTime /\ ws.num + 1 \in Nat /\ vm.num + 1 \in Nat
      BY DEF ServicesTypeOK, GoalStates
    <3>2. clock' \in 1..MaxTime /\ clock + 1 \in Nat
      BY <1>1, <3>1 DEF PublishFabric
    <3> QED BY <1>1, <3>1, <3>2, GoalStateTypes DEF PublishFabric, ServicesTypeOK
  <2>2. DiskTypeOK'
    BY <1>1, Zenon DEF PublishFabric, DiskTypeOK, services, memory, history, agent
  <2>3. MemoryTypeOK'
    BY <1>1, Zenon DEF PublishFabric, MemoryTypeOK, services, memory, history, agent
  <2>4. LoopTypeOK'
    BY <1>1, Zenon DEF PublishFabric, LoopTypeOK, services, memory, history, agent
  <2>5. HistoryTypeOK'
    BY <1>1, Zenon DEF PublishFabric, HistoryTypeOK, services, memory, history, agent
  <2> QED BY <2>1, <2>2, <2>3, <2>4, <2>5
<1>2. CASE PublishFastTrack
  <2>1. ServicesTypeOK'
    <3>1. clock \in 1..MaxTime /\ tenantCert \in Nat /\ vm.num + 1 \in Nat
      BY DEF ServicesTypeOK, GoalStates
    <3>2. clock' \in 1..MaxTime /\ clock + 1 \in Nat
      BY <1>2, <3>1 DEF PublishFastTrack
    <3> QED BY <1>2, <3>1, <3>2, GoalStateTypes DEF PublishFastTrack, ServicesTypeOK
  <2>2. DiskTypeOK'
    BY <1>2, Zenon DEF PublishFastTrack, DiskTypeOK, services, memory, history, agent
  <2>3. MemoryTypeOK'
    BY <1>2, Zenon DEF PublishFastTrack, MemoryTypeOK, services, memory, history,
       agent
  <2>4. LoopTypeOK'
    BY <1>2, Zenon DEF PublishFastTrack, LoopTypeOK, services, memory, history, agent
  <2>5. HistoryTypeOK'
    BY <1>2, Zenon DEF PublishFastTrack, HistoryTypeOK, services, memory, history,
       agent
  <2> QED BY <2>1, <2>2, <2>3, <2>4, <2>5
<1>3. CASE RegenerateCertificate
  <2>1. ServicesTypeOK'
    <3>1. ws.num + 1 \in Nat /\ ws.created \in Nat
      BY DEF ServicesTypeOK, GoalStates
    <3>2. tenantCert' \in 1..MaxCerts
      BY <1>3 DEF RegenerateCertificate, ServicesTypeOK
    <3> QED BY <1>3, <3>1, <3>2, GoalStateTypes
      DEF RegenerateCertificate, ServicesTypeOK
  <2>2. DiskTypeOK'
    BY <1>3, Zenon DEF RegenerateCertificate, DiskTypeOK, services, memory, history,
       agent
  <2>3. MemoryTypeOK'
    BY <1>3, Zenon DEF RegenerateCertificate, MemoryTypeOK, services, memory,
       history, agent
  <2>4. LoopTypeOK'
    BY <1>3, Zenon DEF RegenerateCertificate, LoopTypeOK, services, memory, history,
       agent
  <2>5. HistoryTypeOK'
    BY <1>3, Zenon DEF RegenerateCertificate, HistoryTypeOK, services, memory,
       history, agent
  <2> QED BY <2>1, <2>2, <2>3, <2>4, <2>5
<1>4. CASE MigrateVm
  <2>1. ServicesTypeOK'
    BY <1>4, Zenon DEF MigrateVm, ServicesTypeOK, services, memory, history, agent
  <2>2. DiskTypeOK'
    BY <1>4, Zenon DEF MigrateVm, DiskTypeOK, services, memory, history, agent
  <2>3. MemoryTypeOK'
    BY <1>4, Zenon DEF MigrateVm, MemoryTypeOK, services, memory, history, agent
  <2>4. LoopTypeOK'
    BY <1>4, Zenon DEF MigrateVm, LoopTypeOK, services, memory, history, agent
  <2>5. HistoryTypeOK'
    BY <1>4 DEF MigrateVm, HistoryTypeOK, services, memory, history, agent
  <2> QED BY <2>1, <2>2, <2>3, <2>4, <2>5
<1>5. CASE NextCheckIsDue
  <2>1. ServicesTypeOK'
    BY <1>5, Zenon DEF NextCheckIsDue, ServicesTypeOK, services, memory, history,
       agent
  <2>2. DiskTypeOK'
    BY <1>5, Zenon DEF NextCheckIsDue, DiskTypeOK, services, memory, history, agent
  <2>3. MemoryTypeOK'
    BY <1>5, Zenon DEF NextCheckIsDue, MemoryTypeOK, HostPlugins, services, memory,
       history, agent
  <2>4. LoopTypeOK'
    BY <1>5, Zenon DEF NextCheckIsDue, LoopTypeOK, services, memory, history, agent
  <2>5. HistoryTypeOK'
    BY <1>5, Zenon DEF NextCheckIsDue, HistoryTypeOK, services, memory, history,
       agent
  <2> QED BY <2>1, <2>2, <2>3, <2>4, <2>5
<1>6. CASE FetchGoalState
  <2>1. ServicesTypeOK'
    BY <1>6, Zenon DEF FetchGoalState, UpdateFails, ServicesTypeOK, services, memory,
       history, agent
  <2>2. DiskTypeOK'
    BY <1>6, Zenon DEF FetchGoalState, UpdateFails, DiskTypeOK, services, memory,
       history, agent
  <2>3. MemoryTypeOK'
    <3>1. ws \in GoalStates /\ NothingReceived \in [settings: GoalStates, updated: BOOLEAN]
      BY NoGSType, Zenon DEF ServicesTypeOK
    <3> QED BY <1>6, <3>1 DEF FetchGoalState, UpdateFails, MemoryTypeOK
  <2>4. LoopTypeOK'
    BY <1>6 DEF FetchGoalState, UpdateFails, LoopTypeOK, services, memory,
       history, agent
  <2>5. HistoryTypeOK'
    BY <1>6 DEF FetchGoalState, UpdateFails, HistoryTypeOK, services, memory,
       history, agent
  <2> QED BY <2>1, <2>2, <2>3, <2>4, <2>5
<1>7. CASE FetchVmSettings
  <2>1. ServicesTypeOK'
    BY <1>7, Zenon DEF FetchVmSettings, UpdateFails, NotSupported, NotModified,
       NewSettings, Receives, SaveFastTrackState, ServicesTypeOK, services,
       memory, history, agent
  <2>2. DiskTypeOK'
    <3>1. vm.created \in Nat
      BY Zenon DEF ServicesTypeOK, GoalStates
    <3>2. CASE SaveFastTrackState /\ UNCHANGED certs
      BY <3>1, <3>2 DEF SaveFastTrackState, DiskTypeOK, Absent
    <3>3. CASE UNCHANGED <<ftFile, certs>>
      BY <3>3, Zenon DEF DiskTypeOK
    <3> QED BY <1>7, <3>2, <3>3, Zenon
      DEF FetchVmSettings, UpdateFails, NotSupported, NotModified, NewSettings
  <2>3. MemoryTypeOK'
    <3>1. vm \in GoalStates /\ hp.cached \in GoalStates /\ vm.created \in Nat
      BY Zenon DEF ServicesTypeOK, MemoryTypeOK, HostPlugins, GoalStates
    <3>2. AfterNotSupported \in HostPlugins
      BY Zenon DEF MemoryTypeOK, AfterNotSupported, HostPlugins
    <3>3. AfterSettings \in HostPlugins
      BY <3>1, Zenon DEF MemoryTypeOK, AfterSettings, HostPlugins
    <3>4. hp' \in HostPlugins
      BY <1>7, <3>2, <3>3, Zenon DEF FetchVmSettings, UpdateFails, NotSupported,
         NotModified, NewSettings, MemoryTypeOK
    <3>5. got' \in [settings: GoalStates, updated: BOOLEAN]
      <4>1. CASE Receives(vm, TRUE)
        BY <4>1, <3>1, NoGSType, Zenon DEF Receives
      <4>2. CASE Receives(hp.cached, FALSE)
        BY <4>2, <3>1, NoGSType, Zenon DEF Receives
      <4>3. CASE got' = NothingReceived
        BY <4>3, NoGSType, Zenon
      <4>4. CASE UNCHANGED got
        BY <4>4, Zenon DEF MemoryTypeOK
      <4> QED BY <1>7, <4>1, <4>2, <4>3, <4>4, Zenon DEF FetchVmSettings, UpdateFails,
         NotSupported, NotModified, NewSettings
    <3> QED BY <1>7, <3>4, <3>5 DEF FetchVmSettings, UpdateFails, MemoryTypeOK
  <2>4. LoopTypeOK'
    BY <1>7 DEF FetchVmSettings, UpdateFails, NotSupported, NotModified,
       NewSettings, Receives, SaveFastTrackState, LoopTypeOK, services,
       memory, history, agent
  <2>5. HistoryTypeOK'
    BY <1>7 DEF FetchVmSettings, UpdateFails, NotSupported, NotModified,
       NewSettings, Receives, SaveFastTrackState, HistoryTypeOK, services,
       memory, history, agent
  <2> QED BY <2>1, <2>2, <2>3, <2>4, <2>5
<1>8. CASE Decide
  <2>1. ServicesTypeOK'
    BY <1>8, Zenon DEF Decide, UpdateFails, FetchFullGoalState,
       FetchingFullGoalStateFails, ServicesTypeOK, services, memory, history,
       agent
  <2>2. DiskTypeOK'
    BY <1>8, Zenon DEF Decide, UpdateFails, FetchFullGoalState,
       FetchingFullGoalStateFails, DiskTypeOK, ServicesTypeOK, services,
       memory, history, agent
  <2>3. MemoryTypeOK'
    BY <1>8 DEF Decide, UpdateFails, FetchFullGoalState,
       FetchingFullGoalStateFails, MemoryTypeOK, MostRecent, GoalStates,
       services, memory, history, agent
  <2>4. LoopTypeOK'
    BY <1>8 DEF Decide, UpdateFails, FetchFullGoalState,
       FetchingFullGoalStateFails, LoopTypeOK, services, memory, history,
       agent
  <2>5. HistoryTypeOK'
    <3>1. badCert' \in BOOLEAN
      BY <1>8, Zenon DEF Decide, UpdateFails, FetchFullGoalState,
         FetchingFullGoalStateFails, HistoryTypeOK
    <3>2. failures' \in 0..MaxFailures
      BY <1>8 DEF Decide, UpdateFails, FetchFullGoalState,
         FetchingFullGoalStateFails, HistoryTypeOK
    <3> QED BY <1>8, <3>1, <3>2 DEF Decide, UpdateFails, FetchFullGoalState,
         FetchingFullGoalStateFails, HistoryTypeOK
  <2> QED BY <2>1, <2>2, <2>3, <2>4, <2>5
<1>9. CASE RestoreWireServerGoalState
  <2>1. ServicesTypeOK'
    BY <1>9, Zenon DEF RestoreWireServerGoalState, UpdateFails, FetchFullGoalState,
       FetchingFullGoalStateFails, ServicesTypeOK, services, memory, history,
       agent
  <2>2. DiskTypeOK'
    BY <1>9, Zenon DEF RestoreWireServerGoalState, UpdateFails, FetchFullGoalState,
       FetchingFullGoalStateFails, DiskTypeOK, ServicesTypeOK, services,
       memory, history, agent
  <2>3. MemoryTypeOK'
    <3>1. /\ snap \in GoalStates
          /\ snap.num \in Nat
          /\ snap.created \in Nat
          /\ hp.ts \in Nat
      BY Zenon DEF MemoryTypeOK, GoalStates, HostPlugins
    <3>2. (snap.created < hp.ts) \in BOOLEAN
      BY <3>1
    <3>3. [snap EXCEPT !.outdated = snap.created < hp.ts] \in GoalStates
      BY <3>1, <3>2, OutdatedType, Zenon
    <3> QED BY <1>9, <3>1, <3>3 DEF RestoreWireServerGoalState, UpdateFails,
         FetchFullGoalState, FetchingFullGoalStateFails, MemoryTypeOK
  <2>4. LoopTypeOK'
    BY <1>9 DEF RestoreWireServerGoalState, UpdateFails, FetchFullGoalState,
       FetchingFullGoalStateFails, LoopTypeOK, services, memory, history,
       agent
  <2>5. HistoryTypeOK'
    <3>1. badCert' \in BOOLEAN
      BY <1>9, Zenon DEF RestoreWireServerGoalState, UpdateFails, FetchFullGoalState,
         FetchingFullGoalStateFails, HistoryTypeOK
    <3>2. failures' \in 0..MaxFailures
      BY <1>9 DEF RestoreWireServerGoalState, UpdateFails, FetchFullGoalState,
         FetchingFullGoalStateFails, HistoryTypeOK
    <3> QED BY <1>9, <3>1, <3>2 DEF RestoreWireServerGoalState, UpdateFails, FetchFullGoalState,
         FetchingFullGoalStateFails, HistoryTypeOK
  <2> QED BY <2>1, <2>2, <2>3, <2>4, <2>5
<1>10. CASE RefreshGoalState
  <2>1. ServicesTypeOK'
    BY <1>10, Zenon DEF RefreshGoalState, RefreshNeeded, ServicesTypeOK, services,
       memory, history, agent
  <2>2. DiskTypeOK'
    BY <1>10, Zenon DEF RefreshGoalState, RefreshNeeded, DiskTypeOK, services,
       memory, history, agent
  <2>3. MemoryTypeOK'
    BY <1>10, Zenon DEF RefreshGoalState, RefreshNeeded, MemoryTypeOK, services,
       memory, history, agent
  <2>4. LoopTypeOK'
    BY <1>10 DEF RefreshGoalState, RefreshNeeded, LoopTypeOK, services,
       memory, history, agent
  <2>5. HistoryTypeOK'
    BY <1>10, Zenon DEF RefreshGoalState, RefreshNeeded, HistoryTypeOK, services,
       memory, history, agent
  <2> QED BY <2>1, <2>2, <2>3, <2>4, <2>5
<1>11. CASE InitializeGoalState
  <2>1. ServicesTypeOK'
    BY <1>11, Zenon DEF InitializeGoalState, ServicesTypeOK, services, memory,
       history, agent
  <2>2. DiskTypeOK'
    BY <1>11, Zenon DEF InitializeGoalState, DiskTypeOK, services, memory, history,
       agent
  <2>3. MemoryTypeOK'
    BY <1>11, ZenonT(60) DEF InitializeGoalState, MemoryTypeOK, GoalStates, services,
       memory, history, agent
  <2>4. LoopTypeOK'
    BY <1>11 DEF InitializeGoalState, LoopTypeOK, services, memory, history,
       agent
  <2>5. HistoryTypeOK'
    BY <1>11, Zenon DEF InitializeGoalState, HistoryTypeOK, services, memory,
       history, agent
  <2> QED BY <2>1, <2>2, <2>3, <2>4, <2>5
<1>12. CASE UpdateCompleted
  <2>1. ServicesTypeOK'
    BY <1>12, Zenon DEF UpdateCompleted, ServicesTypeOK, services, memory, history,
       agent
  <2>2. DiskTypeOK'
    BY <1>12, Zenon DEF UpdateCompleted, DiskTypeOK, services, memory, history, agent
  <2>3. MemoryTypeOK'
    BY <1>12, Zenon DEF UpdateCompleted, MemoryTypeOK, services, memory, history,
       agent
  <2>4. LoopTypeOK'
    BY <1>12 DEF UpdateCompleted, LoopTypeOK, services, memory, history, agent
  <2>5. HistoryTypeOK'
    BY <1>12, Zenon DEF UpdateCompleted, HistoryTypeOK, services, memory, history,
       agent
  <2> QED BY <2>1, <2>2, <2>3, <2>4, <2>5
<1>13. CASE ExecuteExtensions
  <2>1. ServicesTypeOK'
    BY <1>13, Zenon DEF ExecuteExtensions, ServicesTypeOK, services, memory, history,
       agent
  <2>2. DiskTypeOK'
    BY <1>13, Zenon DEF ExecuteExtensions, DiskTypeOK, services, memory, history,
       agent
  <2>3. MemoryTypeOK'
    BY <1>13, Zenon DEF ExecuteExtensions, MemoryTypeOK, services, memory, history,
       agent
  <2>4. LoopTypeOK'
    BY <1>13, Zenon DEF ExecuteExtensions, LoopTypeOK, services, memory, history,
       agent
  <2>5. HistoryTypeOK'
    BY <1>13 DEF ExecuteExtensions, HistoryTypeOK, MemoryTypeOK, GoalStates,
       Id, Ids, services, memory, history, agent
  <2> QED BY <2>1, <2>2, <2>3, <2>4, <2>5
<1>14. CASE ReportStatus
  <2>1. ServicesTypeOK'
    BY <1>14, Zenon DEF ReportStatus, ClearFastTrackState, ServicesTypeOK, services,
       memory, history, agent
  <2>2. DiskTypeOK'
    BY <1>14 DEF ReportStatus, ClearFastTrackState, DiskTypeOK, Absent,
       services, memory, history, agent
  <2>3. MemoryTypeOK'
    BY <1>14 DEF ReportStatus, ClearFastTrackState, MemoryTypeOK, GoalStates,
       Id, Ids, services, memory, history, agent
  <2>4. LoopTypeOK'
    BY <1>14, Zenon DEF ReportStatus, ClearFastTrackState, LoopTypeOK, services,
       memory, history, agent
  <2>5. HistoryTypeOK'
    BY <1>14, Zenon DEF ReportStatus, ClearFastTrackState, HistoryTypeOK, services,
       memory, history, agent
  <2> QED BY <2>1, <2>2, <2>3, <2>4, <2>5
<1>15. CASE ReportStatusAfterFailure
  <2>1. ServicesTypeOK'
    BY <1>15, Zenon DEF ReportStatusAfterFailure, ClearFastTrackState,
       ServicesTypeOK, services, memory, history, agent
  <2>2. DiskTypeOK'
    BY <1>15 DEF ReportStatusAfterFailure, ClearFastTrackState, DiskTypeOK,
       Absent, services, memory, history, agent
  <2>3. MemoryTypeOK'
    BY <1>15, Zenon DEF ReportStatusAfterFailure, ClearFastTrackState, MemoryTypeOK,
       services, memory, history, agent
  <2>4. LoopTypeOK'
    BY <1>15, Zenon DEF ReportStatusAfterFailure, ClearFastTrackState, LoopTypeOK,
       services, memory, history, agent
  <2>5. HistoryTypeOK'
    BY <1>15, Zenon DEF ReportStatusAfterFailure, ClearFastTrackState, HistoryTypeOK,
       services, memory, history, agent
  <2> QED BY <2>1, <2>2, <2>3, <2>4, <2>5
<1>16. CASE Restart
  <2>1. ServicesTypeOK'
    BY <1>16, Zenon DEF Restart, ServicesTypeOK, services, memory, history, agent
  <2>2. DiskTypeOK'
    BY <1>16, Zenon DEF Restart, DiskTypeOK, Corrupt, services, memory, history,
       agent
  <2>3. MemoryTypeOK'
    <3>1. ftFile' \in Nat \cup {Corrupt} /\ clock \in Nat
      BY <1>16 DEF Restart, DiskTypeOK, ServicesTypeOK
    <3>2. NewHostPlugin(ftFile') \in HostPlugins
      BY <3>1, NoGSType DEF NewHostPlugin, FastTrackTimestamp, HostPlugins, Corrupt
    <3>3. enabled' \in BOOLEAN
      BY <1>16, ZenonT(60) DEF Restart, MemoryTypeOK
    <3> QED BY <1>16, <3>2, <3>3, NoGSType, Zenon DEF Restart, MemoryTypeOK
  <2>4. LoopTypeOK'
    BY <1>16 DEF Restart, LoopTypeOK, services, memory, history, agent
  <2>5. HistoryTypeOK'
    BY <1>16 DEF Restart, HistoryTypeOK, Id, services, memory, history, agent
  <2> QED BY <2>1, <2>2, <2>3, <2>4, <2>5
<1>17. CASE UNCHANGED vars
    BY <1>17 DEF ServicesTypeOK, DiskTypeOK, MemoryTypeOK, LoopTypeOK,
       HistoryTypeOK, vars, services, memory, history, agent
<1> QED
    BY <1>1, <1>2, <1>3, <1>4, <1>5, <1>6, <1>7, <1>8, <1>9, <1>10, <1>11,
       <1>12, <1>13, <1>14, <1>15, <1>16, <1>17, Zenon DEF Next, ServicesNext,
       AgentNext

----------------------------------------------------------------------------
(* The order of execution.                                                 *)

(* The numbers in the state are natural numbers.                           *)
LEMMA Numbers ==
    TypeOK =>
        /\ clock \in Nat /\ executed \in Nat /\ inc \in Nat
        /\ ws.num \in Nat /\ ws.created \in Nat
        /\ vm.num \in Nat /\ vm.created \in Nat
        /\ snap.num \in Nat /\ snap.created \in Nat
        /\ egs.num \in Nat /\ egs.created \in Nat
        /\ hp.cached \in GoalStates /\ hp.cached.num \in Nat
        /\ got.settings \in GoalStates /\ got.settings.created \in Nat
        /\ pc \in {"update", "vmSettings", "decide", "restore", "check",
                    "execute", "report", "reportFailure"}
BY BoundsAssumption
   DEF TypeOK, ServicesTypeOK, MemoryTypeOK, HistoryTypeOK, LoopTypeOK,
       GoalStates, HostPlugins

(* Init establishes the invariant.                                         *)
LEMMA InitIInv == Init => IInv
<1> SUFFICES ASSUME Init PROVE IInv
    BY Zenon
<1>1. TypeOK
    BY TypeInit, Zenon
<1>2. Services /\ Plugin
    BY DEF Init, Services, Plugin, FabricGoalState, Sources, NewHostPlugin, NoGS
<1>3. Document /\ Received /\ Kept /\ CaughtUp
    BY DEF Init, Document, Received, Kept, CaughtUp, Updating, NoGS,
       FabricGoalState
<1> QED
    BY <1>1, <1>2, <1>3, Zenon DEF IInv

(* Every step preserves it while the HostGAPlugin supports vmSettings and  *)
(* Fast Track is enabled.                                                  *)
LEMMA StableStep ==
    ASSUME MaxMigrations = 0, ~ConfigMayChange, IInv, [Next]_vars
    PROVE  Services' /\ Plugin' /\ Document' /\ Received' /\ Kept' /\ CaughtUp'
<1>1. /\ TypeOK /\ TypeOK'
      /\ Services /\ Plugin /\ Document /\ Received /\ Kept /\ CaughtUp
    BY TypeStep, Zenon DEF IInv
<1>2. /\ clock \in Nat /\ executed \in Nat /\ inc \in Nat
      /\ ws.num \in Nat /\ ws.created \in Nat
      /\ vm.num \in Nat /\ vm.created \in Nat
      /\ snap.num \in Nat /\ snap.created \in Nat
      /\ egs.num \in Nat /\ egs.created \in Nat
      /\ hp.cached \in GoalStates /\ hp.cached.num \in Nat
      /\ got.settings \in GoalStates /\ got.settings.created \in Nat
      /\ pc \in {"update", "vmSettings", "decide", "restore", "check",
                  "execute", "report", "reportFailure"}
    BY <1>1, Numbers, Zenon
<1>3. CASE PublishFabric
  <2>1. Services'
    BY <1>1, <1>2, <1>3 DEF PublishFabric, FabricGoalState, Services, Sources,
       history, agent, memory
  <2>2. Plugin'
    BY <1>1, <1>2, <1>3 DEF PublishFabric, FabricGoalState, Plugin, Services,
       services, memory, history, agent
  <2>3. Document'
    BY <1>1, <1>2, <1>3 DEF PublishFabric, FabricGoalState, Document,
       Updating, Services, Kept, services, memory, history, agent
  <2>4. Received'
    BY <1>1, <1>2, <1>3 DEF PublishFabric, FabricGoalState, Received,
       Services, Document, Updating, Plugin, services, memory, history, agent
  <2>5. Kept'
    BY <1>1, <1>2, <1>3, SMTT(60) DEF PublishFabric, FabricGoalState, Kept, Services,
       Document, Updating, Received, services, memory, history, agent
  <2>6. CaughtUp'
    BY <1>1, <1>2, <1>3, SMTT(60) DEF PublishFabric, FabricGoalState, CaughtUp,
       Updating, Services, Document, Received, Kept, services, memory,
       history, agent
  <2> QED BY <2>1, <2>2, <2>3, <2>4, <2>5, <2>6
<1>4. CASE PublishFastTrack
  <2>1. Services'
    BY SMTT(30), <1>1, <1>2, <1>4 DEF PublishFastTrack, FastTrackGoalState, Sources,
       Services, services, memory, history, agent
  <2>2. Plugin'
    BY <1>1, <1>2, <1>4 DEF PublishFastTrack, FastTrackGoalState, Sources,
       Plugin, Services, services, memory, history, agent
  <2>3. Document'
    BY <1>1, <1>2, <1>4, Zenon DEF PublishFastTrack, FastTrackGoalState, Sources,
       Document, Updating, Services, Kept, services, memory, history, agent
  <2>4. Received'
    BY <1>1, <1>2, <1>4, SMTT(60) DEF PublishFastTrack, FastTrackGoalState, Sources,
       Received, Services, Document, Updating, Plugin, services, memory,
       history, agent
  <2>5. Kept'
    BY SMTT(30), <1>1, <1>2, <1>4 DEF PublishFastTrack, FastTrackGoalState, Sources,
       Kept, Services, Document, Updating, Received, services, memory,
       history, agent
  <2>6. CaughtUp'
    BY <1>1, <1>2, <1>4, Zenon DEF PublishFastTrack, FastTrackGoalState, Sources,
       CaughtUp, Updating, Services, Document, Received, Kept, services,
       memory, history, agent
  <2> QED BY <2>1, <2>2, <2>3, <2>4, <2>5, <2>6
<1>5. CASE RegenerateCertificate
  <2>1. Services'
    BY <1>1, <1>2, <1>5 DEF RegenerateCertificate, FabricGoalState, Services,
       services, memory, history, agent
  <2>2. Plugin'
    BY <1>1, <1>2, <1>5, Zenon DEF RegenerateCertificate, FabricGoalState, Plugin,
       Services, services, memory, history, agent
  <2>3. Document'
    BY <1>1, <1>2, <1>5 DEF RegenerateCertificate, FabricGoalState, Document,
       Updating, Services, Kept, services, memory, history, agent
  <2>4. Received'
    BY <1>1, <1>2, <1>5 DEF RegenerateCertificate, FabricGoalState, Received,
       Services, Document, Updating, Plugin, services, memory, history, agent
  <2>5. Kept'
    BY <1>1, <1>2, <1>5 DEF RegenerateCertificate, FabricGoalState, Kept,
       Services, Document, Updating, Received, services, memory, history,
       agent
  <2>6. CaughtUp'
    BY <1>1, <1>2, <1>5 DEF RegenerateCertificate, FabricGoalState, CaughtUp,
       Updating, Services, Document, Received, Kept, services, memory,
       history, agent
  <2> QED BY <2>1, <2>2, <2>3, <2>4, <2>5, <2>6
<1>6. CASE FetchGoalState
  <2>1. Services'
    BY <1>1, <1>2, <1>6, Zenon DEF FetchGoalState, UpdateFails, Services, services,
       memory, history, agent
  <2>2. Plugin'
    BY <1>1, <1>2, <1>6, ZenonT(60) DEF FetchGoalState, UpdateFails, Plugin, Services,
       services, memory, history, agent
  <2>3. Document'
    <3>1. UNCHANGED <<clock, ws, inc, egs, init>>
        BY <1>6, Zenon DEF FetchGoalState, UpdateFails, services
    <3>2. \/ snap' = ws /\ pc' \in {"vmSettings", "decide"}
          \/ pc' = IF init THEN "reportFailure" ELSE "update"
        BY <1>6, Zenon DEF FetchGoalState, UpdateFails
    <3> QED
        BY <1>1, <1>2, <3>1, <3>2 DEF Document, Updating, Services, Kept
  <2>4. Received'
    BY <1>1, <1>2, <1>6, Zenon DEF FetchGoalState, UpdateFails, Received, Services,
       Document, Updating, Plugin, services, memory, history, agent
  <2>5. Kept'
    <3>1. UNCHANGED <<clock, ws, inc, egs, init>>
        BY <1>6, Zenon DEF FetchGoalState, UpdateFails, services
    <3>2. \/ snap' = ws /\ pc' \in {"vmSettings", "decide"}
          \/ pc' = IF init THEN "reportFailure" ELSE "update"
        BY <1>6, Zenon DEF FetchGoalState, UpdateFails
    <3> QED
        BY <1>1, <1>2, <3>1, <3>2, Zenon DEF Kept
  <2>6. CaughtUp'
    BY <1>1, <1>2, <1>6, Zenon DEF FetchGoalState, UpdateFails, CaughtUp, Updating,
       Services, Document, Received, Kept, services, memory, history, agent
  <2> QED BY <2>1, <2>2, <2>3, <2>4, <2>5, <2>6
<1>7. CASE FetchVmSettings
  <2>1. Services'
    BY <1>1, <1>2, <1>7, ZenonT(60) DEF FetchVmSettings, WillRequest, UpdateFails,
       NotSupported, NotModified, NewSettings, Unmodified, Receives,
       AfterSettings, NothingReceived, Services, services, memory, history,
       agent
  <2>2. Plugin'
    <3>1. vm' = vm
        BY <1>7, Zenon DEF FetchVmSettings, UpdateFails, services
    <3>2. hp' = hp \/ hp' = AfterSettings
        BY <1>1, <1>7, Zenon DEF FetchVmSettings, UpdateFails, NotSupported, NotModified,
           NewSettings, WillRequest, Plugin, Services
    <3>3. AfterSettings.recheck /\ AfterSettings.cached = vm
        BY <1>1, Zenon DEF AfterSettings, TypeOK, MemoryTypeOK, HostPlugins, Plugin
    <3> QED
        BY <1>1, <1>2, <3>1, <3>2, <3>3 DEF Plugin
  <2>3. Document'
    BY <1>1, <1>2, <1>7, ZenonT(60) DEF FetchVmSettings, WillRequest, UpdateFails,
       NotSupported, NotModified, NewSettings, Unmodified, Receives,
       AfterSettings, NothingReceived, Document, Updating, Services, Kept,
       services, memory, history, agent
  <2>4. Received'
    <3> SUFFICES ASSUME pc' = "decide"
                 PROVE  /\ got'.settings.created <= clock
                        /\ got'.updated => got'.settings.source = "FastTrack"
                        /\ \/ snap.created >= executed
                           \/ got'.settings.created >= executed
                           \/ snap.num < ws.num /\ ws.created >= executed
      <4>1. UNCHANGED <<clock, ws, snap, executed>>
        BY <1>7, Zenon DEF FetchVmSettings, UpdateFails, services, history
      <4> QED
        BY <4>1, Zenon DEF Received
    <3>1. (Receives(hp.cached, FALSE) /\ Unmodified) \/ Receives(vm, TRUE)
        BY <1>1, <1>7, Zenon DEF FetchVmSettings, UpdateFails, NotModified, NewSettings,
           WillRequest, Plugin, Services
    <3>2. Receives(vm, FALSE) \/ Receives(vm, TRUE)
        BY <1>1, <3>1, ZenonT(60) DEF Unmodified, Plugin
    <3>3. \/ vm.source = "FastTrack" /\ got'.settings = vm
          \/ vm.source = "Fabric" /\ got' = NothingReceived
        BY <1>1, <3>2 DEF Receives, Services, Sources
    <3>4. CASE vm.source = "FastTrack" /\ got'.settings = vm
        BY <1>1, <1>2, <3>4 DEF Services
    <3>5. CASE vm.source = "Fabric" /\ got' = NothingReceived
      <4>1. got'.settings.created = 0 /\ ~got'.updated
        BY <3>5, Zenon DEF NothingReceived, NoGS
      <4>2. snap.num = ws.num => snap.created = ws.created
        BY <1>1, <1>7, Zenon DEF FetchVmSettings, Document, Updating
      <4>3. snap.num <= ws.num /\ ws.created = clock /\ executed <= clock
        BY <1>1, <1>7, <3>5, Zenon DEF FetchVmSettings, Document, Updating, Services
      <4> QED
        BY <1>2, <4>1, <4>2, <4>3
    <3> QED
        BY <3>3, <3>4, <3>5, Zenon
  <2>5. Kept'
    <3>1. UNCHANGED <<clock, ws, inc, egs, init, snap, executed>>
        BY <1>7, Zenon DEF FetchVmSettings, UpdateFails, services, history
    <3>2. /\ pc = "vmSettings"
          /\ \/ pc' = "decide"
             \/ pc' = IF init THEN "reportFailure" ELSE "update"
        BY <1>1, <1>7, ZenonT(60) DEF FetchVmSettings, UpdateFails, NotSupported, NotModified,
           NewSettings, WillRequest, Plugin, Services
    <3> QED
        BY <1>1, <1>2, <3>1, <3>2, Zenon DEF Kept
  <2>6. CaughtUp'
    <3>1. UNCHANGED <<ws, inc, egs, snap, executed>>
        BY <1>7, Zenon DEF FetchVmSettings, UpdateFails, services, history
    <3>2. pc = "vmSettings" /\ pc' \in {"decide", "reportFailure", "update"}
        BY <1>1, <1>7, Zenon DEF FetchVmSettings, UpdateFails, NotSupported, NotModified,
           NewSettings, WillRequest, Plugin, Services
    <3>3. snap.num <= ws.num /\ snap.created <= ws.created
        BY <1>1, <3>2, Zenon DEF Document, Updating
    <3>4. (inc # 0 /\ egs.created < executed)
             => inc < snap.num /\ snap.created >= executed
        BY <1>1, <3>2, Zenon DEF CaughtUp, Updating
    <3>5. (inc # 0 /\ egs.created < executed)
             => inc < ws.num /\ ws.created >= executed
        BY <1>2, <3>3, <3>4
    <3> QED
        BY <3>1, <3>2, <3>4, <3>5, Zenon DEF CaughtUp, Updating
  <2> QED BY <2>1, <2>2, <2>3, <2>4, <2>5, <2>6
<1>8. CASE Decide
  <2>1. Services'
    BY <1>1, <1>2, <1>8, Zenon DEF Decide, UpdateFails, FetchFullGoalState,
       FetchingFullGoalStateFails, GoalStateUpdated, MostRecent, Replaces,
       Services, services, memory, history, agent
  <2>2. Plugin'
    BY <1>1, <1>2, <1>8, Zenon DEF Decide, UpdateFails, FetchFullGoalState,
       FetchingFullGoalStateFails, GoalStateUpdated, MostRecent, Replaces,
       Plugin, Services, services, memory, history, agent
  <2>3. Document'
    BY <1>1, <1>2, <1>8, ZenonT(60) DEF Decide, UpdateFails, FetchFullGoalState,
       FetchingFullGoalStateFails, GoalStateUpdated, MostRecent, Replaces,
       Document, Updating, Services, Kept, services, memory, history, agent
  <2>4. Received'
    BY <1>1, <1>2, <1>8, Zenon DEF Decide, UpdateFails, FetchFullGoalState,
       FetchingFullGoalStateFails, GoalStateUpdated, MostRecent, Replaces,
       Received, Services, Document, Updating, Plugin, services, memory,
       history, agent
  <2>5. Kept'
    <3>1. CASE GoalStateUpdated /\ FetchingFullGoalStateFails
      <4>1. UNCHANGED <<clock, ws, inc, egs, init, snap, executed>>
        BY <3>1, Zenon DEF FetchingFullGoalStateFails, UpdateFails, services, history
      <4>2. pc' = IF init THEN "reportFailure" ELSE "update"
        BY <3>1, Zenon DEF FetchingFullGoalStateFails, UpdateFails
      <4> QED
        BY <1>1, <1>2, <1>8, <4>1, <4>2, Zenon
           DEF Kept, Decide
    <3>2. CASE ~(GoalStateUpdated /\ FetchingFullGoalStateFails)
      <4>1. /\ pc' = "check"
            /\ inc' = IF GoalStateUpdated THEN snap.num ELSE inc
            /\ egs' = IF (GoalStateUpdated \/ got.updated) /\ Replaces(MostRecent)
                      THEN MostRecent ELSE egs
            /\ UNCHANGED <<clock, ws, init, executed>>
        BY <1>8, <3>2, Zenon DEF Decide, FetchFullGoalState, services, history
      <4>2. snap.num >= 1 /\ inc <= snap.num /\ snap.num <= ws.num
            /\ snap.created <= clock /\ got.settings.created <= clock
        BY <1>1, <1>2, <1>8 DEF Decide, Document, Updating, Received, Services
      <4>3. MostRecent.created <= clock
        BY <4>2, Zenon DEF MostRecent
      <4>4. CASE GoalStateUpdated
        <5>1. inc' = snap.num /\ inc' # 0
            BY SMTT(30), <1>2, <4>1, <4>2, <4>4
        <5>2. MostRecent # NoGS
            BY <1>2, <4>2, <4>4 DEF MostRecent, NoGS
        <5>3. egs' # NoGS /\ egs'.created <= clock
            BY <1>1, <4>1, <4>3, <4>4, <5>2, Zenon DEF Replaces, Kept
        <5> QED
            BY <1>2, <4>1, <4>2, <5>1, <5>3, Zenon DEF Kept
      <4>5. CASE ~GoalStateUpdated
        <5>1. inc' = inc /\ inc = snap.num /\ inc # 0 /\ egs # NoGS
            BY <1>1, <1>2, <4>1, <4>2, <4>5, SMTT(60) DEF GoalStateUpdated, Kept
        <5>2. got.updated => MostRecent # NoGS
            BY SMTT(30), <1>1, <1>8, <4>5 DEF MostRecent, NoGS, Received, Decide
        <5>3. egs' # NoGS /\ egs'.created <= clock
            BY <1>1, <4>1, <4>3, <4>5, <5>1, <5>2, Zenon DEF Kept
        <5> QED
            BY <1>2, <4>1, <4>2, <5>1, <5>3, Zenon DEF Kept
      <4> QED
        BY <4>4, <4>5, Zenon
    <3> QED
        BY <3>1, <3>2, Zenon
  <2>6. CaughtUp'
    <3>1. CASE GoalStateUpdated /\ FetchingFullGoalStateFails
      <4>1. UNCHANGED <<clock, ws, inc, egs, init, snap, executed>>
        BY <3>1, Zenon DEF FetchingFullGoalStateFails, UpdateFails, services, history
      <4>2. pc' = IF init THEN "reportFailure" ELSE "update"
        BY <3>1, Zenon DEF FetchingFullGoalStateFails, UpdateFails
      <4> QED
        BY <1>1, <1>2, <1>8, <4>1, <4>2, SMTT(60)
           DEF CaughtUp, Document, Updating, Decide
    <3>2. CASE ~(GoalStateUpdated /\ FetchingFullGoalStateFails)
      <4>1. /\ pc' = "check"
            /\ inc' = IF GoalStateUpdated THEN snap.num ELSE inc
            /\ egs' = IF (GoalStateUpdated \/ got.updated) /\ Replaces(MostRecent)
                      THEN MostRecent ELSE egs
            /\ UNCHANGED <<clock, ws, init, executed>>
        BY <1>8, <3>2, Zenon DEF Decide, FetchFullGoalState, services, history
      <4>2. /\ snap.num >= 1 /\ inc <= snap.num /\ snap.num <= ws.num
            /\ snap.created <= ws.created
            /\ \/ snap.created >= executed
               \/ got.settings.created >= executed
               \/ snap.num < ws.num /\ ws.created >= executed
        BY <1>1, <1>8, Zenon DEF Decide, Document, Updating, Received
      <4>3. (inc # 0 /\ egs.created < executed)
               => inc < snap.num /\ snap.created >= executed
        BY <1>1, <1>8, Zenon DEF Decide, CaughtUp, Updating
      <4>4. (egs = NoGS <=> inc = 0) /\ (init => inc # 0)
        BY <1>1, Zenon DEF Kept
      <4>5. CASE GoalStateUpdated
        <5>1. /\ inc' = snap.num
              /\ egs' = IF Replaces(MostRecent) THEN MostRecent ELSE egs
              /\ MostRecent = IF got.settings.created > snap.created
                              THEN got.settings ELSE snap
            BY <4>1, <4>5, Zenon DEF MostRecent
        <5>2. /\ MostRecent.created \in Nat
              /\ MostRecent.created >= snap.created
              /\ MostRecent.created >= got.settings.created
          <6>1. CASE got.settings.created > snap.created
            BY <1>2, <5>1, <6>1
          <6>2. CASE ~(got.settings.created > snap.created)
            BY <1>2, <5>1, <6>2
          <6> QED BY <6>1, <6>2
        <5>3. \/ MostRecent.created >= executed
              \/ snap.num < ws.num /\ ws.created >= executed
            BY <1>2, <4>2, <5>2
        <5>4. \/ egs' = MostRecent /\ (inc = 0 \/ MostRecent.created >= egs.created)
              \/ egs' = egs /\ inc # 0 /\ egs.created > MostRecent.created
            BY <1>2, <4>4, <5>1, <5>2 DEF Replaces
        <5>5. init => egs'.created >= executed
            BY <1>2, <4>3, <4>4, <5>2, <5>4
        <5>6. egs'.created < executed => inc' < ws.num /\ ws.created >= executed
            BY <1>2, <5>1, <5>2, <5>3, <5>4, SMTT(60)
        <5> QED
            BY <1>2, <4>1, <5>5, <5>6, Zenon DEF CaughtUp, Updating
      <4>6. CASE ~GoalStateUpdated
        <5>1. inc' = inc /\ inc = snap.num /\ inc # 0 /\ egs # NoGS
            BY <1>2, <4>1, <4>2, <4>4, <4>6 DEF GoalStateUpdated
        <5>2. egs.created >= executed
            BY <1>2, <4>3, <5>1
        <5>3. MostRecent = got.settings
            BY <4>6, Zenon DEF MostRecent
        <5>4. egs'.created >= executed
            BY <1>2, <4>1, <4>6, <5>1, <5>2, <5>3 DEF Replaces
        <5>5. egs'.created \in Nat
            BY <1>2, <4>1, <5>3, Zenon
        <5> QED
            BY SMTT(30), <1>2, <4>1, <5>4, <5>5 DEF CaughtUp, Updating
      <4> QED
        BY <4>5, <4>6, Zenon
    <3> QED
        BY <3>1, <3>2, Zenon
  <2> QED BY <2>1, <2>2, <2>3, <2>4, <2>5, <2>6
<1>9. CASE RefreshGoalState
  <2>1. Services'
    BY <1>1, <1>2, <1>9, Zenon DEF RefreshGoalState, Services, services, memory,
       history, agent
  <2>2. Plugin'
    BY <1>1, <1>2, <1>9, Zenon DEF RefreshGoalState, Plugin, Services, services,
       memory, history, agent
  <2>3. Document'
    BY <1>1, <1>2, <1>9, Zenon DEF RefreshGoalState, Document, Updating, Services,
       Kept, services, memory, history, agent
  <2>4. Received'
    BY <1>1, <1>2, <1>9, Zenon DEF RefreshGoalState, Received, Services, Document,
       Updating, Plugin, services, memory, history, agent
  <2>5. Kept'
    BY <1>1, <1>2, <1>9, Zenon DEF RefreshGoalState, Kept, Services, Document,
       Updating, Received, services, memory, history, agent
  <2>6. CaughtUp'
    BY <1>1, <1>2, <1>9, Zenon DEF RefreshGoalState, CaughtUp, Updating, Services,
       Document, Received, Kept, services, memory, history, agent
  <2> QED BY <2>1, <2>2, <2>3, <2>4, <2>5, <2>6
<1>10. CASE InitializeGoalState
  <2>1. Services'
    BY <1>1, <1>2, <1>10, Zenon DEF InitializeGoalState, Services, services, memory,
       history, agent
  <2>2. Plugin'
    BY <1>1, <1>2, <1>10, Zenon DEF InitializeGoalState, Plugin, Services, services,
       memory, history, agent
  <2>3. Document'
    BY <1>1, <1>2, <1>10, Zenon DEF InitializeGoalState, Document, Updating,
       Services, Kept, services, memory, history, agent
  <2>4. Received'
    BY <1>1, <1>2, <1>10, Zenon DEF InitializeGoalState, Received, Services,
       Document, Updating, Plugin, services, memory, history, agent
  <2>5. Kept'
    <3>1. UNCHANGED <<clock, ws, inc>> /\ pc' = "update" /\ inc # 0
        BY <1>1, <1>10, Zenon DEF InitializeGoalState, Kept, services
    <3>2. egs' = [egs EXCEPT !.outdated = @]
      <4>1. enabled /\ egs.outdated \in BOOLEAN
        BY <1>1, Zenon DEF Services, TypeOK, MemoryTypeOK, GoalStates
      <4> QED
        BY <1>10, <4>1, Zenon DEF InitializeGoalState
    <3>3. egs' = egs
        BY <1>1, <3>2, Zenon DEF TypeOK, MemoryTypeOK, GoalStates
    <3> QED
        BY <1>1, <1>2, <3>1, <3>3, Zenon DEF Kept
  <2>6. CaughtUp'
    BY <1>1, <1>2, <1>10, SMTT(60) DEF InitializeGoalState, CaughtUp, Updating,
       Services, Document, Received, Kept, services, memory, history, agent
  <2> QED BY <2>1, <2>2, <2>3, <2>4, <2>5, <2>6
<1>11. CASE UpdateCompleted
  <2>1. Services'
    BY <1>1, <1>2, <1>11, Zenon DEF UpdateCompleted, Services, services, memory,
       history, agent
  <2>2. Plugin'
    BY <1>1, <1>2, <1>11, Zenon DEF UpdateCompleted, Plugin, Services, services,
       memory, history, agent
  <2>3. Document'
    BY <1>1, <1>2, <1>11, Zenon DEF UpdateCompleted, Document, Updating, Services,
       Kept, services, memory, history, agent
  <2>4. Received'
    BY <1>1, <1>2, <1>11, Zenon DEF UpdateCompleted, Received, Services, Document,
       Updating, Plugin, services, memory, history, agent
  <2>5. Kept'
    BY <1>1, <1>2, <1>11, Zenon DEF UpdateCompleted, Kept, Services, Document,
       Updating, Received, services, memory, history, agent
  <2>6. CaughtUp'
    BY <1>1, <1>2, <1>11, Zenon DEF UpdateCompleted, CaughtUp, Updating, Services,
       Document, Received, Kept, services, memory, history, agent
  <2> QED BY <2>1, <2>2, <2>3, <2>4, <2>5, <2>6
<1>12. CASE ExecuteExtensions
  <2>1. Services'
    <3>1. UNCHANGED services /\ UNCHANGED memory
        BY <1>12, Zenon DEF ExecuteExtensions
    <3>2. executed' \in {executed, egs.created}
        BY <1>12, Zenon DEF ExecuteExtensions
    <3>3. egs.created <= clock
        BY <1>1, Zenon DEF Kept
    <3> QED
        BY <1>1, <1>2, <3>1, <3>2, <3>3, ZenonT(60) DEF Services, services, memory
  <2>2. Plugin'
    BY <1>1, <1>2, <1>12, Zenon DEF ExecuteExtensions, Plugin, Services, services,
       memory, history, agent
  <2>3. Document'
    BY <1>1, <1>2, <1>12, Zenon DEF ExecuteExtensions, Document, Updating, Services,
       Kept, services, memory, history, agent
  <2>4. Received'
    BY <1>1, <1>2, <1>12, Zenon DEF ExecuteExtensions, Received, Services, Document,
       Updating, Plugin, services, memory, history, agent
  <2>5. Kept'
    BY <1>1, <1>2, <1>12, Zenon DEF ExecuteExtensions, Kept, Services, Document,
       Updating, Received, services, memory, history, agent
  <2>6. CaughtUp'
    BY SMTT(30), <1>1, <1>2, <1>12 DEF ExecuteExtensions, CaughtUp, Updating, Services,
       Document, Received, Kept, services, memory, history, agent
  <2> QED BY <2>1, <2>2, <2>3, <2>4, <2>5, <2>6
<1>13. CASE ReportStatus
  <2>1. Services'
    BY <1>1, <1>2, <1>13, ZenonT(60) DEF ReportStatus, Services, services, memory,
       history, agent
  <2>2. Plugin'
    BY <1>1, <1>2, <1>13, ZenonT(60) DEF ReportStatus, Plugin, Services, services, memory,
       history, agent
  <2>3. Document'
    BY <1>1, <1>2, <1>13, ZenonT(60) DEF ReportStatus, Document, Updating, Services, Kept,
       services, memory, history, agent
  <2>4. Received'
    BY <1>1, <1>2, <1>13, Zenon DEF ReportStatus, Received, Services, Document,
       Updating, Plugin, services, memory, history, agent
  <2>5. Kept'
    BY <1>1, <1>2, <1>13, Zenon DEF ReportStatus, Kept, Services, Document, Updating,
       Received, services, memory, history, agent
  <2>6. CaughtUp'
    BY <1>1, <1>2, <1>13, Zenon DEF ReportStatus, CaughtUp, Updating, Services,
       Document, Received, Kept, services, memory, history, agent
  <2> QED BY <2>1, <2>2, <2>3, <2>4, <2>5, <2>6
<1>14. CASE ReportStatusAfterFailure
  <2>1. Services'
    BY <1>1, <1>2, <1>14, Zenon DEF ReportStatusAfterFailure, Services, services,
       memory, history, agent
  <2>2. Plugin'
    BY <1>1, <1>2, <1>14, Zenon DEF ReportStatusAfterFailure, Plugin, Services,
       services, memory, history, agent
  <2>3. Document'
    BY <1>1, <1>2, <1>14, Zenon DEF ReportStatusAfterFailure, Document, Updating,
       Services, Kept, services, memory, history, agent
  <2>4. Received'
    BY <1>1, <1>2, <1>14, Zenon DEF ReportStatusAfterFailure, Received, Services,
       Document, Updating, Plugin, services, memory, history, agent
  <2>5. Kept'
    BY <1>1, <1>2, <1>14, Zenon DEF ReportStatusAfterFailure, Kept, Services,
       Document, Updating, Received, services, memory, history, agent
  <2>6. CaughtUp'
    BY <1>1, <1>2, <1>14, Zenon DEF ReportStatusAfterFailure, CaughtUp, Updating,
       Services, Document, Received, Kept, services, memory, history, agent
  <2> QED BY <2>1, <2>2, <2>3, <2>4, <2>5, <2>6
<1>15. CASE Restart
  <2>1. /\ egs' = NoGS /\ inc' = 0 /\ init' = FALSE /\ pc' = "update"
        /\ clock' = clock /\ ws' = ws /\ vm' = vm /\ supported' = supported
        /\ executed' = executed
    BY <1>15, Zenon DEF Restart, services
  <2>2. enabled' = enabled
    BY <1>15, Zenon DEF Restart
  <2>3. hp'.recheck /\ hp'.cached = NoGS
    BY <1>15, Zenon DEF Restart, NewHostPlugin
  <2>4. NoGS.num = 0 /\ NoGS.created = 0
    BY Zenon DEF NoGS
  <2>5. Services'
    BY <1>1, <2>1, <2>2, Zenon DEF Services
  <2>6. Plugin'
    BY <1>2, <2>1, <2>3, <2>4 DEF Plugin
  <2>7. Document' /\ Received'
    BY <2>1, Zenon DEF Document, Updating, Received
  <2>8. Kept'
    BY <1>2, <2>1, <2>4, SMTT(60) DEF Kept
  <2>9. CaughtUp'
    BY <1>1, <1>2, <2>1, <2>4, Zenon DEF CaughtUp, Updating, Services
  <2> QED BY <2>5, <2>6, <2>7, <2>8, <2>9
<1>16. CASE MigrateVm
    BY <1>1, <1>16 DEF MigrateVm, TypeOK, HistoryTypeOK
<1>17. CASE NextCheckIsDue
    BY <1>1, <1>17, Zenon DEF NextCheckIsDue, Plugin
<1>18. CASE RestoreWireServerGoalState
    BY <1>1, <1>18, Zenon DEF RestoreWireServerGoalState, Document
<1>19. CASE UNCHANGED vars
    BY <1>1, <1>19 DEF Services, Plugin, Document, Received, Kept, CaughtUp,
       Updating, vars, services, memory, history, agent
<1> QED
    BY <1>3, <1>4, <1>5, <1>6, <1>7, <1>8, <1>9, <1>10, <1>11, <1>12, <1>13,
       <1>14, <1>15, <1>16, <1>17, <1>18, <1>19, Zenon DEF Next, ServicesNext,
       AgentNext

----------------------------------------------------------------------------
(* The certificates.                                                       *)

(* Certificates are numbered in the order in which they are generated, so  *)
(* that no goal state needs one that the WireServer does not serve yet.    *)
KnownCertificates ==
    /\ ws.cert <= tenantCert
    /\ vm.cert <= tenantCert
    /\ snap.cert <= tenantCert
    /\ hp.cached.cert <= tenantCert
    /\ got.settings.cert <= tenantCert
    /\ egs.cert <= tenantCert

(* A refresh, the second or third attempt of _try_update_goal_state, has   *)
(* downloaded the certificate of the WireServer.                           *)
Refreshed ==
    (pc = "check" /\ Forced /\ egs.cert = tenantCert) => (egs.cert \in certs \/ badCert)

CertificatesInv == TypeOK /\ KnownCertificates /\ Refreshed /\ CertificatesInSync

(* The certificates' numbers.                                              *)
LEMMA CertificateNumbers ==
    ASSUME TypeOK
    PROVE  /\ tenantCert \in Nat /\ tenantCert >= 1
           /\ ws.cert \in Nat /\ vm.cert \in Nat /\ snap.cert \in Nat
           /\ hp.cached.cert \in Nat /\ got.settings.cert \in Nat
           /\ egs.cert \in Nat /\ attempt \in 0..2
<1>1. tenantCert \in Nat /\ tenantCert >= 1 /\ attempt \in 0..2
    BY BoundsAssumption DEF TypeOK, ServicesTypeOK, LoopTypeOK
<1>2. /\ ws \in GoalStates /\ vm \in GoalStates /\ snap \in GoalStates
      /\ hp.cached \in GoalStates /\ got.settings \in GoalStates
      /\ egs \in GoalStates
    BY Zenon DEF TypeOK, ServicesTypeOK, MemoryTypeOK, HostPlugins
<1> QED
    BY <1>1, <1>2, Zenon DEF GoalStates

(* No process starts with a goal state in memory.                          *)
LEMMA CertificatesInit == Init => CertificatesInv
<1> SUFFICES ASSUME Init PROVE CertificatesInv
    BY Zenon
<1>1. TypeOK
    BY TypeInit, Zenon
<1>2. KnownCertificates
    BY DEF Init, KnownCertificates, FabricGoalState, NoGS, NewHostPlugin,
       NothingReceived
<1>3. Refreshed /\ CertificatesInSync
    BY Zenon DEF Init, Refreshed, CertificatesInSync
<1> QED
    BY <1>1, <1>2, <1>3, Zenon DEF CertificatesInv

(* What is received or kept is one of the goal states known before.        *)
LEMMA KnownStep == TypeOK /\ KnownCertificates /\ [Next]_vars => KnownCertificates'
<1> SUFFICES ASSUME TypeOK, KnownCertificates, [Next]_vars PROVE KnownCertificates'
    BY Zenon
<1>1. /\ tenantCert \in Nat /\ tenantCert >= 1
      /\ ws.cert \in Nat /\ vm.cert \in Nat /\ snap.cert \in Nat
      /\ hp.cached.cert \in Nat /\ got.settings.cert \in Nat /\ egs.cert \in Nat
    BY CertificateNumbers, Zenon
<1>2. NoGS.cert = 0 /\ NothingReceived.settings.cert = 0
    BY Zenon DEF NothingReceived, NoGS
<1>3. CASE PublishFabric
  <2>1. ws'.cert = 0 /\ vm'.cert = 0
    BY <1>3, Zenon DEF PublishFabric, FabricGoalState
  <2>2. UNCHANGED <<tenantCert, snap, hp, got, egs>>
    BY <1>3, Zenon DEF PublishFabric, agent, memory
  <2> QED
    BY <1>1, <2>1, <2>2 DEF KnownCertificates
<1>4. CASE PublishFastTrack
  <2>1. vm'.cert = tenantCert
    BY <1>4, Zenon DEF PublishFastTrack, FastTrackGoalState
  <2>2. UNCHANGED <<tenantCert, ws, snap, hp, got, egs>>
    BY <1>4, Zenon DEF PublishFastTrack, agent, memory
  <2> QED
    BY <1>1, <2>1, <2>2 DEF KnownCertificates
<1>5. CASE RegenerateCertificate
  <2>1. tenantCert' = tenantCert + 1 /\ (ws'.cert = ws.cert \/ ws'.cert = 0)
    BY <1>5 DEF RegenerateCertificate, FabricGoalState
  <2>2. UNCHANGED <<vm, snap, hp, got, egs>>
    BY <1>5, Zenon DEF RegenerateCertificate, agent, memory
  <2> QED
    BY <1>1, <2>1, <2>2 DEF KnownCertificates
<1>6. CASE NextCheckIsDue
  <2>1. hp'.cached = hp.cached
    BY <1>6, Zenon DEF NextCheckIsDue, TypeOK, MemoryTypeOK, HostPlugins
  <2>2. UNCHANGED <<tenantCert, ws, vm, snap, got, egs>>
    BY <1>6, Zenon DEF NextCheckIsDue, services
  <2> QED
    BY <2>1, <2>2, Zenon DEF KnownCertificates
<1>7. CASE FetchGoalState
  <2>1. /\ snap' \in {snap, ws}
        /\ got' \in {got, NothingReceived}
        /\ UNCHANGED <<tenantCert, ws, vm, hp, egs>>
    BY <1>7, Zenon DEF FetchGoalState, UpdateFails, services
  <2> QED
    BY <1>1, <1>2, <2>1 DEF KnownCertificates
<1>8. CASE FetchVmSettings
  <2>1. UNCHANGED <<tenantCert, ws, vm, snap, egs>>
    BY <1>8, Zenon DEF FetchVmSettings, UpdateFails, services
  <2>2. AfterNotSupported.cached = hp.cached /\ AfterSettings.cached = vm
    BY Zenon DEF TypeOK, MemoryTypeOK, HostPlugins, AfterNotSupported, AfterSettings
  <2>3. hp' \in {hp, AfterNotSupported, AfterSettings}
    BY <1>8, Zenon DEF FetchVmSettings, UpdateFails, NotSupported, NotModified,
       NewSettings
  <2>4. got'.settings \in {got.settings, hp.cached, vm, NoGS}
    <3>1. \/ Receives(vm, TRUE) \/ Receives(hp.cached, FALSE)
          \/ got' = NothingReceived \/ got' = got
      BY <1>8, Zenon DEF FetchVmSettings, UpdateFails, NotSupported, NotModified,
         NewSettings
    <3> QED
      BY <3>1 DEF Receives, NothingReceived
  <2> QED
    BY <1>1, <1>2, <2>1, <2>2, <2>3, <2>4 DEF KnownCertificates
<1>9. CASE Decide \/ RestoreWireServerGoalState
  <2>1. UNCHANGED <<tenantCert, ws, vm, snap, hp, got>>
    BY <1>9, Zenon DEF Decide, RestoreWireServerGoalState, UpdateFails,
       FetchingFullGoalStateFails, services
  <2>2. \/ egs' \in {egs, snap, got.settings}
        \/ egs' = [snap EXCEPT !.outdated = snap.created < hp.ts]
    BY <1>9, Zenon DEF Decide, RestoreWireServerGoalState, UpdateFails,
       FetchingFullGoalStateFails, MostRecent
  <2>3. egs'.cert \in {egs.cert, snap.cert, got.settings.cert}
    BY <2>2, Zenon DEF TypeOK, MemoryTypeOK, GoalStates
  <2> QED
    BY <2>1, <2>3, Zenon DEF KnownCertificates
<1>10. CASE InitializeGoalState
  <2>1. UNCHANGED <<tenantCert, ws, vm, snap, hp, got>>
    BY <1>10, Zenon DEF InitializeGoalState, services
  <2>2. egs'.cert = egs.cert
    BY <1>10, Zenon DEF InitializeGoalState, TypeOK, MemoryTypeOK, GoalStates
  <2> QED
    BY <2>1, <2>2, Zenon DEF KnownCertificates
<1>11. CASE Restart
  <2>1. UNCHANGED <<tenantCert, ws, vm>>
    BY <1>11, Zenon DEF Restart, services
  <2>2. egs' = NoGS /\ snap' = NoGS /\ got'.settings = NoGS /\ hp'.cached = NoGS
    BY <1>11, Zenon DEF Restart, NewHostPlugin, NothingReceived
  <2> QED
    BY <1>1, <1>2, <2>1, <2>2 DEF KnownCertificates
<1>12. CASE MigrateVm \/ RefreshGoalState \/ UpdateCompleted \/ ExecuteExtensions
            \/ ReportStatus \/ ReportStatusAfterFailure \/ UNCHANGED vars
  <2>1. UNCHANGED <<tenantCert, ws, vm, snap, hp, got, egs>>
    BY <1>12, Zenon DEF MigrateVm, RefreshGoalState, UpdateCompleted,
       ExecuteExtensions, ReportStatus, ReportStatusAfterFailure, vars,
       services, memory, agent
  <2> QED
    BY <2>1, Zenon DEF KnownCertificates
<1> QED
    BY <1>3, <1>4, <1>5, <1>6, <1>7, <1>8, <1>9, <1>10, <1>11, <1>12, Zenon
       DEF Next, ServicesNext, AgentNext

(* The end of an attempt at an update that was forced: what is in memory   *)
(* does not need the WireServer's certificate, or it is on disk.           *)
LEMMA RefreshedStep == CertificatesInv /\ [Next]_vars => Refreshed'
<1> SUFFICES ASSUME CertificatesInv, [Next]_vars, (pc = "check" /\ Forced)'
             PROVE  (egs.cert = tenantCert => egs.cert \in certs \/ badCert)'
    BY Zenon DEF Refreshed
<1>1. CASE RegenerateCertificate
  <2>1. egs'.cert <= tenantCert /\ tenantCert' = tenantCert + 1
    BY <1>1, Zenon DEF RegenerateCertificate, CertificatesInv, KnownCertificates,
       agent, memory
  <2> QED
    BY <2>1, CertificateNumbers DEF CertificatesInv
<1>2. CASE Decide \/ RestoreWireServerGoalState
  <2>1. tenantCert' = tenantCert
    BY <1>2, Zenon DEF Decide, RestoreWireServerGoalState, UpdateFails,
       FetchingFullGoalStateFails, services
  <2>2. tenantCert \in certs' \/ badCert'
    BY <1>2, Zenon DEF Decide, RestoreWireServerGoalState, UpdateFails,
       FetchingFullGoalStateFails, FetchFullGoalState, GoalStateUpdated, Forced
  <2> QED
    BY <2>1, <2>2, Zenon
<1>3. CASE PublishFabric \/ PublishFastTrack \/ MigrateVm \/ NextCheckIsDue
           \/ UNCHANGED vars
  <2>1. UNCHANGED <<tenantCert, egs, certs, badCert, pc, attempt>>
    BY <1>3, Zenon DEF PublishFabric, PublishFastTrack, MigrateVm, NextCheckIsDue,
       vars, services, memory, agent, history
  <2> QED
    BY <2>1, Zenon DEF CertificatesInv, Refreshed, Forced
<1>4. CASE AgentNext /\ ~Decide /\ ~RestoreWireServerGoalState
  <2>1. pc' # "check"
    BY <1>4, Zenon DEF AgentNext, FetchGoalState, FetchVmSettings, UpdateFails,
       NotSupported, NotModified, NewSettings, RefreshGoalState,
       InitializeGoalState, UpdateCompleted, ExecuteExtensions, ReportStatus,
       ReportStatusAfterFailure
  <2> QED
    BY <2>1, Zenon
<1>5. CASE Restart
    BY <1>5, Zenon DEF Restart
<1> QED
    BY <1>1, <1>2, <1>3, <1>4, <1>5, Zenon DEF Next, ServicesNext

(* The main loop goes on to execute what is in memory only when no refresh *)
(* is needed or the last one is over.                                      *)
LEMMA InSyncStep == CertificatesInv /\ [Next]_vars => CertificatesInSync'
<1> SUFFICES ASSUME CertificatesInv, [Next]_vars,
                    (pc = "execute" /\ IsNew /\ egs.source = "FastTrack"
                        /\ egs.cert = tenantCert)'
             PROVE  (egs.cert \in certs \/ badCert)'
    BY Zenon DEF CertificatesInSync
<1>1. CASE RegenerateCertificate
  <2>1. egs'.cert <= tenantCert /\ tenantCert' = tenantCert + 1
    BY <1>1, Zenon DEF RegenerateCertificate, CertificatesInv, KnownCertificates,
       agent, memory
  <2> QED
    BY <2>1, CertificateNumbers DEF CertificatesInv
<1>2. CASE UpdateCompleted
  <2>1. UNCHANGED <<tenantCert, egs, certs, badCert, last>>
    BY <1>2, Zenon DEF UpdateCompleted, services, history
  <2>2. IsNew /\ egs.source = "FastTrack" /\ egs.cert = tenantCert
    BY <2>1, Zenon DEF IsNew
  <2>3. pc = "check" /\ (CertificatesOnDisk \/ ~(attempt < 2))
    BY <1>2, <2>2, ZenonT(60) DEF UpdateCompleted, RefreshNeeded
  <2>4. CASE CertificatesOnDisk
    BY <2>1, <2>2, <2>4, CertificateNumbers DEF CertificatesInv, CertificatesOnDisk
  <2>5. CASE ~(attempt < 2)
    <3>1. Forced
      BY <2>5, CertificateNumbers DEF CertificatesInv, Forced
    <3> QED
      BY <2>1, <2>2, <2>3, <3>1, Zenon DEF CertificatesInv, Refreshed
  <2> QED
    BY <2>3, <2>4, <2>5, Zenon
<1>3. CASE PublishFabric \/ PublishFastTrack \/ MigrateVm \/ NextCheckIsDue
           \/ UNCHANGED vars
  <2>1. UNCHANGED <<tenantCert, egs, certs, badCert, pc, last>>
    BY <1>3, Zenon DEF PublishFabric, PublishFastTrack, MigrateVm, NextCheckIsDue,
       vars, services, memory, agent, history
  <2>2. IsNew
    BY <2>1, Zenon DEF IsNew
  <2> QED
    BY <2>1, <2>2, Zenon DEF CertificatesInv, CertificatesInSync
<1>4. CASE AgentNext /\ ~UpdateCompleted
  <2>1. pc' # "execute"
    BY <1>4, Zenon DEF AgentNext, FetchGoalState, FetchVmSettings, UpdateFails, Decide,
       RestoreWireServerGoalState, FetchingFullGoalStateFails,
       NotSupported, NotModified, NewSettings, RefreshGoalState,
       InitializeGoalState, ExecuteExtensions, ReportStatus,
       ReportStatusAfterFailure
  <2> QED
    BY <2>1, Zenon
<1>5. CASE Restart
    BY <1>5, Zenon DEF Restart
<1> QED
    BY <1>1, <1>2, <1>3, <1>4, <1>5, Zenon DEF Next, ServicesNext

----------------------------------------------------------------------------
(* No goal state twice.  Without migrations the goal state in memory only  *)
(* moves forward in time, so that an ID it has left never comes back.      *)

(* The services.  No Fabric goal state has the creation time of one that   *)
(* was published via Fast Track.                                           *)
Published ==
    /\ supported
    /\ ws.source = "Fabric"
    /\ ws.num >= 1
    /\ ws.created <= clock
    /\ vm.num >= 1
    /\ vm.created <= clock
    /\ vm.source = "FastTrack" => ws.created < vm.created

(* The goal state document of an update.                                   *)
Fetched ==
    /\ pc # "restore"
    /\ Updating =>
         /\ snap.source = "Fabric"
         /\ snap.num >= 1
         /\ inc <= snap.num
         /\ snap.num <= ws.num
         /\ snap.created <= ws.created
         /\ snap.num = ws.num => snap.created = ws.created

(* A goal state that came via Fast Track.                                  *)
Tracked(g) ==
    g.source = "FastTrack" =>
        /\ g.num >= 1
        /\ g.created <= clock
        /\ g.created # ws.created
        /\ Updating => g.created # snap.created

(* What is cached under the current ETag is what the plugin serves, and an *)
(* update receives what is cached.                                         *)
Cached ==
    /\ hp.recheck
    /\ hp.cached.num <= vm.num
    /\ (hp.cached # NoGS /\ hp.cached.num = vm.num) => hp.cached = vm
    /\ Tracked(hp.cached)
    /\ pc = "decide" =>
         \/ got.settings.source = "FastTrack" /\ got.settings = hp.cached
         \/ got = NothingReceived

(* The goal state in memory is the last incarnation that was fetched, or a *)
(* Fast Track goal state created after it.                                 *)
FromFabric ==
    egs.source = "Fabric" =>
        /\ egs.num = inc
        /\ egs.created <= ws.created
        /\ inc = ws.num => egs.created = ws.created
        /\ Updating => egs.created <= snap.created
        /\ Updating /\ inc = snap.num => egs.created = snap.created

FromFastTrack ==
    egs.source = "FastTrack" =>
        /\ Tracked(egs)
        /\ inc = ws.num => ws.created < egs.created
        /\ Updating /\ inc = snap.num => snap.created < egs.created
        /\ egs.num <= hp.cached.num
        /\ egs.num = hp.cached.num =>
             hp.cached.source = "FastTrack" /\ hp.cached.created = egs.created

InMemory ==
    /\ inc <= ws.num
    /\ egs.source = "none" <=> inc = 0
    /\ egs.source = "none" => egs = NoGS
    /\ pc \in {"check", "execute"} => inc # 0

(* What this process has executed: nothing later than what is in memory    *)
(* and what is cached, and the one in memory only if it was the last.      *)
Executions ==
    /\ \A i \in ran : i[1] = "Fabric" => i[2] <= inc
    /\ \A i \in ran : i[1] = "FastTrack" => 1 <= i[2] /\ i[2] <= hp.cached.num
    /\ \A i \in ran : i[1] # "none"
    /\ (hp.cached.source = "FastTrack" /\ Id(hp.cached) \in ran) =>
         /\ hp.cached.created <= egs.created
         /\ hp.cached.created = egs.created => Id(egs) = Id(hp.cached)
    /\ Id(egs) \in ran => Id(egs) = last \/ pc = "report"

OnceInv ==
    /\ TypeOK
    /\ Published
    /\ Fetched
    /\ Cached
    /\ FromFabric
    /\ FromFastTrack
    /\ InMemory
    /\ Executions

(* The types that the arithmetic below needs.                              *)
LEMMA OnceTypes ==
    ASSUME TypeOK
    PROVE  /\ clock \in Nat /\ inc \in Nat
           /\ ws.num \in Nat /\ ws.created \in Nat
           /\ vm.num \in Nat /\ vm.created \in Nat
           /\ snap.num \in Nat /\ snap.created \in Nat
           /\ hp.cached.num \in Nat /\ hp.cached.created \in Nat
           /\ got.settings.num \in Nat /\ got.settings.created \in Nat
           /\ egs.num \in Nat /\ egs.created \in Nat
           /\ egs.source \in {"Fabric", "FastTrack", "none"}
           /\ hp.cached.source \in {"Fabric", "FastTrack", "none"}
           /\ vm.source \in {"Fabric", "FastTrack", "none"}
           /\ ran \subseteq Ids
<1>1. clock \in Nat /\ inc \in Nat /\ ran \subseteq Ids
    BY BoundsAssumption DEF TypeOK, ServicesTypeOK, MemoryTypeOK, HistoryTypeOK
<1>2. /\ ws \in GoalStates /\ vm \in GoalStates /\ snap \in GoalStates
      /\ hp.cached \in GoalStates /\ got.settings \in GoalStates
      /\ egs \in GoalStates
    BY Zenon DEF TypeOK, ServicesTypeOK, MemoryTypeOK, HostPlugins
<1> QED
    BY <1>1, <1>2, Zenon DEF GoalStates, Sources

(* The first process has executed nothing.                                 *)
LEMMA OnceInit == Init => OnceInv
<1> SUFFICES ASSUME Init PROVE OnceInv
    BY Zenon
<1>1. TypeOK
    BY TypeInit, Zenon
<1>2. /\ NoGS.num = 0 /\ NoGS.source = "none"
      /\ ws.source = "Fabric" /\ ws.num = 1 /\ ws.created = 1
      /\ vm.source = "Fabric" /\ vm.num = 1 /\ vm.created = 1
      /\ hp.cached = NoGS /\ hp.recheck
    BY Zenon DEF Init, NoGS, FabricGoalState, NewHostPlugin
<1>3. clock = 1 /\ supported /\ inc = 0 /\ egs = NoGS /\ ran = {} /\ pc = "update"
    BY Zenon DEF Init
<1> QED
    BY <1>1, <1>2, <1>3 DEF OnceInv, Published, Fetched, Cached, Tracked,
       FromFabric, FromFastTrack, InMemory, Executions, Updating

(* A step that ends an update, or is outside one, and leaves the goal      *)
(* state in memory alone but for the outdated mark.                        *)
LEMMA QuietStep ==
    ASSUME OnceInv,
           UNCHANGED <<clock, ws, vm, supported, hp, inc>>,
           egs'.source = egs.source, egs'.num = egs.num,
           egs'.created = egs.created,
           egs' = egs \/ inc # 0,
           pc' \in {"update", "execute", "report", "reportFailure"},
           pc' = "execute" => inc # 0
    PROVE  /\ Published' /\ Fetched' /\ Cached' /\ FromFabric' /\ FromFastTrack'
           /\ InMemory'
<1>1. ~Updating' /\ pc' # "decide" /\ pc' # "restore" /\ pc' # "check"
    BY Zenon DEF Updating
<1>2. Published' /\ Fetched'
    BY <1>1, Zenon DEF OnceInv, Published, Fetched
<1>3. Cached'
    BY <1>1, Zenon DEF OnceInv, Cached, Tracked
<1>4. FromFabric'
    BY <1>1, Zenon DEF OnceInv, FromFabric
<1>5. FromFastTrack'
    BY <1>1, Zenon DEF OnceInv, FromFastTrack, Tracked
<1>6. InMemory'
    BY <1>1, Zenon DEF OnceInv, InMemory
<1> QED
    BY <1>2, <1>3, <1>4, <1>5, <1>6, Zenon

(* A step that executes nothing and keeps IDs, or only sees new ones.      *)
LEMMA NothingExecuted ==
    ASSUME OnceInv,
           UNCHANGED <<hp, ran, last>>,
           inc' = inc, Id(egs)' = Id(egs), egs'.created = egs.created,
           pc = "report" => pc' = "report"
    PROVE  Executions'
<1>1. Id(hp.cached)' = Id(hp.cached)
    BY Zenon DEF Id
<1> QED
    BY <1>1, Zenon DEF OnceInv, Executions

(* The services publish: their numbers grow, and no goal state of the      *)
(* agent has the new creation time.                                        *)
LEMMA PublishOnce ==
    ASSUME OnceInv, PublishFabric \/ PublishFastTrack \/ RegenerateCertificate
    PROVE  OnceInv'
<1>1. TypeOK'
    BY TypeStep, Zenon DEF OnceInv, Next, ServicesNext
<1>2. /\ UNCHANGED <<supported, hp, inc, egs, last, pc, snap, got, ran>>
      /\ UNCHANGED Updating
    BY ZenonT(60) DEF PublishFabric, PublishFastTrack, RegenerateCertificate, agent,
       memory, history, Updating
<1>3. /\ clock <= clock' /\ ws.num <= ws'.num /\ ws.created <= ws'.created
      /\ ws'.source = "Fabric" /\ ws'.num \in Nat /\ ws'.created \in Nat
      /\ vm.num <= vm'.num /\ vm'.num \in Nat /\ vm'.created \in Nat
      /\ vm' = vm \/ vm.num < vm'.num
      /\ ws'.num = ws.num => ws'.created = ws.created
      /\ ws'.created = ws.created \/ ws'.created > clock
      /\ ws'.created <= clock' /\ vm'.created <= clock' /\ clock' \in Nat
      /\ vm'.source = "FastTrack" => ws'.created < vm'.created
  <2>1. CASE PublishFabric
    <3>1. /\ ws'.source = "Fabric" /\ ws'.num = ws.num + 1 /\ ws'.created = clock + 1
          /\ vm'.source = "Fabric" /\ vm'.num = vm.num + 1 /\ vm'.created = clock + 1
          /\ clock' = clock + 1
      BY <2>1, Zenon DEF PublishFabric, FabricGoalState
    <3> QED
      BY <3>1, OnceTypes DEF OnceInv, Published
  <2>2. CASE PublishFastTrack
    <3>1. /\ ws' = ws /\ clock' = clock + 1
          /\ vm'.num = vm.num + 1 /\ vm'.created = clock + 1
      BY <2>2, Zenon DEF PublishFastTrack, FastTrackGoalState
    <3> QED
      BY <3>1, OnceTypes DEF OnceInv, Published
  <2>3. CASE RegenerateCertificate
    <3>1. /\ ws'.source = "Fabric" /\ ws'.num \in {ws.num, ws.num + 1}
          /\ ws'.created = ws.created
      BY <2>3 DEF RegenerateCertificate, FabricGoalState, OnceInv, Published
    <3>2. vm' = vm /\ clock' = clock
      BY <2>3, Zenon DEF RegenerateCertificate
    <3> QED
      BY <3>1, <3>2, OnceTypes DEF OnceInv, Published
  <2> QED
    BY <2>1, <2>2, <2>3, Zenon
<1>4. Published'
    BY <1>2, <1>3, OnceTypes DEF OnceInv, Published
<1>5. Fetched'
    BY <1>2, <1>3, OnceTypes DEF OnceInv, Fetched, Published
<1>6. ASSUME NEW g \in {egs, hp.cached}, Tracked(g), g.source = "FastTrack"
      PROVE  /\ g.num >= 1 /\ g.created <= clock' /\ g.created # ws'.created
             /\ Updating => g.created # snap.created
    BY <1>3, <1>6, OnceTypes DEF OnceInv, Tracked
<1>7. Cached'
  <2>1. Tracked(hp.cached)'
    BY <1>2, <1>6, Zenon DEF OnceInv, Cached, Tracked
  <2>2. (hp.cached # NoGS /\ hp.cached.num = vm'.num) => hp.cached = vm'
    BY <1>3, OnceTypes DEF OnceInv, Cached
  <2> QED
    BY <1>2, <1>3, <2>1, <2>2, OnceTypes DEF OnceInv, Cached
<1>8. FromFabric'
    BY <1>2, <1>3, OnceTypes DEF OnceInv, FromFabric, InMemory
<1>9. FromFastTrack'
  <2>1. egs.source = "FastTrack" => Tracked(egs)'
    BY <1>2, <1>6, Zenon DEF OnceInv, FromFastTrack, Tracked
  <2>2. inc = ws'.num => inc = ws.num /\ ws'.created = ws.created
    BY <1>3, OnceTypes DEF OnceInv, InMemory
  <2> QED
    BY <1>2, <2>1, <2>2, ZenonT(60) DEF OnceInv, FromFastTrack
<1>10. InMemory'
    BY <1>2, <1>3, OnceTypes DEF OnceInv, InMemory
<1>11. Executions'
    BY <1>2, NothingExecuted, Zenon DEF Id
<1> QED
    BY <1>1, <1>4, <1>5, <1>7, <1>8, <1>9, <1>10, <1>11, Zenon DEF OnceInv

(* An update that gives up.                                                *)
LEMMA FailOnce ==
    ASSUME OnceInv, NEW request, UpdateFails(request), pc # "report"
    PROVE  /\ Published' /\ Fetched' /\ Cached' /\ FromFabric' /\ FromFastTrack'
           /\ InMemory' /\ Executions'
<1>1. /\ UNCHANGED <<clock, ws, vm, supported, hp, inc, egs, ran, last>>
      /\ pc' \in {"update", "reportFailure"}
    BY Zenon DEF UpdateFails, services
<1> QED
    BY <1>1, QuietStep, NothingExecuted, Zenon DEF Id

(* The document is fetched.                                                *)
LEMMA FetchGoalStateOnce == ASSUME OnceInv, FetchGoalState PROVE OnceInv'
<1>1. TypeOK'
    BY TypeStep, Zenon DEF OnceInv, Next, AgentNext
<1>2. CASE UpdateFails("goalState")
    BY <1>1, <1>2, FailOnce, Zenon DEF FetchGoalState, OnceInv
<1>3. CASE ~UpdateFails("goalState")
  <2>1. /\ UNCHANGED <<clock, ws, vm, supported, hp, inc, egs, last, ran>>
        /\ snap' = ws /\ got' = NothingReceived
        /\ pc = "update" /\ pc' \in {"vmSettings", "decide"}
    BY <1>3, Zenon DEF FetchGoalState, services, history
  <2>2. Published'
    BY <2>1, Zenon DEF OnceInv, Published
  <2>3. Fetched'
    BY <2>1, OnceTypes DEF OnceInv, Fetched, Published, InMemory
  <2>4. Cached'
    BY <2>1, Zenon DEF OnceInv, Cached, Tracked
  <2>5. FromFabric'
    BY <2>1, Zenon DEF OnceInv, FromFabric
  <2>6. FromFastTrack'
    BY <2>1, Zenon DEF OnceInv, FromFastTrack, Tracked
  <2>7. InMemory'
    BY <2>1, Zenon DEF OnceInv, InMemory
  <2>8. Executions'
    BY <2>1, NothingExecuted, Zenon DEF Id
  <2> QED
    BY <1>1, <2>2, <2>3, <2>4, <2>5, <2>6, <2>7, <2>8, Zenon DEF OnceInv
<1> QED
    BY <1>2, <1>3, Zenon

(* The vmSettings are fetched: the cache moves on to what the plugin       *)
(* serves, which has a new ETag unless it is what was cached.              *)
LEMMA FetchVmSettingsOnce == ASSUME OnceInv, FetchVmSettings PROVE OnceInv'
<1>1. TypeOK'
    BY TypeStep, Zenon DEF OnceInv, Next, AgentNext
<1>2. CASE UpdateFails("vmSettings")
    BY <1>1, <1>2, FailOnce, Zenon DEF FetchVmSettings, OnceInv
<1>3. CASE ~UpdateFails("vmSettings")
  <2>1. /\ UNCHANGED <<clock, ws, vm, supported, inc, egs, last, ran, snap>>
        /\ pc = "vmSettings"
    BY <1>3, Zenon DEF FetchVmSettings, services, history
  <2>2. (Unmodified /\ NotModified) \/ NewSettings
    BY <1>3, Zenon DEF FetchVmSettings, OnceInv, Published, Cached, WillRequest
  <2>3. pc' = "decide"
    BY <2>2, Zenon DEF NotModified, NewSettings
  <2>4. hp'.cached = vm /\ hp'.recheck
    <3>1. CASE NewSettings
      BY <3>1, Zenon DEF NewSettings, AfterSettings, OnceInv, Cached, TypeOK, MemoryTypeOK,
         HostPlugins
    <3>2. CASE Unmodified /\ NotModified
      BY <3>2, Zenon DEF Unmodified, NotModified, OnceInv, Cached
    <3> QED
      BY <2>2, <3>1, <3>2, Zenon
  <2>5. \/ got'.settings.source = "FastTrack" /\ got'.settings = vm
        \/ got' = NothingReceived
    <3>1. Receives(vm, TRUE) \/ Receives(vm, FALSE)
      BY <2>2, ZenonT(60) DEF NewSettings, NotModified, Unmodified, OnceInv, Cached
    <3> QED
      BY <3>1 DEF Receives
  <2>6. Published' /\ Fetched'
    BY <2>1, <2>3, Zenon DEF OnceInv, Published, Fetched, Updating
  <2>7. Tracked(vm)'
    BY <2>1, <2>3, OnceTypes DEF OnceInv, Published, Fetched, Tracked, Updating
  <2>8. Cached'
    BY <2>1, <2>4, <2>5, <2>7, OnceTypes DEF OnceInv, Cached, Tracked
  <2>9. FromFabric'
    BY <2>1, <2>3, Zenon DEF OnceInv, FromFabric, Updating
  <2>10. FromFastTrack'
    <3>1. SUFFICES ASSUME egs.source = "FastTrack" PROVE FromFastTrack'
      BY <2>1, Zenon DEF FromFastTrack
    <3>2. Tracked(egs)'
      BY <2>1, <2>3, <3>1, Zenon DEF OnceInv, FromFastTrack, Tracked, Updating
    <3>3. egs.num <= vm.num
      BY <3>1, OnceTypes DEF OnceInv, FromFastTrack, Cached
    <3>4. egs.num = vm.num => vm.source = "FastTrack" /\ vm.created = egs.created
      <4>1. SUFFICES ASSUME egs.num = vm.num
                     PROVE  vm.source = "FastTrack" /\ vm.created = egs.created
        BY Zenon
      <4>2. hp.cached.num = vm.num /\ hp.cached.source = "FastTrack"
            /\ hp.cached.created = egs.created
        BY <3>1, <4>1, OnceTypes DEF OnceInv, FromFastTrack, Cached
      <4>3. hp.cached = vm
        BY <4>2 DEF OnceInv, Cached, NoGS
      <4> QED
        BY <4>2, <4>3, Zenon
    <3> QED
      BY <2>1, <2>3, <2>4, <3>1, <3>2, <3>3, <3>4, Zenon DEF OnceInv, FromFastTrack, Updating
  <2>11. InMemory'
    BY <2>1, <2>3, Zenon DEF OnceInv, InMemory
  <2>12. Executions'
    <3>1. (vm.source = "FastTrack" /\ Id(vm) \in ran) => hp.cached = vm
      <4>1. SUFFICES ASSUME vm.source = "FastTrack", Id(vm) \in ran
                     PROVE  hp.cached = vm
        BY Zenon
      <4>2. Id(vm)[1] = "FastTrack" /\ Id(vm)[2] = vm.num
        BY <4>1, Zenon DEF Id
      <4>3. 1 <= vm.num /\ vm.num <= hp.cached.num
        BY <4>1, <4>2, Zenon DEF OnceInv, Executions
      <4>4. hp.cached.num = vm.num /\ hp.cached # NoGS
        BY <4>3, OnceTypes DEF OnceInv, Cached, NoGS
      <4> QED
        BY <4>4, Zenon DEF OnceInv, Cached
    <3>2. Id(hp.cached)' = Id(vm) /\ Id(egs)' = Id(egs)
      BY <2>1, <2>4, Zenon DEF Id
    <3>3. \A i \in ran : i[1] = "FastTrack" => 1 <= i[2] /\ i[2] <= vm.num
      <4>1. SUFFICES ASSUME NEW i \in ran, i[1] = "FastTrack"
                     PROVE  1 <= i[2] /\ i[2] <= vm.num
        BY Zenon
      <4>2. i[2] \in Nat
        BY OnceTypes, Zenon DEF OnceInv, Ids
      <4> QED
        BY <4>1, <4>2, OnceTypes DEF OnceInv, Executions, Cached
    <3> QED
      BY <2>1, <2>4, <3>1, <3>2, <3>3, Zenon DEF OnceInv, Executions
  <2> QED
    BY <1>1, <2>6, <2>8, <2>9, <2>10, <2>11, <2>12, Zenon DEF OnceInv
<1> QED
    BY <1>2, <1>3, Zenon

(* The decision: a goal state in memory is replaced only by one that is    *)
(* not older, and one that was executed before is older.                   *)
LEMMA DecideOnce == ASSUME OnceInv, Decide PROVE OnceInv'
<1>1. TypeOK'
    BY TypeStep, Zenon DEF OnceInv, Next, AgentNext
<1>2. CASE FetchingFullGoalStateFails
    BY <1>1, <1>2, FailOnce, Zenon DEF Decide, FetchingFullGoalStateFails, OnceInv
<1>3. CASE ~FetchingFullGoalStateFails
  <2>1. /\ UNCHANGED <<clock, ws, vm, supported, hp, last, ran, snap, got>>
        /\ pc = "decide" /\ pc' = "check"
        /\ inc' = IF GoalStateUpdated THEN snap.num ELSE inc
        /\ egs' = IF (GoalStateUpdated \/ got.updated) /\ Replaces(MostRecent)
                  THEN MostRecent ELSE egs
    BY <1>3, Zenon DEF Decide, FetchFullGoalState, services, history
  <2>2. ~Updating' /\ Updating
    BY <2>1, Zenon DEF Updating
  <2>3. /\ snap.source = "Fabric" /\ snap.num >= 1 /\ inc <= snap.num
        /\ snap.num <= ws.num /\ snap.created <= ws.created
        /\ snap.num = ws.num => snap.created = ws.created
    BY <2>2, Zenon DEF OnceInv, Fetched
  <2>4. \/ got.settings.source = "FastTrack" /\ got.settings = hp.cached
        \/ got = NothingReceived
    BY <2>1, Zenon DEF OnceInv, Cached
  <2>5. /\ NothingReceived.settings = NoGS /\ ~NothingReceived.updated
        /\ NoGS.source = "none" /\ NoGS.created = 0 /\ NoGS.num = 0
    BY Zenon DEF NothingReceived, NoGS
  <2>6. /\ inc' \in Nat /\ inc <= inc' /\ inc' = snap.num
        /\ ~GoalStateUpdated => inc = snap.num
    BY <2>1, <2>3, OnceTypes, Zenon DEF GoalStateUpdated, OnceInv
  <2>7. /\ egs = NoGS => inc = 0
        /\ egs # NoGS => egs.source \in {"Fabric", "FastTrack"}
        /\ egs.source # "none" => egs # NoGS
    BY <2>5, OnceTypes, Zenon DEF OnceInv, InMemory
  (* What comes into memory, and when. *)
  <2>8. \/ /\ egs' = egs
           /\ ~GoalStateUpdated \/ (egs # NoGS /\ snap.created < egs.created)
        \/ /\ egs' = snap
           /\ egs = NoGS \/ egs.created <= snap.created
        \/ /\ egs' = hp.cached /\ hp.cached.source = "FastTrack"
           /\ egs = NoGS \/ egs.created <= hp.cached.created
           /\ ~GoalStateUpdated \/ snap.created < hp.cached.created
    <3>1. CASE GoalStateUpdated
      <4>1. \/ MostRecent = snap /\ got.settings.created <= snap.created
            \/ /\ MostRecent = hp.cached /\ hp.cached.source = "FastTrack"
               /\ snap.created < hp.cached.created
        BY <2>4, <2>5, <3>1, OnceTypes DEF MostRecent, OnceInv
      <4>2. \/ egs' = MostRecent /\ (egs = NoGS \/ egs.created <= MostRecent.created)
            \/ egs' = egs /\ egs # NoGS /\ MostRecent.created < egs.created
        BY <2>1, <3>1, <4>1, OnceTypes DEF Replaces, OnceInv
      <4> QED
        BY <4>1, <4>2, OnceTypes DEF OnceInv
    <3>2. CASE ~GoalStateUpdated
      <4>1. MostRecent = got.settings
        BY <3>2, Zenon DEF MostRecent
      <4>2. \/ egs' = egs
            \/ /\ egs' = hp.cached /\ hp.cached.source = "FastTrack"
               /\ egs = NoGS \/ egs.created <= hp.cached.created
        BY <2>1, <2>4, <2>5, <3>2, <4>1, OnceTypes, Zenon DEF Replaces, OnceInv
      <4> QED
        BY <3>2, <4>2, Zenon
    <3> QED
      BY <3>1, <3>2, Zenon
  <2>9. Published' /\ Fetched'
    BY <2>1, <2>2, Zenon DEF OnceInv, Published, Fetched
  <2>10. Cached'
    BY <2>1, <2>2, Zenon DEF OnceInv, Cached, Tracked
  <2>11. egs.source = "Fabric" =>
            /\ egs.num = inc
            /\ egs.created <= snap.created
            /\ inc = snap.num => egs.created = snap.created
    BY <2>2, Zenon DEF OnceInv, FromFabric
  <2>12. egs.source = "FastTrack" =>
            /\ egs.num >= 1 /\ egs.created <= clock /\ egs.created # ws.created
            /\ inc = snap.num => snap.created < egs.created
            /\ egs.num <= hp.cached.num
            /\ egs.num = hp.cached.num =>
                 hp.cached.source = "FastTrack" /\ hp.cached.created = egs.created
    BY <2>2, Zenon DEF OnceInv, FromFastTrack, Tracked
  <2>13. hp.cached.source = "FastTrack" =>
            /\ hp.cached.num >= 1 /\ hp.cached.created <= clock
            /\ hp.cached.created # ws.created /\ hp.cached.created # snap.created
    BY <2>2, ZenonT(60) DEF OnceInv, Cached, Tracked
  <2>14. CASE /\ egs' = egs
              /\ ~GoalStateUpdated \/ (egs # NoGS /\ snap.created < egs.created)
    <3>1. egs.source = "Fabric" => inc = snap.num
      BY <2>6, <2>11, <2>14, OnceTypes DEF OnceInv
    <3>2. FromFabric'
      BY <2>1, <2>2, <2>3, <2>6, <2>11, <2>14, <3>1, OnceTypes, ZenonT(60) DEF OnceInv, FromFabric
    <3>3. egs.source = "FastTrack" => snap.created < egs.created
      BY <2>6, <2>12, <2>14, Zenon
    <3>4. FromFastTrack'
      BY <2>1, <2>2, <2>3, <2>6, <2>12, <2>14, <3>3, OnceTypes, ZenonT(60)
         DEF OnceInv, FromFastTrack, Tracked
    <3>5. egs.source # "none"
      <4>1. egs.source = "none" => inc = 0 /\ egs = NoGS
        BY Zenon DEF OnceInv, InMemory
      <4> QED
        BY <2>3, <2>6, <2>14, <4>1, OnceTypes DEF OnceInv
    <3>6. InMemory'
      BY <2>1, <2>3, <2>6, <2>14, <3>5, OnceTypes DEF OnceInv, InMemory
    <3>7. Executions'
      <4>1. Id(egs)' = Id(egs) /\ Id(hp.cached)' = Id(hp.cached)
        BY <2>1, <2>14, Zenon DEF Id
      <4>2. \A i \in ran : i[1] = "Fabric" => i[2] <= inc'
        <5>1. \A i \in ran : i[2] \in Nat
          BY OnceTypes, Zenon DEF OnceInv, Ids
        <5> QED
          BY <2>6, <5>1, OnceTypes DEF OnceInv, Executions
      <4> QED
        BY <2>1, <2>14, <4>1, <4>2, Zenon DEF OnceInv, Executions
    <3> QED
      BY <1>1, <2>9, <2>10, <3>2, <3>4, <3>6, <3>7, Zenon DEF OnceInv
  <2>15. CASE egs' = snap /\ (egs = NoGS \/ egs.created <= snap.created)
    <3>1. FromFabric' /\ FromFastTrack'
      BY <2>1, <2>2, <2>3, <2>6, <2>15, OnceTypes, ZenonT(60) DEF OnceInv, FromFabric, FromFastTrack
    <3>2. InMemory'
      BY <2>1, <2>3, <2>6, <2>15, OnceTypes DEF OnceInv, InMemory
    <3>3. Id(egs)' = <<"Fabric", snap.num>> /\ Id(hp.cached)' = Id(hp.cached)
      BY <2>1, <2>3, <2>15, Zenon DEF Id
    <3>4. \A i \in ran : i[1] = "Fabric" => i[2] <= inc'
      <4>1. \A i \in ran : i[2] \in Nat
        BY OnceTypes, Zenon DEF OnceInv, Ids
      <4> QED
        BY <2>6, <4>1, OnceTypes DEF OnceInv, Executions
    <3>5. (hp.cached.source = "FastTrack" /\ Id(hp.cached) \in ran)
             => hp.cached.created < snap.created
      <4>1. SUFFICES ASSUME hp.cached.source = "FastTrack", Id(hp.cached) \in ran
                     PROVE  hp.cached.created < snap.created
        BY Zenon
      <4>2. /\ hp.cached.created <= egs.created
            /\ hp.cached.created = egs.created => Id(egs) = Id(hp.cached)
        BY <4>1, Zenon DEF OnceInv, Executions
      <4>3. egs # NoGS
        <5>1. SUFFICES ASSUME egs = NoGS PROVE FALSE
          BY Zenon
        <5>2. Id(egs) = Id(hp.cached)
          BY <2>5, <4>2, <5>1, OnceTypes DEF OnceInv
        <5> QED
          BY <2>5, <4>1, <5>1, <5>2, Zenon DEF Id
      <4> QED
        BY <2>13, <2>15, <4>1, <4>2, <4>3, OnceTypes DEF OnceInv
    <3>6. <<"Fabric", snap.num>> \in ran => <<"Fabric", snap.num>> = last
      <4>1. SUFFICES ASSUME <<"Fabric", snap.num>> \in ran
                     PROVE  <<"Fabric", snap.num>> = last
        BY Zenon
      <4>2. snap.num <= inc
        BY <4>1, Zenon DEF OnceInv, Executions
      <4>3. snap.num = inc /\ egs # NoGS
        BY <2>3, <2>7, <4>2, OnceTypes DEF OnceInv
      <4>4. egs.source = "Fabric"
        BY <2>7, <2>12, <2>15, <4>3, OnceTypes DEF OnceInv
      <4>5. Id(egs) = <<"Fabric", snap.num>>
        BY <2>11, <4>3, <4>4, Zenon DEF Id
      <4> QED
        BY <2>1, <4>1, <4>5, Zenon DEF OnceInv, Executions
    <3>7. Executions'
      BY <2>1, <2>15, <3>3, <3>4, <3>5, <3>6, OnceTypes DEF OnceInv, Executions
    <3> QED
      BY <1>1, <2>9, <2>10, <3>1, <3>2, <3>7, Zenon DEF OnceInv
  <2>16. CASE /\ egs' = hp.cached /\ hp.cached.source = "FastTrack"
              /\ egs = NoGS \/ egs.created <= hp.cached.created
              /\ ~GoalStateUpdated \/ snap.created < hp.cached.created
    <3>1. snap.created < hp.cached.created
      <4>1. CASE GoalStateUpdated
        BY <2>16, <4>1, Zenon
      <4>2. CASE ~GoalStateUpdated
        <5>1. inc = snap.num /\ egs # NoGS
          BY <2>3, <2>6, <2>7, <4>2
        <5>2. snap.created <= egs.created
          BY <2>7, <2>11, <2>12, <5>1, OnceTypes DEF OnceInv
        <5> QED
          BY <2>13, <2>16, <5>1, <5>2, OnceTypes DEF OnceInv
      <4> QED
        BY <4>1, <4>2, Zenon
    <3>2. FromFabric' /\ FromFastTrack'
      BY <2>1, <2>2, <2>3, <2>6, <2>13, <2>16, <3>1, OnceTypes
         DEF OnceInv, FromFabric, FromFastTrack, Tracked
    <3>3. InMemory'
      BY <2>1, <2>3, <2>6, <2>16, OnceTypes DEF OnceInv, InMemory
    <3>4. Id(egs)' = Id(hp.cached) /\ Id(hp.cached)' = Id(hp.cached)
      BY <2>1, <2>16, Zenon DEF Id
    <3>5. \A i \in ran : i[1] = "Fabric" => i[2] <= inc'
      <4>1. \A i \in ran : i[2] \in Nat
        BY OnceTypes, Zenon DEF OnceInv, Ids
      <4> QED
        BY <2>6, <4>1, OnceTypes DEF OnceInv, Executions
    <3>6. Id(hp.cached) \in ran => Id(hp.cached) = last
      <4>1. SUFFICES ASSUME Id(hp.cached) \in ran PROVE Id(hp.cached) = last
        BY Zenon
      <4>2. /\ hp.cached.created <= egs.created
            /\ hp.cached.created = egs.created => Id(egs) = Id(hp.cached)
        BY <2>16, <4>1, Zenon DEF OnceInv, Executions
      <4>3. hp.cached.created = egs.created
        BY <2>5, <2>16, <4>2, OnceTypes DEF OnceInv
      <4> QED
        BY <2>1, <4>1, <4>2, <4>3, Zenon DEF OnceInv, Executions
    <3>7. Executions'
      BY <2>1, <2>16, <3>4, <3>5, <3>6, OnceTypes DEF OnceInv, Executions
    <3> QED
      BY <1>1, <2>9, <2>10, <3>2, <3>3, <3>7, Zenon DEF OnceInv
  <2> QED
    BY <2>8, <2>14, <2>15, <2>16, Zenon
<1> QED
    BY <1>2, <1>3, Zenon

(* exthandlers_handler.run: what was executed becomes what is in memory.   *)
LEMMA ExecuteOnce == ASSUME OnceInv, ExecuteExtensions PROVE OnceInv'
<1>1. TypeOK'
    BY TypeStep, Zenon DEF OnceInv, Next, AgentNext
<1>2. /\ UNCHANGED <<clock, ws, vm, supported, hp, inc, egs, last>>
      /\ pc = "execute" /\ pc' = "report"
      /\ ran' = ran \/ ran' = ran \cup {Id(egs)}
    BY Zenon DEF ExecuteExtensions, services, memory
<1>3. /\ Published' /\ Fetched' /\ Cached' /\ FromFabric' /\ FromFastTrack'
      /\ InMemory'
    BY <1>2, QuietStep, Zenon
<1>4. Id(egs)' = Id(egs) /\ Id(hp.cached)' = Id(hp.cached)
    BY <1>2, Zenon DEF Id
<1>5. Id(egs)[1] = egs.source /\ Id(egs)[2] = egs.num
    BY Zenon DEF Id
<1>6. /\ egs.source # "none"
      /\ egs.source = "Fabric" => egs.num <= inc
      /\ egs.source = "FastTrack" => 1 <= egs.num /\ egs.num <= hp.cached.num
    BY <1>2, OnceTypes DEF OnceInv, InMemory, FromFabric, FromFastTrack, Tracked
<1>7. (hp.cached.source = "FastTrack" /\ Id(hp.cached) = Id(egs))
         => hp.cached.created = egs.created
    BY Zenon DEF OnceInv, FromFastTrack, Id
<1>8. Executions'
    BY <1>2, <1>4, <1>5, <1>6, <1>7, OnceTypes DEF OnceInv, Executions
<1> QED
    BY <1>1, <1>3, <1>8, Zenon DEF OnceInv

(* The other steps of the main loop leave the goal state in memory alone.  *)
LEMMA LoopOnce ==
    ASSUME OnceInv,
           RefreshGoalState \/ InitializeGoalState \/ UpdateCompleted \/ ReportStatus
              \/ ReportStatusAfterFailure
    PROVE  OnceInv'
<1>1. TypeOK'
    BY TypeStep, Zenon DEF OnceInv, Next, AgentNext
<1>2. /\ UNCHANGED <<clock, ws, vm, supported, hp, inc, ran>>
      /\ pc' \in {"update", "execute"}
      /\ pc' = "execute" => pc = "check"
      /\ \/ last' = last /\ pc # "report"
         \/ last' = Id(egs) /\ egs' = egs
    BY Zenon DEF RefreshGoalState, InitializeGoalState, UpdateCompleted,
       ReportStatus, ReportStatusAfterFailure, services, memory, history
<1>3. /\ egs'.source = egs.source /\ egs'.num = egs.num
      /\ egs'.created = egs.created
      /\ egs' = egs \/ pc = "check"
  <2>1. CASE InitializeGoalState
    BY <2>1, Zenon DEF InitializeGoalState, OnceInv, TypeOK, MemoryTypeOK, GoalStates
  <2>2. CASE ~InitializeGoalState
    BY <2>2, Zenon DEF RefreshGoalState, UpdateCompleted, ReportStatus,
       ReportStatusAfterFailure, memory
  <2> QED
    BY <2>1, <2>2, Zenon
<1>4. pc = "check" => inc # 0
    BY Zenon DEF OnceInv, InMemory
<1>5. /\ Published' /\ Fetched' /\ Cached' /\ FromFabric' /\ FromFastTrack'
      /\ InMemory'
    BY <1>2, <1>3, <1>4, QuietStep, Zenon
<1>6. Id(egs)' = Id(egs) /\ Id(hp.cached)' = Id(hp.cached)
    BY <1>2, <1>3, Zenon DEF Id
<1>7. Executions'
  <2>1. CASE last' = last /\ pc # "report"
    BY <1>2, <1>3, <1>6, <2>1, NothingExecuted, Zenon
  <2>2. CASE last' = Id(egs) /\ egs' = egs
    BY <1>2, <1>6, <2>2, Zenon DEF OnceInv, Executions
  <2> QED
    BY <1>2, <2>1, <2>2, Zenon
<1> QED
    BY <1>1, <1>5, <1>7, Zenon DEF OnceInv

(* A new process has nothing in memory and has executed nothing.           *)
LEMMA RestartOnce == ASSUME OnceInv, Restart PROVE OnceInv'
<1>1. TypeOK'
    BY TypeStep, Zenon DEF OnceInv, Next
<1>2. /\ UNCHANGED <<clock, ws, vm, supported>>
      /\ inc' = 0 /\ egs' = NoGS /\ pc' = "update" /\ ran' = {}
    BY Zenon DEF Restart, services
<1>3. hp'.cached = NoGS /\ hp'.recheck
    BY Zenon DEF Restart, NewHostPlugin
<1>4. NoGS.source = "none" /\ NoGS.num = 0
    BY Zenon DEF NoGS
<1>5. Published' /\ Fetched' /\ Cached'
    BY <1>2, <1>3, <1>4, OnceTypes DEF OnceInv, Published, Fetched, Cached, Tracked,
       Updating
<1>6. FromFabric' /\ FromFastTrack' /\ InMemory' /\ Executions'
    BY <1>2, <1>3, <1>4, OnceTypes DEF OnceInv, FromFabric, FromFastTrack, InMemory,
       Executions
<1> QED
    BY <1>1, <1>5, <1>6, Zenon DEF OnceInv

(* Without migrations, the invariant is inductive.                         *)
LEMMA OnceStep ==
    ASSUME MaxMigrations = 0, OnceInv, [Next]_vars
    PROVE  OnceInv'
<1>1. ~MigrateVm
    BY DEF MigrateVm, OnceInv, TypeOK, HistoryTypeOK
<1>2. ~NextCheckIsDue
    BY Zenon DEF NextCheckIsDue, OnceInv, Cached
<1>3. ~RestoreWireServerGoalState
    BY Zenon DEF RestoreWireServerGoalState, OnceInv, Fetched
<1>4. CASE UNCHANGED vars
  <2>1. TypeOK'
    BY <1>4, TypeStep, Zenon DEF OnceInv
  <2>2. UNCHANGED <<clock, ws, vm, supported, hp, inc, egs, last, pc, snap, got, ran>>
    BY <1>4, Zenon DEF vars, services, memory, history
  <2>3. Published' /\ Fetched' /\ Cached' /\ FromFabric' /\ FromFastTrack' /\ InMemory'
    BY <2>2 DEF OnceInv, Published, Fetched, Cached, Tracked, FromFabric,
       FromFastTrack, InMemory, Updating
  <2>4. Executions'
    BY <2>2, NothingExecuted, Zenon DEF Id
  <2> QED
    BY <2>1, <2>3, <2>4, Zenon DEF OnceInv
<1> QED
    BY <1>1, <1>2, <1>3, <1>4, PublishOnce, FetchGoalStateOnce,
       FetchVmSettingsOnce, DecideOnce, ExecuteOnce, LoopOnce, RestartOnce, Zenon
       DEF Next, ServicesNext, AgentNext

----------------------------------------------------------------------------
(* The theorems.                                                           *)

(* Type correctness of the goal state machinery, whatever the services do. *)
THEOREM TypeCorrect == Spec => []TypeOK
<1>1. Init => TypeOK
    BY TypeInit, Zenon
<1>2. TypeOK /\ [Next]_vars => TypeOK'
    BY TypeStep, Zenon
<1> QED
    BY <1>1, <1>2, PTL DEF Spec

(* The inductive invariant holds.                                          *)
THEOREM Invariance ==
    ASSUME MaxMigrations = 0, ~ConfigMayChange
    PROVE  Spec => []IInv
<1>1. Init => IInv
    BY InitIInv, Zenon
<1>2. IInv /\ [Next]_vars => IInv'
    BY StableStep, TypeStep, Zenon DEF IInv
<1> QED
    BY <1>1, <1>2, PTL DEF Spec

(* What is executed is not older than what was executed before.            *)
LEMMA ForwardStep == IInv /\ [Next]_vars => [ExecutesForward]_vars
<1> SUFFICES ASSUME IInv, Next PROVE executed' >= executed
    BY Zenon DEF ExecutesForward
<1>1. executed \in Nat
    BY Numbers, Zenon DEF IInv
<1>2. CASE ExecuteExtensions
    BY <1>1, <1>2 DEF ExecuteExtensions, IInv, CaughtUp
<1>3. CASE ~ExecuteExtensions
  <2>1. UNCHANGED executed
    BY <1>3, Zenon DEF Next, ServicesNext, AgentNext, PublishFabric, PublishFastTrack,
       RegenerateCertificate, MigrateVm, NextCheckIsDue, FetchGoalState,
       FetchVmSettings, Decide, RestoreWireServerGoalState, UpdateFails,
       FetchFullGoalState, FetchingFullGoalStateFails, RefreshGoalState,
       InitializeGoalState, UpdateCompleted, ReportStatus,
       ReportStatusAfterFailure, Restart, history
  <2> QED
    BY <1>1, <2>1, SMTT(60)
<1> QED
    BY <1>2, <1>3, Zenon

(* Goal states are executed in the order in which they were created, for   *)
(* every number of goal states, certificates, failed requests and restarts *)
(* (UpdateHandler._process_goal_state with GoalState.update), as long as   *)
(* the HostGAPlugin supports vmSettings and Fast Track stays enabled.      *)
THEOREM NeverGoesBackHolds ==
    ASSUME MaxMigrations = 0, ~ConfigMayChange
    PROVE  Spec => NeverGoesBack
<1>1. IInv /\ [Next]_vars => [ExecutesForward]_vars
    BY ForwardStep, Zenon
<1> QED
    BY <1>1, Invariance, PTL DEF Spec, NeverGoesBack

(* When a Fast Track goal state is executed the certificate it needs is on *)
(* disk, unless the WireServer serves another one by then or a download    *)
(* has failed (UpdateHandler._try_update_goal_state): for every number of  *)
(* goal states, certificates, failures, restarts and migrations.           *)
THEOREM CertificatesInSyncHolds == Spec => []CertificatesInSync
<1>1. Init => CertificatesInv
    BY CertificatesInit, Zenon
<1>2. CertificatesInv /\ [Next]_vars => CertificatesInv'
    BY TypeStep, KnownStep, RefreshedStep, InSyncStep, Zenon DEF CertificatesInv
<1>3. CertificatesInv => CertificatesInSync
    BY Zenon DEF CertificatesInv
<1> QED
    BY <1>1, <1>2, <1>3, PTL DEF Spec

(* Within a process no goal state is executed twice (UpdateHandler         *)
(* ._process_goal_state with GoalState.update and fetch_vm_settings), for  *)
(* every number of goal states, certificates, failed requests and restarts *)
(* and whether or not Fast Track is enabled, as long as the HostGAPlugin   *)
(* keeps supporting vmSettings.                                            *)
THEOREM ExecutedOnceHolds ==
    ASSUME MaxMigrations = 0
    PROVE  Spec => ExecutedOnce
<1>1. Init => OnceInv
    BY OnceInit, Zenon
<1>2. OnceInv /\ [Next]_vars => OnceInv'
    BY OnceStep, Zenon
<1>3. OnceInv => [NotRanBefore]_vars
    BY Zenon DEF NotRanBefore, OnceInv, Executions, IsNew
<1> QED
    BY <1>1, <1>2, <1>3, PTL DEF Spec, ExecutedOnce
============================================================================

----------------------------- MODULE GoalState -----------------------------
(***************************************************************************)
(* How the agent learns which extensions goal state to execute.            *)
(*                                                                         *)
(* A goal state reaches the VM over two channels: the WireServer serves    *)
(* the Fabric goal state (numbered by its incarnation) and the HostGAPlugin *)
(* serves the vmSettings (numbered by their ETag), which carry the Fast    *)
(* Track goal states.  The main loop (UpdateHandler) polls both, GoalState *)
(* .update decides which of the two to keep, HostPluginProtocol remembers  *)
(* in fast_track.json the timestamp of the last Fast Track goal state, and *)
(* the loop executes every goal state whose ID it has not just processed.  *)
(*                                                                         *)
(* Modelled: azurelinuxagent/common/protocol/goal_state.py (update and     *)
(* everything it calls), hostplugin.py (vmSettings and the Fast Track      *)
(* state file), wire.py (update_goal_state), ga/update.py (initialization, *)
(* _try_update_goal_state, _process_goal_state, _report_status).           *)
(*                                                                         *)
(* Every HTTP request is a step, so the services may change between two    *)
(* requests of one update, and the process may die between any two steps.  *)
(***************************************************************************)
EXTENDS Integers, FiniteSets

CONSTANTS
    MaxTime,            \* goal states the control plane creates
    MaxCerts,           \* tenant certificates it generates
    MaxFailures,        \* requests that fail
    FailingRequests,    \* the requests that may fail
    MaxCrashes,         \* times the agent process dies
    MaxMigrations,      \* changes in the HostGAPlugin's support for vmSettings
    NewIncarnation,     \* may a new certificate come with a new incarnation?
    SaveMayFail,        \* may writing fast_track.json fail?
    ConfigMayChange     \* may Debug.EnableFastTrack change on a restart?

ASSUME BoundsAssumption ==
    /\ MaxTime \in Nat \ {0}
    /\ MaxCerts \in Nat \ {0}
    /\ MaxFailures \in Nat
    /\ MaxCrashes \in Nat
    /\ MaxMigrations \in Nat

ASSUME SwitchesAssumption ==
    /\ FailingRequests \subseteq {"goalState", "vmSettings", "fullGoalState"}
    /\ NewIncarnation \in BOOLEAN
    /\ SaveMayFail \in BOOLEAN
    /\ ConfigMayChange \in BOOLEAN

VARIABLES
    (* the services *)
    clock,      \* creation time of the newest goal state
    ws,         \* the Fabric goal state the WireServer serves
    vm,         \* the vmSettings the HostGAPlugin serves, when it supports them
    supported,  \* does the HostGAPlugin support the vmSettings API?
    tenantCert, \* the tenant certificate the WireServer serves
    (* the disk *)
    ftFile,     \* fast_track.json: a creation time, Absent or Corrupt
    certs,      \* the certificates on disk
    (* the agent process *)
    enabled,    \* Debug.EnableFastTrack
    hp,         \* the HostPluginProtocol instance
    inc,        \* GoalState._incarnation
    egs,        \* GoalState._extensions_goal_state
    last,       \* UpdateHandler._last_extensions_gs_id
    init,       \* has _initialize_goal_state returned?
    pc,         \* next step of the main loop
    attempt,    \* attempt of _try_update_goal_state
    snap,       \* the goal state document fetched by this update
    got,        \* what fetch_vm_settings returned to this update
    (* history *)
    executed,   \* creation time of the last goal state executed, on this VM
    ran,        \* IDs executed by this process
    badCert,    \* has a certificate download failed?
    failures,
    crashes,
    migrations

services == <<clock, ws, vm, supported, tenantCert>>
memory   == <<enabled, hp, inc, egs, last, init, attempt, snap, got>>
history  == <<executed, ran, badCert, failures, crashes, migrations>>
vars     == <<services, ftFile, certs, memory, pc, history>>

----------------------------------------------------------------------------
(* Values.                                                                 *)

Absent  == 0    \* datetime.min: smaller than every creation time
Corrupt == -1   \* the file exists but has no timestamp

Sources == {"Fabric", "FastTrack"}

(* A goal state as received from either service.  Its ID is made of the    *)
(* source and of the incarnation or ETag; cert is the certificate that its *)
(* protected settings need.                                                *)
GoalStates == [source: Sources \cup {"none"}, num: Nat, created: Nat,
               cert: Nat, outdated: BOOLEAN]

NoGS == [source |-> "none", num |-> 0, created |-> 0, cert |-> 0,
         outdated |-> FALSE]

FabricGoalState(n, time) ==
    [source |-> "Fabric", num |-> n, created |-> time, cert |-> 0,
     outdated |-> FALSE]

FastTrackGoalState(n, time, c) ==
    [source |-> "FastTrack", num |-> n, created |-> time, cert |-> c,
     outdated |-> FALSE]

Ids == (Sources \cup {"none"}) \X Nat

Id(g) == <<g.source, g.num>>

(* HostPluginProtocol.get_fast_track_timestamp: an unreadable file stands  *)
(* for the current time, which is later than every goal state created.     *)
FastTrackTimestamp(file) == IF file = Corrupt THEN clock + 1 ELSE file

(* HostPluginProtocol.__init__.                                            *)
NewHostPlugin(file) ==
    [supports |-> file # Absent,             \* _supports_vm_settings
     recheck  |-> TRUE,                      \* is _supports_vm_settings_next_check due?
     ts       |-> FastTrackTimestamp(file),  \* _fast_track_timestamp
     cached   |-> NoGS]                      \* _cached_vm_settings

HostPlugins == [supports: BOOLEAN, recheck: BOOLEAN, ts: Nat, cached: GoalStates]

NothingReceived == [settings |-> NoGS, updated |-> FALSE]

ServicesTypeOK ==
    /\ clock \in 1..MaxTime
    /\ ws \in GoalStates
    /\ vm \in GoalStates
    /\ supported \in BOOLEAN
    /\ tenantCert \in 1..MaxCerts

DiskTypeOK ==
    /\ ftFile \in Nat \cup {Corrupt}
    /\ certs \subseteq 1..MaxCerts

MemoryTypeOK ==
    /\ enabled \in BOOLEAN
    /\ hp \in HostPlugins
    /\ inc \in Nat
    /\ egs \in GoalStates
    /\ last \in Ids
    /\ init \in BOOLEAN
    /\ snap \in GoalStates
    /\ got \in [settings: GoalStates, updated: BOOLEAN]

LoopTypeOK ==
    /\ pc \in {"update", "vmSettings", "decide", "restore", "check", "execute",
               "report", "reportFailure"}
    /\ attempt \in 0..2

HistoryTypeOK ==
    /\ executed \in Nat
    /\ ran \subseteq Ids
    /\ badCert \in BOOLEAN
    /\ failures \in 0..MaxFailures
    /\ crashes \in 0..MaxCrashes
    /\ migrations \in 0..MaxMigrations

TypeOK ==
    /\ ServicesTypeOK
    /\ DiskTypeOK
    /\ MemoryTypeOK
    /\ LoopTypeOK
    /\ HistoryTypeOK

Init ==
    /\ clock = 1
    /\ ws = FabricGoalState(1, 1)
    /\ vm = FabricGoalState(1, 1)
    /\ supported = TRUE
    /\ tenantCert = 1
    /\ ftFile = Absent
    /\ certs = {}
    /\ enabled = TRUE
    /\ hp = NewHostPlugin(ftFile)
    /\ inc = 0
    /\ egs = NoGS
    /\ last = Id(NoGS)
    /\ init = FALSE
    /\ pc = "update"
    /\ attempt = 0
    /\ snap = NoGS
    /\ got = NothingReceived
    /\ executed = 0
    /\ ran = {}
    /\ badCert = FALSE
    /\ failures = 0
    /\ crashes = 0
    /\ migrations = 0

----------------------------------------------------------------------------
(* The services.  What they do is external to the repository; it is taken  *)
(* from how the agent's code and comments describe them.                   *)

agent == <<ftFile, certs, memory, pc>>

(* The control plane creates a goal state and publishes it via Fabric: the *)
(* WireServer serves it under a new incarnation, and the vmSettings say    *)
(* that the most recent goal state was delivered by Fabric.                *)
PublishFabric ==
    /\ clock < MaxTime
    /\ clock' = clock + 1
    /\ ws' = FabricGoalState(ws.num + 1, clock + 1)
    /\ vm' = FabricGoalState(vm.num + 1, clock + 1)
    /\ UNCHANGED <<supported, tenantCert, agent, history>>

(* A goal state is published via Fast Track: only the vmSettings change.   *)
PublishFastTrack ==
    /\ clock < MaxTime
    /\ supported
    /\ clock' = clock + 1
    /\ vm' = FastTrackGoalState(vm.num + 1, clock + 1, tenantCert)
    /\ UNCHANGED <<ws, supported, tenantCert, agent, history>>

(* The tenant certificate is generated again.  On a rotation the WireServer *)
(* serves the same extensionsConfig under a new incarnation; on resume from *)
(* hibernation the incarnation need not change.                            *)
RegenerateCertificate ==
    /\ tenantCert < MaxCerts
    /\ tenantCert' = tenantCert + 1
    /\ \/ ws' = ws
       \/ NewIncarnation /\ ws' = FabricGoalState(ws.num + 1, ws.created)
    /\ UNCHANGED <<clock, vm, supported, agent, history>>

(* The VM moves to a host whose HostGAPlugin does, or does not, support    *)
(* the vmSettings API.                                                     *)
MigrateVm ==
    /\ migrations < MaxMigrations
    /\ migrations' = migrations + 1
    /\ supported' = ~supported
    /\ UNCHANGED <<clock, ws, vm, tenantCert, agent, executed, ran, badCert,
                   failures, crashes>>

----------------------------------------------------------------------------
(* The agent.  The guard pc = ... of each step is where the code has got   *)
(* to; an update is a fetch of the goal state document, one of the         *)
(* vmSettings and one of everything the document refers to.                *)

IsNew == Id(egs) # last /\ ~egs.outdated

Forced == attempt > 0

(* MUTANT of GoalStateUpdated: only the first incarnation is noticed.       *)
GoalStateUpdatedOnce == Forced \/ inc = 0

GoalStateUpdated == Forced \/ snap.num # inc

(* An exception out of update_goal_state: _try_update_goal_state returns   *)
(* False.  _initialize_goal_state tries again, _process_goal_state reports *)
(* status and gives up this iteration.                                     *)
UpdateFails(request) ==
    /\ request \in FailingRequests
    /\ failures < MaxFailures
    /\ failures' = failures + 1
    /\ attempt' = 0
    /\ pc' = IF init THEN "reportFailure" ELSE "update"
    /\ UNCHANGED <<services, ftFile, enabled, hp, inc, egs, last, init, snap, got,
                   executed, ran, badCert, crashes, migrations>>

(* GoalState.update asks the WireServer for the goal state document.       *)
FetchGoalState ==
    /\ pc = "update"
    /\ \/ /\ snap' = ws
          /\ got' = NothingReceived
          /\ pc' = IF enabled THEN "vmSettings" ELSE "decide"
          /\ UNCHANGED <<services, ftFile, certs, enabled, hp, inc, egs, last,
                         init, attempt, history>>
       \/ UpdateFails("goalState") /\ UNCHANGED certs

----------------------------------------------------------------------------
(* HostPluginProtocol.fetch_vm_settings.                                   *)

WillRequest == hp.supports \/ hp.recheck

Unmodified == ~Forced /\ hp.cached # NoGS /\ hp.cached.num = vm.num

Receives(settings, updated) ==
    got' = IF settings.source = "FastTrack"
           THEN [settings |-> settings, updated |-> updated]
           ELSE NothingReceived     \* update() ignores vmSettings from Fabric

(* The file that remembers the last Fast Track goal state.                 *)
SaveFastTrackState ==
    IF vm.source = "FastTrack"
    THEN \/ ftFile' = vm.created
         \/ SaveMayFail /\ ftFile' = ftFile
    ELSE ftFile' = Absent

(* What the HostGAPlugin's answer makes of the instance: 404 or a version  *)
(* that is too old (the API is not supported), 304, or 200.                *)
AfterNotSupported == [hp EXCEPT !.supports = FALSE, !.recheck = FALSE]

AfterSettings ==
    [hp EXCEPT !.supports = TRUE, !.cached = vm,
               !.ts = IF vm.source = "FastTrack" THEN vm.created ELSE @]

NotSupported ==
    /\ hp' = IF WillRequest THEN AfterNotSupported ELSE hp
    /\ got' = NothingReceived
    /\ pc' = IF hp.supports THEN "restore" ELSE "decide"
    /\ UNCHANGED ftFile

NotModified ==
    /\ Receives(hp.cached, FALSE)
    /\ pc' = "decide"
    /\ UNCHANGED <<hp, ftFile>>

NewSettings ==
    /\ Receives(vm, TRUE)
    /\ hp' = AfterSettings
    /\ SaveFastTrackState
    /\ pc' = "decide"

FetchVmSettings ==
    /\ pc = "vmSettings"
    /\ \/ /\ \/ ~(WillRequest /\ supported) /\ NotSupported
             \/ WillRequest /\ supported /\ Unmodified /\ NotModified
             \/ WillRequest /\ supported /\ ~Unmodified /\ NewSettings
          /\ UNCHANGED <<services, certs, enabled, inc, egs, last, init, attempt,
                         snap, history>>
       \/ WillRequest /\ UpdateFails("vmSettings") /\ UNCHANGED certs

(* Six hours have passed since the API was found not to be supported.      *)
NextCheckIsDue ==
    /\ ~hp.recheck
    /\ hp' = [hp EXCEPT !.recheck = TRUE]
    /\ UNCHANGED <<services, ftFile, certs, enabled, inc, egs, last, init, pc,
                   attempt, snap, got, history>>

----------------------------------------------------------------------------
(* The rest of GoalState.update.                                           *)

(* The full goal state is fetched from the URIs in the document.  An error *)
(* downloading the certificates is ignored.                                *)
FetchFullGoalState ==
    /\ inc' = snap.num
    /\ \/ certs' = certs \cup {tenantCert} /\ badCert' = badCert
       \/ certs' = certs /\ badCert' = TRUE

(* One of its requests may fail before or after the certificates are       *)
(* downloaded.                                                             *)
FetchingFullGoalStateFails ==
    /\ UpdateFails("fullGoalState")
    /\ certs' \in {certs, certs \cup {tenantCert}}

(* MUTANT of MostRecent: a new incarnation always wins over the vmSettings. *)
MostRecentIgnoresVmSettings == IF ~GoalStateUpdated THEN got.settings ELSE snap

(* The most recent of the vmSettings and the extensionsConfig, or what is  *)
(* there already when that is newer.                                       *)
MostRecent ==
    IF ~GoalStateUpdated \/ got.settings.created > snap.created
    THEN got.settings
    ELSE snap

Replaces(g) == egs = NoGS \/ g.created >= egs.created

Decide ==
    /\ pc = "decide"
    /\ \/ /\ pc' = "check"
          /\ IF GoalStateUpdated THEN FetchFullGoalState
                                 ELSE UNCHANGED <<inc, certs, badCert>>
          /\ egs' = IF (GoalStateUpdated \/ got.updated) /\ Replaces(MostRecent)
                    THEN MostRecent ELSE egs
          /\ UNCHANGED <<services, ftFile, enabled, hp, last, init, attempt, snap,
                         got, executed, ran, failures, crashes, migrations>>
       \/ GoalStateUpdated /\ FetchingFullGoalStateFails

(* _restore_wire_server_goal_state: the HostGAPlugin stopped supporting    *)
(* the vmSettings API, so the goal state of the WireServer is used even if *)
(* it is older than the one in use; if it is older than the last Fast      *)
(* Track goal state it is marked as outdated.                              *)
RestoreWireServerGoalState ==
    /\ pc = "restore"
    /\ \/ /\ pc' = "check"
          /\ FetchFullGoalState
          /\ egs' = [snap EXCEPT !.outdated = snap.created < hp.ts]
          /\ UNCHANGED <<services, ftFile, enabled, hp, last, init, attempt, snap,
                         got, executed, ran, failures, crashes, migrations>>
       \/ FetchingFullGoalStateFails

----------------------------------------------------------------------------
(* UpdateHandler.                                                          *)

(* MUTANT of CertificatesOnDisk: any certificate will do.                   *)
SomeCertificateOnDisk == egs.cert = 0 \/ certs # {}

CertificatesOnDisk == egs.cert = 0 \/ egs.cert \in certs

(* The end of an attempt of _try_update_goal_state: a new Fast Track goal  *)
(* state that needs a certificate that is not on disk makes it refresh the *)
(* goal state, at most twice.                                              *)
RefreshNeeded ==
    /\ IsNew
    /\ egs.source = "FastTrack"
    /\ ~CertificatesOnDisk
    /\ attempt < 2

RefreshGoalState ==
    /\ pc = "check"
    /\ RefreshNeeded
    /\ attempt' = attempt + 1
    /\ pc' = "update"
    /\ UNCHANGED <<services, ftFile, certs, enabled, hp, inc, egs, last, init, snap,
                   got, history>>

(* The end of _initialize_goal_state: without Fast Track, a Fabric goal    *)
(* state older than the last Fast Track goal state is outdated.  The main  *)
(* loop then starts with another update.                                   *)
InitializeGoalState ==
    /\ pc = "check"
    /\ ~RefreshNeeded
    /\ ~init
    /\ init' = TRUE
    /\ egs' = [egs EXCEPT !.outdated =
                  @ \/ (~enabled /\ egs.created < FastTrackTimestamp(ftFile))]
    /\ attempt' = 0
    /\ pc' = "update"
    /\ UNCHANGED <<services, ftFile, certs, enabled, hp, inc, last, snap, got,
                   history>>

UpdateCompleted ==
    /\ pc = "check"
    /\ ~RefreshNeeded
    /\ init
    /\ attempt' = 0
    /\ pc' = "execute"
    /\ UNCHANGED <<services, ftFile, certs, enabled, hp, inc, egs, last, init, snap,
                   got, history>>

(* exthandlers_handler.run(), when there is a new extensions goal state.   *)
ExecuteExtensions ==
    /\ pc = "execute"
    /\ pc' = "report"
    /\ IF IsNew
       THEN executed' = egs.created /\ ran' = ran \cup {Id(egs)}
       ELSE UNCHANGED <<executed, ran>>
    /\ UNCHANGED <<services, ftFile, certs, memory, badCert, failures, crashes,
                   migrations>>

(* _report_status: once status was reported for an outdated goal state     *)
(* fast_track.json is removed.  Creating the status may fail.              *)
ClearFastTrackState ==
    \/ ftFile' = IF egs.outdated THEN Absent ELSE ftFile
    \/ ftFile' = ftFile

(* MUTANT of ReportStatus: the ID of the goal state is not remembered.      *)
ReportStatusForgetsId ==
    /\ pc = "report"
    /\ pc' = "update"
    /\ ClearFastTrackState
    /\ UNCHANGED <<services, certs, memory, history>>

(* The end of _process_goal_state.                                         *)
ReportStatus ==
    /\ pc = "report"
    /\ pc' = "update"
    /\ last' = Id(egs)
    /\ ClearFastTrackState
    /\ UNCHANGED <<services, certs, enabled, hp, inc, egs, init, attempt, snap, got,
                   history>>

ReportStatusAfterFailure ==
    /\ pc = "reportFailure"
    /\ pc' = "update"
    /\ ClearFastTrackState
    /\ UNCHANGED <<services, certs, memory, history>>

(* The process dies and is started again.  While _save_fast_track_state is *)
(* writing the file, which it truncates first, it may be left empty.       *)
SavingFastTrackState ==
    pc = "vmSettings" /\ WillRequest /\ supported /\ ~Unmodified
    /\ vm.source = "FastTrack"

Restart ==
    /\ crashes < MaxCrashes
    /\ crashes' = crashes + 1
    /\ \/ ftFile' = ftFile
       \/ SavingFastTrackState /\ ftFile' = Corrupt
    /\ \/ enabled' = enabled
       \/ ConfigMayChange /\ enabled' = ~enabled
    /\ hp' = NewHostPlugin(ftFile')
    /\ inc' = 0
    /\ egs' = NoGS
    /\ last' = Id(NoGS)
    /\ init' = FALSE
    /\ pc' = "update"
    /\ attempt' = 0
    /\ snap' = NoGS
    /\ got' = NothingReceived
    /\ ran' = {}
    /\ UNCHANGED <<services, certs, executed, badCert, failures, migrations>>

----------------------------------------------------------------------------

ServicesNext ==
    \/ PublishFabric
    \/ PublishFastTrack
    \/ RegenerateCertificate
    \/ MigrateVm
    \/ NextCheckIsDue

AgentNext ==
    \/ FetchGoalState
    \/ FetchVmSettings
    \/ Decide
    \/ RestoreWireServerGoalState
    \/ RefreshGoalState
    \/ InitializeGoalState
    \/ UpdateCompleted
    \/ ExecuteExtensions
    \/ ReportStatus
    \/ ReportStatusAfterFailure

Next == ServicesNext \/ AgentNext \/ Restart

Spec == Init /\ [][Next]_vars

(* The main loop keeps running; the six hours do pass.                     *)
FairSpec == Spec /\ WF_vars(AgentNext) /\ WF_vars(NextCheckIsDue)

----------------------------------------------------------------------------
(* Properties.                                                             *)

(* The extensions goal states that the agent executes are in the order in  *)
(* which they were created, across restarts, certificate rotations, failed *)
(* requests and switches between Fabric and Fast Track: executing an older *)
(* one would remove the extensions of the newer one (the comment at        *)
(* goal_state.py:273).  UpdateHandler._process_goal_state, GoalState       *)
(* .update, HostPluginProtocol.                                            *)
ExecutesForward == executed' >= executed

NeverGoesBack == [][ExecutesForward]_vars

(* Within one process, a goal state (an incarnation or an ETag) is given   *)
(* to the extensions handler at most once, whatever order they are fetched *)
(* in and however often the goal state is refreshed.                       *)
NotRanBefore == (pc = "execute" /\ pc' = "report" /\ IsNew) => Id(egs) \notin ran

ExecutedOnce == [][NotRanBefore]_vars

(* When a Fast Track goal state is executed, the certificate that its      *)
(* protected settings need is on disk if the WireServer still serves it    *)
(* and no download of certificates has failed: the refreshes in            *)
(* _try_update_goal_state cover the certificates that are generated again  *)
(* without a new incarnation.                                              *)
CertificatesInSync ==
    (pc = "execute" /\ IsNew /\ egs.source = "FastTrack" /\ egs.cert = tenantCert)
        => (egs.cert \in certs \/ badCert)

(* The newest goal state is eventually executed and remains the last one   *)
(* that was, unless Fast Track is disabled or not supported in the end:    *)
(* the newest one may then be out of the agent's sight.                    *)
NewestIsExecuted == <>[](enabled /\ supported => executed = clock)
============================================================================

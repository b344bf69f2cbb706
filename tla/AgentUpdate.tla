---------------------------- MODULE AgentUpdate ----------------------------
(***************************************************************************)
(* How the agent updates itself.                                           *)
(*                                                                         *)
(* The daemon (UpdateHandler.run_latest) launches the newest agent on disk *)
(* that is not blacklisted, or the installed one, and blacklists an agent  *)
(* that it has to launch too often.  The agent it launched looks, before   *)
(* it processes a goal state, for a version to update to                   *)
(* (AgentUpdateHandler.run): the one that RSM asks for in the goal state,  *)
(* or the largest one in the manifest (self-update); it downloads it and   *)
(* exits so that the daemon launches it.  What the two processes know of   *)
(* each other is on disk: the directory of each version with its error and *)
(* attempt count files, and two marker files.                              *)
(*                                                                         *)
(* Modelled: ga/update.py (run_latest, _evaluate_agent_health,             *)
(* _find_agents, the part of _process_goal_state that updates the agent),  *)
(* ga/agent_update_handler.py, ga/ga_version_updater.py,                   *)
(* ga/rsm_version_updater.py, ga/self_update_version_updater.py,           *)
(* ga/guestagent.py.                                                       *)
(***************************************************************************)
EXTENDS Integers, FiniteSetsExt

CONSTANTS
    Versions,       \* versions that have a package
    Installed,      \* version of the daemon and of the installed agent
    Published,      \* versions in the agent manifest
    NoManifest,     \* packages without a HandlerManifest.json
    Malformed,      \* packages with a malformed HandlerManifest.json
    Crashing,       \* versions that die soon after they are launched
    Contents,       \* what a goal state may say about the agent
    MaxGoalStates,  \* goal states that arrive
    MaxKills,       \* times a working agent is killed
    MaxReboots,     \* times the VM reboots
    CrashesLate     \* may the launch interval pass while an agent is crashing?

None == 0

ASSUME VersionsAssumption ==
    /\ Versions \subseteq Nat \ {None}
    /\ Installed \in Nat \ {None}
    /\ Published \subseteq Versions
    /\ Published # {}
    /\ IsFiniteSet(Versions)
    /\ NoManifest \subseteq Versions
    /\ Malformed \subseteq Versions
    /\ Crashing \subseteq Versions
    /\ Installed \notin Crashing

(* rsm: the goal state says that RSM upgrades are enabled or disabled, or  *)
(* does not say it ("unspecified"), or says so but lacks the version       *)
(* ("incomplete"), or has no manifest for the agent's family ("noFamily"). *)
RsmProperties == {"enabled", "disabled", "unspecified", "incomplete", "noFamily"}

ASSUME ContentsAssumption ==
    /\ Contents \subseteq [rsm: RsmProperties, fromRsm: BOOLEAN,
                           version: Versions, from: Versions \cup {None}]
    /\ MaxGoalStates \in Nat \ {0}
    /\ MaxKills \in Nat
    /\ MaxReboots \in Nat
    /\ CrashesLate \in BOOLEAN

VARIABLES
    goalState,  \* [id, content]: the newest goal state
    (* on disk *)
    dir,        \* the directory of each version: absent, partial or complete
    bad,        \* does its error.json blacklist it?
    count,      \* the count in its update_attempt.json
    initial,    \* is the initial update still to be attempted? (no marker file)
    rsmFile,    \* was the last update mode RSM? (marker file)
    (* the daemon *)
    child,      \* child_agent: the version it launched last, None if installed
    attempts,   \* child_launch_attempts
    inWindow,   \* has CHILD_LAUNCH_INTERVAL not passed since child_launch_time?
    (* the agent process *)
    running,    \* its version, None if there is no process
    pc,
    updater,    \* "RSM" or "SelfUpdate"
    first,      \* is it the updater's first manifest download?
    gs,         \* the goal state it is processing
    seen,       \* ID of the last goal state it processed
    version,    \* the updater's _version
    candidates, \* versions that are still to be tried
    errorMsg,   \* is _last_attempted_update_error_msg set?
    (* history *)
    processed,  \* ID of the last goal state whose extensions were processed
    exitTo,     \* version the last process exited to update to
    launches,   \* launches of each version since it was downloaded
    left,       \* versions that RSM asked to downgrade from
    broken,     \* versions whose directory was left partial by a reboot
    kills,
    reboots

disk    == <<dir, bad, count, initial, rsmFile>>
daemon  == <<child, attempts, inWindow>>
agent   == <<running, pc, updater, first, gs, seen, version, candidates, errorMsg>>
history == <<processed, exitTo, launches, left, broken, kills, reboots>>
vars    == <<goalState, disk, daemon, agent, history>>

RestartMax  == 3    \* CHILD_LAUNCH_RESTART_MAX
AttemptsMax == 3    \* in AgentUpdateHandler.run
LaunchesCap == (RestartMax - 1) * AttemptsMax + 1   \* more are not counted

NoGoalState == [id |-> 0, content |-> CHOOSE c \in Contents : TRUE]

(* The states of the agent process, by what it does next.                  *)
Steps == {"goalState", "retrieve", "download", "attempt", "purge", "proceed",
          "extensions"}

TypeOK ==
    /\ goalState \in [id: 1..MaxGoalStates, content: Contents]
    /\ dir \in [Versions -> {"absent", "partial", "complete"}]
    /\ bad \in [Versions -> BOOLEAN]
    /\ count \in [Versions -> 0..AttemptsMax]
    /\ initial \in BOOLEAN
    /\ rsmFile \in BOOLEAN
    /\ child \in Versions \cup {None}
    /\ attempts \in 0..RestartMax
    /\ inWindow \in BOOLEAN
    /\ running \in Versions \cup {None, Installed}
    /\ pc \in Steps
    /\ updater \in {"RSM", "SelfUpdate"}
    /\ first \in BOOLEAN
    /\ gs \in [id: 0..MaxGoalStates, content: Contents]
    /\ seen \in 0..MaxGoalStates
    /\ version \in Versions \cup {None}
    /\ candidates \subseteq Versions
    /\ errorMsg \in BOOLEAN
    /\ processed \in 0..MaxGoalStates
    /\ exitTo \in Versions \cup {None}
    /\ launches \in [Versions -> 0..LaunchesCap]
    /\ left \subseteq Versions
    /\ broken \subseteq Versions
    /\ kills \in 0..MaxKills
    /\ reboots \in 0..MaxReboots

Init ==
    /\ \E c \in Contents : goalState = [id |-> 1, content |-> c]
    /\ dir = [v \in Versions |-> "absent"]
    /\ bad = [v \in Versions |-> FALSE]
    /\ count = [v \in Versions |-> 0]
    /\ initial = TRUE
    /\ rsmFile = FALSE
    /\ child = None
    /\ attempts = 0
    /\ inWindow = FALSE
    /\ running = None
    /\ pc = "goalState"
    /\ updater = "SelfUpdate"
    /\ first = TRUE
    /\ gs = NoGoalState
    /\ seen = 0
    /\ version = None
    /\ candidates = {}
    /\ errorMsg = FALSE
    /\ processed = 0
    /\ exitTo = None
    /\ launches = [v \in Versions |-> 0]
    /\ left = {}
    /\ broken = {}
    /\ kills = 0
    /\ reboots = 0

----------------------------------------------------------------------------
(* The environment.                                                        *)

NewGoalState ==
    /\ goalState.id < MaxGoalStates
    /\ \E c \in Contents : goalState' = [id |-> goalState.id + 1, content |-> c]
    /\ UNCHANGED <<disk, daemon, agent, history>>

Works(v) == v \notin Crashing /\ (v \in Versions /\ v # Installed => dir[v] = "complete")

(* CHILD_LAUNCH_INTERVAL is over.                                          *)
LaunchIntervalPasses ==
    /\ inWindow
    /\ running # None
    /\ Works(running) \/ CrashesLate
    /\ inWindow' = FALSE
    /\ UNCHANGED <<goalState, disk, child, attempts, agent, history>>

AgentCrashes ==
    /\ running # None
    /\ ~Works(running)
    /\ running' = None
    /\ UNCHANGED <<goalState, disk, daemon, pc, updater, first, gs, seen, version,
                   candidates, errorMsg, history>>

AgentIsKilled ==
    /\ running # None
    /\ Works(running)
    /\ kills < MaxKills
    /\ kills' = kills + 1
    /\ running' = None
    /\ UNCHANGED <<goalState, disk, daemon, pc, updater, first, gs, seen, version,
                   candidates, errorMsg, processed, exitTo, launches, left,
                   broken, reboots>>

(* A reboot while a package is being expanded may leave its directory with *)
(* the manifest but without some of the other files.                       *)
Reboot ==
    /\ reboots < MaxReboots
    /\ reboots' = reboots + 1
    /\ running' = None
    /\ child' = None
    /\ attempts' = 0
    /\ inWindow' = FALSE
    /\ \/ UNCHANGED <<dir, broken>>
       \/ /\ running # None /\ Works(running) /\ pc = "download"
          /\ LET v == Max(candidates)
             IN /\ dir[v] = "absent" /\ v \notin NoManifest \cup Malformed
                /\ dir' = [dir EXCEPT ![v] = "partial"]
                /\ broken' = broken \cup {v}
    /\ UNCHANGED <<goalState, bad, count, initial, rsmFile, pc, updater, first, gs,
                   seen, version, candidates, errorMsg, processed, exitTo,
                   launches, left, kills>>

----------------------------------------------------------------------------
(* GuestAgent: what is on disk for each version.                           *)

IsAvailable(v) == dir[v] # "absent" /\ ~bad[v]

MarkFailure(v) == [bad EXCEPT ![v] = TRUE]

ClearError(v) == [bad EXCEPT ![v] = FALSE]

IncUpdateAttemptCount(v) == [count EXCEPT ![v] = @ + 1]

(* GuestAgent.__init__: the directory is deleted if the manifest in it     *)
(* cannot be loaded, and no exception is raised.                           *)
Loaded(v) ==
    IF dir[v] = "absent" /\ v \notin Malformed
    THEN [dir EXCEPT ![v] = "complete"] ELSE dir

----------------------------------------------------------------------------
(* The daemon.                                                             *)

(* get_latest_agent_greater_than_daemon.                                   *)
Available == {v \in Versions : IsAvailable(v) /\ v > Installed}

LatestAgent == IF Available = {} THEN None ELSE Max(Available)

(* _evaluate_agent_health.  Attempts beyond RestartMax are not told apart. *)
EvaluateAgentHealth(latest) ==
    /\ child' = latest
    /\ attempts' = IF latest = None THEN 0
                   ELSE IF latest = child THEN Min({attempts + 1, RestartMax})
                   ELSE 1
    /\ inWindow' = (latest # None /\ (latest = child => inWindow))

(* MUTANT of RestartsTooFrequently: off by one.                             *)
RestartsOneMore(n, within) == within /\ n > RestartMax

RestartsTooFrequently(n, within) == within /\ n >= RestartMax

(* The update mode that the two marker files stand for.                    *)
RestoredUpdater == IF rsmFile /\ ~initial THEN "RSM" ELSE "SelfUpdate"

(* AgentUpdateHandler.__init__, in the new process.                        *)
StartAgent(v) ==
    /\ running' = v
    /\ pc' = "goalState"
    /\ updater' = RestoredUpdater
    /\ first' = TRUE
    /\ gs' = NoGoalState
    /\ seen' = 0
    /\ version' = None
    /\ candidates' = {}
    /\ errorMsg' = FALSE

LaunchInstalledAgent ==
    /\ running = None
    /\ LatestAgent = None
    /\ EvaluateAgentHealth(None)
    /\ StartAgent(Installed)
    /\ exitTo' = None
    /\ UNCHANGED <<goalState, disk, processed, launches, left, broken, kills,
                   reboots>>

LaunchLatestAgent ==
    /\ running = None
    /\ LatestAgent # None
    /\ EvaluateAgentHealth(LatestAgent)
    /\ ~RestartsTooFrequently(attempts', inWindow')
    /\ StartAgent(LatestAgent)
    /\ launches' = [launches EXCEPT ![LatestAgent] = Min({@ + 1, LaunchesCap})]
    /\ exitTo' = None
    /\ UNCHANGED <<goalState, disk, processed, left, broken, kills, reboots>>

(* _evaluate_agent_health raises an exception.                             *)
BlacklistLatestAgent ==
    /\ running = None
    /\ LatestAgent # None
    /\ EvaluateAgentHealth(LatestAgent)
    /\ RestartsTooFrequently(attempts', inWindow')
    /\ bad' = MarkFailure(LatestAgent)
    /\ exitTo' = None
    /\ UNCHANGED <<goalState, dir, count, initial, rsmFile, agent, processed,
                   launches, left, broken, kills, reboots>>

----------------------------------------------------------------------------
(* The agent: AgentUpdateHandler.run, and the processing of the extensions *)
(* that follows it in _process_goal_state.                                 *)

AgentIsAt(step) == running # None /\ Works(running) /\ pc = step

(* The end of run(): the "finally" clause saves the initial update marker. *)
EndRun ==
    /\ pc' = "extensions"
    /\ initial' = FALSE

(* MUTANT of Fail: the error is not recorded.                               *)
FailSilently == EndRun /\ errorMsg' = FALSE

(* MUTANT of Fail: the iteration ends without processing the extensions.    *)
FailIteration == pc' = "goalState" /\ initial' = FALSE /\ errorMsg' = TRUE

Fail == EndRun /\ errorMsg' = TRUE

(* is_rsm_update_enabled of the two updaters: whether it raises, and what  *)
(* it returns.                                                             *)
InvalidGoalState(content) ==
    \/ content.rsm = "incomplete"
    \/ content.rsm = "unspecified" /\ updater = "RSM"

RsmEnabled(content) ==
    IF initial \/ goalState.id = seen THEN updater = "RSM"
                                     ELSE content.rsm = "enabled"

(* The next iteration of the main loop begins; run() chooses the updater.  *)
(* RSM goes on only for a new goal state, self-update at most once an hour *)
(* (any number of iterations).                                             *)
ChooseUpdater ==
    /\ AgentIsAt("goalState")
    /\ gs' = goalState
    /\ LET content == goalState.content
           new     == goalState.id # seen       \* ext_gs_updated
           failed  == \/ content.rsm = "noFamily"
                      \/ ~initial /\ new /\ InvalidGoalState(content)
           rsm     == RsmEnabled(content)
       IN \/ /\ failed
             /\ Fail
             /\ UNCHANGED <<updater, first, rsmFile>>
          \/ /\ ~failed
             /\ updater' = IF rsm THEN "RSM" ELSE "SelfUpdate"
             /\ rsmFile' = IF updater' = updater THEN rsmFile ELSE rsm
             /\ errorMsg' = (errorMsg /\ ~new)
             /\ IF rsm
                THEN /\ first' = FALSE
                     /\ IF new THEN pc' = "retrieve" /\ UNCHANGED initial ELSE EndRun
                ELSE \/ first' = FALSE /\ pc' = "retrieve" /\ UNCHANGED initial
                     \/ ~(first \/ updater' # updater) /\ EndRun /\ UNCHANGED first
    /\ UNCHANGED <<goalState, dir, bad, count, daemon, running, seen, version,
                   candidates, history>>

(* RSMVersionUpdater: the version that the goal state asks for.            *)
NotAllowed(content) ==
    \/ content.version < Installed
    \/ content.version < running /\ content.from # running

RetrieveRsmVersion ==
    /\ AgentIsAt("retrieve")
    /\ updater = "RSM"
    /\ version' = gs.content.version
    /\ IF ~gs.content.fromRsm \/ version' = running
       THEN EndRun /\ UNCHANGED <<errorMsg, candidates>>
       ELSE IF NotAllowed(gs.content) \/ version' \notin Published
       THEN Fail /\ UNCHANGED candidates
       ELSE \/ /\ candidates' = {version'}
               /\ pc' = "download"
               /\ UNCHANGED <<initial, errorMsg>>
            \/ Fail /\ UNCHANGED candidates     \* the manifest cannot be fetched
    /\ UNCHANGED <<goalState, dir, bad, count, rsmFile, daemon, running, updater,
                   first, gs, seen, history>>

(* SelfUpdateVersionUpdater: the largest version in the manifest, at a     *)
(* random time within a day unless it is the initial update.               *)
RetrieveManifest ==
    /\ AgentIsAt("retrieve")
    /\ updater = "SelfUpdate"
    /\ \/ /\ version' = Max(Published)
          /\ \/ /\ version' <= running \/ ~initial
                /\ EndRun
                /\ UNCHANGED candidates
             \/ /\ version' > running
                /\ candidates' = {v \in Published : v > running}
                /\ pc' = "download"
                /\ UNCHANGED initial
          /\ UNCHANGED errorMsg
       \/ Fail /\ UNCHANGED <<version, candidates>>    \* the request fails
    /\ UNCHANGED <<goalState, dir, bad, count, rsmFile, daemon, running, updater,
                   first, gs, seen, history>>

(* download_new_agent_pkg and GuestAgent.from_agent_package.  A directory  *)
(* that is already there is used as it is.                                 *)
Download ==
    /\ AgentIsAt("download")
    /\ version' = Max(candidates)
    /\ dir[version'] # "absent" \/ version' \notin NoManifest
    /\ dir' = Loaded(version')
    /\ pc' = "attempt"
    /\ UNCHANGED <<goalState, bad, count, initial, rsmFile, daemon, running, updater,
                   first, gs, seen, candidates, errorMsg, history>>

(* The download fails, or the package has no manifest: self-update tries   *)
(* the next version.                                                       *)
DownloadFails ==
    /\ AgentIsAt("download")
    /\ version' = Max(candidates)
    /\ dir[version'] = "absent"
    /\ candidates' = candidates \ {version'}
    /\ IF candidates' = {} THEN Fail ELSE UNCHANGED <<pc, initial, errorMsg>>
    /\ UNCHANGED <<goalState, dir, bad, count, rsmFile, daemon, running, updater,
                   first, gs, seen, history>>

(* The attempt count and the error are kept in the version's directory, if *)
(* there is one.                                                           *)
Attempt ==
    /\ AgentIsAt("attempt")
    /\ IF count[version] >= AttemptsMax
       THEN Fail /\ UNCHANGED <<bad, count>>
       ELSE /\ IF dir[version] = "absent"
               THEN UNCHANGED <<bad, count>>
               ELSE /\ bad' = ClearError(version)
                    /\ count' = IncUpdateAttemptCount(version)
            /\ pc' = "purge"
            /\ UNCHANGED <<initial, errorMsg>>
    /\ UNCHANGED <<goalState, dir, rsmFile, daemon, running, updater, first, gs, seen,
                   version, candidates, history>>

(* purge_extra_agents_from_disk.                                           *)
Purge ==
    /\ AgentIsAt("purge")
    /\ LET Kept(v) == v \in {running, version}
       IN /\ dir' = [v \in Versions |-> IF Kept(v) THEN dir[v] ELSE "absent"]
          /\ bad' = [v \in Versions |-> Kept(v) /\ bad[v]]
          /\ count' = [v \in Versions |-> IF Kept(v) THEN count[v] ELSE 0]
          /\ launches' = [v \in Versions |-> IF Kept(v) THEN launches[v] ELSE 0]
          /\ broken' = {v \in broken : Kept(v)}
    /\ pc' = "proceed"
    /\ UNCHANGED <<goalState, initial, rsmFile, daemon, running, updater, first, gs,
                   seen, version, candidates, errorMsg, processed, exitTo, left,
                   kills, reboots>>

(* MUTANT of MarkedAsBad: the version that is left stays available.         *)
NotMarkedAsBad == bad

(* MUTANT of MarkedAsBad: upgrades blacklist the version they leave.        *)
AlwaysMarkedAsBad == IF running \in Versions THEN MarkFailure(running) ELSE bad

(* In a downgrade the current version is blacklisted.                      *)
MarkedAsBad ==
    IF version < running /\ running \in Versions
    THEN MarkFailure(running) ELSE bad

(* proceed_with_update: the process exits.                                 *)
ProceedWithUpdate ==
    /\ AgentIsAt("proceed")
    /\ bad' = MarkedAsBad
    /\ left' = left \cup (IF version < running THEN {running} ELSE {})
    /\ initial' = FALSE
    /\ running' = None
    /\ exitTo' = version
    /\ UNCHANGED <<goalState, dir, count, rsmFile, daemon, pc, updater, first, gs,
                   seen, version, candidates, errorMsg, processed, launches,
                   broken, kills, reboots>>

(* The extensions are processed and the status, which includes the state   *)
(* of the update, is reported.                                             *)
ProcessExtensions ==
    /\ AgentIsAt("extensions")
    /\ pc' = "goalState"
    /\ seen' = gs.id
    /\ processed' = gs.id
    /\ UNCHANGED <<goalState, disk, daemon, running, updater, first, gs, version,
                   candidates, errorMsg, exitTo, launches, left, broken, kills,
                   reboots>>

----------------------------------------------------------------------------

EnvironmentNext ==
    \/ NewGoalState
    \/ LaunchIntervalPasses
    \/ AgentIsKilled
    \/ Reboot

DaemonNext ==
    \/ LaunchInstalledAgent
    \/ LaunchLatestAgent
    \/ BlacklistLatestAgent

AgentNext ==
    \/ AgentCrashes
    \/ ChooseUpdater
    \/ RetrieveRsmVersion
    \/ RetrieveManifest
    \/ Download
    \/ DownloadFails
    \/ Attempt
    \/ Purge
    \/ ProceedWithUpdate
    \/ ProcessExtensions

Next == EnvironmentNext \/ DaemonNext \/ AgentNext

Spec == Init /\ [][Next]_vars

(* The daemon and the agent keep running.                                  *)
FairSpec == Spec /\ WF_vars(DaemonNext) /\ WF_vars(AgentNext)

----------------------------------------------------------------------------
(* Properties.                                                             *)

(* When an agent exits to update to a version that can be loaded, the next *)
(* agent that the daemon launches is that version, even if the VM reboots  *)
(* in between: the decisions of proceed_with_update and of                 *)
(* get_latest_agent_greater_than_daemon, taken by two processes, agree.    *)
LaunchesTarget ==
    (exitTo # None /\ exitTo' = None /\ exitTo \notin Malformed) => running' = exitTo

NextAgentIsTarget == [][LaunchesTarget]_vars

(* A version is blacklisted only because it crashes (or was expanded only  *)
(* in part), because it was killed, or because RSM asked to downgrade from *)
(* it: the launches that the updates themselves cause are not held against *)
(* a working version (_evaluate_agent_health, proceed_with_update).        *)
BlacklistsOnlyBad ==
    \A v \in Versions : bad[v] => \/ v \in Crashing \cup broken \cup left
                                  \/ kills > 0

(* When the agent reports the update as a success to RSM                   *)
(* (get_vmagent_update_status), it runs the version that the goal state    *)
(* asks for, across restarts and failed updates.                           *)
SuccessMeansTarget ==
    (running # None /\ pc = "extensions" /\ updater = "RSM" /\ ~errorMsg
     /\ gs.content.rsm = "enabled" /\ gs.content.fromRsm)
        => running = gs.content.version

(* A version that crashes is launched only a few times, however often the  *)
(* goal state or the manifest asks for it: twice per attempt, three        *)
(* attempts (RestartMax, AttemptsMax), unless the VM reboots or the agent  *)
(* is killed between the download of the version and the attempt.          *)
CrashLoopIsBounded ==
    reboots = 0 /\ kills = 0 => \A v \in Crashing : launches[v] < LaunchesCap

(* The extensions of the newest goal state are eventually processed, by    *)
(* some version of the agent, whatever the packages and the updates do.    *)
GoalStatesAreProcessed == <>[](processed = goalState.id)
============================================================================

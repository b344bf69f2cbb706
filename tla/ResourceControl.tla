-------------------------- MODULE ResourceControl --------------------------
(***************************************************************************)
(* Resource control: the CPU quotas and the control groups of the agent    *)
(* and of the extensions (CGroupConfigurator, _SystemdCgroupApi,           *)
(* CGroupsTelemetry), the checks of the monitor thread (PollResourceUsage) *)
(* and the restarts of an agent that uses too much memory                  *)
(* (UpdateHandler._check_agent_memory_usage, AgentMemoryRestartHistory).   *)
(*                                                                         *)
(* Two threads of one process use CGroupConfigurator: the main thread sets *)
(* up, starts and removes extensions and checks the agent's cgroup after   *)
(* each goal state; the monitor thread polls the tracked cgroups and makes *)
(* the same check.  Only the check takes a lock; disable() is also called  *)
(* without it, when systemd-run fails.  A call of systemctl is one step.   *)
(*                                                                         *)
(* systemd, the kernel and the processes of the extensions are external.   *)
(* A quota is "set" or "infinity"; it is a run-time property of a unit,    *)
(* which outlives the agent and is gone after a reboot.                    *)
(***************************************************************************)
EXTENDS Naturals, Sequences, FiniteSets, FiniteSetsExt, Functions

CONSTANTS
    Exts,                   \* extensions: each has a slice
    Platforms,              \* the VMs (records, see PlatformType)
    MayLoseSupport,         \* may a new agent drop the distro from its list?
    DisableOnProcessCheck,  \* conf.get_cgroup_disable_on_process_check_failure
    DisableOnQuotaCheck,    \* conf.get_cgroup_disable_on_quota_check_failure
    Versions,               \* the versions of the agent
    MaxVersionsRetained,    \* MAX_VERSIONS_RETAINED of the restart history
    MaxPerVersion,          \* Debug.AgentMemoryMaxRestartsPerVersion
    MinInterval,            \* Debug.AgentMemoryMinRestartIntervalSeconds
    BreachCount,            \* Debug.AgentMemoryConsecutiveBreachCount
    LaunchInterval,         \* CHILD_LAUNCH_INTERVAL
    CheckPeriod,            \* conf.get_cgroup_check_period
    MaxTime,                \* bound on the clock
    MaxFaults,              \* bound on failed calls of systemctl and of I/O
    MaxStrays,              \* bound on the processes that turn up uninvited
    MaxRestarts             \* bound on crashes, updates and reboots

Controllers == {"cpu", "memory"}

(* distro: this agent supports cgroups on the VM; slice: the agent's unit  *)
(* is in azure.slice or system.slice; ctrl: the controllers that are       *)
(* mounted (v1) or enabled at the root (v2).                               *)
PlatformType == [distro: BOOLEAN, version: {"v1", "v2"}, slice: BOOLEAN,
                 ctrl: SUBSET Controllers]

ASSUME ResourceAssumption ==
    /\ Platforms \subseteq PlatformType
    /\ {MayLoseSupport, DisableOnProcessCheck, DisableOnQuotaCheck} \subseteq BOOLEAN
    /\ {MaxVersionsRetained, MaxPerVersion, MinInterval, BreachCount, LaunchInterval,
        CheckPeriod, MaxTime, MaxFaults, MaxStrays, MaxRestarts} \subseteq Nat
    /\ Versions # {}

VARIABLES
    platform,   \* the VM, as this version of the agent sees it
    quota,      \* CPUQuota of every unit
    installed,  \* extensions with a HandlerManifest.json on disk
    procs,      \* processes of extensions: <<extension, place>>
    agentOn,    \* _agent_cgroups_enabled
    extOn,      \* _extensions_cgroups_enabled
    tracked,    \* controllers of the agent in CGroupsTelemetry._tracked
    seen,       \* _unexpected_processes: found by the previous check
    lock,       \* holder of _check_cgroups_lock
    th,         \* the state of each thread
    mem,        \* the clock and the counters of the memory check
    hist,       \* agent_memory_restart_history.json: version -> times
    faults, strays, restarts,
    past        \* what the properties remember (history only)

vars == <<platform, quota, installed, procs, agentOn, extOn,
          tracked, seen, lock, th, mem, hist, faults, strays, restarts, past>>

Agent == <<"agent", "walinuxagent.service">>
Slice(e) == <<"slice", e>>  \* and the services of e, which are set and reset with it
Units == {Agent} \cup {Slice(e) : e \in Exts}
Threads == {"main", "monitor"}
Nobody == "nobody"

(* Where a process of an extension runs: in the extension's slice, or in   *)
(* the agent's cgroup, because the agent started it there ("direct") or    *)
(* because it turned up there ("stray").                                   *)
Places == {"slice", "direct", "stray"}

(* Of the processes in the agent's cgroup those are unexpected that are    *)
(* neither the agent nor a command it started nor systemd-run.             *)
InAgentCgroup(ps) == {e \in Exts : <<e, "direct">> \in ps \/ <<e, "stray">> \in ps}

(* A thread: where it is, the extension it works on, what disable() still  *)
(* has to reset, which disable() it is, and where it goes afterwards.      *)
Idle == [pc |-> "idle", ext |-> Nobody, left |-> {}, kind |-> "none", next |-> "idle"]

disk == <<platform, quota, installed>>
flags == <<agentOn, extOn>>
memory == <<mem, hist>>
bounds == <<faults, strays, restarts>>

TypeOK ==
    /\ platform \in PlatformType
    /\ quota \in [Units -> {"set", "infinity"}]
    /\ installed \subseteq Exts
    /\ procs \subseteq Exts \X Places
    /\ {agentOn, extOn} \subseteq BOOLEAN
    /\ tracked \subseteq Controllers
    /\ seen \subseteq Exts
    /\ lock \in Threads \cup {Nobody}
    /\ th \in [Threads -> [pc: {"initialize", "idle", "setup", "launch", "wait", "direct",
                                "disable", "resetExts"},
                           ext: Exts \cup {Nobody}, left: SUBSET Exts,
                           kind: {"none", "all", "agent"},
                           next: {"idle", "direct", "throttled", "release"}]]
    /\ mem \in [now: 0..MaxTime, start: 0..MaxTime, last: 0..MaxTime,
                breaches: 0..BreachCount, version: Versions]
    /\ \A v \in Versions : hist[v] \in Seq(0..MaxTime)
    /\ faults \in 0..MaxFaults /\ strays \in 0..MaxStrays /\ restarts \in 0..MaxRestarts
    /\ past \in [raced: BOOLEAN, failed: BOOLEAN, reset: SUBSET Exts, disabled: BOOLEAN, missed: SUBSET Exts,
                 exits: [Versions -> Nat], forgot: SUBSET Versions]

Init ==
    /\ platform \in Platforms
    /\ quota \in {[u \in Units |-> IF u = Agent THEN q ELSE "infinity"] :
                    q \in {"infinity"} \cup (IF platform.distro THEN {"set"} ELSE {})}
    /\ installed = {} /\ procs = {}
    /\ agentOn = FALSE /\ extOn = FALSE
    /\ tracked = {} /\ seen = {} /\ lock = Nobody
    /\ th = [t \in Threads |-> IF t = "main" THEN [Idle EXCEPT !.pc = "initialize"] ELSE Idle]
    /\ mem = [now |-> 0, start |-> 0, last |-> 0, breaches |-> 0, version |-> Min(Versions)]
    /\ hist = [v \in Versions |-> <<>>]
    /\ faults = 0 /\ strays = 0 /\ restarts = 0
    /\ past = [raced |-> FALSE, failed |-> FALSE, reset |-> {}, disabled |-> FALSE, missed |-> {},
               exits |-> [v \in Versions |-> 0], forgot |-> {}]

Enabled == agentOn \/ extOn

(* The controllers of the agent's cgroup that can be tracked.              *)
AgentControllers == platform.ctrl

CanEnforceCpu == "cpu" \in platform.ctrl

Goto(t, pc) == th' = [th EXCEPT ![t].pc = pc]
Finish(t) == th' = [th EXCEPT ![t] = Idle]

(* The process of an extension is gone: a later one has another pid.       *)
Exited(ps) ==
    /\ procs' = procs \ ps
    /\ seen' = seen \ InAgentCgroup(ps)

(* A call of systemctl: it succeeds, or fails and the failure is logged.   *)
Succeeds == UNCHANGED <<faults, past>>
Fails ==
    /\ faults < MaxFaults
    /\ faults' = faults + 1
    /\ past' = [past EXCEPT !.failed = TRUE]

----------------------------------------------------------------------------
(* Start-up: CGroupConfigurator.initialize, before any other thread runs.  *)

(* _check_cgroups_supported: the distro, and the API that create_cgroup_api *)
(* finds (which fails on mount points that are not those of systemd).      *)
Supported == platform.distro

(* The end of initialize: enabled reports whether the agent's cgroups are; *)
(* if they are not, or if quotas cannot be enforced, the agent's quota is  *)
(* reset.                                                                  *)
FinallyResets(enabled) == ~enabled \/ ~CanEnforceCpu

(* The agent's quota after initialize; ok tells if systemctl worked.       *)
InitializedQuota(enabled, ok) ==
    IF ~ok THEN quota[Agent]
    ELSE IF FinallyResets(enabled) THEN "infinity" ELSE "set"

(* MUTANT of UnexpectedBeforeEnable: the check before enable is dropped.   *)
UnexpectedBeforeEnableSkipped(broken) == {}

(* _check_fails_if_processes_found_in_agent_cgroup_before_enable: an error *)
(* of _check_processes_in_agent_cgroup is logged, and nothing was found.   *)
UnexpectedBeforeEnable(broken) ==
    IF DisableOnProcessCheck /\ ~broken THEN InAgentCgroup(procs) ELSE {}

(* What initialize costs: the check of the processes may be broken, and a  *)
(* call of systemctl or of the file system may fail.                       *)
InitializeFaults(broken, ok) ==
    /\ faults' = faults + (IF broken THEN 1 ELSE 0) + (IF ok THEN 0 ELSE 1)
    /\ faults' <= MaxFaults

(* _reset_agent_cgroup_setup: the files of the slices are removed; without *)
(* an API _get_resource_quotas returns nothing, and the quota stays set.   *)
InitializeUnsupported ==
    /\ ~Supported
    /\ agentOn' = FALSE /\ extOn' = FALSE
    /\ UNCHANGED <<quota, tracked, faults, past>>

(* The agent's unit is in an unexpected slice, a file or a property cannot *)
(* be read or written (an exception), an extension is found in the agent's *)
(* cgroup (disable(ALL), which resets nothing of the extensions because    *)
(* cgroups are not enabled yet), or there are no controllers.              *)
InitializeDisabled(broken) ==
    LET found == platform.slice /\ UnexpectedBeforeEnable(broken) # {} IN
    /\ Supported
    /\ agentOn' = FALSE /\ extOn' = FALSE
    /\ tracked' = {}
    /\ \/ /\ ~platform.slice \/ found \/ AgentControllers = {}
          /\ InitializeFaults(broken, TRUE)
          /\ past' = [past EXCEPT !.disabled = found, !.reset = {}, !.missed = {}]
          /\ quota' = [quota EXCEPT ![Agent] = InitializedQuota(FALSE, TRUE)]
       \/ /\ InitializeFaults(broken, FALSE)
          /\ past' = [past EXCEPT !.failed = TRUE]
          /\ \E ok \in BOOLEAN : quota' = [quota EXCEPT ![Agent] = InitializedQuota(FALSE, ok)]

(* enable(), the accounting, the quota and the tracking of each controller *)
(* of the agent.  When a call fails the cgroups are enabled nevertheless,  *)
(* and the controllers that follow are not tracked.                        *)
InitializeEnabled(broken) ==
    LET missed == IF broken THEN InAgentCgroup(procs) ELSE {} IN
    /\ Supported /\ platform.slice /\ AgentControllers # {} /\ UnexpectedBeforeEnable(broken) = {}
    /\ agentOn' = TRUE /\ extOn' = TRUE
    /\ \/ /\ InitializeFaults(broken, TRUE)
          /\ past' = [past EXCEPT !.missed = missed]
          /\ quota' = [quota EXCEPT ![Agent] = InitializedQuota(TRUE, TRUE)]
          /\ tracked' = AgentControllers
       \/ /\ InitializeFaults(broken, FALSE)
          /\ past' = [past EXCEPT !.failed = TRUE, !.missed = missed]
          /\ quota' = [quota EXCEPT ![Agent] = InitializedQuota(TRUE, FALSE)]
          /\ tracked' \in SUBSET AgentControllers

(* A check that breaks makes a difference only if there is a process.      *)
Initialize ==
    /\ th["main"].pc = "initialize"
    /\ \/ InitializeUnsupported
       \/ \E broken \in BOOLEAN :
              /\ broken => InAgentCgroup(procs) # {}
              /\ InitializeDisabled(broken) \/ InitializeEnabled(broken)
    /\ Goto("main", "idle")
    /\ UNCHANGED <<platform, installed, procs, seen, lock, memory, strays, restarts>>

----------------------------------------------------------------------------
(* Quotas of the extensions (main thread).                                 *)

(* ExtHandlerInstance.initialize writes the extension's files and calls    *)
(* set_extension_resource_limits; setup_extension_slice looks at enabled() *)
(* first and calls systemctl later.                                        *)
SetupExtension(e) ==
    /\ th["main"].pc = "idle"
    /\ installed' = installed \cup {e}
    /\ th' = IF Enabled THEN [th EXCEPT !["main"].pc = "setup", !["main"].ext = e] ELSE th
    /\ UNCHANGED <<platform, quota, procs, flags, tracked, seen, lock,
                   memory, bounds, past>>

(* The quota of an extension and of its services is what its manifest asks *)
(* for, where it can be enforced.                                          *)
ExtensionQuota == IF CanEnforceCpu THEN "set" ELSE "infinity"

(* Is a disable() of everything past the extension, or over?               *)
AlreadyReset(e) ==
    \/ ~Enabled
    \/ \E t \in Threads : th[t].kind = "all"
         /\ th[t].pc = "resetExts" /\ e \notin th[t].left

(* setup_extension_slice and set_extension_services_cpu_memory_quota       *)
SetQuotas ==
    LET e == th["main"].ext IN
    /\ th["main"].pc = "setup"
    /\ \/ /\ quota' = [quota EXCEPT ![Slice(e)] = ExtensionQuota]
          /\ past' = [past EXCEPT !.raced = @ \/ AlreadyReset(e)]
          /\ faults' = faults
       \/ Fails /\ quota' = quota
    /\ Finish("main")
    /\ UNCHANGED <<platform, installed, procs, flags, tracked, seen, lock,
                   memory, strays, restarts>>

(* _reset_resource_quota of the units us, for CPU.                         *)
ResetOf(us) == [u \in Units |-> IF u \in us /\ CanEnforceCpu THEN "infinity" ELSE quota[u]]

(* disable and uninstall of an extension: the quotas of its slice and of   *)
(* its service are reset if cgroups are enabled, and its files are removed.*)
RemoveExtension(e) ==
    /\ th["main"].pc = "idle"
    /\ e \in installed
    /\ installed' = installed \ {e}
    /\ \E ps \in {{}, {e} \X Places} : Exited(ps)
    /\ \/ /\ Enabled
          /\ \/ quota' = ResetOf({Slice(e)}) /\ Succeeds
             \/ quota' = quota /\ Fails
       \/ ~Enabled /\ UNCHANGED <<quota, faults, past>>
    /\ UNCHANGED <<platform, flags, tracked, lock, th, memory, strays, restarts>>

----------------------------------------------------------------------------
(* Commands of the extensions (main thread).                               *)

(* CGroupConfigurator.start_extension_command                              *)
StartCommand(e) ==
    /\ th["main"].pc = "idle"
    /\ e \in installed
    /\ th' = [th EXCEPT !["main"].ext = e, !["main"].pc = IF Enabled THEN "launch" ELSE "direct"]
    /\ UNCHANGED <<disk, procs, flags, tracked, seen, lock, memory, bounds, past>>

(* _SystemdCgroupApi.start_extension_command: systemd-run moves the        *)
(* command to the slice, or does not get that far.                         *)
LaunchInSlice ==
    LET e == th["main"].ext IN
    /\ th["main"].pc = "launch"
    /\ \/ /\ procs' = procs \cup {<<e, "slice">>}
          /\ Goto("main", "wait")
          /\ UNCHANGED <<faults, past>>
       \/ /\ faults < MaxFaults /\ faults' = faults + 1
          /\ th' = [th EXCEPT !["main"].pc = "disable", !["main"].kind = "all",
                              !["main"].next = "direct"]
          /\ UNCHANGED <<procs, past>>
    /\ UNCHANGED <<disk, flags, tracked, seen, lock, memory, strays, restarts>>

(* A command that fell back to Popen runs in the agent's cgroup.           *)
LaunchDirectly ==
    LET e == th["main"].ext IN
    /\ th["main"].pc = "direct"
    /\ procs' = procs \cup {<<e, "direct">>}
    /\ Goto("main", "wait")
    /\ UNCHANGED <<disk, flags, tracked, seen, lock, memory, bounds, past>>

(* handle_process_completion: the command ends or is killed at its         *)
(* timeout, and may leave a process behind.                                *)
CommandCompletes ==
    LET e == th["main"].ext IN
    /\ th["main"].pc = "wait"
    /\ \E ps \in {{}, {e} \X Places} : Exited(ps)
    /\ Finish("main")
    /\ UNCHANGED <<platform, quota, installed, flags, tracked, lock, memory, bounds, past>>

(* validate_signature runs openssl in a scope of its own; when systemd-run *)
(* fails it disables cgroups and runs openssl directly, as a command of    *)
(* the agent.                                                              *)
ValidateSignature ==
    /\ th["main"].pc = "idle"
    /\ Enabled
    /\ faults < MaxFaults /\ faults' = faults + 1
    /\ th' = [th EXCEPT !["main"].pc = "disable", !["main"].kind = "all", !["main"].next = "idle"]
    /\ UNCHANGED <<disk, procs, flags, tracked, seen, lock, memory, strays, restarts, past>>

----------------------------------------------------------------------------
(* CGroupConfigurator.disable, by either thread.                           *)

(* Where the caller of disable goes on: check_cgroups disables the agent   *)
(* too when it was throttled, and releases its lock.                       *)
AfterDisable(t) ==
    /\ th' = CASE th[t].next = "direct" -> [th EXCEPT ![t] = [Idle EXCEPT !.pc = "direct", !.ext = th[t].ext]]
               [] th[t].next = "throttled" -> [th EXCEPT ![t] = [Idle EXCEPT !.pc = "disable",
                                                                  !.kind = "agent", !.next = "release"]]
               [] OTHER -> [th EXCEPT ![t] = Idle]
    /\ lock' = IF th[t].next = "release" THEN Nobody ELSE lock

(* get_extension_services_list: what has a HandlerManifest.json on disk    *)
ExtensionsOnDisk == installed

(* What disable() is about to reset, remembered: nothing once another      *)
(* disable() is over.                                                      *)
Listed == IF Enabled THEN [past EXCEPT !.reset = ExtensionsOnDisk] ELSE past

(* The agent's quotas are reset, failures are logged; then the services of *)
(* the extensions are listed from the files on disk, which may raise.      *)
DisableAll(t) ==
    /\ th[t].pc = "disable" /\ th[t].kind = "all"
    /\ \/ /\ \/ quota' = ResetOf({Agent}) /\ past' = Listed /\ faults' = faults
             \/ /\ faults < MaxFaults /\ faults' = faults + 1
                /\ quota' = quota
                /\ past' = [Listed EXCEPT !.failed = TRUE]
          /\ th' = [th EXCEPT ![t].pc = "resetExts", ![t].left = ExtensionsOnDisk]
          /\ lock' = lock
       \/ /\ faults < MaxFaults /\ faults' = faults + 1
          /\ quota' = ResetOf({Agent})
          /\ past' = past
          /\ AfterDisable(t)
    /\ UNCHANGED <<platform, installed, procs, flags, tracked, seen, memory,
                   strays, restarts>>

(* reset_extension_quota and reset_extension_services_quota do nothing if  *)
(* another disable() is over by then.                                      *)
ResetExtension(t, e) ==
    /\ th[t].pc = "resetExts" /\ e \in th[t].left
    /\ \/ quota' = (IF Enabled THEN ResetOf({Slice(e)}) ELSE quota) /\ Succeeds
       \/ Enabled /\ quota' = quota /\ Fails
    /\ th' = [th EXCEPT ![t].left = @ \ {e}]
    /\ UNCHANGED <<platform, installed, procs, flags, tracked, seen, lock, memory,
                   strays, restarts>>

(* MUTANT of TurnOff: the flags are cleared before the quotas are reset.   *)
TurnOffFirst(t) ==
    /\ th[t].pc = "resetExts"
    /\ IF Enabled \/ th[t].left # {}
       THEN UNCHANGED <<lock, th>> /\ Enabled
       ELSE AfterDisable(t)
    /\ agentOn' = FALSE /\ extOn' = FALSE /\ tracked' = {}
    /\ past' = [past EXCEPT !.disabled = TRUE, !.missed = {}]
    /\ UNCHANGED <<disk, procs, seen, memory, bounds>>

(* The end of disable(ALL): nothing is tracked, and both flags are off.    *)
TurnOff(t) ==
    /\ th[t].pc = "resetExts" /\ th[t].left = {}
    /\ agentOn' = FALSE /\ extOn' = FALSE /\ tracked' = {}
    /\ past' = [past EXCEPT !.disabled = TRUE, !.missed = {}]
    /\ AfterDisable(t)
    /\ UNCHANGED <<disk, procs, seen, memory, bounds>>

DisableAgent(t) ==
    /\ th[t].pc = "disable" /\ th[t].kind = "agent"
    /\ \/ quota' = ResetOf({Agent}) /\ Succeeds
       \/ quota' = quota /\ Fails
    /\ agentOn' = FALSE /\ tracked' = tracked \ {"cpu"}
    /\ AfterDisable(t)
    /\ UNCHANGED <<platform, installed, procs, extOn, seen, memory,
                   strays, restarts>>

Disable(t) ==
    DisableAll(t) \/ DisableAgent(t) \/ TurnOff(t) \/ (\E e \in Exts : ResetExtension(t, e))

----------------------------------------------------------------------------
(* The checks.                                                             *)

(* MUTANT of Remember: a check does not keep what it found for the next.   *)
RememberNothing(found) == seen

(* _unexpected_processes = current_unexpected                              *)
Remember(found) == found

(* CGroupConfigurator.check_cgroups: a process is reported only when the   *)
(* previous check found it too (an error of the check is logged and keeps  *)
(* what the previous one found); the main thread has no metrics, and so    *)
(* does not look for throttling.                                           *)
CheckCgroups(t) ==
    LET found == InAgentCgroup(procs)
        report == found \cap seen
    IN
    /\ th[t].pc = "idle" /\ th["main"].pc # "initialize"
    /\ lock = Nobody
    /\ Enabled
    /\ \E broken \in BOOLEAN, throttled \in BOOLEAN :
          /\ broken => faults < MaxFaults
          /\ faults' = IF broken THEN faults + 1 ELSE faults
          /\ throttled => t = "monitor" /\ "cpu" \in tracked /\ DisableOnQuotaCheck
          /\ seen' = IF broken THEN seen ELSE Remember(found)
          /\ LET all == ~broken /\ report # {} /\ DisableOnProcessCheck
             IN IF all \/ throttled
                THEN /\ lock' = t
                     /\ th' = [th EXCEPT ![t] =
                                 [Idle EXCEPT !.pc = "disable",
                                              !.kind = IF all THEN "all" ELSE "agent",
                                              !.next = IF all /\ throttled THEN "throttled"
                                                                          ELSE "release"]]
                ELSE UNCHANGED <<lock, th>>
    /\ UNCHANGED <<disk, procs, flags, tracked, memory, strays, restarts, past>>

----------------------------------------------------------------------------
(* The memory of the agent (main thread).                                  *)

RestartsOf(v) == hist[v]

(* MUTANT of CanRestart: one restart too many.                             *)
CanRestartOnceMore(v) ==
    /\ Len(RestartsOf(v)) <= MaxPerVersion
    /\ RestartsOf(v) # <<>> => mem.now >= Max(Range(RestartsOf(v))) + MinInterval

(* AgentMemoryRestartHistory.version_can_restart; a clock that went back   *)
(* counts as no time at all.                                               *)
CanRestart(v) ==
    /\ Len(RestartsOf(v)) < MaxPerVersion
    /\ RestartsOf(v) # <<>> => mem.now >= Max(Range(RestartsOf(v))) + MinInterval

(* _prune_versions: the versions with the latest restarts are kept; sorted *)
(* is stable, so a tie may go either way.                                  *)
Pruned(h) ==
    LET active == {v \in Versions : h[v] # <<>>}
        latest(v) == Max(Range(h[v]))
        Kept(k) == /\ Cardinality(k) = MaxVersionsRetained
                   /\ \A v \in k, w \in active \ k : latest(v) >= latest(w)
    IN IF Cardinality(active) <= MaxVersionsRetained THEN {h}
       ELSE {[v \in Versions |-> IF v \in k THEN h[v] ELSE <<>>] : k \in {k \in SUBSET active : Kept(k)}}

(* A new process of the agent, of version v: nothing of the old one's      *)
(* memory is left; units, processes and files are as they were.            *)
NewProcess(v) ==
    /\ agentOn' = FALSE /\ extOn' = FALSE
    /\ tracked' = {} /\ seen' = {} /\ lock' = Nobody
    /\ th' = [t \in Threads |-> IF t = "main" THEN [Idle EXCEPT !.pc = "initialize"] ELSE Idle]
    /\ mem' = [mem EXCEPT !.start = mem.now, !.last = 0, !.breaches = 0,
                          !.version = v]

(* The history is saved before the agent exits; when it cannot be saved    *)
(* the agent stays.                                                        *)
RestartAgent ==
    LET v == mem.version IN
    \/ /\ hist' \in Pruned([hist EXCEPT ![v] = Append(@, mem.now)])
       /\ past' = [past EXCEPT !.exits[v] = @ + 1, !.disabled = FALSE, !.reset = {},
                               !.forgot = @ \cup {w \in Versions : hist'[w] = <<>> /\ (hist[w] # <<>> \/ w = v)}]
       /\ NewProcess(v)
       /\ faults' = faults
    \/ /\ faults < MaxFaults /\ faults' = faults + 1
       /\ mem' = [mem EXCEPT !.last = mem.now, !.breaches = 0]
       /\ UNCHANGED <<hist, past, flags, tracked, seen, lock, th>>

(* UpdateHandler._check_agent_memory_usage, once extensions have converged *)
CheckAgentMemoryUsage ==
    /\ th["main"].pc = "idle"
    /\ platform.version = "v2" /\ Supported
    /\ mem.now >= mem.start + LaunchInterval
    /\ mem.now >= mem.last + CheckPeriod
    /\ \/ /\ mem' = [mem EXCEPT !.last = mem.now, !.breaches = 0]
          /\ UNCHANGED <<hist, past, flags, tracked, seen, lock, th, faults>>
       \/ /\ Enabled /\ "memory" \in tracked
          /\ \/ /\ mem.breaches + 1 < BreachCount
                /\ mem' = [mem EXCEPT !.last = mem.now, !.breaches = @ + 1]
                /\ UNCHANGED <<hist, past, flags, tracked, seen, lock, th, faults>>
             \/ /\ mem.breaches + 1 >= BreachCount /\ ~CanRestart(mem.version)
                /\ mem' = [mem EXCEPT !.last = mem.now, !.breaches = 0]
                /\ UNCHANGED <<hist, past, flags, tracked, seen, lock, th, faults>>
             \/ mem.breaches + 1 >= BreachCount /\ CanRestart(mem.version) /\ RestartAgent
    /\ UNCHANGED <<disk, procs, strays, restarts>>

----------------------------------------------------------------------------
(* The environment.                                                        *)

(* A process of an extension turns up in the agent's cgroup.               *)
StrayProcess(e) ==
    /\ strays < MaxStrays /\ strays' = strays + 1
    /\ e \notin InAgentCgroup(procs)
    /\ procs' = procs \cup {<<e, "stray">>}
    /\ UNCHANGED <<disk, flags, tracked, seen, lock, th, memory, faults, restarts, past>>

ProcessExits(e, where) ==
    /\ <<e, where>> \in procs
    /\ Exited({<<e, where>>})
    /\ UNCHANGED <<disk, flags, tracked, lock, th, memory, bounds, past>>

Tick ==
    /\ mem.now < MaxTime
    /\ platform.version = "v2" /\ "memory" \in platform.ctrl
    /\ th["main"].pc = "idle"
    /\ mem' = [mem EXCEPT !.now = @ + 1]
    /\ UNCHANGED <<disk, procs, flags, tracked, seen, lock, th, hist, bounds, past>>

(* The history file cannot be read, or is of another schema: a new one is  *)
(* started.                                                                *)
HistoryLost ==
    /\ faults < MaxFaults /\ faults' = faults + 1
    /\ \E v \in Versions : hist[v] # <<>>
    /\ hist' = [v \in Versions |-> <<>>]
    /\ past' = [past EXCEPT !.forgot = Versions]
    /\ UNCHANGED <<disk, procs, flags, tracked, seen, lock, th, mem, strays, restarts>>

(* The agent crashes, or another version takes over.                       *)
Restart(v) ==
    /\ restarts < MaxRestarts /\ restarts' = restarts + 1
    /\ NewProcess(v)
    /\ platform' \in {platform} \cup (IF MayLoseSupport /\ v # mem.version
                                      THEN {[platform EXCEPT !.distro = FALSE]} ELSE {})
    /\ past' = [past EXCEPT !.disabled = FALSE, !.reset = {}]
    /\ UNCHANGED <<quota, installed, procs, hist, faults, strays>>

Reboot ==
    /\ restarts < MaxRestarts /\ restarts' = restarts + 1
    /\ NewProcess(mem.version)
    /\ quota' = [u \in Units |-> "infinity"]
    /\ procs' = {}
    /\ past' = [past EXCEPT !.disabled = FALSE, !.reset = {}, !.raced = FALSE, !.failed = FALSE,
                            !.missed = {}]
    /\ UNCHANGED <<platform, installed, hist, faults, strays>>

----------------------------------------------------------------------------
MainFinishes ==
    Initialize \/ SetQuotas \/ LaunchInSlice \/ LaunchDirectly \/ CommandCompletes \/ Disable("main")

MainStarts ==
    \/ \E e \in Exts : SetupExtension(e) \/ StartCommand(e) \/ RemoveExtension(e)
    \/ ValidateSignature \/ CheckCgroups("main") \/ CheckAgentMemoryUsage

Monitor == Disable("monitor") \/ CheckCgroups("monitor")

Environment ==
    \/ \E e \in Exts : StrayProcess(e) \/ (\E w \in Places : ProcessExits(e, w))
    \/ Tick \/ HistoryLost \/ Reboot \/ (\E v \in Versions : Restart(v))

Next == MainFinishes \/ MainStarts \/ Monitor \/ Environment

Spec == Init /\ [][Next]_vars

(* The monitor's period elapses again and again, and a thread that has     *)
(* started an operation completes it.                                      *)
FairSpec ==
    /\ Spec
    /\ WF_vars(MainFinishes)
    /\ WF_vars(Disable("monitor"))
    /\ WF_vars(CheckCgroups("monitor"))

----------------------------------------------------------------------------
(* Properties.                                                             *)

(* A command of an extension that the agent started directly, because      *)
(* systemd-run failed or cgroups are disabled, runs in the agent's cgroup; *)
(* as long as it runs, and even after the agent restarts, the agent's CPU  *)
(* quota is not set and does not limit it (start_extension_command,        *)
(* disable, initialize).  The exceptions are a call of systemctl that      *)
(* failed, and a command that a restarted agent missed because its check   *)
(* of the processes broke: initialize takes the error for "nothing found"  *)
(* and enables the quota.                                                  *)
DirectMeansUnlimited ==
    \A e \in Exts \ past.missed :
        <<e, "direct">> \in procs /\ ~past.failed => quota[Agent] = "infinity"

(* Once disable(ALL) is over, no unit that it is to reset is left with a   *)
(* quota: neither the agent nor any extension that was on disk when        *)
(* disable() listed them, unless a call of systemctl failed or the main    *)
(* thread was between its look at enabled() and its call of systemctl      *)
(* (setup_extension_slice) meanwhile.  The disable(ALL) of initialize, for *)
(* processes found before cgroups are enabled, resets the agent's quota    *)
(* only: the slices keep the quotas that an earlier process set.           *)
DisabledLeavesNoQuota ==
    past.disabled /\ ~Enabled /\ ~past.raced /\ ~past.failed
        => /\ quota[Agent] = "infinity"
           /\ \A e \in past.reset : quota[Slice(e)] = "infinity"

(* A version of the agent exits because of its memory no more often than   *)
(* the configured number of times, over all its processes, unless the      *)
(* history of that version was lost or pruned (version_can_restart).       *)
MemoryRestartsAreBounded ==
    \A v \in Versions \ past.forgot : past.exits[v] <= MaxPerVersion

(* An extension that stays in the agent's cgroup makes the agent disable   *)
(* cgroups, whichever thread finds it first (check_cgroups).               *)
UnexpectedProcessDisables ==
    \A e \in Exts : <>[](e \in InAgentCgroup(procs)) => []<>~Enabled

============================================================================

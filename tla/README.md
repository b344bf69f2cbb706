# Verification of the Azure Linux Agent

This directory holds TLA+ models of the Azure Linux Agent (`src/azurelinuxagent`),
the TLC configurations that check them, and proofs checked by TLAPS. The models
are translated from the code; `PROJECT.json` maps every definition to the lines
it stands for and lists the runs, the hazards of the code and the theorems.

## 1. The system

The **daemon** (`daemon/main.py`) finds the WireServer, provisions the VM, prepares
the resource disk and then, in a loop, launches the newest usable version of the
**agent process** (`ga/update.py`). Its main loop polls for goal states, updates
the agent, executes the extensions and reports status. Threads beside it collect
and send telemetry, watch the environment (firewall, DHCP, host name), monitor
resources and collect logs. **Extensions** are third-party packages: the agent
runs their commands and reads the status files their processes write. Goal states
come from two services on the host, the **WireServer** and the **HostGAPlugin**.

All the parts share one difficulty: the agent may die between any two steps, and
what the next process knows is what a few small files say.

There are two kinds of modules. A **state machine** has variables, actions and a
specification; it is used where processes, threads or services interleave. A
**document module** has only operators: it models code that is a function of its
input (a parser, a report, a purge), including every way in which a step of it
can fail, together with the promises the code makes. TLC evaluates the promises
over all bounded inputs, as assumptions of an MC module, when it loads the run.

| Part | Module | Kind | Checked in |
|---|---|---|---|
| Extension handler (`exthandlers.py`) | `ExtHandlers` | machine | `handler_single`, `handler_multi` |
| Goal states (`goal_state.py`, `hostplugin.py`, `wire.py`, `update.py`) | `GoalState` | machine | `goal_state_stable`, `goal_state_live` |
| History of goal states (`archive.py`) | `GoalStateHistory` | document | `goal_state_*` |
| Accounts of the goal state (`remoteaccess.py`, `osutil`) | `RemoteAccess` | document | `goal_state_*` |
| Agent update and launch (`agent_update_handler.py`, `*_version_updater.py`, `guestagent.py`, `run_latest`) | `AgentUpdate` | machine | `agent_update` |
| Sequencing and reporting (`exthandlers.py`, `update.py`) | `ExtSequencing` | machine | `ext_sequencing` |
| Extensions in the two goal state formats (`extensions_goal_state*.py`) | `GoalStateDocs`, `GoalStateReading` | document | `ext_sequencing` |
| Status files, heartbeats, status blob (`exthandlers.py`, `wire.py`) | `StatusDocs` | document | `ext_sequencing` |
| Policy file (`policy_engine.py`) | `PolicyDocs` | document | `ext_sequencing` |
| Telemetry threads (`event.py`, `collect_telemetry_events.py`, `send_telemetry_events.py`, `thread_handler_base.py`) | `TelemetryPipeline` | machine | `telemetry` |
| Contents of events (`event.py`, `collect_telemetry_events.py`, `wire.py`) | `EventDocs` | document | `telemetry` |
| Periodic operations, messages and metrics (`periodic_operation.py`, `monitor.py`, `logger.py`) | `Periodic` | document | `telemetry` |
| Soft lockups in the kernel log (`kernel_event_monitor.py`) | `KernelEvents` | document | `telemetry` |
| Firewall, boot service, environment thread (`firewall_manager.py`, `persist_firewall_rules.py`, `env.py`) | `Firewall` | machine | `firewall_repair` |
| Resource control and memory restarts (`cgroup*.py`, `agent_memory_restart_history.py`) | `ResourceControl` | machine | `resource_control` |
| Log collector (`logcollector.py`, `collect_logs.py`) | `LogCollection` | document | `resource_control` |
| HTTP, downloads, status upload, health (`restutil.py`, `wire.py`, `hostplugin.py`, `healthservice.py`) | `HostChannel` | machine | `host_channel` |
| What a download promises its callers (`download_zip_package`) | `PackageDownload` | machine | `host_channel` (refinement) |
| Daemon, discovery, provisioning, resource disk, deprovisioning (`daemon/`, `pa/`, `protocol/util.py`, `dhcp.py`) | `Provisioning` | machine | `provisioning`, `orphan_agent` |

How the modules fit together: `ExtSequencing` is composed of five modules. A goal
state in it is a document that CRP wrote, in one of the two formats, perhaps with
a fault; the machine works on what `GoalStateReading` and `GoalStateDocs` read in
it, on the statuses that `StatusDocs` reads in the files of the extensions, and on
what `PolicyDocs` allows; its properties speak of what CRP meant. What is read in
each document is a constant of `ExtSequencing`, `Contents`; the MC module computes
it with `GoalStateReading`, and `ReadingAssumption` says what the properties need
of it. What it does to one handler in a step is the subject of `ExtHandlers`.
`HostChannel` implements `PackageDownload`, which is what `ExtHandlers` and
`AgentUpdate` assume of a download: it ends with a package or without one.
`GoalState` uses a request as a step that succeeds or fails, which is what the
retry loop in `HostChannel` returns.

## 2. The modules

A model keeps the control flow of the code (guards, early returns, error paths
and their order) and abstracts its data. `MC<Module>.tla` instantiates a module
for TLC; definitions marked MUTANT are plausible bugs, used only to show that a
property can fail. Every bound is a constant that appears in a guard.

### ExtHandlers

One handler and all its versions. `hstate`, `estate` and `hstatus` are the files
in each version directory; `pc` is the position in `handle_enable`,
`handle_disable` or `handle_uninstall`, and each extension command (install,
update, enable, disable, uninstall) is a step that succeeds or fails, followed by
the bookkeeping that the code does for that outcome. `Crash` is possible
everywhere, also between the state and the status that `install` writes and between
the extension state and the handler state that `enable` and `disable` write (the
handler state and the status after it are one step there). `torn` is history: the versions whose handler state was not written since
the agent died between the state of an extension and that of the handler, or went
on with an update after a failed disable. Left out: environments of commands,
package signatures, the errors of writing a state or status file, which are
swallowed (`exthandlers.py:2401`, 2456).

* `handler_single`: three versions (one with `updateWithInstall`, one with
  `continueOnUpdateFailure`), three goal states, one death. Three versions are
  the least that let an update start from the leftovers of another one.
* `handler_multi`: two extensions, two versions, three goal states, one death.
  Every goal state lists both extensions, because the code looks only at those
  that are listed (section 4).

### GoalState, GoalStateHistory, RemoteAccess

Each HTTP request is a step, so the services can change between two requests of
one update. `hp` is the HostGAPlugin client with its cache, `snap` and `got` are
what the current update has received, `egs` is the goal state in memory.
`executed` is the creation time of the last goal state that was executed. Left
out: the wait for cloud-init, certificates deleted from disk, threads other than
the main one. The retry on a 410 is folded into the request. A new goal state
appears on both services at once.

* `goal_state_stable`: the HostGAPlugin always supports vmSettings. Three goal
  states, two certificates, a failed request of any kind, two deaths.
* `goal_state_live`: also a migration and a change of configuration; checks
  that the newest goal state is executed.

When these runs load, TLC also evaluates

* `HistoryOfGoalStates` and `LegacyFilesAreRemoved` (`GoalStateHistory`), over
  sequences of three iterations with new goal states, parse errors, files that
  cannot be removed and archives that fail: the directory of the current goal
  state is never archived or purged, archiving loses no document, all older
  directories are archived, the purge deletes the oldest;
* `RemoteAccessIsAsAsked` (`RemoteAccess`), over three goal states with accounts
  that come, go and expire and every command failing: accounts are as the last
  goal state asks or a command failed, an added account is complete, other
  accounts are left alone, and the agent stops looking when nothing is left.

### AgentUpdate

The daemon's `run_latest`, and the part of the agent that downloads a version and
exits for it, under RSM and under self-update. The random wait of self-update is a
nondeterministic choice; launch attempts beyond `RestartMax` and launches beyond
`LaunchesCap` are not told apart. Automatic updates are enabled. Left out:
a `Popen` that fails, a failed goal state, outdated goal states, signatures.

* `agent_update`: working versions, a crashing one, one without a manifest;
  two goal states, one kill, one reboot.

### ExtSequencing with GoalStateReading, GoalStateDocs, StatusDocs and PolicyDocs

The loop over the extensions of a goal state. What is done to one handler is a
step that succeeds, fails or is disallowed; the processes of an extension write
any status at any time, or never. One extension per handler; no heartbeat in the
machine, no change of version, no disabled multi-config extensions. An extension
that succeeded for a sequence number does not apply it again.

* `ext_sequencing`: three extensions, two goal states, one death. The documents
  include a chain, two extensions on one level, an uninstall, goal states on hold
  or not supported, and faults that the parser contains or that reject the whole
  document; status files include garbage and files that are too large.

On loading: `FormatsAgree` (the two formats of a goal state read alike),
`FaultsAreContained` (a fault in one handler of an ExtensionsConfig changes
nothing for the others), `DocumentsReadAsMeant` (what the agent reads in a
document that it does not reject is what CRP meant, for two extensions in all
positions and each fault but two, see section 4), `StatusesAreBounded`,
`SummariesMatch` (the agent takes a goal state for converged when CRP does),
`PolicyMeansWhatItSays` and `NewerVersionsAreRejected`.

### TelemetryPipeline with EventDocs, Periodic and KernelEvents

Writers list the directory, remove the oldest files one by one and write their
own, each in a step, as `save_event` does; the collector's check for a stopped
sender and its `put` are two steps; `join` may time out. Left out: `flush=True`
(no caller), events about failing telemetry, duplicates made by HTTP retries, a
killed process.

* `telemetry`: two writers and an extension, three events, and every limit
  (files, events per period, buffer) set to one, so that each is exceeded.

On loading: `ReadingIsPatient` (a file that is being written is read again),
`ExtensionEventsAreChecked`, `EventsAreComplete` (each kind of event has all its
parameters once, whatever its source), `EncodingIsFaithful`,
`DroppedEventsAreReported`, `OnlyChangesAreEmitted`, `OperationsArePeriodic` (no
operation runs early or starves, an error that repeats is logged once an hour),
`OutputsArePeriodic`, `TracesAreBounded` and `LockupsAreCountedOnce` (over scans
cut at any line, restarts of the agent and reboots).

### Firewall

Each command of iptables, nft, firewall-cmd or systemctl is a step that may
fail. Three actors use them: the boot service, `_initialize_firewall` and the
environment thread, with its check, its repair and its limits on reports.
`chain` and `nft` are the rules, `disk` what is persisted. Whether firewalld runs
(asked when the rules are persisted) and whether it is enabled (asked at the boot)
are two variables. Meanwhile rules are flushed or deleted, firewalld reloads, is
started, stopped, enabled or disabled, the agent restarts and the VM reboots.
`raced` is history: during an operation, others or a deletion that used up its
attempts left a DROP rule without both rules that accept above it.

* `firewall_repair`: five machines (iptables with and without its modules, nft,
  neither; with and without systemd), one failing command, two changes by others,
  one restart or reboot. Two changes let the second one fall into the repair of
  the first. On loading, `WithoutSelects`: `Without`, which deletes rules, is
  `SelectSeq`, over the sequences of up to four rules.

### ResourceControl with LogCollection

`CGroupConfigurator` as used by the main thread and the monitor thread: only the
check takes the lock, `disable()` also runs without it, and each call of systemctl
is a step. Quotas and processes outlive the agent. The memory check has its
history file with its limits per version. Left out: the counters that the
controllers read.

* `resource_control`: four machines (cgroup v1 and v2, no slice, an unsupported
  distribution), one extension, two agent versions, one failed call or broken
  process check, one stray process, one restart.

On loading: `LogsAreCollected` (the archive is bounded, what must be collected
comes first, truncated copies are fresh and do not pile up; over three files that
grow, vanish and fail and a second collection), `CollectorGivesUp` and
`CollectorNeedsCgroups`.

### HostChannel and PackageDownload

Every request is a step; the host may change between any two. `http_request`
is the retry loop with its separate limit for throttling, written as the answer
to the first attempt that is not followed by another.
`main` is the operation of the main thread: a download with its fallback between
channels, its refresh of stale headers and the package on disk, or the upload of
the status in one piece or in pages. The stream, the expansion and each deletion
may fail; `stuck` remembers what could not be deleted. `health` is an `ErrorState`
with its signals.
Left out: delays, proxies, the contents of documents, the upload of logs.

* `host_channel`: two locations, retries 2 and 3 (6 and 25 in the code, only the
  difference matters), two faults of working servers or of the disk, one change of
  the host. Two faults let a deletion fail after the stream or the expansion did,
  and an error state become old enough for an unhealthy signal.

### Provisioning

From power-on to a running agent. What survives a reboot is on disk; the disk
becomes the disk of another VM, deprovisioned (with its account or without) or
not, and whether or not the first VM had recorded its id. `conf` says who provisions
(the agent, cloud-init, nobody). Modelled: detection of the WireServer with its
cached endpoint and DHCP lease, each step of provisioning, `cleanup` for a new
instance id, the resource disk, each action of `deprovision`, and the agents of a
daemon that died. `lib.state` is what `run_changed_unique_id` removes: goal states
and the settings and statuses of extensions. Host keys are regenerated
(`Provisioning.RegenerateSshHostKeyPair=y`, the default). Left out: the swap file,
the host name, what is reported to the WireServer.

* `provisioning`: two VMs, one reboot, one failing command, two attempts of
  detection. The network goes and comes back any number of times; `AgentComesUp`
  supposes only that it stays in the end.
* `orphan_agent`: the expected violation of section 4.

## 3. What the properties say

| Property | Meaning |
|---|---|
| `OneInstalledVersion` | at most one version of a handler is installed |
| `PolicyGate` | no command of a version runs in an enable or uninstall before its policy check |
| `EnabledIffSomeExtensionIs` | the state of a multi-config handler follows its extensions, but for `torn` versions |
| `ProcessedMeansConverged` | a goal state without failures leaves what it asked for |
| `HandlerStatusAvailable` | there is a handler status to report |
| `KeepsWorkingVersion` | a version is given up only on request, for a successful update, or in a downgrade whose update command fails |
| `EveryGoalStateIsProcessed` | goal states end |
| `NeverGoesBack`, `ExecutedOnce` | goal states are executed in order, and once per process |
| `CertificatesInSync` | a Fast Track goal state is executed with its certificate on disk, or there is a reason why not |
| `NewestIsExecuted` | the newest goal state is eventually executed |
| `NextAgentIsTarget` | the daemon launches the version the agent exited for |
| `BlacklistsOnlyBad`, `CrashLoopIsBounded` | working versions are not blacklisted, crashing ones are launched a bounded number of times |
| `SuccessMeansTarget` | success is reported to RSM only by the requested version |
| `GoalStatesAreProcessed` | updates do not starve the extensions |
| `DependencyOrder` | an extension is enabled after those that CRP put before it succeeded |
| `EveryExtensionIsReported` | each extension of the goal state has a status |
| `RemovedOnRequest` | a handler is removed only for a goal state that asks to uninstall it or leaves it out |
| `InitialGoalStateConverges` | the initial goal state completes only when its extensions are terminal |
| `GoalStatesAreReported` | the loop never waits for ever |
| `CleanShutdown` | the order of the shutdown loses no event |
| `SentOnce`, `DirectoryIsBounded`, `EventsLeave` | no event twice, bounded files, every event leaves |
| `OkMeansProtected` | when the check says that the rules are right, they are |
| `PersistedRulesSurviveReboot` | rules that were persisted are restored by one of the two mechanisms, where that one can act (`InForce`) |
| `Repaired` | whatever happens to the rules, they are eventually right again, or wrong in a way that the check cannot see (`NotSeenByCheck`) |
| `DirectMeansUnlimited` | a command that was started in the agent's cgroup is not under the agent's quota, unless a broken check missed it |
| `DisabledLeavesNoQuota` | after a disable by any thread no quota is left on what it is to reset |
| `UnexpectedProcessDisables` | a process that does not belong into the agent's cgroup is noticed |
| `MemoryRestartsAreBounded` | the limits on memory restarts hold across processes |
| `DownloadsAreAtomic` | `HostChannel` implements `PackageDownload` |
| `FailuresAreExplained` | a download does not fail while the host answers, for headers that it calls stale with a 410: they are refreshed |
| `UnhealthyIsEarned` | an unhealthy signal follows a period without a success |
| `StatusIsUploaded` | a status, or a later one, reaches the blob in all its pages |
| `OwnIdentity` | a VM from an image that was deprovisioned with its account has its own account and host keys |
| `StateIsOfThisVm` | no goal state of another VM that had recorded its id, and no WireServer of another VM, is used, unless the file `Protocol` could not be deleted |
| `DiskDataSurvives` | the resource disk is not formatted again |
| `AgentComesUp` | every boot ends with an agent, or with a daemon that was told to sleep |

Each module also has a `TypeOK` where a proof or a reader needs it; the type
invariants are not listed as results.

**Fairness.** Weak fairness of the steps of the agent's own loops and threads
(they block only on calls with a timeout, and systemd or the daemon restarts a
dead process), and of the clock where the code waits for a deadline. In
`HostChannel` the two things that the main loop does once in every iteration,
`UpdateGoalState` and `StartUpload`, are strongly fair: downloads and manifests
come in between and disable them, but the loop returns to each. Nothing is
assumed of the services, of the extensions or of failures, which are bounded in
number. `StatusIsUploaded` supposes that one of the two routes is open in the end.

## 4. Disagreements and limits

**A run that TLC must find violated.** `orphan_agent`: the next agent kills an
orphan that does not exit in time, says the log message, and a test expects it;
`os.kill` gets the pid as a string and raises, so both agents are at work
(`update.py:970`).

**Found by changing a constant of a passing run**, each with the value that
reproduces it:

* `ExtHandlers`, `SupportsMC = TRUE` and `UpdateWithInstall = {}`, property
  `HandlerStatusAvailable`: an update without `updateWithInstall`, then a failing
  enable of a multi-config extension, leaves no handler status
  (`exthandlers.py:1943`; the comment at 1189 says there is always one). So does a
  death between the two writes of `install` (1847, 1848), then a failing enable.
* `ExtHandlers`, `handler_multi` with `SettingsSets` all sets of extensions,
  property `EnabledIffSomeExtensionIs`: a goal state that disables the extensions
  it lists disables the handler, also while one that it leaves out is enabled.
* `ExtHandlers`, `RemoveMayFail = TRUE`, property `OneInstalledVersion`: an update
  ignores a directory that cannot be deleted (`exthandlers.py:1898`).
* `GoalState`, `FailingRequests` with `"fullGoalState"` in the live
  configuration, property `NewestIsExecuted`: vmSettings received while the
  request for the full goal state fails stay cached (`hostplugin.py:560`), and
  the Fast Track goal state is not executed.
* `GoalState`, `MaxMigrations = 1`, property `NeverGoesBack`: fails after a
  certificate rotation (`goal_state.py:287`) or a restart (`update.py:793`).
* `GoalState`, `MaxMigrations = 2` in the live configuration, property
  `NewestIsExecuted`: when support for vmSettings is lost and regained, a 304 keeps
  "unsupported".
* `GoalState`, `MaxMigrations = 2` in the stable configuration, property
  `ExecutedOnce`: when support for vmSettings is lost and regained, the agent goes
  back to the goal state of the WireServer and then executes the cached Fast Track
  one again.
* `AgentUpdate`, `Malformed = {4}`, property `BlacklistsOnlyBad`: the agent exits for
  a version whose manifest cannot be parsed, which the daemon cannot launch; it
  launches the old version again and, the third time, blacklists that one.
* `AgentUpdate`, `Malformed = {3}` and `NoManifest = {}`, property
  `GoalStatesAreProcessed`: a malformed manifest removes the directory that counts
  the attempts (`guestagent.py:59`), and the update is attempted for ever.
* `AgentUpdate`, `CrashesLate = TRUE`, property `CrashLoopIsBounded`:
  `child_launch_time` is set once per version (`update.py:1012`).
* `Firewall`, `LockOut = TRUE` without the check for deadlocks, property
  `Repaired`: an agent that starts while its own traffic is dropped asks for the
  goal state (`update.py:430`) before it initializes the firewall, and the
  environment thread never starts.
* `ResourceControl`, `MayLoseSupport = TRUE`, property `DirectMeansUnlimited`: a new
  agent that does not support the distribution any more leaves the quotas of the
  old one.

**Read in the code and modelled as the code does it**; the properties are stated
so that they hold:

* `ExtHandlers`: the update command of a downgrade is that of the old version, and
  when it fails it is the old, installed version that is marked `FailedUpgrade`
  (`exthandlers.py:1002`, 1933), which `get_installed_version` ignores (1452): the
  VM is left without an installed version although the goal state asked for one.
  `KeepsWorkingVersion` excepts it (`FailedDowngrade`).
* `ExtHandlers`: a death between the writes of the extension state and the handler
  state (`exthandlers.py:1788`), or an update that goes on after a failing disable,
  leaves the two apart, and a goal state that disables the extension then does
  nothing, as the handler is not enabled. `EnabledIffSomeExtensionIs` excepts such
  a version until its handler state is written again.
* `ExtSequencing`: a skipped single-config extension whose handler is installed
  stays "transitioning" (`exthandlers.py:578`, unlike 562). A goal state without
  extensions never completes the initial goal state. An unexpected error in the
  processing of a goal state exempts it from `EveryExtensionIsReported` and
  `InitialGoalStateConverges`. `dependencyLevel` and `seqNo` of vmSettings are not
  validated: a fault rejects the whole document. In an ExtensionsConfig most faults
  cost one handler, but a sequence number that is not a number rejects the whole
  document there too (`extensions_goal_state_from_extensions_config.py:582`).
  In an ExtensionsConfig, a level that is not a number is read as the
  lowest, and an extension without a state is sorted like one to uninstall, before
  all others, and those that depend on it are not stopped when it fails: such
  documents do not satisfy `ReadingAssumption`.
* `StatusDocs`: a file that is too large and has no message raises, and so does an
  empty heartbeat.
* `EventDocs`: the limit "for the whole event" (`collect_telemetry_events.py:90`)
  is checked before a field is added, so it never counts the version. Older agent
  events do not get all the fields the comment at 526 promises. `bool("False")` is
  true in `parse_xml_param` (`event.py:244`).
* `Periodic`: `ResetPeriodicLogMessages` resets the logger only, its docstring
  (`monitor.py:92`) also names `EventLogger`.
* `GoalStateHistory`: `tag_exists` does not see zip files, so "save them only once
  per ETag" (`goal_state.py:431`) ends with the archiving. Only the newest item is
  exempt from archiving; that it is the current goal state is what `CurrentIsKept`
  shows for the order in which the main loop calls it.
* `RemoteAccess`: `del_account` raises nothing when `userdel` fails, so the account
  is not retried as `_check_existing_jit_users` intends; `AccountsAreAsAsked`
  excuses it (`stuck`). `del_account` logs that it will not delete a system user
  and goes on (`osutil/default.py:1230`).
* `KernelEvents`: lines with the time of the last line of an earlier scan are not
  counted; a death between report and save counts twice.
* `LogCollection`: two paths that differ in `/` and `_` share a truncated copy
  (`logcollector.py:267`).
* `HostChannel`: the throttling pattern of IMDS (`imds.py:270`) never matches the
  message of the retry loop; `get_health` raises on a 5xx where its docstring says
  False (`hostplugin.py:136`).
* `HostChannel`: "if we got a 400 (bad request) because the container id is
  invalid", the headers are refreshed and the call is repeated, says the comment at
  `wire.py:814`, and tests of the parts expect it
  (`tests/common/protocol/test_wire.py:778`, 993). But 400 is a retry code of the
  requests for artifacts (`restutil.py:69`): after its retries `http_request`
  raises `HttpError`, and the `InvalidContainerError` of line 823 is never raised
  in a download. Only a 410 leads to a refresh. `FailuresAreExplained` excepts the
  400 (`HiddenByRetries`).
* `HostChannel`: errors of deleting the zip file or a partly expanded directory are
  only logged (`wire.py:740`, 746, 771). What is left may be a directory with a
  part of a package; `PackageDownload` allows it with a failed result only.
* `Firewall`: the rules are persisted by firewalld if it runs
  (`persist_firewall_rules.py:138`), and the service leaves the chain to firewalld
  if it is enabled (`agent.py:314`). A firewalld that runs and is not enabled, or
  is enabled and did not run when the rules were persisted, leaves the VM without
  the rules after a reboot until the environment thread repairs them.
* `Firewall`: the deletion of a rule ends after 99 attempts without an error
  (`firewall_manager.py:458`). A DROP rule that is left above the others satisfies
  the check for ever; so do a DROP rule that `iptables -C` does not find, one that
  others insert during an operation, and the legacy rule above DROP.
  `OkMeansProtected` and `Repaired` except these (`NotSeenByCheck`).
* `ResourceControl`: an error of the process check is logged and counts as "nothing
  found" (`cgroupconfigurator.py:657`): a restarted agent sets its quota over a
  command that an earlier process started directly. `DirectMeansUnlimited` excepts
  the commands so missed.
* `ResourceControl`: the `disable(ALL)` of `initialize` (line 178) runs before
  cgroups are enabled, so the resets of the slices return at once (963, 1022) and
  leave the quotas of an earlier process.
* `TelemetryPipeline`: `CleanShutdown` is about shutdowns in which no join timed
  out and the sender did not die.
* `Provisioning`: a deprovisioning that ends after it deleted `ovf-env.xml` and
  before it deleted the account of an earlier VM leaves an account that nothing
  names any more. Such a disk counts as "legacy" and `OwnIdentity` excuses it; it
  takes a third VM to see it. So does the disk of a VM that was deprovisioned
  without `+user`, which keeps the account on purpose.
* `Provisioning`: where the file `provisioned` is empty or missing, state of another
  VM is not removed (`provision/default.py:168`); `run_changed_unique_id` leaves the
  handlers of the other VM and their `config/HandlerState` files in place
  (`deprovision/default.py:144`); an error of deleting the file `Protocol` is
  ignored (`util.py:268`), and the endpoint of the other VM is then used (288).
  `StateIsOfThisVm` excepts the first and the third, and does not speak of the
  second.
* `Provisioning`: the failure of the command that changes the partition type is
  ignored, and the next boot formats the disk again
  (`resourcedisk/default.py:158`); `DiskDataSurvives` excepts it (`past.disk`).
* `ResourceControl`: `DisabledLeavesNoQuota` is about the extensions that were on
  disk when `disable()` listed them; one installed later keeps the quota that it
  is given by a thread that had seen cgroups enabled.
* `AgentUpdate`: successful updates count as attempts
  (`agent_update_handler.py:197`).

## 5. What is proved

For every value of the constants that satisfies the named assumptions.

Every safety property of the passing runs is a theorem. An invariant or an action property is seldom inductive: that it holds at one step
depends on what an earlier step did. Each proof module therefore has an inductive
invariant that says what holds at the steps in between; TLC checked each on the
instance of a run before it was proved. There is one lemma per conjunct, with one
step per action.

**ExtHandlersProofs.** `OneInstalledVersionHolds`, `PolicyGateHolds`,
`KeepsWorkingVersionHolds` (and `TypeCorrect`), all under the assumption that
directories can be deleted. At the label where an update marks the new version,
that there is only one installed version depends on what was read earlier. The
inductive invariant is therefore

    IInv == TypeOK /\ OneInstalledVersion /\ Tracking /\ Operation /\ Checked

where `Tracking` says which versions are installed at each label, `Operation` why
the current request may give one up, and `Checked` which versions passed the
policy check.

Three theorems are about what a processed goal state leaves, and add to `IInv`
what the locals of the operation mean (`Locals`) and what is on disk (`OnDisk`).
`ProcessedMeansConvergedHolds` needs what is done of the goal state so far
(`Progress`). `HandlerStatusAvailableHolds` (`StatusSoFar`) assumes that the
handler is single-config. `EnabledIffSomeExtensionIsHolds` (`StatesAgree`: at which
labels the two states may differ, and how) assumes that every goal state lists all
extensions; deaths and updates that go on after a failure are covered, with the
exception `torn`. Section 4 says why the assumptions are needed.

**GoalStateProofs.** `NeverGoesBackHolds` for behaviours in which the HostGAPlugin
keeps supporting vmSettings and Fast Track stays enabled (and `TypeCorrect`
without further assumptions). The difficulty is an update in flight: the document
it fetched may be older than what was executed. The invariant says that in this
case the WireServer has moved on (`Received`), and that a goal state left in
memory by an update that lost such a race is never executed before the next
update replaces it (`CaughtUp`).

`CertificatesInSyncHolds` has no assumption. Its invariant says that no document
needs a certificate that the WireServer does not serve yet (`KnownCertificates`), and
that a refresh, the second or third attempt of `_try_update_goal_state`, has fetched
the certificate (`Refreshed`). `ExecutedOnceHolds` assumes that support for
vmSettings does not change (`MaxMigrations = 0`); Fast Track may be turned on and
off. Its invariant, `OnceInv`, follows a goal state from the services (`Published`)
through what was fetched and cached to memory, and says of each place which goal
states were executed before (`Fetched`, `Cached`, `FromFabric`, `FromFastTrack`,
`InMemory`, `Executions`).

**AgentUpdateProofs.** `TheTargetRunsNext` (`NextAgentIsTarget`),
`SuccessIsTheTarget` (`SuccessMeansTarget`), `OnlyBadVersionsAreBlacklisted`
(`BlacklistsOnlyBad`, if no manifest is malformed) and `CrashesAreBounded`
(`CrashLoopIsBounded`, if crashes are early). `Updating` follows the target from
the manifest to the exit of the agent; `Exited` says what this leaves for the
daemon, another process, possibly after a reboot: no usable version is newer than
the target. `Counted` is the life of a crashing version: the attempts on disk, the
failures in memory and the launches so far. The largest version of a set exists by
the least-number principle.

**ExtSequencingProofs.** `DependencyOrderHolds`, `EveryExtensionIsReportedHolds`,
`RemovedOnRequestHolds` and `InitialGoalStateConvergesHolds`, for any number of
extensions, levels, goal states and deaths, any policy files and any documents for
which `ReadingAssumption` holds. The invariant

    IInv == Types /\ Processing /\ InOrder /\ StatusLeft /\ Summarized

is about the extensions that are done with. `InOrder`: those that others depend on
have succeeded, unless the rest of the goal state is stopped, and no process of
theirs is left that could take the success back. `StatusLeft`: each one that was
enabled has a handler status. `Summarized`: the summary is empty unless the goal
state it is about was reported, which is why the arrival of a first goal state
does not complete it. That `max_dep_level` is a maximum (`NoneIsBeyondMaxDepLevel`)
and that the agent reads a success only in a file that says so (`SuccessIsRead`,
about `StatusDocs`) are lemmas.

**TelemetryPipelineProofs.** `EventsAreSentOnce` (`SentOnce`), `DirectoryBounded`
(`DirectoryIsBounded`) and `ShutdownIsClean` (`CleanShutdown`), for any number of
writing threads and events, any limits and batch sizes. All rest on where an event
can be: with the thread that adds it, in one file, with the collector, in the queue
or with the sender (`Unknown`, `Unsaved`, `Saved`, `Unread`, `Once`). `Room` counts
the threads that found room in the directory and have yet to write. `NotLost` and
`Orderly` say what the order of `_shutdown` leaves.

**ResourceControlProofs.** `DisableResetsQuotas` (`DisabledLeavesNoQuota`) and
`MemoryRestartsBounded` (`MemoryRestartsAreBounded`) without assumptions, and
`DirectCommandsAreUnlimited` (`DirectMeansUnlimited`) if the process check disables
cgroups and the machine keeps its support for them. `SlicesReset` says which units
a `disable()` in progress is past of, while another thread installs extensions and
sets quotas; `Phases` and `AgentReset` where the agent's own quota must be gone. A
command that the check of a restarted agent missed is remembered (`past.missed`).

**HostAccessProofs, Firewall.** `OkMeansProtectedHolds`: `Spec => []OkMeansProtected`,
and `PersistedRulesSurviveRebootHolds`: `Spec => []PersistedRulesSurviveReboot`, for
every set of platforms and any number of failed commands, changes by others,
restarts and reboots, with no assumption on the constants. Both are about the order
of the rules in the chain, which no command of the agent reads: `iptables -C` asks
whether a rule exists. The invariant says why the order is right nevertheless:

    FirewallInv == Staged /\ Listing /\ InOrder /\ Found /\ Booting
                       /\ PersistedRulesSurviveReboot

`InOrder`: a DROP rule above the rules that accept comes with a missing rule, so
that the next check finds it, and from the check that misses DROP to the end of
`setup` there is none. `Found`: while nobody else changes the rules, those that the
check found and those that `setup` appended are there; without it, nothing relates
the result of a check, three commands long, to the chain at its end. `Booting`:
what a boot starts with, that a firewalld which runs then is enabled, and which of
firewalld and the service has the persisted rules. `Staged` and `Listing` say which operations each program runs and that the
permanent rules are in order. What a deletion leaves is not an induction over
sequences here: `Without` names the k-th element that is kept, and that it keeps
the others in their order (`Embeds`) is a lemma about the cardinality of the
elements kept so far. The invariant needs the exception `raced` as
it is: a DROP rule without both rules that accept above it, not only one that drops
their traffic. A legacy rule that could not be removed hides such a DROP rule, and
when a later process removes the legacy rule, the check finds all three rules and
reports OK while DROP comes first. That takes two failed commands, one more than
the run has; with the narrower `raced` and `MaxFaults = 2` TLC finds it.

**HostAccessProofs, HostChannel.** The module extends both components, which is why
the specification of `HostChannel` is called `ChannelSpec`; they share no variables.
`DownloadsAreAtomicHolds`: `ChannelSpec => DownloadsAreAtomic`, the
refinement of `PackageDownload`, for any number of locations, retries, pages,
faults and migrations. That a step maps to a step or a stutter depends on what is
on disk at each step of a download, which the invariant `Files` says: a zip file
exists only between the end of a call and `on_downloaded`, and a part of a package
nowhere, unless it could not be deleted, and there is no package and no result
before the end. `DownloadStep`, `UploadStep` and `OtherStep` cover
the actions. `UnhealthyIsEarnedHolds`: the signal of an error state follows a
whole period without a success; one lemma about `Observe` serves all the signals.
`FailuresAreExplainedHolds`: its invariant, `Excused`, says at each step of a
download which failures must have an excuse by then. What `http_request` returns
is the answer to its last attempt, and that there is one follows from the
least-number principle.

**ProvisioningProofs.** `AgentStartsClean`: `Spec => []StateIsOfThisVm`,
`DiskIsFormattedOnce`: `Spec => DiskDataSurvives`, and `AccountsAreOwn`:
`Spec => []OwnIdentity`, for any number of VMs that boot from the disk, of reboots,
failures and attempts. None is inductive: an agent is started long after the file
`provisioned` was compared with the id of the VM. The invariant of the first is

    IInv == Shape /\ Marked /\ Clean /\ Discovered /\ Removed

`Marked`: where the disk has state of another VM that had recorded its id, the file
names another VM, so that the next check finds out; `Clean`: after the check there is
no such state; `Discovered`: after the protocol was cleared, and its file could be
deleted, a saved endpoint is that of this VM;
`Removed`: nobody writes state after a deprovisioning that ran to its end, which
`Marked` needs when its disk becomes the disk of another VM. The invariant of the
second, `DiskIsKept`, says that a partition in use has the changed type, or a
command has failed. The third needs that the accounts on the disk are those that
`ovf-env.xml` names, or that the deprovisioning has read from it (`Named`, `Made`,
`Kept`). With `Provisioning.Agent=disabled` nothing compares the ids, and the part
of `StateIsOfThisVm` about files says nothing.

**Only model-checked.**

* All liveness: fairness and `ENABLED` are outside the prover's reach.
* The promises of the document modules, `ReadingAssumption` for the documents of
  the run among them: what the recursive functions of a parser, a purge or a report
  compute needs induction over data.
* Configurations that the assumptions of a theorem exclude; section 4 says what
  TLC finds there.

## 6. Not modelled

`PROJECT.json` has the reason for each component; in short:

* OS commands in straight lines from configuration, on which no state of the agent
  depends: RDMA, SCVMM, the distribution variants of the OS layer, provisioning and
  deprovisioning, the BSD and OpenWrt resource disks, host name and DHCP monitors,
  disk timeouts, the swap file.
* Cryptography and its formats: certificates, signatures of packages.
* Values that are only reported: the counters of the cgroup controllers, metrics,
  the text of messages, logs and telemetry.
* Syntax: XML, JSON and configuration files. The document modules start from the
  tree that the parser returns, with values that are missing or of a wrong type.
* The command line, and helpers without state. What they decide is modelled where
  it is used.
* Two threads in one document module: the code modelled there is called by one
  thread only.

## 7. Running

    tlc -workers 2 -config MCGoalState_stable.cfg MCGoalState
    tlapm GoalStateProofs.tla

The longest passing runs (`provisioning`, 3.6 million states, and `resource_control`,
2 million) take about three minutes, the longest proof
(`HostAccessProofs`) about a quarter of an hour, `TelemetryPipelineProofs` ten minutes
and the others one to five.

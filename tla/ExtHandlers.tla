------------------------------ MODULE ExtHandlers ------------------------------
(***************************************************************************)
(* The life cycle of ONE extension handler on the VM, as driven by         *)
(* ExtHandlersHandler.handle_ext_handler and the ExtHandlerInstance it     *)
(* builds (azurelinuxagent/ga/exthandlers.py).                             *)
(*                                                                         *)
(* The agent keeps no handler state in memory: what it knows about version *)
(* v of a handler is in the files of the directory <name>-<v>, that is     *)
(* hstate (config/HandlerState), estate (config/<ext>.HandlerState) and    *)
(* hstatus (config/HandlerStatus).  Every command of the handler may fail, *)
(* the agent may die between any two steps, and when it comes back it      *)
(* processes the goal state it then finds from the beginning.              *)
(***************************************************************************)
EXTENDS Naturals, FiniteSets

CONSTANTS
    Versions,                 \* versions of the handler a goal state can request
    Exts,                     \* names of the extension settings
    NoExt,                    \* extension=None: a handler without settings
    SupportsMC,               \* ext_handler.supports_multi_config
    SettingsSets,             \* the sets of settings a goal state can list
    ContinueOnUpdateFailure,  \* versions whose manifest sets continueOnUpdateFailure
    UpdateWithInstall,        \* versions whose manifest sets updateMode=UpdateWithInstall
    RemoveMayFail,            \* can deleting a handler directory raise IOError?
    MaxGoalStates,            \* bound: goal states received
    MaxCrashes                \* bound: times the agent dies

ASSUME VersionsAssumption == Versions \subseteq Nat \ {0}
ASSUME ExtsAssumption == NoExt \notin Exts /\ SettingsSets \subseteq SUBSET Exts
ASSUME FlagsAssumption == SupportsMC \in BOOLEAN /\ RemoveMayFail \in BOOLEAN
ASSUME BoundsAssumption == MaxGoalStates \in Nat /\ MaxCrashes \in Nat

VARIABLES
    hstate,   \* hstate[v]: contents of <name>-<v>/config/HandlerState
    estate,   \* estate[v]: the extensions whose state file in <name>-<v> says enabled
    hstatus,  \* hstatus[v]: status in <name>-<v>/config/HandlerStatus
    gs,       \* the goal state being processed, or the last one processed
    todo,     \* extensions of the goal state that remain to be processed
    pc,       \* where the agent is
    ext,      \* the extension being processed
    ver,      \* ext_handler.version
    old,      \* version of old_ext_handler_i, 0 when there is none
    pending,  \* extensions that remain to be disabled in the current operation
    checked,  \* history: versions that passed the policy check in this operation
    updated,  \* history: the update command succeeded in this operation
    failed,   \* history: a step failed while processing this goal state
    torn,     \* history: versions of which an extension's state was written (or its
              \* disable failed) without the handler's state being written after it
    received, \* goal states received so far
    crashes   \* deaths of the agent so far

(* The files of the handler, and the history about them. *)
disk == <<hstate, estate, hstatus, torn>>
op == <<ext, old, pending, checked, updated>>
vars == <<disk, gs, todo, pc, op, ver, failed, received, crashes>>

-----------------------------------------------------------------------------
(* ExtHandlerState; "none" when the file does not exist. *)
HandlerState == {"none", "NotInstalled", "Installed", "Enabled", "FailedUpgrade"}

IsInstalled(s) == s \in {"Installed", "Enabled"}

(* get_installed_version: the greatest version whose state file exists and  *)
(* is neither NotInstalled nor FailedUpgrade.                               *)
InstalledVersions == {v \in Versions : IsInstalled(hstate[v])}

InstalledVersion ==
    IF InstalledVersions = {} THEN 0
    ELSE CHOOSE v \in InstalledVersions : \A w \in InstalledVersions : w <= v

(* What a goal state asks of the handler.  "absent": the handler is not in  *)
(* the goal state.  on: the listed extensions whose requested state is      *)
(* enabled; single-config settings are always enabled.                      *)
GoalStates ==
    {g \in [request : {"enabled", "disabled", "uninstall", "absent"},
            version : Versions, listed : SUBSET Exts, on : SUBSET Exts] :
        /\ IF g.request = "absent" THEN g.listed = {} ELSE g.listed \in SettingsSets
        /\ IF SupportsMC THEN g.on \subseteq g.listed ELSE g.on = g.listed}

(* __get_sorted_extensions_for_processing: one entry per setting, or one    *)
(* entry without extension.                                                 *)
ItemsOf(g) ==
    IF g.request = "absent" THEN {}
    ELSE IF g.listed = {} THEN {NoExt} ELSE g.listed

(* should_perform_multi_config_op *)
IsMultiConfigOp(e) == SupportsMC /\ e # NoExt

(* enabled_extensions of version v, for the extensions in the goal state. *)
EnabledExtensions(v) ==
    IF SupportsMC THEN gs.listed \cap estate[v] ELSE gs.listed

(* What is disabled before version v is updated or uninstalled: the handler *)
(* itself when it is single-config without settings.                        *)
ExtensionsToDisable(v) ==
    IF ~SupportsMC /\ gs.listed = {} THEN {NoExt} ELSE EnabledExtensions(v)

Larger(v, w) == IF v > w THEN v ELSE w

-----------------------------------------------------------------------------
SetHandlerState(v, s) == hstate' = [hstate EXCEPT ![v] = s]
SetHandlerStatus(v, s) == hstatus' = [hstatus EXCEPT ![v] = s]

(* Start the next operation with none of this one's locals. *)
ClearOperation ==
    /\ ext' = NoExt /\ old' = 0 /\ pending' = {} /\ checked' = {} /\ updated' = FALSE

(* handle_ext_handler returned (True on success): go on with the next item. *)
Finish ==
    /\ todo' = todo \ {ext}
    /\ pc' = "next"
    /\ ClearOperation
    /\ UNCHANGED <<gs, ver, received, crashes>>

(* MUTANT of FinishWithError: the error is logged but no status is set. *)
FinishWithErrorSilently ==
    /\ failed' = TRUE
    /\ Finish
    /\ UNCHANGED hstatus

(* handle_ext_handler caught an error: __handle_and_report_ext_handler_errors *)
(* and __handle_ext_disallowed_error set the handler status of the version   *)
(* being processed.                                                          *)
FinishWithError ==
    /\ SetHandlerStatus(ver, "NotReady")
    /\ failed' = TRUE
    /\ Finish

Goto(label) ==
    /\ pc' = label
    /\ UNCHANGED <<gs, todo, ver, failed, received, crashes>>

-----------------------------------------------------------------------------
Init ==
    /\ hstate = [v \in Versions |-> "none"]
    /\ estate = [v \in Versions |-> {}]
    /\ hstatus = [v \in Versions |-> "none"]
    /\ torn = {}
    /\ gs \in {g \in GoalStates : g.request = "absent"}
    /\ todo = {}
    /\ pc = "idle"
    /\ ext = NoExt /\ ver = gs.version /\ old = 0 /\ pending = {}
    /\ checked = {} /\ updated = FALSE /\ failed = FALSE
    /\ received = 0 /\ crashes = 0

(* ExtHandlersHandler.run on a new goal state: the extensions are copied    *)
(* from the goal state.                                                     *)
StartGoalState(g) ==
    /\ gs' = g
    /\ todo' = ItemsOf(g)
    /\ ver' = g.version
    /\ failed' = FALSE
    /\ pc' = "next"

NewGoalState(g) ==
    /\ pc = "idle" /\ received < MaxGoalStates
    /\ StartGoalState(g)
    /\ received' = received + 1
    /\ UNCHANGED <<disk, op, crashes>>

(* The version of which an extension's state was just written and the       *)
(* handler's state is written next.                                         *)
Recording ==
    CASE pc \in {"record_enabled", "record_disabled", "record_all"} -> {ver}
      [] pc = "record_old" -> {old}
      [] OTHER -> {}

(* The agent dies; nothing but the files survives. *)
Crash ==
    /\ pc # "down" /\ crashes < MaxCrashes
    /\ crashes' = crashes + 1
    /\ pc' = "down"
    /\ todo' = {}
    /\ torn' = torn \cup Recording
    /\ ClearOperation
    /\ UNCHANGED <<hstate, estate, hstatus, gs, ver, failed, received>>

(* A new agent has no _last_extensions_gs_id: it takes the goal state it    *)
(* finds, the same one or a later one, as new.                              *)
Restart(g) ==
    /\ pc = "down"
    /\ \/ g = gs /\ received' = received
       \/ g # gs /\ received < MaxGoalStates /\ received' = received + 1
    /\ StartGoalState(g)
    /\ UNCHANGED <<disk, op, crashes>>

-----------------------------------------------------------------------------
(* handle_ext_handlers skips an extension without processing it: extensions *)
(* are disabled in waagent.conf, the policy file cannot be read, or an      *)
(* extension this one depends on failed.  Only the last one, on a           *)
(* multi-config handler, keeps a handler status that exists already.        *)
SkipExtension(e) ==
    /\ pc = "next" /\ e \in todo
    /\ \/ SetHandlerStatus(ver, "NotReady")
       \/ /\ IsMultiConfigOp(e)
          /\ IF hstatus[ver] = "none" THEN SetHandlerStatus(ver, "NotReady")
                                      ELSE UNCHANGED hstatus
    /\ failed' = TRUE
    /\ todo' = todo \ {e}
    /\ UNCHANGED <<hstate, estate, torn, gs, pc, op, ver, received, crashes>>

(* MUTANT of DecideVersion: the requested version is uninstalled, not the   *)
(* installed one.                                                           *)
DecideVersionAsRequested == ver

(* decide_version: the requested version to enable; the installed one, if   *)
(* any, to disable or to uninstall.                                         *)
DecideVersion ==
    IF gs.request # "enabled" /\ InstalledVersion # 0
    THEN InstalledVersion ELSE ver

(* handle_ext_handler, up to the dispatch on the requested state. *)
HandleExtHandler(e) ==
    /\ pc = "next" /\ e \in todo
    /\ ext' = e
    /\ ver' = DecideVersion
    /\ old' = IF gs.request = "enabled" THEN InstalledVersion ELSE 0
    /\ pc' = gs.request
    /\ UNCHANGED <<disk, gs, todo, pending, checked, updated, failed, received, crashes>>

(* The settings are invalid, the manifest cannot be fetched, or it does not *)
(* have the version to enable.                                              *)
HandleExtHandlerFails(e) ==
    /\ pc = "next" /\ e \in todo
    /\ SetHandlerStatus(ver, "NotReady")
    /\ failed' = TRUE
    /\ todo' = todo \ {e}
    /\ UNCHANGED <<hstate, estate, torn, gs, pc, op, ver, received, crashes>>

(* The extension policy rejects the instance the operation is about to run  *)
(* commands of.                                                             *)
PolicyRejects ==
    /\ \/ pc = "enabled"
       \/ pc = "check_old"
       \/ pc = "uninstall" /\ hstate[ver] \notin {"none", "NotInstalled"}
    /\ FinishWithError
    /\ UNCHANGED <<hstate, estate, torn>>

-----------------------------------------------------------------------------
(* handle_enable of a version that is not installed, or whose update failed: *)
(* policy check, then __setup_new_handler marks it NotInstalled.             *)
EnableNewVersion ==
    /\ pc = "enabled" /\ ~IsInstalled(hstate[ver])
    /\ checked' = checked \cup {ver}
    /\ SetHandlerState(ver, "NotInstalled")
    /\ Goto("setup")
    /\ UNCHANGED <<estate, hstatus, torn, ext, old, pending, updated>>

(* MUTANT of SetupNewHandler: the old version is not checked against the    *)
(* policy.                                                                  *)
SetupNewHandlerSkipsOldCheck ==
    /\ pc = "setup"
    /\ Goto(IF old = 0 THEN "install" ELSE "disable_old")
    /\ UNCHANGED <<disk, op>>

(* The rest of __setup_new_handler: download, initialize, update_settings,   *)
(* runtime policy.                                                           *)
SetupNewHandler ==
    /\ pc = "setup"
    /\ Goto(IF old = 0 THEN "install" ELSE "check_old")
    /\ UNCHANGED <<disk, op>>

(* A step of it fails; a package that does not unzip takes the directory,   *)
(* and the files the agent keeps in it, with it.                            *)
SetupNewHandlerFails ==
    /\ pc = "setup"
    /\ FinishWithError
    /\ \/ UNCHANGED <<hstate, estate, torn>>
       \/ /\ SetHandlerState(ver, "none")
          /\ estate' = [estate EXCEPT ![ver] = {}]
          /\ torn' = torn \ {ver}

(* handle_enable of an installed version: policy check, settings, runtime   *)
(* policy.                                                                  *)
EnableInstalledVersion ==
    /\ pc = "enabled" /\ IsInstalled(hstate[ver])
    /\ checked' = checked \cup {ver}
    /\ Goto("extension")
    /\ UNCHANGED <<disk, ext, old, pending, updated>>

EnableInstalledVersionFails ==
    /\ pc = "enabled" /\ IsInstalled(hstate[ver])
    /\ FinishWithError
    /\ UNCHANGED <<hstate, estate, torn>>

(* install; on an update with updateWithInstall it ends update_with_install. *)
(* The state is written first, then the status.                              *)
Install ==
    /\ pc = "install"
    /\ SetHandlerState(ver, "Installed")
    /\ Goto("installed")
    /\ UNCHANGED <<estate, hstatus, torn, op>>

ReportInstalled ==
    /\ pc = "installed"
    /\ SetHandlerStatus(ver, "NotReady")
    /\ Goto("extension")
    /\ UNCHANGED <<hstate, estate, torn, op>>

InstallFails ==
    /\ pc = "install"
    /\ FinishWithError
    /\ UNCHANGED <<hstate, estate, torn>>

-----------------------------------------------------------------------------
(* disable of extension x of version v ran its command: a multi-config      *)
(* handler records the extension as disabled or deletes its state files.    *)
ForgetExtension(v, x) ==
    estate' = IF IsMultiConfigOp(x) THEN [estate EXCEPT ![v] = @ \ {x}] ELSE estate

(* MUTANT of RecordDisabled: the handler is recorded as disabled with its   *)
(* first extension.                                                         *)
RecordDisabledAtOnce(v) ==
    SetHandlerState(v, "Installed") /\ SetHandlerStatus(v, "NotReady") /\ torn' = torn \ {v}

(* disable then records the handler as disabled when nothing of it, among   *)
(* the extensions of the goal state, is enabled.                            *)
RecordDisabled(v) ==
    IF ~SupportsMC \/ EnabledExtensions(v) = {}
    THEN SetHandlerState(v, "Installed") /\ SetHandlerStatus(v, "NotReady") /\ torn' = torn \ {v}
    ELSE UNCHANGED <<hstate, hstatus, torn>>

(* remove_ext_handler deletes the directory of version v with every file    *)
(* the agent keeps in it; an IOError is logged and swallowed.               *)
RemoveDirectory(v) ==
    \/ /\ SetHandlerState(v, "none")
       /\ SetHandlerStatus(v, "none")
       /\ estate' = [estate EXCEPT ![v] = {}]
       /\ torn' = torn \ {v}
    \/ RemoveMayFail /\ UNCHANGED disk

(* _update_extension_handler_and_return_if_failed, after the policy check   *)
(* of the old version: the old version is disabled if it is enabled.        *)
StartUpdate ==
    /\ pc = "check_old"
    /\ checked' = checked \cup {old}
    /\ pending' = IF hstate[old] = "Enabled" THEN ExtensionsToDisable(old) ELSE {}
    /\ Goto("disable_old")
    /\ UNCHANGED <<disk, ext, old, updated>>

DisableOld(x) ==
    /\ pc = "disable_old" /\ x \in pending
    /\ ForgetExtension(old, x)
    /\ pending' = pending \ {x}
    /\ Goto("record_old")
    /\ UNCHANGED <<hstate, hstatus, torn, ext, old, checked, updated>>

RecordOldDisabled ==
    /\ pc = "record_old"
    /\ RecordDisabled(old)
    /\ Goto("disable_old")
    /\ UNCHANGED <<estate, op>>

(* MUTANT of DisableOldFails: the update starts over after a failure. *)
DisableOldFailsStartsOver(x) ==
    /\ pc = "disable_old" /\ x \in pending
    /\ Goto("check_old")
    /\ UNCHANGED <<disk, op>>

(* execute_old_handler_command_and_return_if_succeeds: the command fails;   *)
(* the manifest of the new version says whether to go on.                   *)
DisableOldFails(x) ==
    /\ pc = "disable_old" /\ x \in pending
    /\ \/ /\ ver \in ContinueOnUpdateFailure
          /\ pending' = pending \ {x} /\ failed' = TRUE /\ torn' = torn \cup {old}
          /\ UNCHANGED <<hstatus, gs, todo, pc, ext, ver, old, checked, updated, received, crashes>>
       \/ ver \notin ContinueOnUpdateFailure /\ FinishWithError /\ UNCHANGED torn
    /\ UNCHANGED <<hstate, estate>>

CopyStatusFiles ==
    /\ pc = "disable_old" /\ pending = {}
    /\ Goto("update")
    /\ UNCHANGED <<disk, op>>

CopyStatusFilesFails ==
    /\ pc = "disable_old" /\ pending = {}
    /\ FinishWithError
    /\ UNCHANGED <<hstate, estate, torn>>

(* The update command of the greater version, on upgrades and downgrades. *)
Update ==
    /\ pc = "update"
    /\ updated' = TRUE
    /\ Goto("uninstall_old")
    /\ UNCHANGED <<disk, ext, old, pending, checked>>

(* MUTANT of UpdateFails: the sequence goes on after a failed update. *)
UpdateFailsGoesOn ==
    /\ pc = "update"
    /\ SetHandlerState(Larger(ver, old), "FailedUpgrade")
    /\ Goto("uninstall_old")
    /\ UNCHANGED <<estate, hstatus, torn, op>>

UpdateFails ==
    /\ pc = "update"
    /\ SetHandlerState(Larger(ver, old), "FailedUpgrade")
    /\ FinishWithError
    /\ UNCHANGED <<estate, torn>>

UninstallOld ==
    /\ pc = "uninstall_old"
    /\ Goto("remove_old")
    /\ UNCHANGED <<disk, op>>

UninstallOldFails ==
    /\ pc = "uninstall_old"
    /\ \/ /\ ver \in ContinueOnUpdateFailure
          /\ pc' = "remove_old" /\ failed' = TRUE
          /\ UNCHANGED <<hstatus, gs, todo, op, ver, received, crashes>>
       \/ ver \notin ContinueOnUpdateFailure /\ FinishWithError
    /\ UNCHANGED <<hstate, estate, torn>>

(* MUTANT of RemoveOld: the directory of the old version is left behind. *)
RemoveOldForgotten ==
    /\ pc = "remove_old"
    /\ Goto(IF ver \in UpdateWithInstall THEN "install" ELSE "mark_updated")
    /\ UNCHANGED <<disk, op>>

RemoveOld ==
    /\ pc = "remove_old"
    /\ RemoveDirectory(old)
    /\ Goto(IF ver \in UpdateWithInstall THEN "install" ELSE "mark_updated")
    /\ UNCHANGED op

(* update_with_install without install. *)
MarkUpdated ==
    /\ pc = "mark_updated"
    /\ SetHandlerState(ver, "Installed")
    /\ Goto("extension")
    /\ UNCHANGED <<estate, hstatus, torn, op>>

-----------------------------------------------------------------------------
(* __handle_extension when the handler or the extension is to be enabled:   *)
(* the command runs, and a multi-config handler records the extension.      *)
EnableExtension ==
    /\ pc = "extension" /\ ext \in gs.on \cup {NoExt}
    /\ estate' = IF IsMultiConfigOp(ext) THEN [estate EXCEPT ![ver] = @ \cup {ext}] ELSE estate
    /\ Goto("record_enabled")
    /\ UNCHANGED <<hstate, hstatus, torn, op>>

(* enable, after the command. *)
RecordEnabled ==
    /\ pc = "record_enabled"
    /\ SetHandlerState(ver, "Enabled")
    /\ SetHandlerStatus(ver, "Ready")
    /\ torn' = torn \ {ver}
    /\ Finish
    /\ UNCHANGED <<estate, failed>>

(* On a multi-config handler the error is the extension's to report: the    *)
(* handler status is left as it is (MultiConfigExtensionEnableError).       *)
EnableExtensionFails ==
    /\ pc = "extension" /\ ext \in gs.on \cup {NoExt}
    /\ \/ ~IsMultiConfigOp(ext) /\ FinishWithError
       \/ IsMultiConfigOp(ext) /\ failed' = TRUE /\ Finish /\ UNCHANGED hstatus
    /\ UNCHANGED <<hstate, estate, torn>>

(* __handle_extension when a multi-config extension is to be disabled: a    *)
(* failure of the command is ignored.                                       *)
DisableExtension ==
    /\ pc = "extension" /\ ext \notin gs.on \cup {NoExt}
    /\ \/ /\ ext \in estate[ver]
          /\ ForgetExtension(ver, ext)
          /\ Goto("record_disabled")
          /\ UNCHANGED <<hstate, hstatus, torn, op>>
       \/ /\ ext \notin estate[ver]
          /\ Finish
          /\ UNCHANGED <<disk, failed>>

(* handle_disable *)
HandleDisable ==
    /\ pc = "disabled"
    /\ \/ /\ hstate[ver] = "Enabled"
          /\ ForgetExtension(ver, ext)
          /\ Goto("record_disabled")
          /\ UNCHANGED <<hstate, hstatus, torn, op>>
       \/ /\ hstate[ver] # "Enabled"
          /\ Finish
          /\ UNCHANGED <<disk, failed>>

HandleDisableFails ==
    /\ pc = "disabled" /\ hstate[ver] = "Enabled"
    /\ FinishWithError
    /\ UNCHANGED <<hstate, estate, torn>>

RecordExtensionDisabled ==
    /\ pc = "record_disabled"
    /\ RecordDisabled(ver)
    /\ Finish
    /\ UNCHANGED <<estate, failed>>

-----------------------------------------------------------------------------

(* handle_uninstall: a version that was never installed is only removed;    *)
(* otherwise, after the policy check, it is disabled if it is enabled.      *)
HandleUninstall ==
    /\ pc = "uninstall"
    /\ \/ /\ hstate[ver] \in {"none", "NotInstalled"}
          /\ Goto("remove")
          /\ UNCHANGED <<disk, op>>
       \/ /\ hstate[ver] \notin {"none", "NotInstalled"}
          /\ checked' = checked \cup {ver}
          /\ pending' = IF hstate[ver] = "Enabled" THEN ExtensionsToDisable(ver) ELSE {}
          /\ Goto("disable_all")
          /\ UNCHANGED <<disk, ext, old, updated>>

DisableAll(x) ==
    /\ pc = "disable_all" /\ x \in pending
    /\ ForgetExtension(ver, x)
    /\ pending' = pending \ {x}
    /\ Goto("record_all")
    /\ UNCHANGED <<hstate, hstatus, torn, ext, old, checked, updated>>

RecordAllDisabled ==
    /\ pc = "record_all"
    /\ RecordDisabled(ver)
    /\ Goto("disable_all")
    /\ UNCHANGED <<estate, op>>

DisableAllFails ==
    /\ pc = "disable_all" /\ pending # {}
    /\ FinishWithError
    /\ UNCHANGED <<hstate, estate, torn>>

(* The uninstall command; its failure is swallowed. *)
Uninstall ==
    /\ pc = "disable_all" /\ pending = {}
    /\ Goto("remove")
    /\ UNCHANGED <<disk, op>>

RemoveExtHandler ==
    /\ pc = "remove"
    /\ RemoveDirectory(ver)
    /\ Finish
    /\ UNCHANGED failed

(* All the extensions are processed.  _cleanup_outdated_handlers deletes    *)
(* the directories of a handler the goal state does not name, whatever      *)
(* their state.                                                             *)
FinishGoalState ==
    /\ pc = "next" /\ todo = {}
    /\ pc' = "idle"
    /\ \E kept \in IF gs.request # "absent" THEN {Versions}
                   ELSE IF RemoveMayFail THEN SUBSET Versions ELSE {{}} :
          /\ hstate' = [v \in Versions |-> IF v \in kept THEN hstate[v] ELSE "none"]
          /\ estate' = [v \in Versions |-> IF v \in kept THEN estate[v] ELSE {}]
          /\ hstatus' = [v \in Versions |-> IF v \in kept THEN hstatus[v] ELSE "none"]
          /\ torn' = torn \cap kept
    /\ UNCHANGED <<gs, todo, op, ver, failed, received, crashes>>

(* The bound on goal states is reached and the last one is processed. *)
Quiescent == pc = "idle" /\ received = MaxGoalStates /\ UNCHANGED vars

-----------------------------------------------------------------------------
(* A step of the agent itself. *)
AgentNext ==
    \/ \E g \in GoalStates : Restart(g)
    \/ \E e \in Exts \cup {NoExt} :
          \/ SkipExtension(e) \/ HandleExtHandler(e) \/ HandleExtHandlerFails(e)
          \/ DisableOld(e) \/ DisableOldFails(e) \/ DisableAll(e)
    \/ PolicyRejects
    \/ EnableNewVersion \/ SetupNewHandler \/ SetupNewHandlerFails
    \/ EnableInstalledVersion \/ EnableInstalledVersionFails
    \/ Install \/ ReportInstalled \/ InstallFails
    \/ StartUpdate \/ RecordOldDisabled \/ CopyStatusFiles \/ CopyStatusFilesFails
    \/ Update \/ UpdateFails \/ UninstallOld \/ UninstallOldFails
    \/ RemoveOld \/ MarkUpdated
    \/ EnableExtension \/ RecordEnabled \/ EnableExtensionFails
    \/ DisableExtension \/ HandleDisable \/ HandleDisableFails \/ RecordExtensionDisabled
    \/ HandleUninstall \/ RecordAllDisabled \/ DisableAllFails \/ Uninstall
    \/ RemoveExtHandler \/ FinishGoalState

Next ==
    \/ \E g \in GoalStates : NewGoalState(g)
    \/ Crash
    \/ AgentNext
    \/ Quiescent

Spec == Init /\ [][Next]_vars

(* Every command has a timeout after which it counts as failed, and systemd *)
(* restarts a dead agent: a step the agent can take is eventually taken.    *)
FairSpec == Spec /\ WF_vars(AgentNext)

-----------------------------------------------------------------------------
(* TYPE INVARIANT *)

Labels == {"idle", "down", "next", "enabled", "disabled", "uninstall", "setup",
           "install", "installed", "check_old", "disable_old", "record_old", "update",
           "uninstall_old", "remove_old", "mark_updated", "extension",
           "record_enabled", "record_disabled", "disable_all", "record_all", "remove"}

(* The files of a version hold one of the values the agent writes, and the  *)
(* locals of the operation in progress are in range.                        *)
TypeOK ==
    /\ hstate \in [Versions -> HandlerState]
    /\ estate \in [Versions -> SUBSET Exts]
    /\ hstatus \in [Versions -> {"none", "Ready", "NotReady"}]
    /\ torn \subseteq Versions
    /\ gs \in GoalStates
    /\ todo \subseteq Exts \cup {NoExt}
    /\ pc \in Labels
    /\ ext \in Exts \cup {NoExt}
    /\ ver \in Versions
    /\ old \in Versions \cup {0}
    /\ pending \subseteq Exts \cup {NoExt}
    /\ checked \subseteq Versions
    /\ updated \in BOOLEAN /\ failed \in BOOLEAN
    /\ received \in 0..MaxGoalStates /\ crashes \in 0..MaxCrashes

-----------------------------------------------------------------------------
(* SAFETY *)

(* "The Guest Agent currently only supports 1 installed version per         *)
(* extension on the VM" (exthandlers.py:666): whatever fails and wherever   *)
(* the agent dies during an update, get_installed_version never has two     *)
(* versions to choose from.                                                 *)
OneInstalledVersion ==
    \A v, w \in InstalledVersions : v = w

(* The version whose command the agent runs next, for the operations that   *)
(* check the policy first.                                                  *)
NextCommandOf ==
    CASE pc \in {"install", "extension", "disable_all"} -> {ver}
      [] pc = "update" -> {Larger(ver, old)}
      [] pc \in {"disable_old", "uninstall_old"} -> {old}
      [] OTHER -> {}

(* handle_enable and handle_uninstall run no command of a version, the old  *)
(* one of an update included, whose policy check they did not pass.         *)
PolicyGate == NextCommandOf \subseteq checked

(* "Even if a single extension is enabled for this handler, set the Handler *)
(* state as Enabled", and "Set the handler state to Installed only when all *)
(* extensions have been disabled" (enable, disable): between operations an  *)
(* installed multi-config handler is Enabled exactly when one of its        *)
(* extensions is.  The two files are written one after the other, so a      *)
(* version is excepted from the moment the agent dies between the writes,   *)
(* or continues an update after a failed disable, until it next writes the  *)
(* state of the handler.                                                    *)
EnabledIffSomeExtensionIs ==
    pc \in {"next", "idle"} =>
        \A v \in InstalledVersions \ torn : hstate[v] = "Enabled" <=> estate[v] # {}

(* What the goal state asks for is what is on disk. *)
Converged ==
    CASE gs.request = "enabled" ->
            /\ InstalledVersions = {gs.version}
            /\ IF SupportsMC
               THEN /\ gs.listed \cap estate[gs.version] = gs.on
                    /\ gs.on # {} => hstate[gs.version] = "Enabled"
               ELSE hstate[gs.version] = "Enabled"
      [] gs.request = "disabled" -> \A v \in Versions : hstate[v] # "Enabled"
      [] OTHER -> InstalledVersions = {}

(* A goal state that was processed without a failure left the VM as it      *)
(* asks, whatever earlier goal states, failed updates and deaths of the     *)
(* agent had left on disk.                                                  *)
ProcessedMeansConverged == pc = "idle" /\ received > 0 /\ ~failed => Converged

(* "We should always have some handler status if requested state !=         *)
(* Uninstall irrespective of single or multi-config" (                      *)
(* report_ext_handler_status): once a goal state that enables the handler   *)
(* is processed, successfully or not, there is a status to report.          *)
HandlerStatusAvailable ==
    pc = "idle" /\ received > 0 /\ gs.request = "enabled" => hstatus[ver] # "none"

(* The update command of a downgrade is that of the old version, so it is   *)
(* the old version that UpdateFails marks FailedUpgrade.                    *)
FailedDowngrade(v) == pc = "update" /\ v = old /\ ver < old

(* A step after which get_installed_version does not return a version it    *)
(* returned before is one of a goal state that gives the handler up, or     *)
(* follows the update to its replacement, or is the end of a downgrade      *)
(* whose update command failed.                                             *)
GivesUpOnlyOnRequest ==
    \A v \in Versions :
        IsInstalled(hstate[v]) /\ ~IsInstalled(hstate'[v]) =>
            \/ gs.request \in {"uninstall", "absent"}
            \/ v = old /\ updated
            \/ FailedDowngrade(v)

(* The agent loses an installed version only when the goal state gives the  *)
(* handler up, after the update command to its replacement succeeded, or in *)
(* a downgrade whose update command fails: a failed upgrade, a failed       *)
(* install and a death of the agent never cost the VM the version it had.   *)
KeepsWorkingVersion == [][GivesUpOnlyOnRequest]_vars

-----------------------------------------------------------------------------
(* LIVENESS *)

(* Processing a goal state always ends: no sequence of failures, and no     *)
(* death of the agent, keeps run() from returning.                          *)
EveryGoalStateIsProcessed == []<>(pc = "idle")
=============================================================================

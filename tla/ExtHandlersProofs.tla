--------------------------- MODULE ExtHandlersProofs ---------------------------
(***************************************************************************)
(* Machine-checked proofs about ExtHandlers, for every set of versions and *)
(* extensions, every manifest and any number of goal states and crashes.   *)
(*                                                                         *)
(* OneInstalledVersion and KeepsWorkingVersion are not inductive: that an  *)
(* update leaves one version depends on where in the sequence the agent is *)
(* and on what it read before (old was the installed version when          *)
(* handle_enable started). Tracking says what holds at each label.         *)
(*                                                                         *)
(* The second half is about what a goal state leaves once it is processed: *)
(* what it asked for (Progress), a handler status (StatusSoFar), and, for  *)
(* multi-config, a handler that is enabled exactly if one of its           *)
(* extensions is (StatesAgree). Each adds to Tracking what the agent has   *)
(* done so far at each label.                                              *)
(***************************************************************************)
EXTENDS ExtHandlers, TLAPS

(* Labels of the update sequence at which the old version is installed. *)
Updating == {"check_old", "disable_old", "record_old", "update", "uninstall_old", "remove_old"}

(* What the agent knows at each label about the versions on disk. *)
Tracking ==
    /\ pc \in {"enabled", "setup"} \cup Updating =>
          /\ \A v \in InstalledVersions : v = old
          /\ old # 0 => old \in InstalledVersions
    /\ pc \in Updating => old \in Versions
    /\ pc = "setup" /\ old = 0 => InstalledVersions = {}
    /\ pc \in {"install", "mark_updated"} => InstalledVersions = {}
    /\ pc \in {"installed", "extension", "record_enabled", "record_disabled", "record_all"} =>
          ver \in InstalledVersions
    /\ pc = "disable_all" /\ pending # {} => ver \in InstalledVersions

(* What the history variables and the request say at each label. *)
Operation ==
    /\ pc = "setup" => ~IsInstalled(hstate[ver])
    /\ pc \in {"uninstall_old", "remove_old"} => updated
    /\ gs.request = "absent" => todo = {}
    /\ pc \in {"uninstall", "disable_all", "record_all", "remove"} => gs.request = "uninstall"

(* The versions that passed the policy check at each label. *)
Checked ==
    /\ pc \in {"setup", "check_old", "install", "installed", "mark_updated", "extension",
               "record_enabled", "disable_all", "record_all"} => ver \in checked
    /\ pc \in Updating \ {"check_old"} => ver \in checked /\ old \in checked

-----------------------------------------------------------------------------
(* The fields of a goal state are in range. *)
LEMMA GoalStateFields ==
    ASSUME NEW g \in GoalStates
    PROVE  /\ g.version \in Versions
           /\ g.listed \subseteq Exts
           /\ g.on \subseteq Exts
           /\ g.request \in {"enabled", "disabled", "uninstall", "absent"}
           /\ ItemsOf(g) \subseteq Exts \cup {NoExt}
  BY Zenon DEF GoalStates, ItemsOf

(* get_installed_version returns a version of the handler, or none. *)
LEMMA InstalledVersionInRange ==
    ASSUME TypeOK, OneInstalledVersion
    PROVE  /\ InstalledVersion \in Versions \cup {0}
           /\ InstalledVersion # 0 => InstalledVersion \in InstalledVersions
           /\ \A v \in InstalledVersions : v = InstalledVersion
  <1>1. CASE InstalledVersions = {}
    BY <1>1, Zenon DEF InstalledVersion
  <1>2. CASE InstalledVersions # {}
    <2>1. PICK v \in InstalledVersions : TRUE
      BY <1>2, Zenon
    <2>2. v \in Nat /\ \A w \in InstalledVersions : w <= v
      BY <2>1, VersionsAssumption DEF OneInstalledVersion, InstalledVersions
    <2>3. InstalledVersion \in InstalledVersions
      BY <1>2, <2>2, Zenon DEF InstalledVersion
    <2> QED
      BY <2>3, Zenon DEF OneInstalledVersion, InstalledVersions
  <1> QED
    BY <1>1, <1>2, Zenon

(* What an update or an uninstall has to disable is extensions of the handler. *)
LEMMA ExtensionsToDisableInRange ==
    ASSUME TypeOK, NEW v \in Versions
    PROVE  ExtensionsToDisable(v) \subseteq Exts \cup {NoExt}
  BY GoalStateFields, Zenon DEF TypeOK, ExtensionsToDisable, EnabledExtensions

(* Every step of the agent keeps its files and its locals in range. *)
LEMMA TypeStep ==
    ASSUME TypeOK, OneInstalledVersion, Tracking, Operation, [Next]_vars
    PROVE  TypeOK'
  <1>1. CASE \E g \in GoalStates : NewGoalState(g)
    <2>1. PICK g \in GoalStates : NewGoalState(g)
      BY <1>1, Zenon
    <2>2. received' \in 0..MaxGoalStates
      BY <2>1, BoundsAssumption DEF NewGoalState, TypeOK
    <2>3. ver' \in Versions /\ todo' \subseteq Exts \cup {NoExt}
      BY <2>1, GoalStateFields, Zenon DEF NewGoalState, StartGoalState
    <2> QED
      BY <2>1, <2>2, <2>3, Zenon DEF NewGoalState, StartGoalState, TypeOK, disk, op, Labels
  <1>2. CASE \E g \in GoalStates : Restart(g)
    <2>1. PICK g \in GoalStates : Restart(g)
      BY <1>2, Zenon
    <2>2. received' \in 0..MaxGoalStates
      BY <2>1, BoundsAssumption DEF Restart, TypeOK
    <2>3. ver' \in Versions /\ todo' \subseteq Exts \cup {NoExt}
      BY <2>1, GoalStateFields, Zenon DEF Restart, StartGoalState
    <2> QED
      BY <2>1, <2>2, <2>3, Zenon DEF Restart, StartGoalState, TypeOK, disk, op, Labels
  <1>3. CASE \E e \in Exts \cup {NoExt} : SkipExtension(e)
    BY <1>3, Zenon DEF SkipExtension, SetHandlerStatus, TypeOK, HandlerState, Labels, disk, op
  <1>4. CASE \E e \in Exts \cup {NoExt} : HandleExtHandler(e)
    <2>1. PICK e \in Exts \cup {NoExt} : HandleExtHandler(e)
      BY <1>4, Zenon
    <2>2. old' \in Versions \cup {0} /\ ver' \in Versions
      BY <2>1, InstalledVersionInRange, Zenon DEF HandleExtHandler, DecideVersion, TypeOK
    <2>3. gs.request \in {"enabled", "disabled", "uninstall"}
      BY <2>1, GoalStateFields, Zenon DEF HandleExtHandler, Operation, TypeOK
    <2> QED
      BY <2>1, <2>2, <2>3, Zenon DEF HandleExtHandler, TypeOK, disk, Labels
  <1>5. CASE \E e \in Exts \cup {NoExt} : HandleExtHandlerFails(e)
    BY <1>5, Zenon DEF HandleExtHandlerFails, SetHandlerStatus, TypeOK, HandlerState, Labels, disk, op
  <1>6. CASE \E e \in Exts \cup {NoExt} : DisableOld(e)
    <2>1. PICK e \in Exts \cup {NoExt} : DisableOld(e)
      BY <1>6, Zenon
    <2> QED
      BY <2>1, Zenon DEF DisableOld, ForgetExtension, Goto, TypeOK, Labels
  <1>7. CASE \E e \in Exts \cup {NoExt} : DisableOldFails(e)
    <2>1. old \in Versions
      BY <1>7, Zenon DEF DisableOldFails, Tracking, Updating
    <2> QED
      BY <1>7, <2>1, ZenonT(60) DEF DisableOldFails, FinishWithError, Finish, ClearOperation, SetHandlerStatus,
        TypeOK, HandlerState, Labels, disk, op
  <1>8. CASE \E e \in Exts \cup {NoExt} : DisableAll(e)
    <2>1. PICK e \in Exts \cup {NoExt} : DisableAll(e)
      BY <1>8, Zenon
    <2> QED
      BY <2>1, Zenon DEF DisableAll, ForgetExtension, Goto, TypeOK, Labels
  <1>9. CASE PolicyRejects \/ EnableInstalledVersionFails \/ InstallFails \/
           CopyStatusFilesFails \/ HandleDisableFails \/ DisableAllFails
    BY <1>9, Zenon DEF PolicyRejects, FinishWithError, Finish, ClearOperation, SetHandlerStatus,
      EnableInstalledVersionFails, InstallFails, CopyStatusFilesFails, HandleDisableFails, DisableAllFails,
      TypeOK, HandlerState, Labels, disk, op
  <1>10. CASE SetupNewHandler \/ CopyStatusFiles \/ Update \/ UninstallOld \/ Uninstall
           \/ EnableInstalledVersion
    BY <1>10, ZenonT(60) DEF SetupNewHandler, Goto, CopyStatusFiles, Update, UninstallOld, Uninstall,
      EnableInstalledVersion, TypeOK, HandlerState, Labels, disk, op
  <1>11. CASE UninstallOldFails \/ EnableExtensionFails
    BY <1>11, Zenon DEF UninstallOldFails, FinishWithError, Finish, ClearOperation, SetHandlerStatus,
      EnableExtensionFails, TypeOK, HandlerState, Labels, disk, op
  <1>12. CASE RecordOldDisabled \/ RecordAllDisabled
    BY <1>12, Zenon DEF RecordOldDisabled, RecordDisabled, SetHandlerState, SetHandlerStatus, Goto,
      RecordAllDisabled, TypeOK, HandlerState, Labels, disk, op
  <1>13. CASE Crash
    <2>1. crashes' \in 0..MaxCrashes
      BY <1>13, BoundsAssumption DEF Crash, Recording, TypeOK
    <2>2. Recording \subseteq Versions
      BY Zenon DEF Recording, Tracking, Updating, TypeOK
    <2> QED
      BY <1>13, <2>1, <2>2, Zenon DEF Crash, TypeOK, ClearOperation, disk, Labels
  <1>14. CASE EnableNewVersion
    BY <1>14, Zenon DEF EnableNewVersion, SetHandlerState, Goto, TypeOK, HandlerState, Labels, disk, op
  <1>15. CASE SetupNewHandlerFails
    BY <1>15, Zenon DEF SetupNewHandlerFails, FinishWithError, Finish, ClearOperation, SetHandlerStatus,
      SetHandlerState, TypeOK, HandlerState, Labels, disk, op
  <1>16. CASE Install
    BY <1>16, Zenon DEF Install, SetHandlerState, SetHandlerStatus, Goto, TypeOK, HandlerState, Labels, disk, op
  <1>31. CASE ReportInstalled
    BY <1>31, Zenon DEF ReportInstalled, SetHandlerStatus, Goto, TypeOK, HandlerState, Labels, disk, op
  <1>17. CASE StartUpdate
    <2>1. old \in Versions
      BY <1>17, Zenon DEF StartUpdate, Tracking, Updating
    <2>2. ExtensionsToDisable(old) \subseteq Exts \cup {NoExt}
      BY <2>1, ExtensionsToDisableInRange, Zenon
    <2> QED
      BY <1>17, <2>1, <2>2, Zenon DEF StartUpdate, Goto, TypeOK, disk, Labels
  <1>18. CASE UpdateFails
    BY <1>18, Zenon DEF UpdateFails, FinishWithError, Finish, ClearOperation, SetHandlerStatus,
      SetHandlerState, Larger, TypeOK, HandlerState, Labels, disk, op
  <1>19. CASE RemoveOld
    BY <1>19, Zenon DEF RemoveOld, RemoveDirectory, SetHandlerState, SetHandlerStatus, Goto, TypeOK, HandlerState,
      Labels, disk, op
  <1>20. CASE MarkUpdated
    BY <1>20, Zenon DEF MarkUpdated, SetHandlerState, Goto, TypeOK, HandlerState, Labels, disk, op
  <1>21. CASE EnableExtension
    BY <1>21, ExtsAssumption DEF EnableExtension, IsMultiConfigOp, Goto, TypeOK, HandlerState, Labels, disk,
      op
  <1>22. CASE RecordEnabled
    BY <1>22, Zenon DEF RecordEnabled, SetHandlerState, SetHandlerStatus, Finish, ClearOperation, TypeOK,
      HandlerState, Labels, disk, op
  <1>23. CASE DisableExtension
    BY ZenonT(60), <1>23 DEF DisableExtension, ForgetExtension, Goto, Finish, ClearOperation, TypeOK,
      HandlerState, Labels, disk, op
  <1>24. CASE HandleDisable
    BY <1>24, ZenonT(60) DEF HandleDisable, ForgetExtension, Goto, Finish, ClearOperation, TypeOK,
      HandlerState, Labels, disk, op
  <1>25. CASE RecordExtensionDisabled
    BY <1>25, Zenon DEF RecordExtensionDisabled, RecordDisabled, SetHandlerState, SetHandlerStatus, Finish,
      ClearOperation, TypeOK, HandlerState, Labels, disk, op
  <1>26. CASE HandleUninstall
    <2>1. ExtensionsToDisable(ver) \subseteq Exts \cup {NoExt}
      BY ExtensionsToDisableInRange, Zenon DEF TypeOK
    <2> QED
      BY <1>26, <2>1, Zenon DEF HandleUninstall, Goto, TypeOK, disk, op, Labels
  <1>27. CASE RemoveExtHandler
    BY <1>27, ZenonT(60) DEF RemoveExtHandler, RemoveDirectory, SetHandlerState, SetHandlerStatus, Finish,
      ClearOperation, TypeOK, HandlerState, Labels, disk, op
  <1>28. CASE FinishGoalState
    BY <1>28 DEF FinishGoalState, TypeOK, HandlerState, Labels, disk, op
  <1>29. CASE Quiescent
    BY <1>29, Zenon DEF Quiescent, vars, TypeOK, HandlerState, Labels, disk, op
  <1>30. CASE UNCHANGED vars
    BY <1>30 DEF vars, TypeOK, HandlerState, Labels, disk, op
  <1> QED
    BY <1>1, <1>2, <1>3, <1>4, <1>5, <1>6, <1>7, <1>8, <1>9, <1>10, <1>11, <1>12, <1>13,
       <1>14, <1>15, <1>16, <1>17, <1>18, <1>19, <1>20, <1>21, <1>22, <1>23, <1>24, <1>25,
       <1>26, <1>27, <1>28, <1>29, <1>30, <1>31, Zenon DEF Next, AgentNext

(* Every step keeps at most one version installed, and what the agent knows *)
(* about it, as long as deleting a directory succeeds.                      *)
LEMMA TrackingStep ==
    ASSUME ~RemoveMayFail, TypeOK, OneInstalledVersion, Tracking, Operation, [Next]_vars
    PROVE  OneInstalledVersion' /\ Tracking'
  <1> USE VersionsAssumption
  <1>1. CASE \E g \in GoalStates : NewGoalState(g)
    BY <1>1 DEF NewGoalState, StartGoalState, TypeOK, OneInstalledVersion, Tracking, Updating,
      InstalledVersions, IsInstalled, disk, op
  <1>2. CASE \E g \in GoalStates : Restart(g)
    BY <1>2, Zenon DEF Restart, StartGoalState, TypeOK, OneInstalledVersion, Tracking, Updating, InstalledVersions,
      IsInstalled, disk, op
  <1>3. CASE \E e \in Exts \cup {NoExt} : SkipExtension(e)
    BY <1>3, Zenon DEF SkipExtension, SetHandlerStatus, TypeOK, OneInstalledVersion, Tracking, Updating,
      InstalledVersions, IsInstalled, op
  <1>4. CASE \E e \in Exts \cup {NoExt} : HandleExtHandler(e)
    <2>1. PICK e \in Exts \cup {NoExt} : HandleExtHandler(e)
      BY <1>4, Zenon
    <2>2. pc' \in {"enabled", "disabled", "uninstall"}
      BY <2>1, GoalStateFields, Zenon DEF HandleExtHandler, Operation, TypeOK
    <2>3. UNCHANGED hstate
      BY <2>1, Zenon DEF HandleExtHandler, disk
    <2>4. pc' = "enabled" => old' = InstalledVersion
      BY <2>1, Zenon DEF HandleExtHandler
    <2> QED
      BY <2>2, <2>3, <2>4, InstalledVersionInRange, Zenon DEF Tracking, Updating, OneInstalledVersion,
        InstalledVersions
  <1>5. CASE \E e \in Exts \cup {NoExt} : HandleExtHandlerFails(e)
    BY <1>5, Zenon DEF HandleExtHandlerFails, SetHandlerStatus, TypeOK, OneInstalledVersion, Tracking, Updating,
      InstalledVersions, IsInstalled, disk, op
  <1>6. CASE \E e \in Exts \cup {NoExt} : DisableOld(e)
    BY <1>6, Zenon DEF DisableOld, ForgetExtension, Goto, TypeOK, OneInstalledVersion, Tracking, Updating,
      InstalledVersions, IsInstalled, disk
  <1>7. CASE \E e \in Exts \cup {NoExt} : DisableOldFails(e)
    BY <1>7, Zenon DEF DisableOldFails, FinishWithError, Finish, ClearOperation, SetHandlerStatus, TypeOK,
      OneInstalledVersion, Tracking, Updating, InstalledVersions, IsInstalled, disk
  <1>8. CASE \E e \in Exts \cup {NoExt} : DisableAll(e)
    BY <1>8, Zenon DEF DisableAll, ForgetExtension, Goto, TypeOK, OneInstalledVersion, Tracking, Updating,
      InstalledVersions, IsInstalled, disk
  <1>9. CASE PolicyRejects \/ EnableInstalledVersionFails \/ InstallFails \/
           CopyStatusFilesFails \/ HandleDisableFails \/ DisableAllFails
    BY <1>9, Zenon DEF PolicyRejects, FinishWithError, Finish, ClearOperation, SetHandlerStatus,
      EnableInstalledVersionFails, InstallFails, CopyStatusFilesFails, HandleDisableFails, DisableAllFails,
      TypeOK, OneInstalledVersion, Tracking, Updating, InstalledVersions, IsInstalled, disk
  <1>10. CASE SetupNewHandler \/ CopyStatusFiles \/ Update \/ UninstallOld \/ Uninstall
           \/ EnableInstalledVersion
    BY  <1>10, Zenon DEF SetupNewHandler, Goto, CopyStatusFiles, Update, UninstallOld, Uninstall,
      EnableInstalledVersion, TypeOK, OneInstalledVersion, Tracking, Updating, InstalledVersions, IsInstalled,
      disk, op
  <1>11. CASE UninstallOldFails \/ EnableExtensionFails
    BY <1>11, Zenon DEF UninstallOldFails, FinishWithError, Finish, ClearOperation, SetHandlerStatus,
      EnableExtensionFails, TypeOK, OneInstalledVersion, Tracking, Updating, InstalledVersions, IsInstalled,
      disk, op
  <1>12. CASE RecordOldDisabled \/ RecordAllDisabled
    BY SMTT(30), <1>12 DEF RecordOldDisabled, RecordDisabled, SetHandlerState, SetHandlerStatus, Goto,
      RecordAllDisabled, TypeOK, OneInstalledVersion, Tracking, Updating, InstalledVersions, IsInstalled,
      disk, op
  <1>13. CASE Crash
    BY <1>13, Zenon DEF Crash, Recording, ClearOperation, TypeOK, OneInstalledVersion, Tracking, Updating, InstalledVersions,
      IsInstalled, disk
  <1>14. CASE EnableNewVersion
    BY ZenonT(60), <1>14 DEF EnableNewVersion, SetHandlerState, Goto, TypeOK, OneInstalledVersion, Tracking,
      Updating, InstalledVersions, IsInstalled, disk
  <1>15. CASE SetupNewHandlerFails
    BY SMTT(30), <1>15 DEF SetupNewHandlerFails, FinishWithError, Finish, ClearOperation, SetHandlerStatus,
      SetHandlerState, TypeOK, OneInstalledVersion, Tracking, Updating, InstalledVersions, IsInstalled, disk
  <1>16. CASE Install
    BY SMTT(30), <1>16 DEF Install, SetHandlerState, SetHandlerStatus, Goto, TypeOK, OneInstalledVersion,
      Tracking, Updating, InstalledVersions, IsInstalled, disk, op
  <1>31. CASE ReportInstalled
    BY SMTT(30), <1>31 DEF ReportInstalled, SetHandlerStatus, Goto, TypeOK, OneInstalledVersion,
      Tracking, Updating, InstalledVersions, IsInstalled, disk, op
  <1>17. CASE StartUpdate
    BY <1>17, Zenon DEF StartUpdate, Goto, TypeOK, OneInstalledVersion, Tracking, Updating, InstalledVersions,
      IsInstalled, disk
  <1>18. CASE UpdateFails
    BY SMTT(30), <1>18 DEF UpdateFails, FinishWithError, Finish, ClearOperation, SetHandlerStatus,
      SetHandlerState, Larger, TypeOK, OneInstalledVersion, Tracking, Updating, InstalledVersions,
      IsInstalled, disk
  <1>19. CASE RemoveOld
    BY ZenonT(60), <1>19 DEF RemoveOld, RemoveDirectory, SetHandlerState, SetHandlerStatus, Goto, TypeOK,
      OneInstalledVersion, Tracking, Updating, InstalledVersions, IsInstalled, disk, op
  <1>20. CASE MarkUpdated
    BY SMTT(30), <1>20 DEF MarkUpdated, SetHandlerState, Goto, TypeOK, OneInstalledVersion, Tracking,
      Updating, InstalledVersions, IsInstalled, disk, op
  <1>21. CASE EnableExtension
    BY <1>21, Zenon DEF EnableExtension, IsMultiConfigOp, Goto, TypeOK, OneInstalledVersion, Tracking, Updating,
      InstalledVersions, IsInstalled, disk, op
  <1>22. CASE RecordEnabled
    BY <1>22 DEF RecordEnabled, SetHandlerState, SetHandlerStatus, Finish, ClearOperation, TypeOK,
      OneInstalledVersion, Tracking, Updating, InstalledVersions, IsInstalled, disk
  <1>23. CASE DisableExtension
    BY <1>23 DEF DisableExtension, ForgetExtension, Goto, Finish, ClearOperation, TypeOK, OneInstalledVersion,
      Tracking, Updating, InstalledVersions, IsInstalled, disk, op
  <1>24. CASE HandleDisable
    BY <1>24, Zenon DEF HandleDisable, ForgetExtension, Goto, Finish, ClearOperation, TypeOK, OneInstalledVersion,
      Tracking, Updating, InstalledVersions, IsInstalled, disk, op
  <1>25. CASE RecordExtensionDisabled
    BY SMTT(30), <1>25 DEF RecordExtensionDisabled, RecordDisabled, SetHandlerState, SetHandlerStatus, Finish,
      ClearOperation, TypeOK, OneInstalledVersion, Tracking, Updating, InstalledVersions, IsInstalled, disk
  <1>26. CASE HandleUninstall
    BY <1>26 DEF HandleUninstall, Goto, TypeOK, OneInstalledVersion, Tracking, Updating, InstalledVersions,
      IsInstalled, disk, op
  <1>27. CASE RemoveExtHandler
    BY SMTT(30), <1>27 DEF RemoveExtHandler, RemoveDirectory, SetHandlerState, SetHandlerStatus, Finish,
      ClearOperation, TypeOK, OneInstalledVersion, Tracking, Updating, InstalledVersions, IsInstalled, disk
  <1>28. CASE FinishGoalState
    BY SMTT(30), <1>28 DEF FinishGoalState, TypeOK, OneInstalledVersion, Tracking, Updating,
      InstalledVersions, IsInstalled, disk, op
  <1>29. CASE Quiescent
    BY <1>29, Zenon DEF Quiescent, vars, TypeOK, OneInstalledVersion, Tracking, Updating, InstalledVersions,
      IsInstalled, disk, op
  <1>30. CASE UNCHANGED vars
    BY <1>30, Zenon DEF vars, TypeOK, OneInstalledVersion, Tracking, Updating, InstalledVersions, IsInstalled, disk,
      op
  <1> QED
    BY <1>1, <1>2, <1>3, <1>4, <1>5, <1>6, <1>7, <1>8, <1>9, <1>10, <1>11, <1>12, <1>13,
       <1>14, <1>15, <1>16, <1>17, <1>18, <1>19, <1>20, <1>21, <1>22, <1>23, <1>24, <1>25,
       <1>26, <1>27, <1>28, <1>29, <1>30, <1>31, Zenon DEF Next, AgentNext

(* Every step keeps what the request and the history say at each label. *)
LEMMA OperationStep ==
    ASSUME TypeOK, Operation, [Next]_vars
    PROVE  Operation'
  <1>1. CASE \E g \in GoalStates : NewGoalState(g)
    BY <1>1, Zenon DEF NewGoalState, StartGoalState, ItemsOf, TypeOK, Operation, IsInstalled, disk, op
  <1>2. CASE \E g \in GoalStates : Restart(g)
    BY <1>2, Zenon DEF Restart, StartGoalState, ItemsOf, TypeOK, Operation, IsInstalled, disk, op
  <1>3. CASE \E e \in Exts \cup {NoExt} : SkipExtension(e)
    BY <1>3, Zenon DEF SkipExtension, SetHandlerStatus, TypeOK, Operation, IsInstalled, disk, op
  <1>4. CASE \E e \in Exts \cup {NoExt} : HandleExtHandler(e)
    <2>1. PICK e \in Exts \cup {NoExt} : HandleExtHandler(e)
      BY <1>4, Zenon
    <2>2. pc' = gs.request /\ pc' \in {"enabled", "disabled", "uninstall"}
      BY <2>1, GoalStateFields, Zenon DEF HandleExtHandler, Operation, TypeOK
    <2> QED
      BY <2>1, <2>2, Zenon DEF HandleExtHandler, Operation, disk
  <1>5. CASE \E e \in Exts \cup {NoExt} : HandleExtHandlerFails(e)
    BY <1>5, Zenon DEF HandleExtHandlerFails, SetHandlerStatus, TypeOK, Operation, IsInstalled, disk, op
  <1>6. CASE \E e \in Exts \cup {NoExt} : DisableOld(e)
    BY <1>6, Zenon DEF DisableOld, ForgetExtension, Goto, TypeOK, Operation, IsInstalled, disk, op
  <1>7. CASE \E e \in Exts \cup {NoExt} : DisableOldFails(e)
    BY <1>7, Zenon DEF DisableOldFails, FinishWithError, Finish, ClearOperation, SetHandlerStatus, TypeOK, Operation,
      IsInstalled, disk, op
  <1>8. CASE \E e \in Exts \cup {NoExt} : DisableAll(e)
    BY <1>8, Zenon DEF DisableAll, ForgetExtension, Goto, TypeOK, Operation, IsInstalled, disk, op
  <1>9. CASE PolicyRejects \/ EnableInstalledVersionFails \/ InstallFails \/
           CopyStatusFilesFails \/ HandleDisableFails \/ DisableAllFails
    BY <1>9, Zenon DEF PolicyRejects, FinishWithError, Finish, ClearOperation, SetHandlerStatus,
      EnableInstalledVersionFails, InstallFails, CopyStatusFilesFails, HandleDisableFails, DisableAllFails,
      TypeOK, Operation, IsInstalled, disk, op
  <1>10. CASE SetupNewHandler \/ CopyStatusFiles \/ Update \/ UninstallOld \/ Uninstall
           \/ EnableInstalledVersion
    BY <1>10, Zenon DEF SetupNewHandler, Goto, CopyStatusFiles, Update, UninstallOld, Uninstall,
      EnableInstalledVersion, TypeOK, Operation, IsInstalled, disk, op
  <1>11. CASE UninstallOldFails \/ EnableExtensionFails
    BY <1>11, Zenon DEF UninstallOldFails, FinishWithError, Finish, ClearOperation, SetHandlerStatus,
      EnableExtensionFails, TypeOK, Operation, IsInstalled, disk, op
  <1>12. CASE RecordOldDisabled \/ RecordAllDisabled
    BY <1>12, Zenon DEF RecordOldDisabled, RecordDisabled, SetHandlerState, SetHandlerStatus, Goto,
      RecordAllDisabled, TypeOK, Operation, IsInstalled, disk, op
  <1>13. CASE Crash
    BY <1>13, Zenon DEF Crash, Recording, ClearOperation, TypeOK, Operation, IsInstalled, disk, op
  <1>14. CASE EnableNewVersion
    BY <1>14, Zenon DEF EnableNewVersion, SetHandlerState, Goto, TypeOK, Operation, IsInstalled, disk, op
  <1>15. CASE SetupNewHandlerFails
    BY <1>15, Zenon DEF SetupNewHandlerFails, FinishWithError, Finish, ClearOperation, SetHandlerStatus,
      SetHandlerState, TypeOK, Operation, IsInstalled, disk, op
  <1>16. CASE Install
    BY <1>16, Zenon DEF Install, SetHandlerState, SetHandlerStatus, Goto, TypeOK, Operation, IsInstalled, disk, op
  <1>31. CASE ReportInstalled
    BY <1>31, Zenon DEF ReportInstalled, SetHandlerStatus, Goto, TypeOK, Operation, IsInstalled, disk, op
  <1>17. CASE StartUpdate
    BY <1>17, Zenon DEF StartUpdate, Goto, TypeOK, Operation, IsInstalled, disk, op
  <1>18. CASE UpdateFails
    BY <1>18, Zenon DEF UpdateFails, FinishWithError, Finish, ClearOperation, SetHandlerStatus, SetHandlerState,
      Larger, TypeOK, Operation, IsInstalled, disk, op
  <1>19. CASE RemoveOld
    BY <1>19, Zenon DEF RemoveOld, RemoveDirectory, SetHandlerState, SetHandlerStatus, Goto, TypeOK, Operation,
      IsInstalled, disk, op
  <1>20. CASE MarkUpdated
    BY <1>20, Zenon DEF MarkUpdated, SetHandlerState, Goto, TypeOK, Operation, IsInstalled, disk, op
  <1>21. CASE EnableExtension
    BY <1>21, Zenon DEF EnableExtension, IsMultiConfigOp, Goto, TypeOK, Operation, IsInstalled, disk, op
  <1>22. CASE RecordEnabled
    BY <1>22, Zenon DEF RecordEnabled, SetHandlerState, SetHandlerStatus, Finish, ClearOperation, TypeOK, Operation,
      IsInstalled, disk, op
  <1>23. CASE DisableExtension
    BY <1>23, Zenon DEF DisableExtension, ForgetExtension, Goto, Finish, ClearOperation, TypeOK, Operation,
      IsInstalled, disk, op
  <1>24. CASE HandleDisable
    BY <1>24, Zenon DEF HandleDisable, ForgetExtension, Goto, Finish, ClearOperation, TypeOK, Operation, IsInstalled,
      disk, op
  <1>25. CASE RecordExtensionDisabled
    BY <1>25, Zenon DEF RecordExtensionDisabled, RecordDisabled, SetHandlerState, SetHandlerStatus, Finish,
      ClearOperation, TypeOK, Operation, IsInstalled, disk, op
  <1>26. CASE HandleUninstall
    BY <1>26, Zenon DEF HandleUninstall, Goto, TypeOK, Operation, IsInstalled, disk, op
  <1>27. CASE RemoveExtHandler
    BY <1>27, Zenon DEF RemoveExtHandler, RemoveDirectory, SetHandlerState, SetHandlerStatus, Finish, ClearOperation,
      TypeOK, Operation, IsInstalled, disk, op
  <1>28. CASE FinishGoalState
    BY <1>28, Zenon DEF FinishGoalState, TypeOK, Operation, IsInstalled, disk, op
  <1>29. CASE Quiescent
    BY <1>29, Zenon DEF Quiescent, vars, TypeOK, Operation, IsInstalled, disk, op
  <1>30. CASE UNCHANGED vars
    BY <1>30, Zenon DEF vars, TypeOK, Operation, IsInstalled, disk, op
  <1> QED
    BY <1>1, <1>2, <1>3, <1>4, <1>5, <1>6, <1>7, <1>8, <1>9, <1>10, <1>11, <1>12, <1>13,
       <1>14, <1>15, <1>16, <1>17, <1>18, <1>19, <1>20, <1>21, <1>22, <1>23, <1>24, <1>25,
       <1>26, <1>27, <1>28, <1>29, <1>30, <1>31, Zenon DEF Next, AgentNext

(* Every step keeps the versions that passed the policy check. *)
LEMMA CheckedStep ==
    ASSUME TypeOK, Operation, Checked, [Next]_vars
    PROVE  Checked'
  <1>1. CASE \E g \in GoalStates : NewGoalState(g)
    BY <1>1, Zenon DEF NewGoalState, StartGoalState, TypeOK, Checked, Updating, disk, op
  <1>2. CASE \E g \in GoalStates : Restart(g)
    BY <1>2, Zenon DEF Restart, StartGoalState, TypeOK, Checked, Updating, disk, op
  <1>3. CASE \E e \in Exts \cup {NoExt} : SkipExtension(e)
    BY <1>3, Zenon DEF SkipExtension, SetHandlerStatus, TypeOK, Checked, Updating, disk, op
  <1>4. CASE \E e \in Exts \cup {NoExt} : HandleExtHandler(e)
    <2>1. pc' \in {"enabled", "disabled", "uninstall"}
      BY <1>4, GoalStateFields, Zenon DEF HandleExtHandler, Operation, TypeOK
    <2> QED
      BY <2>1, Zenon DEF Checked, Updating
  <1>5. CASE \E e \in Exts \cup {NoExt} : HandleExtHandlerFails(e)
    BY <1>5, Zenon DEF HandleExtHandlerFails, SetHandlerStatus, TypeOK, Checked, Updating, disk, op
  <1>6. CASE \E e \in Exts \cup {NoExt} : DisableOld(e)
    BY <1>6, Zenon DEF DisableOld, ForgetExtension, Goto, TypeOK, Checked, Updating, disk, op
  <1>7. CASE \E e \in Exts \cup {NoExt} : DisableOldFails(e)
    BY <1>7, Zenon DEF DisableOldFails, FinishWithError, Finish, ClearOperation, SetHandlerStatus, TypeOK, Checked,
      Updating, disk, op
  <1>8. CASE \E e \in Exts \cup {NoExt} : DisableAll(e)
    BY <1>8, Zenon DEF DisableAll, ForgetExtension, Goto, TypeOK, Checked, Updating, disk, op
  <1>9. CASE PolicyRejects \/ EnableInstalledVersionFails \/ InstallFails \/
           CopyStatusFilesFails \/ HandleDisableFails \/ DisableAllFails
    BY <1>9, Zenon DEF PolicyRejects, FinishWithError, Finish, ClearOperation, SetHandlerStatus,
      EnableInstalledVersionFails, InstallFails, CopyStatusFilesFails, HandleDisableFails, DisableAllFails,
      TypeOK, Checked, Updating, disk, op
  <1>10. CASE SetupNewHandler \/ CopyStatusFiles \/ Update \/ UninstallOld \/ Uninstall
           \/ EnableInstalledVersion
    BY <1>10, Zenon DEF SetupNewHandler, Goto, CopyStatusFiles, Update, UninstallOld, Uninstall,
      EnableInstalledVersion, TypeOK, Checked, Updating, disk, op
  <1>11. CASE UninstallOldFails \/ EnableExtensionFails
    BY <1>11, Zenon DEF UninstallOldFails, FinishWithError, Finish, ClearOperation, SetHandlerStatus,
      EnableExtensionFails, TypeOK, Checked, Updating, disk, op
  <1>12. CASE RecordOldDisabled \/ RecordAllDisabled
    BY <1>12, Zenon DEF RecordOldDisabled, RecordDisabled, SetHandlerState, SetHandlerStatus, Goto,
      RecordAllDisabled, TypeOK, Checked, Updating, disk, op
  <1>13. CASE Crash
    BY <1>13, Zenon DEF Crash, Recording, ClearOperation, TypeOK, Checked, Updating, disk, op
  <1>14. CASE EnableNewVersion
    BY <1>14, Zenon DEF EnableNewVersion, SetHandlerState, Goto, TypeOK, Checked, Updating, disk, op
  <1>15. CASE SetupNewHandlerFails
    BY <1>15, Zenon DEF SetupNewHandlerFails, FinishWithError, Finish, ClearOperation, SetHandlerStatus,
      SetHandlerState, TypeOK, Checked, Updating, disk, op
  <1>16. CASE Install
    BY <1>16, Zenon DEF Install, SetHandlerState, SetHandlerStatus, Goto, TypeOK, Checked, Updating, disk, op
  <1>31. CASE ReportInstalled
    BY <1>31, Zenon DEF ReportInstalled, SetHandlerStatus, Goto, TypeOK, Checked, Updating, disk, op
  <1>17. CASE StartUpdate
    BY <1>17, Zenon DEF StartUpdate, Goto, TypeOK, Checked, Updating, disk, op
  <1>18. CASE UpdateFails
    BY <1>18, Zenon DEF UpdateFails, FinishWithError, Finish, ClearOperation, SetHandlerStatus, SetHandlerState,
      Larger, TypeOK, Checked, Updating, disk, op
  <1>19. CASE RemoveOld
    BY <1>19, Zenon DEF RemoveOld, RemoveDirectory, SetHandlerState, SetHandlerStatus, Goto, TypeOK, Checked,
      Updating, disk, op
  <1>20. CASE MarkUpdated
    BY <1>20, Zenon DEF MarkUpdated, SetHandlerState, Goto, TypeOK, Checked, Updating, disk, op
  <1>21. CASE EnableExtension
    BY <1>21, Zenon DEF EnableExtension, IsMultiConfigOp, Goto, TypeOK, Checked, Updating, disk, op
  <1>22. CASE RecordEnabled
    BY <1>22, Zenon DEF RecordEnabled, SetHandlerState, SetHandlerStatus, Finish, ClearOperation, TypeOK,
      Checked, Updating, disk, op
  <1>23. CASE DisableExtension
    BY <1>23, Zenon DEF DisableExtension, ForgetExtension, Goto, Finish, ClearOperation, TypeOK, Checked, Updating,
      disk, op
  <1>24. CASE HandleDisable
    BY <1>24, Zenon DEF HandleDisable, ForgetExtension, Goto, Finish, ClearOperation, TypeOK, Checked, Updating,
      disk, op
  <1>25. CASE RecordExtensionDisabled
    BY <1>25, Zenon DEF RecordExtensionDisabled, RecordDisabled, SetHandlerState, SetHandlerStatus, Finish,
      ClearOperation, TypeOK, Checked, Updating, disk, op
  <1>26. CASE HandleUninstall
    BY <1>26, Zenon DEF HandleUninstall, Goto, TypeOK, Checked, Updating, disk, op
  <1>27. CASE RemoveExtHandler
    BY <1>27, Zenon DEF RemoveExtHandler, RemoveDirectory, SetHandlerState, SetHandlerStatus, Finish, ClearOperation,
      TypeOK, Checked, Updating, disk, op
  <1>28. CASE FinishGoalState
    BY <1>28, Zenon DEF FinishGoalState, TypeOK, Checked, Updating, disk, op
  <1>29. CASE Quiescent
    BY <1>29, Zenon DEF Quiescent, vars, TypeOK, Checked, Updating, disk, op
  <1>30. CASE UNCHANGED vars
    BY <1>30, Zenon DEF vars, TypeOK, Checked, Updating, disk, op
  <1> QED
    BY <1>1, <1>2, <1>3, <1>4, <1>5, <1>6, <1>7, <1>8, <1>9, <1>10, <1>11, <1>12, <1>13,
       <1>14, <1>15, <1>16, <1>17, <1>18, <1>19, <1>20, <1>21, <1>22, <1>23, <1>24, <1>25,
       <1>26, <1>27, <1>28, <1>29, <1>30, <1>31, Zenon DEF Next, AgentNext

-----------------------------------------------------------------------------
(* The inductive invariant. *)
IInv == TypeOK /\ OneInstalledVersion /\ Tracking /\ Operation /\ Checked

(* A VM without the handler satisfies it. *)
LEMMA InitIInv ==
    ASSUME Init
    PROVE  IInv
  <1>1. gs \in GoalStates /\ gs.request = "absent" /\ ver \in Versions
    BY GoalStateFields, Zenon DEF Init
  <1>2. received \in 0..MaxGoalStates /\ crashes \in 0..MaxCrashes
    BY BoundsAssumption DEF Init
  <1>3. TypeOK
    BY <1>1, <1>2, Zenon DEF Init, TypeOK, HandlerState, Labels
  <1> QED
    BY <1>1, <1>3, Zenon DEF Init, IInv, OneInstalledVersion, InstalledVersions, IsInstalled, Tracking,
      Updating, Operation, Checked

(* IInv holds in every reachable state, unless a directory cannot be deleted. *)
THEOREM Invariance ==
    ASSUME ~RemoveMayFail
    PROVE  Spec => []IInv
  <1>1. Init => IInv
    BY InitIInv, Zenon
  <1>2. IInv /\ [Next]_vars => IInv'
    BY TypeStep, TrackingStep, OperationStep, CheckedStep, Zenon DEF IInv
  <1> QED
    BY <1>1, <1>2, PTL DEF Spec

(* The files and the locals of the agent are always in range. *)
THEOREM TypeCorrect ==
    ASSUME ~RemoveMayFail
    PROVE  Spec => []TypeOK
  <1>1. IInv => TypeOK
    BY Zenon DEF IInv
  <1> QED
    BY <1>1, Invariance, PTL

(* For every set of versions, every manifest, any failures of the commands  *)
(* and any number of deaths of the agent, at most one version of a handler  *)
(* is installed (exthandlers.py:666), if directories can be deleted.        *)
THEOREM OneInstalledVersionHolds ==
    ASSUME ~RemoveMayFail
    PROVE  Spec => []OneInstalledVersion
  <1>1. IInv => OneInstalledVersion
    BY Zenon DEF IInv
  <1> QED
    BY <1>1, Invariance, PTL

(* handle_enable and handle_uninstall run a command only of a version that  *)
(* passed the policy check in the same operation.                           *)
THEOREM PolicyGateHolds ==
    ASSUME ~RemoveMayFail
    PROVE  Spec => []PolicyGate
  <1>1. IInv => PolicyGate
    BY Zenon DEF IInv, PolicyGate, NextCommandOf, Checked, Updating, Larger
  <1> QED
    BY <1>1, Invariance, PTL

-----------------------------------------------------------------------------
(* What the goal state asks for.  The properties about the end of a goal    *)
(* state rest on what the items that were processed have left on disk.      *)

(* While a goal state is processed: an item is not on the list any more. *)
SomeItemDone == pc # "down" /\ todo # ItemsOf(gs)

(* Labels at which the version to enable is not installed yet. *)
Replacing == Updating \cup {"setup", "install", "mark_updated"}

(* The locals of the operation in progress. *)
Locals ==
    /\ todo \subseteq ItemsOf(gs)
    /\ gs.request = "enabled" => ver = gs.version
    /\ pc \notin {"idle", "down", "next"} => ext \in todo
    /\ pc \in Replacing \cup {"enabled", "installed", "extension", "record_enabled"} =>
          gs.request = "enabled"
    /\ pc = "disabled" => gs.request = "disabled"
    /\ pc = "record_disabled" =>
          \/ gs.request = "enabled" /\ ext \notin gs.on \cup {NoExt}
          \/ gs.request = "disabled"
    /\ pc = "record_enabled" => ext \in gs.on \cup {NoExt}

(* What is on disk of the version and of the extension being processed. *)
OnDisk ==
    /\ pc \in Replacing => ~IsInstalled(hstate[ver])
    /\ pc \in {"disabled", "uninstall", "disable_all", "record_all", "remove"} =>
          \A v \in InstalledVersions : v = ver
    /\ pc = "record_enabled" /\ IsMultiConfigOp(ext) => ext \in estate[ver]
    /\ pc = "record_disabled" /\ IsMultiConfigOp(ext) => ext \notin estate[ver]

(* What the items that were processed without a failure have left. *)
EnabledSoFar ==
    /\ InstalledVersions = {gs.version}
    /\ ~SupportsMC => hstate[gs.version] = "Enabled"
    /\ SupportsMC =>
          \A e \in gs.listed \ todo :
             /\ e \in estate[gs.version] <=> e \in gs.on
             /\ e \in gs.on => hstate[gs.version] = "Enabled"

DisabledSoFar ==
    \A v \in Versions : hstate[v] = "Enabled" =>
        /\ SupportsMC
        /\ gs.listed \cap estate[v] \subseteq todo
        /\ pc # "record_disabled" => gs.listed \cap estate[v] # {}

Progress ==
    SomeItemDone /\ ~failed =>
        /\ gs.request = "enabled" => EnabledSoFar
        /\ gs.request = "disabled" => DisabledSoFar
        /\ gs.request = "uninstall" => InstalledVersions = {}

(* Every step keeps the locals as they are said to be. *)
LEMMA LocalsStep ==
    ASSUME TypeOK, Operation, Locals, [Next]_vars
    PROVE  Locals'
  <1>1. CASE \E g \in GoalStates : NewGoalState(g)
    BY <1>1 DEF NewGoalState, StartGoalState, TypeOK, Operation, Locals, Replacing, Updating, disk, op
  <1>2. CASE \E g \in GoalStates : Restart(g)
    BY <1>2, Zenon DEF Restart, StartGoalState, TypeOK, Operation, Locals, Replacing, Updating, disk, op
  <1>3. CASE \E e \in Exts \cup {NoExt} : SkipExtension(e)
    BY <1>3, Zenon DEF SkipExtension, SetHandlerStatus, TypeOK, Operation, Locals, Replacing, Updating, disk, op
  <1>4. CASE \E e \in Exts \cup {NoExt} : HandleExtHandler(e)
    <2>1. PICK e \in Exts \cup {NoExt} : HandleExtHandler(e)
      BY <1>4, Zenon
    <2>2. pc' = gs.request /\ pc' \in {"enabled", "disabled", "uninstall"}
      BY <2>1, GoalStateFields, Zenon DEF HandleExtHandler, Operation, TypeOK
    <2>3. /\ UNCHANGED <<gs, todo>>
          /\ ext' \in todo
          /\ gs.request = "enabled" => ver' = ver
      BY <2>1, Zenon DEF HandleExtHandler, DecideVersion
    <2> QED
      BY <2>2, <2>3, Zenon DEF Locals, Replacing, Updating
  <1>5. CASE \E e \in Exts \cup {NoExt} : HandleExtHandlerFails(e)
    BY <1>5, Zenon DEF HandleExtHandlerFails, SetHandlerStatus, TypeOK, Operation, Locals, Replacing, Updating, disk,
      op
  <1>6. CASE \E e \in Exts \cup {NoExt} : DisableOld(e)
    BY <1>6, Zenon DEF DisableOld, ForgetExtension, Goto, TypeOK, Operation, Locals, Replacing, Updating, disk, op
  <1>7. CASE \E e \in Exts \cup {NoExt} : DisableOldFails(e)
    BY <1>7, Zenon DEF DisableOldFails, FinishWithError, Finish, ClearOperation, SetHandlerStatus, TypeOK, Operation,
      Locals, Replacing, Updating, disk, op
  <1>8. CASE \E e \in Exts \cup {NoExt} : DisableAll(e)
    BY <1>8, Zenon DEF DisableAll, ForgetExtension, Goto, TypeOK, Operation, Locals, Replacing, Updating, disk, op
  <1>9. CASE PolicyRejects \/ EnableInstalledVersionFails \/ InstallFails \/
           CopyStatusFilesFails \/ HandleDisableFails \/ DisableAllFails
    BY <1>9, Zenon DEF PolicyRejects, FinishWithError, Finish, ClearOperation, SetHandlerStatus,
      EnableInstalledVersionFails, InstallFails, CopyStatusFilesFails, HandleDisableFails, DisableAllFails,
      TypeOK, Operation, Locals, Replacing, Updating, disk, op
  <1>10. CASE SetupNewHandler \/ CopyStatusFiles \/ Update \/ UninstallOld \/ Uninstall
           \/ EnableInstalledVersion
    BY <1>10, Zenon DEF SetupNewHandler, Goto, CopyStatusFiles, Update, UninstallOld, Uninstall,
      EnableInstalledVersion, TypeOK, Operation, Locals, Replacing, Updating, disk, op
  <1>11. CASE UninstallOldFails \/ EnableExtensionFails
    BY <1>11, Zenon DEF UninstallOldFails, FinishWithError, Finish, ClearOperation, SetHandlerStatus,
      EnableExtensionFails, TypeOK, Operation, Locals, Replacing, Updating, disk, op
  <1>12. CASE RecordOldDisabled \/ RecordAllDisabled
    BY <1>12, Zenon DEF RecordOldDisabled, RecordDisabled, SetHandlerState, SetHandlerStatus, Goto,
      RecordAllDisabled, TypeOK, Operation, Locals, Replacing, Updating, disk, op
  <1>13. CASE Crash
    BY <1>13, Zenon DEF Crash, Recording, ClearOperation, TypeOK, Operation, Locals, Replacing, Updating, disk, op
  <1>14. CASE EnableNewVersion
    BY <1>14, Zenon DEF EnableNewVersion, SetHandlerState, Goto, TypeOK, Operation, Locals, Replacing, Updating,
      disk, op
  <1>15. CASE SetupNewHandlerFails
    BY <1>15, Zenon DEF SetupNewHandlerFails, FinishWithError, Finish, ClearOperation, SetHandlerStatus,
      SetHandlerState, TypeOK, Operation, Locals, Replacing, Updating, disk, op
  <1>16. CASE Install
    BY <1>16, Zenon DEF Install, SetHandlerState, SetHandlerStatus, Goto, TypeOK, Operation, Locals, Replacing,
      Updating, disk, op
  <1>31. CASE ReportInstalled
    BY <1>31, Zenon DEF ReportInstalled, SetHandlerStatus, Goto, TypeOK, Operation, Locals, Replacing,
      Updating, disk, op
  <1>17. CASE StartUpdate
    BY <1>17, Zenon DEF StartUpdate, Goto, TypeOK, Operation, Locals, Replacing, Updating, disk, op
  <1>18. CASE UpdateFails
    BY <1>18, Zenon DEF UpdateFails, FinishWithError, Finish, ClearOperation, SetHandlerStatus, SetHandlerState,
      Larger, TypeOK, Operation, Locals, Replacing, Updating, disk, op
  <1>19. CASE RemoveOld
    BY <1>19, Zenon DEF RemoveOld, RemoveDirectory, SetHandlerState, SetHandlerStatus, Goto, TypeOK, Operation,
      Locals, Replacing, Updating, disk, op
  <1>20. CASE MarkUpdated
    BY <1>20, Zenon DEF MarkUpdated, SetHandlerState, Goto, TypeOK, Operation, Locals, Replacing, Updating, disk, op
  <1>21. CASE EnableExtension
    BY <1>21, Zenon DEF EnableExtension, IsMultiConfigOp, Goto, TypeOK, Operation, Locals, Replacing, Updating, disk,
      op
  <1>22. CASE RecordEnabled
    BY <1>22, Zenon DEF RecordEnabled, SetHandlerState, SetHandlerStatus, Finish, ClearOperation, TypeOK, Operation,
      Locals, Replacing, Updating, disk, op
  <1>23. CASE DisableExtension
    BY <1>23, Zenon DEF DisableExtension, ForgetExtension, Goto, Finish, ClearOperation, TypeOK, Operation, Locals,
      Replacing, Updating, disk, op
  <1>24. CASE HandleDisable
    BY <1>24, Zenon DEF HandleDisable, ForgetExtension, Goto, Finish, ClearOperation, TypeOK, Operation, Locals,
      Replacing, Updating, disk, op
  <1>25. CASE RecordExtensionDisabled
    BY <1>25, Zenon DEF RecordExtensionDisabled, RecordDisabled, SetHandlerState, SetHandlerStatus, Finish,
      ClearOperation, TypeOK, Operation, Locals, Replacing, Updating, disk, op
  <1>26. CASE HandleUninstall
    BY <1>26, Zenon DEF HandleUninstall, Goto, TypeOK, Operation, Locals, Replacing, Updating, disk, op
  <1>27. CASE RemoveExtHandler
    BY <1>27, Zenon DEF RemoveExtHandler, RemoveDirectory, SetHandlerState, SetHandlerStatus, Finish, ClearOperation,
      TypeOK, Operation, Locals, Replacing, Updating, disk, op
  <1>28. CASE FinishGoalState
    BY <1>28, Zenon DEF FinishGoalState, TypeOK, Operation, Locals, Replacing, Updating, disk, op
  <1>29. CASE Quiescent
    BY <1>29, Zenon DEF Quiescent, vars, TypeOK, Operation, Locals, Replacing, Updating, disk, op
  <1>30. CASE UNCHANGED vars
    BY <1>30, Zenon DEF vars, TypeOK, Operation, Locals, Replacing, Updating, disk, op
  <1> QED
    BY <1>1, <1>2, <1>3, <1>4, <1>5, <1>6, <1>7, <1>8, <1>9, <1>10, <1>11, <1>12, <1>13,
       <1>14, <1>15, <1>16, <1>17, <1>18, <1>19, <1>20, <1>21, <1>22, <1>23, <1>24, <1>25,
       <1>26, <1>27, <1>28, <1>29, <1>30, <1>31, Zenon DEF Next, AgentNext

(* Every step keeps what the operation knows of the disk. *)
LEMMA OnDiskStep ==
    ASSUME ~RemoveMayFail, TypeOK, OneInstalledVersion, Tracking, Operation, Locals, OnDisk, [Next]_vars
    PROVE  OnDisk'
  <1>1. CASE \E g \in GoalStates : NewGoalState(g)
    BY <1>1 DEF NewGoalState, StartGoalState, TypeOK, Tracking, OnDisk, Replacing, Updating,
      InstalledVersions, IsInstalled, IsMultiConfigOp, disk, op
  <1>2. CASE \E g \in GoalStates : Restart(g)
    BY <1>2, Zenon DEF Restart, StartGoalState, TypeOK, Tracking, OnDisk, Replacing, Updating, InstalledVersions,
      IsInstalled, IsMultiConfigOp, disk, op
  <1>3. CASE \E e \in Exts \cup {NoExt} : SkipExtension(e)
    BY <1>3, Zenon DEF SkipExtension, SetHandlerStatus, TypeOK, Tracking, OnDisk, Replacing, Updating,
      InstalledVersions, IsInstalled, IsMultiConfigOp, op
  <1>4. CASE \E e \in Exts \cup {NoExt} : HandleExtHandler(e)
    <2>1. PICK e \in Exts \cup {NoExt} : HandleExtHandler(e)
      BY <1>4, Zenon
    <2>2. pc' = gs.request /\ pc' \in {"enabled", "disabled", "uninstall"}
      BY <2>1, GoalStateFields, Zenon DEF HandleExtHandler, Operation, TypeOK
    <2>3. /\ InstalledVersions' = InstalledVersions
          /\ gs.request # "enabled" /\ InstalledVersion # 0 => ver' = InstalledVersion
      BY <2>1, Zenon DEF HandleExtHandler, DecideVersion, InstalledVersions, disk
    <2>4. \A v \in InstalledVersions : v = InstalledVersion /\ v # 0
      BY InstalledVersionInRange, VersionsAssumption, Zenon DEF InstalledVersions
    <2> QED
      BY <2>2, <2>3, <2>4, Zenon DEF OnDisk, Replacing, Updating
  <1>5. CASE \E e \in Exts \cup {NoExt} : HandleExtHandlerFails(e)
    BY <1>5, Zenon DEF HandleExtHandlerFails, SetHandlerStatus, TypeOK, Tracking, OnDisk, Replacing, Updating,
      InstalledVersions, IsInstalled, IsMultiConfigOp, disk, op
  <1>6. CASE \E e \in Exts \cup {NoExt} : DisableOld(e)
    BY <1>6, Zenon DEF DisableOld, ForgetExtension, Goto, TypeOK, Tracking, OnDisk, Replacing, Updating,
      InstalledVersions, IsInstalled, IsMultiConfigOp, disk
  <1>7. CASE \E e \in Exts \cup {NoExt} : DisableOldFails(e)
    BY <1>7, Zenon DEF DisableOldFails, FinishWithError, Finish, ClearOperation, SetHandlerStatus, TypeOK, Tracking,
      OnDisk, Replacing, Updating, InstalledVersions, IsInstalled, IsMultiConfigOp, disk
  <1>8. CASE \E e \in Exts \cup {NoExt} : DisableAll(e)
    BY <1>8, Zenon DEF DisableAll, ForgetExtension, Goto, TypeOK, Tracking, OnDisk, Replacing, Updating,
      InstalledVersions, IsInstalled, IsMultiConfigOp, disk
  <1>9. CASE PolicyRejects \/ EnableInstalledVersionFails \/ InstallFails \/
           CopyStatusFilesFails \/ HandleDisableFails \/ DisableAllFails
    BY <1>9, Zenon DEF PolicyRejects, FinishWithError, Finish, ClearOperation, SetHandlerStatus,
      EnableInstalledVersionFails, InstallFails, CopyStatusFilesFails, HandleDisableFails, DisableAllFails,
      TypeOK, Tracking, OnDisk, Replacing, Updating, InstalledVersions, IsInstalled, IsMultiConfigOp, disk
  <1>10. CASE SetupNewHandler \/ CopyStatusFiles \/ Update \/ UninstallOld \/ Uninstall
           \/ EnableInstalledVersion
    BY <1>10, Zenon DEF SetupNewHandler, Goto, CopyStatusFiles, Update, UninstallOld, Uninstall,
      EnableInstalledVersion, TypeOK, Tracking, OnDisk, Replacing, Updating, InstalledVersions, IsInstalled,
      IsMultiConfigOp, disk, op
  <1>11. CASE UninstallOldFails \/ EnableExtensionFails
    BY <1>11, Zenon DEF UninstallOldFails, FinishWithError, Finish, ClearOperation, SetHandlerStatus,
      EnableExtensionFails, TypeOK, Tracking, OnDisk, Replacing, Updating, InstalledVersions, IsInstalled,
      IsMultiConfigOp, disk, op
  <1>12. CASE RecordOldDisabled \/ RecordAllDisabled
    <2>1. CASE RecordOldDisabled
      <3>1. old # ver
        BY <2>1, VersionsAssumption, Zenon DEF RecordOldDisabled, OnDisk, Tracking, Replacing, Updating,
          InstalledVersions
      <3>2. hstate'[ver] = hstate[ver]
        BY <2>1, <3>1, Zenon DEF RecordOldDisabled, RecordDisabled, SetHandlerState, TypeOK
      <3> QED
        BY <2>1, <3>2, Zenon DEF RecordOldDisabled, Goto, OnDisk, Replacing, Updating
    <2>2. CASE RecordAllDisabled
      <3>1. \A v \in Versions : v # ver => hstate'[v] = hstate[v]
        BY <2>2, Zenon DEF RecordAllDisabled, RecordDisabled, SetHandlerState, TypeOK
      <3> QED
        BY <2>2, <3>1, Zenon DEF RecordAllDisabled, Goto, OnDisk, Replacing, Updating, InstalledVersions
    <2> QED
      BY <1>12, <2>1, <2>2, Zenon
  <1>13. CASE Crash
    BY <1>13, Zenon DEF Crash, Recording, ClearOperation, TypeOK, Tracking, OnDisk, Replacing, Updating, InstalledVersions,
      IsInstalled, IsMultiConfigOp, disk
  <1>14. CASE EnableNewVersion
    BY <1>14, Zenon DEF EnableNewVersion, SetHandlerState, Goto, TypeOK, Tracking, OnDisk, Replacing, Updating,
      InstalledVersions, IsInstalled, IsMultiConfigOp, disk
  <1>15. CASE SetupNewHandlerFails
    BY <1>15, Zenon DEF SetupNewHandlerFails, FinishWithError, Finish, ClearOperation, SetHandlerStatus,
      SetHandlerState, TypeOK, Tracking, OnDisk, Replacing, Updating, InstalledVersions, IsInstalled,
      IsMultiConfigOp, disk
  <1>16. CASE Install
    BY <1>16, Zenon DEF Install, SetHandlerState, SetHandlerStatus, Goto, TypeOK, Tracking, OnDisk, Replacing,
      Updating, InstalledVersions, IsInstalled, IsMultiConfigOp, disk, op
  <1>31. CASE ReportInstalled
    BY <1>31, Zenon DEF ReportInstalled, SetHandlerStatus, Goto, TypeOK, Tracking, OnDisk, Replacing,
      Updating, InstalledVersions, IsInstalled, IsMultiConfigOp, disk, op
  <1>17. CASE StartUpdate
    BY <1>17, Zenon DEF StartUpdate, Goto, TypeOK, Tracking, OnDisk, Replacing, Updating, InstalledVersions,
      IsInstalled, IsMultiConfigOp, disk
  <1>18. CASE UpdateFails
    BY <1>18, Zenon DEF UpdateFails, FinishWithError, Finish, ClearOperation, SetHandlerStatus, SetHandlerState,
      Larger, TypeOK, Tracking, OnDisk, Replacing, Updating, InstalledVersions, IsInstalled, IsMultiConfigOp,
      disk
  <1>19. CASE RemoveOld
    BY <1>19, Zenon DEF RemoveOld, RemoveDirectory, SetHandlerState, SetHandlerStatus, Goto, TypeOK, Tracking,
      OnDisk, Replacing, Updating, InstalledVersions, IsInstalled, IsMultiConfigOp, disk, op
  <1>20. CASE MarkUpdated
    BY <1>20, Zenon DEF MarkUpdated, SetHandlerState, Goto, TypeOK, Tracking, OnDisk, Replacing, Updating,
      InstalledVersions, IsInstalled, IsMultiConfigOp, disk, op
  <1>21. CASE EnableExtension
    BY <1>21, Zenon DEF EnableExtension, IsMultiConfigOp, Goto, TypeOK, Tracking, OnDisk, Replacing, Updating,
      InstalledVersions, IsInstalled, disk, op
  <1>22. CASE RecordEnabled
    BY <1>22, Zenon DEF RecordEnabled, SetHandlerState, SetHandlerStatus, Finish, ClearOperation, TypeOK, Tracking,
      OnDisk, Replacing, Updating, InstalledVersions, IsInstalled, IsMultiConfigOp, disk
  <1>23. CASE DisableExtension
    BY <1>23 DEF DisableExtension, ForgetExtension, Goto, Finish, ClearOperation, TypeOK, Tracking, OnDisk,
      Replacing, Updating, InstalledVersions, IsInstalled, IsMultiConfigOp, disk, op
  <1>24. CASE HandleDisable
    BY <1>24 DEF HandleDisable, ForgetExtension, Goto, Finish, ClearOperation, TypeOK, Tracking, OnDisk,
      Replacing, Updating, InstalledVersions, IsInstalled, IsMultiConfigOp, disk, op
  <1>25. CASE RecordExtensionDisabled
    BY <1>25, Zenon DEF RecordExtensionDisabled, RecordDisabled, SetHandlerState, SetHandlerStatus, Finish,
      ClearOperation, TypeOK, Tracking, OnDisk, Replacing, Updating, InstalledVersions, IsInstalled,
      IsMultiConfigOp, disk
  <1>26. CASE HandleUninstall
    BY <1>26, Zenon DEF HandleUninstall, Goto, TypeOK, Tracking, OnDisk, Replacing, Updating, InstalledVersions,
      IsInstalled, IsMultiConfigOp, disk, op
  <1>27. CASE RemoveExtHandler
    BY <1>27, Zenon DEF RemoveExtHandler, RemoveDirectory, SetHandlerState, SetHandlerStatus, Finish, ClearOperation,
      TypeOK, Tracking, OnDisk, Replacing, Updating, InstalledVersions, IsInstalled, IsMultiConfigOp, disk
  <1>28. CASE FinishGoalState
    BY <1>28, Zenon DEF FinishGoalState, TypeOK, Tracking, OnDisk, Replacing, Updating, InstalledVersions,
      IsInstalled, IsMultiConfigOp, disk, op
  <1>29. CASE Quiescent
    BY <1>29, Zenon DEF Quiescent, vars, TypeOK, Tracking, OnDisk, Replacing, Updating, InstalledVersions,
      IsInstalled, IsMultiConfigOp, disk, op
  <1>30. CASE UNCHANGED vars
    BY <1>30, Zenon DEF vars, TypeOK, Tracking, OnDisk, Replacing, Updating, InstalledVersions, IsInstalled,
      IsMultiConfigOp, disk, op
  <1> QED
    BY <1>1, <1>2, <1>3, <1>4, <1>5, <1>6, <1>7, <1>8, <1>9, <1>10, <1>11, <1>12, <1>13,
       <1>14, <1>15, <1>16, <1>17, <1>18, <1>19, <1>20, <1>21, <1>22, <1>23, <1>24, <1>25,
       <1>26, <1>27, <1>28, <1>29, <1>30, <1>31, Zenon DEF Next, AgentNext

(* Every step that loses an installed version has one of the reasons. *)
LEMMA GivesUpStep ==
    ASSUME TypeOK, Tracking, Operation, OnDisk, [Next]_vars
    PROVE  GivesUpOnlyOnRequest
  <1> USE VersionsAssumption
  <1>1. CASE \E g \in GoalStates : NewGoalState(g)
    BY <1>1, Zenon DEF NewGoalState, StartGoalState, TypeOK, Operation, GivesUpOnlyOnRequest, IsInstalled, disk, op
  <1>2. CASE \E g \in GoalStates : Restart(g)
    BY <1>2, Zenon DEF Restart, StartGoalState, TypeOK, Operation, GivesUpOnlyOnRequest, IsInstalled, disk, op
  <1>3. CASE \E e \in Exts \cup {NoExt} : SkipExtension(e)
    BY <1>3, Zenon DEF SkipExtension, SetHandlerStatus, TypeOK, Operation, GivesUpOnlyOnRequest, IsInstalled, op
  <1>4. CASE \E e \in Exts \cup {NoExt} : HandleExtHandler(e)
    BY <1>4, Zenon DEF HandleExtHandler, TypeOK, Operation, GivesUpOnlyOnRequest, IsInstalled, disk
  <1>5. CASE \E e \in Exts \cup {NoExt} : HandleExtHandlerFails(e)
    BY <1>5, Zenon DEF HandleExtHandlerFails, SetHandlerStatus, TypeOK, Operation, GivesUpOnlyOnRequest, IsInstalled,
      op
  <1>6. CASE \E e \in Exts \cup {NoExt} : DisableOld(e)
    BY <1>6, Zenon DEF DisableOld, ForgetExtension, Goto, TypeOK, Operation, GivesUpOnlyOnRequest, IsInstalled
  <1>7. CASE \E e \in Exts \cup {NoExt} : DisableOldFails(e)
    BY <1>7, Zenon DEF DisableOldFails, FinishWithError, Finish, ClearOperation, SetHandlerStatus, TypeOK, Operation,
      GivesUpOnlyOnRequest, IsInstalled
  <1>8. CASE \E e \in Exts \cup {NoExt} : DisableAll(e)
    BY <1>8, Zenon DEF DisableAll, ForgetExtension, Goto, TypeOK, Operation, GivesUpOnlyOnRequest,
      IsInstalled
  <1>9. CASE PolicyRejects \/ EnableInstalledVersionFails \/ InstallFails \/
           CopyStatusFilesFails \/ HandleDisableFails \/ DisableAllFails
    BY <1>9, Zenon DEF PolicyRejects, FinishWithError, Finish, ClearOperation, SetHandlerStatus,
      EnableInstalledVersionFails, InstallFails, CopyStatusFilesFails, HandleDisableFails, DisableAllFails,
      TypeOK, Operation, GivesUpOnlyOnRequest, IsInstalled
  <1>10. CASE SetupNewHandler \/ CopyStatusFiles \/ Update \/ UninstallOld \/ Uninstall
           \/ EnableInstalledVersion
    BY <1>10, Zenon DEF SetupNewHandler, Goto, CopyStatusFiles, Update, UninstallOld, Uninstall,
      EnableInstalledVersion, TypeOK, Operation, GivesUpOnlyOnRequest, IsInstalled, disk, op
  <1>11. CASE UninstallOldFails \/ EnableExtensionFails
    BY <1>11, Zenon DEF UninstallOldFails, FinishWithError, Finish, ClearOperation, SetHandlerStatus,
      EnableExtensionFails, TypeOK, Operation, GivesUpOnlyOnRequest, IsInstalled, op
  <1>12. CASE RecordOldDisabled \/ RecordAllDisabled
    BY <1>12 DEF RecordOldDisabled, RecordDisabled, SetHandlerState, SetHandlerStatus, Goto,
      RecordAllDisabled, TypeOK, Operation, GivesUpOnlyOnRequest, IsInstalled, op
  <1>13. CASE Crash
    BY <1>13, Zenon DEF Crash, Recording, ClearOperation, TypeOK, Operation, GivesUpOnlyOnRequest, IsInstalled, disk
  <1>14. CASE EnableNewVersion
    BY <1>14, Zenon DEF EnableNewVersion, SetHandlerState, Goto, TypeOK, Operation, GivesUpOnlyOnRequest, IsInstalled
  <1>15. CASE SetupNewHandlerFails
    BY <1>15, Zenon DEF SetupNewHandlerFails, FinishWithError, Finish, ClearOperation, SetHandlerStatus,
      SetHandlerState, TypeOK, Operation, GivesUpOnlyOnRequest, IsInstalled
  <1>16. CASE Install
    BY <1>16, Zenon DEF Install, SetHandlerState, SetHandlerStatus, Goto, TypeOK, Operation, GivesUpOnlyOnRequest,
      IsInstalled, op
  <1>31. CASE ReportInstalled
    BY <1>31, Zenon DEF ReportInstalled, SetHandlerStatus, Goto, TypeOK, Operation, GivesUpOnlyOnRequest,
      IsInstalled, op
  <1>17. CASE StartUpdate
    BY <1>17, Zenon DEF StartUpdate, Goto, TypeOK, Operation, GivesUpOnlyOnRequest, IsInstalled, disk
  <1>18. CASE UpdateFails
    <2>1. /\ pc = "update" /\ hstate' = [hstate EXCEPT ![Larger(ver, old)] = "FailedUpgrade"]
      BY <1>18, Zenon DEF UpdateFails, SetHandlerState
    <2>2. /\ \A v \in Versions : IsInstalled(hstate[v]) => v = old
          /\ old \in Versions /\ ver \in Versions /\ ver # old
      BY <2>1, Zenon DEF Tracking, Updating, OnDisk, Replacing, InstalledVersions, TypeOK
    <2>3. \A v \in Versions : IsInstalled(hstate[v]) /\ ~IsInstalled(hstate'[v]) =>
             v = old /\ v = Larger(ver, old)
      BY <2>1, <2>2, Zenon DEF TypeOK
    <2>4. old = Larger(ver, old) => ver < old
      BY <2>2 DEF Larger
    <2> QED
      BY <2>1, <2>3, <2>4, Zenon DEF GivesUpOnlyOnRequest, FailedDowngrade
  <1>19. CASE RemoveOld
    BY <1>19, Zenon DEF RemoveOld, RemoveDirectory, SetHandlerState, SetHandlerStatus, Goto, TypeOK, Operation,
      GivesUpOnlyOnRequest, IsInstalled, disk, op
  <1>20. CASE MarkUpdated
    BY <1>20, Zenon DEF MarkUpdated, SetHandlerState, Goto, TypeOK, Operation, GivesUpOnlyOnRequest, IsInstalled, op
  <1>21. CASE EnableExtension
    BY <1>21, Zenon DEF EnableExtension, IsMultiConfigOp, Goto, TypeOK, Operation, GivesUpOnlyOnRequest, IsInstalled,
      op
  <1>22. CASE RecordEnabled
    BY <1>22, Zenon DEF RecordEnabled, SetHandlerState, SetHandlerStatus, Finish, ClearOperation, TypeOK,
      Operation, GivesUpOnlyOnRequest, IsInstalled
  <1>23. CASE DisableExtension
    BY <1>23, Zenon DEF DisableExtension, ForgetExtension, Goto, Finish, ClearOperation, TypeOK, Operation,
      GivesUpOnlyOnRequest, IsInstalled, disk, op
  <1>24. CASE HandleDisable
    BY <1>24, Zenon DEF HandleDisable, ForgetExtension, Goto, Finish, ClearOperation, TypeOK, Operation,
      GivesUpOnlyOnRequest, IsInstalled, disk, op
  <1>25. CASE RecordExtensionDisabled
    BY <1>25, Zenon DEF RecordExtensionDisabled, RecordDisabled, SetHandlerState, SetHandlerStatus, Finish,
      ClearOperation, TypeOK, Operation, GivesUpOnlyOnRequest, IsInstalled
  <1>26. CASE HandleUninstall
    BY <1>26, Zenon DEF HandleUninstall, Goto, TypeOK, Operation, GivesUpOnlyOnRequest, IsInstalled, disk, op
  <1>27. CASE RemoveExtHandler
    BY <1>27, Zenon DEF RemoveExtHandler, RemoveDirectory, SetHandlerState, SetHandlerStatus, Finish, ClearOperation,
      TypeOK, Operation, GivesUpOnlyOnRequest, IsInstalled, disk
  <1>28. CASE FinishGoalState
    BY <1>28 DEF FinishGoalState, TypeOK, Operation, GivesUpOnlyOnRequest, IsInstalled, op
  <1>29. CASE Quiescent
    BY <1>29, Zenon DEF Quiescent, vars, TypeOK, Operation, GivesUpOnlyOnRequest, IsInstalled, disk, op
  <1>30. CASE UNCHANGED vars
    BY <1>30, Zenon DEF vars, TypeOK, Operation, GivesUpOnlyOnRequest, IsInstalled, disk, op
  <1> QED
    BY <1>1, <1>2, <1>3, <1>4, <1>5, <1>6, <1>7, <1>8, <1>9, <1>10, <1>11, <1>12, <1>13,
       <1>14, <1>15, <1>16, <1>17, <1>18, <1>19, <1>20, <1>21, <1>22, <1>23, <1>24, <1>25,
       <1>26, <1>27, <1>28, <1>29, <1>30, <1>31, Zenon DEF Next, AgentNext

(* The agent loses an installed version only on request, after the update   *)
(* to its replacement succeeded, or in a downgrade whose update command     *)
(* failed (handle_enable, update), for every set of versions and any number *)
(* of failures and deaths of the agent, if directories can be deleted.      *)
THEOREM KeepsWorkingVersionHolds ==
    ASSUME ~RemoveMayFail
    PROVE  Spec => KeepsWorkingVersion
  <1> DEFINE Inv == IInv /\ Locals /\ OnDisk
  <1>1. Init => Inv
    <2> SUFFICES ASSUME Init PROVE Inv
      BY Zenon
    <2>1. gs.request = "absent" /\ todo = {} /\ pc = "idle"
      BY Zenon DEF Init
    <2>2. IInv /\ ItemsOf(gs) = {}
      BY <2>1, InitIInv, Zenon DEF ItemsOf
    <2> QED
      BY <2>1, <2>2, Zenon DEF Locals, OnDisk, Replacing, Updating
  <1>2. Inv /\ [Next]_vars => Inv'
    <2> SUFFICES ASSUME Inv, [Next]_vars PROVE Inv'
      BY Zenon
    <2>1. IInv'
      BY TypeStep, TrackingStep, OperationStep, CheckedStep, Zenon DEF IInv
    <2>2. Locals' /\ OnDisk'
      BY LocalsStep, OnDiskStep, Zenon DEF IInv
    <2> QED
      BY <2>1, <2>2, Zenon
  <1>3. Inv /\ [Next]_vars => [GivesUpOnlyOnRequest]_vars
    BY GivesUpStep, Zenon DEF IInv
  <1> QED
    BY <1>1, <1>2, <1>3, PTL DEF Spec, KeepsWorkingVersion

(* The extension being processed is one of the goal state, or there is none. *)
LEMMA ExtIsAnItem ==
    ASSUME TypeOK, Locals, pc \notin {"idle", "down", "next"}
    PROVE  /\ ext = NoExt <=> gs.listed = {}
           /\ ext # NoExt => ext \in gs.listed
           /\ ext # NoExt /\ ~SupportsMC => ext \in gs.on
           /\ ItemsOf(gs) = IF gs.listed = {} THEN {NoExt} ELSE gs.listed
  <1>1. ext \in ItemsOf(gs) /\ gs.listed \subseteq Exts
    BY GoalStateFields, Zenon DEF TypeOK, Locals
  <1>2. ~SupportsMC => gs.on = gs.listed
    BY Zenon DEF TypeOK, GoalStates
  <1> QED
    BY <1>1, <1>2, ExtsAssumption, Zenon DEF ItemsOf

(* Every step keeps what the items of a goal state that enables have left. *)
LEMMA EnabledStep ==
    ASSUME ~RemoveMayFail, TypeOK, OneInstalledVersion, Tracking, Operation, Locals, OnDisk, Progress,
           [Next]_vars, (SomeItemDone /\ ~failed /\ gs.request = "enabled")'
    PROVE  EnabledSoFar'
  <1>1. CASE \E g \in GoalStates : NewGoalState(g)
    BY <1>1, ZenonT(60) DEF NewGoalState, StartGoalState, TypeOK, Tracking, Operation, Locals, OnDisk, Replacing,
      Updating, Progress, SomeItemDone, InstalledVersions, IsInstalled, disk, op, EnabledSoFar,
      IsMultiConfigOp
  <1>2. CASE \E g \in GoalStates : Restart(g)
    BY <1>2, Zenon DEF Restart, StartGoalState, TypeOK, Tracking, Operation, Locals, OnDisk, Replacing, Updating,
      Progress, SomeItemDone, InstalledVersions, IsInstalled, disk, op, EnabledSoFar, IsMultiConfigOp
  <1>3. CASE \E e \in Exts \cup {NoExt} : SkipExtension(e)
    BY <1>3, ZenonT(60) DEF SkipExtension, SetHandlerStatus, TypeOK, Tracking, Operation, Locals, OnDisk, Replacing,
      Updating, Progress, SomeItemDone, InstalledVersions, IsInstalled, op, EnabledSoFar, IsMultiConfigOp
  <1>4. CASE \E e \in Exts \cup {NoExt} : HandleExtHandler(e)
    BY <1>4 DEF HandleExtHandler, TypeOK, Tracking, Operation, Locals, OnDisk, Replacing, Updating, Progress,
      SomeItemDone, InstalledVersions, IsInstalled, disk, EnabledSoFar, IsMultiConfigOp
  <1>5. CASE \E e \in Exts \cup {NoExt} : HandleExtHandlerFails(e)
    BY <1>5, ZenonT(60) DEF HandleExtHandlerFails, SetHandlerStatus, TypeOK, Tracking, Operation, Locals, OnDisk,
      Replacing, Updating, Progress, SomeItemDone, InstalledVersions, IsInstalled, op, EnabledSoFar,
      IsMultiConfigOp
  <1>6. CASE \E e \in Exts \cup {NoExt} : DisableOld(e)
    BY <1>6 DEF DisableOld, ForgetExtension, Goto, TypeOK, Tracking, Operation, Locals, OnDisk, Replacing,
      Updating, Progress, SomeItemDone, InstalledVersions, IsInstalled, EnabledSoFar, IsMultiConfigOp
  <1>7. CASE \E e \in Exts \cup {NoExt} : DisableOldFails(e)
    BY <1>7, Zenon DEF DisableOldFails, FinishWithError, Finish, ClearOperation, SetHandlerStatus, TypeOK, Tracking,
      Operation, Locals, OnDisk, Replacing, Updating, Progress, SomeItemDone, InstalledVersions, IsInstalled,
      EnabledSoFar, IsMultiConfigOp
  <1>8. CASE \E e \in Exts \cup {NoExt} : DisableAll(e)
    BY <1>8, Zenon DEF DisableAll, ForgetExtension, Goto, TypeOK, Tracking, Operation, Locals, OnDisk, Replacing,
      Updating, Progress, SomeItemDone, InstalledVersions, IsInstalled, EnabledSoFar, IsMultiConfigOp
  <1>9. CASE PolicyRejects \/ EnableInstalledVersionFails \/ InstallFails \/
           CopyStatusFilesFails \/ HandleDisableFails \/ DisableAllFails
    BY <1>9, ZenonT(60) DEF PolicyRejects, FinishWithError, Finish, ClearOperation, SetHandlerStatus,
      EnableInstalledVersionFails, InstallFails, CopyStatusFilesFails, HandleDisableFails, DisableAllFails,
      TypeOK, Tracking, Operation, Locals, OnDisk, Replacing, Updating, Progress, SomeItemDone,
      InstalledVersions, IsInstalled, EnabledSoFar, IsMultiConfigOp
  <1>10. CASE SetupNewHandler \/ CopyStatusFiles \/ Update \/ UninstallOld \/ Uninstall
           \/ EnableInstalledVersion
    BY <1>10 DEF SetupNewHandler, Goto, CopyStatusFiles, Update, UninstallOld, Uninstall,
      EnableInstalledVersion, TypeOK, Tracking, Operation, Locals, OnDisk, Replacing, Updating, Progress,
      SomeItemDone, InstalledVersions, IsInstalled, disk, op, EnabledSoFar, IsMultiConfigOp
  <1>11. CASE UninstallOldFails \/ EnableExtensionFails
    BY <1>11, ZenonT(60) DEF UninstallOldFails, FinishWithError, Finish, ClearOperation, SetHandlerStatus,
      EnableExtensionFails, TypeOK, Tracking, Operation, Locals, OnDisk, Replacing, Updating, Progress,
      SomeItemDone, InstalledVersions, IsInstalled, op, EnabledSoFar, IsMultiConfigOp
  <1>12. CASE RecordOldDisabled \/ RecordAllDisabled
    BY <1>12, ZenonT(60) DEF RecordOldDisabled, RecordDisabled, SetHandlerState, SetHandlerStatus, Goto,
      RecordAllDisabled, TypeOK, Tracking, Operation, Locals, OnDisk, Replacing, Updating, Progress,
      SomeItemDone, InstalledVersions, IsInstalled, op, EnabledSoFar, IsMultiConfigOp, EnabledExtensions
  <1>13. CASE Crash
    BY <1>13, Zenon DEF Crash, Recording, ClearOperation, TypeOK, Tracking, Operation, Locals, OnDisk, Replacing, Updating,
      Progress, SomeItemDone, InstalledVersions, IsInstalled, disk, EnabledSoFar, IsMultiConfigOp
  <1>14. CASE EnableNewVersion
    BY <1>14 DEF EnableNewVersion, SetHandlerState, Goto, TypeOK, Tracking, Operation, Locals, OnDisk,
      Replacing, Updating, Progress, SomeItemDone, InstalledVersions, IsInstalled, EnabledSoFar,
      IsMultiConfigOp
  <1>15. CASE SetupNewHandlerFails
    BY <1>15, Zenon DEF SetupNewHandlerFails, FinishWithError, Finish, ClearOperation, SetHandlerStatus,
      SetHandlerState, TypeOK, Tracking, Operation, Locals, OnDisk, Replacing, Updating, Progress,
      SomeItemDone, InstalledVersions, IsInstalled, EnabledSoFar, IsMultiConfigOp
  <1>16. CASE Install
    BY <1>16, ZenonT(60) DEF Install, SetHandlerState, SetHandlerStatus, Goto, TypeOK, Tracking, Operation, Locals,
      OnDisk, Replacing, Updating, Progress, SomeItemDone, InstalledVersions, IsInstalled, op, EnabledSoFar,
      IsMultiConfigOp
  <1>31. CASE ReportInstalled
    BY <1>31, ZenonT(60) DEF ReportInstalled, SetHandlerStatus, Goto, TypeOK, Tracking, Operation, Locals,
      OnDisk, Replacing, Updating, Progress, SomeItemDone, InstalledVersions, IsInstalled, op, EnabledSoFar,
      IsMultiConfigOp
  <1>17. CASE StartUpdate
    BY <1>17, ZenonT(60) DEF StartUpdate, Goto, TypeOK, Tracking, Operation, Locals, OnDisk, Replacing, Updating,
      Progress, SomeItemDone, InstalledVersions, IsInstalled, disk, EnabledSoFar, IsMultiConfigOp
  <1>18. CASE UpdateFails
    BY <1>18, ZenonT(60) DEF UpdateFails, FinishWithError, Finish, ClearOperation, SetHandlerStatus, SetHandlerState,
      Larger, TypeOK, Tracking, Operation, Locals, OnDisk, Replacing, Updating, Progress, SomeItemDone,
      InstalledVersions, IsInstalled, EnabledSoFar, IsMultiConfigOp
  <1>19. CASE RemoveOld
    BY <1>19, ZenonT(60) DEF RemoveOld, RemoveDirectory, SetHandlerState, SetHandlerStatus, Goto, TypeOK, Tracking,
      Operation, Locals, OnDisk, Replacing, Updating, Progress, SomeItemDone, InstalledVersions, IsInstalled,
      disk, op, EnabledSoFar, IsMultiConfigOp
  <1>20. CASE MarkUpdated
    BY <1>20, Zenon DEF MarkUpdated, SetHandlerState, Goto, TypeOK, Tracking, Operation, Locals, OnDisk, Replacing,
      Updating, Progress, SomeItemDone, InstalledVersions, IsInstalled, op, EnabledSoFar, IsMultiConfigOp
  <1>21. CASE EnableExtension
    BY <1>21 DEF EnableExtension, IsMultiConfigOp, Goto, TypeOK, Tracking, Operation, Locals, OnDisk,
      Replacing, Updating, Progress, SomeItemDone, InstalledVersions, IsInstalled, op, EnabledSoFar
  <1>22. CASE RecordEnabled
    <2>1. /\ UNCHANGED <<gs, ver, estate>> /\ todo' = todo \ {ext}
          /\ pc = "record_enabled" /\ hstate' = [hstate EXCEPT ![ver] = "Enabled"]
      BY <1>22, Zenon DEF RecordEnabled, SetHandlerState, Finish
    <2>2. /\ ver \in InstalledVersions /\ ver = gs.version /\ ver \in Versions
          /\ ext \in gs.on \cup {NoExt} /\ (IsMultiConfigOp(ext) => ext \in estate[ver])
      BY <2>1, ZenonT(60) DEF TypeOK, Tracking, Locals, OnDisk
    <2>3. InstalledVersions' = {gs.version} /\ hstate'[gs.version] = "Enabled"
      BY <2>1, <2>2, ZenonT(60) DEF TypeOK, OneInstalledVersion, InstalledVersions, IsInstalled
    <2>4. ASSUME SupportsMC, NEW e \in gs.listed \ todo'
          PROVE  e \in estate[gs.version] <=> e \in gs.on
      <3>1. CASE e = ext
        BY <2>2, <2>4, <3>1, ExtIsAnItem, <2>1, ExtsAssumption, GoalStateFields, Zenon DEF IsMultiConfigOp, TypeOK
      <3>2. CASE e # ext
        <4>1. e \notin todo /\ e \in ItemsOf(gs)
          BY <2>1, <2>4, <3>2, ExtIsAnItem, Zenon
        <4>2. EnabledSoFar
          BY <1>22, <2>1, <4>1, Zenon DEF Progress, SomeItemDone, RecordEnabled
        <4> QED
          BY <2>4, <4>1, <4>2, Zenon DEF EnabledSoFar
      <3> QED
        BY <3>1, <3>2, Zenon
    <2> QED
      BY <2>1, <2>3, <2>4, Zenon DEF EnabledSoFar
  <1>23. CASE DisableExtension
    <2>1. /\ UNCHANGED <<gs, ver, hstate, failed>> /\ pc = "extension" /\ todo' \subseteq todo
          /\ ext \notin gs.on \cup {NoExt}
          /\ \/ estate' = estate /\ ext \notin estate[ver] /\ todo' = todo \ {ext}
             \/ ForgetExtension(ver, ext) /\ todo' = todo /\ pc' # "down"
      BY <1>23, ZenonT(60) DEF DisableExtension, Finish, Goto, disk
    <2>2. /\ ver \in InstalledVersions /\ ver = gs.version /\ ver \in Versions
      BY <2>1, Zenon DEF TypeOK, Tracking, Locals
    <2>3. SupportsMC
      BY <2>1, ExtIsAnItem, Zenon
    <2>4. InstalledVersions' = {gs.version}
      BY <2>1, <2>2, Zenon DEF OneInstalledVersion, InstalledVersions
    <2>5. ext \in todo /\ \A x \in Exts \ {ext} : x \in estate'[ver] <=> x \in estate[ver]
      BY <2>1, <2>2 DEF ForgetExtension, TypeOK, Locals
    <2>6. ASSUME NEW e \in gs.listed \ todo'
          PROVE  /\ e \in estate'[gs.version] <=> e \in gs.on
                 /\ e \in gs.on => hstate'[gs.version] = "Enabled"
      <3>1. CASE e = ext
        BY <2>1, <2>2, <2>5, <2>6, <3>1, ZenonT(60)
      <3>2. CASE e # ext
        <4>1. e \notin todo /\ e \in ItemsOf(gs) /\ e \in Exts
          BY <2>1, <2>6, <3>2, ExtIsAnItem, GoalStateFields, ZenonT(60) DEF TypeOK
        <4>2. EnabledSoFar
          BY <2>1, <4>1, Zenon DEF Progress, SomeItemDone
        <4> QED
          BY <2>1, <2>2, <2>3, <2>5, <2>6, <3>2, <4>1, <4>2, Zenon DEF EnabledSoFar
      <3> QED
        BY <3>1, <3>2, Zenon
    <2> QED
      BY <2>1, <2>3, <2>4, <2>6, Zenon DEF EnabledSoFar
  <1>24. CASE HandleDisable
    BY <1>24, ZenonT(60) DEF HandleDisable, ForgetExtension, Goto, Finish, ClearOperation, TypeOK, Tracking, Operation,
      Locals, OnDisk, Replacing, Updating, Progress, SomeItemDone, InstalledVersions, IsInstalled, disk, op,
      EnabledSoFar, IsMultiConfigOp
  <1>25. CASE RecordExtensionDisabled
    <2>1. /\ UNCHANGED <<gs, ver, estate, failed>> /\ todo' = todo \ {ext}
          /\ pc = "record_disabled" /\ RecordDisabled(ver)
      BY <1>25, Zenon DEF RecordExtensionDisabled, Finish
    <2>2. /\ ver \in InstalledVersions /\ ver = gs.version /\ ver \in Versions
          /\ ext \notin gs.on \cup {NoExt}
      BY <2>1, Zenon DEF TypeOK, Tracking, Locals
    <2>3. SupportsMC /\ ext \notin estate[ver]
      BY <2>1, <2>2, ExtIsAnItem, Zenon DEF OnDisk, IsMultiConfigOp
    <2>4. InstalledVersions' = {gs.version}
      BY <2>1, <2>2 DEF RecordDisabled, SetHandlerState, TypeOK, OneInstalledVersion, InstalledVersions,
        IsInstalled
    <2>5. ASSUME NEW e \in gs.listed \ todo'
          PROVE  /\ e \in estate[gs.version] <=> e \in gs.on
                 /\ e \in gs.on => hstate'[gs.version] = "Enabled"
      <3>1. CASE e = ext
        BY <2>2, <2>3, <3>1, Zenon
      <3>2. CASE e # ext
        <4>1. e \notin todo /\ e \in ItemsOf(gs)
          BY <2>1, <2>5, <3>2, ExtIsAnItem, Zenon
        <4>2. EnabledSoFar
          BY <2>1, <4>1, Zenon DEF Progress, SomeItemDone
        <4>3. /\ e \in estate[gs.version] <=> e \in gs.on
              /\ e \in gs.on => hstate[gs.version] = "Enabled"
          BY <2>3, <2>5, <4>1, <4>2, Zenon DEF EnabledSoFar
        <4>4. e \in gs.on => UNCHANGED hstate
          BY <2>1, <2>2, <2>3, <2>5, <4>3, Zenon DEF RecordDisabled, EnabledExtensions
        <4> QED
          BY <4>3, <4>4, Zenon
      <3> QED
        BY <3>1, <3>2, Zenon
    <2> QED
      BY <2>1, <2>3, <2>4, <2>5, Zenon DEF EnabledSoFar
  <1>26. CASE HandleUninstall
    BY <1>26, ZenonT(60) DEF HandleUninstall, Goto, TypeOK, Tracking, Operation, Locals, OnDisk, Replacing, Updating,
      Progress, SomeItemDone, InstalledVersions, IsInstalled, disk, op, EnabledSoFar, IsMultiConfigOp,
      EnabledExtensions
  <1>27. CASE RemoveExtHandler
    BY <1>27, ZenonT(60) DEF RemoveExtHandler, RemoveDirectory, SetHandlerState, SetHandlerStatus, Finish, ClearOperation,
      TypeOK, Tracking, Operation, Locals, OnDisk, Replacing, Updating, Progress, SomeItemDone,
      InstalledVersions, IsInstalled, disk, EnabledSoFar, IsMultiConfigOp, EnabledExtensions
  <1>28. CASE FinishGoalState
    BY <1>28 DEF FinishGoalState, TypeOK, Tracking, Operation, Locals, OnDisk, Replacing, Updating, Progress,
      SomeItemDone, InstalledVersions, IsInstalled, disk, op, EnabledSoFar, IsMultiConfigOp, EnabledExtensions
  <1>29. CASE Quiescent
    BY <1>29, Zenon DEF Quiescent, vars, TypeOK, Tracking, Operation, Locals, OnDisk, Replacing, Updating, Progress,
      SomeItemDone, InstalledVersions, IsInstalled, disk, op, EnabledSoFar, IsMultiConfigOp, EnabledExtensions
  <1>30. CASE UNCHANGED vars
    BY <1>30, ZenonT(60) DEF vars, TypeOK, Tracking, Operation, Locals, OnDisk, Replacing, Updating, Progress,
      SomeItemDone, InstalledVersions, IsInstalled, disk, op, EnabledSoFar, IsMultiConfigOp, EnabledExtensions
  <1> QED
    BY <1>1, <1>2, <1>3, <1>4, <1>5, <1>6, <1>7, <1>8, <1>9, <1>10, <1>11, <1>12, <1>13,
       <1>14, <1>15, <1>16, <1>17, <1>18, <1>19, <1>20, <1>21, <1>22, <1>23, <1>24, <1>25,
       <1>26, <1>27, <1>28, <1>29, <1>30, <1>31, Zenon DEF Next, AgentNext

(* Every step keeps what the items of a goal state that disables have left. *)
LEMMA DisabledStep ==
    ASSUME ~RemoveMayFail, TypeOK, OneInstalledVersion, Tracking, Operation, Locals, OnDisk, Progress,
           [Next]_vars, (SomeItemDone /\ ~failed /\ gs.request = "disabled")'
    PROVE  DisabledSoFar'
  <1>1. CASE \E g \in GoalStates : NewGoalState(g)
    BY <1>1, ZenonT(60) DEF NewGoalState, StartGoalState, TypeOK, Tracking, Operation, Locals, OnDisk, Replacing,
      Updating, Progress, SomeItemDone, InstalledVersions, IsInstalled, disk, op, DisabledSoFar,
      IsMultiConfigOp
  <1>2. CASE \E g \in GoalStates : Restart(g)
    BY <1>2, Zenon DEF Restart, StartGoalState, TypeOK, Tracking, Operation, Locals, OnDisk, Replacing, Updating,
      Progress, SomeItemDone, InstalledVersions, IsInstalled, disk, op, DisabledSoFar, IsMultiConfigOp
  <1>3. CASE \E e \in Exts \cup {NoExt} : SkipExtension(e)
    BY <1>3, ZenonT(60) DEF SkipExtension, SetHandlerStatus, TypeOK, Tracking, Operation, Locals, OnDisk, Replacing,
      Updating, Progress, SomeItemDone, InstalledVersions, IsInstalled, op, DisabledSoFar, IsMultiConfigOp
  <1>4. CASE \E e \in Exts \cup {NoExt} : HandleExtHandler(e)
    BY <1>4 DEF HandleExtHandler, TypeOK, Tracking, Operation, Locals, OnDisk, Replacing, Updating, Progress,
      SomeItemDone, InstalledVersions, IsInstalled, disk, DisabledSoFar, IsMultiConfigOp
  <1>5. CASE \E e \in Exts \cup {NoExt} : HandleExtHandlerFails(e)
    BY <1>5, Zenon DEF HandleExtHandlerFails, SetHandlerStatus, TypeOK, Tracking, Operation, Locals, OnDisk,
      Replacing, Updating, Progress, SomeItemDone, InstalledVersions, IsInstalled, op, DisabledSoFar,
      IsMultiConfigOp
  <1>6. CASE \E e \in Exts \cup {NoExt} : DisableOld(e)
    BY <1>6, ZenonT(60) DEF DisableOld, ForgetExtension, Goto, TypeOK, Tracking, Operation, Locals, OnDisk, Replacing,
      Updating, Progress, SomeItemDone, InstalledVersions, IsInstalled, DisabledSoFar, IsMultiConfigOp
  <1>7. CASE \E e \in Exts \cup {NoExt} : DisableOldFails(e)
    BY <1>7, ZenonT(60) DEF DisableOldFails, FinishWithError, Finish, ClearOperation, SetHandlerStatus, TypeOK, Tracking,
      Operation, Locals, OnDisk, Replacing, Updating, Progress, SomeItemDone, InstalledVersions, IsInstalled,
      DisabledSoFar, IsMultiConfigOp
  <1>8. CASE \E e \in Exts \cup {NoExt} : DisableAll(e)
    BY <1>8, ZenonT(60) DEF DisableAll, ForgetExtension, Goto, TypeOK, Tracking, Operation, Locals, OnDisk, Replacing,
      Updating, Progress, SomeItemDone, InstalledVersions, IsInstalled, DisabledSoFar, IsMultiConfigOp
  <1>9. CASE PolicyRejects \/ EnableInstalledVersionFails \/ InstallFails \/
           CopyStatusFilesFails \/ HandleDisableFails \/ DisableAllFails
    BY <1>9, ZenonT(60) DEF PolicyRejects, FinishWithError, Finish, ClearOperation, SetHandlerStatus,
      EnableInstalledVersionFails, InstallFails, CopyStatusFilesFails, HandleDisableFails, DisableAllFails,
      TypeOK, Tracking, Operation, Locals, OnDisk, Replacing, Updating, Progress, SomeItemDone,
      InstalledVersions, IsInstalled, DisabledSoFar, IsMultiConfigOp
  <1>10. CASE SetupNewHandler \/ CopyStatusFiles \/ Update \/ UninstallOld \/ Uninstall
           \/ EnableInstalledVersion
    BY <1>10, ZenonT(60) DEF SetupNewHandler, Goto, CopyStatusFiles, Update, UninstallOld, Uninstall,
      EnableInstalledVersion, TypeOK, Tracking, Operation, Locals, OnDisk, Replacing, Updating, Progress,
      SomeItemDone, InstalledVersions, IsInstalled, disk, op, DisabledSoFar, IsMultiConfigOp
  <1>11. CASE UninstallOldFails \/ EnableExtensionFails
    BY <1>11, Zenon DEF UninstallOldFails, FinishWithError, Finish, ClearOperation, SetHandlerStatus,
      EnableExtensionFails, TypeOK, Tracking, Operation, Locals, OnDisk, Replacing, Updating, Progress,
      SomeItemDone, InstalledVersions, IsInstalled, op, DisabledSoFar, IsMultiConfigOp
  <1>12. CASE RecordOldDisabled \/ RecordAllDisabled
    BY <1>12, Zenon DEF RecordOldDisabled, RecordDisabled, SetHandlerState, SetHandlerStatus, Goto,
      RecordAllDisabled, TypeOK, Tracking, Operation, Locals, OnDisk, Replacing, Updating, Progress,
      SomeItemDone, InstalledVersions, IsInstalled, op, DisabledSoFar, IsMultiConfigOp, EnabledExtensions
  <1>13. CASE Crash
    BY <1>13, Zenon DEF Crash, Recording, ClearOperation, TypeOK, Tracking, Operation, Locals, OnDisk, Replacing, Updating,
      Progress, SomeItemDone, InstalledVersions, IsInstalled, disk, DisabledSoFar, IsMultiConfigOp
  <1>14. CASE EnableNewVersion
    BY <1>14, Zenon DEF EnableNewVersion, SetHandlerState, Goto, TypeOK, Tracking, Operation, Locals, OnDisk,
      Replacing, Updating, Progress, SomeItemDone, InstalledVersions, IsInstalled, DisabledSoFar,
      IsMultiConfigOp
  <1>15. CASE SetupNewHandlerFails
    BY <1>15, Zenon DEF SetupNewHandlerFails, FinishWithError, Finish, ClearOperation, SetHandlerStatus,
      SetHandlerState, TypeOK, Tracking, Operation, Locals, OnDisk, Replacing, Updating, Progress,
      SomeItemDone, InstalledVersions, IsInstalled, DisabledSoFar, IsMultiConfigOp
  <1>16. CASE Install
    BY <1>16, ZenonT(60) DEF Install, SetHandlerState, SetHandlerStatus, Goto, TypeOK, Tracking, Operation, Locals,
      OnDisk, Replacing, Updating, Progress, SomeItemDone, InstalledVersions, IsInstalled, op, DisabledSoFar,
      IsMultiConfigOp
  <1>31. CASE ReportInstalled
    BY <1>31, ZenonT(60) DEF ReportInstalled, SetHandlerStatus, Goto, TypeOK, Tracking, Operation, Locals,
      OnDisk, Replacing, Updating, Progress, SomeItemDone, InstalledVersions, IsInstalled, op, DisabledSoFar,
      IsMultiConfigOp
  <1>17. CASE StartUpdate
    BY <1>17, ZenonT(60) DEF StartUpdate, Goto, TypeOK, Tracking, Operation, Locals, OnDisk, Replacing, Updating,
      Progress, SomeItemDone, InstalledVersions, IsInstalled, disk, DisabledSoFar, IsMultiConfigOp
  <1>18. CASE UpdateFails
    BY <1>18, ZenonT(60) DEF UpdateFails, FinishWithError, Finish, ClearOperation, SetHandlerStatus, SetHandlerState,
      Larger, TypeOK, Tracking, Operation, Locals, OnDisk, Replacing, Updating, Progress, SomeItemDone,
      InstalledVersions, IsInstalled, DisabledSoFar, IsMultiConfigOp
  <1>19. CASE RemoveOld
    BY <1>19, ZenonT(60) DEF RemoveOld, RemoveDirectory, SetHandlerState, SetHandlerStatus, Goto, TypeOK, Tracking,
      Operation, Locals, OnDisk, Replacing, Updating, Progress, SomeItemDone, InstalledVersions, IsInstalled,
      disk, op, DisabledSoFar, IsMultiConfigOp
  <1>20. CASE MarkUpdated
    BY <1>20, Zenon DEF MarkUpdated, SetHandlerState, Goto, TypeOK, Tracking, Operation, Locals, OnDisk, Replacing,
      Updating, Progress, SomeItemDone, InstalledVersions, IsInstalled, op, DisabledSoFar, IsMultiConfigOp
  <1>21. CASE EnableExtension
    BY <1>21, ZenonT(60) DEF EnableExtension, IsMultiConfigOp, Goto, TypeOK, Tracking, Operation, Locals, OnDisk,
      Replacing, Updating, Progress, SomeItemDone, InstalledVersions, IsInstalled, op, DisabledSoFar
  <1>22. CASE RecordEnabled
    BY <1>22, ZenonT(60) DEF RecordEnabled, SetHandlerState, SetHandlerStatus, Finish, ClearOperation, TypeOK, Tracking,
      Operation, Locals, OnDisk, Replacing, Updating, Progress, SomeItemDone, InstalledVersions, IsInstalled,
      DisabledSoFar, IsMultiConfigOp
  <1>23. CASE DisableExtension
    BY <1>23, ZenonT(60) DEF DisableExtension, ForgetExtension, Goto, Finish, ClearOperation, TypeOK, Tracking, Operation,
      Locals, OnDisk, Replacing, Updating, Progress, SomeItemDone, InstalledVersions, IsInstalled, disk, op,
      DisabledSoFar, IsMultiConfigOp
  <1>24. CASE HandleDisable
    BY <1>24 DEF HandleDisable, ForgetExtension, Goto, Finish, ClearOperation, TypeOK, Tracking, Operation,
      Locals, OnDisk, Replacing, Updating, Progress, SomeItemDone, InstalledVersions, IsInstalled, disk, op,
      DisabledSoFar, IsMultiConfigOp
  <1>25. CASE RecordExtensionDisabled
    <2>1. /\ UNCHANGED <<gs, ver, estate, failed>> /\ todo' = todo \ {ext}
          /\ pc = "record_disabled" /\ RecordDisabled(ver)
      BY <1>25, Zenon DEF RecordExtensionDisabled, Finish
    <2>2. SUFFICES ASSUME NEW v \in Versions, hstate'[v] = "Enabled"
                   PROVE  /\ SupportsMC
                          /\ gs.listed \cap estate[v] \subseteq todo \ {ext}
                          /\ gs.listed \cap estate[v] # {}
      BY <2>1, Zenon DEF DisabledSoFar
    <2>3. ver \in InstalledVersions /\ ver \in Versions
      BY <2>1, Zenon DEF TypeOK, Tracking
    <2>4. v = ver
      BY <2>1, <2>2, <2>3, Zenon DEF RecordDisabled, SetHandlerState, TypeOK, OneInstalledVersion, InstalledVersions,
        IsInstalled
    <2>5. SupportsMC /\ gs.listed \cap estate[ver] # {} /\ hstate[ver] = "Enabled"
      BY <2>1, <2>2, <2>3, <2>4, Zenon DEF RecordDisabled, SetHandlerState, EnabledExtensions, TypeOK
    <2>6. ext \notin estate[ver]
      BY <2>1, <2>5, ExtIsAnItem, Zenon DEF OnDisk, IsMultiConfigOp
    <2>7. gs.listed \cap estate[ver] \subseteq todo
      <3>1. CASE todo = ItemsOf(gs)
        BY <2>1, <2>5, <3>1, ExtIsAnItem, Zenon
      <3>2. CASE todo # ItemsOf(gs)
        <4>1. DisabledSoFar
          BY <2>1, <3>2, Zenon DEF Progress, SomeItemDone
        <4> QED
          BY <2>3, <2>5, <4>1, Zenon DEF DisabledSoFar
      <3> QED
        BY <3>1, <3>2, Zenon
    <2> QED
      BY <2>4, <2>5, <2>6, <2>7, Zenon
  <1>26. CASE HandleUninstall
    BY <1>26, ZenonT(60) DEF HandleUninstall, Goto, TypeOK, Tracking, Operation, Locals, OnDisk, Replacing, Updating,
      Progress, SomeItemDone, InstalledVersions, IsInstalled, disk, op, DisabledSoFar, IsMultiConfigOp,
      EnabledExtensions
  <1>27. CASE RemoveExtHandler
    BY <1>27, ZenonT(60) DEF RemoveExtHandler, RemoveDirectory, SetHandlerState, SetHandlerStatus, Finish, ClearOperation,
      TypeOK, Tracking, Operation, Locals, OnDisk, Replacing, Updating, Progress, SomeItemDone,
      InstalledVersions, IsInstalled, disk, DisabledSoFar, IsMultiConfigOp, EnabledExtensions
  <1>28. CASE FinishGoalState
    BY <1>28, ZenonT(60) DEF FinishGoalState, TypeOK, Tracking, Operation, Locals, OnDisk, Replacing, Updating, Progress,
      SomeItemDone, InstalledVersions, IsInstalled, op, DisabledSoFar, IsMultiConfigOp, EnabledExtensions
  <1>29. CASE Quiescent
    BY <1>29, ZenonT(60) DEF Quiescent, vars, TypeOK, Tracking, Operation, Locals, OnDisk, Replacing, Updating, Progress,
      SomeItemDone, InstalledVersions, IsInstalled, disk, op, DisabledSoFar, IsMultiConfigOp,
      EnabledExtensions
  <1>30. CASE UNCHANGED vars
    BY <1>30, ZenonT(60) DEF vars, TypeOK, Tracking, Operation, Locals, OnDisk, Replacing, Updating, Progress,
      SomeItemDone, InstalledVersions, IsInstalled, disk, op, DisabledSoFar, IsMultiConfigOp,
      EnabledExtensions
  <1> QED
    BY <1>1, <1>2, <1>3, <1>4, <1>5, <1>6, <1>7, <1>8, <1>9, <1>10, <1>11, <1>12, <1>13,
       <1>14, <1>15, <1>16, <1>17, <1>18, <1>19, <1>20, <1>21, <1>22, <1>23, <1>24, <1>25,
       <1>26, <1>27, <1>28, <1>29, <1>30, <1>31, Zenon DEF Next, AgentNext

(* Every step keeps what the items of a goal state that uninstalls have left. *)
LEMMA UninstalledStep ==
    ASSUME ~RemoveMayFail, TypeOK, OneInstalledVersion, Tracking, Operation, Locals, OnDisk, Progress,
           [Next]_vars, (SomeItemDone /\ ~failed /\ gs.request = "uninstall")'
    PROVE  InstalledVersions' = {}
  <1>1. CASE \E g \in GoalStates : NewGoalState(g)
    BY <1>1, ZenonT(60) DEF NewGoalState, StartGoalState, TypeOK, Tracking, Operation, Locals, OnDisk, Replacing,
      Updating, Progress, SomeItemDone, InstalledVersions, IsInstalled, disk, op
  <1>2. CASE \E g \in GoalStates : Restart(g)
    BY <1>2, ZenonT(60) DEF Restart, StartGoalState, TypeOK, Tracking, Operation, Locals, OnDisk, Replacing, Updating,
      Progress, SomeItemDone, InstalledVersions, IsInstalled, disk, op
  <1>3. CASE \E e \in Exts \cup {NoExt} : SkipExtension(e)
    BY <1>3, ZenonT(60) DEF SkipExtension, SetHandlerStatus, TypeOK, Tracking, Operation, Locals, OnDisk, Replacing,
      Updating, Progress, SomeItemDone, InstalledVersions, IsInstalled, op
  <1>4. CASE \E e \in Exts \cup {NoExt} : HandleExtHandler(e)
    BY <1>4 DEF HandleExtHandler, TypeOK, Tracking, Operation, Locals, OnDisk, Replacing, Updating, Progress,
      SomeItemDone, InstalledVersions, IsInstalled, disk
  <1>5. CASE \E e \in Exts \cup {NoExt} : HandleExtHandlerFails(e)
    BY <1>5, Zenon DEF HandleExtHandlerFails, SetHandlerStatus, TypeOK, Tracking, Operation, Locals, OnDisk,
      Replacing, Updating, Progress, SomeItemDone, InstalledVersions, IsInstalled, op
  <1>6. CASE \E e \in Exts \cup {NoExt} : DisableOld(e)
    BY <1>6, ZenonT(60) DEF DisableOld, ForgetExtension, Goto, TypeOK, Tracking, Operation, Locals, OnDisk, Replacing,
      Updating, Progress, SomeItemDone, InstalledVersions, IsInstalled
  <1>7. CASE \E e \in Exts \cup {NoExt} : DisableOldFails(e)
    BY <1>7, ZenonT(60) DEF DisableOldFails, FinishWithError, Finish, ClearOperation, SetHandlerStatus, TypeOK, Tracking,
      Operation, Locals, OnDisk, Replacing, Updating, Progress, SomeItemDone, InstalledVersions, IsInstalled
  <1>8. CASE \E e \in Exts \cup {NoExt} : DisableAll(e)
    BY <1>8 DEF DisableAll, ForgetExtension, Goto, TypeOK, Tracking, Operation, Locals, OnDisk, Replacing,
      Updating, Progress, SomeItemDone, InstalledVersions, IsInstalled
  <1>9. CASE PolicyRejects \/ EnableInstalledVersionFails \/ InstallFails \/
           CopyStatusFilesFails \/ HandleDisableFails \/ DisableAllFails
    BY <1>9, Zenon DEF PolicyRejects, FinishWithError, Finish, ClearOperation, SetHandlerStatus,
      EnableInstalledVersionFails, InstallFails, CopyStatusFilesFails, HandleDisableFails, DisableAllFails,
      TypeOK, Tracking, Operation, Locals, OnDisk, Replacing, Updating, Progress, SomeItemDone,
      InstalledVersions, IsInstalled
  <1>10. CASE SetupNewHandler \/ CopyStatusFiles \/ Update \/ UninstallOld \/ Uninstall
           \/ EnableInstalledVersion
    BY <1>10, ZenonT(60) DEF SetupNewHandler, Goto, CopyStatusFiles, Update, UninstallOld, Uninstall,
      EnableInstalledVersion, TypeOK, Tracking, Operation, Locals, OnDisk, Replacing, Updating, Progress,
      SomeItemDone, InstalledVersions, IsInstalled, disk, op
  <1>11. CASE UninstallOldFails \/ EnableExtensionFails
    BY <1>11, ZenonT(60) DEF UninstallOldFails, FinishWithError, Finish, ClearOperation, SetHandlerStatus,
      EnableExtensionFails, TypeOK, Tracking, Operation, Locals, OnDisk, Replacing, Updating, Progress,
      SomeItemDone, InstalledVersions, IsInstalled, op
  <1>12. CASE RecordOldDisabled \/ RecordAllDisabled
    BY <1>12, ZenonT(60) DEF RecordOldDisabled, RecordDisabled, SetHandlerState, SetHandlerStatus, Goto,
      RecordAllDisabled, TypeOK, Tracking, Operation, Locals, OnDisk, Replacing, Updating, Progress,
      SomeItemDone, InstalledVersions, IsInstalled, op
  <1>13. CASE Crash
    BY <1>13, Zenon DEF Crash, Recording, ClearOperation, TypeOK, Tracking, Operation, Locals, OnDisk, Replacing, Updating,
      Progress, SomeItemDone, InstalledVersions, IsInstalled, disk
  <1>14. CASE EnableNewVersion
    BY <1>14, Zenon DEF EnableNewVersion, SetHandlerState, Goto, TypeOK, Tracking, Operation, Locals, OnDisk,
      Replacing, Updating, Progress, SomeItemDone, InstalledVersions, IsInstalled
  <1>15. CASE SetupNewHandlerFails
    BY <1>15, Zenon DEF SetupNewHandlerFails, FinishWithError, Finish, ClearOperation, SetHandlerStatus,
      SetHandlerState, TypeOK, Tracking, Operation, Locals, OnDisk, Replacing, Updating, Progress,
      SomeItemDone, InstalledVersions, IsInstalled
  <1>16. CASE Install
    BY <1>16, ZenonT(60) DEF Install, SetHandlerState, SetHandlerStatus, Goto, TypeOK, Tracking, Operation, Locals,
      OnDisk, Replacing, Updating, Progress, SomeItemDone, InstalledVersions, IsInstalled, op
  <1>31. CASE ReportInstalled
    BY <1>31, ZenonT(60) DEF ReportInstalled, SetHandlerStatus, Goto, TypeOK, Tracking, Operation, Locals,
      OnDisk, Replacing, Updating, Progress, SomeItemDone, InstalledVersions, IsInstalled, op
  <1>17. CASE StartUpdate
    BY <1>17, ZenonT(60) DEF StartUpdate, Goto, TypeOK, Tracking, Operation, Locals, OnDisk, Replacing, Updating,
      Progress, SomeItemDone, InstalledVersions, IsInstalled, disk
  <1>18. CASE UpdateFails
    BY <1>18, Zenon DEF UpdateFails, FinishWithError, Finish, ClearOperation, SetHandlerStatus, SetHandlerState,
      Larger, TypeOK, Tracking, Operation, Locals, OnDisk, Replacing, Updating, Progress, SomeItemDone,
      InstalledVersions, IsInstalled
  <1>19. CASE RemoveOld
    BY <1>19, ZenonT(60) DEF RemoveOld, RemoveDirectory, SetHandlerState, SetHandlerStatus, Goto, TypeOK, Tracking,
      Operation, Locals, OnDisk, Replacing, Updating, Progress, SomeItemDone, InstalledVersions, IsInstalled,
      disk, op
  <1>20. CASE MarkUpdated
    BY <1>20, ZenonT(60) DEF MarkUpdated, SetHandlerState, Goto, TypeOK, Tracking, Operation, Locals, OnDisk, Replacing,
      Updating, Progress, SomeItemDone, InstalledVersions, IsInstalled, op
  <1>21. CASE EnableExtension
    BY <1>21, Zenon DEF EnableExtension, IsMultiConfigOp, Goto, TypeOK, Tracking, Operation, Locals, OnDisk,
      Replacing, Updating, Progress, SomeItemDone, InstalledVersions, IsInstalled, op
  <1>22. CASE RecordEnabled
    BY <1>22, ZenonT(60) DEF RecordEnabled, SetHandlerState, SetHandlerStatus, Finish, ClearOperation, TypeOK, Tracking,
      Operation, Locals, OnDisk, Replacing, Updating, Progress, SomeItemDone, InstalledVersions, IsInstalled
  <1>23. CASE DisableExtension
    BY <1>23, ZenonT(60) DEF DisableExtension, ForgetExtension, Goto, Finish, ClearOperation, TypeOK, Tracking, Operation,
      Locals, OnDisk, Replacing, Updating, Progress, SomeItemDone, InstalledVersions, IsInstalled, disk, op
  <1>24. CASE HandleDisable
    BY <1>24, ZenonT(60) DEF HandleDisable, ForgetExtension, Goto, Finish, ClearOperation, TypeOK, Tracking, Operation,
      Locals, OnDisk, Replacing, Updating, Progress, SomeItemDone, InstalledVersions, IsInstalled, disk, op
  <1>25. CASE RecordExtensionDisabled
    BY <1>25, ZenonT(60) DEF RecordExtensionDisabled, RecordDisabled, SetHandlerState, SetHandlerStatus, Finish,
      ClearOperation, TypeOK, Tracking, Operation, Locals, OnDisk, Replacing, Updating, Progress,
      SomeItemDone, InstalledVersions, IsInstalled
  <1>26. CASE HandleUninstall
    BY <1>26, ZenonT(60) DEF HandleUninstall, Goto, TypeOK, Tracking, Operation, Locals, OnDisk, Replacing, Updating,
      Progress, SomeItemDone, InstalledVersions, IsInstalled, disk, op
  <1>27. CASE RemoveExtHandler
    BY <1>27, ZenonT(60) DEF RemoveExtHandler, RemoveDirectory, SetHandlerState, SetHandlerStatus, Finish, ClearOperation,
      TypeOK, Tracking, Operation, Locals, OnDisk, Replacing, Updating, Progress, SomeItemDone,
      InstalledVersions, IsInstalled, disk
  <1>28. CASE FinishGoalState
    BY <1>28, ZenonT(60) DEF FinishGoalState, TypeOK, Tracking, Operation, Locals, OnDisk, Replacing, Updating, Progress,
      SomeItemDone, InstalledVersions, IsInstalled, op
  <1>29. CASE Quiescent
    BY <1>29, ZenonT(60) DEF Quiescent, vars, TypeOK, Tracking, Operation, Locals, OnDisk, Replacing, Updating, Progress,
      SomeItemDone, InstalledVersions, IsInstalled, disk, op
  <1>30. CASE UNCHANGED vars
    BY <1>30, ZenonT(60) DEF vars, TypeOK, Tracking, Operation, Locals, OnDisk, Replacing, Updating, Progress,
      SomeItemDone, InstalledVersions, IsInstalled, disk, op
  <1> QED
    BY <1>1, <1>2, <1>3, <1>4, <1>5, <1>6, <1>7, <1>8, <1>9, <1>10, <1>11, <1>12, <1>13,
       <1>14, <1>15, <1>16, <1>17, <1>18, <1>19, <1>20, <1>21, <1>22, <1>23, <1>24, <1>25,
       <1>26, <1>27, <1>28, <1>29, <1>30, <1>31, Zenon DEF Next, AgentNext

(* The items of a goal state: none only if it does not name the handler. *)
LEMMA ItemsExist ==
    ASSUME TypeOK
    PROVE  /\ ItemsOf(gs) = {} <=> gs.request = "absent"
           /\ gs.request = "absent" => gs.listed = {}
           /\ gs.listed \subseteq ItemsOf(gs)
  BY Zenon DEF TypeOK, GoalStates, ItemsOf

(* At the end of a goal state without failures, what is left is what it     *)
(* asks for.                                                                *)
LEMMA ConvergedStep ==
    ASSUME ~RemoveMayFail, TypeOK, OneInstalledVersion, Tracking, Operation, Locals, OnDisk,
           Progress, ProcessedMeansConverged, [Next]_vars
    PROVE  ProcessedMeansConverged'
  <1> SUFFICES ASSUME (pc = "idle" /\ received > 0 /\ ~failed)' PROVE Converged'
    BY Zenon DEF ProcessedMeansConverged
  <1>1. CASE FinishGoalState
    <2>1. UNCHANGED <<gs, todo, failed>> /\ pc = "next" /\ todo = {}
      BY <1>1, Zenon DEF FinishGoalState
    <2>2. CASE gs.request = "absent"
      <3>1. hstate' = [v \in Versions |-> "none"]
        BY <1>1, <2>2, Zenon DEF FinishGoalState
      <3>2. InstalledVersions' = {}
        BY <3>1, Zenon DEF InstalledVersions, IsInstalled
      <3> QED
        BY <2>1, <2>2, <3>2, Zenon DEF Converged
    <2>3. CASE gs.request # "absent"
      <3>1. UNCHANGED <<hstate, estate>>
        BY <1>1, <2>3 DEF FinishGoalState, TypeOK
      <3>2. SomeItemDone
        BY <2>1, <2>3, ItemsExist, Zenon DEF SomeItemDone
      <3>3. CASE gs.request = "enabled"
        <4>1. EnabledSoFar
          BY <2>1, <3>2, <3>3, Zenon DEF Progress
        <4>2. gs.on \subseteq gs.listed
          BY Zenon DEF TypeOK, GoalStates
        <4>3. SupportsMC => /\ gs.listed \cap estate[gs.version] = gs.on
                            /\ gs.on # {} => hstate[gs.version] = "Enabled"
          BY <2>1, <4>1, <4>2, Zenon DEF EnabledSoFar
        <4> QED
          BY <2>1, <3>1, <3>3, <4>1, <4>3, Zenon DEF EnabledSoFar, Converged, InstalledVersions
      <3>4. CASE gs.request = "disabled"
        <4>1. DisabledSoFar
          BY <2>1, <3>2, <3>4, Zenon DEF Progress
        <4> QED
          BY <2>1, <3>1, <3>4, <4>1, Zenon DEF DisabledSoFar, Converged
      <3>5. CASE gs.request = "uninstall"
        <4>1. InstalledVersions = {}
          BY <2>1, <3>2, <3>5, Zenon DEF Progress
        <4> QED
          BY <2>1, <3>1, <3>5, <4>1, Zenon DEF Converged, InstalledVersions
      <3> QED
        BY <2>3, <3>3, <3>4, <3>5, GoalStateFields, Zenon DEF TypeOK
    <2> QED
      BY <2>2, <2>3, Zenon
  <1>2. CASE UNCHANGED vars
    BY <1>2, Zenon DEF vars, disk, op, ProcessedMeansConverged, Converged, InstalledVersions
  <1>3. CASE Next /\ ~FinishGoalState /\ ~UNCHANGED vars
    <2>1. pc' # "idle"
      BY <1>3, GoalStateFields, ZenonT(60) DEF Next, AgentNext, NewGoalState, StartGoalState, Restart, Crash, Quiescent,
        SkipExtension, HandleExtHandler, HandleExtHandlerFails, DisableOld, DisableOldFails, DisableAll,
        PolicyRejects, EnableNewVersion, SetupNewHandler, SetupNewHandlerFails, EnableInstalledVersion,
        EnableInstalledVersionFails, Install, ReportInstalled, InstallFails, StartUpdate, RecordOldDisabled, CopyStatusFiles,
        CopyStatusFilesFails, Update, UpdateFails, UninstallOld, UninstallOldFails, RemoveOld, MarkUpdated,
        EnableExtension, RecordEnabled, EnableExtensionFails, DisableExtension, HandleDisable,
        HandleDisableFails, RecordExtensionDisabled, HandleUninstall, RecordAllDisabled, DisableAllFails,
        Uninstall, RemoveExtHandler, FinishWithError, Finish, Goto, TypeOK
    <2> QED
      BY <2>1, Zenon
  <1> QED
    BY <1>1, <1>2, <1>3, Zenon

(* What an empty VM satisfies, and the steps keep. *)
ConvergenceInv == IInv /\ Locals /\ OnDisk /\ Progress /\ ProcessedMeansConverged

(* A goal state that was processed without a failure left on disk what it   *)
(* asks for (ExtHandlersHandler.run), for every set of versions and         *)
(* extensions, whatever earlier goal states, failed updates and deaths of   *)
(* the agent had left there, if directories can be deleted.                 *)
THEOREM ProcessedMeansConvergedHolds ==
    ASSUME ~RemoveMayFail
    PROVE  Spec => []ProcessedMeansConverged
  <1>1. Init => ConvergenceInv
    <2> SUFFICES ASSUME Init PROVE ConvergenceInv
      BY Zenon
    <2>1. gs.request = "absent" /\ todo = {} /\ pc = "idle" /\ received = 0
      BY Zenon DEF Init
    <2>2. IInv
      BY InitIInv, Zenon
    <2>3. ItemsOf(gs) = {}
      BY <2>1, Zenon DEF ItemsOf
    <2> QED
      BY <2>1, <2>2, <2>3 DEF ConvergenceInv, Locals, OnDisk, Replacing, Updating, Progress, SomeItemDone,
        ProcessedMeansConverged
  <1>2. ConvergenceInv /\ [Next]_vars => ConvergenceInv'
    <2> SUFFICES ASSUME ConvergenceInv, [Next]_vars PROVE ConvergenceInv'
      BY Zenon
    <2>1. IInv'
      BY TypeStep, TrackingStep, OperationStep, CheckedStep, Zenon DEF IInv, ConvergenceInv
    <2>2. Locals' /\ OnDisk'
      BY LocalsStep, OnDiskStep, Zenon DEF IInv, ConvergenceInv
    <2>3. Progress'
      BY EnabledStep, DisabledStep, UninstalledStep, Zenon DEF IInv, ConvergenceInv, Progress
    <2>4. ProcessedMeansConverged'
      BY ConvergedStep, Zenon DEF IInv, ConvergenceInv
    <2> QED
      BY <2>1, <2>2, <2>3, <2>4, Zenon DEF ConvergenceInv
  <1>3. ConvergenceInv => ProcessedMeansConverged
    BY Zenon DEF ConvergenceInv
  <1> QED
    BY <1>1, <1>2, <1>3, PTL DEF Spec

-----------------------------------------------------------------------------
(* The handler status. *)

(* There is one once an item of a single-config handler was processed. *)
StatusSoFar ==
    /\ pc = "idle" => todo = {}
    /\ SomeItemDone /\ gs.request = "enabled" => hstatus[ver] # "none"

(* Every step keeps the status that an item has left. *)
LEMMA StatusStep ==
    ASSUME ~RemoveMayFail, ~SupportsMC, TypeOK, OneInstalledVersion, Tracking, Operation, Locals, OnDisk,
           StatusSoFar, [Next]_vars
    PROVE  StatusSoFar'
  <1>1. CASE \E g \in GoalStates : NewGoalState(g)
    BY <1>1, ZenonT(60) DEF NewGoalState, StartGoalState, TypeOK, Tracking, Operation, Locals, OnDisk, Replacing,
      Updating, StatusSoFar, SomeItemDone, InstalledVersions, IsInstalled, IsMultiConfigOp, disk, op
  <1>2. CASE \E g \in GoalStates : Restart(g)
    BY <1>2, ZenonT(60) DEF Restart, StartGoalState, TypeOK, Tracking, Operation, Locals, OnDisk, Replacing, Updating,
      StatusSoFar, SomeItemDone, InstalledVersions, IsInstalled, IsMultiConfigOp, disk, op
  <1>3. CASE \E e \in Exts \cup {NoExt} : SkipExtension(e)
    BY <1>3, ZenonT(60) DEF SkipExtension, SetHandlerStatus, TypeOK, Tracking, Operation, Locals, OnDisk, Replacing,
      Updating, StatusSoFar, SomeItemDone, InstalledVersions, IsInstalled, IsMultiConfigOp, op
  <1>4. CASE \E e \in Exts \cup {NoExt} : HandleExtHandler(e)
    <2>1. PICK e \in Exts \cup {NoExt} : HandleExtHandler(e)
      BY <1>4, Zenon
    <2>2. pc = "next" /\ pc' \in {"enabled", "disabled", "uninstall"}
      BY <2>1, GoalStateFields, Zenon DEF HandleExtHandler, Operation, TypeOK
    <2>3. /\ UNCHANGED <<hstate, hstatus, gs, todo>>
          /\ gs.request = "enabled" => ver' = ver
      BY <2>1, Zenon DEF HandleExtHandler, DecideVersion, disk
    <2> QED
      BY <2>2, <2>3, Zenon DEF StatusSoFar, SomeItemDone, InstalledVersions
  <1>5. CASE \E e \in Exts \cup {NoExt} : HandleExtHandlerFails(e)
    BY <1>5, ZenonT(60) DEF HandleExtHandlerFails, SetHandlerStatus, TypeOK, Tracking, Operation, Locals, OnDisk,
      Replacing, Updating, StatusSoFar, SomeItemDone, InstalledVersions, IsInstalled, IsMultiConfigOp, disk,
      op
  <1>6. CASE \E e \in Exts \cup {NoExt} : DisableOld(e)
    BY <1>6, ZenonT(60) DEF DisableOld, ForgetExtension, Goto, TypeOK, Tracking, Operation, Locals, OnDisk, Replacing,
      Updating, StatusSoFar, SomeItemDone, InstalledVersions, IsInstalled, IsMultiConfigOp, disk
  <1>7. CASE \E e \in Exts \cup {NoExt} : DisableOldFails(e)
    BY <1>7, ZenonT(60) DEF DisableOldFails, FinishWithError, Finish, ClearOperation, SetHandlerStatus, TypeOK, Tracking,
      Operation, Locals, OnDisk, Replacing, Updating, StatusSoFar, SomeItemDone, InstalledVersions,
      IsInstalled, IsMultiConfigOp, disk
  <1>8. CASE \E e \in Exts \cup {NoExt} : DisableAll(e)
    BY <1>8, ZenonT(60) DEF DisableAll, ForgetExtension, Goto, TypeOK, Tracking, Operation, Locals, OnDisk, Replacing,
      Updating, StatusSoFar, SomeItemDone, InstalledVersions, IsInstalled, IsMultiConfigOp, disk
  <1>9. CASE PolicyRejects \/ EnableInstalledVersionFails \/ InstallFails \/
           CopyStatusFilesFails \/ HandleDisableFails \/ DisableAllFails
    BY <1>9, ZenonT(60) DEF PolicyRejects, FinishWithError, Finish, ClearOperation, SetHandlerStatus,
      EnableInstalledVersionFails, InstallFails, CopyStatusFilesFails, HandleDisableFails, DisableAllFails,
      TypeOK, Tracking, Operation, Locals, OnDisk, Replacing, Updating, StatusSoFar, SomeItemDone,
      InstalledVersions, IsInstalled, IsMultiConfigOp, disk
  <1>10. CASE SetupNewHandler \/ CopyStatusFiles \/ Update \/ UninstallOld \/ Uninstall
           \/ EnableInstalledVersion
    BY <1>10, ZenonT(60) DEF SetupNewHandler, Goto, CopyStatusFiles, Update, UninstallOld, Uninstall,
      EnableInstalledVersion, TypeOK, Tracking, Operation, Locals, OnDisk, Replacing, Updating, StatusSoFar,
      SomeItemDone, InstalledVersions, IsInstalled, IsMultiConfigOp, disk, op
  <1>11. CASE UninstallOldFails \/ EnableExtensionFails
    BY <1>11, ZenonT(60) DEF UninstallOldFails, FinishWithError, Finish, ClearOperation, SetHandlerStatus,
      EnableExtensionFails, TypeOK, Tracking, Operation, Locals, OnDisk, Replacing, Updating, StatusSoFar,
      SomeItemDone, InstalledVersions, IsInstalled, IsMultiConfigOp, disk, op
  <1>12. CASE RecordOldDisabled \/ RecordAllDisabled
    BY <1>12, ZenonT(60) DEF RecordOldDisabled, RecordDisabled, SetHandlerState, SetHandlerStatus, Goto,
      RecordAllDisabled, TypeOK, Tracking, Operation, Locals, OnDisk, Replacing, Updating, StatusSoFar,
      SomeItemDone, InstalledVersions, IsInstalled, IsMultiConfigOp, disk, op
  <1>13. CASE Crash
    BY <1>13, Zenon DEF Crash, Recording, ClearOperation, TypeOK, Tracking, Operation, Locals, OnDisk, Replacing, Updating,
      StatusSoFar, SomeItemDone, InstalledVersions, IsInstalled, IsMultiConfigOp, disk
  <1>14. CASE EnableNewVersion
    BY <1>14, ZenonT(60) DEF EnableNewVersion, SetHandlerState, Goto, TypeOK, Tracking, Operation, Locals, OnDisk,
      Replacing, Updating, StatusSoFar, SomeItemDone, InstalledVersions, IsInstalled, IsMultiConfigOp, disk
  <1>15. CASE SetupNewHandlerFails
    BY <1>15 DEF SetupNewHandlerFails, FinishWithError, Finish, ClearOperation, SetHandlerStatus,
      SetHandlerState, TypeOK, Tracking, Operation, Locals, OnDisk, Replacing, Updating, StatusSoFar,
      SomeItemDone, InstalledVersions, IsInstalled, IsMultiConfigOp, disk
  <1>16. CASE Install
    BY <1>16, Zenon DEF Install, SetHandlerState, SetHandlerStatus, Goto, TypeOK, Tracking, Operation, Locals,
      OnDisk, Replacing, Updating, StatusSoFar, SomeItemDone, InstalledVersions, IsInstalled, IsMultiConfigOp,
      disk, op
  <1>31. CASE ReportInstalled
    BY <1>31, Zenon DEF ReportInstalled, SetHandlerStatus, Goto, TypeOK, Tracking, Operation, Locals,
      OnDisk, Replacing, Updating, StatusSoFar, SomeItemDone, InstalledVersions, IsInstalled, IsMultiConfigOp,
      disk, op
  <1>17. CASE StartUpdate
    BY <1>17, ZenonT(60) DEF StartUpdate, Goto, TypeOK, Tracking, Operation, Locals, OnDisk, Replacing, Updating,
      StatusSoFar, SomeItemDone, InstalledVersions, IsInstalled, IsMultiConfigOp, disk
  <1>18. CASE UpdateFails
    BY <1>18, Zenon DEF UpdateFails, FinishWithError, Finish, ClearOperation, SetHandlerStatus, SetHandlerState,
      Larger, TypeOK, Tracking, Operation, Locals, OnDisk, Replacing, Updating, StatusSoFar, SomeItemDone,
      InstalledVersions, IsInstalled, IsMultiConfigOp, disk
  <1>19. CASE RemoveOld
    <2>1. old \in InstalledVersions /\ old # ver /\ old \in Versions
      BY <1>19, VersionsAssumption, Zenon DEF RemoveOld, OnDisk, Tracking, Replacing, Updating, InstalledVersions
    <2>2. /\ hstate' = [hstate EXCEPT ![old] = "none"]
          /\ hstatus' = [hstatus EXCEPT ![old] = "none"]
          /\ UNCHANGED <<gs, todo, ver>> /\ pc = "remove_old"
          /\ pc' = IF ver \in UpdateWithInstall THEN "install" ELSE "mark_updated"
      BY <1>19, Zenon DEF RemoveOld, RemoveDirectory, SetHandlerState, SetHandlerStatus, Goto
    <2>3. hstatus'[ver] = hstatus[ver]
      BY <2>1, <2>2, Zenon DEF TypeOK
    <2> QED
      BY <2>2, <2>3, Zenon DEF StatusSoFar, SomeItemDone
  <1>20. CASE MarkUpdated
    BY <1>20, Zenon DEF MarkUpdated, Goto, StatusSoFar, SomeItemDone
  <1>21. CASE EnableExtension
    BY <1>21, ZenonT(60) DEF EnableExtension, IsMultiConfigOp, Goto, TypeOK, Tracking, Operation, Locals, OnDisk,
      Replacing, Updating, StatusSoFar, SomeItemDone, InstalledVersions, IsInstalled, disk, op
  <1>22. CASE RecordEnabled
    BY <1>22, Zenon DEF RecordEnabled, SetHandlerState, SetHandlerStatus, Finish, ClearOperation, TypeOK, Tracking,
      Operation, Locals, OnDisk, Replacing, Updating, StatusSoFar, SomeItemDone, InstalledVersions,
      IsInstalled, IsMultiConfigOp, disk
  <1>23. CASE DisableExtension
    <2>1. pc = "extension" /\ ext \notin gs.on \cup {NoExt}
      BY <1>23, Zenon DEF DisableExtension
    <2> QED
      BY <2>1, ExtIsAnItem, Zenon
  <1>24. CASE HandleDisable
    BY <1>24, ZenonT(60) DEF HandleDisable, ForgetExtension, Goto, Finish, ClearOperation, TypeOK, Tracking, Operation,
      Locals, OnDisk, Replacing, Updating, StatusSoFar, SomeItemDone, InstalledVersions, IsInstalled,
      IsMultiConfigOp, disk, op
  <1>25. CASE RecordExtensionDisabled
    BY <1>25, ZenonT(60) DEF RecordExtensionDisabled, RecordDisabled, SetHandlerState, SetHandlerStatus, Finish,
      ClearOperation, TypeOK, Tracking, Operation, Locals, OnDisk, Replacing, Updating, StatusSoFar,
      SomeItemDone, InstalledVersions, IsInstalled, IsMultiConfigOp, disk
  <1>26. CASE HandleUninstall
    BY <1>26, ZenonT(60) DEF HandleUninstall, Goto, TypeOK, Tracking, Operation, Locals, OnDisk, Replacing, Updating,
      StatusSoFar, SomeItemDone, InstalledVersions, IsInstalled, IsMultiConfigOp, disk, op
  <1>27. CASE RemoveExtHandler
    BY <1>27, ZenonT(60) DEF RemoveExtHandler, RemoveDirectory, SetHandlerState, SetHandlerStatus, Finish, ClearOperation,
      TypeOK, Tracking, Operation, Locals, OnDisk, Replacing, Updating, StatusSoFar, SomeItemDone,
      InstalledVersions, IsInstalled, IsMultiConfigOp, disk
  <1>28. CASE FinishGoalState
    BY <1>28 DEF FinishGoalState, TypeOK, Tracking, Operation, Locals, OnDisk, Replacing, Updating,
      StatusSoFar, SomeItemDone, InstalledVersions, IsInstalled, IsMultiConfigOp, disk, op
  <1>29. CASE Quiescent
    BY <1>29, Zenon DEF Quiescent, vars, TypeOK, Tracking, Operation, Locals, OnDisk, Replacing, Updating,
      StatusSoFar, SomeItemDone, InstalledVersions, IsInstalled, IsMultiConfigOp, disk, op
  <1>30. CASE UNCHANGED vars
    BY <1>30, Zenon DEF vars, TypeOK, Tracking, Operation, Locals, OnDisk, Replacing, Updating, StatusSoFar,
      SomeItemDone, InstalledVersions, IsInstalled, IsMultiConfigOp, disk, op
  <1> QED
    BY <1>1, <1>2, <1>3, <1>4, <1>5, <1>6, <1>7, <1>8, <1>9, <1>10, <1>11, <1>12, <1>13,
       <1>14, <1>15, <1>16, <1>17, <1>18, <1>19, <1>20, <1>21, <1>22, <1>23, <1>24, <1>25,
       <1>26, <1>27, <1>28, <1>29, <1>30, <1>31, Zenon DEF Next, AgentNext

(* Once a goal state that enables the handler is processed, successfully or *)
(* not, there is a handler status to report (report_ext_handler_status),    *)
(* for every set of versions and any number of goal states and deaths of    *)
(* the agent, if directories can be deleted and the handler is              *)
(* single-config.                                                           *)
THEOREM HandlerStatusAvailableHolds ==
    ASSUME ~RemoveMayFail, ~SupportsMC
    PROVE  Spec => []HandlerStatusAvailable
  <1> DEFINE Inv == IInv /\ Locals /\ OnDisk /\ StatusSoFar
  <1>1. Init => Inv
    <2> SUFFICES ASSUME Init PROVE Inv
      BY Zenon
    <2>1. gs.request = "absent" /\ todo = {} /\ pc = "idle"
      BY Zenon DEF Init
    <2>2. IInv /\ ItemsOf(gs) = {}
      BY <2>1, InitIInv, Zenon DEF ItemsOf
    <2>3. InstalledVersions = {}
      BY Zenon DEF Init, InstalledVersions, IsInstalled
    <2> QED
      BY <2>1, <2>2, <2>3, Zenon DEF Locals, OnDisk, Replacing, Updating, StatusSoFar, SomeItemDone
  <1>2. Inv /\ [Next]_vars => Inv'
    <2> SUFFICES ASSUME Inv, [Next]_vars PROVE Inv'
      BY Zenon
    <2>1. IInv'
      BY TypeStep, TrackingStep, OperationStep, CheckedStep, Zenon DEF IInv
    <2>2. Locals' /\ OnDisk'
      BY LocalsStep, OnDiskStep, Zenon DEF IInv
    <2>3. StatusSoFar'
      BY StatusStep, Zenon DEF IInv
    <2> QED
      BY <2>1, <2>2, <2>3, Zenon
  <1>3. Inv => HandlerStatusAvailable
    BY ItemsExist, Zenon DEF IInv, StatusSoFar, SomeItemDone, HandlerStatusAvailable
  <1> QED
    BY <1>1, <1>2, <1>3, PTL DEF Spec

-----------------------------------------------------------------------------
(* The state of a multi-config handler follows that of its extensions. *)

(* What the files say of the versions of a multi-config handler that are    *)
(* not torn, if every goal state lists the same extensions.  The extension  *)
(* state is written before the handler state; a version is disabled before  *)
(* it is replaced.                                                          *)
StatesAgree ==
    /\ \A v \in Versions \ torn : ~IsInstalled(hstate[v]) => estate[v] = {}
    /\ \A v \in InstalledVersions \ torn :
          IF pc \in {"record_disabled", "record_old", "record_all"} THEN hstate[v] = "Enabled"
          ELSE IF pc = "record_enabled" THEN estate[v] # {}
          ELSE hstate[v] = "Enabled" <=> estate[v] # {}
    /\ pc \in {"disable_old", "record_old"} =>
          pending \subseteq estate[old] /\ (old \notin torn => estate[old] = pending)
    /\ pc \in {"disable_all", "record_all"} =>
          pending \subseteq estate[ver] /\ (ver \notin torn => estate[ver] = pending)
    /\ pc \in {"update", "uninstall_old", "remove_old"} /\ old \notin torn => estate[old] = {}

(* Every extension is in every goal state that names the handler. *)
LEMMA AllAreListed ==
    ASSUME SupportsMC, SettingsSets = {Exts}, Exts # {}, TypeOK
    PROVE  /\ gs.request # "absent" => gs.listed = Exts
           /\ gs.request # "absent" => ItemsOf(gs) = Exts
           /\ \A v \in Versions : gs.request # "absent" => EnabledExtensions(v) = estate[v]
           /\ \A v \in Versions : gs.request # "absent" => ExtensionsToDisable(v) = estate[v]
  <1>1. gs.request # "absent" => gs.listed = Exts
    BY Zenon DEF TypeOK, GoalStates
  <1>2. \A v \in Versions : estate[v] \subseteq Exts
    BY Zenon DEF TypeOK
  <1> QED
    BY <1>1, <1>2, Zenon DEF ItemsOf, EnabledExtensions, ExtensionsToDisable

(* disable leaves the handler Enabled exactly if an extension still is, if  *)
(* it was Enabled before or its state had not been written.                 *)
LEMMA RecordDisabledAgrees ==
    ASSUME SupportsMC, TypeOK, NEW v \in InstalledVersions, RecordDisabled(v),
           EnabledExtensions(v) = estate[v], v \notin torn => hstate[v] = "Enabled"
    PROVE  /\ InstalledVersions' = InstalledVersions
           /\ \A w \in Versions : ~IsInstalled(hstate'[w]) => ~IsInstalled(hstate[w])
           /\ v \notin torn' => (hstate'[v] = "Enabled" <=> estate[v] # {})
           /\ \A w \in torn : w # v => w \in torn'
           /\ estate[v] # {} => torn' = torn
  <1>1. v \in Versions /\ IsInstalled(hstate[v])
    BY Zenon DEF InstalledVersions
  <1>2. CASE estate[v] = {}
    <2>1. hstate' = [hstate EXCEPT ![v] = "Installed"] /\ torn' = torn \ {v}
      BY <1>2, Zenon DEF RecordDisabled, SetHandlerState
    <2>2. hstate'[v] = "Installed" /\ \A w \in Versions : w # v => hstate'[w] = hstate[w]
      BY <1>1, <2>1, Zenon DEF TypeOK
    <2> QED
      BY <1>1, <1>2, <2>1, <2>2, Zenon DEF InstalledVersions, IsInstalled
  <1>3. CASE estate[v] # {}
    <2>1. UNCHANGED <<hstate, torn>>
      BY <1>3, Zenon DEF RecordDisabled
    <2> QED
      BY <1>1, <1>3, <2>1, Zenon DEF InstalledVersions
  <1> QED
    BY <1>2, <1>3, Zenon

(* Every step keeps the agreement. *)
LEMMA StatesAgreeStep ==
    ASSUME SupportsMC, SettingsSets = {Exts}, Exts # {}, ~RemoveMayFail, TypeOK,
           OneInstalledVersion, Tracking, Operation, Locals, OnDisk, StatesAgree, [Next]_vars
    PROVE  StatesAgree'
  <1>1. CASE \E g \in GoalStates : NewGoalState(g)
    BY <1>1, AllAreListed, ExtsAssumption, ZenonT(60) DEF NewGoalState, StartGoalState, TypeOK, Tracking, Operation,
      Locals, OnDisk, Replacing, Updating, StatesAgree, InstalledVersions, IsInstalled, IsMultiConfigOp, disk,
      op
  <1>2. CASE \E g \in GoalStates : Restart(g)
    BY <1>2, AllAreListed, ExtsAssumption, ZenonT(60) DEF Restart, StartGoalState, TypeOK, Tracking, Operation, Locals,
      OnDisk, Replacing, Updating, StatesAgree, InstalledVersions, IsInstalled, IsMultiConfigOp, disk, op
  <1>3. CASE \E e \in Exts \cup {NoExt} : SkipExtension(e)
    BY <1>3, AllAreListed, ExtsAssumption, ZenonT(60) DEF SkipExtension, SetHandlerStatus, TypeOK, Tracking, Operation,
      Locals, OnDisk, Replacing, Updating, StatesAgree, InstalledVersions, IsInstalled, IsMultiConfigOp, op
  <1>4. CASE \E e \in Exts \cup {NoExt} : HandleExtHandler(e)
    <2>1. PICK e \in Exts \cup {NoExt} : HandleExtHandler(e)
      BY <1>4, Zenon
    <2>2. pc = "next" /\ pc' \in {"enabled", "disabled", "uninstall"}
      BY <2>1, GoalStateFields, Zenon DEF HandleExtHandler, Operation, TypeOK
    <2>3. UNCHANGED <<hstate, estate, torn>>
      BY <2>1, Zenon DEF HandleExtHandler, disk
    <2> QED
      BY <2>2, <2>3, Zenon DEF StatesAgree, InstalledVersions
  <1>5. CASE \E e \in Exts \cup {NoExt} : HandleExtHandlerFails(e)
    BY <1>5, AllAreListed, ExtsAssumption, ZenonT(60) DEF HandleExtHandlerFails, SetHandlerStatus, TypeOK, Tracking,
      Operation, Locals, OnDisk, Replacing, Updating, StatesAgree, InstalledVersions, IsInstalled,
      IsMultiConfigOp, disk, op
  <1>6. CASE \E e \in Exts \cup {NoExt} : DisableOld(e)
    <2>1. PICK e \in Exts \cup {NoExt} : DisableOld(e)
      BY <1>6, Zenon
    <2>2. /\ pc = "disable_old" /\ e \in pending /\ pending \subseteq estate[old]
          /\ old \notin torn => estate[old] = pending
      BY <2>1, Zenon DEF DisableOld, StatesAgree
    <2>3. old \in InstalledVersions /\ \A v \in InstalledVersions : v = old
      BY <2>2, VersionsAssumption, Zenon DEF Tracking, Updating
    <2>4. old \in Versions /\ e \in Exts
      BY <2>2, <2>3, Zenon DEF InstalledVersions, TypeOK
    <2>5. old \notin torn => hstate[old] = "Enabled"
      BY <2>2, <2>3, Zenon DEF StatesAgree
    <2>6. /\ estate' = [estate EXCEPT ![old] = @ \ {e}] /\ pending' = pending \ {e}
          /\ UNCHANGED <<hstate, torn, old, ver>> /\ pc' = "record_old"
      BY <2>1, <2>4, ExtsAssumption, Zenon DEF DisableOld, ForgetExtension, IsMultiConfigOp, Goto
    <2>7. InstalledVersions' = InstalledVersions
      BY <2>6, Zenon DEF InstalledVersions
    <2>8. /\ pending' \subseteq estate'[old] /\ (old \notin torn => estate'[old] = pending')
          /\ \A v \in Versions : estate[v] = {} => estate'[v] = {}
      BY <2>2, <2>4, <2>6, Zenon DEF TypeOK
    <2> QED
      BY <2>3, <2>5, <2>6, <2>7, <2>8, Zenon DEF StatesAgree
  <1>7. CASE \E e \in Exts \cup {NoExt} : DisableOldFails(e)
    BY <1>7, AllAreListed, ExtsAssumption, ZenonT(60) DEF DisableOldFails, FinishWithError, Finish, ClearOperation,
      SetHandlerStatus, TypeOK, Tracking, Operation, Locals, OnDisk, Replacing, Updating, StatesAgree,
      InstalledVersions, IsInstalled, IsMultiConfigOp, disk
  <1>8. CASE \E e \in Exts \cup {NoExt} : DisableAll(e)
    <2>1. PICK e \in Exts \cup {NoExt} : DisableAll(e)
      BY <1>8, Zenon
    <2>2. /\ pc = "disable_all" /\ e \in pending /\ pending \subseteq estate[ver]
          /\ ver \notin torn => estate[ver] = pending
      BY <2>1, Zenon DEF DisableAll, StatesAgree
    <2>3. ver \in InstalledVersions /\ \A v \in InstalledVersions : v = ver
      BY <2>2, Zenon DEF Tracking, OnDisk
    <2>4. ver \in Versions /\ e \in Exts
      BY <2>2, <2>3, Zenon DEF InstalledVersions, TypeOK
    <2>5. ver \notin torn => hstate[ver] = "Enabled"
      BY <2>2, <2>3, Zenon DEF StatesAgree
    <2>6. /\ estate' = [estate EXCEPT ![ver] = @ \ {e}] /\ pending' = pending \ {e}
          /\ UNCHANGED <<hstate, torn, old, ver>> /\ pc' = "record_all"
      BY <2>1, <2>4, ExtsAssumption, Zenon DEF DisableAll, ForgetExtension, IsMultiConfigOp, Goto
    <2>7. InstalledVersions' = InstalledVersions
      BY <2>6, Zenon DEF InstalledVersions
    <2>8. /\ pending' \subseteq estate'[ver] /\ (ver \notin torn => estate'[ver] = pending')
          /\ \A v \in Versions : estate[v] = {} => estate'[v] = {}
      BY <2>2, <2>4, <2>6, Zenon DEF TypeOK
    <2> QED
      BY <2>3, <2>5, <2>6, <2>7, <2>8, Zenon DEF StatesAgree
  <1>9. CASE PolicyRejects \/ EnableInstalledVersionFails \/ InstallFails \/
           CopyStatusFilesFails \/ HandleDisableFails \/ DisableAllFails
    BY <1>9, AllAreListed, ExtsAssumption, ZenonT(60) DEF PolicyRejects, FinishWithError, Finish, ClearOperation,
      SetHandlerStatus, EnableInstalledVersionFails, InstallFails, CopyStatusFilesFails, HandleDisableFails,
      DisableAllFails, TypeOK, Tracking, Operation, Locals, OnDisk, Replacing, Updating, StatesAgree,
      InstalledVersions, IsInstalled, IsMultiConfigOp, disk
  <1>10. CASE SetupNewHandler \/ CopyStatusFiles \/ Update \/ UninstallOld \/ Uninstall
           \/ EnableInstalledVersion
    BY <1>10, AllAreListed, ExtsAssumption, ZenonT(60) DEF SetupNewHandler, Goto, CopyStatusFiles, Update, UninstallOld,
      Uninstall, EnableInstalledVersion, TypeOK, Tracking, Operation, Locals, OnDisk, Replacing, Updating,
      StatesAgree, InstalledVersions, IsInstalled, IsMultiConfigOp, disk, op
  <1>11. CASE UninstallOldFails \/ EnableExtensionFails
    BY <1>11, AllAreListed, ExtsAssumption, ZenonT(60) DEF UninstallOldFails, FinishWithError, Finish, ClearOperation,
      SetHandlerStatus, EnableExtensionFails, TypeOK, Tracking, Operation, Locals, OnDisk, Replacing,
      Updating, StatesAgree, InstalledVersions, IsInstalled, IsMultiConfigOp, disk, op
  <1>12. CASE RecordOldDisabled
    <2>1. pc = "record_old" /\ old \in InstalledVersions /\ gs.request # "absent"
      BY <1>12, VersionsAssumption, Zenon DEF RecordOldDisabled, Tracking, Updating, Locals, Replacing
    <2>2. EnabledExtensions(old) = estate[old] /\ old \in Versions
      BY <2>1, AllAreListed, Zenon DEF TypeOK, InstalledVersions
    <2>3. old \notin torn => hstate[old] = "Enabled"
      BY <2>1, Zenon DEF StatesAgree
    <2>4. /\ RecordDisabled(old) /\ UNCHANGED estate /\ pc' = "disable_old"
          /\ UNCHANGED <<old, ver, pending>>
      BY <1>12, Zenon DEF RecordOldDisabled, Goto, op
    <2>5. /\ InstalledVersions' = InstalledVersions
          /\ \A w \in Versions : ~IsInstalled(hstate'[w]) => ~IsInstalled(hstate[w])
          /\ old \notin torn' => (hstate'[old] = "Enabled" <=> estate[old] # {})
          /\ \A w \in torn : w # old => w \in torn'
          /\ estate[old] # {} => torn' = torn
      BY <2>1, <2>2, <2>3, <2>4, RecordDisabledAgrees, Zenon
    <2>6. \A w \in InstalledVersions : w = old
      BY <2>1, Zenon DEF OneInstalledVersion
    <2>7. \A w \in Versions \ torn' : ~IsInstalled(hstate'[w]) => estate[w] = {}
      BY <2>1, <2>5, Zenon DEF StatesAgree, InstalledVersions
    <2>8. pending \subseteq estate[old] /\ (old \notin torn' => estate[old] = pending)
      <3>1. pending \subseteq estate[old] /\ (old \notin torn => estate[old] = pending)
        BY <2>1, Zenon DEF StatesAgree
      <3> QED
        BY <2>5, <3>1, Zenon
    <2> QED
      BY <2>4, <2>5, <2>6, <2>7, <2>8, Zenon DEF StatesAgree
  <1>32. CASE RecordAllDisabled
    <2>1. pc = "record_all" /\ ver \in InstalledVersions /\ gs.request # "absent"
      BY <1>32, Zenon DEF RecordAllDisabled, Tracking, Operation
    <2>2. EnabledExtensions(ver) = estate[ver] /\ ver \in Versions
      BY <2>1, AllAreListed, Zenon DEF TypeOK, InstalledVersions
    <2>3. ver \notin torn => hstate[ver] = "Enabled"
      BY <2>1, Zenon DEF StatesAgree
    <2>4. /\ RecordDisabled(ver) /\ UNCHANGED estate /\ pc' = "disable_all"
          /\ UNCHANGED <<old, ver, pending>>
      BY <1>32, Zenon DEF RecordAllDisabled, Goto, op
    <2>5. /\ InstalledVersions' = InstalledVersions
          /\ \A w \in Versions : ~IsInstalled(hstate'[w]) => ~IsInstalled(hstate[w])
          /\ ver \notin torn' => (hstate'[ver] = "Enabled" <=> estate[ver] # {})
          /\ \A w \in torn : w # ver => w \in torn'
          /\ estate[ver] # {} => torn' = torn
      BY <2>1, <2>2, <2>3, <2>4, RecordDisabledAgrees, Zenon
    <2>6. \A w \in InstalledVersions : w = ver
      BY <2>1, Zenon DEF OneInstalledVersion
    <2>7. \A w \in Versions \ torn' : ~IsInstalled(hstate'[w]) => estate[w] = {}
      BY <2>1, <2>5, Zenon DEF StatesAgree, InstalledVersions
    <2>8. pending \subseteq estate[ver] /\ (ver \notin torn' => estate[ver] = pending)
      <3>1. pending \subseteq estate[ver] /\ (ver \notin torn => estate[ver] = pending)
        BY <2>1, Zenon DEF StatesAgree
      <3> QED
        BY <2>5, <3>1, Zenon
    <2> QED
      BY <2>4, <2>5, <2>6, <2>7, <2>8, Zenon DEF StatesAgree
  <1>13. CASE Crash
    <2>1. UNCHANGED <<hstate, estate>> /\ pc' = "down" /\ torn' = torn \cup Recording
      BY <1>13, Zenon DEF Crash
    <2>2. InstalledVersions' = InstalledVersions
      BY <2>1, Zenon DEF InstalledVersions
    <2>3. ASSUME NEW v \in InstalledVersions \ torn' PROVE hstate[v] = "Enabled" <=> estate[v] # {}
      <3>1. v \notin Recording /\ v \notin torn
        BY <2>1, <2>3, Zenon
      <3>2. pc \notin {"record_enabled", "record_disabled", "record_all", "record_old"}
        BY <2>3, <3>1, VersionsAssumption, Zenon DEF Recording, Tracking, Updating, OneInstalledVersion
      <3> QED
        BY <2>3, <3>1, <3>2, Zenon DEF StatesAgree
    <2> QED
      BY <2>1, <2>2, <2>3, Zenon DEF StatesAgree
  <1>14. CASE EnableNewVersion
    BY <1>14, AllAreListed, ExtsAssumption DEF EnableNewVersion, SetHandlerState, Goto, TypeOK, Tracking,
      Operation, Locals, OnDisk, Replacing, Updating, StatesAgree, InstalledVersions, IsInstalled,
      IsMultiConfigOp, disk
  <1>15. CASE SetupNewHandlerFails
    BY <1>15, AllAreListed, ExtsAssumption DEF SetupNewHandlerFails, FinishWithError, Finish, ClearOperation,
      SetHandlerStatus, SetHandlerState, TypeOK, Tracking, Operation, Locals, OnDisk, Replacing, Updating,
      StatesAgree, InstalledVersions, IsInstalled, IsMultiConfigOp, disk
  <1>16. CASE Install
    BY <1>16, AllAreListed, ExtsAssumption DEF Install, SetHandlerState, SetHandlerStatus, Goto, TypeOK,
      Tracking, Operation, Locals, OnDisk, Replacing, Updating, StatesAgree, InstalledVersions, IsInstalled,
      IsMultiConfigOp, disk, op
  <1>31. CASE ReportInstalled
    BY <1>31, AllAreListed, ExtsAssumption DEF ReportInstalled, SetHandlerStatus, Goto, TypeOK,
      Tracking, Operation, Locals, OnDisk, Replacing, Updating, StatesAgree, InstalledVersions, IsInstalled,
      IsMultiConfigOp, disk, op
  <1>17. CASE StartUpdate
    BY <1>17, AllAreListed, ExtsAssumption, Zenon DEF StartUpdate, Goto, TypeOK, Tracking, Operation, Locals, OnDisk,
      Replacing, Updating, StatesAgree, InstalledVersions, IsInstalled, IsMultiConfigOp, disk
  <1>18. CASE UpdateFails
    BY <1>18, AllAreListed, ExtsAssumption DEF UpdateFails, FinishWithError, Finish, ClearOperation,
      SetHandlerStatus, SetHandlerState, Larger, TypeOK, Tracking, Operation, Locals, OnDisk, Replacing,
      Updating, StatesAgree, InstalledVersions, IsInstalled, IsMultiConfigOp, disk
  <1>19. CASE RemoveOld
    BY <1>19, AllAreListed, ExtsAssumption DEF RemoveOld, RemoveDirectory, SetHandlerState, SetHandlerStatus,
      Goto, TypeOK, Tracking, Operation, Locals, OnDisk, Replacing, Updating, StatesAgree, InstalledVersions,
      IsInstalled, IsMultiConfigOp, disk, op
  <1>20. CASE MarkUpdated
    BY <1>20, AllAreListed, ExtsAssumption DEF MarkUpdated, SetHandlerState, Goto, TypeOK, Tracking,
      Operation, Locals, OnDisk, Replacing, Updating, StatesAgree, InstalledVersions, IsInstalled,
      IsMultiConfigOp, disk, op
  <1>21. CASE EnableExtension
    <2>1. pc = "extension" /\ ver \in InstalledVersions /\ gs.request = "enabled"
      BY <1>21, ZenonT(60) DEF EnableExtension, Tracking, Locals
    <2>2. ext \in Exts /\ IsMultiConfigOp(ext)
      BY <2>1, ExtIsAnItem, AllAreListed, ZenonT(60) DEF IsMultiConfigOp, TypeOK
    <2>3. /\ estate' = [estate EXCEPT ![ver] = @ \cup {ext}]
          /\ UNCHANGED <<hstate, torn, old, ver>> /\ pc' = "record_enabled"
      BY <1>21, <2>2, ZenonT(60) DEF EnableExtension, Goto, op
    <2>4. InstalledVersions' = InstalledVersions /\ \A v \in InstalledVersions : v = ver
      BY <2>1, <2>3, Zenon DEF InstalledVersions, OneInstalledVersion
    <2>5. /\ estate'[ver] # {} /\ IsInstalled(hstate[ver])
          /\ \A v \in Versions : v # ver => estate'[v] = estate[v]
      BY <2>1, <2>3, Zenon DEF TypeOK, InstalledVersions
    <2> QED
      BY <2>3, <2>4, <2>5, Zenon DEF StatesAgree
  <1>22. CASE RecordEnabled
    <2>1. pc = "record_enabled" /\ ver \in InstalledVersions /\ gs.request = "enabled"
      BY <1>22, Zenon DEF RecordEnabled, Tracking, Locals
    <2>2. estate[ver] # {}
      <3>1. IsMultiConfigOp(ext)
        BY <2>1, ExtIsAnItem, AllAreListed, Zenon DEF IsMultiConfigOp
      <3> QED
        BY <2>1, <3>1, Zenon DEF OnDisk
    <2>3. /\ hstate' = [hstate EXCEPT ![ver] = "Enabled"] /\ torn' = torn \ {ver}
          /\ UNCHANGED estate /\ pc' = "next"
      BY <1>22, Zenon DEF RecordEnabled, SetHandlerState, Finish
    <2>4. \A v \in InstalledVersions' : v = ver
      BY <2>1, <2>3, Zenon DEF InstalledVersions, IsInstalled, OneInstalledVersion, TypeOK
    <2>5. hstate'[ver] = "Enabled" /\ \A v \in Versions : v # ver => hstate'[v] = hstate[v]
      BY <2>1, <2>3, Zenon DEF TypeOK, InstalledVersions
    <2>6. \A v \in Versions \ torn' : ~IsInstalled(hstate'[v]) => estate[v] = {}
      BY <2>3, <2>5, Zenon DEF StatesAgree, IsInstalled
    <2> QED
      BY <2>2, <2>3, <2>4, <2>5, <2>6, Zenon DEF StatesAgree
  <1>23. CASE DisableExtension
    <2>1. pc = "extension" /\ ver \in InstalledVersions /\ gs.request = "enabled"
      BY <1>23, ZenonT(60) DEF DisableExtension, Tracking, Locals
    <2>2. UNCHANGED <<hstate, torn>> /\ InstalledVersions' = InstalledVersions
      BY <1>23, ZenonT(60) DEF DisableExtension, InstalledVersions, disk
    <2>3. CASE ext \notin estate[ver]
      <3>1. UNCHANGED estate /\ pc' = "next"
        BY <1>23, <2>3, ZenonT(60) DEF DisableExtension, Finish, disk
      <3> QED
        BY <2>1, <2>2, <3>1, ZenonT(60) DEF StatesAgree
    <2>4. CASE ext \in estate[ver]
      <3>1. /\ ver \notin torn => hstate[ver] = "Enabled"
            /\ ver \in Versions /\ \A v \in InstalledVersions : v = ver
        BY <2>1, <2>4, Zenon DEF StatesAgree, OneInstalledVersion, TypeOK
      <3>2. pc' = "record_disabled" /\ \A v \in Versions : estate[v] = {} => estate'[v] = {}
        BY <1>23, <2>4, Zenon DEF DisableExtension, ForgetExtension, Goto, TypeOK
      <3> QED
        BY <2>2, <3>1, <3>2, Zenon DEF StatesAgree
    <2> QED
      BY <2>3, <2>4, Zenon
  <1>24. CASE HandleDisable
    <2>1. pc = "disabled" /\ \A v \in InstalledVersions : v = ver
      BY <1>24, Zenon DEF HandleDisable, OnDisk
    <2>2. UNCHANGED <<hstate, torn>> /\ InstalledVersions' = InstalledVersions
      BY <1>24, Zenon DEF HandleDisable, InstalledVersions, disk
    <2>3. CASE hstate[ver] # "Enabled"
      <3>1. UNCHANGED estate /\ pc' = "next"
        BY <1>24, <2>3, Zenon DEF HandleDisable, Finish, disk
      <3> QED
        BY <2>1, <2>2, <3>1, Zenon DEF StatesAgree
    <2>4. CASE hstate[ver] = "Enabled"
      <3>1. pc' = "record_disabled" /\ \A v \in Versions : estate[v] = {} => estate'[v] = {}
        BY <1>24, <2>4, Zenon DEF HandleDisable, ForgetExtension, Goto, TypeOK
      <3> QED
        BY <2>1, <2>2, <2>4, <3>1, Zenon DEF StatesAgree
    <2> QED
      BY <2>3, <2>4, Zenon
  <1>25. CASE RecordExtensionDisabled
    <2>1. pc = "record_disabled" /\ ver \in InstalledVersions /\ gs.request # "absent"
      BY <1>25, Zenon DEF RecordExtensionDisabled, Tracking, Locals
    <2>2. EnabledExtensions(ver) = estate[ver] /\ ver \in Versions
      BY <2>1, AllAreListed, Zenon DEF TypeOK, InstalledVersions
    <2>3. ver \notin torn => hstate[ver] = "Enabled"
      BY <2>1, Zenon DEF StatesAgree
    <2>4. /\ RecordDisabled(ver) /\ UNCHANGED estate /\ pc' = "next"
      BY <1>25, Zenon DEF RecordExtensionDisabled, Finish
    <2>5. /\ InstalledVersions' = InstalledVersions
          /\ \A w \in Versions : ~IsInstalled(hstate'[w]) => ~IsInstalled(hstate[w])
          /\ ver \notin torn' => (hstate'[ver] = "Enabled" <=> estate[ver] # {})
          /\ \A w \in torn : w # ver => w \in torn'
          /\ estate[ver] # {} => torn' = torn
      BY <2>1, <2>2, <2>3, <2>4, RecordDisabledAgrees, Zenon
    <2>6. \A w \in InstalledVersions : w = ver
      BY <2>1, Zenon DEF OneInstalledVersion
    <2>7. \A w \in Versions \ torn' : ~IsInstalled(hstate'[w]) => estate[w] = {}
      BY <2>1, <2>5, Zenon DEF StatesAgree, InstalledVersions
    <2> QED
      BY <2>4, <2>5, <2>6, <2>7, Zenon DEF StatesAgree
  <1>26. CASE HandleUninstall
    <2>1. pc = "uninstall" /\ gs.request = "uninstall" /\ ver \in Versions
      BY <1>26, Zenon DEF HandleUninstall, Operation, TypeOK
    <2>2. ExtensionsToDisable(ver) = estate[ver]
      BY <2>1, AllAreListed, Zenon
    <2>3. /\ UNCHANGED <<hstate, estate, torn, old, ver>>
          /\ \/ pc' = "remove"
             \/ /\ pc' = "disable_all"
                /\ pending' = IF hstate[ver] = "Enabled" THEN estate[ver] ELSE {}
      BY <1>26, <2>2, Zenon DEF HandleUninstall, Goto, disk, op
    <2>4. InstalledVersions' = InstalledVersions
      BY <2>3, Zenon DEF InstalledVersions
    <2>5. ver \notin torn /\ hstate[ver] # "Enabled" => estate[ver] = {}
      BY <2>1, Zenon DEF StatesAgree, InstalledVersions
    <2> QED
      BY <2>1, <2>3, <2>4, <2>5, Zenon DEF StatesAgree
  <1>27. CASE RemoveExtHandler
    BY <1>27, AllAreListed, ExtsAssumption DEF RemoveExtHandler, RemoveDirectory, SetHandlerState,
      SetHandlerStatus, Finish, ClearOperation, TypeOK, Tracking, Operation, Locals, OnDisk, Replacing,
      Updating, StatesAgree, InstalledVersions, IsInstalled, IsMultiConfigOp, disk, op
  <1>28. CASE FinishGoalState
    BY <1>28, AllAreListed, ExtsAssumption DEF FinishGoalState, TypeOK, Tracking, Operation, Locals, OnDisk,
      Replacing, Updating, StatesAgree, InstalledVersions, IsInstalled, IsMultiConfigOp, disk, op
  <1>29. CASE Quiescent
    BY <1>29, AllAreListed, ExtsAssumption, ZenonT(60) DEF Quiescent, vars, TypeOK, Tracking, Operation, Locals, OnDisk,
      Replacing, Updating, StatesAgree, InstalledVersions, IsInstalled, IsMultiConfigOp, disk, op
  <1>30. CASE UNCHANGED vars
    BY <1>30, AllAreListed, ExtsAssumption, ZenonT(60) DEF vars, TypeOK, Tracking, Operation, Locals, OnDisk, Replacing,
      Updating, StatesAgree, InstalledVersions, IsInstalled, IsMultiConfigOp, disk, op
  <1> QED
    BY <1>1, <1>2, <1>3, <1>4, <1>5, <1>6, <1>7, <1>8, <1>9, <1>10, <1>11, <1>12, <1>13,
       <1>14, <1>15, <1>16, <1>17, <1>18, <1>19, <1>20, <1>21, <1>22, <1>23, <1>24, <1>25,
       <1>26, <1>27, <1>28, <1>29, <1>30, <1>31, <1>32, Zenon DEF Next, AgentNext

(* Between operations a multi-config handler is Enabled exactly when one of *)
(* its extensions is (enable, disable), for every set of versions and       *)
(* extensions, every manifest and any failures and deaths of the agent, but *)
(* for a version whose handler state was not written since the agent died   *)
(* between the two writes or went on after a failed disable.  Every goal    *)
(* state lists all the extensions, and directories can be deleted.          *)
THEOREM EnabledIffSomeExtensionIsHolds ==
    ASSUME SupportsMC, SettingsSets = {Exts}, Exts # {}, ~RemoveMayFail
    PROVE  Spec => []EnabledIffSomeExtensionIs
  <1> DEFINE Inv == IInv /\ Locals /\ OnDisk /\ StatesAgree
  <1>1. Init => Inv
    <2> SUFFICES ASSUME Init PROVE Inv
      BY Zenon
    <2>1. gs.request = "absent" /\ todo = {} /\ pc = "idle"
      BY Zenon DEF Init
    <2>2. IInv /\ ItemsOf(gs) = {}
      BY <2>1, InitIInv, Zenon DEF ItemsOf
    <2>3. InstalledVersions = {} /\ \A v \in Versions : estate[v] = {}
      BY Zenon DEF Init, InstalledVersions, IsInstalled
    <2> QED
      BY <2>1, <2>2, <2>3, Zenon DEF Locals, OnDisk, Replacing, Updating, StatesAgree
  <1>2. Inv /\ [Next]_vars => Inv'
    <2> SUFFICES ASSUME Inv, [Next]_vars PROVE Inv'
      BY Zenon
    <2>1. IInv'
      BY TypeStep, TrackingStep, OperationStep, CheckedStep, Zenon DEF IInv
    <2>2. Locals' /\ OnDisk'
      BY LocalsStep, OnDiskStep, Zenon DEF IInv
    <2>3. StatesAgree'
      BY StatesAgreeStep, Zenon DEF IInv
    <2> QED
      BY <2>1, <2>2, <2>3, Zenon
  <1>3. Inv => EnabledIffSomeExtensionIs
    BY Zenon DEF StatesAgree, EnabledIffSomeExtensionIs
  <1> QED
    BY <1>1, <1>2, <1>3, PTL DEF Spec
=============================================================================

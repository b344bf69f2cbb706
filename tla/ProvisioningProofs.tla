------------------------- MODULE ProvisioningProofs -------------------------
(***************************************************************************)
(* Three promises of module Provisioning, for any number of VMs, reboots,  *)
(* failures and attempts: the agent starts with no state of another VM, a  *)
(* VM provisioned from a clean image has its own account and nobody        *)
(* else's, and the resource disk is formatted once.                        *)
(*                                                                         *)
(* The file provisioned is all that tells a daemon whose disk it has. The  *)
(* proofs rest on what that file says when there is state of another VM    *)
(* (Marked), on the labels at which there can be none (Clean), on where    *)
(* the saved endpoint can be trusted (Discovered), and on what a completed *)
(* deprovisioning has removed (Removed).                                   *)
(*                                                                         *)
(* ovf-env.xml is all that tells the deprovisioning whose account there    *)
(* is: the accounts on the disk are those that it names, or that the       *)
(* deprovisioning has read from it (Named), an account is made only after  *)
(* ovf-env.xml was copied (Made), and a VM from a clean image is marked as *)
(* provisioned only with its own (Kept).                                   *)
(***************************************************************************)
EXTENDS Provisioning, TLAPS

(* The fields of the records that the proof speaks of.                     *)
Shape ==
    /\ DOMAIN vm = {"id", "server", "dvd"}
    /\ DOMAIN lib = {"provisioned", "ovf", "disabled", "protocol", "endpoint", "state"}
    /\ DOMAIN proc = {"pc", "ret", "protocol", "dhcp", "skip_cache", "tries"}
    /\ DOMAIN dep = {"step", "user"}
    /\ DOMAIN past = {"image", "deprovisioned", "cut", "disk", "unrecorded", "uncleared"}

(* The disk has goal states or extension state of another VM, and every VM *)
(* whose state went to another had recorded its id.                        *)
Foreign == lib.state \notin {None, vm.id} /\ ~past.unrecorded

(* The labels after check_provisioned_file, and the calls from them.       *)
AfterCheck ==
    \/ proc.pc \in {"mark_checked", "ovf", "notready", "config", "hostkey", "waitovf", "waitkey", "mark",
                    "guest_agent", "ready", "failed", "sleep", "launch", "orphans", "up", "asleep"}
    \/ proc.pc = "detect" /\ proc.ret # "provision"

(* State of another VM comes with the id of another VM in the file         *)
(* provisioned, which is never an id that is still to come.                *)
Marked ==
    /\ vm.id \in Nat /\ lib.provisioned \in Int
    /\ lib.provisioned <= vm.id
    /\ conf.agent # "disabled" /\ Foreign => lib.provisioned > 0 /\ lib.provisioned # vm.id

(* Once the file was checked, nothing of another VM is left.               *)
Clean == conf.agent # "disabled" /\ AfterCheck => ~Foreign

(* Once the daemon has cleared the protocol and could delete its file, a   *)
(* saved endpoint and the one in memory are those of this VM; the agent    *)
(* has one.                                                                *)
Discovered ==
    /\ vm.server # "none"
    /\ proc.pc = "detect" => proc.ret \in {"provision", "notready", "ready", "failed", "launch"}
    /\ proc.pc \notin {"off", "disk", "clear"} /\ ~past.uncleared =>
          /\ lib.protocol => lib.endpoint = vm.server
          /\ proc.protocol \in {"none", vm.server}
    /\ proc.pc \in {"orphans", "up"} => proc.protocol # "none"

(* The command stops the daemon first and removes the state before it      *)
(* ends; neither an agent nor an orphan writes it again.                   *)
Removed ==
    /\ dep.step \in 0..5
    /\ dep.step >= 2 => proc.pc = "off"
    /\ past.deprovisioned => /\ ~orphan
                             /\ dep.step # 1 => proc.pc = "off"
                             /\ dep.step = 5 \/ (dep.step = 0 /\ ~past.cut) => lib.state = None

IInv == Shape /\ Marked /\ Clean /\ Discovered /\ Removed

(* A partition that is in use has the type that keeps it, or a command     *)
(* that sets it up has failed.                                             *)
DiskIsKept ==
    /\ DOMAIN rdisk = {"type", "mounted", "data"}
    /\ (rdisk.mounted \/ rdisk.data) /\ rdisk.type # "linux" => past.disk

(* A step of DiskDataSurvives.                                             *)
DiskDataStays == rdisk.data /\ ~rdisk'.data => vm'.id # vm.id \/ past'.disk

(* The agent provisions, and every account was named by ovf-env.xml when   *)
(* the command removed it.                                                 *)
Owned == conf.agent = "waagent" /\ past.image # "legacy"

(* ovf-env.xml was copied and the VM is being provisioned.                 *)
Copied ==
    \/ proc.pc \in {"notready", "config", "hostkey", "mark"}
    \/ proc.pc = "detect" /\ proc.ret = "notready"

(* An account is that of ovf-env.xml or, without the file, of this VM; the *)
(* command knows the one that it will remove, and a completed one leaves   *)
(* none.                                                                   *)
Named ==
    /\ None \notin os.users
    /\ dep.step < 5 /\ lib.ovf = None => os.users \subseteq {vm.id}
    /\ dep.step < 5 /\ lib.ovf # None => os.users \subseteq {lib.ovf}
    /\ dep.step = 5 => os.users \subseteq {dep.user} \/ os.users \subseteq {vm.id}
    /\ dep.step \in 1..4 => dep.user = lib.ovf \/ (dep.user = None /\ lib.ovf = vm.id)
    /\ dep.step = 5 => lib.provisioned = None /\ lib.ovf = None
    /\ lib.provisioned = None => lib.ovf \in {None, vm.id}
    /\ lib.provisioned # None => lib.ovf # None
    /\ past.deprovisioned =>
          /\ dep.step # 0 => dep.user # None
          /\ dep.step \in 1..4 => dep.user = lib.ovf
          /\ dep.step = 5 => os.users \subseteq {dep.user}
          /\ dep.step = 0 /\ ~past.cut => os.users = {} /\ lib.provisioned = None /\ lib.ovf = None

(* How far provisioning has come.                                          *)
Made ==
    /\ proc.pc \notin {"waitovf", "waitkey"}
    /\ proc.pc \in {"cleanup", "cleanup_ext", "mark_checked"} => lib.provisioned # None
    /\ proc.pc = "ovf" \/ Copied => lib.provisioned = None
    /\ Copied => lib.ovf = vm.id
    /\ proc.pc \in {"hostkey", "mark"} => vm.id \in os.users
    /\ proc.pc = "mark" => os.hostkey = vm.id

(* A VM from a clean image is marked as provisioned by provisioning only.  *)
Kept ==
    past.image = "clean" =>
        /\ lib.provisioned \in {None, vm.id}
        /\ proc.pc \notin {"cleanup", "cleanup_ext", "mark_checked"}
        /\ lib.provisioned = vm.id => /\ os.users = {vm.id}
                                      /\ os.hostkey = vm.id \/ past.cut \/ dep.step >= 3

OsShape == DOMAIN os = {"users", "hostkey", "lease", "routes"} /\ vm.id # None

OwnAccount == OsShape /\ (Owned => Named /\ Made /\ Kept)


----------------------------------------------------------------------------
(* What a call leaves in the process.                                      *)
LEMMA Called ==
    ASSUME Shape, NEW ret, Call(ret)
    PROVE  /\ DOMAIN proc' = DOMAIN proc
           /\ proc'.pc = "detect" /\ proc'.ret = ret /\ proc'.protocol = proc.protocol
BY Zenon DEF Call, Shape

(* A new agent has no protocol yet.                                        *)
LEMMA Launched ==
    ASSUME Shape, NewAgent
    PROVE  /\ DOMAIN proc' = DOMAIN proc
           /\ proc'.pc = "detect" /\ proc'.ret = "launch" /\ proc'.protocol = "none"
BY Zenon DEF NewAgent, Off, Shape

(* An attempt that failed changes nothing but the handler of DHCP.         *)
LEMMA Attempted ==
    ASSUME Shape, AttemptFailed
    PROVE  /\ DOMAIN proc' = DOMAIN proc
           /\ proc'.pc \in {proc.pc, proc.ret} /\ proc'.ret = proc.ret /\ proc'.protocol = proc.protocol
<1> DEFINE reset == [proc EXCEPT !.dhcp = "none", !.skip_cache = @ \/ DhcpEndpoint # "none"]
<1>1. /\ DOMAIN reset = DOMAIN proc
      /\ reset.pc = proc.pc /\ reset.ret = proc.ret /\ reset.protocol = proc.protocol
  BY Zenon DEF Shape
<1>2. proc' = IF proc.tries + 1 < MaxRetry THEN [reset EXCEPT !.tries = @ + 1]
              ELSE [reset EXCEPT !.tries = 0, !.pc = proc.ret]
  BY Zenon DEF AttemptFailed
<1> HIDE DEF reset
<1>3. CASE proc' = [reset EXCEPT !.tries = @ + 1]
  BY <1>1, <1>3, Zenon DEF Shape
<1>4. CASE proc' = [reset EXCEPT !.tries = 0, !.pc = proc.ret]
  BY <1>1, <1>4, Zenon DEF Shape
<1>. QED
  BY <1>2, <1>3, <1>4, Zenon

(* What setting up the disk leaves in the history, ...                     *)
LEMMA DiskSetUp ==
    ASSUME Shape, SetUpDisk
    PROVE  /\ UNCHANGED <<conf, vm, lib, orphan, dep>> /\ proc.pc = "disk" /\ Goto("clear")
           /\ DOMAIN past' = DOMAIN past
           /\ (past'.deprovisioned <=> past.deprovisioned) /\ (past'.cut <=> past.cut)
           /\ past'.unrecorded = past.unrecorded
<1>1. UNCHANGED <<conf, vm, lib, orphan, dep>> /\ proc.pc = "disk" /\ Goto("clear")
  BY Zenon DEF SetUpDisk
<1>2. past' = past \/ past' = [past EXCEPT !.disk = TRUE]
  BY Zenon DEF SetUpDisk
<1>3. CASE past' = past
  BY <1>1, <1>3, Zenon
<1>4. CASE past' = [past EXCEPT !.disk = TRUE]
  BY <1>1, <1>4, Zenon DEF Shape
<1>. QED
  BY <1>2, <1>3, <1>4, Zenon

(* ... clearing the protocol in the files, whose removal may fail, ...     *)
LEMMA ProtocolCleared ==
    ASSUME Shape, ClearProtocol
    PROVE  /\ UNCHANGED <<conf, vm, os, rdisk, orphan, dep>> /\ proc.pc = "clear"
           /\ DOMAIN lib' = DOMAIN lib /\ DOMAIN proc' = DOMAIN proc /\ DOMAIN past' = DOMAIN past
           /\ lib'.provisioned = lib.provisioned /\ lib'.state = lib.state /\ lib'.ovf = lib.ovf
           /\ proc'.pc = "detect" /\ proc'.ret = "provision" /\ proc'.protocol = "none"
           /\ past'.image = past.image /\ past'.deprovisioned = past.deprovisioned /\ past'.cut = past.cut
           /\ past'.disk = past.disk /\ past'.unrecorded = past.unrecorded
           /\ lib'.protocol => past'.uncleared
<1>1. UNCHANGED <<conf, vm, os, rdisk, orphan, dep>> /\ proc.pc = "clear"
  BY Zenon DEF ClearProtocol
<1>2. DOMAIN proc' = DOMAIN proc /\ proc'.pc = "detect" /\ proc'.ret = "provision" /\ proc'.protocol = "none"
  BY Zenon DEF ClearProtocol, Shape
<1>3. PICK kept :
          /\ lib' = [lib EXCEPT !.protocol = @ /\ "Protocol" \in kept,
                                !.endpoint = IF "WireServerEndpoint" \in kept THEN @ ELSE "none"]
          /\ past' = [past EXCEPT !.uncleared = lib.protocol /\ "Protocol" \in kept]
  BY Zenon DEF ClearProtocol
<1>4. /\ DOMAIN lib' = DOMAIN lib /\ lib'.provisioned = lib.provisioned
      /\ lib'.state = lib.state /\ lib'.ovf = lib.ovf
  BY <1>3, Zenon DEF Shape
<1>5. lib'.protocol = (lib.protocol /\ "Protocol" \in kept)
  BY <1>3, Zenon DEF Shape
<1>6. DOMAIN past' = DOMAIN past /\ past'.uncleared = (lib.protocol /\ "Protocol" \in kept)
  BY <1>3, Zenon DEF Shape
<1>7. /\ past'.image = past.image /\ past'.deprovisioned = past.deprovisioned /\ past'.cut = past.cut
      /\ past'.disk = past.disk /\ past'.unrecorded = past.unrecorded
  BY <1>3, Zenon DEF Shape
<1>8. lib'.protocol => past'.uncleared
  BY <1>5, <1>6, Zenon
<1>. QED
  BY <1>1, <1>2, <1>4, <1>6, <1>7, <1>8, Zenon

(* ... an attempt to find the WireServer in the files and the process, ... *)
LEMMA Detected ==
    ASSUME Shape, DetectProtocol
    PROVE  /\ UNCHANGED <<conf, vm, orphan, dep, past>>
           /\ proc.pc = "detect"
           /\ DOMAIN lib' = DOMAIN lib /\ DOMAIN proc' = DOMAIN proc
           /\ lib'.provisioned = lib.provisioned /\ lib'.state = lib.state
           /\ proc'.pc \in {proc.pc, proc.ret} /\ proc'.ret = proc.ret
           /\ lib'.protocol => lib'.endpoint = vm.server
           /\ proc'.protocol \in {"none", vm.server}
<1>1. UNCHANGED <<conf, vm, orphan, dep, past>> /\ proc.pc = "detect" /\ proc.protocol = "none" /\ ~lib.protocol
  BY Zenon DEF DetectProtocol
<1>2. CASE Responds(DhcpEndpoint)
  <2>1. lib' = [lib EXCEPT !.protocol = TRUE, !.endpoint = vm.server]
    BY <1>2, Zenon DEF DetectProtocol
  <2>2. proc' = [proc EXCEPT !.pc = proc.ret, !.protocol = vm.server, !.dhcp = vm.server, !.tries = 0]
    BY <1>2, Zenon DEF DetectProtocol
  <2>3. /\ DOMAIN lib' = DOMAIN lib /\ lib'.endpoint = vm.server
        /\ lib'.provisioned = lib.provisioned /\ lib'.state = lib.state
    BY <2>1, Zenon DEF Shape
  <2>4. /\ DOMAIN proc' = DOMAIN proc
        /\ proc'.pc = proc.ret /\ proc'.ret = proc.ret /\ proc'.protocol = vm.server
    BY <2>2, Zenon DEF Shape
  <2>. QED
    BY <1>1, <2>3, <2>4, Zenon
<1>3. CASE ~Responds(DhcpEndpoint)
  <2>1. AttemptFailed /\ lib' = [lib EXCEPT !.endpoint = "none"]
    BY <1>3, Zenon DEF DetectProtocol
  <2>2. /\ DOMAIN lib' = DOMAIN lib /\ lib'.protocol = lib.protocol
        /\ lib'.provisioned = lib.provisioned /\ lib'.state = lib.state
    BY <2>1, Zenon DEF Shape
  <2>. QED
    BY <1>1, <2>1, <2>2, Attempted, Zenon
<1>. QED
  BY <1>2, <1>3, Zenon

(* ... and a step of deprovisioning: it fails, or stops the agent, or      *)
(* removes files of the agent, or does neither.                            *)
Stopped == dep.step = 1 /\ proc' = Off /\ lib' = lib /\ dep'.step = 2
Cleared == dep.step = 4 /\ proc' = proc /\ lib' = NoLib /\ dep'.step = 5
Ended   == dep.step = 5 /\ proc' = proc /\ lib' = lib /\ dep'.step = 0
Passed  == dep.step \in {2, 3} /\ proc' = proc /\ lib' = lib /\ dep'.step = dep.step + 1
Broken  == dep.step > 0 /\ proc' = proc /\ lib' = lib /\ dep'.step = 0 /\ ~past'.deprovisioned

(* What a step of the deprovisioning may change.                           *)
LEMMA Acted ==
    ASSUME Shape, DoAction
    PROVE  /\ UNCHANGED <<conf, vm, orphan>>
           /\ DOMAIN dep' = DOMAIN dep /\ DOMAIN past' = DOMAIN past
           /\ past'.unrecorded = past.unrecorded /\ past'.uncleared = past.uncleared
           /\ Broken \/ (past'.deprovisioned = past.deprovisioned /\ (Stopped \/ Passed \/ Cleared \/ Ended))
<1>1. UNCHANGED <<conf, vm, orphan>> /\ dep.step > 0
  BY Zenon DEF DoAction
<1> DEFINE none == [step |-> 0, user |-> None]
<1>2. CASE /\ dep' = none /\ UNCHANGED <<proc, lib, os>>
           /\ past' = [past EXCEPT !.cut = TRUE, !.deprovisioned = FALSE, !.image = IF Forgets THEN "legacy" ELSE @]
  <2>1. /\ DOMAIN past' = DOMAIN past /\ past'.deprovisioned = FALSE
        /\ past'.unrecorded = past.unrecorded /\ past'.uncleared = past.uncleared
    BY <1>2, Zenon DEF Shape
  <2>2. DOMAIN dep' = DOMAIN dep /\ dep'.step = 0
    BY <1>2, Zenon DEF Shape
  <2>. QED
    BY <1>1, <1>2, <2>1, <2>2, Zenon DEF Broken
<1>3. CASE /\ \/ dep.step = 1 /\ StopAgentService
              \/ dep.step = 2 /\ DelHostKeys
              \/ dep.step = 3 /\ DelDhcpLease
              \/ dep.step = 4 /\ DelDirs
              \/ dep.step = 5 /\ DelUser
           /\ dep' = IF dep.step = 5 THEN none ELSE [dep EXCEPT !.step = @ + 1]
           /\ past' = [past EXCEPT !.cut = @ /\ dep.step # 5]
  <2>1. /\ DOMAIN past' = DOMAIN past /\ past'.deprovisioned = past.deprovisioned
        /\ past'.unrecorded = past.unrecorded /\ past'.uncleared = past.uncleared
    BY <1>3, Zenon DEF Shape
  <2>2. dep.step = 5 => DOMAIN dep' = DOMAIN dep /\ dep'.step = 0
    BY <1>3, Zenon DEF Shape
  <2>3. dep.step # 5 => DOMAIN dep' = DOMAIN dep /\ dep'.step = dep.step + 1
    BY <1>3, Zenon DEF Shape
  <2>4. Stopped \/ Passed \/ Cleared \/ Ended
    BY <1>3, <2>2, <2>3, SMTT(20) DEF StopAgentService, DelHostKeys, DelDhcpLease, DelDirs, DelUser, Stopped,
      Passed, Cleared, Ended
  <2>. QED
    BY <1>1, <2>1, <2>2, <2>3, <2>4, Zenon
<1>. QED
  BY <1>2, <1>3, Zenon DEF DoAction

(* No step changes the fields of a record.                                 *)
LEMMA ShapeStep ==
    ASSUME Shape, [Next]_vars
    PROVE  Shape'
<1>1. CASE Start
  BY <1>1, Zenon DEF Start, Goto, Shape
<1>2. CASE SetUpDisk
  BY <1>2, DiskSetUp, Zenon DEF Goto, Shape
<1>3. CASE ClearProtocol
  BY <1>3, ProtocolCleared, Zenon DEF Shape
<1>4. CASE GetSavedProtocol
  BY <1>4, Zenon DEF GetSavedProtocol, SavedEndpoint, Shape
<1>5. CASE DetectProtocol
  BY <1>5, Detected, Zenon DEF Shape
<1>6. CASE CheckProvisioned
  BY <1>6, Zenon DEF CheckProvisioned, Goto, Handler, IsCurrentInstanceId, Shape
<1>7. CASE CleanProtocol
  BY <1>7, Zenon DEF CleanProtocol, Goto, Restart, Shape
<1>8. CASE CleanState
  BY <1>8, Zenon DEF CleanState, Goto, Restart, Shape
<1>9. CASE WriteCheckedId
  BY <1>9, Called, Zenon DEF WriteCheckedId, Goto, Restart, WithInstanceId, Shape
<1>10. CASE CopyOvfEnv
  BY <1>10, Called, Zenon DEF CopyOvfEnv, Ejected, Shape
<1>11. CASE Provision
  BY <1>11, Called, Zenon DEF Provision, Goto, Shape
<1>12. CASE RegSshHostKey
  BY <1>12, Called, Zenon DEF RegSshHostKey, Goto, Shape
<1>13. CASE WriteProvisioned
  BY <1>13, Zenon DEF WriteProvisioned, Goto, Restart, WithInstanceId, Shape
<1>14. CASE HandleGuestAgent
  BY <1>14, Called, Zenon DEF HandleGuestAgent, Goto, Restart, Disabled, ProvisionGuestAgent, Shape
<1>15. CASE WaitForOvfEnv
  BY <1>15, Zenon DEF WaitForOvfEnv, Goto, Disabled, ProvisionGuestAgent, Shape
<1>16. CASE WaitForSshHostKey
  BY <1>16, Zenon DEF WaitForSshHostKey, Goto, Shape
<1>17. CASE ReportProvisionStatus
  BY <1>17, Zenon DEF ReportProvisionStatus, Goto, Shape
<1>18. CASE SleepIfDisabled
  BY <1>18, Launched, Zenon DEF SleepIfDisabled, Goto, Shape
<1>19. CASE AgentStarts
  BY <1>19, Launched, Zenon DEF AgentStarts, Goto, Shape
<1>20. CASE EnsureNoOrphans
  BY <1>20, Zenon DEF EnsureNoOrphans, Goto, Kill, Shape
<1>21. CASE AgentWorks
  BY <1>21, Zenon DEF AgentWorks, Shape
<1>22. CASE AgentExits
  BY <1>22, Launched, Zenon DEF AgentExits, Shape
<1>23. CASE OrphanExits
  BY <1>23, Zenon DEF OrphanExits, Shape
<1>24. CASE Deprovision
  BY <1>24, Zenon DEF Deprovision, Shape
<1>25. CASE DoAction
  BY <1>25, Acted, Zenon DEF Stopped, Passed, Cleared, Ended, Broken, Off, NoLib, Shape
<1>26. CASE UseDisk
  BY <1>26, Zenon DEF UseDisk, Shape
<1>27. CASE CloudInitCopiesOvf
  BY <1>27, Zenon DEF CloudInitCopiesOvf, Shape
<1>28. CASE CloudInitMakesKeys
  BY <1>28, Zenon DEF CloudInitMakesKeys, Shape
<1>29. CASE Reboot
  BY <1>29, Zenon DEF Reboot, Off, Shape
<1>30. CASE DaemonKilled
  BY <1>30, Zenon DEF DaemonKilled, Off, Shape
<1>31. CASE NewVm
  BY <1>31, Zenon DEF NewVm, Off, RecordsId, Ids, Shape
<1>32. CASE NetworkChanges
  BY <1>32, Zenon DEF NetworkChanges, Shape
<1>33. CASE UNCHANGED vars
  BY <1>33, Zenon DEF vars, Shape
<1>. QED
  BY <1>1, <1>2, <1>3, <1>4, <1>5, <1>6, <1>7, <1>8, <1>9, <1>10, <1>11, <1>12,
     <1>13, <1>14, <1>15, <1>16, <1>17, <1>18, <1>19, <1>20, <1>21, <1>22, <1>23,
     <1>24, <1>25, <1>26, <1>27, <1>28, <1>29, <1>30, <1>31, <1>32, <1>33,
     Zenon DEF Next, DaemonStep

(* The file is written only where nothing of another VM is left, and a disk*)
(* that becomes the disk of another VM has the id of its last VM or no     *)
(* state.                                                                  *)
LEMMA MarkedStep ==
    ASSUME Shape, Marked, Clean, Removed, [Next]_vars
    PROVE  Marked'
<1>1. CASE Start
  BY <1>1, Zenon DEF Start, Goto, Shape, Marked, Foreign
<1>2. CASE SetUpDisk
  BY <1>2, DiskSetUp, Zenon DEF Goto, Shape, Marked, Foreign
<1>3. CASE ClearProtocol
  BY <1>3, ProtocolCleared, Zenon DEF Shape, Marked, Foreign
<1>4. CASE GetSavedProtocol
  BY <1>4, Zenon DEF GetSavedProtocol, SavedEndpoint, Shape, Marked, Foreign
<1>5. CASE DetectProtocol
  BY <1>5, Detected, Zenon DEF Shape, Marked, Foreign
<1>6. CASE CheckProvisioned
  BY <1>6, Zenon DEF CheckProvisioned, Goto, Handler, IsCurrentInstanceId, Shape, Marked, Foreign
<1>7. CASE CleanProtocol
  BY <1>7, Zenon DEF CleanProtocol, Goto, Restart, Shape, Marked, Foreign
<1>8. CASE CleanState
  BY <1>8, Zenon DEF CleanState, Goto, Restart, Shape, Marked, Foreign
<1>9. CASE WriteCheckedId
  BY <1>9, Called, SMTT(20) DEF WriteCheckedId, Goto, Restart, WithInstanceId, Shape, Marked, Clean, Foreign,
    AfterCheck
<1>10. CASE CopyOvfEnv
  BY <1>10, Called, SMTT(20) DEF CopyOvfEnv, Ejected, Shape, Marked, Foreign
<1>11. CASE Provision
  BY <1>11, Called, Zenon DEF Provision, Goto, Shape, Marked, Foreign
<1>12. CASE RegSshHostKey
  BY <1>12, Called, Zenon DEF RegSshHostKey, Goto, Shape, Marked, Foreign
<1>13. CASE WriteProvisioned
  BY <1>13, SMTT(20) DEF WriteProvisioned, Goto, Restart, WithInstanceId, Shape, Marked, Clean, Foreign,
    AfterCheck
<1>14. CASE HandleGuestAgent
  BY <1>14, Called, Zenon DEF HandleGuestAgent, Goto, Restart, Disabled, ProvisionGuestAgent, Shape,
    Marked, Foreign
<1>15. CASE WaitForOvfEnv
  BY <1>15, SMTT(20) DEF WaitForOvfEnv, Goto, Disabled, ProvisionGuestAgent, Shape, Marked, Foreign
<1>16. CASE WaitForSshHostKey
  BY <1>16, Zenon DEF WaitForSshHostKey, Goto, Shape, Marked, Foreign
<1>17. CASE ReportProvisionStatus
  BY <1>17, Zenon DEF ReportProvisionStatus, Goto, Shape, Marked, Foreign
<1>18. CASE SleepIfDisabled
  BY <1>18, Launched, Zenon DEF SleepIfDisabled, Goto, Shape, Marked, Foreign
<1>19. CASE AgentStarts
  BY <1>19, Launched, Zenon DEF AgentStarts, Goto, Shape, Marked, Foreign
<1>20. CASE EnsureNoOrphans
  BY <1>20, Zenon DEF EnsureNoOrphans, Goto, Kill, Shape, Marked, Foreign
<1>21. CASE AgentWorks
  BY <1>21, Zenon DEF AgentWorks, Shape, Marked, Foreign
<1>22. CASE AgentExits
  BY <1>22, Launched, Zenon DEF AgentExits, Shape, Marked, Foreign
<1>23. CASE OrphanExits
  BY <1>23, Zenon DEF OrphanExits, Shape, Marked, Foreign
<1>24. CASE Deprovision
  BY <1>24, Zenon DEF Deprovision, Shape, Marked, Foreign
<1>25. CASE DoAction
  BY <1>25, Acted, SMTT(20) DEF Stopped, Passed, Cleared, Ended, Broken, Off, NoLib, Shape, Marked, Foreign,
    None
<1>26. CASE UseDisk
  BY <1>26, Zenon DEF UseDisk, Shape, Marked, Foreign
<1>27. CASE CloudInitCopiesOvf
  BY <1>27, Zenon DEF CloudInitCopiesOvf, Shape, Marked, Foreign
<1>28. CASE CloudInitMakesKeys
  BY <1>28, Zenon DEF CloudInitMakesKeys, Shape, Marked, Foreign
<1>29. CASE Reboot
  BY <1>29, Zenon DEF Reboot, Off, Shape, Marked, Foreign
<1>30. CASE DaemonKilled
  BY <1>30, Zenon DEF DaemonKilled, Off, Shape, Marked, Foreign
<1>31. CASE NewVm
  <2>1. /\ UNCHANGED <<conf, lib>> /\ vm'.id = vm.id + 1
    BY <1>31, SMTT(20) DEF NewVm
  <2>2. past'.unrecorded = (past.unrecorded \/ (~RecordsId /\ lib.state # None))
    BY <1>31, Zenon DEF NewVm, Shape
  <2>3. Foreign' => RecordsId
    BY <2>1, <2>2, Zenon DEF Foreign
  <2>4. RecordsId => lib.provisioned > 0
    BY SMTT(20) DEF RecordsId, Ids
  <2>. QED
    BY <2>1, <2>3, <2>4, SMTT(20) DEF Marked
<1>32. CASE NetworkChanges
  BY <1>32, Zenon DEF NetworkChanges, Shape, Marked, Foreign
<1>33. CASE UNCHANGED vars
  BY <1>33, Zenon DEF vars, Shape, Marked, Foreign
<1>. QED
  BY <1>1, <1>2, <1>3, <1>4, <1>5, <1>6, <1>7, <1>8, <1>9, <1>10, <1>11, <1>12,
     <1>13, <1>14, <1>15, <1>16, <1>17, <1>18, <1>19, <1>20, <1>21, <1>22, <1>23,
     <1>24, <1>25, <1>26, <1>27, <1>28, <1>29, <1>30, <1>31, <1>32, <1>33,
     Zenon DEF Next, DaemonStep

(* Where there is state of another VM, check_provisioned_file leads to the *)
(* cleanup, and the cleanup to mark_checked only when it has removed it.   *)
LEMMA CleanStep ==
    ASSUME Shape, Marked, Clean, Discovered, Removed, [Next]_vars
    PROVE  Clean'
<1>1. CASE Start
  BY <1>1, SMTT(20) DEF Start, Goto, Shape, Clean, Foreign, AfterCheck
<1>2. CASE SetUpDisk
  BY <1>2, DiskSetUp, SMTT(20) DEF Goto, Shape, Clean, Foreign, AfterCheck
<1>3. CASE ClearProtocol
  BY <1>3, ProtocolCleared, SMTT(20) DEF Shape, Clean, Foreign, AfterCheck
<1>4. CASE GetSavedProtocol
  BY <1>4, Zenon DEF GetSavedProtocol, SavedEndpoint, Shape, Clean, Foreign, AfterCheck
<1>5. CASE DetectProtocol
  BY <1>5, Detected, Zenon DEF Shape, Clean, Foreign, AfterCheck
<1>6. CASE CheckProvisioned
  BY <1>6, SMTT(20) DEF CheckProvisioned, Goto, Handler, IsCurrentInstanceId, Shape, Marked, Clean, Foreign,
    AfterCheck, None, Empty
<1>7. CASE CleanProtocol
  BY <1>7, SMTT(20) DEF CleanProtocol, Goto, Restart, Shape, Clean, Foreign, AfterCheck
<1>8. CASE CleanState
  BY <1>8, Zenon DEF CleanState, Goto, Restart, Shape, Clean, Foreign, AfterCheck
<1>9. CASE WriteCheckedId
  BY <1>9, Called, Zenon DEF WriteCheckedId, Goto, Restart, WithInstanceId, Shape, Clean, Foreign,
    AfterCheck
<1>10. CASE CopyOvfEnv
  BY <1>10, Called, SMTT(20) DEF CopyOvfEnv, Ejected, Shape, Clean, Foreign, AfterCheck
<1>11. CASE Provision
  BY <1>11, Called, Zenon DEF Provision, Goto, Shape, Clean, Foreign, AfterCheck
<1>12. CASE RegSshHostKey
  BY <1>12, Called, Zenon DEF RegSshHostKey, Goto, Shape, Clean, Foreign, AfterCheck
<1>13. CASE WriteProvisioned
  BY <1>13, Zenon DEF WriteProvisioned, Goto, Restart, WithInstanceId, Shape, Clean, Foreign, AfterCheck
<1>14. CASE HandleGuestAgent
  BY <1>14, Called, Zenon DEF HandleGuestAgent, Goto, Restart, Disabled, ProvisionGuestAgent, Shape, Clean,
    Foreign, AfterCheck
<1>15. CASE WaitForOvfEnv
  BY <1>15, Zenon DEF WaitForOvfEnv, Goto, Disabled, ProvisionGuestAgent, Shape, Clean, Foreign, AfterCheck
<1>16. CASE WaitForSshHostKey
  BY <1>16, Zenon DEF WaitForSshHostKey, Goto, Shape, Clean, Foreign, AfterCheck
<1>17. CASE ReportProvisionStatus
  BY <1>17, Zenon DEF ReportProvisionStatus, Goto, Shape, Clean, Foreign, AfterCheck
<1>18. CASE SleepIfDisabled
  BY <1>18, Launched, Zenon DEF SleepIfDisabled, Goto, Shape, Clean, Foreign, AfterCheck
<1>19. CASE AgentStarts
  BY <1>19, Launched, Zenon DEF AgentStarts, Goto, Shape, Clean, Foreign, AfterCheck
<1>20. CASE EnsureNoOrphans
  BY <1>20, Zenon DEF EnsureNoOrphans, Goto, Kill, Shape, Clean, Foreign, AfterCheck
<1>21. CASE AgentWorks
  BY <1>21, Zenon DEF AgentWorks, Shape, Clean, Foreign, AfterCheck
<1>22. CASE AgentExits
  BY <1>22, Launched, Zenon DEF AgentExits, Shape, Clean, Foreign, AfterCheck
<1>23. CASE OrphanExits
  BY <1>23, Zenon DEF OrphanExits, Shape, Clean, Foreign, AfterCheck
<1>24. CASE Deprovision
  BY <1>24, Zenon DEF Deprovision, Shape, Clean, Foreign, AfterCheck
<1>25. CASE DoAction
  BY <1>25, Acted, SMTT(20) DEF Stopped, Passed, Cleared, Ended, Broken, Off, NoLib, Shape, Clean, Foreign,
    AfterCheck
<1>26. CASE UseDisk
  BY <1>26, Zenon DEF UseDisk, Shape, Clean, Foreign, AfterCheck
<1>27. CASE CloudInitCopiesOvf
  BY <1>27, Zenon DEF CloudInitCopiesOvf, Shape, Clean, Foreign, AfterCheck
<1>28. CASE CloudInitMakesKeys
  BY <1>28, Zenon DEF CloudInitMakesKeys, Shape, Clean, Foreign, AfterCheck
<1>29. CASE Reboot
  BY <1>29, Zenon DEF Reboot, Off, Shape, Clean, Foreign, AfterCheck
<1>30. CASE DaemonKilled
  BY <1>30, Zenon DEF DaemonKilled, Off, Shape, Clean, Foreign, AfterCheck
<1>31. CASE NewVm
  BY <1>31, Zenon DEF NewVm, Off, RecordsId, Ids, Shape, Clean, Foreign, AfterCheck
<1>32. CASE NetworkChanges
  BY <1>32, Zenon DEF NetworkChanges, Shape, Clean, Foreign, AfterCheck
<1>33. CASE UNCHANGED vars
  BY <1>33, Zenon DEF vars, Shape, Clean, Foreign, AfterCheck
<1>. QED
  BY <1>1, <1>2, <1>3, <1>4, <1>5, <1>6, <1>7, <1>8, <1>9, <1>10, <1>11, <1>12,
     <1>13, <1>14, <1>15, <1>16, <1>17, <1>18, <1>19, <1>20, <1>21, <1>22, <1>23,
     <1>24, <1>25, <1>26, <1>27, <1>28, <1>29, <1>30, <1>31, <1>32, <1>33,
     Zenon DEF Next, DaemonStep

(* The endpoint is cleared before it is used and found again; what an agent*)
(* saves is the WireServer of the VM that answered it.                     *)
LEMMA DiscoveredStep ==
    ASSUME Shape, Discovered, [Next]_vars
    PROVE  Discovered'
<1>1. CASE Start
  BY <1>1, Zenon DEF Start, Goto, Shape, Discovered
<1>2. CASE SetUpDisk
  BY <1>2, DiskSetUp, SMTT(20) DEF Goto, Shape, Discovered
<1>3. CASE ClearProtocol
  BY <1>3, ProtocolCleared, Zenon DEF Shape, Discovered
<1>4. CASE GetSavedProtocol
  BY <1>4, Zenon DEF GetSavedProtocol, SavedEndpoint, Shape, Discovered
<1>5. CASE DetectProtocol
  BY <1>5, Detected, Zenon DEF Shape, Discovered
<1>6. CASE CheckProvisioned
  BY <1>6, Zenon DEF CheckProvisioned, Goto, Handler, IsCurrentInstanceId, Shape, Discovered
<1>7. CASE CleanProtocol
  BY <1>7, Zenon DEF CleanProtocol, Goto, Restart, Shape, Discovered
<1>8. CASE CleanState
  BY <1>8, SMTT(20) DEF CleanState, Goto, Restart, Shape, Discovered
<1>9. CASE WriteCheckedId
  BY <1>9, Called, SMTT(20) DEF WriteCheckedId, Goto, Restart, WithInstanceId, Shape, Discovered
<1>10. CASE CopyOvfEnv
  BY <1>10, Called, SMTT(20) DEF CopyOvfEnv, Ejected, Shape, Discovered
<1>11. CASE Provision
  BY <1>11, Called, SMTT(20) DEF Provision, Goto, Shape, Discovered
<1>12. CASE RegSshHostKey
  BY <1>12, Called, SMTT(20) DEF RegSshHostKey, Goto, Shape, Discovered
<1>13. CASE WriteProvisioned
  BY <1>13, SMTT(20) DEF WriteProvisioned, Goto, Restart, WithInstanceId, Shape, Discovered
<1>14. CASE HandleGuestAgent
  BY <1>14, Called, Zenon DEF HandleGuestAgent, Goto, Restart, Disabled, ProvisionGuestAgent, Shape,
    Discovered
<1>15. CASE WaitForOvfEnv
  BY <1>15, SMTT(20) DEF WaitForOvfEnv, Goto, Disabled, ProvisionGuestAgent, Shape, Discovered
<1>16. CASE WaitForSshHostKey
  BY <1>16, Zenon DEF WaitForSshHostKey, Goto, Shape, Discovered
<1>17. CASE ReportProvisionStatus
  BY <1>17, Zenon DEF ReportProvisionStatus, Goto, Shape, Discovered
<1>18. CASE SleepIfDisabled
  BY <1>18, Launched, SMTT(20) DEF SleepIfDisabled, Goto, Shape, Discovered
<1>19. CASE AgentStarts
  BY <1>19, Launched, SMTT(20) DEF AgentStarts, Goto, Shape, Discovered
<1>20. CASE EnsureNoOrphans
  BY <1>20, Zenon DEF EnsureNoOrphans, Goto, Kill, Shape, Discovered
<1>21. CASE AgentWorks
  BY <1>21, Zenon DEF AgentWorks, Shape, Discovered
<1>22. CASE AgentExits
  BY <1>22, Launched, Zenon DEF AgentExits, Shape, Discovered
<1>23. CASE OrphanExits
  BY <1>23, Zenon DEF OrphanExits, Shape, Discovered
<1>24. CASE Deprovision
  BY <1>24, Zenon DEF Deprovision, Shape, Discovered
<1>25. CASE DoAction
  BY <1>25, Acted, SMTT(20) DEF Stopped, Passed, Cleared, Ended, Broken, Off, NoLib, Shape, Discovered
<1>26. CASE UseDisk
  BY <1>26, Zenon DEF UseDisk, Shape, Discovered
<1>27. CASE CloudInitCopiesOvf
  BY <1>27, Zenon DEF CloudInitCopiesOvf, Shape, Discovered
<1>28. CASE CloudInitMakesKeys
  BY <1>28, Zenon DEF CloudInitMakesKeys, Shape, Discovered
<1>29. CASE Reboot
  BY <1>29, Zenon DEF Reboot, Off, Shape, Discovered
<1>30. CASE DaemonKilled
  BY <1>30, Zenon DEF DaemonKilled, Off, Shape, Discovered
<1>31. CASE NewVm
  BY <1>31, SMTT(20) DEF NewVm, Off, RecordsId, Ids, Shape, Discovered, Servers
<1>32. CASE NetworkChanges
  BY <1>32, Zenon DEF NetworkChanges, Shape, Discovered
<1>33. CASE UNCHANGED vars
  BY <1>33, Zenon DEF vars, Shape, Discovered
<1>. QED
  BY <1>1, <1>2, <1>3, <1>4, <1>5, <1>6, <1>7, <1>8, <1>9, <1>10, <1>11, <1>12,
     <1>13, <1>14, <1>15, <1>16, <1>17, <1>18, <1>19, <1>20, <1>21, <1>22, <1>23,
     <1>24, <1>25, <1>26, <1>27, <1>28, <1>29, <1>30, <1>31, <1>32, <1>33,
     Zenon DEF Next, DaemonStep

(* Nobody writes state after a deprovisioning that was not cut short.      *)
LEMMA RemovedStep ==
    ASSUME Shape, Removed, [Next]_vars
    PROVE  Removed'
<1>1. CASE Start
  BY <1>1, SMTT(20) DEF Start, Goto, Shape, Removed
<1>2. CASE SetUpDisk
  BY <1>2, DiskSetUp, SMTT(20) DEF Goto, Shape, Removed
<1>3. CASE ClearProtocol
  <2>1. (past'.deprovisioned <=> past.deprovisioned) /\ (past'.cut <=> past.cut)
    BY <1>3, ProtocolCleared, Zenon
  <2>2. UNCHANGED <<orphan, dep>> /\ lib'.state = lib.state /\ proc.pc # "off"
    BY <1>3, ProtocolCleared, Zenon
  <2>. QED
    BY <2>1, <2>2, SMTT(20) DEF Removed
<1>4. CASE GetSavedProtocol
  BY <1>4, Zenon DEF GetSavedProtocol, SavedEndpoint, Shape, Removed
<1>5. CASE DetectProtocol
  BY <1>5, Detected, SMTT(20) DEF Shape, Removed
<1>6. CASE CheckProvisioned
  BY <1>6, Zenon DEF CheckProvisioned, Goto, Handler, IsCurrentInstanceId, Shape, Removed
<1>7. CASE CleanProtocol
  BY <1>7, Zenon DEF CleanProtocol, Goto, Restart, Shape, Removed
<1>8. CASE CleanState
  BY <1>8, Zenon DEF CleanState, Goto, Restart, Shape, Removed
<1>9. CASE WriteCheckedId
  BY <1>9, Called, Zenon DEF WriteCheckedId, Goto, Restart, WithInstanceId, Shape, Removed
<1>10. CASE CopyOvfEnv
  BY <1>10, Called, Zenon DEF CopyOvfEnv, Ejected, Shape, Removed
<1>11. CASE Provision
  BY <1>11, Called, Zenon DEF Provision, Goto, Shape, Removed
<1>12. CASE RegSshHostKey
  BY <1>12, Called, Zenon DEF RegSshHostKey, Goto, Shape, Removed
<1>13. CASE WriteProvisioned
  BY <1>13, Zenon DEF WriteProvisioned, Goto, Restart, WithInstanceId, Shape, Removed
<1>14. CASE HandleGuestAgent
  BY <1>14, Called, Zenon DEF HandleGuestAgent, Goto, Restart, Disabled, ProvisionGuestAgent, Shape,
    Removed
<1>15. CASE WaitForOvfEnv
  BY <1>15, Zenon DEF WaitForOvfEnv, Goto, Disabled, ProvisionGuestAgent, Shape, Removed
<1>16. CASE WaitForSshHostKey
  BY <1>16, Zenon DEF WaitForSshHostKey, Goto, Shape, Removed
<1>17. CASE ReportProvisionStatus
  BY <1>17, Zenon DEF ReportProvisionStatus, Goto, Shape, Removed
<1>18. CASE SleepIfDisabled
  BY <1>18, Launched, Zenon DEF SleepIfDisabled, Goto, Shape, Removed
<1>19. CASE AgentStarts
  BY <1>19, Launched, Zenon DEF AgentStarts, Goto, Shape, Removed
<1>20. CASE EnsureNoOrphans
  BY <1>20, Zenon DEF EnsureNoOrphans, Goto, Kill, Shape, Removed
<1>21. CASE AgentWorks
  BY <1>21, SMTT(20) DEF AgentWorks, Shape, Removed
<1>22. CASE AgentExits
  BY <1>22, Launched, Zenon DEF AgentExits, Shape, Removed
<1>23. CASE OrphanExits
  BY <1>23, Zenon DEF OrphanExits, Shape, Removed
<1>24. CASE Deprovision
  <2>1. dep'.step = 1 /\ UNCHANGED <<proc, lib, orphan>>
    BY <1>24, SMTT(20) DEF Deprovision
  <2>2. \E deluser : past'.deprovisioned = (deluser /\ lib.ovf # None /\ ~orphan)
    BY <1>24, Zenon DEF Deprovision, Shape
  <2>3. past'.deprovisioned => ~orphan
    BY <2>2, Zenon
  <2>. QED
    BY <2>1, <2>3, SMTT(20) DEF Removed
<1>25. CASE DoAction
  BY <1>25, Acted, SMTT(20) DEF Stopped, Passed, Cleared, Ended, Broken, Off, NoLib, Shape, Removed
<1>26. CASE UseDisk
  BY <1>26, Zenon DEF UseDisk, Shape, Removed
<1>27. CASE CloudInitCopiesOvf
  BY <1>27, Zenon DEF CloudInitCopiesOvf, Shape, Removed
<1>28. CASE CloudInitMakesKeys
  BY <1>28, Zenon DEF CloudInitMakesKeys, Shape, Removed
<1>29. CASE Reboot
  <2>1. dep'.step = 0 /\ proc'.pc = "off" /\ orphan' = FALSE /\ lib' = lib
    BY <1>29, Zenon DEF Reboot, Off
  <2>2. past'.deprovisioned = past.deprovisioned /\ past'.cut = (past.cut \/ dep.step > 0)
    BY <1>29, Zenon DEF Reboot, Shape
  <2>3. (past'.deprovisioned => past.deprovisioned) /\ (~past'.cut => ~past.cut /\ ~(dep.step > 0))
    BY <2>2, Zenon
  <2>. QED
    BY <2>1, <2>3, SMTT(20) DEF Removed
<1>30. CASE DaemonKilled
  BY <1>30, Zenon DEF DaemonKilled, Off, Shape, Removed
<1>31. CASE NewVm
  BY <1>31, Zenon DEF NewVm, Off, RecordsId, Ids, Shape, Removed
<1>32. CASE NetworkChanges
  BY <1>32, Zenon DEF NetworkChanges, Shape, Removed
<1>33. CASE UNCHANGED vars
  BY <1>33, Zenon DEF vars, Shape, Removed
<1>. QED
  BY <1>1, <1>2, <1>3, <1>4, <1>5, <1>6, <1>7, <1>8, <1>9, <1>10, <1>11, <1>12,
     <1>13, <1>14, <1>15, <1>16, <1>17, <1>18, <1>19, <1>20, <1>21, <1>22, <1>23,
     <1>24, <1>25, <1>26, <1>27, <1>28, <1>29, <1>30, <1>31, <1>32, <1>33,
     Zenon DEF Next, DaemonStep

(* The disk after it was set up.  One that another boot had prepared has   *)
(* its type, and nothing on it is lost.                                    *)
LEMMA DiskChanged ==
    ASSUME Shape, DiskIsKept, SetUpDisk
    PROVE  DiskIsKept' /\ (rdisk.data => rdisk'.data \/ past'.disk)
<1>1. CASE rdisk' = rdisk /\ past' = past
  BY <1>1, Zenon DEF DiskIsKept
<1>2. CASE ~rdisk.mounted /\ rdisk' = Mounted(Prepared(TRUE)) /\ past' = past
  <2>1. CASE rdisk.type = "linux"
    <3>1. DOMAIN rdisk' = DOMAIN rdisk /\ rdisk'.data = rdisk.data /\ rdisk'.type = "linux"
      BY <1>2, <2>1, Zenon DEF Mounted, Prepared, DiskIsKept
    <3>. QED
      BY <3>1, Zenon DEF DiskIsKept
  <2>2. CASE rdisk.type # "linux"
    <3>1. rdisk.data => past.disk
      BY <2>2, Zenon DEF DiskIsKept
    <3>2. DOMAIN rdisk' = DOMAIN rdisk /\ rdisk'.type = "linux"
      BY <1>2, <2>2, Zenon DEF Mounted, Prepared, DiskIsKept
    <3>. QED
      BY <1>2, <3>1, <3>2, Zenon DEF DiskIsKept
  <2>. QED
    BY <2>1, <2>2, Zenon
<1>3. CASE rdisk' \in DiskFailures /\ past' = [past EXCEPT !.disk = TRUE]
  <2>1. past'.disk = TRUE
    BY <1>3, Zenon DEF Shape
  <2>2. /\ DOMAIN Prepared(TRUE) = DOMAIN rdisk
        /\ DOMAIN Prepared(FALSE) = DOMAIN rdisk
    BY Zenon DEF Prepared
  <2>3. \A r : /\ DOMAIN Mounted(r) = DOMAIN r
               /\ DOMAIN Reformatted(r) = DOMAIN r
    BY Zenon DEF Mounted, Reformatted
  <2>4. DOMAIN rdisk' = DOMAIN rdisk
    BY <1>3, <2>2, <2>3, Zenon DEF DiskFailures
  <2>. QED
    BY <2>1, <2>4, Zenon DEF DiskIsKept
<1>. QED
  BY <1>1, <1>2, <1>3, Zenon DEF SetUpDisk

(* Every step keeps the type of a disk in use, and what is on it.          *)
LEMMA DiskIsKeptStep ==
    ASSUME IInv, DiskIsKept, [Next]_vars
    PROVE  DiskIsKept' /\ DiskDataStays
<1>1. CASE Start
  BY <1>1, Zenon DEF Start, IInv, Shape, DiskIsKept, DiskDataStays
<1>2. CASE SetUpDisk
  BY <1>2, DiskChanged, Zenon DEF IInv, DiskDataStays
<1>3. CASE ClearProtocol
  BY <1>3, ProtocolCleared, Zenon DEF IInv, Shape, DiskIsKept, DiskDataStays
<1>4. CASE GetSavedProtocol
  BY <1>4, Zenon DEF GetSavedProtocol, IInv, Shape, DiskIsKept, DiskDataStays
<1>5. CASE DetectProtocol
  BY <1>5, Zenon DEF DetectProtocol, DiskIsKept, DiskDataStays
<1>6. CASE CheckProvisioned
  BY <1>6, Zenon DEF CheckProvisioned, IInv, Shape, DiskIsKept, DiskDataStays
<1>7. CASE CleanProtocol
  BY <1>7, Zenon DEF CleanProtocol, IInv, Shape, DiskIsKept, DiskDataStays
<1>8. CASE CleanState
  BY <1>8, Zenon DEF CleanState, IInv, Shape, DiskIsKept, DiskDataStays
<1>9. CASE WriteCheckedId
  BY <1>9, Zenon DEF WriteCheckedId, IInv, Shape, DiskIsKept, DiskDataStays
<1>10. CASE CopyOvfEnv
  BY <1>10, Zenon DEF CopyOvfEnv, IInv, Shape, DiskIsKept, DiskDataStays
<1>11. CASE Provision
  BY <1>11, Zenon DEF Provision, IInv, Shape, DiskIsKept, DiskDataStays
<1>12. CASE RegSshHostKey
  BY <1>12, Zenon DEF RegSshHostKey, IInv, Shape, DiskIsKept, DiskDataStays
<1>13. CASE WriteProvisioned
  BY <1>13, Zenon DEF WriteProvisioned, IInv, Shape, DiskIsKept, DiskDataStays
<1>14. CASE HandleGuestAgent
  BY <1>14, Zenon DEF HandleGuestAgent, IInv, Shape, DiskIsKept, DiskDataStays
<1>15. CASE WaitForOvfEnv
  BY <1>15, Zenon DEF WaitForOvfEnv, IInv, Shape, DiskIsKept, DiskDataStays
<1>16. CASE WaitForSshHostKey
  BY <1>16, Zenon DEF WaitForSshHostKey, IInv, Shape, DiskIsKept, DiskDataStays
<1>17. CASE ReportProvisionStatus
  BY <1>17, Zenon DEF ReportProvisionStatus, IInv, Shape, DiskIsKept, DiskDataStays
<1>18. CASE SleepIfDisabled
  BY <1>18, Zenon DEF SleepIfDisabled, IInv, Shape, DiskIsKept, DiskDataStays
<1>19. CASE AgentStarts
  BY <1>19, Zenon DEF AgentStarts, IInv, Shape, DiskIsKept, DiskDataStays
<1>20. CASE EnsureNoOrphans
  BY <1>20, Zenon DEF EnsureNoOrphans, IInv, Shape, DiskIsKept, DiskDataStays
<1>21. CASE AgentWorks
  BY <1>21, Zenon DEF AgentWorks, IInv, Shape, DiskIsKept, DiskDataStays
<1>22. CASE AgentExits
  BY <1>22, Zenon DEF AgentExits, IInv, Shape, DiskIsKept, DiskDataStays
<1>23. CASE OrphanExits
  BY <1>23, Zenon DEF OrphanExits, IInv, Shape, DiskIsKept, DiskDataStays
<1>24. CASE Deprovision
  BY <1>24, Zenon DEF Deprovision, IInv, Shape, DiskIsKept, DiskDataStays
<1>25. CASE DoAction
  <2>1. /\ rdisk' = rdisk
        /\ \/ past' = [past EXCEPT !.cut = @ /\ dep.step # 5]
           \/ past' = [past EXCEPT !.cut = TRUE, !.deprovisioned = FALSE, !.image = IF Forgets THEN "legacy" ELSE @]
    BY <1>25, Zenon DEF DoAction
  <2>2. CASE past' = [past EXCEPT !.cut = @ /\ dep.step # 5]
    <3>1. past'.disk = past.disk
      BY <2>2, Zenon DEF IInv, Shape
    <3>. QED
      BY <2>1, <3>1, Zenon DEF DiskIsKept, DiskDataStays
  <2>3. CASE past' = [past EXCEPT !.cut = TRUE, !.deprovisioned = FALSE, !.image = IF Forgets THEN "legacy" ELSE @]
    <3>1. past'.disk = past.disk
      BY <2>3, Zenon DEF IInv, Shape
    <3>. QED
      BY <2>1, <3>1, Zenon DEF DiskIsKept, DiskDataStays
  <2>. QED
    BY <2>1, <2>2, <2>3, Zenon
<1>26. CASE UseDisk
  BY <1>26, Zenon DEF UseDisk, IInv, Shape, DiskIsKept, DiskDataStays
<1>27. CASE CloudInitCopiesOvf
  BY <1>27, Zenon DEF CloudInitCopiesOvf, IInv, Shape, DiskIsKept, DiskDataStays
<1>28. CASE CloudInitMakesKeys
  BY <1>28, Zenon DEF CloudInitMakesKeys, IInv, Shape, DiskIsKept, DiskDataStays
<1>29. CASE Reboot
  BY <1>29, Zenon DEF Reboot, IInv, Shape, DiskIsKept, DiskDataStays
<1>30. CASE DaemonKilled
  BY <1>30, Zenon DEF DaemonKilled, IInv, Shape, DiskIsKept, DiskDataStays
<1>31. CASE NewVm
  <2>1. vm'.id = vm.id + 1 /\ rdisk' = NewDisk
    BY <1>31, SMTT(20) DEF NewVm
  <2>2. vm'.id # vm.id
    BY <2>1, SMTT(20) DEF IInv, Marked
  <2>3. DiskIsKept'
    BY <2>1, Zenon DEF NewDisk, DiskIsKept
  <2>. QED
    BY <2>2, <2>3, Zenon DEF DiskDataStays
<1>32. CASE NetworkChanges
  BY <1>32, Zenon DEF NetworkChanges, IInv, Shape, DiskIsKept, DiskDataStays
<1>33. CASE UNCHANGED vars
  BY <1>33, Zenon DEF vars, IInv, Shape, DiskIsKept, DiskDataStays
<1>. QED
  BY <1>1, <1>2, <1>3, <1>4, <1>5, <1>6, <1>7, <1>8, <1>9, <1>10, <1>11, <1>12,
     <1>13, <1>14, <1>15, <1>16, <1>17, <1>18, <1>19, <1>20, <1>21, <1>22, <1>23,
     <1>24, <1>25, <1>26, <1>27, <1>28, <1>29, <1>30, <1>31, <1>32, <1>33,
     Zenon DEF Next, DaemonStep
(* What the other records have to do with accounts and host keys: setting  *)
(* up the disk and finding the WireServer leave them alone, ...            *)
LEMMA DiskLeavesAccounts ==
    ASSUME Shape, SetUpDisk
    PROVE  os' = os /\ past'.image = past.image
<1>1. os' = os /\ (past' = past \/ past' = [past EXCEPT !.disk = TRUE])
  BY Zenon DEF SetUpDisk
<1>. QED
  BY <1>1, Zenon DEF Shape

(* The discovery of the endpoint touches neither the accounts nor          *)
(* ovf-env.xml.                                                            *)
LEMMA OsDetected ==
    ASSUME Shape, OsShape, DetectProtocol
    PROVE  DOMAIN os' = DOMAIN os /\ os'.users = os.users /\ os'.hostkey = os.hostkey /\ lib'.ovf = lib.ovf
<1>1. DOMAIN os' = DOMAIN os /\ os'.users = os.users /\ os'.hostkey = os.hostkey
  BY Zenon DEF DetectProtocol, ConfRoutes, OsShape
<1>2. \/ lib' = [lib EXCEPT !.protocol = TRUE, !.endpoint = vm.server]
      \/ lib' = [lib EXCEPT !.endpoint = "none"]
  BY Zenon DEF DetectProtocol
<1>3. CASE lib' = [lib EXCEPT !.protocol = TRUE, !.endpoint = vm.server]
  <2>1. lib'.ovf = lib.ovf
    BY <1>3, Zenon DEF Shape
  <2>. QED
    BY <1>1, <2>1, Zenon
<1>4. CASE lib' = [lib EXCEPT !.endpoint = "none"]
  BY <1>1, <1>4, Zenon DEF Shape
<1>. QED
  BY <1>2, <1>3, <1>4, Zenon

(* ... a step of deprovisioning fails, or removes one of them, ...         *)
LEMMA OsActed ==
    ASSUME Shape, OsShape, DoAction
    PROVE  /\ DOMAIN os' = DOMAIN os
           /\ \/ /\ UNCHANGED <<os, lib, proc>> /\ dep'.step = 0
                 /\ past'.cut /\ ~past'.deprovisioned
                 /\ past'.image = IF Forgets THEN "legacy" ELSE past.image
              \/ /\ past'.image = past.image /\ past'.deprovisioned = past.deprovisioned
                 /\ past'.cut = (past.cut /\ dep.step # 5)
                 /\ dep.step # 5 => dep'.user = dep.user /\ os'.users = os.users
                 /\ dep.step = 5 => os'.users = os.users \ {dep.user}
                 /\ dep.step # 2 => os'.hostkey = os.hostkey
                 /\ Stopped \/ Passed \/ Cleared \/ Ended
<1> DEFINE none == [step |-> 0, user |-> None]
<1>1. CASE /\ dep' = none /\ UNCHANGED <<proc, lib, os>>
           /\ past' = [past EXCEPT !.cut = TRUE, !.deprovisioned = FALSE, !.image = IF Forgets THEN "legacy" ELSE @]
  <2>1. past'.cut = TRUE /\ past'.deprovisioned = FALSE /\ past'.image = IF Forgets THEN "legacy" ELSE past.image
    BY <1>1, Zenon DEF Shape
  <2>2. dep'.step = 0
    BY <1>1, Zenon
  <2>. QED
    BY <1>1, <2>1, <2>2, Zenon
<1>2. CASE /\ \/ dep.step = 1 /\ StopAgentService
              \/ dep.step = 2 /\ DelHostKeys
              \/ dep.step = 3 /\ DelDhcpLease
              \/ dep.step = 4 /\ DelDirs
              \/ dep.step = 5 /\ DelUser
           /\ dep' = IF dep.step = 5 THEN none ELSE [dep EXCEPT !.step = @ + 1]
           /\ past' = [past EXCEPT !.cut = @ /\ dep.step # 5]
  <2>1. /\ past'.image = past.image /\ past'.deprovisioned = past.deprovisioned
        /\ past'.cut = (past.cut /\ dep.step # 5)
    BY <1>2, Zenon DEF Shape
  <2>2. dep.step = 5 => dep'.step = 0
    BY <1>2, Zenon DEF Shape
  <2>3. dep.step # 5 => dep'.step = dep.step + 1 /\ dep'.user = dep.user
    BY <1>2, Zenon DEF Shape
  <2>4. /\ DOMAIN os' = DOMAIN os
        /\ dep.step # 5 => os'.users = os.users
        /\ dep.step = 5 => os'.users = os.users \ {dep.user}
        /\ dep.step # 2 => os'.hostkey = os.hostkey
    BY <1>2, SMTT(20) DEF StopAgentService, DelHostKeys, DelDhcpLease, DelDirs, DelUser, DelAccount, OsShape
  <2>5. Stopped \/ Passed \/ Cleared \/ Ended
    BY <1>2, <2>2, <2>3, SMTT(20) DEF StopAgentService, DelHostKeys, DelDhcpLease, DelDirs, DelUser, Stopped,
      Passed, Cleared, Ended
  <2>. QED
    BY <2>1, <2>3, <2>4, <2>5, Zenon
<1>. QED
  BY <1>1, <1>2, Zenon DEF DoAction

(* ... the command reads the account it will remove, ...                   *)
LEMMA UserRead ==
    ASSUME Shape, Deprovision
    PROVE  /\ UNCHANGED <<conf, vm, lib, os, proc>> /\ dep.step = 0
           /\ dep'.step = 1 /\ past'.cut = past.cut
           /\ past'.image # "legacy" => past'.image = past.image /\ dep'.user = lib.ovf
           /\ past'.deprovisioned => lib.ovf # None
<1>1. UNCHANGED <<conf, vm, lib, os, proc>> /\ dep.step = 0
  BY Zenon DEF Deprovision
<1>2. PICK deluser \in BOOLEAN :
          /\ dep' = [step |-> 1, user |-> IF deluser THEN lib.ovf ELSE None]
          /\ past' = [past EXCEPT !.deprovisioned = deluser /\ lib.ovf # None /\ ~orphan,
                                  !.image = IF deluser THEN @ ELSE "legacy"]
  BY Zenon DEF Deprovision
<1>3. dep'.step = 1 /\ dep'.user = IF deluser THEN lib.ovf ELSE None
  BY <1>2, Zenon
<1>4. /\ past'.image = IF deluser THEN past.image ELSE "legacy"
      /\ past'.cut = past.cut
      /\ past'.deprovisioned = (deluser /\ lib.ovf # None /\ ~orphan)
  BY <1>2, Zenon DEF Shape
<1>. QED
  BY <1>1, <1>3, <1>4, Zenon

(* ... a reboot ends the command, ...                                      *)
LEMMA Rebooted ==
    ASSUME Shape, OsShape, Reboot
    PROVE  /\ UNCHANGED <<conf, lib>> /\ proc' = Off /\ dep'.step = 0
           /\ vm'.id = vm.id
           /\ DOMAIN os' = DOMAIN os /\ os'.users = os.users /\ os'.hostkey = os.hostkey
           /\ past'.image = IF Forgets THEN "legacy" ELSE past.image
           /\ past'.deprovisioned = past.deprovisioned
           /\ past'.cut <=> past.cut \/ dep.step > 0
<1>1. UNCHANGED <<conf, lib>> /\ proc' = Off
  BY Zenon DEF Reboot
<1>2. dep'.step = 0 /\ vm'.id = vm.id
  BY Zenon DEF Reboot, Shape
<1>3. DOMAIN os' = DOMAIN os /\ os'.users = os.users /\ os'.hostkey = os.hostkey
  BY Zenon DEF Reboot, OsShape
<1>4. /\ past'.image = IF Forgets THEN "legacy" ELSE past.image
      /\ past'.deprovisioned = past.deprovisioned
      /\ past'.cut = (past.cut \/ dep.step > 0)
  BY Zenon DEF Reboot, Shape
<1>. QED
  BY <1>1, <1>2, <1>3, <1>4, Zenon

(* ... and the disk becomes the disk of the next VM as it is.              *)
LEMMA NextVm ==
    ASSUME Shape, OsShape, NewVm
    PROVE  /\ UNCHANGED <<conf, lib, dep>> /\ proc' = Off
           /\ dep.step = 0 /\ ~past.cut
           /\ vm'.id = vm.id + 1
           /\ DOMAIN os' = DOMAIN os /\ os'.users = os.users /\ os'.hostkey = os.hostkey
           /\ past.image = "legacy" => past'.image = "legacy"
           /\ past'.image # "legacy" => lib.provisioned \in Ids \/ past.deprovisioned
           /\ past.image # "legacy" => (past'.image = "clean" <=> past.deprovisioned)
           /\ ~past'.deprovisioned /\ ~past'.cut
<1>1. /\ UNCHANGED <<conf, lib, dep>> /\ proc' = Off
      /\ dep.step = 0 /\ ~past.cut
  BY Zenon DEF NewVm
<1>2. vm'.id = vm.id + 1
  BY SMTT(20) DEF NewVm
<1>3. DOMAIN os' = DOMAIN os /\ os'.users = os.users /\ os'.hostkey = os.hostkey
  BY Zenon DEF NewVm, OsShape
<1>4. /\ past'.image = IF past.image = "legacy" THEN past.image
                       ELSE IF past.deprovisioned THEN "clean"
                       ELSE IF RecordsId THEN "specialized" ELSE "legacy"
      /\ past'.deprovisioned = FALSE /\ past'.cut = past.cut
  BY Zenon DEF NewVm, Shape
<1>5. /\ past.image # "legacy" => (past'.image = "clean" <=> past.deprovisioned)
      /\ past'.image # "legacy" => lib.provisioned \in Ids \/ past.deprovisioned
  BY <1>4, Zenon DEF RecordsId
<1>. QED
  BY <1>1, <1>2, <1>3, <1>4, <1>5, Zenon

(* No step changes the fields of the accounts and keys.                    *)
LEMMA OsShapeStep ==
    ASSUME Shape, Marked, OsShape, [Next]_vars
    PROVE  OsShape'
<1>1. CASE Start
  BY <1>1, Zenon DEF Start, Goto, Shape, OsShape, Marked, None
<1>2. CASE SetUpDisk
  BY <1>2, DiskSetUp, DiskLeavesAccounts, Zenon DEF Goto, Shape, OsShape, Marked, None
<1>3. CASE ClearProtocol
  BY <1>3, ProtocolCleared, Zenon DEF Shape, OsShape, Marked, None
<1>4. CASE GetSavedProtocol
  BY <1>4, Zenon DEF GetSavedProtocol, SavedEndpoint, Shape, OsShape, Marked, None
<1>5. CASE DetectProtocol
  BY <1>5, Detected, OsDetected, Zenon DEF Shape, OsShape, Marked, None
<1>6. CASE CheckProvisioned
  BY <1>6, Zenon DEF CheckProvisioned, Goto, Handler, IsCurrentInstanceId, Shape, OsShape, Marked, None
<1>7. CASE CleanProtocol
  BY <1>7, Zenon DEF CleanProtocol, Goto, Restart, Shape, OsShape, Marked, None
<1>8. CASE CleanState
  BY <1>8, Zenon DEF CleanState, Goto, Restart, Shape, OsShape, Marked, None
<1>9. CASE WriteCheckedId
  BY <1>9, Called, Zenon DEF WriteCheckedId, Goto, Restart, WithInstanceId, Shape, OsShape, Marked, None
<1>10. CASE CopyOvfEnv
  BY <1>10, Called, Zenon DEF CopyOvfEnv, Ejected, Shape, OsShape, Marked, None
<1>11. CASE Provision
  BY <1>11, Called, Zenon DEF Provision, Goto, ConfigUserAccount, UserAdd, Shape, OsShape, Marked, None
<1>12. CASE RegSshHostKey
  BY <1>12, Called, Zenon DEF RegSshHostKey, Goto, Shape, OsShape, Marked, None
<1>13. CASE WriteProvisioned
  BY <1>13, Zenon DEF WriteProvisioned, Goto, Restart, WithInstanceId, Shape, OsShape, Marked, None
<1>14. CASE HandleGuestAgent
  BY <1>14, Called, Zenon DEF HandleGuestAgent, Goto, Restart, Disabled, ProvisionGuestAgent, Shape,
    OsShape, Marked, None
<1>15. CASE WaitForOvfEnv
  BY <1>15, Zenon DEF WaitForOvfEnv, Goto, Disabled, ProvisionGuestAgent, Shape, OsShape, Marked, None
<1>16. CASE WaitForSshHostKey
  BY <1>16, Zenon DEF WaitForSshHostKey, Goto, Shape, OsShape, Marked, None
<1>17. CASE ReportProvisionStatus
  BY <1>17, Zenon DEF ReportProvisionStatus, Goto, Shape, OsShape, Marked, None
<1>18. CASE SleepIfDisabled
  BY <1>18, Launched, Zenon DEF SleepIfDisabled, Goto, Shape, OsShape, Marked, None
<1>19. CASE AgentStarts
  BY <1>19, Launched, Zenon DEF AgentStarts, Goto, Shape, OsShape, Marked, None
<1>20. CASE EnsureNoOrphans
  BY <1>20, Zenon DEF EnsureNoOrphans, Goto, Kill, Shape, OsShape, Marked, None
<1>21. CASE AgentWorks
  BY <1>21, Zenon DEF AgentWorks, Shape, OsShape, Marked, None
<1>22. CASE AgentExits
  BY <1>22, Launched, Zenon DEF AgentExits, Shape, OsShape, Marked, None
<1>23. CASE OrphanExits
  BY <1>23, Zenon DEF OrphanExits, Shape, OsShape, Marked, None
<1>24. CASE Deprovision
  BY <1>24, UserRead, Zenon DEF Shape, OsShape, Marked, None
<1>25. CASE DoAction
  BY <1>25, Acted, OsActed, Zenon DEF Stopped, Passed, Cleared, Ended, NoLib, Forgets, Off, Shape, OsShape,
    Marked, None
<1>26. CASE UseDisk
  BY <1>26, Zenon DEF UseDisk, Shape, OsShape, Marked, None
<1>27. CASE CloudInitCopiesOvf
  BY <1>27, Zenon DEF CloudInitCopiesOvf, UserAdd, Shape, OsShape, Marked, None
<1>28. CASE CloudInitMakesKeys
  BY <1>28, Zenon DEF CloudInitMakesKeys, Shape, OsShape, Marked, None
<1>29. CASE Reboot
  BY <1>29, Rebooted, Zenon DEF Off, Shape, OsShape, Marked, None
<1>30. CASE DaemonKilled
  BY <1>30, Zenon DEF DaemonKilled, Shape, OsShape, Marked, None, Off
<1>31. CASE NewVm
  BY <1>31, NextVm, SMTT(20) DEF Off, Shape, OsShape, Marked, None
<1>32. CASE NetworkChanges
  BY <1>32, Zenon DEF NetworkChanges, Shape, OsShape, Marked, None
<1>33. CASE UNCHANGED vars
  BY <1>33, Zenon DEF vars, Shape, OsShape, Marked
<1>. QED
  BY <1>1, <1>2, <1>3, <1>4, <1>5, <1>6, <1>7, <1>8, <1>9, <1>10, <1>11, <1>12, <1>13, <1>14,
     <1>15, <1>16, <1>17, <1>18, <1>19, <1>20, <1>21, <1>22, <1>23, <1>24, <1>25, <1>26, <1>27,
     <1>28, <1>29, <1>30, <1>31, <1>32, <1>33, Zenon DEF
    Next, DaemonStep

(* Every account stays named.                                              *)
LEMMA NamedStep ==
    ASSUME Shape, Marked, Removed, OwnAccount, [Next]_vars
    PROVE  (Owned => Named)'
<1>1. CASE Start
  BY <1>1, SMTT(20) DEF Start, Goto, Shape, Owned, Removed, OwnAccount, OsShape, None, Named, Made, Copied,
    Marked
<1>2. CASE SetUpDisk
  BY <1>2, DiskSetUp, DiskLeavesAccounts, Zenon DEF Goto, Shape, Owned, Removed, OwnAccount, OsShape, None,
    Named, Made, Copied, Marked
<1>3. CASE ClearProtocol
  BY <1>3, ProtocolCleared, Zenon DEF Shape, Owned, Removed, OwnAccount, OsShape, None, Named, Made, Copied,
    Marked
<1>4. CASE GetSavedProtocol
  BY <1>4, Zenon DEF GetSavedProtocol, SavedEndpoint, Shape, Owned, Removed, OwnAccount, OsShape, None,
    Named, Made, Copied, Marked
<1>5. CASE DetectProtocol
  BY <1>5, Detected, OsDetected, SMTT(20) DEF Shape, Owned, Removed, OwnAccount, OsShape, None, Named, Made,
    Copied, Marked
<1>6. CASE CheckProvisioned
  BY <1>6, Zenon DEF CheckProvisioned, Goto, Handler, IsCurrentInstanceId, Shape, Owned, Removed,
    OwnAccount, OsShape, None, Named, Made, Copied, Marked
<1>7. CASE CleanProtocol
  BY <1>7, Zenon DEF CleanProtocol, Goto, Restart, Shape, Owned, Removed, OwnAccount, OsShape, None, Named,
    Made, Copied, Marked
<1>8. CASE CleanState
  BY <1>8, SMTT(20) DEF CleanState, Goto, Restart, Shape, Owned, Removed, OwnAccount, OsShape, None, Named,
    Made, Copied, Marked
<1>9. CASE WriteCheckedId
  BY <1>9, Called, SMTT(20) DEF WriteCheckedId, Goto, Restart, WithInstanceId, Shape, Owned, Removed,
    OwnAccount, OsShape, None, Named, Made, Copied, Marked
<1>10. CASE CopyOvfEnv
  BY <1>10, Called, SMTT(20) DEF CopyOvfEnv, Ejected, Shape, Owned, Removed, OwnAccount, OsShape, None, Named,
    Made, Copied, Marked
<1>11. CASE Provision
  BY <1>11, Called, SMTT(20) DEF Provision, Goto, ConfigUserAccount, UserAdd, Shape, Owned, Removed,
    OwnAccount, OsShape, None, Named, Made, Copied, Marked
<1>12. CASE RegSshHostKey
  BY <1>12, Called, SMTT(20) DEF RegSshHostKey, Goto, Shape, Owned, Removed, OwnAccount, OsShape, None, Named,
    Made, Copied, Marked
<1>13. CASE WriteProvisioned
  BY <1>13, SMTT(20) DEF WriteProvisioned, Goto, Restart, WithInstanceId, Shape, Owned, Removed, OwnAccount,
    OsShape, None, Named, Made, Copied, Marked
<1>14. CASE HandleGuestAgent
  BY <1>14, Called, SMTT(20) DEF HandleGuestAgent, Goto, Restart, Disabled, ProvisionGuestAgent, Shape, Owned,
    Removed, OwnAccount, OsShape, None, Named, Made, Copied, Marked
<1>15. CASE WaitForOvfEnv
  BY <1>15, Zenon DEF WaitForOvfEnv, Goto, Disabled, ProvisionGuestAgent, Shape, Owned, Removed,
    OwnAccount, OsShape, None, Named, Made, Copied, Marked
<1>16. CASE WaitForSshHostKey
  BY <1>16, Zenon DEF WaitForSshHostKey, Goto, Shape, Owned, Removed, OwnAccount, OsShape, None, Named,
    Made, Copied, Marked
<1>17. CASE ReportProvisionStatus
  BY <1>17, Zenon DEF ReportProvisionStatus, Goto, Shape, Owned, Removed, OwnAccount, OsShape, None, Named,
    Made, Copied, Marked
<1>18. CASE SleepIfDisabled
  BY <1>18, Launched, Zenon DEF SleepIfDisabled, Goto, Shape, Owned, Removed, OwnAccount, OsShape, None,
    Named, Made, Copied, Marked
<1>19. CASE AgentStarts
  BY <1>19, Launched, Zenon DEF AgentStarts, Goto, Shape, Owned, Removed, OwnAccount, OsShape, None, Named,
    Made, Copied, Marked
<1>20. CASE EnsureNoOrphans
  BY <1>20, Zenon DEF EnsureNoOrphans, Goto, Kill, Shape, Owned, Removed, OwnAccount, OsShape, None, Named,
    Made, Copied, Marked
<1>21. CASE AgentWorks
  BY <1>21, Zenon DEF AgentWorks, Shape, Owned, Removed, OwnAccount, OsShape, None, Named, Made, Copied,
    Marked
<1>22. CASE AgentExits
  BY <1>22, Launched, Zenon DEF AgentExits, Shape, Owned, Removed, OwnAccount, OsShape, None, Named, Made,
    Copied, Marked
<1>23. CASE OrphanExits
  BY <1>23, Zenon DEF OrphanExits, Shape, Owned, Removed, OwnAccount, OsShape, None, Named, Made, Copied,
    Marked
<1>24. CASE Deprovision
  BY <1>24, UserRead, SMTT(20) DEF Shape, Owned, Removed, OwnAccount, OsShape, None, Named, Made, Copied,
    Marked
<1>25. CASE DoAction
  BY <1>25, Acted, OsActed, SMTT(20) DEF Stopped, Passed, Cleared, Ended, NoLib, Forgets, Off, Shape, Owned,
    Removed, OwnAccount, OsShape, None, Named, Made, Copied, Marked
<1>26. CASE UseDisk
  BY <1>26, Zenon DEF UseDisk, Shape, Owned, Removed, OwnAccount, OsShape, None, Named, Made, Copied,
    Marked
<1>27. CASE CloudInitCopiesOvf
  BY <1>27, Zenon DEF CloudInitCopiesOvf, UserAdd, Shape, Owned, Removed, OwnAccount, OsShape, None, Named,
    Made, Copied, Marked
<1>28. CASE CloudInitMakesKeys
  BY <1>28, Zenon DEF CloudInitMakesKeys, Shape, Owned, Removed, OwnAccount, OsShape, None, Named, Made,
    Copied, Marked
<1>29. CASE Reboot
  <2> SUFFICES ASSUME Owned' PROVE Named'
    BY Zenon
  <2>1. /\ UNCHANGED <<conf, lib>> /\ dep'.step = 0 /\ vm'.id = vm.id /\ os'.users = os.users
        /\ past'.deprovisioned = past.deprovisioned
        /\ past'.cut <=> past.cut \/ dep.step > 0
    BY <1>29, Rebooted, Zenon DEF OwnAccount
  <2>2. past.image # "legacy" /\ ~Forgets
    BY <1>29, Rebooted, Zenon DEF OwnAccount, Owned
  <2>3. Named
    BY <2>1, <2>2, Zenon DEF OwnAccount, Owned
  <2>4. past'.deprovisioned /\ ~past'.cut => past.deprovisioned /\ ~past.cut /\ dep.step = 0
    <3>1. dep.step \in 0..5
      BY Zenon DEF Removed
    <3>2. dep.step > 0 \/ dep.step = 0
      BY <3>1, SMTT(20)
    <3>. QED
      BY <2>1, <3>2, Zenon
  <2>. QED
    BY <2>1, <2>2, <2>3, <2>4, SMTT(20) DEF Named, Forgets, Removed, None
<1>30. CASE DaemonKilled
  BY <1>30, Zenon DEF DaemonKilled, Shape, Owned, Removed, OwnAccount, OsShape, None, Named, Made, Copied,
    Marked, Off
<1>31. CASE NewVm
  <2> SUFFICES ASSUME Owned' PROVE Named'
    BY Zenon
  <2>1. /\ UNCHANGED <<conf, lib, dep>> /\ dep.step = 0 /\ vm'.id = vm.id + 1 /\ os'.users = os.users
        /\ ~past'.deprovisioned /\ ~past.cut /\ (lib.provisioned \in Ids \/ past.deprovisioned)
        /\ past.image # "legacy"
    BY <1>31, NextVm, Zenon DEF OwnAccount, Owned
  <2>2. Named
    BY <2>1, Zenon DEF OwnAccount, Owned
  <2>3. CASE past.deprovisioned
    BY <2>1, <2>2, <2>3, Zenon DEF Named
  <2>4. CASE lib.provisioned \in Ids
    BY <2>1, <2>2, <2>4, SMTT(20) DEF Named, Ids, None
  <2>. QED
    BY <2>1, <2>3, <2>4, Zenon
<1>32. CASE NetworkChanges
  BY <1>32, Zenon DEF NetworkChanges, Shape, Owned, Removed, OwnAccount, OsShape, None, Named, Made,
    Copied, Marked
<1>33. CASE UNCHANGED vars
  BY <1>33, Zenon DEF vars, Shape, Owned, Removed, OwnAccount, OsShape, Named, Made, Copied, Marked
<1>. QED
  BY <1>1, <1>2, <1>3, <1>4, <1>5, <1>6, <1>7, <1>8, <1>9, <1>10, <1>11, <1>12, <1>13, <1>14,
     <1>15, <1>16, <1>17, <1>18, <1>19, <1>20, <1>21, <1>22, <1>23, <1>24, <1>25, <1>26, <1>27,
     <1>28, <1>29, <1>30, <1>31, <1>32, <1>33, Zenon DEF
    Next, DaemonStep

(* Provisioning makes the account and the keys before it marks the VM.     *)
LEMMA MadeStep ==
    ASSUME Shape, Marked, Removed, OwnAccount, Discovered, [Next]_vars
    PROVE  (Owned => Made)'
<1>1. CASE Start
  BY <1>1, SMTT(20) DEF Start, Goto, Shape, Owned, Removed, OwnAccount, OsShape, None, Discovered, Named,
    Made, Copied
<1>2. CASE SetUpDisk
  BY <1>2, DiskSetUp, DiskLeavesAccounts, SMTT(20) DEF Goto, Shape, Owned, Removed, OwnAccount, OsShape, None,
    Discovered, Named, Made, Copied
<1>3. CASE ClearProtocol
  BY <1>3, ProtocolCleared, Zenon DEF Shape, Owned, Removed, OwnAccount, OsShape, None, Discovered, Named,
    Made, Copied
<1>4. CASE GetSavedProtocol
  BY <1>4, Zenon DEF GetSavedProtocol, SavedEndpoint, Shape, Owned, Removed, OwnAccount, OsShape, None,
    Discovered, Named, Made, Copied
<1>5. CASE DetectProtocol
  BY <1>5, Detected, OsDetected, Zenon DEF Shape, Owned, Removed, OwnAccount, OsShape, None, Discovered,
    Named, Made, Copied
<1>6. CASE CheckProvisioned
  BY <1>6, Zenon DEF CheckProvisioned, Goto, Handler, IsCurrentInstanceId, Shape, Owned, Removed,
    OwnAccount, OsShape, None, Discovered, Named, Made, Copied
<1>7. CASE CleanProtocol
  BY <1>7, SMTT(20) DEF CleanProtocol, Goto, Restart, Shape, Owned, Removed, OwnAccount, OsShape, None,
    Discovered, Named, Made, Copied
<1>8. CASE CleanState
  BY <1>8, SMTT(20) DEF CleanState, Goto, Restart, Shape, Owned, Removed, OwnAccount, OsShape, None,
    Discovered, Named, Made, Copied
<1>9. CASE WriteCheckedId
  BY <1>9, Called, SMTT(20) DEF WriteCheckedId, Goto, Restart, WithInstanceId, Shape, Owned, Removed,
    OwnAccount, OsShape, None, Discovered, Named, Made, Copied
<1>10. CASE CopyOvfEnv
  BY <1>10, Called, SMTT(20) DEF CopyOvfEnv, Ejected, Shape, Owned, Removed, OwnAccount, OsShape, None,
    Discovered, Named, Made, Copied
<1>11. CASE Provision
  BY <1>11, Called, SMTT(20) DEF Provision, Goto, ConfigUserAccount, UserAdd, Shape, Owned, Removed,
    OwnAccount, OsShape, None, Discovered, Named, Made, Copied
<1>12. CASE RegSshHostKey
  BY <1>12, Called, SMTT(20) DEF RegSshHostKey, Goto, Shape, Owned, Removed, OwnAccount, OsShape, None,
    Discovered, Named, Made, Copied
<1>13. CASE WriteProvisioned
  BY <1>13, SMTT(20) DEF WriteProvisioned, Goto, Restart, WithInstanceId, Shape, Owned, Removed, OwnAccount,
    OsShape, None, Discovered, Named, Made, Copied
<1>14. CASE HandleGuestAgent
  BY <1>14, Called, SMTT(20) DEF HandleGuestAgent, Goto, Restart, Disabled, ProvisionGuestAgent, Shape, Owned,
    Removed, OwnAccount, OsShape, None, Discovered, Named, Made, Copied
<1>15. CASE WaitForOvfEnv
  BY <1>15, Zenon DEF WaitForOvfEnv, Goto, Disabled, ProvisionGuestAgent, Shape, Owned, Removed,
    OwnAccount, OsShape, None, Discovered, Named, Made, Copied
<1>16. CASE WaitForSshHostKey
  BY <1>16, Zenon DEF WaitForSshHostKey, Goto, Shape, Owned, Removed, OwnAccount, OsShape, None,
    Discovered, Named, Made, Copied
<1>17. CASE ReportProvisionStatus
  BY <1>17, Zenon DEF ReportProvisionStatus, Goto, Shape, Owned, Removed, OwnAccount, OsShape, None,
    Discovered, Named, Made, Copied
<1>18. CASE SleepIfDisabled
  BY <1>18, Launched, SMTT(20) DEF SleepIfDisabled, Goto, Shape, Owned, Removed, OwnAccount, OsShape, None,
    Discovered, Named, Made, Copied
<1>19. CASE AgentStarts
  BY <1>19, Launched, SMTT(20) DEF AgentStarts, Goto, Shape, Owned, Removed, OwnAccount, OsShape, None,
    Discovered, Named, Made, Copied
<1>20. CASE EnsureNoOrphans
  BY <1>20, Zenon DEF EnsureNoOrphans, Goto, Kill, Shape, Owned, Removed, OwnAccount, OsShape, None,
    Discovered, Named, Made, Copied
<1>21. CASE AgentWorks
  BY <1>21, Zenon DEF AgentWorks, Shape, Owned, Removed, OwnAccount, OsShape, None, Discovered, Named,
    Made, Copied
<1>22. CASE AgentExits
  BY <1>22, Launched, Zenon DEF AgentExits, Shape, Owned, Removed, OwnAccount, OsShape, None, Discovered,
    Named, Made, Copied
<1>23. CASE OrphanExits
  BY <1>23, Zenon DEF OrphanExits, Shape, Owned, Removed, OwnAccount, OsShape, None, Discovered, Named,
    Made, Copied
<1>24. CASE Deprovision
  BY <1>24, UserRead, SMTT(20) DEF Shape, Owned, Removed, OwnAccount, OsShape, None, Discovered, Named, Made,
    Copied
<1>25. CASE DoAction
  BY <1>25, Acted, OsActed, SMTT(20) DEF Stopped, Passed, Cleared, Ended, NoLib, Forgets, Off, Shape, Owned,
    Removed, OwnAccount, OsShape, None, Discovered, Named, Made, Copied
<1>26. CASE UseDisk
  BY <1>26, Zenon DEF UseDisk, Shape, Owned, Removed, OwnAccount, OsShape, None, Discovered, Named, Made,
    Copied
<1>27. CASE CloudInitCopiesOvf
  BY <1>27, Zenon DEF CloudInitCopiesOvf, UserAdd, Shape, Owned, Removed, OwnAccount, OsShape, None,
    Discovered, Named, Made, Copied
<1>28. CASE CloudInitMakesKeys
  BY <1>28, Zenon DEF CloudInitMakesKeys, Shape, Owned, Removed, OwnAccount, OsShape, None, Discovered,
    Named, Made, Copied
<1>29. CASE Reboot
  BY <1>29, Rebooted, SMTT(20) DEF Off, Shape, Owned, Removed, OwnAccount, OsShape, None, Discovered, Named,
    Made, Copied
<1>30. CASE DaemonKilled
  BY <1>30, Zenon DEF DaemonKilled, Shape, Owned, Removed, OwnAccount, OsShape, None, Discovered, Named,
    Made, Copied, Off
<1>31. CASE NewVm
  BY <1>31, NextVm, SMTT(20) DEF Off, Shape, Owned, Removed, OwnAccount, OsShape, None, Discovered, Named,
    Made, Copied
<1>32. CASE NetworkChanges
  BY <1>32, Zenon DEF NetworkChanges, Shape, Owned, Removed, OwnAccount, OsShape, None, Discovered, Named,
    Made, Copied
<1>33. CASE UNCHANGED vars
  BY <1>33, Zenon DEF vars, Shape, Owned, Removed, OwnAccount, OsShape, Discovered, Named, Made, Copied
<1>. QED
  BY <1>1, <1>2, <1>3, <1>4, <1>5, <1>6, <1>7, <1>8, <1>9, <1>10, <1>11, <1>12, <1>13, <1>14,
     <1>15, <1>16, <1>17, <1>18, <1>19, <1>20, <1>21, <1>22, <1>23, <1>24, <1>25, <1>26, <1>27,
     <1>28, <1>29, <1>30, <1>31, <1>32, <1>33, Zenon DEF
    Next, DaemonStep

(* Only deprovisioning removes them.                                       *)
LEMMA KeptStep ==
    ASSUME Shape, Marked, Removed, OwnAccount, Discovered, [Next]_vars
    PROVE  (Owned => Kept)'
<1>1. CASE Start
  BY <1>1, SMTT(20) DEF Start, Goto, Shape, Owned, Removed, OwnAccount, OsShape, None, Discovered, Named,
    Made, Kept, Copied, Marked
<1>2. CASE SetUpDisk
  BY <1>2, DiskSetUp, DiskLeavesAccounts, SMTT(20) DEF Goto, Shape, Owned, Removed, OwnAccount, OsShape, None,
    Discovered, Named, Made, Kept, Copied, Marked
<1>3. CASE ClearProtocol
  BY <1>3, ProtocolCleared, Zenon DEF Shape, Owned, Removed, OwnAccount, OsShape, None, Discovered, Named,
    Made, Kept, Copied, Marked
<1>4. CASE GetSavedProtocol
  BY <1>4, Zenon DEF GetSavedProtocol, SavedEndpoint, Shape, Owned, Removed, OwnAccount, OsShape, None,
    Discovered, Named, Made, Kept, Copied, Marked
<1>5. CASE DetectProtocol
  BY <1>5, Detected, OsDetected, SMTT(20) DEF Shape, Owned, Removed, OwnAccount, OsShape, None, Discovered,
    Named, Made, Kept, Copied, Marked
<1>6. CASE CheckProvisioned
  BY <1>6, Zenon DEF CheckProvisioned, Goto, Handler, IsCurrentInstanceId, Shape, Owned, Removed,
    OwnAccount, OsShape, None, Discovered, Named, Made, Kept, Copied, Marked
<1>7. CASE CleanProtocol
  BY <1>7, Zenon DEF CleanProtocol, Goto, Restart, Shape, Owned, Removed, OwnAccount, OsShape, None,
    Discovered, Named, Made, Kept, Copied, Marked
<1>8. CASE CleanState
  BY <1>8, Zenon DEF CleanState, Goto, Restart, Shape, Owned, Removed, OwnAccount, OsShape, None,
    Discovered, Named, Made, Kept, Copied, Marked
<1>9. CASE WriteCheckedId
  BY <1>9, Called, Zenon DEF WriteCheckedId, Goto, Restart, WithInstanceId, Shape, Owned, Removed,
    OwnAccount, OsShape, None, Discovered, Named, Made, Kept, Copied, Marked
<1>10. CASE CopyOvfEnv
  BY <1>10, Called, SMTT(20) DEF CopyOvfEnv, Ejected, Shape, Owned, Removed, OwnAccount, OsShape, None,
    Discovered, Named, Made, Kept, Copied, Marked
<1>11. CASE Provision
  BY <1>11, Called, SMTT(20) DEF Provision, Goto, ConfigUserAccount, UserAdd, Shape, Owned, Removed,
    OwnAccount, OsShape, None, Discovered, Named, Made, Kept, Copied, Marked
<1>12. CASE RegSshHostKey
  BY <1>12, Called, SMTT(20) DEF RegSshHostKey, Goto, Shape, Owned, Removed, OwnAccount, OsShape, None,
    Discovered, Named, Made, Kept, Copied, Marked
<1>13. CASE WriteProvisioned
  BY <1>13, SMTT(20) DEF WriteProvisioned, Goto, Restart, WithInstanceId, Shape, Owned, Removed, OwnAccount,
    OsShape, None, Discovered, Named, Made, Kept, Copied, Marked
<1>14. CASE HandleGuestAgent
  BY <1>14, Called, SMTT(20) DEF HandleGuestAgent, Goto, Restart, Disabled, ProvisionGuestAgent, Shape, Owned,
    Removed, OwnAccount, OsShape, None, Discovered, Named, Made, Kept, Copied, Marked
<1>15. CASE WaitForOvfEnv
  BY <1>15, Zenon DEF WaitForOvfEnv, Goto, Disabled, ProvisionGuestAgent, Shape, Owned, Removed,
    OwnAccount, OsShape, None, Discovered, Named, Made, Kept, Copied, Marked
<1>16. CASE WaitForSshHostKey
  BY <1>16, Zenon DEF WaitForSshHostKey, Goto, Shape, Owned, Removed, OwnAccount, OsShape, None,
    Discovered, Named, Made, Kept, Copied, Marked
<1>17. CASE ReportProvisionStatus
  BY <1>17, Zenon DEF ReportProvisionStatus, Goto, Shape, Owned, Removed, OwnAccount, OsShape, None,
    Discovered, Named, Made, Kept, Copied, Marked
<1>18. CASE SleepIfDisabled
  BY <1>18, Launched, SMTT(20) DEF SleepIfDisabled, Goto, Shape, Owned, Removed, OwnAccount, OsShape, None,
    Discovered, Named, Made, Kept, Copied, Marked
<1>19. CASE AgentStarts
  BY <1>19, Launched, SMTT(20) DEF AgentStarts, Goto, Shape, Owned, Removed, OwnAccount, OsShape, None,
    Discovered, Named, Made, Kept, Copied, Marked
<1>20. CASE EnsureNoOrphans
  BY <1>20, Zenon DEF EnsureNoOrphans, Goto, Kill, Shape, Owned, Removed, OwnAccount, OsShape, None,
    Discovered, Named, Made, Kept, Copied, Marked
<1>21. CASE AgentWorks
  BY <1>21, Zenon DEF AgentWorks, Shape, Owned, Removed, OwnAccount, OsShape, None, Discovered, Named,
    Made, Kept, Copied, Marked
<1>22. CASE AgentExits
  BY <1>22, Launched, Zenon DEF AgentExits, Shape, Owned, Removed, OwnAccount, OsShape, None, Discovered,
    Named, Made, Kept, Copied, Marked
<1>23. CASE OrphanExits
  BY <1>23, Zenon DEF OrphanExits, Shape, Owned, Removed, OwnAccount, OsShape, None, Discovered, Named,
    Made, Kept, Copied, Marked
<1>24. CASE Deprovision
  BY <1>24, UserRead, SMTT(20) DEF Shape, Owned, Removed, OwnAccount, OsShape, None, Discovered, Named, Made,
    Kept, Copied, Marked
<1>25. CASE DoAction
  <2> SUFFICES ASSUME Owned' PROVE Kept'
    BY Zenon
  <2>1. CASE /\ UNCHANGED <<os, lib, proc>> /\ past'.cut
             /\ past'.image = IF Forgets THEN "legacy" ELSE past.image
    <3>1. past'.image = past.image
      BY <2>1, Zenon DEF Owned
    <3>2. Kept /\ UNCHANGED <<conf, vm>>
      BY <1>25, <3>1, Acted, Zenon DEF OwnAccount, Owned
    <3>. QED
      BY <2>1, <3>1, <3>2, Zenon DEF Kept
  <2>2. CASE /\ past'.image = past.image
             /\ past'.cut = (past.cut /\ dep.step # 5)
             /\ dep.step # 5 => os'.users = os.users
             /\ dep.step # 2 => os'.hostkey = os.hostkey
             /\ Stopped \/ Passed \/ Cleared \/ Ended
    <3>1. Named /\ Kept /\ UNCHANGED <<conf, vm>>
      BY <1>25, <2>2, Acted, Zenon DEF OwnAccount, Owned
    <3>2. (dep.step # 5 /\ past.cut => past'.cut)
      BY <2>2, Zenon
    <3>. QED
      BY <2>2, <3>1, <3>2, SMTT(20) DEF Named, Kept, Stopped, Passed, Cleared, Ended, NoLib, Off, OwnAccount,
        OsShape, None, Removed
  <2>. QED
    BY <1>25, <2>1, <2>2, OsActed, Zenon DEF OwnAccount
<1>26. CASE UseDisk
  BY <1>26, Zenon DEF UseDisk, Shape, Owned, Removed, OwnAccount, OsShape, None, Discovered, Named, Made,
    Kept, Copied, Marked
<1>27. CASE CloudInitCopiesOvf
  BY <1>27, Zenon DEF CloudInitCopiesOvf, UserAdd, Shape, Owned, Removed, OwnAccount, OsShape, None,
    Discovered, Named, Made, Kept, Copied, Marked
<1>28. CASE CloudInitMakesKeys
  BY <1>28, Zenon DEF CloudInitMakesKeys, Shape, Owned, Removed, OwnAccount, OsShape, None, Discovered,
    Named, Made, Kept, Copied, Marked
<1>29. CASE Reboot
  BY <1>29, Rebooted, SMTT(20) DEF Off, Shape, Owned, Removed, OwnAccount, OsShape, None, Discovered, Named,
    Made, Kept, Copied, Marked
<1>30. CASE DaemonKilled
  BY <1>30, Zenon DEF DaemonKilled, Shape, Owned, Removed, OwnAccount, OsShape, None, Discovered, Named,
    Made, Kept, Copied, Marked, Off
<1>31. CASE NewVm
  BY <1>31, NextVm, SMTT(20) DEF Off, Shape, Owned, Removed, OwnAccount, OsShape, None, Discovered, Named,
    Made, Kept, Copied, Marked
<1>32. CASE NetworkChanges
  BY <1>32, Zenon DEF NetworkChanges, Shape, Owned, Removed, OwnAccount, OsShape, None, Discovered, Named,
    Made, Kept, Copied, Marked
<1>33. CASE UNCHANGED vars
  BY <1>33, Zenon DEF vars, Shape, Owned, Removed, OwnAccount, OsShape, Discovered, Named, Made, Kept,
    Copied, Marked
<1>. QED
  BY <1>1, <1>2, <1>3, <1>4, <1>5, <1>6, <1>7, <1>8, <1>9, <1>10, <1>11, <1>12, <1>13, <1>14,
     <1>15, <1>16, <1>17, <1>18, <1>19, <1>20, <1>21, <1>22, <1>23, <1>24, <1>25, <1>26, <1>27,
     <1>28, <1>29, <1>30, <1>31, <1>32, <1>33, Zenon DEF
    Next, DaemonStep


(* A clean image, or the disk of an agent that did not record the id.      *)
LEMMA InitIInv == Init => IInv /\ DiskIsKept
<1> SUFFICES ASSUME Init PROVE IInv /\ DiskIsKept
  BY Zenon
<1>1. /\ vm \in [id : {1}, server : {"known"}, dvd : {TRUE}]
      /\ past \in [image : {"clean", "legacy"}, deprovisioned : {FALSE}, cut : {FALSE},
                  disk : {FALSE}, unrecorded : {FALSE}, uncleared : {FALSE}]
      /\ lib = NoLib \/ lib = [NoLib EXCEPT !.provisioned = Empty, !.state = 1]
      /\ proc = Off /\ orphan = FALSE /\ rdisk = NewDisk
      /\ dep = [step |-> 0, user |-> None]
  BY Zenon DEF Init
<1>2. vm.id = 1 /\ vm.server = "known" /\ ~past.deprovisioned
  <2>1. vm.id = 1 /\ vm.server = "known"
    BY <1>1, Zenon
  <2>2. past.deprovisioned \in {FALSE}
    BY <1>1, Zenon
  <2>. QED
    BY <2>1, <2>2, Zenon
<1>3. DOMAIN lib = DOMAIN NoLib /\ lib.provisioned \in {None, Empty} /\ lib.state \in {None, 1}
  <2>1. CASE lib = NoLib
    BY <2>1, Zenon DEF NoLib
  <2>2. CASE lib = [NoLib EXCEPT !.provisioned = Empty, !.state = 1]
    BY <2>2, Zenon DEF NoLib
  <2>. QED
    BY <1>1, <2>1, <2>2, Zenon
<1>4. Shape
  BY <1>1, <1>3, Zenon DEF Shape, NoLib, Off
<1>5. Marked /\ Clean
  BY <1>1, <1>2, <1>3, SMTT(20) DEF Marked, Clean, Foreign, AfterCheck, None, Empty, Off
<1>6. Discovered /\ Removed
  BY <1>1, <1>2, SMTT(20) DEF Discovered, Removed, Off
<1>7. DiskIsKept
  BY <1>1, Zenon DEF DiskIsKept, NewDisk
<1>. QED
  BY <1>4, <1>5, <1>6, <1>7, Zenon DEF IInv

(* The five parts together are inductive.                                  *)
LEMMA NextIInv == IInv /\ [Next]_vars => IInv'
BY ShapeStep, MarkedStep, CleanStep, DiscoveredStep, RemovedStep, Zenon DEF IInv

(* The agent never starts with goal states of another VM, or settings and  *)
(* statuses of its extensions, which run_changed_unique_id has removed,    *)
(* unless provisioning is disabled or a VM had not recorded its id when    *)
(* its disk went to another; and never with the WireServer of another VM,  *)
(* unless clear_protocol could not delete the file Protocol.  This holds   *)
(* for any number of VMs, reboots, outages, crashes and failures.          *)
THEOREM AgentStartsClean == Spec => []StateIsOfThisVm
<1>1. IInv => StateIsOfThisVm
  BY Zenon DEF IInv, Clean, Discovered, AfterCheck, Foreign, StateIsOfThisVm
<1>. QED
  BY <1>1, InitIInv, NextIInv, PTL DEF Spec

(* What is on the resource disk is lost only with the VM, or after a       *)
(* command of mount_resource_disk has failed.                              *)
THEOREM DiskIsFormattedOnce == Spec => DiskDataSurvives
<1>1. IInv /\ DiskIsKept /\ [Next]_vars => IInv' /\ DiskIsKept' /\ DiskDataStays
  BY NextIInv, DiskIsKeptStep, Zenon
<1>2. Spec => [](IInv /\ DiskIsKept)
  BY <1>1, InitIInv, PTL DEF Spec
<1>3. IInv /\ DiskIsKept /\ [Next]_vars => [rdisk.data /\ ~rdisk'.data => vm'.id # vm.id \/ past'.disk]_vars
  BY <1>1, Zenon DEF DiskDataStays
<1>. QED
  BY <1>2, <1>3, PTL DEF Spec, DiskDataSurvives

(* A VM provisioned from a clean image has its own account and host keys   *)
(* only, for any number of VMs that used the disk before, of crashes and   *)
(* of failures (write_provisioned, DeprovisionHandler.run).                *)
THEOREM AccountsAreOwn == Spec => []OwnIdentity
<1>1. Init => OwnAccount
  <2> SUFFICES ASSUME Init PROVE OwnAccount
    BY Zenon
  <2>1. /\ vm.id \in {1} /\ os \in [users : {{}, {1}}, hostkey : {None, 1}, lease : {"none"}, routes : {FALSE}]
        /\ proc = Off /\ dep = [step |-> 0, user |-> None]
    BY Zenon DEF Init
  <2>2. past.deprovisioned \in {FALSE} /\ past.image \in {"clean", "legacy"}
    BY Zenon DEF Init
  <2>3. past.image = "clean" => lib = NoLib /\ os.users = {}
    BY Zenon DEF Init
  <2>4. OsShape
    BY <2>1, SMTT(20) DEF OsShape, None
  <2>5. past.image # "legacy" => lib.provisioned = None /\ lib.ovf = None /\ os.users = {}
    BY <2>2, <2>3, SMTT(20) DEF NoLib
  <2>6. proc.pc = "off" /\ dep.step = 0
    BY <2>1, Zenon DEF Off
  <2>7. Owned => Named /\ Made /\ Kept
    BY <2>1, <2>2, <2>5, <2>6, SMTT(20) DEF Owned, Named, Made, Kept, Copied, None
  <2>. QED
    BY <2>4, <2>7, Zenon DEF OwnAccount
<1>2. IInv /\ OwnAccount /\ [Next]_vars => IInv' /\ OwnAccount'
  <2> SUFFICES ASSUME IInv, OwnAccount, [Next]_vars PROVE IInv' /\ OwnAccount'
    BY Zenon
  <2>1. IInv'
    BY NextIInv, Zenon
  <2>2. OsShape'
    BY OsShapeStep, Zenon DEF IInv, OwnAccount
  <2>3. (Owned => Named)' /\ (Owned => Made)' /\ (Owned => Kept)'
    BY NamedStep, MadeStep, KeptStep, Zenon DEF IInv
  <2>. QED
    BY <2>1, <2>2, <2>3, Zenon DEF OwnAccount
<1>3. OwnAccount => OwnIdentity
  BY SMTT(20) DEF OwnAccount, Owned, Kept, OwnIdentity
<1>. QED
  BY <1>1, <1>2, <1>3, InitIInv, PTL DEF Spec

=============================================================================

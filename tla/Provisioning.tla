---------------------------- MODULE Provisioning ----------------------------
(* From boot to a running agent: the daemon (daemon/main.py), the          *)
(* discovery of the WireServer (common/protocol/util.py, common/dhcp.py),  *)
(* provisioning by the agent or by cloud-init (pa/provision), the          *)
(* resource disk (daemon/resourcedisk/default.py), deprovisioning          *)
(* (pa/deprovision), and the agents of a daemon that died (ga/update.py).  *)
(*                                                                         *)
(* What survives a reboot is on disk; an image of the disk becomes the     *)
(* disk of another VM, after deprovisioning or without it.  Of the state   *)
(* on disk, lib.state is what run_changed_unique_id removes: goal states,  *)
(* and the settings, statuses and sequence numbers of the extensions.  The *)
(* handlers and their HandlerState files are left to the next agent.       *)
EXTENDS Integers, Sequences

CONSTANTS MaxVms,      \* VMs that boot from the disk, one after the other
          MaxCrashes,  \* bound on reboots
          MaxFaults,   \* bound on commands and writes that fail
          MaxRetry     \* attempts of protocol detection, 360 in the code

ASSUME VmsAssumption == MaxVms \in Nat \ {0}
ASSUME ProvisioningBounds == MaxCrashes \in Nat /\ MaxFaults \in Nat /\ MaxRetry \in Nat \ {0}

VARIABLES conf,    \* waagent.conf: who provisions, ResourceDisk.Format
          vm,      \* the VM: its id, its WireServer, the DVD with ovf-env.xml
          net,     \* the WireServer and the DHCP server answer
          lib,     \* files of the agent: provisioned, ovf-env.xml, disable_agent, protocol, goal states
          os,      \* user account, ssh host keys, DHCP lease, routes
          rdisk,   \* the resource disk
          proc,    \* the daemon, or the agent it launched
          orphan,  \* an agent whose daemon died is still there
          dep,     \* the deprovision command
          past,    \* history: how the image was made and whether its VM had recorded its id, what failed
          crashes, faults

vars == <<conf, vm, net, lib, os, rdisk, proc, orphan, dep, past, crashes, faults>>

Ids == 1..MaxVms
None == 0
Empty == -1          \* the file of an agent that did not record the id
Servers == {"known", "other"}

Off == [pc |-> "off", ret |-> "off", protocol |-> "none", dhcp |-> "none", skip_cache |-> FALSE, tries |-> 0]
NoLib == [provisioned |-> None, ovf |-> None, disabled |-> FALSE, protocol |-> FALSE, endpoint |-> "none", state |-> None]
NewDisk == [type |-> "windows", mounted |-> FALSE, data |-> FALSE]

TypeOK ==
    /\ conf \in [agent : {"waagent", "cloud-init", "disabled"}, format : BOOLEAN]
    /\ vm \in [id : Ids, server : Servers, dvd : BOOLEAN]
    /\ net \in BOOLEAN
    /\ lib \in [provisioned : {Empty, None} \cup Ids, ovf : {None} \cup Ids, disabled : BOOLEAN,
                protocol : BOOLEAN, endpoint : Servers \cup {"none"}, state : {None} \cup Ids]
    /\ os \in [users : SUBSET Ids, hostkey : {None} \cup Ids, lease : Servers \cup {"none"},
               routes : BOOLEAN]
    /\ rdisk \in [type : {"windows", "linux"}, mounted : BOOLEAN, data : BOOLEAN]
    /\ proc \in [pc : {"off", "disk", "clear", "detect", "provision", "cleanup", "cleanup_ext", "mark_checked", "ovf",
                       "notready", "config", "hostkey", "waitovf", "waitkey", "mark", "guest_agent", "ready",
                       "failed", "sleep", "launch", "orphans", "up", "asleep"},
                 ret : {"off", "provision", "notready", "ready", "failed", "launch"}, protocol : Servers \cup {"none"},
                 dhcp : Servers \cup {"none"}, skip_cache : BOOLEAN, tries : 0..(MaxRetry - 1)]
    /\ orphan \in BOOLEAN
    /\ dep \in [step : 0..5, user : {None} \cup Ids]
    /\ past \in [image : {"clean", "specialized", "legacy"}, deprovisioned : BOOLEAN, cut : BOOLEAN, disk : BOOLEAN,
                 unrecorded : BOOLEAN, uncleared : BOOLEAN]
    /\ crashes \in 0..MaxCrashes /\ faults \in 0..MaxFaults

(* A new VM from a clean image, or one provisioned by an agent that did    *)
(* not record the id.  ResourceDisk.Format is on where the agent does not  *)
(* provision.                                                              *)
Init ==
    /\ conf \in {[agent |-> a, format |-> a = "disabled"] : a \in {"waagent", "cloud-init", "disabled"}}
    /\ vm \in [id : {1}, server : {"known"}, dvd : {TRUE}]
    /\ net \in BOOLEAN
    /\ os \in [users : {{}, {1}}, hostkey : {None, 1}, lease : {"none"}, routes : {FALSE}]
    /\ past \in [image : {"clean", "legacy"}, deprovisioned : {FALSE}, cut : {FALSE},
                 disk : {FALSE}, unrecorded : {FALSE}, uncleared : {FALSE}]
    /\ IF past.image = "clean"
       THEN lib = NoLib /\ os.users = {} /\ os.hostkey = None
       ELSE lib = [NoLib EXCEPT !.provisioned = Empty, !.state = 1] /\ os.users = {1} /\ os.hostkey = 1
    /\ rdisk = NewDisk
    /\ proc = Off
    /\ orphan = FALSE
    /\ dep = [step |-> 0, user |-> None]
    /\ crashes = 0 /\ faults = 0

Fault == faults < MaxFaults /\ faults' = faults + 1
NoFault == UNCHANGED faults
Goto(pc) == proc' = [proc EXCEPT !.pc = pc]

----------------------------------------------------------------------------
(* The daemon.  The protocol is cleared to force its detection.            *)
Start ==
    /\ proc.pc = "off" /\ dep.step = 0
    /\ Goto("disk")
    /\ past' = [past EXCEPT !.deprovisioned = FALSE]
    /\ UNCHANGED <<conf, orphan, vm, net, lib, os, rdisk, dep, crashes, faults>>

(* The removal of a file may fail, which is logged and no more.            *)
ClearProtocol ==
    /\ proc.pc = "clear"
    /\ \E kept \in SUBSET {"Protocol", "WireServerEndpoint"} :
          /\ IF kept = {} THEN NoFault ELSE Fault
          /\ lib' = [lib EXCEPT !.protocol = @ /\ "Protocol" \in kept,
                                !.endpoint = IF "WireServerEndpoint" \in kept THEN @ ELSE "none"]
          /\ past' = [past EXCEPT !.uncleared = lib.protocol /\ "Protocol" \in kept]
    /\ proc' = [proc EXCEPT !.pc = "detect", !.ret = "provision", !.protocol = "none", !.tries = 0]
    /\ UNCHANGED <<conf, orphan, vm, net, os, rdisk, dep, crashes>>

(* get_protocol with a protocol in memory or on disk.  Without the file of *)
(* the endpoint the known address is used.                                 *)
SavedEndpoint == IF lib.endpoint = "none" THEN "known" ELSE lib.endpoint

GetSavedProtocol ==
    /\ proc.pc = "detect"
    /\ proc.protocol # "none" \/ lib.protocol
    /\ proc' = [proc EXCEPT !.pc = proc.ret, !.protocol = IF @ # "none" THEN @ ELSE SavedEndpoint]
    /\ UNCHANGED <<conf, orphan, vm, net, lib, os, rdisk, dep, past, crashes, faults>>

(* DhcpHandler.run: a route to the known address, a cached lease, or a     *)
(* request, whose answer also brings routes.  "none": no answer.           *)
RouteExists == vm.server = "known" /\ os.routes
LeaseEndpoint == os.lease
CacheExists == ~proc.skip_cache /\ LeaseEndpoint # "none"
DhcpAnswer == IF net THEN vm.server ELSE "none"
SendsRequest == proc.dhcp = "none" /\ ~RouteExists /\ ~CacheExists

DhcpEndpoint ==
    IF proc.dhcp # "none" THEN proc.dhcp
    ELSE IF RouteExists THEN "known"
    ELSE IF CacheExists THEN LeaseEndpoint ELSE DhcpAnswer

(* The routes the handler knows of are added to those there are.           *)
ConfRoutes(handler) == [os EXCEPT !.routes = @ \/ handler.routes]

(* WireProtocol.detect.                                                    *)
Responds(endpoint) == net /\ endpoint = vm.server

(* MUTANT of AttemptFailed: the cached lease is tried again.               *)
AttemptFailed_UsesCache ==
    proc' = IF proc.tries + 1 < MaxRetry THEN [proc EXCEPT !.tries = @ + 1, !.dhcp = "none"]
            ELSE [proc EXCEPT !.tries = 0, !.dhcp = "none", !.pc = proc.ret]

(* An attempt failed: the next one asks DHCP again, without the cache.     *)
AttemptFailed ==
    LET reset == [proc EXCEPT !.dhcp = "none", !.skip_cache = @ \/ DhcpEndpoint # "none"]
    IN  proc' = IF proc.tries + 1 < MaxRetry THEN [reset EXCEPT !.tries = @ + 1]
                ELSE [reset EXCEPT !.tries = 0, !.pc = proc.ret]

(* One attempt of _detect_protocol; the files are saved when it succeeds.  *)
DetectProtocol ==
    /\ proc.pc = "detect" /\ proc.protocol = "none" /\ ~lib.protocol
    /\ IF Responds(DhcpEndpoint)
       THEN /\ lib' = [lib EXCEPT !.protocol = TRUE, !.endpoint = vm.server]
            /\ proc' = [proc EXCEPT !.pc = proc.ret, !.protocol = vm.server, !.dhcp = vm.server, !.tries = 0]
       ELSE AttemptFailed /\ lib' = [lib EXCEPT !.endpoint = "none"]
    /\ os' = ConfRoutes([routes |-> net /\ SendsRequest])
    /\ UNCHANGED <<conf, orphan, vm, net, rdisk, dep, past, crashes, faults>>

----------------------------------------------------------------------------
(* The resource disk.  "windows": the partition the host made, which is    *)
(* formatted; the change of the partition's type tells the next boot that  *)
(* this was done, and sfdisk's failure to make it is ignored.              *)
(* MUTANT of Prepared: the type of the partition is not changed.           *)
Prepared_KeepsType(changed) == IF rdisk.type = "linux" THEN rdisk ELSE [rdisk EXCEPT !.data = FALSE]

Prepared(changed) ==
    IF rdisk.type = "linux" THEN rdisk
    ELSE [rdisk EXCEPT !.type = IF changed THEN "linux" ELSE "windows", !.data = FALSE]

(* mount fails twice: the disk is formatted, and mounted if it now can be. *)
Reformatted(r) == [r EXCEPT !.data = FALSE]
Mounted(r) == [r EXCEPT !.mounted = TRUE]

DiskFailures ==
    {rdisk, Prepared(TRUE), Mounted(Prepared(FALSE)), Mounted(Prepared(TRUE)),
     Mounted(Reformatted(Prepared(TRUE))), Reformatted(Prepared(TRUE))}

SetUpDisk ==
    /\ proc.pc = "disk"
    /\ \/ ~conf.format /\ NoFault /\ UNCHANGED <<rdisk, past>>
       \/ conf.format /\ rdisk.mounted /\ NoFault /\ UNCHANGED <<rdisk, past>>
       \/ conf.format /\ ~rdisk.mounted /\ NoFault /\ rdisk' = Mounted(Prepared(TRUE)) /\ UNCHANGED past
       \/ conf.format /\ ~rdisk.mounted /\ Fault /\ rdisk' \in DiskFailures /\ past' = [past EXCEPT !.disk = TRUE]
    /\ Goto("clear")
    /\ UNCHANGED <<conf, orphan, vm, net, lib, os, dep, crashes>>

(* A program of the VM writes on the disk.                                 *)
UseDisk ==
    /\ rdisk.mounted /\ ~rdisk.data
    /\ rdisk' = [rdisk EXCEPT !.data = TRUE]
    /\ UNCHANGED <<conf, vm, net, lib, os, proc, orphan, dep, past, crashes, faults>>

----------------------------------------------------------------------------
(* Provisioning.  Call: the protocol is needed to report.                  *)
Call(ret) == proc' = [proc EXCEPT !.pc = "detect", !.ret = ret]

(* An exception nobody handles ends daemon(), which is started again.      *)
Restart == Fault /\ Goto("disk")

IsCurrentInstanceId(id) == id = vm.id
WithInstanceId == [lib EXCEPT !.provisioned = vm.id]

(* get_provision_handler.                                                  *)
Handler == IF conf.agent = "cloud-init" THEN "waitovf" ELSE "ovf"

(* ProvisionHandler.run up to its first write, check_provisioned_file      *)
(* included.  The file of an agent that did not record the id is taken to  *)
(* be of this VM.                                                          *)
CheckProvisioned ==
    /\ proc.pc = "provision"
    /\ Goto(IF conf.agent = "disabled" THEN "mark_checked"
            ELSE IF lib.provisioned = None THEN Handler
            ELSE IF IsCurrentInstanceId(lib.provisioned) THEN "sleep"
            ELSE IF lib.provisioned = Empty THEN "mark_checked" ELSE "cleanup")
    /\ UNCHANGED <<conf, orphan, vm, net, lib, os, rdisk, dep, past, crashes, faults>>

(* run_changed_unique_id: leases and protocol, then the files of the goal  *)
(* states and those of the extensions that are in lib.state.               *)
(* MUTANT of CleanProtocol: the new id is recorded before the cleaning.    *)
CleanProtocol_MarksFirst ==
    /\ proc.pc = "cleanup"
    /\ NoFault /\ Goto("cleanup_ext")
    /\ os' = [os EXCEPT !.lease = "none"]
    /\ lib' = [lib EXCEPT !.protocol = FALSE, !.endpoint = "none", !.provisioned = vm.id]
    /\ UNCHANGED <<conf, orphan, vm, net, rdisk, dep, past, crashes>>

CleanProtocol ==
    /\ proc.pc = "cleanup"
    /\ \/ NoFault /\ Goto("cleanup_ext")
       \/ Restart
    /\ os' = [os EXCEPT !.lease = "none"]
    /\ lib' = IF proc'.pc = "disk" THEN lib ELSE [lib EXCEPT !.protocol = FALSE, !.endpoint = "none"]
    /\ UNCHANGED <<conf, orphan, vm, net, rdisk, dep, past, crashes>>

CleanState ==
    /\ proc.pc = "cleanup_ext"
    /\ \/ NoFault /\ Goto("mark_checked") /\ lib' = [lib EXCEPT !.state = None]
       \/ Restart /\ UNCHANGED lib
    /\ UNCHANGED <<conf, orphan, vm, net, os, rdisk, dep, past, crashes>>

(* write_provisioned, of a VM that was provisioned already or is not to be.*)
WriteCheckedId ==
    /\ proc.pc = "mark_checked"
    /\ \/ NoFault /\ Call("ready") /\ lib' = WithInstanceId
       \/ Restart /\ UNCHANGED lib
    /\ UNCHANGED <<conf, orphan, vm, net, os, rdisk, dep, past, crashes>>

Ejected == [vm EXCEPT !.dvd = FALSE]

(* copy_ovf_env: the DVD is ejected once it was read, and a later attempt  *)
(* to provision needs it again.                                            *)
CopyOvfEnv ==
    /\ proc.pc = "ovf"
    /\ \/ vm.dvd /\ NoFault /\ Call("notready") /\ lib' = [lib EXCEPT !.ovf = vm.id] /\ vm' = Ejected
       \/ vm.dvd /\ Fault /\ Call("failed") /\ UNCHANGED <<lib, vm>>
       \/ ~vm.dvd /\ NoFault /\ Call("failed") /\ UNCHANGED <<lib, vm>>
    /\ UNCHANGED <<conf, orphan, net, os, rdisk, dep, past, crashes>>

(* provision: host name, user account with its ssh keys, custom data, root *)
(* password.  An account that exists already is kept.                      *)
UserAdd(users) == users \cup {vm.id}
ConfigUserAccount == [os EXCEPT !.users = UserAdd(@)]

Provision ==
    /\ proc.pc = "config"
    /\ \/ NoFault /\ Goto("hostkey") /\ os' = ConfigUserAccount
       \/ Fault /\ (Call("failed") \/ Goto("disk")) /\ os' \in {os, ConfigUserAccount}
    /\ UNCHANGED <<conf, orphan, vm, net, lib, rdisk, dep, past, crashes>>

RegSshHostKey ==
    /\ proc.pc = "hostkey"
    /\ \/ NoFault /\ Goto("mark") /\ os' = [os EXCEPT !.hostkey = vm.id]
       \/ Fault /\ Call("failed") /\ os' = [os EXCEPT !.hostkey = None]
    /\ UNCHANGED <<conf, orphan, vm, net, lib, rdisk, dep, past, crashes>>

WriteProvisioned ==
    /\ proc.pc = "mark"
    /\ \/ /\ NoFault /\ Goto(IF conf.agent = "waagent" THEN "guest_agent" ELSE "sleep")
          /\ lib' = WithInstanceId
       \/ Restart /\ UNCHANGED lib
    /\ UNCHANGED <<conf, orphan, vm, net, os, rdisk, dep, past, crashes>>

(* handle_provision_guest_agent.  ovf-env.xml may say that the VM is to    *)
(* have no agent, and the file disable_agent is written.                   *)
ProvisionGuestAgent == BOOLEAN
Disabled(flag) == lib.disabled \/ ~flag

HandleGuestAgent ==
    /\ proc.pc = "guest_agent"
    /\ \/ /\ NoFault /\ Call("ready")
          /\ \E flag \in ProvisionGuestAgent : lib' = [lib EXCEPT !.disabled = Disabled(flag)]
       \/ Restart /\ UNCHANGED lib
    /\ UNCHANGED <<conf, orphan, vm, net, os, rdisk, dep, past, crashes>>

(* cloud-init provisions; the agent waits for what it leaves behind, and   *)
(* gives up after a while.  It reports no status.                          *)
WaitForOvfEnv ==
    /\ proc.pc = "waitovf"
    /\ \/ /\ lib.ovf # None /\ NoFault /\ Goto("waitkey")
          /\ \E flag \in ProvisionGuestAgent : lib' = [lib EXCEPT !.disabled = Disabled(flag)]
       \/ lib.ovf # None /\ Fault /\ Goto("sleep") /\ UNCHANGED lib
       \/ lib.ovf = None /\ NoFault /\ Goto("sleep") /\ UNCHANGED lib
    /\ UNCHANGED <<conf, orphan, vm, net, os, rdisk, dep, past, crashes>>

WaitForSshHostKey ==
    /\ proc.pc = "waitkey"
    /\ Goto(IF os.hostkey # None THEN "mark" ELSE "sleep")
    /\ UNCHANGED <<conf, orphan, vm, net, lib, os, rdisk, dep, past, crashes, faults>>

CloudInitCopiesOvf ==
    /\ conf.agent = "cloud-init" /\ vm.dvd /\ dep.step = 0
    /\ vm' = [vm EXCEPT !.dvd = FALSE]
    /\ lib' = [lib EXCEPT !.ovf = vm.id]
    /\ os' = [os EXCEPT !.users = UserAdd(@)]
    /\ UNCHANGED <<conf, net, rdisk, proc, orphan, dep, past, crashes, faults>>

CloudInitMakesKeys ==
    /\ conf.agent = "cloud-init" /\ ~vm.dvd /\ lib.ovf = vm.id /\ os.hostkey # vm.id /\ dep.step = 0
    /\ os' = [os EXCEPT !.hostkey = vm.id]
    /\ UNCHANGED <<conf, vm, net, lib, rdisk, proc, orphan, dep, past, crashes, faults>>

(* The provisioning status is reported; an error is logged, not retried.   *)
ReportProvisionStatus ==
    /\ proc.pc \in {"notready", "ready", "failed"}
    /\ Goto(IF proc.pc = "notready" THEN "config" ELSE "sleep")
    /\ UNCHANGED <<conf, orphan, vm, net, lib, os, rdisk, dep, past, crashes, faults>>

----------------------------------------------------------------------------
(* sleep_if_disabled and run_latest.  The agent is another process and     *)
(* finds the protocol for itself; if it cannot it exits and is launched    *)
(* again.                                                                  *)
NewAgent == proc' = [Off EXCEPT !.pc = "detect", !.ret = "launch"]

SleepIfDisabled ==
    /\ proc.pc = "sleep"
    /\ IF lib.disabled THEN Goto("asleep") ELSE NewAgent
    /\ UNCHANGED <<conf, orphan, vm, net, lib, os, rdisk, dep, past, crashes, faults>>

AgentStarts ==
    /\ proc.pc = "launch"
    /\ IF proc.protocol = "none" THEN NewAgent ELSE Goto("orphans")
    /\ UNCHANGED <<conf, orphan, vm, net, lib, os, rdisk, dep, past, crashes, faults>>

(* _ensure_no_orphans waits for an agent of another daemon.  When the wait *)
(* is over it passes the pid as it was read, a string, to os.kill: that    *)
(* raises TypeError, which is logged with the other exceptions.            *)
Kill(alive) == alive

EnsureNoOrphans ==
    /\ proc.pc = "orphans"
    /\ orphan' = Kill(orphan)
    /\ Goto("up")
    /\ UNCHANGED <<conf, vm, net, lib, os, rdisk, dep, past, crashes, faults>>

(* The orphan notices, at the end of an iteration of its main loop.        *)
OrphanExits ==
    /\ orphan /\ orphan' = FALSE
    /\ UNCHANGED <<conf, vm, net, lib, os, rdisk, proc, dep, past, crashes, faults>>

(* Goal states and the state of extensions are written.                    *)
AgentWorks ==
    /\ proc.pc = "up" \/ orphan
    /\ lib.state # vm.id
    /\ lib' = [lib EXCEPT !.state = vm.id]
    /\ UNCHANGED <<conf, vm, net, os, rdisk, proc, orphan, dep, past, crashes, faults>>

(* An update, or an exit: the next agent finds the saved protocol.         *)
AgentExits ==
    /\ proc.pc = "up"
    /\ NewAgent
    /\ UNCHANGED <<conf, orphan, vm, net, lib, os, rdisk, dep, past, crashes, faults>>

----------------------------------------------------------------------------
(* waagent -deprovision, and -deprovision+user, which also deletes the     *)
(* account.  The account is read from ovf-env.xml when the actions are set *)
(* up; an action that fails ends the command.                              *)
(* MUTANT of Deprovision: the account is not read beforehand.              *)
Deprovision_ReadsNoUser ==
    /\ dep.step = 0 /\ conf.agent # "disabled"
    /\ \E deluser \in BOOLEAN :
          /\ dep' = [step |-> 1, user |-> None]
          /\ past' = [past EXCEPT !.deprovisioned = deluser /\ lib.ovf # None /\ ~orphan,
                                  !.image = IF deluser THEN @ ELSE "legacy"]
    /\ UNCHANGED <<conf, orphan, vm, net, lib, os, rdisk, proc, crashes, faults>>

Deprovision ==
    /\ dep.step = 0 /\ conf.agent # "disabled"
    /\ \E deluser \in BOOLEAN :
          /\ dep' = [step |-> 1, user |-> IF deluser THEN lib.ovf ELSE None]
          /\ past' = [past EXCEPT !.deprovisioned = deluser /\ lib.ovf # None /\ ~orphan,
                                  !.image = IF deluser THEN @ ELSE "legacy"]
    /\ UNCHANGED <<conf, orphan, vm, net, lib, os, rdisk, proc, crashes, faults>>

StopAgentService == proc' = Off /\ UNCHANGED <<os, lib>>
DelHostKeys == os' = [os EXCEPT !.hostkey = None] /\ UNCHANGED <<proc, lib>>
DelDhcpLease == os' = [os EXCEPT !.lease = "none"] /\ UNCHANGED <<proc, lib>>
DelDirs == lib' = NoLib /\ UNCHANGED <<proc, os>>
DelAccount(user) == os.users \ {user}
DelUser == os' = [os EXCEPT !.users = DelAccount(dep.user)] /\ UNCHANGED <<proc, lib>>

(* ovf-env.xml is gone and the account it named is not: when the command   *)
(* ends here, nothing tells a later one of this account of an earlier VM.  *)
Forgets == dep.step = 5 /\ dep.user \notin {None, vm.id}

DoAction ==
    /\ dep.step > 0
    /\ \/ /\ NoFault
          /\ \/ dep.step = 1 /\ StopAgentService
             \/ dep.step = 2 /\ DelHostKeys
             \/ dep.step = 3 /\ DelDhcpLease
             \/ dep.step = 4 /\ DelDirs
             \/ dep.step = 5 /\ DelUser
          /\ dep' = IF dep.step = 5 THEN [step |-> 0, user |-> None] ELSE [dep EXCEPT !.step = @ + 1]
          /\ past' = [past EXCEPT !.cut = @ /\ dep.step # 5]
       \/ /\ Fault /\ dep' = [step |-> 0, user |-> None]
          /\ past' = [past EXCEPT !.cut = TRUE, !.deprovisioned = FALSE, !.image = IF Forgets THEN "legacy" ELSE @]
          /\ UNCHANGED <<proc, lib, os>>
    /\ UNCHANGED <<conf, orphan, vm, net, rdisk, crashes>>

----------------------------------------------------------------------------
(* The surroundings.  A reboot ends the processes; the DHCP client may get *)
(* a lease, and the DVD may be there again.                                *)
Reboot ==
    /\ crashes < MaxCrashes /\ crashes' = crashes + 1
    /\ proc' = Off /\ orphan' = FALSE
    /\ dep' = [step |-> 0, user |-> None]
    /\ \E lease \in {os.lease, vm.server} : os' = [os EXCEPT !.lease = lease, !.routes = FALSE]
    /\ \E dvd \in {vm.dvd, conf.agent = "waagent"} : vm' = [vm EXCEPT !.dvd = dvd]
    /\ rdisk' = [rdisk EXCEPT !.mounted = FALSE]
    /\ past' = [past EXCEPT !.cut = @ \/ dep.step > 0, !.image = IF Forgets THEN "legacy" ELSE @]
    /\ UNCHANGED <<conf, net, lib, faults>>

DaemonKilled ==
    /\ crashes < MaxCrashes /\ crashes' = crashes + 1
    /\ proc.pc \in {"launch", "orphans", "up"}
    /\ proc' = Off /\ orphan' = TRUE
    /\ past' = [past EXCEPT !.deprovisioned = FALSE]
    /\ UNCHANGED <<conf, vm, net, lib, os, rdisk, dep, faults>>

(* The disk becomes the disk of another VM.  An image is "clean" when the  *)
(* VM was deprovisioned with its account and with no orphan at work, and   *)
(* "legacy" when accounts may be there that nothing on disk tells of.      *)
RecordsId == lib.provisioned \in Ids

NewVm ==
    /\ vm.id < MaxVms /\ dep.step = 0 /\ ~past.cut
    /\ \E server \in Servers : vm' = [id |-> vm.id + 1, server |-> server, dvd |-> TRUE]
    /\ proc' = Off /\ orphan' = FALSE
    /\ rdisk' = NewDisk
    /\ os' = [os EXCEPT !.routes = FALSE]
    /\ past' = [past EXCEPT !.image = IF @ = "legacy" THEN @ ELSE IF past.deprovisioned THEN "clean"
                                      ELSE IF RecordsId THEN "specialized" ELSE "legacy",
                            !.unrecorded = @ \/ (~RecordsId /\ lib.state # None),
                            !.deprovisioned = FALSE]
    /\ UNCHANGED <<conf, net, lib, dep, crashes, faults>>

(* The network goes and comes back at any time.                            *)
NetworkChanges ==
    /\ net' = ~net
    /\ UNCHANGED <<conf, vm, lib, os, rdisk, proc, orphan, dep, past, crashes, faults>>

DaemonStep ==
    \/ Start \/ SetUpDisk \/ ClearProtocol \/ GetSavedProtocol \/ DetectProtocol
    \/ CheckProvisioned \/ CleanProtocol \/ CleanState \/ WriteCheckedId
    \/ CopyOvfEnv \/ Provision \/ RegSshHostKey \/ WriteProvisioned \/ HandleGuestAgent
    \/ WaitForOvfEnv \/ WaitForSshHostKey \/ ReportProvisionStatus
    \/ SleepIfDisabled \/ AgentStarts \/ EnsureNoOrphans

Next ==
    \/ DaemonStep
    \/ AgentWorks \/ AgentExits \/ OrphanExits
    \/ Deprovision \/ DoAction
    \/ UseDisk \/ CloudInitCopiesOvf \/ CloudInitMakesKeys
    \/ Reboot \/ DaemonKilled \/ NewVm \/ NetworkChanges

Spec == Init /\ [][Next]_vars

(* The init system starts the daemon, whose loop always goes on; so does   *)
(* the deprovision command.                                                *)
FairSpec == Spec /\ WF_vars(DaemonStep) /\ WF_vars(DoAction)

----------------------------------------------------------------------------
(* A VM that was provisioned from a clean image has its own account and    *)
(* host keys and nobody else's, however many VMs used the disk before, if  *)
(* none of them left an account behind that ovf-env.xml does not name:     *)
(* write_provisioned comes after the last step of provisioning, and        *)
(* deprovisioning removes the account that ovf-env.xml named before it     *)
(* removes ovf-env.xml.                                                    *)
OwnIdentity ==
    conf.agent = "waagent" /\ past.image = "clean" /\ lib.provisioned = vm.id /\ dep.step = 0 /\ ~past.cut
        => os.users = {vm.id} /\ os.hostkey = vm.id

(* Where the agent or cloud-init provisions, an agent never starts with    *)
(* goal states of another VM, or settings and statuses of its extensions,  *)
(* if that VM had recorded its id: run_changed_unique_id removes them, in  *)
(* spite of crashes and errors on the way, before the id of the new VM is  *)
(* recorded.  Where the file provisioned is empty or missing nothing is    *)
(* removed.  Nor does an agent start with another VM's WireServer, from a  *)
(* saved endpoint or an old lease, unless clear_protocol could not delete  *)
(* the file Protocol, an error that it ignores.                            *)
StateIsOfThisVm ==
    proc.pc = "up" => /\ conf.agent # "disabled" /\ ~past.unrecorded => lib.state \in {None, vm.id}
                      /\ ~past.uncleared => proc.protocol = vm.server

(* What is on the resource disk outlives restarts of the daemon and of the *)
(* VM, unless a command of mount_resource_disk failed.                     *)
DiskDataSurvives == [][rdisk.data /\ ~rdisk'.data => vm'.id # vm.id \/ past'.disk]_vars

(* With a network that stays, and after every reboot, failure of           *)
(* provisioning and exit of the agent, the daemon launches an agent that   *)
(* has a WireServer, or sleeps because it is disabled.                     *)
AgentComesUp == <>[]net /\ <>[](dep.step = 0) => []<>(proc.pc \in {"up", "asleep"})

(* Before an agent starts to work, an agent of an earlier daemon is gone,  *)
(* on its own or killed by _ensure_no_orphans.                             *)
OneAgent == proc.pc = "up" => ~orphan

====

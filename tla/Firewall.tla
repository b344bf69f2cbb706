------------------------------ MODULE Firewall ------------------------------
(***************************************************************************)
(* The firewall rules on the WireServer address: three rules (ACCEPT DNS,  *)
(* ACCEPT for the agent, DROP for everybody else) that three programs set  *)
(* up, one command at a time: the network-setup service at boot, the       *)
(* initialization of the agent, and the environment thread, which repairs  *)
(* them periodically.  The rules are made persistent either as permanent   *)
(* firewalld rules or as a systemd service.                                *)
(*                                                                         *)
(* The tools (iptables, nft, firewall-cmd, systemctl) are external: a      *)
(* command changes the chain it names or fails.  Meanwhile an operator or  *)
(* firewalld changes the chain, the agent restarts and the VM reboots.     *)
(***************************************************************************)
EXTENDS Integers, Sequences, FiniteSets

CONSTANTS
    Platforms,          \* the machines: which tools and services they have
    MaxFaults,          \* bound on commands that fail
    MaxEvents,          \* bound on flushes, deleted rules and reloads
    MaxRestarts,        \* bound on restarts of the agent and reboots
    LockOut,            \* the agent may start while its traffic is dropped
    MaxReportsWhenOk, MaxReportsWhenNotOk, MaxReportsPerPeriod

ASSUME LimitsAssumption ==
    /\ {MaxFaults, MaxEvents, MaxRestarts} \subseteq Nat
    /\ {MaxReportsWhenOk, MaxReportsWhenNotOk, MaxReportsPerPeriod} \subseteq Nat \ {0}
    /\ LockOut \in BOOLEAN

VARIABLES
    platform,           \* [iptables, modules, nft, systemd : BOOLEAN]
    firewalld,          \* firewalld is running (firewall-cmd --state)
    firewalldEnabled,   \* firewalld.service is enabled (systemctl is-enabled)
    conntrack,          \* the conntrack module is loaded
    chain,              \* the OUTPUT chain of the security table
    nft,                \* the walinuxagent table: "absent", "ok" or "bad"
    permanent,          \* the permanent firewalld rules
    service,            \* the network-setup service: its files on disk
    stage,              \* "boot", "starting", "init" or "running"
    run,                \* the operation of the firewall manager in progress
    env,                \* EnableFirewall of the environment thread
    faults, events, restarts,
    raced,              \* history: during an operation, a DROP rule was left in
                        \* the chain without the rules that accept
    persisted,          \* history: how the last initialization persisted the rules:
                        \* "no", "firewalld" or "service"
    clean               \* history: the last operation did not fail, and the
                        \* rules are as it left them

vars == <<platform, firewalld, firewalldEnabled, conntrack, chain, nft, permanent, service, stage,
          run, env, faults, events, restarts, raced, persisted, clean>>
tools == <<platform, firewalld, firewalldEnabled>>
disk == <<permanent, service>>
history == <<raced, persisted, clean>>
counters == <<faults, events, restarts>>

\* x is an element of the sequence c.
Has(c, x) == \E i \in 1..Len(c) : c[i] = x

\* The elements of c that are not in D, in their order.
Without(c, D) ==
    LET kept == {i \in 1..Len(c) : c[i] \notin D}
        Nth(k) == CHOOSE i \in kept : Cardinality({j \in kept : j <= i}) = k
    IN  [k \in 1..Cardinality(kept) |-> c[Nth(k)]]

\* The rules in the order in which they are appended.
Commands == <<"dns", "accept", "drop">>
Rules == {"dns", "accept", "drop"}

Rule(r) == [rule |-> r, hidden |-> FALSE]
HiddenDrop == [rule |-> "drop", hidden |-> TRUE]
ChainOf(rules) == [i \in 1..Len(rules) |-> Rule(rules[i])]

\* iptables -C and -D do not see a DROP rule that was created before conntrack
\* was loaded; -L does.
RuleExists(r) == Has(chain, Rule(r))
Listed(r) == \E i \in 1..Len(chain) : chain[i].rule = r
DeleteRule(c, r) == Without(c, {Rule(r)})

(***************************************************************************)
(* What the kernel does with a new connection to the WireServer.           *)
(***************************************************************************)
Matches(rule, traffic) ==
    \/ rule = "dns" /\ traffic = "dns"
    \/ rule = "accept" /\ traffic = "agent"
    \/ rule \in {"drop", "legacy"}      \* the legacy rule accepts every new connection

\* The first rule that matches decides; the policy of the chain is to accept.
Dropped(traffic) ==
    \/ \E i \in 1..Len(chain) :
        /\ chain[i].rule = "drop"
        /\ \A j \in 1..(i - 1) : ~Matches(chain[j].rule, traffic)
    \/ nft = "ok" /\ traffic = "user"

LoneDrop == Dropped("agent") \/ Dropped("dns")
Protects == Dropped("user") /\ ~LoneDrop

\* A DROP rule of c does not have both rules that accept above it.
BareDrop(c) ==
    \E i \in 1..Len(c) :
        /\ c[i].rule = "drop"
        /\ \E r \in {"dns", "accept"} : \A j \in 1..(i - 1) : c[j].rule # r

(***************************************************************************)
(* FirewallManager.create: iptables, unless its kernel modules are missing *)
(* and nft is there; then the rules left in the chain are removed.         *)
(***************************************************************************)
UnresolvedModules == ~platform.modules

Manager ==
    IF platform.iptables /\ ~(UnresolvedModules /\ platform.nft) THEN "iptables"
    ELSE IF platform.nft THEN "nft" ELSE "none"

\* iptables_manager.remove(), whose errors are ignored: the rules deleted are
\* a prefix of the list, or all of them.
CreateChains ==
    IF platform.iptables /\ UnresolvedModules /\ platform.nft
    THEN LET Rest(n) == Without(chain, {Rule(Commands[i]) : i \in 1..n})
         IN  IF faults > 0 THEN {Rest(n) : n \in 0..3} ELSE {Rest(3)}
    ELSE {chain}

\* What firewalld puts into the chain when it starts or reloads; an inserted
\* rule goes to the top, and without iptables or its modules they are rejected.
RulesOf(p) ==
    LET inserted == Without(p, Rules)
    IN  ChainOf([i \in 1..Len(inserted) |-> "dns"] \o Without(p, {"legacyDns"}))

FirewalldChain ==
    IF firewalld /\ platform.iptables /\ platform.modules THEN RulesOf(permanent) ELSE <<>>

Idle == [op |-> "idle", k |-> 1, missing |-> {}]
At(op) == [Idle EXCEPT !.op = op]

PlatformType == [iptables : BOOLEAN, modules : BOOLEAN, nft : BOOLEAN, systemd : BOOLEAN]
NoService == [binary |-> FALSE, unit |-> "none", enabled |-> FALSE]
NewEnableFirewall ==
    [state |-> "OK", manager |-> "none", reports |-> 0, period |-> 0, should |-> TRUE]

ServiceType == [binary : BOOLEAN, unit : {"none", "stale", "current"}, enabled : BOOLEAN]

Init ==
    /\ platform \in Platforms
    /\ firewalld \in BOOLEAN /\ firewalldEnabled \in BOOLEAN
    /\ conntrack = FALSE
    /\ nft = "absent"
    \* what the agent that ran before left on the disk
    /\ permanent \in {<<>>, <<"legacyDns", "accept", "drop">>, <<"dns">>}
    /\ service \in {NoService, [binary |-> TRUE, unit |-> "stale", enabled |-> TRUE]}
    \* the VM boots, or an agent that left its legacy rule was updated
    /\ \/ stage = "boot" /\ (firewalld => firewalldEnabled) /\ chain = FirewalldChain
       \/ stage = "starting" /\ platform.modules /\ chain = <<Rule("legacy")>>
    /\ run = Idle
    /\ env = NewEnableFirewall
    /\ faults = MaxFaults /\ events = MaxEvents /\ restarts = MaxRestarts
    /\ raced = FALSE /\ persisted = "no" /\ clean = TRUE

(***************************************************************************)
(* Reporting by the environment thread: a bounded number of reports in a   *)
(* period, more of them when the rules are not as they should be.          *)
(***************************************************************************)
UpdateReportingState(e, newPeriod) ==
    LET r == IF newPeriod THEN 0 ELSE e.reports
        p == IF newPeriod THEN 0 ELSE e.period
        max == IF e.state = "OK" THEN MaxReportsWhenOk ELSE MaxReportsWhenNotOk
    IN  [e EXCEPT !.reports = r, !.period = p,
                  !.should = r < max /\ p < MaxReportsPerPeriod]

UpdateFirewallState(e, s) ==
    LET resume == (e.state = "OK") # (s = "OK") /\ e.period < MaxReportsPerPeriod
    IN  [e EXCEPT !.state = s,
                  !.reports = IF resume THEN 0 ELSE @,
                  !.should = @ \/ resume]

EndOperation(e) ==
    IF e.should THEN [e EXCEPT !.reports = @ + 1, !.period = @ + 1] ELSE e

(***************************************************************************)
(* The programs.  Each runs operations of the manager; an exception ends   *)
(* the program: the boot service and the initialization for good, the      *)
(* environment thread until its next period.                               *)
(***************************************************************************)
Raise ==
    /\ run' = Idle
    /\ clean' = FALSE
    /\ CASE stage = "boot" -> stage' = "starting" /\ env' = env
         [] stage = "init" -> stage' = "running" /\ env' = env
         [] stage = "running" ->
                stage' = stage /\ env' = EndOperation(UpdateFirewallState(env, "Unknown"))

\* The operation succeeded and leaves the rules in place.
Complete ==
    CASE stage = "boot" -> run' = Idle /\ stage' = "starting" /\ env' = env
      [] stage = "init" -> run' = At("persist") /\ stage' = stage /\ env' = env
      [] stage = "running" ->
            run' = Idle /\ stage' = stage /\ env' = EndOperation(UpdateFirewallState(env, "OK"))

\* A command fails with an unexpected exit code.
Fault == faults > 0 /\ faults' = faults - 1

\* The network-setup service at boot: the script it runs does nothing when the
\* agent it names is not on the disk any more; setup_firewall ends when it
\* cannot create the manager, and does nothing when firewalld is enabled (firewalld
\* is to apply the permanent rules), which it asks only if it is to use iptables.
BootService ==
    /\ stage = "boot" /\ run.op = "idle"
    /\ LET starts == service.binary /\ service.unit # "none" /\ service.enabled
           leaves == Manager = "none" \/ (Manager = "iptables" /\ firewalldEnabled)
       IN  \/ /\ starts /\ ~leaves
              /\ run' = At("setup")
              /\ \/ conntrack' = TRUE /\ UNCHANGED faults
                 \/ Manager = "iptables" /\ Fault /\ UNCHANGED conntrack
              /\ UNCHANGED <<stage, clean>>
           \/ /\ ~starts \/ leaves
              /\ stage' = "starting"
              /\ UNCHANGED <<run, conntrack, faults, clean>>
           \/ /\ starts /\ Fault       \* no agent where the script looks for it, or no manager
              /\ stage' = "starting" /\ clean' = FALSE
              /\ UNCHANGED <<run, conntrack>>
    /\ UNCHANGED <<tools, chain, nft, disk, env, events, restarts, raced, persisted>>

\* update.run: the protocol and the goal state are initialized first, which
\* needs the WireServer; then _initialize_firewall creates the manager.
StartInitialization ==
    /\ stage = "starting"
    /\ ~Dropped("agent")
    /\ chain' \in CreateChains
    /\ IF Manager = "none"
       THEN stage' = "running" /\ run' = run
       ELSE stage' = "init" /\ run' = At("legacy")
    /\ clean' = TRUE
    /\ UNCHANGED <<tools, conntrack, nft, disk, env, counters, raced, persisted>>

\* remove_legacy_rule: errors are logged and ignored.
RemoveLegacyRule ==
    /\ run.op = "legacy"
    /\ \/ /\ chain' = IF Manager = "iptables" THEN DeleteRule(chain, "legacy") ELSE chain
          /\ UNCHANGED faults
       \/ Manager = "iptables" /\ Fault /\ chain' = chain
    /\ run' = At("check")
    /\ UNCHANGED <<tools, conntrack, nft, disk, stage, env, events, restarts, history>>

\* The environment thread starts EnableFirewall._operation.
StartPeriodicCheck(newPeriod) ==
    LET e == UpdateReportingState(env, newPeriod)
    IN
    /\ stage = "running" /\ run.op = "idle"
    /\ chain' \in IF env.manager = "none" THEN CreateChains ELSE {chain}
    /\ IF Manager = "none"
       THEN run' = Idle /\ env' = EndOperation(UpdateFirewallState(e, "Unknown"))
       ELSE run' = At("check") /\ env' = [e EXCEPT !.manager = Manager]
    /\ clean' = TRUE
    /\ UNCHANGED <<tools, conntrack, nft, disk, stage, counters, raced, persisted>>

\* One "iptables -C"; the one for DROP loads conntrack.
CheckRule ==
    /\ run.op = "check" /\ Manager = "iptables" /\ run.k <= 3
    /\ \/ /\ run' = [run EXCEPT !.k = @ + 1,
                                !.missing = IF RuleExists(Commands[run.k]) THEN @
                                            ELSE @ \union {Commands[run.k]}]
          /\ conntrack' = (conntrack \/ Commands[run.k] = "drop")
          /\ UNCHANGED <<stage, env, faults, clean>>
       \/ Fault /\ Raise /\ UNCHANGED conntrack
    /\ UNCHANGED <<tools, chain, nft, disk, events, restarts, raced, persisted>>

\* NfTables.check: the table exists, and has the one rule it should have.
NftCheck ==
    CASE nft = "ok" -> "OK" [] nft = "absent" -> "NotSet" [] nft = "bad" -> "Invalid"

(* MUTANT of CheckResult: some missing rules are taken for none set up. *)
CheckResultPartialIsNotSet ==
    IF Manager = "nft" THEN NftCheck
    ELSE IF run.missing = {} THEN "OK" ELSE "NotSet"

(* MUTANT of CheckResult: missing rules are not compared with -L. *)
CheckResultNeverInvalid ==
    IF Manager = "nft" THEN NftCheck
    ELSE IF run.missing = {} THEN "OK"
    ELSE IF run.missing = Rules THEN "NotSet" ELSE "Inconsistent"

\* What check() found, compared with "iptables -L" when some rules are missing.
CheckResult ==
    IF Manager = "nft" THEN NftCheck
    ELSE IF run.missing = {} THEN "OK"
    ELSE IF run.missing = Rules THEN "NotSet"
    ELSE IF \E r \in run.missing : Listed(r) THEN "Inconsistent" ELSE "Invalid"

\* The initialization leaves partial rules to the environment thread; the
\* environment thread removes them before it sets them up again, and touches
\* nothing when iptables contradicts itself.
CheckDone ==
    LET result == CheckResult
        e == UpdateFirewallState(env, result)
    IN
    /\ run.op = "check" /\ (Manager = "nft" \/ run.k > 3)
    /\ \/ /\ CASE result = "OK" -> Complete
               [] result = "NotSet" ->
                    /\ run' = At("setup") /\ stage' = stage
                    /\ env' = IF stage = "running" THEN e ELSE env
               [] result = "Inconsistent" ->
                    /\ run' = IF stage = "running" THEN Idle ELSE At("persist")
                    /\ env' = IF stage = "running" THEN EndOperation(e) ELSE env
                    /\ stage' = stage
               [] result = "Invalid" ->
                    /\ run' = IF stage = "running" THEN At("remove") ELSE At("persist")
                    /\ env' = IF stage = "running" THEN e ELSE env
                    /\ stage' = stage
          /\ UNCHANGED <<faults, clean>>
       \/ Fault /\ Raise
    /\ UNCHANGED <<tools, conntrack, chain, nft, disk, events, restarts, raced, persisted>>

\* remove() deletes every instance of a rule, in the order of the list.  After
\* 99 attempts that fail with an exit code other than 1 and 2, _delete_rule
\* returns as if it had deleted the rule.
RemoveRule ==
    /\ run.op = "remove" /\ Manager = "iptables"
    /\ LET next == IF run.k < 3 THEN [run EXCEPT !.k = @ + 1] ELSE At("setup")
       IN  \/ /\ chain' = DeleteRule(chain, Commands[run.k])
              /\ run' = next
              /\ raced' = (raced /\ run.k < 3)
              /\ UNCHANGED <<stage, env, faults, clean>>
           \/ /\ RuleExists(Commands[run.k])
              /\ Fault
              /\ run' = next
              /\ raced' = (raced \/ BareDrop(chain))
              /\ UNCHANGED <<chain, stage, env, clean>>
           \/ Fault /\ Raise /\ UNCHANGED <<chain, raced>>
    /\ UNCHANGED <<tools, conntrack, nft, disk, events, restarts, persisted>>

\* setup() appends the rules in order and stops at the first that fails; the
\* rules for the agent and for DROP need their kernel modules.
AppendRule ==
    /\ run.op = "setup" /\ Manager = "iptables"
    /\ LET r == Commands[run.k]
       IN  \/ /\ r = "dns" \/ platform.modules
              /\ chain' = Append(chain, IF r = "drop" /\ ~conntrack THEN HiddenDrop ELSE Rule(r))
              /\ conntrack' = (conntrack \/ r = "drop")
              /\ IF run.k < 3
                 THEN run' = [run EXCEPT !.k = @ + 1] /\ UNCHANGED <<stage, env>>
                 ELSE Complete
              /\ UNCHANGED <<faults, clean>>
           \/ /\ \/ r # "dns" /\ ~platform.modules /\ UNCHANGED faults
                 \/ Fault
              /\ Raise
              /\ UNCHANGED <<chain, conntrack>>
    /\ UNCHANGED <<tools, nft, disk, events, restarts, raced, persisted>>

\* nft replaces its table in one transaction; "add rule" adds a second rule to
\* a table that has one.
NftCommand ==
    /\ Manager = "nft"
    /\ \/ /\ run.op = "remove"
          /\ nft' = "absent" /\ run' = At("setup")
          /\ UNCHANGED <<stage, env, faults, clean>>
       \/ /\ run.op = "setup"
          /\ nft' = IF nft = "absent" THEN "ok" ELSE "bad"
          /\ Complete
          /\ UNCHANGED <<faults, clean>>
       \/ run.op \in {"remove", "setup"} /\ Fault /\ Raise /\ UNCHANGED nft
    /\ UNCHANGED <<tools, conntrack, chain, disk, events, restarts, raced, persisted>>

(***************************************************************************)
(* PersistFirewallRulesHandler.setup.  Nobody else writes its files, so    *)
(* one step stands for its commands; a failure (or a restart between two   *)
(* of them) leaves what the commands before it did.                        *)
(***************************************************************************)
RemovedFirst(p, n) == Without(p, {Commands[i] : i \in 1..n})

(* MUTANT of FirewalldOutcomes: one permanent rule is enough. *)
FirewalldOutcomesAnyRule(p) ==
    IF \E r \in Rules : Has(p, r) THEN [ok |-> p, partial |-> {p}]
    ELSE [ok |-> p \o Commands, partial |-> {p \o SubSeq(Commands, 1, n) : n \in 0..2}]

\* The permanent rules after FirewallCmd's check, remove and setup.
FirewalldOutcomes(p) ==
    LET present == {r \in Rules : Has(p, r)}
        Added(q, n) == q \o SubSeq(Commands, 1, n)
    IN  IF present = Rules THEN [ok |-> p, partial |-> {p}]
        ELSE IF present = {} THEN [ok |-> Added(p, 3), partial |-> {Added(p, n) : n \in 0..2}]
        ELSE [ok |-> Added(RemovedFirst(p, 3), 3),
              partial |-> {RemovedFirst(p, n) : n \in 0..3}
                            \union {Added(RemovedFirst(p, 3), n) : n \in 1..2}]

\* Removing the unit file and then the binary: errors are ignored.
ServiceRemoved ==
    {NoService} \union (IF faults > 0 THEN {service, [NoService EXCEPT !.binary = service.binary]}
                        ELSE {})

\* firewalld keeps the rules; then the files of the service are removed.
PersistWithFirewalld ==
    \E q \in {Without(permanent, {"legacyDns"})} \union (IF faults > 0 THEN {permanent} ELSE {}) :
        LET outcome == FirewalldOutcomes(q)
        IN  \/ /\ permanent' = outcome.ok
               /\ service' \in ServiceRemoved
               /\ persisted' = "firewalld"
               /\ UNCHANGED faults
            \/ /\ Fault
               /\ permanent' \in outcome.partial
               /\ persisted' = "no"
               /\ UNCHANGED service

\* The passthrough rules need iptables; with nft they are removed, as far as
\* that works, and the service is used.
PassthroughsRemoved ==
    IF ~firewalld THEN {permanent}
    ELSE {RemovedFirst(Without(permanent, {"legacyDns"}), 3)}
            \union (IF faults > 0
                    THEN {RemovedFirst(q, n) : q \in {permanent, Without(permanent, {"legacyDns"})}, n \in 0..3}
                    ELSE {})

ServiceEnabled == service.enabled /\ service.unit # "none"
ShouldUpdateUnitFile == service.unit # "current"

\* A binary that cannot be written takes the unit file with it.
SetupBinaryFails == Fault /\ service' = NoService

\* A unit file that cannot be written or enabled is removed.
SetServiceUnitFileFails ==
    /\ ~ServiceEnabled \/ ShouldUpdateUnitFile
    /\ Fault
    /\ service' = [NoService EXCEPT !.binary = TRUE]

PersistWithService ==
    /\ permanent' \in PassthroughsRemoved
    /\ \/ /\ platform.systemd
          /\ service' = [binary |-> TRUE, unit |-> "current", enabled |-> TRUE]
          /\ persisted' = "service"
          /\ UNCHANGED faults
       \/ platform.systemd /\ (SetupBinaryFails \/ SetServiceUnitFileFails) /\ persisted' = "no"
       \/ ~platform.systemd /\ persisted' = "no" /\ UNCHANGED <<service, faults>>

Persist ==
    /\ run.op = "persist"
    /\ IF firewalld /\ Manager # "nft" THEN PersistWithFirewalld ELSE PersistWithService
    /\ run' = Idle /\ stage' = "running"
    /\ UNCHANGED <<tools, conntrack, chain, nft, env, events, restarts, raced, clean>>

(***************************************************************************)
(* The environment of the agent.                                           *)
(***************************************************************************)
\* The chain is flushed, firewalld reloads its rules, or all copies of a rule
\* are deleted; an operator starts or stops firewalld, which replaces the chain,
\* or enables or disables it for the next boot (network-setup runs too early for
\* an operator to come before it).
Tampered ==
    {<<>>, FirewalldChain}
        \union {Without(chain, [rule : {r}, hidden : BOOLEAN]) : r \in Rules}

Tamper ==
    /\ events > 0 /\ events' = events - 1
    /\ LockOut \/ stage # "boot"
    /\ clean' = FALSE
    /\ UNCHANGED <<platform, conntrack, disk, stage, run, env, faults, restarts, persisted>>
    /\ \/ chain' \in Tampered \ {chain} /\ UNCHANGED <<nft, firewalld, firewalldEnabled>>
       \/ nft = "ok" /\ nft' \in {"absent", "bad"} /\ UNCHANGED <<chain, firewalld, firewalldEnabled>>
       \/ stage # "boot" /\ firewalld' = ~firewalld /\ chain' = FirewalldChain' /\ UNCHANGED <<nft, firewalldEnabled>>
       \/ stage # "boot" /\ firewalldEnabled' = ~firewalldEnabled /\ UNCHANGED <<chain, nft, firewalld>>
    /\ raced' = (raced \/ (run.op # "idle" /\ BareDrop(chain')))

NewProcess ==
    /\ restarts > 0 /\ restarts' = restarts - 1
    /\ run' = Idle
    /\ env' = NewEnableFirewall

\* The agent is killed, or exits, and is started again.
RestartAgent ==
    /\ stage \in {"init", "running"}
    /\ NewProcess
    /\ stage' = "starting"
    /\ clean' = FALSE
    /\ UNCHANGED <<tools, conntrack, chain, nft, disk, faults, events, raced, persisted>>

\* The VM reboots: firewalld runs if it is enabled, unless it cannot start.
Reboot ==
    /\ NewProcess
    /\ stage' = "boot"
    /\ firewalld' \in BOOLEAN /\ (firewalld' => firewalldEnabled)
    /\ UNCHANGED <<platform, firewalldEnabled, disk, faults, events, persisted>>
    /\ conntrack' = FALSE
    /\ chain' = FirewalldChain'
    /\ nft' = "absent"
    /\ raced' = FALSE
    /\ clean' = TRUE

Disturbance == Tamper \/ RestartAgent \/ Reboot

Progress ==
    \/ BootService \/ StartInitialization \/ RemoveLegacyRule
    \/ \E newPeriod \in BOOLEAN : StartPeriodicCheck(newPeriod)
    \/ CheckRule \/ CheckDone \/ RemoveRule \/ AppendRule \/ NftCommand \/ Persist

\* Unless LockOut, nothing happens that drops the traffic of an agent that has
\* not started its threads.
Next ==
    \/ Progress
    \/ Disturbance /\ (LockOut \/ stage' \in {"init", "running"} \/ ~Dropped("agent")')

Spec == Init /\ [][Next]_vars

\* The threads of the agent keep running, and so do the services at boot.
FairSpec == Spec /\ WF_vars(Progress)

(***************************************************************************)
(* Properties                                                              *)
(***************************************************************************)
TypeOK ==
    /\ platform \in PlatformType /\ {firewalld, firewalldEnabled, conntrack} \subseteq BOOLEAN
    /\ \A i \in 1..Len(chain) : chain[i] \in [rule : Rules \union {"legacy"}, hidden : BOOLEAN]
    /\ nft \in {"absent", "ok", "bad"}
    /\ permanent \in Seq(Rules \union {"legacyDns"})
    /\ service \in ServiceType
    /\ stage \in {"boot", "starting", "init", "running"}
    /\ run \in [op : {"idle", "legacy", "check", "remove", "setup", "persist"},
                k : 1..4, missing : SUBSET Rules]
    /\ env.state \in {"OK", "NotSet", "Invalid", "Inconsistent", "Unknown"}
    /\ env.manager \in {"none", "iptables", "nft"}
    /\ env.reports \in Nat /\ env.period \in Nat /\ env.should \in BOOLEAN

HasHiddenRule == \E i \in 1..Len(chain) : chain[i].hidden

\* The manager can create all its rules.
Supported == Manager = "nft" \/ (Manager = "iptables" /\ platform.modules)

\* What the environment thread cannot repair because its check cannot see it: a
\* DROP rule that iptables -C does not find, a DROP rule above the rules that
\* accept (left by others during an operation, or by a deletion that used up its
\* attempts and was taken for done), and the legacy rule, which only the
\* initialization removes.
NotSeenByCheck == HasHiddenRule \/ raced \/ Listed("legacy")

\* EnableFirewall reports OK only when the rules do what they are for: the
\* check asks whether each rule exists, never where it is in the chain, so this
\* relies on no sequence of failed commands, repairs and changes by others
\* leaving DROP above the rules that accept.  The exceptions are the rules of
\* NotSeenByCheck.
OkMeansProtected ==
    (/\ stage = "running" /\ run.op = "idle" /\ env.manager # "none"
     /\ env.state = "OK" /\ clean
     /\ ~NotSeenByCheck)
        => Protects

\* What was persisted can apply at a boot: firewalld keeps rules only for the
\* boots in which it runs, and network-setup leaves the chain to a firewalld that
\* is enabled, whether it runs or not.
InForce ==
    \/ persisted = "firewalld" /\ firewalld
    \/ persisted = "service" /\ (Manager = "nft" \/ ~firewalldEnabled)

\* The rules that the initialization persisted are there at the next boot before
\* the agent starts, although persisting asks whether firewalld runs and the boot
\* asks whether it is enabled.  The exceptions are a VM on which the two answers
\* differ: firewalld was running but is not enabled (nobody applies the permanent
\* rules), or is enabled but did not run when they were persisted, or does not
\* start at the boot (network-setup does nothing).
PersistedRulesSurviveReboot ==
    (stage = "starting" /\ clean /\ Supported /\ InForce) => Protects

\* "The environment thread will fix it": once nothing disturbs the rules any
\* more they end up in place for good, whichever of them are missing, unless what
\* is left is something that the check cannot see.
Repaired == <>[](Supported => Protects \/ NotSeenByCheck)

=============================================================================

------------------------ MODULE ResourceControlProofs ------------------------
(***************************************************************************)
(* Proofs about ResourceControl, for every set of extensions and any       *)
(* number of restarts, reboots, failures and stray processes: after        *)
(* disable() no quota is left on the agent or on an extension that was on  *)
(* disk when it listed them; commands that run in the agent's own cgroup   *)
(* are not limited; and the restarts for memory stay within the limits of  *)
(* the history file.                                                       *)
(*                                                                         *)
(* disable() resets one unit after the other while another thread may      *)
(* install extensions, set quotas and launch commands. SlicesReset says    *)
(* what a disable() in progress is past of; Phases and AgentReset say when *)
(* cgroups can be on and where the agent's own quota must be gone.         *)
(***************************************************************************)
EXTENDS ResourceControl, TLAPS

(***************************************************************************)
(* The shape of the state: the fields of the records, and the range of the *)
(* quotas.                                                                 *)
Shape ==
    /\ DOMAIN past = {"raced", "failed", "reset", "disabled", "missed", "exits", "forgot"}
    /\ DOMAIN mem = {"now", "start", "last", "breaches", "version"}
    /\ DOMAIN platform = {"distro", "version", "slice", "ctrl"}
    /\ DOMAIN th = Threads
    /\ \A t \in Threads : DOMAIN th[t] = {"pc", "ext", "left", "kind", "next"}
    /\ DOMAIN quota = Units
    /\ installed \subseteq Exts /\ past.reset \subseteq Exts

Resetting(t) == th[t].pc = "resetExts"
Starting == th["main"].pc = "initialize"
Inf(e) == quota[Slice(e)] = "infinity"
Unlimited == ~past.failed => quota[Agent] = "infinity"
Clean == ~past.raced /\ ~past.failed

(* The threads: cgroups are enabled for the agent only if they are for the *)
(* extensions, and only where they are supported; while the agent starts   *)
(* no other thread runs.                                                   *)
Phases ==
    /\ agentOn => extOn
    /\ extOn => platform.distro /\ ~Starting
    /\ Starting => \A t \in Threads : th[t].pc \in {"initialize", "idle"}
    /\ \A t \in Threads : th[t].pc \in {"launch", "disable", "resetExts"} => extOn \/ past.disabled
    /\ \A t \in Threads : Resetting(t) => th[t].kind = "all"
    /\ past.disabled => ~extOn /\ ~Starting /\ platform.distro

(* The agent's own quota is gone once its cgroups are disabled, or never   *)
(* set where it cannot be enforced, and as soon as disable() has come to   *)
(* the extensions.                                                         *)
AgentReset ==
    /\ platform.distro /\ ~Starting /\ (~agentOn \/ ~CanEnforceCpu) => Unlimited
    /\ \A t \in Threads : Resetting(t) => Unlimited

(* What a disable() is past of, or what was reset when it ended.           *)
SlicesReset ==
    /\ ~CanEnforceCpu => \A e \in Exts : Inf(e)
    /\ extOn /\ Clean => \A t \in Threads : Resetting(t) =>
          /\ \A e \in installed \ th[t].left : Inf(e) \/ (th["main"].pc = "setup" /\ th["main"].ext = e)
          /\ \A e \in past.reset \ th[t].left : Inf(e)
    /\ ~extOn /\ Clean /\ past.disabled => \A e \in past.reset : Inf(e)

(* A command that runs, or is about to, in the agent's cgroup.             *)
DirectUnlimited ==
    /\ ~platform.distro => quota[Agent] = "infinity"
    /\ th["main"].pc = "direct" => Unlimited
    /\ \A e \in Exts \ past.missed : <<e, "direct">> \in procs => Unlimited

(* The restarts that are counted are those of the history.                 *)
HistoryCounts ==
    /\ mem.now \in Nat
    /\ hist \in [Versions -> Seq(Nat)]
    /\ past.exits \in [Versions -> Nat]
    /\ \A v \in Versions \ past.forgot : past.exits[v] <= Len(hist[v]) /\ Len(hist[v]) <= MaxPerVersion

(* The restarts that were made and those that are known.                   *)
Counters == <<hist, mem.now, past.exits, past.forgot>>

(* disable() has reset the agent's quota, or failed to, and has listed the *)
(* extensions; ...                                                         *)
Listing(t) ==
    /\ \/ quota' = ResetOf({Agent}) /\ past'.failed = past.failed
       \/ quota' = quota /\ past'.failed
    /\ DOMAIN past' = DOMAIN past
    /\ past'.raced = past.raced /\ past'.disabled = past.disabled /\ past'.missed = past.missed
    /\ past'.exits = past.exits /\ past'.forgot = past.forgot
    /\ past'.reset = IF Enabled THEN installed ELSE past.reset
    /\ DOMAIN th' = Threads
    /\ \A u \in Threads : DOMAIN th'[u] = {"pc", "ext", "left", "kind", "next"}
    /\ \A u \in Threads : u # t => th'[u] = th[u]
    /\ th'[t].pc = "resetExts" /\ th'[t].left = installed /\ th'[t].kind = th[t].kind

(* ... it has raised.                                                      *)
Raising(t) == quota' = ResetOf({Agent}) /\ past' = past /\ AfterDisable(t)

(* The agent restarts because of its memory.                               *)
MemoryRestart ==
    /\ NewProcess(mem.version)
    /\ CanRestart(mem.version)
    /\ hist' \in Pruned([hist EXCEPT ![mem.version] = Append(@, mem.now)])
    /\ DOMAIN past' = DOMAIN past
    /\ past'.failed = past.failed /\ past'.raced = past.raced /\ past'.missed = past.missed
    /\ ~past'.disabled /\ past'.reset = {}
    /\ past'.exits = [past.exits EXCEPT ![mem.version] = @ + 1]
    /\ past'.forgot = past.forgot \cup
          {w \in Versions : hist'[w] = <<>> /\ (hist[w] # <<>> \/ w = mem.version)}

----------------------------------------------------------------------------
(* A thread that is done with disable() goes on; the other one is left     *)
(* alone.                                                                  *)
LEMMA Resumed ==
    ASSUME Shape, NEW t \in Threads, AfterDisable(t)
    PROVE  /\ DOMAIN th' = Threads
           /\ \A u \in Threads : DOMAIN th'[u] = {"pc", "ext", "left", "kind", "next"}
           /\ \A u \in Threads : u # t => th'[u] = th[u]
           /\ th'[t].pc \in {"idle", "direct", "disable"}
<1>1. \/ th' = [th EXCEPT ![t] = [Idle EXCEPT !.pc = "direct", !.ext = th[t].ext]]
      \/ th' = [th EXCEPT ![t] = [Idle EXCEPT !.pc = "disable", !.kind = "agent", !.next = "release"]]
      \/ th' = [th EXCEPT ![t] = Idle]
  BY Zenon DEF AfterDisable
<1>2. CASE th' = [th EXCEPT ![t] = [Idle EXCEPT !.pc = "direct", !.ext = th[t].ext]]
  BY <1>2, Zenon DEF Shape, Idle
<1>3. CASE th' = [th EXCEPT ![t] = [Idle EXCEPT !.pc = "disable", !.kind = "agent", !.next = "release"]]
  BY <1>3, Zenon DEF Shape, Idle
<1>4. CASE th' = [th EXCEPT ![t] = Idle]
  BY <1>4, Zenon DEF Shape, Idle
<1>. QED
  BY <1>1, <1>2, <1>3, <1>4, Zenon

(* check_cgroups goes on to disable(), or leaves the thread where it is.   *)
LEMMA Checked ==
    ASSUME Shape, NEW t \in Threads, CheckCgroups(t)
    PROVE  /\ UNCHANGED <<platform, quota, installed, procs, agentOn, extOn, mem, hist, past>>
           /\ Enabled /\ th[t].pc = "idle" /\ ~Starting
           /\ DOMAIN th' = Threads
           /\ \A u \in Threads : DOMAIN th'[u] = {"pc", "ext", "left", "kind", "next"}
           /\ \A u \in Threads : u # t => th'[u] = th[u]
           /\ th'[t] = th[t] \/ th'[t].pc = "disable"
<1>1. /\ UNCHANGED <<platform, quota, installed, procs, agentOn, extOn, mem, hist, past>>
      /\ Enabled /\ th[t].pc = "idle" /\ ~Starting
  BY Zenon DEF CheckCgroups, Starting, disk, flags, memory
<1>2. \/ th' = th
      \/ \E kind, next : th' = [th EXCEPT ![t] = [Idle EXCEPT !.pc = "disable", !.kind = kind, !.next = next]]
  BY Zenon DEF CheckCgroups
<1>3. CASE th' = th
  BY <1>1, <1>3, Zenon DEF Shape
<1>4. ASSUME NEW kind, NEW next,
             th' = [th EXCEPT ![t] = [Idle EXCEPT !.pc = "disable", !.kind = kind, !.next = next]]
      PROVE  /\ DOMAIN th' = Threads
             /\ \A u \in Threads : DOMAIN th'[u] = {"pc", "ext", "left", "kind", "next"}
             /\ \A u \in Threads : u # t => th'[u] = th[u]
             /\ th'[t].pc = "disable"
  BY <1>4, Zenon DEF Shape, Idle
<1>. QED
  BY <1>1, <1>2, <1>3, <1>4, Zenon

(* A new process starts with one thread and with cgroups disabled.         *)
LEMMA Started ==
    ASSUME Shape, NEW v, NewProcess(v)
    PROVE  /\ ~agentOn' /\ ~extOn'
           /\ DOMAIN th' = Threads
           /\ \A t \in Threads : DOMAIN th'[t] = {"pc", "ext", "left", "kind", "next"}
           /\ th'["main"].pc = "initialize" /\ th'["monitor"].pc = "idle"
           /\ DOMAIN mem' = DOMAIN mem /\ mem'.now = mem.now
<1>1. ~agentOn' /\ ~extOn'
  BY Zenon DEF NewProcess
<1>2. /\ DOMAIN th' = Threads
      /\ \A t \in Threads : DOMAIN th'[t] = {"pc", "ext", "left", "kind", "next"}
      /\ th'["main"].pc = "initialize" /\ th'["monitor"].pc = "idle"
  BY Zenon DEF NewProcess, Idle, Threads
<1>3. DOMAIN mem' = DOMAIN mem /\ mem'.now = mem.now
  BY Zenon DEF NewProcess, Shape
<1>. QED
  BY <1>1, <1>2, <1>3, Zenon

(* The check of the memory restarts the agent, or changes its own counters *)
(* only.                                                                   *)
LEMMA MemoryChecked ==
    ASSUME Shape, CheckAgentMemoryUsage
    PROVE  /\ UNCHANGED <<platform, quota, installed, procs>>
           /\ DOMAIN mem' = DOMAIN mem /\ mem'.now = mem.now
           /\ UNCHANGED <<agentOn, extOn, th, hist, past>> \/ MemoryRestart
<1>1. UNCHANGED <<platform, quota, installed, procs>>
  BY Zenon DEF CheckAgentMemoryUsage, disk
<1>2. CASE /\ UNCHANGED <<hist, past, flags, th>>
           /\ \/ mem' = [mem EXCEPT !.last = mem.now, !.breaches = 0]
              \/ mem' = [mem EXCEPT !.last = mem.now, !.breaches = @ + 1]
  <2>1. CASE mem' = [mem EXCEPT !.last = mem.now, !.breaches = 0]
    <3>1. DOMAIN mem' = DOMAIN mem /\ mem'.now = mem.now
      BY <2>1, Zenon DEF Shape
    <3>. QED
      BY <1>1, <1>2, <3>1, Zenon DEF flags
  <2>2. CASE mem' = [mem EXCEPT !.last = mem.now, !.breaches = @ + 1]
    <3>1. DOMAIN mem' = DOMAIN mem /\ mem'.now = mem.now
      BY <2>2, Zenon DEF Shape
    <3>. QED
      BY <1>1, <1>2, <3>1, Zenon DEF flags
  <2>. QED
    BY <1>2, <2>1, <2>2, Zenon
<1>3. CASE /\ CanRestart(mem.version)
           /\ hist' \in Pruned([hist EXCEPT ![mem.version] = Append(@, mem.now)])
           /\ NewProcess(mem.version)
           /\ past' = [past EXCEPT !.exits[mem.version] = @ + 1, !.disabled = FALSE, !.reset = {},
                                   !.forgot = @ \cup {w \in Versions :
                                       hist'[w] = <<>> /\ (hist[w] # <<>> \/ w = mem.version)}]
  <2>1. /\ DOMAIN past' = DOMAIN past /\ past'.failed = past.failed /\ past'.raced = past.raced
        /\ past'.missed = past.missed
    BY <1>3, Zenon DEF Shape
  <2>2. past'.disabled = FALSE /\ past'.reset = {}
    BY <1>3, Zenon DEF Shape
  <2>3. past'.exits = [past.exits EXCEPT ![mem.version] = @ + 1]
    BY <1>3, Zenon DEF Shape
  <2>4. past'.forgot = past.forgot \cup
            {w \in Versions : hist'[w] = <<>> /\ (hist[w] # <<>> \/ w = mem.version)}
    BY <1>3, Zenon DEF Shape
  <2>. QED
    BY <1>1, <1>3, <2>1, <2>2, <2>3, <2>4, Started, Zenon DEF MemoryRestart
<1>. QED
  BY <1>2, <1>3, Zenon DEF CheckAgentMemoryUsage, RestartAgent

(* disable() resets the agent's quota; then it either has listed the       *)
(* extensions or has raised.                                               *)
LEMMA DisableListed ==
    ASSUME Shape, NEW t \in Threads, DisableAll(t)
    PROVE  /\ UNCHANGED <<platform, installed, procs, agentOn, extOn, mem, hist>>
           /\ th[t].pc = "disable" /\ th[t].kind = "all"
           /\ Listing(t) \/ Raising(t)
<1>1. /\ UNCHANGED <<platform, installed, procs, agentOn, extOn, mem, hist>>
      /\ th[t].pc = "disable" /\ th[t].kind = "all"
  BY Zenon DEF DisableAll, flags, memory
<1>2. ASSUME th' = [th EXCEPT ![t].pc = "resetExts", ![t].left = installed]
      PROVE  /\ DOMAIN th' = Threads
             /\ \A u \in Threads : DOMAIN th'[u] = {"pc", "ext", "left", "kind", "next"}
             /\ \A u \in Threads : u # t => th'[u] = th[u]
             /\ th'[t].pc = "resetExts" /\ th'[t].left = installed /\ th'[t].kind = th[t].kind
  BY <1>2, Zenon DEF Shape
<1>3. ASSUME \/ quota' = ResetOf({Agent}) /\ past' = Listed
             \/ quota' = quota /\ past' = [Listed EXCEPT !.failed = TRUE]
      PROVE  /\ \/ quota' = ResetOf({Agent}) /\ past'.failed = past.failed
                \/ quota' = quota /\ past'.failed = TRUE
             /\ DOMAIN past' = DOMAIN past
             /\ past'.raced = past.raced /\ past'.disabled = past.disabled /\ past'.missed = past.missed
             /\ past'.exits = past.exits /\ past'.forgot = past.forgot
             /\ past'.reset = IF Enabled THEN installed ELSE past.reset
  <2>1. /\ DOMAIN Listed = DOMAIN past /\ Listed.failed = past.failed
        /\ Listed.raced = past.raced /\ Listed.disabled = past.disabled /\ Listed.missed = past.missed
        /\ Listed.exits = past.exits /\ Listed.forgot = past.forgot
        /\ Listed.reset = IF Enabled THEN installed ELSE past.reset
    <3>1. CASE Enabled
      BY <3>1, Zenon DEF Listed, ExtensionsOnDisk, Shape
    <3>2. CASE ~Enabled
      BY <3>2, Zenon DEF Listed
    <3>. QED
      BY <3>1, <3>2, Zenon
  <2>2. CASE quota' = ResetOf({Agent}) /\ past' = Listed
    BY <2>1, <2>2, Zenon
  <2>3. CASE quota' = quota /\ past' = [Listed EXCEPT !.failed = TRUE]
    BY <2>1, <2>3, Zenon DEF Shape
  <2>. QED
    BY <1>3, <2>2, <2>3, Zenon
<1>. QED
  BY <1>1, <1>2, <1>3, Zenon DEF DisableAll, ExtensionsOnDisk, Listing, Raising

(* How initialize ends: cgroups stay off, with the agent's quota reset     *)
(* unless a call failed, or are on, with the quota set or reset.           *)
LEMMA Initialized ==
    ASSUME Shape, Initialize
    PROVE  /\ UNCHANGED <<platform, installed, procs, mem, hist>>
           /\ DOMAIN past' = DOMAIN past /\ DOMAIN quota' = Units
           /\ past'.raced = past.raced /\ past'.exits = past.exits /\ past'.forgot = past.forgot
           /\ past'.reset = past.reset \/ past'.reset = {}
           /\ th["main"].pc = "initialize" /\ th' = [th EXCEPT !["main"].pc = "idle"]
           /\ \A u \in Units : u # Agent => quota'[u] = quota[u]
           /\ \/ /\ ~platform.distro /\ ~agentOn' /\ ~extOn'
                 /\ UNCHANGED <<quota, past>>
              \/ /\ platform.distro /\ ~agentOn' /\ ~extOn'
                 /\ \/ past'.failed /\ past'.disabled = past.disabled
                    \/ quota'[Agent] = "infinity" /\ past'.failed = past.failed /\ past'.reset = {}
              \/ /\ platform.distro /\ agentOn' /\ extOn' /\ past'.disabled = past.disabled
                 /\ \/ past'.failed
                    \/ ~CanEnforceCpu /\ quota'[Agent] = "infinity"
                    \/ CanEnforceCpu
                 /\ DisableOnProcessCheck => \A e \in Exts \ past'.missed : <<e, "direct">> \notin procs
<1>1. /\ UNCHANGED <<platform, installed, procs, mem, hist>>
      /\ th["main"].pc = "initialize" /\ th' = [th EXCEPT !["main"].pc = "idle"]
  BY Zenon DEF Initialize, Goto, memory
<1>2. ASSUME NEW x, quota' = [quota EXCEPT ![Agent] = x]
      PROVE  DOMAIN quota' = Units /\ quota'[Agent] = x /\ \A u \in Units : u # Agent => quota'[u] = quota[u]
  BY <1>2, Zenon DEF Shape, Units
<1>3. CASE InitializeUnsupported
  BY <1>1, <1>3, Zenon DEF InitializeUnsupported, Supported, Shape
<1>4. ASSUME NEW b \in BOOLEAN, InitializeDisabled(b)
      PROVE  /\ platform.distro /\ ~agentOn' /\ ~extOn'
             /\ DOMAIN past' = DOMAIN past /\ DOMAIN quota' = Units
             /\ past'.raced = past.raced /\ past'.exits = past.exits /\ past'.forgot = past.forgot
             /\ past'.reset = past.reset \/ past'.reset = {}
             /\ \A u \in Units : u # Agent => quota'[u] = quota[u]
             /\ \/ past'.failed /\ past'.disabled = past.disabled
                \/ quota'[Agent] = "infinity" /\ past'.failed = past.failed /\ past'.reset = {}
  <2>1. platform.distro /\ ~agentOn' /\ ~extOn'
    BY <1>4, Zenon DEF InitializeDisabled, Supported
  <2>2. /\ DOMAIN quota' = Units /\ \A u \in Units : u # Agent => quota'[u] = quota[u]
    BY <1>2, <1>4, Zenon DEF InitializeDisabled
  <2>3. CASE past' = [past EXCEPT !.failed = TRUE]
    BY <2>1, <2>2, <2>3, Zenon DEF Shape
  <2>4. ASSUME NEW d, past' = [past EXCEPT !.disabled = d, !.reset = {}, !.missed = {}],
               quota' = [quota EXCEPT ![Agent] = InitializedQuota(FALSE, TRUE)]
        PROVE  /\ DOMAIN past' = DOMAIN past /\ past'.failed = past.failed /\ past'.reset = {}
               /\ past'.raced = past.raced /\ past'.exits = past.exits /\ past'.forgot = past.forgot
               /\ quota'[Agent] = "infinity"
    <3>1. InitializedQuota(FALSE, TRUE) = "infinity"
      BY Zenon DEF InitializedQuota, FinallyResets
    <3>. QED
      BY <1>2, <2>4, <3>1, Zenon DEF Shape
  <2>. QED
    BY <1>4, <2>1, <2>2, <2>3, <2>4, Zenon DEF InitializeDisabled
<1>5. ASSUME NEW b \in BOOLEAN, InitializeEnabled(b)
      PROVE  /\ platform.distro /\ agentOn' /\ extOn' /\ past'.disabled = past.disabled
             /\ DOMAIN past' = DOMAIN past /\ DOMAIN quota' = Units
             /\ past'.raced = past.raced /\ past'.exits = past.exits /\ past'.forgot = past.forgot
             /\ past'.reset = past.reset
             /\ \A u \in Units : u # Agent => quota'[u] = quota[u]
             /\ \/ past'.failed
                \/ ~CanEnforceCpu /\ quota'[Agent] = "infinity"
                \/ CanEnforceCpu
             /\ DisableOnProcessCheck => \A e \in Exts \ past'.missed : <<e, "direct">> \notin procs
  <2>. DEFINE m == IF b THEN InAgentCgroup(procs) ELSE {}
  <2>1. /\ platform.distro /\ agentOn' /\ extOn'
        /\ DOMAIN quota' = Units /\ \A u \in Units : u # Agent => quota'[u] = quota[u]
    BY <1>2, <1>5, Zenon DEF InitializeEnabled, Supported
  <2>2. DisableOnProcessCheck => InAgentCgroup(procs) \subseteq m
    BY <1>5, Zenon DEF InitializeEnabled, UnexpectedBeforeEnable
  <2>3. DisableOnProcessCheck => \A e \in Exts \ m : <<e, "direct">> \notin procs
    BY <2>2, Zenon DEF InAgentCgroup
  <2>4. \/ past' = [past EXCEPT !.failed = TRUE, !.missed = m]
        \/ /\ past' = [past EXCEPT !.missed = m]
           /\ quota' = [quota EXCEPT ![Agent] = InitializedQuota(TRUE, TRUE)]
    BY <1>5, Zenon DEF InitializeEnabled
  <2>5. ~CanEnforceCpu => InitializedQuota(TRUE, TRUE) = "infinity"
    BY Zenon DEF InitializedQuota, FinallyResets
  <2>. HIDE DEF m
  <2>6. CASE past' = [past EXCEPT !.failed = TRUE, !.missed = m]
    <3>1. /\ DOMAIN past' = DOMAIN past /\ past'.missed = m /\ past'.failed = TRUE
          /\ past'.disabled = past.disabled /\ past'.reset = past.reset
          /\ past'.raced = past.raced /\ past'.exits = past.exits /\ past'.forgot = past.forgot
      BY <2>6, Zenon DEF Shape
    <3>. QED
      BY <2>1, <2>3, <3>1, Zenon
  <2>7. CASE /\ past' = [past EXCEPT !.missed = m]
             /\ quota' = [quota EXCEPT ![Agent] = InitializedQuota(TRUE, TRUE)]
    <3>1. /\ DOMAIN past' = DOMAIN past /\ past'.missed = m
          /\ past'.disabled = past.disabled /\ past'.reset = past.reset
          /\ past'.raced = past.raced /\ past'.exits = past.exits /\ past'.forgot = past.forgot
      BY <2>7, Zenon DEF Shape
    <3>. QED
      BY <1>2, <2>1, <2>3, <2>5, <2>7, <3>1, Zenon
  <2>. QED
    BY <2>4, <2>6, <2>7, Zenon
<1>. QED
  BY <1>1, <1>3, <1>4, <1>5, Zenon DEF Initialize

(* Every step keeps the shape.                                             *)
LEMMA ShapeStep ==
    ASSUME Shape, [Next]_vars
    PROVE  Shape'
<1>1. CASE Initialize
  BY <1>1, Initialized, Zenon DEF Shape
<1>2. CASE SetQuotas
  BY <1>2, Zenon DEF SetQuotas, Fails, Finish, Idle, memory, Shape
<1>3. CASE LaunchInSlice
  BY <1>3, Zenon DEF LaunchInSlice, Goto, disk, memory, Shape
<1>4. CASE LaunchDirectly
  BY <1>4, Zenon DEF LaunchDirectly, Goto, disk, memory, Shape
<1>5. CASE CommandCompletes
  BY <1>5, Zenon DEF CommandCompletes, Finish, Idle, memory, Shape
<1>6. ASSUME NEW t \in Threads, DisableAll(t) PROVE Shape'
  <2>1. /\ UNCHANGED <<platform, installed, procs, agentOn, extOn, mem, hist>>
        /\ th[t].pc = "disable" /\ th[t].kind = "all"
    BY <1>6, DisableListed, Zenon
  <2>2. CASE Listing(t)
    BY <2>1, <2>2, Zenon DEF Listing, ResetOf, Shape
  <2>3. CASE Raising(t)
    BY <2>1, <2>3, Resumed, Zenon DEF Raising, ResetOf, Shape
  <2>. QED
    BY <1>6, <2>2, <2>3, DisableListed, Zenon
<1>7. ASSUME NEW t \in Threads, DisableAgent(t) PROVE Shape'
  BY <1>7, Resumed, Zenon DEF DisableAgent, ResetOf, Succeeds, Fails, memory, Shape
<1>8. ASSUME NEW t \in Threads, TurnOff(t) PROVE Shape'
  BY <1>8, Resumed, Zenon DEF TurnOff, disk, memory, Shape
<1>9. ASSUME NEW t \in Threads, NEW e \in Exts, ResetExtension(t, e) PROVE Shape'
  BY <1>9, Zenon DEF ResetExtension, ResetOf, Succeeds, Fails, memory, Shape
<1>10. ASSUME NEW e \in Exts, SetupExtension(e) PROVE Shape'
  BY <1>10, Zenon DEF SetupExtension, memory, Shape
<1>11. ASSUME NEW e \in Exts, StartCommand(e) PROVE Shape'
  BY <1>11, Zenon DEF StartCommand, disk, memory, Shape
<1>12. ASSUME NEW e \in Exts, RemoveExtension(e) PROVE Shape'
  BY <1>12, Zenon DEF RemoveExtension, ResetOf, Succeeds, Fails, memory, Shape
<1>13. CASE ValidateSignature
  BY <1>13, Zenon DEF ValidateSignature, disk, memory, Shape
<1>14. ASSUME NEW t \in Threads, CheckCgroups(t) PROVE Shape'
  BY <1>14, Checked, Zenon DEF Shape
<1>15. CASE CheckAgentMemoryUsage
  <2>1. /\ UNCHANGED <<platform, quota, installed, procs>>
        /\ DOMAIN mem' = DOMAIN mem /\ mem'.now = mem.now
    BY <1>15, MemoryChecked, Zenon
  <2>2. CASE UNCHANGED <<agentOn, extOn, th, hist, past>>
    BY <2>1, <2>2, Zenon DEF Shape
  <2>3. CASE MemoryRestart
    BY <2>1, <2>3, Started, Zenon DEF MemoryRestart, Shape
  <2>. QED
    BY <1>15, <2>2, <2>3, MemoryChecked, Zenon
<1>16. ASSUME NEW e \in Exts, StrayProcess(e) PROVE Shape'
  BY <1>16, Zenon DEF StrayProcess, disk, memory, Shape
<1>17. ASSUME NEW e \in Exts, NEW w \in Places, ProcessExits(e, w) PROVE Shape'
  BY <1>17, Zenon DEF ProcessExits, disk, memory, Shape
<1>18. CASE Tick
  BY <1>18, Zenon DEF Tick, disk, Shape
<1>19. CASE HistoryLost
  BY <1>19, Zenon DEF HistoryLost, disk, Shape
<1>20. CASE Reboot
  BY <1>20, Started, Zenon DEF Reboot, Shape
<1>21. ASSUME NEW v \in Versions, Restart(v) PROVE Shape'
  BY <1>21, Started, Zenon DEF Restart, Shape
<1>22. CASE UNCHANGED vars
  BY <1>22, Zenon DEF vars, Shape
<1>. QED
  BY <1>1, <1>2, <1>3, <1>4, <1>5, <1>6, <1>7, <1>8, <1>9, <1>10, <1>11, <1>12, <1>13, <1>14,
     <1>15, <1>16, <1>17, <1>18, <1>19, <1>20, <1>21, <1>22, Zenon DEF
    Next, MainFinishes, MainStarts, Monitor, Environment, Disable, Threads

(* Every step keeps the threads consistent.                                *)
LEMMA PhasesStep ==
    ASSUME Shape, Phases, [Next]_vars
    PROVE  Phases'
<1>1. CASE Initialize
  BY <1>1, Initialized, SMTT(20) DEF Phases, Resetting, Starting, Threads, Shape
<1>2. CASE SetQuotas
  BY <1>2, SMTT(20) DEF SetQuotas, Fails, Finish, Idle, flags, Phases, Resetting, Starting, Shape
<1>3. CASE LaunchInSlice
  BY <1>3, SMTT(20) DEF LaunchInSlice, Goto, disk, flags, Phases, Resetting, Starting, Threads, Shape
<1>4. CASE LaunchDirectly
  BY <1>4, SMTT(20) DEF LaunchDirectly, Goto, disk, flags, Phases, Resetting, Starting
<1>5. CASE CommandCompletes
  BY <1>5, SMTT(20) DEF CommandCompletes, Finish, Idle, flags, Phases, Resetting, Starting
<1>6. ASSUME NEW t \in Threads, DisableAll(t) PROVE Phases'
  <2>1. /\ UNCHANGED <<platform, installed, procs, agentOn, extOn, mem, hist>>
        /\ th[t].pc = "disable" /\ th[t].kind = "all"
    BY <1>6, DisableListed, Zenon
  <2>2. CASE Listing(t)
    BY <2>1, <2>2, SMTT(20) DEF Listing, Phases, Resetting, Starting, Threads
  <2>3. CASE Raising(t)
    BY <2>1, <2>3, Resumed, Zenon DEF Raising, Phases, Resetting, Starting, Threads
  <2>. QED
    BY <1>6, <2>2, <2>3, DisableListed, Zenon
<1>7. ASSUME NEW t \in Threads, DisableAgent(t) PROVE Phases'
  BY <1>7, Resumed, SMTT(20) DEF DisableAgent, Succeeds, Fails, Phases, Resetting, Starting, Threads, Shape
<1>8. ASSUME NEW t \in Threads, TurnOff(t) PROVE Phases'
  BY <1>8, Resumed, SMTT(20) DEF TurnOff, disk, Phases, Resetting, Starting, Threads
<1>9. ASSUME NEW t \in Threads, NEW e \in Exts, ResetExtension(t, e) PROVE Phases'
  BY <1>9, SMTT(20) DEF ResetExtension, Succeeds, Fails, flags, Phases, Resetting, Starting, Shape
<1>10. ASSUME NEW e \in Exts, SetupExtension(e) PROVE Phases'
  BY <1>10, Zenon DEF SetupExtension, flags, Phases, Resetting, Starting, Threads, Shape
<1>11. ASSUME NEW e \in Exts, StartCommand(e) PROVE Phases'
  BY <1>11, SMTT(20) DEF StartCommand, Threads, Shape
<1>12. ASSUME NEW e \in Exts, RemoveExtension(e) PROVE Phases'
  BY <1>12, SMTT(20) DEF RemoveExtension, Succeeds, Fails, flags, Phases, Resetting, Starting, Shape
<1>13. CASE ValidateSignature
  BY <1>13, Zenon DEF ValidateSignature, disk, flags, Phases, Resetting, Starting, Enabled, Threads, Shape
<1>14. ASSUME NEW t \in Threads, CheckCgroups(t) PROVE Phases'
  BY <1>14, Checked, SMTT(20) DEF Phases, Resetting, Starting, Enabled, Threads
<1>15. CASE CheckAgentMemoryUsage
  <2>1. /\ UNCHANGED <<platform, quota, installed, procs>>
        /\ DOMAIN mem' = DOMAIN mem /\ mem'.now = mem.now
    BY <1>15, MemoryChecked, Zenon
  <2>2. CASE UNCHANGED <<agentOn, extOn, th, hist, past>>
    BY <2>1, <2>2, Zenon DEF Phases, Resetting, Starting
  <2>3. CASE MemoryRestart
    BY <2>1, <2>3, Started, Zenon DEF MemoryRestart, Phases, Resetting, Threads
  <2>. QED
    BY <1>15, <2>2, <2>3, MemoryChecked, Zenon
<1>16. ASSUME NEW e \in Exts, StrayProcess(e) PROVE Phases'
  BY <1>16, Zenon DEF StrayProcess, disk, flags, Phases, Resetting, Starting
<1>17. ASSUME NEW e \in Exts, NEW w \in Places, ProcessExits(e, w) PROVE Phases'
  BY <1>17, Zenon DEF ProcessExits, disk, flags, Phases, Resetting, Starting
<1>18. CASE Tick
  BY <1>18, Zenon DEF Tick, disk, flags, Phases, Resetting, Starting
<1>19. CASE HistoryLost
  BY <1>19, SMTT(20) DEF HistoryLost, disk, flags, Phases, Resetting, Starting
<1>20. CASE Reboot
  BY <1>20, Started, SMTT(20) DEF Reboot, Phases, Resetting, Threads
<1>21. ASSUME NEW v \in Versions, Restart(v) PROVE Phases'
  BY <1>21, Started, SMTT(20) DEF Restart, Phases, Resetting, Threads
<1>22. CASE UNCHANGED vars
  BY <1>22, Zenon DEF vars, Phases, Resetting, Starting
<1>. QED
  BY <1>1, <1>2, <1>3, <1>4, <1>5, <1>6, <1>7, <1>8, <1>9, <1>10, <1>11, <1>12, <1>13, <1>14,
     <1>15, <1>16, <1>17, <1>18, <1>19, <1>20, <1>21, <1>22, Zenon DEF
    Next, MainFinishes, MainStarts, Monitor, Environment, Disable, Threads

(* The agent's quota is set by initialize only, with its cgroups enabled;  *)
(* disable() resets it before it comes to the extensions.                  *)
LEMMA AgentResetStep ==
    ASSUME Shape, Phases, AgentReset, [Next]_vars
    PROVE  AgentReset'
<1>1. CASE Initialize
  BY <1>1, Initialized, SMTT(20) DEF Phases, Resetting, Starting, Shape, AgentReset, Unlimited, CanEnforceCpu,
    Threads
<1>2. CASE SetQuotas
  BY <1>2, SMTT(20) DEF SetQuotas, Fails, Finish, Idle, flags, Resetting, Starting, Shape, AgentReset,
    Unlimited, CanEnforceCpu, Units, Agent, Slice
<1>3. CASE LaunchInSlice
  BY <1>3, SMTT(20) DEF LaunchInSlice, Goto, disk, flags, Resetting, Starting, Shape, AgentReset, Unlimited,
    CanEnforceCpu
<1>4. CASE LaunchDirectly
  BY <1>4, SMTT(20) DEF LaunchDirectly, Goto, disk, flags, Resetting, Starting, AgentReset, Unlimited,
    CanEnforceCpu
<1>5. CASE CommandCompletes
  BY <1>5, SMTT(20) DEF CommandCompletes, Finish, Idle, flags, Resetting, Starting, AgentReset, Unlimited,
    CanEnforceCpu
<1>6. ASSUME NEW t \in Threads, DisableAll(t) PROVE AgentReset'
  <2>1. /\ UNCHANGED <<platform, installed, procs, agentOn, extOn, mem, hist>>
        /\ th[t].pc = "disable" /\ th[t].kind = "all"
    BY <1>6, DisableListed, Zenon
  <2>2. CASE Listing(t)
    BY <2>1, <2>2, SMTT(20) DEF Listing, ResetOf, Phases, AgentReset, Unlimited, Units
  <2>3. CASE Raising(t)
    BY <2>1, <2>3, Resumed, Zenon DEF Raising, ResetOf, Phases, AgentReset, Unlimited, Units
  <2>. QED
    BY <1>6, <2>2, <2>3, DisableListed, Zenon
<1>7. ASSUME NEW t \in Threads, DisableAgent(t) PROVE AgentReset'
  BY <1>7, Resumed, SMTT(20) DEF DisableAgent, ResetOf, Succeeds, Fails, Phases, Shape, AgentReset, Unlimited,
    Units
<1>8. ASSUME NEW t \in Threads, TurnOff(t) PROVE AgentReset'
  BY <1>8, Resumed, SMTT(20) DEF TurnOff, disk, Resetting, AgentReset, Unlimited
<1>9. ASSUME NEW t \in Threads, NEW e \in Exts, ResetExtension(t, e) PROVE AgentReset'
  BY <1>9, SMTT(20) DEF ResetExtension, ResetOf, Succeeds, Fails, Resetting, Shape, AgentReset, Unlimited,
    Units
<1>10. ASSUME NEW e \in Exts, SetupExtension(e) PROVE AgentReset'
  BY <1>10, SMTT(20) DEF SetupExtension, flags, Resetting, Starting, Shape, AgentReset, Unlimited,
    CanEnforceCpu
<1>11. ASSUME NEW e \in Exts, StartCommand(e) PROVE AgentReset'
  BY <1>11, SMTT(20) DEF StartCommand, Threads, Shape
<1>12. ASSUME NEW e \in Exts, RemoveExtension(e) PROVE AgentReset'
  BY <1>12, SMTT(20) DEF RemoveExtension, ResetOf, Succeeds, Fails, flags, Resetting, Starting, Shape,
    AgentReset, Unlimited, CanEnforceCpu, Units
<1>13. CASE ValidateSignature
  BY <1>13, SMTT(20) DEF ValidateSignature, disk, flags, Resetting, Starting, Shape, AgentReset, Unlimited,
    CanEnforceCpu
<1>14. ASSUME NEW t \in Threads, CheckCgroups(t) PROVE AgentReset'
  BY <1>14, Checked, SMTT(20) DEF Phases, Resetting, AgentReset, Unlimited, CanEnforceCpu
<1>15. CASE CheckAgentMemoryUsage
  <2>1. /\ UNCHANGED <<platform, quota, installed, procs>>
        /\ DOMAIN mem' = DOMAIN mem /\ mem'.now = mem.now
    BY <1>15, MemoryChecked, Zenon
  <2>2. CASE UNCHANGED <<agentOn, extOn, th, hist, past>>
    BY <2>1, <2>2, Zenon DEF Phases, Resetting, Starting, AgentReset, Unlimited, CanEnforceCpu
  <2>3. CASE MemoryRestart
    BY <2>1, <2>3, Started, Zenon DEF MemoryRestart, Resetting, Starting, Threads, AgentReset
  <2>. QED
    BY <1>15, <2>2, <2>3, MemoryChecked, Zenon
<1>16. ASSUME NEW e \in Exts, StrayProcess(e) PROVE AgentReset'
  BY <1>16, Zenon DEF StrayProcess, disk, flags, Resetting, Starting, AgentReset, Unlimited, CanEnforceCpu
<1>17. ASSUME NEW e \in Exts, NEW w \in Places, ProcessExits(e, w) PROVE AgentReset'
  BY <1>17, Zenon DEF ProcessExits, disk, flags, Resetting, Starting, AgentReset, Unlimited, CanEnforceCpu
<1>18. CASE Tick
  BY <1>18, Zenon DEF Tick, disk, flags, Resetting, Starting, AgentReset, Unlimited, CanEnforceCpu
<1>19. CASE HistoryLost
  BY <1>19, SMTT(20) DEF HistoryLost, disk, flags, Resetting, Starting, AgentReset, Unlimited, CanEnforceCpu
<1>20. CASE Reboot
  BY <1>20, Started, Zenon DEF Reboot, Resetting, Starting, Threads, AgentReset
<1>21. ASSUME NEW v \in Versions, Restart(v) PROVE AgentReset'
  BY <1>21, Started, Zenon DEF Restart, Resetting, Starting, Threads, AgentReset
<1>22. CASE UNCHANGED vars
  BY <1>22, Zenon DEF vars, Resetting, Starting, AgentReset, Unlimited, CanEnforceCpu
<1>. QED
  BY <1>1, <1>2, <1>3, <1>4, <1>5, <1>6, <1>7, <1>8, <1>9, <1>10, <1>11, <1>12, <1>13, <1>14,
     <1>15, <1>16, <1>17, <1>18, <1>19, <1>20, <1>21, <1>22, Zenon DEF
    Next, MainFinishes, MainStarts, Monitor, Environment, Disable, Threads

(* A quota that is set behind a disable() is remembered as a race; every   *)
(* other quota of a listed extension is reset by the time disable() ends.  *)
LEMMA SlicesResetStep ==
    ASSUME Shape, Phases, SlicesReset, [Next]_vars
    PROVE  SlicesReset'
<1>1. CASE Initialize
  <2>1. \A e \in Exts : Inf(e)' <=> Inf(e)
    <3>1. \A e \in Exts : Slice(e) \in Units /\ Slice(e) # Agent
      BY Zenon DEF Units, Slice, Agent
    <3>. QED
      BY <1>1, <3>1, Initialized, Zenon DEF Inf
  <2>2. \A t \in Threads : ~Resetting(t)'
    BY <1>1, Initialized, SMTT(20) DEF Phases, Resetting, Starting, Threads, Shape
  <2>3. ~past.disabled
    BY <1>1, Initialized, Zenon DEF Phases, Starting
  <2>. QED
    BY <1>1, <2>1, <2>2, <2>3, Initialized, Zenon DEF SlicesReset, CanEnforceCpu, Clean
<1>2. CASE SetQuotas
  <2> DEFINE e == th["main"].ext
  <2>1. /\ UNCHANGED <<platform, installed, agentOn, extOn>>
        /\ th["main"].pc = "setup"
        /\ th'["main"].pc = "idle" /\ th'["monitor"] = th["monitor"]
    BY <1>2, Zenon DEF SetQuotas, Finish, Idle, flags, Shape, Threads
  <2>2. CASE quota' = quota /\ Fails
    <3>1. past'.failed = TRUE
      BY <2>2, Zenon DEF Fails, Shape
    <3>2. ~Clean'
      BY <3>1, Zenon DEF Clean
    <3>. QED
      BY <2>1, <2>2, <3>2, Zenon DEF SlicesReset, CanEnforceCpu, Inf
  <2>3. CASE /\ quota' = [quota EXCEPT ![Slice(e)] = ExtensionQuota]
             /\ past' = [past EXCEPT !.raced = @ \/ AlreadyReset(e)]
    <3>1. /\ past'.raced = (past.raced \/ AlreadyReset(e)) /\ past'.failed = past.failed
          /\ past'.reset = past.reset /\ past'.disabled = past.disabled
      BY <2>3, Zenon DEF Shape
    <3>2. Clean' => Clean /\ ~AlreadyReset(e)
      BY <3>1, Zenon DEF Clean
    <3>3. \A f \in Exts : IF f = e THEN quota'[Slice(f)] = ExtensionQuota
                                   ELSE quota'[Slice(f)] = quota[Slice(f)]
      BY <2>3, Zenon DEF Shape, Units, Slice
    <3>4. ~CanEnforceCpu' => \A f \in Exts : Inf(f)'
      BY <2>1, <3>3, Zenon DEF SlicesReset, CanEnforceCpu, ExtensionQuota, Inf
    <3>5. \A t \in Threads : Resetting(t)' => Resetting(t) /\ th'[t] = th[t]
      BY <2>1, Zenon DEF Resetting, Threads
    <3>6. ASSUME ~AlreadyReset(e)
          PROVE  extOn /\ \A t \in Threads : Resetting(t) => e \in th[t].left
      BY <3>6, Zenon DEF AlreadyReset, Phases, Resetting, Enabled
    <3>7. ASSUME Clean'
          PROVE  /\ extOn
                 /\ \A t \in Threads : Resetting(t)' =>
                       /\ \A f \in installed \ th'[t].left : Inf(f)'
                       /\ \A f \in past.reset \ th'[t].left : Inf(f)'
      BY <2>1, <3>2, <3>3, <3>5, <3>6, <3>7, SMTT(20) DEF SlicesReset, Inf, Shape
    <3>. QED
      BY <2>1, <3>1, <3>4, <3>7, Zenon DEF SlicesReset
  <2>. QED
    BY <1>2, <2>2, <2>3, Zenon DEF SetQuotas
<1>3. CASE LaunchInSlice
  BY <1>3, SMTT(20) DEF LaunchInSlice, Goto, disk, flags, Resetting, Shape, SlicesReset, Inf, Clean,
    CanEnforceCpu
<1>4. CASE LaunchDirectly
  BY <1>4, SMTT(20) DEF LaunchDirectly, Goto, disk, flags, Resetting, SlicesReset, Inf, Clean, CanEnforceCpu
<1>5. CASE CommandCompletes
  BY <1>5, SMTT(20) DEF CommandCompletes, Finish, Idle, flags, Resetting, SlicesReset, Inf, Clean,
    CanEnforceCpu
<1>6. ASSUME NEW t \in Threads, DisableAll(t) PROVE SlicesReset'
  <2>1. /\ UNCHANGED <<platform, installed, procs, agentOn, extOn, mem, hist>>
        /\ th[t].pc = "disable" /\ th[t].kind = "all"
    BY <1>6, DisableListed, Zenon
  <2>2. CASE Listing(t)
    BY <2>1, <2>2, SMTT(20) DEF Listing, ResetOf, Phases, Resetting, Enabled, Threads, Shape, SlicesReset,
      Inf, Clean, CanEnforceCpu, Units
  <2>3. CASE Raising(t)
    BY <2>1, <2>3, Resumed, SMTT(20) DEF Raising, ResetOf, Resetting, Threads, Shape, SlicesReset, Inf, Clean,
      CanEnforceCpu, Units
  <2>. QED
    BY <1>6, <2>2, <2>3, DisableListed, Zenon
<1>7. ASSUME NEW t \in Threads, DisableAgent(t) PROVE SlicesReset'
  BY <1>7, Resumed, SMTT(20) DEF DisableAgent, ResetOf, Succeeds, Fails, Resetting, Threads, Shape,
    SlicesReset, Inf, Clean, CanEnforceCpu, Units
<1>8. ASSUME NEW t \in Threads, TurnOff(t) PROVE SlicesReset'
  BY <1>8, Resumed, SMTT(20) DEF TurnOff, disk, Phases, Resetting, SlicesReset, Inf, Clean, CanEnforceCpu
<1>9. ASSUME NEW t \in Threads, NEW e \in Exts, ResetExtension(t, e) PROVE SlicesReset'
  BY <1>9, SMTT(20) DEF ResetExtension, ResetOf, Succeeds, Fails, flags, Resetting, Enabled, Shape,
    SlicesReset, Inf, Clean, CanEnforceCpu, Units
<1>10. ASSUME NEW e \in Exts, SetupExtension(e) PROVE SlicesReset'
  BY <1>10, SMTT(20) DEF SetupExtension, flags, Resetting, Enabled, Threads, Shape, SlicesReset, Inf, Clean,
    CanEnforceCpu
<1>11. ASSUME NEW e \in Exts, StartCommand(e) PROVE SlicesReset'
  BY <1>11, SMTT(20) DEF StartCommand, Threads, Shape
<1>12. ASSUME NEW e \in Exts, RemoveExtension(e) PROVE SlicesReset'
  BY <1>12, SMTT(20) DEF RemoveExtension, ResetOf, Succeeds, Fails, flags, Resetting, Shape, SlicesReset, Inf,
    Clean, CanEnforceCpu, Units
<1>13. CASE ValidateSignature
  BY <1>13, SMTT(20) DEF ValidateSignature, disk, flags, Resetting, Shape, SlicesReset, Inf, Clean,
    CanEnforceCpu
<1>14. ASSUME NEW t \in Threads, CheckCgroups(t) PROVE SlicesReset'
  BY <1>14, Checked, SMTT(20) DEF Phases, Resetting, Threads, SlicesReset, Inf, Clean, CanEnforceCpu
<1>15. CASE CheckAgentMemoryUsage
  <2>1. /\ UNCHANGED <<platform, quota, installed, procs>>
        /\ DOMAIN mem' = DOMAIN mem /\ mem'.now = mem.now
    BY <1>15, MemoryChecked, Zenon
  <2>2. CASE UNCHANGED <<agentOn, extOn, th, hist, past>>
    BY <2>1, <2>2, SMTT(20) DEF Phases, Resetting, SlicesReset, Inf, Clean, CanEnforceCpu
  <2>3. CASE MemoryRestart
    BY <2>1, <2>3, Started, Zenon DEF MemoryRestart, SlicesReset, Inf, CanEnforceCpu
  <2>. QED
    BY <1>15, <2>2, <2>3, MemoryChecked, Zenon
<1>16. ASSUME NEW e \in Exts, StrayProcess(e) PROVE SlicesReset'
  BY <1>16, Zenon DEF StrayProcess, disk, flags, Resetting, SlicesReset, Inf, Clean, CanEnforceCpu
<1>17. ASSUME NEW e \in Exts, NEW w \in Places, ProcessExits(e, w) PROVE SlicesReset'
  BY <1>17, Zenon DEF ProcessExits, disk, flags, Resetting, SlicesReset, Inf, Clean, CanEnforceCpu
<1>18. CASE Tick
  BY <1>18, Zenon DEF Tick, disk, flags, Resetting, SlicesReset, Inf, Clean, CanEnforceCpu
<1>19. CASE HistoryLost
  BY <1>19, SMTT(20) DEF HistoryLost, disk, flags, Resetting, SlicesReset, Inf, Clean, CanEnforceCpu
<1>20. CASE Reboot
  BY <1>20, Started, SMTT(20) DEF Reboot, SlicesReset, Inf, Units
<1>21. ASSUME NEW v \in Versions, Restart(v) PROVE SlicesReset'
  BY <1>21, Started, SMTT(20) DEF Restart, Shape, SlicesReset, Inf, CanEnforceCpu
<1>22. CASE UNCHANGED vars
  BY <1>22, Zenon DEF vars, Resetting, SlicesReset, Inf, Clean, CanEnforceCpu
<1>. QED
  BY <1>1, <1>2, <1>3, <1>4, <1>5, <1>6, <1>7, <1>8, <1>9, <1>10, <1>11, <1>12, <1>13, <1>14,
     <1>15, <1>16, <1>17, <1>18, <1>19, <1>20, <1>21, <1>22, Zenon DEF
    Next, MainFinishes, MainStarts, Monitor, Environment, Disable, Threads

(* A command is started directly only with the agent's quota reset, and    *)
(* initialize does not set the quota while it runs.                        *)
LEMMA DirectStep ==
    ASSUME Shape, Phases, AgentReset, DirectUnlimited, DisableOnProcessCheck, ~MayLoseSupport, [Next]_vars
    PROVE  DirectUnlimited'
<1>1. CASE Initialize
  <2>1. /\ UNCHANGED <<platform, procs>>
        /\ th' = [th EXCEPT !["main"].pc = "idle"]
    BY <1>1, Initialized, Zenon
  <2>2. th'["main"].pc = "idle"
    BY <2>1, Zenon DEF Shape, Threads
  <2>3. CASE platform.distro
    BY <1>1, <2>1, <2>2, <2>3, Initialized, Zenon DEF DirectUnlimited, Unlimited
  <2>4. CASE ~platform.distro
    BY <1>1, <2>1, <2>2, <2>4, Initialized, Zenon DEF DirectUnlimited, Unlimited
  <2>. QED
    BY <2>3, <2>4, Zenon
<1>2. CASE SetQuotas
  BY <1>2, SMTT(20) DEF SetQuotas, Fails, Finish, Idle, Shape, DirectUnlimited, Unlimited, Units, Agent, Slice
<1>3. CASE LaunchInSlice
  BY <1>3, SMTT(20) DEF LaunchInSlice, Goto, disk, Threads, Shape, DirectUnlimited, Unlimited
<1>4. CASE LaunchDirectly
  BY <1>4, Zenon DEF LaunchDirectly, disk, DirectUnlimited, Unlimited
<1>5. CASE CommandCompletes
  BY <1>5, SMTT(20) DEF CommandCompletes, Exited, Finish, Idle, DirectUnlimited, Unlimited
<1>6. ASSUME NEW t \in Threads, DisableAll(t) PROVE DirectUnlimited'
  <2>1. /\ UNCHANGED <<platform, installed, procs, agentOn, extOn, mem, hist>>
        /\ th[t].pc = "disable" /\ th[t].kind = "all"
    BY <1>6, DisableListed, Zenon
  <2>2. CASE Listing(t)
    BY <2>1, <2>2, Zenon DEF Listing, ResetOf, Threads, DirectUnlimited, Unlimited, Units
  <2>3. CASE Raising(t)
    BY <2>1, <2>3, Resumed, Zenon DEF Raising, ResetOf, Phases, AgentReset, DirectUnlimited, Unlimited,
      Units
  <2>. QED
    BY <1>6, <2>2, <2>3, DisableListed, Zenon
<1>7. ASSUME NEW t \in Threads, DisableAgent(t) PROVE DirectUnlimited'
  BY <1>7, Resumed, SMTT(20) DEF DisableAgent, ResetOf, Succeeds, Fails, Phases, Shape, AgentReset,
    DirectUnlimited, Unlimited, Units
<1>8. ASSUME NEW t \in Threads, TurnOff(t) PROVE DirectUnlimited'
  BY <1>8, Resumed, SMTT(20) DEF TurnOff, disk, Resetting, AgentReset, DirectUnlimited, Unlimited
<1>9. ASSUME NEW t \in Threads, NEW e \in Exts, ResetExtension(t, e) PROVE DirectUnlimited'
  BY <1>9, SMTT(20) DEF ResetExtension, ResetOf, Succeeds, Fails, Shape, DirectUnlimited, Unlimited, Units
<1>10. ASSUME NEW e \in Exts, SetupExtension(e) PROVE DirectUnlimited'
  BY <1>10, Zenon DEF SetupExtension, Threads, Shape, DirectUnlimited, Unlimited
<1>11. ASSUME NEW e \in Exts, StartCommand(e) PROVE DirectUnlimited'
  BY <1>11, SMTT(20) DEF StartCommand, Threads, Shape
<1>12. ASSUME NEW e \in Exts, RemoveExtension(e) PROVE DirectUnlimited'
  BY <1>12, SMTT(20) DEF RemoveExtension, Exited, ResetOf, Succeeds, Fails, Shape, DirectUnlimited, Unlimited,
    Units
<1>13. CASE ValidateSignature
  BY <1>13, Zenon DEF ValidateSignature, disk, Threads, Shape, DirectUnlimited, Unlimited
<1>14. ASSUME NEW t \in Threads, CheckCgroups(t) PROVE DirectUnlimited'
  BY <1>14, Checked, Zenon DEF Phases, Threads, DirectUnlimited, Unlimited
<1>15. CASE CheckAgentMemoryUsage
  <2>1. /\ UNCHANGED <<platform, quota, installed, procs>>
        /\ DOMAIN mem' = DOMAIN mem /\ mem'.now = mem.now
    BY <1>15, MemoryChecked, Zenon
  <2>2. CASE UNCHANGED <<agentOn, extOn, th, hist, past>>
    BY <2>1, <2>2, Zenon DEF Phases, DirectUnlimited, Unlimited
  <2>3. CASE MemoryRestart
    BY <2>1, <2>3, Started, Zenon DEF MemoryRestart, DirectUnlimited, Unlimited
  <2>. QED
    BY <1>15, <2>2, <2>3, MemoryChecked, Zenon
<1>16. ASSUME NEW e \in Exts, StrayProcess(e) PROVE DirectUnlimited'
  BY <1>16, Zenon DEF StrayProcess, disk, DirectUnlimited, Unlimited
<1>17. ASSUME NEW e \in Exts, NEW w \in Places, ProcessExits(e, w) PROVE DirectUnlimited'
  BY <1>17, Zenon DEF ProcessExits, Exited, disk, DirectUnlimited, Unlimited
<1>18. CASE Tick
  BY <1>18, Zenon DEF Tick, disk, DirectUnlimited, Unlimited
<1>19. CASE HistoryLost
  BY <1>19, SMTT(20) DEF HistoryLost, disk, DirectUnlimited, Unlimited
<1>20. CASE Reboot
  BY <1>20, Started, Zenon DEF Reboot, DirectUnlimited, Units
<1>21. ASSUME NEW v \in Versions, Restart(v) PROVE DirectUnlimited'
  BY <1>21, Started, SMTT(20) DEF Restart, DirectUnlimited, Unlimited
<1>22. CASE UNCHANGED vars
  BY <1>22, Zenon DEF vars, DirectUnlimited, Unlimited
<1>. QED
  BY <1>1, <1>2, <1>3, <1>4, <1>5, <1>6, <1>7, <1>8, <1>9, <1>10, <1>11, <1>12, <1>13, <1>14,
     <1>15, <1>16, <1>17, <1>18, <1>19, <1>20, <1>21, <1>22, Zenon DEF
    Next, MainFinishes, MainStarts, Monitor, Environment, Disable, Threads

(* No step but these makes a restart, loses one or moves the clock.        *)
LEMMA CountersStep ==
    ASSUME Shape, [Next]_vars
    PROVE  UNCHANGED Counters \/ CheckAgentMemoryUsage \/ Tick \/ HistoryLost
<1>1. ASSUME Initialize PROVE UNCHANGED Counters
  BY <1>1, Initialized, Zenon DEF Counters
<1>2. ASSUME SetQuotas PROVE UNCHANGED Counters
  BY <1>2, Zenon DEF SetQuotas, memory, Shape, Counters, Fails
<1>3. ASSUME LaunchInSlice PROVE UNCHANGED Counters
  BY <1>3, Zenon DEF LaunchInSlice, memory, Counters
<1>4. ASSUME LaunchDirectly PROVE UNCHANGED Counters
  BY <1>4, Zenon DEF LaunchDirectly, memory, Counters
<1>5. ASSUME CommandCompletes PROVE UNCHANGED Counters
  BY <1>5, Zenon DEF CommandCompletes, memory, Counters
<1>6. ASSUME NEW t \in Threads, DisableAll(t) PROVE UNCHANGED Counters
  <2>1. /\ UNCHANGED <<platform, installed, procs, agentOn, extOn, mem, hist>>
        /\ th[t].pc = "disable" /\ th[t].kind = "all"
    BY <1>6, DisableListed, Zenon
  <2>2. CASE Listing(t)
    BY <2>1, <2>2, Zenon DEF Listing, Counters
  <2>3. CASE Raising(t)
    BY <2>1, <2>3, Resumed, Zenon DEF Raising, Counters
  <2>. QED
    BY <1>6, <2>2, <2>3, DisableListed, Zenon
<1>7. ASSUME NEW t \in Threads, DisableAgent(t) PROVE UNCHANGED Counters
  BY <1>7, Zenon DEF DisableAgent, memory, Shape, Counters, Succeeds, Fails
<1>8. ASSUME NEW t \in Threads, TurnOff(t) PROVE UNCHANGED Counters
  BY <1>8, SMTT(20) DEF TurnOff, memory, Counters
<1>9. ASSUME NEW t \in Threads, NEW e \in Exts, ResetExtension(t, e) PROVE UNCHANGED Counters
  BY <1>9, Zenon DEF ResetExtension, memory, Shape, Counters, Succeeds, Fails
<1>10. ASSUME NEW e \in Exts, SetupExtension(e) PROVE UNCHANGED Counters
  BY <1>10, Zenon DEF SetupExtension, memory, Counters
<1>11. ASSUME NEW e \in Exts, StartCommand(e) PROVE UNCHANGED Counters
  BY <1>11, Zenon DEF StartCommand, memory, Counters
<1>12. ASSUME NEW e \in Exts, RemoveExtension(e) PROVE UNCHANGED Counters
  BY <1>12, Zenon DEF RemoveExtension, memory, Shape, Counters, Succeeds, Fails
<1>13. ASSUME ValidateSignature PROVE UNCHANGED Counters
  BY <1>13, Zenon DEF ValidateSignature, memory, Counters
<1>14. ASSUME NEW t \in Threads, CheckCgroups(t) PROVE UNCHANGED Counters
  BY <1>14, Checked, Zenon DEF Counters
<1>15. ASSUME NEW e \in Exts, StrayProcess(e) PROVE UNCHANGED Counters
  BY <1>15, Zenon DEF StrayProcess, memory, Counters
<1>16. ASSUME NEW e \in Exts, NEW w \in Places, ProcessExits(e, w) PROVE UNCHANGED Counters
  BY <1>16, Zenon DEF ProcessExits, memory, Counters
<1>17. ASSUME Reboot PROVE UNCHANGED Counters
  BY <1>17, Started, Zenon DEF Reboot, Shape, Counters
<1>18. ASSUME NEW v \in Versions, Restart(v) PROVE UNCHANGED Counters
  BY <1>18, Started, Zenon DEF Restart, Shape, Counters
<1>19. CASE UNCHANGED vars
  BY <1>19, Zenon DEF vars, Counters
<1>. QED
  BY <1>1, <1>2, <1>3, <1>4, <1>5, <1>6, <1>7, <1>8, <1>9, <1>10, <1>11, <1>12, <1>13, <1>14,
     <1>15, <1>16, <1>17, <1>18, <1>19, Zenon DEF
    Next, MainFinishes, MainStarts, Monitor, Environment, Disable, Threads

(* Pruning the history drops versions as a whole and changes no other.     *)
LEMMA PrunedKeeps ==
    ASSUME NEW h \in [Versions -> Seq(Nat)], NEW g \in Pruned(h)
    PROVE  /\ g \in [Versions -> Seq(Nat)]
           /\ \A v \in Versions : g[v] = h[v] \/ g[v] = <<>>
<1>1. g = h \/ \E k : g = [v \in Versions |-> IF v \in k THEN h[v] ELSE <<>>]
  BY Zenon DEF Pruned
<1>2. CASE g = h
  BY <1>2, Zenon
<1>3. ASSUME NEW k, g = [v \in Versions |-> IF v \in k THEN h[v] ELSE <<>>]
      PROVE  /\ g \in [Versions -> Seq(Nat)]
             /\ \A v \in Versions : g[v] = h[v] \/ g[v] = <<>>
  <2>1. <<>> \in Seq(Nat)
    BY SMTT(20)
  <2>2. \A v \in Versions : h[v] \in Seq(Nat)
    BY Zenon
  <2>. QED
    BY <1>3, <2>1, <2>2, Zenon
<1>. QED
  BY <1>1, <1>2, <1>3, Zenon

(* Every restart is in the history, unless its version was forgotten.      *)
LEMMA HistoryStep ==
    ASSUME Shape, HistoryCounts, [Next]_vars
    PROVE  HistoryCounts'
<1>1. ASSUME UNCHANGED Counters PROVE HistoryCounts'
  BY <1>1, Zenon DEF Counters, HistoryCounts
<1>2. CASE Tick
  <2>1. UNCHANGED <<hist, past>> /\ mem'.now = mem.now + 1
    BY <1>2, Zenon DEF Tick, Shape
  <2>2. mem'.now \in Nat
    BY <2>1, SMTT(20) DEF HistoryCounts
  <2>. QED
    BY <2>1, <2>2, Zenon DEF HistoryCounts
<1>3. CASE HistoryLost
  <2>1. /\ mem' = mem /\ hist' = [v \in Versions |-> <<>>]
        /\ past'.exits = past.exits /\ past'.forgot = Versions
    BY <1>3, Zenon DEF HistoryLost, Shape
  <2>2. hist' \in [Versions -> Seq(Nat)]
    BY <2>1, SMTT(20)
  <2>. QED
    BY <2>1, <2>2, Zenon DEF HistoryCounts
<1>4. CASE CheckAgentMemoryUsage
  <2>1. CASE UNCHANGED <<agentOn, extOn, th, hist, past>>
    BY <1>1, <1>4, <2>1, MemoryChecked, Zenon DEF Counters
  <2>2. CASE MemoryRestart
    <3> DEFINE mv == mem.version
               h == [hist EXCEPT ![mv] = Append(@, mem.now)]
    <3>1. mem'.now \in Nat
      BY <1>4, MemoryChecked, Zenon DEF HistoryCounts
    <3>2. \A w \in Versions : h[w] = IF w = mv THEN Append(hist[w], mem.now) ELSE hist[w]
      BY Zenon DEF HistoryCounts
    <3>3. \A w \in Versions : hist[w] \in Seq(Nat)
      BY Zenon DEF HistoryCounts
    <3>4. \A w \in Versions : h[w] \in Seq(Nat) /\ (w = mv => Len(h[w]) = Len(hist[w]) + 1)
      BY <3>2, <3>3, SMTT(20) DEF HistoryCounts
    <3>5. h \in [Versions -> Seq(Nat)]
      BY <3>4, Zenon DEF HistoryCounts
    <3>6. hist' \in [Versions -> Seq(Nat)] /\ \A v \in Versions : hist'[v] = h[v] \/ hist'[v] = <<>>
      <4>1. hist' \in Pruned(h)
        BY <2>2, Zenon DEF MemoryRestart
      <4>. QED
        BY <3>5, <4>1, PrunedKeeps, Zenon
    <3>7. /\ past'.exits = [past.exits EXCEPT ![mv] = @ + 1]
          /\ past'.forgot = past.forgot \cup {w \in Versions : hist'[w] = <<>> /\ (hist[w] # <<>> \/ w = mv)}
          /\ Len(hist[mv]) < MaxPerVersion
      BY <2>2, Zenon DEF MemoryRestart, CanRestart, RestartsOf
    <3>8. past'.exits \in [Versions -> Nat]
      <4>1. past.exits \in [Versions -> Nat]
        BY Zenon DEF HistoryCounts
      <4>2. mv \in Versions => past.exits[mv] + 1 \in Nat
        BY <4>1, SMTT(20)
      <4>. QED
        BY <3>7, <4>1, <4>2, Zenon
    <3> HIDE DEF h, mv
    <3>9. ASSUME NEW w \in Versions \ past'.forgot
          PROVE  past'.exits[w] <= Len(hist'[w]) /\ Len(hist'[w]) <= MaxPerVersion
      <4>1. w \notin past.forgot /\ hist'[w] = h[w]
        BY <3>2, <3>6, <3>7, <3>9, Zenon
      <4>2. past.exits[w] \in Nat /\ past.exits[w] <= Len(hist[w]) /\ Len(hist[w]) <= MaxPerVersion
        BY <3>9, <4>1, Zenon DEF HistoryCounts
      <4>3. past'.exits[w] = IF w = mv THEN past.exits[w] + 1 ELSE past.exits[w]
        BY <3>7, Zenon DEF HistoryCounts
      <4>4. Len(hist[w]) \in Nat /\ MaxPerVersion \in Nat
        BY <3>3, ResourceAssumption, SMTT(20)
      <4>5. CASE w = mv
        BY <3>4, <3>7, <4>1, <4>2, <4>3, <4>4, <4>5, SMTT(20)
      <4>6. CASE w # mv
        BY <3>2, <4>1, <4>2, <4>3, <4>6, Zenon
      <4>. QED
        BY <4>5, <4>6, Zenon
    <3>. QED
      BY <3>1, <3>6, <3>8, <3>9, Zenon DEF HistoryCounts
  <2>. QED
    BY <1>4, <2>1, <2>2, MemoryChecked, Zenon
<1>. QED
  BY <1>1, <1>2, <1>3, <1>4, CountersStep, Zenon

----------------------------------------------------------------------------
(* The initial states.                                                     *)
LEMMA InitIInv ==
    ASSUME Init
    PROVE  Shape /\ Phases /\ AgentReset /\ SlicesReset /\ HistoryCounts
<1>1. /\ th["main"].pc = "initialize" /\ th["monitor"].pc = "idle"
      /\ DOMAIN th = Threads
      /\ \A t \in Threads : DOMAIN th[t] = {"pc", "ext", "left", "kind", "next"}
  BY Zenon DEF Init, Threads, Idle
<1>2. DOMAIN platform = {"distro", "version", "slice", "ctrl"}
  BY ResourceAssumption, Zenon DEF Init, PlatformType
<1>3. Shape
  BY <1>1, <1>2, Zenon DEF Init, Shape
<1>4. past.disabled = FALSE /\ past.forgot = {} /\ past.exits = [v \in Versions |-> 0] /\ mem.now = 0
  BY Zenon DEF Init
<1>5. Phases
  BY <1>1, <1>4, Zenon DEF Init, Phases, Threads, Resetting, Starting
<1>6. AgentReset
  BY <1>1, Zenon DEF AgentReset, Threads, Resetting, Starting
<1>7. \A e \in Exts : Inf(e)
  <2>1. PICK q : quota = [u \in Units |-> IF u = Agent THEN q ELSE "infinity"]
    BY Zenon DEF Init
  <2>2. \A e \in Exts : Slice(e) \in Units /\ Slice(e) # Agent
    BY Zenon DEF Units, Slice, Agent
  <2>. QED
    BY <2>1, <2>2, Zenon DEF Inf
<1>8. SlicesReset
  BY <1>1, <1>4, <1>7, Zenon DEF SlicesReset, Threads, Resetting
<1>9. HistoryCounts
  <2>1. hist = [v \in Versions |-> <<>>]
    BY Zenon DEF Init
  <2>2. MaxPerVersion \in Nat
    BY ResourceAssumption, Zenon
  <2>. QED
    BY <1>4, <2>1, <2>2, SMTT(20) DEF HistoryCounts
<1>. QED
  BY <1>3, <1>5, <1>6, <1>8, <1>9, Zenon

(* disable() leaves no quota behind that it is to reset: neither on the    *)
(* agent nor, if cgroups were enabled, on any extension that it listed     *)
(* (CGroupConfigurator.disable), for any number of extensions, failures,   *)
(* crashes and reboots.                                                    *)
THEOREM DisableResetsQuotas == Spec => []DisabledLeavesNoQuota
<1> DEFINE IInv == Shape /\ Phases /\ AgentReset /\ SlicesReset
<1>1. Init => IInv
  BY InitIInv, Zenon
<1>2. IInv /\ [Next]_vars => IInv'
  BY ShapeStep, PhasesStep, AgentResetStep, SlicesResetStep, Zenon
<1>3. IInv => DisabledLeavesNoQuota
  BY Zenon DEF Phases, AgentReset, SlicesReset, DisabledLeavesNoQuota, Unlimited, Clean, Inf, Enabled
<1>. QED
  BY <1>1, <1>2, <1>3, PTL DEF Spec

(* A command that the agent started outside of a slice is not limited by   *)
(* the agent's own quota, for any number of extensions, failures, crashes  *)
(* and reboots, unless the check of a restarted agent broke and missed it. *)
(* The two conditions are the default configuration          *)
(* (conf.get_cgroup_disable_on_process_check_failure) and a new agent that *)
(* supports what its predecessor did: without the first, initialize sets   *)
(* the quota although the command still runs; without the second, the quota*)
(* of the predecessor stays (InitializeUnsupported).                       *)
THEOREM DirectCommandsAreUnlimited ==
    ASSUME DisableOnProcessCheck, ~MayLoseSupport
    PROVE  Spec => []DirectMeansUnlimited
<1> DEFINE IInv == Shape /\ Phases /\ AgentReset /\ DirectUnlimited
<1>1. Init => IInv
  <2>1. ASSUME Init PROVE DirectUnlimited
    <3>1. ~platform.distro => quota[Agent] = "infinity"
      BY <2>1, Zenon DEF Init, Units
    <3>2. th["main"].pc # "direct" /\ procs = {}
      BY <2>1, Zenon DEF Init, Threads, Idle
    <3>. QED
      BY <3>1, <3>2, Zenon DEF DirectUnlimited
  <2>. QED
    BY <2>1, InitIInv, Zenon
<1>2. IInv /\ [Next]_vars => IInv'
  BY ShapeStep, PhasesStep, AgentResetStep, DirectStep, Zenon
<1>3. IInv => DirectMeansUnlimited
  BY Zenon DEF DirectUnlimited, DirectMeansUnlimited, Unlimited
<1>. QED
  BY <1>1, <1>2, <1>3, PTL DEF Spec

(* No version of the agent exits more often because of its memory than is  *)
(* configured, for any number of versions, restarts, crashes and losses of *)
(* the history (AgentMemoryRestartHistory.version_can_restart).            *)
THEOREM MemoryRestartsBounded == Spec => []MemoryRestartsAreBounded
<1> DEFINE IInv == Shape /\ HistoryCounts
<1>1. Init => IInv
  BY InitIInv, Zenon
<1>2. IInv /\ [Next]_vars => IInv'
  BY ShapeStep, HistoryStep, Zenon
<1>3. IInv => MemoryRestartsAreBounded
  <2> SUFFICES ASSUME HistoryCounts, NEW v \in Versions \ past.forgot
               PROVE  past.exits[v] <= MaxPerVersion
    BY Zenon DEF MemoryRestartsAreBounded
  <2>1. /\ past.exits[v] \in Nat /\ hist[v] \in Seq(Nat)
        /\ past.exits[v] <= Len(hist[v]) /\ Len(hist[v]) <= MaxPerVersion
    BY Zenon DEF HistoryCounts
  <2>. QED
    BY <2>1, ResourceAssumption, SMTT(20)
<1>. QED
  BY <1>1, <1>2, <1>3, PTL DEF Spec

=============================================================================

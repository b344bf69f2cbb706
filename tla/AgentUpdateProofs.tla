------------------------- MODULE AgentUpdateProofs -------------------------
(***************************************************************************)
(* Proofs about AgentUpdate, for every set of versions, every manifest and *)
(* any number of goal states, kills and reboots: the daemon launches the   *)
(* version that the agent left to update to; the agent reports a success   *)
(* only if it runs the version that was asked for; only bad versions are   *)
(* blacklisted; and a version that crashes is launched six times at most.  *)
(*                                                                         *)
(* The first and the last rest on what an update leaves on disk. Updating  *)
(* follows the target from the manifest to the exit: it is never the       *)
(* running version nor one older than the installed one, it is on disk     *)
(* from the download on and not blacklisted from the attempt on, and after *)
(* the purge there is no third version. Exited says what this leaves to    *)
(* the daemon, another process, possibly after a reboot: no version on     *)
(* offer is newer than the target. Counted is the life of a version that   *)
(* crashes, which the daemon launches at most twice after each attempt.    *)
(*                                                                         *)
(* LatestAgent and the download choose the largest member of a set.        *)
(* MaxIsLargest shows that there is one, from the least-number principle.  *)
(***************************************************************************)
EXTENDS AgentUpdate, FiniteSetTheorems, WellFoundedInduction, TLAPS

(* What is on disk and what is counted, by version.                        *)
DiskTypes ==
    /\ dir \in [Versions -> {"absent", "partial", "complete"}]
    /\ bad \in [Versions -> BOOLEAN]
    /\ count \in [Versions -> 0..AttemptsMax]
    /\ launches \in [Versions -> Nat]

(* The versions that the daemon and the agent hold.                        *)
VersionTypes ==
    /\ child \in Versions \cup {None}
    /\ running \in Versions \cup {None, Installed}
    /\ version \in Versions \cup {None}
    /\ exitTo \in Versions \cup {None}
    /\ \A w \in candidates : w \in Versions
    /\ running # None /\ pc = "download" => candidates # {}
    /\ running # None /\ pc \in {"attempt", "purge", "proceed"} => version \in Versions

(* The goal states: the agent's is the newest one or has a smaller ID.     *)
GoalStates ==
    /\ goalState.id \in Nat \ {0} /\ gs.id \in Nat
    /\ goalState.content \in Contents /\ gs.content \in Contents
    /\ gs.id <= goalState.id
    /\ gs.id = goalState.id => gs = goalState

(* The report to RSM: what holds once the agent is done with the update    *)
(* that a goal state asks for, until the next goal state.                  *)
Outcome ==
    updater = "RSM" /\ ~errorMsg /\ gs.content.rsm = "enabled" /\ gs.content.fromRsm
        => running = gs.content.version

Reported ==
    running # None =>
        /\ pc = "goalState" /\ seen # 0 => seen = gs.id /\ Outcome
        /\ pc = "extensions" => Outcome

(* The directories: a package whose manifest cannot be loaded has none,    *)
(* and every one belongs to a version that is not older than the installed *)
(* one.                                                                    *)
Disk ==
    \A v \in Versions :
        /\ dir[v] = "partial" => v \in broken
        /\ dir[v] # "absent" => v \notin Malformed /\ v >= Installed

(* The processes: the daemon remembers the version that it launched, an    *)
(* agent that crashes has not begun to look for updates, and one that      *)
(* exited to update runs no more.                                          *)
Launched ==
    running # None =>
        \/ running = Installed /\ child = None
        \/ running # Installed /\ running > Installed /\ child = running /\ dir[running] # "absent"

Processes ==
    /\ Launched
    /\ running \in Crashing => pc = "goalState"
    /\ exitTo # None => running = None

(* An update: its target is another version, not older than the installed  *)
(* one.  From the download on the target is on disk, from the attempt on   *)
(* it is not blacklisted, and from the purge on there is no third version. *)
Target(w) == w # running /\ w >= Installed

Updating ==
    running # None =>
        /\ pc = "download" => \A w \in candidates : Target(w)
        /\ pc \in {"attempt", "purge", "proceed"} =>
              Target(version) /\ (version \in Malformed \/ dir[version] # "absent")
        /\ pc \in {"purge", "proceed"} => version \in Malformed \/ ~bad[version]
        /\ pc = "proceed" => \A u \in Versions \ {running, version} : dir[u] = "absent"

(* An agent that exited to update has left the daemon one choice: the      *)
(* newest version on offer is the target, unless that is the installed one *)
(* and nothing is on offer.                                                *)
Offered(v) == IsAvailable(v) /\ v > Installed

Exited ==
    exitTo # None /\ exitTo \notin Malformed =>
        /\ exitTo >= Installed /\ exitTo # child
        /\ exitTo > Installed => Offered(exitTo)
        /\ \A u \in Versions : Offered(u) => u <= exitTo

(* The daemon does not offer a version again that has died without being   *)
(* at fault: it exited to update to a newer one.                           *)
AtFault(v) == v \in Crashing \cup broken \cup left

NotAgain ==
    /\ kills \in Nat
    /\ kills = 0 /\ running = None /\ child # None /\ Offered(child) /\ ~AtFault(child)
           => \E u \in Versions : Offered(u) /\ u > child

(* The counters go with the directory.                                     *)
CountedOnDisk ==
    /\ kills \in Nat /\ reboots \in Nat /\ attempts \in Nat
    /\ reboots = 0 => broken = {}
    /\ \A v \in Versions : dir[v] = "absent" => count[v] = 0 /\ launches[v] = 0

(* The life of a version that crashes, when nothing else kills agents:     *)
(* downloaded, attempted, left to the daemon, and launched by it twice     *)
(* until it is blacklisted.                                                *)
Downloaded(v) == running # None /\ pc = "attempt" /\ version = v /\ count[v] = 0
Attempted(v) ==
    /\ running # None /\ pc \in {"purge", "proceed"} /\ version = v
    /\ launches[v] <= 2 * count[v] - 2
Left(v) == running = None /\ exitTo = v /\ launches[v] <= 2 * count[v] - 2
Looping(v) ==
    /\ child = v /\ running \in {None, v} /\ inWindow /\ attempts \in {1, 2}
    /\ launches[v] <= 2 * count[v] - 2 + attempts
    /\ \A u \in Versions : Offered(u) => u <= v

Counted ==
    kills = 0 /\ reboots = 0 => \A v \in Crashing :
        /\ launches[v] <= 2 * count[v]
        /\ IsAvailable(v) => Downloaded(v) \/ Attempted(v) \/ Left(v) \/ Looping(v)


----------------------------------------------------------------------------
(* A set of numbers that is not empty has a smallest element.              *)
LEMMA LeastElement ==
    ASSUME NEW T, \A x \in T : x \in Nat, T # {}
    PROVE  \E x \in T : \A y \in T : x <= y
<1>. DEFINE R == OpToRel(<, Nat)
<1>1. PICK x \in T : \A y \in T : ~(<<y, x>> \in R)
  <2>1. IsWellFoundedOn(R, Nat)
    BY NatLessThanWellFounded, Zenon
  <2>. HIDE DEF R
  <2>2. T \subseteq Nat
    BY Zenon
  <2>. QED
    BY <2>1, <2>2, WFMin, Zenon
<1>2. \A y \in Nat : y < x => <<y, x>> \in R
  BY Zenon DEF OpToRel
<1>. HIDE DEF R
<1>3. ASSUME NEW y \in T PROVE x <= y
  <2>1. x \in Nat /\ y \in Nat /\ ~(y < x)
    BY <1>1, <1>2, Zenon
  <2>. QED
    BY <2>1, SMT
<1>. QED
  BY <1>3, Zenon

(* A finite set of numbers has an upper bound.                             *)
LEMMA FiniteSetIsBounded ==
    ASSUME NEW S, \A x \in S : x \in Nat, IsFiniteSet(S)
    PROVE  \E b \in Nat : \A x \in S : x <= b
<1>1. PICK n \in Nat : ExistsSurjection(1..n, S)
  BY FS_NatSurjection, Zenon
<1>2. PICK f \in [1..n -> S] : \A x \in S : \E i \in 1..n : f[i] = x
  BY <1>1, Zenon DEF ExistsSurjection, Surjection
<1>3. \A i \in 1..n : f[i] \in Nat
  BY <1>2, Zenon
<1>. DEFINE Bounded(k) == \E b \in Nat : \A i \in 1..k : f[i] <= b
            T == {k \in 0..n : ~Bounded(k)}
<1>4. T = {}
  <2>. SUFFICES ASSUME T # {} PROVE FALSE
    BY Zenon
  <2>1. PICK k \in T : \A j \in T : k <= j
    <3>1. \A k \in T : k \in Nat
      BY SMT
    <3>. HIDE DEF T
    <3>. QED
      BY <3>1, LeastElement, Zenon
  <2>2. k \in 0..n /\ ~Bounded(k)
    BY <2>1, Zenon
  <2>3. k # 0
    BY <2>2, SMT
  <2>4. k \in 1..n /\ k - 1 \in 0..n /\ ~(k <= k - 1)
    BY <2>2, <2>3, SMT
  <2>5. PICK b \in Nat : \A i \in 1..(k - 1) : f[i] <= b
    BY <2>1, <2>4, Zenon
  <2>6. CASE f[k] <= b
    <3>1. ASSUME NEW i \in 1..k PROVE f[i] <= b
      <4>1. i \in 1..(k - 1) \/ i = k
        BY <2>4, SMT
      <4>. QED
        BY <4>1, <2>5, <2>6, Zenon
    <3>. QED
      BY <3>1, <2>2, Zenon
  <2>7. CASE ~(f[k] <= b)
    <3>1. ASSUME NEW i \in 1..k PROVE f[i] <= f[k]
      <4>1. i \in 1..n
        BY <2>2, SMT
      <4>2. i \in 1..(k - 1) \/ i = k
        BY <2>2, SMT
      <4>3. f[i] \in Nat /\ f[k] \in Nat /\ (f[i] <= b \/ f[i] = f[k])
        BY <4>1, <4>2, <2>4, <2>5, <1>3, Zenon
      <4>4. \A x, y \in Nat : ~(y <= b) /\ (x <= b \/ x = y) => x <= y
        BY SMT
      <4>. QED
        BY <4>3, <4>4, <2>7, Zenon
    <3>. QED
      BY <3>1, <2>2, <2>4, <1>3, Zenon
  <2>. QED
    BY <2>6, <2>7, Zenon
<1>5. n \in 0..n
  BY SMT
<1>6. PICK b \in Nat : \A i \in 1..n : f[i] <= b
  BY <1>4, <1>5, Zenon
<1>7. \A x \in S : x <= b
  BY <1>6, <1>2, Zenon
<1>. QED
  BY <1>7, Zenon

(* What Max yields for a finite set of numbers that is not empty.          *)
LEMMA MaxIsLargest ==
    ASSUME NEW S, \A x \in S : x \in Nat, IsFiniteSet(S), S # {}
    PROVE  Max(S) \in S /\ \A x \in S : x <= Max(S)
<1>. DEFINE Bound(b) == \A x \in S : x <= b
            U == {b \in Nat : Bound(b)}
<1>1. PICK b \in U : \A c \in U : b <= c
  <2>1. U # {} /\ \A c \in U : c \in Nat
    BY FiniteSetIsBounded, Zenon
  <2>. HIDE DEF U
  <2>. QED
    BY <2>1, LeastElement, Zenon
<1>2. b \in Nat /\ \A x \in S : x <= b
  BY Zenon
<1>3. b \in S
  <2>. SUFFICES ASSUME b \notin S PROVE FALSE
    BY Zenon
  <2>1. b - 1 \in Nat /\ (\A x \in S : x <= b - 1) /\ ~(b <= b - 1)
    BY <1>2, SMT
  <2>. QED
    BY <1>1, <2>1, Zenon
<1>4. \A y \in S : b >= y
  BY <1>2, Zenon
<1>5. Max(S) \in S /\ \A y \in S : Max(S) >= y
  BY <1>3, <1>4, Zenon DEF Max
<1>. QED
  BY <1>5, Zenon

(* What Min yields for two numbers.                                        *)
LEMMA MinOfTwo ==
    ASSUME NEW a \in Int, NEW b \in Int
    PROVE  Min({a, b}) = IF a <= b THEN a ELSE b
<1>1. \E x \in {a, b} : \A y \in {a, b} : x =< y
  BY SMT
<1>2. Min({a, b}) \in {a, b} /\ \A y \in {a, b} : Min({a, b}) =< y
  BY <1>1, Zenon DEF Min
<1>. QED
  BY <1>2, SMT

----------------------------------------------------------------------------
(* No version, and what does not crash.                                    *)
LEMMA NoVersion == None \notin Versions /\ None \notin Crashing /\ Installed \notin Crashing
  BY VersionsAssumption, Zenon

(* The version that the daemon launches.                                   *)
LEMMA LatestIsLargest ==
    /\ LatestAgent = None => \A u \in Versions : ~Offered(u)
    /\ LatestAgent # None =>
          /\ LatestAgent \in Versions /\ Offered(LatestAgent)
          /\ \A u \in Versions : Offered(u) => u <= LatestAgent
<1>1. IsFiniteSet(Available)
  <2>1. Available \in SUBSET Versions
    BY Zenon DEF Available
  <2>. QED
    BY <2>1, VersionsAssumption, FS_Subset, Zenon
<1>2. \A v \in Available : v \in Nat /\ v # None
  BY VersionsAssumption, Zenon DEF Available
<1>3. ASSUME Available # {} PROVE Max(Available) \in Available /\ \A x \in Available : x <= Max(Available)
  BY <1>1, <1>2, <1>3, MaxIsLargest, Zenon
<1>. QED
  BY <1>2, <1>3, Zenon DEF LatestAgent, Available, Offered

(* The version that the agent downloads next.                              *)
LEMMA LargestCandidate ==
    ASSUME NEW S, \A v \in S : v \in Versions, S # {}
    PROVE  Max(S) \in S
<1>1. IsFiniteSet(S)
  <2>1. S \in SUBSET Versions
    BY Zenon
  <2>. QED
    BY <2>1, VersionsAssumption, FS_Subset, Zenon
<1>2. \A v \in S : v \in Nat
  BY VersionsAssumption, Zenon
<1>. QED
  BY <1>1, <1>2, MaxIsLargest, Zenon

(* What the daemon's launch counter becomes.                               *)
LEMMA LaunchCounted ==
    ASSUME DiskTypes, NEW v \in Versions
    PROVE  /\ Min({launches[v] + 1, LaunchesCap}) \in Nat
           /\ Min({launches[v] + 1, LaunchesCap}) <= launches[v] + 1
<1>1. launches[v] \in Nat
  BY Zenon DEF DiskTypes
<1>2. launches[v] + 1 \in Int /\ LaunchesCap \in Int /\ LaunchesCap = 7
  BY <1>1, SMT DEF LaunchesCap, RestartMax, AttemptsMax
<1>3. Min({launches[v] + 1, LaunchesCap}) = IF launches[v] + 1 <= LaunchesCap THEN launches[v] + 1 ELSE LaunchesCap
  BY <1>2, MinOfTwo, Zenon
<1>. QED
  BY <1>1, <1>2, <1>3, SMT

(* The version that the goal state asks for.                               *)
LEMMA RsmVersion ==
    ASSUME GoalStates
    PROVE  gs.content.version \in Versions
  BY ContentsAssumption, Zenon DEF GoalStates

(* What the daemon remembers after it has looked at the latest version.    *)
LEMMA HealthEvaluated ==
    ASSUME attempts \in Nat, NEW latest, EvaluateAgentHealth(latest)
    PROVE  /\ child' = latest /\ attempts' \in Nat
           /\ latest # None /\ latest = child =>
                 /\ attempts' = IF attempts + 1 <= RestartMax THEN attempts + 1 ELSE RestartMax
                 /\ inWindow => inWindow'
           /\ latest # None /\ latest # child => attempts' = 1 /\ inWindow'
<1>1. Min({attempts + 1, RestartMax}) = IF attempts + 1 <= RestartMax THEN attempts + 1 ELSE RestartMax
  <2>1. attempts + 1 \in Int /\ RestartMax \in Int
    BY SMT DEF RestartMax
  <2>. QED
    BY <2>1, MinOfTwo, Zenon
<1>2. attempts' = IF latest = None THEN 0
                  ELSE IF latest = child THEN (IF attempts + 1 <= RestartMax THEN attempts + 1 ELSE RestartMax)
                  ELSE 1
  BY <1>1, Zenon DEF EvaluateAgentHealth
<1>3. attempts' \in Nat
  BY <1>2, SMT DEF RestartMax
<1>4. child' = latest /\ (latest # None /\ (latest = child => inWindow) => inWindow')
  BY Zenon DEF EvaluateAgentHealth
<1>. QED
  BY <1>2, <1>3, <1>4, Zenon

(* Every step keeps the goal states in order.                              *)
LEMMA GoalStatesStep ==
    ASSUME GoalStates, [Next]_vars
    PROVE  GoalStates'
<1>1. CASE NewGoalState
  BY <1>1, SMTT(20) DEF NewGoalState, disk, daemon, agent, history, GoalStates
<1>2. CASE LaunchIntervalPasses
  BY <1>2, Zenon DEF LaunchIntervalPasses, disk, agent, history, GoalStates
<1>3. CASE AgentIsKilled
  BY <1>3, Zenon DEF AgentIsKilled, disk, daemon, GoalStates
<1>4. CASE Reboot
  BY <1>4, Zenon DEF Reboot, GoalStates
<1>5. CASE LaunchInstalledAgent
  BY <1>5, SMTT(20) DEF LaunchInstalledAgent, disk, EvaluateAgentHealth, StartAgent, RestoredUpdater,
    NoGoalState, GoalStates
<1>6. CASE LaunchLatestAgent
  BY <1>6, SMTT(20) DEF LaunchLatestAgent, disk, EvaluateAgentHealth, StartAgent, RestoredUpdater,
    NoGoalState, RestartsTooFrequently, GoalStates
<1>7. CASE BlacklistLatestAgent
  BY <1>7, Zenon DEF BlacklistLatestAgent, agent, EvaluateAgentHealth, MarkFailure, RestartsTooFrequently,
    GoalStates
<1>8. CASE AgentCrashes
  BY <1>8, Zenon DEF AgentCrashes, disk, daemon, history, GoalStates
<1>9. CASE ChooseUpdater
  BY <1>9, SMTT(20) DEF ChooseUpdater, daemon, history, AgentIsAt, Fail, EndRun, RsmEnabled, InvalidGoalState,
    GoalStates
<1>10. CASE RetrieveRsmVersion
  BY <1>10, Zenon DEF RetrieveRsmVersion, daemon, history, AgentIsAt, Fail, EndRun, NotAllowed, GoalStates
<1>11. CASE RetrieveManifest
  BY <1>11, Zenon DEF RetrieveManifest, daemon, history, AgentIsAt, Fail, EndRun, GoalStates
<1>12. CASE Download
  BY <1>12, Zenon DEF Download, daemon, history, AgentIsAt, Loaded, GoalStates
<1>13. CASE DownloadFails
  BY <1>13, Zenon DEF DownloadFails, daemon, history, AgentIsAt, Fail, EndRun, GoalStates
<1>14. CASE Attempt
  BY <1>14, Zenon DEF Attempt, daemon, history, AgentIsAt, Fail, EndRun, ClearError, IncUpdateAttemptCount,
    GoalStates
<1>15. CASE Purge
  BY <1>15, Zenon DEF Purge, daemon, AgentIsAt, GoalStates
<1>16. CASE ProceedWithUpdate
  BY <1>16, Zenon DEF ProceedWithUpdate, daemon, AgentIsAt, MarkedAsBad, MarkFailure, GoalStates
<1>17. CASE ProcessExtensions
  BY <1>17, Zenon DEF ProcessExtensions, disk, daemon, AgentIsAt, GoalStates
<1>18. CASE UNCHANGED vars
  BY <1>18, Zenon DEF vars, GoalStates, disk, daemon, agent, history
<1>. QED
  BY <1>1, <1>2, <1>3, <1>4, <1>5, <1>6, <1>7, <1>8, <1>9, <1>10, <1>11, <1>12, <1>13, <1>14,
     <1>15, <1>16, <1>17, <1>18, Zenon DEF
    Next, EnvironmentNext, DaemonNext, AgentNext

(* Every step keeps the types of the versions.                             *)
LEMMA VersionTypesStep ==
    ASSUME GoalStates, VersionTypes, [Next]_vars
    PROVE  VersionTypes'
<1>1. CASE NewGoalState
  BY <1>1, SMTT(20) DEF NewGoalState, disk, daemon, agent, history, VersionTypes, None
<1>2. CASE LaunchIntervalPasses
  BY <1>2, Zenon DEF LaunchIntervalPasses, disk, agent, history, VersionTypes, None
<1>3. CASE AgentIsKilled
  BY <1>3, Zenon DEF AgentIsKilled, disk, daemon, VersionTypes, None
<1>4. CASE Reboot
  BY <1>4, Zenon DEF Reboot, VersionTypes, None
<1>5. CASE LaunchInstalledAgent
  BY <1>5, Zenon DEF LaunchInstalledAgent, disk, EvaluateAgentHealth, StartAgent, RestoredUpdater,
    NoGoalState, VersionTypes, None
<1>6. CASE LaunchLatestAgent
  BY <1>6, VersionsAssumption, LatestIsLargest, Zenon DEF LaunchLatestAgent, disk, EvaluateAgentHealth,
    StartAgent, RestoredUpdater, NoGoalState, RestartsTooFrequently, VersionTypes, None
<1>7. CASE BlacklistLatestAgent
  BY <1>7, VersionsAssumption, LatestIsLargest, Zenon DEF BlacklistLatestAgent, agent, EvaluateAgentHealth,
    MarkFailure, RestartsTooFrequently, VersionTypes, None
<1>8. CASE AgentCrashes
  BY <1>8, Zenon DEF AgentCrashes, disk, daemon, history, VersionTypes, None
<1>9. CASE ChooseUpdater
  BY <1>9, Zenon DEF ChooseUpdater, daemon, history, AgentIsAt, Fail, EndRun, RsmEnabled, InvalidGoalState,
    VersionTypes, None
<1>10. CASE RetrieveRsmVersion
  <2>1. UNCHANGED <<child, running, exitTo>>
    BY <1>10, Zenon DEF RetrieveRsmVersion, daemon, history
  <2>2. version' \in Versions
    BY <1>10, RsmVersion, Zenon DEF RetrieveRsmVersion
  <2>3. \A w \in candidates' : w \in Versions
    BY <1>10, <2>2, Zenon DEF RetrieveRsmVersion, VersionTypes
  <2>4. pc' = "download" => candidates' # {}
    BY <1>10, Zenon DEF RetrieveRsmVersion, Fail, EndRun
  <2>. QED
    BY <2>1, <2>2, <2>3, <2>4, Zenon DEF VersionTypes
<1>11. CASE RetrieveManifest
  <2>1. UNCHANGED <<child, running, exitTo>>
    BY <1>11, Zenon DEF RetrieveManifest, daemon, history
  <2>2. Max(Published) \in Published
    BY <1>11, LargestCandidate, VersionsAssumption, Zenon
  <2>3. version' \in Versions \cup {None}
    BY <1>11, <2>2, VersionsAssumption, Zenon DEF RetrieveManifest, VersionTypes
  <2>4. \A w \in candidates' : w \in Versions
    BY <1>11, VersionsAssumption, Zenon DEF RetrieveManifest, VersionTypes
  <2>5. pc' = "download" => candidates' # {}
    BY <1>11, <2>2, Zenon DEF RetrieveManifest, Fail, EndRun
  <2>6. pc' \in {"extensions", "download"}
    BY <1>11, Zenon DEF RetrieveManifest, Fail, EndRun
  <2>7. ~(pc' \in {"attempt", "purge", "proceed"})
    BY <1>11, <2>6, Zenon
  <2>. QED
    BY <2>1, <2>2, <2>3, <2>4, <2>5, <2>6, <2>7, Zenon DEF VersionTypes
<1>12. CASE Download
  <2>1. UNCHANGED <<child, running, exitTo>>
    BY <1>12, Zenon DEF Download, daemon, history
  <2>2. Max(candidates) \in candidates
    BY <1>12, LargestCandidate, Zenon DEF Download, AgentIsAt, VersionTypes
  <2>3. version' \in Versions
    BY <1>12, <2>2, Zenon DEF Download, VersionTypes
  <2>4. pc' # "download" /\ UNCHANGED candidates
    BY <1>12, Zenon DEF Download
  <2>. QED
    BY <2>1, <2>2, <2>3, <2>4, Zenon DEF VersionTypes
<1>13. CASE DownloadFails
  <2>1. UNCHANGED <<child, running, exitTo>>
    BY <1>13, Zenon DEF DownloadFails, daemon, history
  <2>2. Max(candidates) \in candidates
    BY <1>13, LargestCandidate, Zenon DEF DownloadFails, AgentIsAt, VersionTypes
  <2>3. version' \in Versions
    BY <1>13, <2>2, Zenon DEF DownloadFails, VersionTypes
  <2>4. \A w \in candidates' : w \in Versions
    BY <1>13, Zenon DEF DownloadFails, VersionTypes
  <2>5. pc' = "download" => candidates' # {}
    BY <1>13, Zenon DEF DownloadFails, Fail, EndRun
  <2>. QED
    BY <2>1, <2>2, <2>3, <2>4, <2>5, Zenon DEF VersionTypes
<1>14. CASE Attempt
  BY <1>14, Zenon DEF Attempt, daemon, history, AgentIsAt, Fail, EndRun, ClearError, IncUpdateAttemptCount,
    VersionTypes, None
<1>15. CASE Purge
  BY <1>15, Zenon DEF Purge, daemon, AgentIsAt, VersionTypes, None
<1>16. CASE ProceedWithUpdate
  BY <1>16, Zenon DEF ProceedWithUpdate, daemon, AgentIsAt, MarkedAsBad, MarkFailure, VersionTypes, None
<1>17. CASE ProcessExtensions
  BY <1>17, Zenon DEF ProcessExtensions, disk, daemon, AgentIsAt, VersionTypes, None
<1>18. CASE UNCHANGED vars
  BY <1>18, Zenon DEF vars, VersionTypes, None, disk, daemon, agent, history
<1>. QED
  BY <1>1, <1>2, <1>3, <1>4, <1>5, <1>6, <1>7, <1>8, <1>9, <1>10, <1>11, <1>12, <1>13, <1>14,
     <1>15, <1>16, <1>17, <1>18, Zenon DEF
    Next, EnvironmentNext, DaemonNext, AgentNext

(* Every step keeps the types of what is on disk.                          *)
LEMMA DiskTypesStep ==
    ASSUME VersionTypes, DiskTypes, [Next]_vars
    PROVE  DiskTypes'
<1>1. CASE NewGoalState
  BY <1>1, SMTT(20) DEF NewGoalState, disk, daemon, agent, history, DiskTypes
<1>2. CASE LaunchIntervalPasses
  BY <1>2, Zenon DEF LaunchIntervalPasses, disk, agent, history, DiskTypes
<1>3. CASE AgentIsKilled
  BY <1>3, Zenon DEF AgentIsKilled, disk, daemon, DiskTypes
<1>4. CASE Reboot
  BY <1>4, Zenon DEF Reboot, DiskTypes
<1>5. CASE LaunchInstalledAgent
  BY <1>5, Zenon DEF LaunchInstalledAgent, disk, EvaluateAgentHealth, StartAgent, RestoredUpdater,
    NoGoalState, DiskTypes
<1>6. CASE LaunchLatestAgent
  <2>1. UNCHANGED <<dir, bad, count>>
    BY <1>6, Zenon DEF LaunchLatestAgent, disk
  <2>2. LatestAgent \in Versions
    BY <1>6, LatestIsLargest, Zenon DEF LaunchLatestAgent
  <2>3. launches' \in [Versions -> Nat]
    BY <1>6, <2>2, LaunchCounted, Zenon DEF LaunchLatestAgent, DiskTypes
  <2>. QED
    BY <2>1, <2>2, <2>3, Zenon DEF DiskTypes
<1>7. CASE BlacklistLatestAgent
  <2>1. UNCHANGED <<dir, count, launches>>
    BY <1>7, Zenon DEF BlacklistLatestAgent, agent
  <2>2. LatestAgent \in Versions
    BY <1>7, LatestIsLargest, Zenon DEF BlacklistLatestAgent
  <2>3. bad' \in [Versions -> BOOLEAN]
    BY <1>7, <2>2, Zenon DEF BlacklistLatestAgent, MarkFailure, DiskTypes
  <2>. QED
    BY <2>1, <2>2, <2>3, Zenon DEF DiskTypes
<1>8. CASE AgentCrashes
  BY <1>8, Zenon DEF AgentCrashes, disk, daemon, history, DiskTypes
<1>9. CASE ChooseUpdater
  BY <1>9, Zenon DEF ChooseUpdater, daemon, history, AgentIsAt, Fail, EndRun, RsmEnabled, InvalidGoalState,
    DiskTypes
<1>10. CASE RetrieveRsmVersion
  BY <1>10, Zenon DEF RetrieveRsmVersion, daemon, history, AgentIsAt, Fail, EndRun, NotAllowed, DiskTypes
<1>11. CASE RetrieveManifest
  BY <1>11, Zenon DEF RetrieveManifest, daemon, history, AgentIsAt, Fail, EndRun, DiskTypes
<1>12. CASE Download
  <2>1. UNCHANGED <<bad, count, launches>>
    BY <1>12, Zenon DEF Download, daemon, history
  <2>2. version' \in Versions
    BY <1>12, LargestCandidate, Zenon DEF AgentIsAt, Download, VersionTypes
  <2>3. dir' \in [Versions -> {"absent", "partial", "complete"}]
    BY <1>12, <2>2, Zenon DEF Download, Loaded, DiskTypes
  <2>. QED
    BY <2>1, <2>2, <2>3, Zenon DEF DiskTypes
<1>13. CASE DownloadFails
  BY <1>13, Zenon DEF DownloadFails, daemon, history, AgentIsAt, Fail, EndRun, DiskTypes
<1>14. CASE Attempt
  <2>1. UNCHANGED <<dir, launches>>
    BY <1>14, Zenon DEF Attempt, daemon, history
  <2>2. version \in Versions
    BY <1>14, Zenon DEF AgentIsAt, Attempt, VersionTypes
  <2>3. bad' \in [Versions -> BOOLEAN]
    BY <1>14, <2>2, Zenon DEF Attempt, ClearError, DiskTypes
  <2>4. count' \in [Versions -> 0..AttemptsMax]
    BY <1>14, <2>2, SMTT(20) DEF Attempt, IncUpdateAttemptCount, DiskTypes, AttemptsMax, Fail, EndRun
  <2>. QED
    BY <2>1, <2>2, <2>3, <2>4, Zenon DEF DiskTypes
<1>15. CASE Purge
  <2>1. dir' \in [Versions -> {"absent", "partial", "complete"}]
    BY <1>15, Zenon DEF Purge, DiskTypes
  <2>2. bad' \in [Versions -> BOOLEAN]
    BY <1>15, Zenon DEF Purge
  <2>3. count' \in [Versions -> 0..AttemptsMax]
    BY <1>15, SMTT(20) DEF Purge, DiskTypes, AttemptsMax
  <2>4. launches' \in [Versions -> Nat]
    BY <1>15, Zenon DEF Purge, DiskTypes
  <2>. QED
    BY <2>1, <2>2, <2>3, <2>4, Zenon DEF DiskTypes
<1>16. CASE ProceedWithUpdate
  BY <1>16, Zenon DEF ProceedWithUpdate, daemon, AgentIsAt, MarkedAsBad, MarkFailure, DiskTypes
<1>17. CASE ProcessExtensions
  BY <1>17, Zenon DEF ProcessExtensions, disk, daemon, AgentIsAt, DiskTypes
<1>18. CASE UNCHANGED vars
  BY <1>18, Zenon DEF vars, DiskTypes, disk, daemon, agent, history
<1>. QED
  BY <1>1, <1>2, <1>3, <1>4, <1>5, <1>6, <1>7, <1>8, <1>9, <1>10, <1>11, <1>12, <1>13, <1>14,
     <1>15, <1>16, <1>17, <1>18, Zenon DEF
    Next, EnvironmentNext, DaemonNext, AgentNext

(* A step keeps what a success means.                                      *)
LEMMA ReportedStep ==
    ASSUME GoalStates, Reported, [Next]_vars
    PROVE  Reported'
<1>1. CASE NewGoalState
  BY <1>1, SMTT(20) DEF NewGoalState, disk, daemon, agent, history, Reported, Outcome
<1>2. CASE LaunchIntervalPasses
  BY <1>2, Zenon DEF LaunchIntervalPasses, disk, agent, history, Reported, Outcome
<1>3. CASE AgentIsKilled
  BY <1>3, Zenon DEF AgentIsKilled, disk, daemon, Reported, Outcome
<1>4. CASE Reboot
  BY <1>4, Zenon DEF Reboot, Reported, Outcome
<1>5. CASE LaunchInstalledAgent
  BY <1>5, Zenon DEF LaunchInstalledAgent, disk, EvaluateAgentHealth, StartAgent, RestoredUpdater,
    NoGoalState, Reported, Outcome
<1>6. CASE LaunchLatestAgent
  BY <1>6, Zenon DEF LaunchLatestAgent, disk, EvaluateAgentHealth, StartAgent, RestoredUpdater,
    NoGoalState, RestartsTooFrequently, Reported, Outcome
<1>7. CASE BlacklistLatestAgent
  BY <1>7, Zenon DEF BlacklistLatestAgent, agent, EvaluateAgentHealth, MarkFailure, RestartsTooFrequently,
    Reported, Outcome
<1>8. CASE AgentCrashes
  BY <1>8, Zenon DEF AgentCrashes, disk, daemon, history, Reported, Outcome
<1>9. CASE ChooseUpdater
  <2>1. gs' = goalState /\ UNCHANGED <<running, seen>>
    BY <1>9, Zenon DEF ChooseUpdater
  <2>2. running # None /\ pc = "goalState"
    BY <1>9, Zenon DEF ChooseUpdater, AgentIsAt
  <2>3. \/ pc' = "retrieve"
        \/ pc' = "extensions" /\ errorMsg'
        \/ pc' = "extensions" /\ updater' = "SelfUpdate"
        \/ pc' = "extensions" /\ updater = "RSM" /\ goalState.id = seen /\ (errorMsg => errorMsg')
    BY <1>9, Zenon DEF ChooseUpdater, Fail, EndRun, RsmEnabled
  <2>4. CASE pc' = "retrieve"
    BY <2>4, Zenon DEF Reported
  <2>5. CASE pc' = "extensions" /\ errorMsg'
    BY <2>5, Zenon DEF Reported, Outcome
  <2>6. CASE pc' = "extensions" /\ updater' = "SelfUpdate"
    BY <2>6, Zenon DEF Reported, Outcome
  <2>7. CASE pc' = "extensions" /\ updater = "RSM" /\ goalState.id = seen /\ (errorMsg => errorMsg')
    <3>1. seen # 0
      BY <2>7, Zenon DEF GoalStates
    <3>2. gs' = gs
      BY <2>1, <2>2, <2>7, <3>1, Zenon DEF GoalStates, Reported
    <3>3. Outcome
      BY <2>2, <3>1, Zenon DEF Reported
    <3>4. Outcome'
      BY <2>1, <2>7, <3>2, <3>3, Zenon DEF Outcome
    <3>5. pc' # "goalState"
      BY <2>7, Zenon
    <3>. QED
      BY <3>4, <3>5, Zenon DEF Reported
  <2>. QED
    BY <2>3, <2>4, <2>5, <2>6, <2>7, Zenon
<1>10. CASE RetrieveRsmVersion
  BY <1>10, Zenon DEF RetrieveRsmVersion, daemon, history, AgentIsAt, Fail, EndRun, NotAllowed, Reported,
    Outcome
<1>11. CASE RetrieveManifest
  BY <1>11, Zenon DEF RetrieveManifest, daemon, history, AgentIsAt, Fail, EndRun, Reported, Outcome
<1>12. CASE Download
  BY <1>12, Zenon DEF Download, daemon, history, AgentIsAt, Loaded, Reported, Outcome
<1>13. CASE DownloadFails
  BY <1>13, Zenon DEF DownloadFails, daemon, history, AgentIsAt, Fail, EndRun, Reported, Outcome
<1>14. CASE Attempt
  BY <1>14, Zenon DEF Attempt, daemon, history, AgentIsAt, Fail, EndRun, ClearError, IncUpdateAttemptCount,
    Reported, Outcome
<1>15. CASE Purge
  BY <1>15, Zenon DEF Purge, daemon, AgentIsAt, Reported, Outcome
<1>16. CASE ProceedWithUpdate
  BY <1>16, Zenon DEF ProceedWithUpdate, daemon, AgentIsAt, MarkedAsBad, MarkFailure, Reported, Outcome
<1>17. CASE ProcessExtensions
  BY <1>17, Zenon DEF ProcessExtensions, disk, daemon, AgentIsAt, Reported, Outcome
<1>18. CASE UNCHANGED vars
  BY <1>18, Zenon DEF vars, Reported, Outcome, disk, daemon, agent, history
<1>. QED
  BY <1>1, <1>2, <1>3, <1>4, <1>5, <1>6, <1>7, <1>8, <1>9, <1>10, <1>11, <1>12, <1>13, <1>14,
     <1>15, <1>16, <1>17, <1>18, ZenonT(60) DEF
    Next, EnvironmentNext, DaemonNext, AgentNext

(* A step keeps the directories in order.                                  *)
LEMMA DiskStep ==
    ASSUME DiskTypes, VersionTypes, Updating, Disk, [Next]_vars
    PROVE  Disk'
<1>1. CASE NewGoalState
  BY <1>1, SMTT(20) DEF NewGoalState, disk, daemon, agent, history, Disk, DiskTypes
<1>2. CASE LaunchIntervalPasses
  BY <1>2, Zenon DEF LaunchIntervalPasses, disk, agent, history, Disk, DiskTypes
<1>3. CASE AgentIsKilled
  BY <1>3, Zenon DEF AgentIsKilled, disk, daemon, Disk, DiskTypes
<1>4. CASE Reboot
  BY <1>4, LargestCandidate, SMTT(20) DEF Reboot, Disk, DiskTypes, Updating, Target, VersionTypes
<1>5. CASE LaunchInstalledAgent
  BY <1>5, Zenon DEF LaunchInstalledAgent, disk, EvaluateAgentHealth, StartAgent, RestoredUpdater,
    NoGoalState, Disk, DiskTypes
<1>6. CASE LaunchLatestAgent
  BY <1>6, Zenon DEF LaunchLatestAgent, disk, EvaluateAgentHealth, StartAgent, RestoredUpdater,
    NoGoalState, RestartsTooFrequently, Disk, DiskTypes
<1>7. CASE BlacklistLatestAgent
  BY <1>7, Zenon DEF BlacklistLatestAgent, agent, EvaluateAgentHealth, MarkFailure, RestartsTooFrequently,
    Disk, DiskTypes
<1>8. CASE AgentCrashes
  BY <1>8, Zenon DEF AgentCrashes, disk, daemon, history, Disk, DiskTypes
<1>9. CASE ChooseUpdater
  BY <1>9, Zenon DEF ChooseUpdater, daemon, history, AgentIsAt, Fail, EndRun, RsmEnabled, InvalidGoalState,
    Disk, DiskTypes
<1>10. CASE RetrieveRsmVersion
  BY <1>10, Zenon DEF RetrieveRsmVersion, daemon, history, AgentIsAt, Fail, EndRun, NotAllowed, Disk,
    DiskTypes
<1>11. CASE RetrieveManifest
  BY <1>11, Zenon DEF RetrieveManifest, daemon, history, AgentIsAt, Fail, EndRun, Disk, DiskTypes
<1>12. CASE Download
  <2>1. Max(candidates) \in candidates
    BY <1>12, LargestCandidate, Zenon DEF Download, AgentIsAt, VersionTypes
  <2>2. version' \in Versions /\ version' >= Installed
    BY <1>12, <2>1, Zenon DEF AgentIsAt, Download, Updating, Target, VersionTypes
  <2>. QED
    BY <1>12, <2>1, <2>2, Zenon DEF Download, daemon, history, AgentIsAt, Loaded, Disk, DiskTypes
<1>13. CASE DownloadFails
  BY <1>13, Zenon DEF DownloadFails, daemon, history, AgentIsAt, Fail, EndRun, Disk, DiskTypes
<1>14. CASE Attempt
  BY <1>14, Zenon DEF Attempt, daemon, history, AgentIsAt, Fail, EndRun, ClearError, IncUpdateAttemptCount,
    Disk, DiskTypes
<1>15. CASE Purge
  BY <1>15, Zenon DEF Purge, daemon, AgentIsAt, Disk, DiskTypes
<1>16. CASE ProceedWithUpdate
  BY <1>16, Zenon DEF ProceedWithUpdate, daemon, AgentIsAt, MarkedAsBad, MarkFailure, Disk, DiskTypes
<1>17. CASE ProcessExtensions
  BY <1>17, Zenon DEF ProcessExtensions, disk, daemon, AgentIsAt, Disk, DiskTypes
<1>18. CASE UNCHANGED vars
  BY <1>18, Zenon DEF vars, Disk, DiskTypes, disk, daemon, agent, history
<1>. QED
  BY <1>1, <1>2, <1>3, <1>4, <1>5, <1>6, <1>7, <1>8, <1>9, <1>10, <1>11, <1>12, <1>13, <1>14,
     <1>15, <1>16, <1>17, <1>18, ZenonT(60) DEF
    Next, EnvironmentNext, DaemonNext, AgentNext

(* A step keeps the processes in order.                                    *)
LEMMA ProcessesStep ==
    ASSUME DiskTypes, VersionTypes, Processes, [Next]_vars
    PROVE  Processes'
<1>1. CASE NewGoalState
  BY <1>1, SMTT(20) DEF NewGoalState, disk, daemon, agent, history, Processes, Launched, VersionTypes, None
<1>2. CASE LaunchIntervalPasses
  BY <1>2, Zenon DEF LaunchIntervalPasses, disk, agent, history, Processes, Launched, VersionTypes, None
<1>3. CASE AgentIsKilled
  BY <1>3, NoVersion, Zenon DEF AgentIsKilled, disk, daemon, Processes, Launched, VersionTypes, None
<1>4. CASE Reboot
  BY <1>4, NoVersion, Zenon DEF Reboot, Processes, Launched, VersionTypes, None
<1>5. CASE LaunchInstalledAgent
  BY <1>5, NoVersion, VersionsAssumption, Zenon DEF LaunchInstalledAgent, disk, EvaluateAgentHealth,
    StartAgent, RestoredUpdater, NoGoalState, Processes, Launched, VersionTypes, None
<1>6. CASE LaunchLatestAgent
  <2>1. LatestAgent \in Versions /\ Offered(LatestAgent)
    BY <1>6, LatestIsLargest, Zenon DEF LaunchLatestAgent
  <2>. QED
    BY <1>6, <2>1, VersionsAssumption, SMTT(20) DEF LaunchLatestAgent, disk, EvaluateAgentHealth, StartAgent,
      RestoredUpdater, NoGoalState, RestartsTooFrequently, Processes, Launched, VersionTypes, None, Offered,
      IsAvailable
<1>7. CASE BlacklistLatestAgent
  BY <1>7, Zenon DEF BlacklistLatestAgent, agent, EvaluateAgentHealth, MarkFailure, RestartsTooFrequently,
    Processes, Launched, VersionTypes, None
<1>8. CASE AgentCrashes
  BY <1>8, NoVersion, Zenon DEF AgentCrashes, disk, daemon, history, Processes, Launched, VersionTypes,
    None
<1>9. CASE ChooseUpdater
  BY <1>9, Zenon DEF ChooseUpdater, daemon, history, AgentIsAt, Fail, EndRun, RsmEnabled, InvalidGoalState,
    Processes, Launched, VersionTypes, None, Works
<1>10. CASE RetrieveRsmVersion
  BY <1>10, Zenon DEF RetrieveRsmVersion, daemon, history, AgentIsAt, Fail, EndRun, NotAllowed, Processes,
    Launched, VersionTypes, None, Works
<1>11. CASE RetrieveManifest
  BY <1>11, Zenon DEF RetrieveManifest, daemon, history, AgentIsAt, Fail, EndRun, Processes, Launched,
    VersionTypes, None, Works
<1>12. CASE Download
  <2>1. Max(candidates) \in candidates
    BY <1>12, LargestCandidate, Zenon DEF Download, AgentIsAt, VersionTypes
  <2>. QED
    BY <1>12, <2>1, VersionsAssumption, Zenon DEF Download, daemon, history, AgentIsAt, Loaded, Processes,
      Launched, VersionTypes, None, DiskTypes, Works
<1>13. CASE DownloadFails
  BY <1>13, Zenon DEF DownloadFails, daemon, history, AgentIsAt, Fail, EndRun, Processes, Launched,
    VersionTypes, None, Works
<1>14. CASE Attempt
  BY <1>14, Zenon DEF Attempt, daemon, history, AgentIsAt, Fail, EndRun, ClearError, IncUpdateAttemptCount,
    Processes, Launched, VersionTypes, None, Works
<1>15. CASE Purge
  BY <1>15, Zenon DEF Purge, daemon, AgentIsAt, Processes, Launched, VersionTypes, None, DiskTypes, Works
<1>16. CASE ProceedWithUpdate
  BY <1>16, NoVersion, Zenon DEF ProceedWithUpdate, daemon, AgentIsAt, MarkedAsBad, MarkFailure, Processes,
    Launched, VersionTypes, None
<1>17. CASE ProcessExtensions
  BY <1>17, Zenon DEF ProcessExtensions, disk, daemon, AgentIsAt, Processes, Launched, VersionTypes, None,
    Works
<1>18. CASE UNCHANGED vars
  BY <1>18, Zenon DEF vars, Processes, Launched, VersionTypes, None, disk, daemon, agent, history
<1>. QED
  BY <1>1, <1>2, <1>3, <1>4, <1>5, <1>6, <1>7, <1>8, <1>9, <1>10, <1>11, <1>12, <1>13, <1>14,
     <1>15, <1>16, <1>17, <1>18, ZenonT(60) DEF
    Next, EnvironmentNext, DaemonNext, AgentNext

(* A step keeps the order of an update.                                    *)
LEMMA UpdatingStep ==
    ASSUME GoalStates, DiskTypes, VersionTypes, Processes, Updating, [Next]_vars
    PROVE  Updating'
<1>1. CASE NewGoalState
  BY <1>1, SMTT(20) DEF NewGoalState, disk, daemon, agent, history, Updating, Target, VersionTypes, None
<1>2. CASE LaunchIntervalPasses
  BY <1>2, Zenon DEF LaunchIntervalPasses, disk, agent, history, Updating, Target, VersionTypes, None
<1>3. CASE AgentIsKilled
  BY <1>3, Zenon DEF AgentIsKilled, disk, daemon, Updating, Target, VersionTypes, None
<1>4. CASE Reboot
  BY <1>4, Zenon DEF Reboot, Updating, Target, VersionTypes, None
<1>5. CASE LaunchInstalledAgent
  BY <1>5, Zenon DEF LaunchInstalledAgent, disk, EvaluateAgentHealth, StartAgent, RestoredUpdater,
    NoGoalState, Updating, Target, VersionTypes, None
<1>6. CASE LaunchLatestAgent
  BY <1>6, Zenon DEF LaunchLatestAgent, disk, EvaluateAgentHealth, StartAgent, RestoredUpdater,
    NoGoalState, RestartsTooFrequently, Updating, Target, VersionTypes, None
<1>7. CASE BlacklistLatestAgent
  BY <1>7, Zenon DEF BlacklistLatestAgent, agent, EvaluateAgentHealth, MarkFailure, RestartsTooFrequently,
    Updating, Target, VersionTypes, None
<1>8. CASE AgentCrashes
  BY <1>8, Zenon DEF AgentCrashes, disk, daemon, history, Updating, Target, VersionTypes, None
<1>9. CASE ChooseUpdater
  BY <1>9, Zenon DEF ChooseUpdater, daemon, history, AgentIsAt, Fail, EndRun, RsmEnabled, InvalidGoalState,
    Updating, Target, VersionTypes, None
<1>10. CASE RetrieveRsmVersion
  <2>1. gs.content.version \in Nat /\ Installed \in Nat
    BY RsmVersion, VersionsAssumption, Zenon
  <2>2. \/ pc' = "extensions"
        \/ /\ pc' = "download" /\ candidates' = {gs.content.version} /\ UNCHANGED running
           /\ gs.content.version # running /\ ~NotAllowed(gs.content)
    BY <1>10, Zenon DEF RetrieveRsmVersion, Fail, EndRun
  <2>. QED
    BY <2>1, <2>2, SMTT(20) DEF Updating, Target, NotAllowed
<1>11. CASE RetrieveManifest
  <2>1. (\A w \in Published : w \in Nat) /\ Installed \in Nat
    BY VersionsAssumption, Zenon
  <2>2. running \in Nat /\ running >= Installed
    BY <1>11, VersionsAssumption, SMTT(20) DEF RetrieveManifest, AgentIsAt, VersionTypes, Processes, Launched
  <2>3. \/ pc' = "extensions"
        \/ pc' = "download" /\ candidates' = {v \in Published : v > running} /\ UNCHANGED running
    BY <1>11, ZenonT(60) DEF RetrieveManifest, Fail, EndRun
  <2>. QED
    BY <2>1, <2>2, <2>3, SMTT(20) DEF Updating, Target
<1>12. CASE Download
  <2>1. Max(candidates) \in candidates
    BY <1>12, LargestCandidate, Zenon DEF Download, AgentIsAt, VersionTypes
  <2>. QED
    BY <1>12, <2>1, VersionsAssumption, Zenon DEF Download, daemon, history, AgentIsAt, Loaded, Updating,
      Target, VersionTypes, None, DiskTypes
<1>13. CASE DownloadFails
  BY <1>13, Zenon DEF DownloadFails, daemon, history, AgentIsAt, Fail, EndRun, Updating, Target,
    VersionTypes, None
<1>14. CASE Attempt
  BY <1>14, Zenon DEF Attempt, daemon, history, AgentIsAt, Fail, EndRun, ClearError, IncUpdateAttemptCount,
    Updating, Target, VersionTypes, None, DiskTypes
<1>15. CASE Purge
  BY <1>15, Zenon DEF Purge, daemon, AgentIsAt, Updating, Target, VersionTypes, None, DiskTypes
<1>16. CASE ProceedWithUpdate
  BY <1>16, Zenon DEF ProceedWithUpdate, daemon, AgentIsAt, MarkedAsBad, MarkFailure, Updating, Target,
    VersionTypes, None
<1>17. CASE ProcessExtensions
  BY <1>17, Zenon DEF ProcessExtensions, disk, daemon, AgentIsAt, Updating, Target, VersionTypes, None
<1>18. CASE UNCHANGED vars
  BY <1>18, Zenon DEF vars, Updating, Target, VersionTypes, None, disk, daemon, agent, history
<1>. QED
  BY <1>1, <1>2, <1>3, <1>4, <1>5, <1>6, <1>7, <1>8, <1>9, <1>10, <1>11, <1>12, <1>13, <1>14,
     <1>15, <1>16, <1>17, <1>18, ZenonT(60) DEF
    Next, EnvironmentNext, DaemonNext, AgentNext

(* A step keeps what an agent that exited has left.                        *)
LEMMA ExitedStep ==
    ASSUME GoalStates, DiskTypes, VersionTypes, Processes, Updating, Exited, [Next]_vars
    PROVE  Exited'
<1>1. CASE NewGoalState
  BY <1>1, SMTT(20) DEF NewGoalState, disk, daemon, agent, history, Exited, Offered, IsAvailable, Processes,
    None
<1>2. CASE LaunchIntervalPasses
  BY <1>2, Zenon DEF LaunchIntervalPasses, disk, agent, history, Exited, Offered, IsAvailable, Processes,
    None
<1>3. CASE AgentIsKilled
  BY <1>3, Zenon DEF AgentIsKilled, disk, daemon, Exited, Offered, IsAvailable, Processes, None
<1>4. CASE Reboot
  BY <1>4, NoVersion, Zenon DEF Reboot, Exited, Offered, IsAvailable, Processes, None
<1>5. CASE LaunchInstalledAgent
  BY <1>5, Zenon DEF LaunchInstalledAgent, disk, EvaluateAgentHealth, StartAgent, RestoredUpdater,
    NoGoalState, Exited, Offered, IsAvailable, Processes, None
<1>6. CASE LaunchLatestAgent
  BY <1>6, Zenon DEF LaunchLatestAgent, disk, EvaluateAgentHealth, StartAgent, RestoredUpdater,
    NoGoalState, RestartsTooFrequently, Exited, Offered, IsAvailable, Processes, None
<1>7. CASE BlacklistLatestAgent
  BY <1>7, Zenon DEF BlacklistLatestAgent, agent, EvaluateAgentHealth, MarkFailure, RestartsTooFrequently,
    Exited, Offered, IsAvailable, Processes, None
<1>8. CASE AgentCrashes
  BY <1>8, Zenon DEF AgentCrashes, disk, daemon, history, Exited, Offered, IsAvailable, Processes, None
<1>9. CASE ChooseUpdater
  BY <1>9, Zenon DEF ChooseUpdater, daemon, history, AgentIsAt, Fail, EndRun, RsmEnabled, InvalidGoalState,
    Exited, Offered, IsAvailable, Processes, None
<1>10. CASE RetrieveRsmVersion
  BY <1>10, Zenon DEF RetrieveRsmVersion, daemon, history, AgentIsAt, Fail, EndRun, NotAllowed, Exited,
    Offered, IsAvailable, Processes, None
<1>11. CASE RetrieveManifest
  BY <1>11, Zenon DEF RetrieveManifest, daemon, history, AgentIsAt, Fail, EndRun, Exited, Offered,
    IsAvailable, Processes, None
<1>12. CASE Download
  BY <1>12, Zenon DEF Download, daemon, history, AgentIsAt, Loaded, Exited, Offered, IsAvailable,
    Processes, None
<1>13. CASE DownloadFails
  BY <1>13, Zenon DEF DownloadFails, daemon, history, AgentIsAt, Fail, EndRun, Exited, Offered,
    IsAvailable, Processes, None
<1>14. CASE Attempt
  BY <1>14, Zenon DEF Attempt, daemon, history, AgentIsAt, Fail, EndRun, ClearError, IncUpdateAttemptCount,
    Exited, Offered, IsAvailable, Processes, None
<1>15. CASE Purge
  BY <1>15, Zenon DEF Purge, daemon, AgentIsAt, Exited, Offered, IsAvailable, Processes, None
<1>16. CASE ProceedWithUpdate
  BY <1>16, VersionsAssumption, SMTT(20) DEF ProceedWithUpdate, daemon, AgentIsAt, MarkedAsBad, MarkFailure,
    Exited, Offered, IsAvailable, Processes, None, Updating, Target, VersionTypes, DiskTypes, Launched
<1>17. CASE ProcessExtensions
  BY <1>17, Zenon DEF ProcessExtensions, disk, daemon, AgentIsAt, Exited, Offered, IsAvailable, Processes,
    None
<1>18. CASE UNCHANGED vars
  BY <1>18, Zenon DEF vars, Exited, Offered, IsAvailable, Processes, None, disk, daemon, agent, history
<1>. QED
  BY <1>1, <1>2, <1>3, <1>4, <1>5, <1>6, <1>7, <1>8, <1>9, <1>10, <1>11, <1>12, <1>13, <1>14,
     <1>15, <1>16, <1>17, <1>18, ZenonT(60) DEF
    Next, EnvironmentNext, DaemonNext, AgentNext

(* A step that launches an agent launches the target of the update.        *)
LEMMA TargetIsLaunched ==
    ASSUME VersionTypes, Processes, Exited, [Next]_vars
    PROVE  LaunchesTarget
<1>1. CASE NewGoalState
  BY <1>1, SMTT(20) DEF NewGoalState, disk, daemon, agent, history, LaunchesTarget, Exited, Processes,
    VersionTypes, None
<1>2. CASE LaunchIntervalPasses
  BY <1>2, Zenon DEF LaunchIntervalPasses, disk, agent, history, LaunchesTarget, Exited, Processes,
    VersionTypes, None
<1>3. CASE AgentIsKilled
  BY <1>3, Zenon DEF AgentIsKilled, disk, daemon, LaunchesTarget, Exited, Processes, VersionTypes, None
<1>4. CASE Reboot
  BY <1>4, Zenon DEF Reboot, LaunchesTarget, Exited, Processes, VersionTypes, None
<1>5. CASE LaunchInstalledAgent
  <2>1. \A u \in Versions : ~Offered(u)
    BY <1>5, LatestIsLargest, ZenonT(60) DEF LaunchInstalledAgent
  <2>. QED
    BY <1>5, <2>1, VersionsAssumption, SMTT(20) DEF LaunchInstalledAgent, disk, EvaluateAgentHealth,
      StartAgent, RestoredUpdater, NoGoalState, LaunchesTarget, Exited, Processes, VersionTypes, None
<1>6. CASE LaunchLatestAgent
  <2>1. LatestAgent \in Versions /\ Offered(LatestAgent)
    BY <1>6, LatestIsLargest, Zenon DEF LaunchLatestAgent
  <2>2. \A u \in Versions : Offered(u) => u <= LatestAgent
    BY <1>6, LatestIsLargest, ZenonT(60) DEF LaunchLatestAgent
  <2>. QED
    BY <1>6, <2>1, <2>2, VersionsAssumption, SMTT(20) DEF LaunchLatestAgent, disk, EvaluateAgentHealth,
      StartAgent, RestoredUpdater, NoGoalState, RestartsTooFrequently, LaunchesTarget, Exited, Processes,
      VersionTypes, None, Offered
<1>7. CASE BlacklistLatestAgent
  <2>1. LatestAgent \in Versions /\ Offered(LatestAgent)
    BY <1>7, LatestIsLargest, Zenon DEF BlacklistLatestAgent
  <2>2. \A u \in Versions : Offered(u) => u <= LatestAgent
    BY <1>7, LatestIsLargest, Zenon DEF BlacklistLatestAgent
  <2>. QED
    BY <1>7, <2>1, <2>2, VersionsAssumption, SMTT(20) DEF BlacklistLatestAgent, agent, EvaluateAgentHealth,
      MarkFailure, RestartsTooFrequently, LaunchesTarget, Exited, Processes, VersionTypes, None, Offered,
      RestartMax
<1>8. CASE AgentCrashes
  BY <1>8, Zenon DEF AgentCrashes, disk, daemon, history, LaunchesTarget, Exited, Processes, VersionTypes,
    None
<1>9. CASE ChooseUpdater
  BY <1>9, Zenon DEF ChooseUpdater, daemon, history, AgentIsAt, Fail, EndRun, RsmEnabled, InvalidGoalState,
    LaunchesTarget, Exited, Processes, VersionTypes, None
<1>10. CASE RetrieveRsmVersion
  BY <1>10, Zenon DEF RetrieveRsmVersion, daemon, history, AgentIsAt, Fail, EndRun, NotAllowed,
    LaunchesTarget, Exited, Processes, VersionTypes, None
<1>11. CASE RetrieveManifest
  BY <1>11, Zenon DEF RetrieveManifest, daemon, history, AgentIsAt, Fail, EndRun, LaunchesTarget, Exited,
    Processes, VersionTypes, None
<1>12. CASE Download
  BY <1>12, Zenon DEF Download, daemon, history, AgentIsAt, Loaded, LaunchesTarget, Exited, Processes,
    VersionTypes, None
<1>13. CASE DownloadFails
  BY <1>13, Zenon DEF DownloadFails, daemon, history, AgentIsAt, Fail, EndRun, LaunchesTarget, Exited,
    Processes, VersionTypes, None
<1>14. CASE Attempt
  BY <1>14, Zenon DEF Attempt, daemon, history, AgentIsAt, Fail, EndRun, ClearError, IncUpdateAttemptCount,
    LaunchesTarget, Exited, Processes, VersionTypes, None
<1>15. CASE Purge
  BY <1>15, Zenon DEF Purge, daemon, AgentIsAt, LaunchesTarget, Exited, Processes, VersionTypes, None
<1>16. CASE ProceedWithUpdate
  BY <1>16, Zenon DEF ProceedWithUpdate, daemon, AgentIsAt, MarkedAsBad, MarkFailure, LaunchesTarget,
    Exited, Processes, VersionTypes, None
<1>17. CASE ProcessExtensions
  BY <1>17, Zenon DEF ProcessExtensions, disk, daemon, AgentIsAt, LaunchesTarget, Exited, Processes,
    VersionTypes, None
<1>18. CASE UNCHANGED vars
  BY <1>18, Zenon DEF vars, LaunchesTarget, Exited, Processes, VersionTypes, None, disk, daemon, agent,
    history
<1>. QED
  BY <1>1, <1>2, <1>3, <1>4, <1>5, <1>6, <1>7, <1>8, <1>9, <1>10, <1>11, <1>12, <1>13, <1>14,
     <1>15, <1>16, <1>17, <1>18, ZenonT(60) DEF
    Next, EnvironmentNext, DaemonNext, AgentNext

(* A step offers no working version again.                                 *)
LEMMA NotAgainStep ==
    ASSUME Malformed = {}, DiskTypes, VersionTypes, Disk, Processes, Updating, NotAgain, [Next]_vars
    PROVE  NotAgain'
<1>1. CASE NewGoalState
  BY <1>1, SMTT(20) DEF NewGoalState, disk, daemon, agent, history, NotAgain, AtFault, Offered, IsAvailable,
    None
<1>2. CASE LaunchIntervalPasses
  BY <1>2, Zenon DEF LaunchIntervalPasses, disk, agent, history, NotAgain, AtFault, Offered, IsAvailable,
    None
<1>3. CASE AgentIsKilled
  BY <1>3, SMTT(20) DEF AgentIsKilled, disk, daemon, NotAgain, AtFault, Offered, IsAvailable, None
<1>4. CASE Reboot
  BY <1>4, Zenon DEF Reboot, NotAgain, AtFault, Offered, IsAvailable, None
<1>5. CASE LaunchInstalledAgent
  BY <1>5, Zenon DEF LaunchInstalledAgent, disk, EvaluateAgentHealth, StartAgent, RestoredUpdater,
    NoGoalState, NotAgain, AtFault, Offered, IsAvailable, None
<1>6. CASE LaunchLatestAgent
  BY <1>6, Zenon DEF LaunchLatestAgent, disk, EvaluateAgentHealth, StartAgent, RestoredUpdater,
    NoGoalState, RestartsTooFrequently, NotAgain, AtFault, Offered, IsAvailable, None
<1>7. CASE BlacklistLatestAgent
  <2>1. LatestAgent \in Versions /\ Offered(LatestAgent)
    BY <1>7, LatestIsLargest, ZenonT(60) DEF BlacklistLatestAgent
  <2>. QED
    BY <1>7, <2>1, Zenon DEF BlacklistLatestAgent, agent, EvaluateAgentHealth, MarkFailure,
      RestartsTooFrequently, NotAgain, AtFault, Offered, IsAvailable, None, DiskTypes
<1>8. CASE AgentCrashes
  BY <1>8, NoVersion, Zenon DEF AgentCrashes, disk, daemon, history, NotAgain, AtFault, Offered,
    IsAvailable, None, Disk, Processes, Launched, Works, DiskTypes, VersionTypes
<1>9. CASE ChooseUpdater
  BY <1>9, Zenon DEF ChooseUpdater, daemon, history, AgentIsAt, Fail, EndRun, RsmEnabled, InvalidGoalState,
    NotAgain, AtFault, Offered, IsAvailable, None
<1>10. CASE RetrieveRsmVersion
  BY <1>10, Zenon DEF RetrieveRsmVersion, daemon, history, AgentIsAt, Fail, EndRun, NotAllowed, NotAgain,
    AtFault, Offered, IsAvailable, None
<1>11. CASE RetrieveManifest
  BY <1>11, Zenon DEF RetrieveManifest, daemon, history, AgentIsAt, Fail, EndRun, NotAgain, AtFault,
    Offered, IsAvailable, None
<1>12. CASE Download
  BY <1>12, Zenon DEF Download, daemon, history, AgentIsAt, Loaded, NotAgain, AtFault, Offered,
    IsAvailable, None
<1>13. CASE DownloadFails
  BY <1>13, Zenon DEF DownloadFails, daemon, history, AgentIsAt, Fail, EndRun, NotAgain, AtFault, Offered,
    IsAvailable, None
<1>14. CASE Attempt
  BY <1>14, Zenon DEF Attempt, daemon, history, AgentIsAt, Fail, EndRun, ClearError, IncUpdateAttemptCount,
    NotAgain, AtFault, Offered, IsAvailable, None
<1>15. CASE Purge
  BY <1>15, Zenon DEF Purge, daemon, AgentIsAt, NotAgain, AtFault, Offered, IsAvailable, None
<1>16. CASE ProceedWithUpdate
  BY <1>16, VersionsAssumption, SMTT(20) DEF ProceedWithUpdate, daemon, AgentIsAt, MarkedAsBad, MarkFailure,
    NotAgain, AtFault, Offered, IsAvailable, None, Updating, Target, VersionTypes, DiskTypes, Processes,
    Launched
<1>17. CASE ProcessExtensions
  BY <1>17, Zenon DEF ProcessExtensions, disk, daemon, AgentIsAt, NotAgain, AtFault, Offered, IsAvailable,
    None
<1>18. CASE UNCHANGED vars
  BY <1>18, Zenon DEF vars, NotAgain, AtFault, Offered, IsAvailable, None, disk, daemon, agent, history
<1>. QED
  BY <1>1, <1>2, <1>3, <1>4, <1>5, <1>6, <1>7, <1>8, <1>9, <1>10, <1>11, <1>12, <1>13, <1>14,
     <1>15, <1>16, <1>17, <1>18, ZenonT(60) DEF
    Next, EnvironmentNext, DaemonNext, AgentNext

(* A step blacklists no version without a reason.                          *)
LEMMA BlacklistStep ==
    ASSUME DiskTypes, VersionTypes, NotAgain, BlacklistsOnlyBad, [Next]_vars
    PROVE  BlacklistsOnlyBad'
<1>1. CASE NewGoalState
  BY <1>1, SMTT(20) DEF NewGoalState, disk, daemon, agent, history, BlacklistsOnlyBad, DiskTypes
<1>2. CASE LaunchIntervalPasses
  BY <1>2, Zenon DEF LaunchIntervalPasses, disk, agent, history, BlacklistsOnlyBad, DiskTypes
<1>3. CASE AgentIsKilled
  BY <1>3, SMTT(20) DEF AgentIsKilled, disk, daemon, BlacklistsOnlyBad, DiskTypes, NotAgain
<1>4. CASE Reboot
  BY <1>4, Zenon DEF Reboot, BlacklistsOnlyBad, DiskTypes
<1>5. CASE LaunchInstalledAgent
  BY <1>5, Zenon DEF LaunchInstalledAgent, disk, EvaluateAgentHealth, StartAgent, RestoredUpdater,
    NoGoalState, BlacklistsOnlyBad, DiskTypes
<1>6. CASE LaunchLatestAgent
  BY <1>6, Zenon DEF LaunchLatestAgent, disk, EvaluateAgentHealth, StartAgent, RestoredUpdater,
    NoGoalState, RestartsTooFrequently, BlacklistsOnlyBad, DiskTypes
<1>7. CASE BlacklistLatestAgent
  <2>1. LatestAgent \in Versions /\ Offered(LatestAgent)
    BY <1>7, LatestIsLargest, Zenon DEF BlacklistLatestAgent
  <2>2. \A u \in Versions : Offered(u) => u <= LatestAgent
    BY <1>7, LatestIsLargest, ZenonT(60) DEF BlacklistLatestAgent
  <2>. QED
    BY <1>7, <2>1, <2>2, VersionsAssumption, SMTT(20) DEF BlacklistLatestAgent, agent, EvaluateAgentHealth,
      MarkFailure, RestartsTooFrequently, BlacklistsOnlyBad, DiskTypes, NotAgain, AtFault, Offered,
      VersionTypes, RestartMax, None
<1>8. CASE AgentCrashes
  BY <1>8, Zenon DEF AgentCrashes, disk, daemon, history, BlacklistsOnlyBad, DiskTypes
<1>9. CASE ChooseUpdater
  BY <1>9, Zenon DEF ChooseUpdater, daemon, history, AgentIsAt, Fail, EndRun, RsmEnabled, InvalidGoalState,
    BlacklistsOnlyBad, DiskTypes
<1>10. CASE RetrieveRsmVersion
  BY <1>10, Zenon DEF RetrieveRsmVersion, daemon, history, AgentIsAt, Fail, EndRun, NotAllowed,
    BlacklistsOnlyBad, DiskTypes
<1>11. CASE RetrieveManifest
  BY <1>11, Zenon DEF RetrieveManifest, daemon, history, AgentIsAt, Fail, EndRun, BlacklistsOnlyBad,
    DiskTypes
<1>12. CASE Download
  BY <1>12, Zenon DEF Download, daemon, history, AgentIsAt, Loaded, BlacklistsOnlyBad, DiskTypes
<1>13. CASE DownloadFails
  BY <1>13, Zenon DEF DownloadFails, daemon, history, AgentIsAt, Fail, EndRun, BlacklistsOnlyBad, DiskTypes
<1>14. CASE Attempt
  BY <1>14, Zenon DEF Attempt, daemon, history, AgentIsAt, Fail, EndRun, ClearError, IncUpdateAttemptCount,
    BlacklistsOnlyBad, DiskTypes
<1>15. CASE Purge
  <2>1. UNCHANGED <<left, kills>>
    BY <1>15, Zenon DEF Purge
  <2>2. ASSUME NEW v \in Versions, bad'[v], v \in Crashing \cup broken \cup left
        PROVE  v \in Crashing \cup broken' \cup left
    BY <1>15, <2>2, Zenon DEF Purge
  <2>3. ASSUME NEW v \in Versions, bad'[v] PROVE bad[v]
    BY <1>15, <2>3, ZenonT(60) DEF Purge
  <2>. QED
    BY <2>1, <2>2, <2>3, Zenon DEF BlacklistsOnlyBad
<1>16. CASE ProceedWithUpdate
  BY <1>16, VersionsAssumption, Zenon DEF ProceedWithUpdate, daemon, AgentIsAt, MarkedAsBad, MarkFailure,
    BlacklistsOnlyBad, DiskTypes, VersionTypes
<1>17. CASE ProcessExtensions
  BY <1>17, Zenon DEF ProcessExtensions, disk, daemon, AgentIsAt, BlacklistsOnlyBad, DiskTypes
<1>18. CASE UNCHANGED vars
  BY <1>18, Zenon DEF vars, BlacklistsOnlyBad, DiskTypes, disk, daemon, agent, history
<1>. QED
  BY <1>1, <1>2, <1>3, <1>4, <1>5, <1>6, <1>7, <1>8, <1>9, <1>10, <1>11, <1>12, <1>13, <1>14,
     <1>15, <1>16, <1>17, <1>18, ZenonT(60) DEF
    Next, EnvironmentNext, DaemonNext, AgentNext

(* A step keeps the counters with the directories.                         *)
LEMMA CountedOnDiskStep ==
    ASSUME DiskTypes, VersionTypes, CountedOnDisk, [Next]_vars
    PROVE  CountedOnDisk'
<1>1. CASE NewGoalState
  BY <1>1, SMTT(20) DEF NewGoalState, disk, daemon, agent, history, CountedOnDisk
<1>2. CASE LaunchIntervalPasses
  BY <1>2, Zenon DEF LaunchIntervalPasses, disk, agent, history, CountedOnDisk
<1>3. CASE AgentIsKilled
  BY <1>3, SMTT(20) DEF AgentIsKilled, disk, daemon, CountedOnDisk
<1>4. CASE Reboot
  BY <1>4, SMTT(20) DEF Reboot, CountedOnDisk, DiskTypes
<1>5. CASE LaunchInstalledAgent
  BY <1>5, Zenon DEF LaunchInstalledAgent, disk, EvaluateAgentHealth, StartAgent, RestoredUpdater,
    NoGoalState, CountedOnDisk
<1>6. CASE LaunchLatestAgent
  <2>1. LatestAgent \in Versions /\ Offered(LatestAgent)
    BY <1>6, LatestIsLargest, Zenon DEF LaunchLatestAgent
  <2>2. attempts' \in Nat
    BY <1>6, HealthEvaluated, ZenonT(60) DEF CountedOnDisk, LaunchLatestAgent
  <2>. QED
    BY <1>6, <2>1, <2>2, Zenon DEF LaunchLatestAgent, disk, CountedOnDisk, Offered, IsAvailable, DiskTypes
<1>7. CASE BlacklistLatestAgent
  <2>1. attempts' \in Nat
    BY <1>7, HealthEvaluated, ZenonT(60) DEF CountedOnDisk, BlacklistLatestAgent
  <2>. QED
    BY <1>7, <2>1, Zenon DEF BlacklistLatestAgent, agent, CountedOnDisk
<1>8. CASE AgentCrashes
  BY <1>8, Zenon DEF AgentCrashes, disk, daemon, history, CountedOnDisk
<1>9. CASE ChooseUpdater
  BY <1>9, Zenon DEF ChooseUpdater, daemon, history, AgentIsAt, Fail, EndRun, RsmEnabled, InvalidGoalState,
    CountedOnDisk
<1>10. CASE RetrieveRsmVersion
  BY <1>10, Zenon DEF RetrieveRsmVersion, daemon, history, AgentIsAt, Fail, EndRun, NotAllowed,
    CountedOnDisk
<1>11. CASE RetrieveManifest
  BY <1>11, Zenon DEF RetrieveManifest, daemon, history, AgentIsAt, Fail, EndRun, CountedOnDisk
<1>12. CASE Download
  BY <1>12, SMTT(20) DEF Download, daemon, history, AgentIsAt, Loaded, CountedOnDisk
<1>13. CASE DownloadFails
  BY <1>13, Zenon DEF DownloadFails, daemon, history, AgentIsAt, Fail, EndRun, CountedOnDisk
<1>14. CASE Attempt
  <2>1. version \in Versions
    BY <1>14, ZenonT(60) DEF Attempt, AgentIsAt, VersionTypes
  <2>. QED
    BY <1>14, <2>1, Zenon DEF Attempt, daemon, history, AgentIsAt, Fail, EndRun, ClearError,
      IncUpdateAttemptCount, CountedOnDisk, DiskTypes
<1>15. CASE Purge
  BY <1>15, Zenon DEF Purge, daemon, AgentIsAt, CountedOnDisk
<1>16. CASE ProceedWithUpdate
  BY <1>16, Zenon DEF ProceedWithUpdate, daemon, AgentIsAt, MarkedAsBad, MarkFailure, CountedOnDisk
<1>17. CASE ProcessExtensions
  BY <1>17, Zenon DEF ProcessExtensions, disk, daemon, AgentIsAt, CountedOnDisk
<1>18. CASE UNCHANGED vars
  BY <1>18, Zenon DEF vars, CountedOnDisk, disk, daemon, agent, history
<1>. QED
  BY <1>1, <1>2, <1>3, <1>4, <1>5, <1>6, <1>7, <1>8, <1>9, <1>10, <1>11, <1>12, <1>13, <1>14,
     <1>15, <1>16, <1>17, <1>18, Zenon DEF
    Next, EnvironmentNext, DaemonNext, AgentNext

(* While no agent runs, a crashing version that is on offer is the largest *)
(* one, and the daemon launches it, for the first or for the second time.  *)
LEMMA CrashingIsOffered ==
    ASSUME DiskTypes, VersionTypes, Disk, Exited, Counted,
           kills = 0, reboots = 0, running = None,
           NEW v \in Crashing, IsAvailable(v)
    PROVE  /\ v \in Versions /\ Offered(v)
           /\ \A u \in Versions : Offered(u) => u <= v
           /\ (Left(v) /\ child # v) \/ Looping(v)
<1>1. v \in Versions /\ v \in Nat /\ Installed \in Nat /\ v # Installed /\ v # None
  BY VersionsAssumption, Zenon
<1>2. v >= Installed /\ v \notin Malformed
  BY <1>1, Zenon DEF Disk, IsAvailable
<1>3. Offered(v)
  BY <1>1, <1>2, SMT DEF Offered
<1>4. Left(v) \/ Looping(v)
  BY Zenon DEF Counted, Downloaded, Attempted
<1>5. CASE Left(v)
  BY <1>1, <1>2, <1>3, <1>5, Zenon DEF Left, Exited
<1>6. CASE Looping(v)
  BY <1>1, <1>3, <1>6, Zenon DEF Looping
<1>. QED
  BY <1>4, <1>5, <1>6, Zenon

(* A step keeps the launches of a crashing version within the attempts.    *)
LEMMA CountedStep ==
    ASSUME ~CrashesLate, DiskTypes, VersionTypes, Disk, Processes, Updating, Exited, CountedOnDisk, Counted, [Next]_vars
    PROVE  Counted'
<1>1. CASE NewGoalState
  BY <1>1, VersionsAssumption, NoVersion, SMTT(20) DEF NewGoalState, disk, daemon, agent, history, Counted,
    Downloaded, Attempted, Left, Looping, Offered, IsAvailable, None, DiskTypes, VersionTypes, CountedOnDisk,
    Processes, AttemptsMax
<1>2. CASE LaunchIntervalPasses
  BY <1>2, VersionsAssumption, NoVersion, SMTT(20) DEF LaunchIntervalPasses, disk, agent, history, Counted,
    Downloaded, Attempted, Left, Looping, Offered, IsAvailable, None, DiskTypes, VersionTypes, CountedOnDisk,
    Processes, Works, AttemptsMax
<1>3. CASE AgentIsKilled
  BY <1>3, VersionsAssumption, NoVersion, SMTT(20) DEF AgentIsKilled, disk, daemon, Counted, Downloaded,
    Attempted, Left, Looping, Offered, IsAvailable, None, DiskTypes, VersionTypes, CountedOnDisk, Processes,
    Works, AttemptsMax
<1>4. CASE Reboot
  BY <1>4, VersionsAssumption, NoVersion, SMTT(20) DEF Reboot, Counted, Downloaded, Attempted, Left, Looping,
    Offered, IsAvailable, None, DiskTypes, VersionTypes, CountedOnDisk, Processes, Works, AttemptsMax
<1>5. CASE LaunchInstalledAgent
  <2>. SUFFICES ASSUME kills' = 0, reboots' = 0, NEW v \in Crashing
       PROVE  /\ launches'[v] <= 2 * count'[v]
              /\ IsAvailable(v)' => Downloaded(v)' \/ Attempted(v)' \/ Left(v)' \/ Looping(v)'
    BY Zenon DEF Counted
  <2>1. UNCHANGED <<dir, bad, count, launches>>
    BY <1>5, Zenon DEF LaunchInstalledAgent, disk
  <2>2. kills = 0 /\ reboots = 0 /\ running = None
    BY <1>5, Zenon DEF LaunchInstalledAgent
  <2>3. v \in Versions /\ launches[v] <= 2 * count[v] /\ launches[v] \in Nat /\ count[v] \in Nat
    BY <2>2, VersionsAssumption, SMTT(20) DEF Counted, DiskTypes, AttemptsMax
  <2>4. ~IsAvailable(v)
    <3>1. \A u \in Versions : ~Offered(u)
      BY <1>5, LatestIsLargest, Zenon DEF LaunchInstalledAgent
    <3>. QED
      BY <2>2, <3>1, CrashingIsOffered, Zenon
  <2>. QED
    BY <2>1, <2>3, <2>4, Zenon DEF IsAvailable
<1>6. CASE LaunchLatestAgent
  <2>. SUFFICES ASSUME kills' = 0, reboots' = 0, NEW v \in Crashing
       PROVE  /\ launches'[v] <= 2 * count'[v]
              /\ IsAvailable(v)' => Downloaded(v)' \/ Attempted(v)' \/ Left(v)' \/ Looping(v)'
    BY Zenon DEF Counted
  <2>1. UNCHANGED <<dir, bad, count>>
    BY <1>6, Zenon DEF LaunchLatestAgent, disk
  <2>2. kills = 0 /\ reboots = 0 /\ running = None
    BY <1>6, Zenon DEF LaunchLatestAgent
  <2>3. v \in Versions /\ launches[v] <= 2 * count[v] /\ launches[v] \in Nat /\ count[v] \in Nat
    BY <2>2, VersionsAssumption, SMTT(20) DEF Counted, DiskTypes, AttemptsMax
  <2>4. LatestAgent \in Versions /\ Offered(LatestAgent)
    BY <1>6, LatestIsLargest, Zenon DEF LaunchLatestAgent
  <2>5. \A u \in Versions : Offered(u) => u <= LatestAgent
    BY <1>6, LatestIsLargest, Zenon DEF LaunchLatestAgent
  <2>6. IsAvailable(v) => v = LatestAgent
    <3>1. \A x, y \in Versions : x <= y /\ y <= x => x = y
      BY VersionsAssumption, SMT
    <3>. QED
      BY <2>2, <2>3, <2>4, <2>5, <3>1, CrashingIsOffered, Zenon
  <2>7. CASE ~IsAvailable(v)
    <3>1. v # LatestAgent
      BY <2>4, <2>7, Zenon DEF Offered
    <3>2. launches'[v] = launches[v]
      BY <1>6, <2>3, <3>1, Zenon DEF LaunchLatestAgent, DiskTypes
    <3>. QED
      BY <2>1, <2>3, <2>7, <3>2, Zenon DEF IsAvailable
  <2>8. CASE IsAvailable(v)
    <3>1. launches'[v] \in Nat /\ launches'[v] <= launches[v] + 1
      BY <1>6, <2>3, <2>6, <2>8, LaunchCounted, Zenon DEF LaunchLatestAgent, DiskTypes
    <3>2. running' = v /\ child' = v /\ v # None
      BY <1>6, <2>6, <2>8, Zenon DEF LaunchLatestAgent, StartAgent, EvaluateAgentHealth
    <3>3. /\ attempts \in Nat /\ attempts' \in Nat
          /\ v = child => /\ attempts' = IF attempts + 1 <= RestartMax THEN attempts + 1 ELSE RestartMax
                          /\ inWindow => inWindow'
          /\ v # child => attempts' = 1 /\ inWindow'
      <4>1. attempts \in Nat /\ EvaluateAgentHealth(LatestAgent)
        BY <1>6, Zenon DEF LaunchLatestAgent, CountedOnDisk
      <4>2. LatestAgent = v
        BY <2>6, <2>8, Zenon
      <4>3. EvaluateAgentHealth(v)
        BY <4>1, <4>2, Zenon
      <4>. QED
        BY <4>1, <4>3, <3>2, HealthEvaluated, Zenon
    <3>4. ~(inWindow' /\ attempts' >= RestartMax)
      BY <1>6, Zenon DEF LaunchLatestAgent, RestartsTooFrequently
    <3>5. \A u \in Versions : Offered(u)' => u <= v
      BY <2>1, <2>5, <2>6, <2>8, ZenonT(60) DEF Offered, IsAvailable
    <3>6. CASE Left(v) /\ child # v
      BY <2>1, <2>3, <3>1, <3>2, <3>3, <3>5, <3>6, SMTT(20) DEF Left, Looping
    <3>7. CASE Looping(v)
      BY <2>1, <2>3, <3>1, <3>2, <3>3, <3>4, <3>5, <3>7, SMTT(20) DEF Looping, RestartMax
    <3>. QED
      BY <2>2, <2>8, <3>6, <3>7, CrashingIsOffered, Zenon
  <2>. QED
    BY <2>7, <2>8, Zenon
<1>7. CASE BlacklistLatestAgent
  <2>. SUFFICES ASSUME kills' = 0, reboots' = 0, NEW v \in Crashing
       PROVE  /\ launches'[v] <= 2 * count'[v]
              /\ IsAvailable(v)' => Downloaded(v)' \/ Attempted(v)' \/ Left(v)' \/ Looping(v)'
    BY Zenon DEF Counted
  <2>1. UNCHANGED <<dir, count, launches>> /\ bad' = MarkFailure(LatestAgent)
    BY <1>7, Zenon DEF BlacklistLatestAgent
  <2>2. kills = 0 /\ reboots = 0 /\ running = None
    BY <1>7, Zenon DEF BlacklistLatestAgent
  <2>3. v \in Versions /\ launches[v] <= 2 * count[v] /\ launches[v] \in Nat /\ count[v] \in Nat
    BY <2>2, VersionsAssumption, SMTT(20) DEF Counted, DiskTypes, AttemptsMax
  <2>4. LatestAgent \in Versions /\ Offered(LatestAgent)
    BY <1>7, LatestIsLargest, Zenon DEF BlacklistLatestAgent
  <2>5. \A u \in Versions : Offered(u) => u <= LatestAgent
    BY <1>7, LatestIsLargest, ZenonT(60) DEF BlacklistLatestAgent
  <2>6. IsAvailable(v) => v = LatestAgent
    <3>1. \A x, y \in Versions : x <= y /\ y <= x => x = y
      BY VersionsAssumption, SMT
    <3>. QED
      BY <2>2, <2>3, <2>4, <2>5, <3>1, CrashingIsOffered, Zenon
  <2>7. ~IsAvailable(v)'
    BY <2>1, <2>3, <2>4, <2>6, Zenon DEF IsAvailable, MarkFailure, DiskTypes
  <2>. QED
    BY <2>1, <2>3, <2>7, Zenon
<1>8. CASE AgentCrashes
  <2>. SUFFICES ASSUME kills' = 0, reboots' = 0, NEW v \in Crashing
       PROVE  /\ launches'[v] <= 2 * count'[v]
              /\ IsAvailable(v)' => Downloaded(v)' \/ Attempted(v)' \/ Left(v)' \/ Looping(v)'
    BY Zenon DEF Counted
  <2>1. UNCHANGED <<dir, bad, count, launches, child, attempts, inWindow, kills, reboots>>
        /\ running # None /\ running' = None /\ ~Works(running)
    BY <1>8, Zenon DEF AgentCrashes, disk, daemon, history
  <2>2. v \in Versions /\ launches[v] <= 2 * count[v]
    BY <2>1, VersionsAssumption, ZenonT(60) DEF Counted
  <2>3. running \in Crashing
    BY <2>1, NoVersion, Zenon DEF Works, Processes, Launched, VersionTypes, DiskTypes, Disk, CountedOnDisk
  <2>4. pc = "goalState" /\ exitTo = None
    BY <2>1, <2>3, ZenonT(60) DEF Processes
  <2>5. IsAvailable(v) => Looping(v)
    BY <2>1, <2>2, <2>4, NoVersion, Zenon DEF Counted, Downloaded, Attempted, Left
  <2>6. Looping(v) => Looping(v)'
    BY <2>1, ZenonT(60) DEF Looping, Offered, IsAvailable
  <2>. QED
    BY <2>1, <2>2, <2>5, <2>6, Zenon DEF IsAvailable
<1>9. CASE ChooseUpdater
  BY <1>9, VersionsAssumption, NoVersion, Zenon DEF ChooseUpdater, daemon, history, AgentIsAt, Fail,
    EndRun, RsmEnabled, InvalidGoalState, Counted, Downloaded, Attempted, Left, Looping, Offered, IsAvailable,
    None, DiskTypes, VersionTypes, CountedOnDisk, Processes, Works, AttemptsMax
<1>10. CASE RetrieveRsmVersion
  BY <1>10, VersionsAssumption, NoVersion, Zenon DEF RetrieveRsmVersion, daemon, history, AgentIsAt, Fail,
    EndRun, NotAllowed, Counted, Downloaded, Attempted, Left, Looping, Offered, IsAvailable, None, DiskTypes,
    VersionTypes, CountedOnDisk, Processes, Works, AttemptsMax
<1>11. CASE RetrieveManifest
  BY <1>11, VersionsAssumption, NoVersion, Zenon DEF RetrieveManifest, daemon, history, AgentIsAt, Fail,
    EndRun, Counted, Downloaded, Attempted, Left, Looping, Offered, IsAvailable, None, DiskTypes,
    VersionTypes, CountedOnDisk, Processes, Works, AttemptsMax
<1>12. CASE Download
  BY <1>12, VersionsAssumption, NoVersion, SMTT(20) DEF Download, daemon, history, AgentIsAt, Loaded, Counted,
    Downloaded, Attempted, Left, Looping, Offered, IsAvailable, None, DiskTypes, VersionTypes, CountedOnDisk,
    Processes, Works, AttemptsMax
<1>13. CASE DownloadFails
  BY <1>13, VersionsAssumption, NoVersion, Zenon DEF DownloadFails, daemon, history, AgentIsAt, Fail,
    EndRun, Counted, Downloaded, Attempted, Left, Looping, Offered, IsAvailable, None, DiskTypes,
    VersionTypes, CountedOnDisk, Processes, Works, AttemptsMax
<1>14. CASE Attempt
  BY <1>14, VersionsAssumption, NoVersion, SMTT(20) DEF Attempt, daemon, history, AgentIsAt, Fail, EndRun,
    ClearError, IncUpdateAttemptCount, Counted, Downloaded, Attempted, Left, Looping, Offered, IsAvailable,
    None, DiskTypes, VersionTypes, CountedOnDisk, Processes, Works, AttemptsMax
<1>15. CASE Purge
  BY <1>15, VersionsAssumption, NoVersion, SMTT(20) DEF Purge, daemon, AgentIsAt, Counted, Downloaded,
    Attempted, Left, Looping, Offered, IsAvailable, None, DiskTypes, VersionTypes, CountedOnDisk, Processes,
    Works, AttemptsMax
<1>16. CASE ProceedWithUpdate
  BY <1>16, VersionsAssumption, NoVersion, SMTT(20) DEF ProceedWithUpdate, daemon, AgentIsAt, MarkedAsBad,
    MarkFailure, Counted, Downloaded, Attempted, Left, Looping, Offered, IsAvailable, None, DiskTypes,
    VersionTypes, CountedOnDisk, Processes, Works, AttemptsMax
<1>17. CASE ProcessExtensions
  BY <1>17, VersionsAssumption, NoVersion, Zenon DEF ProcessExtensions, disk, daemon, AgentIsAt, Counted,
    Downloaded, Attempted, Left, Looping, Offered, IsAvailable, None, DiskTypes, VersionTypes, CountedOnDisk,
    Processes, Works, AttemptsMax
<1>18. CASE UNCHANGED vars
  BY <1>18, SMTT(20) DEF vars, Counted, Downloaded, Attempted, Left, Looping, Offered, IsAvailable, None,
    disk, daemon, agent, history
<1>. QED
  BY <1>1, <1>2, <1>3, <1>4, <1>5, <1>6, <1>7, <1>8, <1>9, <1>10, <1>11, <1>12, <1>13, <1>14,
     <1>15, <1>16, <1>17, <1>18, ZenonT(60) DEF
    Next, EnvironmentNext, DaemonNext, AgentNext

----------------------------------------------------------------------------
(* What holds of the goal states, of the types, and of an update, in every *)
(* state.                                                                  *)
Kept == GoalStates /\ VersionTypes /\ DiskTypes /\ Disk /\ Processes /\ Updating /\ Exited

(* Kept holds in the initial states.                                       *)
LEMMA InitKept == Init => Kept
<1>. SUFFICES ASSUME Init PROVE Kept
  BY Zenon
<1>1. GoalStates
  BY SMTT(20) DEF Init, GoalStates, NoGoalState
<1>2. VersionTypes /\ DiskTypes
  BY SMTT(20) DEF Init, VersionTypes, DiskTypes, AttemptsMax, None
<1>3. Disk /\ Processes /\ Updating /\ Exited
  BY NoVersion, Zenon DEF Init, Disk, Processes, Launched, Updating, Exited, None
<1>. QED
  BY <1>1, <1>2, <1>3, Zenon DEF Kept

(* Every step preserves Kept.                                              *)
LEMMA KeptStep ==
    ASSUME Kept, [Next]_vars
    PROVE  Kept'
<1>1. GoalStates /\ VersionTypes /\ DiskTypes /\ Disk /\ Processes /\ Updating /\ Exited
  BY Zenon DEF Kept
<1>2. GoalStates' /\ VersionTypes' /\ DiskTypes'
  BY <1>1, GoalStatesStep, VersionTypesStep, DiskTypesStep, Zenon
<1>3. Disk' /\ Processes' /\ Updating' /\ Exited'
  BY <1>1, DiskStep, ProcessesStep, UpdatingStep, ExitedStep, Zenon
<1>. QED
  BY <1>2, <1>3, Zenon DEF Kept

(* When an agent exits to update to a version that can be loaded, the next *)
(* agent that the daemon launches is that version (proceed_with_update and *)
(* get_latest_agent_greater_than_daemon).                                  *)
THEOREM TheTargetRunsNext == Spec => NextAgentIsTarget
<1>1. Init => Kept
  BY InitKept, Zenon
<1>2. Kept /\ [Next]_vars => Kept'
  BY KeptStep, Zenon
<1>3. Kept /\ [Next]_vars => LaunchesTarget
  BY TargetIsLaunched, Zenon DEF Kept
<1>. QED
  BY <1>1, <1>2, <1>3, PTL DEF Spec, NextAgentIsTarget

(* When the agent reports the update as a success to RSM, it runs the      *)
(* version that the goal state asks for (get_vmagent_update_status).       *)
THEOREM SuccessIsTheTarget == Spec => []SuccessMeansTarget
<1>1. Init => GoalStates /\ Reported
  BY InitKept, Zenon DEF Kept, Init, Reported
<1>2. GoalStates /\ Reported /\ [Next]_vars => (GoalStates /\ Reported)'
  BY GoalStatesStep, ReportedStep, Zenon
<1>3. Reported => SuccessMeansTarget
  BY Zenon DEF Reported, Outcome, SuccessMeansTarget
<1>. QED
  BY <1>1, <1>2, <1>3, PTL DEF Spec

(* A version is blacklisted only because it crashes, was expanded in part, *)
(* was killed or because RSM asked to downgrade from it                    *)
(* (_evaluate_agent_health, proceed_with_update), if every package can be  *)
(* loaded.                                                                 *)
THEOREM OnlyBadVersionsAreBlacklisted ==
    ASSUME Malformed = {}
    PROVE  Spec => []BlacklistsOnlyBad
<1>1. Init => Kept /\ NotAgain /\ BlacklistsOnlyBad
  <2>. SUFFICES ASSUME Init PROVE NotAgain /\ BlacklistsOnlyBad
    BY InitKept, Zenon
  <2>. QED
    BY Zenon DEF Init, NotAgain, BlacklistsOnlyBad
<1>2. Kept /\ NotAgain /\ BlacklistsOnlyBad /\ [Next]_vars => (Kept /\ NotAgain /\ BlacklistsOnlyBad)'
  BY KeptStep, NotAgainStep, BlacklistStep, Zenon DEF Kept
<1>. QED
  BY <1>1, <1>2, PTL DEF Spec

(* A version that crashes is launched twice per attempt and attempted      *)
(* three times at most (_evaluate_agent_health, AgentUpdateHandler.run),   *)
(* if it crashes within the launch interval.                               *)
THEOREM CrashesAreBounded ==
    ASSUME ~CrashesLate
    PROVE  Spec => []CrashLoopIsBounded
<1>1. Init => Kept /\ CountedOnDisk /\ Counted
  <2>. SUFFICES ASSUME Init PROVE CountedOnDisk /\ Counted
    BY InitKept, Zenon
  <2>1. CountedOnDisk
    BY Zenon DEF Init, CountedOnDisk
  <2>2. Counted
    BY VersionsAssumption, SMTT(20) DEF Init, Counted, IsAvailable
  <2>. QED
    BY <2>1, <2>2, Zenon
<1>2. Kept /\ CountedOnDisk /\ Counted /\ [Next]_vars => (Kept /\ CountedOnDisk /\ Counted)'
  BY KeptStep, CountedOnDiskStep, CountedStep, ZenonT(60) DEF Kept
<1>3. Kept /\ Counted => CrashLoopIsBounded
  BY VersionsAssumption, SMTT(20) DEF Kept, DiskTypes, Counted, CrashLoopIsBounded, LaunchesCap, RestartMax,
    AttemptsMax
<1>. QED
  BY <1>1, <1>2, <1>3, PTL DEF Spec
=============================================================================

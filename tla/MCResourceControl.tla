------------------------- MODULE MCResourceControl -------------------------
(* Instances of ResourceControl for TLC.                                   *)
EXTENDS ResourceControl, SequencesExt

(* The log collector, with small limits.                                   *)
Logs == INSTANCE LogCollection WITH FileLimit <- 2, ArchiveLimit <- 3, MaxErrors <- 2,
                                    MaxRetries <- 2, MaxFailures <- 2

MCPlatforms ==
    {[distro |-> TRUE, version |-> "v2", slice |-> TRUE, ctrl |-> {"cpu", "memory"}],
     [distro |-> TRUE, version |-> "v1", slice |-> TRUE, ctrl |-> {"cpu"}],
     [distro |-> TRUE, version |-> "v2", slice |-> FALSE, ctrl |-> {"cpu"}],
     [distro |-> FALSE, version |-> "v1", slice |-> TRUE, ctrl |-> {}]}

----------------------------------------------------------------------------
(* The log collector.                                                      *)

(* Three files, the last one not in the list of what must be collected; of *)
(* each, what makes a difference: it is gone, small, large, grows, cannot  *)
(* be truncated or cannot be added.                                        *)
Disks ==
    LET file(first, second, binary, truncate, add) ==
            [first |-> first, second |-> second, binary |-> binary, mtime |-> 0,
             truncate |-> truncate, add |-> add]
        kinds == {file(s, s, FALSE, TRUE, a) : s \in {0, 1, 2, 3}, a \in {"ok", "missing", "error"}}
                   \cup {file(1, 3, FALSE, TRUE, "ok"), file(Logs!Gone, 1, FALSE, TRUE, "ok"),
                         file(1, Logs!Gone, FALSE, TRUE, "ok"), file(3, 3, TRUE, TRUE, "ok"),
                         file(3, 3, FALSE, FALSE, "ok")}
    IN [1..3 -> kinds]

Must == Logs!MustCollect(<<{2}, {1, 2}>>)

Manifest == <<[command |-> "ll", files |-> {3}], [command |-> "copy", files |-> {1, 2}],
              [command |-> "copy", files |-> {3}]>>

(* A collection, a change of the second file, and a second collection: the *)
(* file was written to, or was rotated and is small again.                 *)
Twice(files, change, fault) ==
    LET named  == Logs!ProcessManifest(Manifest)
        first  == Logs!CollectLogs(Must, named, files, [f \in {} |-> 0], 1, fault)
        later  == CASE change = "none" -> files
                    [] change = "written" -> [files EXCEPT ![2].mtime = 1]
                    [] change = "rotated" -> [files EXCEPT ![2].mtime = 1, ![2].first = 1, ![2].second = 1]
        second == Logs!CollectLogs(Must, named, later, first.dir, 2, "none")
    IN <<[disk |-> files, result |-> first], [disk |-> later, result |-> second]>>

ASSUME LogsAreCollected ==
    \A files \in Disks, change \in {"none", "written", "rotated"}, fault \in {"none", "start", "open"} :
        \A c \in Range(Twice(files, change, fault)) :
            /\ Logs!ArchiveIsBounded(c.disk, c.result)
            /\ Logs!ImportantFilesFirst(Must, 1..3, c.disk, c.result)
            /\ Logs!CopiesAreFresh(c.disk, c.result)
            /\ Logs!CopiesDoNotPileUp(c.result)

(* Four rounds of the thread.                                              *)
Collections ==
    LET fine == [anonAndSwap |-> FALSE, cache |-> FALSE, throttled |-> FALSE]
        run  == [monitored |-> TRUE, api |-> TRUE, slices |-> <<FALSE, TRUE>>, controllers |-> TRUE,
                 polls |-> <<fine, fine>>, collected |-> TRUE]
    IN {run, [run EXCEPT !.api = FALSE], [run EXCEPT !.slices = <<FALSE, FALSE>>],
        [run EXCEPT !.controllers = FALSE], [run EXCEPT !.polls[2].cache = TRUE],
        [run EXCEPT !.collected = FALSE]}

ASSUME CollectorGivesUp ==
    \A rounds \in [1..4 -> [run : Collections, uploaded : BOOLEAN]] :
        Logs!GivesUpWhenUnlimited(rounds,
            FoldLeft(Logs!DaemonRound, Logs!NewHandler,
                [i \in 1..4 |-> [code |-> Logs!ExitCode(rounds[i].run), uploaded |-> rounds[i].uploaded]]))

(* The thread is created only where its process can be limited.            *)
ASSUME CollectorNeedsCgroups ==
    \A vm \in [configured : BOOLEAN, cgroups : BOOLEAN, v2 : BOOLEAN, limitV2 : BOOLEAN, python : BOOLEAN] :
        Logs!IsLogCollectionAllowed(vm) => vm.cgroups \/ vm.v2
============================================================================

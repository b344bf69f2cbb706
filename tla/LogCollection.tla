--------------------------- MODULE LogCollection ---------------------------
(***************************************************************************)
(* The log collector: the process that puts the logs of the VM into an     *)
(* archive (ga/logcollector.py, Agent.collect_logs of agent.py), the       *)
(* thread of that process that watches its memory, and the thread of the   *)
(* agent that starts it and uploads what it wrote (ga/collect_logs.py).    *)
(*                                                                         *)
(* A file on the disk is a number, in the order of the names.  Files come, *)
(* go and grow while the collector looks at them: disk[f] says what each   *)
(* of its calls sees (see Files).                                          *)
(***************************************************************************)
EXTENDS Integers, Sequences, SequencesExt, FiniteSets, FiniteSetsExt, Functions

CONSTANTS
    FileLimit,      \* _FILE_SIZE_LIMIT
    ArchiveLimit,   \* _UNCOMPRESSED_ARCHIVE_SIZE_LIMIT
    MaxErrors,      \* max_errors of collect_logs_and_get_archive
    MaxRetries,     \* LOG_COLLECTOR_CGROUP_PATH_VALIDATION_MAX_RETRIES
    MaxFailures     \* LOG_COLLECTOR_CGROUP_PATH_VALIDATION_MAX_FAILURES

Gone == -1          \* the size of a file that is not there any more
LowPriority == 999999999

(* first, second: the sizes that the two calls of getsize return; binary:  *)
(* a compressed file; mtime: its last change; truncate: can it be          *)
(* truncated; add: what adding it to the archive ends with.                *)
Files(sizes, times) ==
    [first : sizes \cup {Gone}, second : sizes \cup {Gone}, binary : BOOLEAN, mtime : times,
     truncate : BOOLEAN, add : {"ok", "missing", "error"}]

----------------------------------------------------------------------------
(* Which files, and in which order.                                        *)

(* _expand_must_collect_files: what each pattern matches, sorted.          *)
MustCollect(globs) ==
    FlattenSeq([i \in DOMAIN globs |-> SetToSortSeq(globs[i], <)])

(* _process_manifest_file: an entry is [command, files].                   *)
ProcessManifest(entries) ==
    UNION {entries[i].files : i \in {j \in DOMAIN entries : entries[j].command = "copy"}}

(* _get_file_priority.                                                     *)
Priority(must, f) ==
    IF f \in Range(must) THEN SelectInSeq(must, LAMBDA e : e = f) - 1 ELSE LowPriority

Before(must, f, g) ==
    \/ Priority(must, f) < Priority(must, g)
    \/ Priority(must, f) = Priority(must, g) /\ f < g

(* _get_priority_files_list: the heap, in the order in which it is emptied. *)
PriorityQueue(must, files) == SetToSortSeq(files, LAMBDA f, g : Before(must, f, g))

----------------------------------------------------------------------------
(* The list of files for the archive.  An item of the list is              *)
(* [file, tail], where tail says that it is the truncated copy.  The       *)
(* directory of truncated files maps a file to [mtime, content]: when the  *)
(* copy was made and of which version of the file.                         *)

(* _truncate_large_file; the result is [ok, dir].                          *)
TruncateLargeFile(f, d, dir, now) ==
    IF d.binary \/ ~d.truncate THEN [ok |-> FALSE, dir |-> dir]
    ELSE IF f \in DOMAIN dir /\ d.mtime < dir[f].mtime THEN [ok |-> TRUE, dir |-> dir]
    ELSE [ok |-> TRUE,
          dir |-> [g \in DOMAIN dir \cup {f} |->
                      IF g = f THEN [mtime |-> now, content |-> d.mtime] ELSE dir[g]]]

(* One turn of the loop of _get_final_list_for_archive: a file that is     *)
(* gone is skipped, the first one that does not fit ends the list.         *)
AddToList(disk, now, s, f) ==
    LET d     == disk[f]
        size  == Min({d.first, FileLimit})
        large == TruncateLargeFile(f, d, s.dir, now)
        added(tail) == [s EXCEPT !.list = Append(@, [file |-> f, tail |-> tail]), !.total = @ + size]
    IN IF s.full \/ d.first = Gone THEN s
       ELSE IF s.total + size > ArchiveLimit THEN [s EXCEPT !.full = TRUE]
       ELSE IF d.second = Gone THEN s
       ELSE IF d.second <= FileLimit THEN added(FALSE)
       ELSE IF large.ok THEN [added(TRUE) EXCEPT !.dir = large.dir]
       ELSE s

FinalList(disk, dir, now, queue) ==
    FoldLeft(LAMBDA s, f : AddToList(disk, now, s, f),
             [list |-> <<>>, total |-> 0, full |-> FALSE, dir |-> dir], queue)

----------------------------------------------------------------------------
(* The archive.                                                            *)

(* The loop of collect_logs_and_get_archive: a file that is not there is   *)
(* skipped; with the last of the errors it may make it gives up.           *)
AddToArchive(disk, s, item) ==
    LET outcome == disk[item.file].add
    IN CASE s.errors >= MaxErrors -> s
         [] s.errors < MaxErrors /\ outcome = "ok" -> [s EXCEPT !.items = Append(@, item)]
         [] s.errors < MaxErrors /\ outcome = "missing" -> s
         [] s.errors < MaxErrors /\ outcome = "error" -> [s EXCEPT !.errors = @ + 1]

Archive(disk, list) ==
    FoldLeft(LAMBDA s, item : AddToArchive(disk, s, item), [items |-> <<>>, errors |-> 0], list)

(* _remove_uncollected_truncated_files.                                    *)
RemoveUncollected(dir, list) ==
    Restrict(dir, {f \in DOMAIN dir : [file |-> f, tail |-> TRUE] \in Range(list)})

(* collect_logs_and_get_archive: fault is the other step that fails, if    *)
(* one does: before there is a list ("start"), opening the archive         *)
(* ("open"), or adding the results to it ("results").  The truncated files *)
(* are cleaned up whatever happens.                                        *)
CollectLogs(must, files, disk, dir, now, fault) ==
    LET final   == FinalList(disk, dir, now, PriorityQueue(must, files))
        archive == Archive(disk, final.list)
    IN IF fault = "start"
       THEN [ok |-> FALSE, items |-> <<>>, list |-> <<>>, total |-> 0,
             dir |-> RemoveUncollected(dir, <<>>)]
       ELSE [ok    |-> fault = "none" /\ archive.errors < MaxErrors,
             items |-> IF fault = "open" THEN <<>> ELSE archive.items,
             list  |-> final.list,
             total |-> final.total,
             dir   |-> RemoveUncollected(final.dir, final.list)]

----------------------------------------------------------------------------
(* The process.                                                            *)

(* LogCollectorMonitorHandler._verify_memory_limit: the usage that one     *)
(* poll reports against the limits; over says which of them it is above.   *)
MemoryLimitExceeded(over) == over.anonAndSwap \/ over.cache \/ over.throttled

(* Agent.collect_logs: the code that the process exits with.  run.monitored *)
(* says that the agent started it; run.api, whether a cgroup API could be  *)
(* created; run.slices, whether each check found the process in its slice; *)
(* run.controllers, whether all of them are there; run.polls, what the     *)
(* monitor saw while the logs were collected.                              *)
ExitCode(run) ==
    LET inSlice == \E i \in DOMAIN run.slices : i <= MaxRetries /\ run.slices[i]
    IN IF run.monitored /\ ~run.api THEN 2             \* INVALID_CGROUPS_ERRCODE
       ELSE IF run.monitored /\ ~inSlice THEN 4        \* UNEXPECTED_CGROUP_PATH_ERRCODE
       ELSE IF run.monitored /\ ~run.controllers THEN 2
       ELSE IF run.monitored /\ \E i \in DOMAIN run.polls : MemoryLimitExceeded(run.polls[i])
            THEN 3                                     \* GRACEFUL_KILL_ERRCODE
       ELSE IF run.collected THEN 0 ELSE 1

----------------------------------------------------------------------------
(* The thread of the agent.                                                *)

(* is_log_collection_allowed, before the thread is created (update.py).    *)
IsLogCollectionAllowed(vm) ==
    /\ vm.configured
    /\ vm.cgroups \/ (vm.v2 /\ vm.limitV2)
    /\ vm.python

NewHandler == [errors |-> 0, stopped |-> FALSE, rounds |-> 0, sent |-> 0]

(* _collect_logs: what the exit code of the process (or 1, for any other   *)
(* error) does to the thread.                                              *)
AfterExit(h, code) ==
    LET errors == h.errors + 1
    IN CASE code = 0 -> [h EXCEPT !.errors = 0]
         [] code = 4 -> [h EXCEPT !.errors = errors, !.stopped = @ \/ errors >= MaxFailures]
         [] code \in {2, 3} -> [h EXCEPT !.stopped = TRUE]
         [] code = 1 -> h

(* _send_logs: when the upload fails that is reported, and nothing else.   *)
SendLogs(h, uploaded) == IF uploaded THEN [h EXCEPT !.sent = @ + 1] ELSE h

(* A turn of the loop of daemon: collect, and send what was collected.     *)
DaemonRound(h, round) ==
    LET after == [AfterExit(h, round.code) EXCEPT !.rounds = @ + 1]
    IN IF h.stopped THEN h
       ELSE IF round.code = 0 THEN SendLogs(after, round.uploaded) ELSE after

----------------------------------------------------------------------------
(* What this code promises.                                                *)

Sizes(disk, items) ==
    FoldLeft(LAMBDA n, item : n + (IF item.tail THEN FileLimit ELSE disk[item.file].first), 0, items)

(* The files of an archive are no larger than its limit, together, if none *)
(* of them grew past the limit of a file while it was looked at.           *)
ArchiveIsBounded(disk, result) ==
    (\A f \in DOMAIN disk : disk[f].second > FileLimit => disk[f].first >= FileLimit)
        => Sizes(disk, result.items) <= ArchiveLimit

(* Could f be collected at all?                                            *)
Collectable(d) ==
    /\ d.first # Gone
    /\ d.second # Gone
    /\ d.second > FileLimit => d.truncate /\ ~d.binary

(* Nothing is collected in place of a more important file: what the list   *)
(* has comes before all that could be collected and was not.               *)
ImportantFilesFirst(must, files, disk, result) ==
    \A item \in Range(result.list), f \in files :
        (Collectable(disk[f]) /\ f \notin {i.file : i \in Range(result.list)})
            => Before(must, item.file, f)

(* A truncated copy in the archive is of the version of the file that is   *)
(* there now, also when the copy is one of an earlier collection.          *)
CopiesAreFresh(disk, result) ==
    \A item \in Range(result.items) :
        item.tail => result.dir[item.file].content = disk[item.file].mtime

(* What is left in the directory of truncated files is what the list has:  *)
(* copies do not pile up, not even when collections fail.                  *)
CopiesDoNotPileUp(result) ==
    DOMAIN result.dir = {item.file : item \in {i \in Range(result.list) : i.tail}}

(* The thread ends for good when the memory of the collector was exceeded, *)
(* its cgroups were not usable, or it was found outside its slice          *)
(* MaxFailures times since the last success, and not before; what it sent  *)
(* was collected by processes that were limited and were found so.         *)
GivesUpWhenUnlimited(rounds, end) ==
    LET code(i) == ExitCode(rounds[i].run)
        outside(i) == {j \in 1..i : code(j) = 4 /\ \A k \in j..i : code(k) # 0}
        ends == {i \in DOMAIN rounds : code(i) \in {2, 3} \/ Cardinality(outside(i)) >= MaxFailures}
        seen == IF ends = {} THEN Len(rounds) ELSE Min(ends)
        sent == {i \in 1..seen : /\ rounds[i].uploaded
                                 /\ rounds[i].run.collected
                                 /\ rounds[i].run.api
                                 /\ rounds[i].run.controllers
                                 /\ \E j \in 1..MaxRetries : rounds[i].run.slices[j]
                                 /\ \A j \in DOMAIN rounds[i].run.polls :
                                        ~MemoryLimitExceeded(rounds[i].run.polls[j])}
    IN /\ end.stopped <=> ends # {}
       /\ end.rounds = seen
       /\ end.sent = Cardinality(sent)
============================================================================

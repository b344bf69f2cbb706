-------------------------- MODULE GoalStateHistory --------------------------
(***************************************************************************)
(* The history of goal states in /var/lib/waagent/history                  *)
(* (common/utils/archive.py), as it is used while a goal state is fetched  *)
(* (common/protocol/goal_state.py) and after it was processed              *)
(* (ga/update.py).  Each goal state has a directory of its own, the        *)
(* directories of older ones are replaced by zip files, and old items are  *)
(* deleted.                                                                *)
(*                                                                         *)
(* The state: items, the contents of the directory: each item has a name   *)
(* (the time and the tag that it was made with), a kind, the time of its   *)
(* last change and the documents that it holds; root, the directory of the *)
(* current goal state; clock.                                              *)
(***************************************************************************)
EXTENDS Integers, Sequences, SequencesExt, FiniteSets, FiniteSetsExt, Functions

CONSTANT MaxArchivedStates \* _MAX_ARCHIVED_STATES

Name(time, tag) == [time |-> time, tag |-> tag]

AtStart == [items |-> {}, root |-> Name(0, 0), clock |-> 1]

NewestFirst(items) == SetToSortSeq(items, LAMBDA i, j : i.ctime > j.ctime)

ItemsOf(h, name, kind) == {i \in h.items : i.name = name /\ i.kind = kind}

----------------------------------------------------------------------------
(* GoalStateHistory.                                                       *)

(* _purge: all but the newest items are deleted; when one cannot be        *)
(* deleted (stuck) the rest is left for the next time.                     *)
Purge(h, stuck) ==
    LET old == LET s == NewestFirst(h.items) IN SubSeq(s, MaxArchivedStates + 1, Len(s))
        deleted == {k \in DOMAIN old : \A j \in 1..k : old[j].name # stuck}
    IN [h EXCEPT !.items = @ \ {old[k] : k \in deleted}]

(* __init__: the name, then _purge.                                        *)
NewHistory(h, tag, stuck) ==
    [Purge(h, stuck) EXCEPT !.root = Name(h.clock, tag), !.clock = @ + 1]

(* tag_exists: the pattern has no .zip at its end.                         *)
TagExists(h, tag) == \E i \in h.items : i.kind = "dir" /\ i.name.tag = tag

(* save: makes the directory if it is not there.  A failure is logged.     *)
Save(h, name, doc) ==
    LET there == ItemsOf(h, name, "dir")
        docs  == UNION {i.docs : i \in there}
        ctime == IF doc \in docs THEN (CHOOSE i \in there : TRUE).ctime ELSE h.clock
    IN [h EXCEPT !.items = (@ \ there) \cup
                              {[name |-> name, kind |-> "dir", ctime |-> ctime, docs |-> docs \cup {doc}]},
                 !.clock = @ + 1]

----------------------------------------------------------------------------
(* StateArchiver.                                                          *)

(* StateDirectory.archive: write a temporary file, rename it, remove the   *)
(* directory.  When the zip file cannot be written the temporary file is   *)
(* left behind, and the archiver ends.                                     *)
ArchiveDirectory(h, dir, fails) ==
    LET zip(kind) == [dir EXCEPT !.kind = kind, !.ctime = h.clock]
        without(kind) == h.items \ ItemsOf(h, dir.name, kind)
    IN [h EXCEPT !.clock = @ + 1,
                 !.items = IF fails THEN without("tmp") \cup {zip("tmp")}
                           ELSE (without("zip") \ ({dir} \cup ItemsOf(h, dir.name, "tmp"))) \cup {zip("zip")}]

(* archive and _get_archive_states, and _archive_goal_state_history, which *)
(* catches the error: all items that are directories or zip files, except  *)
(* for the newest, and nothing is done about a zip file.                   *)
Archive(h, broken) ==
    LET states == NewestFirst({i \in h.items : i.kind # "tmp"})
        step(s, i) == IF s.failed \/ i.kind = "zip" THEN s
                      ELSE [h |-> ArchiveDirectory(s.h, i, i.name = broken), failed |-> i.name = broken]
    IN IF states = <<>> THEN h
       ELSE FoldLeft(step, [h |-> h, failed |-> FALSE], Tail(states)).h

(* purge_legacy_goal_state_history, when the agent starts: files is what   *)
(* is in the agent's directory, [legacy, placeholder, stuck].              *)
PurgeLegacy(files) == {f \in files : f.placeholder \/ ~f.legacy \/ f.stuck}

----------------------------------------------------------------------------
(* GoalState.                                                              *)

(* _update: a goal state that has changed starts a new directory and is    *)
(* saved to it, one document after the other.                              *)
NewGoalState(h, tag, docs, stuck) ==
    LET started == NewHistory(h, tag, stuck)
    IN FoldLeft(LAMBDA s, doc : Save(s, started.root, <<tag, doc>>), started, docs)

(* _fetch_manifest: it goes to the directory of the current goal state.    *)
SaveManifest(h, doc) == IF h.root.time = 0 THEN h ELSE Save(h, h.root, <<h.root.tag, doc>>)

(* _fetch_vm_settings: vmSettings that cannot be parsed are saved under    *)
(* their etag, once.                                                       *)
ParseError(h, etag, stuck) ==
    LET new  == NewHistory(h, etag, stuck)
        kept == [Save(new, new.root, <<etag, "vmSettings">>) EXCEPT !.root = h.root]
    IN IF TagExists(h, etag) THEN h ELSE kept

----------------------------------------------------------------------------
(* What this code promises.                                                *)

Documents(h) == UNION {i.docs : i \in {j \in h.items : j.kind # "tmp"}}

(* The goal state that has just been processed stays a directory, with all *)
(* its documents, when the history is archived.                            *)
CurrentIsKept(before, after) ==
    ItemsOf(before, before.root, "dir") \subseteq ItemsOf(after, before.root, "dir")

(* Archiving loses no document, also when it fails.                        *)
ArchivingLosesNothing(before, after) == Documents(before) = Documents(after)

(* All but the current goal state are in zip files when neither saving it  *)
(* nor archiving has failed.                                               *)
OldOnesAreArchived(before, after) ==
    ItemsOf(before, before.root, "dir") # {}
        => \A i \in after.items : i.kind = "dir" => i.name = after.root

(* A purge deletes the oldest items only, and keeps the history bounded    *)
(* unless something could not be deleted.                                  *)
PurgeKeepsNewest(before, after, stuck) ==
    LET gone == before.items \ after.items
    IN /\ \A i \in gone, j \in before.items \cap after.items :
             j.ctime < i.ctime => j.name = stuck \/ \E k \in before.items : k.name = stuck /\ k.ctime > j.ctime
       /\ Cardinality(before.items) <= MaxArchivedStates => gone = {}
       /\ (\A k \in before.items : k.name # stuck)
             => Cardinality(before.items \cap after.items) <= MaxArchivedStates
============================================================================

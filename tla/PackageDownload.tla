-------------------------- MODULE PackageDownload --------------------------
(* What download_zip_package (common/protocol/wire.py) promises to its     *)
(* callers, the extension handler and the agent updater: a download that   *)
(* succeeds ends with the whole package in its directory, and one that     *)
(* fails with no directory at all; the zip file it worked with is gone.    *)
(* What could not be deleted on the way may be left, the zip file or a     *)
(* directory with a part of the package, but never under a result of "ok". *)
(* Only an error about the signature may come with an expanded package,    *)
(* when such errors are ignored.  HostChannel is shown to implement this   *)
(* specification.                                                          *)
VARIABLES running,   \* a download is in progress
          package,   \* the directory of the package: "absent", "partial" or "complete"
          scratch,   \* the zip file is on disk
          stuck,      \* what could not be deleted: "zip", "dir" or both
          result     \* how the last download ended

avars == <<running, package, scratch, stuck, result>>

Init == running = FALSE /\ package = "absent" /\ scratch = FALSE /\ stuck = {} /\ result = "none"

Begin == /\ ~running
         /\ running' = TRUE /\ package' = "absent" /\ scratch' = FALSE /\ stuck' = {} /\ result' = "none"

Finish == /\ running
          /\ running' = FALSE
          /\ stuck' \in SUBSET {"zip", "dir"}
          /\ scratch' \in {FALSE, "zip" \in stuck'}
          /\ \/ result' = "ok" /\ package' = "complete"
             \/ result' \in {"failed", "signature"} /\ package' = "absent"
             \/ result' \in {"failed", "signature"} /\ package' = "partial" /\ "dir" \in stuck'
             \/ result' = "signature" /\ package' = "complete"

Next == Begin \/ Finish

Spec == Init /\ [][Next]_avars
============================================================================

----------------------------- MODULE StatusDocs -----------------------------
(***************************************************************************)
(* The documents that carry the status of an extension: the status file    *)
(* and the heartbeat that the extension writes, how the agent reads them   *)
(* and cuts them to size (azurelinuxagent/ga/exthandlers.py), and the      *)
(* status blob that it makes of them for CRP (common/protocol/wire.py).    *)
(*                                                                         *)
(* A file is [exists, readable, json, data, size].  The data is "null",    *)
(* "notList", "empty" or "list"; of a list only the first item counts.  A  *)
(* text is its length, and what is not in a document is None.              *)
(***************************************************************************)
EXTENDS Integers, Sequences, FiniteSetsExt

CONSTANT None

MaxSize    == 128 * 1024 \* _MAX_STATUS_FILE_SIZE_IN_BYTES
MaxMessage == 1024       \* _MAX_STATUS_MESSAGE_LENGTH
MaxField   == 10 * 1024  \* _MAX_SUBSTATUS_FIELD_LENGTH
Suffix     == 16         \* the length of _TRUNCATED_SUFFIX

Strings == {"transitioning", "warning", "error", "success"}

NoStatus == [status |-> None, code |-> 0, message |-> None, subs |-> <<>>]

----------------------------------------------------------------------------
(* Reading a status file.                                                  *)

(* _read_and_parse_json_status_file.                                       *)
Attempt(file) ==
    CASE ~file.exists -> "FileNotExists"
      [] file.exists /\ ~file.readable -> "CouldNotReadStatusFile"
      [] file.exists /\ file.readable /\ ~file.json -> "InvalidJsonFile"
      [] file.exists /\ file.readable /\ file.json -> "read"

(* _read_status_file: the file as it is at each of the attempts; the first *)
(* one that can be read counts.                                            *)
ReadStatusFile(attempts) ==
    LET good == {i \in DOMAIN attempts : Attempt(attempts[i]) = "read"}
    IN attempts[IF good = {} THEN Len(attempts) ELSE Min(good)]

(* parse_formatted_message: [lang, message].                               *)
MessageIsMalformed(m) == m # None /\ (m.lang = None \/ m.message = None)

Message(m) == IF m = None THEN None ELSE m.message

SubstatusIsMalformed(s) == s.status \notin Strings \/ MessageIsMalformed(s.formatted)

(* parse_ext_status; the second component tells if it raises a             *)
(* StatusFileMalformed, and then the substatuses before the bad one stay.  *)
ParseExtStatus(file) ==
    LET d == file.item
        subs == IF d.subs = None THEN <<>> ELSE SelectSeq(d.subs, LAMBDA s : s # None)
        bad == {i \in DOMAIN subs : SubstatusIsMalformed(subs[i])}
        upTo == IF bad = {} THEN Len(subs) ELSE (CHOOSE i \in bad : \A j \in bad : i <= j) - 1
        status == [status |-> IF d.status \in Strings THEN d.status ELSE "error",
                   code |-> d.code, message |-> Message(d.formatted), subs |-> <<>>]
    IN CASE file.data \in {"null", "empty"} -> <<NoStatus, FALSE>>
         [] file.data = "notList" \/ (file.data = "list" /\ d.status = None) -> <<NoStatus, TRUE>>
         [] file.data = "list" /\ d.status # None /\ MessageIsMalformed(d.formatted) ->
               <<[status EXCEPT !.message = None], TRUE>>
         [] file.data = "list" /\ d.status # None /\ ~MessageIsMalformed(d.formatted) ->
               <<[status EXCEPT !.subs = [i \in 1..upTo |->
                     [status |-> subs[i].status, name |-> subs[i].name,
                      message |-> Message(subs[i].formatted)]]], bad # {}>>

(* _truncate_message; on None it raises a TypeError in the caller.         *)
Truncated(text, size) == IF text < size THEN text ELSE size + Suffix

(* _process_substatus_list, starting from the size of the message.         *)
ProcessSubstatusList(subs, size) ==
    LET cut == [i \in DOMAIN subs |->
                   [subs[i] EXCEPT !.name = Truncated(@, MaxField),
                                   !.message = Truncated(@, MaxField)]]
        total[i \in 0..Len(cut)] ==
            IF i = 0 THEN size ELSE total[i - 1] + cut[i].name + cut[i].message
    IN SubSeq(cut, 1, Cardinality({i \in DOMAIN cut : total[i] <= MaxSize}))

(* The texts that are None where the code needs their length.              *)
LacksText(status) ==
    \/ status.message = None
    \/ \E i \in DOMAIN status.subs : None \in {status.subs[i].name, status.subs[i].message}

(* collect_ext_status: the status, and whether an exception that nobody    *)
(* catches before report_ext_handlers_status is raised.                    *)
Collect(status) == [status |-> status, raises |-> FALSE]

ErrorStatus == [NoStatus EXCEPT !.status = "error", !.message = 1]

CollectExtStatus(attempts) ==
    LET file == ReadStatusFile(attempts)
        parsed == ParseExtStatus(file)[1]
        malformed == ParseExtStatus(file)[2]
        message == Truncated(parsed.message, MaxMessage)
    IN CASE Attempt(file) = "FileNotExists" ->
               Collect([NoStatus EXCEPT !.status = "transitioning", !.message = 1])
         [] Attempt(file) \in {"CouldNotReadStatusFile", "InvalidJsonFile"} -> Collect(ErrorStatus)
         [] Attempt(file) = "read" /\ malformed -> Collect([ErrorStatus EXCEPT !.subs = parsed.subs])
         [] Attempt(file) = "read" /\ ~malformed /\ file.size <= MaxSize -> Collect(parsed)
         [] Attempt(file) = "read" /\ ~malformed /\ file.size > MaxSize ->
               IF LacksText(parsed) THEN [status |-> parsed, raises |-> TRUE]
               ELSE Collect([parsed EXCEPT !.message = message,
                                           !.subs = ProcessSubstatusList(@, message)])

----------------------------------------------------------------------------
(* Reporting.                                                              *)

(* collect_heartbeat.  The heartbeat: [file, recent, data, status, text],  *)
(* where the data may be "beat", "malformed" or an empty list, on which an *)
(* IndexError is raised that is not caught.  An error is recorded in the   *)
(* status of the handler.                                                  *)
CollectHeartbeat(reports, h) ==
    CASE ~reports -> [result |-> "none"]
      [] reports /\ ~h.file -> [result |-> "error"]
      [] reports /\ h.file /\ ~h.recent ->
             [result |-> "beat", status |-> "Unresponsive", text |-> None]
      [] reports /\ h.file /\ h.recent ->
             CASE h.data = "malformed" -> [result |-> "error"]
               [] h.data = "empty" -> [result |-> "raises"]
               [] h.data = "beat" -> [result |-> "beat", status |-> h.status, text |-> h.text]

(* report_ext_handler_status: what is reported of a handler, given its     *)
(* status file, whether it is installed, supports multi-config or is       *)
(* disallowed, its heartbeat and what was collected of its extensions      *)
(* (None for one without settings).                                        *)
HandlerStatus(status, installed, disallowed, beat) ==
    IF ~installed \/ beat.result # "beat" THEN status
    ELSE [status EXCEPT !.status = IF disallowed THEN @ ELSE beat.status,
                        !.message = IF beat.text = None THEN @
                                    ELSE IF disallowed THEN (IF @ = None THEN 0 ELSE @) + beat.text
                                    ELSE beat.text]

ReportExtHandlerStatus(status, installed, multi, disallowed, beat, collected) ==
    LET handler == HandlerStatus(status, installed, disallowed, beat)
        each == [i \in DOMAIN collected |-> [handler |-> handler, ext |-> collected[i]]]
    IN IF (installed \/ multi \/ disallowed) /\ each # <<>> THEN each
       ELSE <<[handler |-> handler, ext |-> None]>>

(* The entry of a handler in the blob: ext_substatus_to_v1,                *)
(* ext_status_to_v1, ext_handler_status_to_v1.                             *)
SubstatusToV1(subs) == IF subs = <<>> THEN None ELSE subs

ExtStatusToV1(ext) ==
    [status |-> ext.status, code |-> ext.code, message |-> ext.message,
     substatus |-> SubstatusToV1(ext.subs)]

ExtHandlerStatusToV1(r) ==
    [status |-> r.handler.status, message |-> r.handler.message,
     runtimeSettingsStatus |->
        IF r.ext = None THEN None ELSE [settingsStatus |-> ExtStatusToV1(r.ext)]]

(* ga_status_to_v1: the agent itself, with the update it was asked for.    *)
GaStatusToV1(update) == [status |-> "Ready", updateStatus |-> update]

(* vm_artifacts_aggregate_status_to_v1.                                    *)
AggregateToV1(aggregate) ==
    IF aggregate = None THEN None ELSE [goalStateAggregateStatus |-> aggregate]

(* get_agent_supported_features_list_for_crp, with automatic updates on.   *)
SupportedFeatures == {"MultipleExtensionsPerHandler", "VersioningGovernance"}

(* vm_status_to_v1.                                                        *)
VmStatusToV1(vm) ==
    [guestAgentStatus |-> GaStatusToV1(vm.update),
     handlerAggregateStatus |-> [i \in DOMAIN vm.handlers |-> ExtHandlerStatusToV1(vm.handlers[i])],
     vmArtifactsAggregateStatus |-> AggregateToV1(vm.aggregate),
     supportedFeatures |-> SupportedFeatures \cup (IF vm.fastTrack THEN {"FastTrack"} ELSE {})]

(* ExtensionsSummary: the status of the extension if there is one.         *)
Summary(vm) ==
    [i \in DOMAIN vm.handlers |->
        IF vm.handlers[i].ext # None THEN vm.handlers[i].ext.status
                                     ELSE vm.handlers[i].handler.status]

(* What CRP sees in the blob.                                              *)
SeenByCrp(entry) ==
    IF entry.runtimeSettingsStatus # None THEN entry.runtimeSettingsStatus.settingsStatus.status
    ELSE entry.status

----------------------------------------------------------------------------
(* What the readers promise.                                               *)

SizeOf(text) == IF text = None THEN 0 ELSE text

Sizes(status) ==
    SizeOf(status.message)
        + MapThenSumSet(LAMBDA i : SizeOf(status.subs[i].name) + SizeOf(status.subs[i].message),
                        DOMAIN status.subs)

(* The texts of a file are part of it.                                     *)
WellFormed(file) == file.data = "list" => Sizes(ParseExtStatus(file)[1]) <= file.size

(* What is reported of a file is one of the four statuses, or nothing for  *)
(* a file without an item, and fits in the space for it.                   *)
CollectsWithinBounds(file) ==
    LET read == CollectExtStatus(<<file>>)
    IN ~read.raises => /\ read.status.status \in Strings \cup {None}
                       /\ read.status.status = None <=> (Attempt(file) = "read"
                                                           /\ file.data \in {"null", "empty"})
                       /\ Sizes(read.status) <= MaxSize + 1

(* A file that an extension is in the middle of writing does no harm: what *)
(* counts is the first complete version within the attempts.               *)
RetryReadsThrough(partial, file) ==
    Attempt(file) = "read" =>
        CollectExtStatus(<<partial, partial, file>>) =
            (IF Attempt(partial) = "read" THEN CollectExtStatus(<<partial>>)
                                          ELSE CollectExtStatus(<<file>>))

(* The summary from which the agent tells that the goal state converged    *)
(* says what CRP sees in the blob.                                         *)
SummaryMatchesBlob(vm) ==
    LET entries == VmStatusToV1(vm).handlerAggregateStatus
    IN Summary(vm) = [i \in DOMAIN entries |-> SeenByCrp(entries[i])]
============================================================================

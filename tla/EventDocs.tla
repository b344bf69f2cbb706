----------------------------- MODULE EventDocs ------------------------------
(***************************************************************************)
(* The events that go through the telemetry pipeline: how the agent makes  *)
(* them and completes them (common/event.py), what the collector makes of  *)
(* the files of extensions and of older agents                             *)
(* (ga/collect_telemetry_events.py), and how they are encoded              *)
(* (common/protocol/wire.py).                                              *)
(*                                                                         *)
(* A text is its length, once stripped and redacted.  A parameter of an    *)
(* event is [name, from]: of its value only where it comes from counts.    *)
(***************************************************************************)
EXTENDS Integers, Sequences, FiniteSets, SequencesExt

CONSTANT None

MaxEventSize == 6 * 1024  \* _EXTENSION_EVENT_MAX_SIZE
MaxMessage   == 3 * 1024  \* _EXTENSION_EVENT_MAX_MSG_LEN
Retries      == 3         \* NUM_OF_EVENT_FILE_RETRIES

----------------------------------------------------------------------------
(* Reading a file that somebody may be writing or deleting.  The outcomes  *)
(* of the successive attempts are "read", "notFound", "value" (it does not *)
(* parse) and "other".                                                     *)

(* parse_event: JSON or, failing that, XML.                                *)
ParseEvent(json, xml) ==
    CASE json = "good" -> "read"
      [] json = "otherError" -> "other"
      [] json = "valueError" /\ xml = "good" -> "read"
      [] json = "valueError" /\ xml # "good" -> "value"

(* _read_event_file: an attempt that fails for lack of the file or because *)
(* of its contents is repeated.                                            *)
ReadEventFile(attempts) ==
    LET i == SelectInSubSeq(attempts, 1, Retries, LAMBDA a : a \notin {"notFound", "value"})
    IN IF i = 0 THEN attempts[Retries] ELSE attempts[i]

(* _read_and_parse_event_file does the same with a file of the agent.      *)
ReadAndParseEventFile(attempts) ==
    ReadEventFile([i \in DOMAIN attempts |->
        IF attempts[i].found THEN ParseEvent(attempts[i].json, attempts[i].xml) ELSE "notFound"])

----------------------------------------------------------------------------
(* Events of extensions.  A document is a sequence of [key, kind, len]: a  *)
(* key may appear twice, in different case, and the last one counts.  The  *)
(* kinds of values are "text", "int", "null" and "other".                  *)

(* _EXTENSION_EVENT_REQUIRED_FIELDS, in the order of dir().                *)
RequiredFields == <<"eventlevel", "eventpid", "eventtid", "message", "operationid",
                    "taskname", "timestamp", "version">>

(* _clean_value.                                                           *)
CleanValue(field) ==
    CASE field.kind \in {"text", "null"} -> field
      [] field.kind = "int" /\ field.key \in {"eventpid", "eventtid"} -> [field EXCEPT !.kind = "text"]
      [] OTHER -> [field EXCEPT !.kind = "raises"]

(* The value of a key, None if it is not there.                            *)
ValueOf(doc, key) ==
    LET at == {i \in DOMAIN doc : doc[i].key = key}
    IN IF at = {} THEN None ELSE CleanValue(doc[CHOOSE i \in at : \A j \in at : j <= i])

LengthOf(value) == IF value = None \/ value.kind # "text" THEN 0 ELSE value.len

(* The size after the first n fields, of which one is being checked next.  *)
EventSize(event, n) ==
    FoldLeft(LAMBDA size, k : size + LengthOf(event[k]), 0, SubSeq(RequiredFields, 1, n))

(* What is wrong with field i, whose size is added after the check.        *)
FieldFault(event, i) ==
    LET value == event[RequiredFields[i]]
    IN CASE value = None -> "MissingKeyError"
         [] value # None /\ EventSize(event, i - 1) > MaxEventSize -> "OversizeEventError"
         [] value # None /\ EventSize(event, i - 1) <= MaxEventSize /\ value.kind = "null" -> "raises"
         [] value # None /\ EventSize(event, i - 1) <= MaxEventSize /\ value.kind # "null" -> "none"

(* _parse_event_and_ensure_it_is_valid: [result, event].  A result other   *)
(* than "valid" and "raises" is an InvalidExtensionEventError, which is    *)
(* counted and reported to the publisher; "raises" is only logged.         *)
ParseExtensionEvent(doc) ==
    LET picked == [k \in ToSet(RequiredFields) |-> ValueOf(doc, k)]
        m      == picked["message"]
        event  == [picked EXCEPT !["message"] =
                      IF LengthOf(m) > MaxMessage THEN [m EXCEPT !.len = MaxMessage] ELSE m]
        faults == {i \in DOMAIN RequiredFields : FieldFault(event, i) # "none"}
        result ==
            IF \E i \in DOMAIN doc : doc[i].key \in ToSet(RequiredFields)
                                         /\ CleanValue(doc[i]).kind = "raises" THEN "raises"
            ELSE IF m = None THEN "MissingKeyError"
            ELSE IF m.kind = "null" THEN "raises"
            ELSE IF m.len = 0 THEN "EmptyMessageError"
            ELSE IF faults = {} THEN "valid"
            ELSE FieldFault(event, CHOOSE i \in faults : \A j \in faults : i <= j)
    IN [result |-> result, event |-> event]

----------------------------------------------------------------------------
(* Parameters.                                                             *)

Param(name, from) == [name |-> name, from |-> from]

Named(params, name) == SelectSeq(params, LAMBDA p : p.name = name)

(* EventLogger.__init__: the parameters that do not change while the agent *)
(* runs; those that need the host get a value that says so.                *)
GoalStateParams == {"TenantName", "RoleName", "RoleInstanceName"}
ImdsParams == {"Location", "SubscriptionId", "ResourceGroupName", "VMId", "ImageOrigin"}

InitialParams ==
    <<Param("OSVersion", "agent"), Param("ExecutionMode", "agent"), Param("RAM", "agent"),
      Param("Processors", "agent"), Param("KeywordName", "uninitialized"),
      Param("TenantName", "uninitialized"), Param("RoleName", "uninitialized"),
      Param("RoleInstanceName", "uninitialized"), Param("Location", "uninitialized"),
      Param("SubscriptionId", "uninitialized"), Param("ResourceGroupName", "uninitialized"),
      Param("VMId", "uninitialized"), Param("ImageOrigin", "uninitialized")>>

(* initialize_vminfo_common_parameters: three sources that fail apart from *)
(* each other; the last value from IMDS may fail to convert.               *)
InitializeVmInfo(params, vminfo, imds, cvm) ==
    LET known == (IF vminfo THEN GoalStateParams ELSE {})
                 \cup (CASE imds = "good" -> ImdsParams
                         [] imds = "badOrigin" -> ImdsParams \ {"ImageOrigin"}
                         [] imds = "fails" -> {})
                 \cup (IF cvm THEN {"KeywordName"} ELSE {})
    IN [i \in DOMAIN params |->
           IF params[i].name \in known THEN [params[i] EXCEPT !.from = "agent"] ELSE params[i]]

(* add_common_event_parameters.  The table is "extension" for events with  *)
(* the id and the provider of GuestAgentExtensionEvents.                   *)
AddCommonParams(params, table, common) ==
    params
      \o <<Param("GAVersion", "agent"), Param("ContainerId", "agent"), Param("OpcodeName", "agent"),
           Param("EventTid", "agent"), Param("EventPid", "agent"), Param("TaskName", "agent")>>
      \o (IF table = "extension" THEN <<Param("ExtensionType", "agent"), Param("IsInternal", "agent")>>
                                 ELSE <<>>)
      \o common

(* The parameters of an event of each kind: add_event, add_log_event,      *)
(* add_metric.                                                             *)
OwnParams(kind) ==
    CASE kind = "extension" -> <<"Name", "Version", "Operation", "OperationSuccess", "Message", "Duration">>
      [] kind = "log" -> <<"EventName", "CapabilityUsed", "Context1", "Context2", "Context3">>
      [] kind = "metric" -> <<"Category", "Counter", "Instance", "Value">>

AgentEvent(kind, common) ==
    AddCommonParams([i \in DOMAIN OwnParams(kind) |-> Param(OwnParams(kind)[i], "agent")], kind, common)

(* _replace_or_add_param_in_event: the first parameter of each name.       *)
ReplaceOrAdd(params, names) ==
    LET first(i) == \A j \in 1..(i - 1) : params[j].name # params[i].name
        absent == SelectSeq(names, LAMBDA n : Named(params, n) = <<>>)
    IN [i \in DOMAIN params |->
           IF params[i].name \in ToSet(names) /\ first(i) THEN Param(params[i].name, "ext") ELSE params[i]]
       \o [i \in DOMAIN absent |-> Param(absent[i], "ext")]

(* _parse_telemetry_event, of a valid document.                            *)
ExtParams == <<"EventName", "CapabilityUsed", "TaskName", "Context1", "Context2", "Context3",
               "EventPid", "EventTid">>

ParseTelemetryEvent(common) == ReplaceOrAdd(AddCommonParams(<<>>, "log", common), ExtParams)

(* is_extension_event: [params, named] where named is the value of Name,   *)
(* "WALinuxAgent" for those of the agent.                                  *)
IsExtensionEvent(params, named) == Named(params, "Name") # <<>> /\ named # "WALinuxAgent"

(* _trim_legacy_extension_event_parameters.                                *)
TrimLegacyExtensionEvent(params) ==
    SelectSeq(params, LAMBDA p : p.name \in ToSet(OwnParams("extension")))

(* _update_legacy_agent_event: the parameters to add are those of an event *)
(* that belongs to no table.                                               *)
UpdateLegacyAgentEvent(params, common) ==
    params \o SelectSeq(AddCommonParams(<<>>, "none", common),
                        LAMBDA p : Named(params, p.name) = <<>>)

(* What process_events enqueues for the file of an event of an older agent *)
(* or of an extension.                                                     *)
LegacyEvent(params, named, table, common) ==
    IF IsExtensionEvent(params, named)
    THEN AddCommonParams(TrimLegacyExtensionEvent(params), table, common)
    ELSE UpdateLegacyAgentEvent(params, common)

----------------------------------------------------------------------------
(* Encoding.  A value is [type, value]; in a document a value is a text,   *)
(* given here by the value it was made of and its type.                    *)

(* event_param_to_v1.                                                      *)
TypeTags == [int |-> "mt:uint64", str |-> "mt:wstr", bool |-> "mt:bool", float |-> "mt:float64",
             none |-> ""]

ParamToV1(v) == [text |-> v, tag |-> TypeTags[v.type]]

(* parse_xml_param.  The conversion of a text to bool is true of any text  *)
(* that is not empty, "False" included.                                    *)
ParseXmlParam(node) ==
    CASE node.tag = "mt:uint64" -> [type |-> "int", value |-> node.text.value]
      [] node.tag = "mt:bool" -> [type |-> "bool", value |-> "True"]
      [] node.tag = "mt:float64" -> [type |-> "float", value |-> node.text.value]
      [] OTHER -> [type |-> "str", value |-> node.text.value]

----------------------------------------------------------------------------
(* Which calls produce an event.                                           *)

(* EventStatus, should_emit_event and mark_event_status: the last status   *)
(* of each event is kept, also in a file, for the operations that report   *)
(* only changes.  The calls are [event, success].                          *)
ShouldEmit(marked, call) ==
    call.event \notin DOMAIN marked \/ marked[call.event] # call.success

MarkEventStatus(marked, call) ==
    [e \in DOMAIN marked \cup {call.event} |->
        IF e = call.event THEN call.success ELSE marked[e]]

(* add_event over a sequence of calls: the indices that emit.              *)
Emitted(calls) ==
    FoldLeft(LAMBDA acc, i :
                IF ShouldEmit(acc.marked, calls[i])
                THEN [marked |-> MarkEventStatus(acc.marked, calls[i]), out |-> acc.out \cup {i}]
                ELSE acc,
             [marked |-> [e \in {} |-> TRUE], out |-> {}], [i \in DOMAIN calls |-> i]).out

----------------------------------------------------------------------------
(* CollectOrReportEventDebugInfo: the errors of a run, all of them counted *)
(* and the first few told.                                                 *)
MaxErrors == 5 \* __MAX_ERRORS_TO_REPORT

UpdateErrors(info, error) ==
    [count |-> info.count + 1,
     errors |-> IF Cardinality(info.errors) < MaxErrors THEN info.errors \cup {error} ELSE info.errors]

DebugInfo(errors) == FoldLeft(UpdateErrors, [count |-> 0, errors |-> {}], errors)

ReportDebugInfo(info) == IF info.count > 0 THEN <<info>> ELSE <<>>

----------------------------------------------------------------------------
(* What this code promises.                                                *)

(* A file that is being written is not lost if it is complete by the last  *)
(* attempt, unless an error comes before that no retry can cure.           *)
ReadingIsPatient(attempts) ==
    LET complete(a) == a.found /\ (a.json = "good" \/ (a.json = "valueError" /\ a.xml = "good"))
        hopeless(a) == a.found /\ a.json = "otherError"
    IN ReadAndParseEventFile(attempts) = "read"
          <=> \E i \in 1..Retries : complete(attempts[i]) /\ \A j \in 1..i : ~hopeless(attempts[j])

(* A valid event has every field, all of them texts, a message that is     *)
(* neither empty nor too long, and is bounded but for its version, the     *)
(* field that no check follows.                                            *)
ValidEventsAreComplete(doc) ==
    LET p == ParseExtensionEvent(doc)
    IN p.result = "valid" =>
          /\ \A k \in ToSet(RequiredFields) : p.event[k] # None /\ p.event[k].kind = "text"
          /\ p.event["message"].len \in 1..MaxMessage
          /\ EventSize(p.event, Len(RequiredFields) - 1) <= MaxEventSize

(* An event within the contract is not refused.                            *)
GoodEventsAreValid(doc) ==
    (/\ \A k \in ToSet(RequiredFields) : \E i \in DOMAIN doc : doc[i].key = k
     /\ \A i \in DOMAIN doc : doc[i].kind = "text"
     /\ LengthOf(ValueOf(doc, "message")) > 0
     /\ EventSize([k \in ToSet(RequiredFields) |-> ValueOf(doc, k)], Len(RequiredFields)) <= MaxEventSize)
    => ParseExtensionEvent(doc).result = "valid"

(* Whatever failed, an event has all the parameters of its table, once.    *)
HasAllOnce(params, names) == \A n \in names : Len(Named(params, n)) = 1

CommonNames == {InitialParams[i].name : i \in DOMAIN InitialParams}
               \cup {"GAVersion", "ContainerId", "OpcodeName", "EventTid", "EventPid", "TaskName"}

AgentEventsAreComplete(kind, common) ==
    HasAllOnce(AgentEvent(kind, common), CommonNames \cup ToSet(OwnParams(kind)))

(* An extension has a say in its own parameters only: the others are the   *)
(* agent's, whatever the file says.                                        *)
ExtensionOwns(params, own) ==
    \A i \in DOMAIN params : params[i].from = "ext" => params[i].name \in own

(* The parameters in common are the same objects in all events, and those  *)
(* of an extension replace values in place: no name may be in both.        *)
ExtensionEventsAreComplete(common) ==
    LET params == ParseTelemetryEvent(common)
    IN /\ HasAllOnce(params, CommonNames \cup ToSet(OwnParams("log")))
       /\ \A i \in DOMAIN common : common[i].name \notin ToSet(ExtParams)
       /\ ExtensionOwns(params, ToSet(ExtParams))

LegacyEventsAreComplete(params, named, table, common) ==
    LET event == LegacyEvent(params, named, table, common)
    IN /\ \A n \in CommonNames : Named(event, n) # <<>>
       /\ IsExtensionEvent(params, named) =>
             /\ ExtensionOwns(event, ToSet(OwnParams("extension")))
             /\ HasAllOnce(event, CommonNames)

(* An event survives being encoded and parsed, except that false becomes   *)
(* true and that no value at all becomes a text.                           *)
EncodingIsFaithful(v) ==
    (v.type # "none" /\ v # [type |-> "bool", value |-> "False"]) => ParseXmlParam(ParamToV1(v)) = v

(* No dropped event goes unreported, and each error is told if there is    *)
(* room for it.                                                            *)
DroppedEventsAreReported(errors) ==
    LET info == DebugInfo(errors)
    IN /\ ReportDebugInfo(info) = <<>> <=> errors = <<>>
       /\ info.count = Len(errors)
       /\ Cardinality(info.errors) <= MaxErrors
       /\ Cardinality(ToSet(errors)) <= MaxErrors => info.errors = ToSet(errors)

(* An event is emitted exactly when its status is not that of the last one *)
(* emitted or skipped before it.                                           *)
OnlyChangesAreEmitted(calls) ==
    \A i \in DOMAIN calls :
        LET before == {j \in 1..(i - 1) : calls[j].event = calls[i].event}
        IN i \in Emitted(calls) <=>
              \/ before = {}
              \/ LET last == CHOOSE j \in before : \A k \in before : k <= j
                 IN calls[last].success # calls[i].success
============================================================================

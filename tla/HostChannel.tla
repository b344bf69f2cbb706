---------------------------- MODULE HostChannel ----------------------------
(* How the agent reaches the outside: the retry loop of every HTTP request *)
(* (common/utils/restutil.py), the two channels of a download - directly   *)
(* from storage, or through the HostGAPlugin - with their fallback and     *)
(* their refresh of stale headers, the upload of the status blob           *)
(* (common/protocol/wire.py, hostplugin.py), and the health signals that   *)
(* the requests and the heartbeats of the monitor thread produce           *)
(* (ga/monitor.py, common/protocol/imds.py, healthservice.py).             *)
(*                                                                         *)
(* The protocol objects are per thread (SingletonPerThread), so the        *)
(* threads share nothing but the host.  Every request is one step; the     *)
(* host may change between any two requests.                               *)
EXTENDS Integers, Sequences, FiniteSets

CONSTANTS DefaultRetries,   \* DEFAULT_RETRIES, 6 in the code
          ThrottleRetries,  \* THROTTLE_RETRIES, 25 in the code
          Uris,             \* locations of a package
          Pages,            \* pages of a page blob
          MaxStatus,        \* bound on the statuses
          MaxRequestFaults, \* bound on the failures of a working server
          MaxChanges        \* bound on the changes of the host

ASSUME RetriesAssumption == DefaultRetries \in Nat \ {0} /\ ThrottleRetries \in Nat /\ DefaultRetries <= ThrottleRetries
ASSUME SizesAssumption == Uris \in Nat \ {0} /\ Pages \in Nat \ {0}
ASSUME BoundsAssumption == MaxStatus \in Nat /\ MaxRequestFaults \in Nat /\ MaxChanges \in Nat

VARIABLES host,     \* the host: container, HostGAPlugin up, outbound connection
          hp,       \* the HostPluginProtocol of the main thread
          channel,  \* HostPluginProtocol.is_default_channel
          main,     \* the operation of the main thread
          zip, dir, \* the package on disk
          stuck,     \* history: what of the package could not be deleted
          blob,     \* the status blob in storage
          status,   \* version of the VM's status
          health,   \* the error state behind one health signal
          result,   \* how the last download of a package ended
          unexplained, \* history: a download failed, and nothing explains it
          requestFaults, changes

package == <<zip, dir, stuck, result>>
channelVars == <<host, hp, channel, main, package, blob, status, health, unexplained, requestFaults, changes>>

----------------------------------------------------------------------------
(* restutil.http_request.  An attempt is answered with a status or fails   *)
(* with an exception.                                                      *)
Statuses == {"ok", "notfound", "badrequest", "gone", "unsupported", "error", "throttled"}
Exceptions == {"dropped", "malformed", "timeout", "ioerror"}
Answers == Statuses \cup Exceptions

RetryCodes == {"error", "throttled"}
ArtifactRetryCodes == RetryCodes \cup {"badrequest"}

Larger(a, b) == IF a > b THEN a ELSE b

(* max_retry of each request, the statuses it retries, and whether a       *)
(* timeout ends it at once.                                                *)
Policy == [get      |-> [max |-> DefaultRetries, codes |-> RetryCodes, failFast |-> FALSE],
           direct   |-> [max |-> DefaultRetries, codes |-> RetryCodes, failFast |-> TRUE],
           artifact |-> [max |-> DefaultRetries, codes |-> ArtifactRetryCodes, failFast |-> FALSE],
           health   |-> [max |-> 1, codes |-> RetryCodes, failFast |-> FALSE]]

Raised(error, answer) == [raised |-> error, answer |-> answer]
Returned(answer) == [raised |-> "none", answer |-> answer]

(* The answers after which the loop goes on.                               *)
Retried(p, a) == a \in p.codes \cup {"dropped", "ioerror"} \/ (a = "timeout" /\ ~p.failFast)

(* The limit at attempt n: a throttled request is retried more often.      *)
MaxRetry(p, answers, n) ==
    IF \E i \in 1..n : answers[i] = "throttled" THEN Larger(p.max, ThrottleRetries) ELSE p.max

LastAttempt(p, answers, n) == ~Retried(p, answers[n]) \/ n >= MaxRetry(p, answers, n)

(* What a request returns or raises after its last answer.                 *)
ResultOf(p, a) == IF a \notin Statuses \ p.codes THEN Raised("HttpError", a)
                  ELSE IF a = "gone" THEN Raised("ResourceGoneError", a)
                  ELSE Returned(a)

(* The result of a request whose attempts are answered by `answers`.       *)
http_request(p, answers) ==
    LET last == CHOOSE n \in 1..ThrottleRetries :
                    LastAttempt(p, answers, n) /\ \A i \in 1..(n - 1) : ~LastAttempt(p, answers, i)
    IN  ResultOf(p, answers[last])

(* What a server answers, by its condition.  A failing server fails every  *)
(* attempt; one that recovers during the request behaves like a working    *)
(* one.                                                                    *)
Conditions == [working |-> {"ok"},
               failing |-> Answers \ {"ok", "gone", "badrequest"},
               blocked |-> {"timeout", "ioerror"},
               down    |-> {"dropped", "ioerror"},
               stale   |-> {"gone", "badrequest"}]

Results == [p \in DOMAIN Policy |-> [c \in DOMAIN Conditions |->
               {http_request(Policy[p], s) : s \in [1..ThrottleRetries -> Conditions[c]]}]]

Succeeded(r) == r = Returned("ok")

(* request_failed_at_hostplugin: any 5xx but 502.                          *)
FailedAtHostPlugin(r) == r.raised = "none" /\ r.answer = "unsupported"

----------------------------------------------------------------------------
Containers == 0..MaxChanges
Signals == {"status", "fetch", "heartbeat", "imds"}
NoOperation == [op |-> "idle", step |-> "none", left |-> 0, rank |-> "none", chan |-> "none", refreshed |-> FALSE,
                ver |-> 0, type |-> "none", page |-> 0, excuse |-> FALSE]

ChannelTypeOK ==
    /\ host \in [container : Containers, plugin : BOOLEAN, outbound : BOOLEAN]
    /\ hp \in [container : Containers, initialized : BOOLEAN, uri : BOOLEAN]
    /\ channel \in {"direct", "host"}
    /\ main \in [op : {"idle", "zip", "manifest", "status"},
                 step : {"none", "uri", "call", "refresh", "downloaded", "goalstate", "put", "gone", "fallback"},
                 left : 0..Uris, rank : {"none", "primary", "secondary"}, chan : {"none", "direct", "host"},
                 refreshed : BOOLEAN, ver : 0..MaxStatus,
                 type : {"none", "BlockBlob", "PageBlob"}, page : 0..Pages, excuse : BOOLEAN]
    /\ zip \in {"none", "partial", "full"}
    /\ dir \in {"absent", "partial", "complete"}
    /\ stuck \subseteq {"zip", "dir"}
    /\ result \in {"none", "ok", "failed", "signature"}
    /\ blob \in [ver : 0..MaxStatus, page : 0..Pages]
    /\ status \in 0..MaxStatus
    /\ health \in [signal : Signals, err : {"none", "recent", "old"}, ok : {"recent", "old"}, due : BOOLEAN,
                   sent : {"healthy", "unhealthy"}, sentOk : {"recent", "old"}]
    /\ unexplained \in BOOLEAN
    /\ requestFaults \in 0..MaxRequestFaults
    /\ changes \in 0..MaxChanges

(* The error states only decide which signals are sent, so one of them is  *)
(* followed in each behaviour.                                             *)
ChannelInit ==
    /\ \E o \in BOOLEAN : host = [container |-> 0, plugin |-> TRUE, outbound |-> o]
    /\ \E u \in BOOLEAN : hp = [container |-> 0, initialized |-> FALSE, uri |-> u]
    /\ channel = "direct"
    /\ main = NoOperation
    /\ zip = "none" /\ dir = "absent" /\ stuck = {} /\ result = "none"
    /\ blob = [ver |-> 0, page |-> Pages]
    /\ status = 0
    /\ \E s \in Signals :
          health = [signal |-> s, err |-> "none", ok |-> "recent", due |-> TRUE,
                    sent |-> "healthy", sentOk |-> "recent"]
    /\ unexplained = FALSE
    /\ requestFaults = 0 /\ changes = 0

----------------------------------------------------------------------------
(* The results a request may have, each with the faults it takes.          *)
Outcomes(policy, condition) ==
    {[r |-> r, fault |-> 0] : r \in Results[policy][condition]}
        \cup (IF condition = "working" /\ requestFaults < MaxRequestFaults
              THEN {[r |-> r, fault |-> 1] : r \in Results[policy].failing} ELSE {})

Storage == IF host.outbound THEN "working" ELSE "blocked"
Plugin == IF host.plugin THEN "working" ELSE "down"
PluginWithHeaders == IF host.plugin /\ hp.container # host.container THEN "stale" ELSE Plugin
WireServer == "working"

Faulted(o) == requestFaults' = requestFaults + o.fault

Faults(n) == requestFaults + n <= MaxRequestFaults /\ requestFaults' = requestFaults + n

(* MUTANT of Counted: a healthy observation does not reset the error state. *)
Counted_NoReset(h, healthy) ==
    [h EXCEPT !.err = IF ~healthy /\ @ = "none" THEN "recent" ELSE @,
              !.ok = IF healthy THEN "recent" ELSE @]

(* ErrorState.incr and reset, should_report and the signal that follows.   *)
(* Heartbeats send a signal every time, the others once per period.  Of    *)
(* the signals the last one is kept, and for an unhealthy one how long ago *)
(* the last success was.                                                   *)
Counted(h, healthy) ==
    [h EXCEPT !.err = IF healthy THEN "none" ELSE IF @ = "none" THEN "recent" ELSE @,
              !.ok = IF healthy THEN "recent" ELSE @]

IsTriggered(h) == h.err = "old"

Signalled(h) == [h EXCEPT !.sent = IF IsTriggered(h) THEN "unhealthy" ELSE "healthy",
                          !.sentOk = IF IsTriggered(h) THEN h.ok ELSE "recent",
                          !.due = h.signal \in {"heartbeat", "imds"}]

Observe(signal, healthy) ==
    health' = IF health.signal # signal THEN health
              ELSE LET h == Counted(health, healthy) IN IF h.due THEN Signalled(h) ELSE h

----------------------------------------------------------------------------
(* Downloads: _download_with_fallback_channel.                             *)
Other(c) == IF c = "direct" THEN "host" ELSE "direct"

(* A package is downloaded when it is not on disk: the first time, or      *)
(* again after a download that failed (ga_version_updater.py), over what   *)
(* that one left.                                                          *)
StartZip ==
    /\ main.op = "idle"
    /\ main' = [NoOperation EXCEPT !.op = "zip", !.step = "uri", !.left = Uris]
    /\ \/ zip' = "none" /\ dir' = "absent" /\ stuck' = {}
       \/ dir # "complete" /\ UNCHANGED <<zip, dir, stuck>>
    /\ result' = "none"
    /\ UNCHANGED <<host, hp, channel, blob, status, health, unexplained, requestFaults, changes>>

StartManifest ==
    /\ main.op = "idle"
    /\ main' = [NoOperation EXCEPT !.op = "manifest", !.step = "uri", !.left = Uris]
    /\ UNCHANGED <<host, hp, channel, package, blob, status, health, unexplained, requestFaults, changes>>

EndDownload(r, explained) ==
    /\ main' = NoOperation
    /\ result' = IF main.op = "zip" THEN r ELSE result
    /\ unexplained' = (unexplained \/ (r = "failed" /\ ~explained))

(* The first location, the next one, or the end of the list; the five      *)
(* minutes are looked at between two locations.                            *)
NextUri ==
    /\ main.step = "uri"
    /\ \/ /\ main.left > 0
          /\ main' = [main EXCEPT !.step = "call", !.left = @ - 1, !.rank = "primary", !.chan = channel]
          /\ UNCHANGED <<result, unexplained>>
       \/ main.left = 0 /\ EndDownload("failed", main.excuse)
       \/ main.left \in 1..(Uris - 1) /\ EndDownload("failed", TRUE)
    /\ UNCHANGED <<host, hp, channel, zip, dir, stuck, blob, status, health, requestFaults, changes>>

(* _download_using_appropriate_channel after a channel raised: the other   *)
(* channel, or the next location.                                          *)
CallFailed(excuse) ==
    main' = IF main.rank = "primary"
            THEN [main EXCEPT !.step = "call", !.rank = "secondary", !.chan = Other(main.chan),
                              !.refreshed = FALSE, !.excuse = @ \/ excuse]
            ELSE [main EXCEPT !.step = "uri", !.refreshed = FALSE, !.excuse = @ \/ excuse]

(* The default channel changes when the fallback succeeds.                 *)
DefaultAfterSuccess == IF main.rank = "secondary" THEN Other(channel) ELSE channel

CallSucceeded ==
    /\ channel' = DefaultAfterSuccess
    /\ IF main.op = "zip"
       THEN main' = [main EXCEPT !.step = "downloaded"]
       ELSE main' = NoOperation
    /\ UNCHANGED <<result, unexplained>>

(* A removal that fails is logged and nothing else.                        *)
Removed(undeleted) ==
    /\ zip' = IF "zip" \in undeleted THEN zip ELSE "none"
    /\ stuck' = stuck \cup undeleted

(* stream() raised: the file of an earlier attempt is deleted too.         *)
StreamRaised(o) ==
    \/ main.op = "zip" /\ Removed({}) /\ Faulted(o)
    \/ main.op = "zip" /\ zip # "none" /\ Removed({"zip"}) /\ Faults(o.fault + 1)
    \/ main.op = "manifest" /\ UNCHANGED <<zip, stuck>> /\ Faulted(o)

(* stream() after a good response: the whole file, a file that ends early  *)
(* without an error, or an exception, after which the file is deleted      *)
(* unless that fails.                                                      *)
Streams == {[zip |-> "full", raised |-> FALSE, undeleted |-> {}, fault |-> 0],
            [zip |-> "partial", raised |-> FALSE, undeleted |-> {}, fault |-> 1],
            [zip |-> "none", raised |-> TRUE, undeleted |-> {}, fault |-> 1],
            [zip |-> "partial", raised |-> TRUE, undeleted |-> {"zip"}, fault |-> 2]}

(* stream() for a package, fetch() for a manifest.                         *)
Received ==
    \E t \in Streams :
        /\ main.op = "manifest" => t.zip # "partial"
        /\ Faults(t.fault)
        /\ zip' = IF main.op = "zip" THEN t.zip ELSE zip
        /\ stuck' = stuck \cup t.undeleted
        /\ IF t.raised THEN CallFailed(TRUE) /\ UNCHANGED <<channel, result, unexplained>> ELSE CallSucceeded

(* The direct channel.                                                     *)
DirectCall ==
    /\ main.step = "call" /\ main.chan = "direct"
    /\ \E o \in Outcomes("direct", Storage) :
          IF Succeeded(o.r)
          THEN Received
          ELSE StreamRaised(o) /\ CallFailed(o.fault = 1) /\ UNCHANGED <<channel, result, unexplained>>
    /\ UNCHANGED <<host, hp, dir, blob, status, health, changes>>

(* HostPluginProtocol.ensure_initialized, before a download or an upload.  *)
EnsureInitialized ==
    /\ main.step = "put" \/ (main.step = "call" /\ main.chan = "host")
    /\ ~hp.initialized
    /\ \E o \in Outcomes("get", Plugin) :
          /\ Faulted(o)
          /\ hp' = [hp EXCEPT !.initialized = Succeeded(o.r)]
          /\ IF Succeeded(o.r) THEN UNCHANGED main
             ELSE IF main.op = "status" THEN main' = [main EXCEPT !.step = "fallback"]
             ELSE CallFailed(TRUE)
    /\ UNCHANGED <<host, channel, package, blob, status, health, unexplained, changes>>

(* MUTANT of StaleResource: only InvalidContainerError is handled.         *)
StaleResource_BadRequestOnly(r) == r = Returned("badrequest")

(* ResourceGoneError or InvalidContainerError: the headers are stale.      *)
StaleResource(r) == r.raised = "ResourceGoneError" \/ r = Returned("badrequest")

(* A status 400 is retried in a request for an artifact, so http_request   *)
(* raises in the end and no InvalidContainerError is ever raised for it.   *)
HiddenByRetries(r) == r = Raised("HttpError", "badrequest")

(* hgap_download under _call_hostplugin_with_container_check.              *)
HostCall ==
    /\ main.step = "call" /\ main.chan = "host" /\ hp.initialized
    /\ \E o \in Outcomes("artifact", PluginWithHeaders) :
          IF Succeeded(o.r)
          THEN Received /\ Observe("fetch", TRUE)
          ELSE /\ StreamRaised(o)
               /\ IF StaleResource(o.r) /\ ~main.refreshed
                  THEN main' = [main EXCEPT !.step = "refresh"] /\ UNCHANGED health
                  ELSE /\ CallFailed(o.fault = 1 \/ ~host.plugin \/ main.refreshed \/ HiddenByRetries(o.r))
                       /\ IF o.r.raised = "none" THEN Observe("fetch", ~FailedAtHostPlugin(o.r)) ELSE UNCHANGED health
               /\ UNCHANGED <<channel, result, unexplained>>
    /\ UNCHANGED <<host, hp, dir, blob, status, changes>>

(* update_host_plugin_from_goal_state between the two calls.               *)
Refresh ==
    /\ main.step = "refresh"
    /\ \E o \in Outcomes("get", WireServer) :
          /\ Faulted(o)
          /\ IF Succeeded(o.r)
             THEN /\ hp' = [hp EXCEPT !.container = host.container]
                  /\ main' = [main EXCEPT !.step = "call", !.refreshed = TRUE]
             ELSE CallFailed(TRUE) /\ UNCHANGED hp
    /\ UNCHANGED <<host, channel, package, blob, status, health, unexplained, changes>>

(* What a failed expansion leaves in the directory.  A file that ends      *)
(* early cannot even be opened, since its index is at its end.             *)
Unfinished == IF zip = "full" THEN "partial" ELSE dir

(* _try_expand_zip_package: the directory is removed when the expansion    *)
(* fails, and the file in any case; a removal may fail.                    *)
TryExpand(expanded, undeleted) ==
    /\ expanded => zip = "full" /\ "dir" \notin undeleted
    /\ "dir" \in undeleted => Unfinished # "absent"
    /\ dir' = IF expanded THEN "complete" ELSE IF "dir" \in undeleted THEN Unfinished ELSE "absent"
    /\ Removed(undeleted)
    /\ Faults(Cardinality(undeleted) + (IF zip = "full" /\ ~expanded THEN 1 ELSE 0))

(* MUTANT of OnDownloaded: the file of an invalid package is not deleted.  *)
OnDownloaded_KeepsInvalid ==
    /\ main.step = "downloaded"
    /\ \E sig \in {"none", "valid", "invalid", "invalid but not enforced"}, expanded \in BOOLEAN, undeleted \in SUBSET {"zip", "dir"} :
          /\ sig = "valid" => zip = "full"
          /\ IF sig = "invalid"
             THEN /\ ~expanded /\ "dir" \notin undeleted
                  /\ UNCHANGED <<zip, stuck>> /\ Faults(Cardinality(undeleted))
                  /\ EndDownload("signature", TRUE) /\ UNCHANGED dir
             ELSE /\ TryExpand(expanded, undeleted)
                  /\ IF expanded
                     THEN EndDownload(IF sig = "invalid but not enforced" THEN "signature" ELSE "ok", TRUE)
                     ELSE main' = [main EXCEPT !.step = "uri", !.refreshed = FALSE, !.excuse = TRUE] /\ UNCHANGED <<result, unexplained>>
    /\ UNCHANGED <<host, hp, channel, blob, status, health, changes>>

(* on_downloaded: the signature, then the expansion.  A file that ends     *)
(* early has no valid signature.                                           *)
OnDownloaded ==
    /\ main.step = "downloaded"
    /\ \E sig \in {"none", "valid", "invalid", "invalid but not enforced"}, expanded \in BOOLEAN, undeleted \in SUBSET {"zip", "dir"} :
          /\ sig = "valid" => zip = "full"
          /\ IF sig = "invalid"
             THEN /\ ~expanded /\ "dir" \notin undeleted
                  /\ Removed(undeleted) /\ Faults(Cardinality(undeleted))
                  /\ EndDownload("signature", TRUE) /\ UNCHANGED dir
             ELSE /\ TryExpand(expanded, undeleted)
                  /\ IF expanded
                     THEN EndDownload(IF sig = "invalid but not enforced" THEN "signature" ELSE "ok", TRUE)
                     ELSE main' = [main EXCEPT !.step = "uri", !.refreshed = FALSE, !.excuse = TRUE] /\ UNCHANGED <<result, unexplained>>
    /\ UNCHANGED <<host, hp, channel, blob, status, health, changes>>

----------------------------------------------------------------------------
(* upload_status_blob.                                                     *)
StartUpload ==
    /\ main.op = "idle"
    /\ \E t \in {"BlockBlob", "PageBlob"} :
          main' = [NoOperation EXCEPT !.op = "status", !.step = IF hp.uri THEN "put" ELSE "goalstate", !.ver = status, !.type = t]
    /\ UNCHANGED <<host, hp, channel, package, blob, status, health, unexplained, requestFaults, changes>>

(* The blob is not known: reset_goal_state.  The new goal state may lack   *)
(* it as well (ProtocolNotFoundError); CRP gets it wrong as often as the   *)
(* other requests fail.                                                    *)
ResetGoalState ==
    /\ main.step = "goalstate"
    /\ \E o \in Outcomes("get", WireServer), found \in BOOLEAN :
          /\ Faults(o.fault + IF found THEN 0 ELSE 1)
          /\ hp' = IF Succeeded(o.r) THEN [hp EXCEPT !.container = host.container, !.uri = found] ELSE hp
          /\ main' = IF Succeeded(o.r) /\ found THEN [main EXCEPT !.step = "put"] ELSE NoOperation
    /\ UNCHANGED <<host, channel, package, blob, status, health, unexplained, changes>>

(* MUTANT of Stored: the last page is not written.                         *)
Stored_LastPageLost ==
    /\ blob' = [ver |-> main.ver, page |-> IF main.type = "BlockBlob" THEN Pages ELSE main.page]
    /\ main' = IF main.type = "BlockBlob" \/ main.page + 1 = Pages THEN NoOperation ELSE [main EXCEPT !.page = @ + 1]

(* One request of put_vm_status or of StatusBlob.upload succeeded: a block *)
(* blob is complete, a page blob is created empty and then filled.         *)
Stored ==
    /\ blob' = [ver |-> main.ver, page |-> IF main.type = "BlockBlob" THEN Pages ELSE main.page]
    /\ main' = IF main.type = "BlockBlob" \/ main.page = Pages THEN NoOperation ELSE [main EXCEPT !.page = @ + 1]

PutVmStatus ==
    /\ main.step = "put" /\ hp.initialized
    /\ \E o \in Outcomes("get", PluginWithHeaders) :
          /\ Faulted(o)
          /\ IF Succeeded(o.r)
             THEN Stored /\ IF main.page = 0 THEN Observe("status", TRUE) ELSE UNCHANGED health
             ELSE /\ main' = IF o.r.raised = "ResourceGoneError" THEN [main EXCEPT !.step = "gone"]
                             ELSE [main EXCEPT !.step = "fallback", !.page = 0]
                  /\ IF o.r.raised = "none" THEN Observe("status", ~FailedAtHostPlugin(o.r)) ELSE UNCHANGED health
                  /\ UNCHANGED blob
    /\ UNCHANGED <<host, hp, channel, package, status, unexplained, changes>>

(* ResourceGoneError: the headers are refreshed and the status waits for   *)
(* the next iteration of the main loop.                                    *)
Postpone ==
    /\ main.step = "gone"
    /\ \E o \in Outcomes("get", WireServer) :
          /\ Faulted(o)
          /\ hp' = IF Succeeded(o.r) THEN [hp EXCEPT !.container = host.container] ELSE hp
    /\ main' = NoOperation
    /\ UNCHANGED <<host, channel, package, blob, status, health, unexplained, changes>>

(* Any other error: the direct route.                                      *)
DirectUpload ==
    /\ main.step = "fallback"
    /\ \E o \in Outcomes("get", Storage) :
          /\ Faulted(o)
          /\ IF Succeeded(o.r) THEN Stored ELSE main' = NoOperation /\ UNCHANGED blob
    /\ UNCHANGED <<host, hp, channel, package, status, health, unexplained, changes>>

(* The goal state is fetched in every iteration of the main loop, and the  *)
(* headers with it.                                                        *)
UpdateGoalState ==
    /\ main.op = "idle" /\ hp.container # host.container
    /\ hp' = [hp EXCEPT !.container = host.container]
    /\ UNCHANGED <<host, channel, main, package, blob, status, health, unexplained, requestFaults, changes>>

----------------------------------------------------------------------------
(* The heartbeats of the monitor thread.  An exception ends the operation  *)
(* without a signal.                                                       *)
SendHostPluginHeartbeat ==
    /\ health.signal = "heartbeat"
    /\ \E o \in Outcomes("health", Plugin) :
          /\ o.r.raised = "none"
          /\ Faulted(o)
          /\ Observe("heartbeat", Succeeded(o.r))
    /\ UNCHANGED <<host, hp, channel, main, package, blob, status, unexplained, changes>>

(* The message of the HttpError that http_request raises, by the last      *)
(* answer, and the two patterns of ImdsClient.                             *)
Message(r) == IF r.answer \in RetryCodes THEN "[HTTP Retry] -- [HTTP Failed]"
              ELSE IF r.answer \in {"timeout", "ioerror"} THEN "[HTTP Failed] -- IOError"
              ELSE "[HTTP Failed] -- HttpException"

RegexThrottled(r) == Message(r) = "[HTTP Retry] -- Status Code 429"
RegexIoError(r) == Message(r) = "[HTTP Failed] -- IOError"

(* _get_metadata_from_endpoint: IMDS_INTERNAL_SERVER_ERROR.                *)
ImdsServiceError(r) ==
    \/ r.raised = "ResourceGoneError"
    \/ r.raised = "HttpError" /\ ~RegexThrottled(r) /\ ~RegexIoError(r)
    \/ r = Returned("unsupported")

(* validate() looks at the content only when the request succeeded.        *)
InvalidMetadata(r) ==
    /\ Succeeded(r) /\ requestFaults < MaxRequestFaults
    /\ requestFaults' = requestFaults + 1

SendImdsHeartbeat ==
    /\ health.signal = "imds"
    /\ \E o \in Outcomes("get", "working") :
          \/ Faulted(o) /\ Observe("imds", ~ImdsServiceError(o.r))
          \/ InvalidMetadata(o.r) /\ Observe("imds", FALSE)
    /\ UNCHANGED <<host, hp, channel, main, package, blob, status, unexplained, changes>>

----------------------------------------------------------------------------
(* The host and the clock.                                                 *)
Change(h) == changes < MaxChanges /\ changes' = changes + 1 /\ host' = h

HostChanges ==
    /\ \/ Change([host EXCEPT !.container = @ + 1])
       \/ Change([host EXCEPT !.plugin = ~@])
       \/ Change([host EXCEPT !.outbound = ~@])
    /\ UNCHANGED <<hp, channel, main, package, blob, status, health, unexplained, requestFaults>>

NewStatus ==
    /\ status < MaxStatus
    /\ status' = status + 1
    /\ UNCHANGED <<host, hp, channel, main, package, blob, health, unexplained, requestFaults, changes>>

(* The reporting period, and the period after which an error state is      *)
(* triggered.                                                              *)
PeriodElapses ==
    /\ \/ ~health.due /\ health' = [health EXCEPT !.due = TRUE]
       \/ /\ health.ok = "recent" \/ health.err = "recent"
          /\ health' = [health EXCEPT !.due = TRUE, !.ok = "old", !.err = IF @ = "recent" THEN "old" ELSE @]
    /\ UNCHANGED <<host, hp, channel, main, package, blob, status, unexplained, requestFaults, changes>>

Download == StartZip \/ StartManifest \/ NextUri \/ DirectCall \/ HostCall \/ Refresh \/ OnDownloaded
Upload == StartUpload \/ ResetGoalState \/ PutVmStatus \/ Postpone \/ DirectUpload
Monitor == SendHostPluginHeartbeat \/ SendImdsHeartbeat
Environment == HostChanges \/ NewStatus \/ PeriodElapses

ChannelNext == Download \/ Upload \/ EnsureInitialized \/ UpdateGoalState \/ Monitor \/ Environment

ChannelSpec == ChannelInit /\ [][ChannelNext]_channelVars

(* Every request returns or raises, and every iteration of the main loop   *)
(* fetches the goal state and reports the status.                          *)
ChannelFairSpec ==
    /\ ChannelSpec
    /\ WF_channelVars(NextUri \/ DirectCall \/ HostCall \/ Refresh \/ OnDownloaded \/ EnsureInitialized
                 \/ ResetGoalState \/ PutVmStatus \/ Postpone \/ DirectUpload)
    /\ SF_channelVars(UpdateGoalState)
    /\ SF_channelVars(StartUpload)

----------------------------------------------------------------------------
(* download_zip_package keeps the promise of PackageDownload: a download   *)
(* that succeeds leaves the whole package, also over what an earlier one   *)
(* left; one that fails leaves neither file nor directory, apart from what *)
(* the agent tried to delete and could not, which it only logs.            *)
Promise == INSTANCE PackageDownload WITH
               running <- main.op = "zip",
               package <- IF main.op = "zip" THEN "absent" ELSE dir,
               scratch <- main.op # "zip" /\ zip # "none",
               stuck <- IF main.op = "zip" THEN {} ELSE stuck,
               result <- result

DownloadsAreAtomic == Promise!Spec

(* A download does not fail while the HostGAPlugin and the WireServer      *)
(* answer, for headers that are stale when the HostGAPlugin says so with   *)
(* 410: they are refreshed and the call repeated                           *)
(* (_call_hostplugin_with_container_check).  It may fail when the answer   *)
(* is 400, which is handled as if it were transient (HiddenByRetries).     *)
FailuresAreExplained == ~unexplained

(* An unhealthy signal is sent only when no healthy observation was made   *)
(* for the whole period of the error state (should_report, ErrorState).    *)
UnhealthyIsEarned == health.sent = "unhealthy" => health.sentOk = "old"

(* Every status reaches the blob, whole, or a later one does, as long as   *)
(* one of the two routes stays open in the end: through the HostGAPlugin,  *)
(* after its headers are refreshed, or directly (upload_status_blob).      *)
StatusIsUploaded ==
    <>[](host.plugin \/ host.outbound) =>
        \A v \in 1..MaxStatus : status = v ~> (blob.ver >= v /\ blob.page = Pages)

============================================================================

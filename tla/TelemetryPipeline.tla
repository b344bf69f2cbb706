------------------------- MODULE TelemetryPipeline -------------------------
(***************************************************************************)
(* Telemetry, from the threads that produce events to the WireServer.      *)
(*                                                                         *)
(* add_event writes each event to a file (common/event.py).  The thread    *)
(* CollectTelemetryEventsHandler reads those files, and the ones that      *)
(* extensions write, and puts the events in the queue of the thread        *)
(* SendTelemetryEventsHandler, which sends them in batches                 *)
(* (ga/collect_telemetry_events.py, ga/send_telemetry_events.py,           *)
(* WireClient.report_event).  The main thread starts them, restarts them   *)
(* when they die, and stops them in order on shutdown (ga/update.py).      *)
(*                                                                         *)
(* An event is a number; a file is the sequence of its events.  The file   *)
(* of an agent event has one event.  All extensions share one directory.   *)
(***************************************************************************)
EXTENDS Naturals, Sequences, FiniteSets, Functions

CONSTANTS
    Writers,        \* threads of the agent that add events
    MaxEvents,      \* bound: events added
    MaxFiles,       \* MAX_NUMBER_OF_EVENTS
    MaxPerPeriod,   \* _MAX_NUMBER_OF_EVENTS_PER_EXTENSION_PER_PERIOD
    BufferSize,     \* MAX_EVENT_BUFFER_SIZE, in events
    MaxDeaths       \* bound: times the sender dies of an unknown error

ASSUME BoundsAssumption ==
    /\ MaxEvents \in Nat /\ MaxFiles \in Nat \ {0} /\ MaxPerPeriod \in Nat \ {0}
    /\ BufferSize \in Nat \ {0} /\ MaxDeaths \in Nat
    /\ IsFiniteSet(Writers)

Events == 1..MaxEvents

(* The operations of the collector, which are also the providers: agent    *)
(* events and extension events are sent separately.                        *)
Ops == {"agent", "ext"}

VARIABLES
    files,      \* files[op]: the files in the directory, oldest first
    added,      \* events added so far
    writer,     \* what each writer is about to save
    (* the collector *)
    cpc,
    cop,        \* the periodic operation it runs, or runs next
    todo,       \* files it listed and has not yet processed
    cur,        \* the rest of the events of Head(todo)
    captured,   \* captured_extension_events_count
    (* the sender *)
    spc,
    queue,
    buf,        \* buf[op]: events buffered for a provider
    (* the main thread *)
    mpc,
    stopped,    \* the threads whose _stop_event is set
    (* history *)
    sent,       \* sent[e]: times e was handed to the WireServer
    dropped,    \* <<e, cause>>: events given up, and why
    timedOut,   \* did a join time out?
    deaths

writing   == <<files, added, writer>>
collector == <<cpc, cop, todo, cur, captured>>
sender    == <<spc, queue, buf>>
main      == <<mpc, stopped, timedOut>>
vars      == <<writing, collector, sender, main, sent, dropped, deaths>>

(* Why an event is given up.                                                *)
Causes == {"limit", "error", "stopped"}

NotWriting == [event |-> 0, oldest |-> <<>>]

TypeOK ==
    /\ \A op \in Ops : \A i \in DOMAIN files[op] : files[op][i] \in Seq(Events)
    /\ added \in 0..MaxEvents
    /\ \A w \in Writers : writer[w].event \in Events \cup {0}
    /\ cpc \in {"idle", "open", "check", "put", "remove", "clean", "exited"}
    /\ cop \in Ops
    /\ todo \in Seq(Seq(Events)) /\ cur \in Seq(Events)
    /\ captured \in 0..MaxPerPeriod
    /\ spc \in {"wait", "send", "rest", "exited"}
    /\ queue \in Seq(Events \X Ops)
    /\ buf \in [Ops -> SUBSET Events]
    /\ mpc \in {"running", "joinCollector", "stopSender", "joinSender", "exited"}
    /\ stopped \subseteq {"collector", "sender"}
    /\ sent \in [Events -> Nat]
    /\ dropped \subseteq Events \X Causes
    /\ timedOut \in BOOLEAN
    /\ deaths \in 0..MaxDeaths

Init ==
    /\ files = [op \in Ops |-> <<>>]
    /\ added = 0
    /\ writer = [w \in Writers |-> NotWriting]
    /\ cpc = "idle" /\ cop = "agent" /\ todo = <<>> /\ cur = <<>> /\ captured = 0
    /\ spc = "wait" /\ queue = <<>> /\ buf = [op \in Ops |-> {}]
    /\ mpc = "running" /\ stopped = {}
    /\ sent = [e \in Events |-> 0]
    /\ dropped = {}
    /\ timedOut = FALSE
    /\ deaths = 0

Drop(es, cause) == dropped' = dropped \cup (es \X {cause})

Running == mpc # "exited"

----------------------------------------------------------------------------
(* Producing events.                                                       *)

(* os.remove of a file of a directory, if it is there.                     *)
Without(dir, f) ==
    IF f \notin Range(dir) THEN dir
    ELSE LET k == CHOOSE i \in DOMAIN dir : dir[i] = f
         IN SubSeq(dir, 1, k - 1) \o SubSeq(dir, k + 1, Len(dir))

(* MUTANT of Oldest: one file too many is kept.                             *)
OldestButOne(dir) == SubSeq(dir, 1, Len(dir) - MaxFiles)

(* What save_event removes from a full directory.                          *)
Oldest(dir) ==
    IF Len(dir) >= MaxFiles THEN SubSeq(dir, 1, Len(dir) - (MaxFiles - 1)) ELSE <<>>

(* save_event lists the directory ...                                      *)
AddEvent(w) ==
    /\ Running /\ added < MaxEvents
    /\ writer[w] = NotWriting
    /\ added' = added + 1
    /\ writer' = [writer EXCEPT ![w] = [event |-> added', oldest |-> Oldest(files["agent"])]]
    /\ UNCHANGED <<files, collector, sender, main, sent, dropped, deaths>>

(* ... then removes the oldest files one by one; a file that somebody else *)
(* removed is an error, and the event is not saved ...                     *)
RemoveOldest(w) ==
    /\ Running
    /\ writer[w].oldest # <<>>
    /\ LET f == Head(writer[w].oldest)
       IN IF f \in Range(files["agent"])
          THEN /\ files' = [files EXCEPT !["agent"] = Without(@, f)]
               /\ writer' = [writer EXCEPT ![w].oldest = Tail(@)]
               /\ Drop({f[1]}, "limit")
          ELSE /\ writer' = [writer EXCEPT ![w] = NotWriting]
               /\ Drop({writer[w].event}, "error")
               /\ UNCHANGED files
    /\ UNCHANGED <<added, collector, sender, main, sent, deaths>>

(* ... and writes its own.                                                 *)
WriteFile(w) ==
    /\ Running
    /\ writer[w] # NotWriting
    /\ writer[w].oldest = <<>>
    /\ files' = [files EXCEPT !["agent"] = Append(@, <<writer[w].event>>)]
    /\ writer' = [writer EXCEPT ![w] = NotWriting]
    /\ UNCHANGED <<added, collector, sender, main, sent, dropped, deaths>>

SaveEvent(w) == RemoveOldest(w) \/ WriteFile(w)

(* An extension writes a file of one or two events.                        *)
ExtensionWrites ==
    /\ Running
    /\ \E n \in 1..2 :
          /\ added + n <= MaxEvents
          /\ added' = added + n
          /\ files' = [files EXCEPT !["ext"] = Append(@, [i \in 1..n |-> added + i])]
    /\ UNCHANGED <<writer, collector, sender, main, sent, dropped, deaths>>

----------------------------------------------------------------------------
(* The collector: one periodic operation after the other.                  *)

Other(op) == IF op = "agent" THEN "ext" ELSE "agent"

LatestFirst(dir) == [i \in DOMAIN dir |-> dir[Len(dir) + 1 - i]]

(* The operation ends.                                                     *)
EndOperation ==
    /\ cpc' = "idle"
    /\ cop' = Other(cop)
    /\ todo' = <<>>
    /\ cur' = <<>>
    /\ captured' = 0

(* The files are listed, unless the sender has stopped; those of           *)
(* extensions are taken latest first.                                      *)
StartOperation ==
    /\ Running /\ cpc = "idle"
    /\ "collector" \notin stopped
    /\ IF "sender" \in stopped
       THEN EndOperation
       ELSE /\ cpc' = "open"
            /\ todo' = IF cop = "agent" THEN files[cop] ELSE LatestFirst(files[cop])
            /\ UNCHANGED <<cop, cur, captured>>
    /\ UNCHANGED <<writing, sender, main, sent, dropped, deaths>>

CollectorExits ==
    /\ Running /\ cpc = "idle"
    /\ "collector" \in stopped
    /\ cpc' = "exited"
    /\ UNCHANGED <<writing, cop, todo, cur, captured, sender, main, sent, dropped, deaths>>

(* The next file is read; one that is gone is an error, which is counted.  *)
(* After the last one, the directory of the extensions is emptied.         *)
OpenFile ==
    /\ Running /\ cpc = "open"
    /\ IF todo = <<>>
       THEN IF cop = "agent" THEN EndOperation
                             ELSE cpc' = "clean" /\ UNCHANGED <<cop, todo, cur, captured>>
       ELSE IF Head(todo) \in Range(files[cop])
            THEN cpc' = "check" /\ cur' = Head(todo) /\ UNCHANGED <<cop, todo, captured>>
            ELSE todo' = Tail(todo) /\ UNCHANGED <<cpc, cop, cur, captured>>
    /\ UNCHANGED <<writing, sender, main, sent, dropped, deaths>>

(* The next event of the file: it may not parse, and enqueue_event raises  *)
(* ServiceStoppedError if the sender was stopped.  The file is then        *)
(* deleted all the same, and the operation on extension events gives up.   *)
NextEvent ==
    /\ Running /\ cpc = "check"
    /\ \/ /\ "sender" \notin stopped
          /\ cpc' = "put"
          /\ UNCHANGED <<cur, dropped>>
       \/ /\ "sender" \in stopped
          /\ cpc' = "remove"
          /\ Drop(Range(cur), "stopped")
          /\ UNCHANGED cur
       \/ /\ cpc' = IF Len(cur) = 1 THEN "remove" ELSE "check"
          /\ Drop({Head(cur)}, "error")
          /\ cur' = Tail(cur)
    /\ UNCHANGED <<writing, cop, todo, captured, sender, main, sent, deaths>>

(* The event is put in the queue.  At the limit the rest is skipped.       *)
PutEvent ==
    /\ Running /\ cpc = "put"
    /\ queue' = Append(queue, <<Head(cur), cop>>)
    /\ captured' = IF cop = "ext" THEN captured + 1 ELSE 0
    /\ LET full == captured' = MaxPerPeriod
       IN /\ cpc' = IF full \/ Len(cur) = 1 THEN "remove" ELSE "check"
          /\ Drop(IF full THEN Range(Tail(cur)) ELSE {}, "limit")
          /\ cur' = IF full THEN <<>> ELSE Tail(cur)
    /\ UNCHANGED <<writing, cop, todo, spc, buf, main, sent, deaths>>

(* MUTANT of RemoveFile: the file stays.                                    *)
KeepFile ==
    /\ Running /\ cpc = "remove"
    /\ IF cop = "ext" /\ cur # <<>>
       THEN EndOperation
       ELSE /\ cpc' = IF captured = MaxPerPeriod THEN "clean" ELSE "open"
            /\ todo' = Tail(todo)
            /\ cur' = <<>>
            /\ UNCHANGED <<cop, captured>>
    /\ UNCHANGED <<writing, sender, main, sent, dropped, deaths>>

(* The file is deleted, whatever became of its events.                     *)
RemoveFile ==
    /\ Running /\ cpc = "remove"
    /\ files' = [files EXCEPT ![cop] = Without(@, Head(todo))]
    /\ IF cop = "ext" /\ cur # <<>>      \* ServiceStoppedError
       THEN EndOperation
       ELSE /\ cpc' = IF captured = MaxPerPeriod THEN "clean" ELSE "open"
            /\ todo' = Tail(todo)
            /\ cur' = <<>>
            /\ UNCHANGED <<cop, captured>>
    /\ UNCHANGED <<added, writer, sender, main, sent, dropped, deaths>>

(* _ensure_all_events_directories_empty: also what was written meanwhile.  *)
CleanDirectory ==
    /\ Running /\ cpc = "clean"
    /\ files' = [files EXCEPT !["ext"] = <<>>]
    /\ Drop(UNION {Range(f) : f \in Range(files["ext"])}, "limit")
    /\ EndOperation
    /\ UNCHANGED <<added, writer, sender, main, sent, deaths>>

----------------------------------------------------------------------------
(* The sender.                                                             *)

(* One request with the events of a provider, which may fail.              *)
Send(es) ==
    \/ /\ sent' = [e \in Events |-> IF e \in es THEN sent[e] + 1 ELSE sent[e]]
       /\ UNCHANGED dropped
    \/ /\ Drop(es, "error")
       /\ UNCHANGED sent

(* An event is taken from the queue: the first one, or the next one while  *)
(* report_event goes on.  One that is too large, or cannot be encoded, is  *)
(* ignored; a full buffer is sent before the event is added.               *)
TakeEvent ==
    /\ Running /\ spc \in {"wait", "send"}
    /\ queue # <<>>
    /\ spc' = "send"
    /\ queue' = Tail(queue)
    /\ LET e  == Head(queue)[1]
           op == Head(queue)[2]
       IN \/ IF Cardinality(buf[op]) = BufferSize
             THEN Send(buf[op]) /\ buf' = [buf EXCEPT ![op] = {e}]
             ELSE buf' = [buf EXCEPT ![op] = @ \cup {e}] /\ UNCHANGED <<sent, dropped>>
          \/ Drop({e}, "error") /\ UNCHANGED <<buf, sent>>
    /\ UNCHANGED <<writing, collector, main, deaths>>

(* The queue is empty, for now.                                            *)
EndBatch ==
    /\ Running /\ spc = "send"
    /\ queue = <<>>
    /\ spc' = IF \A op \in Ops : buf[op] = {} THEN "wait" ELSE "rest"
    /\ UNCHANGED <<writing, collector, queue, buf, main, sent, dropped, deaths>>

(* What is left in the buffers is sent.                                    *)
SendRest ==
    /\ Running /\ spc = "rest"
    /\ \E op \in Ops :
          /\ buf[op] # {}
          /\ Send(buf[op])
          /\ buf' = [buf EXCEPT ![op] = {}]
          /\ spc' = IF buf[Other(op)] = {} THEN "wait" ELSE "rest"
    /\ UNCHANGED <<writing, collector, queue, main, deaths>>

(* It is told to stop, and the queue is empty.                             *)
SenderExits ==
    /\ Running /\ spc = "wait"
    /\ "sender" \in stopped /\ queue = <<>>
    /\ spc' = "exited"
    /\ UNCHANGED <<writing, collector, queue, buf, main, sent, dropped, deaths>>

(* An unknown error ends the thread; the events it had taken are lost.     *)
SenderDies ==
    /\ Running /\ spc \in {"send", "rest"}
    /\ deaths < MaxDeaths
    /\ deaths' = deaths + 1
    /\ spc' = "exited"
    /\ Drop(UNION {buf[op] : op \in Ops}, "error")
    /\ buf' = [op \in Ops |-> {}]
    /\ UNCHANGED <<writing, collector, queue, main, sent>>

----------------------------------------------------------------------------
(* The main thread, and what ThreadHandlerBase offers it.                  *)

(* start() clears the event that stop() sets.                              *)
Start(thread) == stopped' = stopped \ {thread}

Stop(thread) == stopped' = stopped \cup {thread}

(* join() returns when the thread has exited or after a timeout.           *)
Join(pc) == timedOut' = (timedOut \/ pc # "exited")

(* MUTANT of CheckThreads: a thread that dies stays dead.                   *)
NoThreadIsRestarted == FALSE /\ UNCHANGED vars

(* _check_threads_running, in every iteration of the main loop.            *)
CheckThreads ==
    /\ mpc = "running"
    /\ spc = "exited"
    /\ Start("sender")
    /\ spc' = "wait"
    /\ UNCHANGED <<writing, collector, queue, buf, mpc, timedOut, sent, dropped, deaths>>

(* MUTANT of StopCollector: all threads are told to stop at once.           *)
StopAll ==
    /\ mpc = "running"
    /\ stopped' = {"collector", "sender"}
    /\ mpc' = "joinCollector"
    /\ UNCHANGED <<writing, collector, sender, timedOut, sent, dropped, deaths>>

(* The loop ends and _shutdown begins.                                     *)
StopCollector ==
    /\ mpc = "running"
    /\ Stop("collector")
    /\ mpc' = "joinCollector"
    /\ UNCHANGED <<writing, collector, sender, timedOut, sent, dropped, deaths>>

JoinCollector ==
    /\ mpc = "joinCollector"
    /\ Join(cpc)
    /\ mpc' = "stopSender"
    /\ UNCHANGED <<writing, collector, sender, stopped, sent, dropped, deaths>>

StopSender ==
    /\ mpc = "stopSender"
    /\ Stop("sender")
    /\ mpc' = "joinSender"
    /\ UNCHANGED <<writing, collector, sender, timedOut, sent, dropped, deaths>>

(* The process exits, and takes with it the threads that did not.          *)
JoinSender ==
    /\ mpc = "joinSender"
    /\ Join(spc)
    /\ mpc' = "exited"
    /\ UNCHANGED <<writing, collector, sender, stopped, sent, dropped, deaths>>

Exited == mpc = "exited" /\ UNCHANGED vars

----------------------------------------------------------------------------

Collect ==
    \/ StartOperation \/ CollectorExits \/ OpenFile \/ NextEvent \/ PutEvent
    \/ RemoveFile \/ CleanDirectory

SendEvents == TakeEvent \/ EndBatch \/ SendRest \/ SenderExits

Shutdown == StopCollector \/ JoinCollector \/ StopSender \/ JoinSender

Next ==
    \/ \E w \in Writers : AddEvent(w) \/ SaveEvent(w)
    \/ ExtensionWrites
    \/ Collect
    \/ SendEvents
    \/ SenderDies
    \/ CheckThreads
    \/ Shutdown
    \/ Exited

Spec == Init /\ [][Next]_vars

(* Every thread keeps running; the agent need not ever stop.               *)
FairSpec ==
    /\ Spec
    /\ \A w \in Writers : WF_vars(SaveEvent(w))
    /\ WF_vars(Collect)
    /\ WF_vars(SendEvents)
    /\ WF_vars(CheckThreads)

----------------------------------------------------------------------------
(* Properties.                                                             *)

OnDisk(e) ==
    \/ \E op \in Ops : \E i \in DOMAIN files[op] : e \in Range(files[op][i])
    \/ \E w \in Writers : writer[w].event = e

(* After a shutdown in which no join timed out and no thread died, every   *)
(* event was handed over, is still in its file for the next process or in  *)
(* the hands of the thread that adds it, or was given up for a reason      *)
(* other than that the sender had stopped (the comment on the order of     *)
(* _shutdown at update.py:1150).                                           *)
CleanShutdown ==
    (mpc = "exited" /\ ~timedOut /\ deaths = 0)
        => \A e \in 1..added :
              \/ sent[e] > 0
              \/ OnDisk(e)
              \/ \E cause \in Causes \ {"stopped"} : <<e, cause>> \in dropped

(* No event is handed over twice, although its file is deleted only after  *)
(* it was put in the queue, and by two kinds of threads.                   *)
SentOnce == \A e \in Events : sent[e] <= 1

(* The directory of agent events stays within its limit, but for the       *)
(* threads that listed it before one of them wrote (save_event).           *)
DirectoryIsBounded == Len(files["agent"]) <= MaxFiles + Cardinality(Writers) - 1

(* Every event is sent, or given up, unless the agent exits: the sender is *)
(* restarted when it dies, and goes on with the queue it left.             *)
EventsLeave ==
    \A e \in Events :
        (e <= added) ~> (sent[e] > 0 \/ mpc # "running"
                            \/ \E cause \in Causes : <<e, cause>> \in dropped)
============================================================================

---------------------------- MODULE KernelEvents ----------------------------
(***************************************************************************)
(* The operation of the monitor thread that looks for soft lockups in the  *)
(* log of the kernel and reports them (ga/kernel_event_monitor.py).        *)
(*                                                                         *)
(* A line of the log is [time, cpu, stuck, length, id]; time is NoTime     *)
(* when the line does not start with one, cpu is NoCpu when the line is    *)
(* not about a lockup.  The state of the operation is a record: boot, the  *)
(* id of the boot; watermark and baseline, the times up to which lines are *)
(* processed; aggregates, per CPU; traces and bytes, what is kept of the   *)
(* log; file, the state file; reports, what was sent (history).            *)
(***************************************************************************)
EXTENDS Integers, Sequences, SequencesExt, FiniteSets, FiniteSetsExt, Functions

CONSTANTS
    MaxDetails,     \* _MAX_CPU_DETAILS
    MaxLines,       \* _MAX_CONTEXT_LINES_PER_TRACE
    MaxTraces,      \* _MAX_STACK_TRACES
    MaxBytes        \* _MAX_STACK_TRACES_BYTES

NoTime      == -1
NoCpu       == -1
UnknownBoot == 0 \* _UNKNOWN_BOOT_ID

NoAggregates == [cpu \in {} |-> 0]

NoFile == [there |-> FALSE, boot |-> UnknownBoot, time |-> 0]

Total(lines) == FoldLeft(LAMBDA n, l : n + l.length, 0, lines)

----------------------------------------------------------------------------
(* _get_saved_timestamp: the file is of use only in the boot that it was   *)
(* written in.                                                             *)
SavedTimestamp(file, boot) ==
    IF file.there /\ file.boot = boot /\ boot # UnknownBoot THEN file.time ELSE 0

(* __init__, when the agent starts.                                        *)
NewMonitor(file, boot, reports) ==
    [boot |-> boot, file |-> file, reports |-> reports,
     watermark |-> SavedTimestamp(file, boot), baseline |-> SavedTimestamp(file, boot),
     aggregates |-> NoAggregates, traces |-> <<>>, bytes |-> 0]

----------------------------------------------------------------------------
(* _append_line_to_stack_traces: every trace that is open gets the line,   *)
(* as long as there is room for it.                                        *)
AppendLine(s, line) ==
    LET step(t, i) ==
            LET trace == t.traces[i]
            IN IF trace.closed \/ Len(trace.lines) >= MaxLines THEN t
               ELSE IF t.bytes + line.length > MaxBytes THEN [t EXCEPT !.traces[i].closed = TRUE]
               ELSE [t EXCEPT !.traces[i].lines = Append(@, line), !.bytes = @ + line.length]
    IN FoldLeft(step, s, [i \in DOMAIN s.traces |-> i])

(* _index_of_last_repeat_cpu_trace; 0 when all are of different CPUs.      *)
LastRepeat(traces) ==
    Max({0} \cup {i \in DOMAIN traces : \E j \in 1..(i - 1) : traces[j].cpu = traces[i].cpu})

(* _start_log_context_capture: the trace of a CPU that has none takes the  *)
(* place of one of a CPU that has several.                                 *)
StartCapture(s, line) ==
    LET new    == [cpu |-> line.cpu, lines |-> <<line>>, closed |-> FALSE]
        full   == Len(s.traces) >= MaxTraces
        last   == LastRepeat(s.traces)
        freed  == IF full /\ last # 0 THEN Total(s.traces[last].lines) ELSE 0
        kept   == IF full THEN RemoveAt(s.traces, last) ELSE s.traces
    IN IF \/ full /\ line.cpu \in {t.cpu : t \in Range(s.traces)}
          \/ full /\ last = 0
          \/ s.bytes - freed + line.length > MaxBytes
       THEN s
       ELSE [s EXCEPT !.traces = Append(kept, new), !.bytes = @ - freed + line.length]

(* _parse_and_aggregate_soft_lockup_events, for one line.                  *)
Parse(s, line) ==
    LET seen == AppendLine([s EXCEPT !.watermark = line.time], line)
        old  == IF line.cpu \in DOMAIN s.aggregates THEN s.aggregates[line.cpu]
                ELSE [count |-> 0, longest |-> 0, last |-> 0]
        new  == [count |-> old.count + 1, longest |-> Max({old.longest, line.stuck}), last |-> line.time]
    IN IF line.time = NoTime \/ line.time <= s.baseline THEN s
       ELSE IF line.cpu = NoCpu THEN seen
       ELSE StartCapture([seen EXCEPT !.aggregates =
                             [cpu \in DOMAIN @ \cup {line.cpu} |-> IF cpu = line.cpu THEN new ELSE @[cpu]]],
                         line)

(* _report_events: whether or not the event can be sent, what was gathered *)
(* is forgotten.                                                           *)
Report(s, sent) ==
    LET cpus    == SetToSortSeq(DOMAIN s.aggregates, <)
        details == SubSeq(cpus, 1, Min({MaxDetails, Len(cpus)}))
        event   == [total |-> FoldLeft(LAMBDA n, cpu : n + s.aggregates[cpu].count, 0, cpus),
                    affected |-> Len(cpus),
                    truncated |-> Len(cpus) > MaxDetails,
                    details |-> [i \in DOMAIN details |-> <<details[i], s.aggregates[details[i]]>>],
                    traces |-> s.traces]
        clean   == [s EXCEPT !.aggregates = NoAggregates, !.traces = <<>>, !.bytes = 0]
    IN IF cpus = <<>> THEN s
       ELSE IF sent THEN [clean EXCEPT !.reports = Append(@, event)] ELSE clean

(* _save_state: a new file takes the place of the old one.                 *)
SaveState(s) == [s EXCEPT !.file = [there |-> TRUE, boot |-> s.boot, time |-> s.watermark]]

(* _operation.  lines are the ones that dmesg prints before it ends or     *)
(* fails; sent and saved say whether the event and the state could be      *)
(* written.                                                                *)
Operation(s, lines, sent, saved) ==
    LET started == [s EXCEPT !.baseline = s.watermark]
        parsed  == FoldLeft(Parse, started, lines)
        told    == Report(parsed, sent)
    IN IF told.watermark # told.baseline /\ saved THEN SaveState(told) ELSE told

----------------------------------------------------------------------------
(* What this code promises.                                                *)

(* All the lockups of the log are counted, each once, over scans, restarts *)
(* of the agent and reboots.                                               *)
CountedOnce(reports, lines) ==
    FoldLeft(LAMBDA n, r : n + r.total, 0, reports)
        = Cardinality({l \in lines : l.cpu # NoCpu /\ l.time # NoTime})

(* The traces stay within their limits, and so does what is known about    *)
(* them: bytes is their size.                                              *)
TracesAreBounded(s) ==
    /\ Len(s.traces) <= MaxTraces
    /\ \A t \in Range(s.traces) : Len(t.lines) <= MaxLines
    /\ s.bytes = FoldLeft(LAMBDA n, t : n + Total(t.lines), 0, s.traces)
    /\ s.bytes <= MaxBytes

(* As many CPUs as possible have a trace, if the bytes are no limit.       *)
DistinctCpusFirst(s) ==
    Cardinality({t.cpu : t \in Range(s.traces)}) = Min({MaxTraces, Cardinality(DOMAIN s.aggregates)})
============================================================================

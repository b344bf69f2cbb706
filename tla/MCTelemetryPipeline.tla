------------------------ MODULE MCTelemetryPipeline ------------------------
(***************************************************************************)
(* Instances of TelemetryPipeline for TLC: two writers on a directory of   *)
(* one file, which overflows, buffers of one event and a limit of one      *)
(* extension event per period, so that every limit is reached.  The events *)
(* themselves, and what is done periodically, are checked over bounded     *)
(* inputs.                                                                 *)
(***************************************************************************)
EXTENDS TelemetryPipeline, SequencesExt

CONSTANT None

Docs == INSTANCE EventDocs
Every == INSTANCE Periodic

----------------------------------------------------------------------------
(* Event documents.                                                        *)

Attempts == [found : BOOLEAN, json : {"good", "valueError", "otherError"}, xml : {"good", "bad"}]

ASSUME ReadingIsPatient ==
    \A attempts \in [1..Docs!Retries -> Attempts] : Docs!ReadingIsPatient(attempts)

(* A document with the given message and version, the other fields small,  *)
(* but for one that is left out or has the given value, in a second place  *)
(* or in its own.                                                          *)
Value(key, kind, len) == [key |-> key, kind |-> kind, len |-> len]

Plain(message, task, version) ==
    [i \in DOMAIN Docs!RequiredFields |->
        LET k == Docs!RequiredFields[i]
        IN Value(k, "text", CASE k = "message" -> message [] k = "taskname" -> task
                              [] k = "version" -> version [] OTHER -> 10)]

Lengths == {0, 1, 3000, 3072, 3073, 7000}

Documents ==
    LET plain == {Plain(m, t, v) : m \in Lengths, t \in Lengths, v \in Lengths}
        odd == {Value(k, kind, 5) : k \in ToSet(Docs!RequiredFields), kind \in {"text", "int", "null", "other"}}
        few == {Plain(m, 10, v) : m \in {0, 1, 7000}, v \in {1, 7000}}
    IN plain
       \cup {Append(d, o) : d \in few, o \in odd}
       \cup {[d EXCEPT ![i] = [o EXCEPT !.key = @]] : d \in few, o \in odd, i \in 1..8}
       \cup {RemoveAt(d, i) : d \in few, i \in 1..8}

ASSUME ExtensionEventsAreChecked ==
    \A d \in Documents : Docs!ValidEventsAreComplete(d) /\ Docs!GoodEventsAreValid(d)

Commons ==
    {Docs!InitializeVmInfo(Docs!InitialParams, v, i, c) :
        v \in BOOLEAN, i \in {"good", "badOrigin", "fails"}, c \in BOOLEAN}

(* What a file may hold: parameters of its own, of the agent, unknown.     *)
LegacyFiles ==
    {[i \in DOMAIN names |-> Docs!Param(names[i], "ext")] :
        names \in UNION {[1..n -> {"Name", "Message", "GAVersion", "VMId", "Foo"}] : n \in 0..3}}

ASSUME EventsAreComplete ==
    \A common \in Commons :
        /\ \A kind \in {"extension", "log", "metric"} : Docs!AgentEventsAreComplete(kind, common)
        /\ Docs!ExtensionEventsAreComplete(common)
        /\ \A f \in LegacyFiles, n \in {"WALinuxAgent", "Other"}, t \in {"extension", "log"} :
              Docs!LegacyEventsAreComplete(f, n, t, common)

ASSUME EncodingIsFaithful ==
    \A v \in [type : {"bool", "str"}, value : {"True", "False"}]
                \cup [type : {"int", "float", "str"}, value : {"0", "1"}]
                \cup {[type |-> "none", value |-> "None"]} :
        Docs!EncodingIsFaithful(v)

ASSUME DroppedEventsAreReported ==
    \A n \in 0..7, m \in 1..7 : Docs!DroppedEventsAreReported([i \in 1..n |-> i % m])

ASSUME OnlyChangesAreEmitted ==
    \A calls \in UNION {[1..n -> [event : {"a", "b"}, success : BOOLEAN]] : n \in 0..4} :
        Docs!OnlyChangesAreEmitted(calls)

----------------------------------------------------------------------------
(* Periodic operations.                                                    *)

(* Two operations with different periods through four rounds.              *)
Rounds == [1..4 -> [takes : {0, 25, 61}, error : {None, "e1", "e2"}]]

AtStart == [now |-> 0, ops |-> <<Every!NewOperation(20, 0), Every!NewOperation(50, 0)>>]

ASSUME OperationsArePeriodic ==
    \A rounds \in Rounds :
        LET end == FoldLeft(Every!Round, AtStart, rounds)
            before == FoldLeft(Every!Round, AtStart, SubSeq(rounds, 1, 3))
        IN /\ Every!RunsAreTimely(end, 61)
           /\ \A i \in DOMAIN end.ops :
                 /\ Every!RunsAreApart(end.ops[i])
                 /\ Every!WarningsAreApart(end.ops[i])
                 /\ Every!WarningsAreNotLost(before.ops[i],
                       [now |-> before.now, takes |-> rounds[4].takes, error |-> rounds[4].error])

(* Calls at increasing times, some of them forced.                         *)
Delta == [a |-> 2, b |-> 3]

Calls ==
    {[i \in DOMAIN c |-> [key |-> c[i].key, force |-> c[i].force, now |-> 2 * i + c[i].late]] :
        c \in [1..4 -> [key : {"a", "b"}, force : BOOLEAN, late : {0, 1}]]}

ASSUME OutputsArePeriodic ==
    \A calls \in Calls :
        LET with(Op(_, _)) == FoldLeft(Op, Every!NothingYet, calls)
        IN /\ Every!OnePerPeriod(with(LAMBDA s, c : Every!AddPeriodic(s, Delta[c.key], c)), Delta)
           /\ Every!OnePerPeriod(with(LAMBDA s, c : Every!LogPeriodic(s, Delta[c.key], c)), Delta)
           /\ Every!OnePerPeriod(with(LAMBDA s, c : Every!ReportMetric(s, Delta, c)), Delta)
           /\ Every!ResetPeriodic(with(LAMBDA s, c : Every!ReportMetric(s, Delta, c))).last
                 = Every!NothingYet.last

----------------------------------------------------------------------------
(* Soft lockups: two traces of two lines, with few bytes and with many.    *)
Lockups == INSTANCE KernelEvents WITH MaxDetails <- 1, MaxLines <- 2, MaxTraces <- 2, MaxBytes <- 5
Roomy   == INSTANCE KernelEvents WITH MaxDetails <- 1, MaxLines <- 2, MaxTraces <- 2, MaxBytes <- 99

KernelLine(time, cpu, length) == [time |-> time, cpu |-> cpu, stuck |-> 20 + cpu, length |-> length]

(* One scan of up to five lines, of three CPUs or of none.                 *)
KernelLogs(lengths) ==
    {[i \in 1..5 |-> KernelLine(i, l[i].cpu, l[i].length)] :
        l \in [1..5 -> [cpu : {Lockups!NoCpu, 1, 2, 3}, length : lengths]]}

ASSUME TracesAreBounded ==
    /\ \A log \in KernelLogs({1, 2}) :
          Lockups!TracesAreBounded(
              FoldLeft(Lockups!Parse, Lockups!NewMonitor(Lockups!NoFile, 1, <<>>), log))
    /\ \A log \in KernelLogs({1}) :
          Roomy!DistinctCpusFirst(
              FoldLeft(Roomy!Parse, Roomy!NewMonitor(Roomy!NoFile, 1, <<>>), log))

(* A log that is scanned up to the line a, up to b and to its end, with    *)
(* restarts of the agent in between, and the log of another boot.  Lines   *)
(* of the same time are scanned together.                                  *)
ASSUME LockupsAreCountedOnce ==
    \A times \in {t \in [1..4 -> 1..3 \cup {Lockups!NoTime}] :
                    \A i, j \in 1..4 : (i < j /\ t[j] # Lockups!NoTime) => t[i] <= t[j]},
       a, b \in 0..4, restarts \in [1..2 -> BOOLEAN], cpu \in {1, Lockups!NoCpu} :
        LET log == [i \in 1..4 |-> [KernelLine(times[i], IF i = 2 THEN cpu ELSE i, 1) EXCEPT !.stuck = i]]
            other == <<KernelLine(1, 1, 1), KernelLine(2, 2, 1)>>
            upTo(n) == SubSeq(log, 1, n)
            known(n) == {log[i].time : i \in 1..n} \ {Lockups!NoTime}
            later(n) == {log[i].time : i \in (n + 1)..4} \ {Lockups!NoTime}
            restart(s, yes) == IF yes THEN Lockups!NewMonitor(s.file, s.boot, s.reports) ELSE s
            one   == Lockups!Operation(Lockups!NewMonitor(Lockups!NoFile, 1, <<>>), upTo(a), TRUE, TRUE)
            two   == Lockups!Operation(restart(one, restarts[1]), upTo(b), TRUE, TRUE)
            three == Lockups!Operation(restart(two, restarts[2]), log, TRUE, TRUE)
            next  == Lockups!Operation(Lockups!NewMonitor(three.file, 2, three.reports), other, TRUE, TRUE)
        IN (\A n \in {a, b} : \A t \in known(n), u \in later(n) : t < u)
             => /\ Lockups!CountedOnce(three.reports, Range(log))
                /\ Lockups!CountedOnce(next.reports, Range(log) \cup {[l EXCEPT !.stuck = 9] : l \in Range(other)})
============================================================================

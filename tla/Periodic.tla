------------------------------ MODULE Periodic ------------------------------
(***************************************************************************)
(* What the agent does every so often: the periodic operations of its      *)
(* threads (ga/periodic_operation.py, ga/thread_handler_base.py), and the  *)
(* events, log messages and metrics that are limited to one per period     *)
(* (common/event.py, common/logger.py, ga/monitor.py).  Times are numbers. *)
(***************************************************************************)
EXTENDS Integers, Sequences, SequencesExt, FiniteSets, FiniteSetsExt

CONSTANT None

WarningPeriod == 60 \* _LOG_WARNING_PERIOD, in minutes

----------------------------------------------------------------------------
(* PeriodicOperation.__init__.                                             *)
NewOperation(period, now) ==
    [period |-> period, next |-> now, warning |-> None, warned |-> None, runs |-> <<>>, logged |-> <<>>]

Due(op, now) == op.next <= now

(* run: the operation takes some time and may fail with an error; when it  *)
(* ends the period starts.  The same error is logged once in an hour.      *)
(* runs and logged are the history.                                        *)
RunOperation(op, call) ==
    LET end  == call.now + call.takes
        ran  == [op EXCEPT !.next = end + op.period,
                           !.runs = Append(@, [due |-> op.next, start |-> call.now, end |-> end])]
        news == \/ op.warned = None
                \/ call.error # op.warning
                \/ end >= op.warned + WarningPeriod
    IN IF ~Due(op, call.now) THEN op
       ELSE IF call.error = None \/ ~news THEN ran
       ELSE [ran EXCEPT !.warning = call.error, !.warned = end,
                        !.logged = Append(@, [error |-> call.error, time |-> end])]

(* sleep_until_next_operation: how long the thread sleeps if nobody stops  *)
(* it.                                                                     *)
SleepTime(ops, now) ==
    LET next == Min({ops[i].next : i \in DOMAIN ops})
    IN IF next > now THEN next - now ELSE 0

(* The loop of a thread from the given time on: run what is due, sleep     *)
(* until the next is, as often as there are calls.  A call is              *)
(* [takes, error] for all operations of the round.                         *)
Round(state, call) ==
    LET step(s, i) ==
            LET due == Due(s.ops[i], s.now)
                c == [now |-> s.now, takes |-> call.takes, error |-> call.error]
            IN [ops |-> [s.ops EXCEPT ![i] = RunOperation(@, c)],
                now |-> IF due THEN s.now + call.takes ELSE s.now]
        ran == FoldLeft(step, state, [i \in DOMAIN state.ops |-> i])
    IN [ran EXCEPT !.now = @ + SleepTime(ran.ops, ran.now)]

----------------------------------------------------------------------------
(* One per period: when the last one was is kept for each key.             *)

(* EventLogger.is_period_elapsed and add_periodic.                         *)
IsPeriodElapsed(last, delta, key, now) == key \notin DOMAIN last \/ last[key] + delta <= now

Remember(last, key, now) ==
    [k \in DOMAIN last \cup {key} |-> IF k = key THEN now ELSE last[k]]

AddPeriodic(s, delta, c) ==
    IF c.force \/ IsPeriodElapsed(s.last, delta, c.key, c.now)
    THEN [last |-> Remember(s.last, c.key, c.now), out |-> Append(s.out, c)]
    ELSE s

(* Logger._is_period_elapsed and _periodic.                                *)
LogPeriodic(s, delta, c) == AddPeriodic(s, delta, [c EXCEPT !.force = FALSE])

(* PollResourceUsage._operation: each metric has its own period.           *)
ReportMetric(s, delta, c) == AddPeriodic(s, delta[c.key], [c EXCEPT !.force = FALSE])

(* ResetPeriodicLogMessages: reset_periodic of the logger.                 *)
ResetPeriodic(s) == [s EXCEPT !.last = [k \in {} |-> 0]]

NothingYet == [last |-> [k \in {} |-> 0], out |-> <<>>]

----------------------------------------------------------------------------
(* What this code promises.                                                *)

(* An operation that fails, or takes longer than its period, waits for its *)
(* period all the same: the runs of an operation are a period apart.       *)
RunsAreApart(op) ==
    \A i \in 1..(Len(op.runs) - 1) : op.runs[i + 1].start >= op.runs[i].end + op.period

(* An error that keeps coming is logged at most once in an hour.           *)
WarningsAreApart(op) ==
    \A i \in 1..(Len(op.logged) - 1) :
        op.logged[i + 1].error = op.logged[i].error
            => op.logged[i + 1].time >= op.logged[i].time + WarningPeriod

(* ... but an error that differs from the last one logged always is, and   *)
(* so is one that has not been logged for an hour.                         *)
WarningsAreNotLost(op, call) ==
    LET after == RunOperation(op, call)
    IN (Due(op, call.now) /\ call.error # None
          /\ (op.logged = <<>> \/ Last(op.logged).error # call.error
                 \/ Last(op.logged).time + WarningPeriod <= call.now))
       => Len(after.logged) = Len(op.logged) + 1

(* No operation starves: it is late at most by the time that each of the   *)
(* others takes, once.                                                     *)
RunsAreTimely(state, longest) ==
    \A i \in DOMAIN state.ops : \A j \in DOMAIN state.ops[i].runs :
        LET run == state.ops[i].runs[j]
        IN run.start <= run.due + (Len(state.ops) - 1) * longest

(* Before an output of a key that is not forced, the period of the key has *)
(* gone by since all the earlier ones, as long as nothing was reset.       *)
OnePerPeriod(s, delta) ==
    \A i, j \in DOMAIN s.out :
        (i < j /\ s.out[i].key = s.out[j].key /\ ~s.out[j].force)
            => s.out[j].now >= s.out[i].now + delta[s.out[i].key]
============================================================================

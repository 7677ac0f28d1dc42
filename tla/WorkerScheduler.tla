-------------------------- MODULE WorkerScheduler --------------------------
(***************************************************************************)
(* The scheduler that calls the worker's tick (worker/scheduler): its      *)
(* modes, and the delays of the minute field of a cron expression, whose   *)
(* other four fields the code does not read.                               *)
(*                                                                         *)
(* Time is counted in half seconds, so that a tick may begin within a      *)
(* second; the clock of the delays and the one of the sleeps are one.      *)
(***************************************************************************)
EXTENDS Naturals

CONSTANTS
    Minutes,     \* minute fields a configuration may have
    Starts,      \* when the scheduler may start
    Durations,   \* how long a tick may take
    Interval,    \* poll_interval
    MaxTicks     \* bound

Second == 2
Minute == 60 * Second
Hour == 60 * Minute

\* "*", "*/n", a number; "bad" is what int() refuses, lists and ranges too.
Fields == [kind : {"every", "step", "at", "bad"}, n : Nat]

ASSUME SchedulerAssumption ==
    /\ Minutes \subseteq Fields /\ \A f \in Minutes : f.kind = "at" => f.n < 60
    /\ Starts \subseteq Nat /\ Durations \subseteq Nat
    /\ Interval \in Nat /\ MaxTicks \in Nat

VARIABLES
    config,  \* mode, and the minute field of cron
    step,    \* whether a tick runs, the scheduler waits, or it ended
    now,     \* time since some full hour
    slept,   \* when the last wait began
    ticks    \* ticks begun

svars == <<config, step, now, slept, ticks>>

-------------------------------------------------------------------------
Ceiling(a, b) == IF a < b THEN b ELSE a
HourStart == now - (now % Hour)

\* "*/n": the next multiple of n, or the full hour.
StepDelay(n) ==
    LET minute == (((now % Hour) \div Minute) \div n + 1) * n
    IN  HourStart + (IF minute >= 60 THEN Hour ELSE minute * Minute) - now

\* "*": the fraction of the second is not looked at.
EveryDelay == Minute - Second * ((now % Minute) \div Second)

\* A number: in this hour or the next.  Mutant: the minute of now once more.
AtAgain(n) ==
    LET next == HourStart + n * Minute
    IN  (IF next < now THEN next + Hour ELSE next) - now
AtDelay(n) ==
    LET next == HourStart + n * Minute
    IN  (IF next <= now THEN next + Hour ELSE next) - now

\* _next_delay_seconds, at least a second.
Delay ==
    Ceiling(IF config.mode = "interval" THEN Interval
            ELSE CASE config.minute.kind = "step" -> StepDelay(config.minute.n)
                   [] config.minute.kind = "every" -> EveryDelay
                   [] config.minute.kind = "at" -> AtDelay(config.minute.n),
            Second)
Computable ==
    config.mode = "cron" =>
        config.minute.kind # "bad" /\ (config.minute.kind = "step" => config.minute.n > 0)

-------------------------------------------------------------------------
SchedulerInit ==
    /\ config \in [mode : {"once", "interval", "cron"}, minute : Minutes]
    /\ now \in Starts /\ slept = now
    /\ step = "tick" /\ ticks = 1

\* The callback returns; in the modes once and manual that is the end.
TickEnds(duration) ==
    /\ step = "tick" /\ now' = now + duration
    /\ step' = IF config.mode = "once" THEN "ended" ELSE "delay"
    /\ UNCHANGED <<config, slept, ticks>>

TickRaises ==
    /\ step = "tick" /\ step' = "raised"
    /\ UNCHANGED <<config, now, slept, ticks>>

Wait ==
    /\ step = "delay" /\ Computable
    /\ step' = "wait" /\ slept' = now
    /\ UNCHANGED <<config, now, ticks>>

\* A minute that cannot be read ends the daemon, after its first tick.
DelayRaises ==
    /\ step = "delay" /\ ~Computable /\ step' = "raised"
    /\ UNCHANGED <<config, now, slept, ticks>>

\* The last of the sleeps ends at the deadline or a little later.
SleepEnds(late) ==
    /\ step = "wait" /\ ticks < MaxTicks
    /\ now' = now + Delay + late
    /\ step' = "tick" /\ ticks' = ticks + 1
    /\ UNCHANGED <<config, slept>>

\* The token is looked at between the sleeps and before a tick.
Cancelled ==
    /\ step \in {"delay", "wait"} /\ step' = "ended"
    /\ UNCHANGED <<config, now, slept, ticks>>

\* The deadline passes between the test of the loop and the sleep, whose
\* length is then negative.
SleepRaises ==
    /\ step = "wait" /\ step' = "raised"
    /\ UNCHANGED <<config, now, slept, ticks>>

SchedulerNext ==
    \/ \E duration \in Durations : TickEnds(duration)
    \/ TickRaises \/ Wait \/ DelayRaises \/ Cancelled \/ SleepRaises
    \/ \E late \in {0, 1} : SleepEnds(late)

SchedulerSpec == SchedulerInit /\ [][SchedulerNext]_svars

-------------------------------------------------------------------------
SchedulerTypeOK ==
    /\ config \in [mode : {"once", "interval", "cron"}, minute : Minutes]
    /\ step \in {"tick", "delay", "wait", "ended", "raised"}
    /\ now \in Nat /\ slept \in 0 .. now /\ ticks \in 1 .. Ceiling(MaxTicks, 1)

\* The minutes a field names, as cron has them, and the first one after a time.
Matches(field, minute) ==
    CASE field.kind = "every" -> TRUE
      [] field.kind = "step" -> minute % field.n = 0
      [] field.kind = "at" -> minute = field.n
NextMatch(field, time) ==
    LET later == {m \in (time \div Minute + 1) .. (time \div Minute + 60) : Matches(field, m % 60)}
    IN  Minute * (CHOOSE m \in later : \A k \in later : m <= k)

\* A tick of the mode cron begins within a second of the first matching minute
\* after the last tick ended: none is skipped, none taken twice, also when a
\* tick is short enough to end in the minute it began in or runs over several.
CronHitsTarget ==
    config.mode = "cron" /\ step = "tick" /\ ticks > 1 =>
        LET target == NextMatch(config.minute, slept)
        IN  target <= now /\ now <= target + Second

=========================================================================

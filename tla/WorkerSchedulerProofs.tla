----------------------- MODULE WorkerSchedulerProofs ------------------------
(***************************************************************************)
(* What holds of the scheduler for any interval, any minute fields, any    *)
(* duration of a tick and any time of its start: its types, and that the   *)
(* arithmetic of the delays meets the minutes a cron expression names.     *)
(* Last, that MCServices runs the scheduler, the browser and the bot each  *)
(* as its own specification says.                                          *)
(***************************************************************************)
EXTENDS MCServices, BrowserTabsProofs, DiscordGatewayProofs

-------------------------------------------------------------------------
\* Quotients and remainders: of a time by minutes and hours, and of a minute
\* by the step of "*/n".

LEMMA Units == Second = 2 /\ Minute = 120 /\ Hour = 7200
BY DEF Second, Minute, Hour

LEMMA InMinute ==
    ASSUME NEW t \in Nat
    PROVE  t % 120 \in 0 .. 119 /\ t \div 120 \in Nat /\ t = 120 * (t \div 120) + (t % 120)
OBVIOUS

LEMMA InHour ==
    ASSUME now \in Nat
    PROVE  /\ now \div 7200 \in Nat /\ (now % 7200) \div 120 \in 0 .. 59
           /\ HourStart = 7200 * (now \div 7200)
           /\ now \div 120 = 60 * (now \div 7200) + ((now % 7200) \div 120)
<1>1. HourStart = now - (now % 7200)
  BY Units DEF HourStart
<1>2. HourStart = 7200 * (now \div 7200)
  BY <1>1
<1> QED
  BY <1>2

LEMMA MinuteOfHour ==
    ASSUME NEW h \in Nat, NEW j \in 0 .. 59
    PROVE  (60 * h + j) % 60 = j
OBVIOUS

LEMMA Quotient ==
    ASSUME NEW m \in Nat, NEW n \in Nat, n > 0
    PROVE  /\ m \div n \in Nat /\ m % n \in 0 .. n - 1
           /\ m = (m \div n) * n + (m % n)
OBVIOUS

LEMMA Multiple ==
    ASSUME NEW q \in Nat, NEW n \in Nat, n > 0
    PROVE  (q * n) % n = 0
OBVIOUS

LEMMA Larger ==
    ASSUME NEW p \in Nat, NEW q \in Nat, NEW n \in Nat, p <= q
    PROVE  p * n <= q * n
OBVIOUS

\* The next multiple of n is the first one after m.
LEMMA NextMultiple ==
    ASSUME NEW m \in Nat, NEW n \in Nat, n > 0, NEW v, v = (m \div n + 1) * n
    PROVE  v \in Nat /\ m < v /\ v % n = 0 /\ \A j \in Nat : m < j /\ j < v => j % n # 0
<1> DEFINE q == m \div n
<1>1. q \in Nat /\ m % n \in 0 .. n - 1 /\ m = q * n + (m % n)
  BY Quotient
<1>0. v = (q + 1) * n
  OBVIOUS
<1> HIDE DEF q
<1>2. q * n \in Nat /\ (q + 1) * n = q * n + n
  BY <1>1
<1>3. v % n = 0
  BY <1>0, <1>1, Multiple
<1>4. ASSUME NEW j \in Nat, m < j, j < v, j % n = 0 PROVE FALSE
  <2> DEFINE p == j \div n
  <2>1. p \in Nat /\ j = p * n
    BY <1>4, Quotient
  <2> HIDE DEF p
  <2>2. CASE p <= q
    <3>1. p * n <= q * n
      BY <1>1, <2>1, <2>2, Larger
    <3> QED
      BY <1>1, <1>4, <2>1, <3>1
  <2>3. CASE q + 1 <= p
    <3>1. (q + 1) * n <= p * n
      BY <1>1, <2>1, <2>3, Larger
    <3> QED
      BY <1>0, <1>1, <1>2, <1>4, <2>1, <3>1
  <2> QED
    BY <1>1, <2>1, <2>2, <2>3
<1> QED
  BY <1>0, <1>1, <1>2, <1>3, <1>4

-------------------------------------------------------------------------
\* The delays.  The first match after a time, when one minute is known to be it.

LEMMA NextMatchIs ==
    ASSUME NEW field, NEW time \in Nat,
           NEW k \in (time \div 120 + 1) .. (time \div 120 + 60), Matches(field, k % 60),
           \A j \in (time \div 120 + 1) .. (k - 1) : ~Matches(field, j % 60)
    PROVE  NextMatch(field, time) = 120 * k
<1> DEFINE later == {m \in (time \div 120 + 1) .. (time \div 120 + 60) : Matches(field, m % 60)}
<1>1. time \div 120 \in Nat
  OBVIOUS
<1>2. k \in later
  OBVIOUS
<1>3. \A j \in later : j \in Nat /\ k <= j
  BY <1>1
<1>4. NextMatch(field, time) = 120 * (CHOOSE m \in later : \A j \in later : m <= j)
  BY Units DEF NextMatch
<1> HIDE DEF later
<1>5. (CHOOSE m \in later : \A j \in later : m <= j) = k
  <2>1. \A m \in later : (\A j \in later : m <= j) => m = k
    BY <1>1, <1>2, <1>3
  <2> QED
    BY <1>2, <1>3, <2>1
<1> QED
  BY <1>4, <1>5

Reached(delay) ==
    LET target == NextMatch(config.minute, now)
    IN  target \in Nat /\ delay \in Nat /\ target <= now + delay /\ now + delay <= target + 1

\* "*": a minute after the one of now, early by the fraction of a second that
\* the code does not look at, and late by the same.
LEMMA EveryReaches ==
    ASSUME now \in Nat, config.minute.kind = "every"
    PROVE  Reached(Ceiling(EveryDelay, 2))
<1> DEFINE k == now \div 120 + 1
<1>1. k \in Nat /\ k \in (now \div 120 + 1) .. (now \div 120 + 60)
  OBVIOUS
<1>2. Matches(config.minute, k % 60)
  BY DEF Matches
<1>3. NextMatch(config.minute, now) = 120 * k
  BY <1>1, <1>2, NextMatchIs
<1>4. EveryDelay = 120 - 2 * ((now % 120) \div 2)
  BY Units DEF EveryDelay
<1>5. LET d == 120 - 2 * ((now % 120) \div 2)
      IN  d \in Nat /\ d >= 2 /\ now + d \in {120 * k, 120 * k + 1}
  OBVIOUS
<1> HIDE DEF k
<1>6. Ceiling(EveryDelay, 2) = EveryDelay
  BY <1>4, <1>5 DEF Ceiling
<1> QED
  BY <1>1, <1>3, <1>4, <1>5, <1>6 DEF Reached

\* A delay that ends at the first match, stretched to a second.
LEMMA ExactReaches ==
    ASSUME now \in Nat, NEW k \in Nat, NextMatch(config.minute, now) = 120 * k,
           now \div 120 + 1 <= k
    PROVE  Reached(Ceiling(120 * k - now, 2))
<1>1. 120 * k - now \in Nat /\ 120 * k - now >= 1
  OBVIOUS
<1> QED
  BY <1>1 DEF Reached, Ceiling

\* A number: in this hour if it lies ahead, in the next otherwise.
LEMMA AtReaches ==
    ASSUME now \in Nat, config.minute.kind = "at", config.minute.n \in 0 .. 59
    PROVE  Reached(Ceiling(AtDelay(config.minute.n), 2))
<1> DEFINE n == config.minute.n
           h == now \div 7200
           m == (now % 7200) \div 120
           k == IF n <= m THEN 60 * h + n + 60 ELSE 60 * h + n
<1>0. n \in 0 .. 59
  OBVIOUS
<1>1. /\ h \in Nat /\ m \in 0 .. 59 /\ now \div 120 = 60 * h + m
      /\ HourStart = 7200 * h
  BY InHour
<1>2. now \div 120 \in Nat /\ now = 120 * (now \div 120) + (now % 120) /\ now % 120 \in 0 .. 119
  BY InMinute
<1>3. n = config.minute.n
  OBVIOUS
<1> HIDE DEF n, h, m
<1> USE <1>0
<1>4. k \in Nat /\ k \in (now \div 120 + 1) .. (now \div 120 + 60) /\ k % 60 = n
  <2>1. (60 * h + n) % 60 = n
    BY <1>1, MinuteOfHour
  <2>2. (60 * (h + 1) + n) % 60 = n
    BY <1>1, MinuteOfHour
  <2> QED
    BY <1>1, <2>1, <2>2
<1>5. \A j \in Nat : Matches(config.minute, j) <=> j = n
  BY <1>3 DEF Matches
<1>6. ASSUME NEW j \in (now \div 120 + 1) .. (k - 1) PROVE j % 60 # n
  BY <1>1, <1>4, <1>6
<1>7. NextMatch(config.minute, now) = 120 * k
  <2>1. \A j \in (now \div 120 + 1) .. (k - 1) : j % 60 \in Nat
    BY <1>2, <1>4
  <2> HIDE DEF k
  <2>2. Matches(config.minute, k % 60)
    BY <1>4, <1>5
  <2>3. \A j \in (now \div 120 + 1) .. (k - 1) : ~Matches(config.minute, j % 60)
    BY <1>5, <1>6, <2>1
  <2> QED
    BY <1>4, <2>2, <2>3, NextMatchIs
<1>8. AtDelay(n) = 120 * k - now
  <2>2. AtDelay(n) = (IF 7200 * h + n * 120 <= now THEN 7200 * h + n * 120 + 7200
                      ELSE 7200 * h + n * 120) - now
    BY <1>1, Units DEF AtDelay
  <2>3. 7200 * h + n * 120 <= now <=> n <= m
    BY <1>1, <1>2
  <2> QED
    BY <1>1, <2>2, <2>3
<1> HIDE DEF k
<1> QED
  BY <1>3, <1>4, <1>7, <1>8, ExactReaches

\* "*/n": the next multiple of n within the hour, the full hour if there is
\* none, so that the last gap of an hour may be shorter.
LEMMA StepReaches ==
    ASSUME now \in Nat, config.minute.kind = "step", config.minute.n \in Nat, config.minute.n > 0
    PROVE  Reached(Ceiling(StepDelay(config.minute.n), 2))
<1> DEFINE n == config.minute.n
           h == now \div 7200
           m == (now % 7200) \div 120
           v == (m \div n + 1) * n
           k == IF v >= 60 THEN 60 * h + 60 ELSE 60 * h + v
<1>1. /\ h \in Nat /\ m \in 0 .. 59 /\ now \div 120 = 60 * h + m
      /\ HourStart = 7200 * h
  BY InHour
<1>2. n \in Nat /\ n > 0 /\ n = config.minute.n
  OBVIOUS
<1>3. StepDelay(n) = 7200 * h + (IF v >= 60 THEN 7200 ELSE v * 120) - now
  BY <1>1, Units DEF StepDelay
<1> HIDE DEF n, h, m
<1>0. v = (m \div n + 1) * n
  OBVIOUS
<1> HIDE DEF v
<1>4. v \in Nat /\ m < v /\ v % n = 0 /\ \A j \in Nat : m < j /\ j < v => j % n # 0
  <2>1. m \in Nat
    BY <1>1
  <2>2. n \in Nat /\ n > 0
    BY <1>2
  <2>3. \A x : x = (m \div n + 1) * n =>
            x \in Nat /\ m < x /\ x % n = 0 /\ \A j \in Nat : m < j /\ j < x => j % n # 0
    BY <2>1, <2>2, NextMultiple, Zenon
  <2> QED
    BY <1>0, <2>3, Zenon
<1>5. k \in Nat /\ k \in (now \div 120 + 1) .. (now \div 120 + 60)
  BY <1>1, <1>4
<1>6. k % 60 = IF v >= 60 THEN 0 ELSE v
  <2>1. (60 * (h + 1) + 0) % 60 = 0
    BY <1>1, MinuteOfHour
  <2>2. v < 60 => (60 * h + v) % 60 = v
    BY <1>1, <1>4, MinuteOfHour
  <2> QED
    BY <1>1, <1>4, <2>1, <2>2
<1>7. \A j \in Nat : Matches(config.minute, j) <=> j % n = 0
  BY <1>2 DEF Matches
<1>8. Matches(config.minute, k % 60)
  <2>1. 0 % n = 0
    BY <1>2
  <2> QED
    BY <1>4, <1>6, <1>7, <2>1
<1>9. ASSUME NEW j \in (now \div 120 + 1) .. (k - 1) PROVE ~Matches(config.minute, j % 60)
  <2> DEFINE i == j - 60 * h
  <2>1. i \in 0 .. 59 /\ m < i /\ i < v /\ j = 60 * h + i
    BY <1>1, <1>4, <1>5, <1>9
  <2> HIDE DEF i
  <2>2. j % 60 = i
    BY <1>1, <2>1, MinuteOfHour
  <2> QED
    BY <1>4, <1>7, <2>1, <2>2
<1>10. StepDelay(n) = 120 * k - now
  BY <1>1, <1>3, <1>4
<1> HIDE DEF k
<1>11. NextMatch(config.minute, now) = 120 * k
  BY <1>5, <1>8, <1>9, NextMatchIs
<1> QED
  BY <1>2, <1>5, <1>10, <1>11, ExactReaches

LEMMA CronReaches ==
    ASSUME SchedulerTypeOK, config.mode = "cron", Computable
    PROVE  Reached(Delay)
<1>1. now \in Nat /\ config.minute \in Fields
  BY SchedulerAssumption DEF SchedulerTypeOK
<1>2. CASE config.minute.kind = "every"
  <2>1. Delay = Ceiling(EveryDelay, 2)
    BY <1>2, Units DEF Delay
  <2> QED
    BY <1>1, <1>2, <2>1, EveryReaches
<1>3. CASE config.minute.kind = "at"
  <2>1. Delay = Ceiling(AtDelay(config.minute.n), 2)
    BY <1>3, Units DEF Delay
  <2>2. config.minute.n \in 0 .. 59
    BY <1>1, <1>3, SchedulerAssumption DEF SchedulerTypeOK, Fields
  <2> QED
    BY <1>1, <1>3, <2>1, <2>2, AtReaches
<1>4. CASE config.minute.kind = "step"
  <2>1. Delay = Ceiling(StepDelay(config.minute.n), 2)
    BY <1>4, Units DEF Delay
  <2>2. config.minute.n \in Nat /\ config.minute.n > 0
    BY <1>1, <1>4 DEF Fields, Computable
  <2> QED
    BY <1>1, <1>4, <2>1, <2>2, StepReaches
<1> QED
  BY <1>1, <1>2, <1>3, <1>4 DEF Fields, Computable

-------------------------------------------------------------------------
\* The loop.  A wait began where the clock stands, with a delay that the code
\* can compute, and never in the mode once.

SchedulerInv ==
    /\ SchedulerTypeOK
    /\ step \in {"delay", "wait"} => config.mode # "once"
    /\ step = "wait" => slept = now /\ Computable
    /\ CronHitsTarget

LEMMA SleepReaches ==
    ASSUME SchedulerInv, NEW late \in {0, 1}, SleepEnds(late)
    PROVE  SchedulerInv'
<1>1. /\ step = "wait" /\ step' = "tick" /\ ticks < MaxTicks /\ ticks' = ticks + 1
      /\ now' = now + Delay + late /\ config' = config /\ slept' = slept /\ slept = now
      /\ Computable /\ config.mode # "once" /\ SchedulerTypeOK
  BY DEF SchedulerInv, SleepEnds
<1>2. now \in Nat /\ slept \in Nat /\ ticks \in 1 .. Ceiling(MaxTicks, 1) /\ MaxTicks \in Nat
  BY <1>1, SchedulerAssumption DEF SchedulerTypeOK
<1>3. Delay \in Nat
  <2>1. CASE config.mode = "cron"
    BY <1>1, <2>1, CronReaches DEF Reached
  <2>2. CASE config.mode = "interval"
    BY <2>2, SchedulerAssumption, Units DEF Delay, Ceiling
  <2> QED
    BY <1>1, <2>1, <2>2 DEF SchedulerTypeOK
<1>4. SchedulerTypeOK'
  <2>1. now' \in Nat /\ slept' \in 0 .. now'
    BY <1>1, <1>2, <1>3
  <2>2. ticks' \in 1 .. Ceiling(MaxTicks, 1)
    BY <1>1, <1>2 DEF Ceiling
  <2> QED
    BY <1>1, <2>1, <2>2 DEF SchedulerTypeOK
<1>5. CronHitsTarget'
  <2> SUFFICES ASSUME config.mode = "cron"
               PROVE  /\ NextMatch(config.minute, slept) <= now'
                      /\ now' <= NextMatch(config.minute, slept) + Second
    BY <1>1 DEF CronHitsTarget
  <2> DEFINE target == NextMatch(config.minute, now)
  <2>1. /\ target \in Nat /\ target <= now + Delay /\ now + Delay <= target + 1
    BY <1>1, CronReaches DEF Reached
  <2>2. NextMatch(config.minute, slept) = target
    BY <1>1
  <2> HIDE DEF target
  <2> QED
    BY <1>1, <1>2, <1>3, <2>1, <2>2, Units
<1> QED
  BY <1>1, <1>4, <1>5 DEF SchedulerInv

LEMMA SchedulerStep ==
    ASSUME SchedulerInv, [SchedulerNext]_svars
    PROVE  SchedulerInv'
<1>0. SchedulerTypeOK /\ now \in Nat /\ slept \in 0 .. now
  BY DEF SchedulerInv, SchedulerTypeOK
<1>1. ASSUME NEW duration \in Durations, TickEnds(duration) PROVE SchedulerInv'
  <2>1. duration \in Nat
    BY SchedulerAssumption
  <2>2. /\ now' = now + duration /\ config' = config /\ slept' = slept /\ ticks' = ticks
        /\ step' \in {"ended", "delay"} /\ (step' = "delay" => config.mode # "once")
    BY <1>1 DEF TickEnds
  <2>3. now' \in Nat /\ slept' \in 0 .. now'
    BY <1>0, <2>1, <2>2
  <2>4. SchedulerTypeOK'
    BY <1>0, <2>2, <2>3 DEF SchedulerTypeOK
  <2> QED
    BY <2>2, <2>4 DEF SchedulerInv, CronHitsTarget
<1>2. CASE Wait
  <2>1. /\ step = "delay" /\ step' = "wait" /\ slept' = now /\ now' = now /\ config' = config
        /\ ticks' = ticks /\ Computable /\ config.mode # "once"
    BY <1>2 DEF Wait, SchedulerInv
  <2>2. SchedulerTypeOK'
    <3>1. now \in 0 .. now
      BY <1>0
    <3> QED
      BY <1>0, <2>1, <3>1 DEF SchedulerTypeOK
  <2>3. Computable'
    BY <2>1 DEF Computable
  <2> QED
    BY <2>1, <2>2, <2>3 DEF SchedulerInv, CronHitsTarget
<1>3. CASE TickRaises \/ DelayRaises \/ Cancelled \/ SleepRaises
  <2>1. /\ step' \in {"raised", "ended"} /\ UNCHANGED <<config, now, slept, ticks>>
    BY <1>3 DEF TickRaises, DelayRaises, Cancelled, SleepRaises
  <2>2. SchedulerTypeOK'
    BY <1>0, <2>1 DEF SchedulerTypeOK
  <2> QED
    BY <2>1, <2>2 DEF SchedulerInv, CronHitsTarget
<1>4. CASE UNCHANGED svars
  <2>1. UNCHANGED <<config, step, now, slept, ticks>>
    BY <1>4 DEF svars
  <2>2. SchedulerTypeOK'
    BY <1>0, <2>1 DEF SchedulerTypeOK
  <2>3. CronHitsTarget'
    BY <2>1 DEF SchedulerInv, CronHitsTarget
  <2>4. Computable' = Computable
    BY <2>1 DEF Computable
  <2> QED
    BY <2>1, <2>2, <2>3, <2>4 DEF SchedulerInv
<1> QED
  BY <1>1, <1>2, <1>3, <1>4, SleepReaches DEF SchedulerNext

LEMMA SchedulerInvariant == SchedulerSpec => []SchedulerInv
<1>1. SchedulerInit => SchedulerInv
  <2> SUFFICES ASSUME SchedulerInit PROVE SchedulerInv
    OBVIOUS
  <2>1. now \in Nat /\ slept = now /\ MaxTicks \in Nat /\ ticks = 1 /\ step = "tick"
    BY SchedulerAssumption DEF SchedulerInit
  <2>2. ticks \in 1 .. Ceiling(MaxTicks, 1) /\ slept \in 0 .. now
    BY <2>1 DEF Ceiling
  <2>3. SchedulerTypeOK
    BY <2>1, <2>2 DEF SchedulerInit, SchedulerTypeOK
  <2>4. CronHitsTarget
    BY <2>1 DEF CronHitsTarget
  <2> QED
    BY <2>1, <2>3, <2>4 DEF SchedulerInv
<1>2. SchedulerInv /\ [SchedulerNext]_svars => SchedulerInv'
  BY SchedulerStep
<1> QED
  BY <1>1, <1>2, PTL DEF SchedulerSpec

\* The clock only gains, a wait begins at or before it, and the ticks stay in
\* their bound, in every mode and whatever ends the loop.
THEOREM SchedulerTypeCorrect == SchedulerSpec => []SchedulerTypeOK
BY SchedulerInvariant, PTL DEF SchedulerInv

\* For every number and every step of the minute field, also a step that does
\* not divide the hour: each tick of the mode cron after the first begins
\* within a second of the first matching minute after the last one ended.
THEOREM SchedulerCronHitsTarget == SchedulerSpec => []CronHitsTarget
BY SchedulerInvariant, PTL DEF SchedulerInv

-------------------------------------------------------------------------
\* The three services side by side, as MCServices runs them: each behaves as its
\* own specification says, so what is proved of it holds in that run as well.

LEMMA ServicesApart == Spec => BrowserSpec /\ DiscordSpec /\ SchedulerSpec
<1>1. Init => BrowserInit /\ DiscordInit /\ SchedulerInit
  BY DEF Init
<1>2. [Next]_vars => [BrowserNext]_bvars /\ [DiscordNext]_dvars /\ [SchedulerNext]_svars
  BY DEF Next, vars, bvars, dvars, svars
<1> QED
  BY <1>1, <1>2, PTL DEF Spec, BrowserSpec, DiscordSpec, SchedulerSpec

\* The variables of all three keep their types, whichever of them moves.
THEOREM ServicesTypeCorrect == Spec => []TypeOK
<1>1. BrowserTypeOK /\ DiscordTypeOK /\ SchedulerTypeOK => TypeOK
  BY DEF TypeOK
<1> QED
  BY <1>1, ServicesApart, BrowserTypeCorrect, DiscordTypeCorrect, SchedulerTypeCorrect, PTL

=========================================================================

---------------------------- MODULE CronjobProofs ----------------------------
(***************************************************************************)
(* Proofs about a schedule with any interval, any durations of its jobs and *)
(* callbacks, and any number of ticks.  CronInv has one part for each thing that moves:    *)
(* the clock, Scheduler with the two fields it writes, and every run.       *)
(***************************************************************************)
EXTENDS Cronjob, TLAPS

\* No tick is lost track of.
ClockInv ==
  /\ now \in Nat /\ now <= MaxTime /\ dropped \in Nat
  /\ tick \in BOOLEAN /\ stopped \in BOOLEAN /\ parent \in BOOLEAN /\ crashed \in BOOLEAN
  /\ startup \in Startups
  /\ ~stopped => Len(runs) + dropped + (IF tick THEN 1 ELSE 0) = now \div Interval

\* cancel lags behind ctx between the two writes of Scheduler, and only there; both
\* are set before the first run is started.
SchedulerInv ==
  /\ spc \in {"startup", "create", "store", "select", "exit"}
  /\ deadlines \in Seq(Nat)
  /\ cancelled \subseteq 1 .. Len(deadlines)
  /\ ctx = Len(deadlines)
  /\ cancel = IF spc = "store" THEN ctx - 1 ELSE ctx
  /\ spc \in {"store", "select", "exit"} => ctx >= 1
  /\ runs # <<>> => cancel >= 1
  /\ \A c \in 1 .. ctx : deadlines[c] <= now + Interval

\* What holds of a run x at each pair of control points of Do and of its job, at time t
\* and with c contexts made, whose deadlines are ds.
Sound(x, t, c, ds) ==
  /\ x \in RunType
  /\ x.jpc = "none" <=> x.dpc \in {"loadCtx", "loadCancel"}
  /\ x.dpc # "loadCtx" => x.ctx \in 1 .. c
  /\ x.jpc # "none" => x.cancel \in 1 .. c /\ ds[x.ctx] <= x.timer
  \* the channel
  /\ x.done = "closed" <=> x.dpc \in {"cancel", "done"}
  /\ x.done = "full" => x.jpc \in {"report", "end"} /\ x.outcome # "panic"
  /\ x.dpc = "wait" /\ x.jpc \in {"report", "end"} /\ x.outcome # "panic" => x.done = "full"
  \* Do leaves the select when the timer or the job ends, and may be in WhenTimeout then
  /\ x.dpc = "wait" => t <= x.timer /\ ~x.timedOut
  /\ x.dpc \in {"close", "cancel", "done"} /\ x.jpc \in {"run", "send"} => x.timer <= t
  /\ x.dpc = "close" => t <= x.left
  /\ x.dpc \in {"cancel", "done"} => x.left <= t
  /\ x.dpc \in {"close", "cancel", "done"} /\ ~x.timedOut =>
       x.jpc \in {"report", "end"} /\ x.outcome # "panic" /\ x.returned <= x.timer
  \* the end of the job
  /\ x.returned <= t
  /\ x.jpc \in {"send", "report"} => x.returned = t /\ x.outcome # "panic"
  /\ x.dpc = "wait" /\ x.jpc = "end" /\ x.outcome # "panic" => x.returned = t
  /\ x.jpc = "none" => ~x.timedOut
  /\ x.timedOut => x.timer <= t /\ (x.jpc = "run" \/ x.outcome = "panic" \/ x.timer <= x.returned)
  \* its error
  /\ x.reported => x.jpc = "end"
  /\ x.dpc \in {"cancel", "done"} /\ (x.reported \/ x.jpc = "report") => x.returned <= x.left
  /\ x.jpc = "end" /\ x.outcome = "error" /\ ~x.reported =>
       x.dpc \in {"cancel", "done"} /\ x.left <= x.returned /\ x.timer <= x.returned

RunsInv ==
  /\ runs \in Seq(RunType)
  /\ \A r \in Runs : Sound(runs[r], now, ctx, deadlines)

CronInv == ClockInv /\ SchedulerInv /\ RunsInv

-----------------------------------------------------------------------------
(* The steps of a run.                                                      *)

LEMMA NewRunSound ==
  ASSUME now \in Nat
  PROVE  NewRun \in RunType /\ Sound(NewRun, now, ctx, deadlines)
  BY DEF NewRun, RunType, Sound, Outcomes

\* Everything but cancelled and runs stays as it is, and only run r changes.
OnlyRun(r, y) ==
  /\ UNCHANGED <<clock, world, spc, deadlines, shared>>
  /\ runs' = [runs EXCEPT ![r] = y]

\* A step of Do leaves the job as it is, and a step of the job leaves Do.
SameJob(x, y) ==
  /\ y.jpc = x.jpc /\ y.ctx = x.ctx /\ y.cancel = x.cancel /\ y.timer = x.timer
  /\ y.outcome = x.outcome /\ y.returned = x.returned /\ y.reported = x.reported

SameDo(x, y) ==
  /\ y.dpc = x.dpc /\ y.ctx = x.ctx /\ y.cancel = x.cancel /\ y.timer = x.timer
  /\ y.done = x.done /\ y.left = x.left /\ y.timedOut = x.timedOut

\* Each step of a run leads from a sound record to a sound record.
LEMMA RunStep ==
  ASSUME CronInv, NEW r \in Runs, Run(r)
  PROVE  /\ \E y : OnlyRun(r, y) /\ Sound(y, now', ctx', deadlines')
         /\ cancelled' \subseteq 1 .. ctx
<1>. USE DEF OnlyRun
<1> DEFINE x == runs[r]
<1>1. /\ Sound(x, now, ctx, deadlines) /\ x \in RunType
      /\ runs \in Seq(RunType) /\ now \in Nat
      /\ cancelled \subseteq 1 .. ctx /\ ctx \in Nat
  BY DEF CronInv, RunsInv, ClockInv, SchedulerInv, Sound, Runs
<1>2. CASE LoadCtx(r)
  <2> DEFINE y == [x EXCEPT !.ctx = ctx, !.dpc = "loadCancel"]
  <2>1. ctx >= 1
    BY <1>1 DEF CronInv, SchedulerInv, Runs
  <2>2. OnlyRun(r, y) /\ cancelled' = cancelled
    BY <1>1, <1>2 DEF LoadCtx
  <2>3. Sound(y, now', ctx', deadlines')
    <3>1. y \in RunType
      BY <1>1 DEF RunType
    <3>2. /\ x.dpc = "loadCtx" /\ y.dpc = "loadCancel" /\ y.ctx = ctx /\ y.jpc = x.jpc
          /\ y.done = x.done /\ y.timedOut = x.timedOut /\ y.reported = x.reported
          /\ y.returned = x.returned
      BY <1>1, <1>2 DEF LoadCtx, RunType
    <3>. HIDE DEF y
    <3>. QED  BY <1>1, <2>1, <2>2, <3>1, <3>2 DEF Sound, clock, shared
  <2>. QED  BY <1>1, <2>2, <2>3
<1>3. CASE StartJob(r)
  <2>1. PICK d \in Durations, o \in Outcomes, obeys \in BOOLEAN :
          runs' = [runs EXCEPT ![r] =
                     [@ EXCEPT !.cancel = cancel, !.timer = Timeout, !.end = now + d,
                               !.outcome = o, !.obeys = obeys, !.dpc = "wait", !.jpc = "run"]]
    BY <1>3 DEF StartJob
  <2> DEFINE y == [x EXCEPT !.cancel = cancel, !.timer = Timeout, !.end = now + d,
                            !.outcome = o, !.obeys = obeys, !.dpc = "wait", !.jpc = "run"]
  <2>2. OnlyRun(r, y) /\ cancelled' = cancelled
    BY <1>1, <1>3, <2>1 DEF StartJob
  <2>3. d \in Nat /\ Timeout \in Nat /\ now <= Timeout
    BY <1>1, IntervalAssumption, DurationsAssumption DEF Timeout
  <2>4. cancel \in 1 .. ctx
    BY <1>1 DEF CronInv, SchedulerInv, Runs
  <2>5. x.dpc = "loadCancel" /\ x.ctx \in 1 .. ctx /\ deadlines[x.ctx] <= Timeout
    BY <1>1, <1>3 DEF StartJob, CronInv, SchedulerInv, Sound, Timeout
  <2>6. Sound(y, now', ctx', deadlines')
    <3>1. y \in RunType
      <4>1. cancel \in Nat /\ now + d \in Nat /\ Timeout \in Nat
        BY <1>1, <2>3, <2>4
      <4>2. o \in Outcomes /\ obeys \in BOOLEAN
        OBVIOUS
      <4>. QED  BY <1>1, <4>1, <4>2 DEF RunType
    <3>2. /\ x.jpc = "none" /\ y.jpc = "run" /\ y.dpc = "wait"
          /\ y.ctx = x.ctx /\ y.cancel = cancel /\ y.timer = Timeout
          /\ y.done = x.done /\ y.timedOut = x.timedOut /\ y.reported = x.reported
          /\ y.returned = x.returned
      BY <1>1, <2>5 DEF Sound, RunType
    <3>. HIDE DEF y
    <3>. QED  BY <1>1, <2>2, <2>3, <2>4, <2>5, <3>1, <3>2 DEF Sound, clock, shared
  <2>. QED  BY <1>1, <2>2, <2>6
<1>4. CASE DoneReceived(r)
  <2> DEFINE y == [x EXCEPT !.done = "empty", !.left = now, !.dpc = "close"]
  <2>1. OnlyRun(r, y) /\ cancelled' = cancelled
    BY <1>1, <1>4 DEF DoneReceived
  <2>2. y \in RunType
    BY <1>1 DEF RunType
  <2>3. /\ x.dpc = "wait" /\ x.done = "full"
        /\ y.dpc = "close" /\ y.done = "empty" /\ y.left = now
        /\ SameJob(x, y) /\ y.timedOut = x.timedOut
    BY <1>1, <1>4 DEF DoneReceived, RunType, SameJob
  <2>4. Sound(y, now', ctx', deadlines')
    <3>. HIDE DEF y
    <3>. QED  BY <1>1, <2>1, <2>2, <2>3 DEF Sound, SameJob, RunType, clock, shared
  <2>. QED  BY <1>1, <2>1, <2>4
<1>5. CASE WhenTimeout(r)
  <2>1. PICK d \in Callbacks :
          runs' = [runs EXCEPT ![r].timedOut = TRUE, ![r].left = now + d, ![r].dpc = "close"]
    BY <1>5 DEF WhenTimeout
  <2> DEFINE y == [x EXCEPT !.timedOut = TRUE, !.left = now + d, !.dpc = "close"]
  <2>2. OnlyRun(r, y) /\ cancelled' = cancelled
    BY <1>1, <1>5, <2>1 DEF WhenTimeout
  <2>3. d \in Nat
    BY DurationsAssumption
  <2>4. y \in RunType
    <3>1. now + d \in Nat
      BY <1>1, <2>3
    <3>. QED  BY <1>1, <3>1 DEF RunType
  <2>5. /\ x.dpc = "wait" /\ x.timer <= now /\ y.dpc = "close" /\ y.done = x.done
        /\ y.left = now + d /\ SameJob(x, y) /\ y.timedOut
    BY <1>1, <1>5 DEF WhenTimeout, RunType, SameJob
  <2>6. Sound(y, now', ctx', deadlines')
    <3>. HIDE DEF y
    <3>1. UNCHANGED <<now, ctx, deadlines>>
      BY <2>2 DEF clock, shared
    <3>2. /\ x.timer \in Nat /\ x.returned \in Nat
          /\ x.jpc \in {"none", "run", "send", "report", "end"}
      BY <1>1 DEF RunType
    <3>. QED  BY <1>1, <2>3, <2>4, <2>5, <3>1, <3>2 DEF Sound, SameJob
  <2>. QED  BY <1>1, <2>2, <2>6
<1>6. CASE CloseDone(r)
  <2> DEFINE y == [x EXCEPT !.done = "closed", !.dpc = "cancel"]
  <2>1. OnlyRun(r, y) /\ cancelled' = cancelled
    BY <1>1, <1>6 DEF CloseDone, Closed
  <2>2. y \in RunType
    BY <1>1 DEF RunType
  <2>3. /\ x.dpc = "close" /\ x.left <= now /\ y.dpc = "cancel" /\ y.done = "closed"
        /\ SameJob(x, y) /\ y.left = x.left /\ y.timedOut = x.timedOut
    BY <1>1, <1>6 DEF CloseDone, RunType, SameJob
  <2>4. Sound(y, now', ctx', deadlines')
    <3>. HIDE DEF y
    <3>1. UNCHANGED <<now, ctx, deadlines>>
      BY <2>1 DEF clock, shared
    <3>2. x.timer \in Nat /\ x.returned \in Nat /\ x.left \in Nat
      BY <1>1 DEF RunType
    <3>. QED  BY <1>1, <2>2, <2>3, <3>1, <3>2 DEF Sound, SameJob
  <2>. QED  BY <1>1, <2>1, <2>4
<1>7. CASE CancelCtx(r)
  <2> DEFINE y == [x EXCEPT !.dpc = "done"]
  <2>1. OnlyRun(r, y) /\ cancelled' = cancelled \cup {x.cancel}
    BY <1>1, <1>7 DEF CancelCtx, shared
  <2>2. Sound(y, now', ctx', deadlines') /\ x.cancel \in 1 .. ctx
    BY <1>1, <1>7, <2>1 DEF CancelCtx, Sound, RunType, clock, shared
  <2>. QED  BY <1>1, <2>1, <2>2
<1>8. CASE JobReturns(r)
  <2> DEFINE o == IF x.end <= now /\ x.outcome = "ok" THEN "ok" ELSE "error"
             y == [x EXCEPT !.jpc = "send", !.returned = now, !.outcome = o]
  <2>1. OnlyRun(r, y) /\ cancelled' = cancelled
    BY <1>1, <1>8 DEF JobReturns
  <2>2. y \in RunType
    BY <1>1 DEF RunType, Outcomes
  <2>3. /\ x.jpc = "run" /\ y.jpc = "send" /\ y.returned = now /\ y.outcome # "panic"
        /\ SameDo(x, y) /\ y.reported = x.reported
    BY <1>1, <1>8 DEF JobReturns, RunType, SameDo
  <2>4. Sound(y, now', ctx', deadlines')
    <3>. HIDE DEF y
    <3>. QED  BY <1>1, <2>1, <2>2, <2>3 DEF Sound, SameDo, RunType, clock, shared
  <2>. QED  BY <1>1, <2>1, <2>4
<1>11. CASE JobPanics(r)
  <2> DEFINE y == [x EXCEPT !.jpc = "end", !.returned = now,
                            !.done = IF @ = "closed" THEN @ ELSE "empty"]
  <2>1. OnlyRun(r, y) /\ cancelled' = cancelled
    BY <1>1, <1>11 DEF JobPanics, AfterPanic
  <2>2. y \in RunType
    BY <1>1 DEF RunType
  <2>3. /\ x.jpc = "run" /\ x.outcome = "panic" /\ y.outcome = "panic"
        /\ y.jpc = "end" /\ y.returned = now
        /\ y.done = x.done /\ SameDo(x, y) /\ y.reported = x.reported
    <3>1. x.done \in {"empty", "closed"}
      BY <1>1, <1>11 DEF JobPanics, Sound, RunType
    <3>. QED  BY <1>1, <1>11, <3>1 DEF JobPanics, RunType, SameDo
  <2>4. Sound(y, now', ctx', deadlines')
    <3>. HIDE DEF y
    <3>. QED  BY <1>1, <2>1, <2>2, <2>3 DEF Sound, SameDo, RunType, clock, shared
  <2>. QED  BY <1>1, <2>1, <2>4
<1>9. CASE JobSends(r)
  <2> DEFINE y == IF x.done = "closed"
                  THEN [x EXCEPT !.jpc = "end"]
                  ELSE [x EXCEPT !.jpc = IF x.outcome = "error" THEN "report" ELSE "end",
                                 !.done = "full"]
  <2>1. OnlyRun(r, y) /\ cancelled' = cancelled
    BY <1>1, <1>9 DEF JobSends, Reports
  <2>2. y \in RunType
    BY <1>1 DEF RunType
  <2>3. /\ x.jpc = "send"
        /\ y.jpc = IF x.done # "closed" /\ x.outcome = "error" THEN "report" ELSE "end"
        /\ y.done = IF x.done = "closed" THEN "closed" ELSE "full"
        /\ y.dpc = x.dpc /\ y.ctx = x.ctx /\ y.cancel = x.cancel /\ y.timer = x.timer
        /\ y.left = x.left /\ y.returned = x.returned /\ y.outcome = x.outcome
        /\ y.timedOut = x.timedOut /\ y.reported = x.reported
    BY <1>1, <1>9 DEF JobSends, RunType
  <2>4. Sound(y, now', ctx', deadlines')
    <3>. HIDE DEF y
    <3>1. /\ x.timer \in Nat /\ x.returned \in Nat /\ x.left \in Nat
          /\ x.dpc \in {"loadCtx", "loadCancel", "wait", "close", "cancel", "done"}
      BY <1>1 DEF RunType
    <3>2. UNCHANGED <<now, ctx, deadlines>>
      BY <2>1 DEF clock, shared
    <3>3. CASE x.done = "closed"
      BY <1>1, <2>2, <2>3, <3>1, <3>2, <3>3 DEF Sound
    <3>4. CASE x.done # "closed"
      BY <1>1, <2>2, <2>3, <3>1, <3>2, <3>4 DEF Sound
    <3>. QED  BY <3>3, <3>4
  <2>. QED  BY <1>1, <2>1, <2>4
<1>10. CASE WhenError(r)
  <2> DEFINE y == [x EXCEPT !.jpc = "end", !.reported = TRUE]
  <2>1. OnlyRun(r, y) /\ cancelled' = cancelled
    BY <1>1, <1>10 DEF WhenError
  <2>2. Sound(y, now', ctx', deadlines')
    BY <1>1, <1>10, <2>1 DEF WhenError, Sound, RunType, clock, shared
  <2>. QED  BY <1>1, <2>1, <2>2
<1>. QED
  BY <1>2, <1>3, <1>4, <1>5, <1>6, <1>7, <1>8, <1>9, <1>10, <1>11 DEF Run

\* The runs after such a step.
LEMMA RunsUpdate ==
  ASSUME CronInv, NEW r \in Runs, Run(r)
  PROVE  /\ UNCHANGED <<clock, world, spc, deadlines, shared>>
         /\ cancelled' \subseteq 1 .. ctx
         /\ runs' \in Seq(RunType) /\ Len(runs') = Len(runs)
         /\ Sound(runs'[r], now', ctx', deadlines')
         /\ \A q \in Runs \ {r} : runs'[q] = runs[q]
<1>1. PICK y : OnlyRun(r, y) /\ Sound(y, now', ctx', deadlines')
  BY RunStep
<1>2. y \in RunType /\ runs \in Seq(RunType) /\ runs' = [runs EXCEPT ![r] = y]
  BY <1>1 DEF OnlyRun, Sound, CronInv, RunsInv
<1>3. /\ runs' \in Seq(RunType) /\ Len(runs') = Len(runs)
      /\ runs'[r] = y
      /\ \A q \in Runs \ {r} : runs'[q] = runs[q]
  BY <1>2 DEF Runs
<1>. QED  BY <1>1, <1>3, RunStep DEF OnlyRun

-----------------------------------------------------------------------------
(* The initial states and the clock.                                        *)

LEMMA TickCount ==
  ASSUME NEW t \in Nat, NEW i \in Nat \ {0}
  PROVE  (t + 1) \div i = (t \div i) + (IF (t + 1) % i = 0 THEN 1 ELSE 0)
  BY SMT

LEMMA ZeroTicks ==
  ASSUME NEW i \in Nat \ {0}
  PROVE  0 \div i = 0
  BY SMT

LEMMA CronInit == Init => CronInv
<1>. SUFFICES ASSUME Init  PROVE CronInv
  OBVIOUS
<1>. USE DEF Init
<1>1. ClockInv
  <2>1. 0 \div Interval = 0
    BY ZeroTicks, IntervalAssumption
  <2>2. Len(runs) + dropped + (IF tick THEN 1 ELSE 0) = now \div Interval
    BY <2>1
  <2>3. tick \in BOOLEAN /\ stopped \in BOOLEAN /\ parent \in BOOLEAN /\ crashed \in BOOLEAN
    OBVIOUS
  <2>. QED  BY <2>2, <2>3, TimeAssumption DEF ClockInv
<1>2. SchedulerInv
  BY IntervalAssumption DEF SchedulerInv
<1>3. RunsInv
  BY DEF RunsInv, Runs
<1>. QED  BY <1>1, <1>2, <1>3 DEF CronInv

LEMMA ClockStep ==
  ASSUME CronInv, [Next]_vars
  PROVE  ClockInv'
<1>1. ClockInv /\ runs \in Seq(RunType)
  BY DEF CronInv, RunsInv
<1>. USE DEF ClockInv, world
<1>2. CASE AtTime
  <2>1. Len(runs') = Len(runs) + 1
    BY <1>1, <1>2, NewRunSound DEF AtTime, MayLaunch
  <2>2. ~stopped => Len(runs) + dropped + 1 = now \div Interval
    BY <1>1, <1>2 DEF AtTime
  <2>3. ~tick' /\ UNCHANGED <<now, startup, dropped, stopped, world>>
    BY <1>2 DEF AtTime
  <2>4. ~stopped' => Len(runs') + dropped' + (IF tick' THEN 1 ELSE 0) = now' \div Interval
    BY <1>1, <2>1, <2>2, <2>3
  <2>. QED  BY <1>1, <1>2, <2>3, <2>4 DEF AtTime
<1>3. CASE Clock
  <2> DEFINE fires == ~stopped /\ (now + 1) % Interval = 0
  <2>1. /\ now' = now + 1 /\ now < MaxTime
        /\ tick' = (tick \/ fires)
        /\ dropped' = IF tick /\ fires THEN dropped + 1 ELSE dropped
        /\ UNCHANGED <<startup, stopped, world, runs>>
    BY <1>3 DEF Clock
  <2>2. (now + 1) \div Interval = (now \div Interval)
                                   + (IF (now + 1) % Interval = 0 THEN 1 ELSE 0)
    BY <1>1, TickCount, IntervalAssumption
  <2>3. now \div Interval \in Int /\ Len(runs) \in Nat
    BY <1>1, IntervalAssumption
  <2>4. /\ now' \in Nat /\ now' <= MaxTime /\ dropped' \in Nat
        /\ tick' \in BOOLEAN /\ stopped' \in BOOLEAN /\ parent' \in BOOLEAN /\ crashed' \in BOOLEAN
        /\ startup' \in Startups
    BY <1>1, <2>1, TimeAssumption
  <2>5. ASSUME ~stopped
        PROVE  Len(runs) + dropped' + (IF tick' THEN 1 ELSE 0) = (now + 1) \div Interval
    <3>1. Len(runs) + dropped + (IF tick THEN 1 ELSE 0) = now \div Interval
      BY <1>1, <2>5
    <3>2. CASE (now + 1) % Interval = 0
      <4>1. tick' /\ dropped' = IF tick THEN dropped + 1 ELSE dropped
        BY <2>1, <2>5, <3>2
      <4>. QED  BY <1>1, <2>2, <2>3, <3>1, <3>2, <4>1
    <3>3. CASE (now + 1) % Interval # 0
      <4>1. tick' = tick /\ dropped' = dropped
        BY <1>1, <2>1, <3>3
      <4>. QED  BY <1>1, <2>2, <2>3, <3>1, <3>3, <4>1
    <3>. QED  BY <3>2, <3>3
  <2>. QED  BY <2>1, <2>4, <2>5
<1>4. CASE Cancel
  BY <1>1, <1>4 DEF Cancel
<1>5. CASE ParentDone \/ CancelNil
  <2>1. UNCHANGED <<now, startup, tick, dropped, stopped, runs>>
    BY <1>5 DEF ParentDone, CancelNil, clock
  <2>2. parent' \in BOOLEAN /\ crashed' \in BOOLEAN
    BY <1>1, <1>5 DEF ParentDone, CancelNil
  <2>. QED  BY <1>1, <2>1, <2>2
<1>6. CASE OnStartup \/ CreateCtx \/ StoreCancel \/ OnShutdown
  BY <1>1, <1>6 DEF OnStartup, CreateCtx, StoreCancel, OnShutdown, clock
<1>7. ASSUME NEW r \in Runs, Run(r)  PROVE ClockInv'
  BY <1>1, <1>7, RunsUpdate DEF clock
<1>8. CASE UNCHANGED vars
  BY <1>1, <1>8 DEF vars, clock
<1>. QED
  BY <1>2, <1>3, <1>4, <1>5, <1>6, <1>7, <1>8 DEF Next, Scheduler

-----------------------------------------------------------------------------
(* Scheduler and the contexts.                                              *)

LEMMA SchedulerStep ==
  ASSUME CronInv, [Next]_vars
  PROVE  SchedulerInv'
<1>0. SchedulerInv /\ runs \in Seq(RunType) /\ now \in Nat
  BY DEF CronInv, RunsInv, ClockInv
<1>. USE DEF SchedulerInv
<1>1. CASE OnStartup
  BY <1>0, <1>1 DEF OnStartup, clock, shared
<1>2. CASE CreateCtx
  <2>1. Deadline \in Nat
    BY <1>0, IntervalAssumption DEF Deadline
  <2>. QED  BY <1>0, <1>2, <2>1 DEF CreateCtx, Deadline, clock
<1>3. CASE StoreCancel
  BY <1>0, <1>3 DEF StoreCancel, Stored, clock
<1>4. CASE OnShutdown
  BY <1>0, <1>4 DEF OnShutdown, clock, shared
<1>5. CASE AtTime
  BY <1>0, <1>5 DEF AtTime, MayLaunch, shared
<1>6. CASE ParentDone \/ CancelNil
  BY <1>0, <1>6 DEF ParentDone, CancelNil, clock, shared
<1>7. CASE Cancel
  <2>1. cancel \in 1 .. ctx
    BY <1>0, <1>7 DEF Cancel
  <2>. QED  BY <1>0, <1>7, <2>1 DEF Cancel, shared
<1>8. CASE Clock
  BY <1>0, <1>8, IntervalAssumption DEF Clock, shared
<1>9. ASSUME NEW r \in Runs, Run(r)  PROVE SchedulerInv'
  <2>1. runs' = <<>> <=> runs = <<>>
    BY <1>0, <1>9, RunsUpdate
  <2>. QED  BY <1>0, <1>9, <2>1, RunsUpdate DEF clock, shared
<1>10. CASE UNCHANGED vars
  BY <1>0, <1>10 DEF vars, clock, shared
<1>. QED
  BY <1>1, <1>2, <1>3, <1>4, <1>5, <1>6, <1>7, <1>8, <1>9, <1>10 DEF Next, Scheduler

-----------------------------------------------------------------------------
(* All runs.                                                                *)

\* A run stays sound while Scheduler makes contexts.
LEMMA StaysSound ==
  ASSUME SchedulerInv, NEW x, Sound(x, now, ctx, deadlines),
         now' = now, ctx' >= ctx, ctx' \in Nat,
         \A c \in 1 .. ctx : deadlines'[c] = deadlines[c]
  PROVE  Sound(x, now', ctx', deadlines')
  BY DEF SchedulerInv, Sound

\* Time passes only when the run waits, and not beyond its timer.
LEMMA SoundInTime ==
  ASSUME CronInv, NEW r \in Runs, RunQuiet(r), now' = now + 1,
         UNCHANGED <<deadlines, ctx, runs>>
  PROVE  Sound(runs[r], now', ctx', deadlines')
<1> DEFINE x == runs[r]
<1>1. Sound(x, now, ctx, deadlines) /\ now \in Nat /\ x \in RunType
  BY DEF CronInv, ClockInv, RunsInv, Sound
<1>2. /\ x.timer \in Nat /\ x.returned \in Nat /\ x.left \in Nat
      /\ x.dpc \in {"loadCtx", "loadCancel", "wait", "close", "cancel", "done"}
      /\ x.jpc \in {"none", "run", "send", "report", "end"}
  BY <1>1 DEF RunType
<1>3. /\ \/ x.dpc = "done"
         \/ x.dpc = "wait" /\ x.done # "full" /\ now < x.timer
         \/ x.dpc = "close" /\ now < x.left
      /\ x.jpc \in {"end", "run"}
  BY DEF RunQuiet
<1>. HIDE DEF x
<1>4. Sound(x, now', ctx', deadlines')
  BY <1>1, <1>2, <1>3 DEF Sound
<1>. QED  BY <1>4 DEF x

LEMMA RunsStep ==
  ASSUME CronInv, [Next]_vars
  PROVE  RunsInv'
<1>0. /\ SchedulerInv /\ runs \in Seq(RunType) /\ now \in Nat /\ ctx \in Nat
      /\ \A r \in Runs : Sound(runs[r], now, ctx, deadlines)
  BY DEF CronInv, RunsInv, ClockInv, SchedulerInv
<1>1. CASE CreateCtx
  <2>1. /\ now' = now /\ runs' = runs /\ ctx' = ctx + 1
        /\ \A c \in 1 .. ctx : deadlines'[c] = deadlines[c]
    <3>1. Deadline \in Nat
      BY <1>0, IntervalAssumption DEF Deadline
    <3>. QED  BY <1>0, <1>1, <3>1 DEF CreateCtx, clock, SchedulerInv
  <2>2. \A r \in Runs : Sound(runs[r], now', ctx', deadlines')
    BY <1>0, <2>1, StaysSound
  <2>. QED  BY <1>0, <2>1, <2>2 DEF RunsInv, Runs
<1>2. CASE AtTime
  <2>1. /\ runs' = Append(runs, NewRun) /\ UNCHANGED <<now, ctx, deadlines>>
    BY <1>2 DEF AtTime, MayLaunch, shared
  <2>2. \A r \in Runs : Sound(runs[r], now', ctx', deadlines')
    BY <1>0, <2>1, StaysSound
  <2>3. NewRun \in RunType /\ Sound(NewRun, now', ctx', deadlines')
    BY <1>0, <2>1, NewRunSound, StaysSound
  <2>4. /\ runs' \in Seq(RunType) /\ Len(runs') = Len(runs) + 1
        /\ runs'[Len(runs) + 1] = NewRun
        /\ \A r \in Runs : runs'[r] = runs[r]
    BY <1>0, <2>1, <2>3 DEF Runs
  <2>5. ASSUME NEW r \in 1 .. Len(runs')  PROVE Sound(runs'[r], now', ctx', deadlines')
    <3>1. CASE r \in Runs
      BY <2>2, <2>4, <3>1
    <3>2. CASE r = Len(runs) + 1
      BY <2>3, <2>4, <3>2
    <3>. QED  BY <1>0, <2>4, <2>5, <3>1, <3>2 DEF Runs
  <2>. QED  BY <2>4, <2>5 DEF RunsInv, Runs
<1>3. ASSUME NEW r \in Runs, Run(r)  PROVE RunsInv'
  <2>1. UNCHANGED <<now, ctx, deadlines>>
    BY <1>3, RunsUpdate DEF clock, shared
  <2>2. /\ runs' \in Seq(RunType) /\ Len(runs') = Len(runs)
        /\ Sound(runs'[r], now', ctx', deadlines')
        /\ \A q \in Runs \ {r} : runs'[q] = runs[q]
    BY <1>3, RunsUpdate
  <2>3. \A q \in Runs : Sound(runs[q], now', ctx', deadlines')
    BY <1>0, <2>1, StaysSound
  <2>4. ASSUME NEW q \in Runs  PROVE Sound(runs'[q], now', ctx', deadlines')
    BY <2>2, <2>3
  <2>. QED  BY <2>2, <2>4 DEF RunsInv, Runs
<1>4. CASE Clock
  <2>1. now' = now + 1 /\ UNCHANGED <<deadlines, ctx, runs>> /\ \A r \in Runs : RunQuiet(r)
    BY <1>4 DEF Clock, Quiet, shared
  <2>2. \A r \in Runs : Sound(runs[r], now', ctx', deadlines')
    BY <2>1, SoundInTime
  <2>. QED  BY <1>0, <2>1, <2>2 DEF RunsInv, Runs
<1>5. CASE \/ OnStartup \/ StoreCancel \/ OnShutdown \/ ParentDone \/ Cancel \/ CancelNil
           \/ UNCHANGED vars
  <2>1. UNCHANGED <<now, ctx, deadlines, runs>>
    BY <1>5 DEF OnStartup, StoreCancel, OnShutdown, ParentDone, Cancel, CancelNil, vars, clock,
                shared
  <2>2. \A r \in Runs : Sound(runs[r], now', ctx', deadlines')
    BY <1>0, <2>1, StaysSound
  <2>. QED  BY <1>0, <2>1, <2>2 DEF RunsInv, Runs
<1>. QED
  BY <1>1, <1>2, <1>3, <1>4, <1>5 DEF Next, Scheduler

LEMMA CronInvariant == Spec => []CronInv
<1>1. CronInv /\ [Next]_vars => CronInv'
  BY ClockStep, SchedulerStep, RunsStep DEF CronInv
<1>. QED  BY <1>1, CronInit, PTL DEF Spec

-----------------------------------------------------------------------------
(* The theorems.                                                            *)

\* Every variable keeps its kind; a job is never started with a nil context or with
\* a nil cancel function.
THEOREM CronTypeCorrect == Spec => []TypeOK
<1>1. CronInv => TypeOK
  <2>. SUFFICES ASSUME CronInv  PROVE TypeOK
    OBVIOUS
  <2>1. \A r \in Runs : runs[r].jpc # "none" => {runs[r].ctx, runs[r].cancel} \subseteq 1 .. ctx
    BY DEF CronInv, RunsInv, Sound, RunType
  <2>2. ctx \in 0 .. Len(deadlines) /\ cancel \in 0 .. ctx
    BY DEF CronInv, SchedulerInv
  <2>. QED  BY <2>1, <2>2 DEF CronInv, ClockInv, SchedulerInv, RunsInv, TypeOK
<1>. QED  BY <1>1, CronInvariant, PTL

\* Every tick that was not dropped by the ticker starts a run.
THEOREM TicksAreRun == Spec => []EveryTickRuns
<1>1. CronInv => EveryTickRuns
  <2>. SUFFICES ASSUME CronInv, Quiet, spc = "select", ~stopped
                PROVE  Len(runs) + dropped = now \div Interval
    BY DEF EveryTickRuns
  <2>1. ~tick
    BY DEF Quiet
  <2>2. Len(runs) + dropped + 0 = now \div Interval
    BY <2>1 DEF CronInv, ClockInv
  <2>. QED  BY <2>2 DEF CronInv, ClockInv, RunsInv
<1>. QED  BY <1>1, CronInvariant, PTL

\* An error within the interval is reported, and its run is not taken for late.
THEOREM ErrorsAreReported == Spec => []ErrorReported
<1>1. CronInv => ErrorReported
  <2>. SUFFICES ASSUME CronInv, NEW r \in Runs, runs[r].jpc = "end",
                       runs[r].outcome = "error",
                       runs[r].returned < runs[r].timer
                PROVE  runs[r].reported /\ ~runs[r].timedOut
    BY DEF ErrorReported
  <2>1. Sound(runs[r], now, ctx, deadlines)
    BY DEF CronInv, RunsInv
  <2>. QED  BY <2>1 DEF Sound, RunType
<1>. QED  BY <1>1, CronInvariant, PTL

\* An error is reported or dropped as the channel was open or closed when it came.
THEOREM LateErrorsByChannel == Spec => []LateErrorFate
<1>1. CronInv => LateErrorFate
  <2>. SUFFICES ASSUME CronInv, NEW r \in Runs, runs[r].jpc = "end", runs[r].outcome = "error"
                PROVE  IF runs[r].reported
                       THEN HasClosed(r) => runs[r].returned <= runs[r].left
                       ELSE HasClosed(r) /\ runs[r].left <= runs[r].returned
    BY DEF LateErrorFate
  <2>1. Sound(runs[r], now, ctx, deadlines)
    BY DEF CronInv, RunsInv
  <2>. QED  BY <2>1 DEF Sound, HasClosed
<1>. QED  BY <1>1, CronInvariant, PTL

\* WhenTimeout is called for the runs that are late or panic, and for no others.
THEOREM SlowRunsTimeOut == Spec => []SlowRunTimesOut
<1>1. CronInv => SlowRunTimesOut
  <2>. SUFFICES ASSUME CronInv, NEW r \in Runs, runs[r].dpc = "done"
                PROVE  IF runs[r].timedOut
                       THEN \/ runs[r].jpc = "run" \/ runs[r].outcome = "panic"
                            \/ runs[r].timer <= runs[r].returned
                       ELSE /\ runs[r].jpc \in {"report", "end"} /\ runs[r].outcome # "panic"
                            /\ runs[r].returned <= runs[r].timer
    BY DEF SlowRunTimesOut
  <2>1. Sound(runs[r], now, ctx, deadlines)
    BY DEF CronInv, RunsInv
  <2>. QED  BY <2>1 DEF Sound
<1>. QED  BY <1>1, CronInvariant, PTL

\* A job that runs on after its Do has a context that is done.
THEOREM LeftBehindAreTold == Spec => []LeftBehindIsTold
<1>1. CronInv => LeftBehindIsTold
  <2>. SUFFICES ASSUME CronInv, NEW r \in Runs, runs[r].dpc = "done", runs[r].jpc = "run"
                PROVE  deadlines[runs[r].ctx] <= now
    BY DEF LeftBehindIsTold, CtxDone
  <2>1. /\ Sound(runs[r], now, ctx, deadlines) /\ now \in Nat
        /\ deadlines \in Seq(Nat) /\ ctx = Len(deadlines)
    BY DEF CronInv, RunsInv, ClockInv, SchedulerInv
  <2>2. /\ runs[r].ctx \in 1 .. ctx /\ deadlines[runs[r].ctx] <= runs[r].timer
        /\ runs[r].timer <= now /\ runs[r].timer \in Nat
    BY <2>1 DEF Sound, RunType
  <2>. QED  BY <2>1, <2>2
<1>. QED  BY <1>1, CronInvariant, PTL
=============================================================================

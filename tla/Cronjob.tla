------------------------------- MODULE Cronjob -------------------------------
(***************************************************************************)
(* One cronjob.Schedule (cronjob/job.go): the goroutine Scheduler, which    *)
(* waits for the ticker, one goroutine Do for every tick, and inside each   *)
(* of those one goroutine that runs the user's job.  They share the fields  *)
(* ctx and cancel of the Schedule, without a lock.                          *)
(*                                                                         *)
(* Time is counted in units, Interval of them from tick to tick, and it     *)
(* passes only when nothing else can happen (Quiet): the code takes no time *)
(* but for OnStartup, the jobs and WhenTimeout, which are the user's.  What *)
(* goes wrong here does not need a slow machine.                            *)
(***************************************************************************)
EXTENDS Integers, Sequences

CONSTANTS Interval,   \* Interval() of the job
          Durations,  \* how long jobs may run
          Startups,   \* how long OnStartup may run
          Callbacks,  \* how long WhenTimeout may run
          MaxTime     \* bound: when the clock stops

ASSUME IntervalAssumption == Interval \in Nat \ {0}
ASSUME DurationsAssumption ==
  Durations \subseteq Nat /\ Startups \subseteq Nat /\ Callbacks \subseteq Nat
ASSUME TimeAssumption == MaxTime \in Nat

VARIABLES
  now,        \* the clock
  startup,    \* when OnStartup returns
  tick,       \* does a tick wait to be received? The ticker keeps one at most
  dropped,    \* ghost: ticks that came while one was waiting
  stopped,    \* was the ticker stopped by Schedule.Cancel?
  parent,     \* is the parent context done?
  crashed,    \* did a nil function end the process?
  spc,        \* control point of Scheduler
  deadlines,  \* the deadlines of the contexts made so far, one per round
  cancelled,  \* those of them that were cancelled
  ctx,        \* Schedule.ctx; 0: nil
  cancel,     \* Schedule.cancel, by the context it cancels; 0: nil
  runs        \* the goroutines Do, one record each

shared == <<ctx, cancel>>
clock  == <<now, startup, tick, dropped, stopped>>
world  == <<parent, crashed>>
vars   == <<clock, world, spc, deadlines, cancelled, shared, runs>>

Runs == 1 .. Len(runs)

CtxDone(c) == parent \/ c \in cancelled \/ deadlines[c] <= now

-----------------------------------------------------------------------------
(* Plausible mistakes, each in the place of the definition it is named after. *)

NoDeadline          == MaxTime + Interval + 1
NotStored           == cancel
DoneIgnored         == FALSE
OneAtATime          == \A r \in Runs : runs[r].dpc = "done"
LeftOpen(r)         == runs[r].done
ReportsWhileLive(r) == runs[r].outcome = "error" /\ ~CtxDone(runs[r].ctx)
PanicSignals        == "full"

-----------------------------------------------------------------------------
\* A goroutine Do that was just started.  `done` is its channel, for one value; end,
\* outcome and obeys are about the job, and left is when Do has nothing more to do.
NewRun == [dpc |-> "loadCtx", ctx |-> 0, cancel |-> 0, timer |-> 0, done |-> "empty",
           left |-> 0, jpc |-> "none", end |-> 0, outcome |-> "ok", obeys |-> FALSE,
           returned |-> 0, timedOut |-> FALSE, reported |-> FALSE]

Init ==
  /\ now = 0
  /\ startup \in Startups
  /\ tick = FALSE
  /\ dropped = 0
  /\ stopped = FALSE
  /\ parent = FALSE
  /\ crashed = FALSE
  /\ spc = "startup"
  /\ deadlines = <<>>
  /\ cancelled = {}
  /\ ctx = 0
  /\ cancel = 0
  /\ runs = <<>>

-----------------------------------------------------------------------------
(* Schedule.Scheduler.                                                      *)

OnStartup ==
  /\ spc = "startup"
  /\ startup <= now
  /\ spc' = "create"
  /\ UNCHANGED <<clock, world, deadlines, cancelled, shared, runs>>

\* The deadline of a context made now.
Deadline == now + Interval

\* s.ctx, s.cancel = context.WithTimeout(s.pctx, s.job.Interval()): two writes
CreateCtx ==
  /\ spc = "create"
  /\ deadlines' = Append(deadlines, Deadline)
  /\ ctx' = Len(deadlines) + 1
  /\ spc' = "store"
  /\ UNCHANGED <<clock, world, cancelled, cancel, runs>>

Stored == ctx

StoreCancel ==
  /\ spc = "store"
  /\ cancel' = Stored
  /\ spc' = "select"
  /\ UNCHANGED <<clock, world, deadlines, cancelled, ctx, runs>>

\* case <-s.pctx.Done(): with both cases ready, select takes either.
Shutdown == parent

OnShutdown ==
  /\ spc = "select"
  /\ Shutdown
  /\ spc' = "exit"
  /\ UNCHANGED <<clock, world, deadlines, cancelled, shared, runs>>

\* A tick starts a run whether or not earlier runs have ended.
MayLaunch == TRUE

\* case <-s.AtTime(): go s.Do()
AtTime ==
  /\ spc = "select"
  /\ tick
  /\ tick' = FALSE
  /\ runs' = IF MayLaunch THEN Append(runs, NewRun) ELSE runs
  /\ spc' = "create"
  /\ UNCHANGED <<now, startup, dropped, stopped, world, deadlines, cancelled, shared>>

-----------------------------------------------------------------------------
(* Schedule.Do, run r.                                                      *)

\* ctx, cancel := s.ctx, s.cancel: two reads; Scheduler may be anywhere by now.
LoadCtx(r) ==
  /\ runs[r].dpc = "loadCtx"
  /\ runs' = [runs EXCEPT ![r].ctx = ctx, ![r].dpc = "loadCancel"]
  /\ UNCHANGED <<clock, world, spc, deadlines, cancelled, shared>>

\* Where time.After(s.job.Interval()) ends that starts now.
Timeout == now + Interval

Outcomes == {"ok", "error", "panic"}

\* The goroutine of the job starts: it will run for d, return without or with an error or
\* panic, and give up or not when its context is done.  The select of Do starts with it.
StartJob(r) ==
  /\ runs[r].dpc = "loadCancel"
  /\ \E d \in Durations, o \in Outcomes, obeys \in BOOLEAN :
       runs' = [runs EXCEPT ![r] =
                  [@ EXCEPT !.cancel = cancel, !.timer = Timeout, !.end = now + d,
                            !.outcome = o, !.obeys = obeys, !.dpc = "wait", !.jpc = "run"]]
  /\ UNCHANGED <<clock, world, spc, deadlines, cancelled, shared>>

\* case <-done
DoneReceived(r) ==
  /\ runs[r].dpc = "wait"
  /\ runs[r].done = "full"
  /\ runs' = [runs EXCEPT ![r].done = "empty", ![r].left = now, ![r].dpc = "close"]
  /\ UNCHANGED <<clock, world, spc, deadlines, cancelled, shared>>

\* case <-time.After(...): WhenTimeout is called, and takes its time; of ready cases one is
\* chosen at random.
WhenTimeout(r) ==
  /\ runs[r].dpc = "wait"
  /\ runs[r].timer <= now
  /\ \E d \in Callbacks :
       runs' = [runs EXCEPT ![r].timedOut = TRUE, ![r].left = now + d, ![r].dpc = "close"]
  /\ UNCHANGED <<clock, world, spc, deadlines, cancelled, shared>>

\* deferred, and so after WhenTimeout has returned: close(done) ...
Closed(r) == "closed"

CloseDone(r) ==
  /\ runs[r].dpc = "close"
  /\ runs[r].left <= now
  /\ runs' = [runs EXCEPT ![r].done = Closed(r), ![r].dpc = "cancel"]
  /\ UNCHANGED <<clock, world, spc, deadlines, cancelled, shared>>

\* ... and then cancel()
CancelCtx(r) ==
  /\ runs[r].dpc = "cancel"
  /\ cancelled' = cancelled \cup {runs[r].cancel}
  /\ runs' = [runs EXCEPT ![r].dpc = "done"]
  /\ UNCHANGED <<clock, world, spc, deadlines, shared>>

-----------------------------------------------------------------------------
(* The goroutine of the job of run r.                                       *)

\* Does the job give up because its context is done?
GivesUp(r) == runs[r].obeys /\ CtxDone(runs[r].ctx)

JobReturns(r) ==
  /\ runs[r].jpc = "run"
  /\ \/ GivesUp(r)
     \/ runs[r].end <= now /\ runs[r].outcome # "panic"
  /\ runs' = [runs EXCEPT ![r].jpc = "send", ![r].returned = now,
                          ![r].outcome = IF runs[r].end <= now /\ @ = "ok" THEN "ok" ELSE "error"]
  /\ UNCHANGED <<clock, world, spc, deadlines, cancelled, shared>>

\* A panic of the job is recovered: the goroutine ends, and its channel stays empty.
AfterPanic == "empty"

JobPanics(r) ==
  /\ runs[r].jpc = "run"
  /\ runs[r].end <= now /\ runs[r].outcome = "panic"
  /\ runs' = [runs EXCEPT ![r].jpc = "end", ![r].returned = now,
                          ![r].done = IF @ = "closed" THEN @ ELSE AfterPanic]
  /\ UNCHANGED <<clock, world, spc, deadlines, cancelled, shared>>

\* err != nil
Reports(r) == runs[r].outcome = "error"

\* done <- struct{}{} never waits, for the channel has room; if it is closed the send
\* panics, and the goroutine ends in its recover.
JobSends(r) ==
  /\ runs[r].jpc = "send"
  /\ runs' = IF runs[r].done = "closed"
             THEN [runs EXCEPT ![r].jpc = "end"]
             ELSE [runs EXCEPT ![r].jpc = IF Reports(r) THEN "report" ELSE "end",
                               ![r].done = "full"]
  /\ UNCHANGED <<clock, world, spc, deadlines, cancelled, shared>>

\* s.job.WhenError(err)
WhenError(r) ==
  /\ runs[r].jpc = "report"
  /\ runs' = [runs EXCEPT ![r].jpc = "end", ![r].reported = TRUE]
  /\ UNCHANGED <<clock, world, spc, deadlines, cancelled, shared>>

Run(r) ==
  \/ LoadCtx(r) \/ StartJob(r) \/ DoneReceived(r) \/ WhenTimeout(r)
  \/ CloseDone(r) \/ CancelCtx(r)
  \/ JobReturns(r) \/ JobPanics(r) \/ JobSends(r) \/ WhenError(r)

-----------------------------------------------------------------------------
(* The surroundings: the owner of the parent context, a caller of            *)
(* Schedule.Cancel, and the clock.                                          *)

ParentDone ==
  /\ ~parent
  /\ parent' = TRUE
  /\ UNCHANGED <<clock, crashed, spc, deadlines, cancelled, shared, runs>>

\* s.cancel(); s.ticker.Stop(), after which no tick is received (from Go 1.23 on, which
\* go.mod asks for: before, one tick could be left in the channel)
Cancel ==
  /\ cancel # 0
  /\ ~stopped
  /\ cancelled' = cancelled \cup {cancel}
  /\ stopped' = TRUE
  /\ tick' = FALSE
  /\ UNCHANGED <<now, startup, dropped, world, spc, deadlines, shared, runs>>

\* Before the first round of Scheduler there is no function to call.
CancelNil ==
  /\ cancel = 0
  /\ crashed' = TRUE
  /\ UNCHANGED <<clock, parent, spc, deadlines, cancelled, shared, runs>>

\* Nothing but the clock can move on.
RunQuiet(r) ==
  /\ \/ runs[r].dpc = "done"
     \/ runs[r].dpc = "wait" /\ runs[r].done # "full" /\ now < runs[r].timer
     \/ runs[r].dpc = "close" /\ now < runs[r].left
  /\ \/ runs[r].jpc = "end"
     \/ runs[r].jpc = "run" /\ now < runs[r].end /\ ~GivesUp(r)

Quiet ==
  /\ \/ spc = "startup" /\ now < startup
     \/ spc = "select" /\ ~parent /\ ~tick
     \/ spc = "exit"
  /\ \A r \in Runs : RunQuiet(r)

\* The ticker runs from the making of the Schedule on.
Clock ==
  LET fires == ~stopped /\ (now + 1) % Interval = 0 IN
  /\ Quiet
  /\ now < MaxTime
  /\ now' = now + 1
  /\ tick' = (tick \/ fires)
  /\ dropped' = IF tick /\ fires THEN dropped + 1 ELSE dropped
  /\ UNCHANGED <<startup, stopped, world, spc, deadlines, cancelled, shared, runs>>

-----------------------------------------------------------------------------
Scheduler == OnStartup \/ CreateCtx \/ StoreCancel \/ OnShutdown \/ AtTime

Next ==
  /\ ~crashed
  /\ \/ Scheduler
     \/ \E r \in Runs : Run(r)
     \/ ParentDone \/ Cancel \/ CancelNil
     \/ Clock

Spec == Init /\ [][Next]_vars

\* Every goroutine runs on, and the clock.
FairSpec ==
  Spec /\ WF_vars(~crashed /\ Scheduler) /\ WF_vars(~crashed /\ Clock)
       /\ \A r \in 1 .. MaxTime : WF_vars(~crashed /\ r \in Runs /\ Run(r))

-----------------------------------------------------------------------------
(* Properties.                                                              *)

RunType == [dpc : {"loadCtx", "loadCancel", "wait", "close", "cancel", "done"},
            ctx : Nat, cancel : Nat, timer : Nat, done : {"empty", "full", "closed"}, left : Nat,
            jpc : {"none", "run", "send", "report", "end"}, end : Nat, outcome : Outcomes,
            obeys : BOOLEAN, returned : Nat, timedOut : BOOLEAN, reported : BOOLEAN]

\* Every variable keeps the kind of value the code stores in it; a run that has
\* started its job has a context and a function that cancels one (neither is nil).
TypeOK ==
  /\ now \in 0 .. MaxTime /\ startup \in Startups /\ dropped \in Nat
  /\ {tick, stopped, parent, crashed} \subseteq BOOLEAN
  /\ spc \in {"startup", "create", "store", "select", "exit"}
  /\ deadlines \in Seq(Nat)
  /\ cancelled \subseteq 1 .. Len(deadlines)
  /\ ctx \in 0 .. Len(deadlines) /\ cancel \in 0 .. ctx
  /\ runs \in Seq(RunType)
  /\ \A r \in Runs : runs[r].jpc # "none" => {runs[r].ctx, runs[r].cancel} \subseteq 1 .. ctx

\* "Every Interval the job is started, even if the one before has timed out and not
\* ended" (the comment on Do of CronJob): no tick is lost but those that come
\* while another one waits for OnStartup to end.
EveryTickRuns ==
  Quiet /\ spc = "select" /\ ~stopped => Len(runs) + dropped = now \div Interval

\* A job that returns an error within its Interval is reported by WhenError, and is
\* not taken for a timeout, however its goroutine, Do and Scheduler interleave.
ErrorReported ==
  \A r \in Runs :
    runs[r].jpc = "end" /\ runs[r].outcome = "error" /\ runs[r].returned < runs[r].timer =>
      runs[r].reported /\ ~runs[r].timedOut

HasClosed(r) == runs[r].dpc \in {"cancel", "done"}

\* "If Do fails and times out, WhenError and WhenTimeout are both executed" (the comment on
\* WhenError of CronJob); "after a timeout WhenError is not to be called" (the comment in
\* Do).  The channel alone decides: an error that comes before Do has closed it, which
\* WhenTimeout delays, is reported, and one that comes later goes nowhere.
LateErrorFate ==
  \A r \in Runs :
    runs[r].jpc = "end" /\ runs[r].outcome = "error" =>
      IF runs[r].reported
      THEN HasClosed(r) => runs[r].returned <= runs[r].left
      ELSE HasClosed(r) /\ runs[r].left <= runs[r].returned

\* "Do is to take no longer than Interval, or else it counts as timed out, and a timeout
\* calls WhenTimeout" (the comment on Do of CronJob): WhenTimeout was called for a run that
\* its Do has finished if the job is at work still, came late or panicked, and for no job
\* that came in time.
SlowRunTimesOut ==
  \A r \in Runs :
    runs[r].dpc = "done" =>
      IF runs[r].timedOut
      THEN runs[r].jpc = "run" \/ runs[r].outcome = "panic" \/ runs[r].timer <= runs[r].returned
      ELSE /\ runs[r].jpc \in {"report", "end"} /\ runs[r].outcome # "panic"
           /\ runs[r].returned <= runs[r].timer

\* A job that is left behind by its Do can tell: its context is done by then, even
\* when the context and the cancel function that Do read belong to different ticks.
LeftBehindIsTold ==
  \A r \in Runs :
    runs[r].dpc = "done" /\ runs[r].jpc = "run" => CtxDone(runs[r].ctx)

\* When the parent context is done the schedule ends, although ticks go on.
ShutdownFollows == parent ~> spc = "exit" \/ crashed

\* "A new context is made in every round, so that runs do not affect each other when
\* one times out" (the comment in Scheduler), and a run may take its Interval (the
\* comment on Do of CronJob): a job starts with a context that is not done.
StartsWithLiveContext ==
  [][\A r \in Runs : StartJob(r) /\ ~parent /\ ~stopped => ~CtxDone(runs[r].ctx)]_vars
=============================================================================

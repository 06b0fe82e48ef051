--------------------------- MODULE IngestScheduler ---------------------------
(***************************************************************************)
(* The ingest worker of gold-desire over ONE trade date: the tick loop of  *)
(* app/ingest/scheduler.py, the task executor of app/ingest/pipeline.py,   *)
(* the calendar gate and completion marks of app/ingest/calendar_store.py, *)
(* the strategy phases of app/ingest/strategy_hooks.py, and the manual     *)
(* trigger that the API process runs beside it.                            *)
(*                                                                         *)
(* Every mark, every _last_attempt entry and every calendar row is keyed   *)
(* by the trade date, so a date never reads the marks of another one.      *)
(*                                                                         *)
(* A tick runs in one database session.  What the session has written and  *)
(* not committed is kept in the variables of the group "session"; a crash, *)
(* or an exception that leaves run_once, throws that group away.           *)
(***************************************************************************)
EXTENDS Integers, Sequences

CONSTANTS
    Order,          \* the tasks in registration order (DEFAULT_TASKS)
    Window,         \* [task -> moments of the day inside its window]
    Interval,       \* [task -> repeat interval; 0 is a one-shot task]
    Rounds,         \* [task -> fetch rounds of a run that has candidates]
    Derived,        \* tasks whose arguments are the stored candidate stocks
    Feeders,        \* tasks that store candidate stocks
    CalendarTask,   \* the task that stores the trading calendar
    OpeningMatch,   \* the task the OPENING phase waits for
    Auction,        \* moments of the auction window
    Postmarket,     \* moments of the postmarket window
    Horizon,        \* bound: the last moment of the day
    MaxFaults,      \* bound: upstream and database faults met in a day
    MaxCrashes,     \* bound: worker crashes in a day
    MaxTriggers     \* bound: manual triggers in a day

Task == {Order[j] : j \in DOMAIN Order}
Time == 0 .. Horizon
Never == -1
Maintenance == "__daily_maintenance__"
PoolAmount == "__pool_amount__"
Phase == {"POOL", "INTRADAY", "OPENING"}
\* Everything that carries a completion mark.
Key == Task \cup {Maintenance, PoolAmount} \cup Phase
OneShot == {t \in Task : Interval[t] = 0}
\* What is meant to be completed once per trade date.
OnceKey == OneShot \cup {Maintenance, PoolAmount} \cup Phase

ASSUME TasksAssumption ==
    /\ Order \in Seq(STRING)
    /\ Window \in [Task -> SUBSET Time]
    /\ Interval \in [Task -> Nat]
    /\ Rounds \in [Task -> Nat]
    /\ Derived \subseteq Task
    /\ Feeders \subseteq Task
    /\ CalendarTask \in Task
    /\ OpeningMatch \in Task
    /\ Task \cap ({Maintenance, PoolAmount} \cup Phase) = {}
ASSUME DayAssumption ==
    /\ Horizon \in Nat
    /\ Auction \subseteq Time
    /\ Postmarket \subseteq Time
ASSUME BoundsAssumption ==
    /\ MaxFaults \in Nat
    /\ MaxCrashes \in Nat
    /\ MaxTriggers \in Nat

VARIABLES
    \* --- the world
    day,            \* facts of the date, see DayFacts
    now,            \* wall clock
    \* --- committed rows
    status,         \* completion marks of the date (pool_snapshot rows)
    stored,         \* [task -> rounds whose rows are stored]
    calendar,       \* the stored calendar row, "none" when absent
    job,            \* [task -> status of the last committed ingest_jobs row]
    \* --- session: the open transaction of the tick
    wStatus,        \* the marks as the session sees them
    wDone,          \* keys marked succeeded since the last commit
    wJob,           \* the ingest_jobs row of the run in progress
    wRounds,        \* rounds written by the run in progress
    \* --- worker memory
    pc,             \* where the worker is
    cursor,         \* position in Order
    plan,           \* number of rounds of the run in progress
    moment,         \* the time captured when the tick began
    lastAttempt,    \* _last_attempt of the date
    outcome,        \* how the last attempt of a task in this process ended
    \* --- bounds
    faults, crashes, triggers,
    \* --- observability
    completions,    \* [key -> successes committed, counted up to 2]
    announced       \* keys whose completion was broadcast

world     == <<day, now>>
committed == <<status, stored, calendar, job>>
session   == <<wStatus, wDone, wJob, wRounds>>
memory    == <<pc, cursor, plan, moment, lastAttempt, outcome>>
bounds    == <<faults, crashes, triggers>>
history   == <<completions, announced>>
vars      == <<world, committed, session, memory, bounds, history>>

-----------------------------------------------------------------------------
Mark     == {"none", "succeeded", "failed"}
JobMark  == Mark \cup {"running"}
Calendar == {"open", "closed", "uncovered"}
WorkerAt == {"stopped", "asleep", "calendar", "tasks", "fetch", "commit",
             "notify", "maintenance", "amount", "final", "hung"}
                \cup Phase

\* What the upstream calendar says of the date, whether it is a Monday to
\* Friday, whether pools or ladders of earlier dates are stored, and whether
\* maintenance will find a month partition to create.
DayFacts == [calendar : Calendar, weekday : BOOLEAN, olderPools : BOOLEAN,
             partitionsDue : BOOLEAN]

Init ==
    /\ day \in DayFacts
    /\ now = 0
    /\ status = [k \in Key |-> "none"]
    /\ stored = [t \in Task |-> {}]
    /\ calendar = "none"
    /\ job = [t \in Task |-> "none"]
    /\ wStatus = status
    /\ wDone = {}
    /\ wJob = "none"
    /\ wRounds = {}
    /\ pc = "asleep"
    /\ cursor = 1
    /\ plan = 0
    /\ moment = 0
    /\ lastAttempt = [t \in Task |-> Never]
    /\ outcome = [t \in Task |-> "none"]
    /\ faults = 0 /\ crashes = 0 /\ triggers = 0
    /\ completions = [k \in Key |-> 0]
    /\ announced = {}

-----------------------------------------------------------------------------
(* Transactions. *)

\* The open transaction is gone: the session sees the committed rows again.
DropSession ==
    /\ wStatus' = status
    /\ wDone' = {}
    /\ wJob' = "none"
    /\ wRounds' = {}

\* The open transaction becomes the committed state.  `marks' is the session's
\* view of the marks and `done' the keys it marked succeeded.
CommitMarks(marks, done) ==
    /\ status' = marks
    /\ completions' = [k \in Key |-> IF k \in done /\ completions[k] < 2
                                        THEN completions[k] + 1
                                        ELSE completions[k]]
    /\ wStatus' = marks
    /\ wDone' = {}

Fault == faults < MaxFaults /\ faults' = faults + 1

\* Some stock of a limit-up pool or ladder is stored.
HasCandidates ==
    day.olderPools \/ \E t \in Feeders : stored[t] # {}

RoundsOf(t) == IF t \in Derived /\ ~HasCandidates THEN 0 ELSE Rounds[t]

-----------------------------------------------------------------------------
(* The calendar gate. *)

BeginTick ==
    /\ pc = "asleep"
    /\ moment' = now
    /\ pc' = "calendar"
    /\ UNCHANGED <<world, committed, session, cursor, plan, lastAttempt,
                   outcome, bounds, history>>

\* Faulty variant: every date that the calendar does not list is taken for one
\* that it does not cover.
TradingUnlessListed(c) == c = "open" \/ day.weekday

\* The calendar decides for the dates it covers; weekdays stand in otherwise.
Trading(c) ==
    \/ c = "open"
    \/ c \in {"none", "uncovered"} /\ day.weekday

Enter(trading) ==
    /\ pc' = IF trading THEN "tasks" ELSE "asleep"
    /\ cursor' = 1

\* is_trading_day: a stored calendar is used as it is; otherwise it is fetched
\* and stored, and a failed fetch falls back on weekdays and stores nothing.
CheckCalendar ==
    /\ pc = "calendar"
    /\ calendar' = IF calendar = "none" THEN day.calendar ELSE calendar
    /\ Enter(Trading(calendar'))
    /\ UNCHANGED <<world, status, stored, job, session, plan, moment,
                   lastAttempt, outcome, bounds, history>>

CheckCalendarOffline ==
    /\ pc = "calendar"
    /\ calendar = "none"
    /\ Fault
    /\ Enter(Trading(calendar))
    /\ UNCHANGED <<world, committed, session, plan, moment, lastAttempt,
                   outcome, crashes, triggers, history>>

-----------------------------------------------------------------------------
(* The task loop of run_once. *)

Current == Order[cursor]

IntervalDue(t) ==
    lastAttempt[t] = Never \/ moment - lastAttempt[t] >= Interval[t]

\* Faulty variants of Due: completion is remembered in the process only; a
\* success also stops interval tasks; a failed one-shot is not retried.
DueFromMemory(t) ==
    /\ moment \in Window[t]
    /\ IF Interval[t] = 0 THEN outcome[t] # "succeeded" ELSE IntervalDue(t)

DueUntilSucceeded(t) ==
    /\ moment \in Window[t]
    /\ wStatus[t] # "succeeded"
    /\ IntervalDue(t)

DueWithoutRetry(t) ==
    /\ moment \in Window[t]
    /\ IF Interval[t] = 0 THEN wStatus[t] = "none" ELSE IntervalDue(t)

\* In its window, and: a one-shot task is not yet succeeded, an interval task
\* was not attempted for the length of its interval.
Due(t) ==
    /\ moment \in Window[t]
    /\ IF Interval[t] = 0 THEN wStatus[t] # "succeeded" ELSE IntervalDue(t)

SkipTask ==
    /\ pc = "tasks"
    /\ cursor <= Len(Order)
    /\ ~Due(Current)
    /\ cursor' = cursor + 1
    /\ UNCHANGED <<world, committed, session, pc, plan, moment, lastAttempt,
                   outcome, bounds, history>>

\* Faulty variant: the running job row is committed on its own.
StartTaskCommitted ==
    /\ pc = "tasks"
    /\ cursor <= Len(Order)
    /\ Due(Current)
    /\ plan' = RoundsOf(Current)
    /\ job' = [job EXCEPT ![Current] = "running"]
    /\ wJob' = "running"
    /\ wRounds' = {}
    /\ pc' = "fetch"
    /\ UNCHANGED <<world, status, stored, calendar, wStatus, wDone, cursor,
                   moment, lastAttempt, outcome, bounds, history>>

\* run_task up to its fetch loop: the job row and the list of arguments.
StartTask ==
    /\ pc = "tasks"
    /\ cursor <= Len(Order)
    /\ Due(Current)
    /\ plan' = RoundsOf(Current)
    /\ wJob' = "running"
    /\ wRounds' = {}
    /\ pc' = "fetch"
    /\ UNCHANGED <<world, committed, wStatus, wDone, cursor, moment,
                   lastAttempt, outcome, bounds, history>>

\* One round: fetch, archive, validate and write.
RunRound ==
    /\ pc = "fetch"
    /\ \E r \in 1 .. plan :
         /\ wRounds = 1 .. (r - 1)
         /\ wRounds' = 1 .. r
    /\ UNCHANGED <<world, committed, wStatus, wDone, wJob, memory, bounds,
                   history>>

\* Faulty variant: the event is published when the run ends.
EndRunAnnounced(result) ==
    /\ wJob' = result
    /\ outcome' = [outcome EXCEPT ![Current] = result]
    /\ lastAttempt' = [lastAttempt EXCEPT ![Current] = moment]
    /\ wStatus' = [wStatus EXCEPT ![Current] = result]
    /\ announced' = IF result = "succeeded" THEN announced \cup {Current}
                                            ELSE announced
    /\ pc' = "commit"
    /\ UNCHANGED <<world, committed, wRounds, cursor, plan, moment, crashes,
                   triggers, completions>>

\* The job row is finished, the attempt is remembered and the mark written.
EndRun(result) ==
    /\ wJob' = result
    /\ outcome' = [outcome EXCEPT ![Current] = result]
    /\ lastAttempt' = [lastAttempt EXCEPT ![Current] = moment]
    /\ wStatus' = [wStatus EXCEPT ![Current] = result]
    /\ pc' = "commit"
    /\ UNCHANGED <<world, committed, wRounds, cursor, plan, moment, crashes,
                   triggers, history>>

\* Faulty variant: a round that raises is skipped instead of failing the run.
FinishTaskAnyway ==
    /\ pc = "fetch"
    /\ EndRun("succeeded")
    /\ wDone' = wDone \cup {Current}
    /\ UNCHANGED faults

FinishTask ==
    /\ pc = "fetch"
    /\ wRounds = 1 .. plan
    /\ EndRun("succeeded")
    /\ wDone' = wDone \cup {Current}
    /\ UNCHANGED faults

\* Faulty variant: the job row of a failed run is never finished.
FailTaskUnfinished ==
    /\ pc = "fetch"
    /\ wRounds # 1 .. plan
    /\ Fault
    /\ EndRun("running")
    /\ UNCHANGED wDone

\* A round fails with the transaction still usable; the rows of the rounds
\* before it stay in the session and are committed with the failed mark.
FailTask ==
    /\ pc = "fetch"
    /\ wRounds # 1 .. plan
    /\ Fault
    /\ EndRun("failed")
    /\ UNCHANGED wDone

CommitTask ==
    /\ pc = "commit"
    /\ CommitMarks(wStatus, wDone)
    /\ stored' = [stored EXCEPT ![Current] = @ \cup wRounds]
    /\ calendar' = IF Current = CalendarTask /\ wRounds # {}
                      THEN day.calendar ELSE calendar
    /\ job' = [job EXCEPT ![Current] = wJob]
    /\ wJob' = "none"
    /\ wRounds' = {}
    /\ IF wJob = "succeeded"
          THEN pc' = "notify" /\ UNCHANGED cursor
          ELSE pc' = "tasks" /\ cursor' = cursor + 1
    /\ UNCHANGED <<world, plan, moment, lastAttempt, outcome, bounds,
                   announced>>

\* notify_ingest_completed: cache prefixes dropped, thin event published.
NotifyTask ==
    /\ pc = "notify"
    /\ announced' = announced \cup {Current}
    /\ pc' = "tasks"
    /\ cursor' = cursor + 1
    /\ UNCHANGED <<world, committed, session, plan, moment, lastAttempt,
                   outcome, bounds, completions>>

TasksDone ==
    /\ pc = "tasks"
    /\ cursor > Len(Order)
    /\ pc' = "maintenance"
    /\ UNCHANGED <<world, committed, session, cursor, plan, moment,
                   lastAttempt, outcome, bounds, history>>

-----------------------------------------------------------------------------
(* The daily jobs that follow the task loop: maintenance, then amounts. *)

JobKey == IF pc = "maintenance" THEN Maintenance ELSE PoolAmount
AfterJob == IF pc = "maintenance" THEN "amount" ELSE "POOL"
\* Faulty variant: the completion mark is not consulted.
JobDueAlways == moment \in Postmarket

JobDue == moment \in Postmarket /\ wStatus[JobKey] # "succeeded"

SkipDailyJob ==
    /\ pc \in {"maintenance", "amount"}
    /\ ~JobDue
    /\ pc' = AfterJob
    /\ UNCHANGED <<world, committed, session, cursor, plan, moment,
                   lastAttempt, outcome, bounds, history>>

\* The job, its mark and the commit that follows it.
EndDailyJob(result) ==
    /\ CommitMarks([wStatus EXCEPT ![JobKey] = result],
                   IF result = "succeeded" THEN wDone \cup {JobKey} ELSE wDone)
    /\ pc' = AfterJob
    /\ UNCHANGED <<world, stored, calendar, job, wJob, wRounds, cursor, plan,
                   moment, lastAttempt, outcome, crashes, triggers, announced>>

RunDailyJob ==
    /\ pc \in {"maintenance", "amount"}
    /\ JobDue
    /\ pc = "maintenance" => ~day.partitionsDue
    /\ EndDailyJob("succeeded")
    /\ UNCHANGED faults

FailDailyJob ==
    /\ pc \in {"maintenance", "amount"}
    /\ JobDue
    /\ Fault
    /\ EndDailyJob("failed")

\* The partition DDL waits on a second connection for a lock that the tick's
\* own session holds: see MaintenanceLocks.
HangInMaintenance ==
    /\ pc = "maintenance"
    /\ JobDue
    /\ day.partitionsDue
    /\ pc' = "hung"
    /\ UNCHANGED <<world, committed, session, cursor, plan, moment,
                   lastAttempt, outcome, bounds, history>>

-----------------------------------------------------------------------------
(* The strategy phases. *)

\* Faulty variant: the phases are repeated until the window ends.
AfterPhaseLoop ==
    CASE pc = "POOL" -> "INTRADAY"
      [] pc = "INTRADAY" -> "OPENING"
      [] OTHER -> IF moment \in Postmarket THEN "POOL" ELSE "final"

AfterPhase ==
    CASE pc = "POOL" -> "INTRADAY"
      [] pc = "INTRADAY" -> "OPENING"
      [] OTHER -> "final"

PhaseDue ==
    /\ wStatus[pc] # "succeeded"
    /\ IF pc = "OPENING"
          THEN moment \in Auction /\ wStatus[OpeningMatch] = "succeeded"
          ELSE moment \in Postmarket

SkipPhase ==
    /\ pc \in Phase
    /\ ~PhaseDue
    /\ pc' = AfterPhase
    /\ UNCHANGED <<world, committed, session, cursor, plan, moment,
                   lastAttempt, outcome, bounds, history>>

\* run_phase with no failing strategy: the mark is written and the result is
\* broadcast, while the commit is still to come at the end of the tick.
RunPhase ==
    /\ pc \in Phase
    /\ PhaseDue
    /\ wStatus' = [wStatus EXCEPT ![pc] = "succeeded"]
    /\ wDone' = wDone \cup {pc}
    /\ announced' = announced \cup {pc}
    /\ pc' = AfterPhase
    /\ UNCHANGED <<world, committed, wJob, wRounds, cursor, plan, moment,
                   lastAttempt, outcome, bounds, completions>>

\* One strategy of the phase failed: the phase is marked failed and retried.
FailPhase ==
    /\ pc \in Phase
    /\ PhaseDue
    /\ Fault
    /\ wStatus' = [wStatus EXCEPT ![pc] = "failed"]
    /\ pc' = AfterPhase
    /\ UNCHANGED <<world, committed, wDone, wJob, wRounds, cursor, plan,
                   moment, lastAttempt, outcome, crashes, triggers, history>>

CommitTick ==
    /\ pc = "final"
    /\ CommitMarks(wStatus, wDone)
    /\ pc' = "asleep"
    /\ UNCHANGED <<world, stored, calendar, job, wJob, wRounds, cursor, plan,
                   moment, lastAttempt, outcome, bounds, announced>>

-----------------------------------------------------------------------------
(* What goes wrong. *)

\* A database error poisons the transaction: the failure cannot be recorded
\* through the same session, the exception leaves run_once (or the final
\* commit rolls back), and run_forever goes back to sleep.
AbortTick ==
    /\ pc \notin {"stopped", "asleep", "notify", "hung"}
    /\ Fault
    /\ DropSession
    /\ outcome' = IF pc = "fetch"
                     THEN [outcome EXCEPT ![Current] = "failed"]
                     ELSE outcome
    /\ pc' = "asleep"
    /\ UNCHANGED <<world, committed, cursor, plan, moment, lastAttempt,
                   crashes, triggers, history>>

\* The process dies: the session and the memory are lost.
Crash ==
    /\ pc # "stopped"
    /\ crashes < MaxCrashes
    /\ crashes' = crashes + 1
    /\ DropSession
    /\ lastAttempt' = [t \in Task |-> Never]
    /\ outcome' = [t \in Task |-> "none"]
    /\ pc' = "stopped"
    /\ UNCHANGED <<world, committed, cursor, plan, moment, faults, triggers,
                   history>>

Restart ==
    /\ pc = "stopped"
    /\ pc' = "asleep"
    /\ UNCHANGED <<world, committed, session, cursor, plan, moment,
                   lastAttempt, outcome, bounds, history>>

-----------------------------------------------------------------------------
(* The clock and the API process. *)

AdvanceClock ==
    /\ now < Horizon
    /\ now' = now + 1
    /\ UNCHANGED <<day, committed, session, memory, bounds, history>>

\* trigger_task in the API process: run_task in the request's transaction,
\* which commits its own job row and the rounds that succeeded, and leaves the
\* marks alone.
Trigger(t) ==
    /\ triggers < MaxTriggers
    /\ triggers' = triggers + 1
    /\ \E r \in 0 .. RoundsOf(t) :
         /\ stored' = [stored EXCEPT ![t] = @ \cup 1 .. r]
         /\ calendar' = IF t = CalendarTask /\ r > 0
                           THEN day.calendar ELSE calendar
         /\ job' = [job EXCEPT ![t] = IF r = RoundsOf(t) THEN "succeeded"
                                                         ELSE "failed"]
    /\ UNCHANGED <<world, status, session, memory, faults, crashes, history>>

-----------------------------------------------------------------------------
TaskStep ==
    \/ SkipTask \/ StartTask \/ RunRound \/ FinishTask
    \/ CommitTask \/ NotifyTask \/ TasksDone

\* The steps the worker takes when nothing goes wrong.
Work ==
    \/ BeginTick \/ CheckCalendar
    \/ TaskStep
    \/ SkipDailyJob \/ RunDailyJob
    \/ SkipPhase \/ RunPhase \/ CommitTick

Trouble ==
    \/ CheckCalendarOffline \/ FailTask \/ FailDailyJob \/ HangInMaintenance
    \/ FailPhase \/ AbortTick \/ Crash

Next ==
    \/ Work
    \/ Trouble
    \/ Restart
    \/ AdvanceClock
    \/ \E t \in Task : Trigger(t)

\* The event loop keeps running the worker, the service manager restarts it
\* after a crash, and time passes.  Faults and triggers need not happen.
Fairness ==
    /\ WF_vars(Work)
    /\ WF_vars(Restart)
    /\ WF_vars(AdvanceClock)

Spec == Init /\ [][Next]_vars
FairSpec == Spec /\ Fairness

-----------------------------------------------------------------------------
TypeOK ==
    /\ day \in DayFacts
    /\ now \in Time
    /\ status \in [Key -> Mark]
    /\ stored \in [Task -> SUBSET Nat]
    /\ calendar \in Calendar \cup {"none"}
    /\ job \in [Task -> JobMark]
    /\ wStatus \in [Key -> Mark]
    /\ wDone \in SUBSET Key
    /\ wJob \in JobMark
    /\ wRounds \in SUBSET Nat
    /\ pc \in WorkerAt
    /\ cursor \in 1 .. (Len(Order) + 1)
    /\ plan \in Nat
    /\ moment \in Time
    /\ lastAttempt \in [Task -> Time \cup {Never}]
    /\ outcome \in [Task -> Mark]
    /\ faults \in 0 .. MaxFaults
    /\ crashes \in 0 .. MaxCrashes
    /\ triggers \in 0 .. MaxTriggers
    /\ completions \in [Key -> 0 .. 2]
    /\ announced \in SUBSET Key

\* A one-shot task, a daily job and a strategy phase complete at most once per
\* date, whatever crashes, aborted ticks and restarts come between
\* (scheduler.py: a one-shot success is not run again; the marks persist).
OncePerDay == \A k \in OnceKey : completions[k] <= 1

\* Readers are told of a task's success only when its rows and its mark are
\* committed: the event makes them read again (notify after the commit).
TaskEventsFollowCommits == \A t \in announced \cap Task : completions[t] > 0

\* A committed success never stands for rows that are missing: every round of
\* the run is stored with the mark, although a run may fail half way, its tick
\* may abort and its process may die (one transaction per task).  Tasks with
\* derived arguments are excluded: without candidates they have no rounds.
SuccessIsStored ==
    \A t \in Task \ Derived :
        status[t] = "succeeded" => 1 .. Rounds[t] \subseteq stored[t]

\* No ingest_jobs row is left "running" for good: the row is committed only
\* with its final status, so a crash cannot orphan it.
NoOrphanedJob == \A t \in Task : job[t] # "running"

\* When the task loop of a tick ends, every task that was to run in it did:
\* a one-shot task has succeeded or was tried at this moment, an interval task
\* was tried within its interval even when it had succeeded before.
TickServesEveryTask ==
    pc = "maintenance" =>
        \A t \in Task : moment \in Window[t] =>
            IF Interval[t] = 0
               THEN wStatus[t] = "succeeded" \/ lastAttempt[t] = moment
               ELSE lastAttempt[t] # Never /\ ~IntervalDue(t)

\* The marks of the date only move forward: a committed success of a one-shot
\* task, a daily job or a phase is never overwritten by a later failure.
SuccessIsFinal ==
    [][\A k \in OnceKey :
         status[k] = "succeeded" => status'[k] = "succeeded"]_status

\* The one-shot tasks keep the promise of DailyRegister: completed once, never
\* undone, announced only afterwards.
Register == INSTANCE DailyRegister WITH
                Item <- OneShot,
                done <- {t \in OneShot : status[t] = "succeeded"},
                told <- announced \cap OneShot
ImplementsRegister == Register!Spec

\* Every tick comes to an end, so the loop keeps serving the later tasks and
\* the later windows (run_forever isolates the exceptions of a tick), except on a
\* date whose maintenance hangs on a new partition (see MaintenanceLocks).
EveryTickEnds ==
    ~day.partitionsDue => (pc = "calendar" ~> pc \in {"asleep", "stopped"})

\* On a trading date every one-shot task and every daily job whose window is
\* still open at the end of the day succeeds for good: failures are retried by
\* later ticks, and crashes and aborted ticks only delay it.
OneShotsEventuallySucceed ==
    day.calendar = "open" /\ ~day.partitionsDue =>
        /\ \A t \in OneShot :
              Horizon \in Window[t] => <>[](status[t] = "succeeded")
        /\ Horizon \in Postmarket =>
              \A k \in {Maintenance, PoolAmount, "POOL", "INTRADAY"} :
                  <>[](status[k] = "succeeded")

\* On a date the upstream calendar closes every tick ends at the calendar gate,
\* even when the first fetches failed and the weekday fallback let tasks run:
\* the fallback does not outlive the failure.
HolidayFallsQuiet ==
    day.calendar = "closed" /\ ~day.partitionsDue =>
        <>[](pc \in {"asleep", "calendar", "stopped"})

\* strategy_hooks.py: the phases run after the postmarket data is complete.
PhasesFollowCollection ==
    \A t \in OneShot : Window[t] = Postmarket =>
        (status["POOL"] = "succeeded" => status[t] = "succeeded")

\* pipeline.py: any failure is written to ingest_jobs.  Once a tick is over,
\* a task whose last attempt failed has a failed job row.
EveryFailureIsRecorded ==
    pc = "asleep" =>
        \A t \in Task : outcome[t] = "failed" => job[t] = "failed"
=============================================================================

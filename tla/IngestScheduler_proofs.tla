----------------------- MODULE IngestScheduler_proofs -----------------------
(***************************************************************************)
(* Proofs about IngestScheduler for every registration order, every window *)
(* layout and every number of faults, crashes and triggers.                *)
(***************************************************************************)
EXTENDS IngestScheduler, TLAPS

Running == {"fetch", "commit", "notify"}
Clean   == {"stopped", "asleep", "calendar", "tasks", "fetch", "notify",
            "maintenance"}

\* The session of the tick: what its uncommitted marks may differ in.
SessionInv ==
    /\ pc \in Running => cursor \in 1 .. Len(Order)
    /\ pc \in Clean => wDone = {}
    /\ \A k \in wDone : wStatus[k] = "succeeded"
    /\ \A t \in Task :
         (pc = "commit" => t # Current) => wStatus[t] = status[t]
    /\ \A k \in OnceKey : status[k] = "succeeded" => wStatus[k] = "succeeded"

\* The run in progress.
RunInv ==
    /\ pc \in {"fetch", "commit"} /\ Interval[Current] = 0 =>
           status[Current] # "succeeded"
    /\ pc = "fetch" /\ Current \notin Derived => plan = Rounds[Current]
    /\ pc = "commit" =>
         /\ wJob \in {"succeeded", "failed"}
         /\ wStatus[Current] = wJob
         /\ wJob = "succeeded" =>
              /\ Current \in wDone
              /\ Current \notin Derived => wRounds = 1 .. Rounds[Current]
    /\ pc = "notify" => completions[Current] > 0

\* Completions agree with the committed marks.
CountInv ==
    \A k \in OnceKey :
        /\ completions[k] > 0 => status[k] = "succeeded"
        /\ completions[k] <= 1
        /\ k \in wDone => completions[k] = 0

IInv ==
    /\ TypeOK
    /\ SessionInv
    /\ RunInv
    /\ CountInv
    /\ TaskEventsFollowCommits
    /\ SuccessIsStored
    /\ NoOrphanedJob

-----------------------------------------------------------------------------
\* Inside the loop the cursor names a task of DEFAULT_TASKS.
LEMMA CurrentIsTask == cursor \in 1 .. Len(Order) => Current \in Task
BY TasksAssumption DEF Task, Current

\* How the kinds of completion marks overlap: the tasks, the daily jobs and the
\* phases are disjoint.
LEMMA KeyFacts ==
    /\ Task \subseteq Key
    /\ OneShot \subseteq Task
    /\ OnceKey \subseteq Key
    /\ OnceKey \cap Task = OneShot
    /\ Phase \subseteq OnceKey
    /\ {Maintenance, PoolAmount} \subseteq OnceKey
    /\ Phase \cap Task = {}
    /\ Maintenance \notin Task /\ PoolAmount \notin Task
BY TasksAssumption DEF Key, OneShot, OnceKey

\* The day before its first tick satisfies the invariant.
LEMMA InitIInv == Init => IInv
<1> SUFFICES ASSUME Init PROVE IInv
  OBVIOUS
<1> USE KeyFacts DEF Init
<1>1. TypeOK
  BY TasksAssumption, DayAssumption, BoundsAssumption
     DEF TypeOK, DayFacts, Time, Calendar, Mark, JobMark, WorkerAt, Phase, Never
<1>2. SessionInv
  BY DEF SessionInv, Running
<1>3. RunInv
  BY DEF RunInv
<1>4. CountInv
  BY DEF CountInv
<1>5. TaskEventsFollowCommits /\ SuccessIsStored /\ NoOrphanedJob
  BY DEF TaskEventsFollowCommits, SuccessIsStored, NoOrphanedJob
<1> QED
  BY <1>1, <1>2, <1>3, <1>4, <1>5 DEF IInv

\* What a commit does to the counted completions.
LEMMA CommitCounts ==
    ASSUME TypeOK, NEW marks, NEW done, CommitMarks(marks, done)
    PROVE  /\ completions' \in [Key -> 0 .. 2]
           /\ \A k \in Key :
                /\ k \notin done => completions'[k] = completions[k]
                /\ k \in done /\ completions[k] = 0 => completions'[k] = 1
                /\ k \in done => completions'[k] > 0
                /\ completions[k] > 0 => completions'[k] > 0
BY DEF TypeOK, CommitMarks

\* A phase is followed by another phase or by the final commit.
LEMMA AfterPhaseIs ==
    pc \in Phase => AfterPhase \in {"INTRADAY", "OPENING", "final"}
BY DEF AfterPhase, Phase

\* A daily job has one of the two keys that are not tasks.
LEMMA JobKeyIs ==
    /\ JobKey \in {Maintenance, PoolAmount}
    /\ JobKey \in OnceKey /\ JobKey \in Key /\ JobKey \notin Task
    /\ AfterJob \in {"amount", "POOL"}
BY KeyFacts DEF JobKey, AfterJob

-----------------------------------------------------------------------------
(* The inductive step, one conjunct of IInv at a time. *)

\* Every step of the worker, the clock and the API keeps the types.
LEMMA TypeStep == TypeOK /\ SessionInv /\ RunInv /\ [Next]_vars => TypeOK'
<1> SUFFICES ASSUME TypeOK, SessionInv, RunInv, [Next]_vars PROVE TypeOK'
  OBVIOUS
<1> USE KeyFacts, CurrentIsTask, TasksAssumption, BoundsAssumption
    DEF TypeOK, vars, world, committed, session, memory, bounds, history
<1>cur. pc \in Running => cursor \in 1 .. Len(Order) /\ Current \in Task
  BY DEF SessionInv
<1>1. CASE BeginTick
  BY <1>1 DEF BeginTick, WorkerAt
<1>2. CASE CheckCalendar
  BY <1>2 DEF CheckCalendar, Enter, WorkerAt, DayFacts
<1>3. CASE SkipTask
  BY <1>3 DEF SkipTask
<1>4. CASE StartTask
  BY <1>4 DEF StartTask, RoundsOf, WorkerAt, JobMark
<1>5. CASE RunRound
  BY <1>5 DEF RunRound
<1>6. CASE FinishTask
  BY <1>6, <1>cur DEF FinishTask, EndRun, Running, WorkerAt, Mark, JobMark
<1>7. CASE CommitTask
  <2>1. completions' \in [Key -> 0 .. 2]
    BY <1>7, CommitCounts DEF CommitTask
  <2>2. wRounds' = {} /\ wDone' = {} /\ status' = wStatus /\ wStatus' = wStatus
    BY <1>7 DEF CommitTask, CommitMarks
  <2>3. stored' \in [Task -> SUBSET Nat] /\ job' \in [Task -> JobMark]
    BY <1>7, <1>cur DEF CommitTask, Running
  <2>4. calendar' \in Calendar \cup {"none"}
    BY <1>7 DEF CommitTask, DayFacts
  <2> QED
    BY <1>7, <1>cur, <2>1, <2>2, <2>3, <2>4
       DEF CommitTask, Running, WorkerAt, JobMark, Mark
<1>8. CASE NotifyTask
  BY <1>8, <1>cur DEF NotifyTask, Running, WorkerAt
<1>9. CASE TasksDone
  BY <1>9 DEF TasksDone, WorkerAt
<1>10. CASE SkipDailyJob
  BY <1>10, JobKeyIs DEF SkipDailyJob, WorkerAt, Phase
<1>11. CASE RunDailyJob \/ FailDailyJob
  <2>1. PICK result \in {"succeeded", "failed"} : EndDailyJob(result)
    BY <1>11 DEF RunDailyJob, FailDailyJob
  <2>2. completions' \in [Key -> 0 .. 2]
    BY <2>1, CommitCounts DEF EndDailyJob
  <2>3. status' \in [Key -> Mark] /\ wStatus' \in [Key -> Mark] /\ wDone' = {}
    BY <2>1, JobKeyIs DEF EndDailyJob, CommitMarks, Mark
  <2>4. faults' \in 0 .. MaxFaults
    BY <1>11 DEF RunDailyJob, FailDailyJob, Fault
  <2>5. pc' \in WorkerAt
    BY <2>1, JobKeyIs DEF EndDailyJob, WorkerAt, Phase
  <2> QED
    BY <2>1, <2>2, <2>3, <2>4, <2>5 DEF EndDailyJob
<1>12. CASE SkipPhase
  BY <1>12, AfterPhaseIs DEF SkipPhase, WorkerAt, Phase
<1>13. CASE RunPhase
  <2>1. pc \in Key
    BY <1>13 DEF RunPhase
  <2>2. wStatus' \in [Key -> Mark]
    BY <1>13, <2>1 DEF RunPhase, Mark
  <2>3. wDone' \in SUBSET Key /\ announced' \in SUBSET Key
    BY <1>13, <2>1 DEF RunPhase
  <2>4. pc' \in WorkerAt
    BY <1>13, AfterPhaseIs DEF RunPhase, WorkerAt, Phase
  <2> QED
    BY <1>13, <2>2, <2>3, <2>4 DEF RunPhase
<1>14. CASE FailPhase
  <2>1. pc \in Key
    BY <1>14 DEF FailPhase
  <2>2. wStatus' \in [Key -> Mark]
    BY <1>14, <2>1 DEF FailPhase, Mark
  <2>3. pc' \in WorkerAt
    BY <1>14, AfterPhaseIs DEF FailPhase, WorkerAt, Phase
  <2> QED
    BY <1>14, <2>2, <2>3 DEF FailPhase, Fault
<1>15. CASE CommitTick
  BY <1>15, CommitCounts DEF CommitTick, CommitMarks, WorkerAt
<1>16. CASE CheckCalendarOffline
  BY <1>16 DEF CheckCalendarOffline, Enter, Fault, WorkerAt
<1>17. CASE FailTask
  BY <1>17, <1>cur DEF FailTask, EndRun, Fault, Running, WorkerAt, Mark, JobMark
<1>18. CASE HangInMaintenance
  BY <1>18 DEF HangInMaintenance, WorkerAt
<1>19. CASE AbortTick
  BY <1>19, <1>cur
     DEF AbortTick, DropSession, Fault, Running, WorkerAt, Mark, JobMark
<1>20. CASE Crash
  BY <1>20 DEF Crash, DropSession, WorkerAt, Mark, JobMark
<1>21. CASE Restart
  BY <1>21 DEF Restart, WorkerAt
<1>22. CASE AdvanceClock
  BY <1>22, DayAssumption DEF AdvanceClock, Time
<1>23. CASE \E t \in Task : Trigger(t)
  BY <1>23 DEF Trigger, RoundsOf, DayFacts, Mark, JobMark
<1>24. CASE UNCHANGED vars
  BY <1>24
<1> QED
  BY <1>1, <1>2, <1>3, <1>4, <1>5, <1>6, <1>7, <1>8, <1>9, <1>10, <1>11,
     <1>12, <1>13, <1>14, <1>15, <1>16, <1>17, <1>18, <1>19, <1>20, <1>21, <1>22,
     <1>23, <1>24 DEF Next, Work, TaskStep, Trouble

\* Every step keeps what the open transaction may hold at each place of a tick.
LEMMA SessionStep ==
    TypeOK /\ SessionInv /\ RunInv /\ [Next]_vars => SessionInv'
<1> SUFFICES ASSUME TypeOK, SessionInv, RunInv, [Next]_vars
             PROVE  SessionInv'
  OBVIOUS
<1> USE KeyFacts
    DEF SessionInv, Running, Clean, vars, world, committed, session, memory,
        bounds, history, Current
<1>1. CASE BeginTick
  BY <1>1 DEF BeginTick
<1>2. CASE CheckCalendar \/ CheckCalendarOffline
  BY <1>2 DEF CheckCalendar, CheckCalendarOffline, Enter
<1>3. CASE SkipTask
  BY <1>3 DEF SkipTask
<1>4. CASE StartTask
  BY <1>4 DEF StartTask, TypeOK
<1>5. CASE RunRound
  BY <1>5 DEF RunRound
<1>6. CASE FinishTask
  BY <1>6, CurrentIsTask DEF FinishTask, EndRun, TypeOK
<1>7. CASE FailTask
  BY <1>7, CurrentIsTask DEF FailTask, EndRun, TypeOK, RunInv, OneShot
<1>8. CASE CommitTask
  BY <1>8 DEF CommitTask, CommitMarks
<1>9. CASE NotifyTask
  BY <1>9 DEF NotifyTask
<1>10. CASE TasksDone
  BY <1>10 DEF TasksDone
<1>11. CASE SkipDailyJob
  BY <1>11, JobKeyIs DEF SkipDailyJob
<1>12. CASE RunDailyJob \/ FailDailyJob
  BY <1>12, JobKeyIs DEF RunDailyJob, FailDailyJob, EndDailyJob, CommitMarks
<1>13. CASE HangInMaintenance
  BY <1>13 DEF HangInMaintenance
<1>14. CASE SkipPhase
  BY <1>14, AfterPhaseIs DEF SkipPhase, Phase
<1>15. CASE RunPhase
  <2>1. pc \in Key /\ pc \notin Task /\ pc' \notin Running \cup Clean
    BY <1>15, AfterPhaseIs DEF RunPhase
  <2> QED
    BY <1>15, <2>1 DEF RunPhase, TypeOK, Phase
<1>16. CASE FailPhase
  <2>1. pc \in OnceKey /\ pc \notin Task /\ pc' \notin Running \cup Clean
    BY <1>16, AfterPhaseIs DEF FailPhase
  <2>2. pc \notin wDone /\ status[pc] # "succeeded"
    BY <1>16, <2>1 DEF FailPhase, PhaseDue
  <2> QED
    BY <1>16, <2>1, <2>2 DEF FailPhase, TypeOK, Phase
<1>17. CASE CommitTick
  BY <1>17 DEF CommitTick, CommitMarks
<1>18. CASE AbortTick
  BY <1>18 DEF AbortTick, DropSession
<1>19. CASE Crash
  BY <1>19 DEF Crash, DropSession
<1>20. CASE Restart
  BY <1>20 DEF Restart
<1>21. CASE AdvanceClock
  BY <1>21 DEF AdvanceClock
<1>22. CASE \E t \in Task : Trigger(t)
  BY <1>22 DEF Trigger
<1>23. CASE UNCHANGED vars
  BY <1>23
<1> QED
  BY <1>1, <1>2, <1>3, <1>4, <1>5, <1>6, <1>7, <1>8, <1>9, <1>10, <1>11,
     <1>12, <1>13, <1>14, <1>15, <1>16, <1>17, <1>18, <1>19, <1>20, <1>21,
     <1>22, <1>23 DEF Next, Work, TaskStep, Trouble

\* Every step keeps the rounds of the run in progress an initial segment.
LEMMA RunStep == TypeOK /\ SessionInv /\ RunInv /\ [Next]_vars => RunInv'
<1> SUFFICES ASSUME TypeOK, SessionInv, RunInv, [Next]_vars PROVE RunInv'
  OBVIOUS
<1> USE KeyFacts
    DEF RunInv, vars, world, committed, session, memory, bounds, history,
        Current
<1>1. CASE BeginTick
  BY <1>1 DEF BeginTick
<1>2. CASE CheckCalendar \/ CheckCalendarOffline
  BY <1>2 DEF CheckCalendar, CheckCalendarOffline, Enter
<1>3. CASE SkipTask
  BY <1>3 DEF SkipTask
<1>4. CASE StartTask
  <2>1. Current \in Task /\ wStatus[Current] = status[Current]
    BY <1>4, CurrentIsTask DEF StartTask, TypeOK, SessionInv
  <2> QED
    BY <1>4, <2>1 DEF StartTask, RoundsOf, Due
<1>5. CASE RunRound
  BY <1>5 DEF RunRound
<1>6. CASE FinishTask \/ FailTask
  <2>1. Current \in Task
    BY <1>6, CurrentIsTask DEF FinishTask, FailTask, SessionInv, Running
  <2> QED
    BY <1>6, <2>1 DEF FinishTask, FailTask, EndRun, TypeOK
<1>7. CASE CommitTask
  <2>1. Current \in Task
    BY <1>7, CurrentIsTask DEF CommitTask, SessionInv, Running
  <2>2. wJob = "succeeded" => completions'[Current] > 0
    BY <1>7, <2>1, CommitCounts DEF CommitTask
  <2> QED
    BY <1>7, <2>2 DEF CommitTask
<1>8. CASE NotifyTask
  BY <1>8 DEF NotifyTask
<1>9. CASE TasksDone
  BY <1>9 DEF TasksDone
<1>10. CASE SkipDailyJob
  BY <1>10, JobKeyIs DEF SkipDailyJob
<1>11. CASE RunDailyJob \/ FailDailyJob
  BY <1>11, JobKeyIs DEF RunDailyJob, FailDailyJob, EndDailyJob
<1>12. CASE HangInMaintenance
  BY <1>12 DEF HangInMaintenance
<1>13. CASE SkipPhase \/ RunPhase \/ FailPhase
  BY <1>13, AfterPhaseIs DEF SkipPhase, RunPhase, FailPhase
<1>14. CASE CommitTick
  BY <1>14 DEF CommitTick
<1>15. CASE AbortTick
  BY <1>15 DEF AbortTick
<1>16. CASE Crash
  BY <1>16 DEF Crash
<1>17. CASE Restart
  BY <1>17 DEF Restart
<1>18. CASE AdvanceClock
  BY <1>18 DEF AdvanceClock
<1>19. CASE \E t \in Task : Trigger(t)
  BY <1>19 DEF Trigger
<1>20. CASE UNCHANGED vars
  BY <1>20
<1> QED
  BY <1>1, <1>2, <1>3, <1>4, <1>5, <1>6, <1>7, <1>8, <1>9, <1>10, <1>11,
     <1>12, <1>13, <1>14, <1>15, <1>16, <1>17, <1>18, <1>19, <1>20
     DEF Next, Work, TaskStep, Trouble

\* A commit keeps CountInv when it completes only keys that were not complete
\* and loses no success.
LEMMA CommitKeepsCounts ==
    ASSUME TypeOK, CountInv, NEW marks, NEW done, CommitMarks(marks, done),
           \A k \in OnceKey :
             /\ k \in done => completions[k] = 0 /\ marks[k] = "succeeded"
             /\ status[k] = "succeeded" => marks[k] = "succeeded"
    PROVE  CountInv'
<1> SUFFICES ASSUME NEW k \in OnceKey
             PROVE  /\ completions'[k] > 0 => marks[k] = "succeeded"
                    /\ completions'[k] <= 1
  BY DEF CommitMarks, CountInv
<1>1. CASE k \in done
  BY <1>1, CommitCounts, KeyFacts
<1>2. CASE k \notin done
  BY <1>2, CommitCounts, KeyFacts DEF CountInv
<1> QED
  BY <1>1, <1>2

\* A step completes a key only if its mark was not yet succeeded.
LEMMA CountStep ==
    TypeOK /\ SessionInv /\ RunInv /\ CountInv /\ [Next]_vars => CountInv'
<1> SUFFICES ASSUME TypeOK, SessionInv, RunInv, CountInv, [Next]_vars
             PROVE  CountInv'
  OBVIOUS
<1> USE KeyFacts
    DEF vars, world, committed, session, memory, bounds, history
\* A key that the session does not hold for succeeded was never completed.
<1>new. \A k \in OnceKey : wStatus[k] # "succeeded" =>
                             completions[k] = 0 /\ k \notin wDone
  BY DEF TypeOK, SessionInv, CountInv
<1>1. CASE FinishTask
  <2>1. Current \in Task /\ wDone = {}
    BY <1>1, CurrentIsTask DEF FinishTask, SessionInv, Running, Clean
  <2>2. Current \in OneShot => completions[Current] = 0
    BY <1>1 DEF FinishTask, RunInv, CountInv, TypeOK, OneShot
  <2> QED
    BY <1>1, <2>1, <2>2 DEF FinishTask, EndRun, CountInv
<1>2. CASE CommitTask \/ CommitTick
  <2>1. CommitMarks(wStatus, wDone)
    BY <1>2 DEF CommitTask, CommitTick
  <2> QED
    BY <2>1, CommitKeepsCounts DEF SessionInv, CountInv
<1>3. CASE RunDailyJob \/ FailDailyJob
  <2>1. PICK result \in {"succeeded", "failed"} : EndDailyJob(result)
    BY <1>3 DEF RunDailyJob, FailDailyJob
  <2>2. wStatus[JobKey] # "succeeded"
    BY <1>3 DEF RunDailyJob, FailDailyJob, JobDue
  <2> DEFINE marks == [wStatus EXCEPT ![JobKey] = result]
             done == IF result = "succeeded" THEN wDone \cup {JobKey}
                                             ELSE wDone
  <2>3. CommitMarks(marks, done)
    BY <2>1 DEF EndDailyJob
  <2>4. ASSUME NEW k \in OnceKey
        PROVE  /\ k \in done => completions[k] = 0 /\ marks[k] = "succeeded"
               /\ status[k] = "succeeded" => marks[k] = "succeeded"
    <3>1. CASE k = JobKey
      BY <3>1, <2>2, <1>new DEF TypeOK, SessionInv
    <3>2. CASE k # JobKey
      BY <3>2 DEF TypeOK, SessionInv, CountInv
    <3> QED
      BY <3>1, <3>2
  <2> HIDE DEF marks, done
  <2> QED
    BY <2>3, <2>4, CommitKeepsCounts
<1>4. CASE RunPhase
  <2>1. pc \in OnceKey /\ wStatus[pc] # "succeeded"
    BY <1>4 DEF RunPhase, PhaseDue
  <2> QED
    BY <1>4, <2>1, <1>new DEF RunPhase, CountInv
<1>5. CASE AbortTick \/ Crash
  BY <1>5 DEF AbortTick, Crash, DropSession, CountInv
<1>6. CASE BeginTick \/ CheckCalendar \/ CheckCalendarOffline \/ SkipTask
  BY <1>6 DEF BeginTick, CheckCalendar, CheckCalendarOffline, SkipTask,
              CountInv
<1>7. CASE StartTask \/ RunRound \/ FailTask \/ NotifyTask \/ TasksDone
  BY <1>7 DEF StartTask, RunRound, FailTask, EndRun, NotifyTask, TasksDone,
              CountInv
<1>8. CASE SkipDailyJob \/ HangInMaintenance \/ SkipPhase \/ FailPhase
  BY <1>8 DEF SkipDailyJob, HangInMaintenance, SkipPhase, FailPhase, CountInv
<1>9. CASE Restart \/ AdvanceClock \/ UNCHANGED vars
           \/ \E t \in Task : Trigger(t)
  BY <1>9 DEF Restart, AdvanceClock, Trigger, CountInv
<1> QED
  BY <1>1, <1>2, <1>3, <1>4, <1>5, <1>6, <1>7, <1>8, <1>9
     DEF Next, Work, TaskStep, Trouble

\* A step announces a task only if its completion is committed.
LEMMA EventStep ==
    /\ TypeOK /\ SessionInv /\ RunInv /\ TaskEventsFollowCommits
    /\ [Next]_vars
    => TaskEventsFollowCommits'
<1> SUFFICES ASSUME TypeOK, SessionInv, RunInv, TaskEventsFollowCommits,
                    [Next]_vars
             PROVE  TaskEventsFollowCommits'
  OBVIOUS
<1> USE KeyFacts
    DEF TaskEventsFollowCommits, vars, world, committed, session, memory,
        bounds, history
<1>1. CASE NotifyTask
  BY <1>1 DEF NotifyTask, RunInv
<1>2. CASE RunPhase
  BY <1>2 DEF RunPhase
<1>3. CASE CommitTask \/ CommitTick \/ RunDailyJob \/ FailDailyJob
  <2>1. \E marks, done : CommitMarks(marks, done)
    BY <1>3 DEF CommitTask, CommitTick, RunDailyJob, FailDailyJob, EndDailyJob
  <2>2. \A k \in Key : completions[k] > 0 => completions'[k] > 0
    BY <2>1, CommitCounts
  <2> QED
    BY <1>3, <2>2
       DEF CommitTask, CommitTick, RunDailyJob, FailDailyJob, EndDailyJob
<1>4. CASE BeginTick \/ CheckCalendar \/ CheckCalendarOffline \/ SkipTask
  BY <1>4 DEF BeginTick, CheckCalendar, CheckCalendarOffline, SkipTask
<1>5. CASE StartTask \/ RunRound \/ FinishTask \/ FailTask \/ TasksDone
  BY <1>5 DEF StartTask, RunRound, FinishTask, FailTask, EndRun, TasksDone
<1>6. CASE SkipDailyJob \/ HangInMaintenance \/ SkipPhase \/ FailPhase
  BY <1>6 DEF SkipDailyJob, HangInMaintenance, SkipPhase, FailPhase
<1>7. CASE \/ AbortTick \/ Crash \/ Restart \/ AdvanceClock
           \/ UNCHANGED vars \/ \E t \in Task : Trigger(t)
  BY <1>7 DEF AbortTick, Crash, Restart, AdvanceClock, Trigger
<1> QED
  BY <1>1, <1>2, <1>3, <1>4, <1>5, <1>6, <1>7
     DEF Next, Work, TaskStep, Trouble

\* A step commits a success only together with the rows it stands for.
LEMMA StoredStep ==
    TypeOK /\ SessionInv /\ RunInv /\ SuccessIsStored /\ [Next]_vars
    => SuccessIsStored'
<1> SUFFICES ASSUME TypeOK, SessionInv, RunInv, SuccessIsStored,
                    [Next]_vars, NEW t \in Task \ Derived,
                    status'[t] = "succeeded"
             PROVE  1 .. Rounds[t] \subseteq stored'[t]
  BY DEF SuccessIsStored
<1> USE KeyFacts
    DEF SuccessIsStored, TypeOK, vars, world, committed, session, memory,
        bounds, history
<1>1. CASE CommitTask
  <2>1. status'[t] = wStatus[t]
    BY <1>1 DEF CommitTask, CommitMarks
  <2>2. CASE t = Current
    BY <1>1, <2>1, <2>2 DEF CommitTask, RunInv
  <2>3. CASE t # Current
    BY <1>1, <2>1, <2>3 DEF CommitTask, SessionInv
  <2> QED
    BY <2>2, <2>3
<1>2. CASE RunDailyJob \/ FailDailyJob
  <2>1. status'[t] = status[t]
    BY <1>2, JobKeyIs DEF RunDailyJob, FailDailyJob, EndDailyJob, CommitMarks,
                          SessionInv
  <2> QED
    BY <1>2, <2>1 DEF RunDailyJob, FailDailyJob, EndDailyJob
<1>3. CASE CommitTick
  BY <1>3 DEF CommitTick, CommitMarks, SessionInv
<1>4. CASE \E u \in Task : Trigger(u)
  BY <1>4 DEF Trigger
<1>5. CASE BeginTick \/ CheckCalendar \/ CheckCalendarOffline \/ SkipTask
  BY <1>5 DEF BeginTick, CheckCalendar, CheckCalendarOffline, SkipTask
<1>6. CASE \/ StartTask \/ RunRound \/ FinishTask \/ FailTask \/ NotifyTask
           \/ TasksDone
  BY <1>6 DEF StartTask, RunRound, FinishTask, FailTask, EndRun, NotifyTask,
              TasksDone
<1>7. CASE \/ SkipDailyJob \/ HangInMaintenance \/ SkipPhase \/ RunPhase
           \/ FailPhase
  BY <1>7 DEF SkipDailyJob, HangInMaintenance, SkipPhase, RunPhase, FailPhase
<1>8. CASE \/ AbortTick \/ Crash \/ Restart \/ AdvanceClock
           \/ UNCHANGED vars
  BY <1>8 DEF AbortTick, Crash, Restart, AdvanceClock
<1> QED
  BY <1>1, <1>2, <1>3, <1>4, <1>5, <1>6, <1>7, <1>8
     DEF Next, Work, TaskStep, Trouble

\* A step commits a job row only with its final status.
LEMMA JobStep ==
    TypeOK /\ RunInv /\ NoOrphanedJob /\ [Next]_vars => NoOrphanedJob'
<1> SUFFICES ASSUME TypeOK, RunInv, NoOrphanedJob, [Next]_vars
             PROVE  NoOrphanedJob'
  OBVIOUS
<1> USE DEF NoOrphanedJob, vars, world, committed, session, memory, bounds,
            history
<1>1. CASE CommitTask
  BY <1>1 DEF CommitTask, RunInv, TypeOK
<1>2. CASE \E t \in Task : Trigger(t)
  BY <1>2 DEF Trigger, TypeOK
<1>3. CASE ~(CommitTask \/ \E t \in Task : Trigger(t))
  <2>1. UNCHANGED job
    BY <1>3
       DEF Next, Work, TaskStep, Trouble, BeginTick, CheckCalendar,
           CheckCalendarOffline, SkipTask, StartTask, RunRound, FinishTask,
           FailTask, EndRun, NotifyTask, TasksDone, SkipDailyJob,
           RunDailyJob, FailDailyJob, EndDailyJob, HangInMaintenance,
           SkipPhase, RunPhase, FailPhase, CommitTick, AbortTick, Crash,
           Restart, AdvanceClock
  <2> QED
    BY <2>1
<1> QED
  BY <1>1, <1>2, <1>3

\* IInv is inductive.
LEMMA StepIInv == IInv /\ [Next]_vars => IInv'
BY TypeStep, SessionStep, RunStep, CountStep, EventStep, StoredStep, JobStep
   DEF IInv

\* The inductive invariant holds in every reachable state.
LEMMA Inductive == Spec => []IInv
BY InitIInv, StepIInv, PTL DEF Spec

-----------------------------------------------------------------------------
(* The theorems. *)

\* Every variable keeps its type: in particular the session, the marks and the
\* memory of the tick loop stay well formed across aborts and crashes.
THEOREM TypeCorrect == Spec => []TypeOK
BY Inductive, PTL DEF IInv

\* No one-shot task, daily job or strategy phase completes twice on a date,
\* whatever aborted ticks, crashes and restarts come between two ticks.
THEOREM CompletedOnce == Spec => []OncePerDay
<1>1. IInv => OncePerDay
  BY DEF IInv, CountInv, OncePerDay
<1> QED
  BY <1>1, Inductive, PTL

\* The event that makes readers read again never precedes the commit of the
\* task's rows and mark.
THEOREM EventsFollowCommits == Spec => []TaskEventsFollowCommits
BY Inductive, PTL DEF IInv

\* A committed success of a task stands for all the rows of a whole run.
THEOREM SuccessMeansStored == Spec => []SuccessIsStored
BY Inductive, PTL DEF IInv

\* A crash never leaves an ingest_jobs row running.
THEOREM NoJobOrphaned == Spec => []NoOrphanedJob
BY Inductive, PTL DEF IInv

\* What a step does to the committed marks of what is meant to happen once.
LEMMA MarksMoveForward ==
    ASSUME IInv, [Next]_vars, NEW k \in OnceKey, status[k] = "succeeded"
    PROVE  status'[k] = "succeeded"
<1> USE DEF IInv, SessionInv
<1>1. CASE CommitTask \/ CommitTick
  BY <1>1 DEF CommitTask, CommitTick, CommitMarks
<1>2. CASE RunDailyJob \/ FailDailyJob
  <2>1. PICK result \in {"succeeded", "failed"} : EndDailyJob(result)
    BY <1>2 DEF RunDailyJob, FailDailyJob
  <2>2. wStatus[k] = "succeeded" /\ k # JobKey
    BY <1>2 DEF RunDailyJob, FailDailyJob, JobDue
  <2> QED
    BY <2>1, <2>2, KeyFacts DEF EndDailyJob, CommitMarks, TypeOK
<1>3. CASE ~(CommitTask \/ CommitTick \/ RunDailyJob \/ FailDailyJob)
  <2>1. UNCHANGED status
    BY <1>3
       DEF Next, Work, TaskStep, Trouble, BeginTick, CheckCalendar,
           CheckCalendarOffline, SkipTask, StartTask, RunRound, FinishTask,
           FailTask, EndRun, NotifyTask, TasksDone, SkipDailyJob,
           HangInMaintenance, SkipPhase, RunPhase, FailPhase, AbortTick,
           Crash, Restart, AdvanceClock, Trigger, vars, committed
  <2> QED
    BY <2>1
<1> QED
  BY <1>1, <1>2, <1>3

\* A committed success is never overwritten by a later failure or retry.
THEOREM MarksAreFinal == Spec => SuccessIsFinal
<1>1. IInv /\ [Next]_vars =>
          [\A k \in OnceKey :
              status[k] = "succeeded" => status'[k] = "succeeded"]_status
  BY MarksMoveForward
<1> QED
  BY <1>1, Inductive, PTL DEF Spec, SuccessIsFinal

-----------------------------------------------------------------------------
(* The task loop serves every task of the tick. *)

Served(t) ==
    moment \in Window[t] =>
        IF Interval[t] = 0
           THEN wStatus[t] = "succeeded" \/ lastAttempt[t] = moment
           ELSE lastAttempt[t] # Never /\ ~IntervalDue(t)

\* The loop has served the tasks behind its cursor, and the task whose run it
\* is committing or announcing.
LoopInv ==
    /\ pc \in {"tasks", "fetch", "commit", "notify"} =>
           \A j \in 1 .. (cursor - 1) : Served(Order[j])
    /\ pc \in {"commit", "notify"} => Served(Current)
    /\ TickServesEveryTask

\* Before its first tick the worker has served no task and promises none.
LEMMA InitLoopInv == Init => LoopInv
BY DEF Init, LoopInv, TickServesEveryTask

\* Passing a task in the loop serves it: it was run now or it was not due.
LEMMA LoopStep == TypeOK /\ SessionInv /\ LoopInv /\ [Next]_vars => LoopInv'
<1> SUFFICES ASSUME TypeOK, SessionInv, LoopInv, [Next]_vars
             PROVE  LoopInv'
  OBVIOUS
<1> USE DEF LoopInv, Served, IntervalDue, TickServesEveryTask, vars, world,
            committed, session, memory, bounds, history, Current
<1>1. CASE CheckCalendar \/ CheckCalendarOffline
  BY <1>1 DEF CheckCalendar, CheckCalendarOffline, Enter
<1>2. CASE SkipTask
  <2>1. Served(Current)
    BY <1>2 DEF SkipTask, Due
  <2>2. 1 .. (cursor' - 1) = 1 .. (cursor - 1) \cup {cursor}
    BY <1>2 DEF SkipTask, TypeOK
  <2> QED
    BY <1>2, <2>1, <2>2 DEF SkipTask
<1>3. CASE StartTask
  BY <1>3 DEF StartTask
<1>4. CASE FinishTask \/ FailTask
  <2>1. PICK result \in {"succeeded", "failed"} : EndRun(result)
    BY <1>4 DEF FinishTask, FailTask
  <2>2. Current \in Task /\ pc' = "commit"
    BY <1>4, <2>1, CurrentIsTask
       DEF FinishTask, FailTask, EndRun, SessionInv, Running
  <2>3. ASSUME NEW t \in Task, t = Current \/ Served(t)
        PROVE  Served(t)'
    <3>1. CASE t = Current
      <4>1. lastAttempt'[t] = moment /\ moment' = moment
        BY <2>1, <3>1 DEF EndRun, TypeOK
      <4>2. moment \in Nat /\ Interval[t] \in Nat
        BY TasksAssumption, DayAssumption DEF TypeOK, Time
      <4> QED
        BY <4>1, <4>2 DEF Never
    <3>2. CASE t # Current
      BY <2>1, <2>2, <2>3, <3>2 DEF EndRun, TypeOK
    <3> QED
      BY <3>1, <3>2
  <2>4. \A j \in 1 .. (cursor - 1) : Order[j] \in Task /\ Served(Order[j])
    BY <1>4, TasksAssumption DEF FinishTask, FailTask, Task, TypeOK
  <2>5. cursor' = cursor
    BY <2>1 DEF EndRun
  <2>6. Served(Current)'
    BY <2>2, <2>3, <2>5
  <2>7. ASSUME NEW j \in 1 .. (cursor - 1)
        PROVE  Served(Order[j])'
    BY <2>3, <2>4
  <2> HIDE DEF Served
  <2> QED
    BY <2>2, <2>5, <2>6, <2>7
<1>5. CASE CommitTask
  <2>1. 1 .. cursor = 1 .. (cursor - 1) \cup {cursor}
    BY DEF TypeOK
  <2> QED
    BY <1>5, <2>1 DEF CommitTask, CommitMarks, TypeOK
<1>6. CASE NotifyTask
  <2>1. 1 .. cursor = 1 .. (cursor - 1) \cup {cursor}
    BY DEF TypeOK
  <2> QED
    BY <1>6, <2>1 DEF NotifyTask, TypeOK
<1>7. CASE TasksDone
  <2>1. \A t \in Task : \E j \in 1 .. (cursor - 1) : t = Order[j]
    BY <1>7, TasksAssumption DEF TasksDone, Task, TypeOK
  <2> QED
    BY <1>7, <2>1 DEF TasksDone
<1>8. CASE SkipDailyJob \/ RunDailyJob \/ FailDailyJob
  BY <1>8, JobKeyIs DEF SkipDailyJob, RunDailyJob, FailDailyJob, EndDailyJob
<1>9. CASE SkipPhase \/ RunPhase \/ FailPhase
  BY <1>9, AfterPhaseIs DEF SkipPhase, RunPhase, FailPhase, Phase
<1>10. CASE BeginTick \/ RunRound \/ HangInMaintenance \/ CommitTick
  BY <1>10 DEF BeginTick, RunRound, HangInMaintenance, CommitTick
<1>11. CASE AbortTick \/ Crash \/ Restart
  BY <1>11 DEF AbortTick, Crash, Restart
<1>12. CASE AdvanceClock \/ UNCHANGED vars \/ \E t \in Task : Trigger(t)
  BY <1>12 DEF AdvanceClock, Trigger
<1> QED
  BY <1>1, <1>2, <1>3, <1>4, <1>5, <1>6, <1>7, <1>8, <1>9, <1>10, <1>11,
     <1>12 DEF Next, Work, TaskStep, Trouble

\* When the task loop ends, every task in its window has succeeded, was tried
\* by this tick, or is an interval task tried within its interval.
THEOREM LoopServesAll == Spec => []TickServesEveryTask
<1>1. LoopInv => TickServesEveryTask
  BY DEF LoopInv
<1>2. IInv => TypeOK /\ SessionInv
  BY DEF IInv
<1> QED
  BY <1>1, <1>2, InitLoopInv, LoopStep, Inductive, PTL DEF Spec

-----------------------------------------------------------------------------
(* Refinement. *)

\* Every step of the worker completes one item, tells of one, or leaves the
\* register alone.
LEMMA RegisterStep == IInv /\ [Next]_vars => [Register!Next]_(Register!vars)
<1> SUFFICES ASSUME IInv, [Next]_vars
             PROVE  [Register!Next]_(Register!vars)
  OBVIOUS
<1> DEFINE done == {t \in OneShot : status[t] = "succeeded"}
           told == announced \cap OneShot
<1> USE KeyFacts DEF Register!Next, Register!vars
<1>1. CASE CommitTask
  <2>1. Current \in Task /\ status' = wStatus /\ told' = told
    BY <1>1, CurrentIsTask
       DEF CommitTask, CommitMarks, IInv, SessionInv, Running
  <2>2. \A t \in OneShot : t # Current => status'[t] = status[t]
    BY <1>1, <2>1 DEF IInv, SessionInv
  <2>3. CASE Current \in OneShot /\ wJob = "succeeded"
    <3>1. Current \notin done /\ done' = done \cup {Current}
      BY <1>1, <2>1, <2>2, <2>3
         DEF CommitTask, IInv, RunInv, OneShot
    <3> QED
      BY <2>1, <2>3, <3>1 DEF Register!Complete
  <2>4. CASE ~(Current \in OneShot /\ wJob = "succeeded")
    <3>1. done' = done
      BY <1>1, <2>1, <2>2, <2>4 DEF CommitTask, IInv, RunInv, OneShot
    <3> QED
      BY <2>1, <3>1
  <2> QED
    BY <2>3, <2>4
<1>2. CASE NotifyTask
  <2>1. Current \in Task /\ UNCHANGED status
    BY <1>2, CurrentIsTask
       DEF NotifyTask, IInv, SessionInv, Running, committed
  <2>2. CASE Current \in OneShot
    <3>1. Current \in done
      BY <1>2, <2>2 DEF NotifyTask, IInv, RunInv, CountInv
    <3> QED
      BY <1>2, <2>1, <2>2, <3>1 DEF NotifyTask, Register!Tell
  <2>3. CASE Current \notin OneShot
    BY <1>2, <2>1, <2>3 DEF NotifyTask
  <2> QED
    BY <2>2, <2>3
<1>3. CASE RunDailyJob \/ FailDailyJob
  <2>1. \A t \in OneShot : status'[t] = status[t]
    BY <1>3, JobKeyIs
       DEF RunDailyJob, FailDailyJob, EndDailyJob, CommitMarks, IInv,
           SessionInv, TypeOK
  <2> QED
    BY <1>3, <2>1 DEF RunDailyJob, FailDailyJob, EndDailyJob
<1>4. CASE CommitTick
  <2>1. \A t \in OneShot : status'[t] = status[t]
    BY <1>4 DEF CommitTick, CommitMarks, IInv, SessionInv
  <2> QED
    BY <1>4, <2>1 DEF CommitTick
<1>5. CASE RunPhase
  <2>1. told' = told
    BY <1>5 DEF RunPhase
  <2> QED
    BY <1>5, <2>1 DEF RunPhase, committed
<1>6. CASE ~(CommitTask \/ NotifyTask \/ RunDailyJob \/ FailDailyJob
             \/ CommitTick \/ RunPhase)
  <2>1. UNCHANGED <<status, announced>>
    BY <1>6
       DEF Next, Work, TaskStep, Trouble, BeginTick, CheckCalendar,
           CheckCalendarOffline, SkipTask, StartTask, RunRound, FinishTask,
           FailTask, EndRun, TasksDone, SkipDailyJob, HangInMaintenance,
           SkipPhase, FailPhase, AbortTick, Crash, Restart, AdvanceClock,
           Trigger, vars, committed, history
  <2> QED
    BY <2>1
<1> QED
  BY <1>1, <1>2, <1>3, <1>4, <1>5, <1>6

\* Ticks, sessions, faults and crashes included, the worker implements the
\* abstract register of the one-shot tasks.
THEOREM Refinement == Spec => ImplementsRegister
<1>1. Init => Register!Init
  BY KeyFacts DEF Init, Register!Init
<1> QED
  BY <1>1, RegisterStep, Inductive, PTL
     DEF Spec, ImplementsRegister, Register!Spec
=============================================================================

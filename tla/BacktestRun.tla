---------------------------- MODULE BacktestRun ----------------------------
(***************************************************************************)
(* Backtests: the request that creates the row of a run and the task that  *)
(* it leaves behind in the event loop (app/services/report_service.py      *)
(* 202-312, app/engine/backtest.py 390-410, app/repositories/derived.py    *)
(* 204-252).                                                               *)
(*                                                                         *)
(* The request commits only after its endpoint has returned, so the task   *)
(* may work before the row exists for anyone else: what it finds, and what *)
(* it waits for, depends on that commit.  One action is the code between   *)
(* two awaits that others can notice.  The cached list of runs, which both *)
(* invalidate and the page polls, is one key of the cache of LiveRefresh.  *)
(***************************************************************************)
EXTENDS Naturals

CONSTANT Run   \* run_ids that requests may generate

ASSUME BacktestAssumption == Run # {}

Final == {"succeeded", "failed"}
RowStatus == {"none", "pending"} \cup Final

VARIABLES
    reportRow,   \* [run -> committed backtest_runs.status]
    submission,  \* [run -> where its request is]
    analysis     \* [run -> where its background task is, or how it came to its end]

backtestVars == <<reportRow, submission, analysis>>

BacktestInit ==
    /\ reportRow = [r \in Run |-> "none"]
    /\ submission = [r \in Run |-> "none"]
    /\ analysis = [r \in Run |-> "none"]

-----------------------------------------------------------------------------
(* The request. *)

\* run_backtest: the row and the audit entry are flushed, not committed.
Submit(r) ==
    /\ submission[r] = "none"
    /\ submission' = [submission EXCEPT ![r] = "flushed"]
    /\ UNCHANGED <<reportRow, analysis>>

\* The task is created; what the endpoint reads back is its own row.
StartAnalysis(r) ==
    /\ submission[r] = "flushed"
    /\ submission' = [submission EXCEPT ![r] = "answered"]
    /\ analysis' = [analysis EXCEPT ![r] = "sampling"]
    /\ UNCHANGED reportRow

CommitSubmission(r) ==
    /\ submission[r] = "answered"
    /\ submission' = [submission EXCEPT ![r] = "committed"]
    /\ reportRow' = [reportRow EXCEPT ![r] = "pending"]
    /\ UNCHANGED analysis

\* get_session: an error before or at the commit rolls back; the task goes on.
AbortSubmission(r) ==
    /\ submission[r] \in {"flushed", "answered"}
    /\ submission' = [submission EXCEPT ![r] = "aborted"]
    /\ UNCHANGED <<reportRow, analysis>>

-----------------------------------------------------------------------------
(* The background task. *)

AnalysisMoves(r, to) == analysis' = [analysis EXCEPT ![r] = to]

\* The samples are read and the paths are run; anything may raise.
FinishSamples(r) ==
    /\ analysis[r] = "sampling"
    /\ AnalysisMoves(r, "persisting")
    /\ UNCHANGED <<reportRow, submission>>

RaiseInSamples(r) ==
    /\ analysis[r] = "sampling"
    /\ AnalysisMoves(r, "failing")
    /\ UNCHANGED <<reportRow, submission>>

\* _persist looks the row up: there it is updated, else a second one is inserted.
LookUpRow(r) ==
    /\ analysis[r] = "persisting"
    /\ AnalysisMoves(r, IF reportRow[r] = "none" THEN "inserting" ELSE "updating")
    /\ UNCHANGED <<reportRow, submission>>

\* The unique key makes the insertion wait for the request, and fail when it
\* has committed.
InsertRow(r) ==
    /\ analysis[r] = "inserting" /\ submission[r] \in {"committed", "aborted"}
    /\ AnalysisMoves(r, IF submission[r] = "committed" THEN "failing" ELSE "updating")
    /\ UNCHANGED <<reportRow, submission>>

SaveReport(r) ==
    /\ analysis[r] = "updating"
    /\ AnalysisMoves(r, "ended")
    /\ reportRow' = [reportRow EXCEPT ![r] = "succeeded"]
    /\ UNCHANGED submission

\* A statement or the commit fails: the session of the report is dropped.
FailToSave(r) ==
    /\ analysis[r] \in {"persisting", "inserting", "updating"}
    /\ AnalysisMoves(r, "failing")
    /\ UNCHANGED <<reportRow, submission>>

\* Faulty variant: a failure is only logged.
UnchangedByFailure(r) == reportRow[r]

\* update_status does nothing for a row that it does not see.
AfterFailure(r) == IF reportRow[r] = "none" THEN "none" ELSE "failed"

\* The failure is written in a second session, or meant no row.
SaveFailure(r) ==
    /\ analysis[r] = "failing"
    /\ AnalysisMoves(r, IF reportRow[r] = "none" THEN "unseen" ELSE "ended")
    /\ reportRow' = [reportRow EXCEPT ![r] = AfterFailure(r)]
    /\ UNCHANGED submission

\* An error in the second session leaves the task as an exception.
FailAgain(r) ==
    /\ analysis[r] = "failing"
    /\ AnalysisMoves(r, "raised")
    /\ UNCHANGED <<reportRow, submission>>

-----------------------------------------------------------------------------
\* The process stops: its requests roll back and its tasks are gone.
StopProcess ==
    /\ \E r \in Run : submission[r] \in {"flushed", "answered"}
                          \/ analysis[r] \in {"sampling", "persisting", "inserting",
                                              "updating", "failing"}
    /\ submission' = [r \in Run |-> IF submission[r] \in {"flushed", "answered"}
                                    THEN "aborted" ELSE submission[r]]
    /\ analysis' = [r \in Run |->
                      IF analysis[r] \in {"none", "ended", "unseen", "raised"}
                      THEN analysis[r] ELSE "lost"]
    /\ UNCHANGED reportRow

BacktestNext ==
    \/ \E r \in Run :
         \/ Submit(r) \/ StartAnalysis(r) \/ CommitSubmission(r) \/ AbortSubmission(r)
         \/ FinishSamples(r) \/ RaiseInSamples(r) \/ LookUpRow(r) \/ InsertRow(r)
         \/ SaveReport(r) \/ FailToSave(r) \/ SaveFailure(r) \/ FailAgain(r)
    \/ StopProcess

BacktestSpec == BacktestInit /\ [][BacktestNext]_backtestVars

-----------------------------------------------------------------------------
BacktestTypeOK ==
    /\ reportRow \in [Run -> RowStatus]
    /\ submission \in [Run -> {"none", "flushed", "answered", "committed", "aborted"}]
    /\ analysis \in [Run -> {"none", "sampling", "persisting", "inserting", "updating",
                             "failing", "ended", "unseen", "raised", "lost"}]

\* report_service.py:207 and the unique key of run_id: whatever the order of the
\* request's commit and the task's session, a row is final only by the end of its
\* task, and that end is undone neither by the commit nor by a second row; and a
\* request that is rolled back leaves a row only with a report in it, never one
\* that waits or says "failed".  A task whose failure met no row (unseen) has
\* therefore left the run that is committed after it pending for ever.
EndedRunsAreFinal ==
    \A r \in Run :
        /\ reportRow[r] \in Final => analysis[r] = "ended"
        /\ submission[r] = "committed" /\ analysis[r] = "ended" => reportRow[r] \in Final
        /\ submission[r] # "committed" => reportRow[r] \in {"none", "succeeded"}
=============================================================================

--------------------------- MODULE StrategyPhases ---------------------------
(***************************************************************************)
(* The strategy phases of a trading day: the worker's tick that runs the   *)
(* OPENING phase in the auction window and POOL and INTRADAY after the     *)
(* close, the cycle gate, the isolation of one strategy from the next and  *)
(* the marks of the phases (app/ingest/strategy_hooks.py,                  *)
(* app/strategies/registry.py, the classes of app/strategies/plugins).     *)
(*                                                                         *)
(* The phases of a tick write in one transaction.  A hook that raises in   *)
(* Python leaves that transaction usable; one whose statement the database *)
(* refuses does not, and everything after it fails too.                    *)
(***************************************************************************)
EXTENDS Naturals, Sequences, FiniteSets

CONSTANTS
    Judgement,    \* cycle judgements that may be stored: [state, bear]
    Switched,     \* strategies that users switch on and off
    Finding,      \* strategies that find something to advise on the day
    MaxPhaseRuns       \* bound: phase runs started

Strategy == {"auction_grab", "dragon", "firstboard_dip", "lianban_a"}
CycleStates == {"ice", "turn", "repair", "accel", "diverge", "retreat", "unknown"}

ASSUME PhasesAssumption ==
    /\ Judgement \subseteq [state : CycleStates, bear : BOOLEAN]
    /\ Switched \subseteq Strategy /\ Finding \subseteq Strategy
    /\ MaxPhaseRuns \in Nat

\* BaseStrategy.phases of the plugins; scenes and tail have no strategy.
PhasesOf(s) ==
    CASE s = "auction_grab" -> {"opening"}
      [] s = "dragon"       -> {"pool", "opening", "intraday"}
      [] OTHER              -> {"pool", "opening"}
Phase == UNION {PhasesOf(s) : s \in Strategy}

\* The gate matrices: per cent of the position, 0 where the state is closed.
GateMatrix(s) ==
    CASE s = "firstboard_dip" -> [c \in CycleStates |-> 100]
      [] s = "dragon" -> [c \in CycleStates \ {"unknown"} |->
            IF c \in {"ice", "retreat"} THEN 0
            ELSE IF c \in {"turn", "diverge"} THEN 50 ELSE 100]
      [] OTHER -> [c \in CycleStates |-> IF c \in {"ice", "retreat"} THEN 0 ELSE 100]

DefaultFactor == 50

\* evaluate_gate: a state that the matrix does not declare is let through.
FactorOf(s, c) == IF c \in DOMAIN GateMatrix(s) THEN GateMatrix(s)[c] ELSE DefaultFactor

\* run_phase: only phases that advise are gated; the long bear closes the leg
\* that buys strength.
Gated(p) == p \in {"opening", "intraday"}
BearGated(s, g) == s = "lianban_a" /\ g.bear /\ g.state \in {"repair", "accel"}
Blocked(s, p, g) == Gated(p) /\ (FactorOf(s, g.state) = 0 \/ BearGated(s, g))

NoJudgement == [state |-> "unknown", bear |-> FALSE]
NoMark == [status |-> "none", run |-> 0, listed |-> {}, gates |-> {}]
NoMarks == [p \in Phase |-> NoMark]
NoTick == [queue |-> << >>]

VARIABLES
    judged,      \* the judgement that _cycle_gate_context finds
    enabled,     \* [strategy -> strategy_defs.enabled]
    syncing,     \* [strategy -> enabled as read], while the API starts
    matched,     \* opening_match has succeeded
    phaseMarks,  \* [phase -> pool_snapshot strategy_state:<phase>]
    advised,     \* committed advice reports: [phase, run, strategy, gate]
    faults,      \* committed advice reports of kind error: <<run, strategy>>
    strategyTick,\* NoTick, or the tick that runs phases
    phaseRuns,   \* phase runs started
    \* --- observability
    produced     \* rows handed to a session, until the session is dropped

phasesVars == <<judged, enabled, syncing, matched, phaseMarks, advised, faults,
                strategyTick, phaseRuns, produced>>

PhasesInit ==
    /\ judged = NoJudgement
    /\ enabled = [s \in Strategy |-> TRUE]
    /\ syncing = << >>
    /\ matched = FALSE
    /\ phaseMarks = NoMarks
    /\ advised = {} /\ faults = {}
    /\ strategyTick = NoTick
    /\ phaseRuns = 0
    /\ produced = {}

Ticking == strategyTick.queue # << >>
CurrentPhase == Head(strategyTick.queue)
tick == strategyTick

-----------------------------------------------------------------------------
(* What changes beside the tick. *)

\* The judgement of the day is written by the pool writers.
JudgeTheDay(j) ==
    /\ j # judged
    /\ judged' = j
    /\ UNCHANGED <<enabled, syncing, matched, phaseMarks, advised, faults,
                   strategyTick, phaseRuns, produced>>

MatchArrives ==
    /\ ~matched /\ matched' = TRUE
    /\ UNCHANGED <<judged, enabled, syncing, phaseMarks, advised, faults,
                   strategyTick, phaseRuns, produced>>

\* set_enabled, committed.
SwitchStrategy(s) ==
    /\ enabled' = [enabled EXCEPT ![s] = ~@]
    /\ UNCHANGED <<judged, syncing, matched, phaseMarks, advised, faults,
                   strategyTick, phaseRuns, produced>>

\* sync_definitions when an API process starts: each definition is read and
\* written with the switch it had when read; one commit at the end.
ReadDefinitions ==
    /\ syncing = << >>
    /\ syncing' = enabled
    /\ UNCHANGED <<judged, enabled, matched, phaseMarks, advised, faults,
                   strategyTick, phaseRuns, produced>>

CommitDefinitions ==
    /\ syncing # << >>
    /\ enabled' = syncing
    /\ syncing' = << >>
    /\ UNCHANGED <<judged, matched, phaseMarks, advised, faults, strategyTick,
                   phaseRuns, produced>>

-----------------------------------------------------------------------------
(* The tick. *)

\* Nothing listed yet; rows, errors and marks of the tick are in its session, which is
\* usable until the database has refused a statement.
TickAt(queue, marks, rows, errs) ==
    [queue |-> queue, at |-> "phase", listed |-> {}, todo |-> {}, gate |-> NoJudgement,
     gates |-> {}, failed |-> {}, rows |-> rows, errs |-> errs, marks |-> marks,
     session |-> "usable"]

\* _maybe_opening waits for the matched prices; _maybe_strategies for the window.
BeginStrategyTick(queue) ==
    /\ ~Ticking /\ phaseRuns < MaxPhaseRuns
    /\ queue = <<"opening">> => matched
    /\ strategyTick' = TickAt(queue, NoMarks, {}, {})
    /\ UNCHANGED <<judged, enabled, syncing, matched, phaseMarks, advised, faults,
                   phaseRuns, produced>>

\* run_strategy_phases: a phase that has succeeded is left out.
SkipPhase ==
    /\ Ticking /\ tick.at = "phase"
    /\ phaseMarks[CurrentPhase].status = "succeeded"
    /\ strategyTick' = IF Tail(tick.queue) = << >> THEN [tick EXCEPT !.at = "end"]
                       ELSE [tick EXCEPT !.queue = Tail(@)]
    /\ UNCHANGED <<judged, enabled, syncing, matched, phaseMarks, advised, faults,
                   phaseRuns, produced>>

\* _cycle_gate_context.
ReadGate ==
    /\ Ticking /\ tick.at = "phase"
    /\ phaseMarks[CurrentPhase].status # "succeeded"
    /\ strategyTick' = [tick EXCEPT !.at = "list", !.gate = judged, !.gates = {},
                                    !.failed = {}]
    /\ UNCHANGED <<judged, enabled, syncing, matched, phaseMarks, advised, faults,
                   phaseRuns, produced>>

\* strategies_with_phase: those of the phase that are not switched off.
ListStrategies ==
    /\ Ticking /\ tick.at = "list"
    /\ LET listing == {s \in Strategy : CurrentPhase \in PhasesOf(s) /\ enabled[s]} IN
         strategyTick' = [tick EXCEPT !.at = "run", !.todo = listing, !.listed = listing]
    /\ phaseRuns' = phaseRuns + 1
    /\ UNCHANGED <<judged, enabled, syncing, matched, phaseMarks, advised, faults,
                   produced>>

\* Strategies run in the order of their identifiers.
Earlier(s, u) == LET place == [auction_grab |-> 1, dragon |-> 2, firstboard_dip |-> 3,
                               lianban_a |-> 4]
                 IN place[s] < place[u]
IsNext(s) ==
    /\ Ticking /\ tick.at = "run" /\ s \in tick.todo
    /\ \A u \in tick.todo \ {s} : Earlier(s, u)

StrategyDone(s) == [tick EXCEPT !.todo = @ \ {s}]

\* The gate is closed: the hook is not called, nothing is stored.
GateStrategy(s) ==
    /\ IsNext(s) /\ Blocked(s, CurrentPhase, tick.gate)
    /\ strategyTick' = [StrategyDone(s) EXCEPT !.gates = @ \cup {s}]
    /\ UNCHANGED <<judged, enabled, syncing, matched, phaseMarks, advised, faults,
                   phaseRuns, produced>>

Runs(s) == IsNext(s) /\ ~Blocked(s, CurrentPhase, tick.gate)
AdviceRow(s) == [phase |-> CurrentPhase, run |-> phaseRuns, strategy |-> s, gate |-> tick.gate]

\* build_pool lists candidates, only the other hooks write advice.
AdvisingNow == IF Gated(CurrentPhase) THEN Strategy ELSE {}

\* The hook returns; phases that advise have handed their rows to the session.
RunStrategy(s) ==
    /\ Runs(s) /\ tick.session = "usable"
    /\ LET written == {AdviceRow(u) : u \in {s} \cap Finding \cap AdvisingNow} IN
         /\ strategyTick' = [StrategyDone(s) EXCEPT !.rows = @ \cup written]
         /\ produced' = produced \cup written
    /\ UNCHANGED <<judged, enabled, syncing, matched, phaseMarks, advised, faults,
                   phaseRuns>>

\* The hook raises: _record_failure writes a row of kind error.
StrategyRaises(s) ==
    /\ Runs(s) /\ tick.session = "usable"
    /\ strategyTick' = [StrategyDone(s) EXCEPT !.failed = @ \cup {s},
                                       !.errs = @ \cup {<<phaseRuns, s>>}]
    /\ UNCHANGED <<judged, enabled, syncing, matched, phaseMarks, advised, faults,
                   phaseRuns, produced>>

\* The database refuses a statement: the row of kind error is refused as well,
\* and so is every statement after it.
DatabaseRefuses(s) ==
    /\ Runs(s)
    /\ strategyTick' = [StrategyDone(s) EXCEPT !.failed = @ \cup {s}, !.session = "refused"]
    /\ UNCHANGED <<judged, enabled, syncing, matched, phaseMarks, advised, faults,
                   phaseRuns, produced>>

\* Faulty variant: a failure does not count.
AlwaysSucceeded(failed) == "succeeded"

\* run_strategy_phases: one failed strategy makes the phase failed.
PhaseStatus(failed) == IF failed = {} THEN "succeeded" ELSE "failed"

\* _state_mark; the events go out now, before the commit.
MarkPhase ==
    /\ Ticking /\ tick.at = "run" /\ tick.todo = {} /\ tick.session = "usable"
    /\ LET mark == [status |-> PhaseStatus(tick.failed), run |-> phaseRuns,
                    listed |-> tick.listed, gates |-> tick.gates]
           marks == [tick.marks EXCEPT ![CurrentPhase] = mark]
       IN strategyTick' = IF Tail(tick.queue) = << >>
                          THEN [tick EXCEPT !.at = "end", !.marks = marks]
                          ELSE TickAt(Tail(tick.queue), marks, tick.rows, tick.errs)
    /\ UNCHANGED <<judged, enabled, syncing, matched, phaseMarks, advised, faults,
                   phaseRuns, produced>>

\* The commit at the end of the tick.
MarksAfter(p) ==
    IF tick.marks[p].status # "none" THEN tick.marks[p] ELSE phaseMarks[p]

CommitStrategyTick ==
    /\ Ticking /\ tick.at = "end"
    /\ phaseMarks' = [p \in Phase |-> MarksAfter(p)]
    /\ advised' = advised \cup tick.rows
    /\ faults' = faults \cup tick.errs
    /\ strategyTick' = NoTick
    /\ UNCHANGED <<judged, enabled, syncing, matched, phaseRuns, produced>>

\* The mark is refused and the rest of the tick dropped with it, or the worker
\* dies: nothing of the tick is kept.
DropStrategyTick ==
    /\ Ticking
    /\ strategyTick' = NoTick
    /\ produced' = {a \in produced : \E p \in Phase : a.run <= phaseMarks[p].run}
    /\ UNCHANGED <<judged, enabled, syncing, matched, phaseMarks, advised, faults,
                   phaseRuns>>

-----------------------------------------------------------------------------

PhasesNext ==
    \/ \E j \in Judgement : JudgeTheDay(j)
    \/ MatchArrives
    \/ \E s \in Switched : SwitchStrategy(s)
    \/ ReadDefinitions
    \/ CommitDefinitions
    \/ \E queue \in {<<"opening">>, <<"pool", "intraday">>} : BeginStrategyTick(queue)
    \/ SkipPhase
    \/ ReadGate
    \/ ListStrategies
    \/ \E s \in Strategy :
         GateStrategy(s) \/ RunStrategy(s) \/ StrategyRaises(s) \/ DatabaseRefuses(s)
    \/ MarkPhase
    \/ CommitStrategyTick
    \/ DropStrategyTick

PhasesSpec == PhasesInit /\ [][PhasesNext]_phasesVars

Advice == [phase : Phase, run : Nat, strategy : Strategy, gate : Judgement \cup {NoJudgement}]
Mark == [status : {"none", "succeeded", "failed"}, run : 0 .. MaxPhaseRuns + 1,
         listed : SUBSET Strategy, gates : SUBSET Strategy]
PhaseTick == [queue : {<<"opening">>, <<"pool", "intraday">>, <<"intraday">>},
              at : {"phase", "list", "run", "end"}, listed : SUBSET Strategy,
              todo : SUBSET Strategy, gate : Judgement \cup {NoJudgement},
              gates : SUBSET Strategy, failed : SUBSET Strategy, rows : SUBSET Advice,
              errs : SUBSET (Nat \X Strategy), marks : [Phase -> Mark],
              session : {"usable", "refused"}]

PhasesTypeOK ==
    /\ judged \in Judgement \cup {NoJudgement}
    /\ enabled \in [Strategy -> BOOLEAN]
    /\ syncing \in [Strategy -> BOOLEAN] \cup {<< >>}
    /\ matched \in BOOLEAN
    /\ phaseMarks \in [Phase -> Mark]
    /\ advised \subseteq Advice /\ produced \subseteq Advice
    /\ faults \subseteq Nat \X Strategy
    /\ strategyTick = NoTick \/ strategyTick \in PhaseTick
    /\ phaseRuns \in 0 .. MaxPhaseRuns + 1

-----------------------------------------------------------------------------
(* Properties. *)

\* A phase marked as succeeded is never run again that day (run_strategy_phases
\* skips it), so its record has to be whole: all that the run of the mark
\* produced is stored, none of its strategies failed, those held back are
\* exactly those for which the cycle closes buying, and nothing they might have
\* advised is there.  A run whose rows are stored has left a mark or a later one.
ClosedFor(s, g) ==
    \/ s # "firstboard_dip" /\ g.state \in {"ice", "retreat"}
    \/ s = "lianban_a" /\ g.bear /\ g.state \in {"repair", "accel"}

MarkIsWhole(p) ==
    LET mark == phaseMarks[p] IN mark.status = "succeeded" =>
        /\ {a \in produced : a.run = mark.run} \subseteq advised
        /\ \A f \in faults : f[1] # mark.run
        /\ mark.gates \subseteq mark.listed
        /\ \A a \in advised : a.run = mark.run =>
              a.strategy \in mark.listed \ mark.gates

SucceededPhasesAreWhole ==
    /\ \A p \in Phase : MarkIsWhole(p)
    /\ \A a \in advised : /\ ~ClosedFor(a.strategy, a.gate)
                          /\ phaseMarks[a.phase].run >= a.run

=============================================================================

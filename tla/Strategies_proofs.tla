------------------------- MODULE Strategies_proofs --------------------------
(***************************************************************************)
(* Proofs about what the strategies do with a day: the phases of the       *)
(* worker, the backtests of the API process, and the pure rules they       *)
(* share: parameters and bands of factors, board rules, the market cycle   *)
(* and sales.                                                              *)
(***************************************************************************)
EXTENDS StrategyPhases, BacktestRun, FactorBands, BoardRules, CycleJudge,
        DragonEngine, FiniteSetTheorems, WellFoundedInduction, TLAPS

-----------------------------------------------------------------------------
(***************************************************************************)
(* StrategyPhases, for any judgements, switches and findings.              *)
(*                                                                         *)
(* The argument: runs are numbered, and the marks, rows and errors in the  *)
(* session of a tick are of later runs than all that is stored.  Within    *)
(* the session each row and error belongs to a run that is marked or in    *)
(* progress, and a run is marked as succeeded when none of its strategies  *)
(* has failed. The session is stored as a whole or dropped as a whole.     *)
(***************************************************************************)

USE PhasesAssumption

\* The phases, and the queues a tick goes through.
LEMMA QueueFacts ==
  /\ Phase = {"pool", "opening", "intraday"}
  /\ Head(<<"opening">>) = "opening" /\ Tail(<<"opening">>) = << >>
  /\ Head(<<"intraday">>) = "intraday" /\ Tail(<<"intraday">>) = << >>
  /\ Head(<<"pool", "intraday">>) = "pool"
  /\ Tail(<<"pool", "intraday">>) = <<"intraday">>
  /\ <<"opening">> # << >> /\ <<"intraday">> # << >> /\ <<"pool", "intraday">> # << >>
  /\ <<"pool", "intraday">> # <<"intraday">> /\ <<"pool", "intraday">> # <<"opening">>
  /\ <<"opening">> # <<"intraday">>
<1>1. Phase = {"pool", "opening", "intraday"}
  BY DEF Phase, PhasesOf, Strategy
<1>2. /\ Head(<<"opening">>) = "opening" /\ Tail(<<"opening">>) = << >>
      /\ Head(<<"intraday">>) = "intraday" /\ Tail(<<"intraday">>) = << >>
  OBVIOUS
<1>3. /\ Head(<<"pool", "intraday">>) = "pool"
      /\ Tail(<<"pool", "intraday">>) = <<"intraday">>
  OBVIOUS
<1>4. /\ <<"opening">> # << >> /\ <<"intraday">> # << >> /\ <<"pool", "intraday">> # << >>
      /\ <<"pool", "intraday">> # <<"intraday">> /\ <<"pool", "intraday">> # <<"opening">>
      /\ <<"opening">> # <<"intraday">>
  OBVIOUS
<1>. QED BY <1>1, <1>2, <1>3, <1>4

-----------------------------------------------------------------------------
(* The invariant. *)

\* Phase runs the tick may still begin.
RunsLeft ==
    IF tick.at \in {"phase", "list"}
    THEN IF tick.queue = <<"pool", "intraday">> THEN 2 ELSE 1
    ELSE IF tick.queue = <<"pool", "intraday">> THEN 1 ELSE 0

\* A run later than all that have left a mark.
Later(run) == \A p \in Phase : phaseMarks[p].run < run

\* The session of the tick has marked the phase.
Marked(p) == tick.marks[p].status # "none"

\* Runs are numbered in their order: what is stored is of runs that have left a mark or
\* of earlier ones, what a tick holds in its session is of later ones.
StoredInOrder ==
    /\ \A p \in Phase : phaseMarks[p].run <= phaseRuns
    /\ \A a \in advised : a.run <= phaseMarks[a.phase].run
    /\ \A f \in faults : \E p \in Phase : f[1] <= phaseMarks[p].run

\* The runs of a tick are later than all that is stored, and numbered as they began.
TickInOrder ==
    Ticking =>
        /\ phaseRuns + RunsLeft <= MaxPhaseRuns + 1
        /\ \A a \in tick.rows : Later(a.run) /\ a.run <= phaseRuns
        /\ \A f \in tick.errs : Later(f[1]) /\ f[1] <= phaseRuns
        /\ \A p \in Phase : Marked(p) =>
              Later(tick.marks[p].run) /\ tick.marks[p].run <= phaseRuns
        /\ tick.at = "run" =>
              /\ Later(phaseRuns)
              /\ \A p \in Phase : Marked(p) => tick.marks[p].run < phaseRuns

\* The place of a tick: which phases it has not marked, which strategies it has not met.
TickInPlace ==
    Ticking =>
        /\ tick.gates \cup tick.todo \subseteq tick.listed
        /\ tick.gates \cap tick.todo = {}
        /\ tick.at \in {"phase", "list"} => tick.listed = {}
        /\ tick.at # "end" => ~Marked(CurrentPhase)
        /\ tick.queue = <<"pool", "intraday">> => tick.at # "end" /\ \A p \in Phase : ~Marked(p)

\* What a session holds: a row or an error belongs to a run that the session has marked,
\* or to the run in progress; rows are of strategies that were listed and not held
\* back, and not of one that the cycle closes.
RowsHaveRuns ==
    Ticking => \A a \in tick.rows :
        /\ ~ClosedFor(a.strategy, a.gate)
        /\ \/ Marked(a.phase) /\ tick.marks[a.phase].run = a.run
           \/ /\ tick.at = "run" /\ a.run = phaseRuns /\ a.phase = CurrentPhase
              /\ a.strategy \in tick.listed \ (tick.gates \cup tick.todo)

\* The same for errors: the strategy of the run in progress has failed.
ErrorsHaveRuns ==
    Ticking => \A f \in tick.errs :
        \/ \E p \in Phase : Marked(p) /\ tick.marks[p].run = f[1]
        \/ tick.at = "run" /\ f[1] = phaseRuns /\ f[2] \in tick.failed

\* The marks of a session are whole with what the session holds.
SessionIsWhole ==
    Ticking => \A p \in Phase : tick.marks[p].status = "succeeded" =>
        /\ \A f \in tick.errs : f[1] # tick.marks[p].run
        /\ tick.marks[p].gates \subseteq tick.marks[p].listed
        /\ \A a \in tick.rows : a.run = tick.marks[p].run =>
              a.strategy \in tick.marks[p].listed \ tick.marks[p].gates

\* The stored marks are whole with what is stored.
StoredIsWhole ==
    /\ \A p \in Phase : phaseMarks[p].status = "succeeded" =>
         /\ \A f \in faults : f[1] # phaseMarks[p].run
         /\ phaseMarks[p].gates \subseteq phaseMarks[p].listed
         /\ \A a \in advised : a.run = phaseMarks[p].run =>
               a.strategy \in phaseMarks[p].listed \ phaseMarks[p].gates
    /\ \A a \in advised : ~ClosedFor(a.strategy, a.gate)

\* Every row that was produced is stored, or in the session of the tick.
ProducedIsKept == produced = advised \cup (IF Ticking THEN tick.rows ELSE {})

\* The inductive invariant.
PhasesIInv ==
    /\ PhasesTypeOK
    /\ StoredInOrder /\ TickInOrder /\ TickInPlace
    /\ RowsHaveRuns /\ ErrorsHaveRuns /\ SessionIsWhole
    /\ StoredIsWhole /\ ProducedIsKept

\* The part of it that is about the session of a tick.
SessionInv ==
    /\ TickInOrder /\ TickInPlace /\ RowsHaveRuns /\ ErrorsHaveRuns /\ SessionIsWhole

-----------------------------------------------------------------------------
(* Lemmas. *)

\* What a tick is while it runs.
LEMMA TickFacts ==
  ASSUME PhasesTypeOK, Ticking
  PROVE  /\ strategyTick \in PhaseTick /\ CurrentPhase \in Phase
         /\ Tail(tick.queue) # << >> =>
               /\ tick.queue = <<"pool", "intraday">>
               /\ Tail(tick.queue) = <<"intraday">>
         /\ Tail(tick.queue) = << >> => tick.queue # <<"pool", "intraday">>
<1>1. strategyTick \in PhaseTick
  BY DEF PhasesTypeOK, Ticking, NoTick
<1>2. tick.queue \in {<<"opening">>, <<"pool", "intraday">>, <<"intraday">>}
  BY <1>1 DEF PhaseTick, tick
<1>. QED BY <1>1, <1>2, QueueFacts DEF CurrentPhase, tick

\* No tick, no session.
LEMMA RestingSession ==
  ASSUME ~Ticking' PROVE SessionInv'
  BY DEF SessionInv, TickInOrder, TickInPlace, RowsHaveRuns, ErrorsHaveRuns, SessionIsWhole

\* A strategy that is not blocked and advises is not one that the cycle closes.
LEMMA OpenStrategiesOnly ==
  ASSUME NEW s \in Strategy, NEW p \in Phase, NEW g \in Judgement \cup {NoJudgement},
         Gated(p), ~Blocked(s, p, g)
  PROVE  ~ClosedFor(s, g)
<1>1. g.state \in CycleStates
  BY DEF NoJudgement, CycleStates
<1>2. FactorOf(s, g.state) # 0 /\ ~BearGated(s, g)
  BY DEF Blocked
<1>3. CASE s = "firstboard_dip"
  BY <1>2, <1>3 DEF ClosedFor, BearGated
<1>4. CASE s # "firstboard_dip"
  <2>1. ASSUME g.state \in {"ice", "retreat"} PROVE FactorOf(s, g.state) = 0
    BY <1>4, <2>1 DEF FactorOf, GateMatrix, Strategy, CycleStates
  <2>. QED BY <1>2, <2>1 DEF ClosedFor, BearGated
<1>. QED BY <1>3, <1>4

-----------------------------------------------------------------------------
(* The steps. *)

\* What changes beside the tick does not touch it.
LEMMA PhasesRest ==
  ASSUME PhasesIInv,
         UNCHANGED <<phaseMarks, advised, faults, strategyTick, phaseRuns, produced>>
  PROVE  StoredInOrder' /\ StoredIsWhole' /\ ProducedIsKept' /\ SessionInv'
  BY DEF PhasesIInv, SessionInv, StoredInOrder, TickInOrder, TickInPlace, RowsHaveRuns,
         ErrorsHaveRuns, SessionIsWhole, StoredIsWhole, ProducedIsKept, Ticking, Later,
         Marked, RunsLeft, CurrentPhase, tick

\* A step of the tick before its end leaves the tables alone.
LEMMA TablesRest ==
  ASSUME PhasesIInv, UNCHANGED <<phaseMarks, advised, faults>>,
         phaseRuns' \in Nat, phaseRuns <= phaseRuns'
  PROVE  StoredInOrder' /\ StoredIsWhole'
<1>1. StoredInOrder'
  BY DEF PhasesIInv, StoredInOrder, PhasesTypeOK, Mark
<1>2. StoredIsWhole'
  BY DEF PhasesIInv, StoredIsWhole
<1>. QED BY <1>1, <1>2

\* A tick begins with an empty session.
LEMMA BeginTickStep ==
  ASSUME PhasesIInv, NEW queue \in {<<"opening">>, <<"pool", "intraday">>},
         BeginStrategyTick(queue)
  PROVE  ProducedIsKept' /\ SessionInv' /\ (strategyTick \in PhaseTick)'
<1> USE DEF tick
<1>1. /\ strategyTick' = TickAt(queue, NoMarks, {}, {})
      /\ phaseRuns' = phaseRuns /\ phaseRuns < MaxPhaseRuns /\ produced' = produced
      /\ advised' = advised /\ phaseMarks' = phaseMarks /\ ~Ticking
  BY DEF BeginStrategyTick
<1>2. /\ strategyTick'.queue = queue /\ strategyTick'.at = "phase"
      /\ strategyTick'.listed = {} /\ strategyTick'.todo = {} /\ strategyTick'.gates = {}
      /\ strategyTick'.rows = {} /\ strategyTick'.errs = {}
      /\ \A p \in Phase : strategyTick'.marks[p].status = "none"
  BY <1>1 DEF TickAt, NoMarks, NoMark
<1>3. NoMarks \in [Phase -> Mark]
  BY DEF NoMarks, NoMark, Mark
<1>4. strategyTick' \in PhaseTick
  BY <1>1, <1>3 DEF TickAt, PhaseTick
<1>5. Ticking'
  BY <1>2, QueueFacts DEF Ticking
<1>6. ProducedIsKept'
  BY <1>1, <1>2, <1>5 DEF ProducedIsKept, PhasesIInv
<1>7. phaseRuns + 2 <= MaxPhaseRuns + 1 /\ phaseRuns + 1 <= MaxPhaseRuns + 1
  BY <1>1 DEF PhasesIInv, PhasesTypeOK
<1>8. TickInOrder'
  BY <1>1, <1>2, <1>7 DEF TickInOrder, RunsLeft, Marked
<1>9. (CurrentPhase \in Phase)'
  BY <1>2, QueueFacts DEF CurrentPhase
<1>. QED
  BY <1>2, <1>4, <1>6, <1>8, <1>9
     DEF SessionInv, TickInPlace, RowsHaveRuns, ErrorsHaveRuns, SessionIsWhole, Marked

\* SkipPhase: the session is as it was.
LEMMA SkipStep ==
  ASSUME PhasesIInv, SkipPhase
  PROVE  ProducedIsKept' /\ SessionInv' /\ (strategyTick \in PhaseTick)'
<1> USE DEF tick
<1>1. /\ Ticking /\ strategyTick.at = "phase" /\ phaseMarks[CurrentPhase].status = "succeeded"
      /\ UNCHANGED <<phaseMarks, advised, phaseRuns, produced>>
      /\ strategyTick' = IF Tail(strategyTick.queue) = << >>
                         THEN [strategyTick EXCEPT !.at = "end"]
                         ELSE [strategyTick EXCEPT !.queue = Tail(@)]
  BY DEF SkipPhase
<1>2. strategyTick \in PhaseTick /\ SessionInv
  BY <1>1, TickFacts DEF PhasesIInv, SessionInv
<1>3. /\ strategyTick' \in PhaseTick
      /\ strategyTick'.rows = strategyTick.rows /\ strategyTick'.errs = strategyTick.errs
      /\ strategyTick'.marks = strategyTick.marks /\ strategyTick'.gates = strategyTick.gates
      /\ strategyTick'.todo = strategyTick.todo /\ strategyTick'.listed = strategyTick.listed
      /\ \/ strategyTick'.at = "end" /\ strategyTick'.queue = strategyTick.queue
            /\ strategyTick.queue # <<"pool", "intraday">>
         \/ /\ strategyTick'.at = "phase" /\ strategyTick'.queue = <<"intraday">>
            /\ strategyTick.queue = <<"pool", "intraday">>
  <2>1. CASE Tail(strategyTick.queue) = << >>
    BY <1>1, <1>2, <2>1, TickFacts DEF PhasesIInv, PhaseTick
  <2>2. CASE Tail(strategyTick.queue) # << >>
    BY <1>1, <1>2, <2>2, TickFacts DEF PhasesIInv, PhaseTick
  <2>. QED BY <2>1, <2>2
<1>4. Ticking'
  BY <1>3, QueueFacts DEF Ticking, PhaseTick
<1>5. ProducedIsKept'
  BY <1>1, <1>3, <1>4 DEF ProducedIsKept, PhasesIInv
<1>6. TickInOrder'
  <2>1. phaseRuns \in Nat BY DEF PhasesIInv, PhasesTypeOK
  <2>2. phaseRuns + RunsLeft <= MaxPhaseRuns + 1 BY <1>1, <1>2 DEF SessionInv, TickInOrder
  <2>3. RunsLeft' \in 0 .. RunsLeft /\ RunsLeft \in Nat
    <3>1. CASE strategyTick'.at = "end"
      <4>1. strategyTick'.queue = strategyTick.queue /\ strategyTick.queue # <<"pool", "intraday">>
        BY <1>3, <3>1
      <4>2. RunsLeft' = 0 BY <3>1, <4>1 DEF RunsLeft
      <4>3. RunsLeft = 1 BY <1>1, <4>1 DEF RunsLeft
      <4>. QED BY <4>2, <4>3
    <3>2. CASE strategyTick'.at # "end"
      <4>1. strategyTick'.at = "phase" /\ strategyTick'.queue # <<"pool", "intraday">>
        BY <1>3, <3>2, QueueFacts
      <4>2. RunsLeft' = 1 BY <4>1 DEF RunsLeft
      <4>3. RunsLeft = 2 BY <1>1, <1>3, <3>2 DEF RunsLeft
      <4>. QED BY <4>2, <4>3
    <3>. QED BY <3>1, <3>2
  <2>4. phaseRuns' + RunsLeft' <= MaxPhaseRuns + 1
    BY <1>1, <2>1, <2>2, <2>3
  <2>. QED BY <1>1, <1>2, <1>3, <2>4 DEF SessionInv, TickInOrder, Marked, Later
<1>7. TickInPlace'
  BY <1>1, <1>2, <1>3, QueueFacts DEF SessionInv, TickInPlace, Marked, CurrentPhase
<1>8. RowsHaveRuns'
  BY <1>1, <1>2, <1>3 DEF SessionInv, RowsHaveRuns, Marked
<1>9. ErrorsHaveRuns'
  BY <1>1, <1>2, <1>3 DEF SessionInv, ErrorsHaveRuns, Marked
<1>10. SessionIsWhole'
  BY <1>1, <1>2, <1>3 DEF SessionInv, SessionIsWhole
<1>. QED
  BY <1>3, <1>5, <1>6, <1>7, <1>8, <1>9, <1>10 DEF SessionInv

\* ReadGate: the phase has no row yet.
LEMMA ReadGateStep ==
  ASSUME PhasesIInv, ReadGate
  PROVE  ProducedIsKept' /\ SessionInv' /\ (strategyTick \in PhaseTick)'
<1> USE DEF tick
<1>1. /\ Ticking /\ strategyTick.at = "phase"
      /\ UNCHANGED <<phaseMarks, advised, phaseRuns, produced>>
      /\ strategyTick' = [strategyTick EXCEPT !.at = "list", !.gate = judged, !.gates = {},
                                              !.failed = {}]
  BY DEF ReadGate
<1>2. strategyTick \in PhaseTick /\ SessionInv
  BY <1>1, TickFacts DEF PhasesIInv, SessionInv
<1>3. /\ strategyTick' \in PhaseTick
      /\ strategyTick'.rows = strategyTick.rows /\ strategyTick'.errs = strategyTick.errs
      /\ strategyTick'.marks = strategyTick.marks /\ strategyTick'.gates = {}
      /\ strategyTick'.todo = strategyTick.todo /\ strategyTick'.listed = strategyTick.listed
      /\ strategyTick'.at = "list" /\ strategyTick'.queue = strategyTick.queue
  BY <1>1, <1>2 DEF PhasesIInv, PhasesTypeOK, PhaseTick
<1>4. Ticking'
  BY <1>1, <1>3 DEF Ticking
<1>5. ProducedIsKept'
  BY <1>1, <1>3, <1>4 DEF ProducedIsKept, PhasesIInv
<1>6. TickInOrder'
  BY <1>1, <1>2, <1>3 DEF SessionInv, TickInOrder, Marked, Later, RunsLeft
<1>7. TickInPlace'
  BY <1>1, <1>2, <1>3 DEF SessionInv, TickInPlace, Marked, CurrentPhase
<1>. QED
  BY <1>1, <1>2, <1>3, <1>5, <1>6, <1>7
     DEF SessionInv, RowsHaveRuns, ErrorsHaveRuns, SessionIsWhole, Marked

\* ListStrategies: a run begins that is later than all that have left anything.
LEMMA ListStep ==
  ASSUME PhasesIInv, ListStrategies
  PROVE  /\ ProducedIsKept' /\ SessionInv' /\ (strategyTick \in PhaseTick)'
         /\ phaseRuns' \in 0 .. MaxPhaseRuns + 1 /\ phaseRuns <= phaseRuns'
<1> USE DEF tick
<1> DEFINE listing == {s \in Strategy : CurrentPhase \in PhasesOf(s) /\ enabled[s]}
<1>1. /\ Ticking /\ strategyTick.at = "list" /\ phaseRuns' = phaseRuns + 1
      /\ UNCHANGED <<phaseMarks, advised, produced>>
      /\ strategyTick' = [strategyTick EXCEPT !.at = "run", !.todo = listing, !.listed = listing]
  BY DEF ListStrategies
<1>0. listing \subseteq Strategy OBVIOUS
<1> HIDE DEF listing
<1>2. strategyTick \in PhaseTick /\ SessionInv
  BY <1>1, TickFacts DEF PhasesIInv, SessionInv
<1>3. /\ strategyTick' \in PhaseTick
      /\ strategyTick'.rows = strategyTick.rows /\ strategyTick'.errs = strategyTick.errs
      /\ strategyTick'.marks = strategyTick.marks /\ strategyTick'.gates = strategyTick.gates
      /\ strategyTick'.todo = listing /\ strategyTick'.listed = listing
      /\ strategyTick'.at = "run" /\ strategyTick'.queue = strategyTick.queue
  BY <1>0, <1>1, <1>2 DEF PhasesIInv, PhasesTypeOK, PhaseTick
<1>4. Ticking'
  BY <1>1, <1>3 DEF Ticking
<1>5. ProducedIsKept'
  BY <1>1, <1>3, <1>4 DEF ProducedIsKept, PhasesIInv
<1>6. phaseRuns \in Nat /\ phaseRuns' = phaseRuns + 1
  BY <1>1 DEF PhasesIInv, PhasesTypeOK
<1>7. Later(phaseRuns')
  BY <1>1, <1>6 DEF PhasesIInv, PhasesTypeOK, StoredInOrder, Later, Mark
<1>8. phaseRuns' + RunsLeft' <= MaxPhaseRuns + 1 /\ RunsLeft' \in Nat
  BY <1>1, <1>2, <1>3, <1>6 DEF SessionInv, TickInOrder, RunsLeft
<1>9. TickInOrder'
  <2>1. \A a \in strategyTick.rows : Later(a.run) /\ a.run <= phaseRuns /\ a.run \in Nat
    BY <1>1, <1>2 DEF SessionInv, TickInOrder, PhaseTick, Advice
  <2>2. \A f \in strategyTick.errs : Later(f[1]) /\ f[1] <= phaseRuns /\ f[1] \in Nat
    BY <1>1, <1>2 DEF SessionInv, TickInOrder, PhaseTick
  <2>3. \A p \in Phase : Marked(p) =>
          /\ Later(strategyTick.marks[p].run) /\ strategyTick.marks[p].run <= phaseRuns
          /\ strategyTick.marks[p].run \in Nat
    BY <1>1, <1>2 DEF SessionInv, TickInOrder, PhaseTick, Mark
  <2>4. \A run : Later(run)' <=> Later(run)
    BY <1>1 DEF Later
  <2>5. \A p : Marked(p)' <=> Marked(p)
    BY <1>3 DEF Marked
  <2>6. \A a \in strategyTick'.rows : Later(a.run)' /\ a.run <= phaseRuns'
    BY <1>3, <1>6, <2>1, <2>4
  <2>7. \A f \in strategyTick'.errs : Later(f[1])' /\ f[1] <= phaseRuns'
    BY <1>3, <1>6, <2>2, <2>4
  <2>8. \A p \in Phase : Marked(p)' => /\ Later(strategyTick.marks[p].run)'
                                       /\ strategyTick'.marks[p].run < phaseRuns'
                                       /\ strategyTick'.marks[p].run <= phaseRuns'
    BY <1>3, <1>6, <2>3, <2>4, <2>5
  <2>. QED BY <1>3, <1>7, <1>8, <2>4, <2>6, <2>7, <2>8 DEF TickInOrder
<1>10. TickInPlace'
  BY <1>1, <1>2, <1>3 DEF SessionInv, TickInPlace, Marked, CurrentPhase
<1>11. RowsHaveRuns'
  BY <1>1, <1>2, <1>3 DEF SessionInv, RowsHaveRuns, Marked
<1>12. ErrorsHaveRuns'
  BY <1>1, <1>2, <1>3 DEF SessionInv, ErrorsHaveRuns, Marked
<1>13. SessionIsWhole'
  BY <1>1, <1>2, <1>3 DEF SessionInv, SessionIsWhole
<1>14. phaseRuns' \in 0 .. MaxPhaseRuns + 1
  <2>1. \A n \in Nat, m \in Nat : m + n <= MaxPhaseRuns + 1 => m \in 0 .. MaxPhaseRuns + 1
    OBVIOUS
  <2>2. phaseRuns' \in Nat BY <1>6
  <2>. QED BY <1>8, <2>1, <2>2
<1>. QED
  BY <1>3, <1>5, <1>6, <1>9, <1>10, <1>11, <1>12, <1>13, <1>14 DEF SessionInv

\* What the steps of one strategy have in common: it is met, and either held back, or
\* leaves rows of the run in progress, or an error of it.
LEMMA MeetStep ==
  ASSUME PhasesIInv, Ticking, strategyTick.at = "run", strategyTick' \in PhaseTick,
         NEW s \in strategyTick.todo,
         UNCHANGED <<phaseMarks, advised, phaseRuns>>,
         strategyTick'.queue = strategyTick.queue, strategyTick'.at = "run",
         strategyTick'.listed = strategyTick.listed, strategyTick'.marks = strategyTick.marks,
         strategyTick'.todo = strategyTick.todo \ {s},
         strategyTick'.gates \subseteq strategyTick.gates \cup {s},
         strategyTick.gates \subseteq strategyTick'.gates,
         strategyTick.failed \subseteq strategyTick'.failed,
         \A a \in strategyTick'.rows :
             \/ a \in strategyTick.rows
             \/ /\ a.run = phaseRuns /\ a.phase = CurrentPhase /\ a.strategy = s
                /\ ~ClosedFor(a.strategy, a.gate) /\ s \notin strategyTick'.gates,
         \A f \in strategyTick'.errs :
             \/ f \in strategyTick.errs
             \/ f[1] = phaseRuns /\ f[2] = s /\ s \in strategyTick'.failed
  PROVE  SessionInv'
<1> USE DEF tick
<1>1. strategyTick \in PhaseTick /\ SessionInv /\ phaseRuns \in Nat
  BY TickFacts DEF PhasesIInv, PhasesTypeOK, SessionInv
<1>2. /\ \A run : Later(run)' <=> Later(run)
      /\ \A p : Marked(p)' <=> Marked(p)
      /\ RunsLeft' = RunsLeft /\ CurrentPhase' = CurrentPhase
  BY DEF Later, Marked, RunsLeft, CurrentPhase
<1>3. TickInOrder'
  <2>1. /\ phaseRuns + RunsLeft <= MaxPhaseRuns + 1
        /\ \A a \in strategyTick.rows : Later(a.run) /\ a.run <= phaseRuns
        /\ \A f \in strategyTick.errs : Later(f[1]) /\ f[1] <= phaseRuns
        /\ \A p \in Phase : Marked(p) =>
              Later(strategyTick.marks[p].run) /\ strategyTick.marks[p].run <= phaseRuns
        /\ Later(phaseRuns)
        /\ \A p \in Phase : Marked(p) => strategyTick.marks[p].run < phaseRuns
    BY <1>1 DEF SessionInv, TickInOrder
  <2>2. phaseRuns <= phaseRuns BY <1>1
  <2>3. \A a \in strategyTick'.rows : Later(a.run) /\ a.run <= phaseRuns
    BY <2>1, <2>2
  <2>4. \A f \in strategyTick'.errs : Later(f[1]) /\ f[1] <= phaseRuns
    BY <2>1, <2>2
  <2>5. phaseRuns' + RunsLeft' <= MaxPhaseRuns + 1
    BY <1>2, <2>1
  <2>. QED BY <1>2, <2>1, <2>3, <2>4, <2>5 DEF TickInOrder
<1>4. TickInPlace'
  BY <1>1, <1>2 DEF SessionInv, TickInPlace
<1>5. RowsHaveRuns'
  <2>1. \A a \in strategyTick.rows :
          /\ ~ClosedFor(a.strategy, a.gate)
          /\ \/ Marked(a.phase) /\ strategyTick.marks[a.phase].run = a.run
             \/ /\ a.run = phaseRuns /\ a.phase = CurrentPhase
                /\ a.strategy \in strategyTick.listed
                                    \ (strategyTick.gates \cup strategyTick.todo)
    BY <1>1 DEF SessionInv, RowsHaveRuns
  <2>2. strategyTick'.gates \cup strategyTick'.todo
          \subseteq strategyTick.gates \cup strategyTick.todo
    OBVIOUS
  <2>3. s \in strategyTick.listed /\ s \notin strategyTick.gates
    BY <1>1 DEF SessionInv, TickInPlace
  <2>4. \A a \in strategyTick'.rows \ strategyTick.rows :
          a.strategy \in strategyTick'.listed \ (strategyTick'.gates \cup strategyTick'.todo)
    BY <2>3
  <2>. QED BY <1>2, <2>1, <2>2, <2>4 DEF RowsHaveRuns
<1>6. ErrorsHaveRuns'
  BY <1>1, <1>2 DEF SessionInv, ErrorsHaveRuns
<1>7. SessionIsWhole'
  <2>1. \A p \in Phase : strategyTick.marks[p].status = "succeeded" =>
          /\ strategyTick.marks[p].run < phaseRuns /\ strategyTick.marks[p].run \in Nat
    BY <1>1 DEF SessionInv, TickInOrder, Marked, PhaseTick, Mark
  <2>2. \A p \in Phase : strategyTick.marks[p].status = "succeeded" =>
          strategyTick.marks[p].run # phaseRuns
    BY <1>1, <2>1
  <2>. QED BY <1>1, <2>2 DEF SessionInv, SessionIsWhole
<1>. QED
  BY <1>3, <1>4, <1>5, <1>6, <1>7 DEF SessionInv

\* GateStrategy: held back, it leaves nothing.
LEMMA GateStep ==
  ASSUME PhasesIInv, NEW s \in Strategy, GateStrategy(s)
  PROVE  ProducedIsKept' /\ SessionInv' /\ (strategyTick \in PhaseTick)'
<1> USE DEF tick
<1>1. /\ Ticking /\ strategyTick.at = "run" /\ s \in strategyTick.todo
      /\ UNCHANGED <<phaseMarks, advised, phaseRuns, produced>>
      /\ strategyTick' = [[strategyTick EXCEPT !.todo = @ \ {s}] EXCEPT !.gates = @ \cup {s}]
  BY DEF GateStrategy, IsNext, StrategyDone
<1>2. strategyTick \in PhaseTick
  BY <1>1, TickFacts DEF PhasesIInv
<1>3. /\ strategyTick' \in PhaseTick
      /\ strategyTick'.queue = strategyTick.queue /\ strategyTick'.at = "run"
      /\ strategyTick'.listed = strategyTick.listed /\ strategyTick'.marks = strategyTick.marks
      /\ strategyTick'.todo = strategyTick.todo \ {s}
      /\ strategyTick'.gates = strategyTick.gates \cup {s}
      /\ strategyTick'.failed = strategyTick.failed
      /\ strategyTick'.rows = strategyTick.rows /\ strategyTick'.errs = strategyTick.errs
  BY <1>1, <1>2 DEF PhaseTick
<1>4. ProducedIsKept'
  BY <1>1, <1>3 DEF ProducedIsKept, PhasesIInv, Ticking
<1>6. SessionInv'
  BY <1>1, <1>3, MeetStep
<1>. QED BY <1>3, <1>4, <1>6

\* RunStrategy: its rows are of the run in progress, of an open strategy.
LEMMA RunStep ==
  ASSUME PhasesIInv, NEW s \in Strategy, RunStrategy(s)
  PROVE  /\ ProducedIsKept' /\ SessionInv' /\ (strategyTick \in PhaseTick)'
         /\ produced' \subseteq Advice
<1> USE DEF tick
<1> DEFINE written == {AdviceRow(u) : u \in {s} \cap Finding \cap AdvisingNow}
<1>1. /\ Ticking /\ strategyTick.at = "run" /\ s \in strategyTick.todo
      /\ ~Blocked(s, CurrentPhase, strategyTick.gate)
      /\ UNCHANGED <<phaseMarks, advised, phaseRuns>>
      /\ produced' = produced \cup written
      /\ strategyTick' = [[strategyTick EXCEPT !.todo = @ \ {s}] EXCEPT !.rows = @ \cup written]
  BY DEF RunStrategy, Runs, IsNext, StrategyDone
<1>2. strategyTick \in PhaseTick /\ CurrentPhase \in Phase /\ phaseRuns \in Nat
      /\ strategyTick.gate \in Judgement \cup {NoJudgement}
  BY <1>1, TickFacts DEF PhasesIInv, PhasesTypeOK, PhaseTick
<1>3. \A a \in written : /\ a.run = phaseRuns /\ a.phase = CurrentPhase /\ a.strategy = s
                         /\ a.gate = strategyTick.gate /\ Gated(CurrentPhase) /\ a \in Advice
  BY <1>2 DEF AdviceRow, AdvisingNow, Advice
<1>4. \A a \in written : ~ClosedFor(a.strategy, a.gate)
  BY <1>1, <1>2, <1>3, OpenStrategiesOnly
<1> HIDE DEF written
<1>5. /\ strategyTick' \in PhaseTick
      /\ strategyTick'.queue = strategyTick.queue /\ strategyTick'.at = "run"
      /\ strategyTick'.listed = strategyTick.listed /\ strategyTick'.marks = strategyTick.marks
      /\ strategyTick'.todo = strategyTick.todo \ {s}
      /\ strategyTick'.gates = strategyTick.gates
      /\ strategyTick'.failed = strategyTick.failed
      /\ strategyTick'.rows = strategyTick.rows \cup written
      /\ strategyTick'.errs = strategyTick.errs
  BY <1>1, <1>2, <1>3 DEF PhaseTick
<1>6. ProducedIsKept'
  <2>1. Ticking' BY <1>1, <1>5 DEF Ticking
  <2>. QED BY <1>1, <1>5, <2>1 DEF ProducedIsKept, PhasesIInv
<1>7. SessionInv'
  <2>1. s \notin strategyTick'.gates
    BY <1>1, <1>5 DEF PhasesIInv, TickInPlace
  <2>2. \A a \in strategyTick'.rows :
          \/ a \in strategyTick.rows
          \/ /\ a.run = phaseRuns /\ a.phase = CurrentPhase /\ a.strategy = s
             /\ ~ClosedFor(a.strategy, a.gate) /\ s \notin strategyTick'.gates
    BY <1>3, <1>4, <1>5, <2>1
  <2>. QED BY <1>1, <1>5, <2>2, MeetStep
<1>8. produced' \subseteq Advice
  BY <1>1, <1>3 DEF PhasesIInv, PhasesTypeOK
<1>. QED BY <1>5, <1>6, <1>7, <1>8

\* StrategyRaises: the error is of the run in progress.
LEMMA RaiseStep ==
  ASSUME PhasesIInv, NEW s \in Strategy, StrategyRaises(s)
  PROVE  ProducedIsKept' /\ SessionInv' /\ (strategyTick \in PhaseTick)'
<1> USE DEF tick
<1>1. /\ Ticking /\ strategyTick.at = "run" /\ s \in strategyTick.todo
      /\ UNCHANGED <<phaseMarks, advised, phaseRuns, produced>>
      /\ strategyTick' = [[strategyTick EXCEPT !.todo = @ \ {s}]
             EXCEPT !.failed = @ \cup {s}, !.errs = @ \cup {<<phaseRuns, s>>}]
  BY DEF StrategyRaises, Runs, IsNext, StrategyDone
<1>2. strategyTick \in PhaseTick /\ <<phaseRuns, s>> \in Nat \X Strategy
  BY <1>1, TickFacts DEF PhasesIInv, PhasesTypeOK
<1>3. /\ strategyTick' \in PhaseTick
      /\ strategyTick'.queue = strategyTick.queue /\ strategyTick'.at = "run"
      /\ strategyTick'.listed = strategyTick.listed /\ strategyTick'.marks = strategyTick.marks
      /\ strategyTick'.todo = strategyTick.todo \ {s}
      /\ strategyTick'.gates = strategyTick.gates
      /\ strategyTick'.failed = strategyTick.failed \cup {s}
      /\ strategyTick'.rows = strategyTick.rows
      /\ strategyTick'.errs = strategyTick.errs \cup {<<phaseRuns, s>>}
  BY <1>1, <1>2 DEF PhaseTick
<1>4. ProducedIsKept'
  BY <1>1, <1>3 DEF ProducedIsKept, PhasesIInv, Ticking
<1>5. \A f \in strategyTick'.errs :
        \/ f \in strategyTick.errs
        \/ f[1] = phaseRuns /\ f[2] = s /\ s \in strategyTick'.failed
  BY <1>3
<1>6. SessionInv'
  BY <1>1, <1>3, <1>5, MeetStep
<1>. QED BY <1>3, <1>4, <1>6

\* DatabaseRefuses: it leaves nothing, not even its error.
LEMMA RefuseStep ==
  ASSUME PhasesIInv, NEW s \in Strategy, DatabaseRefuses(s)
  PROVE  ProducedIsKept' /\ SessionInv' /\ (strategyTick \in PhaseTick)'
<1> USE DEF tick
<1>1. /\ Ticking /\ strategyTick.at = "run" /\ s \in strategyTick.todo
      /\ UNCHANGED <<phaseMarks, advised, phaseRuns, produced>>
      /\ strategyTick' = [[strategyTick EXCEPT !.todo = @ \ {s}]
             EXCEPT !.failed = @ \cup {s}, !.session = "refused"]
  BY DEF DatabaseRefuses, Runs, IsNext, StrategyDone
<1>2. strategyTick \in PhaseTick
  BY <1>1, TickFacts DEF PhasesIInv
<1>3. /\ strategyTick' \in PhaseTick
      /\ strategyTick'.queue = strategyTick.queue /\ strategyTick'.at = "run"
      /\ strategyTick'.listed = strategyTick.listed /\ strategyTick'.marks = strategyTick.marks
      /\ strategyTick'.todo = strategyTick.todo \ {s}
      /\ strategyTick'.gates = strategyTick.gates
      /\ strategyTick'.failed = strategyTick.failed \cup {s}
      /\ strategyTick'.rows = strategyTick.rows
      /\ strategyTick'.errs = strategyTick.errs
  BY <1>1, <1>2 DEF PhaseTick
<1>4. ProducedIsKept'
  BY <1>1, <1>3 DEF ProducedIsKept, PhasesIInv, Ticking
<1>6. SessionInv'
  BY <1>1, <1>3, MeetStep
<1>. QED BY <1>3, <1>4, <1>6

\* MarkPhase: the mark takes over the rows and the errors of the run in progress, all of
\* whose strategies have been met.
LEMMA MarkStep ==
  ASSUME PhasesIInv, MarkPhase
  PROVE  ProducedIsKept' /\ SessionInv' /\ (strategyTick \in PhaseTick)'
<1> USE DEF tick
<1> DEFINE mark == [status |-> PhaseStatus(strategyTick.failed), run |-> phaseRuns,
                    listed |-> strategyTick.listed, gates |-> strategyTick.gates]
           marks == [strategyTick.marks EXCEPT ![CurrentPhase] = mark]
<1>1. /\ Ticking /\ strategyTick.at = "run" /\ strategyTick.todo = {}
      /\ UNCHANGED <<phaseMarks, advised, phaseRuns, produced>>
      /\ strategyTick' = IF Tail(strategyTick.queue) = << >>
                         THEN [strategyTick EXCEPT !.at = "end", !.marks = marks]
                         ELSE TickAt(Tail(strategyTick.queue), marks, strategyTick.rows,
                                     strategyTick.errs)
  BY DEF MarkPhase
<1>2. /\ strategyTick \in PhaseTick /\ SessionInv /\ CurrentPhase \in Phase
      /\ phaseRuns \in 0 .. MaxPhaseRuns + 1 /\ phaseRuns \in Nat
  BY <1>1, TickFacts DEF PhasesIInv, SessionInv, PhasesTypeOK
<1>3. /\ mark \in Mark /\ mark.run = phaseRuns /\ mark.status # "none"
      /\ mark.status = "succeeded" => strategyTick.failed = {}
      /\ mark.listed = strategyTick.listed /\ mark.gates = strategyTick.gates
  BY <1>1, <1>2 DEF Mark, PhaseStatus, PhaseTick
<1> HIDE DEF mark
<1>4. /\ marks \in [Phase -> Mark] /\ marks[CurrentPhase] = mark
      /\ \A p \in Phase : p # CurrentPhase => marks[p] = strategyTick.marks[p]
  BY <1>2, <1>3 DEF PhaseTick
<1> HIDE DEF marks
<1>5. /\ strategyTick' \in PhaseTick
      /\ strategyTick'.rows = strategyTick.rows /\ strategyTick'.errs = strategyTick.errs
      /\ strategyTick'.marks = marks
      /\ \/ /\ strategyTick'.at = "end" /\ strategyTick'.queue = strategyTick.queue
            /\ strategyTick.queue # <<"pool", "intraday">>
            /\ strategyTick'.gates = strategyTick.gates
            /\ strategyTick'.todo = {} /\ strategyTick'.listed = strategyTick.listed
         \/ /\ strategyTick'.at = "phase" /\ strategyTick'.queue = <<"intraday">>
            /\ strategyTick.queue = <<"pool", "intraday">>
            /\ strategyTick'.gates = {} /\ strategyTick'.todo = {}
            /\ strategyTick'.listed = {}
  <2>1. CASE Tail(strategyTick.queue) = << >>
    BY <1>1, <1>2, <1>4, <2>1, TickFacts DEF PhasesIInv, PhaseTick
  <2>2. CASE Tail(strategyTick.queue) # << >>
    <3>1. /\ strategyTick.queue = <<"pool", "intraday">>
          /\ Tail(strategyTick.queue) = <<"intraday">>
      BY <1>1, <2>2, TickFacts DEF PhasesIInv
    <3>2. strategyTick' = TickAt(<<"intraday">>, marks, strategyTick.rows, strategyTick.errs)
      BY <1>1, <2>2, <3>1
    <3>3. strategyTick.rows \subseteq Advice /\ strategyTick.errs \subseteq Nat \X Strategy
      BY <1>2 DEF PhaseTick
    <3>. QED BY <1>4, <3>1, <3>2, <3>3 DEF TickAt, PhaseTick
  <2>. QED BY <2>1, <2>2
<1>6. Ticking'
  BY <1>5, QueueFacts DEF Ticking, PhaseTick
<1>7. ProducedIsKept'
  BY <1>1, <1>5, <1>6 DEF ProducedIsKept, PhasesIInv
<1>8. strategyTick'.at # "run"
  BY <1>5
<1>9. /\ phaseRuns + RunsLeft <= MaxPhaseRuns + 1
      /\ \A a \in strategyTick.rows : Later(a.run) /\ a.run <= phaseRuns
      /\ \A f \in strategyTick.errs : Later(f[1]) /\ f[1] <= phaseRuns
      /\ \A p \in Phase : Marked(p) => /\ Later(strategyTick.marks[p].run)
                                       /\ strategyTick.marks[p].run < phaseRuns
                                       /\ strategyTick.marks[p].run <= phaseRuns
      /\ Later(phaseRuns)
      /\ ~Marked(CurrentPhase)
  BY <1>1, <1>2 DEF SessionInv, TickInOrder, TickInPlace
<1>10. TickInOrder'
  <2>1. RunsLeft' \in 0 .. RunsLeft /\ RunsLeft \in Nat
    <3>1. CASE strategyTick'.at = "end"
      <4>1. /\ strategyTick'.queue # <<"pool", "intraday">>
            /\ strategyTick.queue # <<"pool", "intraday">>
        BY <1>5, <3>1
      <4>2. RunsLeft' = 0 BY <3>1, <4>1 DEF RunsLeft
      <4>3. RunsLeft = 0 BY <1>1, <4>1 DEF RunsLeft
      <4>. QED BY <4>2, <4>3
    <3>2. CASE strategyTick'.at # "end"
      <4>1. strategyTick'.at = "phase" /\ strategyTick'.queue # <<"pool", "intraday">>
        BY <1>5, <3>2, QueueFacts
      <4>2. RunsLeft' = 1 BY <4>1 DEF RunsLeft
      <4>3. RunsLeft = 1 BY <1>1, <1>5, <3>2 DEF RunsLeft
      <4>. QED BY <4>2, <4>3
    <3>. QED BY <3>1, <3>2
  <2>2. phaseRuns' + RunsLeft' <= MaxPhaseRuns + 1
    BY <1>1, <1>2, <1>9, <2>1
  <2>3. \A run : Later(run)' <=> Later(run)
    BY <1>1 DEF Later
  <2>4. \A p \in Phase : marks[p].status # "none" =>
          Later(marks[p].run) /\ marks[p].run <= phaseRuns
    BY <1>2, <1>3, <1>4, <1>9 DEF Marked
  <2>. QED BY <1>1, <1>5, <1>8, <1>9, <2>2, <2>3, <2>4 DEF TickInOrder, Marked
<1>11. TickInPlace'
  <2>1. strategyTick.gates \subseteq strategyTick.listed
    BY <1>1, <1>2 DEF SessionInv, TickInPlace
  <2>2. ASSUME strategyTick'.at = "phase" PROVE (~Marked(CurrentPhase))'
    <3>1. strategyTick.queue = <<"pool", "intraday">> /\ CurrentPhase' = "intraday"
      BY <1>5, <2>2, QueueFacts DEF CurrentPhase
    <3>2. \A p \in Phase : ~Marked(p)
      BY <1>1, <1>2, <3>1 DEF SessionInv, TickInPlace
    <3>3. CurrentPhase = "pool" BY <3>1, QueueFacts DEF CurrentPhase
    <3>4. marks["intraday"].status = "none"
      BY <1>4, <3>2, <3>3, QueueFacts DEF Marked
    <3>. QED BY <1>5, <3>1, <3>4 DEF Marked
  <2>3. strategyTick'.queue # <<"pool", "intraday">>
    BY <1>5, QueueFacts
  <2>. QED BY <1>5, <2>1, <2>2, <2>3 DEF TickInPlace
<1>12. \A p \in Phase : Marked(p) => marks[p] = strategyTick.marks[p]
  BY <1>4, <1>9
<1>13. RowsHaveRuns'
  <2>1. ASSUME NEW a \in strategyTick.rows
        PROVE  /\ ~ClosedFor(a.strategy, a.gate)
               /\ marks[a.phase].status # "none" /\ marks[a.phase].run = a.run
    <3>1. a.phase \in Phase BY <1>2 DEF PhaseTick, Advice
    <3>. QED
      BY <1>1, <1>2, <1>3, <1>4, <1>12, <3>1 DEF SessionInv, RowsHaveRuns, Marked
  <2>. QED BY <1>5, <2>1 DEF RowsHaveRuns, Marked
<1>14. ErrorsHaveRuns'
  <2>1. ASSUME NEW f \in strategyTick.errs
        PROVE  \E p \in Phase : marks[p].status # "none" /\ marks[p].run = f[1]
    <3>1. CASE \E p \in Phase : Marked(p) /\ strategyTick.marks[p].run = f[1]
      BY <1>12, <3>1 DEF Marked
    <3>2. CASE f[1] = phaseRuns
      BY <1>2, <1>3, <1>4, <3>2
    <3>. QED BY <1>1, <1>2, <3>1, <3>2 DEF SessionInv, ErrorsHaveRuns
  <2>. QED BY <1>5, <2>1 DEF ErrorsHaveRuns, Marked
<1>15. SessionIsWhole'
  <2>1. ASSUME NEW p \in Phase, marks[p].status = "succeeded"
        PROVE  /\ \A f \in strategyTick.errs : f[1] # marks[p].run
               /\ marks[p].gates \subseteq marks[p].listed
               /\ \A a \in strategyTick.rows : a.run = marks[p].run =>
                     a.strategy \in marks[p].listed \ marks[p].gates
    <3>1. CASE p # CurrentPhase
      BY <1>1, <1>2, <1>4, <2>1, <3>1 DEF SessionInv, SessionIsWhole
    <3>2. CASE p = CurrentPhase
      <4>1. /\ marks[p].run = phaseRuns /\ strategyTick.failed = {}
            /\ marks[p].listed = strategyTick.listed /\ marks[p].gates = strategyTick.gates
        BY <1>3, <1>4, <2>1, <3>2
      <4>2. \A q \in Phase : Marked(q) => strategyTick.marks[q].run # phaseRuns
        <5>1. \A q \in Phase : strategyTick.marks[q].run \in Nat
          BY <1>2 DEF PhaseTick, Mark
        <5>. QED BY <1>2, <1>9, <5>1
      <4>3. \A f \in strategyTick.errs : f[1] # phaseRuns
        BY <1>1, <1>2, <4>1, <4>2 DEF SessionInv, ErrorsHaveRuns
      <4>4. \A a \in strategyTick.rows : a.run = phaseRuns =>
              a.strategy \in strategyTick.listed \ strategyTick.gates
        <5>1. \A a \in strategyTick.rows : a.phase \in Phase
          BY <1>2 DEF PhaseTick, Advice
        <5>. QED BY <1>1, <1>2, <4>2, <5>1 DEF SessionInv, RowsHaveRuns
      <4>5. strategyTick.gates \subseteq strategyTick.listed
        BY <1>1, <1>2 DEF SessionInv, TickInPlace
      <4>. QED BY <4>1, <4>3, <4>4, <4>5
    <3>. QED BY <3>1, <3>2
  <2>. QED BY <1>5, <2>1 DEF SessionIsWhole
<1>. QED
  BY <1>5, <1>7, <1>10, <1>11, <1>13, <1>14, <1>15 DEF SessionInv

\* The commit: rows, errors and marks of the session become those of the tables.
LEMMA CommitTickStep ==
  ASSUME PhasesIInv, CommitStrategyTick
  PROVE  /\ ProducedIsKept' /\ SessionInv' /\ StoredInOrder' /\ StoredIsWhole'
         /\ phaseMarks' \in [Phase -> Mark] /\ advised' \subseteq Advice
         /\ faults' \subseteq Nat \X Strategy
<1> USE DEF tick
<1>1. /\ Ticking /\ strategyTick.at = "end" /\ strategyTick' = NoTick
      /\ phaseMarks' = [p \in Phase |-> MarksAfter(p)]
      /\ advised' = advised \cup strategyTick.rows
      /\ faults' = faults \cup strategyTick.errs
      /\ phaseRuns' = phaseRuns /\ produced' = produced
  BY DEF CommitStrategyTick
<1>2. /\ strategyTick \in PhaseTick /\ SessionInv /\ phaseRuns \in Nat
      /\ phaseMarks \in [Phase -> Mark] /\ advised \subseteq Advice
      /\ faults \subseteq Nat \X Strategy
  BY <1>1, TickFacts DEF PhasesIInv, SessionInv, PhasesTypeOK
<1>3. ~Ticking'
  BY <1>1 DEF Ticking, NoTick
<1>4. ProducedIsKept'
  BY <1>1, <1>3 DEF ProducedIsKept, PhasesIInv
<1>5. /\ phaseMarks' \in [Phase -> Mark] /\ advised' \subseteq Advice
      /\ faults' \subseteq Nat \X Strategy
  BY <1>1, <1>2 DEF MarksAfter, PhaseTick
<1>6. \A p \in Phase : phaseMarks'[p] = IF Marked(p) THEN strategyTick.marks[p] ELSE phaseMarks[p]
  BY <1>1 DEF MarksAfter, Marked
<1>7. \A p \in Phase : /\ phaseMarks[p].run \in Nat /\ phaseMarks[p].run <= phaseRuns
                       /\ strategyTick.marks[p].run \in Nat
                       /\ Marked(p) => /\ Later(strategyTick.marks[p].run)
                                       /\ strategyTick.marks[p].run <= phaseRuns
  BY <1>1, <1>2 DEF SessionInv, TickInOrder, PhasesIInv, StoredInOrder, PhaseTick, Mark
<1>8. \A p \in Phase : phaseMarks[p].run <= phaseMarks'[p].run /\ phaseMarks'[p].run \in Nat
  BY <1>6, <1>7 DEF Later
<1>9. \A a \in strategyTick.rows : /\ a.run \in Nat /\ Later(a.run) /\ a.phase \in Phase
                                   /\ phaseMarks'[a.phase].run = a.run
                                   /\ ~ClosedFor(a.strategy, a.gate)
  <2>1. \A a \in strategyTick.rows : a.phase \in Phase /\ a.run \in Nat
    BY <1>2 DEF PhaseTick, Advice
  <2>. QED BY <1>1, <1>2, <1>6, <2>1 DEF SessionInv, TickInOrder, RowsHaveRuns
<1>10. \A a \in advised : /\ a.run \in Nat /\ a.phase \in Phase
                          /\ a.run <= phaseMarks[a.phase].run
  BY <1>2 DEF PhasesIInv, StoredInOrder, Advice
<1>11. \A f \in strategyTick.errs : /\ f[1] \in Nat /\ Later(f[1])
                                    /\ \E p \in Phase : phaseMarks'[p].run = f[1]
  BY <1>1, <1>2, <1>6 DEF SessionInv, TickInOrder, ErrorsHaveRuns, PhaseTick
<1>12. \A f \in faults : f[1] \in Nat /\ \E p \in Phase : f[1] <= phaseMarks[p].run
  BY <1>2 DEF PhasesIInv, StoredInOrder
<1>13. StoredInOrder'
  <2>1. \A p \in Phase : phaseMarks'[p].run <= phaseRuns'
    BY <1>1, <1>6, <1>7
  <2>2. ASSUME NEW a \in advised' PROVE a.run <= phaseMarks'[a.phase].run
    <3>1. CASE a \in advised BY <1>8, <1>10, <3>1, <1>7
    <3>2. CASE a \in strategyTick.rows BY <1>9, <3>2
    <3>. QED BY <1>1, <3>1, <3>2
  <2>3. ASSUME NEW f \in faults' PROVE \E p \in Phase : f[1] <= phaseMarks'[p].run
    <3>1. CASE f \in faults
      <4>1. PICK p \in Phase : f[1] <= phaseMarks[p].run /\ f[1] \in Nat BY <1>12, <3>1
      <4>. QED BY <4>1, <1>7, <1>8
    <3>2. CASE f \in strategyTick.errs BY <1>11, <3>2
    <3>. QED BY <1>1, <3>1, <3>2
  <2>. QED BY <2>1, <2>2, <2>3 DEF StoredInOrder
<1>14. StoredIsWhole'
  <2>1. \A a \in advised' : ~ClosedFor(a.strategy, a.gate)
    BY <1>1, <1>9 DEF PhasesIInv, StoredIsWhole
  <2>2. ASSUME NEW p \in Phase, phaseMarks'[p].status = "succeeded"
        PROVE  /\ \A f \in faults' : f[1] # phaseMarks'[p].run
               /\ phaseMarks'[p].gates \subseteq phaseMarks'[p].listed
               /\ \A a \in advised' : a.run = phaseMarks'[p].run =>
                     a.strategy \in phaseMarks'[p].listed \ phaseMarks'[p].gates
    <3>1. CASE Marked(p)
      <4>1. phaseMarks'[p] = strategyTick.marks[p] /\ Later(phaseMarks'[p].run)
        BY <1>6, <1>7, <3>1
      <4>2. \A f \in faults : f[1] # phaseMarks'[p].run
        BY <1>7, <1>8, <1>12, <4>1 DEF Later
      <4>3. \A a \in advised : a.run # phaseMarks'[p].run
        BY <1>7, <1>8, <1>10, <4>1 DEF Later
      <4>. QED
        BY <1>1, <1>2, <2>2, <4>1, <4>2, <4>3 DEF SessionInv, SessionIsWhole
    <3>2. CASE ~Marked(p)
      <4>1. phaseMarks'[p] = phaseMarks[p]
        BY <1>6, <3>2
      <4>2. \A f \in strategyTick.errs : f[1] # phaseMarks[p].run
        BY <1>7, <1>11 DEF Later
      <4>3. \A a \in strategyTick.rows : a.run # phaseMarks[p].run
        BY <1>7, <1>9 DEF Later
      <4>. QED
        BY <1>1, <2>2, <4>1, <4>2, <4>3 DEF PhasesIInv, StoredIsWhole
    <3>. QED BY <3>1, <3>2
  <2>. QED BY <2>1, <2>2 DEF StoredIsWhole
<1>. QED
  BY <1>3, <1>4, <1>5, <1>13, <1>14, RestingSession

\* A dropped tick takes exactly its own rows with it.
LEMMA DropStep ==
  ASSUME PhasesIInv, DropStrategyTick
  PROVE  ProducedIsKept' /\ SessionInv' /\ produced' \subseteq Advice
<1> USE DEF tick
<1>1. /\ Ticking /\ strategyTick' = NoTick
      /\ produced' = {a \in produced : \E p \in Phase : a.run <= phaseMarks[p].run}
      /\ phaseMarks' = phaseMarks /\ advised' = advised
  BY DEF DropStrategyTick
<1>2. ~Ticking'
  BY <1>1 DEF Ticking, NoTick
<1>3. produced = advised \cup strategyTick.rows
  BY <1>1 DEF PhasesIInv, ProducedIsKept
<1>4. \A a \in advised : \E p \in Phase : a.run <= phaseMarks[p].run
  BY DEF PhasesIInv, PhasesTypeOK, StoredInOrder, Advice
<1>5. \A a \in strategyTick.rows : \A p \in Phase : ~(a.run <= phaseMarks[p].run)
  <2>1. strategyTick \in PhaseTick BY <1>1, TickFacts DEF PhasesIInv
  <2>2. \A a \in strategyTick.rows : a.run \in Nat
    BY <2>1 DEF PhaseTick, Advice
  <2>3. \A p \in Phase : phaseMarks[p].run \in Nat
    BY DEF PhasesIInv, PhasesTypeOK, Mark
  <2>. QED BY <1>1, <2>2, <2>3 DEF PhasesIInv, TickInOrder, Later
<1>6. produced' = advised
  BY <1>1, <1>3, <1>4, <1>5
<1>. QED
  BY <1>1, <1>2, <1>6, RestingSession DEF ProducedIsKept, PhasesIInv, PhasesTypeOK

-----------------------------------------------------------------------------
(* The theorems. *)

\* Every step keeps the invariant.
LEMMA PhasesStep ==
  ASSUME PhasesIInv, [PhasesNext]_phasesVars
  PROVE  PhasesIInv'
<1> DEFINE Beside == UNCHANGED <<phaseMarks, advised, faults, strategyTick, phaseRuns, produced>>
           Switches == /\ judged' \in Judgement \cup {NoJudgement}
                       /\ enabled' \in [Strategy -> BOOLEAN]
                       /\ syncing' \in [Strategy -> BOOLEAN] \cup {<< >>}
                       /\ matched' \in BOOLEAN
<1>0. PhasesTypeOK BY DEF PhasesIInv
<1>1. ASSUME Beside, Switches PROVE PhasesIInv'
  <2>1. PhasesTypeOK'
    BY <1>0, <1>1 DEF PhasesTypeOK
  <2>. QED BY <1>1, <2>1, PhasesRest DEF PhasesIInv, SessionInv
<1>2. ASSUME UNCHANGED <<judged, enabled, syncing, matched>> PROVE Switches
  BY <1>0, <1>2 DEF PhasesTypeOK
<1>3. ASSUME Switches, ProducedIsKept', SessionInv', StoredInOrder', StoredIsWhole',
             phaseMarks' \in [Phase -> Mark], advised' \subseteq Advice,
             produced' \subseteq Advice, faults' \subseteq Nat \X Strategy,
             strategyTick' = NoTick \/ strategyTick' \in PhaseTick,
             phaseRuns' \in 0 .. MaxPhaseRuns + 1
      PROVE  PhasesIInv'
  BY <1>3 DEF PhasesIInv, SessionInv, PhasesTypeOK
<1>4. ASSUME UNCHANGED <<judged, enabled, syncing, matched>>,
             UNCHANGED <<phaseMarks, advised, faults, phaseRuns>>,
             ProducedIsKept', SessionInv', produced' \subseteq Advice,
             strategyTick' = NoTick \/ strategyTick' \in PhaseTick
      PROVE  PhasesIInv'
  <2>1. phaseRuns \in Nat /\ phaseRuns <= phaseRuns /\ phaseRuns' \in Nat /\ phaseRuns <= phaseRuns'
    BY <1>0, <1>4 DEF PhasesTypeOK
  <2>2. StoredInOrder' /\ StoredIsWhole'
    BY <1>4, <2>1, TablesRest
  <2>3. /\ phaseMarks' \in [Phase -> Mark] /\ advised' \subseteq Advice
        /\ faults' \subseteq Nat \X Strategy /\ phaseRuns' \in 0 .. MaxPhaseRuns + 1
    BY <1>0, <1>4 DEF PhasesTypeOK
  <2>. QED BY <1>2, <1>3, <1>4, <2>2, <2>3
<1> HIDE DEF Switches
<1>5. ASSUME NEW j \in Judgement, JudgeTheDay(j) PROVE PhasesIInv'
  BY <1>0, <1>1, <1>5 DEF JudgeTheDay, PhasesTypeOK, Switches
<1>6. CASE MatchArrives
  <2>1. matched' = TRUE BY <1>6 DEF MatchArrives
  <2>2. matched' \in BOOLEAN BY <2>1, Zenon
  <2>. QED BY <1>0, <1>1, <1>6, <2>2 DEF MatchArrives, PhasesTypeOK, Switches
<1>7. ASSUME NEW s \in Switched, SwitchStrategy(s) PROVE PhasesIInv'
  <2>1. enabled' \in [Strategy -> BOOLEAN]
    BY <1>0, <1>7 DEF SwitchStrategy, PhasesTypeOK
  <2>. QED BY <1>0, <1>1, <1>7, <2>1 DEF SwitchStrategy, PhasesTypeOK, Switches
<1>8. CASE ReadDefinitions
  BY <1>0, <1>1, <1>8 DEF ReadDefinitions, PhasesTypeOK, Switches
<1>9. CASE CommitDefinitions
  BY <1>0, <1>1, <1>9 DEF CommitDefinitions, PhasesTypeOK, Switches
<1>10. ASSUME NEW queue \in {<<"opening">>, <<"pool", "intraday">>}, BeginStrategyTick(queue)
       PROVE  PhasesIInv'
  <2>1. /\ UNCHANGED <<judged, enabled, syncing, matched>> /\ produced' = produced
        /\ UNCHANGED <<phaseMarks, advised, faults, phaseRuns>>
    BY <1>10 DEF BeginStrategyTick
  <2>. QED BY <1>0, <1>4, <1>10, <2>1, BeginTickStep DEF PhasesTypeOK
<1>11. CASE SkipPhase
  <2>1. /\ UNCHANGED <<judged, enabled, syncing, matched>> /\ produced' = produced
        /\ UNCHANGED <<phaseMarks, advised, faults, phaseRuns>>
    BY <1>11 DEF SkipPhase
  <2>. QED BY <1>0, <1>4, <1>11, <2>1, SkipStep DEF PhasesTypeOK
<1>12. CASE ReadGate
  <2>1. /\ UNCHANGED <<judged, enabled, syncing, matched>> /\ produced' = produced
        /\ UNCHANGED <<phaseMarks, advised, faults, phaseRuns>>
    BY <1>12 DEF ReadGate
  <2>. QED BY <1>0, <1>4, <1>12, <2>1, ReadGateStep DEF PhasesTypeOK
<1>13. CASE ListStrategies
  <2>1. /\ UNCHANGED <<judged, enabled, syncing, matched>> /\ produced' = produced
        /\ UNCHANGED <<phaseMarks, advised, faults>>
    BY <1>13 DEF ListStrategies
  <2>2. /\ ProducedIsKept' /\ SessionInv' /\ strategyTick' \in PhaseTick
        /\ phaseRuns' \in 0 .. MaxPhaseRuns + 1 /\ phaseRuns <= phaseRuns'
    BY <1>13, ListStep
  <2>3. StoredInOrder' /\ StoredIsWhole'
    BY <2>1, <2>2, TablesRest
  <2>4. /\ phaseMarks' \in [Phase -> Mark] /\ advised' \subseteq Advice
        /\ produced' \subseteq Advice /\ faults' \subseteq Nat \X Strategy
    BY <1>0, <2>1 DEF PhasesTypeOK
  <2>. QED BY <1>2, <1>3, <2>1, <2>2, <2>3, <2>4
<1>14. ASSUME NEW s \in Strategy, GateStrategy(s) PROVE PhasesIInv'
  <2>1. /\ UNCHANGED <<judged, enabled, syncing, matched>> /\ produced' = produced
        /\ UNCHANGED <<phaseMarks, advised, faults, phaseRuns>>
    BY <1>14 DEF GateStrategy
  <2>. QED BY <1>0, <1>4, <1>14, <2>1, GateStep DEF PhasesTypeOK
<1>15. ASSUME NEW s \in Strategy, RunStrategy(s) PROVE PhasesIInv'
  <2>1. /\ UNCHANGED <<judged, enabled, syncing, matched>>
        /\ UNCHANGED <<phaseMarks, advised, faults, phaseRuns>>
    BY <1>15 DEF RunStrategy
  <2>. QED BY <1>4, <1>15, <2>1, RunStep
<1>16. ASSUME NEW s \in Strategy, StrategyRaises(s) PROVE PhasesIInv'
  <2>1. /\ UNCHANGED <<judged, enabled, syncing, matched>> /\ produced' = produced
        /\ UNCHANGED <<phaseMarks, advised, faults, phaseRuns>>
    BY <1>16 DEF StrategyRaises
  <2>. QED BY <1>0, <1>4, <1>16, <2>1, RaiseStep DEF PhasesTypeOK
<1>17. ASSUME NEW s \in Strategy, DatabaseRefuses(s) PROVE PhasesIInv'
  <2>1. /\ UNCHANGED <<judged, enabled, syncing, matched>> /\ produced' = produced
        /\ UNCHANGED <<phaseMarks, advised, faults, phaseRuns>>
    BY <1>17 DEF DatabaseRefuses
  <2>. QED BY <1>0, <1>4, <1>17, <2>1, RefuseStep DEF PhasesTypeOK
<1>18. CASE MarkPhase
  <2>1. /\ UNCHANGED <<judged, enabled, syncing, matched>> /\ produced' = produced
        /\ UNCHANGED <<phaseMarks, advised, faults, phaseRuns>>
    BY <1>18 DEF MarkPhase
  <2>. QED BY <1>0, <1>4, <1>18, <2>1, MarkStep DEF PhasesTypeOK
<1>19. CASE CommitStrategyTick
  <2>1. /\ UNCHANGED <<judged, enabled, syncing, matched>> /\ produced' = produced
        /\ phaseRuns' = phaseRuns /\ strategyTick' = NoTick
    BY <1>19 DEF CommitStrategyTick
  <2>2. produced' \subseteq Advice /\ phaseRuns' \in 0 .. MaxPhaseRuns + 1
    BY <1>0, <2>1 DEF PhasesTypeOK
  <2>. QED BY <1>2, <1>3, <1>19, <2>1, <2>2, CommitTickStep
<1>20. CASE DropStrategyTick
  <2>1. /\ UNCHANGED <<judged, enabled, syncing, matched>> /\ strategyTick' = NoTick
        /\ UNCHANGED <<phaseMarks, advised, faults, phaseRuns>>
    BY <1>20 DEF DropStrategyTick
  <2>. QED BY <1>4, <1>20, <2>1, DropStep
<1>21. CASE UNCHANGED phasesVars
  <2>1. UNCHANGED <<judged, enabled, syncing, matched>> /\ Beside
    BY <1>21 DEF phasesVars
  <2>. QED BY <1>1, <1>2, <2>1
<1>. QED
  BY <1>5, <1>6, <1>7, <1>8, <1>9, <1>10, <1>11, <1>12, <1>13, <1>14, <1>15, <1>16,
     <1>17, <1>18, <1>19, <1>20, <1>21 DEF PhasesNext

\* The invariant holds at the start.
LEMMA PhasesInitially == PhasesInit => PhasesIInv
<1> SUFFICES ASSUME PhasesInit PROVE PhasesIInv OBVIOUS
<1>1. ~Ticking
  BY DEF PhasesInit, Ticking, NoTick
<1>2. /\ enabled \in [Strategy -> BOOLEAN]
      /\ syncing \in [Strategy -> BOOLEAN] \cup {<< >>}
      /\ judged \in Judgement \cup {NoJudgement}
  BY DEF PhasesInit
<1>3. matched \in BOOLEAN
  <2>1. matched = FALSE BY DEF PhasesInit
  <2>. QED BY <2>1, Zenon
<1>4. phaseMarks \in [Phase -> Mark] /\ \A p \in Phase : phaseMarks[p] = NoMark
  BY DEF PhasesInit, NoMarks, NoMark, Mark
<1>5. /\ advised = {} /\ produced = {} /\ faults = {} /\ phaseRuns = 0
      /\ strategyTick = NoTick
  BY DEF PhasesInit
<1>6. PhasesTypeOK
  BY <1>2, <1>3, <1>4, <1>5 DEF PhasesTypeOK
<1>7. StoredInOrder /\ StoredIsWhole /\ ProducedIsKept
  BY <1>1, <1>4, <1>5 DEF StoredInOrder, StoredIsWhole, ProducedIsKept, NoMark
<1>. QED
  BY <1>1, <1>6, <1>7
     DEF PhasesIInv, TickInOrder, TickInPlace, RowsHaveRuns, ErrorsHaveRuns, SessionIsWhole

\* It implies what the run checks.
LEMMA PhasesIInvSuffices == PhasesIInv => SucceededPhasesAreWhole
<1> SUFFICES ASSUME PhasesIInv PROVE SucceededPhasesAreWhole OBVIOUS
<1> USE DEF PhasesIInv
<1>1. ASSUME NEW p \in Phase, phaseMarks[p].status = "succeeded"
      PROVE  {a \in produced : a.run = phaseMarks[p].run} \subseteq advised
  <2>1. CASE ~Ticking
    BY <2>1 DEF ProducedIsKept
  <2>2. CASE Ticking
    <3>1. strategyTick \in PhaseTick BY <2>2, TickFacts
    <3>2. \A a \in strategyTick.rows : a.run # phaseMarks[p].run
      <4>1. \A a \in strategyTick.rows : a.run \in Nat BY <3>1 DEF PhaseTick, Advice
      <4>2. phaseMarks[p].run \in Nat BY DEF PhasesTypeOK, Mark
      <4>. QED BY <2>2, <4>1, <4>2 DEF TickInOrder, Later, tick
    <3>. QED BY <2>2, <3>2 DEF ProducedIsKept, tick
  <2>. QED BY <2>1, <2>2
<1>2. \A p \in Phase : MarkIsWhole(p)
  BY <1>1 DEF MarkIsWhole, StoredIsWhole
<1>3. \A a \in advised : ~ClosedFor(a.strategy, a.gate) /\ phaseMarks[a.phase].run >= a.run
  <2>1. \A a \in advised : a.run \in Nat /\ a.phase \in Phase BY DEF PhasesTypeOK, Advice
  <2>2. \A p \in Phase : phaseMarks[p].run \in Nat BY DEF PhasesTypeOK, Mark
  <2>. QED BY <2>1, <2>2 DEF StoredIsWhole, StoredInOrder
<1>. QED BY <1>2, <1>3 DEF SucceededPhasesAreWhole

\* The types of the tick, the marks and the reports.
THEOREM PhasesTypeCorrect == PhasesSpec => []PhasesTypeOK
<1>1. PhasesIInv /\ [PhasesNext]_phasesVars => PhasesIInv' BY PhasesStep
<1>2. PhasesIInv => PhasesTypeOK BY DEF PhasesIInv
<1>. QED BY <1>1, <1>2, PhasesInitially, PTL DEF PhasesSpec

\* A phase that is marked as succeeded has stored all that its run produced, with no
\* strategy failed, none that was held back advising, and nothing that the cycle closes:
\* for any judgements and switches, whatever fails, and however many runs there are.
THEOREM SucceededPhasesAreAlwaysWhole == PhasesSpec => []SucceededPhasesAreWhole
<1>1. PhasesIInv /\ [PhasesNext]_phasesVars => PhasesIInv' BY PhasesStep
<1>. QED BY <1>1, PhasesInitially, PhasesIInvSuffices, PTL DEF PhasesSpec

HIDE PhasesAssumption

-----------------------------------------------------------------------------
(***************************************************************************)
(* BacktestRun, for any runs.                                              *)
(*                                                                         *)
(* The argument: until its request commits, the row of a run is there for  *)
(* nobody, so the task cannot get past its insertion and cannot have       *)
(* written an end.  After a rollback there is no row but the one that the  *)
(* task itself inserts with its report.                                    *)
(***************************************************************************)

BacktestInv ==
    /\ BacktestTypeOK
    /\ \A r \in Run :
         /\ submission[r] \in {"none", "flushed", "answered"} =>
              reportRow[r] = "none" /\ analysis[r] \notin {"updating", "ended"}
         /\ submission[r] = "committed" =>
              /\ reportRow[r] # "none"
              /\ analysis[r] = "ended" => reportRow[r] \in Final
         /\ submission[r] = "aborted" => reportRow[r] \in {"none", "succeeded"}
         /\ reportRow[r] \in Final => analysis[r] = "ended"

LEMMA BacktestInitInv == BacktestInit => BacktestInv
    BY DEF BacktestInit, BacktestInv, BacktestTypeOK, RowStatus, Final

\* The request moves, or its commit shows the row.
LEMMA RequestStep ==
    ASSUME BacktestInv, NEW r \in Run,
           Submit(r) \/ StartAnalysis(r) \/ CommitSubmission(r) \/ AbortSubmission(r)
    PROVE  BacktestInv'
    BY DEF Submit, StartAnalysis, CommitSubmission, AbortSubmission, BacktestInv,
       BacktestTypeOK, RowStatus, Final

\* The task works; nothing is written before its end.
LEMMA WorkStep ==
    ASSUME BacktestInv, NEW r \in Run,
           \/ FinishSamples(r) \/ RaiseInSamples(r) \/ LookUpRow(r) \/ InsertRow(r)
           \/ FailToSave(r) \/ FailAgain(r)
    PROVE  BacktestInv'
    BY DEF FinishSamples, RaiseInSamples, LookUpRow, InsertRow, FailToSave, FailAgain,
       AnalysisMoves, BacktestInv, BacktestTypeOK

\* The task writes how it ended, to a row that it sees.
LEMMA EndStep ==
    ASSUME BacktestInv, NEW r \in Run, SaveReport(r) \/ SaveFailure(r)
    PROVE  BacktestInv'
    BY DEF SaveReport, SaveFailure, AfterFailure, AnalysisMoves, BacktestInv,
       BacktestTypeOK, RowStatus, Final

\* A stop takes requests back that nobody has seen.
LEMMA StopStep ==
    ASSUME BacktestInv, StopProcess \/ UNCHANGED backtestVars
    PROVE  BacktestInv'
    BY DEF StopProcess, backtestVars, BacktestInv, BacktestTypeOK

LEMMA BacktestInvHolds == BacktestSpec => []BacktestInv
<1>1. BacktestInv /\ [BacktestNext]_backtestVars => BacktestInv'
    BY RequestStep, WorkStep, EndStep, StopStep DEF BacktestNext
<1> QED BY <1>1, BacktestInitInv, PTL DEF BacktestSpec

\* A row is final only by the end of its task, a submitted run whose task has written
\* how it ended is final, and a request that is rolled back leaves no row but one with
\* a report, for any runs.
THEOREM EndedIsFinal == BacktestSpec => []EndedRunsAreFinal
<1>1. BacktestInv => EndedRunsAreFinal
    BY DEF BacktestInv, BacktestTypeOK, EndedRunsAreFinal
<1> QED BY <1>1, BacktestInvHolds, PTL

\* Rows, requests and tasks keep their types, for any runs.
THEOREM BacktestTypeCorrect == BacktestSpec => []BacktestTypeOK
<1>1. BacktestInv => BacktestTypeOK
    BY DEF BacktestInv
<1> QED BY <1>1, BacktestInvHolds, PTL

-----------------------------------------------------------------------------
(* Numbers. *)

\* A set of numbers has a smallest one,
LEMMA LeastNumber ==
    ASSUME NEW S, S \subseteq Nat, S # {}
    PROVE  \E m \in S : \A n \in S : m <= n
<1>1. PICK m \in S : \A n \in S : ~(<<n, m>> \in OpToRel(<, Nat))
    BY NatLessThanWellFounded, WFMin
<1>2. \A n \in S : m <= n
  <2> SUFFICES ASSUME NEW n \in S, n < m PROVE FALSE
      OBVIOUS
  <2>1. <<n, m>> \in OpToRel(<, Nat)
      BY DEF OpToRel
  <2> QED BY <1>1, <2>1
<1> QED BY <1>2

\* and a largest one if it is bounded.
LEMMA LargestNumber ==
    ASSUME NEW S, S \subseteq Nat, S # {}, NEW b \in Nat, \A n \in S : n <= b
    PROVE  \E m \in S : \A n \in S : n <= m
<1> DEFINE T == {b - n : n \in S}
<1>1. T \subseteq Nat /\ T # {}
  <2>1. \A n \in S : b - n \in Nat
      OBVIOUS
  <2>2. PICK n : n \in S
      OBVIOUS
  <2>3. b - n \in T
      BY <2>2
  <2> QED BY <2>1, <2>3
<1>2. PICK t \in T : \A x \in T : t <= x
    BY <1>1, LeastNumber
<1>3. PICK m \in S : t = b - m
    OBVIOUS
<1>4. \A n \in S : n <= m
  <2> SUFFICES ASSUME NEW n \in S PROVE n <= m
      OBVIOUS
  <2>1. b - n \in T
      OBVIOUS
  <2>2. b - m <= b - n
      BY <1>2, <1>3, <2>1
  <2>3. m \in Nat /\ n \in Nat
      OBVIOUS
  <2> HIDE DEF T
  <2> QED BY <2>2, <2>3
<1> QED BY <1>4

-----------------------------------------------------------------------------
(***************************************************************************)
(* FactorBands, for any thresholds and values.                             *)
(*                                                                         *)
(* No value is without a band, whatever the thresholds, and thresholds     *)
(* that ascend are the steps of a ladder.                                  *)
(***************************************************************************)

\* Every factor but one gives each of its two or three cuts to one band.
OneSided == {<<a, b>> : a, b \in {Above, Below}} \cup {<<a, b, c>> : a, b, c \in {Above, Below}}

\* That is how the built-in factors declare their bands.
LEMMA SidesAreOneSided ==
    \A factor \in Factor \ {"next_day_close"} : Sides[factor] \in OneSided
<1>1. Factor = {"ratio", "next_day_open", "first_yin_open", "amplitude", "close_pos",
                "low_time", "wave_trend", "next_day_close", "boards", "one_word"}
    BY DEF Factor, Sides
<1>2. Sides["ratio"] = <<Above, Above, Above>>
    BY DEF Sides, FourBand
<1>3. Sides["next_day_open"] = <<Below, Above, Above>>
    BY DEF Sides, NextDayOpenPct
<1>4. Sides["first_yin_open"] = <<Above, Above>>
    BY DEF Sides, FirstYinOpenPct
<1>5. Sides["amplitude"] = <<Below, Above>>
    BY DEF Sides, FirstYinAmplitude
<1>6. Sides["close_pos"] = <<Below, Below>>
    BY DEF Sides, FirstYinClosePos
<1>7. Sides["low_time"] = <<Above, Above>>
    BY DEF Sides, FirstYinLowTime
<1>8. Sides["wave_trend"] = <<Above, Above>>
    BY DEF Sides, WaveVolTrend
<1>9. Sides["boards"] = <<Above, Above, Above>>
    BY DEF Sides, ContinueBoards
<1>10. Sides["one_word"] = <<Above, Above>>
    BY DEF Sides, WaveOneWordCount
<1>11. <<Above, Above, Above>> \in OneSided /\ <<Below, Above, Above>> \in OneSided
    BY DEF OneSided
<1>12. /\ <<Above, Above>> \in OneSided
       /\ <<Below, Above>> \in OneSided
       /\ <<Below, Below>> \in OneSided
    BY DEF OneSided
<1> QED BY <1>1, <1>2, <1>3, <1>4, <1>5, <1>6, <1>7, <1>8, <1>9, <1>10, <1>11, <1>12

\* What the declarations of the factors have in common: two or three cuts, each
\* of which belongs to the band below, to the one above, or to both.
LEMMA SidesAreDeclared ==
    \A factor \in Factor :
        /\ Len(Sides[factor]) \in 2 .. 3
        /\ \A i \in 1 .. Len(Sides[factor]) :
             "above" \in Sides[factor][i] \/ "below" \in Sides[factor][i]
<1>1. \A s \in OneSided :
        /\ Len(s) \in 2 .. 3
        /\ \A i \in 1 .. Len(s) : s[i] \in {Above, Below}
    BY DEF OneSided
<1>2. \A x \in {Above, Below} : "above" \in x \/ "below" \in x
    BY DEF Above, Below
<1>3. Sides["next_day_close"] = <<Below, Below \cup Above>>
    BY DEF Sides, NextDayClosePct
<1> TAKE factor \in Factor
<1>4. CASE factor = "next_day_close"
  <2>1. Len(Sides[factor]) = 2
      BY <1>3, <1>4
  <2>2. Sides[factor][1] = Below /\ Sides[factor][2] = Below \cup Above
      BY <1>3, <1>4
  <2>3. \A i \in 1 .. 2 : i = 1 \/ i = 2
      OBVIOUS
  <2>4. \A i \in 1 .. 2 : "below" \in Sides[factor][i]
      BY <2>2, <2>3 DEF Below
  <2> QED BY <2>1, <2>4
<1>5. CASE factor # "next_day_close"
    BY <1>1, <1>2, <1>5, SidesAreOneSided
<1> QED BY <1>4, <1>5

\* Bucket.contains in terms of the cuts around a band.
LEMMA HoldsBetweenCuts ==
    ASSUME NEW cuts, NEW sides, NEW v \in Int, v > -Far, v < Far,
           Len(cuts) \in 2 .. 3, \A k \in 1 .. Len(cuts) : cuts[k] \in Int,
           NEW i \in 1 .. Len(cuts) + 1
    PROVE  Holds(BandOf(cuts, sides, i), v) <=>
             /\ i # 1 => v > cuts[i - 1] \/ (v = cuts[i - 1] /\ "above" \in sides[i - 1])
             /\ i <= Len(cuts) => v < cuts[i] \/ (v = cuts[i] /\ "below" \in sides[i])
<1> DEFINE b == BandOf(cuts, sides, i)
<1>1. Len(cuts) \in Int /\ i \in Int
    OBVIOUS
<1>2. v # NoValue
    BY DEF NoValue, Far
<1>3. /\ b.lo = IF i = 1 THEN -Far ELSE cuts[i - 1]
      /\ b.hi = IF i > Len(cuts) THEN Far ELSE cuts[i]
      /\ b.loInclusive <=> i = 1 \/ "above" \in sides[i - 1]
      /\ b.hiInclusive <=> i > Len(cuts) \/ "below" \in sides[i]
    BY DEF BandOf
<1>4. (v > b.lo \/ (v = b.lo /\ b.loInclusive)) <=>
        (i # 1 => v > cuts[i - 1] \/ (v = cuts[i - 1] /\ "above" \in sides[i - 1]))
    BY <1>3 DEF Far
<1>5. (v < b.hi \/ (v = b.hi /\ b.hiInclusive)) <=>
        (i <= Len(cuts) => v < cuts[i] \/ (v = cuts[i] /\ "below" \in sides[i]))
    BY <1>1, <1>3 DEF Far
<1> QED BY <1>2, <1>4, <1>5 DEF Holds

-----------------------------------------------------------------------------

\* stats.py:172, volume_ratio.py:44: whatever the thresholds, and in whatever
\* order they stand, every value is in a band of a factor that declares a lowest
\* one: the statistics lose no sample to "other".
THEOREM NoValueIsLost ==
    ASSUME NEW factor \in Factor \ Bottomless, NEW cuts,
           Len(cuts) = Len(Sides[factor]), \A k \in 1 .. Len(cuts) : cuts[k] \in Int,
           NEW v \in Int, v > -Far, v < Far
    PROVE  Hits(factor, cuts, v) # {}
<1> DEFINE sides == Sides[factor]
           n == Len(cuts)
           Over(k) == v > cuts[k] \/ (v = cuts[k] /\ "above" \in sides[k])
           Under(k) == v < cuts[k] \/ (v = cuts[k] /\ "below" \in sides[k])
<1>1. n \in 2 .. 3 /\ \A k \in 1 .. n : Over(k) \/ Under(k)
    BY SidesAreDeclared
<1>2. SUFFICES \E i \in 1 .. n + 1 : (i # 1 => Over(i - 1)) /\ (i <= n => Under(i))
  <2>1. PICK i \in 1 .. n + 1 : (i # 1 => Over(i - 1)) /\ (i <= n => Under(i))
      BY <1>2
  <2>2. Holds(BandOf(cuts, Sides[factor], i), v)
      BY <1>1, <2>1, HoldsBetweenCuts
  <2>3. i \in BandsOf(factor, cuts)
      BY DEF BandsOf
  <2> QED BY <2>2, <2>3 DEF Hits
<1> HIDE DEF Over, Under
<1>3. CASE n = 2
  <2>2. CASE Under(1)
      BY <1>3, <2>2
  <2>3. CASE Over(1) /\ Under(2)
      BY <1>3, <2>3, 2 - 1 = 1
  <2>4. CASE Over(1) /\ Over(2)
      BY <1>3, <2>4, 3 - 1 = 2
  <2> QED BY <1>1, <1>3, <2>2, <2>3, <2>4
<1>4. CASE n = 3
  <2>2. CASE Under(1)
      BY <1>4, <2>2
  <2>3. CASE Over(1) /\ Under(2)
      BY <1>4, <2>3, 2 - 1 = 1
  <2>4. CASE Over(2) /\ Under(3)
      BY <1>4, <2>4, 3 - 1 = 2
  <2>5. CASE Over(3)
      BY <1>4, <2>5, 4 - 1 = 3
  <2> QED BY <1>1, <1>4, <2>2, <2>3, <2>4, <2>5
<1> QED BY <1>1, <1>3, <1>4

\* volume_ratio.py:44: the bands are disjoint when the thresholds ascend, for every
\* factor but the close of the day after, whose two upper bands share their cut.
THEOREM AscendingBandsAreDisjoint ==
    ASSUME NEW factor \in Factor \ {"next_day_close"}, NEW cuts,
           Len(cuts) = Len(Sides[factor]), \A k \in 1 .. Len(cuts) : cuts[k] \in Int,
           \A k, l \in 1 .. Len(cuts) : k < l => cuts[k] < cuts[l],
           NEW v \in Int, v > -Far, v < Far
    PROVE  \A i, j \in Hits(factor, cuts, v) : i = j
<1> DEFINE sides == Sides[factor]
           n == Len(cuts)
<1>1. n \in 2 .. 3 /\ n \in Int
    BY SidesAreDeclared
<1>2. \A k \in 1 .. n : ~("above" \in sides[k] /\ "below" \in sides[k])
  <2>1. \A s \in OneSided : \A k \in 1 .. Len(s) : s[k] \in {Above, Below}
      BY DEF OneSided
  <2>2. \A x \in {Above, Below} : ~("above" \in x /\ "below" \in x)
      BY DEF Above, Below
  <2> QED BY <2>1, <2>2, SidesAreOneSided
<1>3. SUFFICES ASSUME NEW i \in 1 .. n + 1, NEW j \in 1 .. n + 1, i < j,
                      Holds(BandOf(cuts, sides, i), v), Holds(BandOf(cuts, sides, j), v)
               PROVE  FALSE
    BY <1>1 DEF Hits, BandsOf
<1>4. v < cuts[i] \/ (v = cuts[i] /\ "below" \in sides[i])
    BY <1>1, <1>3, HoldsBetweenCuts
<1>5. v > cuts[j - 1] \/ (v = cuts[j - 1] /\ "above" \in sides[j - 1])
    BY <1>1, <1>3, HoldsBetweenCuts
<1>6. i \in 1 .. n /\ j - 1 \in 1 .. n /\ i <= j - 1
    BY <1>1, <1>3
<1>7. CASE i < j - 1
    BY <1>4, <1>5, <1>6, <1>7
<1>8. CASE i = j - 1
    BY <1>2, <1>4, <1>5, <1>6, <1>8
<1> QED BY <1>1, <1>6, <1>7, <1>8

\* base.py:214: the band of a value is the number of thresholds it has passed and
\* one, for every factor and all thresholds that ascend; a threshold that two bands
\* claim belongs to the upper one.  A value below all of them is in no band of a
\* factor that declares none there.
THEOREM BandsAreAlwaysSteps ==
    ASSUME NEW Ladders, NEW Values,
           \A n \in 2 .. 3 : \A cuts \in Ladders[n] :
               /\ DOMAIN cuts = 1 .. n /\ Len(cuts) = n
               /\ \A k \in 1 .. n : cuts[k] \in Int /\ -Far < cuts[k],
           \A v \in Values : v \in Int /\ -Far < v /\ v < Far
    PROVE  BandsAreSteps(Ladders, Values)
<1> SUFFICES ASSUME NEW factor \in Factor, NEW cuts \in Ladders[Len(Sides[factor])],
                    NEW v \in Values,
                    \A i, j \in DOMAIN cuts : i < j => cuts[i] < cuts[j]
             PROVE  LET passed == {i \in DOMAIN cuts :
                          v > cuts[i] \/ (v = cuts[i] /\ "above" \in Sides[factor][i])}
                    IN  SelectBand(factor, cuts, v) =
                          IF factor \in Bottomless /\ passed = {} THEN Unmatched
                          ELSE Cardinality(passed) + 1
    BY DEF BandsAreSteps
<1> DEFINE sides == Sides[factor]
           n == Len(cuts)
           Over(k) == v > cuts[k] \/ (v = cuts[k] /\ "above" \in sides[k])
           Under(k) == v < cuts[k] \/ (v = cuts[k] /\ "below" \in sides[k])
           passed == {i \in DOMAIN cuts : Over(i)}
           hits == Hits(factor, cuts, v)
           Lo(i) == BandOf(cuts, sides, i).lo
<1>1. /\ n \in 2 .. 3 /\ DOMAIN cuts = 1 .. n
      /\ \A k \in 1 .. n : cuts[k] \in Int /\ -Far < cuts[k]
      /\ v \in Int /\ -Far < v /\ v < Far
      /\ \A k \in 1 .. n : Over(k) \/ Under(k)
  <2>1. Len(sides) \in 2 .. 3 /\ cuts \in Ladders[Len(sides)]
      BY SidesAreDeclared
  <2>2. n = Len(sides) /\ DOMAIN cuts = 1 .. n
      BY <2>1
  <2>3. \A k \in 1 .. n : cuts[k] \in Int /\ -Far < cuts[k]
      BY <2>1, <2>2
  <2>4. \A k \in 1 .. n : "above" \in sides[k] \/ "below" \in sides[k]
      BY <2>2, SidesAreDeclared
  <2> QED BY <2>1, <2>2, <2>3, <2>4
<1>2. \A i : i \in hits <=> /\ i \in 1 .. n + 1 /\ (factor \in Bottomless => i > 1)
                            /\ i # 1 => Over(i - 1)
                            /\ i <= n => Under(i)
    BY <1>1, HoldsBetweenCuts DEF Hits, BandsOf
<1>3. \A j \in 1 .. n, k \in 1 .. n : j < k /\ Over(k) => Over(j)
    BY <1>1
<1>4. \A i \in 1 .. n + 1 : Lo(i) = IF i = 1 THEN -Far ELSE cuts[i - 1]
    BY DEF BandOf
<1> HIDE DEF hits, Lo
<1>5. PICK m \in 0 .. n : passed = 1 .. m
  <2>1. CASE passed = {}
    <3>1. 0 \in 0 .. n /\ 1 .. 0 = {}
        BY <1>1
    <3> HIDE DEF passed
    <3> QED BY <2>1, <3>1
  <2>2. CASE passed # {}
    <3>1. passed \subseteq Nat /\ n \in Nat /\ \A k \in passed : k <= n
        BY <1>1
    <3>2. PICK m \in passed : \A k \in passed : k <= m
      <4> HIDE DEF passed
      <4> QED BY <2>2, <3>1, LargestNumber
    <3>3. passed = 1 .. m
        BY <1>1, <1>3, <3>2
    <3> QED BY <1>1, <3>2, <3>3
  <2> QED BY <2>1, <2>2
<1>6. \A k \in 1 .. n : Over(k) <=> k <= m
    BY <1>1, <1>5
<1>7. Cardinality(passed) = m
  <2>1. m \in Nat
      BY <1>1
  <2>2. Cardinality(1 .. m) = m
      BY <2>1, FS_Interval
  <2> HIDE DEF passed
  <2> QED BY <1>5, <2>2
<1>8. \A i \in hits : i <= m + 1
  <2> SUFFICES ASSUME NEW i \in hits, i > m + 1 PROVE FALSE
      BY <1>1, <1>2
  <2>1. i - 1 \in 1 .. n /\ Over(i - 1)
      BY <1>1, <1>2, <1>5
  <2> QED BY <1>1, <1>2, <1>6, <2>1
<1>9. CASE factor \in Bottomless /\ m = 0
  <2>1. hits = {}
      BY <1>2, <1>8, <1>9
  <2> QED BY <1>5, <1>7, <1>9, <2>1 DEF SelectBand, hits
<1>10. CASE ~(factor \in Bottomless /\ m = 0)
  <2>1. m + 1 \in hits
    <3> HIDE DEF Over, Under
    <3> QED BY <1>1, <1>2, <1>5, <1>6, <1>10
  <2>2. \A j \in hits : j # m + 1 => Lo(m + 1) > Lo(j)
    <3> SUFFICES ASSUME NEW j \in hits, j # m + 1 PROVE Lo(m + 1) > Lo(j)
        OBVIOUS
    <3>1. j \in 1 .. n + 1 /\ j < m + 1 /\ m + 1 \in 1 .. n + 1 /\ m \in 1 .. n
        BY <1>1, <1>2, <1>5, <1>8
    <3>2. Lo(m + 1) = cuts[m]
        BY <1>4, <3>1
    <3>3. CASE j = 1
        BY <1>1, <1>4, <3>1, <3>2, <3>3 DEF Far
    <3>4. CASE j # 1
      <4>1. Lo(j) = cuts[j - 1] /\ j - 1 \in 1 .. n /\ j - 1 < m
          BY <1>1, <1>4, <3>1, <3>4
      <4> QED BY <1>1, <3>1, <3>2, <4>1
    <3> QED BY <3>3, <3>4
  <2>3. \A i, j \in hits : Lo(i) \in Int /\ Lo(j) \in Int /\ i \in Int
    <3> SUFFICES ASSUME NEW i \in hits PROVE Lo(i) \in Int /\ i \in Int
        OBVIOUS
    <3>1. i \in 1 .. n + 1
        BY <1>2
    <3>2. CASE i = 1
        BY <1>4, <3>1, <3>2 DEF Far
    <3>3. CASE i # 1
        BY <1>1, <1>4, <3>1, <3>3
    <3> QED BY <1>1, <3>1, <3>2, <3>3
  <2> DEFINE Chosen(i) == \A j \in hits : Lo(i) > Lo(j) \/ (Lo(i) = Lo(j) /\ i <= j)
  <2>4. Chosen(m + 1)
      BY <2>1, <2>2, <2>3
  <2>5. \A i \in hits : Chosen(i) => i = m + 1
      BY <2>1, <2>2, <2>3
  <2>6. SelectBand(factor, cuts, v) = CHOOSE i \in hits : Chosen(i)
      BY <2>1 DEF SelectBand, hits, Lo
  <2> HIDE DEF Chosen
  <2>7. SelectBand(factor, cuts, v) = m + 1
      BY <2>1, <2>4, <2>5, <2>6
  <2> QED BY <1>5, <1>7, <1>10, <2>7
<1> QED BY <1>9, <1>10

-----------------------------------------------------------------------------
(***************************************************************************)
(* The other pure rules, for every input: what the ASSUMEs of MCServices   *)
(* evaluate over small sets, as far as no sum, fold or count enters it.    *)
(***************************************************************************)

(* The market cycle. *)

\* What is judged: every indicator a number, Missing among them.
JudgedDay ==
    [temp : Int, up : Int, down : Int, br : Int, promo : Int, height : Int,
     leaderDown : BOOLEAN, rawUps : Int, rawHeight : Int]
Thresholds == [divergence : Int, retreat : Int, height : Int, ice : Int]

\* A day judged to accelerate or to repair shows no sign of a retreat or of a
\* divergence, whatever the thresholds: cycle.py returns those before.
THEOREM GoodDaysAreGood ==
    ASSUME NEW Days \in SUBSET JudgedDay, NEW th \in Thresholds
    PROVE  GoodDaysHaveNoBadSigns(Days, th)
<1> SUFFICES ASSUME NEW d \in Days, StateOf(d, th) \in {"accel", "repair"}
             PROVE  /\ d.down < 50 /\ ~d.leaderDown
                    /\ d.br < Percent(25)
                    /\ Known(d.promo) => d.promo * Scale >= th.divergence
                    /\ Known(d.temp) /\ d.temp >= 30
    BY DEF GoodDaysHaveNoBadSigns
<1>0. d \in JudgedDay
    OBVIOUS
<1>1. ~Retreats(d, th) /\ ~Diverges(d, th)
    BY DEF StateOf
<1>2. Accelerates(d, th) \/ Repairs(d)
    BY <1>1 DEF StateOf
<1>3. d.temp >= 30
    BY <1>0, <1>2 DEF Accelerates, Repairs, JudgedDay
<1> QED BY <1>0, <1>1, <1>3
        DEF Retreats, Diverges, JudgedDay, Known, Missing, Percent, Unit, Scale, Thresholds

\* "Safety first": a day that is worse in its broken boards, promotions and
\* limit-downs and the same otherwise is not judged better, for all thresholds and
\* indicators; the one exception is the place of divergence before ice.
THEOREM WorseIsNeverBetter ==
    ASSUME NEW Days \in SUBSET JudgedDay, NEW th \in Thresholds
    PROVE  WorseIsNotBetter(Days, th)
<1> SUFFICES ASSUME NEW d \in JudgedDay, NEW y \in JudgedDay, IsWorse(d, y)
             PROVE  \/ Rank(StateOf(y, th)) <= Rank(StateOf(d, th))
                    \/ StateOf(d, th) = "ice" /\ StateOf(y, th) = "diverge"
    BY DEF WorseIsNotBetter
<1>1. /\ y.temp = d.temp /\ y.up = d.up /\ y.height = d.height
      /\ y.leaderDown = d.leaderDown
      /\ Known(d.br) = Known(y.br) /\ Known(d.promo) = Known(y.promo)
      /\ y.br >= d.br /\ y.promo <= d.promo /\ y.down >= d.down
    BY DEF IsWorse, JudgedDay
<1>2. /\ \A x \in JudgedDay : /\ x.temp \in Int /\ x.up \in Int /\ x.down \in Int
                              /\ x.br \in Int /\ x.promo \in Int /\ x.height \in Int
      /\ th.divergence \in Int /\ th.retreat \in Int
    BY DEF JudgedDay, Thresholds
<1>3. Retreats(d, th) => Retreats(y, th)
    BY <1>1, <1>2 DEF Retreats, BlackSwan, HighBreak, WeakAlongside, Known, Missing,
                      Percent, Unit, Scale
<1>4. Diverges(d, th) => Diverges(y, th)
    BY <1>1, <1>2 DEF Diverges, Known, Missing, Percent, Unit, Scale
<1>5. Freezes(d, th) => Freezes(y, th)
    BY <1>1, <1>2 DEF Freezes, Known, Missing
<1>6. Accelerates(y, th) => Accelerates(d, th)
    BY <1>1, <1>2 DEF Accelerates, Known, Missing, Percent, Unit
<1>7. Repairs(y) => Repairs(d)
    BY <1>1, <1>2 DEF Repairs, Known, Missing, Percent, Unit
<1> QED BY <1>3, <1>4, <1>5, <1>6, <1>7 DEF StateOf, Rank

\* The leader of a pool is one of its securities.
LEMMA LeaderIsListed ==
    ASSUME NEW pool, pool # {}, NEW b \in Nat,
           \A s \in pool : s.boards \in 0 .. b /\ s.seal \in 0 .. b
    PROVE  LeaderOf(pool) \in pool
<1> DEFINE B == {s.boards : s \in pool}
<1>1. PICK m \in B : \A n \in B : n <= m
  <2>1. B \subseteq Nat /\ B # {} /\ \A n \in B : n <= b
      OBVIOUS
  <2> HIDE DEF B
  <2> QED BY <2>1, LargestNumber
<1> DEFINE top == {s \in pool : s.boards = m}
           A == {s.seal : s \in top}
<1>2. PICK a \in A : \A n \in A : n <= a
  <2>1. A \subseteq Nat /\ A # {} /\ \A n \in A : n <= b
      BY <1>1
  <2> HIDE DEF A
  <2> QED BY <2>1, LargestNumber
<1>3. PICK s \in top : s.seal = a
    OBVIOUS
<1>4. \A o \in pool : s.boards > o.boards \/ (s.boards = o.boards /\ s.seal >= o.seal)
  <2> SUFFICES ASSUME NEW o \in pool
               PROVE  s.boards > o.boards \/ (s.boards = o.boards /\ s.seal >= o.seal)
      OBVIOUS
  <2>1. o.boards \in B /\ o.boards <= m /\ s.boards = m /\ m \in Nat /\ o.boards \in Nat
      BY <1>1, <1>3
  <2>2. CASE o.boards = m
    <3>1. o.seal \in A
        BY <2>2
    <3>2. o.seal <= a /\ a \in Nat /\ o.seal \in Nat
        BY <3>1, <1>2
    <3> QED BY <2>1, <2>2, <3>2, <1>3
  <2>3. CASE o.boards # m
      BY <2>1, <2>3
  <2> QED BY <2>2, <2>3
<1>5. s \in pool
    BY <1>3
<1> HIDE DEF B, top, A
<1> QED BY <1>4, <1>5 DEF LeaderOf

\* The leader is one of the day's limit-ups: as long as no security is in both
\* pools, "the leader fell" is never a reason to retreat.  The bound b is there for
\* every pool, which is a table's rows of one day.
THEOREM NoLeaderEverFalls ==
    ASSUME NEW Days,
           \A day \in Days : \E b \in Nat : \A s \in day.ups :
               s.boards \in 0 .. b /\ s.seal \in 0 .. b
    PROVE  LeaderNeverFalls(Days)
<1> SUFFICES ASSUME NEW day \in Days, Codes(day.ups) \cap Codes(day.downs) = {},
                    AssembleDay(day).leaderDown
             PROVE  FALSE
    BY DEF LeaderNeverFalls
<1> DEFINE ups == Without(day.ups)
<1>1. ups # {} /\ LeaderOf(ups).code \in Codes(Without(day.downs))
    BY DEF AssembleDay
<1>2. LeaderOf(ups) \in ups
  <2>1. PICK b \in Nat : \A s \in day.ups : s.boards \in 0 .. b /\ s.seal \in 0 .. b
      OBVIOUS
  <2>2. \A s \in ups : s.boards \in 0 .. b /\ s.seal \in 0 .. b
      BY <2>1 DEF Without
  <2> QED BY <1>1, <2>2, LeaderIsListed
<1>3. LeaderOf(ups).code \in Codes(day.ups)
    BY <1>2 DEF Codes, Without
<1>4. LeaderOf(ups).code \in Codes(day.downs)
    BY <1>1 DEF Codes, Without
<1> QED BY <1>3, <1>4

-----------------------------------------------------------------------------
(* Parameters of factors and strategies. *)

\* What registry.py and protocol.py resolve is legal for every schema whose own
\* defaults are, every stored row and every override: the highest layer that names
\* a key decides it, and gives way to the default alone.
THEOREM ParametersAreLayered ==
    ASSUME NEW schema, \A k \in DOMAIN schema : Accepts(schema[k], schema[k].default),
           NEW Actives, \A active \in Actives : \A a, b \in active : a = b,
           NEW Overrides
    PROVE  ResolutionIsLayered(schema, Actives, Overrides)
<1> SUFFICES ASSUME NEW active \in Actives, NEW override \in Overrides,
                    NEW k \in DOMAIN schema
             PROVE  LET r == ResolveParams(schema, active, override)
                        Layer == IF k \in DOMAIN override THEN {override[k]}
                                 ELSE {a.params[k] : a \in {b \in active : k \in DOMAIN b.params}}
                    IN  /\ Accepts(schema[k], r.params[k])
                        /\ r.params[k] \in Layer \cup {schema[k].default}
                        /\ \A v \in Layer : Accepts(schema[k], v) => r.params[k] = v
                        /\ \A v \in Layer : ~Accepts(schema[k], v) => k \in r.warnings
    BY DEF ResolutionIsLayered
<1> DEFINE r == ResolveParams(schema, active, override)
           row == CHOOSE a \in active : TRUE
           configured == IF active = {} THEN CodeDefaults(schema)
                         ELSE Apply(schema, CodeDefaults(schema), row.params)
           layer == IF k \in DOMAIN override THEN {override[k]}
                    ELSE {a.params[k] : a \in {b \in active : k \in DOMAIN b.params}}
           Decides(v) == /\ layer = {v}
                         /\ r.params[k] = Coerce(schema[k], v)
                         /\ ~Accepts(schema[k], v) => k \in r.warnings
<1>1. r.params[k] = IF k \in DOMAIN override THEN Coerce(schema[k], override[k])
                    ELSE configured[k]
    BY DEF ResolveParams, Apply
<1>2. /\ Rejected(schema, override) \subseteq r.warnings
      /\ \A a \in active : Rejected(schema, a.params) \subseteq r.warnings
  <2> DEFINE stored == UNION {Rejected(schema, a.params) : a \in active}
  <2>1. r.warnings = stored \cup Rejected(schema, override)
      BY DEF ResolveParams
  <2>2. \A a \in active : Rejected(schema, a.params) \subseteq stored
      OBVIOUS
  <2> HIDE DEF stored, r
  <2> QED BY <2>1, <2>2
<1>3. ASSUME k \in DOMAIN override PROVE Decides(override[k])
  <2>1. ~Accepts(schema[k], override[k]) => k \in Rejected(schema, override)
      BY <1>3 DEF Rejected
  <2>2. layer = {override[k]}
      BY <1>3
  <2>3. r.params[k] = Coerce(schema[k], override[k])
      BY <1>1, <1>3
  <2> HIDE DEF r, row, layer, configured
  <2> QED BY <1>2, <2>1, <2>2, <2>3
<1>4. ASSUME k \notin DOMAIN override, active = {}
      PROVE  layer = {} /\ r.params[k] = schema[k].default
    BY <1>1, <1>4 DEF CodeDefaults
<1>5. ASSUME k \notin DOMAIN override, active # {}
      PROVE  (layer = {} /\ r.params[k] = schema[k].default) \/ Decides(row.params[k])
  <2>1. row \in active /\ \A a \in active : a = row
      BY <1>5
  <2>2. layer = IF k \in DOMAIN row.params THEN {row.params[k]} ELSE {}
      BY <1>5, <2>1
  <2>3. r.params[k] = IF k \in DOMAIN row.params THEN Coerce(schema[k], row.params[k])
                      ELSE schema[k].default
      BY <1>1, <1>5 DEF Apply, CodeDefaults
  <2>4. k \in DOMAIN row.params /\ ~Accepts(schema[k], row.params[k])
          => k \in r.warnings
    <3> SUFFICES ASSUME k \in DOMAIN row.params, ~Accepts(schema[k], row.params[k])
                 PROVE  k \in r.warnings
        OBVIOUS
    <3> HIDE DEF r, row, configured
    <3>1. k \in Rejected(schema, row.params)
        BY DEF Rejected
    <3>2. Rejected(schema, row.params) \subseteq r.warnings
        BY <1>2, <2>1
    <3> QED BY <3>1, <3>2
  <2> HIDE DEF r, row, layer, configured
  <2> QED BY <2>2, <2>3, <2>4
<1>6. (layer = {} /\ r.params[k] = schema[k].default) \/ \E v : Decides(v)
  <2> HIDE DEF r, row, layer, configured
  <2> QED BY <1>3, <1>4, <1>5
<1>7. /\ Accepts(schema[k], r.params[k])
      /\ r.params[k] \in layer \cup {schema[k].default}
      /\ \A v \in layer : Accepts(schema[k], v) => r.params[k] = v
      /\ \A v \in layer : ~Accepts(schema[k], v) => k \in r.warnings
  <2> HIDE DEF r, row, layer, configured
  <2> QED BY <1>6 DEF Coerce
<1> QED BY <1>7

-----------------------------------------------------------------------------
(* Board rules. *)

\* The opening phase of the dragon strategy finds nothing, ever, on bars as the
\* table has them: without a previous close no day is a limit-up, so that no wave
\* ends before a falling bar.
THEOREM OpeningIsAlwaysBlind ==
    ASSUME NEW histories, \A h \in histories : \E n \in Nat : DOMAIN h = 1 .. n,
           NEW minutes, NEW dates, NEW today
    PROVE  OpeningIsBlind(histories, minutes, dates, today)
<1> SUFFICES ASSUME NEW h \in histories, \A i \in DOMAIN h : h[i].pre = 0,
                    NEW i \in DOMAIN h, IsFirstYin(h, i, dates, 2)
             PROVE  FALSE
    BY DEF OpeningIsBlind, OpeningYins
<1>1. Ups(h, DragonUpPoints) = {}
    BY DEF Ups, RisesBy
<1>2. i \in Nat \ {0}
    OBVIOUS
<1>3. WaveStart(h, i, dates) = i
  <2> DEFINE InWave(k) == /\ k \in Ups(h, DragonUpPoints)
                          /\ k = i - 1 \/ k + 1 \in Consecutive(h, dates)
             Begins(s) == (\A k \in s .. (i - 1) : InWave(k)) /\ (s = 1 \/ ~InWave(s - 1))
  <2>1. \A k : ~InWave(k)
      BY <1>1
  <2> HIDE DEF InWave
  <2>2. Begins(i) /\ i \in 1 .. i
      BY <1>2, <2>1
  <2>3. \A s \in 1 .. i : Begins(s) => s = i
    <3> SUFFICES ASSUME NEW s \in 1 .. i, s # i, Begins(s) PROVE FALSE
        OBVIOUS
    <3>1. s \in s .. (i - 1)
        BY <1>2
    <3> QED BY <3>1, <2>1
  <2>4. WaveStart(h, i, dates) = CHOOSE s \in 1 .. i : Begins(s)
      BY DEF WaveStart, InWave
  <2> HIDE DEF Begins
  <2> QED BY <2>2, <2>3, <2>4
<1>4. i - WaveStart(h, i, dates) >= 2
    BY DEF IsFirstYin
<1> QED BY <1>2, <1>3, <1>4

\* The wave that ends before the last bar has a beginning in every window.
LEMMA WaveBegins ==
    ASSUME NEW up, NEW lo \in Nat, NEW last \in Nat, lo <= last
    PROVE  LET s == WaveBackFrom(up, lo, last)
           IN  /\ s \in lo .. last
               /\ s .. (last - 1) \subseteq up
               /\ s = lo \/ s - 1 \notin up
<1> DEFINE Begins(s) == /\ s .. (last - 1) \subseteq up
                        /\ s = lo \/ s - 1 \notin up
           T == {s \in lo .. last : s .. (last - 1) \subseteq up}
<1>1. T \subseteq Nat /\ last \in T
    OBVIOUS
<1>2. PICK m \in T : \A n \in T : m <= n
  <2> HIDE DEF T
  <2> QED BY <1>1, LeastNumber
<1>3. Begins(m)
  <2> SUFFICES ASSUME m # lo, m - 1 \in up PROVE FALSE
      BY <1>2
  <2>1. m - 1 \in lo .. last
      BY <1>2
  <2>2. \A k \in (m - 1) .. (last - 1) : k = m - 1 \/ k \in m .. (last - 1)
      BY <1>2
  <2>3. m - 1 \in T
      BY <1>2, <2>1, <2>2
  <2> QED BY <1>1, <1>2, <2>3
<1>4. m \in lo .. last
    BY <1>2
<1>5. WaveBackFrom(up, lo, last) = CHOOSE s \in lo .. last : Begins(s)
    BY DEF WaveBackFrom
<1> DEFINE w == WaveBackFrom(up, lo, last)
<1>6. w \in lo .. last /\ Begins(w)
  <2> HIDE DEF Begins
  <2> QED BY <1>3, <1>4, <1>5
<1> QED BY <1>6

Bar == [day : Int, open : Int, high : Int, low : Int, close : Int, pre : Int, volume : Int]

\* Two limit-ups beside each other belong to a wave of their window.
LEMMA PairsAreInWaves ==
    ASSUME NEW up, NEW lo \in Nat, NEW last \in Nat, NEW k \in (lo + 1) .. last,
           {k - 1, k} \subseteq up
    PROVE  \E w \in WavesIn(up, lo, last) :
             /\ w[1] \in Nat /\ w[2] \in Nat
             /\ w[1] <= k - 1 /\ k <= w[2] /\ w[2] <= last
             /\ w[1] .. w[2] \subseteq up
<1> DEFINE L == {n \in lo .. k : n .. k \subseteq up}
           R == {n \in k .. last : k .. n \subseteq up}
<1>1. /\ L \subseteq Nat /\ k - 1 \in L
      /\ R \subseteq Nat /\ k \in R /\ \A n \in R : n <= last
  <2>1. \A j \in (k - 1) .. k : j = k - 1 \/ j = k
      OBVIOUS
  <2> QED BY <2>1
<1>2. PICK a \in L : \A n \in L : a <= n
  <2> HIDE DEF L
  <2> QED BY <1>1, LeastNumber
<1>3. PICK b \in R : \A n \in R : n <= b
  <2> HIDE DEF R
  <2> QED BY <1>1, LargestNumber
<1>4. /\ a \in lo .. k /\ a .. k \subseteq up /\ a <= k - 1
      /\ b \in k .. last /\ k .. b \subseteq up
    BY <1>1, <1>2, <1>3
<1>5. a = lo \/ a - 1 \notin up
  <2> SUFFICES ASSUME a # lo, a - 1 \in up PROVE FALSE
      OBVIOUS
  <2>1. \A j \in (a - 1) .. k : j = a - 1 \/ j \in a .. k
      BY <1>4
  <2>2. a - 1 \in L
      BY <1>4, <2>1
  <2> QED BY <1>2, <1>4, <2>2
<1>6. b = last \/ b + 1 \notin up
  <2> SUFFICES ASSUME b # last, b + 1 \in up PROVE FALSE
      OBVIOUS
  <2>1. \A j \in k .. (b + 1) : j = b + 1 \/ j \in k .. b
      BY <1>4
  <2>2. b + 1 \in R
      BY <1>4, <2>1
  <2> QED BY <1>3, <1>4, <2>2
<1>7. a .. b \subseteq up
  <2>1. \A j \in a .. b : j \in a .. k \/ j \in k .. b
      BY <1>4
  <2> QED BY <1>4, <2>1
<1> DEFINE w == <<a, b>>
<1>8. w \in WavesIn(up, lo, last)
  <2>1. a \in lo .. last /\ b \in lo .. last /\ a < b
      BY <1>4
  <2> HIDE DEF L, R
  <2> QED BY <2>1, <1>5, <1>6, <1>7 DEF WavesIn
<1> QED BY <1>4, <1>7, <1>8

\* Whatever lianban_a accepts is on the first wave of its days: its boards are
\* limit-ups, the wave is whole or fills the window, and no two limit-ups beside
\* each other end in the days looked back over.  For all histories and bounds.
THEOREM StructureIsAlwaysSound ==
    ASSUME NEW histories \in SUBSET Seq(Bar), NEW p,
           p.window \in Nat \ {0}, p.fewest \in Nat \ {0}, p.lookback \in Nat
    PROVE  StructureIsSound(histories, p)
<1> SUFFICES ASSUME NEW h \in Seq(Bar), NEW boards \in {2, 3},
                    StructureHolds(h, boards, p)
             PROVE  LET up == Ups(WithPreClose(h), LimitUpPoints)
                        last == Len(h)
                        s == last - boards + 1
                    IN  /\ s .. (last - 1) \subseteq up
                        /\ boards = 3 => last \in up
                        /\ s - 1 \notin up \/ boards = p.window
                        /\ \A k \in 2 .. (s - 1) :
                             k > last - p.window + 1 /\ k >= s - p.lookback =>
                                 ~({k - 1, k} \subseteq up)
    BY DEF StructureIsSound
<1> DEFINE bars == WithPreClose(h)
           last == Len(bars)
           lo == IF last > p.window THEN last - p.window + 1 ELSE 1
           up == Ups(bars, LimitUpPoints)
           s == WaveBackFrom(up, lo, last)
<1>1. last = Len(h) /\ last \in Nat
    BY DEF WithPreClose
<1>2. /\ last - lo + 1 >= p.fewest
      /\ last - s + 1 = boards
      /\ \A w \in WavesIn(up, lo, last) : w[2] = last \/ s - w[2] > p.lookback
      /\ s > 1
    BY DEF StructureHolds
<1> HIDE DEF bars
<1>3. lo \in Nat /\ 1 <= lo /\ lo <= last
    BY <1>1, <1>2
<1> HIDE DEF up
<1>4. /\ s \in lo .. last
      /\ s .. (last - 1) \subseteq up
      /\ s = lo \/ s - 1 \notin up
  <2> HIDE DEF last, lo
  <2> QED BY <1>1, <1>3, WaveBegins
<1> HIDE DEF s
<1>5. s = last - boards + 1 /\ s \in Nat
    BY <1>1, <1>2, <1>3, <1>4
<1>6. s - 1 \notin up \/ boards = p.window
    BY <1>1, <1>2, <1>4, <1>5
\* The wave that ends one day too early would be an earlier wave.
<1>7. boards = 3 => last \in up
  <2> SUFFICES ASSUME boards = 3, last \notin up PROVE FALSE
      OBVIOUS
  <2>0. s = last - 2 /\ last \in Nat /\ lo \in Nat /\ lo <= s
      BY <1>1, <1>3, <1>4, <1>5
  <2> HIDE DEF last, lo
  <2>1. last - 1 \in (lo + 1) .. last /\ {(last - 1) - 1, last - 1} \subseteq up
    <3>1. (last - 1) - 1 = s /\ s \in s .. (last - 1) /\ last - 1 \in s .. (last - 1)
        BY <2>0
    <3> QED BY <1>4, <2>0, <3>1
  <2>2. PICK w \in WavesIn(up, lo, last) :
             /\ w[1] \in Nat /\ w[2] \in Nat
             /\ w[1] <= (last - 1) - 1 /\ last - 1 <= w[2] /\ w[2] <= last
             /\ w[1] .. w[2] \subseteq up
      BY <2>0, <2>1, PairsAreInWaves
  <2>3. w[2] = last - 1
      BY <2>0, <2>2
  <2> QED BY <1>2, <2>0, <2>2, <2>3
<1>8. ASSUME NEW k \in 2 .. (s - 1), k > last - p.window + 1, k >= s - p.lookback,
             {k - 1, k} \subseteq up
      PROVE  FALSE
  <2>1. s # lo /\ k \in (lo + 1) .. last
      BY <1>1, <1>3, <1>4, <1>8
  <2>2. s - 1 \notin up /\ k < s - 1
      BY <1>4, <1>5, <1>8, <2>1
  <2> HIDE DEF last, lo
  <2>3. PICK w \in WavesIn(up, lo, last) :
             /\ w[1] \in Nat /\ w[2] \in Nat
             /\ w[1] <= k - 1 /\ k <= w[2] /\ w[2] <= last
             /\ w[1] .. w[2] \subseteq up
      BY <1>1, <1>3, <1>8, <2>1, PairsAreInWaves
  <2>4. w[2] < s - 1
      BY <1>5, <2>2, <2>3
  <2>5. w[2] # last
    <3>1. s <= last
        BY <1>4
    <3> QED BY <1>1, <1>5, <2>3, <2>4, <3>1
  <2>6. s - w[2] > p.lookback
      BY <1>2, <2>3, <2>5
  <2>7. s - w[2] <= p.lookback
      BY <1>5, <1>8, <2>3
  <2> QED BY <1>5, <2>3, <2>6, <2>7
<1>9. /\ s .. (last - 1) \subseteq up
      /\ \A k \in 2 .. (s - 1) :
           k > last - p.window + 1 /\ k >= s - p.lookback => ~({k - 1, k} \subseteq up)
    BY <1>4, <1>8
<1> HIDE DEF last, lo
<1> QED BY <1>1, <1>5, <1>6, <1>7, <1>9 DEF up, bars

-----------------------------------------------------------------------------
(* Sales of the dragon engine. *)

\* A gain above a bound is a rate that does not lie below it.
LEMMA RateAbove ==
    ASSUME NEW x \in Int, NEW b \in Nat \ {0}, NEW n \in Int, x > n * b
    PROVE  x \div b >= n
<1> DEFINE q == x \div b
<1>1. q \in Int /\ x < b * (q + 1)
    OBVIOUS
<1> HIDE DEF q
<1> SUFFICES ASSUME q + 1 <= n PROVE FALSE
    BY <1>1 DEF q
<1>2. b * (q + 1) <= b * n
    BY <1>1
<1> QED BY <1>1, <1>2

\* No trade ends below its stop, and one that was not stopped ends with the last
\* price of the days it was held: for all prices, stops and days.  The minutes of
\* those days, joined, are prices too.
THEOREM SalesAreAlwaysBounded ==
    ASSUME NEW bought \in Nat \ {0}, NEW seriesSet,
           NEW stop \in Int \ {Unmeasured}, NEW hold \in Nat \ {0},
           \A series \in seriesSet :
               FlattenSeq(SubSeq(series, 1, IF hold < Len(series) THEN hold ELSE Len(series)))
                   \in Seq(Int)
    PROVE  SalesAreBounded(bought, seriesSet, stop, hold)
<1> SUFFICES ASSUME NEW series \in seriesSet
             PROVE  LET sale == Sale(bought, series, Unmeasured, stop, hold)
                        held == FlattenSeq(SubSeq(series, 1,
                                    IF hold < Len(series) THEN hold ELSE Len(series)))
                    IN  \/ sale = NoSale /\ held = << >>
                        \/ /\ sale.rate >= stop
                           /\ sale.at = Len(held) \/ sale.reason = "stop_loss"
                           /\ \A k \in 1 .. sale.at - 1 : RateOf(held[k], bought) >= stop
    BY DEF SalesAreBounded
<1> DEFINE days == IF hold > 1 THEN hold ELSE 1
           joined == FlattenSeq(SubSeq(series, 1,
                         IF hold < Len(series) THEN hold ELSE Len(series)))
           prices == FlattenSeq(SubSeq(series, 1,
                         IF days < Len(series) THEN days ELSE Len(series)))
           Gain(k) == (prices[k] - bought) * 10000
           Stopped(k) == stop # Unmeasured /\ Gain(k) <= stop * bought
           Taken(k) == Unmeasured # Unmeasured /\ Gain(k) >= Unmeasured * bought
           ended == {k \in DOMAIN prices : Stopped(k) \/ Taken(k)}
           first == CHOOSE k \in ended : \A j \in ended : k <= j
           sale == Sale(bought, series, Unmeasured, stop, hold)
<1>1. prices = joined
  <2>1. days = hold
      OBVIOUS
  <2> HIDE DEF days
  <2> QED BY <2>1
<1>2. sale = IF bought <= 0 \/ prices = << >> THEN NoSale
             ELSE IF ended = {}
             THEN [reason |-> "close", at |-> Len(prices),
                   rate |-> RateOf(prices[Len(prices)], bought)]
             ELSE IF Stopped(first) THEN [reason |-> "stop_loss", at |-> first, rate |-> stop]
             ELSE [reason |-> "take_profit", at |-> first, rate |-> Unmeasured]
    BY DEF Sale
<1>3. prices \in Seq(Int)
    BY <1>1
<1> HIDE DEF prices, joined, sale
<1>4. ASSUME NEW k \in 1 .. Len(prices), k \notin ended
      PROVE  RateOf(prices[k], bought) >= stop
  <2>1. prices[k] \in Int
      BY <1>3
  <2>2. Gain(k) \in Int /\ Gain(k) > stop * bought
      BY <1>3, <1>4, <2>1
  <2> QED BY <2>2, RateAbove DEF RateOf
<1>5. CASE prices = << >>
    BY <1>1, <1>2, <1>5 DEF sale, joined
<1>6. CASE prices # << >> /\ ended = {}
  <2>1. Len(prices) \in 1 .. Len(prices)
      BY <1>3, <1>6
  <2>2. sale.rate = RateOf(prices[Len(prices)], bought) /\ sale.at = Len(prices)
      BY <1>2, <1>6
  <2>3. \A k \in 1 .. Len(prices) : k \notin ended
      BY <1>6
  <2> HIDE DEF ended
  <2>4. \A k \in 1 .. Len(prices) : RateOf(prices[k], bought) >= stop
      BY <1>4, <2>3
  <2>5. \A k \in 1 .. sale.at - 1 : k \in 1 .. Len(prices)
      BY <2>1, <2>2
  <2>6. sale.rate >= stop /\ \A k \in 1 .. sale.at - 1 : RateOf(prices[k], bought) >= stop
      BY <2>1, <2>2, <2>4, <2>5
  <2> QED BY <1>1, <2>2, <2>6 DEF sale, joined
<1>7. CASE prices # << >> /\ ended # {}
  <2>1. ended \subseteq Nat /\ DOMAIN prices = 1 .. Len(prices)
      BY <1>3
  <2> HIDE DEF ended
  <2>2. first \in ended /\ \A j \in ended : first <= j
      BY <1>7, <2>1, LeastNumber
  <2>3. Stopped(first)
      BY <2>2 DEF ended
  <2>4. sale = [reason |-> "stop_loss", at |-> first, rate |-> stop]
      BY <1>2, <1>7, <2>3
  <2>5. first \in 1 .. Len(prices)
      BY <2>1, <2>2 DEF ended
  <2> HIDE DEF first
  <2>6. \A k \in 1 .. first - 1 : k \in 1 .. Len(prices) /\ k \notin ended
      BY <1>3, <2>2, <2>5
  <2>7. \A k \in 1 .. sale.at - 1 : RateOf(prices[k], bought) >= stop
      BY <1>4, <2>4, <2>6 DEF ended
  <2> QED BY <1>1, <2>4, <2>7 DEF sale, joined
<1> QED BY <1>5, <1>6, <1>7
=============================================================================

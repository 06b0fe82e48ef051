----------------------------- MODULE CycleJudge -----------------------------
(***************************************************************************)
(* The market cycle of a day: the indicators assembled from the pools, the *)
(* thresholds taken from the days before it, the switch of a long bear     *)
(* market (app/services/cycle_history.py) and the judgement itself         *)
(* (app/services/cycle.py).  No state: operators, and what they promise    *)
(* as formulas over bounded inputs.                                        *)
(*                                                                         *)
(* Rates are integers, Unit standing for 1; Unit has many divisors, so     *)
(* that the rates of small pools are exact.  Thresholds are multiples of   *)
(* 1 / Scale, as the quantiles interpolate.  The index is not collected.   *)
(***************************************************************************)
EXTENDS Integers, Sequences, FiniteSets, FiniteSetsExt, TLC

Unit == 2520
Scale == 1000
Missing == -1
Known(x) == x # Missing
Percent(x) == (x * Unit) \div 100

-----------------------------------------------------------------------------
(* One day. *)

Without(pool) == {s \in pool : ~s.st}
Codes(pool) == {s.code : s \in pool}
ShareOf(part, whole) == IF whole = 0 THEN Missing ELSE (part * Unit) \div whole
BoardsOf(pool) == {0} \cup {s.boards : s \in pool}

\* The most boards, then the most money at the limit.
LeaderOf(pool) ==
    CHOOSE s \in pool : \A o \in pool :
        s.boards > o.boards \/ (s.boards = o.boards /\ s.seal >= o.seal)

\* _assemble_day: what is judged leaves ST securities out, what the switch
\* counts does not.
AssembleDay(day) ==
    LET ups == Without(day.ups)
        broken == Without(day.broken)
        before == Codes(Without(day.yesterday))
    IN [temp |-> day.temp,
        up |-> Cardinality(ups),
        down |-> Cardinality(Without(day.downs)),
        br |-> ShareOf(Cardinality(broken), Cardinality(ups) + Cardinality(broken)),
        promo |-> ShareOf(Cardinality(before \cap Codes(ups)), Cardinality(before)),
        height |-> Max(BoardsOf(ups)),
        leaderDown |-> ups # {} /\ LeaderOf(ups).code \in Codes(Without(day.downs)),
        rawUps |-> Cardinality(day.ups),
        rawHeight |-> Max(BoardsOf(day.ups))]

-----------------------------------------------------------------------------
(* Thresholds. *)

\* rolling_quantile of an ascending sequence, p in thousandths; times Scale.
Quantile(values, p) ==
    LET pos == p * (Len(values) - 1)
        lo == pos \div Scale + 1
        hi == IF lo < Len(values) THEN lo + 1 ELSE lo
    IN values[lo] * Scale + (values[hi] - values[lo]) * (pos % Scale)

BaseThresholds == [divergence |-> Percent(15) * Scale, retreat |-> Percent(25) * Scale,
                   height |-> 5 * Scale, ice |-> 30 * Scale]

\* dynamic_thresholds: the days before, each field on its own.
ThresholdsFrom(history, p) ==
    LET n == Len(history)
        window == SubSeq(history, IF n > p.window THEN n - p.window + 1 ELSE 1, n)
        Ascending(F(_)) == SortSeq(SelectSeq([i \in DOMAIN window |-> F(window[i])], Known), <)
        At(F(_), anchor, fixed) ==
            IF Ascending(F) = <<>> THEN fixed ELSE Quantile(Ascending(F), anchor)
        promo(d) == d.promo  height(d) == d.height  up(d) == d.up
    IN IF n < p.fewest THEN BaseThresholds
       ELSE [divergence |-> At(promo, 152, BaseThresholds.divergence),
             retreat |-> At(promo, 737, BaseThresholds.retreat),
             height |-> At(height, 626, BaseThresholds.height),
             ice |-> At(up, 103, BaseThresholds.ice)]

-----------------------------------------------------------------------------
(* The switch of the long bear. *)

\* Both means of the window that ends with day i lie under their bounds.
IsCold(days, i, p) ==
    LET from == IF i > p.window THEN i - p.window + 1 ELSE 1
        Total(F(_)) == MapThenSumSet(F, from .. i)
    IN /\ Total(LAMBDA k : days[k].rawHeight) < p.boards * (i - from + 1)
       /\ Total(LAMBDA k : days[k].rawUps) < p.ups * (i - from + 1)

\* bear_switch_state.
BearSwitch(days, p) ==
    LET run[i \in 0 .. Len(days)] ==
          IF i = 0 THEN [open |-> FALSE, sat |-> 0, unsat |-> 0]
          ELSE LET was == run[i - 1] IN
               IF i < p.fewest THEN was
               ELSE IF IsCold(days, i, p)
               THEN [open |-> was.open \/ was.sat + 1 >= p.opens,
                     sat |-> was.sat + 1, unsat |-> 0]
               ELSE [open |-> was.open /\ was.unsat + 1 < p.closes,
                     sat |-> 0, unsat |-> was.unsat + 1]
    IN run[Len(days)].open

\* _load_history and build_indicators: the last days only, today among them.
LoadedDays(days, p) ==
    SubSeq(days, IF Len(days) > p.history THEN Len(days) - p.history + 1 ELSE 1, Len(days))

-----------------------------------------------------------------------------
(* classify. *)

BlackSwan(d) == d.down >= 100
HighBreak(d) == d.br >= Percent(35)
WeakAlongside(d, th) ==
    \/ Known(d.promo) /\ d.promo * Scale < th.retreat
    \/ d.down >= 50

Retreats(d, th) ==
    \/ BlackSwan(d)
    \/ HighBreak(d) /\ WeakAlongside(d, th)
    \/ d.down >= 50
    \/ d.leaderDown
    \/ Known(d.temp) /\ d.temp < 25

Diverges(d, th) ==
    \/ d.br >= Percent(25)
    \/ Known(d.promo) /\ d.promo * Scale < th.divergence

Freezes(d, th) ==
    /\ Known(d.temp) /\ d.temp < 30
    /\ d.down >= 30 \/ d.up * Scale < th.ice

Accelerates(d, th) ==
    /\ d.temp >= 60
    /\ Known(d.promo) /\ d.promo >= Percent(25)
    /\ d.height * Scale >= th.height

Repairs(d) ==
    /\ d.temp \in 30 .. 60 /\ d.up >= 40
    /\ Known(d.br) /\ d.br < Percent(25)

\* The first rule that applies; what meets no standard diverges.
StateOf(d, th) ==
    IF Retreats(d, th) THEN "retreat"
    ELSE IF Diverges(d, th) THEN "diverge"
    ELSE IF Freezes(d, th) THEN "ice"
    ELSE IF Accelerates(d, th) THEN "accel"
    ELSE IF Repairs(d) THEN "repair" ELSE "diverge"

\* A day that retreats, diverges by a rule or freezes is returned before it can
\* be marked as overheated.
Classify(d, th, before) ==
    LET state == StateOf(d, th)
        early == Retreats(d, th) \/ Diverges(d, th) \/ Freezes(d, th)
    IN [state |-> state,
        overheated |-> ~early /\ d.temp >= 75 /\ d.height >= 6,
        confirm |-> state \in {"repair", "accel"} /\ before # state,
        degraded |-> Missing \in {d.temp, d.br, d.promo}]

\* _position_factor: the smallest that any strategy declares for the state.
PositionFactor(factors, state) == Min({factors[s][state] : s \in DOMAIN factors})

\* CycleService.judge.
JudgeDay(days, p, before) ==
    LET loaded == [i \in DOMAIN LoadedDays(days, p) |-> AssembleDay(LoadedDays(days, p)[i])]
        today == loaded[Len(loaded)]
        earlier == SubSeq(loaded, 1, Len(loaded) - 1)
    IN [judgement |-> Classify(today, ThresholdsFrom(earlier, p), before),
        bear |-> BearSwitch(loaded, p)]

-----------------------------------------------------------------------------
(* What is promised. *)

\* cycle_history.py:9-11: the switch is open if some run of cold days was long
\* enough and no run of other days since was.
SwitchIsHysteresis(Days, p) ==
    \A days \in Days :
        LET Stretch(i, n, cold) == /\ i - n + 1 >= p.fewest
                                   /\ \A k \in i - n + 1 .. i : IsCold(days, k, p) = cold
        IN BearSwitch(days, p) <=>
             \E i \in DOMAIN days : /\ Stretch(i, p.opens, TRUE)
                                    /\ \A j \in i + 1 .. Len(days) : ~Stretch(j, p.closes, FALSE)

\* cycle_history.py:44: the days that are loaded are to cover the switch; they do
\* not when it was opened before them and nothing has closed it since.
SwitchForgets(Days, p) ==
    \E days \in Days : BearSwitch(days, p) /\ ~BearSwitch(LoadedDays(days, p), p)

\* cycle_history.py:73: a quantile lies among the values, and grows with p.
QuantilesAreOrdered(Sequence, Anchors) ==
    \A s \in Sequence :
        /\ \A p \in Anchors : Quantile(s, p) \in s[1] * Scale .. s[Len(s)] * Scale
        /\ \A p, q \in Anchors : p <= q => Quantile(s, p) <= Quantile(s, q)

\* cycle.py:171: a day judged to accelerate or to repair has none of the signs of
\* the rules before it, although the rule itself asks for few of them.
GoodDaysHaveNoBadSigns(Days, th) ==
    \A d \in Days :
        StateOf(d, th) \in {"accel", "repair"} =>
            /\ d.down < 50 /\ ~d.leaderDown
            /\ d.br < Percent(25)
            /\ Known(d.promo) => d.promo * Scale >= th.divergence
            /\ Known(d.temp) /\ d.temp >= 30

Rank(state) == CASE state = "retreat" -> 0 [] state = "ice" -> 1
                 [] state = "diverge" -> 2 [] state = "repair" -> 3 [] state = "accel" -> 4

\* y is d but for more broken boards, fewer promotions or more limit-downs.
IsWorse(d, y) ==
    /\ y = [d EXCEPT !.br = y.br, !.promo = y.promo, !.down = y.down]
    /\ Known(d.br) = Known(y.br) /\ Known(d.promo) = Known(y.promo)
    /\ y.br >= d.br /\ y.promo <= d.promo /\ y.down >= d.down

\* cycle.py:171 "safety first": a worse day of the same temperature is not judged
\* better, except that divergence comes before ice.
WorseIsNotBetter(Days, th) ==
    \A d \in Days, y \in Days :
        IsWorse(d, y) =>
            \/ Rank(StateOf(y, th)) <= Rank(StateOf(d, th))
            \/ StateOf(d, th) = "ice" /\ StateOf(y, th) = "diverge"

\* The exception exists: more broken boards turn a day without buying into one
\* with.
IceYieldsToDivergence(Days, th, factors) ==
    \E d \in Days, y \in Days :
        /\ IsWorse(d, y)
        /\ PositionFactor(factors, StateOf(d, th)) = 0
        /\ PositionFactor(factors, StateOf(y, th)) > 0

\* cycle_history.py:13: securities under ST change no judgement, neither as the
\* day's own nor through the thresholds; they do count for the switch.
StIsIgnored(Sequences, p) ==
    \A days \in Sequences :
        LET clean == [i \in DOMAIN days |->
                [days[i] EXCEPT !.ups = Without(@), !.downs = Without(@),
                                !.broken = Without(@), !.yesterday = Without(@)]]
        IN JudgeDay(days, p, "ice").judgement = JudgeDay(clean, p, "ice").judgement

\* cycle.py:78, 231: the leader is one of the day's limit-ups, so that it never
\* counts as fallen while no security is in both pools.
LeaderNeverFalls(Days) ==
    \A day \in Days : Codes(day.ups) \cap Codes(day.downs) = {} => ~AssembleDay(day).leaderDown
=============================================================================

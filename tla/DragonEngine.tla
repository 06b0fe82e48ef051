---------------------------- MODULE DragonEngine ----------------------------
(***************************************************************************)
(* The dragon strategy on a sample: gates, bonuses and position of its two *)
(* paths (app/strategies/plugins/dragon), the sell rule, and the portfolio *)
(* of a backtest with its segments (app/engine/portfolio.py, sell_rules.py,*)
(* segments.py, backtest.py).  No state: operators, and formulas about     *)
(* them that TLC evaluates.                                                *)
(*                                                                         *)
(* Prices are integers, rates are basis points and positions per cent of   *)
(* the capital, rounded where the code has a float.  A sample is a record  *)
(*   [code, D, T, T1 : days, openT, openT1 : prices, pricesT1, pricesT2 :  *)
(*    sequences of minute prices, shape, amp, tOpen, tVolume, tClose,      *)
(*    lowTime, boards], with Unmeasured for a missing number.             *)
(***************************************************************************)
EXTENDS Integers, Sequences, FiniteSets, FiniteSetsExt, SequencesExt

Unmeasured == -1000000

AtLeast(value, bound) == value # Unmeasured /\ value >= bound
AtMost(value, bound) == value # Unmeasured /\ value <= bound
InBand(value, low, high) == value # Unmeasured /\ low <= value /\ value < high

----------------------------------------------------------------------------
(* Gates and bonuses; f holds the thresholds, which are factor parameters. *)

S2Gates(s, f) ==
    /\ s.shape = f.gateShape
    /\ AtLeast(s.amp, f.minAmplitude)
    /\ AtMost(s.tOpen, f.panicOpen)

S4Gates(s, f) ==
    /\ s.tVolume # Unmeasured /\ s.tVolume < f.gateRatio
    /\ AtLeast(s.amp, f.minAmplitude)

\* The bonuses of S4 that a sample satisfies; those of S2 are only displayed.
S4Bonus(s, f) ==
    {b \in 1 .. 6 :
        \/ b = 1 /\ InBand(s.tOpen, f.bonusLow, f.bonusHigh)
        \/ b = 2 /\ s.shape = "late dive"
        \/ b = 3 /\ s.shape = "rush and fade"
        \/ b = 4 /\ AtLeast(s.lowTime, f.bonusTime)
        \/ b = 5 /\ AtLeast(s.tClose, f.closeLow)
        \/ b = 6 /\ InBand(s.lowTime, f.midTime, f.bonusTime)}

Paths == <<"S2", "S4">>     \* in the order of their priority

Gates(path, s, f) == IF path = "S2" THEN S2Gates(s, f) ELSE S4Gates(s, f)

PositionOf(path, s, f, scaled) ==
    LET raised == (f.base * (10000 + f.step * Cardinality(S4Bonus(s, f)))) \div 10000
        bound == (f.base * f.factor) \div 100
    IN  IF path = "S2" \/ ~scaled THEN f.base
        ELSE IF raised < bound THEN raised ELSE bound

BuyDay(path, s) == IF path = "S2" THEN s.T ELSE s.T1
BuyPrice(path, s) == IF path = "S2" THEN s.openT ELSE s.openT1
SellableSeries(path, s) ==
    IF path = "S2" THEN <<s.pricesT1, s.pricesT2>> ELSE <<s.pricesT2>>

----------------------------------------------------------------------------
(* sell_rules.evaluate *)

NoSale == [reason |-> "none", at |-> 0, rate |-> 0]

RateOf(price, bought) == ((price - bought) * 10000) \div bought

\* take = Unmeasured is a rule without a take-profit bound, stop likewise.
Sale(bought, series, take, stop, hold) ==
    LET days == IF hold > 1 THEN hold ELSE 1
        held == SubSeq(series, 1, IF days < Len(series) THEN days ELSE Len(series))
        prices == FlattenSeq(held)
        Gain(k) == (prices[k] - bought) * 10000
        Stopped(k) == stop # Unmeasured /\ Gain(k) <= stop * bought
        Taken(k) == take # Unmeasured /\ Gain(k) >= take * bought
        ended == {k \in DOMAIN prices : Stopped(k) \/ Taken(k)}
        first == CHOOSE k \in ended : \A j \in ended : k <= j
    IN  IF bought <= 0 \/ prices = << >> THEN NoSale
        ELSE IF ended = {}
        THEN [reason |-> "close", at |-> Len(prices),
              rate |-> RateOf(prices[Len(prices)], bought)]
        ELSE IF Stopped(first) THEN [reason |-> "stop_loss", at |-> first, rate |-> stop]
        ELSE [reason |-> "take_profit", at |-> first, rate |-> take]

DefaultStop == -300
DefaultHold == 1

PathSale(path, s, stop, hold) ==
    Sale(BuyPrice(path, s), SellableSeries(path, s), Unmeasured, stop, hold)

----------------------------------------------------------------------------
(* Advice on a sample: the first path that matches and can be carried out. *)

\* evaluate_path is called without the strategy's own step, stop and hold.
Offers(s, f, requireSell) ==
    {path \in {"S2", "S4"} :
        /\ Gates(path, s, f)
        /\ requireSell => PathSale(path, s, DefaultStop, DefaultHold) # NoSale
        /\ BuyPrice(path, s) # Unmeasured}

Advised(s, f, requireSell) ==
    LET offers == Offers(s, f, requireSell)
        path == IF "S2" \in offers THEN "S2" ELSE "S4"
    IN  IF offers = {} THEN {}
        ELSE {[code |-> s.code, path |-> path, day |-> BuyDay(path, s),
               price |-> BuyPrice(path, s),
               position |-> PositionOf(path, s, [f EXCEPT !.step = 2500], TRUE)]}

TotalOf(advices) == MapThenSumSet(LAMBDA a : a.position, advices)

\* _cap_positions: all advice of a batch together, whatever its day.
Capped(advices, cap) ==
    LET total == TotalOf(advices)
    IN  IF total <= cap THEN advices
        ELSE {[a EXCEPT !.position = (@ * cap) \div total] : a \in advices}

----------------------------------------------------------------------------
(* portfolio.sim *)

\* A sample is bought once, on the first path that matches and can be sold.
Trades(samples, f, cfg) ==
    UNION {LET offers == {path \in {"S2", "S4"} :
                            /\ Gates(path, s, f)
                            /\ PathSale(path, s, cfg.stop, cfg.hold) # NoSale}
               path == IF "S2" \in offers THEN "S2" ELSE "S4"
           IN  IF offers = {} THEN {}
               ELSE {[code |-> s.code, D |-> s.D, day |-> BuyDay(path, s),
                      position |-> PositionOf(path, s, f, cfg.scaled),
                      rate |-> PathSale(path, s, cfg.stop, cfg.hold).rate]} :
           s \in samples}

OnDay(trades, d) == {t \in trades : t.day = d}
Usage(trades, d, cap) ==
    LET total == TotalOf(OnDay(trades, d)) IN IF total > cap THEN cap ELSE total

\* The positions of a day are scaled down together when they exceed the cap.
DayRate(trades, d, cap) ==
    LET total == TotalOf(OnDay(trades, d))
        sum == MapThenSumSet(LAMBDA t : t.position * t.rate, OnDay(trades, d))
    IN  IF total > cap THEN (sum * cap) \div (total * 100) ELSE sum \div 100

\* equity, its peak and the deepest fall below the peak, day by day.
AfterDay(e, rate) ==
    LET now == (e.equity * (10000 + rate)) \div 10000
        peak == IF now > e.peak THEN now ELSE e.peak
        fall == (now * 10000) \div peak - 10000
    IN  [equity |-> now, peak |-> peak,
         drawdown |-> IF fall < e.drawdown THEN fall ELSE e.drawdown]

Simulated(samples, f, cfg) ==
    LET trades == Trades(samples, f, cfg)
        days == SetToSortSeq({t.day : t \in trades}, <)
        rates == [i \in DOMAIN days |-> DayRate(trades, days[i], cfg.cap)]
        last == FoldLeft(AfterDay, [equity |-> 10000, peak |-> 10000, drawdown |-> 0], rates)
    IN  [triggers |-> Cardinality(trades), days |-> days, rates |-> rates,
         usage |-> [i \in DOMAIN days |-> Usage(trades, days[i], cfg.cap)],
         gain |-> last.equity - 10000, drawdown |-> last.drawdown,
         wins |-> Cardinality({i \in DOMAIN rates : rates[i] > 0})]

----------------------------------------------------------------------------
(* segments.py *)

\* The middle record, by rank, of the days before the upper cut.
MedianCut(samples, upper) ==
    LET early == {s \in samples : s.D < upper}
        Before(s) == Cardinality({r \in early : r.D < s.D \/ (r.D = s.D /\ r.code < s.code)})
    IN  IF early = {} THEN upper
        ELSE (CHOOSE s \in early : Before(s) = Cardinality(early) \div 2).D

SegmentNames == {"A", "B", "C"}
SegmentOf(day, cuts) ==
    IF day < cuts[1] THEN "A" ELSE IF day < cuts[2] THEN "B" ELSE "C"

Segment(name, samples, cuts) ==
    {s \in samples : CASE name = "A" -> s.D < cuts[1]
                       [] name = "B" -> cuts[1] <= s.D /\ s.D < cuts[2]
                       [] name = "C" -> cuts[2] <= s.D}

\* The parameters of a requested backtest reach the gates, the base position and
\* its bound; the cap, the step, the stop and the days of holding stay defaults.
BacktestConfig(scaled) ==
    [cap |-> 80, scaled |-> scaled, stop |-> DefaultStop, hold |-> DefaultHold]

BacktestOf(samples, f, cuts) ==
    [name \in SegmentNames |->
        Simulated(Segment(name, samples, cuts), [f EXCEPT !.step = 2500],
                  BacktestConfig(TRUE))]

----------------------------------------------------------------------------
(* What the engine promises, over a finite set of samples. *)

\* sell_rules.py: no trade ends below its stop, and one that does not stop ends
\* at the last price of the days it was to be held.
SalesAreBounded(bought, seriesSet, stop, hold) ==
    \A series \in seriesSet :
        LET sale == Sale(bought, series, Unmeasured, stop, hold)
            held == FlattenSeq(SubSeq(series, 1, IF hold < Len(series) THEN hold ELSE Len(series)))
        IN  \/ sale = NoSale /\ held = << >>
            \/ /\ sale.rate >= stop
               /\ sale.at = Len(held) \/ sale.reason = "stop_loss"
               /\ \A k \in 1 .. sale.at - 1 : RateOf(held[k], bought) >= stop

\* portfolio.py: each sample is traded at most once, on one path, and the
\* positions of a day never exceed the cap.
PortfolioIsCapped(samples, f, cfg) ==
    LET trades == Trades(samples, f, cfg)
        result == Simulated(samples, f, cfg)
    IN  /\ \A s \in samples :
            Cardinality({t \in trades : t.code = s.code /\ t.D = s.D}) <= 1
        /\ \A i \in DOMAIN result.days :
            /\ result.usage[i] <= cfg.cap
            /\ result.rates[i] >= (cfg.cap * cfg.stop) \div 100

\* bonus.py: two of the six bonuses of S4 exclude each other.
BonusesExclude(samples, f) == \A s \in samples : ~({4, 6} \subseteq S4Bonus(s, f))

\* segments.py: the segments do not overlap, miss no sample, and are those of
\* segment_of.
SegmentsPart(samples, cuts) ==
    \A s \in samples : \A name \in SegmentNames :
        s \in Segment(name, samples, cuts) <=> SegmentOf(s.D, cuts) = name

=============================================================================

----------------------------- MODULE BoardRules -----------------------------
(***************************************************************************)
(* The rules by which the strategies of app/strategies/plugins and the     *)
(* sample builder of app/engine choose securities from daily bars, minute  *)
(* prices and the prices of the opening auction.  No state: operators over *)
(* one security, and what they promise, stated as formulas over a finite   *)
(* set of histories, which TLC evaluates.                                  *)
(*                                                                         *)
(* Prices are integers.  A percentage is compared in basis points, by      *)
(* multiplication; a missing price or previous close is 0.  Float rounding *)
(* at a threshold is abstracted away.  Sequences start at 1 here and at 0  *)
(* in the code.                                                            *)
(***************************************************************************)
EXTENDS Integers, Sequences, FiniteSets

LimitUpPoints == 980        \* plugins: a limit-up of the main board
OneWordPoints == 989        \* lianban: open and low at the limit
DragonUpPoints == 950       \* dragon_bars._LIMIT_UP_PCT
MoveBound == 1050           \* guards.MAX_DAY_MOVE and the suspect days

Distance(a, b) == IF a < b THEN b - a ELSE a - b
Lowest(S) == CHOOSE x \in S : \A y \in S : x <= y
Highest(S) == CHOOSE x \in S : \A y \in S : y <= x

RisesBy(price, base, points) ==
    base > 0 /\ (price - base) * 10000 >= points * base

SuspectMove(price, base) ==
    price <= 0 \/ base <= 0 \/ Distance(price, base) * 10000 > MoveBound * base

\* The previous close of a bar is filled from the bar before it, if it is missing.
WithPreClose(bars) ==
    [i \in DOMAIN bars |->
        [bars[i] EXCEPT !.pre = IF @ > 0 \/ i = 1 THEN @ ELSE bars[i - 1].close]]

Ups(bars, points) == {i \in DOMAIN bars : RisesBy(bars[i].close, bars[i].pre, points)}

SuspectDays(bars) ==
    {i \in DOMAIN bars : bars[i].pre > 0 /\ Distance(bars[i].close, bars[i].pre) * 10000
                                                > MoveBound * bars[i].pre}

----------------------------------------------------------------------------
(* lianban_a *)

\* Runs of at least two limit-ups within lo .. hi.
WavesIn(up, lo, hi) ==
    {w \in (lo .. hi) \X (lo .. hi) :
        /\ w[1] < w[2]
        /\ w[1] .. w[2] \subseteq up
        /\ w[1] = lo \/ w[1] - 1 \notin up
        /\ w[2] = hi \/ w[2] + 1 \notin up}

\* The wave is extended backwards from the last bar, which is not looked at.
WaveBackFrom(up, lo, last) ==
    CHOOSE s \in lo .. last :
        /\ s .. (last - 1) \subseteq up
        /\ s = lo \/ s - 1 \notin up

StructureHolds(raw, boards, p) ==
    LET bars == WithPreClose(raw)
        last == Len(bars)
        lo == IF last > p.window THEN last - p.window + 1 ELSE 1
        up == Ups(bars, LimitUpPoints)
        s == WaveBackFrom(up, lo, last)
        oneWord == {k \in up : /\ RisesBy(bars[k].open, bars[k].pre, OneWordPoints)
                               /\ RisesBy(bars[k].low, bars[k].pre, OneWordPoints)}
        low == Lowest({bars[k].low : k \in {j \in lo .. last : j > last - p.lowWindow}})
        base == bars[s - 1].volume
    IN  /\ last - lo + 1 >= p.fewest
        /\ SuspectDays(bars) \cap (lo .. last) = {}
        /\ last - s + 1 = boards
        /\ \A w \in WavesIn(up, lo, last) : w[2] = last \/ s - w[2] > p.lookback
        /\ s > 1
        /\ base > 0
        /\ ~ /\ boards = 3
             /\ bars[s].volume * 10 <= base * 12
             /\ {s + 1, s + 2} \subseteq oneWord
             /\ \A k \in {s + 1, s + 2} : bars[k].volume * 10 <= bars[s].volume
        /\ \A k \in s .. last : bars[k].volume >= base
        /\ bars[s].volume * 10 >= p.ratio * base
        /\ low > 0
        /\ bars[s - 1].open * 100 < p.position * low

\* A row of the limit-up pool of the signal day becomes a candidate.
LianbanCandidate(row, bars, day, p) ==
    /\ row.boards \in {2, 3}
    /\ row.main
    /\ ~row.st
    /\ bars # << >>
    /\ bars[Len(bars)].day = day
    /\ StructureHolds(bars, row.boards, p)
    /\ bars[Len(bars)].close > 0

\* Too many limit-downs among yesterday's waves: no advice of the strategy today.
AuctionVetoed(waves, price, close, downPoints, most) ==
    Cardinality({c \in waves : /\ price[c] > 0 /\ close[c] > 0
                               /\ (price[c] - close[c]) * 10000 <= downPoints * close[c]})
        > most

LianbanAdvised(price, close, openPoints) ==
    /\ price > 0 /\ close > 0
    /\ ~SuspectMove(price, close)
    /\ (price - close) * 10000 <= openPoints * close

----------------------------------------------------------------------------
(* firstboard_dip *)

\* The range of days before the board is not clipped: an index below zero wraps
\* around to the end of the list, where the board itself is, or is out of range.
QuietBefore(up, b, quiet) ==
    /\ quiet < b
    /\ up \cap ((b - quiet) .. (b - 1)) = {}

QuietRaises(b, quiet) == quiet > 2 * b - 1

FirstBoard(raw, p) ==
    LET bars == WithPreClose(raw)
        b == Len(bars)
        up == Ups(bars, LimitUpPoints)
        days == (b - p.window) .. b
        hi == Highest({bars[k].high : k \in days})
        lo == Lowest({bars[k].low : k \in days})
    IN  /\ SuspectDays(bars) = {}
        /\ b > 1 /\ b \in up /\ b - 1 \notin up
        /\ b > p.window
        /\ QuietBefore(up, b, p.quiet)
        /\ hi > lo
        /\ (bars[b].close - lo) * 100 <= p.position * (hi - lo)

DipAdvised(price, close, p) ==
    /\ ~SuspectMove(price, close)
    /\ (price - close) * 10000 >= p.dipLow * close
    /\ (price - close) * 10000 <= p.dipHigh * close

----------------------------------------------------------------------------
(* auction_grab *)

AuctionSignal(p920, p925, preClose, p) ==
    /\ p920 > 0 /\ p925 > 0 /\ preClose > 0
    /\ p920 < preClose
    /\ RisesBy(p925, p920, p.minRise)
    /\ ~RisesBy(p925, preClose, p.maxChange)

AuctionHit(p920, p925, preClose, p) ==
    /\ ~SuspectMove(p925, preClose)
    /\ ~SuspectMove(p920, preClose)
    /\ AuctionSignal(p920, p925, preClose, p)

\* The hits with the largest amounts; equal amounts in the order of their codes.
AuctionPicks(hits, limit) ==
    {h \in hits :
        Cardinality({g \in hits : \/ g.amount > h.amount
                                  \/ g.amount = h.amount /\ g.code < h.code}) < limit}

----------------------------------------------------------------------------
(* dragon: samples *)

\* A day of the calendar between two bars parts them; {} is a missing calendar.
AdjacentDays(before, after, dates) ==
    {d \in dates : before < d /\ d < after} = {}

Consecutive(bars, dates) ==
    {i \in 2 .. Len(bars) : AdjacentDays(bars[i - 1].day, bars[i].day, dates)}

\* The first bar of the wave of limit-ups before bar i; i, if there is none.
WaveStart(bars, i, dates) ==
    LET InWave(k) == /\ k \in Ups(bars, DragonUpPoints)
                     /\ k = i - 1 \/ k + 1 \in Consecutive(bars, dates)
    IN  CHOOSE s \in 1 .. i :
            /\ \A k \in s .. (i - 1) : InWave(k)
            /\ s = 1 \/ ~InWave(s - 1)

\* _scan_code, _wave_start_for: a falling bar next to the end of a wave.
IsFirstYin(bars, i, dates, minBoards) ==
    /\ i \in Consecutive(bars, dates)
    /\ bars[i].close < bars[i].open
    /\ i - WaveStart(bars, i, dates) >= minBoards

\* Three boards, the last two of them at the limit all day on a vanishing volume.
ThreeBoardGroup(bars, i, dates) ==
    LET s == WaveStart(bars, i, dates)
        pre == s > 1 /\ s \in Consecutive(bars, dates)
    IN  /\ i - s = 3
        /\ \A k \in {s + 1, s + 2} : /\ bars[k].low >= bars[k].close
                                     /\ bars[k].volume * 10 <= bars[s].volume
        /\ pre => bars[s].volume * 10 <= bars[s - 1].volume * 12

\* build_samples on one security; the bars after the first yin may be pending.
SampledYins(raw, minutes, dates, from, to, minBoards, pending) ==
    LET bars == WithPreClose(raw)
    IN  IF SuspectDays(bars) # {} THEN {}
        ELSE {i \in DOMAIN bars :
                /\ IsFirstYin(bars, i, dates, minBoards)
                /\ bars[i].day \in from .. to
                /\ bars[i].pre > 0
                /\ bars[i].day \in minutes
                /\ pending \/ i + 2 <= Len(bars)
                /\ ~ThreeBoardGroup(bars, i, dates)}

\* dragon_opening: the same for one first yin before today's bar is there.  The
\* bars come from the table as they are: previous closes are not filled in.
OpeningYins(bars, minutes, dates, today, price) ==
    LET past == {d \in dates : d < today}
        y1 == Highest(past)
        y2 == Highest(past \ {y1})
    IN  IF \/ Cardinality(past) < 2 \/ bars = << >>
           \/ SuspectDays(bars) # {}
           \/ SuspectMove(price, bars[Len(bars)].close)
        THEN {}
        ELSE {i \in DOMAIN bars :
                /\ bars[i].day \in {y1, y2}
                /\ bars[i].day = y2 => i < Len(bars)
                /\ IsFirstYin(bars, i, dates, 2)
                /\ bars[i].pre > 0
                /\ bars[i].day \in minutes
                /\ ~ThreeBoardGroup(bars, i, dates)}

\* classify_shape: the form of the minute prices of the first yin.
ShapeOf(prices, pre, w) ==
    LET n == Len(prices)
        at == {prices[k] : k \in 1 .. n}
        low == Lowest(at)
        high == Highest(at)
        lowAt == Lowest({k \in 1 .. n : prices[k] = low})
        highAt == Lowest({k \in 1 .. n : prices[k] = high})
        atLow == high > low /\ (prices[n] - low) * 10 <= 3 * (high - low)
        mid == prices[IF n > w.mid THEN w.mid + 1 ELSE n \div 2 + 1]
    IN  CASE n = 0 \/ pre <= 0 -> "falling"
          [] n > 0 /\ pre > 0 /\ lowAt > w.late
               /\ (mid - prices[n]) * 100 >= 3 * pre /\ atLow -> "late dive"
          [] OTHER ->
               IF highAt <= w.early /\ atLow THEN "rush and fade"
               ELSE IF lowAt <= w.early /\ atLow THEN "early dive"
               ELSE IF atLow /\ (high - low) * 100 <= 3 * pre THEN "low and flat"
               ELSE "falling"

----------------------------------------------------------------------------
(* What the rules promise, over a finite set of histories.                 *)

\* firstboard_dip: a first board is the only limit-up of the quiet days, and a
\* window of bars precedes it.
FirstBoardsAreFirst(histories, p) ==
    \A h \in histories :
        FirstBoard(h, p) =>
            /\ Len(h) > p.window
            /\ Ups(WithPreClose(h), LimitUpPoints) \cap ((Len(h) - p.quiet) .. Len(h))
                    = {Len(h)}

\* lianban_a: whatever passes is on the first wave of its days.  All its boards are
\* limit-ups; of two boards the last one may not be, it is not looked at.  The wave
\* is whole, unless it fills the window.  And no two limit-ups beside each other
\* end in the days that are looked back over, whatever longer wave they belong to.
StructureIsSound(histories, p) ==
    \A h \in histories, boards \in {2, 3} :
        StructureHolds(h, boards, p) =>
            LET up == Ups(WithPreClose(h), LimitUpPoints)
                last == Len(h)
                s == last - boards + 1
            IN  /\ s .. (last - 1) \subseteq up
                /\ boards = 3 => last \in up
                /\ s - 1 \notin up \/ boards = p.window
                /\ \A k \in 2 .. (s - 1) :
                     k > last - p.window + 1 /\ k >= s - p.lookback =>
                         ~({k - 1, k} \subseteq up)

\* auction_grab: as many picks as there may be, and none is worth less than one
\* that was left out.
PicksAreTheLargest(hits, limit) ==
    LET picks == AuctionPicks(hits, limit)
    IN  /\ Cardinality(picks) = (IF Cardinality(hits) < limit THEN Cardinality(hits)
                                 ELSE limit)
        /\ \A h \in picks, g \in hits \ picks : h.amount >= g.amount

\* dragon: on bars whose previous closes are filled in, the opening phase finds
\* the first yins of the last two days that the samples after the close find.
OpeningAgreesWithSamples(histories, minutes, dates, today) ==
    \A h \in histories :
        LET bars == WithPreClose(h)
            last == bars[Len(bars)].day
        IN  OpeningYins(bars, minutes, dates, today, bars[Len(bars)].close)
              = {i \in SampledYins(bars, minutes, dates, last - 1, last, 2, TRUE) :
                    bars[i].day = last \/ i < Len(bars)}

\* Known divergence: on the bars as they are stored, with no previous close, the
\* opening phase finds nothing (dragon_opening.py does not fill them in).
OpeningIsBlind(histories, minutes, dates, today) ==
    \A h \in histories :
        (\A i \in DOMAIN h : h[i].pre = 0)
            => OpeningYins(h, minutes, dates, today, h[Len(h)].close) = {}

\* Known divergence: a candidate of lianban_a need not be at its limit on the
\* signal day itself (filters.py, the wave is extended from the bar before).
LastBoardIsUnchecked(histories, p) ==
    \E h \in histories :
        /\ StructureHolds(h, 2, p)
        /\ Len(h) \notin Ups(WithPreClose(h), LimitUpPoints)

=============================================================================

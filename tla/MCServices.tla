----------------------------- MODULE MCServices -----------------------------
(***************************************************************************)
(* The parts of the service that meet only in the database, each with its  *)
(* own small instance: one of them runs, the others rest in their initial  *)
(* state.  The pure parts (board rules, dragon engine, factors, market     *)
(* cycle) have no states: what they promise is assumed over bounded        *)
(* inputs, which TLC evaluates.                                            *)
(***************************************************************************)
EXTENDS Accounts, RequestLimits, Assistant, TokenBucket, SourceFailover,
        PoolWriters, BacktestRun, Releases, StrategyPhases, BoardRules,
        DragonEngine, CycleJudge, FactorBands, TLC

CONSTANTS
    hithink, xuangutong   \* two of the real sources

VARIABLE part   \* the one that runs

Part == {"accounts", "login", "registration", "assistant", "bucket", "sources",
         "writers", "backtests", "releases", "phases"}

\* The actors of all parts are the same two values.
ServicesSymmetry == Permutations(Call)

NamedOrdersValue == {<<hithink, xuangutong>>, <<xuangutong, Fake, hithink>>}
JudgementValue == {[state |-> "repair", bear |-> TRUE]}

ASSUME SchemaAssumption

\* Parts that rest do so in one state; accounts begin with one administrator
\* or with two.
ServicesInit ==
    /\ part \in Part
    /\ AccountsInit /\ LimitsInit /\ AssistantInit /\ BucketInit /\ FailoverInit
    /\ WritersInit /\ BacktestInit /\ ReleaseInit /\ PhasesInit
    /\ \/ \A u \in User : Exists(u) <=> u \notin Call
       \/ part = "accounts" /\ \A u \in User : Exists(u) <=> u \in Call
    /\ part # "releases" => \A n \in Release : release <= n

\* The login is followed as long as one of its counters has not been used by two
\* requests at once: nothing is claimed of them after that.
Followed == ~({"hits", "fails"} \subseteq overlapped)

\* Only the running part moves.
Resting_accounts ==
    UNCHANGED <<part, limitsVars, assistantVars, bucketVars, failoverVars,
                writersVars, backtestVars, releaseVars, phasesVars>>
Resting_limits ==
    UNCHANGED <<part, accountsVars, assistantVars, bucketVars, failoverVars,
                writersVars, backtestVars, releaseVars, phasesVars>>
Resting_assistant ==
    UNCHANGED <<part, accountsVars, limitsVars, bucketVars, failoverVars,
                writersVars, backtestVars, releaseVars, phasesVars>>
Resting_bucket ==
    UNCHANGED <<part, accountsVars, limitsVars, assistantVars, failoverVars,
                writersVars, backtestVars, releaseVars, phasesVars>>
Resting_sources ==
    UNCHANGED <<part, accountsVars, limitsVars, assistantVars, bucketVars,
                writersVars, backtestVars, releaseVars, phasesVars>>
Resting_writers ==
    UNCHANGED <<part, accountsVars, limitsVars, assistantVars, bucketVars,
                failoverVars, backtestVars, releaseVars, phasesVars>>
Resting_backtests ==
    UNCHANGED <<part, accountsVars, limitsVars, assistantVars, bucketVars,
                failoverVars, writersVars, releaseVars, phasesVars>>
Resting_releases ==
    UNCHANGED <<part, accountsVars, limitsVars, assistantVars, bucketVars,
                failoverVars, writersVars, backtestVars, phasesVars>>
Resting_phases ==
    UNCHANGED <<part, accountsVars, limitsVars, assistantVars, bucketVars,
                failoverVars, writersVars, backtestVars, releaseVars>>

ServicesNext ==
    \/ part = "accounts" /\ AccountsNext /\ Resting_accounts
    \/ part = "login" /\ Followed /\ ((\E v \in Visitor : Login(v)) \/ Tick)
         /\ Resting_limits
    \/ part = "registration" /\ ((\E v \in Visitor : Registration(v)) \/ Tick)
         /\ Resting_limits
    \/ part = "assistant" /\ AssistantNext /\ Resting_assistant
    \/ part = "bucket" /\ BucketNext /\ Resting_bucket
    \/ part = "sources" /\ FailoverNext /\ Resting_sources
    \/ part = "writers" /\ WritersNext /\ Resting_writers
    \/ part = "backtests" /\ BacktestNext /\ Resting_backtests
    \/ part = "releases" /\ ReleaseNext /\ Resting_releases
    \/ part = "phases" /\ PhasesNext /\ Resting_phases

ServicesSpec ==
    ServicesInit /\ [][ServicesNext]_<<part, accountsVars, limitsVars, assistantVars, bucketVars,
        failoverVars, writersVars, backtestVars, releaseVars, phasesVars>>

\* The variables of the part that runs keep their types; the others are initial.
ServicesTypeOK ==
    /\ part = "accounts" => AccountsTypeOK
    /\ part \in {"login", "registration"} => LimitsTypeOK
    /\ part = "assistant" => AssistantTypeOK
    /\ part = "bucket" => BucketTypeOK
    /\ part = "sources" => FailoverTypeOK
    /\ part = "writers" => WritersTypeOK
    /\ part = "backtests" => BacktestTypeOK
    /\ part = "releases" => ReleaseTypeOK
    /\ part = "phases" => PhasesTypeOK

-----------------------------------------------------------------------------
(* Inputs of the pure parts. *)

\* Four bars of a stock: boards, falls and one open below the high.
Closes == {100, 110, 121, 133, 106}
BarOf(d, c, up, v) ==
    [day |-> d, open |-> IF up THEN c ELSE c + 3, high |-> c + 3,
     low |-> IF up THEN c ELSE c - 1, close |-> c, pre |-> 0, volume |-> v]
Histories ==
    {[i \in 1 .. 4 |-> BarOf(i, cs[i], i # down, vs[i])] :
       cs \in [1 .. 4 -> Closes], down \in {0, 3, 4},
       vs \in {<<10, 20, 30, 40>>, <<10, 12, 1, 1>>, <<30, 10, 20, 9>>}}
StructureParams == [window |-> 4, fewest |-> 3, lookback |-> 2, lowWindow |-> 3,
                    ratio |-> 15, position |-> 115]
\* Seven bars with limit-ups on any of the last six days, at twice the volume.
WaveHistories ==
    {[i \in 1 .. 7 |->
        BarOf(i, <<1000, 1100, 1210, 1331, 1464, 1610, 1771>>[1 + Cardinality({j \in ups : j <= i})],
              TRUE, IF i \in ups THEN 20 ELSE 10)] : ups \in SUBSET (2 .. 7)}
FirstBoardParams == [window |-> 2, quiet |-> 2, position |-> 100]

\* Boards: what the doc strings promise, and the two places where the code
\* does not keep to them.
ASSUME FirstBoardsAreFirst(Histories, FirstBoardParams)
ASSUME StructureIsSound(Histories, StructureParams)
ASSUME \A back \in 0 .. 4 :
         StructureIsSound(WaveHistories, [StructureParams EXCEPT !.window = 6, !.lookback = back])
ASSUME OpeningAgreesWithSamples(Histories, 1 .. 4, 1 .. 6, 5)
ASSUME OpeningIsBlind(Histories, 1 .. 4, 1 .. 6, 5)
ASSUME LastBoardIsUnchecked(Histories, StructureParams)
ASSUME \A found \in SUBSET [code : 1 .. 3, amount : 1 .. 2], n \in 1 .. 3 :
         (\A x, y \in found : x.code = y.code => x = y) => PicksAreTheLargest(found, n)

\* Samples of the dragon engine, in hundredths of a per cent.
DragonFactors == [gateShape |-> "late dive", minAmplitude |-> 800,
                  panicOpen |-> -300, gateRatio |-> 60, bonusLow |-> 0,
                  bonusHigh |-> 300, bonusTime |-> 90, midTime |-> 30,
                  closeLow |-> 0, base |-> 20, factor |-> 150, step |-> 2500]
SampleOf(c, d, sh, tv, lt, p1, p2) ==
    [code |-> c, D |-> d, T |-> d + 1, T1 |-> d + 2, openT |-> 100, openT1 |-> 100,
     pricesT1 |-> p1, pricesT2 |-> p2, shape |-> sh, amp |-> 900, tOpen |-> -400,
     tVolume |-> tv, tClose |-> 100, lowTime |-> lt, boards |-> 2]
SalePrices == {<< >>, <<100, 96>>, <<104, 99>>}
Samples == {SampleOf(1, d, sh, tv, lt, p1, p2) :
              d \in 1 .. 2, sh \in {"late dive", "falling"}, tv \in {50, 70},
              lt \in {Unmeasured, 40, 95}, p1 \in SalePrices, p2 \in SalePrices}
Batch(n) == {SampleOf(c, d, "late dive", 50, 95, <<104, 99>>, <<100, 96>>) :
               c \in 1 .. n, d \in 1 .. 2}
PortfolioParams == [cap |-> 80, scaled |-> TRUE, stop |-> -300, hold |-> 1]

\* Dragon engine: sales, positions, bonuses, segments.
ASSUME BonusesExclude(Samples, DragonFactors)
ASSUME \A n \in 1 .. 6 : PortfolioIsCapped(Batch(n), DragonFactors, PortfolioParams)
ASSUME \A s, r \in Samples : r.D # s.D =>
         PortfolioIsCapped({s, r}, DragonFactors, [PortfolioParams EXCEPT !.cap = 30])
ASSUME \A h \in 1 .. 2 : SalesAreBounded(100, SalePrices \X SalePrices, -300, h)
ASSUME \A cuts \in (0 .. 3) \X (0 .. 3) :
         cuts[1] <= cuts[2] => SegmentsPart(Samples, cuts)

\* Market cycle: a window of two days and streaks of two and three; judged days
\* with each indicator on both sides of each line; pools of two securities.
SwitchParams == [window |-> 2, fewest |-> 2, opens |-> 2, closes |-> 3,
                 boards |-> 2, ups |-> 2, history |-> 5]
SwitchDays ==
    UNION {[1 .. n -> {[rawHeight |-> h, rawUps |-> 1] : h \in {1, 3}}] : n \in 1 .. 8}
Judged == [temp : {Missing, 20, 27, 45, 65}, up : {20, 45}, down : {0, 30, 50},
           br : {Missing} \cup {Percent(n) : n \in {10, 25, 35}},
           promo : {Missing, Percent(10), Percent(20), Percent(30)},
           height : {0, 6}, leaderDown : BOOLEAN]
ColdDays == {d \in Judged : d.temp \in {27, 65} /\ d.up = 20 /\ ~d.leaderDown}
Pools == {q \in SUBSET [code : 1 .. 2, st : BOOLEAN, boards : 1 .. 2, seal : {1}] :
            \A s, t \in q : s.code = t.code => s = t}
SimplePools == {q \in Pools : \A s \in q : s.boards = s.code}
PoolDays == [temp : {27}, ups : Pools, downs : SimplePools,
             broken : {{}, CHOOSE q \in Pools : q # {}},
             yesterday : {{}} \cup {q \in SimplePools : Cardinality(q) = 2}]

ASSUME SwitchIsHysteresis(SwitchDays, SwitchParams)
ASSUME SwitchForgets(SwitchDays, SwitchParams)
ASSUME QuantilesAreOrdered({<<1>>, <<1, 1, 3>>, <<0, 2, 5, 9>>}, {0, 103, 152, 626, 737, 1000})
ASSUME GoodDaysHaveNoBadSigns(Judged, BaseThresholds)
ASSUME WorseIsNotBetter(ColdDays, BaseThresholds)
ASSUME IceYieldsToDivergence(ColdDays, BaseThresholds,
         [s \in Strategy |-> [c \in {"ice", "diverge"} |-> FactorOf(s, c)]])
ASSUME StIsIgnored([1 .. 2 -> {d \in PoolDays : d.downs = {} /\ d.ups \in SimplePools}],
                   [SwitchParams EXCEPT !.fewest = 1])
ASSUME LeaderNeverFalls(PoolDays)

\* Factors: three keys of three types with legal values, illegal ones and ones of
\* a wrong kind; ladders of two and three cuts in every order.
Stored(kind, n) == [kind |-> kind, n |-> n]
ParamSchema == [s1 |-> [type |-> "float", default |-> Stored("float", 2), min |-> 0, max |-> Far],
                boards |-> [type |-> "int", default |-> Stored("int", 3), min |-> 1, max |-> 4],
                shape |-> [type |-> "enum", default |-> Stored("text", 1), min |-> 0, max |-> 0]]
StoredParams ==
    UNION {[keys -> {Stored("int", 4), Stored("float", -1), Stored("text", 2)}] :
             keys \in SUBSET {"s1", "boards", "unknown"}}
ActiveRows == {{}} \cup {{[version |-> 7, params |-> p]} : p \in StoredParams}
Ladders == [n \in 2 .. 3 |-> [1 .. n -> 1 .. 4]]
FactorRequests ==
    {[factor |-> "ratio", date |-> 1, code |-> 1, value |-> v,
      resolved |-> ResolveParams(ParamSchema, {[version |-> 7, params |-> << >>]}, o)] :
        v \in {1, 3, NoValue}, o \in {p \in StoredParams : DOMAIN p \subseteq {"s1"}}}
RatioOf(r) == ComputeFactor("ratio", <<r.resolved.params.s1.n, 5, 6>>, r.value)
FactorSamples == {[code |-> c, day |-> d, value |-> (3 * c + d) % 4] : c \in {1}, d \in 1 .. 6}
                   \cup {[code |-> 2, day |-> 3, value |-> NoValue]}

ASSUME ResolutionIsLayered(ParamSchema, ActiveRows, StoredParams)
ASSUME OverridesShareAVersion(ParamSchema, {{}}, StoredParams)
ASSUME BandsAreSteps(Ladders, 0 .. 5)
ASSUME EveryValueHasABand(Ladders, 0 .. 5)
ASSUME BandsMayOverlap(Ladders, 0 .. 5)
ASSUME KeyStandsForResult(FactorRequests, RatioOf)
ASSUME DegradedIsKept(FactorRequests, RatioOf)
ASSUME StatisticsAddUp("ratio", <<1, 2, 3>>, SUBSET FactorSamples)
ASSUME DegradedCountsAsOther("ratio", <<1, 2, 3>>)
=============================================================================

---------------------------- MODULE FactorBands ----------------------------
(***************************************************************************)
(* Factors of the dragon samples: how their parameters are resolved        *)
(* (app/factors/registry.py; the strategies resolve theirs the same way,   *)
(* app/strategies/protocol.py), the bands a value falls into (base.py and  *)
(* builtin/), the cache of results (cache.py) and the statistics by band   *)
(* and segment (stats.py).  No state: operators, and what they promise as  *)
(* formulas over bounded inputs.                                           *)
(*                                                                         *)
(* Numbers are integers, labels are the places of the bands.               *)
(***************************************************************************)
EXTENDS Integers, Sequences, FiniteSets

\* A number no value and no threshold reaches: an open end.
Far == 1000000

\* What an indicator is when its input is missing.
NoValue == Far + 1

-----------------------------------------------------------------------------
(* Parameters. *)

\* The kinds of stored values that a declared type takes.
KindsOf(type) ==
    CASE type = "bool" -> {"bool"}
      [] type = "enum" -> {"text"}
      [] type = "int" -> {"int"}
      [] OTHER -> {"int", "float"}

Accepts(spec, value) ==
    /\ value.kind \in KindsOf(spec.type)
    /\ spec.type \in {"int", "float", "percent"} => value.n \in spec.min .. spec.max

\* _coerce: what is not accepted becomes the default of the code.
Coerce(spec, value) == IF Accepts(spec, value) THEN value ELSE spec.default

\* _apply: declared keys only.
Apply(schema, current, values) ==
    [k \in DOMAIN schema |->
        IF k \in DOMAIN values THEN Coerce(schema[k], values[k]) ELSE current[k]]
Rejected(schema, values) ==
    {k \in DOMAIN schema \cap DOMAIN values : ~Accepts(schema[k], values[k])}

CodeDefaults(schema) == [k \in DOMAIN schema |-> schema[k].default]

\* resolve_params: active is a set of at most one stored row, override a function
\* of the keys that are overridden.
ResolveParams(schema, active, override) ==
    LET configured == IF active = {} THEN CodeDefaults(schema)
                      ELSE Apply(schema, CodeDefaults(schema), (CHOOSE a \in active : TRUE).params)
    IN [params |-> Apply(schema, configured, override),
        version |-> [rows |-> {a.version : a \in active}, overridden |-> DOMAIN override # {}],
        warnings |-> (UNION {Rejected(schema, a.params) : a \in active})
                       \cup Rejected(schema, override)]

-----------------------------------------------------------------------------
(* Bands. *)

\* The cuts between the bands of the numeric factors: does a cut belong to the
\* band below it, to the one above it?
Below == {"below"}
Above == {"above"}
FourBand == <<Above, Above, Above>>
NextDayOpenPct == <<Below, Above, Above>>
FirstYinOpenPct == <<Above, Above>>
FirstYinAmplitude == <<Below, Above>>
FirstYinClosePos == <<Below, Below>>
FirstYinLowTime == <<Above, Above>>
WaveVolTrend == <<Above, Above>>
NextDayClosePct == <<Below, Below \cup Above>>
ContinueBoards == <<Above, Above, Above>>
WaveOneWordCount == <<Above, Above>>

Sides == [ratio |-> FourBand, next_day_open |-> NextDayOpenPct,
          first_yin_open |-> FirstYinOpenPct, amplitude |-> FirstYinAmplitude,
          close_pos |-> FirstYinClosePos, low_time |-> FirstYinLowTime,
          wave_trend |-> WaveVolTrend, next_day_close |-> NextDayClosePct,
          boards |-> ContinueBoards, one_word |-> WaveOneWordCount]

Factor == DOMAIN Sides

\* These two declare no band below their first cut.
Bottomless == {"boards", "one_word"}

\* The i-th band of a ladder of cuts; the first and the last are open.
BandOf(cuts, sides, i) ==
    [lo |-> IF i = 1 THEN -Far ELSE cuts[i - 1],
     loInclusive |-> i = 1 \/ "above" \in sides[i - 1],
     hi |-> IF i > Len(cuts) THEN Far ELSE cuts[i],
     hiInclusive |-> i > Len(cuts) \/ "below" \in sides[i]]

BandsOf(factor, cuts) ==
    {i \in 1 .. Len(cuts) + 1 : factor \in Bottomless => i > 1}

\* Bucket.contains.
Holds(band, value) ==
    /\ value # NoValue
    /\ value > band.lo \/ (value = band.lo /\ band.loInclusive)
    /\ value < band.hi \/ (value = band.hi /\ band.hiInclusive)

Hits(factor, cuts, value) ==
    {i \in BandsOf(factor, cuts) : Holds(BandOf(cuts, Sides[factor], i), value)}

\* select_bucket: the largest lower end, then the band declared first; none is 0.
Unmatched == 0
SelectBand(factor, cuts, value) ==
    LET hits == Hits(factor, cuts, value)
        Lo(i) == BandOf(cuts, Sides[factor], i).lo
    IN IF hits = {} THEN Unmatched
       ELSE CHOOSE i \in hits :
              \A j \in hits : Lo(i) > Lo(j) \/ (Lo(i) = Lo(j) /\ i <= j)

\* compute: a missing input degrades the result, which then has no band.
Degraded == -1
ComputeFactor(factor, cuts, value) ==
    IF value = NoValue THEN Degraded ELSE SelectBand(factor, cuts, value)

-----------------------------------------------------------------------------
(* The cache of results. *)

\* factor_cache_key: the parameters enter by their version, the inputs not.
FactorKey(request) ==
    <<request.factor, request.resolved.version, request.date, request.code>>

\* FactorResultCache.get_or_compute: what is stored under the key is the answer.
CachedOrComputed(cache, request, computed) ==
    IF FactorKey(request) \in DOMAIN cache THEN cache[FactorKey(request)] ELSE computed

-----------------------------------------------------------------------------
(* Statistics. *)

\* SNAPSHOT_CUTS: two fixed days, for samples of fewer than three.
SnapshotCuts == <<1, 2>>

\* segment_cuts: by rank among the days of the samples.
SegmentCuts(days) ==
    LET n == Cardinality(days)
        OfRank(k) == CHOOSE d \in days : Cardinality({e \in days : e < d}) = k
    IN IF n < 3 THEN SnapshotCuts ELSE <<OfRank(n \div 3), OfRank((2 * n) \div 3)>>

FactorSegment(day, cuts) ==
    IF day < cuts[1] THEN "A" ELSE IF day < cuts[2] THEN "B" ELSE "C"

\* effectiveness: the samples of each band that has any, whole and by segment.
\* The statistics classify the value alone, a missing one too.
Effectiveness(factor, bands, samples) ==
    LET cuts == SegmentCuts({s.day : s \in samples})
        Within(i) == {s \in samples : SelectBand(factor, bands, s.value) = i}
    IN [i \in {SelectBand(factor, bands, s.value) : s \in samples} |->
          [all |-> Within(i),
           segment |-> [g \in {"A", "B", "C"} |->
                          {s \in Within(i) : FactorSegment(s.day, cuts) = g}]]]

-----------------------------------------------------------------------------
(* What is promised. *)

\* registry.py:3-9: the override wins over the stored version and that over the
\* default; an illegal value of the winner gives the default and a warning, never
\* the value of the layer below; and what is resolved is legal.
ResolutionIsLayered(schema, Actives, Overrides) ==
    \A active \in Actives, override \in Overrides :
        LET r == ResolveParams(schema, active, override)
            Layer(k) == IF k \in DOMAIN override THEN {override[k]}
                        ELSE {a.params[k] : a \in {b \in active : k \in DOMAIN b.params}}
        IN \A k \in DOMAIN schema :
             /\ Accepts(schema[k], r.params[k])
             /\ r.params[k] \in Layer(k) \cup {schema[k].default}
             /\ \A v \in Layer(k) : Accepts(schema[k], v) => r.params[k] = v
             /\ \A v \in Layer(k) : ~Accepts(schema[k], v) => k \in r.warnings

\* protocol.py:258: rows of advice keep the number of the version alone, and two
\* overrides of one version have one name: it does not stand for the parameters
\* under override_params, which only tests and evaluations by hand enter.
OverridesShareAVersion(schema, Actives, Overrides) ==
    \E active \in Actives, override \in Overrides, other \in Overrides :
        LET r == ResolveParams(schema, active, override)
            q == ResolveParams(schema, active, other)
        IN r.version = q.version /\ r.params # q.params

\* base.py:214: the band of a value is the number of cuts it has passed, a cut
\* that two bands claim belonging to the upper one, if the cuts ascend.
BandsAreSteps(Ladders, Values) ==
    \A factor \in Factor : \A cuts \in Ladders[Len(Sides[factor])], v \in Values :
        LET passed == {i \in DOMAIN cuts :
                         v > cuts[i] \/ (v = cuts[i] /\ "above" \in Sides[factor][i])}
        IN (\A i, j \in DOMAIN cuts : i < j => cuts[i] < cuts[j]) =>
             SelectBand(factor, cuts, v) =
               IF factor \in Bottomless /\ passed = {} THEN Unmatched ELSE Cardinality(passed) + 1

\* stats.py:172: a sample is lost to "other" only where the factor declares no
\* lowest band, in whatever order the thresholds were saved: the schema bounds
\* each of them alone.
EveryValueHasABand(Ladders, Values) ==
    \A factor \in Factor \ Bottomless : \A cuts \in Ladders[Len(Sides[factor])], v \in Values :
        SelectBand(factor, cuts, v) # Unmatched

\* volume_ratio.py:44 calls the bands disjoint: cuts that do not ascend, which the
\* schema and the save accept, put a value in two of them.
BandsMayOverlap(Ladders, Values) ==
    \E cuts \in Ladders[3], v \in Values : Cardinality(Hits("ratio", cuts, v)) > 1

\* cache.py:3: within one version a key stands for one result as long as the
\* inputs of the day stay what they were.
KeyStandsForResult(Requests, Compute(_)) ==
    \A r, q \in Requests :
        FactorKey(r) = FactorKey(q) /\ r.value = q.value /\ ~r.resolved.version.overridden
            => CachedOrComputed([k \in {FactorKey(r)} |-> Compute(r)], q, Compute(q)) = Compute(q)

\* context.py:122: the inputs are not in the key: a result that was degraded for
\* want of an input is given out after the input has come.
DegradedIsKept(Requests, Compute(_)) ==
    \E r, q \in Requests :
        /\ r.value = NoValue /\ Compute(q) # Degraded
        /\ CachedOrComputed([k \in {FactorKey(r)} |-> Compute(r)], q, Compute(q)) = Degraded

\* stats.py:94, 122: the bands part the samples, the segments each band, and the
\* days fall into three thirds.
StatisticsAddUp(factor, bands, SampleSets) ==
    \A samples \in SampleSets :
        LET stats == Effectiveness(factor, bands, samples)
            days == {s.day : s \in samples}
            Third(g) == Cardinality({d \in days : FactorSegment(d, SegmentCuts(days)) = g})
        IN /\ \A s \in samples : Cardinality({i \in DOMAIN stats : s \in stats[i].all}) = 1
           /\ \A i \in DOMAIN stats : \A s \in stats[i].all :
                Cardinality({g \in {"A", "B", "C"} : s \in stats[i].segment[g]}) = 1
           /\ Cardinality(days) >= 3 =>
                \A g, h \in {"A", "B", "C"} : Third(g) - Third(h) \in -1 .. 1

\* base.py:53 names a band for results that are degraded; the statistics count
\* them as "other".
DegradedCountsAsOther(factor, bands) ==
    /\ ComputeFactor(factor, bands, NoValue) = Degraded
    /\ LET lacking == {[code |-> 1, day |-> 1, value |-> NoValue]}
       IN Effectiveness(factor, bands, lacking)[Unmatched].all = lacking
=============================================================================

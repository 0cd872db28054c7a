------------------------------ MODULE Features ------------------------------
(***************************************************************************)
(* A feature of a strategy over a growing history: _feature_values of      *)
(* core/backtest/engine.py, with the alignment of an external series       *)
(* (core/features/series.py, alignment.py), the calculators and the lag.   *)
(*                                                                         *)
(* In every state values is what a back-test over the data recorded so far *)
(* computes.  A step records one more bar, and what was observed of the    *)
(* external series since: on time, late, or nothing.  Observations have    *)
(* the time of a bar and become available at the time of one.              *)
(***************************************************************************)
EXTENDS FeatureCalculators, FeatureCatalog

CONSTANTS Specs,     \* the features: their names, lookbacks, lags, timeframes, ...
          WeekBars,  \* bars of a calendar week
          MaxBars,   \* bound: bars
          MaxOdd     \* bound: bars with a missing value or without a timely observation

ASSUME FeaturesAssumption ==
    /\ WeekBars \in Nat \ {0} /\ MaxBars \in Nat /\ MaxOdd \in Nat
    /\ Specs \subseteq [name : FeatureNames, lookback : Nat \ {0}, lag : Nat,
                        timeframe : {"1d", "1w"}, external : BOOLEAN, early : BOOLEAN]

\* What a value may be computed from: bars, and the observations made at a bar.
Points == {"bar", "observation"} \X (1..MaxBars)

\* No value that is there is taken for a missing one.
ASSUME NoneAssumption == \A cell \in SUBSET Points : cell # None

VARIABLES spec,     \* the feature; if it is external, its first input is a series
          bars,     \* per bar, the fields whose value is missing
          observed, \* SeriesDataSet.observations: when, and from when it is available
          values,   \* the feature's values, or Raises
          odd       \* what was out of the ordinary so far

vars == <<spec, bars, observed, values, odd>>

Inputs == InputsOf(spec.name)
-----------------------------------------------------------------------------
Period(t, timeframe) == IF timeframe = "1w" THEN (t - 1) \div WeekBars ELSE t

\* Variant: daily observations are collapsed like weekly ones.
ResampleEveryTimeframe(obs, timeframe) ==
    {o \in obs : \A p \in obs : Period(p.at, "1w") = Period(o.at, "1w") => p.at <= o.at}

\* The last observation of every period, the one that is not over included.
ResampleCompleted(obs, timeframe) ==
    {o \in obs : \A p \in obs :
        Period(p.at, timeframe) = Period(o.at, timeframe) => p.at <= o.at}

\* Variant: when an observation became available is not looked at.
AlignByTimestamp(n, obs) ==
    [i \in 1..n |->
        LET made == {o.at : o \in {o \in obs : o.at <= i}}
        IN IF made = {} THEN None ELSE {<<"observation", Max(made)>>}]

\* At every bar the latest observation that was made and available by then.
AlignAsOf(n, obs) ==
    [i \in 1..n |->
        LET usable == {o.at : o \in {o \in obs : o.at <= i /\ o.available <= i}}
        IN IF usable = {} THEN None ELSE {<<"observation", Max(usable)>>}]

Aligned(n, obs) == AlignAsOf(n, ResampleCompleted(obs, spec.timeframe))

Lag(s, lag) == [i \in DOMAIN s |-> IF i > lag THEN s[i - lag] ELSE None]

\* The inputs of the feature over bars b and observations obs.
Series(b, obs) ==
    [k \in DOMAIN Inputs |->
        IF k = 1 /\ spec.external THEN Aligned(Len(b), obs)
        ELSE [i \in DOMAIN b |-> IF Inputs[k] \in b[i] THEN None ELSE {<<"bar", i>>}]]

\* An input that is neither a field nor an observed series is missing.
Resolved(obs) ==
    \A k \in DOMAIN Inputs :
        IF k = 1 /\ spec.external THEN obs # {} ELSE Inputs[k] \in Fields

FeatureValues(b, obs) ==
    LET calculated == CalculateFeature(spec.name, Series(b, obs), spec.lookback, spec.early)
    IN IF ~Resolved(obs) \/ calculated = Raises THEN Raises ELSE Lag(calculated, spec.lag)

\* What a condition reads at bar i to match: a level compares the value with a
\* number, a crossing compares it and the one before with those of the close.
ConditionReads(op, i) ==
    CASE op = "level" -> values[i]
      [] op = "cross" -> IF i = 1 THEN None
                         ELSE Join({values[i - 1], values[i], {<<"bar", i - 1>>, <<"bar", i>>}})
-----------------------------------------------------------------------------
Init ==
    /\ spec \in Specs
    /\ bars = <<>> /\ observed = {} /\ values = <<>> /\ odd = 0

\* The fields of a bar that the feature reads; none, one or all of them are missing.
Read == {Inputs[k] : k \in (DOMAIN Inputs \ (IF spec.external THEN {1} ELSE {}))} \cap Fields

Gaps == {{}, Read} \cup {{f} : f \in Read}

\* What is observed by bar n: its own observation, in time or a bar later, and
\* that of the bar before, if it has not been.
Observations(n) ==
    LET today == {{}, {[at |-> n, available |-> n]}, {[at |-> n, available |-> n + 1]}}
        late == {{}, IF n = 1 \/ \E o \in observed : o.at = n - 1 THEN {}
                     ELSE {[at |-> n - 1, available |-> n]}}
    IN IF spec.external THEN {t \cup l : t \in today, l \in late} ELSE {{}}

NextBar ==
    LET n == Len(bars) + 1
    IN /\ n <= MaxBars
       /\ \E missing \in Gaps, new \in Observations(n) :
             /\ bars' = Append(bars, missing)
             /\ observed' = observed \cup new
             /\ odd' = odd + (IF missing = {} THEN 0 ELSE 1)
                           + (IF spec.external /\ [at |-> n, available |-> n] \notin new
                              THEN 1 ELSE 0)
             /\ odd' <= MaxOdd
             /\ values' = FeatureValues(bars', observed')
             /\ UNCHANGED spec

Next == NextBar

Spec == Init /\ [][Next]_vars
-----------------------------------------------------------------------------
(* What the calculators promise, told by their names. *)

Answered == values # Raises

\* The features of the last so many whole bars: how many they need.
WindowNeeded(name, p) ==
    CASE name \in {"sma", "wma", "bollinger", "bollinger_bandwidth", "bollinger_percent_b",
                   "standard_deviation", "rolling_volatility", "rolling_zscore", "zscore",
                   "kl_divergence", "percentile", "percentile_rank", "52_week_high",
                   "disparity", "center_of_gravity", "moving_average_envelope", "vwma",
                   "ulcer_index", "minmax_scale", "robust_scale", "rolling_skewness",
                   "rolling_kurtosis", "mad", "fractal_dimension", "kalman_slope",
                   "rolling_correlation", "aroon", "donchian", "donchian_channel_width",
                   "support_resistance", "stochastic", "williams_r",
                   "ultimate_oscillator", "smi", "cci", "cmf", "vfi",
                   "intraday_intensity", "qstick", "garman_klass", "parkinson",
                   "range_volatility",
                   "atr", "atr_percent", "normalized_atr", "normalized_atr_percent",
                   "supertrend"} -> p
      [] name \in {"returns", "change", "roc", "price_roc", "volume_roc", "momentum",
                   "log_returns", "maximum", "high_low_breakout", "rsi", "vidya",
                   "laguerre_rsi", "dti", "dc_based_rsi", "cmo", "entropy",
                   "shannon_entropy", "volatility_ind", "volatility_filter", "rvi",
                   "relative_volatility_index", "historical_volatility",
                   "volatility_ratio", "mfi", "vortex", "ease_of_movement"} -> p + 1
      [] name \in {"adx", "dmi_adx", "stoch_rsi", "ichimoku"} -> 2 * p
      [] name = "tma" -> 2 * p - 1
      [] name = "hma" -> p + Isqrt(p) - 1
      \* A line needs two points, and the bar that dpo looks back to may be before
      \* its window.
      [] name \in {"linear_regression", "tsf"} -> IF p > 1 THEN p ELSE None
      [] name = "dpo" -> IF p > 2 THEN p ELSE p + 1
      [] name = "connors_rsi" -> IF p < 3 THEN p + 1 ELSE 4
      [] name = "detect_three_bar_reversal" -> 3
      [] name \in {"hilbert_phase", "hilbert_sine", "fractional_difference",
                   "price_action_score", "phase_accumulation_cycle", "force_index",
                   "volume_delta", "inside_bar", "outside_bar", "higher_high_lower_low",
                   "fractal"} -> 2
      [] name \in {"ibs", "spread", "pivot_points", "heikin_ashi", "median_price",
                   "typical_price", "bar_range_ratio", "wick_ratio",
                   "trend_candle_strength", "detect_marubozu", "inverse_fisher_transform",
                   "hilbert_transform", "true_range", "doji", "hammer", "engulfing",
                   "pin_bar", "shooting_star", "morning_star", "evening_star"} -> 1
      [] OTHER -> None

\* Of these, the ones that also read the bar before the window, if there is one.
ReadsOneMore ==
    {"atr", "atr_percent", "normalized_atr", "normalized_atr_percent", "supertrend",
     "true_range", "engulfing", "pin_bar", "shooting_star", "morning_star",
     "evening_star", "fractal"}

\* The features that are seeded with the first so many bars: how many.
SeedNeeded(name, p) ==
    CASE name \in {"ema", "wilder", "fama", "itrend", "laguerre", "hilbert_trendline",
                   "macd", "adaptive_cycle_divergence", "dominant_cycle", "smoothed_obv",
                   "vw_macd", "mcginley"} -> p
      [] name \in {"guppy_mma", "super_smoother", "roofing_filter", "regime_filter"} ->
            AtLeastTwo(p)
      [] name = "volume_oscillator" -> 2 * p
      [] name \in {"parabolic_sar", "zigzag", "renko"} -> 1
      [] OTHER -> None

\* The features that smooth a series whose first values are None; an average over
\* one bar has a first value.
Unseeded(p) ==
    {"tsi", "rsi.wilder", "rsi.ema", "rsx", "macd_signal", "macd_histogram", "klinger"}
    \cup (IF p > 1 THEN {"dema", "tema", "trix", "zero_lag_ema", "mass_index"} ELSE {})

\* Nothing that the feature reads at bar i is missing.
Whole(i) ==
    /\ bars[i] \cap Read = {}
    /\ spec.external => Aligned(Len(bars), observed)[i] # None
-----------------------------------------------------------------------------
(* Properties. *)

\* A data point: a bar, or the observation made at a bar.
Kind(point) == point[1]
When(point) == point[2]

\* What was there at bar t: its own and earlier bars, and what was observed and
\* available by then.
KnownAt(t, cell) ==
    cell # None =>
        \A point \in cell :
            /\ When(point) <= t
            /\ Kind(point) = "observation" =>
                   \E o \in observed : o.at = When(point) /\ o.available <= t

\* No value is computed from data that its bar, moved back by the lag, could not
\* know, and no condition reads any that its bar could not (alignment.py:10-35,
\* calculators.py, engine.py:412-484, 533-568).
NoFutureData ==
    Answered => \A i \in DOMAIN values : /\ KnownAt(i - spec.lag, values[i])
                                         /\ KnownAt(i, ConditionReads("cross", i))

\* More data do not change what a back-test saw at an earlier bar, even if they
\* come late.  Of a week an observation may change what its bars saw, and a volume
\* breakout of the first full window appears when there is a bar after it
\* (series.py:47-84, alignment.py:10-35, calculators.py:543-558).
OldAnswersStand ==
    [][ Answered /\ Answered' =>
            \A i \in DOMAIN values :
                values'[i] # values[i] =>
                    \/ /\ spec.timeframe = "1w"
                       /\ \E o \in observed' \ observed :
                              Period(o.at, "1w") = Period(i - spec.lag, "1w")
                    \/ spec.name = "volume_breakout" /\ i - spec.lag = spec.lookback ]_vars

\* A windowed feature answers at the first whole window and at every later one,
\* whatever was missing before, and from no older bars; never before there are as
\* many bars as it needs (calculators.py: the compositions of rolling windows).
WindowsAnswer ==
    LET needed == WindowNeeded(spec.name, spec.lookback)
        reach == needed + (IF spec.name \in ReadsOneMore THEN 1 ELSE 0)
    IN Answered /\ needed # None =>
        \A i \in DOMAIN values :
            LET at == i - spec.lag
                first == IF at > reach THEN at - reach + 1 ELSE 1
            IN /\ at < needed => values[i] = None
               /\ at >= needed /\ (\A k \in first..at : Whole(k)) =>
                      /\ values[i] # None
                      /\ \A point \in values[i] : Kind(point) = "bar" => When(point) >= first

\* A seeded feature answers exactly at the whole bars after a whole seed: a series
\* that begins after the first bar never has a value.  One that is seeded with
\* values of a smoothed series, which begins with None, never answers at all
\* (calculators.py:242-263, 273-292, 611-666, 727-731, 812-820, 838-843, 1337-1349).
SeedDecides ==
    LET needed == SeedNeeded(spec.name, spec.lookback)
    IN Answered =>
        \A i \in DOMAIN values :
            LET at == i - spec.lag
            IN /\ needed # None =>
                      (values[i] # None <=> /\ at >= needed
                                            /\ Whole(at)
                                            /\ \A k \in 1..needed : Whole(k))
               /\ spec.name \in Unseeded(spec.lookback) => values[i] = None

\* What a bar sees of a weekly series is of a week that is over by then.
HigherTimeframeClosed ==
    spec.external /\ spec.timeframe = "1w" =>
        LET aligned == Aligned(Len(bars), observed)
        IN \A i \in DOMAIN aligned :
               aligned[i] # None =>
                   \A point \in aligned[i] : Period(When(point), "1w") < Period(i + 1, "1w")
=============================================================================

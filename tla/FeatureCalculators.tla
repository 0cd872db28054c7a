------------------------- MODULE FeatureCalculators -------------------------
(***************************************************************************)
(* calculate_feature and the calculators (core/features/calculators.py):   *)
(* which bars of its inputs every value of a feature is computed from, and *)
(* where there is none.  A calculator that raises returns Raises.          *)
(***************************************************************************)
EXTENDS FeatureCells

CONSTANT Raises
-----------------------------------------------------------------------------
(* Moving averages. *)

\* Variant: the loop begins at index period.
RollingFromPeriod(s, p) ==
    [i \in DOMAIN s |-> IF i <= p THEN None ELSE Join(Cells(s, i - p + 1, i))]

SingleRolling(s, p) == Rolling(s, p)

Window(s, i, p) == Rolling(s, p)[i]

SmaValues(s, p) == SingleRolling(s, p)

\* Variant: the seed is the first window without a missing bar.
EmaOfFirstWindow(s, p) ==
    [i \in DOMAIN s |->
        IF (\A k \in 1..i : Rolling(s, p)[k] = None) \/ s[i] = None THEN None
        ELSE Unbroken(s, i)]

\* The mean of the first p bars, of which none may be missing, and then a running
\* value, which a missing bar makes begin anew.
Ema(s, p) ==
    [i \in DOMAIN s |->
        IF i < p \/ s[i] = None \/ None \in Cells(s, 1, p) THEN None ELSE Unbroken(s, i)]

\* The same shape, with another weight.
Wilder(s, p) ==
    [i \in DOMAIN s |->
        IF i < p \/ s[i] = None \/ Window(s, p, p) = None THEN None ELSE Unbroken(s, i)]

Wma(s, p) == [i \in DOMAIN s |-> Window(s, i, p)]

Isqrt(p) == CHOOSE r \in 0..p : r * r <= p /\ (r + 1) * (r + 1) > p

\* The first value is written at bar p, which a shorter series does not have.
SeededAtLast(s, p, later) ==
    IF None \in Cells(s, 1, IF Len(s) < p THEN Len(s) ELSE p) THEN Silent(s)
    ELSE IF Len(s) < p THEN Raises
    ELSE Accumulated([i \in DOMAIN s |-> CASE i < p -> None
                                           [] i = p -> Window(s, p, p)
                                           [] i > p -> later[i]])

Kama(s, p) == SeededAtLast(s, p, Rolling(s, p + 1))

Mcginley(s, p) == SeededAtLast(s, p, s)

\* dema and tema smooth a smoothed series, whose first p bars begin with None.
MovingAverageVariant(c, s, p) ==
    CASE c = "wma"    -> Wma(s, p)
      [] c = "wilder" -> Wilder(s, p)
      [] c = "dema"   -> Both(Ema(s, p), Ema(Ema(s, p), p))
      [] c = "tema"   -> Both(Both(Ema(s, p), Ema(Ema(s, p), p)), Ema(Ema(Ema(s, p), p), p))
      [] c = "hma"    -> Wma(Both(Wma(s, AtLeastOne(p \div 2)), Wma(s, p)), AtLeastOne(Isqrt(p)))
      [] c = "kama"   -> Kama(s, p)

Vwma(s, volume, p) == Rolling(Row(<<s, volume>>), p)
-----------------------------------------------------------------------------
(* Changes and oscillators of one series. *)

Returns(s, p) == Lagged(s, p)

LogReturns(s, p) == Lagged(s, p)

PercentChange(s, p) == Returns(s, p)

Momentum(s, p) == Lagged(s, p)

\* The smoothed variants smooth the changes, of which bar 1 has none.
Rsi(s, p, method) ==
    CASE method = "wilder" -> Wilder(Step(s), p)
      [] method = "ema"    -> Ema(Step(s), p)
      [] method = "sma"    -> Rolling(s, p + 1)

Cmo(s, p) == Rolling(s, p + 1)

Entropy(s, p) == Rolling(s, p + 1)

RegimeFilter(s, p) == Both(Ema(s, Half(p)), Ema(s, p))

Macd(s, p) == Both(Ema(s, Half(p)), Ema(s, p))

Tsi(s, p) == Ema(Ema(Step(s), p), p)

\* Bar 1 counts nothing, whether or not it is there; a missing bar resets.
Consecutive(s) ==
    [i \in DOMAIN s |-> CASE i = 1 -> {}
                          [] i > 1 -> IF Step(s)[i] = None THEN None ELSE Unbroken(s, i)]

Cusum(s) == Accumulated(Step(s))

Dpo(s, p) ==
    LET shift == p \div 2 + 1
    IN [i \in DOMAIN s |->
           IF i > shift THEN Join({SingleRolling(s, p)[i], s[i - shift]}) ELSE None]

TimeSinceExtreme(s) == Accumulated(s)

\* zigzag and renko: an anchor that moves, set at bar 1.
StepTransform(s) == IF s[1] = None THEN Silent(s) ELSE Accumulated(s)

CycleIndicator(c, s, p) ==
    CASE c \in {"super_smoother", "roofing_filter"} -> Ema(s, AtLeastTwo(p))
      [] c \in {"inverse_fisher_transform", "hilbert_transform"} -> s
      [] c = "phase_accumulation_cycle" -> Momentum(s, 1)
      [] c = "center_of_gravity" -> SingleRolling(s, p)
      [] c = "bandpass_filter"   -> Momentum(Ema(s, p), AtLeastOne(p \div 2))
      [] c = "dc_based_rsi"      -> Rsi(s, p, "sma")
      [] c = "cyber_cycle"       -> Momentum(Ema(s, p), 1)

CycleTransform(c, s, p) ==
    CASE c \in {"itrend", "laguerre", "hilbert_trendline"} -> Ema(s, p)
      [] c \in {"hilbert_phase", "hilbert_sine"} -> Step(s)
      [] c \in {"adaptive_cycle_divergence", "dominant_cycle"} -> Both(s, Ema(s, p))
-----------------------------------------------------------------------------
(* Statistics of a window of one series or of two. *)

PreviousRollingMaximum(s, p) ==
    [i \in DOMAIN s |-> IF i > p THEN Join(Cells(s, i - p, i - 1)) ELSE None]

HighLowBreakout(s, p) == Both(s, PreviousRollingMaximum(s, p))

\* Bar p is compared with the p bars that end with it, once there is a bar after it.
VolumeBreakout(s, p) ==
    [i \in DOMAIN s |->
        IF i = p /\ Len(s) > p THEN Rolling(s, p)[i] ELSE HighLowBreakout(s, p)[i]]

RollingHighRatio(s, p) == Rolling(s, p)

Disparity(s, p) == Both(s, SingleRolling(s, p))

RollingReturnVolatility(s, p) == Rolling(Returns(s, 1), p)

VolatilityFilter(s, p) == SingleRolling(Returns(s, 1), p)

RollingCorrelation(s, t, p) == Rolling(Row(<<s, t>>), p)

RollingZscore(s, p) == Rolling(s, p)

Percentile(s, p) == Rolling(s, p)

Bollinger(s, p) == Rolling(s, p)

BollingerDerived(s, p) == Rolling(s, p)

UlcerIndex(s, p) == Rolling(s, p)

StatisticalTransform(s, p) == Rolling(s, p)

LinearRegression(s, p) == IF p = 1 THEN Silent(s) ELSE Rolling(s, p)

Hurst(s, p) == IF p < 4 THEN Silent(s) ELSE Rolling(s, p)

Spread(s, t) == Row(<<s, t>>)
-----------------------------------------------------------------------------
(* Ranges of the bars. *)

Ibs(close, high, low) == Row(<<close, high, low>>)

\* The close before is taken into account where there is one.
TrueRanges(high, low, close) ==
    [i \in DOMAIN high |->
        IF i = 1 \/ close[i - 1] = None THEN Join({high[i], low[i]})
                                        ELSE Join({high[i], low[i], close[i - 1]})]

Atr(high, low, close, p) == SingleRolling(TrueRanges(high, low, close), p)

\* Needs both bars whole; the averages of the moves are averaged once more.
Adx(high, low, close, p) ==
    LET before(s) == [i \in DOMAIN s |-> IF i = 1 THEN None ELSE s[i - 1]]
        moves == Row(<<high, low, before(high), before(low), before(close)>>)
    IN SingleRolling(SingleRolling(moves, p), p)

Vortex(high, low, close, p) ==
    Both(Rolling(TrueRanges(high, low, close), p), Rolling(Step(Row(<<high, low>>)), p))

Aroon(high, low, p) == Rolling(Row(<<high, low>>), p)

Donchian(high, low, p) == Rolling(Row(<<high, low>>), p)

DonchianWidth(high, low, p) == Rolling(Row(<<high, low>>), p)

SupportResistance(high, low, p) == Rolling(Row(<<high, low>>), p)

Fisher(high, low, p) == Accumulated(Rolling(Row(<<high, low>>), p))

Stochastic(high, low, close, p) == Both(Rolling(Row(<<high, low>>), p), close)

Cci(high, low, close, p) == Rolling(Row(<<high, low, close>>), p)

Supertrend(high, low, close, p) == Both(Row(<<high, low, close>>), Atr(high, low, close, p))

\* The default output, which needs the conversion and the base line.
Ichimoku(high, low, p) ==
    Both(Donchian(high, low, p), Donchian(high, low, 2 * p))

ParabolicSar(high, low) ==
    IF Row(<<high, low>>)[1] = None THEN Silent(high) ELSE Accumulated(Row(<<high, low>>))

Keltner(high, low, close, p) == Both(Ema(close, p), Atr(high, low, close, p))

RangeVolatility(series, p) == Rolling(Row(series), p)
-----------------------------------------------------------------------------
(* Volumes. *)

\* The running sum goes on from a bar whose predecessor has no close.
Obv(close, volume) ==
    Accumulated([i \in DOMAIN close |->
        IF i = 1 \/ close[i - 1] = None THEN Join({close[i], volume[i]})
                                        ELSE Join({close[i], volume[i], close[i - 1]})])

ForceIndex(close, volume) == Both(Step(close), volume)

Pvt(close, volume) == Accumulated(ForceIndex(close, volume))

Vwap(series) == Accumulated(Row(series))

Adl(series) == Accumulated(Row(series))

Cmf(series, p) == Rolling(Row(series), p)

IntradayIntensity(series, p) == Rolling(Row(series), p)

\* The first price of the window is compared with the one before it, if that is there.
Mfi(series, p) ==
    LET typical == Row(SubSeq(series, 1, 3))
        flows == Rolling(Row(series), p)
    IN [i \in DOMAIN typical |->
           IF i <= p \/ flows[i] = None THEN None ELSE flows[i] \cup Present({typical[i - p]})]

EaseOfMovement(high, low, volume, p) ==
    SingleRolling(Both(Step(Row(<<high, low>>)), volume), p)

\* pvi and nvi begin with 1000 at bar 1, if that has a close.
VolumeIndex(close, volume) ==
    Accumulated([i \in DOMAIN close |->
        IF i = 1 THEN close[1] ELSE Step(Row(<<close, volume>>))[i]])
-----------------------------------------------------------------------------
(* Candles. *)

CandleMeasure(series) == Row(series)

CandlePattern(c, series) ==
    CASE c = "detect_three_bar_reversal" -> Rolling(series[1], 3)
      [] c = "detect_marubozu" -> Row(series)

\* A comparison with the bar before reads its second part only if the first holds,
\* and raises where it reads a missing value; early says that the first never holds.
Compared(series, early) ==
    LET row == Row(series)
        \* what is read of an earlier bar
        earlier(k) == IF early THEN series[1][k] ELSE row[k]
    IN IF \E i \in DOMAIN row : i > 1 /\ row[i] # None /\ earlier(i - 1) = None
       THEN Raises
       ELSE [i \in DOMAIN row |->
                IF i = 1 \/ row[i] = None THEN None ELSE row[i] \cup earlier(i - 1)]

\* A fractal compares the bar before with the one before that, first of all.
Fractal(series, early) ==
    LET row == Row(series)
        earlier(k) == IF early THEN series[1][k] ELSE row[k]
        read(i) == Join({earlier(i - 1), earlier(i - 2)})
    IN IF \E i \in DOMAIN row : i > 2 /\ row[i] # None /\ read(i) = None
       THEN Raises
       ELSE [i \in DOMAIN row |->
                CASE i = 1 \/ row[i] = None -> None
                  [] i = 2 /\ row[i] # None -> row[i]
                  [] i > 2 /\ row[i] # None -> row[i] \cup read(i)]

\* The patterns of whole candles do not skip a missing value: they raise.  Every
\* one without a formula of its own is calculated as an engulfing candle.
PriceAction(c, series, early) ==
    CASE c \in {"inside_bar", "outside_bar", "higher_high_lower_low"} ->
            Compared(series, early)
      [] c = "fractal" -> Fractal(series, early)
      [] c \in {"doji", "hammer"} ->
            IF None \in Range(Row(series)) THEN Raises ELSE Row(series)
      [] c \in {"engulfing", "pin_bar", "shooting_star", "morning_star", "evening_star"} ->
            IF None \in Range(Row(series)) THEN Raises
            ELSE [i \in DOMAIN series[1] |->
                     Present(Cells(Row(series), IF i = 1 THEN 1 ELSE i - 1, i))]
-----------------------------------------------------------------------------
(* The dispatch: s is the tuple of the inputs, p the lookback. *)

MacdBased == {"macd", "macd_signal", "macd_histogram", "schaff_trend_cycle", "vw_macd"}

\* The second half of _additional_indicator.
FurtherIndicator(c, s, p, early) ==
    CASE c = "chaikin_volatility" -> Returns(Ema(Row(<<s[1], s[2]>>), p), 1)
      [] c = "connors_rsi" -> Rsi(s[1], IF p < 3 THEN p ELSE 3, "sma")
      [] c \in {"evening_star", "morning_star", "pin_bar", "shooting_star"} ->
            PriceAction(c, s, early)
      [] c = "fractional_difference" -> Returns(s[1], 1)
      [] c = "guppy_mma"        -> Ema(s[1], AtLeastTwo(p))
      [] c = "kl_divergence"    -> RollingZscore(s[1], p)
      [] c = "klinger"          -> Ema(ForceIndex(s[3], s[4]), p)
      [] c = "moving_average_envelope" -> SmaValues(s[1], p)
      [] c = "qstick"           -> SingleRolling(Row(<<s[1], s[2]>>), p)
      [] c = "schaff_trend_cycle" -> Percentile(Macd(s[1], p), p)
      [] c = "shannon_entropy"  -> Entropy(s[1], p)
      [] c = "vfi"              -> Cmf(s, p)
      [] c = "vw_macd"          -> Macd(Vwap(s), p)
      [] c = "intraday_intensity" -> IntradayIntensity(s, p)
      [] c = "support_resistance" -> SupportResistance(s[1], s[2], p)
      [] c = "time_since_extreme" -> TimeSinceExtreme(s[1])
      [] c \in {"roc", "price_roc"} -> Returns(s[1], p)
      [] c = "momentum"         -> Momentum(s[1], p)
      [] c = "dmi_adx"          -> Adx(s[1], s[2], s[3], p)
      [] c = "slope_of_ema"     -> Momentum(Ema(s[1], p), 1)
      [] c \in {"linear_regression", "tsf"} -> LinearRegression(s[1], p)
      [] c \in {"median_price", "typical_price"} -> Row(s)
      [] c = "donchian_channel_width" -> DonchianWidth(s[1], s[2], p)
      [] c = "standard_deviation" -> SingleRolling(s[1], p)
      [] c = "relative_volatility_index" -> SingleRolling(Returns(s[1], 1), p)
      [] c = "ease_of_movement" -> EaseOfMovement(s[1], s[2], s[3], p)
      [] c \in {"bar_range_ratio", "wick_ratio", "trend_candle_strength"} -> CandleMeasure(s)
      [] c = "high_low_breakout" -> HighLowBreakout(s[1], p)
      [] c = "price_action_score" -> Momentum(s[1], 1)
      [] c \in {"detect_marubozu", "detect_three_bar_reversal"} -> CandlePattern(c, s)
      [] c \in {"phase_accumulation_cycle", "inverse_fisher_transform", "super_smoother",
                "roofing_filter", "center_of_gravity", "bandpass_filter", "dc_based_rsi",
                "cyber_cycle", "hilbert_transform"} -> CycleIndicator(c, s[1], p)
      [] OTHER -> Raises

\* Signal lines smooth a smoothed series, over nine bars; mass_index, zero_lag_ema
\* and rsx do the same over p.
AdditionalIndicator(c, s, p, early) ==
    CASE c = "tma" -> SingleRolling(SingleRolling(s[1], p), p)
      [] c = "fama" -> Ema(s[1], p)
      [] c \in {"vidya", "laguerre_rsi", "dti"} -> Rsi(s[1], p, "sma")
      [] c = "cmo"          -> Cmo(s[1], p)
      [] c = "vwma"         -> Vwma(s[1], s[2], p)
      [] c = "mcginley"     -> Mcginley(s[1], p)
      [] c = "zero_lag_ema" -> Both(Ema(s[1], p), Ema(Ema(s[1], p), p))
      [] c = "stoch_rsi"    -> Percentile(Rsi(s[1], p, "sma"), p)
      [] c = "rvi"          -> SingleRolling(Returns(s[1], 1), p)
      [] c = "rsx"          -> Ema(Rsi(s[1], p, "sma"), p)
      [] c \in {"ultimate_oscillator", "smi"} -> Stochastic(s[1], s[2], s[3], p)
      [] c = "macd_signal"  -> Ema(Macd(s[1], p), 9)
      [] c = "macd_histogram" -> Both(Macd(s[1], p), Ema(Macd(s[1], p), 9))
      [] c \in {"historical_volatility", "volatility_ratio"} ->
            SingleRolling(LogReturns(s[1], 1), p)
      [] c \in {"atr_percent", "normalized_atr_percent"} ->
            Both(Atr(s[1], s[2], s[3], p), s[3])
      [] c = "mass_index" ->
            LET first == Ema(Row(<<s[1], s[2]>>), p)
            IN SingleRolling(Both(first, Ema(first, p)), p)
      [] c \in {"garman_klass", "parkinson", "range_volatility"} -> RangeVolatility(s, p)
      [] c = "volume_oscillator" -> Both(Ema(s[1], p), Ema(s[1], 2 * p))
      [] c = "volume_roc"   -> Returns(s[1], p)
      [] c = "volume_delta" -> ForceIndex(s[1], s[2])
      [] c = "smoothed_obv" -> Ema(Obv(s[1], s[2]), p)
      [] c \in {"pvi", "nvi"} -> VolumeIndex(s[1], s[2])
      [] c \in {"pivot_points", "heikin_ashi"} -> Row(s)
      [] c \in {"zigzag", "renko"} -> StepTransform(s[1])
      [] c \in {"engulfing", "doji", "hammer", "inside_bar", "outside_bar",
                "higher_high_lower_low", "fractal"} -> PriceAction(c, s, early)
      [] c \in {"fractal_dimension", "kalman_slope", "minmax_scale", "robust_scale",
                "rolling_skewness", "rolling_kurtosis", "mad", "percentile_rank"} ->
            StatisticalTransform(s[1], p)
      [] c \in {"adaptive_cycle_divergence", "dominant_cycle", "hilbert_phase",
                "hilbert_sine", "hilbert_trendline", "itrend", "laguerre"} ->
            CycleTransform(c, s[1], p)
      [] OTHER -> FurtherIndicator(c, s, p, early)

ExtendedIndicator(c, s, p, early) ==
    CASE c \in {"stochastic", "williams_r"} -> Stochastic(s[1], s[2], s[3], p)
      [] c = "cci"           -> Cci(s[1], s[2], s[3], p)
      [] c = "trix"          -> Returns(Ema(Ema(Ema(s[1], p), p), p), 1)
      [] c = "tsi"           -> Tsi(s[1], p)
      [] c = "vortex"        -> Vortex(s[1], s[2], s[3], p)
      [] c = "aroon"         -> Aroon(s[1], s[2], p)
      [] c = "supertrend"    -> Supertrend(s[1], s[2], s[3], p)
      [] c = "ichimoku"      -> Ichimoku(s[1], s[2], p)
      [] c = "parabolic_sar" -> ParabolicSar(s[1], s[2])
      [] c = "true_range"    -> TrueRanges(s[1], s[2], s[3])
      [] c \in {"bollinger_bandwidth", "bollinger_percent_b"} -> BollingerDerived(s[1], p)
      [] c = "keltner"       -> Keltner(s[1], s[2], s[3], p)
      [] c = "donchian"      -> Donchian(s[1], s[2], p)
      [] c = "normalized_atr" -> Both(Atr(s[1], s[2], s[3], p), s[3])
      [] c = "ulcer_index"   -> UlcerIndex(s[1], p)
      [] c = "obv"           -> Obv(s[1], s[2])
      [] c = "vwap"          -> Vwap(s)
      [] c = "adl"           -> Adl(s)
      [] c = "cmf"           -> Cmf(s, p)
      [] c = "mfi"           -> Mfi(s, p)
      [] c = "force_index"   -> ForceIndex(s[1], s[2])
      [] c = "pvt"           -> Pvt(s[1], s[2])
      [] c = "fisher"        -> Fisher(s[1], s[2], p)
      [] c = "dpo"           -> Dpo(s[1], p)
      [] c = "zscore"        -> RollingZscore(s[1], p)
      [] c = "hurst"         -> Hurst(s[1], p)
      [] c = "entropy"       -> Entropy(s[1], p)
      [] c = "log_returns"   -> LogReturns(s[1], p)
      [] c = "cusum"         -> Cusum(s[1])
      [] OTHER -> AdditionalIndicator(c, s, p, early)

\* Whether a calculator is there at all is seen last; macd refuses equal periods.
CalculateFeature(c, s, p, early) ==
    IF c \in MacdBased /\ Half(p) >= p THEN Raises ELSE
    CASE c = "sma" -> SingleRolling(s[1], p)
      [] c = "ema" -> Ema(s[1], p)
      [] c \in {"wma", "hma", "dema", "tema", "kama", "wilder"} ->
            MovingAverageVariant(c, s[1], p)
      [] c = "rsi"         -> Rsi(s[1], p, "sma")
      [] c = "rsi.wilder"  -> Rsi(s[1], p, "wilder")
      [] c = "rsi.ema"     -> Rsi(s[1], p, "ema")
      [] c = "returns"     -> Returns(s[1], p)
      [] c = "change"      -> PercentChange(s[1], p)
      [] c = "maximum"     -> PreviousRollingMaximum(s[1], p)
      [] c = "ibs"         -> Ibs(s[1], s[2], s[3])
      [] c = "disparity"   -> Disparity(s[1], p)
      [] c = "consecutive" -> Consecutive(s[1])
      [] c = "volatility_ind" -> RollingReturnVolatility(s[1], p)
      [] c = "spread"      -> Spread(s[1], s[2])
      [] c = "rolling_correlation" -> RollingCorrelation(s[1], s[2], p)
      [] c = "rolling_volatility"  -> SingleRolling(s[1], p)
      [] c = "rolling_zscore" -> RollingZscore(s[1], p)
      [] c = "percentile"  -> Percentile(s[1], p)
      [] c = "macd"        -> Macd(s[1], p)
      [] c = "atr"         -> Atr(s[1], s[2], s[3], p)
      [] c = "adx"         -> Adx(s[1], s[2], s[3], p)
      [] c = "bollinger"   -> Bollinger(s[1], p)
      [] c = "volume_breakout"   -> VolumeBreakout(s[1], p)
      [] c = "52_week_high"      -> RollingHighRatio(s[1], p)
      [] c = "volatility_filter" -> VolatilityFilter(s[1], p)
      [] c = "regime_filter"     -> RegimeFilter(s[1], p)
      [] OTHER -> ExtendedIndicator(c, s, p, early)
=============================================================================

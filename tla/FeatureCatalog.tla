--------------------------- MODULE FeatureCatalog ---------------------------
(***************************************************************************)
(* The features there are and the fields of a bar they are calculated from *)
(* (core/features/catalog.py and, for what strategies call indicators,     *)
(* core/backtest/engine.py).  A feature has the name of its calculator;    *)
(* the smoothed variants of rsi have names of their own.                   *)
(***************************************************************************)
EXTENDS Sequences

Fields == {"open", "high", "low", "close", "volume"}

HL == <<"high", "low">>
HLC == <<"high", "low", "close">>
HLCV == <<"high", "low", "close", "volume">>
OHLC == <<"open", "high", "low", "close">>
OCHL == <<"open", "close", "high", "low">>
CV == <<"close", "volume">>
-----------------------------------------------------------------------------
(* The audited definitions, which are all registered. *)

RsiVariants == {"rsi", "rsi.wilder", "rsi.ema"}

Definitions ==
   {"sma", "ema", "wma", "hma", "dema", "tema", "kama", "macd", "stochastic",
    "williams_r", "cci", "trix", "tsi", "vortex", "aroon", "supertrend",
    "ichimoku", "parabolic_sar", "atr", "true_range", "bollinger", "keltner",
    "donchian", "normalized_atr", "ulcer_index", "obv", "vwap", "adl", "cmf",
    "mfi", "force_index", "pvt", "fisher", "dpo", "zscore", "hurst", "entropy",
    "log_returns", "cusum", "returns"}

DefinitionInputs(name) ==
    CASE name \in {"stochastic", "williams_r", "cci", "vortex", "supertrend",
                    "ichimoku", "atr", "true_range", "keltner", "normalized_atr"}
            -> HLC
      [] name \in {"aroon", "parabolic_sar", "donchian", "fisher"} -> HL
      [] name \in {"obv", "force_index", "pvt"} -> CV
      [] name \in {"vwap", "adl", "cmf", "mfi"} -> HLCV
      [] OTHER -> <<"close">>
-----------------------------------------------------------------------------
(* The proposed ones, which are registered when their calculator is implemented. *)

Proposed ==
   {"tma", "vidya", "cmo", "vwma", "mcginley", "zero_lag_ema", "fama",
    "guppy_mma", "moving_average_envelope", "stoch_rsi", "rvi", "rsx",
    "ultimate_oscillator", "connors_rsi", "schaff_trend_cycle", "dti",
    "laguerre_rsi", "smi", "qstick", "macd_signal", "macd_histogram",
    "normalized_atr_percent", "historical_volatility", "chaikin_volatility",
    "volatility_ratio", "atr_percent", "mass_index", "garman_klass", "parkinson",
    "range_volatility", "volume_oscillator", "volume_roc", "volume_delta",
    "intraday_intensity", "vw_macd", "smoothed_obv", "klinger", "vfi", "pvi",
    "nvi", "pivot_points", "zigzag", "heikin_ashi", "renko", "engulfing", "doji",
    "pin_bar", "hammer", "shooting_star", "morning_star", "evening_star",
    "inside_bar", "outside_bar", "support_resistance", "higher_high_lower_low",
    "fractal", "hilbert_sine", "hilbert_phase", "hilbert_trendline",
    "dominant_cycle", "itrend", "laguerre", "adaptive_cycle_divergence",
    "fractal_dimension", "kalman_slope", "shannon_entropy", "kl_divergence",
    "minmax_scale", "robust_scale", "fractional_difference", "rolling_skewness",
    "rolling_kurtosis", "mad", "percentile_rank", "normalized_time_of_day",
    "session_high", "session_low", "session_flag", "time_of_day", "day_of_week",
    "session_overlay_flags", "time_since_extreme", "volume_profile",
    "tpo_profile", "order_flow_delta", "order_flow_imbalance", "weis_wyckoff",
    "roc", "momentum", "dmi_adx", "slope_of_ema", "linear_regression",
    "median_price", "typical_price", "donchian_channel_width",
    "standard_deviation", "relative_volatility_index", "ease_of_movement",
    "price_roc", "bar_range_ratio", "wick_ratio", "high_low_breakout",
    "trend_candle_strength", "price_action_score", "detect_marubozu",
    "detect_three_bar_reversal", "phase_accumulation_cycle",
    "inverse_fisher_transform", "super_smoother", "roofing_filter",
    "center_of_gravity", "bandpass_filter", "dc_based_rsi", "cyber_cycle",
    "hilbert_transform", "tsf"}

ProposedInputs(name) ==
    CASE name \in {"qstick", "trend_candle_strength"} -> <<"open", "close">>
      [] name \in {"normalized_atr_percent", "ultimate_oscillator", "smi",
                    "atr_percent", "pivot_points", "dmi_adx", "typical_price"}
            -> HLC
      [] name \in {"vwma", "volume_delta", "smoothed_obv", "pvi", "nvi"} -> CV
      [] name \in {"chaikin_volatility", "mass_index", "parkinson",
                    "range_volatility", "inside_bar", "outside_bar",
                    "support_resistance", "higher_high_lower_low", "fractal",
                    "median_price", "donchian_channel_width"}
            -> HL
      [] name \in {"garman_klass", "heikin_ashi", "engulfing", "doji", "pin_bar",
                    "hammer", "shooting_star", "morning_star", "evening_star"}
            -> OHLC
      [] name \in {"volume_oscillator", "volume_roc"} -> <<"volume">>
      [] name = "intraday_intensity" -> <<"close", "high", "low", "volume">>
      [] name \in {"vw_macd", "klinger", "vfi"} -> HLCV
      [] name \in {"normalized_time_of_day", "session_high", "session_low",
                    "session_flag", "time_of_day", "day_of_week",
                    "session_overlay_flags"}
            -> <<"session">>
      [] name = "ease_of_movement" -> <<"high", "low", "volume">>
      [] name \in {"bar_range_ratio", "wick_ratio", "detect_marubozu"} -> OCHL
      [] OTHER -> <<"close">>

\* Every proposed feature has been implemented; returns is a definition, too.
ImplementedCalculators == Proposed \cup {"returns"}

Registered == RsiVariants \cup Definitions \cup (Proposed \cap ImplementedCalculators)
-----------------------------------------------------------------------------
(* What a strategy calls an indicator: a calculator with fixed inputs. *)

Indicators ==
    {"sma", "ema", "wma", "hma", "dema", "tema", "kama", "wilder", "rsi", "macd", "atr",
     "adx", "bollinger", "ibs", "disparity", "consecutive", "volatility_ind", "change",
     "maximum", "roc", "volume_breakout", "52_week_high", "volatility_filter",
     "regime_filter"}

IndicatorInputs(name) ==
    CASE name \in {"atr", "adx"}    -> HLC
      [] name = "ibs"               -> <<"close", "high", "low">>
      [] name = "volume_breakout"   -> <<"volume">>
      [] OTHER                      -> <<"close">>

\* Calculators that no list names; the specification of a feature may still ask for one.
Unlisted ==
    {"spread", "rolling_correlation", "rolling_volatility", "rolling_zscore",
     "bollinger_bandwidth", "bollinger_percent_b"}

UnlistedInputs(name) ==
    IF name \in {"spread", "rolling_correlation"} THEN <<"close", "open">> ELSE <<"close">>

FeatureNames == Registered \cup Indicators \cup Unlisted

InputsOf(name) ==
    CASE name \in Definitions -> DefinitionInputs(name)
      [] name \in Proposed    -> ProposedInputs(name)
      [] name \in Unlisted    -> UnlistedInputs(name)
      [] OTHER                -> IndicatorInputs(name)
=============================================================================

----------------------------- MODULE MCFeatures -----------------------------
(***************************************************************************)
(* Features for TLC: every calculator over the fields of the bars, with    *)
(* lookbacks at which periods are clamped (one and two) and above them, an *)
(* odd and an even one (hma, dpo and hurst tell them apart); and one of    *)
(* every shape over an external series, daily and weekly, with and without *)
(* a lag.                                                                  *)
(***************************************************************************)
EXTENDS Features

\* Those whose comparisons may end early.
TwoPart == {"inside_bar", "outside_bar", "higher_high_lower_low", "fractal"}

\* A window, a seed, a difference, three inputs, a running value, a breakout, a sum
\* of the whole history, and one without external data.
Shapes ==
    {"sma", "ema", "returns", "ibs", "consecutive", "volume_breakout", "obv", "session_high"}

MCSpecs ==
    {s \in [name : FeatureNames, lookback : 1..4, lag : {0}, timeframe : {"1d"},
            external : {FALSE}, early : BOOLEAN] : s.early => s.name \in TwoPart}
    \cup [name : Shapes, lookback : {3}, lag : {0, 1}, timeframe : {"1d", "1w"},
          external : {TRUE}, early : {FALSE}]

OpenWeekSpecs ==
    [name : {"sma"}, lookback : {2}, lag : {0}, timeframe : {"1w"}, external : {TRUE},
     early : {FALSE}]
=============================================================================

---------------------------- MODULE BacktestRules ----------------------------
(***************************************************************************)
(* The arithmetic that both back-test loops share                          *)
(* (core/backtest/engine.py:571-634, core/costs/model.py).  Money, units   *)
(* and prices are naturals: an instance chooses them so that every         *)
(* division it makes is exact, and then rounding and the tolerance 1e-9    *)
(* play no part.                                                           *)
(***************************************************************************)
EXTENDS Integers

CONSTANTS NoLimit,           \* None
          CostBps,           \* commission, spread and slippage, after the stress
          StopLossPct,       \* RiskConfig.stop_loss_pct, 0 for none
          TakeProfitPct,     \* RiskConfig.take_profit_pct, 0 for none
          DailyLossLimitPct, \* RiskConfig.daily_loss_limit_pct, or NoLimit
          DailyLossAction,   \* RiskConfig.daily_loss_action
          MaxExposurePct,    \* RiskConfig.max_total_exposure_pct, or NoLimit
          PositionSizePct    \* RiskConfig.position_size_pct

ASSUME RulesAssumption ==
    /\ CostBps \in 0..10000
    /\ StopLossPct \in Nat /\ TakeProfitPct \in Nat
    /\ DailyLossLimitPct \in (0..100) \cup {NoLimit}
    /\ DailyLossAction \in {"none", "reduce", "hold", "stop"}
    /\ MaxExposurePct \in (1..100) \cup {NoLimit}
    /\ PositionSizePct \in 1..100
    /\ NoLimit \notin 0..100

Cost(notional) == (notional * CostBps) \div 10000

\* Variant: the cost is forgotten.
UnitsForAll(notional, price) == notional \div price

\* What notional buys once its cost is taken out of it.
UnitsFor(notional, price) == (notional - Cost(notional)) \div price

\* The move from the entry price reached the stop or the target.
RiskExit(entryPrice, price) ==
    /\ entryPrice > 0
    /\ \/ StopLossPct > 0 /\ (price - entryPrice) * 100 <= -(StopLossPct * entryPrice)
       \/ TakeProfitPct > 0 /\ (price - entryPrice) * 100 >= TakeProfitPct * entryPrice

ExposureAllows(notional, equity, exposure) ==
    MaxExposurePct # NoLimit => (exposure + notional) * 100 <= equity * MaxExposurePct

DailyLossBreached(dayStart, equity) ==
    /\ DailyLossLimitPct # NoLimit
    /\ DailyLossAction # "none"
    /\ dayStart > 0
    /\ (dayStart - equity) * 100 >= DailyLossLimitPct * dayStart
=============================================================================

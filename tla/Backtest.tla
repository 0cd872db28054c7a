------------------------------ MODULE Backtest ------------------------------
(***************************************************************************)
(* BacktestEngine._run_multi_symbol_strategy (core/backtest/engine.py): a  *)
(* portfolio walks through the timestamps of its data.  At each of them    *)
(* the symbols that have a bar sell, then buy, at the open what was        *)
(* decided at their own previous bar, and decide again at the close.  A    *)
(* symbol without a bar keeps its pending order.                           *)
(*                                                                         *)
(* The data are chosen bar by bar, and whether the strategy's rules match  *)
(* is chosen with them: indicators and conditions are left out.            *)
(***************************************************************************)
EXTENDS BacktestRules, FiniteSets, FiniteSetsExt, Functions

CONSTANTS Symbol,        \* 1..n, in the order of the sorted names
          Price,         \* the prices of the data
          InitialCash,   \* BacktestRequest.initial_cash
          MaxConcurrent, \* RiskConfig.max_concurrent_positions, or NoLimit
          MaxBars        \* bound: timestamps in the data

ASSUME BacktestAssumption ==
    /\ IsFiniteSet(Symbol) /\ Symbol \subseteq Nat /\ Symbol # {}
    /\ Price \subseteq Nat \ {0} /\ Price # {}
    /\ InitialCash \in Nat \ {0}
    /\ MaxConcurrent \in (Nat \ {0}) \cup {NoLimit} /\ NoLimit \notin Nat
    /\ MaxBars \in Nat

VARIABLES phase,       \* of one iteration: "bar", "sell", "buy" or "close"
          bars,        \* iterations begun
          present,     \* the symbols with a bar at this timestamp
          open,        \* the opens of those bars
          cash,
          units,       \* _SymbolState.units
          entryPrice,  \* _SymbolState.entry_price
          pending,     \* _SymbolState.pending
          lastClose,   \* _SymbolState.last_close
          dayStart,    \* day_start_equity
          blocked,     \* daily_loss_blocked
          stopped,
          dayLow,      \* history: the lowest equity at an open or close of the day
          matched,     \* history: did the rules match at the symbol's latest bar?
          owed,        \* history: held when the limit was breached, and not sold yet
          bought       \* history: what was bought at this timestamp

data == <<present, open>>
book == <<cash, units, entryPrice>>
risk == <<dayStart, blocked, stopped>>
history == <<dayLow, matched, owed, bought>>
vars == <<phase, bars, data, book, pending, lastClose, risk, history>>

Held == {s \in Symbol : units[s] > 0}

\* The value of the positions at prices p.
Exposure(p) == FoldFunction(+, 0, [s \in Symbol |-> units[s] * p[s]])

\* Opening prices where there is a bar, the latest closing prices elsewhere.
AtOpen == [s \in Symbol |-> IF s \in present THEN open[s] ELSE lastClose[s]]
EquityAtOpen == cash + Exposure(AtOpen)

TypeOK ==
    /\ phase \in {"bar", "sell", "buy", "close"}
    /\ bars \in 0..MaxBars
    /\ present \subseteq Symbol
    /\ open \in [Symbol -> Price] /\ lastClose \in [Symbol -> Price]
    /\ cash \in Nat
    /\ units \in [Symbol -> Nat]
    /\ entryPrice \in [Symbol -> Price \cup {0}]
    /\ pending \in [Symbol -> {"none", "entry", "exit"}]
    /\ dayStart \in Nat /\ dayLow \in Nat
    /\ blocked \in BOOLEAN /\ stopped \in BOOLEAN
    /\ matched \subseteq Symbol /\ owed \subseteq Symbol /\ bought \subseteq Symbol

\* The engine starts last_close with the symbol's first close; nothing reads it
\* before that bar, since no units are held.
Init ==
    /\ phase = "bar" /\ bars = 0
    /\ present = {}
    /\ open = [s \in Symbol |-> CHOOSE p \in Price : TRUE]
    /\ lastClose = open
    /\ cash = InitialCash
    /\ units = [s \in Symbol |-> 0]
    /\ entryPrice = [s \in Symbol |-> 0]
    /\ pending = [s \in Symbol |-> "none"]
    /\ dayStart = InitialCash /\ dayLow = InitialCash
    /\ blocked = FALSE /\ stopped = FALSE
    /\ matched = {} /\ owed = {} /\ bought = {}
-----------------------------------------------------------------------------
\* Variant: the check at the open forgets a breach earlier in the day.
NextBarForgetting ==
    /\ phase = "bar" /\ bars < MaxBars
    /\ bars' = bars + 1 /\ phase' = "sell"
    /\ present' \in SUBSET Symbol \ {{}}
    /\ open' \in [Symbol -> Price] /\ \A s \in Symbol \ present' : open'[s] = open[s]
    /\ UNCHANGED <<book, pending, lastClose, stopped, matched, owed>>
    /\ \E newDay \in BOOLEAN :
           /\ bars = 0 => newDay
           /\ dayStart' = IF newDay THEN EquityAtOpen' ELSE dayStart
           /\ blocked' = DailyLossBreached(dayStart', EquityAtOpen')
           /\ dayLow' = IF newDay \/ EquityAtOpen' < dayLow THEN EquityAtOpen' ELSE dayLow
    /\ bought' = {}

\* The next timestamp, the first of a day if newDay: the day's reference equity
\* is taken before anything trades, and the limit is checked at the open.
NextBar ==
    /\ phase = "bar" /\ bars < MaxBars
    /\ bars' = bars + 1 /\ phase' = "sell"
    /\ present' \in SUBSET Symbol \ {{}}
    /\ open' \in [Symbol -> Price] /\ \A s \in Symbol \ present' : open'[s] = open[s]
    /\ UNCHANGED <<book, pending, lastClose, stopped, matched, owed>>
    /\ \E newDay \in BOOLEAN :
           /\ bars = 0 => newDay
           /\ dayStart' = IF newDay THEN EquityAtOpen' ELSE dayStart
           /\ blocked' = ((blocked /\ ~newDay) \/ DailyLossBreached(dayStart', EquityAtOpen'))
           /\ dayLow' = IF newDay \/ EquityAtOpen' < dayLow THEN EquityAtOpen' ELSE dayLow
    /\ bought' = {}

\* A pending exit is filled at the open.  The order of the sales does not show.
Sell(s) ==
    /\ phase = "sell"
    /\ s \in present /\ pending[s] = "exit" /\ units[s] > 0
    /\ LET notional == units[s] * open[s]
       IN cash' = cash + notional - Cost(notional)
    /\ units' = [units EXCEPT ![s] = 0]
    /\ entryPrice' = [entryPrice EXCEPT ![s] = 0]
    /\ pending' = [pending EXCEPT ![s] = "none"]
    /\ owed' = owed \ {s}
    /\ UNCHANGED <<phase, bars, data, lastClose, risk, dayLow, matched, bought>>

SalesDone ==
    /\ phase = "sell"
    /\ \A s \in present : ~(pending[s] = "exit" /\ units[s] > 0)
    /\ phase' = "buy"
    /\ UNCHANGED <<bars, data, book, pending, lastClose, risk, history>>

Allocation == InitialCash \div Cardinality(Symbol)
PositionSize == (Allocation * PositionSizePct) \div 100

WantsToBuy(s) == s \in present /\ pending[s] = "entry" /\ units[s] = 0

\* Variants: one of the conditions of an entry is dropped or weakened.
MayBuyAtLimit ==
    /\ ~blocked /\ ~stopped
    /\ MaxConcurrent # NoLimit => Cardinality(Held) <= MaxConcurrent
    /\ cash >= PositionSize
    /\ ExposureAllows(PositionSize, EquityAtOpen, Exposure(AtOpen))

MayBuyWhenStopped ==
    /\ ~blocked
    /\ MaxConcurrent # NoLimit => Cardinality(Held) < MaxConcurrent
    /\ cash >= PositionSize
    /\ ExposureAllows(PositionSize, EquityAtOpen, Exposure(AtOpen))

\* Variant: the exposure is looked at once, before the buys of the timestamp.
MayBuyByFirst ==
    /\ ~blocked /\ ~stopped
    /\ MaxConcurrent # NoLimit => Cardinality(Held) < MaxConcurrent
    /\ cash >= PositionSize
    /\ bought = {} => ExposureAllows(PositionSize, EquityAtOpen, Exposure(AtOpen))

MayBuy ==
    /\ ~blocked /\ ~stopped
    /\ MaxConcurrent # NoLimit => Cardinality(Held) < MaxConcurrent
    /\ cash >= PositionSize
    /\ ExposureAllows(PositionSize, EquityAtOpen, Exposure(AtOpen))

\* Variant: a refused order stays pending.
BuyKeeping(s) ==
    /\ phase = "buy"
    /\ WantsToBuy(s) /\ \A r \in Symbol : WantsToBuy(r) => s <= r
    /\ IF MayBuy
       THEN /\ units' = [units EXCEPT ![s] = UnitsFor(PositionSize, open[s])]
            /\ cash' = cash - PositionSize
            /\ entryPrice' = [entryPrice EXCEPT ![s] = open[s]]
            /\ pending' = [pending EXCEPT ![s] = "none"]
            /\ bought' = bought \cup {s} /\ UNCHANGED phase
       ELSE phase' = "close" /\ UNCHANGED <<book, pending, bought>>
    /\ UNCHANGED <<bars, data, lastClose, risk, dayLow, matched, owed>>

\* The pending entries are taken in the order of the symbols, and each is gone
\* afterwards, filled or not.
Buy(s) ==
    /\ phase = "buy"
    /\ WantsToBuy(s) /\ \A r \in Symbol : WantsToBuy(r) => s <= r
    /\ IF MayBuy
       THEN /\ units' = [units EXCEPT ![s] = UnitsFor(PositionSize, open[s])]
            /\ cash' = cash - PositionSize
            /\ entryPrice' = [entryPrice EXCEPT ![s] = open[s]]
            /\ bought' = bought \cup {s}
       ELSE UNCHANGED <<book, bought>>
    /\ pending' = [pending EXCEPT ![s] = "none"]
    /\ UNCHANGED <<phase, bars, data, lastClose, risk, dayLow, matched, owed>>

BuysDone ==
    /\ phase = "buy" /\ \A s \in Symbol : ~WantsToBuy(s)
    /\ phase' = "close"
    /\ UNCHANGED <<bars, data, book, pending, lastClose, risk, history>>

\* What the close of s makes of its pending order.
Decision(s, close, match) ==
    IF units[s] > 0
    THEN IF match \/ RiskExit(entryPrice[s], close) THEN "exit" ELSE pending[s]
    ELSE IF match /\ ~blocked /\ ~stopped THEN "entry" ELSE pending[s]

\* Variant: the daily limit acts on the symbols with a bar only.
CloseOfPresent ==
    /\ phase = "close" /\ phase' = "bar"
    /\ \E match \in SUBSET present :
       \E close \in [Symbol -> Price] :
           /\ \A s \in Symbol \ present : close[s] = lastClose[s]
           /\ lastClose' = close
           /\ matched' = (matched \ present) \cup match
           /\ LET equity == cash + Exposure(close)
                  breached == DailyLossBreached(dayStart, equity)
                  reduce == breached /\ DailyLossAction \in {"reduce", "stop"}
              IN /\ dayLow' = IF equity < dayLow THEN equity ELSE dayLow
                 /\ blocked' = (blocked \/ breached)
                 /\ stopped' = (stopped \/ (breached /\ DailyLossAction = "stop"))
                 /\ owed' = IF reduce THEN owed \cup Held ELSE owed
                 /\ pending' = [s \in Symbol |->
                                  IF s \notin present THEN pending[s]
                                  ELSE IF reduce /\ units[s] > 0 THEN "exit"
                                       ELSE Decision(s, close[s], s \in match)]
    /\ UNCHANGED <<bars, data, book, dayStart, bought>>

\* The close: the rules decide for the symbols with a bar, the portfolio is
\* marked, and a breach of the daily limit acts on every position.
Close ==
    /\ phase = "close" /\ phase' = "bar"
    /\ \E match \in SUBSET present :
       \E close \in [Symbol -> Price] :
           /\ \A s \in Symbol \ present : close[s] = lastClose[s]
           /\ lastClose' = close
           /\ matched' = (matched \ present) \cup match
           /\ LET equity == cash + Exposure(close)
                  breached == DailyLossBreached(dayStart, equity)
                  reduce == breached /\ DailyLossAction \in {"reduce", "stop"}
              IN /\ dayLow' = IF equity < dayLow THEN equity ELSE dayLow
                 /\ blocked' = (blocked \/ breached)
                 /\ stopped' = (stopped \/ (breached /\ DailyLossAction = "stop"))
                 /\ owed' = IF reduce THEN owed \cup Held ELSE owed
                 /\ pending' = [s \in Symbol |->
                                  IF reduce /\ units[s] > 0 THEN "exit"
                                  ELSE IF s \in present
                                       THEN Decision(s, close[s], s \in match)
                                       ELSE pending[s]]
    /\ UNCHANGED <<bars, data, book, dayStart, bought>>

Next ==
    \/ NextBar \/ SalesDone \/ BuysDone \/ Close
    \/ \E s \in Symbol : Sell(s) \/ Buy(s)

Spec == Init /\ [][Next]_vars
-----------------------------------------------------------------------------
(* Properties. *)

\* Never more positions than max_concurrent_positions, whatever is sold and
\* bought at one open (engine.py:224-228).
ConcurrencyLimit ==
    MaxConcurrent # NoLimit => Cardinality(Held) <= MaxConcurrent

\* Once the buys of a timestamp are done the exposure is within the limit at
\* the prices they were made at, after their costs: no buy relies on equity or
\* exposure from before another one (engine.py:210-248).
ExposureWithinLimit ==
    bought # {} /\ MaxExposurePct # NoLimit /\ phase \in {"buy", "close"} =>
        Exposure(AtOpen) * 100 <= EquityAtOpen * MaxExposurePct

\* Nothing is bought for the rest of a day whose equity once touched the loss
\* limit at an open or a close, also when it recovered (engine.py:185-190,
\* 229-231, 277-278).
NoBuyOnALosingDay ==
    [][DailyLossBreached(dayStart, dayLow) /\ bars' = bars => bought' \subseteq bought]_vars

\* The loop keeps the promises of the strategy's risk section: no entry while
\* blocked or stopped, also of an order decided before that, and a stop is final
\* for all the days that follow (engine.py:185-190, 229-231, 277-284).
Policy == INSTANCE RiskPolicy WITH held <- Held
ImplementsPolicy == Policy!Spec

\* What was held when the limit was breached under `reduce' or `stop' is sold
\* at the open of its next bar, however many timestamps it has none
\* (engine.py:192-208, 279-282).
ReducedAtNextOpen == phase = "buy" => owed \cap present = {}

\* A symbol is bought only at the first bar after one at whose close the entry
\* rules matched: an order that was refused is not kept (engine.py:210-248).
EntriesFollowSignals == phase = "close" => bought \subseteq matched

\* Trading at an open costs its costs and no more: the equity at these prices
\* falls by the cost of the trade (engine.py:197-207, 238-247).
TradesConserveEquity ==
    [][\A s \in Symbol :
          units'[s] # units[s] =>
              EquityAtOpen' = EquityAtOpen -
                  Cost(IF units[s] > 0 THEN units[s] * open[s] ELSE PositionSize)]_vars
=============================================================================

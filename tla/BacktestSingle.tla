--------------------------- MODULE BacktestSingle ---------------------------
(***************************************************************************)
(* BacktestEngine._run_single_symbol_strategy (core/backtest/engine.py):   *)
(* the loop for data with one symbol.  It differs from the portfolio loop: *)
(* a position is sized by the cash of the moment, and a pending order      *)
(* lives for one bar.                                                      *)
(***************************************************************************)
EXTENDS BacktestRules, FiniteSets

CONSTANTS Price,        \* the prices of the data, positive
          InitialCash,  \* BacktestRequest.initial_cash, positive
          MaxBars       \* bound: bars in the data

VARIABLES phase,       \* of one iteration: "bar", "trade" or "close"
          bars,        \* iterations begun
          open,        \* the open of the bar
          cash, units,
          entryPrice,
          pending,
          dayStart,    \* day_start_equity
          blocked,     \* daily_loss_blocked
          stopped,
          ordered      \* history: what the previous bar's close decided

book == <<cash, units, entryPrice>>
risk == <<dayStart, blocked, stopped>>
vars == <<phase, bars, open, book, pending, risk, ordered>>

EquityAt(price) == cash + units * price

Init ==
    /\ phase = "bar" /\ bars = 0
    /\ open = CHOOSE p \in Price : TRUE
    /\ cash = InitialCash /\ units = 0 /\ entryPrice = 0
    /\ pending = "none" /\ ordered = "none"
    /\ dayStart = InitialCash
    /\ blocked = FALSE /\ stopped = FALSE
-----------------------------------------------------------------------------
NextBar ==
    /\ phase = "bar" /\ bars < MaxBars
    /\ phase' = "trade" /\ bars' = bars + 1
    /\ open' \in Price
    /\ \E newDay \in BOOLEAN :
           LET equity == EquityAt(open')
           IN /\ bars = 0 => newDay
              /\ dayStart' = IF newDay THEN equity ELSE dayStart
              /\ blocked' = ((blocked /\ ~newDay) \/ DailyLossBreached(dayStart', equity))
    /\ UNCHANGED <<book, pending, stopped, ordered>>

Exit ==
    /\ phase = "trade" /\ pending = "exit" /\ units > 0
    /\ cash' = cash + units * open - Cost(units * open)
    /\ units' = 0 /\ entryPrice' = 0
    /\ pending' = "none" /\ phase' = "close"
    /\ UNCHANGED <<bars, open, risk, ordered>>

Notional == (cash * PositionSizePct) \div 100

\* Variant: a stop is only looked at when signals are decided.
MayEnterWhenStopped == ~blocked /\ ExposureAllows(Notional, EquityAt(open), units * open)

MayEnter ==
    /\ ~blocked /\ ~stopped
    /\ ExposureAllows(Notional, EquityAt(open), units * open)

Enter ==
    /\ phase = "trade" /\ pending = "entry" /\ units = 0
    /\ IF MayEnter
       THEN /\ units' = UnitsFor(Notional, open)
            /\ cash' = cash - Notional
            /\ entryPrice' = open
       ELSE UNCHANGED book
    /\ pending' = "none" /\ phase' = "close"
    /\ UNCHANGED <<bars, open, risk, ordered>>

NoTrade ==
    /\ phase = "trade"
    /\ ~(pending = "exit" /\ units > 0) /\ ~(pending = "entry" /\ units = 0)
    /\ pending' = "none" /\ phase' = "close"
    /\ UNCHANGED <<bars, open, book, risk, ordered>>

\* What the rules and the price decide, before the daily limit.
Decision(close, match) ==
    IF units > 0 THEN IF match \/ RiskExit(entryPrice, close) THEN "exit" ELSE "none"
    ELSE IF match /\ ~blocked /\ ~stopped THEN "entry" ELSE "none"

\* Variant: the decision of the rules replaces that of the daily limit.
CloseByRules ==
    /\ phase = "close" /\ phase' = "bar"
    /\ \E close \in Price, match \in BOOLEAN :
           LET breached == DailyLossBreached(dayStart, EquityAt(close))
               reduce == breached /\ DailyLossAction \in {"reduce", "stop"} /\ units > 0
           IN /\ pending' = Decision(close, match)
              /\ ordered' = IF reduce THEN "exit" ELSE Decision(close, match)
              /\ blocked' = (blocked \/ breached)
              /\ stopped' = (stopped \/ (breached /\ DailyLossAction = "stop"))
    /\ UNCHANGED <<bars, open, book, dayStart>>

Close ==
    /\ phase = "close" /\ phase' = "bar"
    /\ \E close \in Price, match \in BOOLEAN :
           LET breached == DailyLossBreached(dayStart, EquityAt(close))
               reduce == breached /\ DailyLossAction \in {"reduce", "stop"} /\ units > 0
           IN /\ pending' = IF reduce THEN "exit" ELSE Decision(close, match)
              /\ ordered' = IF reduce THEN "exit" ELSE Decision(close, match)
              /\ blocked' = (blocked \/ breached)
              /\ stopped' = (stopped \/ (breached /\ DailyLossAction = "stop"))
    /\ UNCHANGED <<bars, open, book, dayStart>>

Next == NextBar \/ Exit \/ Enter \/ NoTrade \/ Close

Spec == Init /\ [][Next]_vars
-----------------------------------------------------------------------------
(* Properties. *)

\* The loop keeps the promises of the strategy's risk section: no entry while
\* blocked or stopped, and a stop is final (engine.py:325-386).
Policy == INSTANCE RiskPolicy
    WITH Symbol <- {1}, MaxConcurrent <- 1, held <- IF units > 0 THEN {1} ELSE {}
ImplementsPolicy == Policy!Spec

\* An exit decided at a close, by the rules, a stop or the daily limit, has
\* closed the position by the next close, and the position is not entered again
\* in between (engine.py:336-347, 367-385).
ExitsAtNextOpen == phase = "close" /\ ordered = "exit" => units = 0
=============================================================================

---------------------------- MODULE BacktestLoops ----------------------------
(***************************************************************************)
(* The loops of BacktestEngine beside each other: the portfolio loop under *)
(* a strategy with a daily limit (Backtest), the same loop under one whose *)
(* limit reduces and that has room for one position, and the loop for one  *)
(* symbol (BacktestSingle).  A behaviour is of one of them; they share     *)
(* what the code calls by the same names in both methods.                  *)
(***************************************************************************)
EXTENDS Backtest

\* The strategy and the request of the single-symbol loop, where they differ.
CONSTANTS StopLossPct1, MaxExposurePct1, PositionSizePct1, InitialCash1, MaxBars1

ASSUME SingleAssumption ==
    /\ StopLossPct1 \in Nat
    /\ MaxExposurePct1 \in (1..100) \cup {NoLimit}
    /\ PositionSizePct1 \in 1..100
    /\ InitialCash1 \in Nat \ {0} /\ MaxBars1 \in Nat

VARIABLES loop,  \* which of the three: "limit", "reduce" or "single"
          open1, units1, entryPrice1, pending1, ordered1

own1 == <<open1, units1, entryPrice1, pending1, ordered1>>
portfolio == <<data, units, entryPrice, pending, lastClose, history>>

Reduce == INSTANCE Backtest WITH DailyLossAction <- "reduce", MaxConcurrent <- 1

Single == INSTANCE BacktestSingle
    WITH open <- open1, units <- units1, entryPrice <- entryPrice1,
         pending <- pending1, ordered <- ordered1,
         StopLossPct <- StopLossPct1, MaxExposurePct <- MaxExposurePct1,
         PositionSizePct <- PositionSizePct1,
         InitialCash <- InitialCash1, MaxBars <- MaxBars1

NotSingle ==
    /\ open1 = CHOOSE p \in Price : TRUE
    /\ units1 = 0 /\ entryPrice1 = 0
    /\ pending1 = "none" /\ ordered1 = "none"

NotPortfolio ==
    /\ present = {} /\ open = [s \in Symbol |-> open1] /\ lastClose = open
    /\ units = [s \in Symbol |-> 0] /\ entryPrice = units
    /\ pending = [s \in Symbol |-> "none"]
    /\ dayLow = cash /\ matched = {} /\ owed = {} /\ bought = {}

LoopsInit ==
    \/ loop = "limit" /\ Init /\ NotSingle
    \/ loop = "reduce" /\ Reduce!Init /\ NotSingle
    \/ loop = "single" /\ Single!Init /\ NotPortfolio

LoopsNext ==
    /\ UNCHANGED loop
    /\ \/ loop = "limit" /\ Next /\ UNCHANGED own1
       \/ loop = "reduce" /\ Reduce!Next /\ UNCHANGED own1
       \/ loop = "single" /\ Single!Next /\ UNCHANGED portfolio

LoopsSpec == LoopsInit /\ [][LoopsNext]_<<vars, own1, loop>>
-----------------------------------------------------------------------------
(* Properties of one of the loops. *)

\* Two symbols that want to be bought at one open get one position between
\* them, whatever was sold there before (engine.py:192-228).
OnePositionAtATime == loop = "reduce" => Reduce!ConcurrencyLimit

\* In the single-symbol loop an exit decided at a close, also one the daily limit
\* decided, has been executed by the next close (engine.py:336-347, 367-385).
SingleExitsAtNextOpen == Single!ExitsAtNextOpen

\* The single-symbol loop keeps the risk policy, too: it enters nothing that was
\* decided before a block or a stop (engine.py:325-386).
SingleImplementsPolicy == Single!ImplementsPolicy
=============================================================================

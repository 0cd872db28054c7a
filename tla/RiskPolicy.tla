------------------------------ MODULE RiskPolicy ------------------------------
(***************************************************************************)
(* What the risk section of a strategy promises about a back-test, without *)
(* money, prices and orders: positions are entered one at a time, never    *)
(* while the day is blocked or trading has stopped, and never beyond the   *)
(* number of concurrent positions; a stop is final.  Both back-test loops  *)
(* (Backtest, BacktestSingle) implement it.                                *)
(***************************************************************************)
EXTENDS Naturals, FiniteSets

CONSTANTS Symbol, NoLimit, MaxConcurrent

VARIABLES held, blocked, stopped
vars == <<held, blocked, stopped>>

Init == held = {} /\ blocked = FALSE /\ stopped = FALSE

\* The limit is looked at, and a new day lifts a block but not a stop.
Look ==
    /\ blocked' \in BOOLEAN
    /\ stopped' \in {stopped, TRUE} /\ (stopped' # stopped => blocked')
    /\ UNCHANGED held

Enter(s) ==
    /\ ~blocked /\ ~stopped /\ s \notin held
    /\ MaxConcurrent # NoLimit => Cardinality(held) < MaxConcurrent
    /\ held' = held \cup {s}
    /\ UNCHANGED <<blocked, stopped>>

Leave(s) ==
    /\ s \in held /\ held' = held \ {s}
    /\ UNCHANGED <<blocked, stopped>>

Next == Look \/ \E s \in Symbol : Enter(s) \/ Leave(s)

Spec == Init /\ [][Next]_vars
=============================================================================

----------------------------- MODULE MCBacktest -----------------------------
(***************************************************************************)
(* The back-test loops for TLC.  With prices that double or halve and a    *)
(* cost of an eighth every amount of a short run is a whole number; the    *)
(* cash of the single-symbol loop is a power of two, so that halves and    *)
(* eighths of it stay whole.                                               *)
(***************************************************************************)
EXTENDS BacktestLoops

\* What is invested, and what it is worth after one doubling or halving, divides.
ASSUME ExactAmounts ==
    /\ (PositionSize * CostBps) % 10000 = 0
    /\ \A p, q \in Price :
           LET invested == PositionSize - Cost(PositionSize)
           IN /\ invested % p = 0
              /\ (((invested \div p) * q) * CostBps) % 10000 = 0
=============================================================================

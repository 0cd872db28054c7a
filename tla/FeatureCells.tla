---------------------------- MODULE FeatureCells ----------------------------
(***************************************************************************)
(* Feature series, by what they read.  A series has one cell per bar: None *)
(* where the code leaves None, and else the set of the data points that    *)
(* the value is computed from (the points it tests for None included).     *)
(* What is computed is left out, so that a mean and a maximum of the same  *)
(* window are one series; no value is zero.                                *)
(*                                                                         *)
(* The operators below are the shapes that the loops of calculators.py     *)
(* have in common.                                                         *)
(***************************************************************************)
EXTENDS Naturals, Sequences, FiniteSetsExt, Functions

CONSTANT None

Half(p) == IF p \div 2 > 2 THEN p \div 2 ELSE 2 \* max(2, p // 2)
AtLeastOne(n) == IF n > 1 THEN n ELSE 1         \* max(1, n)
AtLeastTwo(n) == IF n > 2 THEN n ELSE 2         \* max(2, n)

\* One value computed from several cells, all of which it needs.
Join(cells) == IF None \in cells THEN None ELSE UNION cells

\* One value computed from those of several cells that are there.
Present(cells) == UNION (cells \ {None})

Cells(s, from, to) == {s[k] : k \in from..to}

Silent(s) == [i \in DOMAIN s |-> None]

\* Bar by bar, from two series that are both needed.
Both(s, t) == [i \in DOMAIN s |-> Join({s[i], t[i]})]

\* Bar by bar, from all of several series.
Row(series) == [i \in DOMAIN series[1] |-> Join({series[k][i] : k \in DOMAIN series})]

\* From a bar and the one p bars before it.
Lagged(s, p) == [i \in DOMAIN s |-> IF i > p THEN Join({s[i - p], s[i]}) ELSE None]

\* From the bar before and this one.
Step(s) == Lagged(s, 1)

\* From the p bars that end with this one.
Rolling(s, p) == [i \in DOMAIN s |-> IF i < p THEN None ELSE Join(Cells(s, i - p + 1, i))]

\* A running value, which goes on over the bars that have none.
Accumulated(s) ==
    [i \in DOMAIN s |-> IF s[i] = None THEN None ELSE Present(Cells(s, 1, i))]

\* A running value, which begins anew after every bar that has none.
Unbroken(s, i) ==
    LET gaps == {k \in 1..i : s[k] = None}
    IN Join(Cells(s, IF gaps = {} THEN 1 ELSE Max(gaps) + 1, i))
=============================================================================

--------------------------- MODULE Features_proofs ---------------------------
(***************************************************************************)
(* What is checked of the features on small instances, for every lookback, *)
(* lag and timeframe and however long the history: no feature looks ahead, *)
(* no old answer changes, windows answer and seeds decide.                 *)
(*                                                                         *)
(* K[i] is what is known at bar i, and it only grows.  A series is causal  *)
(* if every cell of it is made of what is known at its bar.  The shapes of *)
(* FeatureCells make causal series of causal series, and so does every     *)
(* calculator, which is composed of them; the lag only delays, and the     *)
(* inputs are causal because of the way observations are aligned.          *)
(*                                                                         *)
(* Nor do more data change an old answer: along the same composition, two  *)
(* histories that agree up to a bar have the same values up to it.         *)
(*                                                                         *)
(* A windowed feature is known by two numbers, after how many bars it      *)
(* answers and over how many it reaches back, and a seeded one by its      *)
(* seed; every shape has a rule for them, by which the calculators follow. *)
(***************************************************************************)
EXTENDS Features, NaturalsInduction, WellFoundedInduction, TLAPS

Growing(K, n) == \A i, j \in 1..n : i <= j => K[i] \subseteq K[j]

Within(cell, known) == cell = None \/ cell \subseteq known

Causal(K, n, s) == DOMAIN s = 1..n /\ \A i \in 1..n : Within(s[i], K[i])

\* What a calculator may return.
CausalOrRaises(K, n, s) == s = Raises \/ Causal(K, n, s)
-----------------------------------------------------------------------------
(* Natural numbers. *)

\* Induction up to a bound, over a set instead of an operator.
LEMMA UptoInduction ==
    ASSUME NEW L \in Nat, NEW P, 0 \in P, \A n \in 0..(L - 1) : n \in P => n + 1 \in P
    PROVE  0..L \subseteq P
<1> SUFFICES ASSUME (0..L) \ P # {} PROVE FALSE
  OBVIOUS
<1>1. (0..L) \ P \subseteq Nat
  OBVIOUS
<1>2. PICK n \in (0..L) \ P : \A m \in (0..L) \ P : ~(<<m, n>> \in OpToRel(<, Nat))
  BY <1>1, NatLessThanWellFounded, WFMin
<1>3. ASSUME NEW m \in (0..L) \ P PROVE ~(m < n)
  <2>1. m \in Nat /\ n \in Nat /\ ~(<<m, n>> \in OpToRel(<, Nat))
    BY <1>1, <1>2
  <2> QED
    BY <2>1 DEF OpToRel
<1>4. n # 0 /\ n - 1 \in 0..(L - 1) /\ n - 1 < n /\ n - 1 \in 0..L
  OBVIOUS
<1>5. n - 1 \in P
  BY <1>3, <1>4
<1>6. (n - 1) + 1 \in P
  BY <1>4, <1>5
<1> QED
  BY <1>6

\* A set of bars that is not empty has a last one.
LEMMA LastBar ==
    ASSUME NEW L \in Nat, NEW S \in SUBSET (1..L), S # {}
    PROVE  Max(S) \in S /\ \A y \in S : y <= Max(S)
<1> DEFINE Bounded(n) == \A T \in SUBSET (1..n) : T # {} => \E x \in T : \A y \in T : x >= y
           P == {n \in 0..L : Bounded(n)}
<1>1. 0 \in P
  <2>1. ASSUME NEW T \in SUBSET (1..0), T # {} PROVE FALSE
    <3>1. PICK x \in T : TRUE
      BY <2>1
    <3> QED
      BY <3>1
  <2>2. Bounded(0)
    BY <2>1
  <2> HIDE DEF Bounded
  <2> QED
    BY <2>2
<1>2. ASSUME NEW n \in 0..(L - 1), Bounded(n) PROVE Bounded(n + 1)
  <2> SUFFICES ASSUME NEW T \in SUBSET (1..(n + 1)), T # {}
               PROVE  \E x \in T : \A y \in T : x >= y
    OBVIOUS
  <2>1. CASE n + 1 \in T
    BY <2>1
  <2>2. CASE n + 1 \notin T
    <3>1. T \in SUBSET (1..n)
      BY <2>2
    <3> QED
      BY <1>2, <3>1
  <2> QED
    BY <2>1, <2>2
<1>3. Bounded(L)
  <2>1. \A n \in 0..(L - 1) : n \in P => n + 1 \in P
    BY <1>2
  <2> HIDE DEF P
  <2>2. 0..L \subseteq P
    BY <1>1, <2>1, UptoInduction
  <2>3. L \in P
    BY <2>2
  <2> QED
    BY <2>3 DEF P
<1>4. \E x \in S : \A y \in S : x >= y
  BY <1>3
<1> QED
  BY <1>4 DEF Max

\* Every number has an integer square root.
LEMMA SquareRoot ==
    ASSUME NEW p \in Nat PROVE \E r \in 0..p : r * r <= p /\ (r + 1) * (r + 1) > p
<1> DEFINE Root(n) == \E r \in 0..n : r * r <= n /\ (r + 1) * (r + 1) > n
           P == {n \in 0..p : Root(n)}
<1>1. 0 \in P
  OBVIOUS
<1>2. ASSUME NEW n \in 0..(p - 1), Root(n) PROVE Root(n + 1)
  <2>1. PICK r \in 0..n : r * r <= n /\ (r + 1) * (r + 1) > n
    BY <1>2
  <2>2. CASE (r + 1) * (r + 1) > n + 1
    BY <2>1, <2>2
  <2>3. CASE ~((r + 1) * (r + 1) > n + 1)
    <3>1. (r + 1) * (r + 1) = n + 1
      BY <2>1, <2>3
    <3>2. (r + 2) * (r + 2) = (r + 1) * (r + 1) + 2 * r + 3
      OBVIOUS
    <3>3. r + 1 \in 0..(n + 1) /\ ((r + 1) + 1) * ((r + 1) + 1) > n + 1
      BY <2>1, <3>1, <3>2
    <3>4. (r + 1) * (r + 1) <= n + 1
      BY <3>1
    <3> QED
      BY <3>3, <3>4
  <2> QED
    BY <2>2, <2>3
<1>3. Root(p)
  <2> HIDE DEF Root
  <2>1. \A n \in 0..(p - 1) : n \in P => n + 1 \in P
    BY <1>2
  <2> HIDE DEF P
  <2>2. 0..p \subseteq P
    BY <1>1, <2>1, UptoInduction
  <2>3. p \in P
    BY <2>2
  <2> QED
    BY <2>3 DEF P
<1> QED
  BY <1>3

LEMMA IsqrtIsNat == ASSUME NEW p \in Nat PROVE Isqrt(p) \in 0..p
BY SquareRoot DEF Isqrt
-----------------------------------------------------------------------------
(* The shapes. *)

LEMMA JoinWithin ==
    ASSUME NEW cells, NEW known, \A c \in cells : Within(c, known)
    PROVE  Within(Join(cells), known)
BY DEF Within, Join

LEMMA PresentWithin ==
    ASSUME NEW cells, NEW known, \A c \in cells : Within(c, known)
    PROVE  Present(cells) \subseteq known
BY DEF Within, Present

LEMMA CellsWithin ==
    ASSUME NEW K, NEW n \in Nat, Growing(K, n), NEW s, Causal(K, n, s),
           NEW i \in 1..n, NEW from \in Nat \ {0}, NEW to \in 0..i
    PROVE  \A c \in Cells(s, from, to) : Within(c, K[i])
<1> SUFFICES ASSUME NEW k \in from..to PROVE Within(s[k], K[i])
  BY DEF Cells
<1>1. k \in 1..n /\ k <= i
  OBVIOUS
<1>2. K[k] \subseteq K[i] /\ Within(s[k], K[k])
  BY <1>1 DEF Growing, Causal
<1> QED
  BY <1>2 DEF Within

LEMMA UnbrokenWithin ==
    ASSUME NEW K, NEW n \in Nat, Growing(K, n), NEW s, Causal(K, n, s), NEW i \in 1..n
    PROVE  Within(Unbroken(s, i), K[i])
<1> DEFINE gaps == {k \in 1..i : s[k] = None}
           from == IF gaps = {} THEN 1 ELSE Max(gaps) + 1
<1>1. gaps # {} => Max(gaps) \in 1..i
  <2>1. i \in Nat /\ gaps \in SUBSET (1..i)
    OBVIOUS
  <2> HIDE DEF gaps
  <2> QED
    BY <2>1, LastBar
<1>2. from \in Nat \ {0}
  BY <1>1
<1> HIDE DEF from
<1>3. \A c \in Cells(s, from, i) : Within(c, K[i])
  BY <1>2, CellsWithin
<1>4. Within(Join(Cells(s, from, i)), K[i])
  BY <1>3, JoinWithin
<1> QED
  BY <1>4 DEF Unbroken, from

\* The shapes of FeatureCells make causal series of causal series.
LEMMA Shapes ==
    ASSUME NEW K, NEW n \in Nat, Growing(K, n)
    PROVE  /\ \A s : Causal(K, n, s) => Causal(K, n, Silent(s))
           /\ \A s, t : Causal(K, n, s) /\ Causal(K, n, t) => Causal(K, n, Both(s, t))
           /\ \A s : \A p \in Nat : Causal(K, n, s) => Causal(K, n, Lagged(s, p))
           /\ \A s : Causal(K, n, s) => Causal(K, n, Step(s))
           /\ \A s : \A p \in Nat : Causal(K, n, s) => Causal(K, n, Rolling(s, p))
           /\ \A s : Causal(K, n, s) => Causal(K, n, Accumulated(s))
           /\ \A series : 1 \in DOMAIN series /\ (\A k \in DOMAIN series : Causal(K, n, series[k]))
                          => Causal(K, n, Row(series))
<1>1. ASSUME NEW s, Causal(K, n, s) PROVE Causal(K, n, Silent(s))
  BY <1>1 DEF Causal, Within, Silent
<1>2. ASSUME NEW s, NEW t, Causal(K, n, s), Causal(K, n, t) PROVE Causal(K, n, Both(s, t))
  <2>1. ASSUME NEW i \in 1..n PROVE Within(Join({s[i], t[i]}), K[i])
    <3>1. Within(s[i], K[i]) /\ Within(t[i], K[i])
      BY <1>2 DEF Causal
    <3> QED
      BY <3>1, JoinWithin
  <2> QED
    BY <1>2, <2>1 DEF Causal, Both
<1>3. ASSUME NEW s, NEW p \in Nat, Causal(K, n, s) PROVE Causal(K, n, Lagged(s, p))
  <2>1. ASSUME NEW i \in 1..n, i > p PROVE Within(Join({s[i - p], s[i]}), K[i])
    <3>1. i - p \in 1..n /\ i - p <= i
      BY <2>1
    <3>2. Within(s[i - p], K[i - p]) /\ K[i - p] \subseteq K[i] /\ Within(s[i], K[i])
      BY <1>3, <3>1 DEF Causal, Growing
    <3>3. Within(s[i - p], K[i])
      BY <3>2 DEF Within
    <3> QED
      BY <3>2, <3>3, JoinWithin
  <2>2. \A i \in 1..n : Within(IF i > p THEN Join({s[i - p], s[i]}) ELSE None, K[i])
    BY <2>1 DEF Within
  <2> QED
    BY <1>3, <2>2 DEF Causal, Lagged
<1>4. ASSUME NEW s, Causal(K, n, s) PROVE Causal(K, n, Step(s))
  BY <1>3, <1>4 DEF Step
<1>5. ASSUME NEW s, NEW p \in Nat, Causal(K, n, s) PROVE Causal(K, n, Rolling(s, p))
  <2>1. ASSUME NEW i \in 1..n, ~(i < p) PROVE Within(Join(Cells(s, i - p + 1, i)), K[i])
    <3>1. i - p + 1 \in Nat \ {0} /\ i \in 0..i
      BY <2>1
    <3>2. \A c \in Cells(s, i - p + 1, i) : Within(c, K[i])
      BY <1>5, <3>1, CellsWithin
    <3> QED
      BY <3>2, JoinWithin
  <2>2. \A i \in 1..n : Within(IF i < p THEN None ELSE Join(Cells(s, i - p + 1, i)), K[i])
    BY <2>1 DEF Within
  <2> QED
    BY <1>5, <2>2 DEF Causal, Rolling
<1>6. ASSUME NEW s, Causal(K, n, s) PROVE Causal(K, n, Accumulated(s))
  <2>1. ASSUME NEW i \in 1..n PROVE Present(Cells(s, 1, i)) \subseteq K[i]
    <3>1. \A c \in Cells(s, 1, i) : Within(c, K[i])
      BY <1>6, CellsWithin
    <3> QED
      BY <3>1, PresentWithin
  <2>2. \A i \in 1..n : Within(IF s[i] = None THEN None ELSE Present(Cells(s, 1, i)), K[i])
    BY <2>1 DEF Within
  <2> QED
    BY <1>6, <2>2 DEF Causal, Accumulated
<1>7. ASSUME NEW series, 1 \in DOMAIN series, \A k \in DOMAIN series : Causal(K, n, series[k])
      PROVE  Causal(K, n, Row(series))
  <2>1. ASSUME NEW i \in 1..n
        PROVE  Within(Join({series[k][i] : k \in DOMAIN series}), K[i])
    <3>1. \A k \in DOMAIN series : Within(series[k][i], K[i])
      BY <1>7 DEF Causal
    <3>2. \A c \in {series[k][i] : k \in DOMAIN series} : Within(c, K[i])
      BY <3>1
    <3> QED
      BY <3>2, JoinWithin
  <2>2. DOMAIN series[1] = 1..n
    BY <1>7 DEF Causal
  <2>3. Row(series) = [i \in 1..n |-> Join({series[k][i] : k \in DOMAIN series})]
    BY <2>2 DEF Row
  <2> QED
    BY <2>1, <2>3 DEF Causal
<1> QED
  BY <1>1, <1>2, <1>3, <1>4, <1>5, <1>6, <1>7

\* The rows of two, three and five series.
LEMMA Rows ==
    ASSUME NEW K, NEW n \in Nat, Growing(K, n)
    PROVE  /\ \A s, t : Causal(K, n, s) /\ Causal(K, n, t) => Causal(K, n, Row(<<s, t>>))
           /\ \A s, t, u : Causal(K, n, s) /\ Causal(K, n, t) /\ Causal(K, n, u)
                           => Causal(K, n, Row(<<s, t, u>>))
           /\ \A s, t, u, v, w : /\ Causal(K, n, s) /\ Causal(K, n, t) /\ Causal(K, n, u)
                                 /\ Causal(K, n, v) /\ Causal(K, n, w)
                                 => Causal(K, n, Row(<<s, t, u, v, w>>))
<1>1. ASSUME NEW s, NEW t, Causal(K, n, s), Causal(K, n, t) PROVE Causal(K, n, Row(<<s, t>>))
  <2> DEFINE series == <<s, t>>
  <2>1. 1 \in DOMAIN series /\ \A k \in DOMAIN series : Causal(K, n, series[k])
    BY <1>1
  <2> HIDE DEF series
  <2>2. Causal(K, n, Row(series))
    BY <2>1, Shapes
  <2> QED
    BY <2>2 DEF series
<1>2. ASSUME NEW s, NEW t, NEW u, Causal(K, n, s), Causal(K, n, t), Causal(K, n, u)
      PROVE  Causal(K, n, Row(<<s, t, u>>))
  <2> DEFINE series == <<s, t, u>>
  <2>1. 1 \in DOMAIN series /\ \A k \in DOMAIN series : Causal(K, n, series[k])
    BY <1>2
  <2> HIDE DEF series
  <2>2. Causal(K, n, Row(series))
    BY <2>1, Shapes
  <2> QED
    BY <2>2 DEF series
<1>3. ASSUME NEW s, NEW t, NEW u, NEW v, NEW w, Causal(K, n, s), Causal(K, n, t),
             Causal(K, n, u), Causal(K, n, v), Causal(K, n, w)
      PROVE  Causal(K, n, Row(<<s, t, u, v, w>>))
  <2> DEFINE series == <<s, t, u, v, w>>
  <2>1. 1 \in DOMAIN series /\ \A k \in DOMAIN series : Causal(K, n, series[k])
    BY <1>3
  <2> HIDE DEF series
  <2>2. Causal(K, n, Row(series))
    BY <2>1, Shapes
  <2> QED
    BY <2>2 DEF series
<1> QED
  BY <1>1, <1>2, <1>3
-----------------------------------------------------------------------------
(* The calculators. *)

\* The averages that are seeded: a running value that may begin anew.
LEMMA Averages ==
    ASSUME NEW K, NEW n \in Nat, Growing(K, n)
    PROVE  /\ \A s : \A p \in Nat : Causal(K, n, s) => Causal(K, n, Ema(s, p))
           /\ \A s : \A p \in Nat : Causal(K, n, s) => Causal(K, n, Wilder(s, p))
           /\ \A s : \A p \in Nat : Causal(K, n, s) => Causal(K, n, Wma(s, p))
<1>1. ASSUME NEW s, NEW p \in Nat, Causal(K, n, s)
      PROVE  Causal(K, n, Ema(s, p)) /\ Causal(K, n, Wilder(s, p))
  <2>1. \A i \in 1..n : Within(Unbroken(s, i), K[i]) /\ Within(None, K[i])
    BY <1>1, UnbrokenWithin DEF Within
  <2>2. DOMAIN s = 1..n
    BY <1>1 DEF Causal
  <2>3. Causal(K, n, Ema(s, p))
    BY <2>1, <2>2 DEF Causal, Ema
  <2>4. Causal(K, n, Wilder(s, p))
    BY <2>1, <2>2 DEF Causal, Wilder
  <2> QED
    BY <2>3, <2>4
<1>2. ASSUME NEW s, NEW p \in Nat, Causal(K, n, s) PROVE Causal(K, n, Wma(s, p))
  <2>1. Causal(K, n, Rolling(s, p))
    BY <1>2, Shapes
  <2> QED
    BY <1>2, <2>1 DEF Causal, Wma, Window
<1> QED
  BY <1>1, <1>2

\* The averages that write their first value at bar p raise when there is none.
LEMMA SeededAtLastCausal ==
    ASSUME NEW K, NEW n \in Nat, Growing(K, n), NEW s, Causal(K, n, s), NEW p \in Nat,
           NEW later, Causal(K, n, later)
    PROVE  CausalOrRaises(K, n, SeededAtLast(s, p, later))
<1> DEFINE t == [i \in DOMAIN s |-> CASE i < p -> None
                                      [] i = p -> Window(s, p, p)
                                      [] i > p -> later[i]]
<1>1. Causal(K, n, Silent(s)) /\ Causal(K, n, Rolling(s, p))
  BY Shapes
<1>2. DOMAIN s = 1..n /\ \A i \in 1..n : Within(None, K[i]) /\ Within(later[i], K[i])
  BY DEF Causal, Within
<1>3. \A i \in 1..n : i = p => Within(Window(s, p, p), K[i])
  BY <1>1 DEF Causal, Window
<1>4. Causal(K, n, t)
  <2>1. DOMAIN t = 1..n
    BY <1>2
  <2>2. ASSUME NEW i \in 1..n PROVE Within(t[i], K[i])
    <3>1. CASE i < p
      BY <1>2, <3>1
    <3>2. CASE i = p
      BY <1>2, <1>3, <3>2
    <3>3. CASE i > p
      BY <1>2, <3>3
    <3>4. i < p \/ i = p \/ i > p
      OBVIOUS
    <3> HIDE DEF t
    <3> QED
      BY <3>1, <3>2, <3>3, <3>4
  <2> HIDE DEF t
  <2> QED
    BY <2>1, <2>2 DEF Causal
<1> HIDE DEF t
<1>5. Causal(K, n, Accumulated(t))
  BY <1>4, Shapes
<1> QED
  BY <1>1, <1>5 DEF SeededAtLast, CausalOrRaises, t

LEMMA MovingAverages ==
    ASSUME NEW K, NEW n \in Nat, Growing(K, n), NEW s, Causal(K, n, s), NEW p \in Nat
    PROVE  /\ CausalOrRaises(K, n, Mcginley(s, p))
           /\ \A c \in {"wma", "hma", "dema", "tema", "kama", "wilder"} :
                  CausalOrRaises(K, n, MovingAverageVariant(c, s, p))
<1> DEFINE C(t) == Causal(K, n, t)
<1>1. /\ \A t, u : C(t) /\ C(u) => C(Both(t, u))
      /\ \A t : \A q \in Nat : C(t) => C(Rolling(t, q)) /\ C(Ema(t, q))
                                        /\ C(Wilder(t, q)) /\ C(Wma(t, q))
  BY Shapes, Averages
<1>2. p \div 2 \in Nat /\ Isqrt(p) \in Nat
  BY IsqrtIsNat
<1>3. AtLeastOne(p \div 2) \in Nat /\ AtLeastOne(Isqrt(p)) \in Nat
  BY <1>2 DEF AtLeastOne
<1>4. CausalOrRaises(K, n, Kama(s, p)) /\ CausalOrRaises(K, n, Mcginley(s, p))
  BY <1>1, SeededAtLastCausal DEF Kama, Mcginley
<1>5. C(s)
  OBVIOUS
<1> HIDE DEF C
<1>6. /\ C(Wma(s, p)) /\ C(Wilder(s, p))
      /\ C(Both(Ema(s, p), Ema(Ema(s, p), p)))
      /\ C(Both(Both(Ema(s, p), Ema(Ema(s, p), p)), Ema(Ema(Ema(s, p), p), p)))
      /\ C(Wma(Both(Wma(s, AtLeastOne(p \div 2)), Wma(s, p)), AtLeastOne(Isqrt(p))))
  BY <1>1, <1>3, <1>5
<1> QED
  BY <1>4, <1>6 DEF C, CausalOrRaises, MovingAverageVariant

\* Changes and oscillators of one series.
LEMMA Oscillators ==
    ASSUME NEW K, NEW n \in Nat, Growing(K, n), NEW s, Causal(K, n, s), NEW p \in Nat
    PROVE  /\ \A m \in {"wilder", "ema", "sma"} : Causal(K, n, Rsi(s, p, m))
           /\ Causal(K, n, Macd(s, p))
           /\ Causal(K, n, RegimeFilter(s, p))
           /\ Causal(K, n, Tsi(s, p))
           /\ Causal(K, n, Consecutive(s))
           /\ Causal(K, n, Cusum(s))
           /\ Causal(K, n, Dpo(s, p))
           /\ Causal(K, n, StepTransform(s))
           /\ \A c \in {"phase_accumulation_cycle", "inverse_fisher_transform",
                        "super_smoother", "roofing_filter", "center_of_gravity",
                        "bandpass_filter", "dc_based_rsi", "cyber_cycle",
                        "hilbert_transform"} : Causal(K, n, CycleIndicator(c, s, p))
           /\ \A c \in {"adaptive_cycle_divergence", "dominant_cycle", "hilbert_phase",
                        "hilbert_sine", "hilbert_trendline", "itrend", "laguerre"} :
                  Causal(K, n, CycleTransform(c, s, p))
<1> DEFINE C(t) == Causal(K, n, t)
<1>1. /\ \A t : C(t) => C(Silent(t)) /\ C(Step(t)) /\ C(Accumulated(t))
      /\ \A t, u : C(t) /\ C(u) => C(Both(t, u))
      /\ \A t : \A q \in Nat : C(t) => C(Lagged(t, q)) /\ C(Rolling(t, q)) /\ C(Ema(t, q))
                                        /\ C(Wilder(t, q))
  BY Shapes, Averages
<1>2. p + 1 \in Nat /\ 1 \in Nat /\ Half(p) \in Nat /\ AtLeastOne(p \div 2) \in Nat
      /\ p \div 2 + 1 \in Nat /\ AtLeastTwo(p) \in Nat
  BY DEF Half, AtLeastOne, AtLeastTwo
<1>3. C(s)
  OBVIOUS
<1>4. C(Consecutive(s))
  <2>1. \A i \in 1..n : Within({}, K[i]) /\ Within(None, K[i]) /\ Within(Unbroken(s, i), K[i])
    BY UnbrokenWithin DEF Within
  <2>2. DOMAIN s = 1..n
    BY DEF Causal
  <2> QED
    BY <2>1, <2>2 DEF Consecutive, Causal
<1>5. C(Dpo(s, p))
  <2> DEFINE shift == p \div 2 + 1
             t == SingleRolling(s, p)
  <2>1. C(t)
    BY <1>1, <1>3 DEF SingleRolling
  <2>2. shift \in Nat
    BY <1>2
  <2> HIDE DEF shift, t
  <2>3. ASSUME NEW i \in 1..n, i > shift PROVE Within(Join({t[i], s[i - shift]}), K[i])
    <3>1. i - shift \in 1..n /\ i - shift <= i
      BY <2>2, <2>3
    <3>2. Within(s[i - shift], K[i - shift]) /\ K[i - shift] \subseteq K[i]
      BY <3>1 DEF Causal, Growing
    <3>3. Within(s[i - shift], K[i]) /\ Within(t[i], K[i])
      BY <2>1, <3>2 DEF Within, Causal
    <3> QED
      BY <3>3, JoinWithin
  <2>4. \A i \in 1..n :
            Within(IF i > shift THEN Join({t[i], s[i - shift]}) ELSE None, K[i])
    BY <2>3 DEF Within
  <2>5. DOMAIN s = 1..n
    BY DEF Causal
  <2> QED
    BY <2>4, <2>5 DEF Dpo, Causal, shift, t
<1> HIDE DEF C
<1>6. \A m \in {"wilder", "ema", "sma"} : C(Rsi(s, p, m))
  BY <1>1, <1>2, <1>3 DEF Rsi
<1>7. C(Macd(s, p)) /\ C(RegimeFilter(s, p)) /\ C(Tsi(s, p)) /\ C(Cusum(s))
      /\ C(StepTransform(s))
  BY <1>1, <1>2, <1>3 DEF Macd, RegimeFilter, Tsi, Cusum, StepTransform
<1>8. /\ C(Ema(s, p)) /\ C(Ema(s, AtLeastTwo(p)))
      /\ C(Momentum(s, 1)) /\ C(SingleRolling(s, p))
      /\ C(Momentum(Ema(s, p), AtLeastOne(p \div 2))) /\ C(Momentum(Ema(s, p), 1))
      /\ C(Step(s)) /\ C(Both(s, Ema(s, p)))
  BY <1>1, <1>2, <1>3 DEF Momentum, SingleRolling
<1>9. \A c \in {"phase_accumulation_cycle", "inverse_fisher_transform",
                "super_smoother", "roofing_filter", "center_of_gravity",
                "bandpass_filter", "dc_based_rsi", "cyber_cycle",
                "hilbert_transform"} : C(CycleIndicator(c, s, p))
  BY <1>3, <1>6, <1>8 DEF CycleIndicator
<1>10. \A c \in {"adaptive_cycle_divergence", "dominant_cycle", "hilbert_phase",
                 "hilbert_sine", "hilbert_trendline", "itrend", "laguerre"} :
           C(CycleTransform(c, s, p))
  BY <1>8 DEF CycleTransform
<1> QED
  BY <1>4, <1>5, <1>6, <1>7, <1>9, <1>10 DEF C

\* Statistics of a window of one series.
LEMMA Windows ==
    ASSUME NEW K, NEW n \in Nat, Growing(K, n), NEW s, Causal(K, n, s), NEW p \in Nat
    PROVE  /\ Causal(K, n, PreviousRollingMaximum(s, p))
           /\ Causal(K, n, HighLowBreakout(s, p))
           /\ Causal(K, n, VolumeBreakout(s, p))
           /\ Causal(K, n, Disparity(s, p))
           /\ Causal(K, n, RollingReturnVolatility(s, p))
           /\ Causal(K, n, VolatilityFilter(s, p))
           /\ Causal(K, n, LinearRegression(s, p))
           /\ Causal(K, n, Hurst(s, p))
<1>1. DOMAIN s = 1..n
  BY DEF Causal
<1>2. Causal(K, n, PreviousRollingMaximum(s, p))
  <2>1. ASSUME NEW i \in 1..n, i > p PROVE Within(Join(Cells(s, i - p, i - 1)), K[i])
    <3>1. i - p \in Nat \ {0} /\ i - 1 \in 0..i
      BY <2>1
    <3>2. \A c \in Cells(s, i - p, i - 1) : Within(c, K[i])
      BY <3>1, CellsWithin
    <3> QED
      BY <3>2, JoinWithin
  <2>2. \A i \in 1..n : Within(IF i > p THEN Join(Cells(s, i - p, i - 1)) ELSE None, K[i])
    BY <2>1 DEF Within
  <2> QED
    BY <1>1, <2>2 DEF Causal, PreviousRollingMaximum
<1>3. Causal(K, n, HighLowBreakout(s, p))
  BY <1>2, Shapes DEF HighLowBreakout
<1>4. Causal(K, n, VolumeBreakout(s, p))
  <2>1. Causal(K, n, Rolling(s, p))
    BY Shapes
  <2> QED
    BY <1>1, <1>3, <2>1 DEF Causal, VolumeBreakout
<1>5. /\ Causal(K, n, Silent(s)) /\ Causal(K, n, Rolling(s, p))
      /\ Causal(K, n, Both(s, Rolling(s, p)))
      /\ Causal(K, n, Rolling(Lagged(s, 1), p))
  <2>1. Causal(K, n, Silent(s)) /\ Causal(K, n, Rolling(s, p)) /\ Causal(K, n, Lagged(s, 1))
    BY Shapes
  <2> QED
    BY <2>1, Shapes
<1> QED
  BY <1>2, <1>3, <1>4, <1>5 DEF Disparity, SingleRolling, RollingReturnVolatility, Returns,
     VolatilityFilter, LinearRegression, Hurst

\* Ranges of the bars.
LEMMA Ranges ==
    ASSUME NEW K, NEW n \in Nat, Growing(K, n), NEW high, NEW low, Causal(K, n, high),
           Causal(K, n, low), NEW p \in Nat
    PROVE  /\ Causal(K, n, Aroon(high, low, p))
           /\ Causal(K, n, Donchian(high, low, p))
           /\ Causal(K, n, DonchianWidth(high, low, p))
           /\ Causal(K, n, SupportResistance(high, low, p))
           /\ Causal(K, n, Fisher(high, low, p))
           /\ Causal(K, n, Ichimoku(high, low, p))
           /\ Causal(K, n, ParabolicSar(high, low))
<1> DEFINE C(t) == Causal(K, n, t)
           row == Row(<<high, low>>)
<1>1. /\ \A t : C(t) => C(Silent(t)) /\ C(Accumulated(t))
      /\ \A t, u : C(t) /\ C(u) => C(Both(t, u))
      /\ \A t : \A q \in Nat : C(t) => C(Rolling(t, q))
  BY Shapes
<1>2. C(high) /\ C(row) /\ 2 * p \in Nat
  BY Rows
<1> HIDE DEF C, row
<1>3. /\ C(Rolling(row, p)) /\ C(Accumulated(Rolling(row, p)))
      /\ C(Both(Rolling(row, p), Rolling(row, 2 * p)))
      /\ C(Silent(high)) /\ C(Accumulated(row))
  BY <1>1, <1>2
<1> QED
  BY <1>3 DEF C, row, Aroon, Donchian, DonchianWidth, SupportResistance, Fisher, Ichimoku,
     ParabolicSar

\* Ranges of the bars and the close before.
LEMMA TrueRangesCausal ==
    ASSUME NEW K, NEW n \in Nat, Growing(K, n), NEW high, NEW low, NEW close,
           Causal(K, n, high), Causal(K, n, low), Causal(K, n, close)
    PROVE  Causal(K, n, TrueRanges(high, low, close))
<1>1. ASSUME NEW i \in 1..n, NEW cell, cell = IF i = 1 \/ close[i - 1] = None THEN Join({high[i], low[i]})
                                        ELSE Join({high[i], low[i], close[i - 1]})
      PROVE  Within(cell, K[i])
  <2>1. Within(high[i], K[i]) /\ Within(low[i], K[i])
    BY DEF Causal
  <2>2. i # 1 => Within(close[i - 1], K[i])
    <3>1. i # 1 => i - 1 \in 1..n /\ i - 1 <= i
      OBVIOUS
    <3>2. i # 1 => Within(close[i - 1], K[i - 1]) /\ K[i - 1] \subseteq K[i]
      BY <3>1 DEF Causal, Growing
    <3> QED
      BY <3>2 DEF Within
  <2>3. Within(Join({high[i], low[i]}), K[i])
    BY <2>1, JoinWithin
  <2>4. i # 1 => Within(Join({high[i], low[i], close[i - 1]}), K[i])
    BY <2>1, <2>2, JoinWithin
  <2> QED
    BY <1>1, <2>3, <2>4
<1>2. DOMAIN high = 1..n
  BY DEF Causal
<1> QED
  BY <1>1, <1>2 DEF TrueRanges, Causal

LEMMA TrueRangeIndicators ==
    ASSUME NEW K, NEW n \in Nat, Growing(K, n), NEW high, NEW low, NEW close,
           Causal(K, n, high), Causal(K, n, low), Causal(K, n, close), NEW p \in Nat
    PROVE  /\ Causal(K, n, Ibs(close, high, low))
           /\ Causal(K, n, TrueRanges(high, low, close))
           /\ Causal(K, n, Atr(high, low, close, p))
           /\ Causal(K, n, Adx(high, low, close, p))
           /\ Causal(K, n, Vortex(high, low, close, p))
           /\ Causal(K, n, Stochastic(high, low, close, p))
           /\ Causal(K, n, Cci(high, low, close, p))
           /\ Causal(K, n, Supertrend(high, low, close, p))
           /\ Causal(K, n, Keltner(high, low, close, p))
           /\ Causal(K, n, Both(Atr(high, low, close, p), close))
<1> DEFINE C(t) == Causal(K, n, t)
           before(s) == [i \in DOMAIN s |-> IF i = 1 THEN None ELSE s[i - 1]]
<1>1. /\ \A t : C(t) => C(Step(t))
      /\ \A t, u : C(t) /\ C(u) => C(Both(t, u)) /\ C(Row(<<t, u>>))
      /\ \A t, u, v : C(t) /\ C(u) /\ C(v) => C(Row(<<t, u, v>>))
      /\ \A t, u, v, w, x : C(t) /\ C(u) /\ C(v) /\ C(w) /\ C(x) => C(Row(<<t, u, v, w, x>>))
      /\ \A t : \A q \in Nat : C(t) => C(Rolling(t, q)) /\ C(Ema(t, q))
  BY Shapes, Rows, Averages
<1>2. C(high) /\ C(low) /\ C(close) /\ C(TrueRanges(high, low, close))
  BY TrueRangesCausal
<1>3. ASSUME NEW s, C(s) PROVE C(before(s))
  <2>1. ASSUME NEW i \in 1..n, i # 1 PROVE Within(s[i - 1], K[i])
    <3>1. i - 1 \in 1..n /\ i - 1 <= i
      BY <2>1
    <3>2. Within(s[i - 1], K[i - 1]) /\ K[i - 1] \subseteq K[i]
      BY <1>3, <3>1 DEF Causal, Growing
    <3> QED
      BY <3>2 DEF Within
  <2>2. DOMAIN s = 1..n /\ \A i \in 1..n : Within(None, K[i])
    BY <1>3 DEF Causal, Within
  <2> QED
    BY <2>1, <2>2 DEF Causal
<1>4. C(before(high)) /\ C(before(low)) /\ C(before(close))
  BY <1>2, <1>3
<1> HIDE DEF C, before
<1>5. C(Adx(high, low, close, p))
  <2> DEFINE moves == Row(<<high, low, before(high), before(low), before(close)>>)
  <2>1. C(moves)
    BY <1>1, <1>2, <1>4
  <2> HIDE DEF moves
  <2>2. C(SingleRolling(SingleRolling(moves, p), p))
    BY <1>1, <2>1 DEF SingleRolling
  <2> QED
    BY <2>2 DEF Adx, moves, before
<1>6. C(Atr(high, low, close, p))
  BY <1>1, <1>2 DEF Atr, SingleRolling
<1>7. /\ C(Ibs(close, high, low)) /\ C(Vortex(high, low, close, p))
      /\ C(Stochastic(high, low, close, p)) /\ C(Cci(high, low, close, p))
  BY <1>1, <1>2 DEF Ibs, Vortex, Stochastic, Cci
<1>8. C(Supertrend(high, low, close, p)) /\ C(Keltner(high, low, close, p))
      /\ C(Both(Atr(high, low, close, p), close))
  BY <1>1, <1>2, <1>6 DEF Supertrend, Keltner
<1> QED
  BY <1>2, <1>5, <1>6, <1>7, <1>8 DEF C

\* Prices and volumes.
LEMMA Volumes ==
    ASSUME NEW K, NEW n \in Nat, Growing(K, n), NEW close, NEW volume,
           Causal(K, n, close), Causal(K, n, volume)
    PROVE  /\ Causal(K, n, Obv(close, volume))
           /\ Causal(K, n, ForceIndex(close, volume))
           /\ Causal(K, n, Pvt(close, volume))
           /\ Causal(K, n, VolumeIndex(close, volume))
<1> DEFINE changes == [i \in DOMAIN close |->
                IF i = 1 \/ close[i - 1] = None THEN Join({close[i], volume[i]})
                                                ELSE Join({close[i], volume[i], close[i - 1]})]
           steps == [i \in DOMAIN close |->
                        IF i = 1 THEN close[1] ELSE Step(Row(<<close, volume>>))[i]]
<1>1. Causal(K, n, changes)
  <2>1. ASSUME NEW i \in 1..n PROVE Within(changes[i], K[i])
    <3>1. Within(close[i], K[i]) /\ Within(volume[i], K[i])
      BY DEF Causal
    <3>2. i # 1 => Within(close[i - 1], K[i])
      <4>1. i # 1 => i - 1 \in 1..n /\ i - 1 <= i
        OBVIOUS
      <4>2. i # 1 => Within(close[i - 1], K[i - 1]) /\ K[i - 1] \subseteq K[i]
        BY <4>1 DEF Causal, Growing
      <4> QED
        BY <4>2 DEF Within
    <3>3. Within(Join({close[i], volume[i]}), K[i])
      BY <3>1, JoinWithin
    <3>4. i # 1 => Within(Join({close[i], volume[i], close[i - 1]}), K[i])
      BY <3>1, <3>2, JoinWithin
    <3>5. i \in DOMAIN close
      BY DEF Causal
    <3> QED
      BY <3>3, <3>4, <3>5
  <2>2. DOMAIN changes = 1..n
    BY DEF Causal
  <2> HIDE DEF changes
  <2> QED
    BY <2>1, <2>2 DEF Causal
<1>2. Causal(K, n, Row(<<close, volume>>)) /\ Causal(K, n, Step(close))
  BY Shapes, Rows
<1>3. Causal(K, n, Step(Row(<<close, volume>>))) /\ Causal(K, n, Both(Step(close), volume))
  BY <1>2, Shapes
<1>4. Causal(K, n, steps)
  BY <1>3 DEF Causal
<1> HIDE DEF changes, steps
<1>5. /\ Causal(K, n, Accumulated(changes)) /\ Causal(K, n, Accumulated(steps))
      /\ Causal(K, n, Accumulated(Both(Step(close), volume)))
  BY <1>1, <1>3, <1>4, Shapes
<1> QED
  BY <1>3, <1>5 DEF Obv, ForceIndex, Pvt, VolumeIndex, changes, steps

\* The first three of four inputs.
LEMMA FirstThree ==
    ASSUME NEW series, series = [k \in 1..4 |-> series[k]]
    PROVE  /\ DOMAIN SubSeq(series, 1, 3) = 1..3
           /\ \A k \in 1..3 : SubSeq(series, 1, 3)[k] = series[k]
<1> DEFINE S == {series[k] : k \in 1..4}
<1>1. series \in [1..4 -> S]
  OBVIOUS
<1>2. series \in Seq(S)
  BY <1>1
<1>3. Len(series) = 4
  BY <1>1, <1>2
<1> QED
  BY <1>2, <1>3

\* Of all inputs together.
LEMMA WholeBars ==
    ASSUME NEW K, NEW n \in Nat, Growing(K, n), NEW series, NEW p \in Nat,
           1 \in DOMAIN series, \A k \in DOMAIN series : Causal(K, n, series[k])
    PROVE  /\ Causal(K, n, Row(series))
           /\ Causal(K, n, RangeVolatility(series, p))
           /\ Causal(K, n, Vwap(series))
           /\ Causal(K, n, Adl(series))
           /\ Causal(K, n, Cmf(series, p))
           /\ Causal(K, n, IntradayIntensity(series, p))
           /\ Causal(K, n, CandleMeasure(series))
           /\ \A c \in {"detect_marubozu", "detect_three_bar_reversal"} :
                  Causal(K, n, CandlePattern(c, series))
<1>1. Causal(K, n, Row(series)) /\ Causal(K, n, Rolling(series[1], 3))
  BY Shapes
<1>2. Causal(K, n, Rolling(Row(series), p)) /\ Causal(K, n, Accumulated(Row(series)))
  BY <1>1, Shapes
<1> QED
  BY <1>1, <1>2 DEF RangeVolatility, Vwap, Adl, Cmf, IntradayIntensity, CandleMeasure,
     CandlePattern

LEMMA MfiCausal ==
    ASSUME NEW K, NEW n \in Nat, Growing(K, n), NEW series, NEW p \in Nat,
           series = [k \in 1..4 |-> series[k]],
           \A k \in 1..4 : Causal(K, n, series[k])
    PROVE  Causal(K, n, Mfi(series, p))
<1> DEFINE typical == Row(SubSeq(series, 1, 3))
           flows == Rolling(Row(series), p)
<1>1. Causal(K, n, typical)
  <2> DEFINE three == SubSeq(series, 1, 3)
  <2>1. 1 \in DOMAIN three /\ \A k \in DOMAIN three : Causal(K, n, three[k])
    BY FirstThree
  <2> HIDE DEF three
  <2>2. Causal(K, n, Row(three))
    BY <2>1, Shapes
  <2> QED
    BY <2>2 DEF three
<1>2. Causal(K, n, flows)
  <2>1. 1 \in DOMAIN series /\ \A k \in DOMAIN series : Causal(K, n, series[k])
    OBVIOUS
  <2>2. Causal(K, n, Row(series))
    BY <2>1, Shapes
  <2> QED
    BY <2>2, Shapes
<1> HIDE DEF typical, flows
<1>3. ASSUME NEW i \in 1..n, ~(i <= p), flows[i] # None
      PROVE  Within(flows[i] \cup Present({typical[i - p]}), K[i])
  <2>1. i - p \in 1..n /\ i - p <= i
    BY <1>3
  <2>2. Within(typical[i - p], K[i - p]) /\ K[i - p] \subseteq K[i]
    BY <1>1, <2>1 DEF Causal, Growing
  <2>3. Within(typical[i - p], K[i])
    BY <2>2 DEF Within
  <2>4. Present({typical[i - p]}) \subseteq K[i]
    BY <2>3, PresentWithin
  <2>5. flows[i] \subseteq K[i]
    BY <1>2, <1>3 DEF Causal, Within
  <2> QED
    BY <2>4, <2>5 DEF Within
<1>4. \A i \in 1..n : Within(IF i <= p \/ flows[i] = None THEN None
                             ELSE flows[i] \cup Present({typical[i - p]}), K[i])
  BY <1>3 DEF Within
<1>5. DOMAIN typical = 1..n
  BY <1>1 DEF Causal
<1> QED
  BY <1>4, <1>5 DEF Mfi, Causal, typical, flows

LEMMA EaseOfMovementCausal ==
    ASSUME NEW K, NEW n \in Nat, Growing(K, n), NEW high, NEW low, NEW volume,
           Causal(K, n, high), Causal(K, n, low), Causal(K, n, volume), NEW p \in Nat
    PROVE  Causal(K, n, EaseOfMovement(high, low, volume, p))
<1>1. Causal(K, n, Row(<<high, low>>))
  BY Rows
<1>2. Causal(K, n, Step(Row(<<high, low>>)))
  BY <1>1, Shapes
<1>3. Causal(K, n, Both(Step(Row(<<high, low>>)), volume))
  BY <1>2, Shapes
<1> QED
  BY <1>3, Shapes DEF EaseOfMovement, SingleRolling

\* The candles that are compared with earlier ones raise where one is missing.
LEMMA ComparedCausal ==
    ASSUME NEW K, NEW n \in Nat, Growing(K, n), NEW series, NEW early \in BOOLEAN,
           1 \in DOMAIN series, \A k \in DOMAIN series : Causal(K, n, series[k])
    PROVE  /\ CausalOrRaises(K, n, Compared(series, early))
           /\ CausalOrRaises(K, n, Fractal(series, early))
<1> DEFINE row == Row(series)
           read == IF early THEN series[1] ELSE row
           earlier(k) == IF early THEN series[1][k] ELSE row[k]
<1>1. Causal(K, n, row) /\ Causal(K, n, series[1])
  BY Shapes
<1>2. \A k : earlier(k) = read[k]
  OBVIOUS
<1>3. Causal(K, n, read)
  BY <1>1
<1> HIDE DEF row, read
<1>4. DOMAIN row = 1..n
  BY <1>1 DEF Causal
<1>5. ASSUME NEW i \in 1..n, NEW j \in 1..i PROVE Within(read[j], K[i])
  <2>1. Within(read[j], K[j]) /\ K[j] \subseteq K[i]
    BY <1>3 DEF Causal, Growing
  <2> QED
    BY <2>1 DEF Within
<1>6. ASSUME NEW i \in 1..n, row[i] # None PROVE row[i] \subseteq K[i]
  BY <1>1, <1>6 DEF Causal, Within
<1>7. CausalOrRaises(K, n, Compared(series, early))
  <2> DEFINE missing == \E i \in DOMAIN row : i > 1 /\ row[i] # None /\ read[i - 1] = None
             answer == [i \in DOMAIN row |->
                           IF i = 1 \/ row[i] = None THEN None ELSE row[i] \cup read[i - 1]]
  <2>1. Compared(series, early) = IF missing THEN Raises ELSE answer
    BY <1>2 DEF Compared, row
  <2>2. ASSUME ~missing, NEW i \in 1..n PROVE Within(answer[i], K[i])
    <3>1. CASE i = 1 \/ row[i] = None
      BY <1>4, <3>1 DEF Within
    <3>2. CASE i # 1 /\ row[i] # None
      <4>1. i - 1 \in 1..i /\ i > 1
        BY <3>2
      <4>2. read[i - 1] # None
        BY <1>4, <2>2, <3>2, <4>1
      <4>3. read[i - 1] \subseteq K[i]
        BY <1>5, <4>1, <4>2 DEF Within
      <4> QED
        BY <1>4, <1>6, <3>2, <4>3 DEF Within
    <3> QED
      BY <3>1, <3>2
  <2>3. DOMAIN answer = 1..n
    BY <1>4
  <2>4. ~missing => Causal(K, n, answer)
    <3> HIDE DEF answer, missing
    <3> QED
      BY <2>2, <2>3 DEF Causal
  <2> HIDE DEF answer, missing
  <2> QED
    BY <2>1, <2>4 DEF CausalOrRaises
<1>8. CausalOrRaises(K, n, Fractal(series, early))
  <2> DEFINE both(i) == Join({earlier(i - 1), earlier(i - 2)})
             missing == \E i \in DOMAIN row : i > 2 /\ row[i] # None /\ both(i) = None
             answer == [i \in DOMAIN row |->
                           CASE i = 1 \/ row[i] = None -> None
                             [] i = 2 /\ row[i] # None -> row[i]
                             [] i > 2 /\ row[i] # None -> row[i] \cup both(i)]
  <2>1. Fractal(series, early) = IF missing THEN Raises ELSE answer
    BY DEF Fractal, row
  <2>2. ASSUME ~missing, NEW i \in 1..n PROVE Within(answer[i], K[i])
    <3>1. CASE i = 1 \/ row[i] = None
      BY <1>4, <3>1 DEF Within
    <3>2. CASE i = 2 /\ row[i] # None
      BY <1>4, <1>6, <3>2 DEF Within
    <3>3. CASE i > 2 /\ row[i] # None
      <4>1. i - 1 \in 1..i /\ i - 2 \in 1..i
        BY <3>3
      <4>2. Within(both(i), K[i])
        <5>1. Within(earlier(i - 1), K[i]) /\ Within(earlier(i - 2), K[i])
          BY <1>2, <1>5, <4>1
        <5> QED
          BY <5>1, JoinWithin
      <4>3. both(i) # None
        BY <1>4, <2>2, <3>3
      <4> HIDE DEF both
      <4>4. both(i) \subseteq K[i] /\ row[i] \subseteq K[i]
        BY <1>6, <3>3, <4>2, <4>3 DEF Within
      <4>5. answer[i] = row[i] \cup both(i)
        BY <1>4, <3>3
      <4> HIDE DEF answer
      <4> QED
        BY <4>4, <4>5 DEF Within
    <3>4. i = 1 \/ i = 2 \/ i > 2
      OBVIOUS
    <3> HIDE DEF answer
    <3> QED
      BY <3>1, <3>2, <3>3, <3>4
  <2>3. DOMAIN answer = 1..n
    BY <1>4
  <2>4. ~missing => Causal(K, n, answer)
    <3> HIDE DEF answer, missing
    <3> QED
      BY <2>2, <2>3 DEF Causal
  <2> HIDE DEF answer, missing
  <2> QED
    BY <2>1, <2>4 DEF CausalOrRaises
<1> QED
  BY <1>7, <1>8

LEMMA PriceActions ==
    ASSUME NEW K, NEW n \in Nat, Growing(K, n), NEW series, NEW early \in BOOLEAN,
           1 \in DOMAIN series, \A k \in DOMAIN series : Causal(K, n, series[k]),
           NEW c \in {"inside_bar", "outside_bar", "higher_high_lower_low", "fractal", "doji",
                      "hammer", "engulfing", "pin_bar", "shooting_star", "morning_star",
                      "evening_star"}
    PROVE  CausalOrRaises(K, n, PriceAction(c, series, early))
<1> DEFINE row == Row(series)
           pairs == [i \in DOMAIN series[1] |->
                        Present(Cells(row, IF i = 1 THEN 1 ELSE i - 1, i))]
<1>1. Causal(K, n, row)
  BY Shapes
<1>2. DOMAIN series[1] = 1..n
  BY DEF Causal
<1> HIDE DEF row
<1>3. Causal(K, n, pairs)
  <2>1. ASSUME NEW i \in 1..n PROVE Within(pairs[i], K[i])
    <3> DEFINE from == IF i = 1 THEN 1 ELSE i - 1
    <3>1. from \in Nat \ {0} /\ i \in 0..i
      OBVIOUS
    <3> HIDE DEF from
    <3>2. \A x \in Cells(row, from, i) : Within(x, K[i])
      BY <1>1, <3>1, CellsWithin
    <3>3. Present(Cells(row, from, i)) \subseteq K[i]
      BY <3>2, PresentWithin
    <3> QED
      BY <1>2, <3>3 DEF Within, from
  <2>2. DOMAIN pairs = 1..n
    BY <1>2
  <2> HIDE DEF pairs
  <2> QED
    BY <2>1, <2>2 DEF Causal
<1>4. /\ CausalOrRaises(K, n, Compared(series, early))
      /\ CausalOrRaises(K, n, Fractal(series, early))
  BY ComparedCausal
<1> HIDE DEF pairs
<1> QED
  BY <1>1, <1>3, <1>4 DEF CausalOrRaises, PriceAction, row, pairs
-----------------------------------------------------------------------------
(* The dispatch. *)

TwoInputs ==
    {"vwma", "rolling_correlation", "spread", "volume_delta", "smoothed_obv", "pvi", "nvi",
     "obv", "force_index", "pvt", "aroon", "ichimoku", "parabolic_sar", "donchian", "fisher",
     "mass_index", "chaikin_volatility", "qstick", "support_resistance",
     "donchian_channel_width"}

ThreeInputs ==
    {"stochastic", "williams_r", "cci", "vortex", "supertrend", "true_range", "keltner",
     "normalized_atr", "ultimate_oscillator", "smi", "atr_percent", "normalized_atr_percent",
     "atr", "adx", "ibs", "dmi_adx", "ease_of_movement"}

FourInputs == {"mfi", "klinger"}

\* The catalog gives every calculator the inputs that it reads.
LEMMA CatalogFeeds ==
    ASSUME NEW c \in FeatureNames
    PROVE  /\ 1 \in DOMAIN InputsOf(c)
           /\ c \in TwoInputs => 2 \in DOMAIN InputsOf(c)
           /\ c \in ThreeInputs => 2 \in DOMAIN InputsOf(c) /\ 3 \in DOMAIN InputsOf(c)
           /\ c \in FourInputs => DOMAIN InputsOf(c) = 1..4
<1>1. /\ DOMAIN HL = 1..2 /\ DOMAIN HLC = 1..3 /\ DOMAIN HLCV = 1..4 /\ DOMAIN OHLC = 1..4
      /\ DOMAIN OCHL = 1..4 /\ DOMAIN CV = 1..2 /\ DOMAIN <<"close">> = 1..1
      /\ DOMAIN <<"volume">> = 1..1 /\ DOMAIN <<"session">> = 1..1
      /\ DOMAIN <<"close", "open">> = 1..2 /\ DOMAIN <<"open", "close">> = 1..2
      /\ DOMAIN <<"close", "high", "low">> = 1..3
      /\ DOMAIN <<"high", "low", "volume">> = 1..3
      /\ DOMAIN <<"close", "high", "low", "volume">> = 1..4
  BY DEF HL, HLC, HLCV, OHLC, OCHL, CV
<1>2. 1 \in DOMAIN InputsOf(c)
  <2>1. /\ 1 \in DOMAIN DefinitionInputs(c) /\ 1 \in DOMAIN ProposedInputs(c)
        /\ 1 \in DOMAIN UnlistedInputs(c) /\ 1 \in DOMAIN IndicatorInputs(c)
    BY <1>1 DEF DefinitionInputs, ProposedInputs, UnlistedInputs, IndicatorInputs
  <2> QED
    BY <2>1 DEF InputsOf
<1>3. c \in TwoInputs => 2 \in DOMAIN InputsOf(c)
  BY <1>1 DEF TwoInputs, InputsOf, Definitions, Proposed, Unlisted, DefinitionInputs,
     ProposedInputs, UnlistedInputs, IndicatorInputs
<1>4. c \in ThreeInputs => 2 \in DOMAIN InputsOf(c) /\ 3 \in DOMAIN InputsOf(c)
  <2> SUFFICES ASSUME c \in ThreeInputs PROVE 2 \in DOMAIN InputsOf(c) /\ 3 \in DOMAIN InputsOf(c)
    OBVIOUS
  <2>1. CASE c \in {"stochastic", "williams_r", "cci", "vortex", "supertrend", "true_range",
                    "keltner", "normalized_atr", "atr"}
    <3>1. /\ c \in Definitions /\ c \notin Proposed /\ c \notin Unlisted
          /\ DefinitionInputs(c) = HLC
      BY <2>1 DEF Definitions, Proposed, Unlisted, DefinitionInputs
    <3>2. InputsOf(c) = DefinitionInputs(c)
      BY <3>1 DEF InputsOf
    <3> QED
      BY <1>1, <3>1, <3>2
  <2>2. CASE c \in {"ultimate_oscillator", "smi", "atr_percent", "normalized_atr_percent",
                    "dmi_adx", "ease_of_movement"}
    <3>1. c \in Proposed /\ c \notin Definitions /\ c \notin Unlisted
      BY <2>2 DEF Proposed, Definitions, Unlisted
    <3>2. ProposedInputs(c) = HLC \/ ProposedInputs(c) = <<"high", "low", "volume">>
      BY <2>2 DEF ProposedInputs
    <3>3. InputsOf(c) = ProposedInputs(c)
      BY <3>1 DEF InputsOf
    <3> QED
      BY <1>1, <3>2, <3>3
  <2>3. CASE c \in {"adx", "ibs"}
    <3>1. c \notin Definitions /\ c \notin Proposed /\ c \notin Unlisted
      BY <2>3 DEF Definitions, Proposed, Unlisted
    <3>2. IndicatorInputs(c) = HLC \/ IndicatorInputs(c) = <<"close", "high", "low">>
      BY <2>3 DEF IndicatorInputs
    <3>3. InputsOf(c) = IndicatorInputs(c)
      BY <3>1 DEF InputsOf
    <3> QED
      BY <1>1, <3>2, <3>3
  <2> QED
    BY <2>1, <2>2, <2>3 DEF ThreeInputs
<1>5. c \in FourInputs => DOMAIN InputsOf(c) = 1..4
  <2>1. CASE c = "mfi"
    <3>1. /\ c \in Definitions /\ c \notin Proposed /\ c \notin Unlisted
          /\ DefinitionInputs(c) = HLCV
      BY <2>1 DEF Definitions, Proposed, Unlisted, DefinitionInputs
    <3>2. InputsOf(c) = DefinitionInputs(c)
      BY <3>1 DEF InputsOf
    <3> QED
      BY <1>1, <3>1, <3>2
  <2>2. CASE c = "klinger"
    <3>1. c \in Proposed /\ c \notin Definitions /\ c \notin Unlisted
      BY <2>2 DEF Proposed, Definitions, Unlisted
    <3>2. ProposedInputs(c) = HLCV
      BY <2>2 DEF ProposedInputs
    <3>3. InputsOf(c) = ProposedInputs(c)
      BY <3>1 DEF InputsOf
    <3> QED
      BY <1>1, <3>2, <3>3
  <2> QED
    BY <2>1, <2>2 DEF FourInputs
<1> QED
  BY <1>2, <1>3, <1>4, <1>5

\* A calculator and the series it is called with.
Fed(K, n, c, s) ==
    /\ 1 \in DOMAIN s
    /\ \A k \in DOMAIN s : Causal(K, n, s[k])
    /\ c \in TwoInputs => 2 \in DOMAIN s
    /\ c \in ThreeInputs => 2 \in DOMAIN s /\ 3 \in DOMAIN s
    /\ c \in FourInputs => s = [k \in 1..4 |-> s[k]]

\* The second half of _additional_indicator.
LEMMA FurtherIndicators ==
    ASSUME NEW K, NEW n \in Nat, Growing(K, n), NEW p \in Nat, NEW early \in BOOLEAN,
           NEW c, NEW s, Fed(K, n, c, s)
    PROVE  CausalOrRaises(K, n, FurtherIndicator(c, s, p, early))
<1> DEFINE C(t) == Causal(K, n, t)
           R(t) == CausalOrRaises(K, n, t)
<1>1. \A t : C(t) => R(t)
  BY DEF CausalOrRaises
<1>2. /\ \A t, u : C(t) /\ C(u) => C(Both(t, u)) /\ C(Row(<<t, u>>))
      /\ \A t : \A q \in Nat : C(t) => C(Lagged(t, q)) /\ C(Rolling(t, q)) /\ C(Ema(t, q))
  BY Shapes, Averages, Rows
<1>3. C(s[1]) /\ (c \in TwoInputs => C(s[2])) /\ (c \in ThreeInputs => C(s[2]) /\ C(s[3]))
      /\ (c \in FourInputs => C(s[3]) /\ C(s[4]))
  BY DEF Fed
<1>4. \A t : \A q \in Nat : C(t) => C(Rsi(t, q, "sma")) /\ C(Macd(t, q))
  BY Oscillators
<1>5. \A c1 \in {"evening_star", "morning_star", "pin_bar", "shooting_star"} :
          R(PriceAction(c1, s, early))
  BY PriceActions DEF Fed
<1>6. /\ C(Row(s)) /\ C(Vwap(s)) /\ C(Cmf(s, p)) /\ C(IntradayIntensity(s, p))
      /\ C(CandleMeasure(s))
      /\ \A c1 \in {"detect_marubozu", "detect_three_bar_reversal"} : C(CandlePattern(c1, s))
  BY WholeBars DEF Fed
<1>7. /\ C(LinearRegression(s[1], p)) /\ C(HighLowBreakout(s[1], p))
      /\ \A c1 \in {"phase_accumulation_cycle", "inverse_fisher_transform",
                    "super_smoother", "roofing_filter", "center_of_gravity",
                    "bandpass_filter", "dc_based_rsi", "cyber_cycle", "hilbert_transform"} :
             C(CycleIndicator(c1, s[1], p))
  BY <1>3, Windows, Oscillators
<1>8. C(TimeSinceExtreme(s[1]))
  BY <1>3, Shapes DEF TimeSinceExtreme
<1>9. /\ c = "klinger" => C(ForceIndex(s[3], s[4]))
      /\ c \in TwoInputs => /\ C(SupportResistance(s[1], s[2], p))
                            /\ C(DonchianWidth(s[1], s[2], p))
      /\ c = "dmi_adx" => C(Adx(s[1], s[2], s[3], p))
      /\ c = "ease_of_movement" => C(EaseOfMovement(s[1], s[2], s[3], p))
  BY <1>3, Volumes, Ranges, TrueRangeIndicators, EaseOfMovementCausal DEF FourInputs, ThreeInputs
<1>10. 1 \in Nat /\ (IF p < 3 THEN p ELSE 3) \in Nat /\ AtLeastTwo(p) \in Nat
  BY DEF AtLeastTwo
<1> HIDE DEF C, R
<1>11. /\ C(Rsi(s[1], IF p < 3 THEN p ELSE 3, "sma"))
       /\ C(Returns(s[1], 1)) /\ C(Returns(s[1], p)) /\ C(Momentum(s[1], p))
       /\ C(Momentum(s[1], 1)) /\ C(Momentum(Ema(s[1], p), 1))
       /\ C(Ema(s[1], AtLeastTwo(p))) /\ C(RollingZscore(s[1], p))
       /\ C(SmaValues(s[1], p)) /\ C(SingleRolling(s[1], p)) /\ C(Entropy(s[1], p))
       /\ C(Percentile(Macd(s[1], p), p)) /\ C(Macd(Vwap(s), p))
       /\ C(SingleRolling(Returns(s[1], 1), p))
  BY <1>2, <1>3, <1>4, <1>6, <1>10 DEF Returns, Momentum, RollingZscore, SmaValues,
     SingleRolling, Entropy, Percentile
<1>12. /\ c \in TwoInputs => /\ C(Returns(Ema(Row(<<s[1], s[2]>>), p), 1))
                             /\ C(SingleRolling(Row(<<s[1], s[2]>>), p))
       /\ c = "klinger" => C(Ema(ForceIndex(s[3], s[4]), p))
  BY <1>2, <1>3, <1>9, <1>10 DEF Returns, SingleRolling
<1>13. {"chaikin_volatility", "qstick", "support_resistance", "donchian_channel_width"}
           \subseteq TwoInputs
  BY DEF TwoInputs
<1>14. R(Raises)
  BY DEF R, CausalOrRaises
<1> QED
  BY <1>1, <1>5, <1>6, <1>7, <1>8, <1>9, <1>11, <1>12, <1>13, <1>14 DEF FurtherIndicator, R

LEMMA AdditionalIndicators ==
    ASSUME NEW K, NEW n \in Nat, Growing(K, n), NEW p \in Nat, NEW early \in BOOLEAN,
           NEW c, NEW s, Fed(K, n, c, s)
    PROVE  CausalOrRaises(K, n, AdditionalIndicator(c, s, p, early))
<1> DEFINE C(t) == Causal(K, n, t)
           R(t) == CausalOrRaises(K, n, t)
<1>1. \A t : C(t) => R(t)
  BY DEF CausalOrRaises
<1>2. /\ \A t, u : C(t) /\ C(u) => C(Both(t, u)) /\ C(Row(<<t, u>>))
      /\ \A t : \A q \in Nat : C(t) => C(Lagged(t, q)) /\ C(Rolling(t, q)) /\ C(Ema(t, q))
  BY Shapes, Averages, Rows
<1>3. C(s[1]) /\ (c \in TwoInputs => C(s[2])) /\ (c \in ThreeInputs => C(s[2]) /\ C(s[3]))
  BY DEF Fed
<1>4. \A t : \A q \in Nat : C(t) => C(Rsi(t, q, "sma")) /\ C(Macd(t, q))
  BY Oscillators
<1>5. \A c1 \in {"engulfing", "doji", "hammer", "inside_bar", "outside_bar",
                 "higher_high_lower_low", "fractal"} : R(PriceAction(c1, s, early))
  BY PriceActions DEF Fed
<1>6. C(Row(s)) /\ C(RangeVolatility(s, p))
  BY WholeBars DEF Fed
<1>7. /\ R(Mcginley(s[1], p)) /\ C(StepTransform(s[1]))
      /\ \A c1 \in {"adaptive_cycle_divergence", "dominant_cycle", "hilbert_phase",
                    "hilbert_sine", "hilbert_trendline", "itrend", "laguerre"} :
             C(CycleTransform(c1, s[1], p))
  BY <1>3, MovingAverages, Oscillators
<1>8. /\ c \in TwoInputs => /\ C(ForceIndex(s[1], s[2])) /\ C(Obv(s[1], s[2]))
                            /\ C(VolumeIndex(s[1], s[2]))
      /\ c \in ThreeInputs => /\ C(Stochastic(s[1], s[2], s[3], p))
                              /\ C(Both(Atr(s[1], s[2], s[3], p), s[3]))
  BY <1>3, Volumes, TrueRangeIndicators
<1>9. R(FurtherIndicator(c, s, p, early))
  BY FurtherIndicators
<1>10. p + 1 \in Nat /\ 1 \in Nat /\ 9 \in Nat /\ 2 * p \in Nat
  OBVIOUS
<1> HIDE DEF C, R
<1>11. /\ C(SingleRolling(SingleRolling(s[1], p), p)) /\ C(Ema(s[1], p))
       /\ C(Rsi(s[1], p, "sma")) /\ C(Cmo(s[1], p))
       /\ C(Both(Ema(s[1], p), Ema(Ema(s[1], p), p)))
       /\ C(Percentile(Rsi(s[1], p, "sma"), p)) /\ C(SingleRolling(Returns(s[1], 1), p))
       /\ C(Ema(Rsi(s[1], p, "sma"), p)) /\ C(Ema(Macd(s[1], p), 9))
       /\ C(Both(Macd(s[1], p), Ema(Macd(s[1], p), 9)))
       /\ C(SingleRolling(LogReturns(s[1], 1), p))
       /\ C(Both(Ema(s[1], p), Ema(s[1], 2 * p))) /\ C(Returns(s[1], p))
       /\ C(StatisticalTransform(s[1], p))
  BY <1>2, <1>3, <1>4, <1>10 DEF Returns, LogReturns, SingleRolling, Percentile, Cmo,
     StatisticalTransform
<1>12. c \in TwoInputs =>
           /\ C(Vwma(s[1], s[2], p)) /\ C(Ema(Obv(s[1], s[2]), p))
           /\ C(Ema(Row(<<s[1], s[2]>>), p))
  BY <1>2, <1>3, <1>8 DEF Vwma
<1>13. c \in TwoInputs =>
           C(SingleRolling(Both(Ema(Row(<<s[1], s[2]>>), p), Ema(Ema(Row(<<s[1], s[2]>>), p), p)), p))
  BY <1>2, <1>12 DEF SingleRolling
<1>14. /\ {"vwma", "mass_index", "volume_delta", "smoothed_obv", "pvi", "nvi"} \subseteq TwoInputs
       /\ {"ultimate_oscillator", "smi", "atr_percent", "normalized_atr_percent"}
              \subseteq ThreeInputs
  BY DEF TwoInputs, ThreeInputs
<1> QED
  BY <1>1, <1>3, <1>4, <1>5, <1>6, <1>7, <1>8, <1>9, <1>11, <1>12, <1>13, <1>14
     DEF AdditionalIndicator, R

LEMMA ExtendedIndicators ==
    ASSUME NEW K, NEW n \in Nat, Growing(K, n), NEW p \in Nat, NEW early \in BOOLEAN,
           NEW c, NEW s, Fed(K, n, c, s)
    PROVE  CausalOrRaises(K, n, ExtendedIndicator(c, s, p, early))
<1> DEFINE C(t) == Causal(K, n, t)
           R(t) == CausalOrRaises(K, n, t)
<1>1. \A t : C(t) => R(t)
  BY DEF CausalOrRaises
<1>2. \A t : \A q \in Nat : C(t) => C(Lagged(t, q)) /\ C(Rolling(t, q)) /\ C(Ema(t, q))
  BY Shapes, Averages
<1>3. C(s[1]) /\ (c \in TwoInputs => C(s[2])) /\ (c \in ThreeInputs => C(s[2]) /\ C(s[3]))
  BY DEF Fed
<1>4. C(Vwap(s)) /\ C(Adl(s)) /\ C(Cmf(s, p))
  BY WholeBars DEF Fed
<1>5. c = "mfi" => C(Mfi(s, p))
  <2> SUFFICES ASSUME c = "mfi" PROVE C(Mfi(s, p))
    OBVIOUS
  <2>1. s = [k \in 1..4 |-> s[k]] /\ \A k \in DOMAIN s : Causal(K, n, s[k])
    BY DEF Fed, FourInputs
  <2>2. \A k \in 1..4 : Causal(K, n, s[k])
    BY <2>1
  <2> QED
    BY <2>1, <2>2, MfiCausal
<1>6. /\ C(Tsi(s[1], p)) /\ C(Dpo(s[1], p)) /\ C(Hurst(s[1], p)) /\ C(Cusum(s[1]))
  BY <1>3, Oscillators, Windows
<1>7. c \in TwoInputs =>
          /\ C(Aroon(s[1], s[2], p)) /\ C(Ichimoku(s[1], s[2], p)) /\ C(ParabolicSar(s[1], s[2]))
          /\ C(Donchian(s[1], s[2], p)) /\ C(Fisher(s[1], s[2], p))
          /\ C(Obv(s[1], s[2])) /\ C(ForceIndex(s[1], s[2])) /\ C(Pvt(s[1], s[2]))
  BY <1>3, Ranges, Volumes
<1>8. c \in ThreeInputs =>
          /\ C(Stochastic(s[1], s[2], s[3], p)) /\ C(Cci(s[1], s[2], s[3], p))
          /\ C(Vortex(s[1], s[2], s[3], p)) /\ C(Supertrend(s[1], s[2], s[3], p))
          /\ C(TrueRanges(s[1], s[2], s[3])) /\ C(Keltner(s[1], s[2], s[3], p))
          /\ C(Both(Atr(s[1], s[2], s[3], p), s[3]))
  BY <1>3, TrueRangeIndicators
<1>9. R(AdditionalIndicator(c, s, p, early))
  BY AdditionalIndicators
<1>10. p + 1 \in Nat /\ 1 \in Nat
  OBVIOUS
<1> HIDE DEF C, R
<1>11. /\ C(Returns(Ema(Ema(Ema(s[1], p), p), p), 1)) /\ C(BollingerDerived(s[1], p))
       /\ C(UlcerIndex(s[1], p)) /\ C(RollingZscore(s[1], p)) /\ C(Entropy(s[1], p))
       /\ C(LogReturns(s[1], p))
  BY <1>2, <1>3, <1>10 DEF Returns, BollingerDerived, UlcerIndex, RollingZscore, Entropy, LogReturns
<1>12. /\ {"aroon", "ichimoku", "parabolic_sar", "donchian", "obv", "force_index", "pvt", "fisher"}
              \subseteq TwoInputs
       /\ {"stochastic", "williams_r", "cci", "vortex", "supertrend", "true_range", "keltner",
           "normalized_atr"} \subseteq ThreeInputs
  BY DEF TwoInputs, ThreeInputs
<1> QED
  BY <1>1, <1>4, <1>5, <1>6, <1>7, <1>8, <1>9, <1>11, <1>12 DEF ExtendedIndicator, R

LEMMA Calculated ==
    ASSUME NEW K, NEW n \in Nat, Growing(K, n), NEW p \in Nat, NEW early \in BOOLEAN,
           NEW c, NEW s, Fed(K, n, c, s)
    PROVE  CausalOrRaises(K, n, CalculateFeature(c, s, p, early))
<1> DEFINE C(t) == Causal(K, n, t)
           R(t) == CausalOrRaises(K, n, t)
<1>1. (\A t : C(t) => R(t)) /\ R(Raises)
  BY DEF CausalOrRaises
<1>2. /\ \A t, u : C(t) /\ C(u) => C(Row(<<t, u>>))
      /\ \A t : \A q \in Nat : C(t) => C(Lagged(t, q)) /\ C(Rolling(t, q)) /\ C(Ema(t, q))
  BY Shapes, Averages, Rows
<1>3. C(s[1]) /\ (c \in TwoInputs => C(s[2])) /\ (c \in ThreeInputs => C(s[2]) /\ C(s[3]))
  BY DEF Fed
<1>4. \A c1 \in {"wma", "hma", "dema", "tema", "kama", "wilder"} :
          R(MovingAverageVariant(c1, s[1], p))
  BY <1>3, MovingAverages
<1>5. /\ \A m \in {"wilder", "ema", "sma"} : C(Rsi(s[1], p, m))
      /\ C(Macd(s[1], p)) /\ C(RegimeFilter(s[1], p)) /\ C(Consecutive(s[1]))
  BY <1>3, Oscillators
<1>6. /\ C(PreviousRollingMaximum(s[1], p)) /\ C(Disparity(s[1], p))
      /\ C(RollingReturnVolatility(s[1], p)) /\ C(VolumeBreakout(s[1], p))
      /\ C(VolatilityFilter(s[1], p))
  BY <1>3, Windows
<1>7. c \in ThreeInputs =>
          C(Ibs(s[1], s[2], s[3])) /\ C(Atr(s[1], s[2], s[3], p)) /\ C(Adx(s[1], s[2], s[3], p))
  <2> SUFFICES ASSUME c \in ThreeInputs
               PROVE  C(Ibs(s[1], s[2], s[3])) /\ C(Atr(s[1], s[2], s[3], p))
                      /\ C(Adx(s[1], s[2], s[3], p))
    OBVIOUS
  <2>1. C(Ibs(s[1], s[2], s[3]))
    BY <1>3, TrueRangeIndicators
  <2> QED
    BY <1>3, <2>1, TrueRangeIndicators
<1>8. R(ExtendedIndicator(c, s, p, early))
  BY ExtendedIndicators
<1> HIDE DEF C, R
<1>9. /\ C(SingleRolling(s[1], p)) /\ C(Ema(s[1], p)) /\ C(Returns(s[1], p))
      /\ C(PercentChange(s[1], p)) /\ C(RollingZscore(s[1], p)) /\ C(Percentile(s[1], p))
      /\ C(Bollinger(s[1], p)) /\ C(RollingHighRatio(s[1], p))
  BY <1>2, <1>3 DEF SingleRolling, Returns, PercentChange, RollingZscore, Percentile, Bollinger,
     RollingHighRatio
<1>10. c \in TwoInputs => C(Spread(s[1], s[2])) /\ C(RollingCorrelation(s[1], s[2], p))
  BY <1>2, <1>3 DEF Spread, RollingCorrelation
<1>11. {"spread", "rolling_correlation"} \subseteq TwoInputs /\ {"ibs", "atr", "adx"} \subseteq ThreeInputs
  BY DEF TwoInputs, ThreeInputs
<1> QED
  BY <1>1, <1>4, <1>5, <1>6, <1>7, <1>8, <1>9, <1>10, <1>11 DEF CalculateFeature, R
-----------------------------------------------------------------------------
(* The inputs, and what is known at every bar. *)

Observation == [at : Nat \ {0}, available : Nat]

\* The bars up to this one, and the observations made and available by then.
Knowledge(n, obs) ==
    [i \in 1..n |->
        {<<"bar", w>> : w \in 1..i}
        \cup {<<"observation", o.at>> : o \in {o \in obs : o.at <= i /\ o.available <= i}}]

LEMMA KnowledgeGrows ==
    ASSUME NEW n \in Nat, NEW obs \in SUBSET Observation
    PROVE  Growing(Knowledge(n, obs), n)
<1> SUFFICES ASSUME NEW i \in 1..n, NEW j \in 1..n, i <= j
             PROVE  Knowledge(n, obs)[i] \subseteq Knowledge(n, obs)[j]
  BY DEF Growing
<1>1. {<<"bar", w>> : w \in 1..i} \subseteq {<<"bar", w>> : w \in 1..j}
  OBVIOUS
<1>2. {o \in obs : o.at <= i /\ o.available <= i} \subseteq {o \in obs : o.at <= j /\ o.available <= j}
  BY DEF Observation
<1> QED
  BY <1>1, <1>2 DEF Knowledge

\* Alignment looks only at what was made and is available.
LEMMA AlignedCausal ==
    ASSUME NEW n \in Nat, NEW obs \in SUBSET Observation
    PROVE  Causal(Knowledge(n, obs), n, Aligned(n, obs))
<1> DEFINE seen == ResampleCompleted(obs, spec.timeframe)
           K == Knowledge(n, obs)
<1>1. seen \in SUBSET obs
  BY DEF ResampleCompleted
<1> HIDE DEF seen
<1>2. ASSUME NEW i \in 1..n PROVE Within(AlignAsOf(n, seen)[i], K[i])
  <2> DEFINE usable == {o.at : o \in {o \in seen : o.at <= i /\ o.available <= i}}
  <2>1. i \in Nat /\ usable \in SUBSET (1..i)
    BY <1>1 DEF Observation
  <2>2. AlignAsOf(n, seen)[i] = IF usable = {} THEN None ELSE {<<"observation", Max(usable)>>}
    BY DEF AlignAsOf
  <2>3. CASE usable = {}
    BY <2>2, <2>3 DEF Within
  <2>4. CASE usable # {}
    <3>1. Max(usable) \in usable
      <4> HIDE DEF usable
      <4> QED
        BY <2>1, <2>4, LastBar
    <3>2. PICK o \in seen : o.at <= i /\ o.available <= i /\ o.at = Max(usable)
      BY <3>1
    <3>3. <<"observation", o.at>> \in K[i]
      BY <1>1, <3>2 DEF Knowledge
    <3> QED
      BY <2>2, <2>4, <3>2, <3>3 DEF Within
  <2> QED
    BY <2>3, <2>4
<1>3. DOMAIN AlignAsOf(n, seen) = 1..n
  BY DEF AlignAsOf
<1> QED
  BY <1>2, <1>3 DEF Causal, Aligned, seen

\* Every calculator gets causal series, and as many as it reads.
LEMMA SeriesFed ==
    ASSUME spec \in Specs, NEW b \in Seq(SUBSET Fields), NEW obs \in SUBSET Observation
    PROVE  Fed(Knowledge(Len(b), obs), Len(b), spec.name, Series(b, obs))
<1> DEFINE n == Len(b)
           K == Knowledge(n, obs)
           s == Series(b, obs)
<1>1. n \in Nat /\ DOMAIN b = 1..n
  OBVIOUS
<1>2. spec.name \in FeatureNames
  BY FeaturesAssumption
<1>3. DOMAIN s = DOMAIN InputsOf(spec.name) /\ s = [k \in DOMAIN InputsOf(spec.name) |-> s[k]]
  BY DEF Series, Inputs
<1>4. ASSUME NEW k \in DOMAIN s PROVE Causal(K, n, s[k])
  <2> DEFINE field == [i \in DOMAIN b |-> IF Inputs[k] \in b[i] THEN None ELSE {<<"bar", i>>}]
  <2>1. s[k] = IF k = 1 /\ spec.external THEN Aligned(n, obs) ELSE field
    BY <1>3 DEF Series, Inputs
  <2>2. \A i \in 1..n : {<<"bar", i>>} \subseteq K[i]
    BY DEF Knowledge
  <2>3. Causal(K, n, field)
    <3> HIDE DEF K
    <3> QED
      BY <1>1, <2>2 DEF Causal, Within
  <2>4. Causal(K, n, Aligned(n, obs))
    BY <1>1, AlignedCausal
  <2> HIDE DEF field, K, s, n
  <2> QED
    BY <2>1, <2>3, <2>4
<1> HIDE DEF s, K
<1>5. /\ 1 \in DOMAIN s
      /\ spec.name \in TwoInputs => 2 \in DOMAIN s
      /\ spec.name \in ThreeInputs => 2 \in DOMAIN s /\ 3 \in DOMAIN s
      /\ spec.name \in FourInputs => DOMAIN s = 1..4
  BY <1>2, <1>3, CatalogFeeds
<1>6. spec.name \in FourInputs => s = [k \in 1..4 |-> s[k]]
  BY <1>3, <1>5
<1> QED
  BY <1>4, <1>5, <1>6 DEF Fed, s, K

\* What a back-test computes from this history: the calculated series, delayed.
LEMMA FeatureValuesAre ==
    ASSUME spec \in Specs, NEW b \in Seq(SUBSET Fields), NEW obs \in SUBSET Observation,
           NEW v, v = FeatureValues(b, obs), v # Raises,
           NEW calculated,
           calculated = CalculateFeature(spec.name, Series(b, obs), spec.lookback, spec.early)
    PROVE  /\ calculated # Raises
           /\ Causal(Knowledge(Len(b), obs), Len(b), calculated)
           /\ v = [i \in 1..Len(b) |->
                      IF i > spec.lag THEN calculated[i - spec.lag] ELSE None]
<1> DEFINE n == Len(b)
           K == Knowledge(n, obs)
<1>1. n \in Nat /\ Growing(K, n)
  BY KnowledgeGrows
<1>2. spec.lookback \in Nat /\ spec.lag \in Nat /\ spec.early \in BOOLEAN
  BY FeaturesAssumption
<1>3. CausalOrRaises(K, n, calculated)
  <2> DEFINE s == Series(b, obs)
             c == spec.name
  <2>1. Fed(K, n, c, s)
    BY SeriesFed
  <2> HIDE DEF K, n, s, c
  <2>2. CausalOrRaises(K, n, CalculateFeature(c, s, spec.lookback, spec.early))
    BY <1>1, <1>2, <2>1, Calculated
  <2> QED
    BY <2>2 DEF s, c
<1>4. calculated # Raises /\ v = Lag(calculated, spec.lag)
  BY DEF FeatureValues
<1>5. Causal(K, n, calculated)
  BY <1>3, <1>4 DEF CausalOrRaises
<1>6. DOMAIN calculated = 1..n
  BY <1>5 DEF Causal
<1> QED
  BY <1>4, <1>5, <1>6 DEF Lag

LEMMA FeatureValuesKnown ==
    ASSUME spec \in Specs, NEW b \in Seq(SUBSET Fields), NEW obs \in SUBSET Observation,
           NEW v, v = FeatureValues(b, obs), v # Raises
    PROVE  /\ DOMAIN v = 1..Len(b)
           /\ \A i \in 1..Len(b) :
                  IF i > spec.lag THEN Within(v[i], Knowledge(Len(b), obs)[i - spec.lag])
                                  ELSE v[i] = None
<1> DEFINE n == Len(b)
           K == Knowledge(n, obs)
           calculated == CalculateFeature(spec.name, Series(b, obs), spec.lookback, spec.early)
<1>1. n \in Nat /\ spec.lag \in Nat
  BY FeaturesAssumption
<1> HIDE DEF calculated, K, n
<1>2. /\ Causal(K, n, calculated)
      /\ v = [i \in 1..n |-> IF i > spec.lag THEN calculated[i - spec.lag] ELSE None]
  BY FeatureValuesAre DEF calculated, K, n
<1>3. ASSUME NEW i \in 1..n, i > spec.lag PROVE Within(v[i], K[i - spec.lag])
  <2>1. i - spec.lag \in 1..n
    BY <1>1, <1>3
  <2> QED
    BY <1>2, <1>3, <2>1 DEF Causal
<1> QED
  BY <1>2, <1>3 DEF K, n
-----------------------------------------------------------------------------
(* The inductive invariant. *)

Typed ==
    /\ spec \in Specs
    /\ bars \in Seq(SUBSET Fields) /\ Len(bars) <= MaxBars
    /\ observed \in SUBSET Observation

\* The values are those of the history so far.
Current == values = FeatureValues(bars, observed) \/ (bars = <<>> /\ values = <<>>)

IInv == Typed /\ Current

LEMMA TypedNext == ASSUME Typed, NextBar PROVE Typed'
<1> DEFINE n == Len(bars) + 1
<1>1. n \in Nat \ {0} /\ bars \in Seq(SUBSET Fields)
  BY DEF Typed
<1>2. PICK missing \in Gaps, new \in Observations(n) :
          bars' = Append(bars, missing) /\ observed' = observed \cup new /\ spec' = spec
  BY DEF NextBar
<1>3. missing \in SUBSET Fields
  BY <1>2 DEF Gaps, Read
<1>4. new \in SUBSET Observation
  <2> DEFINE today == {{}, {[at |-> n, available |-> n]}, {[at |-> n, available |-> n + 1]}}
             late == {{}, IF n = 1 \/ \E o \in observed : o.at = n - 1 THEN {}
                          ELSE {[at |-> n - 1, available |-> n]}}
  <2>1. \A t \in today : t \in SUBSET Observation
    BY <1>1 DEF Observation
  <2>2. \A l \in late : l \in SUBSET Observation
    BY <1>1 DEF Observation
  <2>3. new \in IF spec.external THEN {t \cup l : t \in today, l \in late} ELSE {{}}
    BY <1>2 DEF Observations
  <2> HIDE DEF today, late
  <2> QED
    BY <2>1, <2>2, <2>3
<1>5. n <= MaxBars
  BY DEF NextBar
<1> QED
  BY <1>1, <1>2, <1>3, <1>4, <1>5 DEF Typed

LEMMA CurrentNext == ASSUME NextBar PROVE Current'
<1>1. spec' = spec /\ values' = FeatureValues(bars', observed')
  BY DEF NextBar
<1>2. values' = FeatureValues(bars, observed)'
  BY <1>1 DEF FeatureValues, Resolved, Series, Aligned, Inputs
<1> QED
  BY <1>2 DEF Current

THEOREM Invariance == Spec => []IInv
<1>1. Init => IInv
  <2> SUFFICES ASSUME Init PROVE IInv
    OBVIOUS
  <2>1. spec \in Specs /\ bars = <<>> /\ values = <<>> /\ observed = {}
    BY DEF Init
  <2> QED
    BY <2>1, FeaturesAssumption DEF IInv, Typed, Current
<1>2. IInv /\ [Next]_vars => IInv'
  <2> SUFFICES ASSUME IInv, [Next]_vars PROVE IInv'
    OBVIOUS
  <2>1. CASE NextBar
    BY <2>1, TypedNext, CurrentNext DEF IInv
  <2>2. CASE UNCHANGED vars
    <3>1. spec' = spec /\ bars' = bars /\ observed' = observed /\ values' = values
      BY <2>2 DEF vars
    <3>2. Typed'
      BY <3>1 DEF IInv, Typed
    <3>3. FeatureValues(bars, observed)' = FeatureValues(bars, observed)
      BY <3>1 DEF FeatureValues, Resolved, Series, Aligned, Inputs
    <3> QED
      BY <3>1, <3>2, <3>3 DEF IInv, Current
  <2> QED
    BY <2>1, <2>2 DEF Next
<1> QED
  BY <1>1, <1>2, PTL DEF Spec

\* A cell within the knowledge of a bar is known at it.
LEMMA KnownWithin ==
    ASSUME Typed, NEW n \in Nat, NEW t \in 1..n, NEW cell,
           Within(cell, Knowledge(n, observed)[t])
    PROVE  KnownAt(t, cell)
<1> SUFFICES ASSUME cell # None, NEW point \in cell
             PROVE  /\ When(point) <= t
                    /\ Kind(point) = "observation" =>
                           \E o \in observed : o.at = When(point) /\ o.available <= t
  BY DEF KnownAt
<1>1. point \in Knowledge(n, observed)[t]
  BY DEF Within
<1>2. CASE \E w \in 1..t : point = <<"bar", w>>
  BY <1>2 DEF When, Kind
<1>3. CASE \E o \in observed : o.at <= t /\ o.available <= t /\ point = <<"observation", o.at>>
  BY <1>3 DEF When, Kind
<1> QED
  BY <1>1, <1>2, <1>3 DEF Knowledge

\* In every history no value and no crossing is computed from data that its bar
\* could not know, whatever the calculator, lookback, lag and timeframe.
THEOREM NoLookahead == Spec => []NoFutureData
<1>1. IInv => NoFutureData
  <2> SUFFICES ASSUME IInv, Answered, NEW i \in DOMAIN values
               PROVE  KnownAt(i - spec.lag, values[i]) /\ KnownAt(i, ConditionReads("cross", i))
    BY DEF NoFutureData
  <2> DEFINE n == Len(bars)
             K == Knowledge(n, observed)
  <2>1. Typed /\ spec \in Specs /\ bars \in Seq(SUBSET Fields) /\ observed \in SUBSET Observation
        /\ n \in Nat
    BY DEF IInv, Typed
  <2>2. spec.lag \in Nat
    BY <2>1, FeaturesAssumption
  <2>3. values = FeatureValues(bars, observed)
    BY DEF IInv, Current
  <2>4. values # Raises
    BY DEF Answered
  <2> HIDE DEF n, K
  <2>5. /\ DOMAIN values = 1..n
        /\ \A j \in 1..n : IF j > spec.lag THEN Within(values[j], K[j - spec.lag])
                                           ELSE values[j] = None
    BY <2>1, <2>3, <2>4, FeatureValuesKnown DEF n, K
  <2>6. KnownAt(i - spec.lag, values[i])
    <3>1. CASE i > spec.lag
      <4>1. i - spec.lag \in 1..n
        BY <2>1, <2>2, <2>5, <3>1
      <4> QED
        BY <2>1, <2>5, <3>1, <4>1, KnownWithin DEF K
    <3>2. CASE ~(i > spec.lag)
      BY <2>5, <3>2 DEF KnownAt
    <3> QED
      BY <3>1, <3>2
  <2>7. ASSUME NEW j \in 1..n, j <= i PROVE Within(values[j], K[i])
    <3>1. CASE j > spec.lag
      <4>1. j - spec.lag \in 1..n /\ i \in 1..n /\ j - spec.lag <= i
        BY <2>1, <2>2, <2>5, <2>7, <3>1
      <4>2. K[j - spec.lag] \subseteq K[i]
        BY <2>1, <4>1, KnowledgeGrows DEF Growing, K
      <4> QED
        BY <2>5, <3>1, <4>2 DEF Within
    <3>2. CASE ~(j > spec.lag)
      BY <2>5, <3>2 DEF Within
    <3> QED
      BY <3>1, <3>2
  <2>8. Within(ConditionReads("cross", i), K[i])
    <3>1. CASE i = 1
      BY <3>1 DEF ConditionReads, Within
    <3>2. CASE i # 1
      <4>1. i - 1 \in 1..n /\ i \in 1..n /\ i - 1 <= i
        BY <2>1, <2>5, <3>2
      <4>2. Within(values[i - 1], K[i]) /\ Within(values[i], K[i])
        BY <2>1, <2>7, <4>1
      <4>3. Within({<<"bar", i - 1>>, <<"bar", i>>}, K[i])
        BY <2>1, <4>1 DEF Within, K, Knowledge
      <4>4. Within(Join({values[i - 1], values[i], {<<"bar", i - 1>>, <<"bar", i>>}}), K[i])
        BY <4>2, <4>3, JoinWithin
      <4> QED
        BY <3>2, <4>4 DEF ConditionReads
    <3> QED
      BY <3>1, <3>2
  <2>9. KnownAt(i, ConditionReads("cross", i))
    BY <2>1, <2>5, <2>8, KnownWithin DEF K
  <2> QED
    BY <2>6, <2>9
<1>2. Spec => []IInv
  BY Invariance
<1> QED
  BY <1>1, <1>2, PTL
-----------------------------------------------------------------------------
(* More data do not change old answers: two histories that agree up to bar *)
(* m give the same values up to it.                                        *)

Agree(m, s, t) ==
    /\ 1..m \subseteq DOMAIN s /\ 1..m \subseteq DOMAIN t
    /\ \A i \in 1..m : s[i] = t[i]

\* What two runs of a calculator may return; the breakout of volumes is apart.
AgreeOrRaises(m, s, t) == s = Raises \/ t = Raises \/ Agree(m, s, t)

LEMMA CellsAgree ==
    ASSUME NEW m \in Nat, NEW s, NEW t, Agree(m, s, t), NEW from \in Nat \ {0}, NEW to \in 0..m
    PROVE  Cells(s, from, to) = Cells(t, from, to)
<1>1. \A k \in from..to : s[k] = t[k]
  BY DEF Agree
<1> QED
  BY <1>1 DEF Cells

LEMMA UnbrokenAgree ==
    ASSUME NEW m \in Nat, NEW s, NEW t, Agree(m, s, t), NEW i \in 1..m
    PROVE  Unbroken(s, i) = Unbroken(t, i)
<1> DEFINE gaps == {k \in 1..i : s[k] = None}
           from == IF gaps = {} THEN 1 ELSE Max(gaps) + 1
<1>1. {k \in 1..i : t[k] = None} = gaps
  BY DEF Agree
<1>2. gaps # {} => Max(gaps) \in 1..i
  <2>1. i \in Nat /\ gaps \in SUBSET (1..i)
    OBVIOUS
  <2> HIDE DEF gaps
  <2> QED
    BY <2>1, LastBar
<1>3. from \in Nat \ {0}
  BY <1>2
<1>4. Unbroken(s, i) = Join(Cells(s, from, i)) /\ Unbroken(t, i) = Join(Cells(t, from, i))
  BY <1>1 DEF Unbroken
<1> HIDE DEF from, gaps
<1>5. Cells(s, from, i) = Cells(t, from, i)
  BY <1>3, CellsAgree
<1> QED
  BY <1>4, <1>5

LEMMA ShapesAgree ==
    ASSUME NEW m \in Nat
    PROVE  /\ \A s, t : Agree(m, s, t) => Agree(m, Silent(s), Silent(t))
           /\ \A s, t, u, v : Agree(m, s, t) /\ Agree(m, u, v) => Agree(m, Both(s, u), Both(t, v))
           /\ \A s, t : \A p \in Nat : Agree(m, s, t) => Agree(m, Lagged(s, p), Lagged(t, p))
           /\ \A s, t : Agree(m, s, t) => Agree(m, Step(s), Step(t))
           /\ \A s, t : \A p \in Nat : Agree(m, s, t) => Agree(m, Rolling(s, p), Rolling(t, p))
           /\ \A s, t : Agree(m, s, t) => Agree(m, Accumulated(s), Accumulated(t))
           /\ \A s, t : /\ 1 \in DOMAIN s /\ DOMAIN s = DOMAIN t
                        /\ \A k \in DOMAIN s : Agree(m, s[k], t[k])
                        => Agree(m, Row(s), Row(t))
<1>1. ASSUME NEW s, NEW t, Agree(m, s, t) PROVE Agree(m, Silent(s), Silent(t))
  BY <1>1 DEF Agree, Silent
<1>2. ASSUME NEW s, NEW t, NEW u, NEW v, Agree(m, s, t), Agree(m, u, v)
      PROVE  Agree(m, Both(s, u), Both(t, v))
  BY <1>2 DEF Agree, Both
<1>3. ASSUME NEW s, NEW t, NEW p \in Nat, Agree(m, s, t) PROVE Agree(m, Lagged(s, p), Lagged(t, p))
  <2>1. \A i \in 1..m : i > p => i - p \in 1..m
    OBVIOUS
  <2>2. \A i \in 1..m : i > p => s[i - p] = t[i - p] /\ s[i] = t[i]
    BY <1>3, <2>1 DEF Agree
  <2> QED
    BY <1>3, <2>2 DEF Agree, Lagged
<1>4. ASSUME NEW s, NEW t, Agree(m, s, t) PROVE Agree(m, Step(s), Step(t))
  BY <1>3, <1>4 DEF Step
<1>5. ASSUME NEW s, NEW t, NEW p \in Nat, Agree(m, s, t)
      PROVE  Agree(m, Rolling(s, p), Rolling(t, p))
  <2>1. ASSUME NEW i \in 1..m, ~(i < p) PROVE Cells(s, i - p + 1, i) = Cells(t, i - p + 1, i)
    <3>1. i - p + 1 \in Nat \ {0} /\ i \in 0..m
      BY <2>1
    <3> QED
      BY <1>5, <3>1, CellsAgree
  <2> QED
    BY <1>5, <2>1 DEF Agree, Rolling
<1>6. ASSUME NEW s, NEW t, Agree(m, s, t) PROVE Agree(m, Accumulated(s), Accumulated(t))
  <2>1. \A i \in 1..m : Cells(s, 1, i) = Cells(t, 1, i)
    BY <1>6, CellsAgree
  <2> QED
    BY <1>6, <2>1 DEF Agree, Accumulated
<1>7. ASSUME NEW s, NEW t, 1 \in DOMAIN s, DOMAIN s = DOMAIN t,
             \A k \in DOMAIN s : Agree(m, s[k], t[k])
      PROVE  Agree(m, Row(s), Row(t))
  <2>1. \A i \in 1..m : {s[k][i] : k \in DOMAIN s} = {t[k][i] : k \in DOMAIN t}
    BY <1>7 DEF Agree
  <2>2. 1..m \subseteq DOMAIN s[1] /\ 1..m \subseteq DOMAIN t[1]
    BY <1>7 DEF Agree
  <2> QED
    BY <2>1, <2>2 DEF Agree, Row
<1> QED
  BY <1>1, <1>2, <1>3, <1>4, <1>5, <1>6, <1>7

LEMMA RowsAgree ==
    ASSUME NEW m \in Nat
    PROVE  /\ \A s, t, u, v : Agree(m, s, t) /\ Agree(m, u, v)
                              => Agree(m, Row(<<s, u>>), Row(<<t, v>>))
           /\ \A s, t, u, v, w, x : Agree(m, s, t) /\ Agree(m, u, v) /\ Agree(m, w, x)
                                    => Agree(m, Row(<<s, u, w>>), Row(<<t, v, x>>))
<1>1. ASSUME NEW s, NEW t, NEW u, NEW v, Agree(m, s, t), Agree(m, u, v)
      PROVE  Agree(m, Row(<<s, u>>), Row(<<t, v>>))
  <2> DEFINE one == <<s, u>>
             two == <<t, v>>
  <2>1. 1 \in DOMAIN one /\ DOMAIN one = DOMAIN two /\ \A k \in DOMAIN one : Agree(m, one[k], two[k])
    BY <1>1
  <2> HIDE DEF one, two
  <2>2. Agree(m, Row(one), Row(two))
    BY <2>1, ShapesAgree
  <2> QED
    BY <2>2 DEF one, two
<1>2. ASSUME NEW s, NEW t, NEW u, NEW v, NEW w, NEW x,
             Agree(m, s, t), Agree(m, u, v), Agree(m, w, x)
      PROVE  Agree(m, Row(<<s, u, w>>), Row(<<t, v, x>>))
  <2> DEFINE one == <<s, u, w>>
             two == <<t, v, x>>
  <2>1. 1 \in DOMAIN one /\ DOMAIN one = DOMAIN two /\ \A k \in DOMAIN one : Agree(m, one[k], two[k])
    BY <1>2
  <2> HIDE DEF one, two
  <2>2. Agree(m, Row(one), Row(two))
    BY <2>1, ShapesAgree
  <2> QED
    BY <2>2 DEF one, two
<1> QED
  BY <1>1, <1>2

LEMMA RowOfFiveAgrees ==
    ASSUME NEW m \in Nat, NEW a1, NEW a2, NEW a3, NEW a4, NEW a5,
           NEW b1, NEW b2, NEW b3, NEW b4, NEW b5,
           Agree(m, a1, b1), Agree(m, a2, b2), Agree(m, a3, b3), Agree(m, a4, b4), Agree(m, a5, b5)
    PROVE  Agree(m, Row(<<a1, a2, a3, a4, a5>>), Row(<<b1, b2, b3, b4, b5>>))
<1> DEFINE one == <<a1, a2, a3, a4, a5>>
           two == <<b1, b2, b3, b4, b5>>
<1>1. 1 \in DOMAIN one /\ DOMAIN one = DOMAIN two /\ \A k \in DOMAIN one : Agree(m, one[k], two[k])
  OBVIOUS
<1> HIDE DEF one, two
<1>2. Agree(m, Row(one), Row(two))
  BY <1>1, ShapesAgree
<1> QED
  BY <1>2 DEF one, two

LEMMA AveragesAgree ==
    ASSUME NEW m \in Nat
    PROVE  /\ \A s, t : \A p \in Nat \ {0} : Agree(m, s, t) => Agree(m, Ema(s, p), Ema(t, p))
           /\ \A s, t : \A p \in Nat \ {0} : Agree(m, s, t) => Agree(m, Wilder(s, p), Wilder(t, p))
           /\ \A s, t : \A p \in Nat \ {0} : Agree(m, s, t) => Agree(m, Wma(s, p), Wma(t, p))
<1> SUFFICES ASSUME NEW s, NEW t, NEW p \in Nat \ {0}, Agree(m, s, t)
             PROVE  /\ Agree(m, Ema(s, p), Ema(t, p))
                    /\ Agree(m, Wilder(s, p), Wilder(t, p))
                    /\ Agree(m, Wma(s, p), Wma(t, p))
  OBVIOUS
<1>1. Agree(m, Rolling(s, p), Rolling(t, p))
  BY ShapesAgree
<1>2. \A i \in 1..m : ~(i < p) => /\ Cells(s, 1, p) = Cells(t, 1, p)
                                  /\ Window(s, p, p) = Window(t, p, p)
  <2>1. ASSUME NEW i \in 1..m, ~(i < p) PROVE p \in 1..m
    BY <2>1
  <2>2. p \in 1..m => Cells(s, 1, p) = Cells(t, 1, p)
    BY CellsAgree
  <2>3. p \in 1..m => Window(s, p, p) = Window(t, p, p)
    BY <1>1 DEF Agree, Window
  <2> QED
    BY <2>1, <2>2, <2>3
<1>3. \A i \in 1..m : Unbroken(s, i) = Unbroken(t, i)
  BY UnbrokenAgree
<1>4. \A i \in 1..m : i \in DOMAIN s /\ i \in DOMAIN t /\ s[i] = t[i]
  BY DEF Agree
<1>5. Agree(m, Ema(s, p), Ema(t, p))
  BY <1>2, <1>3, <1>4 DEF Agree, Ema
<1>6. Agree(m, Wilder(s, p), Wilder(t, p))
  BY <1>2, <1>3, <1>4 DEF Agree, Wilder
<1>7. Agree(m, Wma(s, p), Wma(t, p))
  BY <1>1, <1>4 DEF Agree, Wma, Window
<1> QED
  BY <1>5, <1>6, <1>7

\* A seed that is missing from one history and not from the other is a later bar.
LEMMA SeededAtLastAgree ==
    ASSUME NEW m \in Nat, NEW s, NEW t, Agree(m, s, t), Len(s) \in Nat, Len(t) \in Nat,
           NEW p \in Nat \ {0}, NEW u, NEW v, Agree(m, u, v)
    PROVE  AgreeOrRaises(m, SeededAtLast(s, p, u), SeededAtLast(t, p, v))
<1> DEFINE one == [i \in DOMAIN s |-> CASE i < p -> None
                                        [] i = p -> Window(s, p, p)
                                        [] i > p -> u[i]]
           two == [i \in DOMAIN t |-> CASE i < p -> None
                                        [] i = p -> Window(t, p, p)
                                        [] i > p -> v[i]]
           silent(f) == None \in Cells(f, 1, IF Len(f) < p THEN Len(f) ELSE p)
<1>1. /\ SeededAtLast(s, p, u) = IF silent(s) THEN Silent(s)
                                 ELSE IF Len(s) < p THEN Raises ELSE Accumulated(one)
      /\ SeededAtLast(t, p, v) = IF silent(t) THEN Silent(t)
                                 ELSE IF Len(t) < p THEN Raises ELSE Accumulated(two)
  BY DEF SeededAtLast
<1>2. \A i \in 1..m : /\ i \in DOMAIN s /\ i \in DOMAIN t /\ i \in DOMAIN u /\ i \in DOMAIN v
                      /\ s[i] = t[i] /\ u[i] = v[i]
  BY DEF Agree
<1>3. \A i \in 1..m : i < p => one[i] = None /\ two[i] = None
  BY <1>2
<1>4. Agree(m, one, two)
  <2>1. ASSUME NEW i \in 1..m PROVE one[i] = two[i]
    <3>1. CASE i < p
      BY <1>3, <3>1
    <3>2. CASE i = p
      <4>1. Agree(m, Rolling(s, p), Rolling(t, p))
        BY ShapesAgree
      <4>2. Window(s, p, p) = Window(t, p, p)
        BY <3>2, <4>1 DEF Agree, Window
      <4> QED
        BY <1>2, <3>2, <4>2
    <3>3. CASE i > p
      BY <1>2, <3>3
    <3>4. i < p \/ i = p \/ i > p
      OBVIOUS
    <3> HIDE DEF one, two
    <3> QED
      BY <3>1, <3>2, <3>3, <3>4
  <2>2. 1..m \subseteq DOMAIN one /\ 1..m \subseteq DOMAIN two
    BY <1>2
  <2> HIDE DEF one, two
  <2> QED
    BY <2>1, <2>2 DEF Agree
<1>5. 1..m \subseteq DOMAIN one /\ 1..m \subseteq DOMAIN two
  BY <1>2
<1> HIDE DEF one, two
<1>6. Agree(m, Accumulated(one), Accumulated(two)) /\ Agree(m, Silent(s), Silent(t))
  BY <1>4, ShapesAgree
<1>7. ASSUME silent(s), ~silent(t), ~(Len(t) < p) PROVE Agree(m, Silent(s), Accumulated(two))
  <2>1. PICK k \in 1..(IF Len(s) < p THEN Len(s) ELSE p) : s[k] = None
    BY <1>7 DEF Cells
  <2>2. k \in 1..p /\ \A j \in 1..p : t[j] # None
    BY <1>7, <2>1 DEF Cells
  <2>3. m < p
    BY <1>2, <2>1, <2>2
  <2>4. \A i \in 1..m : two[i] = None
    BY <1>3, <2>3
  <2> QED
    BY <1>2, <1>5, <2>4 DEF Agree, Silent, Accumulated
<1>8. ASSUME silent(t), ~silent(s), ~(Len(s) < p) PROVE Agree(m, Accumulated(one), Silent(t))
  <2>1. PICK k \in 1..(IF Len(t) < p THEN Len(t) ELSE p) : t[k] = None
    BY <1>8 DEF Cells
  <2>2. k \in 1..p /\ \A j \in 1..p : s[j] # None
    BY <1>8, <2>1 DEF Cells
  <2>3. m < p
    BY <1>2, <2>1, <2>2
  <2>4. \A i \in 1..m : one[i] = None
    BY <1>3, <2>3
  <2> QED
    BY <1>2, <1>5, <2>4 DEF Agree, Silent, Accumulated
<1> HIDE DEF silent
<1> QED
  BY <1>1, <1>6, <1>7, <1>8 DEF AgreeOrRaises

LEMMA MovingAveragesAgree ==
    ASSUME NEW m \in Nat, NEW s, NEW t, Agree(m, s, t), Len(s) \in Nat, Len(t) \in Nat,
           NEW p \in Nat \ {0}
    PROVE  /\ AgreeOrRaises(m, Mcginley(s, p), Mcginley(t, p))
           /\ \A c \in {"wma", "hma", "dema", "tema", "kama", "wilder"} :
                  AgreeOrRaises(m, MovingAverageVariant(c, s, p), MovingAverageVariant(c, t, p))
<1> DEFINE A(u, v) == Agree(m, u, v)
<1>1. /\ \A u, v, w, x : A(u, v) /\ A(w, x) => A(Both(u, w), Both(v, x))
      /\ \A u, v : \A q \in Nat \ {0} : A(u, v) => /\ A(Ema(u, q), Ema(v, q))
                                                   /\ A(Wilder(u, q), Wilder(v, q))
                                                   /\ A(Wma(u, q), Wma(v, q))
  BY ShapesAgree, AveragesAgree
<1>2. p \div 2 \in Nat /\ Isqrt(p) \in Nat
  BY IsqrtIsNat
<1>3. AtLeastOne(p \div 2) \in Nat \ {0} /\ AtLeastOne(Isqrt(p)) \in Nat \ {0}
  BY <1>2 DEF AtLeastOne
<1>4. /\ AgreeOrRaises(m, Kama(s, p), Kama(t, p))
      /\ AgreeOrRaises(m, Mcginley(s, p), Mcginley(t, p))
  <2> DEFINE q == p + 1
  <2>1. q \in Nat
    OBVIOUS
  <2> HIDE DEF q
  <2>2. Agree(m, Rolling(s, q), Rolling(t, q))
    BY <2>1, ShapesAgree
  <2>3. AgreeOrRaises(m, SeededAtLast(s, p, Rolling(s, q)), SeededAtLast(t, p, Rolling(t, q)))
    BY <2>2, SeededAtLastAgree
  <2> QED
    BY <2>3, SeededAtLastAgree DEF Kama, Mcginley, q
<1>5. A(s, t)
  OBVIOUS
<1> HIDE DEF A
<1>6. /\ A(Wma(s, p), Wma(t, p)) /\ A(Wilder(s, p), Wilder(t, p))
      /\ A(Ema(s, p), Ema(t, p)) /\ A(Ema(Ema(s, p), p), Ema(Ema(t, p), p))
      /\ A(Ema(Ema(Ema(s, p), p), p), Ema(Ema(Ema(t, p), p), p))
      /\ A(Wma(s, AtLeastOne(p \div 2)), Wma(t, AtLeastOne(p \div 2)))
  BY <1>1, <1>3, <1>5
<1>7. /\ A(Both(Ema(s, p), Ema(Ema(s, p), p)), Both(Ema(t, p), Ema(Ema(t, p), p)))
      /\ A(Both(Wma(s, AtLeastOne(p \div 2)), Wma(s, p)),
           Both(Wma(t, AtLeastOne(p \div 2)), Wma(t, p)))
  BY <1>1, <1>6
<1>8. /\ A(Both(Both(Ema(s, p), Ema(Ema(s, p), p)), Ema(Ema(Ema(s, p), p), p)),
           Both(Both(Ema(t, p), Ema(Ema(t, p), p)), Ema(Ema(Ema(t, p), p), p)))
      /\ A(Wma(Both(Wma(s, AtLeastOne(p \div 2)), Wma(s, p)), AtLeastOne(Isqrt(p))),
           Wma(Both(Wma(t, AtLeastOne(p \div 2)), Wma(t, p)), AtLeastOne(Isqrt(p))))
  BY <1>1, <1>3, <1>6, <1>7
<1> QED
  BY <1>4, <1>6, <1>7, <1>8 DEF A, AgreeOrRaises, MovingAverageVariant

LEMMA OscillatorsAgree ==
    ASSUME NEW m \in Nat, NEW s, NEW t, Agree(m, s, t), NEW p \in Nat \ {0}
    PROVE  /\ \A x \in {"wilder", "ema", "sma"} : Agree(m, Rsi(s, p, x), Rsi(t, p, x))
           /\ Agree(m, Macd(s, p), Macd(t, p))
           /\ Agree(m, RegimeFilter(s, p), RegimeFilter(t, p))
           /\ Agree(m, Tsi(s, p), Tsi(t, p))
           /\ Agree(m, Consecutive(s), Consecutive(t))
           /\ Agree(m, Cusum(s), Cusum(t))
           /\ Agree(m, Dpo(s, p), Dpo(t, p))
           /\ Agree(m, StepTransform(s), StepTransform(t))
           /\ \A c \in {"phase_accumulation_cycle", "inverse_fisher_transform",
                        "super_smoother", "roofing_filter", "center_of_gravity",
                        "bandpass_filter", "dc_based_rsi", "cyber_cycle",
                        "hilbert_transform"} :
                  Agree(m, CycleIndicator(c, s, p), CycleIndicator(c, t, p))
           /\ \A c \in {"adaptive_cycle_divergence", "dominant_cycle", "hilbert_phase",
                        "hilbert_sine", "hilbert_trendline", "itrend", "laguerre"} :
                  Agree(m, CycleTransform(c, s, p), CycleTransform(c, t, p))
<1> DEFINE A(u, v) == Agree(m, u, v)
<1>1. /\ \A u, v : A(u, v) => /\ A(Silent(u), Silent(v)) /\ A(Step(u), Step(v))
                              /\ A(Accumulated(u), Accumulated(v))
      /\ \A u, v, w, x : A(u, v) /\ A(w, x) => A(Both(u, w), Both(v, x))
      /\ \A u, v : \A q \in Nat \ {0} : A(u, v) => /\ A(Lagged(u, q), Lagged(v, q))
                                                   /\ A(Rolling(u, q), Rolling(v, q))
                                                   /\ A(Ema(u, q), Ema(v, q))
                                                   /\ A(Wilder(u, q), Wilder(v, q))
  BY ShapesAgree, AveragesAgree
<1>2. /\ p + 1 \in Nat \ {0} /\ 1 \in Nat \ {0} /\ Half(p) \in Nat \ {0}
      /\ AtLeastOne(p \div 2) \in Nat \ {0} /\ p \div 2 + 1 \in Nat \ {0}
      /\ AtLeastTwo(p) \in Nat \ {0}
  BY DEF Half, AtLeastOne, AtLeastTwo
<1>3. A(s, t)
  OBVIOUS
<1>4. A(Consecutive(s), Consecutive(t))
  <2>1. Agree(m, Step(s), Step(t)) /\ \A i \in 1..m : Unbroken(s, i) = Unbroken(t, i)
    BY ShapesAgree, UnbrokenAgree
  <2> QED
    BY <2>1 DEF Consecutive, Agree
<1>5. A(Dpo(s, p), Dpo(t, p))
  <2> DEFINE shift == p \div 2 + 1
  <2>1. shift \in Nat
    BY <1>2
  <2>2. Agree(m, SingleRolling(s, p), SingleRolling(t, p))
    BY ShapesAgree DEF SingleRolling
  <2> HIDE DEF shift
  <2>3. \A i \in 1..m : i > shift => i - shift \in 1..m
    BY <2>1
  <2>4. \A i \in 1..m : i > shift => /\ s[i - shift] = t[i - shift]
                                     /\ SingleRolling(s, p)[i] = SingleRolling(t, p)[i]
    BY <2>2, <2>3 DEF Agree
  <2> QED
    BY <2>4 DEF Dpo, Agree, shift
<1>6. A(StepTransform(s), StepTransform(t))
  <2>1. CASE m = 0
    <3>1. 1..m = {}
      BY <2>1
    <3> QED
      BY <3>1 DEF Agree
  <2>2. CASE m # 0
    <3>1. s[1] = t[1]
      BY <2>2 DEF Agree
    <3> QED
      BY <1>1, <1>3, <3>1 DEF StepTransform
  <2> QED
    BY <2>1, <2>2
<1> HIDE DEF A
<1>7. \A x \in {"wilder", "ema", "sma"} : A(Rsi(s, p, x), Rsi(t, p, x))
  BY <1>1, <1>2, <1>3 DEF Rsi
<1>8. /\ A(Macd(s, p), Macd(t, p)) /\ A(RegimeFilter(s, p), RegimeFilter(t, p))
      /\ A(Tsi(s, p), Tsi(t, p)) /\ A(Cusum(s), Cusum(t))
  BY <1>1, <1>2, <1>3 DEF Macd, RegimeFilter, Tsi, Cusum
<1>9. /\ A(Ema(s, AtLeastTwo(p)), Ema(t, AtLeastTwo(p)))
      /\ A(Ema(s, p), Ema(t, p)) /\ A(Momentum(s, 1), Momentum(t, 1))
      /\ A(SingleRolling(s, p), SingleRolling(t, p))
      /\ A(Momentum(Ema(s, p), AtLeastOne(p \div 2)), Momentum(Ema(t, p), AtLeastOne(p \div 2)))
      /\ A(Momentum(Ema(s, p), 1), Momentum(Ema(t, p), 1))
      /\ A(Step(s), Step(t)) /\ A(Both(s, Ema(s, p)), Both(t, Ema(t, p)))
  BY <1>1, <1>2, <1>3 DEF Momentum, SingleRolling
<1>10. \A c \in {"phase_accumulation_cycle", "inverse_fisher_transform",
                 "super_smoother", "roofing_filter", "center_of_gravity",
                 "bandpass_filter", "dc_based_rsi", "cyber_cycle", "hilbert_transform"} :
           A(CycleIndicator(c, s, p), CycleIndicator(c, t, p))
  BY <1>3, <1>7, <1>9 DEF CycleIndicator
<1>11. \A c \in {"adaptive_cycle_divergence", "dominant_cycle", "hilbert_phase",
                 "hilbert_sine", "hilbert_trendline", "itrend", "laguerre"} :
           A(CycleTransform(c, s, p), CycleTransform(c, t, p))
  BY <1>9 DEF CycleTransform
<1> QED
  BY <1>4, <1>5, <1>6, <1>7, <1>8, <1>10, <1>11 DEF A

LEMMA WindowsAgree ==
    ASSUME NEW m \in Nat, NEW s, NEW t, Agree(m, s, t), NEW p \in Nat \ {0}
    PROVE  /\ Agree(m, PreviousRollingMaximum(s, p), PreviousRollingMaximum(t, p))
           /\ Agree(m, HighLowBreakout(s, p), HighLowBreakout(t, p))
           /\ \A i \in 1..m : i # p => VolumeBreakout(s, p)[i] = VolumeBreakout(t, p)[i]
           /\ Agree(m, Disparity(s, p), Disparity(t, p))
           /\ Agree(m, RollingReturnVolatility(s, p), RollingReturnVolatility(t, p))
           /\ Agree(m, VolatilityFilter(s, p), VolatilityFilter(t, p))
           /\ Agree(m, LinearRegression(s, p), LinearRegression(t, p))
           /\ Agree(m, Hurst(s, p), Hurst(t, p))
<1>1. 1..m \subseteq DOMAIN s /\ 1..m \subseteq DOMAIN t
  BY DEF Agree
<1>2. Agree(m, PreviousRollingMaximum(s, p), PreviousRollingMaximum(t, p))
  <2>1. ASSUME NEW i \in 1..m, i > p PROVE Cells(s, i - p, i - 1) = Cells(t, i - p, i - 1)
    <3>1. i - p \in Nat \ {0} /\ i - 1 \in 0..m
      BY <2>1
    <3> QED
      BY <3>1, CellsAgree
  <2> QED
    BY <1>1, <2>1 DEF Agree, PreviousRollingMaximum
<1>3. Agree(m, HighLowBreakout(s, p), HighLowBreakout(t, p))
  BY <1>2, ShapesAgree DEF HighLowBreakout
<1>4. \A i \in 1..m : i # p => VolumeBreakout(s, p)[i] = VolumeBreakout(t, p)[i]
  BY <1>1, <1>3 DEF Agree, VolumeBreakout
<1>5. /\ Agree(m, Silent(s), Silent(t)) /\ Agree(m, Rolling(s, p), Rolling(t, p))
      /\ Agree(m, Lagged(s, 1), Lagged(t, 1))
  BY ShapesAgree
<1>6. /\ Agree(m, Both(s, Rolling(s, p)), Both(t, Rolling(t, p)))
      /\ Agree(m, Rolling(Lagged(s, 1), p), Rolling(Lagged(t, 1), p))
  BY <1>5, ShapesAgree
<1> QED
  BY <1>2, <1>3, <1>4, <1>5, <1>6 DEF Disparity, SingleRolling, RollingReturnVolatility,
     Returns, VolatilityFilter, LinearRegression, Hurst

LEMMA RangesAgree ==
    ASSUME NEW m \in Nat, NEW h1, NEW l1, NEW h2, NEW l2, Agree(m, h1, h2), Agree(m, l1, l2),
           NEW p \in Nat \ {0}
    PROVE  /\ Agree(m, Aroon(h1, l1, p), Aroon(h2, l2, p))
           /\ Agree(m, Donchian(h1, l1, p), Donchian(h2, l2, p))
           /\ Agree(m, DonchianWidth(h1, l1, p), DonchianWidth(h2, l2, p))
           /\ Agree(m, SupportResistance(h1, l1, p), SupportResistance(h2, l2, p))
           /\ Agree(m, Fisher(h1, l1, p), Fisher(h2, l2, p))
           /\ Agree(m, Ichimoku(h1, l1, p), Ichimoku(h2, l2, p))
           /\ Agree(m, ParabolicSar(h1, l1), ParabolicSar(h2, l2))
<1> DEFINE A(u, v) == Agree(m, u, v)
           one == Row(<<h1, l1>>)
           two == Row(<<h2, l2>>)
<1>1. /\ \A u, v : A(u, v) => A(Silent(u), Silent(v)) /\ A(Accumulated(u), Accumulated(v))
      /\ \A u, v, w, x : A(u, v) /\ A(w, x) => A(Both(u, w), Both(v, x))
      /\ \A u, v : \A q \in Nat : A(u, v) => A(Rolling(u, q), Rolling(v, q))
  BY ShapesAgree
<1>2. A(h1, h2) /\ A(one, two) /\ p \in Nat /\ 2 * p \in Nat
  BY RowsAgree
<1>3. A(IF one[1] = None THEN Silent(h1) ELSE Accumulated(one),
        IF two[1] = None THEN Silent(h2) ELSE Accumulated(two))
  <2>1. CASE m = 0
    <3>1. 1..m = {}
      BY <2>1
    <3> QED
      BY <3>1 DEF Agree
  <2>2. CASE m # 0
    <3>1. one[1] = two[1]
      BY <1>2, <2>2 DEF Agree
    <3> HIDE DEF A, one, two
    <3> QED
      BY <1>1, <1>2, <3>1
  <2> QED
    BY <2>1, <2>2
<1> HIDE DEF A, one, two
<1>4. /\ A(Rolling(one, p), Rolling(two, p)) /\ A(Rolling(one, 2 * p), Rolling(two, 2 * p))
  BY <1>1, <1>2
<1>5. /\ A(Accumulated(Rolling(one, p)), Accumulated(Rolling(two, p)))
      /\ A(Both(Rolling(one, p), Rolling(one, 2 * p)), Both(Rolling(two, p), Rolling(two, 2 * p)))
  BY <1>1, <1>4
<1> QED
  BY <1>3, <1>4, <1>5 DEF A, one, two, Aroon, Donchian, DonchianWidth, SupportResistance,
     Fisher, Ichimoku, ParabolicSar

LEMMA TrueRangeIndicatorsAgree ==
    ASSUME NEW m \in Nat, NEW h1, NEW l1, NEW c1, NEW h2, NEW l2, NEW c2,
           Agree(m, h1, h2), Agree(m, l1, l2), Agree(m, c1, c2), NEW p \in Nat \ {0}
    PROVE  /\ Agree(m, Ibs(c1, h1, l1), Ibs(c2, h2, l2))
           /\ Agree(m, TrueRanges(h1, l1, c1), TrueRanges(h2, l2, c2))
           /\ Agree(m, Atr(h1, l1, c1, p), Atr(h2, l2, c2, p))
           /\ Agree(m, Adx(h1, l1, c1, p), Adx(h2, l2, c2, p))
           /\ Agree(m, Vortex(h1, l1, c1, p), Vortex(h2, l2, c2, p))
           /\ Agree(m, Stochastic(h1, l1, c1, p), Stochastic(h2, l2, c2, p))
           /\ Agree(m, Cci(h1, l1, c1, p), Cci(h2, l2, c2, p))
           /\ Agree(m, Supertrend(h1, l1, c1, p), Supertrend(h2, l2, c2, p))
           /\ Agree(m, Keltner(h1, l1, c1, p), Keltner(h2, l2, c2, p))
           /\ Agree(m, Both(Atr(h1, l1, c1, p), c1), Both(Atr(h2, l2, c2, p), c2))
<1> DEFINE A(u, v) == Agree(m, u, v)
           before(s) == [i \in DOMAIN s |-> IF i = 1 THEN None ELSE s[i - 1]]
<1>1. /\ \A u, v : A(u, v) => A(Step(u), Step(v))
      /\ \A u, v, w, x : A(u, v) /\ A(w, x) => A(Both(u, w), Both(v, x))
      /\ \A u, v : \A q \in Nat \ {0} : A(u, v) => /\ A(Rolling(u, q), Rolling(v, q))
                                                   /\ A(Ema(u, q), Ema(v, q))
  BY ShapesAgree, AveragesAgree
<1>2. /\ A(Row(<<h1, l1>>), Row(<<h2, l2>>)) /\ A(Row(<<h1, l1, c1>>), Row(<<h2, l2, c2>>))
      /\ A(Row(<<c1, h1, l1>>), Row(<<c2, h2, l2>>)) /\ A(c1, c2)
  BY RowsAgree
<1>3. \A i \in 1..m : i # 1 => i - 1 \in 1..m
  OBVIOUS
<1>4. A(TrueRanges(h1, l1, c1), TrueRanges(h2, l2, c2))
  <2>1. \A i \in 1..m : /\ h1[i] = h2[i] /\ l1[i] = l2[i]
                        /\ i # 1 => c1[i - 1] = c2[i - 1]
    BY <1>3 DEF Agree
  <2> QED
    BY <2>1 DEF Agree, TrueRanges
<1>5. ASSUME NEW s, NEW t, A(s, t) PROVE A(before(s), before(t))
  <2>1. \A i \in 1..m : i # 1 => s[i - 1] = t[i - 1]
    BY <1>3, <1>5 DEF Agree
  <2> QED
    BY <1>5, <2>1 DEF Agree
<1>6. A(Adx(h1, l1, c1, p), Adx(h2, l2, c2, p))
  <2> DEFINE one == Row(<<h1, l1, before(h1), before(l1), before(c1)>>)
             two == Row(<<h2, l2, before(h2), before(l2), before(c2)>>)
  <2>1. A(before(h1), before(h2)) /\ A(before(l1), before(l2)) /\ A(before(c1), before(c2))
    BY <1>5
  <2>2. A(one, two)
    <3> HIDE DEF before
    <3> QED
      BY <2>1, RowOfFiveAgrees
  <2> HIDE DEF A, one, two
  <2>3. A(Rolling(one, p), Rolling(two, p))
    BY <1>1, <2>2
  <2>4. A(Rolling(Rolling(one, p), p), Rolling(Rolling(two, p), p))
    BY <1>1, <2>3
  <2> QED
    BY <2>4 DEF Adx, SingleRolling, one, two, before
<1> HIDE DEF A, before
<1>7. A(Atr(h1, l1, c1, p), Atr(h2, l2, c2, p))
  BY <1>1, <1>4 DEF Atr, SingleRolling
<1>8. /\ A(Ibs(c1, h1, l1), Ibs(c2, h2, l2)) /\ A(Cci(h1, l1, c1, p), Cci(h2, l2, c2, p))
      /\ A(Rolling(Row(<<h1, l1>>), p), Rolling(Row(<<h2, l2>>), p))
      /\ A(Step(Row(<<h1, l1>>)), Step(Row(<<h2, l2>>)))
      /\ A(Rolling(TrueRanges(h1, l1, c1), p), Rolling(TrueRanges(h2, l2, c2), p))
      /\ A(Ema(c1, p), Ema(c2, p))
  BY <1>1, <1>2, <1>4 DEF Ibs, Cci
<1>9. A(Rolling(Step(Row(<<h1, l1>>)), p), Rolling(Step(Row(<<h2, l2>>)), p))
  BY <1>1, <1>8
<1>10. /\ A(Vortex(h1, l1, c1, p), Vortex(h2, l2, c2, p))
       /\ A(Stochastic(h1, l1, c1, p), Stochastic(h2, l2, c2, p))
       /\ A(Supertrend(h1, l1, c1, p), Supertrend(h2, l2, c2, p))
       /\ A(Keltner(h1, l1, c1, p), Keltner(h2, l2, c2, p))
       /\ A(Both(Atr(h1, l1, c1, p), c1), Both(Atr(h2, l2, c2, p), c2))
  BY <1>1, <1>2, <1>7, <1>8, <1>9 DEF Vortex, Stochastic, Supertrend, Keltner
<1> QED
  BY <1>4, <1>6, <1>7, <1>8, <1>10 DEF A

LEMMA VolumesAgree ==
    ASSUME NEW m \in Nat, NEW c1, NEW v1, NEW c2, NEW v2, Agree(m, c1, c2), Agree(m, v1, v2)
    PROVE  /\ Agree(m, Obv(c1, v1), Obv(c2, v2))
           /\ Agree(m, ForceIndex(c1, v1), ForceIndex(c2, v2))
           /\ Agree(m, Pvt(c1, v1), Pvt(c2, v2))
           /\ Agree(m, VolumeIndex(c1, v1), VolumeIndex(c2, v2))
<1> DEFINE changes(c, v) ==
               [i \in DOMAIN c |->
                   IF i = 1 \/ c[i - 1] = None THEN Join({c[i], v[i]})
                                               ELSE Join({c[i], v[i], c[i - 1]})]
           steps(c, v) == [i \in DOMAIN c |-> IF i = 1 THEN c[1] ELSE Step(Row(<<c, v>>))[i]]
<1>1. \A i \in 1..m : i # 1 => i - 1 \in 1..m
  OBVIOUS
<1>2. Agree(m, changes(c1, v1), changes(c2, v2))
  <2>1. \A i \in 1..m : /\ c1[i] = c2[i] /\ v1[i] = v2[i]
                        /\ i # 1 => c1[i - 1] = c2[i - 1]
    BY <1>1 DEF Agree
  <2> QED
    BY <2>1 DEF Agree
<1>3. Agree(m, Row(<<c1, v1>>), Row(<<c2, v2>>)) /\ Agree(m, Step(c1), Step(c2))
  BY ShapesAgree, RowsAgree
<1>4. /\ Agree(m, Step(Row(<<c1, v1>>)), Step(Row(<<c2, v2>>)))
      /\ Agree(m, Both(Step(c1), v1), Both(Step(c2), v2))
  BY <1>3, ShapesAgree
<1>5. Agree(m, steps(c1, v1), steps(c2, v2))
  <2>1. \A i \in 1..m : /\ i \in DOMAIN c1 /\ i \in DOMAIN c2
                        /\ i = 1 => c1[1] = c2[1]
                        /\ Step(Row(<<c1, v1>>))[i] = Step(Row(<<c2, v2>>))[i]
    BY <1>4 DEF Agree
  <2> QED
    BY <2>1 DEF Agree
<1> HIDE DEF changes, steps
<1>6. /\ Agree(m, Accumulated(changes(c1, v1)), Accumulated(changes(c2, v2)))
      /\ Agree(m, Accumulated(steps(c1, v1)), Accumulated(steps(c2, v2)))
      /\ Agree(m, Accumulated(Both(Step(c1), v1)), Accumulated(Both(Step(c2), v2)))
  BY <1>2, <1>4, <1>5, ShapesAgree
<1> QED
  BY <1>4, <1>6 DEF Obv, ForceIndex, Pvt, VolumeIndex, changes, steps

\* The same inputs of two histories.
Inputs2(m, s, t) ==
    /\ 1 \in DOMAIN s /\ DOMAIN s = DOMAIN t
    /\ \A k \in DOMAIN s : Agree(m, s[k], t[k])

LEMMA WholeBarsAgree ==
    ASSUME NEW m \in Nat, NEW s, NEW t, Inputs2(m, s, t), NEW p \in Nat \ {0}
    PROVE  /\ Agree(m, Row(s), Row(t))
           /\ Agree(m, RangeVolatility(s, p), RangeVolatility(t, p))
           /\ Agree(m, Vwap(s), Vwap(t))
           /\ Agree(m, Adl(s), Adl(t))
           /\ Agree(m, Cmf(s, p), Cmf(t, p))
           /\ Agree(m, IntradayIntensity(s, p), IntradayIntensity(t, p))
           /\ Agree(m, CandleMeasure(s), CandleMeasure(t))
           /\ \A c \in {"detect_marubozu", "detect_three_bar_reversal"} :
                  Agree(m, CandlePattern(c, s), CandlePattern(c, t))
<1>1. Agree(m, Row(s), Row(t)) /\ Agree(m, Rolling(s[1], 3), Rolling(t[1], 3))
  BY ShapesAgree DEF Inputs2
<1>2. /\ Agree(m, Rolling(Row(s), p), Rolling(Row(t), p))
      /\ Agree(m, Accumulated(Row(s)), Accumulated(Row(t)))
  BY <1>1, ShapesAgree
<1> QED
  BY <1>1, <1>2 DEF RangeVolatility, Vwap, Adl, Cmf, IntradayIntensity, CandleMeasure,
     CandlePattern

LEMMA MfiAgree ==
    ASSUME NEW m \in Nat, NEW s, NEW t, Inputs2(m, s, t), NEW p \in Nat \ {0},
           s = [k \in 1..4 |-> s[k]], t = [k \in 1..4 |-> t[k]]
    PROVE  Agree(m, Mfi(s, p), Mfi(t, p))
<1> DEFINE typical(f) == Row(SubSeq(f, 1, 3))
           flows(f) == Rolling(Row(f), p)
<1>1. Agree(m, typical(s), typical(t))
  <2> DEFINE one == SubSeq(s, 1, 3)
             two == SubSeq(t, 1, 3)
  <2>1. 1 \in DOMAIN one /\ DOMAIN one = DOMAIN two /\ \A k \in DOMAIN one : Agree(m, one[k], two[k])
    BY FirstThree DEF Inputs2
  <2> HIDE DEF one, two
  <2>2. Agree(m, Row(one), Row(two))
    BY <2>1, ShapesAgree
  <2> QED
    BY <2>2 DEF one, two
<1>2. Agree(m, flows(s), flows(t))
  <2>1. Agree(m, Row(s), Row(t))
    BY WholeBarsAgree
  <2> QED
    BY <2>1, ShapesAgree
<1>3. \A f : /\ DOMAIN Mfi(f, p) = DOMAIN typical(f)
              /\ \A i \in DOMAIN typical(f) :
                     Mfi(f, p)[i] = IF i <= p \/ flows(f)[i] = None THEN None
                                    ELSE flows(f)[i] \cup Present({typical(f)[i - p]})
  BY DEF Mfi
<1> HIDE DEF typical, flows
<1>4. \A i \in 1..m : /\ flows(s)[i] = flows(t)[i]
                      /\ i \in DOMAIN typical(s) /\ i \in DOMAIN typical(t)
                      /\ ~(i <= p) => typical(s)[i - p] = typical(t)[i - p]
  <2>1. \A i \in 1..m : ~(i <= p) => i - p \in 1..m
    OBVIOUS
  <2> QED
    BY <1>1, <1>2, <2>1 DEF Agree
<1>5. ASSUME NEW i \in 1..m PROVE Mfi(s, p)[i] = Mfi(t, p)[i]
  <2>1. /\ Mfi(s, p)[i] = IF i <= p \/ flows(s)[i] = None THEN None
                          ELSE flows(s)[i] \cup Present({typical(s)[i - p]})
        /\ Mfi(t, p)[i] = IF i <= p \/ flows(t)[i] = None THEN None
                          ELSE flows(t)[i] \cup Present({typical(t)[i - p]})
    BY <1>3, <1>4
  <2> QED
    BY <1>4, <2>1
<1>6. 1..m \subseteq DOMAIN Mfi(s, p) /\ 1..m \subseteq DOMAIN Mfi(t, p)
  BY <1>3, <1>4
<1> QED
  BY <1>5, <1>6 DEF Agree

LEMMA EaseOfMovementAgree ==
    ASSUME NEW m \in Nat, NEW h1, NEW l1, NEW v1, NEW h2, NEW l2, NEW v2,
           Agree(m, h1, h2), Agree(m, l1, l2), Agree(m, v1, v2), NEW p \in Nat \ {0}
    PROVE  Agree(m, EaseOfMovement(h1, l1, v1, p), EaseOfMovement(h2, l2, v2, p))
<1>1. Agree(m, Row(<<h1, l1>>), Row(<<h2, l2>>))
  BY RowsAgree
<1>2. Agree(m, Step(Row(<<h1, l1>>)), Step(Row(<<h2, l2>>)))
  BY <1>1, ShapesAgree
<1>3. Agree(m, Both(Step(Row(<<h1, l1>>)), v1), Both(Step(Row(<<h2, l2>>)), v2))
  BY <1>2, ShapesAgree
<1> QED
  BY <1>3, ShapesAgree DEF EaseOfMovement, SingleRolling

LEMMA ComparedAgree ==
    ASSUME NEW m \in Nat, NEW s, NEW t, Inputs2(m, s, t), NEW early \in BOOLEAN
    PROVE  /\ AgreeOrRaises(m, Compared(s, early), Compared(t, early))
           /\ AgreeOrRaises(m, Fractal(s, early), Fractal(t, early))
<1> DEFINE row(f) == Row(f)
           earlier(f, k) == IF early THEN f[1][k] ELSE row(f)[k]
           both(f, i) == Join({earlier(f, i - 1), earlier(f, i - 2)})
           pair(f) == [i \in DOMAIN row(f) |->
                          IF i = 1 \/ row(f)[i] = None THEN None
                          ELSE row(f)[i] \cup earlier(f, i - 1)]
           triple(f) == [i \in DOMAIN row(f) |->
                            CASE i = 1 \/ row(f)[i] = None -> None
                              [] i = 2 /\ row(f)[i] # None -> row(f)[i]
                              [] i > 2 /\ row(f)[i] # None -> row(f)[i] \cup both(f, i)]
<1>1. Agree(m, row(s), row(t)) /\ Agree(m, s[1], t[1])
  BY ShapesAgree DEF Inputs2
<1>2. \A i \in 1..m : /\ i \in DOMAIN row(s) /\ i \in DOMAIN row(t) /\ row(s)[i] = row(t)[i]
                      /\ earlier(s, i) = earlier(t, i)
  BY <1>1 DEF Agree
<1>3. \A f : Compared(f, early) = Raises \/ Compared(f, early) = pair(f)
  BY DEF Compared
<1>4. \A f : Fractal(f, early) = Raises \/ Fractal(f, early) = triple(f)
  BY DEF Fractal
<1>5. \A i \in 1..m : i # 1 => earlier(s, i - 1) = earlier(t, i - 1)
  <2>1. \A i \in 1..m : i # 1 => i - 1 \in 1..m
    OBVIOUS
  <2> HIDE DEF row, earlier
  <2> QED
    BY <1>2, <2>1
<1>6. \A i \in 1..m : i > 2 => both(s, i) = both(t, i)
  <2>1. \A i \in 1..m : i > 2 => i - 1 \in 1..m /\ i - 2 \in 1..m
    OBVIOUS
  <2> HIDE DEF row, earlier
  <2> QED
    BY <1>2, <2>1
<1> HIDE DEF row, earlier, both
<1>7. Agree(m, pair(s), pair(t))
  BY <1>2, <1>5 DEF Agree
<1>8. Agree(m, triple(s), triple(t))
  <2>1. ASSUME NEW i \in 1..m PROVE triple(s)[i] = triple(t)[i]
    <3>1. CASE i = 1 \/ row(s)[i] = None
      BY <1>2, <3>1
    <3>2. CASE i = 2 /\ row(s)[i] # None
      BY <1>2, <3>2
    <3>3. CASE i > 2 /\ row(s)[i] # None
      <4>1. /\ triple(s)[i] = row(s)[i] \cup both(s, i)
            /\ triple(t)[i] = row(t)[i] \cup both(t, i)
        BY <1>2, <3>3
      <4> HIDE DEF triple
      <4> QED
        BY <1>2, <1>6, <3>3, <4>1
    <3>4. i = 1 \/ i = 2 \/ i > 2
      OBVIOUS
    <3> HIDE DEF triple
    <3> QED
      BY <3>1, <3>2, <3>3, <3>4
  <2>2. 1..m \subseteq DOMAIN triple(s) /\ 1..m \subseteq DOMAIN triple(t)
    BY <1>2
  <2> HIDE DEF triple
  <2> QED
    BY <2>1, <2>2 DEF Agree
<1> HIDE DEF pair, triple
<1> QED
  BY <1>3, <1>4, <1>7, <1>8 DEF AgreeOrRaises

LEMMA PriceActionsAgree ==
    ASSUME NEW m \in Nat, NEW s, NEW t, Inputs2(m, s, t), NEW early \in BOOLEAN,
           NEW c \in {"inside_bar", "outside_bar", "higher_high_lower_low", "fractal", "doji",
                      "hammer", "engulfing", "pin_bar", "shooting_star", "morning_star",
                      "evening_star"}
    PROVE  AgreeOrRaises(m, PriceAction(c, s, early), PriceAction(c, t, early))
<1> DEFINE pairs(f) == [i \in DOMAIN f[1] |->
                           Present(Cells(Row(f), IF i = 1 THEN 1 ELSE i - 1, i))]
<1>1. Agree(m, Row(s), Row(t)) /\ Agree(m, s[1], t[1])
  BY ShapesAgree DEF Inputs2
<1>2. Agree(m, pairs(s), pairs(t))
  <2>1. ASSUME NEW i \in 1..m
        PROVE  Cells(Row(s), IF i = 1 THEN 1 ELSE i - 1, i)
                   = Cells(Row(t), IF i = 1 THEN 1 ELSE i - 1, i)
    <3> DEFINE from == IF i = 1 THEN 1 ELSE i - 1
    <3>1. from \in Nat \ {0} /\ i \in 0..m
      OBVIOUS
    <3> HIDE DEF from
    <3>2. Cells(Row(s), from, i) = Cells(Row(t), from, i)
      BY <1>1, <3>1, CellsAgree
    <3> QED
      BY <3>2 DEF from
  <2> QED
    BY <1>1, <2>1 DEF Agree
<1>3. /\ AgreeOrRaises(m, Compared(s, early), Compared(t, early))
      /\ AgreeOrRaises(m, Fractal(s, early), Fractal(t, early))
  BY ComparedAgree
<1>4. CASE c \in {"inside_bar", "outside_bar", "higher_high_lower_low", "fractal"}
  BY <1>3, <1>4 DEF PriceAction
<1>5. CASE c \in {"doji", "hammer"}
  <2>1. \A f : PriceAction(c, f, early) = Raises \/ PriceAction(c, f, early) = Row(f)
    BY <1>5 DEF PriceAction
  <2> QED
    BY <1>1, <2>1 DEF AgreeOrRaises
<1>6. CASE c \in {"engulfing", "pin_bar", "shooting_star", "morning_star", "evening_star"}
  <2>1. \A f : PriceAction(c, f, early) = Raises \/ PriceAction(c, f, early) = pairs(f)
    BY <1>6 DEF PriceAction
  <2> HIDE DEF pairs
  <2> QED
    BY <1>2, <2>1 DEF AgreeOrRaises
<1> QED
  BY <1>4, <1>5, <1>6

\* A calculator and the series it is called with in two histories.
Fed2(m, c, s, t) ==
    /\ Inputs2(m, s, t)
    /\ Len(s[1]) \in Nat /\ Len(t[1]) \in Nat
    /\ c \in TwoInputs => 2 \in DOMAIN s
    /\ c \in ThreeInputs => 2 \in DOMAIN s /\ 3 \in DOMAIN s
    /\ c \in FourInputs => s = [k \in 1..4 |-> s[k]] /\ t = [k \in 1..4 |-> t[k]]

LEMMA FurtherIndicatorsAgree ==
    ASSUME NEW m \in Nat, NEW p \in Nat \ {0}, NEW early \in BOOLEAN,
           NEW c, NEW s, NEW t, Fed2(m, c, s, t)
    PROVE  AgreeOrRaises(m, FurtherIndicator(c, s, p, early), FurtherIndicator(c, t, p, early))
<1> DEFINE A(u, v) == Agree(m, u, v)
           R(u, v) == AgreeOrRaises(m, u, v)
<1>1. \A u, v : A(u, v) => R(u, v)
  BY DEF AgreeOrRaises
<1>2. /\ \A u, v, w, x : A(u, v) /\ A(w, x) => /\ A(Both(u, w), Both(v, x))
                                               /\ A(Row(<<u, w>>), Row(<<v, x>>))
      /\ \A u, v : \A q \in Nat \ {0} : A(u, v) => /\ A(Lagged(u, q), Lagged(v, q))
                                                   /\ A(Rolling(u, q), Rolling(v, q))
                                                   /\ A(Ema(u, q), Ema(v, q))
  BY ShapesAgree, AveragesAgree, RowsAgree
<1>3. /\ A(s[1], t[1])
      /\ c \in TwoInputs => A(s[2], t[2])
      /\ c \in ThreeInputs => A(s[2], t[2]) /\ A(s[3], t[3])
      /\ c \in FourInputs => A(s[3], t[3]) /\ A(s[4], t[4])
  BY DEF Fed2, Inputs2
<1>4. \A u, v : \A q \in Nat \ {0} : A(u, v) => /\ A(Rsi(u, q, "sma"), Rsi(v, q, "sma"))
                                                /\ A(Macd(u, q), Macd(v, q))
  BY OscillatorsAgree
<1>5. \A x \in {"evening_star", "morning_star", "pin_bar", "shooting_star"} :
          R(PriceAction(x, s, early), PriceAction(x, t, early))
  BY PriceActionsAgree DEF Fed2
<1>6. /\ A(Row(s), Row(t)) /\ A(Vwap(s), Vwap(t)) /\ A(Cmf(s, p), Cmf(t, p))
      /\ A(IntradayIntensity(s, p), IntradayIntensity(t, p))
      /\ A(CandleMeasure(s), CandleMeasure(t))
      /\ \A x \in {"detect_marubozu", "detect_three_bar_reversal"} :
             A(CandlePattern(x, s), CandlePattern(x, t))
  BY WholeBarsAgree DEF Fed2
<1>7. /\ A(LinearRegression(s[1], p), LinearRegression(t[1], p))
      /\ A(HighLowBreakout(s[1], p), HighLowBreakout(t[1], p))
      /\ \A x \in {"phase_accumulation_cycle", "inverse_fisher_transform",
                   "super_smoother", "roofing_filter", "center_of_gravity",
                   "bandpass_filter", "dc_based_rsi", "cyber_cycle", "hilbert_transform"} :
             A(CycleIndicator(x, s[1], p), CycleIndicator(x, t[1], p))
  BY <1>3, WindowsAgree, OscillatorsAgree
<1>8. A(TimeSinceExtreme(s[1]), TimeSinceExtreme(t[1]))
  BY <1>3, ShapesAgree DEF TimeSinceExtreme
<1>9. /\ c = "klinger" => A(ForceIndex(s[3], s[4]), ForceIndex(t[3], t[4]))
      /\ c \in TwoInputs =>
             /\ A(SupportResistance(s[1], s[2], p), SupportResistance(t[1], t[2], p))
             /\ A(DonchianWidth(s[1], s[2], p), DonchianWidth(t[1], t[2], p))
      /\ c = "dmi_adx" => A(Adx(s[1], s[2], s[3], p), Adx(t[1], t[2], t[3], p))
      /\ c = "ease_of_movement" =>
             A(EaseOfMovement(s[1], s[2], s[3], p), EaseOfMovement(t[1], t[2], t[3], p))
  BY <1>3, VolumesAgree, RangesAgree, TrueRangeIndicatorsAgree, EaseOfMovementAgree
     DEF FourInputs, ThreeInputs
<1>10. /\ 1 \in Nat \ {0} /\ (IF p < 3 THEN p ELSE 3) \in Nat \ {0}
       /\ AtLeastTwo(p) \in Nat \ {0}
  BY DEF AtLeastTwo
<1> HIDE DEF A, R
<1>11. /\ A(Rsi(s[1], IF p < 3 THEN p ELSE 3, "sma"), Rsi(t[1], IF p < 3 THEN p ELSE 3, "sma"))
       /\ A(Returns(s[1], 1), Returns(t[1], 1)) /\ A(Returns(s[1], p), Returns(t[1], p))
       /\ A(Momentum(s[1], p), Momentum(t[1], p)) /\ A(Momentum(s[1], 1), Momentum(t[1], 1))
       /\ A(Momentum(Ema(s[1], p), 1), Momentum(Ema(t[1], p), 1))
       /\ A(Ema(s[1], AtLeastTwo(p)), Ema(t[1], AtLeastTwo(p)))
       /\ A(RollingZscore(s[1], p), RollingZscore(t[1], p))
       /\ A(SmaValues(s[1], p), SmaValues(t[1], p))
       /\ A(SingleRolling(s[1], p), SingleRolling(t[1], p))
       /\ A(Macd(s[1], p), Macd(t[1], p)) /\ A(Macd(Vwap(s), p), Macd(Vwap(t), p))
  BY <1>2, <1>3, <1>4, <1>6, <1>10 DEF Returns, Momentum, RollingZscore, SmaValues, SingleRolling
<1>12. /\ A(Percentile(Macd(s[1], p), p), Percentile(Macd(t[1], p), p))
       /\ A(SingleRolling(Returns(s[1], 1), p), SingleRolling(Returns(t[1], 1), p))
       /\ A(Entropy(s[1], p), Entropy(t[1], p))
  <2>1. p + 1 \in Nat \ {0}
    OBVIOUS
  <2> QED
    BY <1>2, <1>3, <1>11, <2>1 DEF Percentile, SingleRolling, Entropy
<1>13. c \in TwoInputs => A(Row(<<s[1], s[2]>>), Row(<<t[1], t[2]>>))
  BY <1>2, <1>3
<1>14. c \in TwoInputs => /\ A(Ema(Row(<<s[1], s[2]>>), p), Ema(Row(<<t[1], t[2]>>), p))
                          /\ A(SingleRolling(Row(<<s[1], s[2]>>), p),
                               SingleRolling(Row(<<t[1], t[2]>>), p))
  BY <1>2, <1>13 DEF SingleRolling
<1>15. /\ c \in TwoInputs => A(Returns(Ema(Row(<<s[1], s[2]>>), p), 1),
                               Returns(Ema(Row(<<t[1], t[2]>>), p), 1))
       /\ c = "klinger" => A(Ema(ForceIndex(s[3], s[4]), p), Ema(ForceIndex(t[3], t[4]), p))
  BY <1>2, <1>9, <1>10, <1>14 DEF Returns
<1>16. {"chaikin_volatility", "qstick", "support_resistance", "donchian_channel_width"}
           \subseteq TwoInputs
  BY DEF TwoInputs
<1>17. R(Raises, Raises)
  BY DEF R, AgreeOrRaises
<1> QED
  BY <1>1, <1>5, <1>6, <1>7, <1>8, <1>9, <1>11, <1>12, <1>14, <1>15, <1>16, <1>17
     DEF FurtherIndicator, R

LEMMA AdditionalIndicatorsAgree ==
    ASSUME NEW m \in Nat, NEW p \in Nat \ {0}, NEW early \in BOOLEAN,
           NEW c, NEW s, NEW t, Fed2(m, c, s, t)
    PROVE  AgreeOrRaises(m, AdditionalIndicator(c, s, p, early),
                            AdditionalIndicator(c, t, p, early))
<1> DEFINE A(u, v) == Agree(m, u, v)
           R(u, v) == AgreeOrRaises(m, u, v)
<1>1. \A u, v : A(u, v) => R(u, v)
  BY DEF AgreeOrRaises
<1>2. /\ \A u, v, w, x : A(u, v) /\ A(w, x) => /\ A(Both(u, w), Both(v, x))
                                               /\ A(Row(<<u, w>>), Row(<<v, x>>))
      /\ \A u, v : \A q \in Nat \ {0} : A(u, v) => /\ A(Lagged(u, q), Lagged(v, q))
                                                   /\ A(Rolling(u, q), Rolling(v, q))
                                                   /\ A(Ema(u, q), Ema(v, q))
  BY ShapesAgree, AveragesAgree, RowsAgree
<1>3. /\ A(s[1], t[1])
      /\ c \in TwoInputs => A(s[2], t[2])
      /\ c \in ThreeInputs => A(s[2], t[2]) /\ A(s[3], t[3])
  BY DEF Fed2, Inputs2
<1>4. A(Rsi(s[1], p, "sma"), Rsi(t[1], p, "sma")) /\ A(Macd(s[1], p), Macd(t[1], p))
  BY <1>3, OscillatorsAgree
<1>5. \A x \in {"engulfing", "doji", "hammer", "inside_bar", "outside_bar",
                "higher_high_lower_low", "fractal"} :
          R(PriceAction(x, s, early), PriceAction(x, t, early))
  BY PriceActionsAgree DEF Fed2
<1>6. A(Row(s), Row(t)) /\ A(RangeVolatility(s, p), RangeVolatility(t, p))
  BY WholeBarsAgree DEF Fed2
<1>7. /\ R(Mcginley(s[1], p), Mcginley(t[1], p)) /\ A(StepTransform(s[1]), StepTransform(t[1]))
      /\ \A x \in {"adaptive_cycle_divergence", "dominant_cycle", "hilbert_phase",
                   "hilbert_sine", "hilbert_trendline", "itrend", "laguerre"} :
             A(CycleTransform(x, s[1], p), CycleTransform(x, t[1], p))
  BY <1>3, MovingAveragesAgree, OscillatorsAgree DEF Fed2
<1>8. /\ c \in TwoInputs => /\ A(ForceIndex(s[1], s[2]), ForceIndex(t[1], t[2]))
                            /\ A(Obv(s[1], s[2]), Obv(t[1], t[2]))
                            /\ A(VolumeIndex(s[1], s[2]), VolumeIndex(t[1], t[2]))
      /\ c \in ThreeInputs => /\ A(Stochastic(s[1], s[2], s[3], p), Stochastic(t[1], t[2], t[3], p))
                              /\ A(Both(Atr(s[1], s[2], s[3], p), s[3]),
                                   Both(Atr(t[1], t[2], t[3], p), t[3]))
  BY <1>3, VolumesAgree, TrueRangeIndicatorsAgree
<1>9. R(FurtherIndicator(c, s, p, early), FurtherIndicator(c, t, p, early))
  BY FurtherIndicatorsAgree
<1>10. p + 1 \in Nat \ {0} /\ 1 \in Nat \ {0} /\ 9 \in Nat \ {0} /\ 2 * p \in Nat \ {0}
  OBVIOUS
<1> HIDE DEF A, R
<1>11. /\ A(SingleRolling(s[1], p), SingleRolling(t[1], p)) /\ A(Ema(s[1], p), Ema(t[1], p))
       /\ A(Ema(s[1], 2 * p), Ema(t[1], 2 * p)) /\ A(Cmo(s[1], p), Cmo(t[1], p))
       /\ A(Percentile(Rsi(s[1], p, "sma"), p), Percentile(Rsi(t[1], p, "sma"), p))
       /\ A(Ema(Rsi(s[1], p, "sma"), p), Ema(Rsi(t[1], p, "sma"), p))
       /\ A(Ema(Macd(s[1], p), 9), Ema(Macd(t[1], p), 9))
       /\ A(Returns(s[1], 1), Returns(t[1], 1)) /\ A(LogReturns(s[1], 1), LogReturns(t[1], 1))
       /\ A(Returns(s[1], p), Returns(t[1], p))
       /\ A(StatisticalTransform(s[1], p), StatisticalTransform(t[1], p))
  BY <1>2, <1>3, <1>4, <1>10 DEF Returns, LogReturns, SingleRolling, Percentile, Cmo,
     StatisticalTransform
<1>12. /\ A(SingleRolling(SingleRolling(s[1], p), p), SingleRolling(SingleRolling(t[1], p), p))
       /\ A(Ema(Ema(s[1], p), p), Ema(Ema(t[1], p), p))
       /\ A(SingleRolling(Returns(s[1], 1), p), SingleRolling(Returns(t[1], 1), p))
       /\ A(SingleRolling(LogReturns(s[1], 1), p), SingleRolling(LogReturns(t[1], 1), p))
       /\ A(Both(Macd(s[1], p), Ema(Macd(s[1], p), 9)), Both(Macd(t[1], p), Ema(Macd(t[1], p), 9)))
       /\ A(Both(Ema(s[1], p), Ema(s[1], 2 * p)), Both(Ema(t[1], p), Ema(t[1], 2 * p)))
  BY <1>2, <1>4, <1>11 DEF SingleRolling
<1>13. A(Both(Ema(s[1], p), Ema(Ema(s[1], p), p)), Both(Ema(t[1], p), Ema(Ema(t[1], p), p)))
  BY <1>2, <1>11, <1>12
<1>14. c \in TwoInputs => /\ A(Row(<<s[1], s[2]>>), Row(<<t[1], t[2]>>))
                          /\ A(Ema(Obv(s[1], s[2]), p), Ema(Obv(t[1], t[2]), p))
  BY <1>2, <1>3, <1>8
<1> DEFINE ranges(f) == Ema(Row(<<f[1], f[2]>>), p)
<1>15. c \in TwoInputs => /\ A(Vwma(s[1], s[2], p), Vwma(t[1], t[2], p))
                          /\ A(ranges(s), ranges(t))
  BY <1>2, <1>14 DEF Vwma
<1>16. c \in TwoInputs => A(Ema(ranges(s), p), Ema(ranges(t), p))
  <2> HIDE DEF ranges
  <2> QED
    BY <1>2, <1>15
<1>17. c \in TwoInputs => A(SingleRolling(Both(ranges(s), Ema(ranges(s), p)), p),
                            SingleRolling(Both(ranges(t), Ema(ranges(t), p)), p))
  <2> HIDE DEF ranges
  <2>1. c \in TwoInputs => A(Both(ranges(s), Ema(ranges(s), p)), Both(ranges(t), Ema(ranges(t), p)))
    BY <1>2, <1>15, <1>16
  <2> QED
    BY <1>2, <2>1 DEF SingleRolling
<1>18. /\ {"vwma", "mass_index", "volume_delta", "smoothed_obv", "pvi", "nvi"} \subseteq TwoInputs
       /\ {"ultimate_oscillator", "smi", "atr_percent", "normalized_atr_percent"}
              \subseteq ThreeInputs
  BY DEF TwoInputs, ThreeInputs
<1> QED
  BY <1>1, <1>4, <1>5, <1>6, <1>7, <1>8, <1>9, <1>11, <1>12, <1>13, <1>14, <1>15, <1>17, <1>18
     DEF AdditionalIndicator, R

LEMMA ExtendedIndicatorsAgree ==
    ASSUME NEW m \in Nat, NEW p \in Nat \ {0}, NEW early \in BOOLEAN,
           NEW c, NEW s, NEW t, Fed2(m, c, s, t)
    PROVE  AgreeOrRaises(m, ExtendedIndicator(c, s, p, early), ExtendedIndicator(c, t, p, early))
<1> DEFINE A(u, v) == Agree(m, u, v)
           R(u, v) == AgreeOrRaises(m, u, v)
<1>1. \A u, v : A(u, v) => R(u, v)
  BY DEF AgreeOrRaises
<1>2. \A u, v : \A q \in Nat \ {0} : A(u, v) => /\ A(Lagged(u, q), Lagged(v, q))
                                                /\ A(Rolling(u, q), Rolling(v, q))
                                                /\ A(Ema(u, q), Ema(v, q))
  BY ShapesAgree, AveragesAgree
<1>3. /\ A(s[1], t[1])
      /\ c \in TwoInputs => A(s[2], t[2])
      /\ c \in ThreeInputs => A(s[2], t[2]) /\ A(s[3], t[3])
  BY DEF Fed2, Inputs2
<1>4. A(Vwap(s), Vwap(t)) /\ A(Adl(s), Adl(t)) /\ A(Cmf(s, p), Cmf(t, p))
  BY WholeBarsAgree DEF Fed2
<1>5. c = "mfi" => A(Mfi(s, p), Mfi(t, p))
  BY MfiAgree DEF Fed2, FourInputs
<1>6. /\ A(Tsi(s[1], p), Tsi(t[1], p)) /\ A(Dpo(s[1], p), Dpo(t[1], p))
      /\ A(Hurst(s[1], p), Hurst(t[1], p)) /\ A(Cusum(s[1]), Cusum(t[1]))
  BY <1>3, OscillatorsAgree, WindowsAgree
<1>7. c \in TwoInputs =>
          /\ A(Aroon(s[1], s[2], p), Aroon(t[1], t[2], p))
          /\ A(Ichimoku(s[1], s[2], p), Ichimoku(t[1], t[2], p))
          /\ A(ParabolicSar(s[1], s[2]), ParabolicSar(t[1], t[2]))
          /\ A(Donchian(s[1], s[2], p), Donchian(t[1], t[2], p))
          /\ A(Fisher(s[1], s[2], p), Fisher(t[1], t[2], p))
          /\ A(Obv(s[1], s[2]), Obv(t[1], t[2]))
          /\ A(ForceIndex(s[1], s[2]), ForceIndex(t[1], t[2]))
          /\ A(Pvt(s[1], s[2]), Pvt(t[1], t[2]))
  BY <1>3, RangesAgree, VolumesAgree
<1>8. c \in ThreeInputs =>
          /\ A(Stochastic(s[1], s[2], s[3], p), Stochastic(t[1], t[2], t[3], p))
          /\ A(Cci(s[1], s[2], s[3], p), Cci(t[1], t[2], t[3], p))
          /\ A(Vortex(s[1], s[2], s[3], p), Vortex(t[1], t[2], t[3], p))
          /\ A(Supertrend(s[1], s[2], s[3], p), Supertrend(t[1], t[2], t[3], p))
          /\ A(TrueRanges(s[1], s[2], s[3]), TrueRanges(t[1], t[2], t[3]))
          /\ A(Keltner(s[1], s[2], s[3], p), Keltner(t[1], t[2], t[3], p))
          /\ A(Both(Atr(s[1], s[2], s[3], p), s[3]), Both(Atr(t[1], t[2], t[3], p), t[3]))
  BY <1>3, TrueRangeIndicatorsAgree
<1>9. R(AdditionalIndicator(c, s, p, early), AdditionalIndicator(c, t, p, early))
  BY AdditionalIndicatorsAgree
<1>10. p + 1 \in Nat \ {0} /\ 1 \in Nat \ {0}
  OBVIOUS
<1> HIDE DEF A, R
<1>11. /\ A(Ema(Ema(Ema(s[1], p), p), p), Ema(Ema(Ema(t[1], p), p), p))
       /\ A(BollingerDerived(s[1], p), BollingerDerived(t[1], p))
       /\ A(UlcerIndex(s[1], p), UlcerIndex(t[1], p))
       /\ A(RollingZscore(s[1], p), RollingZscore(t[1], p))
       /\ A(Entropy(s[1], p), Entropy(t[1], p)) /\ A(LogReturns(s[1], p), LogReturns(t[1], p))
  BY <1>2, <1>3, <1>10 DEF BollingerDerived, UlcerIndex, RollingZscore, Entropy, LogReturns
<1>12. A(Returns(Ema(Ema(Ema(s[1], p), p), p), 1), Returns(Ema(Ema(Ema(t[1], p), p), p), 1))
  BY <1>2, <1>10, <1>11 DEF Returns
<1>13. /\ {"aroon", "ichimoku", "parabolic_sar", "donchian", "obv", "force_index", "pvt", "fisher"}
              \subseteq TwoInputs
       /\ {"stochastic", "williams_r", "cci", "vortex", "supertrend", "true_range", "keltner",
           "normalized_atr"} \subseteq ThreeInputs
  BY DEF TwoInputs, ThreeInputs
<1> QED
  BY <1>1, <1>4, <1>5, <1>6, <1>7, <1>8, <1>9, <1>11, <1>12, <1>13 DEF ExtendedIndicator, R

\* A breakout of volumes is left out at bar p, where it waits for the next bar.
LEMMA CalculatedAgree ==
    ASSUME NEW m \in Nat, NEW p \in Nat \ {0}, NEW early \in BOOLEAN,
           NEW c, NEW s, NEW t, Fed2(m, c, s, t),
           NEW u, NEW v, u = CalculateFeature(c, s, p, early), v = CalculateFeature(c, t, p, early),
           u # Raises, v # Raises
    PROVE  \A i \in 1..m : u[i] # v[i] => c = "volume_breakout" /\ i = p
<1> DEFINE A(x, y) == Agree(m, x, y)
           R(x, y) == AgreeOrRaises(m, x, y)
<1>1. (\A x, y : A(x, y) => R(x, y)) /\ R(Raises, Raises)
  BY DEF AgreeOrRaises
<1>2. /\ \A x, y, w, z : A(x, y) /\ A(w, z) => A(Row(<<x, w>>), Row(<<y, z>>))
      /\ \A x, y : \A q \in Nat \ {0} : A(x, y) => /\ A(Lagged(x, q), Lagged(y, q))
                                                   /\ A(Rolling(x, q), Rolling(y, q))
                                                   /\ A(Ema(x, q), Ema(y, q))
  BY ShapesAgree, AveragesAgree, RowsAgree
<1>3. /\ A(s[1], t[1])
      /\ c \in TwoInputs => A(s[2], t[2])
      /\ c \in ThreeInputs => A(s[2], t[2]) /\ A(s[3], t[3])
  BY DEF Fed2, Inputs2
<1>4. \A x \in {"wma", "hma", "dema", "tema", "kama", "wilder"} :
          R(MovingAverageVariant(x, s[1], p), MovingAverageVariant(x, t[1], p))
  BY <1>3, MovingAveragesAgree DEF Fed2
<1>5. /\ \A x \in {"wilder", "ema", "sma"} : A(Rsi(s[1], p, x), Rsi(t[1], p, x))
      /\ A(Macd(s[1], p), Macd(t[1], p)) /\ A(RegimeFilter(s[1], p), RegimeFilter(t[1], p))
      /\ A(Consecutive(s[1]), Consecutive(t[1]))
  BY <1>3, OscillatorsAgree
<1>6. /\ A(PreviousRollingMaximum(s[1], p), PreviousRollingMaximum(t[1], p))
      /\ A(Disparity(s[1], p), Disparity(t[1], p))
      /\ A(RollingReturnVolatility(s[1], p), RollingReturnVolatility(t[1], p))
      /\ A(VolatilityFilter(s[1], p), VolatilityFilter(t[1], p))
      /\ \A i \in 1..m : i # p => VolumeBreakout(s[1], p)[i] = VolumeBreakout(t[1], p)[i]
  BY <1>3, WindowsAgree
<1>7. c \in ThreeInputs => /\ A(Ibs(s[1], s[2], s[3]), Ibs(t[1], t[2], t[3]))
                           /\ A(Atr(s[1], s[2], s[3], p), Atr(t[1], t[2], t[3], p))
                           /\ A(Adx(s[1], s[2], s[3], p), Adx(t[1], t[2], t[3], p))
  <2> SUFFICES ASSUME c \in ThreeInputs
               PROVE  /\ A(Ibs(s[1], s[2], s[3]), Ibs(t[1], t[2], t[3]))
                      /\ A(Atr(s[1], s[2], s[3], p), Atr(t[1], t[2], t[3], p))
                      /\ A(Adx(s[1], s[2], s[3], p), Adx(t[1], t[2], t[3], p))
    OBVIOUS
  <2>1. A(Ibs(s[1], s[2], s[3]), Ibs(t[1], t[2], t[3]))
    BY <1>3, TrueRangeIndicatorsAgree
  <2> QED
    BY <1>3, <2>1, TrueRangeIndicatorsAgree
<1>8. R(ExtendedIndicator(c, s, p, early), ExtendedIndicator(c, t, p, early))
  BY ExtendedIndicatorsAgree
<1> HIDE DEF A, R
<1>9. /\ A(SingleRolling(s[1], p), SingleRolling(t[1], p)) /\ A(Ema(s[1], p), Ema(t[1], p))
      /\ A(Returns(s[1], p), Returns(t[1], p)) /\ A(PercentChange(s[1], p), PercentChange(t[1], p))
      /\ A(RollingZscore(s[1], p), RollingZscore(t[1], p))
      /\ A(Percentile(s[1], p), Percentile(t[1], p)) /\ A(Bollinger(s[1], p), Bollinger(t[1], p))
      /\ A(RollingHighRatio(s[1], p), RollingHighRatio(t[1], p))
  BY <1>2, <1>3 DEF SingleRolling, Returns, PercentChange, RollingZscore, Percentile, Bollinger,
     RollingHighRatio
<1>10. c \in TwoInputs => A(Row(<<s[1], s[2]>>), Row(<<t[1], t[2]>>))
  BY <1>2, <1>3
<1>11. c \in TwoInputs =>
           /\ A(Spread(s[1], s[2]), Spread(t[1], t[2]))
           /\ A(RollingCorrelation(s[1], s[2], p), RollingCorrelation(t[1], t[2], p))
  BY <1>2, <1>10 DEF Spread, RollingCorrelation
<1>12. {"spread", "rolling_correlation"} \subseteq TwoInputs /\ {"ibs", "atr", "adx"} \subseteq ThreeInputs
  BY DEF TwoInputs, ThreeInputs
<1>13. CASE c = "volume_breakout"
  <2>1. u = VolumeBreakout(s[1], p) /\ v = VolumeBreakout(t[1], p)
    BY <1>13 DEF CalculateFeature, MacdBased
  <2> QED
    BY <1>6, <1>13, <2>1
<1>14. CASE c # "volume_breakout"
  <2>1. R(CalculateFeature(c, s, p, early), CalculateFeature(c, t, p, early))
    BY <1>1, <1>4, <1>5, <1>6, <1>7, <1>8, <1>9, <1>11, <1>12, <1>14 DEF CalculateFeature, R
  <2>2. A(u, v)
    BY <2>1 DEF R, A, AgreeOrRaises
  <2> QED
    BY <2>2 DEF A, Agree
<1> QED
  BY <1>13, <1>14
-----------------------------------------------------------------------------
(* One more bar, and what was observed meanwhile. *)

\* A series of n bars is n long.
LEMMA LenOfSeries ==
    ASSUME NEW n \in Nat, NEW f, f = [i \in 1..n |-> f[i]]
    PROVE  Len(f) = n
<1> DEFINE S == {f[i] : i \in 1..n}
<1>1. f \in [1..n -> S]
  OBVIOUS
<1>2. f \in Seq(S)
  BY <1>1
<1> QED
  BY <1>1, <1>2

\* Time does not go back to an earlier period.
LEMMA PeriodsInOrder ==
    ASSUME NEW i \in Nat \ {0}, NEW j \in Nat \ {0}, i <= j
    PROVE  Period(i, "1w") <= Period(j, "1w") /\ Period(i, "1w") \in Int /\ Period(j, "1w") \in Int
<1> DEFINE d == WeekBars
           x == i - 1
           y == j - 1
<1>1. d \in Nat \ {0} /\ x \in Nat /\ y \in Nat /\ x <= y
  BY FeaturesAssumption
<1> HIDE DEF d, x, y
<1>2. x \div d <= y \div d /\ x \div d \in Int /\ y \div d \in Int
  BY <1>1
<1> QED
  BY <1>2 DEF Period, d, x, y

\* Observations that are new at bar n + 1 leave an earlier bar alone, unless they
\* are of its week.
LEMMA AlignedStands ==
    ASSUME spec \in Specs, NEW n \in Nat, NEW m \in 0..n,
           NEW obs \in SUBSET Observation, NEW obs2 \in SUBSET Observation, obs \subseteq obs2,
           \A o \in obs2 \ obs : o.available > n,
           spec.timeframe = "1w" =>
               \A o \in obs2 \ obs : \A i \in 1..m : Period(i, "1w") # Period(o.at, "1w")
    PROVE  Agree(m, Aligned(n, obs), Aligned(n + 1, obs2))
<1> DEFINE tf == spec.timeframe
           usable(all, i) ==
               {o.at : o \in {o \in ResampleCompleted(all, tf) : o.at <= i /\ o.available <= i}}
<1>1. tf \in {"1d", "1w"}
  BY FeaturesAssumption
<1>2. ASSUME NEW i \in 1..m, NEW o \in ResampleCompleted(obs, tf), o.at <= i, o.available <= i
      PROVE  o \in ResampleCompleted(obs2, tf)
  <2>1. o \in obs /\ o \in obs2 /\ o.at \in 1..m
    BY <1>2 DEF ResampleCompleted, Observation
  <2>2. ASSUME NEW q \in obs2, Period(q.at, tf) = Period(o.at, tf) PROVE q.at <= o.at
    <3>1. CASE q \in obs
      BY <1>2, <2>2, <3>1 DEF ResampleCompleted
    <3>2. CASE q \notin obs /\ tf = "1w"
      BY <2>1, <2>2, <3>2
    <3>3. CASE tf = "1d"
      BY <2>1, <2>2, <3>3 DEF Period, Observation
    <3> QED
      BY <1>1, <3>1, <3>2, <3>3
  <2> QED
    BY <2>1, <2>2 DEF ResampleCompleted
<1>3. ASSUME NEW i \in 1..m, NEW o \in ResampleCompleted(obs2, tf), o.at <= i, o.available <= i
      PROVE  o \in ResampleCompleted(obs, tf)
  <2>1. o \in obs2 /\ o.available <= n
    BY <1>3 DEF ResampleCompleted, Observation
  <2>2. o \in obs
    BY <2>1 DEF Observation
  <2> QED
    BY <1>3, <2>2 DEF ResampleCompleted
<1>4. \A i \in 1..m : usable(obs, i) = usable(obs2, i)
  <2> SUFFICES ASSUME NEW i \in 1..m PROVE usable(obs, i) = usable(obs2, i)
    OBVIOUS
  <2>1. {o \in ResampleCompleted(obs, tf) : o.at <= i /\ o.available <= i}
            = {o \in ResampleCompleted(obs2, tf) : o.at <= i /\ o.available <= i}
    BY <1>2, <1>3
  <2> QED
    BY <2>1
<1>5. \A all : \A k : Aligned(k, all) = [i \in 1..k |->
          IF usable(all, i) = {} THEN None ELSE {<<"observation", Max(usable(all, i))>>}]
  BY DEF Aligned, AlignAsOf
<1> HIDE DEF usable, tf
<1>6. /\ \A i \in 1..n : i \in DOMAIN Aligned(n, obs) /\ Aligned(n, obs)[i] =
             IF usable(obs, i) = {} THEN None ELSE {<<"observation", Max(usable(obs, i))>>}
      /\ \A i \in 1..(n + 1) : i \in DOMAIN Aligned(n + 1, obs2) /\ Aligned(n + 1, obs2)[i] =
             IF usable(obs2, i) = {} THEN None ELSE {<<"observation", Max(usable(obs2, i))>>}
  BY <1>5
<1>7. 1..m \subseteq 1..n /\ 1..m \subseteq 1..(n + 1)
  OBVIOUS
<1> QED
  BY <1>4, <1>6, <1>7 DEF Agree

\* The inputs of the calculator before and after.
LEMMA SeriesStand ==
    ASSUME spec \in Specs, NEW b \in Seq(SUBSET Fields), NEW missing \in SUBSET Fields,
           NEW m \in 0..Len(b),
           NEW obs \in SUBSET Observation, NEW obs2 \in SUBSET Observation,
           Agree(m, Aligned(Len(b), obs), Aligned(Len(b) + 1, obs2))
    PROVE  Fed2(m, spec.name, Series(b, obs), Series(Append(b, missing), obs2))
<1> DEFINE n == Len(b)
           b2 == Append(b, missing)
           s == Series(b, obs)
           t == Series(b2, obs2)
           D == DOMAIN InputsOf(spec.name)
           field(k, h) == [i \in DOMAIN h |-> IF Inputs[k] \in h[i] THEN None ELSE {<<"bar", i>>}]
<1>1. /\ n \in Nat /\ DOMAIN b = 1..n /\ b2 \in Seq(SUBSET Fields) /\ Len(b2) = n + 1
      /\ DOMAIN b2 = 1..(n + 1) /\ \A i \in 1..n : b2[i] = b[i]
  OBVIOUS
<1>2. spec.name \in FeatureNames
  BY FeaturesAssumption
<1>3. /\ s = [k \in D |-> IF k = 1 /\ spec.external THEN Aligned(n, obs) ELSE field(k, b)]
      /\ t = [k \in D |-> IF k = 1 /\ spec.external THEN Aligned(n + 1, obs2) ELSE field(k, b2)]
  BY <1>1 DEF Series, Inputs
<1> HIDE DEF b2, s, t, D
<1>4. \A k : Agree(m, field(k, b), field(k, b2))
  BY <1>1 DEF Agree
<1>5. /\ 1 \in D
      /\ spec.name \in TwoInputs => 2 \in D
      /\ spec.name \in ThreeInputs => 2 \in D /\ 3 \in D
      /\ spec.name \in FourInputs => D = 1..4
  BY <1>2, CatalogFeeds DEF D
<1>6. /\ Len(Aligned(n, obs)) \in Nat /\ Len(Aligned(n + 1, obs2)) \in Nat
      /\ \A k : Len(field(k, b)) \in Nat /\ Len(field(k, b2)) \in Nat
  <2>1. \A k \in Nat : \A all : Aligned(k, all) = [i \in 1..k |-> Aligned(k, all)[i]]
    BY DEF Aligned, AlignAsOf
  <2>2. \A k : /\ field(k, b) = [i \in 1..n |-> field(k, b)[i]]
               /\ field(k, b2) = [i \in 1..(n + 1) |-> field(k, b2)[i]]
    BY <1>1
  <2> HIDE DEF field
  <2>3. n \in Nat /\ n + 1 \in Nat
    BY <1>1
  <2> QED
    BY <2>1, <2>2, <2>3, LenOfSeries
<1> HIDE DEF field, n
<1>7. Inputs2(m, s, t)
  <2>1. ASSUME NEW k \in D PROVE Agree(m, s[k], t[k])
    <3>1. Agree(m, Aligned(n, obs), Aligned(n + 1, obs2))
      BY DEF n
    <3> QED
      BY <1>3, <1>4, <3>1
  <2>2. DOMAIN s = D /\ DOMAIN t = D
    BY <1>3
  <2> QED
    BY <1>5, <2>1, <2>2 DEF Inputs2
<1>8. Len(s[1]) \in Nat /\ Len(t[1]) \in Nat
  BY <1>3, <1>5, <1>6
<1>9. spec.name \in FourInputs => s = [k \in 1..4 |-> s[k]] /\ t = [k \in 1..4 |-> t[k]]
  BY <1>3, <1>5
<1>10. DOMAIN s = D
  BY <1>3
<1> QED
  BY <1>5, <1>7, <1>8, <1>9, <1>10 DEF Fed2, s, t, b2

\* What the next bar brings.
LEMMA NextBarAdds ==
    ASSUME Typed, NextBar
    PROVE  /\ \E missing \in SUBSET Fields : bars' = Append(bars, missing)
           /\ observed \subseteq observed'
           /\ \A o \in observed' \ observed : o.at >= Len(bars) /\ o.available > Len(bars)
           /\ spec' = spec /\ values' = FeatureValues(bars', observed')
<1> DEFINE n == Len(bars) + 1
<1>1. n \in Nat \ {0}
  BY DEF Typed
<1>2. PICK missing \in Gaps, new \in Observations(n) :
          bars' = Append(bars, missing) /\ observed' = observed \cup new
  BY DEF NextBar
<1>3. missing \in SUBSET Fields
  BY <1>2 DEF Gaps, Read
<1>4. \A o \in new : o.at >= n - 1 /\ o.available >= n
  <2> DEFINE today == {{}, {[at |-> n, available |-> n]}, {[at |-> n, available |-> n + 1]}}
             late == {{}, IF n = 1 \/ \E o \in observed : o.at = n - 1 THEN {}
                          ELSE {[at |-> n - 1, available |-> n]}}
             Later(o) == o.at >= n - 1 /\ o.available >= n
  <2>1. \A t \in today : \A o \in t : Later(o)
    BY <1>1
  <2>2. \A l \in late : \A o \in l : Later(o)
    BY <1>1
  <2>3. new \in IF spec.external THEN {t \cup l : t \in today, l \in late} ELSE {{}}
    BY <1>2 DEF Observations
  <2> HIDE DEF today, late, Later
  <2>4. \A o \in new : Later(o)
    BY <2>1, <2>2, <2>3
  <2> QED
    BY <2>4 DEF Later
<1>5. spec' = spec /\ values' = FeatureValues(bars', observed')
  BY DEF NextBar
<1>6. \A o \in new : o.at >= Len(bars) /\ o.available > Len(bars)
  <2>1. Len(bars) \in Nat /\ new \in SUBSET Observation
    <3>1. Typed'
      BY TypedNext
    <3> QED
      BY <1>2, <3>1 DEF Typed
  <2> QED
    BY <1>4, <2>1 DEF Observation
<1> QED
  BY <1>2, <1>3, <1>5, <1>6

\* More data do not change what a back-test saw at an earlier bar, even if they
\* come late; of a week they may change what its bars saw, and a breakout of
\* volumes of the first full window waits for the bar after it.
THEOREM OldAnswers == Spec => OldAnswersStand
<1>1. ASSUME IInv, NextBar, Answered, Answered', NEW i \in DOMAIN values, values'[i] # values[i]
      PROVE  \/ /\ spec.timeframe = "1w"
                /\ \E o \in observed' \ observed :
                       Period(o.at, "1w") = Period(i - spec.lag, "1w")
             \/ spec.name = "volume_breakout" /\ i - spec.lag = spec.lookback
  <2> DEFINE n == Len(bars)
             m == i - spec.lag
             u == CalculateFeature(spec.name, Series(bars, observed), spec.lookback, spec.early)
             v == CalculateFeature(spec.name, Series(bars', observed'), spec.lookback, spec.early)
  <2>1. /\ Typed /\ spec \in Specs /\ bars \in Seq(SUBSET Fields)
        /\ observed \in SUBSET Observation /\ n \in Nat
    BY <1>1 DEF IInv, Typed
  <2>2. /\ spec' = spec /\ values' = FeatureValues(bars', observed')
        /\ observed \subseteq observed'
        /\ \A o \in observed' \ observed : o.at >= n /\ o.available > n
    BY <1>1, <2>1, NextBarAdds
  <2>3. PICK missing \in SUBSET Fields : bars' = Append(bars, missing)
    BY <1>1, <2>1, NextBarAdds
  <2>4. bars' \in Seq(SUBSET Fields) /\ observed' \in SUBSET Observation /\ Len(bars') = n + 1
    BY <1>1, <2>1, <2>3, TypedNext DEF Typed
  <2>5. /\ spec.lag \in Nat /\ spec.lookback \in Nat \ {0} /\ spec.early \in BOOLEAN
        /\ spec.timeframe \in {"1d", "1w"}
    BY <2>1, FeaturesAssumption
  <2>6. values = FeatureValues(bars, observed)
    BY <1>1 DEF IInv, Current
  <2>7. values # Raises /\ values' # Raises
    BY <1>1 DEF Answered
  <2> HIDE DEF u, v
  <2>8. u # Raises /\ values = [j \in 1..n |-> IF j > spec.lag THEN u[j - spec.lag] ELSE None]
    BY <2>1, <2>6, <2>7, FeatureValuesAre DEF u
  <2>9. v # Raises
        /\ values' = [j \in 1..(n + 1) |-> IF j > spec.lag THEN v[j - spec.lag] ELSE None]
    BY <2>1, <2>2, <2>4, <2>7, FeatureValuesAre DEF v
  <2>10. i \in 1..n /\ i \in 1..(n + 1)
    BY <1>1, <2>1, <2>8
  <2>11. i > spec.lag /\ u[m] # v[m] /\ m \in 1..n
    BY <1>1, <2>1, <2>5, <2>8, <2>9, <2>10
  <2>12. CASE spec.timeframe = "1w" /\ \E o \in observed' \ observed :
                                           Period(o.at, "1w") = Period(m, "1w")
    BY <2>12
  <2>13. CASE ~(spec.timeframe = "1w" /\ \E o \in observed' \ observed :
                                             Period(o.at, "1w") = Period(m, "1w"))
    <3>1. ASSUME spec.timeframe = "1w", NEW o \in observed' \ observed, NEW j \in 1..m
          PROVE  Period(j, "1w") # Period(o.at, "1w")
      <4>1. j \in Nat \ {0} /\ m \in Nat \ {0} /\ o.at \in Nat \ {0} /\ j <= m /\ m <= o.at
        BY <2>1, <2>2, <2>4, <2>11 DEF Observation
      <4> HIDE DEF m
      <4>2. /\ Period(j, "1w") <= Period(m, "1w") /\ Period(m, "1w") <= Period(o.at, "1w")
            /\ Period(j, "1w") \in Int /\ Period(m, "1w") \in Int /\ Period(o.at, "1w") \in Int
        BY <4>1, PeriodsInOrder
      <4>3. Period(m, "1w") # Period(o.at, "1w")
        BY <2>13, <3>1
      <4> QED
        BY <4>2, <4>3
    <3> HIDE DEF n, m
    <3>2. m \in 0..n /\ m \in Nat /\ m \in 1..m
      BY <2>1, <2>11
    <3>3. Agree(m, Aligned(n, observed), Aligned(n + 1, observed'))
      BY <2>1, <2>2, <2>4, <3>1, <3>2, AlignedStands
    <3>4. Fed2(m, spec.name, Series(bars, observed), Series(bars', observed'))
      BY <2>1, <2>3, <2>4, <3>2, <3>3, SeriesStand DEF n
    <3>5. \A j \in 1..m : u[j] # v[j] => spec.name = "volume_breakout" /\ j = spec.lookback
      BY <2>5, <2>8, <2>9, <3>2, <3>4, CalculatedAgree DEF u, v
    <3> QED
      BY <2>11, <3>2, <3>5 DEF m
  <2> QED
    BY <2>12, <2>13
<1>2. ASSUME IInv, [Next]_vars
      PROVE  [ Answered /\ Answered' =>
                 \A i \in DOMAIN values :
                     values'[i] # values[i] =>
                         \/ /\ spec.timeframe = "1w"
                            /\ \E o \in observed' \ observed :
                                   Period(o.at, "1w") = Period(i - spec.lag, "1w")
                         \/ spec.name = "volume_breakout" /\ i - spec.lag = spec.lookback ]_vars
  BY <1>1, <1>2 DEF Next
<1>3. Spec => []IInv
  BY Invariance
<1> QED
  BY <1>2, <1>3, PTL DEF Spec, OldAnswersStand
-----------------------------------------------------------------------------
(* Windows.  A series answers after q bars and reaches back over r of them: *)
(* before bar q it has no value, and at a bar where the last r bars are     *)
(* whole it has one, which is computed from no older bars.                  *)

\* The first of the r bars that end with bar i.
First(i, r) == IF i > r THEN i - r + 1 ELSE 1

\* The data points of these bars, and all observations.
Since(first) == {point \in Points : Kind(point) = "bar" => When(point) >= first}

Windowed(w, n, s, q, r) ==
    /\ DOMAIN s = 1..n
    /\ \A i \in 1..n :
           /\ i < q => s[i] = None
           /\ i >= q /\ First(i, r)..i \subseteq w => s[i] \in SUBSET Since(First(i, r))

LEMMA JoinSince ==
    ASSUME NEW first, NEW cells, \A c \in cells : c \in SUBSET Since(first)
    PROVE  Join(cells) \in SUBSET Since(first)
<1>1. \A c \in cells : c \in SUBSET Points
  BY DEF Since
<1>2. None \notin cells
  BY <1>1, NoneAssumption
<1> QED
  BY <1>2 DEF Join

LEMMA SinceShrinks ==
    ASSUME NEW i \in Nat, NEW j \in Nat, j <= i, NEW q \in Nat \ {0}, NEW r \in Nat, q + (i - j) <= r
    PROVE  /\ First(j, q)..j \subseteq First(i, r)..i
           /\ Since(First(j, q)) \subseteq Since(First(i, r))
<1>1. First(j, q) \in Nat /\ First(i, r) \in Nat /\ First(i, r) <= First(j, q)
  BY DEF First
<1>2. First(j, q)..j \subseteq First(i, r)..i
  BY <1>1
<1>3. ASSUME NEW x \in Since(First(j, q)) PROVE x \in Since(First(i, r))
  <2>1. When(x) \in Nat
    BY DEF Since, Points, When
  <2> QED
    BY <1>1, <1>3, <2>1 DEF Since
<1> QED
  BY <1>2, <1>3

\* What a cell at bar j is worth at bar i.
LEMMA Earlier ==
    ASSUME NEW w, NEW n \in Nat, NEW s, NEW q \in Nat, NEW r \in Nat \ {0}, Windowed(w, n, s, q, r),
           NEW i \in 1..n, NEW t \in Nat, First(i, t)..i \subseteq w,
           NEW j \in 1..i, q <= j, r + (i - j) <= t
    PROVE  s[j] \in SUBSET Since(First(i, t))
<1>1. /\ First(j, r)..j \subseteq First(i, t)..i
      /\ Since(First(j, r)) \subseteq Since(First(i, t))
  BY SinceShrinks
<1>2. s[j] \in SUBSET Since(First(j, r))
  BY <1>1 DEF Windowed
<1> QED
  BY <1>1, <1>2

\* The same of an input, which has a value at every whole bar.
LEMMA InputSince ==
    ASSUME NEW w, NEW n \in Nat, NEW s, Windowed(w, n, s, 1, 1),
           NEW i \in 1..n, NEW t \in Nat, First(i, t)..i \subseteq w, NEW j \in 1..i, i - j < t
    PROVE  s[j] \in SUBSET Since(First(i, t))
<1>1. \A q \in Nat : \A r \in Nat \ {0} :
          Windowed(w, n, s, q, r) /\ q <= j /\ r + (i - j) <= t
              => s[j] \in SUBSET Since(First(i, t))
  BY Earlier
<1>2. 1 \in Nat /\ 1 \in Nat \ {0} /\ 1 <= j /\ 1 + (i - j) <= t
  OBVIOUS
<1> QED
  BY <1>1, <1>2

LEMMA WindowedBoth ==
    ASSUME NEW w, NEW n \in Nat, NEW s, NEW t,
           NEW q1 \in Nat, NEW r1 \in Nat \ {0}, Windowed(w, n, s, q1, r1),
           NEW q2 \in Nat, NEW r2 \in Nat \ {0}, Windowed(w, n, t, q2, r2),
           NEW q \in Nat, NEW r \in Nat \ {0},
           q1 <= q, q2 <= q, q = q1 \/ q = q2, r1 <= r, r2 <= r
    PROVE  Windowed(w, n, Both(s, t), q, r)
<1>1. DOMAIN s = 1..n /\ DOMAIN t = 1..n
  BY DEF Windowed
<1>2. \A i \in 1..n : i < q => s[i] = None \/ t[i] = None
  BY DEF Windowed
<1>3. ASSUME NEW i \in 1..n, i >= q, First(i, r)..i \subseteq w
      PROVE  Join({s[i], t[i]}) \in SUBSET Since(First(i, r))
  <2>1. i \in 1..i /\ q1 <= i /\ q2 <= i /\ r1 + (i - i) <= r /\ r2 + (i - i) <= r
    BY <1>3
  <2>2. s[i] \in SUBSET Since(First(i, r))
    BY <1>3, <2>1, Earlier
  <2>3. t[i] \in SUBSET Since(First(i, r))
    BY <1>3, <2>1, Earlier
  <2> QED
    BY <2>2, <2>3, JoinSince
<1>4. \A i \in 1..n : i < q => Join({s[i], t[i]}) = None
  BY <1>2 DEF Join
<1> QED
  BY <1>1, <1>3, <1>4 DEF Windowed, Both

LEMMA WindowedRow ==
    ASSUME NEW w, NEW n \in Nat, NEW series, NEW q \in Nat, NEW r \in Nat \ {0},
           1 \in DOMAIN series,
           \A k \in DOMAIN series : \E q1 \in 0..q : Windowed(w, n, series[k], q1, r),
           \E k \in DOMAIN series : Windowed(w, n, series[k], q, r)
    PROVE  Windowed(w, n, Row(series), q, r)
<1>1. DOMAIN series[1] = 1..n
  BY DEF Windowed
<1>2. ASSUME NEW i \in 1..n, i >= q, First(i, r)..i \subseteq w
      PROVE  Join({series[k][i] : k \in DOMAIN series}) \in SUBSET Since(First(i, r))
  <2>1. \A k \in DOMAIN series : series[k][i] \in SUBSET Since(First(i, r))
    BY <1>2 DEF Windowed
  <2> QED
    BY <2>1, JoinSince
<1>3. ASSUME NEW i \in 1..n, i < q
      PROVE  Join({series[k][i] : k \in DOMAIN series}) = None
  <2>1. \E k \in DOMAIN series : series[k][i] = None
    BY <1>3 DEF Windowed
  <2> QED
    BY <2>1 DEF Join
<1> QED
  BY <1>1, <1>2, <1>3 DEF Windowed, Row

LEMMA WindowedRolling ==
    ASSUME NEW w, NEW n \in Nat, NEW s, NEW q \in Nat \ {0}, NEW r \in Nat \ {0},
           Windowed(w, n, s, q, r), NEW p \in Nat \ {0},
           NEW q1, NEW r1, q1 = q + p - 1, r1 = r + p - 1
    PROVE  Windowed(w, n, Rolling(s, p), q1, r1)
<1>1. DOMAIN s = 1..n
  BY DEF Windowed
<1>2. ASSUME NEW i \in 1..n, i >= q + p - 1, First(i, r + p - 1)..i \subseteq w
      PROVE  Join(Cells(s, i - p + 1, i)) \in SUBSET Since(First(i, r + p - 1))
  <2>1. ASSUME NEW k \in (i - p + 1)..i
        PROVE  s[k] \in SUBSET Since(First(i, r + p - 1))
    <3>1. k \in 1..i /\ q <= k /\ r + (i - k) <= r + p - 1 /\ r + p - 1 \in Nat
      BY <1>2
    <3> HIDE DEF Windowed
    <3> QED
      BY <1>2, <3>1, Earlier
  <2> QED
    BY <2>1, JoinSince DEF Cells
<1>3. ASSUME NEW i \in 1..n, i < q + p - 1, i >= p PROVE Join(Cells(s, i - p + 1, i)) = None
  <2>1. i - p + 1 \in 1..n /\ i - p + 1 \in (i - p + 1)..i /\ i - p + 1 < q
    BY <1>3
  <2>2. s[i - p + 1] = None
    BY <2>1 DEF Windowed
  <2> QED
    BY <2>1, <2>2 DEF Join, Cells
<1>4. \A i \in 1..n : i >= q + p - 1 => ~(i < p)
  OBVIOUS
<1> QED
  BY <1>1, <1>2, <1>3, <1>4 DEF Windowed, Rolling

LEMMA WindowOfInput ==
    ASSUME NEW w, NEW n \in Nat, NEW s, Windowed(w, n, s, 1, 1), NEW p \in Nat \ {0}
    PROVE  Windowed(w, n, Rolling(s, p), p, p)
<1>1. \A q, r \in Nat \ {0} : Windowed(w, n, s, q, r) /\ p = q + p - 1 /\ p = r + p - 1
          => Windowed(w, n, Rolling(s, p), p, p)
  BY WindowedRolling
<1>2. 1 \in Nat \ {0} /\ p = 1 + p - 1
  OBVIOUS
<1> QED
  BY <1>1, <1>2

LEMMA WindowedLagged ==
    ASSUME NEW w, NEW n \in Nat, NEW s, NEW q \in Nat \ {0}, NEW r \in Nat \ {0},
           Windowed(w, n, s, q, r), NEW p \in Nat, NEW q1, NEW r1, q1 = q + p, r1 = r + p
    PROVE  Windowed(w, n, Lagged(s, p), q1, r1)
<1>1. DOMAIN s = 1..n
  BY DEF Windowed
<1>2. ASSUME NEW i \in 1..n, i >= q + p, First(i, r + p)..i \subseteq w
      PROVE  Join({s[i - p], s[i]}) \in SUBSET Since(First(i, r + p))
  <2>1. i - p \in 1..i /\ i \in 1..i /\ q <= i - p /\ q <= i
        /\ r + (i - (i - p)) <= r + p /\ r + (i - i) <= r + p /\ r + p \in Nat
    BY <1>2
  <2>2. s[i - p] \in SUBSET Since(First(i, r + p))
    BY <1>2, <2>1, Earlier
  <2>3. s[i] \in SUBSET Since(First(i, r + p))
    BY <1>2, <2>1, Earlier
  <2> QED
    BY <2>2, <2>3, JoinSince
<1>3. ASSUME NEW i \in 1..n, i < q + p, i > p PROVE Join({s[i - p], s[i]}) = None
  <2>1. i - p \in 1..n /\ i - p < q
    BY <1>3
  <2>2. s[i - p] = None
    BY <2>1 DEF Windowed
  <2> QED
    BY <2>2 DEF Join
<1>4. \A i \in 1..n : i >= q + p => i > p
  OBVIOUS
<1> QED
  BY <1>1, <1>2, <1>3, <1>4 DEF Windowed, Lagged

\* A series that reaches back over r bars also does over more.
LEMMA WindowedReach ==
    ASSUME NEW w, NEW n \in Nat, NEW s, NEW q \in Nat, NEW r \in Nat \ {0},
           Windowed(w, n, s, q, r), NEW r1 \in Nat, r <= r1
    PROVE  Windowed(w, n, s, q, r1)
<1>1. ASSUME NEW i \in 1..n, i >= q, First(i, r1)..i \subseteq w
      PROVE  s[i] \in SUBSET Since(First(i, r1))
  <2>1. i \in 1..i /\ r + (i - i) <= r1
    OBVIOUS
  <2> QED
    BY <1>1, <2>1, Earlier
<1> QED
  BY <1>1 DEF Windowed

LEMMA WindowedPair ==
    ASSUME NEW w, NEW n \in Nat, NEW s, NEW t, NEW q \in Nat, NEW r \in Nat \ {0},
           Windowed(w, n, s, q, r), Windowed(w, n, t, q, r)
    PROVE  Windowed(w, n, Row(<<s, t>>), q, r)
<1> DEFINE series == <<s, t>>
<1>1. DOMAIN series = 1..2 /\ series[1] = s /\ series[2] = t
  OBVIOUS
<1>2. q \in 0..q /\ \A k \in DOMAIN series : Windowed(w, n, series[k], q, r)
  BY <1>1
<1> HIDE DEF series
<1>3. Windowed(w, n, Row(series), q, r)
  BY <1>1, <1>2, WindowedRow
<1> QED
  BY <1>3 DEF series

LEMMA WindowedTriple ==
    ASSUME NEW w, NEW n \in Nat, NEW s, NEW t, NEW u, NEW q \in Nat, NEW r \in Nat \ {0},
           Windowed(w, n, s, q, r), Windowed(w, n, t, q, r), Windowed(w, n, u, q, r)
    PROVE  Windowed(w, n, Row(<<s, t, u>>), q, r)
<1> DEFINE series == <<s, t, u>>
<1>1. DOMAIN series = 1..3 /\ series[1] = s /\ series[2] = t /\ series[3] = u
  OBVIOUS
<1>2. q \in 0..q /\ \A k \in DOMAIN series : Windowed(w, n, series[k], q, r)
  BY <1>1
<1> HIDE DEF series
<1>3. Windowed(w, n, Row(series), q, r)
  BY <1>1, <1>2, WindowedRow
<1> QED
  BY <1>3 DEF series

\* True ranges read the close of the bar before.
LEMMA WindowedTrueRanges ==
    ASSUME NEW w, NEW n \in Nat, NEW high, NEW low, NEW close,
           Windowed(w, n, high, 1, 1), Windowed(w, n, low, 1, 1), Windowed(w, n, close, 1, 1)
    PROVE  Windowed(w, n, TrueRanges(high, low, close), 1, 2)
<1>1. DOMAIN high = 1..n
  BY DEF Windowed
<1>2. ASSUME NEW i \in 1..n, First(i, 2)..i \subseteq w
      PROVE  TrueRanges(high, low, close)[i] \in SUBSET Since(First(i, 2))
  <2> DEFINE S == SUBSET Since(First(i, 2))
  <2>1. i \in 1..i /\ i - i < 2 /\ 2 \in Nat
    OBVIOUS
  <2>2. high[i] \in S /\ low[i] \in S
    BY <1>2, <2>1, InputSince
  <2>3. CASE i = 1 \/ close[i - 1] = None
    <3>1. Join({high[i], low[i]}) \in S
      BY <2>2, JoinSince
    <3> QED
      BY <1>1, <2>3, <3>1 DEF TrueRanges
  <2>4. CASE ~(i = 1 \/ close[i - 1] = None)
    <3>1. i - 1 \in 1..i /\ i - (i - 1) < 2 /\ 2 \in Nat
      BY <2>4
    <3>2. close[i - 1] \in S
      BY <1>2, <3>1, InputSince
    <3>3. Join({high[i], low[i], close[i - 1]}) \in S
      BY <2>2, <3>2, JoinSince
    <3> QED
      BY <1>1, <2>4, <3>3 DEF TrueRanges
  <2> QED
    BY <2>3, <2>4
<1>3. DOMAIN TrueRanges(high, low, close) = 1..n
  BY <1>1 DEF TrueRanges
<1> QED
  BY <1>2, <1>3 DEF Windowed

LEMMA WindowedAdx ==
    ASSUME NEW w, NEW n \in Nat, NEW high, NEW low, NEW close, NEW p \in Nat \ {0},
           Windowed(w, n, high, 1, 1), Windowed(w, n, low, 1, 1), Windowed(w, n, close, 1, 1)
    PROVE  Windowed(w, n, Adx(high, low, close, p), 2 * p, 2 * p)
<1> DEFINE before(s) == [i \in DOMAIN s |-> IF i = 1 THEN None ELSE s[i - 1]]
           series == <<high, low, before(high), before(low), before(close)>>
<1>1. ASSUME NEW s, Windowed(w, n, s, 1, 1) PROVE Windowed(w, n, before(s), 2, 2)
  <2>1. DOMAIN s = 1..n
    BY <1>1 DEF Windowed
  <2>2. ASSUME NEW i \in 1..n, i >= 2, First(i, 2)..i \subseteq w
        PROVE  s[i - 1] \in SUBSET Since(First(i, 2))
    <3>1. i - 1 \in 1..i /\ i - (i - 1) < 2 /\ 2 \in Nat
      BY <2>2
    <3> QED
      BY <1>1, <2>2, <3>1, InputSince
  <2>3. \A i \in 1..n : i < 2 <=> i = 1
    OBVIOUS
  <2> QED
    BY <2>1, <2>2, <2>3 DEF Windowed
<1>2. /\ Windowed(w, n, high, 1, 2) /\ Windowed(w, n, low, 1, 2)
      /\ Windowed(w, n, before(high), 2, 2) /\ Windowed(w, n, before(low), 2, 2)
      /\ Windowed(w, n, before(close), 2, 2)
  BY <1>1, WindowedReach
<1> HIDE DEF before
<1>3. /\ DOMAIN series = 1..5 /\ series[1] = high /\ series[2] = low
      /\ series[3] = before(high) /\ series[4] = before(low) /\ series[5] = before(close)
  OBVIOUS
<1> HIDE DEF series
<1>4. \A k \in DOMAIN series : \E q1 \in 0..2 : Windowed(w, n, series[k], q1, 2)
  <2>1. 1 \in 0..2 /\ 2 \in 0..2
    OBVIOUS
  <2> QED
    BY <1>2, <1>3, <2>1
<1>5. Windowed(w, n, Row(series), 2, 2)
  <2>1. /\ 1 \in DOMAIN series /\ 2 \in Nat /\ 2 \in Nat \ {0}
        /\ \E k \in DOMAIN series : Windowed(w, n, series[k], 2, 2)
    BY <1>2, <1>3
  <2> QED
    BY <1>4, <2>1, WindowedRow
<1>6. Windowed(w, n, Rolling(Row(series), p), p + 1, p + 1)
  <2>1. \A q, r \in Nat \ {0} :
            Windowed(w, n, Row(series), q, r) /\ p + 1 = q + p - 1 /\ p + 1 = r + p - 1
                => Windowed(w, n, Rolling(Row(series), p), p + 1, p + 1)
    BY WindowedRolling
  <2>2. 2 \in Nat \ {0} /\ p + 1 = 2 + p - 1
    OBVIOUS
  <2> QED
    BY <1>5, <2>1, <2>2
<1>7. Windowed(w, n, Rolling(Rolling(Row(series), p), p), 2 * p, 2 * p)
  <2>1. p + 1 \in Nat \ {0} /\ (p + 1) + p - 1 = 2 * p
    OBVIOUS
  <2> QED
    BY <1>6, <2>1, WindowedRolling
<1> QED
  BY <1>7 DEF Adx, SingleRolling, series, before

\* The price of a bar is compared with that of the bar before the window.
LEMMA WindowedMfi ==
    ASSUME NEW w, NEW n \in Nat, NEW p \in Nat \ {0}, NEW series,
           DOMAIN series = 1..4, series = [k \in 1..4 |-> series[k]],
           \A k \in DOMAIN series : Windowed(w, n, series[k], 1, 1)
    PROVE  Windowed(w, n, Mfi(series, p), p + 1, p + 1)
<1> DEFINE typical == Row(SubSeq(series, 1, 3))
           flows == Rolling(Row(series), p)
           result == [i \in DOMAIN typical |->
                         IF i <= p \/ flows[i] = None THEN None
                         ELSE flows[i] \cup Present({typical[i - p]})]
<1>1. Windowed(w, n, typical, 1, 1)
  <2> DEFINE three == SubSeq(series, 1, 3)
  <2>1. DOMAIN three = 1..3 /\ \A k \in 1..3 : three[k] = series[k]
    BY FirstThree
  <2>2. \A k \in 1..3 : Windowed(w, n, series[k], 1, 1)
    OBVIOUS
  <2> HIDE DEF three
  <2>3. 1 \in DOMAIN three /\ 1 \in 0..1 /\ \A k \in DOMAIN three : Windowed(w, n, three[k], 1, 1)
    BY <2>1, <2>2
  <2>4. Windowed(w, n, Row(three), 1, 1)
    BY <2>3, WindowedRow
  <2> QED
    BY <2>4 DEF three
<1>2. Windowed(w, n, flows, p, p)
  <2>1. Windowed(w, n, Row(series), 1, 1)
    <3>1. 1 \in DOMAIN series /\ 1 \in 0..1 /\ 1 \in Nat /\ 1 \in Nat \ {0}
      OBVIOUS
    <3> QED
      BY <3>1, WindowedRow
  <2> QED
    BY <2>1, WindowOfInput
<1> HIDE DEF typical, flows
<1>3. DOMAIN typical = 1..n
  BY <1>1 DEF Windowed
<1>4. ASSUME NEW i \in 1..n, i >= p + 1, First(i, p + 1)..i \subseteq w
      PROVE  result[i] \in SUBSET Since(First(i, p + 1))
  <2> DEFINE S == SUBSET Since(First(i, p + 1))
  <2>1. /\ i \in 1..i /\ p <= i /\ p + (i - i) <= p + 1 /\ p + 1 \in Nat
        /\ i - p \in 1..i /\ i - (i - p) < p + 1
    BY <1>4
  <2>2. flows[i] \in S
    BY <1>2, <1>4, <2>1, Earlier
  <2>6. typical[i - p] \in S
    BY <1>1, <1>4, <2>1, InputSince
  <2>3. flows[i] # None
    BY <2>2, NoneAssumption DEF Since
  <2>4. Present({typical[i - p]}) \in S
    BY <2>6 DEF Present
  <2>5. result[i] = flows[i] \cup Present({typical[i - p]})
    BY <1>3, <1>4, <2>3
  <2> QED
    BY <2>2, <2>4, <2>5
<1>5. \A i \in 1..n : i < p + 1 => result[i] = None
  BY <1>3
<1>6. Windowed(w, n, result, p + 1, p + 1)
  <2> HIDE DEF result
  <2>1. DOMAIN result = 1..n
    BY <1>3 DEF result
  <2> QED
    BY <1>4, <1>5, <2>1 DEF Windowed
<1> QED
  BY <1>6 DEF Mfi, typical, flows

\* Comparisons of candles.
LEMMA WindowedCompared ==
    ASSUME NEW w, NEW n \in Nat, NEW series, NEW early \in BOOLEAN, 1 \in DOMAIN series,
           \A k \in DOMAIN series : Windowed(w, n, series[k], 1, 1)
    PROVE  /\ \/ Compared(series, early) = Raises
              \/ Windowed(w, n, Compared(series, early), 2, 2)
           /\ \/ Fractal(series, early) = Raises
              \/ Windowed(w, n, Fractal(series, early), 2, 3)
<1> DEFINE row == Row(series)
           earlier(k) == IF early THEN series[1][k] ELSE row[k]
           read(i) == Join({earlier(i - 1), earlier(i - 2)})
<1>1. Windowed(w, n, row, 1, 1)
  <2>1. 1 \in 0..1
    OBVIOUS
  <2> QED
    BY <2>1, WindowedRow
<1>2. DOMAIN row = 1..n
  BY <1>1 DEF Windowed
<1> HIDE DEF row
<1>3. ASSUME NEW i \in 1..n, NEW r \in Nat, First(i, r)..i \subseteq w, NEW j \in 1..i,
             i - j < r
      PROVE  /\ row[j] \in SUBSET Since(First(i, r))
             /\ earlier(j) \in SUBSET Since(First(i, r))
  <2>1. row[j] \in SUBSET Since(First(i, r))
    BY <1>1, <1>3, InputSince
  <2>2. series[1][j] \in SUBSET Since(First(i, r))
    <3>1. Windowed(w, n, series[1], 1, 1)
      OBVIOUS
    <3> QED
      BY <1>3, <3>1, InputSince
  <2> QED
    BY <2>1, <2>2
<1> HIDE DEF earlier
<1>4. \A S : \A cell \in SUBSET Since(S) : cell # None
  BY NoneAssumption DEF Since
<1> DEFINE pairs == [i \in DOMAIN row |->
                        IF i = 1 \/ row[i] = None THEN None ELSE row[i] \cup earlier(i - 1)]
           triples == [i \in DOMAIN row |->
                          CASE i = 1 \/ row[i] = None -> None
                            [] i = 2 /\ row[i] # None -> row[i]
                            [] i > 2 /\ row[i] # None -> row[i] \cup read(i)]
<1>5. Windowed(w, n, pairs, 2, 2)
  <2>1. ASSUME NEW i \in 1..n, i >= 2, First(i, 2)..i \subseteq w
        PROVE  pairs[i] \in SUBSET Since(First(i, 2))
    <3>1. i \in 1..i /\ i - i < 2 /\ i - 1 \in 1..i /\ i - (i - 1) < 2 /\ 2 \in Nat
      BY <2>1
    <3>2. /\ row[i] \in SUBSET Since(First(i, 2))
          /\ earlier(i - 1) \in SUBSET Since(First(i, 2))
      BY <1>3, <2>1, <3>1
    <3>3. pairs[i] = row[i] \cup earlier(i - 1)
      BY <1>2, <1>4, <2>1, <3>2
    <3> QED
      BY <3>2, <3>3
  <2>2. \A i \in 1..n : i < 2 => pairs[i] = None
    BY <1>2
  <2>3. DOMAIN pairs = 1..n
    BY <1>2
  <2> HIDE DEF pairs
  <2> QED
    BY <2>1, <2>2, <2>3 DEF Windowed
<1>6. Windowed(w, n, triples, 2, 3)
  <2>1. ASSUME NEW i \in 1..n, i >= 2, First(i, 3)..i \subseteq w
        PROVE  triples[i] \in SUBSET Since(First(i, 3))
    <3>1. i \in 1..i /\ i - i < 3 /\ 3 \in Nat
      BY <2>1
    <3>2. row[i] \in SUBSET Since(First(i, 3)) /\ row[i] # None
      BY <1>3, <1>4, <2>1, <3>1
    <3>3. CASE i = 2
      BY <1>2, <3>2, <3>3
    <3>4. CASE i > 2
      <4>1. /\ i - 1 \in 1..i /\ i - (i - 1) < 3 /\ 3 \in Nat
            /\ i - 2 \in 1..i /\ i - (i - 2) < 3
        BY <3>4
      <4>2. /\ earlier(i - 1) \in SUBSET Since(First(i, 3))
            /\ earlier(i - 2) \in SUBSET Since(First(i, 3))
        BY <1>3, <2>1, <4>1
      <4>3. read(i) \in SUBSET Since(First(i, 3))
        BY <4>2, JoinSince
      <4> HIDE DEF read
      <4>4. triples[i] = row[i] \cup read(i)
        BY <1>2, <3>2, <3>4
      <4> QED
        BY <3>2, <4>3, <4>4
    <3> HIDE DEF triples
    <3> QED
      BY <2>1, <3>3, <3>4
  <2>2. \A i \in 1..n : i < 2 => triples[i] = None
    BY <1>2
  <2>3. DOMAIN triples = 1..n
    BY <1>2
  <2> HIDE DEF triples
  <2> QED
    BY <2>1, <2>2, <2>3 DEF Windowed
<1>7. Compared(series, early) = Raises \/ Compared(series, early) = pairs
  BY DEF Compared, pairs, earlier, row
<1>8. Fractal(series, early) = Raises \/ Fractal(series, early) = triples
  BY DEF Fractal, triples, earlier, read, row
<1> QED
  BY <1>5, <1>6, <1>7, <1>8

LEMMA WindowedEngulfing ==
    ASSUME NEW w, NEW n \in Nat, NEW series, NEW early \in BOOLEAN, 1 \in DOMAIN series,
           \A k \in DOMAIN series : Windowed(w, n, series[k], 1, 1),
           NEW c \in {"engulfing", "pin_bar", "shooting_star", "morning_star", "evening_star"}
    PROVE  \/ PriceAction(c, series, early) = Raises
           \/ Windowed(w, n, PriceAction(c, series, early), 1, 2)
<1> DEFINE row == Row(series)
           from(i) == IF i = 1 THEN 1 ELSE i - 1
           pairs == [i \in DOMAIN series[1] |-> Present(Cells(row, from(i), i))]
<1>1. Windowed(w, n, row, 1, 1)
  <2>1. 1 \in 0..1
    OBVIOUS
  <2> QED
    BY <2>1, WindowedRow
<1>2. DOMAIN series[1] = 1..n
  BY DEF Windowed
<1> HIDE DEF row
<1>3. ASSUME NEW i \in 1..n, First(i, 2)..i \subseteq w
      PROVE  Present(Cells(row, from(i), i)) \in SUBSET Since(First(i, 2))
  <2>1. ASSUME NEW k \in from(i)..i PROVE row[k] \in SUBSET Since(First(i, 2))
    <3>1. k \in 1..i /\ i - k < 2 /\ 2 \in Nat
      OBVIOUS
    <3> QED
      BY <1>1, <1>3, <3>1, InputSince
  <2> HIDE DEF from
  <2> QED
    BY <2>1 DEF Present, Cells
<1>4. Windowed(w, n, pairs, 1, 2)
  <2>1. DOMAIN pairs = 1..n /\ \A i \in 1..n : pairs[i] = Present(Cells(row, from(i), i))
    BY <1>2
  <2> HIDE DEF pairs, from
  <2> QED
    BY <1>3, <2>1 DEF Windowed
<1>5. PriceAction(c, series, early) = Raises \/ PriceAction(c, series, early) = pairs
  BY DEF PriceAction, pairs, row
<1> QED
  BY <1>4, <1>5

LEMMA LagOfInput ==
    ASSUME NEW w, NEW n \in Nat, NEW s, Windowed(w, n, s, 1, 1), NEW p \in Nat
    PROVE  Windowed(w, n, Lagged(s, p), p + 1, p + 1)
<1>1. \A q, r \in Nat \ {0} : Windowed(w, n, s, q, r) /\ p + 1 = q + p /\ p + 1 = r + p
          => Windowed(w, n, Lagged(s, p), p + 1, p + 1)
  BY WindowedLagged
<1>2. 1 \in Nat \ {0} /\ p + 1 = 1 + p
  OBVIOUS
<1> QED
  BY <1>1, <1>2

\* A window of changes reads the bar before it.
LEMMA WindowOfChanges ==
    ASSUME NEW w, NEW n \in Nat, NEW s, Windowed(w, n, s, 1, 1), NEW p \in Nat \ {0}
    PROVE  Windowed(w, n, Rolling(Lagged(s, 1), p), p + 1, p + 1)
<1> DEFINE changes == Lagged(s, 1)
<1>1. 1 \in Nat /\ Windowed(w, n, changes, 1 + 1, 1 + 1)
  BY LagOfInput
<1> HIDE DEF changes
<1>2. 1 + 1 \in Nat \ {0} /\ p + 1 = (1 + 1) + p - 1
  OBVIOUS
<1>3. \A q, r \in Nat \ {0} : Windowed(w, n, changes, q, r) /\ p + 1 = q + p - 1 /\ p + 1 = r + p - 1
          => Windowed(w, n, Rolling(changes, p), p + 1, p + 1)
  BY WindowedRolling
<1> QED
  BY <1>1, <1>2, <1>3 DEF changes

LEMMA WindowBefore ==
    ASSUME NEW w, NEW n \in Nat, NEW s, Windowed(w, n, s, 1, 1), NEW p \in Nat \ {0}
    PROVE  Windowed(w, n, PreviousRollingMaximum(s, p), p + 1, p + 1)
<1>1. DOMAIN s = 1..n
  BY DEF Windowed
<1>2. ASSUME NEW i \in 1..n, i >= p + 1, First(i, p + 1)..i \subseteq w
      PROVE  Join(Cells(s, i - p, i - 1)) \in SUBSET Since(First(i, p + 1))
  <2>1. ASSUME NEW k \in (i - p)..(i - 1) PROVE s[k] \in SUBSET Since(First(i, p + 1))
    <3>1. k \in 1..i /\ i - k < p + 1 /\ p + 1 \in Nat
      BY <1>2
    <3> QED
      BY <1>2, <3>1, InputSince
  <2> QED
    BY <2>1, JoinSince DEF Cells
<1>3. \A i \in 1..n : i > p <=> i >= p + 1
  OBVIOUS
<1>4. \A i \in 1..n : i < p + 1 <=> ~(i > p)
  OBVIOUS
<1> QED
  BY <1>1, <1>2, <1>3, <1>4 DEF Windowed, PreviousRollingMaximum

\* The bar that is looked back to may be before the window.
LEMMA WindowedDpo ==
    ASSUME NEW w, NEW n \in Nat, NEW s, Windowed(w, n, s, 1, 1), NEW p \in Nat \ {0},
           NEW q, q = IF p > 2 THEN p ELSE p + 1
    PROVE  Windowed(w, n, Dpo(s, p), q, q)
<1> DEFINE shift == p \div 2 + 1
           means == SingleRolling(s, p)
<1>1. Windowed(w, n, means, p, p)
  BY WindowOfInput DEF SingleRolling
<1>2. shift \in Nat \ {0} /\ p <= q /\ shift < q /\ (q = p \/ q = shift + 1) /\ q \in Nat \ {0}
  OBVIOUS
<1> HIDE DEF shift, means
<1>3. ASSUME NEW i \in 1..n, i >= q, First(i, q)..i \subseteq w
      PROVE  Join({means[i], s[i - shift]}) \in SUBSET Since(First(i, q))
  <2>1. i \in 1..i /\ p <= i /\ p + (i - i) <= q /\ i - shift \in 1..i /\ i - (i - shift) < q
    BY <1>2, <1>3
  <2>2. means[i] \in SUBSET Since(First(i, q))
    BY <1>1, <1>2, <1>3, <2>1, Earlier
  <2>3. s[i - shift] \in SUBSET Since(First(i, q))
    BY <1>2, <1>3, <2>1, InputSince
  <2> QED
    BY <2>2, <2>3, JoinSince
<1>4. ASSUME NEW i \in 1..n, i < q, i > shift PROVE Join({means[i], s[i - shift]}) = None
  <2>1. i < p
    BY <1>2, <1>4
  <2>2. means[i] = None
    BY <1>1, <2>1 DEF Windowed
  <2> QED
    BY <2>2 DEF Join
<1>5. DOMAIN s = 1..n /\ \A i \in 1..n : i >= q => i > shift
  BY <1>2 DEF Windowed
<1> QED
  BY <1>3, <1>4, <1>5 DEF Windowed, Dpo, means, shift

LEMMA IsqrtIsPositive == ASSUME NEW p \in Nat \ {0} PROVE Isqrt(p) \in Nat \ {0}
<1>1. \A r : r = Isqrt(p) => r \in 0..p /\ (r + 1) * (r + 1) > p
  <2>1. \E r \in 0..p : r * r <= p /\ (r + 1) * (r + 1) > p
    BY SquareRoot
  <2> QED
    BY <2>1 DEF Isqrt
<1>2. Isqrt(p) \in 0..p /\ (Isqrt(p) + 1) * (Isqrt(p) + 1) > p
  BY <1>1
<1>3. Isqrt(p) = 0 => (Isqrt(p) + 1) * (Isqrt(p) + 1) = 1
  OBVIOUS
<1> QED
  BY <1>2, <1>3

LEMMA WindowedHma ==
    ASSUME NEW w, NEW n \in Nat, NEW s, Windowed(w, n, s, 1, 1), NEW p \in Nat \ {0}
    PROVE  Windowed(w, n, Wma(Both(Wma(s, AtLeastOne(p \div 2)), Wma(s, p)), AtLeastOne(Isqrt(p))),
                    p + Isqrt(p) - 1, p + Isqrt(p) - 1)
<1> DEFINE half == AtLeastOne(p \div 2)
           raw == Both(Wma(s, half), Wma(s, p))
           root == AtLeastOne(Isqrt(p))
<1>1. \A q \in Nat \ {0} : Windowed(w, n, Wma(s, q), q, q)
  <2> SUFFICES ASSUME NEW q \in Nat \ {0} PROVE Windowed(w, n, Wma(s, q), q, q)
    OBVIOUS
  <2>1. Windowed(w, n, Rolling(s, q), q, q)
    BY WindowOfInput
  <2>2. Wma(s, q) = Rolling(s, q)
    BY DEF Wma, Window, Rolling
  <2> QED
    BY <2>1, <2>2
<1>2. half \in Nat \ {0} /\ half <= p
  BY DEF AtLeastOne
<1>3. root \in Nat \ {0} /\ root = Isqrt(p)
  BY IsqrtIsPositive DEF AtLeastOne
<1> HIDE DEF half, root
<1>4. Windowed(w, n, raw, p, p)
  BY <1>1, <1>2, WindowedBoth
<1> HIDE DEF raw
<1>5. p + root - 1 = p + root - 1 /\ Windowed(w, n, Rolling(raw, root), p + root - 1, p + root - 1)
  BY <1>3, <1>4, WindowedRolling
<1>6. Wma(raw, root) = Rolling(raw, root)
  BY DEF Wma, Window, Rolling
<1> QED
  BY <1>3, <1>5, <1>6 DEF raw, half, root

LEMMA WindowedAtr ==
    ASSUME NEW w, NEW n \in Nat, NEW high, NEW low, NEW close, NEW p \in Nat \ {0},
           Windowed(w, n, high, 1, 1), Windowed(w, n, low, 1, 1), Windowed(w, n, close, 1, 1)
    PROVE  Windowed(w, n, Atr(high, low, close, p), p, p + 1)
<1> DEFINE ranges == TrueRanges(high, low, close)
<1>1. Windowed(w, n, ranges, 1, 2)
  BY WindowedTrueRanges
<1> HIDE DEF ranges
<1>2. 1 \in Nat \ {0} /\ 2 \in Nat \ {0} /\ p = 1 + p - 1 /\ p + 1 = 2 + p - 1
  OBVIOUS
<1>3. \A q, r \in Nat \ {0} : Windowed(w, n, ranges, q, r) /\ p = q + p - 1 /\ p + 1 = r + p - 1
          => Windowed(w, n, Rolling(ranges, p), p, p + 1)
  BY WindowedRolling
<1> QED
  BY <1>1, <1>2, <1>3 DEF Atr, SingleRolling, ranges

LEMMA WindowedVortex ==
    ASSUME NEW w, NEW n \in Nat, NEW high, NEW low, NEW close, NEW p \in Nat \ {0},
           Windowed(w, n, high, 1, 1), Windowed(w, n, low, 1, 1), Windowed(w, n, close, 1, 1)
    PROVE  Windowed(w, n, Vortex(high, low, close, p), p + 1, p + 1)
<1> DEFINE ranges == Rolling(TrueRanges(high, low, close), p)
           moves == Rolling(Lagged(Row(<<high, low>>), 1), p)
<1>1. Windowed(w, n, ranges, p, p + 1)
  BY WindowedAtr DEF Atr, SingleRolling
<1>2. Windowed(w, n, moves, p + 1, p + 1)
  <2>1. 1 \in Nat \ {0} /\ Windowed(w, n, Row(<<high, low>>), 1, 1)
    BY WindowedPair
  <2> QED
    BY <2>1, WindowOfChanges
<1> HIDE DEF ranges, moves
<1>3. p + 1 \in Nat \ {0} /\ p <= p + 1 /\ p + 1 <= p + 1
  OBVIOUS
<1>4. Windowed(w, n, Both(ranges, moves), p + 1, p + 1)
  BY <1>1, <1>2, <1>3, WindowedBoth
<1> QED
  BY <1>4 DEF Vortex, Step, ranges, moves

LEMMA WindowedEaseOfMovement ==
    ASSUME NEW w, NEW n \in Nat, NEW high, NEW low, NEW volume, NEW p \in Nat \ {0},
           Windowed(w, n, high, 1, 1), Windowed(w, n, low, 1, 1), Windowed(w, n, volume, 1, 1)
    PROVE  Windowed(w, n, EaseOfMovement(high, low, volume, p), p + 1, p + 1)
<1> DEFINE changes == Lagged(Row(<<high, low>>), 1)
           eased == Both(changes, volume)
<1>1. Windowed(w, n, changes, 1 + 1, 1 + 1)
  <2>1. 1 \in Nat \ {0} /\ 1 \in Nat /\ Windowed(w, n, Row(<<high, low>>), 1, 1)
    BY WindowedPair
  <2> QED
    BY <2>1, LagOfInput
<1> HIDE DEF changes
<1>2. 1 \in Nat \ {0} /\ 1 + 1 \in Nat \ {0} /\ 1 <= 1 + 1 /\ p + 1 = (1 + 1) + p - 1
  OBVIOUS
<1>3. Windowed(w, n, eased, 1 + 1, 1 + 1)
  BY <1>1, <1>2, WindowedBoth
<1> HIDE DEF eased
<1>4. \A q, r \in Nat \ {0} : Windowed(w, n, eased, q, r) /\ p + 1 = q + p - 1 /\ p + 1 = r + p - 1
          => Windowed(w, n, Rolling(eased, p), p + 1, p + 1)
  BY WindowedRolling
<1> QED
  BY <1>2, <1>3, <1>4 DEF EaseOfMovement, SingleRolling, Step, eased, changes

\* A calculator and the series it is called with, which have a value at every
\* whole bar.
FedWhole(w, n, c, s) ==
    /\ 1 \in DOMAIN s
    /\ \A k \in DOMAIN s : Windowed(w, n, s[k], 1, 1)
    /\ c \in TwoInputs => 2 \in DOMAIN s
    /\ c \in ThreeInputs => 2 \in DOMAIN s /\ 3 \in DOMAIN s
    /\ c \in FourInputs => DOMAIN s = 1..4 /\ s = [k \in 1..4 |-> s[k]]

\* What WindowsAnswer says of the calculated series.
Answers(w, n, c, s, p, early) ==
    LET calculated == CalculateFeature(c, s, p, early)
        needed == WindowNeeded(c, p)
        reach == needed + (IF c \in ReadsOneMore THEN 1 ELSE 0)
    IN calculated = Raises \/ Windowed(w, n, calculated, needed, reach)

\* Every windowed calculator, by the way it is composed.
LEMMA WindowsOfFeatures ==
    ASSUME NEW w, NEW n \in Nat, NEW p \in Nat \ {0}, NEW early \in BOOLEAN,
           NEW c, NEW s, FedWhole(w, n, c, s), WindowNeeded(c, p) # None
    PROVE  Answers(w, n, c, s, p, early)
<1> DEFINE V(t, q, r) == Windowed(w, n, t, q, r)
<1>1. V(s[1], 1, 1)
  BY DEF FedWhole
<1>2. V(Row(s), 1, 1)
  <2>1. 1 \in DOMAIN s /\ 1 \in 0..1 /\ 1 \in Nat \ {0} /\ \A k \in DOMAIN s : V(s[k], 1, 1)
    BY DEF FedWhole
  <2> QED
    BY <2>1, WindowedRow
<1>3. CASE c \in {"sma", "rolling_volatility", "bollinger", "rolling_zscore",
                  "percentile", "52_week_high", "bollinger_bandwidth",
                  "bollinger_percent_b", "standard_deviation", "zscore",
                  "kl_divergence", "percentile_rank", "center_of_gravity",
                  "moving_average_envelope", "ulcer_index", "minmax_scale",
                  "robust_scale", "rolling_skewness", "rolling_kurtosis", "mad",
                  "fractal_dimension", "kalman_slope"}
  <2>1. CalculateFeature(c, s, p, early) = Rolling(s[1], p)
    BY <1>3 DEF CalculateFeature, MacdBased, ExtendedIndicator, AdditionalIndicator,
       FurtherIndicator, SingleRolling, Bollinger, RollingZscore, Percentile,
       RollingHighRatio, BollingerDerived, UlcerIndex, StatisticalTransform,
       CycleIndicator, SmaValues
  <2>2. WindowNeeded(c, p) = p /\ c \notin ReadsOneMore
    BY <1>3 DEF WindowNeeded, ReadsOneMore
  <2>3. V(Rolling(s[1], p), p, p)
    BY <1>1, WindowOfInput
  <2> HIDE DEF V
  <2> QED
    BY <2>1, <2>2, <2>3 DEF Answers, V
<1>4. CASE c = "disparity"
  <2>1. CalculateFeature(c, s, p, early) = Both(s[1], Rolling(s[1], p))
    BY <1>4 DEF CalculateFeature, MacdBased, ExtendedIndicator, AdditionalIndicator,
       FurtherIndicator, Disparity, SingleRolling
  <2>2. WindowNeeded(c, p) = p /\ c \notin ReadsOneMore
    BY <1>4 DEF WindowNeeded, ReadsOneMore
  <2>3. V(Rolling(s[1], p), p, p)
    BY <1>1, WindowOfInput
  <2>4. 1 \in Nat \ {0} /\ 1 <= p
    OBVIOUS
  <2>5. V(Both(s[1], Rolling(s[1], p)), p, p)
    BY <1>1, <2>3, <2>4, WindowedBoth
  <2> HIDE DEF V
  <2> QED
    BY <2>1, <2>2, <2>5 DEF Answers, V
<1>5. CASE c = "tma"
  <2>1. CalculateFeature(c, s, p, early) = Rolling(Rolling(s[1], p), p)
    BY <1>5 DEF CalculateFeature, MacdBased, ExtendedIndicator, AdditionalIndicator,
       FurtherIndicator, SingleRolling
  <2>2. WindowNeeded(c, p) = 2 * p - 1 /\ c \notin ReadsOneMore
    BY <1>5 DEF WindowNeeded, ReadsOneMore
  <2>3. V(Rolling(s[1], p), p, p)
    BY <1>1, WindowOfInput
  <2>4. 2 * p - 1 = p + p - 1
    OBVIOUS
  <2>5. V(Rolling(Rolling(s[1], p), p), 2 * p - 1, 2 * p - 1)
    BY <2>3, <2>4, WindowedRolling
  <2> HIDE DEF V
  <2> QED
    BY <2>1, <2>2, <2>5 DEF Answers, V
<1>6. CASE c \in {"returns", "change", "roc", "price_roc", "momentum",
                  "log_returns", "volume_roc"}
  <2>1. CalculateFeature(c, s, p, early) = Lagged(s[1], p)
    BY <1>6 DEF CalculateFeature, MacdBased, ExtendedIndicator, AdditionalIndicator,
       FurtherIndicator, Returns, PercentChange, LogReturns, Momentum
  <2>2. WindowNeeded(c, p) = p + 1 /\ c \notin ReadsOneMore
    BY <1>6 DEF WindowNeeded, ReadsOneMore
  <2>3. V(Lagged(s[1], p), p + 1, p + 1)
    BY <1>1, LagOfInput
  <2> HIDE DEF V
  <2> QED
    BY <2>1, <2>2, <2>3 DEF Answers, V
<1>7. CASE c \in {"hilbert_phase", "hilbert_sine", "fractional_difference",
                  "price_action_score", "phase_accumulation_cycle"}
  <2>1. CalculateFeature(c, s, p, early) = Lagged(s[1], 1)
    BY <1>7 DEF CalculateFeature, MacdBased, ExtendedIndicator, AdditionalIndicator,
       FurtherIndicator, Returns, Momentum, CycleIndicator, CycleTransform, Step
  <2>2. WindowNeeded(c, p) = 2 /\ c \notin ReadsOneMore
    BY <1>7 DEF WindowNeeded, ReadsOneMore
  <2>3. 1 \in Nat \ {0} /\ 1 + 1 = 2
    OBVIOUS
  <2>4. V(Lagged(s[1], 1), 1 + 1, 1 + 1)
    BY <1>1, <2>3, LagOfInput
  <2>5. V(Lagged(s[1], 1), 2, 2)
    BY <2>3, <2>4
  <2> HIDE DEF V
  <2> QED
    BY <2>1, <2>2, <2>5 DEF Answers, V
<1>8. CASE c \in {"rsi", "vidya", "laguerre_rsi", "dti", "dc_based_rsi", "cmo",
                  "entropy", "shannon_entropy"}
  <2>1. CalculateFeature(c, s, p, early) = Rolling(s[1], p + 1)
    BY <1>8 DEF CalculateFeature, MacdBased, ExtendedIndicator, AdditionalIndicator,
       FurtherIndicator, Rsi, Cmo, Entropy, CycleIndicator
  <2>2. WindowNeeded(c, p) = p + 1 /\ c \notin ReadsOneMore
    BY <1>8 DEF WindowNeeded, ReadsOneMore
  <2>3. p + 1 \in Nat \ {0}
    OBVIOUS
  <2>4. V(Rolling(s[1], p + 1), p + 1, p + 1)
    BY <1>1, <2>3, WindowOfInput
  <2> HIDE DEF V
  <2> QED
    BY <2>1, <2>2, <2>4 DEF Answers, V
<1>9. CASE c = "stoch_rsi"
  <2>1. CalculateFeature(c, s, p, early) = Rolling(Rolling(s[1], p + 1), p)
    BY <1>9 DEF CalculateFeature, MacdBased, ExtendedIndicator, AdditionalIndicator,
       FurtherIndicator, Rsi, Percentile
  <2>2. WindowNeeded(c, p) = 2 * p /\ c \notin ReadsOneMore
    BY <1>9 DEF WindowNeeded, ReadsOneMore
  <2>3. p + 1 \in Nat \ {0} /\ 2 * p = (p + 1) + p - 1
    OBVIOUS
  <2>4. V(Rolling(s[1], p + 1), p + 1, p + 1)
    BY <1>1, <2>3, WindowOfInput
  <2>5. V(Rolling(Rolling(s[1], p + 1), p), 2 * p, 2 * p)
    BY <2>3, <2>4, WindowedRolling
  <2> HIDE DEF V
  <2> QED
    BY <2>1, <2>2, <2>5 DEF Answers, V
<1>10. CASE c \in {"volatility_ind", "volatility_filter", "rvi",
                   "relative_volatility_index", "historical_volatility",
                   "volatility_ratio"}
  <2>1. CalculateFeature(c, s, p, early) = Rolling(Lagged(s[1], 1), p)
    BY <1>10 DEF CalculateFeature, MacdBased, ExtendedIndicator, AdditionalIndicator,
       FurtherIndicator, RollingReturnVolatility, VolatilityFilter, SingleRolling,
       Returns, LogReturns
  <2>2. WindowNeeded(c, p) = p + 1 /\ c \notin ReadsOneMore
    BY <1>10 DEF WindowNeeded, ReadsOneMore
  <2>3. V(Rolling(Lagged(s[1], 1), p), p + 1, p + 1)
    BY <1>1, WindowOfChanges
  <2> HIDE DEF V
  <2> QED
    BY <2>1, <2>2, <2>3 DEF Answers, V
<1>11. CASE c = "connors_rsi"
  <2>1. CalculateFeature(c, s, p, early) = Rolling(s[1], (IF p < 3 THEN p ELSE 3) + 1)
    BY <1>11 DEF CalculateFeature, MacdBased, ExtendedIndicator, AdditionalIndicator,
       FurtherIndicator, Rsi
  <2>2. WindowNeeded(c, p) = (IF p < 3 THEN p + 1 ELSE 4) /\ c \notin ReadsOneMore
    BY <1>11 DEF WindowNeeded, ReadsOneMore
  <2> DEFINE q == (IF p < 3 THEN p ELSE 3) + 1
  <2>3. q \in Nat \ {0} /\ q = (IF p < 3 THEN p + 1 ELSE 4)
    OBVIOUS
  <2>4. V(Rolling(s[1], q), q, q)
    BY <1>1, <2>3, WindowOfInput
  <2>5. V(Rolling(s[1], q), IF p < 3 THEN p + 1 ELSE 4, IF p < 3 THEN p + 1 ELSE 4)
    BY <2>3, <2>4
  <2> HIDE DEF V
  <2> QED
    BY <2>1, <2>2, <2>5 DEF Answers, V
<1>12. CASE c = "detect_three_bar_reversal"
  <2>1. CalculateFeature(c, s, p, early) = Rolling(s[1], 3)
    BY <1>12 DEF CalculateFeature, MacdBased, ExtendedIndicator, AdditionalIndicator,
       FurtherIndicator, CandlePattern
  <2>2. WindowNeeded(c, p) = 3 /\ c \notin ReadsOneMore
    BY <1>12 DEF WindowNeeded, ReadsOneMore
  <2>3. 3 \in Nat \ {0}
    OBVIOUS
  <2>4. V(Rolling(s[1], 3), 3, 3)
    BY <1>1, <2>3, WindowOfInput
  <2> HIDE DEF V
  <2> QED
    BY <2>1, <2>2, <2>4 DEF Answers, V
<1>13. CASE c \in {"inverse_fisher_transform", "hilbert_transform"}
  <2>1. CalculateFeature(c, s, p, early) = s[1]
    BY <1>13 DEF CalculateFeature, MacdBased, ExtendedIndicator, AdditionalIndicator,
       FurtherIndicator, CycleIndicator
  <2>2. WindowNeeded(c, p) = 1 /\ c \notin ReadsOneMore
    BY <1>13 DEF WindowNeeded, ReadsOneMore
  <2>3. V(s[1], 1, 1)
    BY <1>1
  <2> HIDE DEF V
  <2> QED
    BY <2>1, <2>2, <2>3 DEF Answers, V
<1>14. CASE c = "maximum"
  <2>1. CalculateFeature(c, s, p, early) = PreviousRollingMaximum(s[1], p)
    BY <1>14 DEF CalculateFeature, MacdBased, ExtendedIndicator, AdditionalIndicator,
       FurtherIndicator
  <2>2. WindowNeeded(c, p) = p + 1 /\ c \notin ReadsOneMore
    BY <1>14 DEF WindowNeeded, ReadsOneMore
  <2>3. V(PreviousRollingMaximum(s[1], p), p + 1, p + 1)
    BY <1>1, WindowBefore
  <2> HIDE DEF V
  <2> QED
    BY <2>1, <2>2, <2>3 DEF Answers, V
<1>15. CASE c = "high_low_breakout"
  <2>1. CalculateFeature(c, s, p, early) = Both(s[1], PreviousRollingMaximum(s[1], p))
    BY <1>15 DEF CalculateFeature, MacdBased, ExtendedIndicator, AdditionalIndicator,
       FurtherIndicator, HighLowBreakout
  <2>2. WindowNeeded(c, p) = p + 1 /\ c \notin ReadsOneMore
    BY <1>15 DEF WindowNeeded, ReadsOneMore
  <2>3. V(PreviousRollingMaximum(s[1], p), p + 1, p + 1)
    BY <1>1, WindowBefore
  <2>4. 1 \in Nat \ {0} /\ p + 1 \in Nat \ {0} /\ 1 <= p + 1
    OBVIOUS
  <2>5. V(Both(s[1], PreviousRollingMaximum(s[1], p)), p + 1, p + 1)
    BY <1>1, <2>3, <2>4, WindowedBoth
  <2> HIDE DEF V
  <2> QED
    BY <2>1, <2>2, <2>5 DEF Answers, V
<1>16. CASE c \in {"linear_regression", "tsf"}
  <2>1. CalculateFeature(c, s, p, early) = IF p = 1 THEN Silent(s[1]) ELSE Rolling(s[1], p)
    BY <1>16 DEF CalculateFeature, MacdBased, ExtendedIndicator, AdditionalIndicator,
       FurtherIndicator, LinearRegression
  <2>2. WindowNeeded(c, p) = (IF p > 1 THEN p ELSE None) /\ c \notin ReadsOneMore
    BY <1>16 DEF WindowNeeded, ReadsOneMore
  <2>3. p > 1
    BY <2>2
  <2>4. V(Rolling(s[1], p), p, p)
    BY <1>1, WindowOfInput
  <2> QED
    BY <2>1, <2>2, <2>3, <2>4 DEF Answers
<1>17. CASE c = "dpo"
  <2>1. CalculateFeature(c, s, p, early) = Dpo(s[1], p)
    BY <1>17 DEF CalculateFeature, MacdBased, ExtendedIndicator, AdditionalIndicator,
       FurtherIndicator
  <2>2. WindowNeeded(c, p) = (IF p > 2 THEN p ELSE p + 1) /\ c \notin ReadsOneMore
    BY <1>17 DEF WindowNeeded, ReadsOneMore
  <2>3. V(Dpo(s[1], p), IF p > 2 THEN p ELSE p + 1, IF p > 2 THEN p ELSE p + 1)
    BY <1>1, WindowedDpo
  <2> HIDE DEF V
  <2> QED
    BY <2>1, <2>2, <2>3 DEF Answers, V
<1>18. CASE c = "hma"
  <2>1. CalculateFeature(c, s, p, early) =
            Wma(Both(Wma(s[1], AtLeastOne(p \div 2)), Wma(s[1], p)), AtLeastOne(Isqrt(p)))
    BY <1>18 DEF CalculateFeature, MacdBased, ExtendedIndicator, AdditionalIndicator,
       FurtherIndicator, MovingAverageVariant
  <2>2. WindowNeeded(c, p) = p + Isqrt(p) - 1 /\ c \notin ReadsOneMore
    BY <1>18 DEF WindowNeeded, ReadsOneMore
  <2>3. V(Wma(Both(Wma(s[1], AtLeastOne(p \div 2)), Wma(s[1], p)), AtLeastOne(Isqrt(p))),
          p + Isqrt(p) - 1, p + Isqrt(p) - 1)
    BY <1>1, WindowedHma
  <2> HIDE DEF V
  <2> QED
    BY <2>1, <2>2, <2>3, IsqrtIsPositive DEF Answers, V
<1>19. CASE c = "wma"
  <2>1. CalculateFeature(c, s, p, early) = Wma(s[1], p)
    BY <1>19 DEF CalculateFeature, MacdBased, ExtendedIndicator, AdditionalIndicator,
       FurtherIndicator, MovingAverageVariant
  <2>2. WindowNeeded(c, p) = p /\ c \notin ReadsOneMore
    BY <1>19 DEF WindowNeeded, ReadsOneMore
  <2>3. V(Rolling(s[1], p), p, p)
    BY <1>1, WindowOfInput
  <2>4. Wma(s[1], p) = Rolling(s[1], p)
    BY DEF Wma, Window, Rolling
  <2>5. V(Wma(s[1], p), p, p)
    BY <2>3, <2>4
  <2> HIDE DEF V
  <2> QED
    BY <2>1, <2>2, <2>5 DEF Answers, V
<1>20. CASE c \in {"vwma", "rolling_correlation", "aroon", "donchian",
                   "donchian_channel_width", "support_resistance", "qstick"}
  <2>1. CalculateFeature(c, s, p, early) = Rolling(Row(<<s[1], s[2]>>), p)
    BY <1>20 DEF CalculateFeature, MacdBased, ExtendedIndicator, AdditionalIndicator,
       FurtherIndicator, Vwma, RollingCorrelation, Aroon, Donchian, DonchianWidth,
       SupportResistance, SingleRolling
  <2>2. WindowNeeded(c, p) = p /\ c \notin ReadsOneMore
    BY <1>20 DEF WindowNeeded, ReadsOneMore
  <2>3. V(Row(<<s[1], s[2]>>), 1, 1)
    BY <1>1, <1>20, WindowedPair DEF FedWhole, TwoInputs
  <2>4. V(Rolling(Row(<<s[1], s[2]>>), p), p, p)
    BY <2>3, WindowOfInput
  <2> HIDE DEF V
  <2> QED
    BY <2>1, <2>2, <2>4 DEF Answers, V
<1>21. CASE c = "spread"
  <2>1. CalculateFeature(c, s, p, early) = Row(<<s[1], s[2]>>)
    BY <1>21 DEF CalculateFeature, MacdBased, ExtendedIndicator, AdditionalIndicator,
       FurtherIndicator, Spread
  <2>2. WindowNeeded(c, p) = 1 /\ c \notin ReadsOneMore
    BY <1>21 DEF WindowNeeded, ReadsOneMore
  <2>3. V(Row(<<s[1], s[2]>>), 1, 1)
    BY <1>1, <1>21, WindowedPair DEF FedWhole, TwoInputs
  <2> HIDE DEF V
  <2> QED
    BY <2>1, <2>2, <2>3 DEF Answers, V
<1>22. CASE c \in {"force_index", "volume_delta"}
  <2>1. CalculateFeature(c, s, p, early) = Both(Lagged(s[1], 1), s[2])
    BY <1>22 DEF CalculateFeature, MacdBased, ExtendedIndicator, AdditionalIndicator,
       FurtherIndicator, ForceIndex, Step
  <2>2. WindowNeeded(c, p) = 2 /\ c \notin ReadsOneMore
    BY <1>22 DEF WindowNeeded, ReadsOneMore
  <2>3. V(s[2], 1, 1)
    BY <1>22 DEF FedWhole, TwoInputs
  <2>4. 1 \in Nat \ {0} /\ 2 \in Nat \ {0} /\ 1 + 1 = 2 /\ 1 <= 2
    OBVIOUS
  <2>5. V(Lagged(s[1], 1), 1 + 1, 1 + 1)
    BY <1>1, <2>4, LagOfInput
  <2>6. V(Lagged(s[1], 1), 2, 2)
    BY <2>4, <2>5
  <2>7. V(Both(Lagged(s[1], 1), s[2]), 2, 2)
    BY <2>3, <2>4, <2>6, WindowedBoth
  <2> HIDE DEF V
  <2> QED
    BY <2>1, <2>2, <2>7 DEF Answers, V
<1>23. CASE c = "ichimoku"
  <2>1. CalculateFeature(c, s, p, early) =
            Both(Rolling(Row(<<s[1], s[2]>>), p), Rolling(Row(<<s[1], s[2]>>), 2 * p))
    BY <1>23 DEF CalculateFeature, MacdBased, ExtendedIndicator, AdditionalIndicator,
       FurtherIndicator, Ichimoku, Donchian
  <2>2. WindowNeeded(c, p) = 2 * p /\ c \notin ReadsOneMore
    BY <1>23 DEF WindowNeeded, ReadsOneMore
  <2>3. V(Row(<<s[1], s[2]>>), 1, 1)
    BY <1>1, <1>23, WindowedPair DEF FedWhole, TwoInputs
  <2>4. 2 * p \in Nat \ {0} /\ p <= 2 * p
    OBVIOUS
  <2>5. V(Rolling(Row(<<s[1], s[2]>>), p), p, p)
    BY <2>3, WindowOfInput
  <2>6. V(Rolling(Row(<<s[1], s[2]>>), 2 * p), 2 * p, 2 * p)
    BY <2>3, <2>4, WindowOfInput
  <2>7. V(Both(Rolling(Row(<<s[1], s[2]>>), p), Rolling(Row(<<s[1], s[2]>>), 2 * p)), 2 * p, 2 * p)
    BY <2>4, <2>5, <2>6, WindowedBoth
  <2> HIDE DEF V
  <2> QED
    BY <2>1, <2>2, <2>7 DEF Answers, V
<1>24. CASE c \in {"stochastic", "williams_r", "ultimate_oscillator", "smi"}
  <2>1. CalculateFeature(c, s, p, early) = Both(Rolling(Row(<<s[1], s[2]>>), p), s[3])
    BY <1>24 DEF CalculateFeature, MacdBased, ExtendedIndicator, AdditionalIndicator,
       FurtherIndicator, Stochastic
  <2>2. WindowNeeded(c, p) = p /\ c \notin ReadsOneMore
    BY <1>24 DEF WindowNeeded, ReadsOneMore
  <2>3. V(Row(<<s[1], s[2]>>), 1, 1) /\ V(s[3], 1, 1)
    BY <1>1, <1>24, WindowedPair DEF FedWhole, ThreeInputs
  <2>4. 1 \in Nat \ {0} /\ 1 <= p
    OBVIOUS
  <2>5. V(Rolling(Row(<<s[1], s[2]>>), p), p, p)
    BY <2>3, WindowOfInput
  <2>6. V(Both(Rolling(Row(<<s[1], s[2]>>), p), s[3]), p, p)
    BY <2>3, <2>4, <2>5, WindowedBoth
  <2> HIDE DEF V
  <2> QED
    BY <2>1, <2>2, <2>6 DEF Answers, V
<1>25. CASE c = "cci"
  <2>1. CalculateFeature(c, s, p, early) = Rolling(Row(<<s[1], s[2], s[3]>>), p)
    BY <1>25 DEF CalculateFeature, MacdBased, ExtendedIndicator, AdditionalIndicator,
       FurtherIndicator, Cci
  <2>2. WindowNeeded(c, p) = p /\ c \notin ReadsOneMore
    BY <1>25 DEF WindowNeeded, ReadsOneMore
  <2>3. V(Row(<<s[1], s[2], s[3]>>), 1, 1)
    BY <1>1, <1>25, WindowedTriple DEF FedWhole, ThreeInputs
  <2>4. V(Rolling(Row(<<s[1], s[2], s[3]>>), p), p, p)
    BY <2>3, WindowOfInput
  <2> HIDE DEF V
  <2> QED
    BY <2>1, <2>2, <2>4 DEF Answers, V
<1>26. CASE c = "ibs"
  <2>1. CalculateFeature(c, s, p, early) = Row(<<s[1], s[2], s[3]>>)
    BY <1>26 DEF CalculateFeature, MacdBased, ExtendedIndicator, AdditionalIndicator,
       FurtherIndicator, Ibs
  <2>2. WindowNeeded(c, p) = 1 /\ c \notin ReadsOneMore
    BY <1>26 DEF WindowNeeded, ReadsOneMore
  <2>3. V(Row(<<s[1], s[2], s[3]>>), 1, 1)
    BY <1>1, <1>26, WindowedTriple DEF FedWhole, ThreeInputs
  <2> HIDE DEF V
  <2> QED
    BY <2>1, <2>2, <2>3 DEF Answers, V
<1>27. CASE c \in {"adx", "dmi_adx"}
  <2>1. CalculateFeature(c, s, p, early) = Adx(s[1], s[2], s[3], p)
    BY <1>27 DEF CalculateFeature, MacdBased, ExtendedIndicator, AdditionalIndicator,
       FurtherIndicator
  <2>2. WindowNeeded(c, p) = 2 * p /\ c \notin ReadsOneMore
    BY <1>27 DEF WindowNeeded, ReadsOneMore
  <2>3. V(s[2], 1, 1) /\ V(s[3], 1, 1)
    BY <1>27 DEF FedWhole, ThreeInputs
  <2>4. V(Adx(s[1], s[2], s[3], p), 2 * p, 2 * p)
    BY <1>1, <2>3, WindowedAdx
  <2> HIDE DEF V
  <2> QED
    BY <2>1, <2>2, <2>4 DEF Answers, V
<1>28. CASE c = "true_range"
  <2>1. CalculateFeature(c, s, p, early) = TrueRanges(s[1], s[2], s[3])
    BY <1>28 DEF CalculateFeature, MacdBased, ExtendedIndicator, AdditionalIndicator,
       FurtherIndicator
  <2>2. WindowNeeded(c, p) = 1 /\ c \in ReadsOneMore
    BY <1>28 DEF WindowNeeded, ReadsOneMore
  <2>3. V(s[2], 1, 1) /\ V(s[3], 1, 1)
    BY <1>28 DEF FedWhole, ThreeInputs
  <2>4. V(TrueRanges(s[1], s[2], s[3]), 1, 2)
    BY <1>1, <2>3, WindowedTrueRanges
  <2> HIDE DEF V
  <2> QED
    BY <2>1, <2>2, <2>4 DEF Answers, V
<1>29. CASE c = "atr"
  <2>1. CalculateFeature(c, s, p, early) = Atr(s[1], s[2], s[3], p)
    BY <1>29 DEF CalculateFeature, MacdBased, ExtendedIndicator, AdditionalIndicator,
       FurtherIndicator
  <2>2. WindowNeeded(c, p) = p /\ c \in ReadsOneMore
    BY <1>29 DEF WindowNeeded, ReadsOneMore
  <2>3. V(s[2], 1, 1) /\ V(s[3], 1, 1)
    BY <1>29 DEF FedWhole, ThreeInputs
  <2>4. V(Atr(s[1], s[2], s[3], p), p, p + 1)
    BY <1>1, <2>3, WindowedAtr
  <2> HIDE DEF V
  <2> QED
    BY <2>1, <2>2, <2>4 DEF Answers, V
<1>30. CASE c \in {"atr_percent", "normalized_atr", "normalized_atr_percent"}
  <2>1. CalculateFeature(c, s, p, early) = Both(Atr(s[1], s[2], s[3], p), s[3])
    BY <1>30 DEF CalculateFeature, MacdBased, ExtendedIndicator, AdditionalIndicator,
       FurtherIndicator
  <2>2. WindowNeeded(c, p) = p /\ c \in ReadsOneMore
    BY <1>30 DEF WindowNeeded, ReadsOneMore
  <2>3. V(s[2], 1, 1) /\ V(s[3], 1, 1)
    BY <1>30 DEF FedWhole, ThreeInputs
  <2>4. V(Atr(s[1], s[2], s[3], p), p, p + 1)
    BY <1>1, <2>3, WindowedAtr
  <2>5. 1 \in Nat \ {0} /\ p + 1 \in Nat \ {0} /\ 1 <= p /\ 1 <= p + 1
    OBVIOUS
  <2>6. V(Both(Atr(s[1], s[2], s[3], p), s[3]), p, p + 1)
    BY <2>3, <2>4, <2>5, WindowedBoth
  <2> HIDE DEF V
  <2> QED
    BY <2>1, <2>2, <2>6 DEF Answers, V
<1>31. CASE c = "supertrend"
  <2>1. CalculateFeature(c, s, p, early) =
            Both(Row(<<s[1], s[2], s[3]>>), Atr(s[1], s[2], s[3], p))
    BY <1>31 DEF CalculateFeature, MacdBased, ExtendedIndicator, AdditionalIndicator,
       FurtherIndicator, Supertrend
  <2>2. WindowNeeded(c, p) = p /\ c \in ReadsOneMore
    BY <1>31 DEF WindowNeeded, ReadsOneMore
  <2>3. V(s[2], 1, 1) /\ V(s[3], 1, 1)
    BY <1>31 DEF FedWhole, ThreeInputs
  <2>4. V(Row(<<s[1], s[2], s[3]>>), 1, 1)
    BY <1>1, <1>31, WindowedTriple DEF FedWhole, ThreeInputs
  <2>5. V(Atr(s[1], s[2], s[3], p), p, p + 1)
    BY <1>1, <2>3, WindowedAtr
  <2>6. 1 \in Nat \ {0} /\ p + 1 \in Nat \ {0} /\ 1 <= p /\ 1 <= p + 1
    OBVIOUS
  <2>7. V(Both(Row(<<s[1], s[2], s[3]>>), Atr(s[1], s[2], s[3], p)), p, p + 1)
    BY <2>4, <2>5, <2>6, WindowedBoth
  <2> HIDE DEF V
  <2> QED
    BY <2>1, <2>2, <2>7 DEF Answers, V
<1>32. CASE c = "vortex"
  <2>1. CalculateFeature(c, s, p, early) = Vortex(s[1], s[2], s[3], p)
    BY <1>32 DEF CalculateFeature, MacdBased, ExtendedIndicator, AdditionalIndicator,
       FurtherIndicator
  <2>2. WindowNeeded(c, p) = p + 1 /\ c \notin ReadsOneMore
    BY <1>32 DEF WindowNeeded, ReadsOneMore
  <2>3. V(s[2], 1, 1) /\ V(s[3], 1, 1)
    BY <1>32 DEF FedWhole, ThreeInputs
  <2>4. V(Vortex(s[1], s[2], s[3], p), p + 1, p + 1)
    BY <1>1, <2>3, WindowedVortex
  <2> HIDE DEF V
  <2> QED
    BY <2>1, <2>2, <2>4 DEF Answers, V
<1>33. CASE c = "ease_of_movement"
  <2>1. CalculateFeature(c, s, p, early) = EaseOfMovement(s[1], s[2], s[3], p)
    BY <1>33 DEF CalculateFeature, MacdBased, ExtendedIndicator, AdditionalIndicator,
       FurtherIndicator
  <2>2. WindowNeeded(c, p) = p + 1 /\ c \notin ReadsOneMore
    BY <1>33 DEF WindowNeeded, ReadsOneMore
  <2>3. V(s[2], 1, 1) /\ V(s[3], 1, 1)
    BY <1>33 DEF FedWhole, ThreeInputs
  <2>4. V(EaseOfMovement(s[1], s[2], s[3], p), p + 1, p + 1)
    BY <1>1, <2>3, WindowedEaseOfMovement
  <2> HIDE DEF V
  <2> QED
    BY <2>1, <2>2, <2>4 DEF Answers, V
<1>34. CASE c \in {"cmf", "vfi", "intraday_intensity", "garman_klass", "parkinson",
                   "range_volatility"}
  <2>1. CalculateFeature(c, s, p, early) = Rolling(Row(s), p)
    BY <1>34 DEF CalculateFeature, MacdBased, ExtendedIndicator, AdditionalIndicator,
       FurtherIndicator, Cmf, IntradayIntensity, RangeVolatility
  <2>2. WindowNeeded(c, p) = p /\ c \notin ReadsOneMore
    BY <1>34 DEF WindowNeeded, ReadsOneMore
  <2>3. V(Rolling(Row(s), p), p, p)
    BY <1>2, WindowOfInput
  <2> HIDE DEF V
  <2> QED
    BY <2>1, <2>2, <2>3 DEF Answers, V
<1>35. CASE c = "mfi"
  <2>1. CalculateFeature(c, s, p, early) = Mfi(s, p)
    BY <1>35 DEF CalculateFeature, MacdBased, ExtendedIndicator, AdditionalIndicator,
       FurtherIndicator
  <2>2. WindowNeeded(c, p) = p + 1 /\ c \notin ReadsOneMore
    BY <1>35 DEF WindowNeeded, ReadsOneMore
  <2>3. V(Mfi(s, p), p + 1, p + 1)
    BY <1>35, WindowedMfi DEF FedWhole, FourInputs
  <2> HIDE DEF V
  <2> QED
    BY <2>1, <2>2, <2>3 DEF Answers, V
<1>36. CASE c \in {"pivot_points", "heikin_ashi", "median_price", "typical_price",
                   "bar_range_ratio", "wick_ratio", "trend_candle_strength",
                   "detect_marubozu"}
  <2>1. CalculateFeature(c, s, p, early) = Row(s)
    BY <1>36 DEF CalculateFeature, MacdBased, ExtendedIndicator, AdditionalIndicator,
       FurtherIndicator, CandleMeasure, CandlePattern
  <2>2. WindowNeeded(c, p) = 1 /\ c \notin ReadsOneMore
    BY <1>36 DEF WindowNeeded, ReadsOneMore
  <2>3. V(Row(s), 1, 1)
    BY <1>2
  <2> HIDE DEF V
  <2> QED
    BY <2>1, <2>2, <2>3 DEF Answers, V
<1>37. CASE c \in {"doji", "hammer"}
  <2>1. CalculateFeature(c, s, p, early) = IF None \in Range(Row(s)) THEN Raises ELSE Row(s)
    BY <1>37 DEF CalculateFeature, MacdBased, ExtendedIndicator, AdditionalIndicator,
       FurtherIndicator, PriceAction
  <2>2. WindowNeeded(c, p) = 1 /\ c \notin ReadsOneMore
    BY <1>37 DEF WindowNeeded, ReadsOneMore
  <2>3. V(Row(s), 1, 1)
    BY <1>2
  <2> HIDE DEF V
  <2> QED
    BY <2>1, <2>2, <2>3 DEF Answers, V
<1>38. CASE c \in {"inside_bar", "outside_bar", "higher_high_lower_low"}
  <2>1. CalculateFeature(c, s, p, early) = Compared(s, early)
    BY <1>38 DEF CalculateFeature, MacdBased, ExtendedIndicator, AdditionalIndicator,
       FurtherIndicator, PriceAction
  <2>2. WindowNeeded(c, p) = 2 /\ c \notin ReadsOneMore
    BY <1>38 DEF WindowNeeded, ReadsOneMore
  <2>3. Compared(s, early) = Raises \/ V(Compared(s, early), 2, 2)
    BY WindowedCompared DEF FedWhole
  <2> HIDE DEF V
  <2> QED
    BY <2>1, <2>2, <2>3 DEF Answers, V
<1>39. CASE c = "fractal"
  <2>1. CalculateFeature(c, s, p, early) = Fractal(s, early)
    BY <1>39 DEF CalculateFeature, MacdBased, ExtendedIndicator, AdditionalIndicator,
       FurtherIndicator, PriceAction
  <2>2. WindowNeeded(c, p) = 2 /\ c \in ReadsOneMore
    BY <1>39 DEF WindowNeeded, ReadsOneMore
  <2>3. Fractal(s, early) = Raises \/ V(Fractal(s, early), 2, 3)
    BY WindowedCompared DEF FedWhole
  <2> HIDE DEF V
  <2> QED
    BY <2>1, <2>2, <2>3 DEF Answers, V
<1>40. CASE c \in {"engulfing", "pin_bar", "shooting_star", "morning_star",
                   "evening_star"}
  <2>1. CalculateFeature(c, s, p, early) = PriceAction(c, s, early)
    BY <1>40 DEF CalculateFeature, MacdBased, ExtendedIndicator, AdditionalIndicator,
       FurtherIndicator
  <2>2. WindowNeeded(c, p) = 1 /\ c \in ReadsOneMore
    BY <1>40 DEF WindowNeeded, ReadsOneMore
  <2>3. PriceAction(c, s, early) = Raises \/ V(PriceAction(c, s, early), 1, 2)
    BY <1>40, WindowedEngulfing DEF FedWhole
  <2> HIDE DEF V
  <2> QED
    BY <2>1, <2>2, <2>3 DEF Answers, V
<1>41. c \in {"sma", "rolling_volatility", "bollinger", "rolling_zscore",
             "percentile", "52_week_high", "bollinger_bandwidth",
             "bollinger_percent_b", "standard_deviation", "zscore", "kl_divergence",
             "percentile_rank", "center_of_gravity", "moving_average_envelope",
             "ulcer_index", "minmax_scale", "robust_scale", "rolling_skewness",
             "rolling_kurtosis", "mad", "fractal_dimension", "kalman_slope"}
       \/ c = "disparity"
       \/ c = "tma"
       \/ c \in {"returns", "change", "roc", "price_roc", "momentum", "log_returns",
             "volume_roc"}
       \/ c \in {"hilbert_phase", "hilbert_sine", "fractional_difference",
             "price_action_score", "phase_accumulation_cycle"}
       \/ c \in {"rsi", "vidya", "laguerre_rsi", "dti", "dc_based_rsi", "cmo",
             "entropy", "shannon_entropy"}
       \/ c = "stoch_rsi"
       \/ c \in {"volatility_ind", "volatility_filter", "rvi",
             "relative_volatility_index", "historical_volatility",
             "volatility_ratio"}
       \/ c = "connors_rsi"
       \/ c = "detect_three_bar_reversal"
       \/ c \in {"inverse_fisher_transform", "hilbert_transform"}
       \/ c = "maximum"
       \/ c = "high_low_breakout"
       \/ c \in {"linear_regression", "tsf"}
       \/ c = "dpo"
       \/ c = "hma"
       \/ c = "wma"
       \/ c \in {"vwma", "rolling_correlation", "aroon", "donchian",
             "donchian_channel_width", "support_resistance", "qstick"}
       \/ c = "spread"
       \/ c \in {"force_index", "volume_delta"}
       \/ c = "ichimoku"
       \/ c \in {"stochastic", "williams_r", "ultimate_oscillator", "smi"}
       \/ c = "cci"
       \/ c = "ibs"
       \/ c \in {"adx", "dmi_adx"}
       \/ c = "true_range"
       \/ c = "atr"
       \/ c \in {"atr_percent", "normalized_atr", "normalized_atr_percent"}
       \/ c = "supertrend"
       \/ c = "vortex"
       \/ c = "ease_of_movement"
       \/ c \in {"cmf", "vfi", "intraday_intensity", "garman_klass", "parkinson",
             "range_volatility"}
       \/ c = "mfi"
       \/ c \in {"pivot_points", "heikin_ashi", "median_price", "typical_price",
             "bar_range_ratio", "wick_ratio", "trend_candle_strength",
             "detect_marubozu"}
       \/ c \in {"doji", "hammer"}
       \/ c \in {"inside_bar", "outside_bar", "higher_high_lower_low"}
       \/ c = "fractal"
       \/ c \in {"engulfing", "pin_bar", "shooting_star", "morning_star",
             "evening_star"}
  BY DEF WindowNeeded
<1> HIDE DEF V
<1> QED
  BY <1>3, <1>4, <1>5, <1>6, <1>7, <1>8, <1>9, <1>10, <1>11, <1>12, <1>13, <1>14, <1>15,
     <1>16, <1>17, <1>18, <1>19, <1>20, <1>21, <1>22, <1>23, <1>24, <1>25, <1>26, <1>27,
     <1>28, <1>29, <1>30, <1>31, <1>32, <1>33, <1>34, <1>35, <1>36, <1>37, <1>38, <1>39,
     <1>40, <1>41

\* The whole bars of the history so far.
WholeBarsNow == {k \in 1..Len(bars) : Whole(k)}

LEMMA InputWindowed ==
    ASSUME Typed, NEW k \in DOMAIN Inputs
    PROVE  Windowed(WholeBarsNow, Len(bars), Series(bars, observed)[k], 1, 1)
<1> DEFINE n == Len(bars)
           field == [i \in DOMAIN bars |-> IF Inputs[k] \in bars[i] THEN None ELSE {<<"bar", i>>}]
           aligned == Aligned(n, observed)
<1>1. n \in 0..MaxBars /\ DOMAIN bars = 1..n /\ MaxBars \in Nat
      /\ bars \in [1..n -> SUBSET Fields]
  BY FeaturesAssumption DEF Typed
<1>2. Series(bars, observed)[k] = IF k = 1 /\ spec.external THEN aligned ELSE field
  BY DEF Series
<1>3. \A i \in 1..n : First(i, 1) = i
  BY DEF First
<1>4. ASSUME ~(k = 1 /\ spec.external) PROVE Windowed(WholeBarsNow, n, field, 1, 1)
  <2>1. ASSUME NEW i \in 1..n, i \in WholeBarsNow PROVE Inputs[k] \notin bars[i]
    <3>1. bars[i] \cap Read = {} /\ bars[i] \subseteq Fields
      BY <1>1, <2>1 DEF WholeBarsNow, Whole
    <3>2. Inputs[k] \in Fields => Inputs[k] \in Read
      BY <1>4 DEF Read
    <3> QED
      BY <3>1, <3>2
  <2>2. ASSUME NEW i \in 1..n PROVE {<<"bar", i>>} \in SUBSET Since(i)
    BY <1>1 DEF Since, Points, Kind, When
  <2>3. \A i \in 1..n : i \in First(i, 1)..i
    BY <1>3
  <2> QED
    BY <1>1, <1>3, <2>1, <2>2, <2>3 DEF Windowed
<1>5. ASSUME k = 1, spec.external PROVE Windowed(WholeBarsNow, n, aligned, 1, 1)
  <2>1. Causal(Knowledge(n, observed), n, aligned)
    BY <1>1, AlignedCausal DEF Typed
  <2>2. ASSUME NEW i \in 1..n, i \in WholeBarsNow PROVE aligned[i] # None
    BY <1>5, <2>2 DEF WholeBarsNow, Whole
  <2> HIDE DEF aligned
  <2>3. ASSUME NEW i \in 1..n, aligned[i] # None PROVE aligned[i] \in SUBSET Since(i)
    <3> DEFINE seen == ResampleCompleted(observed, spec.timeframe)
               usable == {o.at : o \in {o \in seen : o.at <= i /\ o.available <= i}}
    <3>1. seen \in SUBSET observed
      BY DEF ResampleCompleted
    <3>2. i \in Nat /\ usable \in SUBSET (1..i)
      <4> HIDE DEF seen
      <4> QED
        BY <3>1 DEF Typed, Observation
    <3>3. aligned[i] = IF usable = {} THEN None ELSE {<<"observation", Max(usable)>>}
      BY DEF aligned, Aligned, AlignAsOf
    <3> HIDE DEF usable
    <3>4. Max(usable) \in usable
      BY <2>3, <3>2, <3>3, LastBar
    <3>5. 1..i \subseteq 1..MaxBars
      BY <1>1
    <3>6. Max(usable) \in 1..MaxBars
      BY <3>2, <3>4, <3>5
    <3> QED
      BY <2>3, <3>3, <3>6 DEF Since, Points, Kind
  <2>4. \A i \in 1..n : i \in First(i, 1)..i
    BY <1>3
  <2> QED
    BY <1>3, <2>1, <2>2, <2>3, <2>4 DEF Windowed, Causal
<1> HIDE DEF field, aligned
<1> QED
  BY <1>2, <1>4, <1>5

LEMMA SeriesFedWhole ==
    ASSUME Typed
    PROVE  FedWhole(WholeBarsNow, Len(bars), spec.name, Series(bars, observed))
<1> DEFINE s == Series(bars, observed)
<1>1. spec.name \in FeatureNames
  BY FeaturesAssumption DEF Typed
<1>2. DOMAIN s = DOMAIN InputsOf(spec.name) /\ s = [k \in DOMAIN InputsOf(spec.name) |-> s[k]]
  BY DEF Series, Inputs
<1>3. \A k \in DOMAIN s : Windowed(WholeBarsNow, Len(bars), s[k], 1, 1)
  BY <1>2, InputWindowed DEF Inputs
<1> HIDE DEF s
<1>4. /\ 1 \in DOMAIN s
      /\ spec.name \in TwoInputs => 2 \in DOMAIN s
      /\ spec.name \in ThreeInputs => 2 \in DOMAIN s /\ 3 \in DOMAIN s
      /\ spec.name \in FourInputs => DOMAIN s = 1..4
  BY <1>1, <1>2, CatalogFeeds
<1> QED
  BY <1>2, <1>3, <1>4 DEF FedWhole, s

LEMMA NeededIsNat ==
    ASSUME NEW c, NEW p \in Nat \ {0}, WindowNeeded(c, p) # None
    PROVE  WindowNeeded(c, p) \in Nat \ {0}
<1>1. Isqrt(p) \in Nat \ {0}
  BY IsqrtIsPositive
<1> HIDE DEF Isqrt
<1> QED
  BY <1>1 DEF WindowNeeded

\* In every history a windowed feature answers at every bar whose window is whole,
\* from the bars of the window alone, and at none before it has enough bars,
\* whatever the calculator, lookback and lag.
THEOREM Windowing == Spec => []WindowsAnswer
<1>1. IInv => WindowsAnswer
  <2> DEFINE needed == WindowNeeded(spec.name, spec.lookback)
             reach == needed + (IF spec.name \in ReadsOneMore THEN 1 ELSE 0)
             at(i) == i - spec.lag
             first(i) == IF at(i) > reach THEN at(i) - reach + 1 ELSE 1
  <2> SUFFICES ASSUME IInv, Answered, needed # None, NEW i \in DOMAIN values
               PROVE  /\ at(i) < needed => values[i] = None
                      /\ at(i) >= needed /\ (\A k \in first(i)..at(i) : Whole(k)) =>
                             /\ values[i] # None
                             /\ \A point \in values[i] :
                                    Kind(point) = "bar" => When(point) >= first(i)
    BY DEF WindowsAnswer
  <2> DEFINE n == Len(bars)
             w == WholeBarsNow
             calculated == CalculateFeature(spec.name, Series(bars, observed), spec.lookback,
                                            spec.early)
  <2>1. Typed /\ spec \in Specs /\ bars \in Seq(SUBSET Fields) /\ observed \in SUBSET Observation
        /\ n \in Nat
    BY DEF IInv, Typed
  <2>2. spec.lag \in Nat /\ spec.lookback \in Nat \ {0} /\ spec.early \in BOOLEAN
    BY <2>1, FeaturesAssumption
  <2>3. values = FeatureValues(bars, observed) /\ values # Raises
    BY DEF IInv, Current, Answered
  <2>4. /\ calculated # Raises
        /\ values = [j \in 1..n |-> IF j > spec.lag THEN calculated[j - spec.lag] ELSE None]
    <3> HIDE DEF n
    <3> QED
      BY <2>1, <2>3, FeatureValuesAre DEF n
  <2>5. Windowed(w, n, calculated, needed, reach)
    <3>1. FedWhole(w, n, spec.name, Series(bars, observed))
      BY <2>1, SeriesFedWhole
    <3> HIDE DEF w, n
    <3>2. Answers(w, n, spec.name, Series(bars, observed), spec.lookback, spec.early)
      BY <2>1, <2>2, <3>1, WindowsOfFeatures DEF needed
    <3> QED
      BY <2>4, <3>2 DEF Answers
  <2>6. needed \in Nat \ {0} /\ reach \in Nat \ {0}
    BY <2>2, NeededIsNat
  <2> HIDE DEF needed, reach, calculated, w, n
  <2>7. i \in 1..n /\ values[i] = IF i > spec.lag THEN calculated[i - spec.lag] ELSE None
    BY <2>4
  <2>8. CASE i <= spec.lag
    BY <2>2, <2>6, <2>7, <2>8
  <2>9. CASE i > spec.lag
    <3>1. at(i) \in 1..n /\ values[i] = calculated[at(i)] /\ first(i) = First(at(i), reach)
          /\ first(i) \in Nat
      BY <2>1, <2>2, <2>6, <2>7, <2>9 DEF First
    <3> HIDE DEF at, first
    <3>2. at(i) < needed => values[i] = None
      BY <2>5, <3>1 DEF Windowed
    <3>3. ASSUME at(i) >= needed, \A k \in first(i)..at(i) : Whole(k)
          PROVE  /\ values[i] # None
                 /\ \A point \in values[i] : Kind(point) = "bar" => When(point) >= first(i)
      <4>1. first(i) >= 1
        BY <2>6, <3>1 DEF First
      <4>2. first(i)..at(i) \subseteq w
        BY <2>1, <3>1, <3>3, <4>1 DEF w, WholeBarsNow, n
      <4>3. values[i] \in SUBSET Since(first(i))
        BY <2>5, <3>1, <3>3, <4>2 DEF Windowed
      <4>4. values[i] \in SUBSET Points
        BY <4>3 DEF Since
      <4>5. values[i] # None
        BY <4>4, NoneAssumption
      <4> QED
        BY <4>3, <4>5 DEF Since
    <3> QED
      BY <3>2, <3>3
  <2> QED
    BY <2>2, <2>7, <2>8, <2>9
<1>2. Spec => []IInv
  BY Invariance
<1> QED
  BY <1>1, <1>2, PTL
-----------------------------------------------------------------------------
(* Seeds.  A series has a value, or not; what the value is computed from    *)
(* does not matter here.                                                    *)

Everything(n) == [i \in 1..n |-> Points]

\* Its cells are None or sets of data points.
Filled(n, s) == Causal(Everything(n), n, s)

\* It has a value at the whole bars, ...
Given(w, n, s) == Filled(n, s) /\ \A i \in 1..n : s[i] # None <=> i \in w

\* ... at those from bar q on if the first q are whole, ...
Starts(w, n, s, q) ==
    Filled(n, s) /\ \A i \in 1..n : s[i] # None <=> i >= q /\ i \in w /\ 1..q \subseteq w

\* ... or nowhere.
Empty(n, s) == DOMAIN s = 1..n /\ \A i \in 1..n : s[i] = None

LEMMA FilledShapes ==
    ASSUME NEW n \in Nat
    PROVE  /\ Growing(Everything(n), n)
           /\ \A s, t : Filled(n, s) /\ Filled(n, t) => Filled(n, Both(s, t))
           /\ \A s : Filled(n, s) => Filled(n, Silent(s)) /\ Filled(n, Accumulated(s))
           /\ \A s : \A p \in Nat : Filled(n, s) => Filled(n, Ema(s, p)) /\ Filled(n, Wilder(s, p))
<1>1. Growing(Everything(n), n)
  BY DEF Growing, Everything
<1> QED
  BY <1>1, Shapes, Averages DEF Filled

LEMMA JoinPresent ==
    ASSUME NEW cells, \A c \in cells : Within(c, Points)
    PROVE  Join(cells) # None <=> None \notin cells
<1>1. ASSUME None \notin cells PROVE Join(cells) # None
  <2>1. Join(cells) = UNION cells
    BY <1>1 DEF Join
  <2>2. Join(cells) \in SUBSET Points
    BY <1>1, <2>1 DEF Within
  <2> QED
    BY <2>2, NoneAssumption
<1> QED
  BY <1>1 DEF Join

LEMMA FilledCell ==
    ASSUME NEW n, NEW s, Filled(n, s), NEW i \in 1..n
    PROVE  Within(s[i], Points)
BY DEF Filled, Causal, Everything

\* A running value is there from its first cell to the end of the run.
LEMMA UnbrokenPresent ==
    ASSUME NEW n \in Nat, NEW s, Filled(n, s), NEW i \in 1..n, s[i] # None
    PROVE  Unbroken(s, i) # None
<1> DEFINE gaps == {k \in 1..i : s[k] = None}
           from == IF gaps = {} THEN 1 ELSE Max(gaps) + 1
<1>1. i \in Nat /\ gaps \in SUBSET (1..i)
  OBVIOUS
<1>2. gaps # {} => Max(gaps) \in 1..i /\ \A y \in gaps : y <= Max(gaps)
  <2> HIDE DEF gaps
  <2> QED
    BY <1>1, LastBar
<1>3. ASSUME NEW k \in from..i PROVE k \in 1..n /\ s[k] # None
  <2>1. k \in 1..i /\ k \notin gaps
    <3>1. CASE gaps = {}
      BY <3>1, <1>3
    <3>2. CASE gaps # {}
      <4> HIDE DEF gaps
      <4>1. k \in 1..i /\ k > Max(gaps)
        BY <1>2, <1>3, <3>2
      <4> QED
        BY <1>2, <3>2, <4>1
    <3> QED
      BY <3>1, <3>2
  <2> QED
    BY <2>1
<1> HIDE DEF from
<1>4. \A c \in Cells(s, from, i) : Within(c, Points) /\ c # None
  BY <1>3, FilledCell DEF Cells
<1>5. Join(Cells(s, from, i)) # None
  BY <1>4, JoinPresent
<1> QED
  BY <1>5 DEF Unbroken, from

LEMMA EmaStarts ==
    ASSUME NEW w, NEW n \in Nat, NEW s, Given(w, n, s), NEW p \in Nat \ {0}
    PROVE  Starts(w, n, Ema(s, p), p) /\ Starts(w, n, Wilder(s, p), p)
<1>1. Filled(n, s) /\ DOMAIN s = 1..n
  BY DEF Given, Filled, Causal
<1>2. Filled(n, Ema(s, p)) /\ Filled(n, Wilder(s, p))
  BY <1>1, FilledShapes
<1>3. ASSUME NEW i \in 1..n, i >= p PROVE None \in Cells(s, 1, p) <=> ~(1..p \subseteq w)
  <2>1. 1..p \subseteq 1..n
    BY <1>3
  <2> QED
    BY <2>1 DEF Given, Cells
<1>4. \A i \in 1..n : s[i] # None => Unbroken(s, i) # None
  BY <1>1, UnbrokenPresent
<1>5. Starts(w, n, Ema(s, p), p)
  BY <1>1, <1>2, <1>3, <1>4 DEF Starts, Given, Ema
<1>6. ASSUME NEW i \in 1..n, i >= p PROVE Window(s, p, p) = None <=> None \in Cells(s, 1, p)
  <2>1. p \in 1..n /\ p - p + 1 = 1
    BY <1>6
  <2>2. Window(s, p, p) = Join(Cells(s, 1, p))
    BY <1>1, <2>1 DEF Window, Rolling
  <2>3. \A c \in Cells(s, 1, p) : Within(c, Points)
    BY <1>1, <2>1, FilledCell DEF Cells
  <2> QED
    BY <2>2, <2>3, JoinPresent
<1>7. Starts(w, n, Wilder(s, p), p)
  BY <1>1, <1>2, <1>3, <1>4, <1>6 DEF Starts, Given, Wilder
<1> QED
  BY <1>5, <1>7

\* Of two averages the longer one decides.
LEMMA BothStart ==
    ASSUME NEW w, NEW n \in Nat, NEW s, NEW t, NEW q \in Nat, NEW r \in Nat, q <= r,
           Starts(w, n, s, q), Starts(w, n, t, r)
    PROVE  Starts(w, n, Both(s, t), r) /\ Starts(w, n, Both(t, s), r)
<1>1. Filled(n, s) /\ Filled(n, t) /\ DOMAIN s = 1..n /\ DOMAIN t = 1..n
  BY DEF Starts, Filled, Causal
<1>2. Filled(n, Both(s, t)) /\ Filled(n, Both(t, s))
  BY <1>1, FilledShapes
<1>3. ASSUME NEW i \in 1..n
      PROVE  /\ Join({s[i], t[i]}) # None <=> s[i] # None /\ t[i] # None
             /\ Join({t[i], s[i]}) # None <=> s[i] # None /\ t[i] # None
  <2>1. Within(s[i], Points) /\ Within(t[i], Points)
    BY <1>1, FilledCell
  <2> QED
    BY <2>1, JoinPresent
<1>4. 1..q \subseteq 1..r
  OBVIOUS
<1>5. \A i \in 1..n : s[i] # None /\ t[i] # None <=> i >= r /\ i \in w /\ 1..r \subseteq w
  BY <1>4 DEF Starts
<1> QED
  BY <1>1, <1>2, <1>3, <1>5 DEF Starts, Both

LEMMA BothWithInput ==
    ASSUME NEW w, NEW n \in Nat, NEW s, NEW t, NEW q \in Nat, Given(w, n, s), Starts(w, n, t, q)
    PROVE  Starts(w, n, Both(s, t), q)
<1>1. Filled(n, s) /\ Filled(n, t) /\ DOMAIN s = 1..n
  BY DEF Starts, Given, Filled, Causal
<1>2. Filled(n, Both(s, t))
  BY <1>1, FilledShapes
<1>3. ASSUME NEW i \in 1..n PROVE Join({s[i], t[i]}) # None <=> s[i] # None /\ t[i] # None
  <2>1. Within(s[i], Points) /\ Within(t[i], Points)
    BY <1>1, FilledCell
  <2> QED
    BY <2>1, JoinPresent
<1> QED
  BY <1>1, <1>2, <1>3 DEF Starts, Given, Both

\* Running values of all bars, and one that is there only if bar 1 is.
LEMMA Running ==
    ASSUME NEW w, NEW n \in Nat, NEW s, Given(w, n, s)
    PROVE  /\ Given(w, n, Accumulated(s))
           /\ \A t : t = (IF s[1] = None THEN Silent(s) ELSE Accumulated(s)) => Starts(w, n, t, 1)
<1>1. Filled(n, s) /\ DOMAIN s = 1..n
  BY DEF Given, Filled, Causal
<1>2. Filled(n, Accumulated(s)) /\ Filled(n, Silent(s))
  BY <1>1, FilledShapes
<1>3. ASSUME NEW i \in 1..n PROVE Accumulated(s)[i] # None <=> s[i] # None
  <2>1. \A c \in Cells(s, 1, i) : Within(c, Points)
    BY <1>1, FilledCell DEF Cells
  <2>2. Present(Cells(s, 1, i)) \in SUBSET Points
    BY <2>1, PresentWithin
  <2>3. Present(Cells(s, 1, i)) # None
    BY <2>2, NoneAssumption
  <2> QED
    BY <1>1, <2>3 DEF Accumulated
<1>4. \A i \in 1..n : Silent(s)[i] = None
  BY <1>1 DEF Silent
<1>5. Given(w, n, Accumulated(s))
  BY <1>2, <1>3 DEF Given
<1>6. \A i \in 1..n : s[1] # None <=> 1..1 \subseteq w
  BY DEF Given
<1> QED
  BY <1>2, <1>3, <1>4, <1>5, <1>6 DEF Given, Starts

\* The average that raises if there are not enough bars.
LEMMA McginleyStarts ==
    ASSUME NEW w, NEW n \in Nat, NEW s, Given(w, n, s), s = [i \in 1..n |-> s[i]],
           NEW p \in Nat \ {0}, Mcginley(s, p) # Raises
    PROVE  Starts(w, n, Mcginley(s, p), p)
<1> DEFINE t == [i \in DOMAIN s |-> CASE i < p -> None
                                      [] i = p -> Window(s, p, p)
                                      [] i > p -> s[i]]
           m == IF Len(s) < p THEN Len(s) ELSE p
<1>1. Filled(n, s) /\ DOMAIN s = 1..n /\ Len(s) = n
  BY LenOfSeries DEF Given, Filled, Causal
<1>2. m \in 0..n /\ m <= p /\ (p <= n => m = p)
  BY <1>1
<1>3. Mcginley(s, p) = IF None \in Cells(s, 1, m) THEN Silent(s)
                       ELSE IF Len(s) < p THEN Raises ELSE Accumulated(t)
  BY Zenon DEF Mcginley, SeededAtLast
<1> HIDE DEF m
<1>4. None \in Cells(s, 1, m) <=> ~(1..m \subseteq w)
  BY <1>2 DEF Given, Cells
<1>5. Filled(n, Silent(s)) /\ \A i \in 1..n : Silent(s)[i] = None
  BY <1>1, FilledShapes DEF Silent
<1>6. CASE None \in Cells(s, 1, m)
  <2>1. Mcginley(s, p) = Silent(s)
    BY <1>6, <1>3
  <2>2. \A i \in 1..n : i >= p => ~(1..p \subseteq w)
    BY <1>2, <1>4, <1>6
  <2> QED
    BY <1>5, <2>1, <2>2 DEF Starts
<1>7. CASE None \notin Cells(s, 1, m)
  <2>1. p <= n /\ Mcginley(s, p) = Accumulated(t)
    <3> HIDE DEF t
    <3> QED
      BY <1>1, <1>7, <1>3
  <2>2. 1..p \subseteq w /\ p \in 1..n /\ p - p + 1 = 1
    BY <1>2, <1>4, <1>7, <2>1
  <2>3. Within(Window(s, p, p), Points) /\ Window(s, p, p) # None
    <3>1. \A c \in Cells(s, 1, p) : Within(c, Points)
      BY <1>1, <2>2, FilledCell DEF Cells
    <3>2. None \notin Cells(s, 1, p)
      BY <1>2, <1>7, <2>1
    <3>3. Window(s, p, p) = Join(Cells(s, 1, p))
      BY <1>1, <2>2 DEF Window, Rolling
    <3> QED
      BY <3>1, <3>2, <3>3, JoinPresent, JoinWithin
  <2>4. DOMAIN t = 1..n
    BY <1>1
  <2>5. \A i \in 1..n : t[i] = (IF i < p THEN None ELSE IF i = p THEN Window(s, p, p) ELSE s[i])
    BY <1>1
  <2> HIDE DEF t
  <2>6. Filled(n, t)
    <3>1. \A i \in 1..n : Within(t[i], Points)
      BY <1>1, <2>3, <2>5, FilledCell DEF Within
    <3> QED
      BY <2>4, <3>1 DEF Filled, Causal, Everything
  <2>7. \A i \in 1..n : t[i] # None <=> i >= p /\ i \in w
    BY <2>2, <2>3, <2>5 DEF Given
  <2>8. Given({i \in w : i >= p}, n, t)
    BY <2>6, <2>7 DEF Given
  <2>9. Given({i \in w : i >= p}, n, Accumulated(t))
    BY <2>8, Running
  <2> QED
    BY <2>1, <2>2, <2>9 DEF Given, Starts
<1> QED
  BY <1>6, <1>7

\* On-balance volume is there at the bars that have a close and a volume.
LEMMA ObvGiven ==
    ASSUME NEW w, NEW n \in Nat, NEW close, NEW volume, Filled(n, close), Filled(n, volume),
           \A i \in 1..n : i \in w <=> close[i] # None /\ volume[i] # None
    PROVE  Given(w, n, Obv(close, volume))
<1> DEFINE t == [i \in DOMAIN close |->
                    IF i = 1 \/ close[i - 1] = None THEN Join({close[i], volume[i]})
                                                    ELSE Join({close[i], volume[i], close[i - 1]})]
<1>1. DOMAIN close = 1..n
  BY DEF Filled, Causal
<1>2. ASSUME NEW i \in 1..n
      PROVE  Within(t[i], Points) /\ (t[i] # None <=> close[i] # None /\ volume[i] # None)
  <2>1. Within(close[i], Points) /\ Within(volume[i], Points)
    BY FilledCell
  <2>2. CASE i = 1 \/ close[i - 1] = None
    <3>1. t[i] = Join({close[i], volume[i]})
      BY <1>1, <2>2
    <3> HIDE DEF t
    <3> QED
      BY <2>1, <3>1, JoinPresent, JoinWithin
  <2>3. CASE ~(i = 1 \/ close[i - 1] = None)
    <3>1. t[i] = Join({close[i], volume[i], close[i - 1]})
      BY <1>1, <2>3
    <3>2. i - 1 \in 1..n
      BY <2>3
    <3>3. Within(close[i - 1], Points)
      BY <3>2, FilledCell
    <3> HIDE DEF t
    <3> QED
      BY <2>1, <2>3, <3>1, <3>3, JoinPresent, JoinWithin
  <2> QED
    BY <2>2, <2>3
<1>3. DOMAIN t = 1..n
  BY <1>1
<1>4. Obv(close, volume) = Accumulated(t)
  BY DEF Obv
<1> HIDE DEF t
<1>5. Given(w, n, t)
  BY <1>2, <1>3 DEF Given, Filled, Causal, Everything
<1> QED
  BY <1>4, <1>5, Running

LEMMA RowGiven ==
    ASSUME NEW w, NEW n \in Nat, NEW s, 1 \in DOMAIN s, \A k \in DOMAIN s : Filled(n, s[k]),
           \A i \in 1..n : i \in w <=> \A k \in DOMAIN s : s[k][i] # None
    PROVE  Given(w, n, Row(s))
<1>1. Filled(n, Row(s))
  BY FilledShapes, Shapes DEF Filled
<1>2. ASSUME NEW i \in 1..n PROVE Row(s)[i] # None <=> i \in w
  <2> DEFINE cells == {s[k][i] : k \in DOMAIN s}
  <2>1. DOMAIN s[1] = 1..n
    BY DEF Filled, Causal
  <2>2. Row(s)[i] = Join(cells)
    BY <2>1 DEF Row
  <2>3. \A c \in cells : Within(c, Points)
    BY FilledCell
  <2>4. None \notin cells <=> i \in w
    OBVIOUS
  <2> HIDE DEF cells
  <2> QED
    BY <2>2, <2>3, <2>4, JoinPresent
<1> QED
  BY <1>1, <1>2 DEF Given

\* What smooths a series that has no first value never has one.
LEMMA NeverStarts ==
    ASSUME NEW n \in Nat, NEW s, DOMAIN s = 1..n, n > 0 => s[1] = None, NEW p \in Nat \ {0}
    PROVE  Empty(n, Ema(s, p)) /\ Empty(n, Wilder(s, p))
<1>1. ASSUME NEW i \in 1..n, i >= p
      PROVE  None \in Cells(s, 1, p) /\ Window(s, p, p) = None
  <2>1. s[1] = None /\ 1 \in 1..p /\ p \in 1..n /\ p - p + 1 = 1
    BY <1>1
  <2>2. None \in Cells(s, 1, p)
    BY <2>1 DEF Cells
  <2>3. Window(s, p, p) = Join(Cells(s, 1, p))
    BY <2>1 DEF Window, Rolling
  <2> QED
    BY <2>2, <2>3 DEF Join
<1> QED
  BY <1>1 DEF Empty, Ema, Wilder

LEMMA EmptyShapes ==
    ASSUME NEW n \in Nat
    PROVE  /\ \A s, t : Empty(n, t) /\ DOMAIN s = 1..n => Empty(n, Both(s, t))
           /\ \A s, t : Empty(n, s) => Empty(n, Both(s, t))
           /\ \A s : \A p \in Nat \ {0} : Empty(n, s) => Empty(n, Rolling(s, p))
                                                         /\ Empty(n, Lagged(s, p))
                                                         /\ Empty(n, Ema(s, p))
<1>1. /\ \A s, t : Empty(n, t) /\ DOMAIN s = 1..n => Empty(n, Both(s, t))
      /\ \A s, t : Empty(n, s) => Empty(n, Both(s, t))
  BY DEF Empty, Both, Join
<1>2. ASSUME NEW s, NEW p \in Nat \ {0}, Empty(n, s)
      PROVE  Empty(n, Rolling(s, p)) /\ Empty(n, Lagged(s, p)) /\ Empty(n, Ema(s, p))
  <2>1. ASSUME NEW i \in 1..n, i >= p PROVE Join(Cells(s, i - p + 1, i)) = None
    <3>1. i \in (i - p + 1)..i /\ s[i] = None
      BY <1>2, <2>1 DEF Empty
    <3> QED
      BY <3>1 DEF Join, Cells
  <2>2. Empty(n, Rolling(s, p))
    BY <1>2, <2>1 DEF Empty, Rolling
  <2>3. Empty(n, Lagged(s, p))
    BY <1>2 DEF Empty, Lagged, Join
  <2>4. Empty(n, Ema(s, p))
    BY <1>2 DEF Empty, Ema
  <2> QED
    BY <2>2, <2>3, <2>4
<1> QED
  BY <1>1, <1>2

\* The calculators that are seeded with the first values of one series.
OneInput ==
    {"ema", "wilder", "fama", "itrend", "laguerre", "hilbert_trendline", "macd",
     "adaptive_cycle_divergence", "dominant_cycle", "mcginley", "guppy_mma", "super_smoother",
     "roofing_filter", "regime_filter", "volume_oscillator", "zigzag", "renko"}

\* A calculator and the series it is called with, all of which have a value at the
\* whole bars and at no other.
FedSeeds(w, n, c, s) ==
    /\ 1 \in DOMAIN s
    /\ s[1] = [i \in 1..n |-> s[1][i]]
    /\ \A k \in DOMAIN s : Filled(n, s[k])
    /\ \A i \in 1..n : i \in w <=> \A k \in DOMAIN s : s[k][i] # None
    /\ c \in OneInput => DOMAIN s = 1..1
    /\ c \in {"parabolic_sar", "smoothed_obv"} => DOMAIN s = 1..2
    /\ c = "mass_index" => 2 \in DOMAIN s
    /\ c = "klinger" => 3 \in DOMAIN s

\* Every seeded calculator, by the way it is composed.
LEMMA SeedsOfFeatures ==
    ASSUME NEW w, NEW n \in Nat, NEW p \in Nat \ {0}, NEW early \in BOOLEAN,
           NEW c, NEW s, FedSeeds(w, n, c, s), SeedNeeded(c, p) # None,
           NEW t, t = CalculateFeature(c, s, p, early), t # Raises
    PROVE  Starts(w, n, t, SeedNeeded(c, p))
<1>1. ASSUME c \in OneInput PROVE Given(w, n, s[1])
  BY <1>1 DEF FedSeeds, Given
<1>2. \A u : Given(w, n, u) =>
          \A q \in Nat \ {0} : Starts(w, n, Ema(u, q), q) /\ Starts(w, n, Wilder(u, q), q)
  BY EmaStarts
<1>3. \A u : Given(w, n, u) =>
          \A q, r \in Nat \ {0} :
              q <= r => /\ Starts(w, n, Both(Ema(u, q), Ema(u, r)), r)
                        /\ Starts(w, n, Both(Ema(u, r), Ema(u, q)), r)
  <2> SUFFICES ASSUME NEW u, Given(w, n, u), NEW q \in Nat \ {0}, NEW r \in Nat \ {0}, q <= r
               PROVE  /\ Starts(w, n, Both(Ema(u, q), Ema(u, r)), r)
                      /\ Starts(w, n, Both(Ema(u, r), Ema(u, q)), r)
    OBVIOUS
  <2>1. Starts(w, n, Ema(u, q), q) /\ Starts(w, n, Ema(u, r), r) /\ q \in Nat /\ r \in Nat
    BY <1>2
  <2> QED
    BY <2>1, BothStart
<1>4. Half(p) \in Nat \ {0} /\ AtLeastTwo(p) \in Nat \ {0} /\ 2 * p \in Nat \ {0} /\ p <= 2 * p
  BY DEF Half, AtLeastTwo
<1>5. CASE c \in {"ema", "fama", "itrend", "laguerre", "hilbert_trendline"}
  <2>1. CalculateFeature(c, s, p, early) = Ema(s[1], p)
    BY <1>5 DEF CalculateFeature, MacdBased, ExtendedIndicator, AdditionalIndicator, CycleTransform
  <2>2. SeedNeeded(c, p) = p /\ c \in OneInput
    BY <1>5 DEF SeedNeeded, OneInput
  <2> QED
    BY <1>1, <1>2, <2>1, <2>2
<1>6. CASE c = "wilder"
  <2>1. CalculateFeature(c, s, p, early) = Wilder(s[1], p)
    BY <1>6 DEF CalculateFeature, MacdBased, MovingAverageVariant
  <2>2. SeedNeeded(c, p) = p /\ c \in OneInput
    BY <1>6 DEF SeedNeeded, OneInput
  <2> QED
    BY <1>1, <1>2, <2>1, <2>2
<1>7. CASE c \in {"adaptive_cycle_divergence", "dominant_cycle"}
  <2>1. CalculateFeature(c, s, p, early) = Both(s[1], Ema(s[1], p))
    BY <1>7 DEF CalculateFeature, MacdBased, ExtendedIndicator, AdditionalIndicator, CycleTransform
  <2>2. SeedNeeded(c, p) = p /\ c \in OneInput
    BY <1>7 DEF SeedNeeded, OneInput
  <2>3. Starts(w, n, Ema(s[1], p), p) /\ Given(w, n, s[1]) /\ p \in Nat
    BY <1>1, <1>2, <2>2
  <2> QED
    BY <2>1, <2>2, <2>3, BothWithInput
<1>8. CASE c = "mcginley"
  <2>1. CalculateFeature(c, s, p, early) = Mcginley(s[1], p)
    BY <1>8 DEF CalculateFeature, MacdBased, ExtendedIndicator, AdditionalIndicator
  <2>2. SeedNeeded(c, p) = p /\ c \in OneInput
    BY <1>8 DEF SeedNeeded, OneInput
  <2>3. Given(w, n, s[1]) /\ s[1] = [i \in 1..n |-> s[1][i]] /\ Mcginley(s[1], p) # Raises
    BY <1>1, <2>1, <2>2 DEF FedSeeds
  <2> QED
    BY <2>1, <2>2, <2>3, McginleyStarts
<1>9. CASE c = "macd"
  <2>1. Half(p) < p
    <3>1. Half(p) >= p => CalculateFeature(c, s, p, early) = Raises
      BY <1>9 DEF CalculateFeature, MacdBased
    <3> QED
      BY <1>4, <3>1
  <2>2. CalculateFeature(c, s, p, early) = Both(Ema(s[1], Half(p)), Ema(s[1], p))
    BY <1>4, <1>9, <2>1 DEF CalculateFeature, MacdBased, Macd
  <2>3. SeedNeeded(c, p) = p /\ c \in OneInput
    BY <1>9 DEF SeedNeeded, OneInput
  <2>4. Half(p) <= p
    BY <1>4, <2>1
  <2> QED
    BY <1>1, <1>3, <1>4, <2>2, <2>3, <2>4
<1>10. CASE c = "vw_macd"
  <2>1. Half(p) < p
    <3>1. Half(p) >= p => CalculateFeature(c, s, p, early) = Raises
      BY <1>10 DEF CalculateFeature, MacdBased
    <3> QED
      BY <1>4, <3>1
  <2>2. CalculateFeature(c, s, p, early) = Macd(Vwap(s), p)
    BY <1>4, <1>10, <2>1 DEF CalculateFeature, MacdBased, ExtendedIndicator,
       AdditionalIndicator, FurtherIndicator
  <2>3. SeedNeeded(c, p) = p
    BY <1>10 DEF SeedNeeded
  <2>4. Given(w, n, Vwap(s))
    BY RowGiven, Running DEF FedSeeds, Vwap
  <2>5. Half(p) <= p
    BY <1>4, <2>1
  <2> QED
    BY <1>3, <1>4, <2>2, <2>3, <2>4, <2>5 DEF Macd
<1>11. CASE c = "smoothed_obv"
  <2>1. CalculateFeature(c, s, p, early) = Ema(Obv(s[1], s[2]), p)
    BY <1>11 DEF CalculateFeature, MacdBased, ExtendedIndicator, AdditionalIndicator
  <2>2. SeedNeeded(c, p) = p
    BY <1>11 DEF SeedNeeded
  <2>3. DOMAIN s = {1, 2}
    BY <1>11 DEF FedSeeds
  <2>4. Given(w, n, Obv(s[1], s[2]))
    BY <2>3, ObvGiven DEF FedSeeds
  <2> QED
    BY <1>2, <2>1, <2>2, <2>4
<1>12. CASE c \in {"guppy_mma", "super_smoother", "roofing_filter"}
  <2>1. CalculateFeature(c, s, p, early) = Ema(s[1], AtLeastTwo(p))
    BY <1>12 DEF CalculateFeature, MacdBased, ExtendedIndicator, AdditionalIndicator,
       FurtherIndicator, CycleIndicator
  <2>2. SeedNeeded(c, p) = AtLeastTwo(p) /\ c \in OneInput
    BY <1>12 DEF SeedNeeded, OneInput
  <2> QED
    BY <1>1, <1>2, <1>4, <2>1, <2>2
<1>13. CASE c = "regime_filter"
  <2>1. CalculateFeature(c, s, p, early) = Both(Ema(s[1], Half(p)), Ema(s[1], p))
    BY <1>13 DEF CalculateFeature, MacdBased, RegimeFilter
  <2>2. SeedNeeded(c, p) = AtLeastTwo(p) /\ c \in OneInput
    BY <1>13 DEF SeedNeeded, OneInput
  <2>3. \/ Half(p) <= p /\ AtLeastTwo(p) = p
        \/ p <= Half(p) /\ AtLeastTwo(p) = Half(p)
    BY DEF Half, AtLeastTwo
  <2> QED
    BY <1>1, <1>3, <1>4, <2>1, <2>2, <2>3
<1>14. CASE c = "volume_oscillator"
  <2>1. CalculateFeature(c, s, p, early) = Both(Ema(s[1], p), Ema(s[1], 2 * p))
    BY <1>14 DEF CalculateFeature, MacdBased, ExtendedIndicator, AdditionalIndicator
  <2>2. SeedNeeded(c, p) = 2 * p /\ c \in OneInput
    BY <1>14 DEF SeedNeeded, OneInput
  <2> QED
    BY <1>1, <1>3, <1>4, <2>1, <2>2
<1>15. CASE c \in {"zigzag", "renko"}
  <2>1. CalculateFeature(c, s, p, early) =
            IF s[1][1] = None THEN Silent(s[1]) ELSE Accumulated(s[1])
    BY <1>15 DEF CalculateFeature, MacdBased, ExtendedIndicator, AdditionalIndicator,
       StepTransform
  <2>2. SeedNeeded(c, p) = 1 /\ c \in OneInput
    BY <1>15 DEF SeedNeeded, OneInput
  <2> QED
    BY <1>1, <2>1, <2>2, Running
<1>16. CASE c = "parabolic_sar"
  <2> DEFINE row == Row(<<s[1], s[2]>>)
  <2>1. CalculateFeature(c, s, p, early) =
            IF row[1] = None THEN Silent(s[1]) ELSE Accumulated(row)
    BY <1>16 DEF CalculateFeature, MacdBased, ExtendedIndicator, ParabolicSar
  <2>2. SeedNeeded(c, p) = 1
    BY <1>16 DEF SeedNeeded
  <2>3. DOMAIN s = {1, 2}
    BY <1>16 DEF FedSeeds
  <2>4. Given(w, n, row)
    <3> DEFINE series == <<s[1], s[2]>>
    <3>1. DOMAIN series = {1, 2} /\ series[1] = s[1] /\ series[2] = s[2]
      OBVIOUS
    <3>2. /\ 1 \in DOMAIN series /\ \A k \in DOMAIN series : Filled(n, series[k])
          /\ \A i \in 1..n : i \in w <=> \A k \in DOMAIN series : series[k][i] # None
      <4> HIDE DEF series
      <4> QED
        BY <2>3, <3>1 DEF FedSeeds
    <3> HIDE DEF series
    <3>3. Given(w, n, Row(series))
      BY <3>2, RowGiven
    <3> QED
      BY <3>3 DEF series
  <2>5. Silent(s[1]) = Silent(row)
    BY <2>3 DEF FedSeeds, Filled, Causal, Silent, Row
  <2> HIDE DEF row
  <2> QED
    BY <2>1, <2>2, <2>4, <2>5, Running
<1> QED
  BY <1>5, <1>6, <1>7, <1>8, <1>9, <1>10, <1>11, <1>12, <1>13, <1>14, <1>15, <1>16
     DEF SeedNeeded

\* Every calculator that smooths a series without a first value.
LEMMA UnseededFeatures ==
    ASSUME NEW w, NEW n \in Nat, NEW p \in Nat \ {0}, NEW early \in BOOLEAN,
           NEW c, NEW s, FedSeeds(w, n, c, s), c \in Unseeded(p),
           NEW t, t = CalculateFeature(c, s, p, early), t # Raises
    PROVE  Empty(n, t)
<1> DEFINE Late(u) == DOMAIN u = 1..n /\ (n > 0 => u[1] = None)
<1>1. DOMAIN s[1] = 1..n
  BY DEF FedSeeds, Filled, Causal
<1>2. /\ \A u : Empty(n, u) => Late(u) /\ DOMAIN u = 1..n
      /\ \A u : \A q \in Nat \ {0} : Late(u) => Empty(n, Ema(u, q)) /\ Empty(n, Wilder(u, q))
  <2>1. \A u : Empty(n, u) => Late(u) /\ DOMAIN u = 1..n
    BY DEF Empty
  <2>2. ASSUME NEW u, NEW q \in Nat \ {0}, Late(u)
        PROVE  Empty(n, Ema(u, q)) /\ Empty(n, Wilder(u, q))
    BY <2>2, NeverStarts
  <2> QED
    BY <2>1, <2>2
<1>3. \A u : \A q \in Nat \ {0} : DOMAIN u = 1..n /\ q > 1 => Late(Ema(u, q))
  BY DEF Ema
<1>4. \A u : \A q \in Nat \ {0} : DOMAIN u = 1..n => Late(Step(u)) /\ Late(Rolling(u, q + 1))
  BY DEF Step, Lagged, Rolling
<1>5. \A u, v : /\ Late(u) => Late(Both(u, v))
                /\ DOMAIN u = 1..n => DOMAIN Both(u, v) = 1..n
  BY DEF Both, Join
<1>6. \A u : \A q \in Nat \ {0} : DOMAIN u = 1..n => DOMAIN Ema(u, q) = 1..n
  BY DEF Ema
<1>7. Half(p) \in Nat \ {0} /\ Half(p) > 1 /\ 9 \in Nat \ {0} /\ 1 \in Nat \ {0}
  BY DEF Half
<1>8. Late(Macd(s[1], p))
  BY <1>1, <1>3, <1>5, <1>7 DEF Macd
<1> HIDE DEF Late
<1>9. CASE c = "tsi"
  <2>1. CalculateFeature(c, s, p, early) = Ema(Ema(Step(s[1]), p), p)
    BY <1>9 DEF CalculateFeature, MacdBased, ExtendedIndicator, Tsi
  <2> QED
    BY <1>1, <1>2, <1>4, <2>1
<1>10. CASE c \in {"rsi.wilder", "rsi.ema"}
  <2>1. CalculateFeature(c, s, p, early) \in {Wilder(Step(s[1]), p), Ema(Step(s[1]), p)}
    BY <1>10 DEF CalculateFeature, MacdBased, Rsi
  <2> QED
    BY <1>1, <1>2, <1>4, <2>1
<1>11. CASE c = "rsx"
  <2>1. CalculateFeature(c, s, p, early) = Ema(Rolling(s[1], p + 1), p)
    BY <1>11 DEF CalculateFeature, MacdBased, ExtendedIndicator, AdditionalIndicator, Rsi
  <2> QED
    BY <1>1, <1>2, <1>4, <2>1
<1>12. CASE c = "macd_signal"
  <2>1. CalculateFeature(c, s, p, early) = Ema(Macd(s[1], p), 9)
    BY <1>12 DEF CalculateFeature, MacdBased, ExtendedIndicator, AdditionalIndicator
  <2> QED
    BY <1>2, <1>7, <1>8, <2>1
<1>13. CASE c = "macd_histogram"
  <2>1. CalculateFeature(c, s, p, early) = Both(Macd(s[1], p), Ema(Macd(s[1], p), 9))
    BY <1>13 DEF CalculateFeature, MacdBased, ExtendedIndicator, AdditionalIndicator
  <2>2. Empty(n, Ema(Macd(s[1], p), 9)) /\ DOMAIN Macd(s[1], p) = 1..n
    BY <1>2, <1>7, <1>8 DEF Late
  <2> QED
    BY <2>1, <2>2, EmptyShapes
<1>14. CASE c = "klinger"
  <2>1. CalculateFeature(c, s, p, early) = Ema(Both(Step(s[3]), s[4]), p)
    BY <1>14 DEF CalculateFeature, MacdBased, ExtendedIndicator, AdditionalIndicator,
       FurtherIndicator, ForceIndex
  <2>2. DOMAIN s[3] = 1..n
    BY <1>14 DEF FedSeeds, Filled, Causal
  <2> QED
    BY <1>2, <1>4, <1>5, <2>1, <2>2
<1>15. CASE p > 1 /\ c \in {"dema", "zero_lag_ema"}
  <2>1. CalculateFeature(c, s, p, early) = Both(Ema(s[1], p), Ema(Ema(s[1], p), p))
    BY <1>15 DEF CalculateFeature, MacdBased, ExtendedIndicator, AdditionalIndicator,
       MovingAverageVariant
  <2>2. Empty(n, Ema(Ema(s[1], p), p)) /\ DOMAIN Ema(s[1], p) = 1..n
    BY <1>1, <1>2, <1>3, <1>6, <1>15
  <2> QED
    BY <2>1, <2>2, EmptyShapes
<1>16. CASE p > 1 /\ c = "tema"
  <2>1. CalculateFeature(c, s, p, early) =
            Both(Both(Ema(s[1], p), Ema(Ema(s[1], p), p)), Ema(Ema(Ema(s[1], p), p), p))
    BY <1>16 DEF CalculateFeature, MacdBased, MovingAverageVariant
  <2>2. Empty(n, Ema(Ema(s[1], p), p)) /\ DOMAIN Ema(s[1], p) = 1..n
    BY <1>1, <1>2, <1>3, <1>6, <1>16
  <2>3. Empty(n, Both(Ema(s[1], p), Ema(Ema(s[1], p), p)))
    BY <2>2, EmptyShapes
  <2> QED
    BY <2>1, <2>3, EmptyShapes
<1>17. CASE p > 1 /\ c = "trix"
  <2>1. CalculateFeature(c, s, p, early) = Lagged(Ema(Ema(Ema(s[1], p), p), p), 1)
    BY <1>17 DEF CalculateFeature, MacdBased, ExtendedIndicator, Returns
  <2>2. Empty(n, Ema(Ema(s[1], p), p))
    BY <1>1, <1>2, <1>3, <1>17
  <2>3. Empty(n, Ema(Ema(Ema(s[1], p), p), p))
    BY <2>2, EmptyShapes
  <2> QED
    BY <1>7, <2>1, <2>3, EmptyShapes
<1>18. CASE p > 1 /\ c = "mass_index"
  <2> DEFINE first == Ema(Row(<<s[1], s[2]>>), p)
  <2>1. CalculateFeature(c, s, p, early) = Rolling(Both(first, Ema(first, p)), p)
    BY <1>18 DEF CalculateFeature, MacdBased, ExtendedIndicator, AdditionalIndicator,
       SingleRolling
  <2>2. DOMAIN Row(<<s[1], s[2]>>) = 1..n
    BY <1>1 DEF Row
  <2>3. Late(first) /\ DOMAIN first = 1..n
    BY <1>3, <1>6, <1>18, <2>2
  <2> HIDE DEF first
  <2>4. Empty(n, Both(first, Ema(first, p)))
    BY <1>2, <2>3, EmptyShapes
  <2> QED
    BY <2>1, <2>4, EmptyShapes
<1> QED
  BY <1>9, <1>10, <1>11, <1>12, <1>13, <1>14, <1>15, <1>16, <1>17, <1>18 DEF Unseeded

\* The catalog gives the seeded calculators these inputs.
LEMMA CatalogSeeds ==
    ASSUME NEW c \in FeatureNames
    PROVE  /\ c \in OneInput => DOMAIN InputsOf(c) = 1..1
           /\ c \in {"parabolic_sar", "smoothed_obv"} => DOMAIN InputsOf(c) = 1..2
<1>1. /\ DOMAIN HL = 1..2 /\ DOMAIN CV = 1..2 /\ DOMAIN <<"close">> = 1..1
      /\ DOMAIN <<"volume">> = 1..1
  BY DEF HL, CV
<1>2. ASSUME c \in OneInput PROVE InputsOf(c) = <<"close">> \/ InputsOf(c) = <<"volume">>
  BY <1>2 DEF OneInput, InputsOf, Definitions, Proposed, Unlisted, DefinitionInputs,
     ProposedInputs, UnlistedInputs, IndicatorInputs
<1>3. /\ c = "parabolic_sar" => InputsOf(c) = HL
      /\ c = "smoothed_obv" => InputsOf(c) = CV
  BY DEF InputsOf, Definitions, Proposed, Unlisted, DefinitionInputs, ProposedInputs
<1> QED
  BY <1>1, <1>2, <1>3

\* A bar is whole if every series has a value at it.
LEMMA SeriesFedSeeds ==
    ASSUME Typed
    PROVE  FedSeeds(WholeBarsNow, Len(bars), spec.name, Series(bars, observed))
<1> DEFINE n == Len(bars)
           c == spec.name
           s == Series(bars, observed)
           K == Knowledge(n, observed)
           aligned == Aligned(n, observed)
           field(k) ==
               [i \in DOMAIN bars |-> IF Inputs[k] \in bars[i] THEN None ELSE {<<"bar", i>>}]
<1>1. /\ n \in Nat /\ n <= MaxBars /\ MaxBars \in Nat /\ DOMAIN bars = 1..n
      /\ bars \in [1..n -> SUBSET Fields] /\ bars \in Seq(SUBSET Fields)
      /\ observed \in SUBSET Observation /\ spec \in Specs /\ c \in FeatureNames
  BY FeaturesAssumption DEF Typed
<1>2. DOMAIN s = DOMAIN InputsOf(c) /\ DOMAIN s = DOMAIN Inputs
  BY DEF Series, Inputs
<1>3. \A k \in DOMAIN s : s[k] = IF k = 1 /\ spec.external THEN aligned ELSE field(k)
  BY DEF Series
<1>4. Fed(K, n, c, s)
  BY <1>1, SeriesFed
<1>5. \A i \in 1..n : K[i] \subseteq Points
  <2> SUFFICES ASSUME NEW i \in 1..n, NEW x \in K[i] PROVE x \in Points
    OBVIOUS
  <2> DEFINE usable == {o \in observed : o.at <= i /\ o.available <= i}
  <2>1. K[i] = {<<"bar", b>> : b \in 1..i} \cup {<<"observation", o.at>> : o \in usable}
    BY DEF Knowledge
  <2>2. 1..i \subseteq 1..MaxBars
    BY <1>1
  <2>3. CASE x \in {<<"bar", b>> : b \in 1..i}
    BY <2>2, <2>3 DEF Points
  <2>4. CASE x \in {<<"observation", o.at>> : o \in usable}
    <3>1. PICK o \in observed : o.at <= i /\ x = <<"observation", o.at>>
      BY <2>4
    <3>2. o.at \in 1..i
      BY <1>1, <3>1 DEF Observation
    <3> QED
      BY <2>2, <3>1, <3>2 DEF Points
  <2> QED
    BY <2>1, <2>3, <2>4
<1>6. \A k \in DOMAIN s : Filled(n, s[k])
  <2> HIDE DEF K, s, n, c
  <2> QED
    BY <1>4, <1>5 DEF Fed, Filled, Causal, Everything, Within
<1>7. 1 \in DOMAIN s
  BY <1>4 DEF Fed
<1>8. s[1] = [i \in 1..n |-> s[1][i]]
  <2>1. aligned = [i \in 1..n |-> aligned[i]]
    BY DEF Aligned, AlignAsOf
  <2>2. field(1) = [i \in 1..n |-> field(1)[i]]
    BY <1>1
  <2>3. s[1] = aligned \/ s[1] = field(1)
    BY <1>3, <1>7
  <2> HIDE DEF s, aligned, field
  <2> QED
    BY <2>1, <2>2, <2>3
<1>9. ASSUME NEW i \in 1..n PROVE i \in WholeBarsNow <=> \A k \in DOMAIN s : s[k][i] # None
  <2> DEFINE own == DOMAIN Inputs \ (IF spec.external THEN {1} ELSE {})
  <2>1. Read = {Inputs[k] : k \in own} \cap Fields
    BY DEF Read
  <2>2. {<<"bar", i>>} # None
    <3>1. {<<"bar", i>>} \in SUBSET Points
      BY <1>1 DEF Points
    <3> QED
      BY <3>1, NoneAssumption
  <2>3. \A k \in own : s[k][i] = IF Inputs[k] \in bars[i] THEN None ELSE {<<"bar", i>>}
    <3>1. ASSUME NEW k \in own PROVE s[k] = field(k)
      <4> HIDE DEF s, field, aligned
      <4> QED
        BY <1>2, <1>3
    <3> HIDE DEF s, own
    <3> QED
      BY <1>1, <3>1
  <2>4. spec.external => s[1][i] = aligned[i] /\ 1 \in DOMAIN s
    BY <1>3, <1>7
  <2>5. i \in WholeBarsNow <=> bars[i] \cap Read = {} /\ (spec.external => aligned[i] # None)
    BY DEF WholeBarsNow, Whole
  <2>6. bars[i] \subseteq Fields
    BY <1>1
  <2>7. \A k \in DOMAIN s : k \in own \/ (spec.external /\ k = 1)
    BY <1>2
  <2>8. own \subseteq DOMAIN s
    BY <1>2
  <2> HIDE DEF s, own, aligned
  <2>9. bars[i] \cap Read = {} <=> \A k \in own : Inputs[k] \notin bars[i]
    BY <2>1, <2>6
  <2> QED
    BY <2>2, <2>3, <2>4, <2>5, <2>7, <2>8, <2>9
<1> HIDE DEF s, K, n, c, aligned, field
<1>10. /\ c \in OneInput => DOMAIN s = 1..1
       /\ c \in {"parabolic_sar", "smoothed_obv"} => DOMAIN s = 1..2
       /\ c = "mass_index" => 2 \in DOMAIN s
       /\ c = "klinger" => 3 \in DOMAIN s
  <2>1. /\ c \in OneInput => DOMAIN InputsOf(c) = 1..1
        /\ c \in {"parabolic_sar", "smoothed_obv"} => DOMAIN InputsOf(c) = 1..2
    BY <1>1, CatalogSeeds
  <2>2. /\ c \in TwoInputs => 2 \in DOMAIN InputsOf(c)
        /\ c \in FourInputs => DOMAIN InputsOf(c) = 1..4
    BY <1>1, CatalogFeeds
  <2>3. /\ c = "mass_index" => c \in TwoInputs
        /\ c = "klinger" => c \in FourInputs
    BY DEF TwoInputs, FourInputs
  <2>4. 3 \in 1..4
    OBVIOUS
  <2> QED
    BY <1>2, <2>1, <2>2, <2>3, <2>4
<1> QED
  BY <1>6, <1>7, <1>8, <1>9, <1>10 DEF FedSeeds, s, n, c

LEMMA SeedIsNat ==
    ASSUME NEW c, NEW p \in Nat \ {0}, SeedNeeded(c, p) # None
    PROVE  SeedNeeded(c, p) \in Nat \ {0}
BY DEF SeedNeeded, AtLeastTwo

\* In every history a seeded feature answers exactly at the whole bars after a
\* whole seed, and one that smooths a smoothed series nowhere, whatever the
\* lookback and lag.
THEOREM Seeding == Spec => []SeedDecides
<1>1. IInv => SeedDecides
  <2> DEFINE needed == SeedNeeded(spec.name, spec.lookback)
             at(i) == i - spec.lag
  <2> SUFFICES ASSUME IInv, Answered, NEW i \in DOMAIN values
               PROVE  /\ needed # None =>
                             (values[i] # None <=> /\ at(i) >= needed
                                                   /\ Whole(at(i))
                                                   /\ \A k \in 1..needed : Whole(k))
                      /\ spec.name \in Unseeded(spec.lookback) => values[i] = None
    BY DEF SeedDecides
  <2> DEFINE n == Len(bars)
             w == WholeBarsNow
             s == Series(bars, observed)
             calculated == CalculateFeature(spec.name, s, spec.lookback, spec.early)
  <2>1. Typed /\ spec \in Specs /\ bars \in Seq(SUBSET Fields) /\ observed \in SUBSET Observation
        /\ n \in Nat
    BY DEF IInv, Typed
  <2>2. spec.lag \in Nat /\ spec.lookback \in Nat \ {0} /\ spec.early \in BOOLEAN
    BY <2>1, FeaturesAssumption
  <2>3. values = FeatureValues(bars, observed) /\ values # Raises
    BY DEF IInv, Current, Answered
  <2>4. /\ calculated # Raises
        /\ values = [j \in 1..n |-> IF j > spec.lag THEN calculated[j - spec.lag] ELSE None]
    <3> HIDE DEF n
    <3> QED
      BY <2>1, <2>3, FeatureValuesAre DEF n
  <2>5. FedSeeds(w, n, spec.name, s)
    BY <2>1, SeriesFedSeeds
  <2> HIDE DEF n, s, calculated
  <2>6. i \in 1..n /\ values[i] = IF i > spec.lag THEN calculated[i - spec.lag] ELSE None
    BY <2>4
  <2>7. i > spec.lag => at(i) \in 1..n
    BY <2>1, <2>2, <2>6
  <2>8. ASSUME needed # None
        PROVE  values[i] # None <=> /\ at(i) >= needed
                                    /\ Whole(at(i))
                                    /\ \A k \in 1..needed : Whole(k)
    <3>1. needed \in Nat \ {0}
      BY <2>2, <2>8, SeedIsNat
    <3>2. Starts(w, n, calculated, needed)
      BY <2>1, <2>2, <2>4, <2>5, <2>8, SeedsOfFeatures DEF calculated
    <3> HIDE DEF needed
    <3>3. CASE i > spec.lag
      <4>1. at(i) >= needed => 1..needed \subseteq 1..n
        BY <2>1, <2>7, <3>1, <3>3
      <4>2. \A k \in 1..n : k \in w <=> Whole(k)
        BY DEF WholeBarsNow, n
      <4> HIDE DEF w
      <4>3. at(i) >= needed => (1..needed \subseteq w <=> \A k \in 1..needed : Whole(k))
        BY <4>1, <4>2
      <4>4. values[i] = calculated[at(i)] /\ at(i) \in 1..n
        BY <2>6, <2>7, <3>3
      <4>5. Whole(at(i)) <=> at(i) \in w
        BY <4>2, <4>4
      <4> HIDE DEF at
      <4> QED
        BY <3>2, <4>3, <4>4, <4>5 DEF Starts
    <3>4. CASE ~(i > spec.lag)
      <4>1. ~(at(i) >= needed)
        BY <2>1, <2>2, <2>6, <3>1, <3>4
      <4>2. values[i] = None
        BY <2>6, <3>4
      <4> QED
        BY <4>1, <4>2
    <3> QED
      BY <3>3, <3>4
  <2>9. ASSUME spec.name \in Unseeded(spec.lookback) PROVE values[i] = None
    <3>1. Empty(n, calculated)
      BY <2>1, <2>2, <2>4, <2>5, <2>9, UnseededFeatures DEF calculated
    <3> QED
      BY <2>6, <2>7, <3>1 DEF Empty
  <2> QED
    BY <2>8, <2>9
<1>2. Spec => []IInv
  BY Invariance
<1> QED
  BY <1>1, <1>2, PTL
=============================================================================

--------------------------- MODULE Backtest_proofs ---------------------------
(***************************************************************************)
(* Proofs about the back-test loops, for any symbols, prices, limits and   *)
(* data.  What a pending order means at each phase is the heart of them:   *)
(* an exit belongs to a position, an entry to a signal of the symbol's     *)
(* latest bar, and neither outlives the open it was made for.  The value   *)
(* of the positions is a fold; that a trade changes it by one summand is   *)
(* proved by induction over the sets that the fold walks through.          *)
(***************************************************************************)
EXTENDS BacktestLoops, FiniteSetTheorems, WellFoundedInduction, TLAPS

Orders ==
    /\ \A s \in Symbol : /\ pending[s] = "entry" => units[s] = 0 /\ s \in matched
                         /\ pending[s] = "exit" => units[s] > 0
    /\ \A s \in owed : pending[s] = "exit"
    /\ phase \in {"buy", "close"} => \A s \in present : pending[s] # "exit"
    /\ phase = "close" => \A s \in present : pending[s] = "none"
    /\ phase = "sell" => bought = {}
    /\ phase \in {"buy", "close"} => bought \subseteq matched

\* A limit that the day's lowest equity breached has been seen.
LosingDay ==
    /\ phase # "bar" => bars > 0
    /\ bars > 0 /\ DailyLossBreached(dayStart, dayLow) => blocked

IInv == TypeOK /\ Orders /\ ConcurrencyLimit /\ ExposureWithinLimit /\ LosingDay
-----------------------------------------------------------------------------
(* Totals: what a fold over the positions does when one of them changes. *)

\* Induction over the naturals, for a set instead of a predicate: a set with 0
\* and the successors of its members has all of them.
LEMMA SetInduction ==
    ASSUME NEW P, 0 \in P, \A n \in Nat : n \in P => n + 1 \in P
    PROVE  Nat \subseteq P
<1> SUFFICES ASSUME Nat \ P # {} PROVE FALSE
  OBVIOUS
<1>1. PICK n \in Nat \ P : \A m \in Nat \ P : ~(<<m, n>> \in OpToRel(<, Nat))
  BY NatLessThanWellFounded, WFMin
<1>2. \A m \in Nat \ P : ~(m < n)
  BY <1>1 DEF OpToRel
<1>3. n # 0 /\ n - 1 \in Nat /\ n - 1 < n
  OBVIOUS
<1>4. n - 1 \in P
  BY <1>2, <1>3
<1>5. (n - 1) + 1 \in P
  BY <1>3, <1>4
<1> QED
  BY <1>5

\* The element that a fold takes from a set makes it one smaller.
LEMMA Choice ==
    ASSUME NEW S, IsFiniteSet(S), NEW s \in SUBSET S, s # {}
    PROVE  LET x == CHOOSE x \in s : TRUE
           IN /\ x \in s /\ s \ {x} \in SUBSET S
              /\ Cardinality(s) \in Nat /\ Cardinality(s \ {x}) = Cardinality(s) - 1
<1>1. IsFiniteSet(s) /\ Cardinality(s) \in Nat
  BY FS_Subset, FS_CardinalityType
<1>2. (CHOOSE x \in s : TRUE) \in s
  OBVIOUS
<1> QED
  BY <1>1, <1>2, FS_RemoveElement

Total(f) == FoldFunction(+, 0, f)

\* The recursive function behind the fold: the totals of f over subsets of S.
Step(f, S, it) ==
    [s \in SUBSET S |-> IF s = {} THEN 0
                        ELSE LET x == CHOOSE x \in s : TRUE IN f[x] + it[s \ {x}]]

LEMMA FoldIsRecursive ==
    ASSUME NEW S, NEW f \in [S -> Nat]
    PROVE  Total(f) = (CHOOSE it : it = Step(f, S, it))[S]
  BY DEF Total, FoldFunction, FoldFunctionOnSet, MapThenFoldSet, Step

\* There is such a function: a step from one that is right for sets of n
\* elements is right for sets of n + 1.
LEMMA RecursionDefined ==
    ASSUME NEW S, IsFiniteSet(S), NEW f \in [S -> Nat]
    PROVE  \E it : it = Step(f, S, it)
<1> DEFINE Upto(n) == {s \in SUBSET S : Cardinality(s) <= n}
           Right(n) == \E g : \A s \in Upto(n) : g[s] = Step(f, S, g)[s]
           P == {n \in Nat : Right(n)}
<1>1. 0 \in P
  <2> DEFINE zero == [s \in SUBSET S |-> 0]
  <2>1. \A s \in Upto(0) : s = {}
    BY FS_Subset, FS_EmptySet, FS_CardinalityType
  <2>2. \A s \in Upto(0) : zero[s] = Step(f, S, zero)[s]
    BY <2>1 DEF Step
  <2> QED
    BY <2>2
<1>2. ASSUME NEW n \in Nat, n \in P PROVE n + 1 \in P
  <2>1. PICK g : \A s \in Upto(n) : g[s] = Step(f, S, g)[s]
    BY <1>2
  <2> DEFINE h == Step(f, S, g)
  <2>2. ASSUME NEW s \in Upto(n + 1) PROVE h[s] = Step(f, S, h)[s]
    <3>1. CASE s = {}
      BY <3>1 DEF Step
    <3>2. CASE s # {}
      <4> DEFINE x == CHOOSE x \in s : TRUE
      <4>1. s \ {x} \in Upto(n)
        BY Choice, <3>2
      <4>2. g[s \ {x}] = h[s \ {x}]
        BY <2>1, <4>1
      <4> QED
        BY <3>2, <4>2 DEF Step
    <3> QED
      BY <3>1, <3>2
  <2>3. Right(n + 1)
    BY <2>2
  <2> HIDE DEF Right
  <2> QED
    BY <2>3
<1>3. Cardinality(S) \in P
  BY <1>1, <1>2, SetInduction, FS_CardinalityType
<1>4. PICK g : \A s \in Upto(Cardinality(S)) : g[s] = Step(f, S, g)[s]
  BY <1>3
<1> DEFINE h == Step(f, S, g)
<1>5. ASSUME NEW s \in SUBSET S PROVE h[s] = Step(f, S, h)[s]
  <2>1. \A t \in SUBSET S : g[t] = h[t]
    BY <1>4, FS_Subset
  <2> QED
    BY <2>1 DEF Step
<1>6. h = Step(f, S, h)
  BY <1>5 DEF Step
<1> QED
  BY <1>6

\* The totals of f over the subsets of S, one element at a time.
PartialTotals(f, S, it) ==
    /\ it[S] = Total(f) /\ it[{}] = 0
    /\ \A s \in SUBSET S : s # {} => LET x == CHOOSE x \in s : TRUE
                                     IN it[s] = f[x] + it[s \ {x}]

LEMMA TotalUnfolds ==
    ASSUME NEW S, IsFiniteSet(S), NEW f \in [S -> Nat]
    PROVE  \E it : PartialTotals(f, S, it)
<1> DEFINE it == CHOOSE it : it = Step(f, S, it)
<1>1. it = Step(f, S, it)
  BY RecursionDefined
<1>2. it[S] = Total(f)
  BY FoldIsRecursive
<1> HIDE DEF it
<1>3. PartialTotals(f, S, it)
  BY <1>1, <1>2 DEF Step, PartialTotals
<1> QED
  BY <1>3

\* Totals of naturals are naturals.
LEMMA TotalNatural ==
    ASSUME NEW S, IsFiniteSet(S), NEW f \in [S -> Nat]
    PROVE  Total(f) \in Nat
<1>1. PICK it : PartialTotals(f, S, it)
  BY TotalUnfolds
<1>0. it[{}] = 0 /\ it[S] = Total(f)
  BY <1>1 DEF PartialTotals
<1> DEFINE P == {n \in Nat : \A s \in SUBSET S : Cardinality(s) = n => it[s] \in Nat}
<1>2. 0 \in P
  <2>1. \A s \in SUBSET S : Cardinality(s) = 0 => s = {}
    BY FS_Subset, FS_EmptySet
  <2> QED
    BY <1>0, <2>1
<1>3. ASSUME NEW n \in Nat, n \in P PROVE n + 1 \in P
  <2> SUFFICES ASSUME NEW s \in SUBSET S, Cardinality(s) = n + 1 PROVE it[s] \in Nat
    OBVIOUS
  <2>1. s # {}
    BY FS_EmptySet
  <2> DEFINE x == CHOOSE x \in s : TRUE
  <2>2. x \in s /\ s \ {x} \in SUBSET S /\ Cardinality(s \ {x}) = n
    BY <2>1, Choice
  <2>3. it[s] = f[x] + it[s \ {x}]
    BY <1>1, <2>1 DEF PartialTotals
  <2> QED
    BY <1>3, <2>2, <2>3
<1>4. Nat \subseteq P
  BY <1>2, <1>3, SetInduction
<1>5. Cardinality(S) \in Nat
  BY FS_CardinalityType
<1> QED
  BY <1>0, <1>4, <1>5

\* Changing one summand changes the total by the difference.
LEMMA TotalChanges ==
    ASSUME NEW S, IsFiniteSet(S), NEW f \in [S -> Nat], NEW g \in [S -> Nat], NEW r \in S,
           \A x \in S \ {r} : g[x] = f[x]
    PROVE  Total(g) = Total(f) - f[r] + g[r]
<1>1. PICK it : PartialTotals(f, S, it)
  BY TotalUnfolds
<1>2. PICK jt : PartialTotals(g, S, jt)
  BY TotalUnfolds
<1>0. it[{}] = 0 /\ it[S] = Total(f) /\ jt[{}] = 0 /\ jt[S] = Total(g)
  BY <1>1, <1>2 DEF PartialTotals
<1> DEFINE Shifted(s) == /\ it[s] \in Int /\ jt[s] \in Int
                         /\ jt[s] - it[s] = IF r \in s THEN g[r] - f[r] ELSE 0
           P == {n \in Nat : \A s \in SUBSET S : Cardinality(s) = n => Shifted(s)}
<1>3. 0 \in P
  <2>1. \A s \in SUBSET S : Cardinality(s) = 0 => s = {}
    BY FS_Subset, FS_EmptySet
  <2>2. Shifted({})
    BY <1>0
  <2> HIDE DEF Shifted
  <2> QED
    BY <2>1, <2>2
<1>4. ASSUME NEW n \in Nat, n \in P PROVE n + 1 \in P
  <2> SUFFICES ASSUME NEW s \in SUBSET S, Cardinality(s) = n + 1 PROVE Shifted(s)
    OBVIOUS
  <2>1. s # {}
    BY FS_EmptySet
  <2> DEFINE x == CHOOSE x \in s : TRUE
  <2>2. x \in s /\ s \ {x} \in SUBSET S /\ Cardinality(s \ {x}) = n
    BY <2>1, Choice
  <2>3. it[s] = f[x] + it[s \ {x}] /\ jt[s] = g[x] + jt[s \ {x}]
    BY <1>1, <1>2, <2>1 DEF PartialTotals
  <2>4. Shifted(s \ {x})
    BY <1>4, <2>2
  <2> HIDE DEF x
  <2>5. CASE x = r
    BY <2>2, <2>3, <2>4, <2>5
  <2>6. CASE x # r
    BY <2>2, <2>3, <2>4, <2>6
  <2> QED
    BY <2>5, <2>6
<1>5. Nat \subseteq P
  BY <1>3, <1>4, SetInduction
<1>6. Cardinality(S) \in Nat
  BY FS_CardinalityType
<1>7. Shifted(S)
  BY <1>5, <1>6
<1> QED
  BY <1>0, <1>7

-----------------------------------------------------------------------------
(* The value of the positions. *)

Value(u, p) == Total([s \in Symbol |-> u[s] * p[s]])

LEMMA ProductNatural == \A a, b \in Nat : a * b \in Nat
  OBVIOUS

LEMMA ExposureIsValue == \A p : Exposure(p) = Value(units, p)
  BY DEF Exposure, Value, Total

LEMMA NewExposureIsValue == Exposure(AtOpen)' = Value(units', AtOpen')
<1>1. Exposure(AtOpen) = Value(units, AtOpen)
  BY ExposureIsValue
<1>2. (Exposure(AtOpen) = Value(units, AtOpen))'
  BY <1>1, PTL
<1> QED
  BY <1>2

LEMMA ExposureUnchanged ==
    ASSUME UNCHANGED <<units, present, open, lastClose>>
    PROVE  Exposure(AtOpen)' = Exposure(AtOpen)
<1>1. AtOpen' = AtOpen /\ units' = units
  BY DEF AtOpen
<1> QED
  BY <1>1, ExposureIsValue, NewExposureIsValue

LEMMA ValueNatural ==
    ASSUME NEW u \in [Symbol -> Nat], NEW p \in [Symbol -> Price]
    PROVE  Value(u, p) \in Nat
<1>1. \A s \in Symbol : u[s] \in Nat /\ p[s] \in Nat
  BY BacktestAssumption
<1>2. [s \in Symbol |-> u[s] * p[s]] \in [Symbol -> Nat]
  BY <1>1, ProductNatural
<1> QED
  BY <1>2, BacktestAssumption, TotalNatural DEF Value

\* A trade in one symbol changes the value by what that symbol is worth.
LEMMA ValueChanges ==
    ASSUME NEW u \in [Symbol -> Nat], NEW v \in [Symbol -> Nat],
           NEW p \in [Symbol -> Price], NEW r \in Symbol,
           \A s \in Symbol \ {r} : v[s] = u[s]
    PROVE  Value(v, p) = Value(u, p) - u[r] * p[r] + v[r] * p[r]
<1> DEFINE f == [s \in Symbol |-> u[s] * p[s]]
           g == [s \in Symbol |-> v[s] * p[s]]
<1>1. \A s \in Symbol : u[s] \in Nat /\ v[s] \in Nat /\ p[s] \in Nat
  BY BacktestAssumption
<1>2. f \in [Symbol -> Nat] /\ g \in [Symbol -> Nat]
  BY <1>1, ProductNatural
<1>3. \A s \in Symbol \ {r} : g[s] = f[s]
  OBVIOUS
<1>4. f[r] = u[r] * p[r] /\ g[r] = v[r] * p[r]
  OBVIOUS
<1>5. Total(g) = Total(f) - f[r] + g[r]
  <2>1. IsFiniteSet(Symbol)
    BY BacktestAssumption
  <2>2. \A a, b \in [Symbol -> Nat] :
            (\A s \in Symbol \ {r} : b[s] = a[s]) => Total(b) = Total(a) - a[r] + b[r]
    BY <2>1, TotalChanges
  <2> HIDE DEF f, g
  <2> QED
    BY <1>2, <1>3, <2>2
<1> QED
  BY <1>4, <1>5 DEF Value
-----------------------------------------------------------------------------
\* A trade never costs more than it moves.
LEMMA CostBounded == \A n \in Nat : Cost(n) \in 0..n
<1> SUFFICES ASSUME NEW n \in Nat PROVE Cost(n) \in 0..n
  OBVIOUS
<1>1. CostBps \in 0..10000
  BY RulesAssumption
<1>2. n * CostBps \in Nat /\ n * CostBps <= n * 10000
  BY <1>1
<1>3. \A m \in Nat : m <= n * 10000 => (m \div 10000) \in 0..n
  OBVIOUS
<1> QED
  BY <1>2, <1>3 DEF Cost

LEMMA UnitsNatural == \A n \in Nat, p \in Price : UnitsFor(n, p) \in Nat
<1> SUFFICES ASSUME NEW n \in Nat, NEW p \in Price PROVE UnitsFor(n, p) \in Nat
  OBVIOUS
<1>1. n - Cost(n) \in Nat
  BY CostBounded
<1>2. p \in Nat \ {0}
  BY BacktestAssumption
<1>3. \A m \in Nat, q \in Nat \ {0} : m \div q \in Nat
  OBVIOUS
<1> QED
  BY <1>1, <1>2, <1>3 DEF UnitsFor

LEMMA SizeNatural == PositionSize \in Nat
<1>1. Cardinality(Symbol) \in Nat \ {0}
  BY BacktestAssumption, FS_CardinalityType, FS_EmptySet
<1>2. \A m \in Nat, q \in Nat \ {0} : m \div q \in Nat
  OBVIOUS
<1>3. Allocation \in Nat
  BY <1>1, <1>2, BacktestAssumption DEF Allocation
<1>4. Allocation * PositionSizePct \in Nat
  BY <1>3, RulesAssumption
<1> QED
  BY <1>4, <1>2 DEF PositionSize

LEMMA HeldFinite == IsFiniteSet(Held) /\ Cardinality(Held) \in Nat
<1>1. Held \subseteq Symbol
  BY DEF Held
<1> QED
  BY <1>1, BacktestAssumption, FS_Subset, FS_CardinalityType
-----------------------------------------------------------------------------
LEMMA InitInv == Init => IInv
<1> SUFFICES ASSUME Init PROVE IInv
  OBVIOUS
<1>1. (CHOOSE p \in Price : TRUE) \in Price
  BY BacktestAssumption
<1>2. TypeOK
  <2>1. /\ open \in [Symbol -> Price] /\ lastClose \in [Symbol -> Price]
        /\ units \in [Symbol -> Nat] /\ entryPrice \in [Symbol -> Price \cup {0}]
    BY <1>1 DEF Init
  <2>2. bars \in 0..MaxBars /\ dayStart \in Nat /\ dayLow \in Nat /\ cash \in Nat
    BY BacktestAssumption DEF Init
  <2>3. pending \in [Symbol -> {"none", "entry", "exit"}]
    BY DEF Init
  <2> QED
    BY <2>1, <2>2, <2>3 DEF Init, TypeOK
<1>3. Orders /\ ExposureWithinLimit /\ LosingDay
  BY BacktestAssumption DEF Init, Orders, ExposureWithinLimit, LosingDay
<1>4. Held = {}
  BY DEF Init, Held
<1>5. ConcurrencyLimit
  BY <1>4, FS_EmptySet, BacktestAssumption DEF ConcurrencyLimit
<1> QED
  BY <1>2, <1>3, <1>5 DEF IInv

LEMMA NextType == ASSUME IInv, [Next]_vars PROVE TypeOK'
<1> USE DEF IInv, TypeOK
<1>1. CASE NextBar
  <2>1. /\ units' \in [Symbol -> Nat] /\ cash' \in Nat
        /\ open' \in [Symbol -> Price] /\ lastClose' \in [Symbol -> Price]
    BY <1>1 DEF NextBar, book
  <2>2. EquityAtOpen' \in Nat
    <3>1. AtOpen' \in [Symbol -> Price]
      BY <2>1 DEF AtOpen
    <3>2. Value(units', AtOpen') \in Nat
      BY <2>1, <3>1, ValueNatural
    <3> QED
      BY <2>1, <3>2, NewExposureIsValue DEF EquityAtOpen
  <2>3. dayStart' \in Nat /\ dayLow' \in Nat /\ blocked' \in BOOLEAN
    BY <1>1, <2>2 DEF NextBar
  <2> QED
    BY <1>1, <2>1, <2>3, BacktestAssumption DEF NextBar, book
<1>2. ASSUME NEW s \in Symbol, Sell(s) PROVE TypeOK'
  <2>0. units[s] \in Nat /\ open[s] \in Nat
    BY BacktestAssumption
  <2>1. units[s] * open[s] \in Nat
    BY <2>0, ProductNatural
  <2>2. Cost(units[s] * open[s]) \in 0..(units[s] * open[s])
    BY <2>1, CostBounded
  <2>3. cash' \in Nat
    BY <1>2, <2>1, <2>2 DEF Sell
  <2> QED
    BY <1>2, <2>3 DEF Sell, data, risk
<1>3. CASE SalesDone \/ BuysDone
  BY <1>3 DEF SalesDone, BuysDone, data, book, risk, history
<1>4. ASSUME NEW s \in Symbol, Buy(s) PROVE TypeOK'
  <2>1. CASE MayBuy
    <3>1. cash' \in Nat
      BY <1>4, <2>1, SizeNatural DEF Buy, MayBuy
    <3>2. units' \in [Symbol -> Nat]
      <4>1. UnitsFor(PositionSize, open[s]) \in Nat
        BY SizeNatural, UnitsNatural
      <4> QED
        BY <1>4, <2>1, <4>1 DEF Buy
    <3>3. entryPrice' \in [Symbol -> Price \cup {0}]
      BY <1>4, <2>1 DEF Buy
    <3> QED
      BY <1>4, <2>1, <3>1, <3>2, <3>3 DEF Buy, data, risk
  <2>2. CASE ~MayBuy
    BY <1>4, <2>2 DEF Buy, data, risk, book
  <2> QED
    BY <2>1, <2>2
<1>5. CASE Close
  <2>1. PICK match \in SUBSET present, close \in [Symbol -> Price] :
            /\ lastClose' = close
            /\ matched' = (matched \ present) \cup match
            /\ blocked' \in BOOLEAN /\ stopped' \in BOOLEAN
            /\ owed' \in {owed, owed \cup Held}
            /\ \A s \in Symbol : pending'[s] \in {"exit", pending[s], Decision(s, close[s], s \in match)}
            /\ pending' = [s \in Symbol |-> pending'[s]]
            /\ dayLow' \in {dayLow, cash + Exposure(close)}
    BY <1>5 DEF Close
  <2>2. \A s \in Symbol : pending'[s] \in {"none", "entry", "exit"}
    BY <2>1 DEF Decision
  <2>3. phase' = "bar" /\ UNCHANGED <<bars, data, book, dayStart, bought>>
    BY <1>5 DEF Close
  <2>4. dayLow' \in Nat
    <3>1. Exposure(close) \in Nat
      BY ExposureIsValue, ValueNatural
    <3> QED
      BY <2>1, <3>1
  <2> QED
    BY <2>1, <2>2, <2>3, <2>4 DEF data, book, Held
<1>6. CASE UNCHANGED vars
  BY <1>6 DEF vars, data, book, risk, history
<1> QED
  BY <1>1, <1>2, <1>3, <1>4, <1>5, <1>6 DEF Next

LEMMA NextOrders == ASSUME IInv, [Next]_vars PROVE Orders'
<1> USE DEF IInv, TypeOK, Orders
<1>1. CASE NextBar
  BY <1>1 DEF NextBar, book
<1>2. ASSUME NEW s \in Symbol, Sell(s) PROVE Orders'
  BY <1>2 DEF Sell, data, risk
<1>3. CASE SalesDone
  BY <1>3 DEF SalesDone, data, book, history
<1>4. CASE BuysDone
  BY <1>4 DEF BuysDone, WantsToBuy, data, book, history
<1>5. ASSUME NEW s \in Symbol, Buy(s) PROVE Orders'
  <2>1. s \in present /\ pending[s] = "entry" /\ s \in matched
    BY <1>5 DEF Buy, WantsToBuy
  <2>2. /\ pending' = [pending EXCEPT ![s] = "none"]
        /\ \A r \in Symbol \ {s} : units'[r] = units[r]
        /\ bought' \in {bought, bought \cup {s}}
        /\ phase = "buy" /\ UNCHANGED <<phase, present, matched, owed>>
    BY <1>5 DEF Buy, book, data
  <2> QED
    BY <2>1, <2>2
<1>6. CASE Close
  <2> DEFINE reduce(close) == /\ DailyLossBreached(dayStart, cash + Exposure(close))
                             /\ DailyLossAction \in {"reduce", "stop"}
  <2>1. PICK match \in SUBSET present, close \in [Symbol -> Price] :
            /\ matched' = (matched \ present) \cup match
            /\ owed' = IF reduce(close) THEN owed \cup Held ELSE owed
            /\ pending' = [s \in Symbol |->
                             IF reduce(close) /\ units[s] > 0 THEN "exit"
                             ELSE IF s \in present
                                  THEN Decision(s, close[s], s \in match)
                                  ELSE pending[s]]
    BY <1>6 DEF Close
  <2>2. phase = "close" /\ phase' = "bar" /\ UNCHANGED units
    BY <1>6 DEF Close, book
  <2> HIDE DEF reduce
  <2>3. ASSUME NEW s \in Symbol
        PROVE  /\ pending'[s] = "entry" => units[s] = 0 /\ s \in matched'
               /\ pending'[s] = "exit" => units[s] > 0
    BY <2>1, <2>2 DEF Decision
  <2>4. ASSUME NEW s \in owed' PROVE pending'[s] = "exit"
    BY <2>1, <2>2 DEF Held
  <2> QED
    BY <2>2, <2>3, <2>4
<1>7. CASE UNCHANGED vars
  BY <1>7 DEF vars, data, book, risk, history
<1> QED
  BY <1>1, <1>2, <1>3, <1>4, <1>5, <1>6, <1>7 DEF Next

LEMMA NextConcurrency == ASSUME IInv, [Next]_vars PROVE ConcurrencyLimit'
<1> SUFFICES ASSUME MaxConcurrent # NoLimit PROVE Cardinality(Held') <= MaxConcurrent
  BY DEF ConcurrencyLimit
<1> USE DEF IInv, TypeOK
<1>0. MaxConcurrent \in Nat /\ Cardinality(Held) <= MaxConcurrent
  BY BacktestAssumption DEF ConcurrencyLimit
<1>1. ASSUME NEW s \in Symbol, Buy(s), MayBuy PROVE Cardinality(Held') <= MaxConcurrent
  <2>1. Cardinality(Held) < MaxConcurrent
    BY <1>1 DEF MayBuy
  <2>2. Held' \subseteq Held \cup {s}
    BY <1>1 DEF Buy, Held
  <2>3. IsFiniteSet(Held \cup {s}) /\ Cardinality(Held \cup {s}) <= Cardinality(Held) + 1
    <3>1. Cardinality(Held \cup {s}) \in {Cardinality(Held), Cardinality(Held) + 1}
      BY HeldFinite, FS_AddElement, Zenon
    <3>2. IsFiniteSet(Held \cup {s})
      BY HeldFinite, FS_AddElement, Zenon
    <3> QED
      BY <3>1, <3>2, HeldFinite
  <2>4. IsFiniteSet(Held') /\ Cardinality(Held') <= Cardinality(Held \cup {s})
    BY <2>2, <2>3, FS_Subset
  <2>5. Cardinality(Held') \in Nat /\ Cardinality(Held \cup {s}) \in Nat
    BY <2>3, <2>4, FS_CardinalityType
  <2> QED
    BY <1>0, <2>1, <2>3, <2>4, <2>5, HeldFinite
<1>2. ASSUME Held' \subseteq Held PROVE Cardinality(Held') <= MaxConcurrent
  <2>1. IsFiniteSet(Held') /\ Cardinality(Held') <= Cardinality(Held)
    BY <1>2, HeldFinite, FS_Subset
  <2>2. Cardinality(Held') \in Nat
    BY <2>1, FS_CardinalityType
  <2> QED
    BY <1>0, <2>1, <2>2, HeldFinite
<1>3. ASSUME NEW s \in Symbol, Sell(s) PROVE Held' \subseteq Held
  BY <1>3 DEF Sell, Held
<1>4. ASSUME NEW s \in Symbol, Buy(s), ~MayBuy PROVE Held' \subseteq Held
  BY <1>4 DEF Buy, Held, book
<1>5. CASE UNCHANGED units
  BY <1>2, <1>5 DEF Held
<1>6. NextBar \/ SalesDone \/ BuysDone \/ Close \/ UNCHANGED vars => UNCHANGED units
  BY DEF NextBar, SalesDone, BuysDone, Close, vars, book
<1> QED
  BY <1>1, <1>2, <1>3, <1>4, <1>5, <1>6 DEF Next

\* A price of the open, and what it buys.
LEMMA Bought ==
    ASSUME TypeOK, NEW s \in Symbol, Buy(s), MayBuy
    PROVE  /\ units[s] = 0 /\ units'[s] \in Nat /\ AtOpen[s] \in Nat
           /\ AtOpen' = AtOpen
           /\ units'[s] * AtOpen[s] \in 0..PositionSize - Cost(PositionSize)
           /\ cash' = cash - PositionSize
           /\ Exposure(AtOpen)' = Exposure(AtOpen) + units'[s] * AtOpen[s]
<1> USE DEF TypeOK
<1>1. AtOpen \in [Symbol -> Price] /\ AtOpen' = AtOpen /\ AtOpen[s] = open[s]
  BY DEF Buy, WantsToBuy, AtOpen, data
<1>2. units[s] = 0 /\ units' = [units EXCEPT ![s] = UnitsFor(PositionSize, open[s])]
  BY DEF Buy, WantsToBuy
<1>3. PositionSize \in Nat /\ Cost(PositionSize) \in 0..PositionSize /\ open[s] \in Nat \ {0}
  BY SizeNatural, CostBounded, BacktestAssumption
<1>4. units' \in [Symbol -> Nat]
  BY <1>2, <1>3, UnitsNatural
<1>5. units'[s] = (PositionSize - Cost(PositionSize)) \div open[s]
  BY <1>2 DEF UnitsFor
<1>6. \A m \in Nat, q \in Nat \ {0} : (m \div q) * q \in 0..m
  OBVIOUS
<1>7. units'[s] * AtOpen[s] \in 0..PositionSize - Cost(PositionSize)
  <2>1. PositionSize - Cost(PositionSize) \in Nat
    BY <1>3
  <2> QED
    BY <1>1, <1>3, <1>5, <1>6, <2>1
<1>8. Value(units', AtOpen) = Value(units, AtOpen) - units[s] * AtOpen[s] + units'[s] * AtOpen[s]
  <2>1. \A x \in Symbol \ {s} : units'[x] = units[x]
    BY <1>2
  <2> QED
    BY <1>1, <1>4, <2>1, ValueChanges
<1>9. Value(units, AtOpen) \in Nat
  BY <1>1, ValueNatural
<1>10. Exposure(AtOpen)' = Exposure(AtOpen) + units'[s] * AtOpen[s]
  BY <1>1, <1>2, <1>3, <1>7, <1>8, <1>9, ExposureIsValue, NewExposureIsValue
<1> QED
  BY <1>1, <1>2, <1>3, <1>4, <1>7, <1>10 DEF Buy

\* The limit that allowed the notional still holds when its costs are gone.
LEMMA CostsLeaveRoom ==
    ASSUME NEW e \in Nat, NEW c \in Nat, NEW n \in Nat, NEW w \in 0..n, NEW m \in 0..100,
           (e + n) * 100 <= (c + e) * m
    PROVE  (e + w) * 100 <= (c - n + (e + w)) * m
<1>1. (n - w) * m <= (n - w) * 100
  OBVIOUS
<1>2. (c - n + (e + w)) * m = (c + e) * m - (n - w) * m
  OBVIOUS
<1>3. (e + w) * 100 = (e + n) * 100 - (n - w) * 100
  OBVIOUS
<1>4. (c + e) * m \in Int /\ (n - w) * m \in Int
  OBVIOUS
<1> QED
  BY <1>1, <1>2, <1>3, <1>4

LEMMA NextExposure == ASSUME IInv, [Next]_vars PROVE ExposureWithinLimit'
<1> USE DEF IInv, TypeOK, ExposureWithinLimit
<1>1. ASSUME NEW s \in Symbol, Buy(s), MayBuy, MaxExposurePct # NoLimit
      PROVE  (Exposure(AtOpen) * 100)' <= (EquityAtOpen * MaxExposurePct)'
  <2> DEFINE w == units'[s] * AtOpen[s]
             n == PositionSize
  <2>1. Exposure(AtOpen) \in Nat
    <3>1. AtOpen \in [Symbol -> Price]
      BY DEF AtOpen
    <3> QED
      BY <3>1, ExposureIsValue, ValueNatural
  <2>2. n \in Nat /\ Cost(n) \in 0..n
    BY SizeNatural, CostBounded
  <2>3. w \in 0..n
    BY <1>1, <2>2, Bought
  <2>4. MaxExposurePct \in 0..100
    BY <1>1, RulesAssumption
  <2>5. (Exposure(AtOpen) + n) * 100 <= (cash + Exposure(AtOpen)) * MaxExposurePct
    BY <1>1 DEF MayBuy, ExposureAllows, EquityAtOpen
  <2>6. (Exposure(AtOpen) + w) * 100 <= (cash - n + (Exposure(AtOpen) + w)) * MaxExposurePct
    <3> HIDE DEF w, n
    <3> QED
      BY <2>1, <2>2, <2>3, <2>4, <2>5, CostsLeaveRoom
  <2>7. Exposure(AtOpen)' = Exposure(AtOpen) + w /\ cash' = cash - n
    BY <1>1, Bought
  <2> QED
    BY <2>6, <2>7 DEF EquityAtOpen
<1>2. ASSUME NEW s \in Symbol, Buy(s), ~MayBuy PROVE ExposureWithinLimit'
  <2>1. UNCHANGED <<phase, bought, cash, units, present, open, lastClose>>
    BY <1>2 DEF Buy, book, data
  <2> QED
    BY <2>1, ExposureUnchanged DEF EquityAtOpen
<1>3. CASE BuysDone \/ UNCHANGED vars
  <2>1. UNCHANGED <<bought, cash, units, present, open, lastClose>> /\ phase' \in {"close", phase}
    BY <1>3 DEF BuysDone, vars, book, data, history
  <2>2. phase' \in {"buy", "close"} => phase \in {"buy", "close"}
    BY <1>3 DEF BuysDone, vars
  <2> QED
    BY <2>1, <2>2, ExposureUnchanged DEF EquityAtOpen
<1>4. CASE SalesDone
  <2>1. bought' = {}
    BY <1>4 DEF SalesDone, history, Orders
  <2> QED
    BY <2>1
<1>5. NextBar \/ Close \/ (\E s \in Symbol : Sell(s)) => phase' \notin {"buy", "close"}
  BY DEF NextBar, Close, Sell
<1> QED
  BY <1>1, <1>2, <1>3, <1>4, <1>5 DEF Next

LEMMA NextLosingDay == ASSUME IInv, [Next]_vars PROVE LosingDay'
<1> USE DEF IInv, LosingDay
<1>1. CASE NextBar
  <2>1. phase' = "sell" /\ bars' = bars + 1 /\ bars \in Nat
    BY <1>1 DEF NextBar, TypeOK
  <2>2. PICK newDay \in BOOLEAN :
            /\ bars = 0 => newDay
            /\ dayStart' = IF newDay THEN EquityAtOpen' ELSE dayStart
            /\ blocked' = ((blocked /\ ~newDay) \/ DailyLossBreached(dayStart', EquityAtOpen'))
            /\ dayLow' \in {EquityAtOpen', dayLow} /\ (newDay => dayLow' = EquityAtOpen')
    BY <1>1 DEF NextBar
  <2>3. DailyLossBreached(dayStart, dayLow)' => blocked'
    <3>1. CASE dayLow' = EquityAtOpen'
      BY <2>2, <3>1 DEF DailyLossBreached
    <3>2. CASE ~newDay /\ dayLow' = dayLow
      <4>1. DailyLossBreached(dayStart, dayLow)' => DailyLossBreached(dayStart, dayLow)
        BY <2>2, <3>2 DEF DailyLossBreached
      <4>2. bars > 0
        BY <2>1, <2>2, <3>2
      <4>3. blocked => blocked'
        BY <2>2, <3>2
      <4> QED
        BY <4>1, <4>2, <4>3
    <3> QED
      BY <2>2, <3>1, <3>2
  <2> QED
    BY <2>1, <2>3
<1>2. CASE Close
  <2>1. PICK close \in [Symbol -> Price] :
            /\ blocked' = (blocked \/ DailyLossBreached(dayStart, cash + Exposure(close)))
            /\ dayLow' \in {cash + Exposure(close), dayLow}
    BY <1>2 DEF Close
  <2>2. phase = "close" /\ UNCHANGED <<bars, dayStart>>
    BY <1>2 DEF Close
  <2> QED
    BY <2>1, <2>2
<1>3. CASE SalesDone \/ BuysDone \/ UNCHANGED vars
  BY <1>3 DEF SalesDone, BuysDone, vars, risk, history
<1>4. ASSUME NEW s \in Symbol, Sell(s) \/ Buy(s) PROVE LosingDay'
  BY <1>4 DEF Sell, Buy, risk
<1> QED
  BY <1>1, <1>2, <1>3, <1>4 DEF Next

\* The invariant holds in every reachable state.
THEOREM Invariance == Spec => []IInv
<1>1. IInv /\ [Next]_vars => IInv'
  BY NextType, NextOrders, NextConcurrency, NextExposure, NextLosingDay DEF IInv
<1> QED
  BY InitInv, <1>1, PTL DEF Spec

\* No sequence of trades overdraws the cash or sells what is not held, and the
\* marked equity stays positive or zero, whatever the prices and the costs up to
\* the whole notional (engine.py:192-248, 271-276).
THEOREM NoOverdraft == Spec => []TypeOK
<1>1. IInv => TypeOK
  BY DEF IInv
<1> QED
  BY Invariance, <1>1, PTL

\* Never more positions than max_concurrent_positions (engine.py:224-228).
THEOREM Concurrency == Spec => []ConcurrencyLimit
<1>1. IInv => ConcurrencyLimit
  BY DEF IInv
<1> QED
  BY Invariance, <1>1, PTL

\* A position held when the daily limit was breached is sold at the open of its
\* next bar, however many timestamps it misses (engine.py:192-208, 279-282).
THEOREM Reduction == Spec => []ReducedAtNextOpen
<1>1. IInv => ReducedAtNextOpen
  BY DEF IInv, Orders, ReducedAtNextOpen
<1> QED
  BY Invariance, <1>1, PTL

\* Every entry answers a signal of the symbol's previous bar: no refused or late
\* order is filled (engine.py:210-269).
THEOREM Signals == Spec => []EntriesFollowSignals
<1>1. IInv => EntriesFollowSignals
  BY DEF IInv, Orders, EntriesFollowSignals
<1> QED
  BY Invariance, <1>1, PTL

\* Every buy leaves the exposure within its limit, whatever was bought at the
\* same open before it, for any prices, costs and sizes (engine.py:210-248).
THEOREM Exposures == Spec => []ExposureWithinLimit
<1>1. IInv => ExposureWithinLimit
  BY DEF IInv
<1> QED
  BY Invariance, <1>1, PTL

\* A day whose equity touched the loss limit sees no further entry, for any
\* sequence of days and prices (engine.py:185-190, 229-231, 277-278).
THEOREM LosingDays == Spec => NoBuyOnALosingDay
<1>1. ASSUME IInv, [Next]_vars, DailyLossBreached(dayStart, dayLow), bars' = bars
      PROVE  bought' \subseteq bought
  <2>1. ASSUME NEW s \in Symbol, Buy(s) PROVE bought' \subseteq bought
    <3>1. phase = "buy" /\ bars \in Nat
      BY <1>1, <2>1 DEF Buy, IInv, TypeOK
    <3>2. blocked
      BY <1>1, <3>1 DEF IInv, LosingDay
    <3> QED
      BY <2>1, <3>2 DEF Buy, MayBuy
  <2>2. NextBar \/ SalesDone \/ BuysDone \/ Close \/ UNCHANGED vars => bought' \subseteq bought
    BY DEF NextBar, SalesDone, BuysDone, Close, vars, history
  <2>3. ASSUME NEW s \in Symbol, Sell(s) PROVE bought' \subseteq bought
    BY <2>3 DEF Sell
  <2> QED
    BY <1>1, <2>1, <2>2, <2>3 DEF Next
<1> QED
  BY <1>1, Invariance, PTL DEF Spec, NoBuyOnALosingDay

\* Units are fractions in the code, whole numbers here: what is invested buys
\* whole units at every price.
WholeUnits == \A p \in Price : (PositionSize - Cost(PositionSize)) % p = 0

\* Where units divide, a trade changes the equity at its prices by its cost and
\* nothing else, for any portfolio beside it (engine.py:197-207, 238-247).
THEOREM Conservation == WholeUnits => (Spec => TradesConserveEquity)
<1> SUFFICES ASSUME WholeUnits PROVE Spec => TradesConserveEquity
  OBVIOUS
<1>1. ASSUME IInv, NEW s \in Symbol, Buy(s), MayBuy
      PROVE  EquityAtOpen' = EquityAtOpen - Cost(PositionSize)
  <2> USE <1>1 DEF IInv, TypeOK
  <2>1. PositionSize \in Nat /\ Cost(PositionSize) \in 0..PositionSize
    BY SizeNatural, CostBounded
  <2>2. open[s] \in Nat \ {0} /\ AtOpen[s] = open[s]
    BY BacktestAssumption DEF Buy, WantsToBuy, AtOpen
  <2>3. units'[s] = (PositionSize - Cost(PositionSize)) \div open[s]
    BY DEF Buy, UnitsFor
  <2>4. \A m \in Nat, q \in Nat \ {0} : m % q = 0 => (m \div q) * q = m
    OBVIOUS
  <2>5. units'[s] * AtOpen[s] = PositionSize - Cost(PositionSize)
    <3>1. PositionSize - Cost(PositionSize) \in Nat
      BY <2>1
    <3>2. (PositionSize - Cost(PositionSize)) % open[s] = 0
      BY DEF WholeUnits
    <3> QED
      BY <2>2, <2>3, <2>4, <3>1, <3>2
  <2>6. Exposure(AtOpen) \in Nat
    <3>1. AtOpen \in [Symbol -> Price]
      BY DEF AtOpen
    <3> QED
      BY <3>1, ExposureIsValue, ValueNatural
  <2>7. Exposure(AtOpen)' = Exposure(AtOpen) + (PositionSize - Cost(PositionSize))
    BY <2>5, Bought
  <2>8. cash' = cash - PositionSize
    BY DEF Buy
  <2> QED
    BY <2>1, <2>6, <2>7, <2>8 DEF EquityAtOpen
<1>2. ASSUME IInv, NEW s \in Symbol, Sell(s)
      PROVE  EquityAtOpen' = EquityAtOpen - Cost(units[s] * open[s])
  <2> USE <1>2 DEF IInv, TypeOK
  <2> DEFINE n == units[s] * open[s]
  <2>1. AtOpen \in [Symbol -> Price] /\ AtOpen' = AtOpen /\ AtOpen[s] = open[s]
    BY DEF Sell, AtOpen, data
  <2>2. units' \in [Symbol -> Nat] /\ units'[s] = 0 /\ \A r \in Symbol \ {s} : units'[r] = units[r]
    BY DEF Sell
  <2>3. Value(units', AtOpen) = Value(units, AtOpen) - units[s] * AtOpen[s] + units'[s] * AtOpen[s]
    BY <2>1, <2>2, ValueChanges
  <2>4. AtOpen[s] \in Nat /\ n \in Nat /\ Cost(n) \in 0..n /\ Value(units, AtOpen) \in Nat
    <3>1. units[s] \in Nat /\ open[s] \in Nat
      BY BacktestAssumption
    <3>2. n \in Nat
      BY <3>1, ProductNatural
    <3> QED
      BY <2>1, <3>1, <3>2, CostBounded, ValueNatural
  <2>5. Exposure(AtOpen)' = Exposure(AtOpen) - n
    BY <2>1, <2>2, <2>3, <2>4, ExposureIsValue, NewExposureIsValue
  <2>6. cash' = cash + n - Cost(n)
    BY DEF Sell
  <2> HIDE DEF n
  <2>7. EquityAtOpen' = EquityAtOpen - Cost(n)
    BY <2>4, <2>5, <2>6, ExposureIsValue DEF EquityAtOpen
  <2> QED
    BY <2>7 DEF n
<1>3. ASSUME IInv, [Next]_vars, NEW s \in Symbol, units'[s] # units[s]
      PROVE  EquityAtOpen' = EquityAtOpen -
                 Cost(IF units[s] > 0 THEN units[s] * open[s] ELSE PositionSize)
  <2>1. CASE Buy(s)
    <3>1. MayBuy /\ units[s] = 0
      BY <1>3, <2>1 DEF Buy, WantsToBuy, book
    <3> QED
      BY <1>1, <1>3, <2>1, <3>1
  <2>2. CASE Sell(s)
    <3>1. units[s] > 0
      BY <2>2 DEF Sell
    <3> QED
      BY <1>2, <1>3, <2>2, <3>1
  <2>3. ASSUME NEW r \in Symbol, r # s, Buy(r) \/ Sell(r) PROVE FALSE
    BY <1>3, <2>3 DEF Buy, Sell, book, IInv, TypeOK
  <2>4. ~(NextBar \/ SalesDone \/ BuysDone \/ Close \/ UNCHANGED vars)
    BY <1>3 DEF NextBar, SalesDone, BuysDone, Close, vars, book
  <2> QED
    BY <1>3, <2>1, <2>2, <2>3, <2>4 DEF Next
<1>4. IInv /\ [Next]_vars =>
        \A s \in Symbol :
            units'[s] # units[s] =>
                EquityAtOpen' = EquityAtOpen -
                    Cost(IF units[s] > 0 THEN units[s] * open[s] ELSE PositionSize)
  BY <1>3
<1> QED
  BY <1>4, Invariance, PTL DEF Spec, TradesConserveEquity

\* The instance of RiskPolicy has a copy of Cardinality of its own.
LEMMA SameCardinality == \A S : Policy!Cardinality(S) = Cardinality(S)
  BY DEF Policy!Cardinality, Cardinality, Policy!IsFiniteSet, IsFiniteSet

\* The portfolio loop keeps the promises of the risk section: an entry that was
\* decided before a block or a stop is not made, no entry is made beyond the
\* limit of positions, and a stop is final (engine.py:185-190, 210-237, 277-284).
THEOREM Refinement == Spec => ImplementsPolicy
<1>1. Init => Policy!Init
  BY DEF Init, Policy!Init, Held
<1>2. ASSUME IInv, [Next]_vars PROVE [Policy!Next]_(Policy!vars)
  <2> USE DEF IInv, TypeOK
  <2>1. CASE NextBar
    <3>1. Held' = Held /\ blocked' \in BOOLEAN /\ stopped' = stopped
      BY <2>1, <1>2, NextType DEF NextBar, book, Held
    <3> QED
      BY <3>1 DEF Policy!Next, Policy!Look
  <2>2. ASSUME NEW s \in Symbol, Sell(s) PROVE [Policy!Next]_(Policy!vars)
    <3>1. s \in Held /\ Held' = Held \ {s} /\ UNCHANGED <<blocked, stopped>>
      BY <1>2, <2>2 DEF Sell, risk, Held
    <3> QED
      BY <3>1 DEF Policy!Next, Policy!Leave
  <2>3. ASSUME NEW s \in Symbol, Buy(s) PROVE [Policy!Next]_(Policy!vars)
    <3>1. UNCHANGED <<blocked, stopped>> /\ s \notin Held
      BY <2>3 DEF Buy, WantsToBuy, risk, Held
    <3>2. CASE MayBuy
      <4>1. Held' = Held \/ Held' = Held \cup {s}
        <5>1. /\ s \in Symbol
              /\ units' = [units EXCEPT ![s] = UnitsFor(PositionSize, open[s])]
          BY <2>3, <3>2 DEF Buy
        <5>2. \A r \in Symbol : r # s => units'[r] = units[r]
          BY <1>2, <5>1
        <5>3. \A r \in Symbol : r # s => (r \in Held' <=> r \in Held)
          BY <5>2 DEF Held
        <5>4. Held \subseteq Symbol /\ Held' \subseteq Symbol
          BY DEF Held
        <5> QED
          BY <3>1, <5>1, <5>3, <5>4
      <4>2. /\ ~blocked /\ ~stopped
            /\ MaxConcurrent # NoLimit => Cardinality(Held) < MaxConcurrent
        BY <3>2 DEF MayBuy
      <4>3. CASE Held' = Held
        BY <3>1, <4>3 DEF Policy!vars
      <4>4. CASE Held' = Held \cup {s}
        <5>1. Policy!Enter(s)
          BY <3>1, <4>2, <4>4, SameCardinality DEF Policy!Enter
        <5> QED
          BY <5>1 DEF Policy!Next
      <4> QED
        BY <4>1, <4>3, <4>4
    <3>3. CASE ~MayBuy
      BY <2>3, <3>1, <3>3 DEF Buy, book, Held, Policy!vars
    <3> QED
      BY <3>2, <3>3
  <2>4. CASE Close
    <3> DEFINE breached(close) == DailyLossBreached(dayStart, cash + Exposure(close))
    <3>1. PICK close : /\ blocked' = (blocked \/ breached(close))
                       /\ stopped' = (stopped \/ (breached(close) /\ DailyLossAction = "stop"))
      BY <2>4 DEF Close
    <3>2. Held' = Held
      BY <2>4 DEF Close, book, Held
    <3> HIDE DEF breached
    <3>3. /\ blocked' \in BOOLEAN /\ stopped' \in {stopped, TRUE}
          /\ stopped' # stopped => blocked'
      BY <3>1, <1>2
    <3> QED
      BY <3>2, <3>3 DEF Policy!Next, Policy!Look
  <2>5. CASE SalesDone \/ BuysDone \/ UNCHANGED vars
    BY <2>5 DEF SalesDone, BuysDone, book, risk, vars, Held, Policy!vars
  <2> QED
    BY <1>2, <2>1, <2>2, <2>3, <2>4, <2>5 DEF Next
<1> QED
  BY <1>1, <1>2, Invariance, PTL DEF Spec, ImplementsPolicy, Policy!Spec
-----------------------------------------------------------------------------
(* The loops beside each other: the single-symbol loop, and the portfolio  *)
(* loop that reduces and has room for one position.                        *)

loopsVars == <<vars, own1, loop>>

\* What every loop keeps of the risk section.
LoopsType ==
    /\ loop \in {"limit", "reduce", "single"}
    /\ blocked \in BOOLEAN /\ stopped \in BOOLEAN

\* An exit of the single-symbol loop belongs to a position, and is what the
\* previous close ordered; the close finds it executed.
SingleOrders ==
    /\ loop = "single" =>
           /\ phase \in {"bar", "trade", "close"}
           /\ phase \in {"bar", "trade"} => pending1 = ordered1
           /\ phase \in {"bar", "trade"} /\ pending1 = "exit" => units1 > 0
           /\ phase = "close" /\ ordered1 = "exit" => units1 = 0
    /\ loop # "single" => ordered1 = "none" /\ units1 = 0

\* Room for one position, in the loop that has no more.
OneRoom ==
    /\ units = [s \in Symbol |-> units[s]]
    /\ loop = "reduce" => Cardinality(Held) <= 1

LoopsInv == LoopsType /\ SingleOrders /\ OneRoom

LEMMA InitLoops == LoopsInit => LoopsInv
<1> SUFFICES ASSUME LoopsInit PROVE LoopsInv
  OBVIOUS
<1>1. LoopsType
  BY DEF LoopsInit, LoopsType, Init, Reduce!Init, Single!Init
<1>2. SingleOrders
  BY DEF LoopsInit, SingleOrders, NotSingle, Single!Init
<1>3. units = [s \in Symbol |-> 0]
  BY DEF LoopsInit, Init, Reduce!Init, NotPortfolio
<1>4. Held = {}
  BY <1>3 DEF Held
<1>5. Cardinality(Held) <= 1
  BY <1>4, FS_EmptySet
<1>6. OneRoom
  BY <1>3, <1>5 DEF OneRoom
<1> QED
  BY <1>1, <1>2, <1>6 DEF LoopsInv

\* What a step of any loop does to the risk section.
Watches ==
    /\ blocked' \in BOOLEAN
    /\ stopped' \in {stopped, TRUE} /\ (stopped' # stopped => blocked')

LEMMA LimitWatches == ASSUME LoopsType, Next PROVE Watches
<1> USE DEF LoopsType, Watches
<1>1. CASE NextBar
  BY <1>1 DEF NextBar
<1>2. CASE SalesDone \/ BuysDone
  BY <1>2 DEF SalesDone, BuysDone, risk
<1>3. ASSUME NEW s \in Symbol, Sell(s) \/ Buy(s) PROVE Watches
  BY <1>3 DEF Sell, Buy, risk
<1>4. CASE Close
  <2>1. PICK breached \in BOOLEAN :
            /\ blocked' = (blocked \/ breached)
            /\ stopped' = (stopped \/ (breached /\ DailyLossAction = "stop"))
    BY <1>4 DEF Close
  <2> QED
    BY <2>1
<1> QED
  BY <1>1, <1>2, <1>3, <1>4 DEF Next

LEMMA ReduceWatches == ASSUME LoopsType, Reduce!Next PROVE Watches
<1> USE DEF LoopsType, Watches
<1>1. CASE Reduce!NextBar
  BY <1>1 DEF Reduce!NextBar
<1>2. CASE Reduce!SalesDone \/ Reduce!BuysDone
  BY <1>2 DEF Reduce!SalesDone, Reduce!BuysDone, Reduce!risk
<1>3. ASSUME NEW s \in Symbol, Reduce!Sell(s) \/ Reduce!Buy(s) PROVE Watches
  BY <1>3 DEF Reduce!Sell, Reduce!Buy, Reduce!risk
<1>4. CASE Reduce!Close
  <2>1. PICK breached \in BOOLEAN :
            /\ blocked' = (blocked \/ breached)
            /\ stopped' = (stopped \/ (breached /\ "reduce" = "stop"))
    BY <1>4 DEF Reduce!Close
  <2> QED
    BY <2>1
<1> QED
  BY <1>1, <1>2, <1>3, <1>4 DEF Reduce!Next

LEMMA SingleWatches == ASSUME LoopsType, Single!Next PROVE Watches
<1> USE DEF LoopsType, Watches
<1>1. CASE Single!NextBar
  BY <1>1 DEF Single!NextBar
<1>2. CASE Single!Exit \/ Single!Enter \/ Single!NoTrade
  BY <1>2 DEF Single!Exit, Single!Enter, Single!NoTrade, Single!risk
<1>3. CASE Single!Close
  <2>1. PICK breached \in BOOLEAN :
            /\ blocked' = (blocked \/ breached)
            /\ stopped' = (stopped \/ (breached /\ DailyLossAction = "stop"))
    BY <1>3 DEF Single!Close
  <2> QED
    BY <2>1
<1> QED
  BY <1>1, <1>2, <1>3 DEF Single!Next

LEMMA NextLoopsType == ASSUME LoopsType, [LoopsNext]_loopsVars PROVE LoopsType'
<1>1. CASE LoopsNext
  <2>1. Watches /\ loop' = loop
    BY <1>1, LimitWatches, ReduceWatches, SingleWatches DEF LoopsNext
  <2> QED
    BY <2>1 DEF Watches, LoopsType
<1>2. CASE UNCHANGED loopsVars
  BY <1>2 DEF loopsVars, vars, risk, LoopsType
<1> QED
  BY <1>1, <1>2

LEMMA NextSingleOrders ==
    ASSUME LoopsType, SingleOrders, [LoopsNext]_loopsVars
    PROVE  SingleOrders'
<1> USE DEF LoopsType, SingleOrders
<1>1. CASE LoopsNext /\ loop # "single"
  BY <1>1 DEF LoopsNext, own1
<1>2. CASE LoopsNext /\ loop = "single"
  <2>1. Single!Next /\ loop' = loop
    BY <1>2 DEF LoopsNext
  <2>2. CASE Single!NextBar
    BY <1>2, <2>1, <2>2 DEF Single!NextBar, Single!book
  <2>3. CASE Single!Exit
    <3>1. phase' = "close" /\ units1' = 0
      BY <2>3 DEF Single!Exit
    <3> QED
      BY <1>2, <2>1, <3>1
  <2>4. CASE Single!Enter
    <3>1. phase = "trade" /\ phase' = "close" /\ pending1 = "entry" /\ ordered1' = ordered1
      BY <2>4 DEF Single!Enter
    <3> QED
      BY <1>2, <2>1, <3>1
  <2>5. CASE Single!NoTrade
    BY <1>2, <2>1, <2>5 DEF Single!NoTrade, Single!book
  <2>6. CASE Single!Close
    <3>1. /\ phase' = "bar" /\ pending1' = ordered1' /\ units1' = units1
          /\ pending1' = "exit" => units1 > 0
      BY <1>2, <2>6 DEF Single!Close, Single!book, Single!Decision
    <3> QED
      BY <1>2, <2>1, <3>1
  <2> QED
    BY <2>1, <2>2, <2>3, <2>4, <2>5, <2>6 DEF Single!Next
<1>3. CASE UNCHANGED loopsVars
  BY <1>3 DEF loopsVars, vars, own1
<1> QED
  BY <1>1, <1>2, <1>3

\* The instances have a copy of Cardinality of their own.
LEMMA ReduceCardinality == \A S : Reduce!Cardinality(S) = Cardinality(S)
  BY DEF Reduce!Cardinality, Cardinality, Reduce!IsFiniteSet, IsFiniteSet

LEMMA NextOneRoom ==
    ASSUME LoopsType, OneRoom, [LoopsNext]_loopsVars
    PROVE  OneRoom'
<1> USE DEF LoopsType
<1>0. units = [s \in Symbol |-> units[s]] /\ (loop = "reduce" => Cardinality(Held) <= 1)
  BY DEF OneRoom
<1>1. CASE LoopsNext /\ loop = "reduce"
  <2>0. Reduce!Next /\ loop' = loop
    BY <1>1 DEF LoopsNext
  <2>1. ASSUME NEW s \in Symbol, Reduce!Buy(s), Reduce!MayBuy PROVE OneRoom'
    <3>1. Cardinality(Held) < 1
      <4>1. NoLimit # 1
        BY BacktestAssumption
      <4> QED
        BY <2>1, <4>1, ReduceCardinality DEF Reduce!MayBuy, Reduce!Held, Held
    <3>2. Held = {}
      BY <3>1, HeldFinite, FS_EmptySet
    <3>3. units' = [units EXCEPT ![s] = Reduce!UnitsFor(Reduce!PositionSize, open[s])]
      BY <2>1 DEF Reduce!Buy
    <3>4. Held' \subseteq {s}
      BY <1>0, <3>2, <3>3 DEF Held
    <3>5. Cardinality(Held') <= 1
      <4>1. IsFiniteSet({s}) /\ Cardinality({s}) = 1
        BY FS_Singleton
      <4> QED
        BY <3>4, <4>1, FS_Subset
    <3> QED
      BY <1>0, <3>3, <3>5 DEF OneRoom
  <2>2. ASSUME NEW s \in Symbol, Reduce!Sell(s) PROVE OneRoom'
    <3>1. units' = [units EXCEPT ![s] = 0]
      BY <2>2 DEF Reduce!Sell
    <3>2. Held' \subseteq Held
      BY <1>0, <3>1 DEF Held
    <3>3. Cardinality(Held') <= Cardinality(Held) /\ Cardinality(Held') \in Nat
      BY <3>2, HeldFinite, FS_Subset, FS_CardinalityType
    <3> QED
      BY <1>0, <1>1, <3>1, <3>3, HeldFinite DEF OneRoom
  <2>3. CASE UNCHANGED units
    BY <1>0, <2>0, <2>3 DEF OneRoom, Held
  <2>4. Reduce!NextBar \/ Reduce!SalesDone \/ Reduce!BuysDone \/ Reduce!Close => UNCHANGED units
    BY DEF Reduce!NextBar, Reduce!SalesDone, Reduce!BuysDone, Reduce!Close, Reduce!book
  <2>5. \A s \in Symbol : Reduce!Buy(s) /\ ~Reduce!MayBuy => UNCHANGED units
    BY DEF Reduce!Buy, Reduce!book
  <2> QED
    BY <2>0, <2>1, <2>2, <2>3, <2>4, <2>5 DEF Reduce!Next
<1>2. CASE LoopsNext /\ loop # "reduce"
  <2>1. loop' # "reduce"
    BY <1>2 DEF LoopsNext
  <2>2. Next \/ UNCHANGED units
    BY <1>2 DEF LoopsNext, portfolio
  <2>3. ASSUME NEW s \in Symbol, Buy(s) \/ Sell(s) PROVE units' = [r \in Symbol |-> units'[r]]
    BY <1>0, <2>3 DEF Buy, Sell, book
  <2>4. NextBar \/ SalesDone \/ BuysDone \/ Close => UNCHANGED units
    BY DEF NextBar, SalesDone, BuysDone, Close, book
  <2> QED
    BY <1>0, <2>1, <2>2, <2>3, <2>4 DEF Next, OneRoom
<1>3. CASE UNCHANGED loopsVars
  BY <1>0, <1>3 DEF loopsVars, vars, book, OneRoom, Held
<1> QED
  BY <1>1, <1>2, <1>3

THEOREM LoopsInvariance == LoopsSpec => []LoopsInv
<1>1. LoopsInv /\ [LoopsNext]_loopsVars => LoopsInv'
  BY NextLoopsType, NextSingleOrders, NextOneRoom DEF LoopsInv
<1> QED
  BY InitLoops, <1>1, PTL DEF LoopsSpec, loopsVars

\* With room for one position two symbols never get one each, whatever was sold
\* and wanted at an open (engine.py:192-228).
THEOREM OnePosition == LoopsSpec => []OnePositionAtATime
<1>1. LoopsInv => OnePositionAtATime
  BY ReduceCardinality DEF LoopsInv, OneRoom, OnePositionAtATime, Reduce!ConcurrencyLimit,
                           Reduce!Held, Held
<1> QED
  BY LoopsInvariance, <1>1, PTL

\* An exit ordered at a close is executed by the next one, whatever the rules and
\* the daily limit decide, for any prices and strategy (engine.py:336-347, 367-385).
THEOREM SingleExits == LoopsSpec => []SingleExitsAtNextOpen
<1>1. LoopsInv => SingleExitsAtNextOpen
  BY DEF LoopsInv, LoopsType, SingleOrders, SingleExitsAtNextOpen, Single!ExitsAtNextOpen
<1> QED
  BY LoopsInvariance, <1>1, PTL

\* The single-symbol loop keeps the promises of the risk section as the portfolio
\* loop does: nothing decided before a block or a stop is entered, and a stop is
\* final (engine.py:325-386).
THEOREM SingleRefinement == LoopsSpec => SingleImplementsPolicy
<1>1. LoopsInit => Single!Policy!Init
  BY DEF LoopsInit, Init, Reduce!Init, Single!Init, NotSingle, Single!Policy!Init
<1>2. ASSUME LoopsInv, [LoopsNext]_loopsVars
      PROVE  [Single!Policy!Next]_(Single!Policy!vars)
  <2> USE DEF LoopsInv, LoopsType
  <2>1. ASSUME Watches, UNCHANGED units1 PROVE [Single!Policy!Next]_(Single!Policy!vars)
    BY <2>1 DEF Watches, Single!Policy!Next, Single!Policy!Look
  <2>2. CASE LoopsNext /\ loop # "single"
    <3>1. Watches
      BY <1>2, <2>2, LimitWatches, ReduceWatches DEF LoopsNext
    <3>2. UNCHANGED units1
      BY <2>2 DEF LoopsNext, own1
    <3> QED
      BY <2>1, <3>1, <3>2
  <2>3. CASE LoopsNext /\ loop = "single"
    <3>1. Single!Next
      BY <2>3 DEF LoopsNext
    <3>2. CASE Single!Exit
      <4>1. units1 > 0 /\ units1' = 0 /\ UNCHANGED <<blocked, stopped>>
        BY <3>2 DEF Single!Exit, Single!risk
      <4>2. Single!Policy!Leave(1)
        BY <4>1 DEF Single!Policy!Leave
      <4> QED
        BY <4>2 DEF Single!Policy!Next
    <3>3. CASE Single!Enter
      <4>1. units1 = 0 /\ UNCHANGED <<blocked, stopped>>
        BY <3>3 DEF Single!Enter, Single!risk
      <4>2. CASE Single!MayEnter
        <5>1. ~blocked /\ ~stopped
          BY <4>2 DEF Single!MayEnter
        <5>2. CASE units1' > 0
          <6>1. Single!Policy!Cardinality({}) < 1
            BY FS_EmptySet DEF Single!Policy!Cardinality, Cardinality, IsFiniteSet,
                               Single!Policy!IsFiniteSet
          <6>2. Single!Policy!Enter(1)
            BY <4>1, <5>1, <5>2, <6>1 DEF Single!Policy!Enter
          <6> QED
            BY <6>2 DEF Single!Policy!Next
        <5>3. CASE ~(units1' > 0)
          BY <4>1, <5>3 DEF Single!Policy!vars
        <5> QED
          BY <5>2, <5>3
      <4>3. CASE ~Single!MayEnter
        <5>1. UNCHANGED units1
          BY <3>3, <4>3 DEF Single!Enter, Single!book
        <5> QED
          BY <4>1, <5>1 DEF Single!Policy!vars
      <4> QED
        BY <4>2, <4>3
    <3>4. CASE Single!NextBar \/ Single!NoTrade \/ Single!Close
      <4>1. UNCHANGED units1
        BY <3>4 DEF Single!NextBar, Single!NoTrade, Single!Close, Single!book
      <4> QED
        BY <1>2, <2>1, <3>1, <4>1, SingleWatches
    <3> QED
      BY <3>1, <3>2, <3>3, <3>4 DEF Single!Next
  <2>4. CASE UNCHANGED loopsVars
    BY <2>4 DEF loopsVars, vars, own1, risk, Single!Policy!vars
  <2> QED
    BY <1>2, <2>2, <2>3, <2>4
<1> QED
  BY <1>1, <1>2, LoopsInvariance, PTL
     DEF LoopsSpec, loopsVars, SingleImplementsPolicy, Single!ImplementsPolicy, Single!Policy!Spec
=============================================================================

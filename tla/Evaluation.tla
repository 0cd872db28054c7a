---- MODULE Evaluation ----
(* One call of GenerationPipeline.run (orchestration/pipeline.py): the stages  *)
(* a candidate strategy goes through, the gates of evaluation/selector.py and  *)
(* the strategy run_local_evaluation hands to the next generation.             *)
(*                                                                             *)
(* A bar is its symbol and its day; a market input or a benchmark price is     *)
(* named by the bar or the day it was measured on, so that the windows of two  *)
(* sequences can be compared.  What a back-test returns (Backtest.tla) is      *)
(* chosen: a return, the sells of each year, the CAGR over the benchmark.      *)
(* Positions count from 1, where the code counts from 0.                       *)
EXTENDS Integers, Sequences, FiniteSetsExt

CONSTANTS
    DaysPerYear,   \* bars a symbol has in a year: the first one is in January, the last in December
    Requests,      \* what run_local_evaluation may be called with
    MaxSold,       \* bound on the round trips of one year
    MaxScore,      \* scores are 0 .. MaxScore
    None

ASSUME EvaluationAssumption ==
    /\ DaysPerYear \in Nat \ {0}
    /\ MaxSold \in Nat /\ MaxScore \in Nat
    /\ \A asked \in Requests :
          /\ asked.cover \in Seq(SUBSET (Nat \ {0}))
          /\ \A s \in DOMAIN asked.cover : IsFiniteSet(asked.cover[s])
          /\ asked.hashes \in Seq(Int)

GateNames == {"fast", "full", "robustness", "validation", "risk",
              "qqq_cagr_delta", "annual_trade_count"}

VARIABLES
    request,     \* [cover, zone, series, hashes, funnel]
    bars,        \* the bars of the data set, by symbol and then by day
    benchmark,   \* None, or the days of the benchmark prices, one per timestamp
    results,     \* what the gates said of the candidates evaluated so far
    phase,       \* "new", "running", "done", "refused" or "raised"
    handedOn     \* None, or the position of the candidate handed on

pipelineVars == <<request, bars, benchmark, results, phase, handedOn>>

Positions(s) == 1 .. Len(s)

-----------------------------------------------------------------------------
(* The data set and its calendar.                                              *)

YearOf(day) == (day - 1) \div DaysPerYear
InJanuary(day) == (day - 1) % DaysPerYear = 0
InDecember(day) == day % DaysPerYear = 0

(* The members of S by increasing key, which tells any two of them apart.      *)
Arranged(S, key) ==
    [i \in 1 .. Cardinality(S) |->
        CHOOSE x \in S : Cardinality({y \in S : key[y] < key[x]}) = i - 1]

Ascending(numbers) == Arranged(numbers, [x \in numbers |-> x])

BarsCovered(cover) ==
    UNION {{[symbol |-> s, day |-> d] : d \in cover[s]} : s \in DOMAIN cover}

LastDay(cover) == Max({0} \cup UNION {cover[s] : s \in DOMAIN cover})

(* The sort key of a bar: its symbol, and then its day.                        *)
SymbolMajor(cover) ==
    [bar \in BarsCovered(cover) |-> bar.symbol * (LastDay(cover) + 1) + bar.day]

MarketDataSet(cover) == Arranged(BarsCovered(cover), SymbolMajor(cover))

SymbolsOf(data) == {data[i].symbol : i \in Positions(data)}
DaysOf(data) == {data[i].day : i \in Positions(data)}

Timestamps(data) == Ascending(DaysOf(data))

PlaceInSymbol(data, i) == Cardinality({j \in 1 .. i : data[j].symbol = data[i].symbol})
BarsOf(data, s) == Cardinality({i \in Positions(data) : data[i].symbol = s})

(* _fast_slice: the first half of every symbol's bars, at least two of them.   *)
FastWidth(n) == Min({n, Max({2, n \div 2})})

FastPositions(data) ==
    {i \in Positions(data) :
        PlaceInSymbol(data, i) <= FastWidth(BarsOf(data, data[i].symbol))}

SelectDataset(data, positions) ==
    LET order == Ascending(positions)
    IN  [k \in Positions(order) |-> data[order[k]]]

FastSlice(data) == SelectDataset(data, FastPositions(data))

(* _market_feature_inputs has one value for each bar; the fast stage gets as   *)
(* many of the first ones as it has bars.                                      *)
SliceFeatureValues(data, width) == SubSeq(data, 1, Min({width, Len(data)}))

-----------------------------------------------------------------------------
(* Benchmarks and walk-forward windows.                                        *)

(* _benchmark_data: QQQ and NASDAQ, each with a value known on every day of    *)
(* the data.                                                                   *)
BenchmarkRefused(series) == series \in {"one_benchmark", "late_start"}
BenchmarkData(series, data) == IF series = "both" THEN Timestamps(data) ELSE None

BenchmarkSlice(prices, width) == SubSeq(prices, 1, Min({width, Len(prices)}))

BenchmarkSelect(prices, test) ==
    LET order == Ascending(test)
    IN  [k \in Positions(order) |-> prices[order[k]]]

Window(k, trainSize, testSize, step) ==
    LET start == (k - 1) * step
    IN  [train |-> start + 1 .. start + trainSize,
         test  |-> start + trainSize + 1 .. start + trainSize + testSize]

(* A variant that stops one window early when the last one ends on the last    *)
(* bar.                                                                        *)
WalkForwardShort(n, trainSize, testSize, step) ==
    [k \in 1 .. Max({0, (n - trainSize - testSize + step - 1) \div step}) |->
        Window(k, trainSize, testSize, step)]

(* walk_forward_splits: a window for every step from which the test still fits. *)
WalkForwardSplits(n, trainSize, testSize, step) ==
    [k \in 1 .. Max({0, (n - trainSize - testSize + step) \div step}) |->
        Window(k, trainSize, testSize, step)]

TestSize(data) == Max({1, Len(data) \div 4})

Splits(data) ==
    WalkForwardSplits(Len(data), Max({1, Len(data) \div 2}), TestSize(data), TestSize(data))

(* The equity curve of a back-test has one value per timestamp; comparing it   *)
(* with a benchmark of another length, or a benchmark of too few prices,       *)
(* raises.                                                                     *)
FoldCompares(data, prices, fold) ==
    /\ \A i \in fold.test : i <= Len(prices)
    /\ Cardinality({data[i].day : i \in fold.test}) = Cardinality(fold.test)

FoldsCompare(data, prices) ==
    prices # None => \A k \in Positions(Splits(data)) : FoldCompares(data, prices, Splits(data)[k])
-----------------------------------------------------------------------------
(* What a back-test of the whole data can return, and what the report says of  *)
(* each calendar year.                                                         *)

(* A symbol is bought no earlier than on its second bar and sold on a later    *)
(* one.                                                                        *)
CanSell(data) == {i \in Positions(data) : PlaceInSymbol(data, i) >= 3}

YearsOf(data) == {YearOf(d) : d \in DaysOf(data)}

SoldByYear(data) ==
    {sold \in [YearsOf(data) -> 0 .. MaxSold] :
        \A y \in YearsOf(data) :
            sold[y] <= Cardinality({i \in CanSell(data) : YearOf(data[i].day) = y})}

(* _curve_timestamps: the bars' own order if there are as many bars as values  *)
(* of the curve, the distinct days otherwise.                                  *)
CurveTimestamps(data) ==
    LET distinct == Timestamps(data)
    IN  IF Len(distinct) = Len(data) THEN [i \in Positions(data) |-> data[i].day] ELSE distinct

IsCompleteYear(year, first, last) ==
    /\ year = YearOf(first) => InJanuary(first)
    /\ year = YearOf(last) => InDecember(last)

(* summarize_yearly_performance, as far as a gate reads it.                    *)
YearlyMetrics(data, sold) ==
    LET days == CurveTimestamps(data)
    IN  [y \in YearsOf(data) |->
            [complete    |-> IsCompleteYear(y, days[1], days[Len(days)]),
             trade_count |-> sold[y]]]

(* The round trips of all years are the closed trades of the back-test.        *)
TradeCount(sold) ==
    LET Of(y) == sold[y] IN MapThenSumSet(Of, DOMAIN sold)

(* A back-test: its return against the limit 0, its trades and its CAGR over   *)
(* that of QQQ (1 is the target).  Three bars of a symbol hold a round trip.    *)
TradesPossible(data) == 0 .. (IF CanSell(data) = {} THEN 0 ELSE 1)

FoldData(data, k) == SelectDataset(data, Splits(data)[k].test)

Metrics(totalReturn, tradeCount, delta) ==
    [total_return |-> totalReturn, trade_count |-> tradeCount, qqq_cagr_delta |-> delta]

GoodFold(data, k) == Metrics(1, Max(TradesPossible(FoldData(data, k))), 1)

PoorFolds(data, k) ==
    {[GoodFold(data, k) EXCEPT !.total_return = -1],
     [GoodFold(data, k) EXCEPT !.trade_count = 0],
     [GoodFold(data, k) EXCEPT !.qqq_cagr_delta = 0]}

(* Bound: at most one fold falls short, and in one way.                        *)
FoldOutcomes(data) ==
    LET folds == Positions(Splits(data))
        good == [k \in folds |-> GoodFold(data, k)]
    IN  {good} \cup UNION {{[good EXCEPT ![k] = poor] : poor \in PoorFolds(data, k)} : k \in folds}

(* robust_statistics and robust_score: a return of zero is no evidence.        *)
Robustness(totalReturn, score) ==
    IF totalReturn = 0 THEN [status |-> "INSUFFICIENT_EVIDENCE", robust_score |-> 0]
    ELSE [status |-> "OK", robust_score |-> score]

-----------------------------------------------------------------------------
(* The gates.  A funnel limit that is None is not asked for.                   *)

FoldPassed(fold, compared, funnel) ==
    /\ fold.trade_count >= funnel.min_trades
    /\ fold.total_return >= 0
    /\ \/ funnel.min_qqq_cagr_delta = None
       \/ compared /\ fold.qqq_cagr_delta >= funnel.min_qqq_cagr_delta

ValidationPassed(folds, compared, funnel) ==
    /\ folds # <<>>
    /\ \A k \in Positions(folds) : FoldPassed(folds[k], compared, funnel)

AnnualTradesPassed(yearly, minimum) ==
    LET counted == {y \in DOMAIN yearly : yearly[y].complete}
    IN  \/ minimum = None
        \/ /\ counted # {}
           /\ \A y \in counted : yearly[y].trade_count > minimum

GatePassed(input, funnel, compared) ==
    [g \in GateNames |->
        CASE g = "fast" -> /\ input.fast.trade_count >= funnel.min_trades
                           /\ input.fast.total_return >= 0
          [] g = "full" -> /\ input.full.trade_count >= funnel.min_trades
                           /\ input.full.total_return >= 0
          [] g = "robustness" -> /\ input.robustness.status = "OK"
                                 /\ input.robustness.robust_score >= funnel.min_robust_score
          [] g = "validation" -> ValidationPassed(input.folds, compared, funnel)
          [] g = "risk" -> input.risk_compliant
          [] g = "qqq_cagr_delta" ->
                \/ funnel.min_qqq_cagr_delta = None
                \/ compared /\ input.full.qqq_cagr_delta >= funnel.min_qqq_cagr_delta
          [] g = "annual_trade_count" ->
                AnnualTradesPassed(input.yearly, funnel.min_annual_trades)]

(* A variant in which any single failure is a near miss.                       *)
FunnelStatusLenient(failures) ==
    CASE failures = {} -> "SURVIVOR"
      [] Cardinality(failures) = 1 -> "NEAR_MISS"
      [] OTHER -> "REJECT"

FunnelStatus(failures) ==
    CASE failures = {} -> "SURVIVOR"
      [] \E g \in {"fast", "full", "robustness"} : failures = {g} -> "NEAR_MISS"
      [] OTHER -> "REJECT"

(* select_candidate.  The promotion gate is left out: no caller of this code   *)
(* sets champion_score, so that it always passes.                              *)
SelectCandidate(input, funnel, compared) ==
    LET passed == GatePassed(input, funnel, compared)
    IN  [status |-> FunnelStatus({g \in GateNames : ~passed[g]}),
         score |-> input.robustness.robust_score,
         full |-> input.full, sold |-> input.sold, folds |-> input.folds,
         risk_compliant |-> input.risk_compliant]
-----------------------------------------------------------------------------
EvaluationInit ==
    /\ request \in Requests
    /\ bars = MarketDataSet(request.cover)
    /\ benchmark = None
    /\ results = <<>>
    /\ phase = "new"
    /\ handedOn = None

(* run_local_evaluation up to the pipeline: the sealed zone is refused, and a  *)
(* benchmark series that is incomplete raises.                                 *)
Begin ==
    /\ phase = "new"
    /\ phase' = IF request.zone = "sealed_oos" THEN "refused"
                ELSE IF BenchmarkRefused(request.series) THEN "raised" ELSE "running"
    /\ benchmark' = IF phase' = "running" THEN BenchmarkData(request.series, bars) ELSE None
    /\ UNCHANGED <<request, bars, results, handedOn>>

MoreCandidates == phase = "running" /\ Len(results) < Len(request.hashes)

(* A back-test of the candidate raises: a feature it uses cannot be calculated. *)
EngineRaises ==
    /\ MoreCandidates
    /\ phase' = "raised"
    /\ UNCHANGED <<request, bars, benchmark, results, handedOn>>

(* A fold has no benchmark price for one of its bars, or fewer days than bars.  *)
FoldRaises ==
    /\ MoreCandidates
    /\ ~FoldsCompare(bars, benchmark)
    /\ phase' = "raised"
    /\ UNCHANGED <<request, bars, benchmark, results, handedOn>>

(* The body of the loop over the candidates.                                   *)
EvaluateCandidate ==
    /\ MoreCandidates
    /\ FoldsCompare(bars, benchmark)
    /\ \E fast \in [total_return : {-1, 1}, trade_count : TradesPossible(FastSlice(bars))],
          totalReturn \in -1 .. 1, sold \in SoldByYear(bars), delta \in 0 .. 1,
          risk \in BOOLEAN, score \in 0 .. MaxScore, folds \in FoldOutcomes(bars) :
            results' = Append(results, SelectCandidate(
                [fast |-> fast,
                 full |-> Metrics(totalReturn, TradeCount(sold), delta),
                 sold |-> sold,
                 robustness |-> Robustness(totalReturn, score),
                 folds |-> folds, risk_compliant |-> risk,
                 yearly |-> YearlyMetrics(bars, sold)],
                request.funnel, benchmark # None))
    /\ UNCHANGED <<request, bars, benchmark, phase, handedOn>>

(* _best_strategy_payload: of the candidates that were not rejected, the one   *)
(* with the best score, by hash among equals.                                  *)
Eligible == {i \in Positions(results) : results[i].status # "REJECT"}

NotBetter(i, j) ==
    \/ results[i].score < results[j].score
    \/ results[i].score = results[j].score /\ request.hashes[i] <= request.hashes[j]

Finish ==
    /\ phase = "running"
    /\ Len(results) = Len(request.hashes)
    /\ phase' = "done"
    /\ handedOn' = IF Eligible = {} THEN None
                   ELSE CHOOSE j \in Eligible : \A i \in Eligible : NotBetter(i, j)
    /\ UNCHANGED <<request, bars, benchmark, results>>

EvaluationNext == Begin \/ EngineRaises \/ FoldRaises \/ EvaluateCandidate \/ Finish

EvaluationSpec == EvaluationInit /\ [][EvaluationNext]_pipelineVars

-----------------------------------------------------------------------------
(* Properties.                                                                 *)

OneSymbol(data) == Cardinality(SymbolsOf(data)) = 1

(* The stages of an evaluation of one symbol keep to their own days: every     *)
(* market input of the fast stage is that of the bar at its place; the fast    *)
(* benchmark is that of the fast days; a fold is tested on days after all its  *)
(* training days and compared with QQQ over the same days; and the folds test  *)
(* each bar of the second half once, but for fewer than a fold's bars at the   *)
(* end (pipeline.py: _fast_slice, _slice_feature_values,                       *)
(* _walk_forward_evidence; walk_forward.py; benchmark.py: slice, select).      *)
StagesKeepToTheirDays ==
    phase = "running" /\ OneSymbol(bars) =>
        LET fast == FastSlice(bars)
            folds == Splits(bars)
            tested == UNION {folds[k].test : k \in Positions(folds)}
            untested == ((Len(bars) \div 2) + 1 .. Len(bars)) \ tested
        IN  /\ SliceFeatureValues(bars, Len(fast)) = fast
            /\ benchmark # None =>
                  /\ BenchmarkSlice(benchmark, Len(Timestamps(fast))) = Timestamps(fast)
                  /\ \A k \in Positions(folds) :
                        BenchmarkSelect(benchmark, folds[k].test) = Timestamps(FoldData(bars, k))
            /\ \A k \in Positions(folds) :
                  \A i \in folds[k].train, j \in folds[k].test : bars[i].day < bars[j].day
            /\ \A k, m \in Positions(folds) : k # m => folds[k].test \cap folds[m].test = {}
            /\ Len(bars) > 1 => Cardinality(untested) < TestSize(bars)
            /\ \A i \in untested, j \in tested : j < i

(* A year the data covers from its January to its December.                    *)
CoveredYears(data) ==
    {y \in YearsOf(data) :
        /\ \E d \in DaysOf(data) : d <= y * DaysPerYear + 1
        /\ \E d \in DaysOf(data) : d >= (y + 1) * DaysPerYear}

InTimeOrder(data) == \A i, j \in Positions(data) : i < j => data[i].day <= data[j].day

(* What one generation hands to the next has not lost a hard gate on the way:  *)
(* its risk policy held, no eligible candidate scored more, it traded more     *)
(* than the limit in every year the data covers entirely (and there is such a  *)
(* year), it beat QQQ by the target over the whole data, and on every fold it  *)
(* reached the return, the trades and the target.  The years are right for     *)
(* data whose bars are in time order or share a day: for symbols that follow   *)
(* one another in another order the curve's days are taken in the bars' order  *)
(* (yearly.py:67).                                                             *)
HandedOnHolds ==
    handedOn # None =>
        LET chosen == results[handedOn]
            funnel == request.funnel
            target == funnel.min_qqq_cagr_delta
        IN  /\ chosen.risk_compliant
            /\ \A i \in Positions(results) :
                  results[i].status # "REJECT" => results[i].score <= chosen.score
            /\ (/\ funnel.min_annual_trades # None
                /\ InTimeOrder(bars) \/ Len(Timestamps(bars)) < Len(bars))
                  => /\ CoveredYears(bars) # {}
                     /\ \A y \in CoveredYears(bars) : chosen.sold[y] > funnel.min_annual_trades
            /\ target # None => benchmark # None /\ chosen.full.qqq_cagr_delta >= target
            /\ chosen.folds # <<>>
            /\ \A k \in Positions(chosen.folds) :
                  /\ chosen.folds[k].total_return >= 0
                  /\ chosen.folds[k].trade_count >= funnel.min_trades
                  /\ target # None => chosen.folds[k].qqq_cagr_delta >= target
====

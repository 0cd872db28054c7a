---- MODULE MCEvaluation ----
(* Three months to a year and up to four years.  One candidate is evaluated    *)
(* on every run of days of one symbol and on some data of two symbols: equal   *)
(* days, a late second symbol, symbols that follow one another in either       *)
(* order, and two that share one day.  Two candidates are evaluated on five    *)
(* days.                                                                       *)
EXTENDS Evaluation

Asked(cover, funnel, series) ==
    [cover |-> cover, zone |-> "development", series |-> series, hashes |-> <<1>>,
     funnel |-> funnel]

Strict == [min_trades |-> 1, min_robust_score |-> 1, min_qqq_cagr_delta |-> 1,
           min_annual_trades |-> 0]
Plain == [min_trades |-> 0, min_robust_score |-> 1, min_qqq_cagr_delta |-> None,
          min_annual_trades |-> 0]
Loose == [min_trades |-> 0, min_robust_score |-> 1, min_qqq_cagr_delta |-> 1,
          min_annual_trades |-> None]

OneSymbolCovers == {<<a .. b>> : <<a, b>> \in {x \in (1 .. 12) \X (1 .. 12) : x[1] <= x[2]}}

TwoSymbolCovers ==
    {<<1 .. 4, 1 .. 4>>, <<1 .. 6, 4 .. 6>>, <<1 .. 3, 4 .. 6>>, <<5 .. 7, 1 .. 4>>,
     <<1 .. 5, 5 .. 9>>}

Several ==
    {[Asked(<<2 .. 6>>, Plain, "both") EXCEPT !.hashes = h] : h \in {<<1, 2>>, <<2, 1>>}}

MCRequests ==
    {Asked(c, f, "both") : c \in OneSymbolCovers, f \in {Strict, Plain}}
    \cup {Asked(c, Loose, s) : c \in {<<1 .. 5>>, <<2 .. 9>>},
                               s \in {"both", "none", "one_benchmark", "late_start"}}
    \cup {Asked(c, Plain, s) : c \in TwoSymbolCovers, s \in {"both", "none"}}
    \cup {[Asked(<<1 .. 6>>, Plain, "both") EXCEPT !.zone = "sealed_oos"]}
    \cup Several
====

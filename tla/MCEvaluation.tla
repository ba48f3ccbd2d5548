---------------------------- MODULE MCEvaluation ----------------------------
(***************************************************************************)
(* One market with a long and one with a short history, the thresholds of  *)
(* config/factory.yaml, and metrics that clear every gate except one or    *)
(* two.                                                                    *)
(***************************************************************************)
EXTENDS Evaluation

CONSTANTS long, short

MCBars == [m \in Markets |-> IF m = long THEN 1000 ELSE 230]
MCWarmup == [v \in 0 .. 8 |-> 30 + 20 * v]

\* A slow, a fast and no parameter.
MCSpaces == {[value |-> 5, low |-> 4, high |-> 6], [value |-> 2, low |-> 2, high |-> 3], NoParameter}

\* A plateau, spikes at 3 and 6, and no edge anywhere.
MCLandscapes ==
  {[v \in 0 .. 8 |-> 50], [v \in 0 .. 8 |-> IF v \in {3, 6} THEN 50 ELSE 10], [v \in 0 .. 8 |-> 0]}

Good == [sharpe |-> 120, pf |-> 220, dd |-> 1000, trades |-> 40, exp |-> 20, monthly |-> 100]

\* Near misses and clear misses of every gate.
Misses ==
  {[Good EXCEPT !.sharpe = 85], [Good EXCEPT !.sharpe = 84], [Good EXCEPT !.pf = 170],
   [Good EXCEPT !.pf = 100], [Good EXCEPT !.dd = 2941], [Good EXCEPT !.dd = 2960],
   [Good EXCEPT !.trades = 26], [Good EXCEPT !.trades = 25], [Good EXCEPT !.exp = 13],
   [Good EXCEPT !.exp = 0], [Good EXCEPT !.monthly = 68], [Good EXCEPT !.monthly = 0]}

MCMetrics == {Good, NoMetrics, [Good EXCEPT !.pf = 300, !.dd = 0]} \cup Misses

MCBar == [sharpe |-> 100, pf |-> 200, dd |-> 2500, trades |-> 30, exp |-> 15, retention |-> 50,
          monthly |-> 80, band |-> 150]
=============================================================================

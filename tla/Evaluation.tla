----------------------------- MODULE Evaluation -----------------------------
(***************************************************************************)
(* What the validation squad and the champion do to one strategy           *)
(* (agents/validate.py, agents/champion.py, sweep.py, backtest/engine.py): *)
(* test, tune, robustness, risk, verdict, and the promotion of a strategy  *)
(* that scored to the market where its in-sample part does best.  Which    *)
(* bars each step looks at, and which of its results the next one reads,   *)
(* is exact; what a backtest returns is free.                              *)
(*                                                                         *)
(* A strategy has at most one tunable integer parameter.  A landscape maps *)
(* its values to robust scores in hundredths.                              *)
(***************************************************************************)
EXTENDS Verdict, FiniteSets, FiniteSetsExt

CONSTANTS
  Markets,     \* asset and timeframe pairs
  Bars,        \* the bars of history of each market
  Warmup,      \* the warm-up of a strategy by parameter value
  Spaces,      \* the parameters: [value, low, high], or NoParameter
  NoParameter,
  Landscapes,  \* what the scores can look like
  Metrics,     \* what an out-of-sample backtest can return
  InSample,    \* the in-sample Sharpe ratios
  Targets,     \* the target profit factors a message may carry to the judge
  Bar,         \* the judge's thresholds
  OosPercent,  \* the share of history that is out of sample (30)
  Folds,       \* the folds of the walk-forward test (4)
  MaxRounds    \* bound of the model: how often an idea is promoted (once per process)

ASSUME EvaluationAssumption ==
  /\ Bars \in [Markets -> Nat]
  /\ 0 \in DOMAIN Warmup
  /\ \A v \in DOMAIN Warmup : Warmup[v] \in Nat /\ \A m \in Markets : Warmup[v] < Bars[m]
  /\ \A p \in Spaces \ {NoParameter} :
       /\ p \in [value : Int, low : Int, high : Int]
       /\ p.low < p.high /\ p.value \in p.low .. p.high
       /\ p.low .. p.high \subseteq DOMAIN Warmup
  /\ OosPercent \in 1 .. 99
  /\ Folds \in Nat \ {0} /\ MaxRounds \in Nat

ASSUME JudgeAssumption ==
  /\ Metrics \subseteq [sharpe : Int, pf : Nat, dd : Nat, trades : Nat, exp : Int, monthly : Int]
  /\ Bar \in [sharpe : Nat, pf : Nat, dd : Nat, trades : Nat \ {0}, exp : Nat, retention : Nat,
             monthly : Nat, band : 0 .. 999]
  /\ InSample \subseteq Int /\ Targets \subseteq Nat

\* Fewer bars than this are no backtest, no fold and no sweep cell.
MinBars == 50
FoldBars == 200
CellBars == 400

VARIABLES
  stage,     \* where the strategy is
  market,    \* the market it is tested on
  param,     \* its parameter
  round,     \* how often the idea was promoted
  seen,      \* market -> the bars that choosing the parameters and the market used
  tail,      \* the first bar of the out-of-sample part that was tested last
  sharpe,    \* the in-sample Sharpe ratio
  oos,       \* the out-of-sample metrics
  whole,     \* the landscape over the whole history
  flags,     \* what robustness holds against it
  warnings,  \* what risk holds against it
  verdict, longTerm

vars == <<stage, market, param, round, seen, tail, sharpe, oos, whole, flags,
          warnings, verdict, longTerm>>

WarmupOf(p) == IF p = NoParameter THEN Warmup[0] ELSE Warmup[p.value]

\* The part of a history that a selection may look at (tuner and sweep).
InSampleCut(n) == (n * (100 - OosPercent)) \div 100

\* Mutant of SplitAt: a share of all bars, as the tuner has it, less a margin.
SplitAtShare(n, w) == InSampleCut(n) - w \div 4

\* split_backtest: where the out-of-sample part of an n-bar history begins.
SplitAt(n, w) == w + ((n - w) * (100 - OosPercent)) \div 100

Init ==
  /\ stage = "test" /\ round = 0
  /\ market \in Markets /\ param \in Spaces
  /\ seen = [m \in Markets |-> 0] /\ tail = 0
  /\ sharpe = 0 /\ oos = NoMetrics /\ whole \in Landscapes
  /\ flags = {} /\ warnings = {}
  /\ verdict = "" /\ longTerm = FALSE

\* A split backtest: a part that is too short leaves no metrics.
SplitBacktest(p) ==
  LET n == Bars[market]
      w == WarmupOf(p)
      at == SplitAt(n, w)
  IN  /\ tail' = at
      /\ IF n - at < MinBars THEN oos' = NoMetrics ELSE oos' \in Metrics
      /\ IF at - w < MinBars THEN sharpe' = 0 ELSE sharpe' \in InSample

\* TesterAgent.handle; a strategy that does not compile fails here.
Test ==
  /\ stage = "test"
  /\ \/ SplitBacktest(param) /\ stage' = "tune"
     \/ stage' = "failed" /\ UNCHANGED <<tail, oos, sharpe>>
  /\ UNCHANGED <<market, param, round, seen, whole, flags, warnings, verdict, longTerm>>

\* TunerAgent.handle without parameters or with few in-sample trades: what the
\* tester measured goes on.
PassThrough ==
  /\ stage = "tune"
  /\ flags' = {}
  /\ stage' = "robustness"
  /\ UNCHANGED <<market, param, round, seen, tail, sharpe, oos, whole, warnings,
                 verdict, longTerm>>

\* _sample: the values a random draw may return.
Samples(p) == p.low .. p.high

\* _score on the bars before the cut: too few after the warm-up score nothing.
InSampleScores(land, cut) ==
  [v \in DOMAIN land |-> IF cut - Warmup[v] >= MinBars THEN land[v] ELSE 0]

\* The best of the sampled values and the present one by an in-sample landscape.
Best(p, tried, land) ==
  {v \in tried \cup {p.value} : \A u \in tried \cup {p.value} : land[v] >= land[u]}

\* _stability: of the samples that score so few come near the best one that it
\* is a lucky draw.
Stability(best) == IF best > 0 THEN SUBSET {"lucky"} ELSE {{}}

\* Mutant of Tune: the tester's measurements stay.
TuneUnmeasured ==
  /\ stage = "tune" /\ param # NoParameter
  /\ \E v \in param.low .. param.high : param' = [param EXCEPT !.value = v]
  /\ flags' = {}
  /\ stage' = "robustness"
  /\ UNCHANGED <<market, round, seen, tail, oos, sharpe, whole, warnings, verdict, longTerm>>

\* TunerAgent.handle: the best value replaces the present one if it scores 5 %
\* more on the in-sample bars; then the split is tested anew, which leaves no
\* metrics if the tuned strategy does not compile.
Tune ==
  /\ stage = "tune" /\ param # NoParameter
  /\ LET cut == InSampleCut(Bars[market])
     IN  /\ \E inSample \in Landscapes : \E tried \in SUBSET Samples(param) :
              LET land == InSampleScores(inSample, cut)
              IN  \E best \in Best(param, tried, land) :
                    /\ param' = IF 100 * land[best] > 105 * land[param.value]
                                THEN [param EXCEPT !.value = best] ELSE param
                    /\ flags' \in Stability(land[best])
         /\ seen' = [seen EXCEPT ![market] = IF @ > cut THEN @ ELSE cut]
  /\ \/ SplitBacktest(param')
     \/ oos' = NoMetrics /\ sharpe' = 0 /\ tail' = tail
  /\ stage' = "robustness"
  /\ UNCHANGED <<market, round, whole, warnings, verdict, longTerm>>

\* Mutant of Perturbed: one step up, within the bounds.
PerturbedUp(p) == {p.value} \cup ({p.value + 1} \cap (p.low .. p.high))

\* RobustnessAgent._sensitivity: the parameter 15 % down and up, rounded and
\* kept within its bounds.
Perturbed(p) ==
  {LET v == RoundDiv(p.value * percent, 100)
   IN  IF v < p.low THEN p.low ELSE IF v > p.high THEN p.high ELSE v : percent \in {85, 115}}

\* A parameter is a spike if a perturbed one keeps less than 60 % of its score.
Sensitivity ==
  IF param # NoParameter /\ whole[param.value] > 0
       /\ \E v \in Perturbed(param) : 10 * whole[v] < 6 * whole[param.value]
    THEN {"spike"} ELSE {}

\* walk_forward: the folds of 200 bars or more there are, or none at all.
Walks == Bars[market] - WarmupOf(param) >= Folds * FoldBars

\* The flags the other tests can raise: half of the folds lose or one is badly
\* negative; double costs leave no profit; three of ten reordered runs of at
\* least ten trades lose.
WalkForward == IF Walks THEN SUBSET {"folds", "era"} ELSE {{}}
CostStress == SUBSET {"costs"}
MonteCarlo == SUBSET {"orderings"}

\* RobustnessAgent.handle.  A test that has too little to work on raises no flag.
Robustness ==
  /\ stage = "robustness"
  /\ \E folds \in WalkForward, costs \in CostStress, orderings \in MonteCarlo :
       flags' = flags \cup folds \cup costs \cup orderings \cup Sensitivity
  /\ stage' = "risk"
  /\ UNCHANGED <<market, param, round, seen, tail, sharpe, oos, whole, warnings, verdict, longTerm>>

\* RiskAgent.handle: the loss streak to plan for is at least the observed one.
Risk ==
  /\ stage = "risk"
  /\ \E streak \in BOOLEAN :
       warnings' = (IF oos.exp <= 0 THEN {"expectancy"} ELSE {})
                     \cup (IF streak THEN {"streak"} ELSE {})
                     \cup (IF oos.trades \in 1 .. 29 THEN {"thin"} ELSE {})
  /\ stage' = "judge"
  /\ UNCHANGED <<market, param, round, seen, tail, sharpe, oos, whole, flags,
                 verdict, longTerm>>

\* JudgeAgent.handle; of the messages that reach it none carries a target.
Judge ==
  /\ stage = "judge"
  /\ verdict' = VerdictOf(oos, sharpe, flags, warnings, WithTarget(Bar, 0))
  /\ longTerm' = (verdict' = "PASS" /\ flags = {} /\ Walks /\ oos.exp > 0)
  /\ stage' = "judged"
  /\ UNCHANGED <<market, param, round, seen, tail, sharpe, oos, whole, flags, warnings>>

\* A cell of the sweep or a deep tune looks at an in-sample part of 400 bars or more.
Swept(m) == IF InSampleCut(Bars[m]) >= CellBars THEN InSampleCut(Bars[m]) ELSE 0

\* _deep_tune: the parameters a random search may end at.
DeepTuned(p) ==
  IF p = NoParameter THEN {p} ELSE {[p EXCEPT !.value = v] : v \in Samples(p)}

\* Mutant of Promote: the deep tune samples one value too many.
PromoteBeyond ==
  /\ stage = "judged" /\ ~NoEdge(oos) /\ round < MaxRounds
  /\ param # NoParameter
  /\ \E v \in param.low .. param.high + 1 : param' = [param EXCEPT !.value = v]
  /\ round' = round + 1
  /\ stage' = "test"
  /\ UNCHANGED <<market, seen, tail, sharpe, oos, whole, flags, warnings, verdict, longTerm>>

\* ChampionAgent.handle: a strategy that scored is swept over every market, put
\* on one where it is usable, tuned there in depth and tested from the start.
Promote ==
  /\ stage = "judged" /\ ~NoEdge(oos) /\ round < MaxRounds
  /\ seen' = [m \in Markets |-> IF Swept(m) > seen[m] THEN Swept(m) ELSE seen[m]]
  /\ market' \in {m \in Markets : Swept(m) > 0}
  /\ param' \in DeepTuned(param)
  /\ whole' \in Landscapes
  /\ round' = round + 1
  /\ stage' = "test"
  /\ flags' = {} /\ warnings' = {} /\ verdict' = "" /\ longTerm' = FALSE
  /\ tail' = 0 /\ oos' = NoMetrics /\ sharpe' = 0

Next == Test \/ PassThrough \/ Tune \/ Robustness \/ Risk \/ Judge \/ Promote

Spec == Init /\ [][Next]_vars

-----------------------------------------------------------------------------
\* The types of the variables.
TypeOK ==
  /\ stage \in {"test", "tune", "robustness", "risk", "judge", "judged", "failed"}
  /\ market \in Markets
  /\ param = NoParameter \/ param.value \in param.low .. param.high
  /\ round \in 0 .. MaxRounds
  /\ seen \in [Markets -> Nat] /\ tail \in Nat
  /\ flags \subseteq {"lucky", "spike", "folds", "era", "costs", "orderings"}
  /\ warnings \subseteq {"expectancy", "streak", "thin"}
  /\ verdict \in {"", "PASS", "BORDERLINE", "REJECT"} /\ longTerm \in BOOLEAN

\* The bars that chose the parameters and the market of a strategy lie before
\* the tail it is judged on: "the tuner never sees past this" (validate.py:220),
\* "the sweep only ever sees in-sample data" (sweep.py:8).  The tuner and the
\* sweep cut at a share of all bars, the engine at a share of the bars after a
\* warm-up that itself depends on the parameter that was chosen.
SelectionStopsBeforeTail == stage \notin {"test", "failed"} => seen[market] <= tail

\* A target profit factor never makes a verdict better (validate.py:673-676: "it
\* only ever raises the global bar"), and of two strategies that differ in their
\* out-of-sample metrics alone the one that is no worse in any of them is never
\* judged worse, near misses, vetoes and the retention of the Sharpe ratio
\* included.
Better(a, b) ==
  /\ a.sharpe >= b.sharpe /\ a.pf >= b.pf /\ a.dd <= b.dd
  /\ a.trades >= b.trades /\ a.exp >= b.exp /\ a.monthly >= b.monthly

VerdictIsMonotone ==
  stage = "judged" =>
    /\ \A t \in Targets :
         Grade(VerdictOf(oos, sharpe, flags, warnings, WithTarget(Bar, t))) <= Grade(verdict)
    /\ \A m \in Metrics : Better(oos, m) =>
         Grade(VerdictOf(m, sharpe, flags, warnings, Bar)) <= Grade(verdict)

\* A parameter of 4 or more whose neighbours all lose 40 % of its score does not
\* pass, whatever bound it sits at (validate.py:487-520).  Below 4 the 15 % round
\* to nothing.
SpikesDoNotPass ==
  stage = "judged" /\ param # NoParameter /\ param.value >= 4 /\ whole[param.value] > 0
    /\ (\A v \in (param.low .. param.high) \ {param.value} : 10 * whole[v] < 6 * whole[param.value])
    => verdict # "PASS"

\* What ships was measured: the metrics behind a PASS or BORDERLINE are those of
\* the parameters the strategy has, on an out-of-sample part of 50 bars or more
\* that begins where the warm-up of those parameters puts it
\* (validate.py:250-252, "Final verdict input is always a fresh split").
ShipsWhatWasMeasured ==
  verdict \in {"PASS", "BORDERLINE"} =>
    /\ tail = SplitAt(Bars[market], WarmupOf(param))
    /\ Bars[market] - tail >= MinBars

=============================================================================

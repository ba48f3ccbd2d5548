------------------------------ MODULE Verdict ------------------------------
(***************************************************************************)
(* The judge's arithmetic (agents/validate.py, JudgeAgent) and the fitness *)
(* it is fed with (backtest/metrics.py).  Sharpe ratios, profit factors,   *)
(* percentages and R multiples are in hundredths, the ratio of a value to  *)
(* its threshold in thousandths.                                           *)
(***************************************************************************)
EXTENDS Integers

\* round() to the nearest integer, a tie to the even one.
RoundDiv(a, b) ==
  LET q == a \div b
      r == 2 * (a % b)
  IN  IF r > b \/ (r = b /\ q % 2 = 1) THEN q + 1 ELSE q

\* What the checks read when a backtest left no metrics.
NoMetrics == [sharpe |-> 0, pf |-> 0, dd |-> 10000, trades |-> 0, exp |-> 0, monthly |-> 0]

\* robust_score is 0: there is no edge.
NoEdge(m) == m.trades = 0 \/ m.sharpe <= 0 \/ m.pf <= 100

Gates(bar) ==
  {"sharpe", "pf", "drawdown", "trades", "expectancy", "retention"}
    \cup (IF bar.monthly > 0 THEN {"monthly"} ELSE {})

\* The value and the threshold of a gate; that of retention is a quotient.
Value(g, m) ==
  CASE g = "sharpe" -> m.sharpe [] g = "pf" -> m.pf [] g = "drawdown" -> m.dd
    [] g = "trades" -> m.trades [] g = "expectancy" -> m.exp [] OTHER -> m.monthly

Threshold(g, bar) ==
  CASE g = "sharpe" -> bar.sharpe [] g = "pf" -> bar.pf [] g = "drawdown" -> bar.dd
    [] g = "trades" -> bar.trades [] g = "expectancy" -> bar.exp [] OTHER -> bar.monthly

\* check: value over threshold, or threshold over value, cut off at 0 and 3.
Quotient(a, b) ==
  IF b = 0 THEN 1000 ELSE IF a <= 0 THEN 0 ELSE IF a > 3 * b THEN 3000 ELSE RoundDiv(1000 * a, b)

Clears(g, m, isSharpe, bar) ==
  CASE g = "drawdown" -> m.dd <= bar.dd
    [] g = "retention" -> IF isSharpe > 0 THEN 100 * m.sharpe >= bar.retention * isSharpe
                          ELSE bar.retention <= 0
    [] OTHER -> Value(g, m) >= Threshold(g, bar)

RatioTo(g, m, isSharpe, bar) ==
  CASE g = "drawdown" -> Quotient(bar.dd, m.dd)
    [] g = "retention" -> IF bar.retention = 0 THEN 1000
                          ELSE IF isSharpe > 0 THEN Quotient(100 * m.sharpe, bar.retention * isSharpe) ELSE 0
    [] OTHER -> Quotient(Value(g, m), Threshold(g, bar))

\* The flags that veto.
BlockingFlags == {"costs", "orderings"}

\* JudgeAgent.handle: a failed gate that is no near miss, or a blocking flag,
\* rejects; any other failure, flag or warning costs the PASS.
VerdictOf(m, isSharpe, flags, warnings, bar) ==
  LET failed == {g \in Gates(bar) : ~Clears(g, m, isSharpe, bar)}
      hard == {g \in failed : RatioTo(g, m, isSharpe, bar) < 1000 - bar.band}
  IN  IF hard # {} \/ flags \cap BlockingFlags # {} THEN "REJECT"
      ELSE IF failed \cup flags \cup warnings # {} THEN "BORDERLINE"
      ELSE "PASS"

\* Mutant of WithTarget: the campaign's own target, higher or lower.
WithTargetAsked(bar, target) == IF target = 0 THEN bar ELSE [bar EXCEPT !.pf = target]

\* A campaign's target profit factor (0: none) raises the bar.
WithTarget(bar, target) ==
  IF target = 0 THEN bar ELSE [bar EXCEPT !.pf = IF @ > target THEN @ ELSE target]

Grade(verdict) == CASE verdict = "PASS" -> 2 [] verdict = "BORDERLINE" -> 1 [] OTHER -> 0
=============================================================================

-------------------------- MODULE Evaluation_proofs --------------------------
(***************************************************************************)
(* What Evaluation promises for any markets, histories, warm-ups, metrics, *)
(* landscapes, thresholds and targets.                                     *)
(***************************************************************************)
EXTENDS Evaluation, TLAPS

-----------------------------------------------------------------------------
(* The cuts *)

\* The warm-up that the tuner's cut ignores moves the engine's cut up by at least
\* as much as it takes from the share.
LEMMA Shares ==
  ASSUME NEW x \in Nat, NEW y \in Nat, NEW w \in Nat, y <= 100 * w
  PROVE  x \div 100 <= w + (x - y) \div 100
OBVIOUS

LEMMA Cuts ==
  ASSUME NEW n \in Nat, NEW w \in Nat, w < n
  PROVE  /\ InSampleCut(n) \in Nat
         /\ SplitAt(n, w) \in Nat
         /\ InSampleCut(n) <= SplitAt(n, w)
<1> DEFINE k == 100 - OosPercent
<1>1. k \in 1 .. 99
  BY EvaluationAssumption
<1> HIDE DEF k
<1>2. n * k \in Nat /\ w * k \in Nat /\ (n - w) * k \in Nat
  BY <1>1
<1>3. w * k <= 100 * w
  BY <1>1
<1>4. (n - w) * k = n * k - w * k
  BY <1>1
<1>5. (n * k) \div 100 <= w + (n * k - w * k) \div 100
  BY <1>2, <1>3, Shares
<1>6. (n * k) \div 100 \in Nat /\ ((n - w) * k) \div 100 \in Nat
  BY <1>2
<1> QED
  BY <1>4, <1>5, <1>6 DEF InSampleCut, SplitAt, k

-----------------------------------------------------------------------------
(* The judge's arithmetic *)

LEMMA RoundsUpward ==
  ASSUME NEW x \in Nat, NEW y \in Nat, NEW b \in Nat \ {0}, x <= y
  PROVE  /\ RoundDiv(x, b) \in Nat
         /\ RoundDiv(x, b) <= RoundDiv(y, b)
<1> DEFINE p == x \div b
           q == y \div b
<1>1. p \in Nat /\ q \in Nat /\ x % b \in 0 .. b - 1 /\ y % b \in 0 .. b - 1
  OBVIOUS
<1>2. x = b * p + (x % b) /\ y = b * q + (y % b)
  OBVIOUS
<1>3. p <= q
  <2>1. SUFFICES ASSUME q + 1 <= p PROVE FALSE
    BY <1>1
  <2>2. b * (q + 1) <= b * p
    BY <1>1, <2>1
  <2> QED
    BY <1>1, <1>2, <2>2
<1>4. p = q => x % b <= y % b
  BY <1>1, <1>2
<1> HIDE DEF p, q
<1>5. /\ RoundDiv(x, b) = IF 2 * (x % b) > b \/ (2 * (x % b) = b /\ p % 2 = 1) THEN p + 1 ELSE p
      /\ RoundDiv(y, b) = IF 2 * (y % b) > b \/ (2 * (y % b) = b /\ q % 2 = 1) THEN q + 1 ELSE q
  BY DEF RoundDiv, p, q
<1> QED
  BY <1>1, <1>3, <1>4, <1>5

LEMMA RoundsDownward ==
  ASSUME NEW x \in Nat, NEW a \in Nat \ {0}, NEW b \in Nat \ {0}, a <= b
  PROVE  RoundDiv(x, b) <= RoundDiv(x, a)
<1> DEFINE p == x \div a
           q == x \div b
<1>1. p \in Nat /\ q \in Nat /\ x % a \in 0 .. a - 1 /\ x % b \in 0 .. b - 1
  OBVIOUS
<1>2. x = a * p + (x % a) /\ x = b * q + (x % b)
  OBVIOUS
<1>3. a * q <= b * q
  BY <1>1
<1>4. q <= p
  <2>1. SUFFICES ASSUME p + 1 <= q PROVE FALSE
    BY <1>1
  <2>2. a * (p + 1) <= a * q
    BY <1>1, <2>1
  <2> QED
    BY <1>1, <1>2, <1>3, <2>2
<1>5. p = q => x % b <= x % a
  BY <1>1, <1>2, <1>3
<1> HIDE DEF p, q
<1>6. /\ RoundDiv(x, a) = IF 2 * (x % a) > a \/ (2 * (x % a) = a /\ p % 2 = 1) THEN p + 1 ELSE p
      /\ RoundDiv(x, b) = IF 2 * (x % b) > b \/ (2 * (x % b) = b /\ q % 2 = 1) THEN q + 1 ELSE q
  BY DEF RoundDiv, p, q
<1> QED
  BY <1>1, <1>4, <1>5, <1>6

\* Nothing below three times the threshold rounds to more than 3.
LEMMA RoundsToThree ==
  ASSUME NEW x \in Nat, NEW b \in Nat \ {0}, x <= 3000 * b
  PROVE  RoundDiv(x, b) <= 3000
<1>1. (3000 * b) \div b = 3000 /\ (3000 * b) % b = 0
  OBVIOUS
<1>2. RoundDiv(3000 * b, b) = 3000
  BY <1>1 DEF RoundDiv
<1> QED
  BY <1>2, RoundsUpward

\* The ratio of a value to its threshold rises with the value.
LEMMA QuotientRises ==
  ASSUME NEW a \in Int, NEW c \in Int, NEW b \in Nat, a <= c
  PROVE  Quotient(a, b) \in Nat /\ Quotient(a, b) <= Quotient(c, b)
<1>1. CASE b = 0
  BY <1>1 DEF Quotient
<1>2. CASE b > 0 /\ a <= 0
  BY <1>2, RoundsUpward DEF Quotient
<1>3. CASE b > 0 /\ a > 0
  <2>1. a \in Nat /\ c \in Nat /\ 1000 * a <= 1000 * c
    BY <1>3
  <2>2. RoundDiv(1000 * a, b) \in Nat /\ RoundDiv(1000 * c, b) \in Nat
        /\ RoundDiv(1000 * a, b) <= RoundDiv(1000 * c, b)
    BY <1>3, <2>1, RoundsUpward
  <2>3. a <= 3 * b => RoundDiv(1000 * a, b) <= 3000
    BY <1>3, <2>1, RoundsToThree
  <2> QED
    BY <1>3, <2>1, <2>2, <2>3 DEF Quotient
<1> QED
  BY <1>1, <1>2, <1>3

\* It falls with the threshold, except that a threshold of 0 counts as met.
LEMMA QuotientFalls ==
  ASSUME NEW a \in Int, NEW b \in Nat \ {0}, NEW c \in Nat, b <= c
  PROVE  Quotient(a, c) <= Quotient(a, b)
<1>1. CASE a <= 0
  BY <1>1 DEF Quotient
<1>2. CASE a > 0
  <2>1. RoundDiv(1000 * a, b) \in Nat /\ RoundDiv(1000 * a, c) \in Nat
        /\ RoundDiv(1000 * a, c) <= RoundDiv(1000 * a, b)
    BY <1>2, RoundsUpward, RoundsDownward
  <2>2. a <= 3 * c => RoundDiv(1000 * a, c) <= 3000
    BY <1>2, RoundsToThree
  <2> QED
    BY <1>2, <2>1, <2>2 DEF Quotient
<1> QED
  BY <1>1, <1>2

-----------------------------------------------------------------------------
(* The judge *)

Metric == [sharpe : Int, pf : Nat, dd : Nat, trades : Nat, exp : Int, monthly : Int]
Thresholds == [sharpe : Nat, pf : Nat, dd : Nat, trades : Nat \ {0}, exp : Nat, retention : Nat,
               monthly : Nat, band : 0 .. 999]

LEMMA GateNames ==
  ASSUME NEW bar \in Thresholds, NEW g \in Gates(bar)
  PROVE  g \in {"sharpe", "pf", "drawdown", "trades", "expectancy", "retention", "monthly"}
BY DEF Gates

LEMMA Retention ==
  ASSUME NEW m \in Metric, NEW s \in Int, s > 0, NEW bar \in Thresholds
  PROVE  100 * m.sharpe \in Int /\ bar.retention * s \in Nat
<1>1. bar.retention \in Nat /\ s \in Nat
  BY DEF Thresholds
<1> QED
  BY <1>1 DEF Metric

LEMMA RatioType ==
  ASSUME NEW m \in Metric, NEW s \in Int, NEW bar \in Thresholds, NEW g \in Gates(bar)
  PROVE  RatioTo(g, m, s, bar) \in Nat
<1>1. \A a \in Int, b \in Nat : Quotient(a, b) \in Nat
  BY QuotientRises
<1>2. /\ Value(g, m) \in Int
      /\ g \notin {"drawdown", "retention"} => Threshold(g, bar) \in Nat
      /\ bar.dd \in Int /\ m.dd \in Nat
  BY GateNames DEF Value, Threshold, Metric, Thresholds
<1>3. s > 0 => Quotient(100 * m.sharpe, bar.retention * s) \in Nat
  BY <1>1, Retention
<1> QED
  BY <1>1, <1>2, <1>3, GateNames DEF RatioTo

\* A gate that the better metrics fail the others fail by at least as much.
LEMMA GatesFollowMetrics ==
  ASSUME NEW a \in Metric, NEW b \in Metric, Better(a, b), NEW s \in Int,
         NEW bar \in Thresholds, NEW g \in Gates(bar), ~Clears(g, a, s, bar)
  PROVE  ~Clears(g, b, s, bar) /\ RatioTo(g, b, s, bar) <= RatioTo(g, a, s, bar)
<1>1. CASE g = "drawdown"
  <2>1. a.dd \in Nat \ {0} /\ b.dd \in Nat /\ a.dd <= b.dd /\ bar.dd \in Int
        /\ ~(a.dd <= bar.dd)
    BY <1>1 DEF Clears, Better, Metric, Thresholds
  <2>2. Quotient(bar.dd, b.dd) <= Quotient(bar.dd, a.dd)
    BY <2>1, QuotientFalls
  <2> QED
    BY <1>1, <2>1, <2>2 DEF Clears, RatioTo, Thresholds
<1>2. CASE g = "retention"
  <2>1. CASE s > 0
    <3> DEFINE x == 100 * a.sharpe
               y == 100 * b.sharpe
               z == bar.retention * s
    <3>1. x \in Int /\ y \in Int /\ z \in Nat /\ y <= x
      <4>1. a.sharpe \in Int /\ b.sharpe \in Int /\ a.sharpe >= b.sharpe
        BY DEF Better, Metric
      <4> QED
        BY <2>1, <4>1, Retention
    <3>2. ~(x >= z)
      BY <1>2, <2>1 DEF Clears
    <3>3. Quotient(y, z) <= Quotient(x, z)
      BY <3>1, QuotientRises
    <3>4. ~(y >= z)
      <4> HIDE DEF x, y, z
      <4> QED
        BY <3>1, <3>2
    <3>5. /\ ~Clears(g, b, s, bar)
          /\ RatioTo(g, b, s, bar) = IF bar.retention = 0 THEN 1000 ELSE Quotient(y, z)
          /\ RatioTo(g, a, s, bar) = IF bar.retention = 0 THEN 1000 ELSE Quotient(x, z)
      BY <1>2, <2>1, <3>4 DEF Clears, RatioTo
    <3> QED
      BY <3>3, <3>5
  <2>2. CASE ~(s > 0)
    BY <1>2, <2>2 DEF Clears, RatioTo
  <2> QED
    BY <2>1, <2>2
<1>3. CASE g \notin {"drawdown", "retention"}
  <2> DEFINE x == Value(g, a)
             y == Value(g, b)
             z == Threshold(g, bar)
  <2>1. x \in Int /\ y \in Int /\ z \in Nat /\ y <= x
    BY <1>3, GateNames DEF Value, Threshold, Better, Metric, Thresholds
  <2>2. ~(x >= z)
    BY <1>3 DEF Clears
  <2>3. Quotient(y, z) <= Quotient(x, z)
    BY <2>1, QuotientRises
  <2> QED
    BY <1>3, <2>1, <2>2, <2>3 DEF Clears, RatioTo
<1> QED
  BY <1>1, <1>2, <1>3

\* A gate that is failed is failed by at least as much when a target is added.
LEMMA GatesFollowTarget ==
  ASSUME NEW m \in Metric, NEW s \in Int, NEW bar \in Thresholds, NEW t \in Nat,
         NEW g \in Gates(bar), ~Clears(g, m, s, bar)
  PROVE  /\ ~Clears(g, m, s, WithTarget(bar, t))
         /\ RatioTo(g, m, s, WithTarget(bar, t)) <= RatioTo(g, m, s, bar)
<1> DEFINE high == WithTarget(bar, t)
<1>1. /\ high.pf \in Nat /\ bar.pf <= high.pf
      /\ \A f \in {"sharpe", "dd", "trades", "exp", "retention", "monthly", "band"} : high[f] = bar[f]
  BY DEF WithTarget, Thresholds
<1>2. /\ high.sharpe = bar.sharpe /\ high.dd = bar.dd /\ high.trades = bar.trades /\ high.exp = bar.exp
      /\ high.retention = bar.retention /\ high.monthly = bar.monthly
  BY <1>1
<1> HIDE DEF high
<1>3. CASE g = "pf"
  <2>1. m.pf \in Nat /\ bar.pf \in Nat \ {0} /\ ~(m.pf >= bar.pf)
    BY <1>3 DEF Clears, Value, Threshold, Metric, Thresholds
  <2>2. Quotient(m.pf, high.pf) <= Quotient(m.pf, bar.pf)
    BY <1>1, <2>1, QuotientFalls
  <2> QED
    BY <1>1, <1>3, <2>1, <2>2 DEF Clears, RatioTo, Value, Threshold, high
<1>4. CASE g # "pf"
  <2>1. /\ Clears(g, m, s, high) = Clears(g, m, s, bar)
        /\ RatioTo(g, m, s, high) = RatioTo(g, m, s, bar)
    BY <1>2, <1>4 DEF Clears, RatioTo, Threshold, Value
  <2> QED
    BY <2>1, RatioType DEF high
<1> QED
  BY <1>3, <1>4

\* A verdict is no better where every failed gate is failed by at least as much.
LEMMA GradesFollowGates ==
  ASSUME NEW m \in Metric, NEW n \in Metric, NEW s \in Int, NEW fl, NEW wa,
         NEW bar \in Thresholds, NEW high \in Thresholds,
         Gates(high) = Gates(bar), high.band = bar.band,
         \A g \in Gates(bar) : ~Clears(g, m, s, bar) =>
            ~Clears(g, n, s, high) /\ RatioTo(g, n, s, high) <= RatioTo(g, m, s, bar)
  PROVE  Grade(VerdictOf(n, s, fl, wa, high)) <= Grade(VerdictOf(m, s, fl, wa, bar))
<1> DEFINE failed(x, b) == {g \in Gates(b) : ~Clears(g, x, s, b)}
           hard(x, b) == {g \in failed(x, b) : RatioTo(g, x, s, b) < 1000 - b.band}
<1>1. failed(m, bar) \subseteq failed(n, high)
  OBVIOUS
<1>2. hard(m, bar) \subseteq hard(n, high)
  <2>1. SUFFICES ASSUME NEW g \in hard(m, bar) PROVE g \in hard(n, high)
    OBVIOUS
  <2>2. g \in Gates(bar) /\ ~Clears(g, m, s, bar) /\ RatioTo(g, m, s, bar) < 1000 - bar.band
    BY <2>1
  <2>3. RatioTo(g, m, s, bar) \in Nat /\ bar.band \in 0 .. 999
    <3> HIDE DEF failed, hard
    <3> QED
      BY <2>2, RatioType DEF Thresholds
  <2>4. g \in Gates(high) /\ ~Clears(g, n, s, high)
        /\ RatioTo(g, n, s, high) <= RatioTo(g, m, s, bar) /\ RatioTo(g, n, s, high) \in Nat
    <3> HIDE DEF failed, hard
    <3> QED
      BY <2>2, RatioType
  <2>5. RatioTo(g, n, s, high) < 1000 - high.band
    <3> HIDE DEF failed, hard
    <3> QED
      BY <2>2, <2>3, <2>4
  <2> QED
    BY <2>4, <2>5
<1>3. /\ VerdictOf(m, s, fl, wa, bar) =
           IF hard(m, bar) # {} \/ fl \cap BlockingFlags # {} THEN "REJECT"
           ELSE IF failed(m, bar) \cup fl \cup wa # {} THEN "BORDERLINE" ELSE "PASS"
      /\ VerdictOf(n, s, fl, wa, high) =
           IF hard(n, high) # {} \/ fl \cap BlockingFlags # {} THEN "REJECT"
           ELSE IF failed(n, high) \cup fl \cup wa # {} THEN "BORDERLINE" ELSE "PASS"
  BY DEF VerdictOf
<1> HIDE DEF failed, hard
<1>4. \/ VerdictOf(n, s, fl, wa, high) = VerdictOf(m, s, fl, wa, bar)
      \/ VerdictOf(n, s, fl, wa, high) = "REJECT"
      \/ (VerdictOf(m, s, fl, wa, bar) = "PASS" /\ VerdictOf(n, s, fl, wa, high) = "BORDERLINE")
  <2>1. CASE hard(n, high) # {} \/ fl \cap BlockingFlags # {}
    BY <1>3, <2>1
  <2>2. CASE ~(hard(n, high) # {} \/ fl \cap BlockingFlags # {}) /\ failed(n, high) \cup fl \cup wa # {}
    BY <1>2, <1>3, <2>2
  <2>3. CASE ~(hard(n, high) # {} \/ fl \cap BlockingFlags # {}) /\ failed(n, high) \cup fl \cup wa = {}
    BY <1>1, <1>2, <1>3, <2>3
  <2> QED
    BY <2>1, <2>2, <2>3
<1> QED
  BY <1>4 DEF Grade

LEMMA NoMetricsType == NoMetrics \in Metric /\ Metrics \subseteq Metric /\ Bar \in Thresholds
BY JudgeAssumption DEF NoMetrics, Metric, Thresholds

LEMMA TargetType ==
  ASSUME NEW bar \in Thresholds, NEW t \in Nat
  PROVE  /\ WithTarget(bar, t) \in Thresholds /\ Gates(WithTarget(bar, t)) = Gates(bar)
         /\ WithTarget(bar, t).band = bar.band /\ WithTarget(bar, 0) = bar
BY DEF WithTarget, Thresholds, Gates

\* Without metrics there were no trades, and that is no near miss.
LEMMA NoMetricsAreRejected ==
  ASSUME NEW s \in Int, NEW fl, NEW wa
  PROVE  VerdictOf(NoMetrics, s, fl, wa, Bar) = "REJECT"
<1>1. Bar.trades \in Nat \ {0} /\ Bar.band \in 0 .. 999
  BY JudgeAssumption
<1>2. "trades" \in Gates(Bar) /\ ~Clears("trades", NoMetrics, s, Bar)
  BY <1>1 DEF Gates, Clears, Value, Threshold, NoMetrics
<1>3. RatioTo("trades", NoMetrics, s, Bar) = 0
  BY <1>1 DEF RatioTo, Value, Threshold, NoMetrics, Quotient
<1> QED
  BY <1>1, <1>2, <1>3 DEF VerdictOf

-----------------------------------------------------------------------------
(* Types *)

Fits(p) ==
  p # NoParameter =>
    /\ p \in [value : Int, low : Int, high : Int]
    /\ p.low < p.high /\ p.value \in p.low .. p.high
    /\ p.low .. p.high \subseteq DOMAIN Warmup

\* What the variables hold beyond TypeOK.
Typed ==
  /\ TypeOK
  /\ Fits(param)
  /\ oos \in Metrics \cup {NoMetrics} /\ sharpe \in InSample \cup {0}

LEMMA WarmupType ==
  ASSUME Fits(param), NEW m \in Markets
  PROVE  WarmupOf(param) \in Nat /\ WarmupOf(param) < Bars[m]
BY EvaluationAssumption DEF WarmupOf, Fits

LEMMA VerdictNames ==
  ASSUME NEW m, NEW s, NEW fl, NEW wa, NEW bar
  PROVE  VerdictOf(m, s, fl, wa, bar) \in {"PASS", "BORDERLINE", "REJECT"}
BY DEF VerdictOf

LEMMA CutType == \A m \in Markets : InSampleCut(Bars[m]) \in Nat /\ Bars[m] \in Nat
<1>1. \A m \in Markets : Bars[m] \in Nat /\ Warmup[0] \in Nat /\ Warmup[0] < Bars[m]
  BY EvaluationAssumption
<1> QED
  BY <1>1, Cuts

LEMMA SplitType ==
  ASSUME Fits(param)', market \in Markets, UNCHANGED market, SplitBacktest(param')
  PROVE  /\ tail' \in Nat /\ tail' = SplitAt(Bars[market], WarmupOf(param'))
         /\ InSampleCut(Bars[market]) <= tail'
         /\ oos' = NoMetrics \/ (oos' \in Metrics /\ Bars[market] - tail' >= MinBars)
         /\ sharpe' \in InSample \cup {0}
<1>1. WarmupOf(param') \in Nat /\ WarmupOf(param') < Bars[market] /\ Bars[market] \in Nat
  <2>1. Bars[market] \in Nat /\ Warmup[0] \in Nat /\ Warmup[0] < Bars[market]
    BY EvaluationAssumption
  <2>2. param' # NoParameter => param'.value \in DOMAIN Warmup
    BY DEF Fits
  <2> QED
    BY <2>1, <2>2, EvaluationAssumption DEF WarmupOf
<1>2. SplitAt(Bars[market], WarmupOf(param')) \in Nat
      /\ InSampleCut(Bars[market]) <= SplitAt(Bars[market], WarmupOf(param'))
  BY <1>1, Cuts
<1>3. tail' = SplitAt(Bars[market], WarmupOf(param'))
  BY DEF SplitBacktest
<1>4. oos' = NoMetrics \/ (oos' \in Metrics /\ ~(Bars[market] - tail' < MinBars))
  BY <1>3 DEF SplitBacktest
<1>5. sharpe' \in InSample \cup {0}
  BY DEF SplitBacktest
<1> QED
  BY <1>1, <1>2, <1>3, <1>4, <1>5 DEF MinBars

\* What the deep tune and the tuner may put in a parameter's place.
LEMMA ChangedFits ==
  ASSUME NEW p, Fits(p), p # NoParameter, NEW v \in p.low .. p.high
  PROVE  [p EXCEPT !.value = v] # NoParameter => Fits([p EXCEPT !.value = v])
BY DEF Fits

LEMMA ChangesFit ==
  ASSUME NEW p, Fits(p), NEW q \in DeepTuned(p)
  PROVE  Fits(q)
<1>1. CASE p = NoParameter
  BY <1>1 DEF DeepTuned
<1>2. CASE p # NoParameter
  <2>1. PICK v \in p.low .. p.high : q = [p EXCEPT !.value = v]
    BY <1>2 DEF DeepTuned, Samples
  <2> QED
    BY <1>2, <2>1, ChangedFits DEF Fits
<1> QED
  BY <1>1, <1>2

\* The parameter the tuner leaves: the present one or the best of its samples.
LEMMA TunedFits ==
  ASSUME Typed, Tune
  PROVE  Fits(param)'
<1> DEFINE cut == InSampleCut(Bars[market])
<1>1. PICK inSample \in Landscapes, tried \in SUBSET Samples(param) :
        \E best \in Best(param, tried, InSampleScores(inSample, cut)) :
          param' = IF 100 * InSampleScores(inSample, cut)[best]
                        > 105 * InSampleScores(inSample, cut)[param.value]
                   THEN [param EXCEPT !.value = best] ELSE param
  BY DEF Tune
<1>2. PICK best \in Best(param, tried, InSampleScores(inSample, cut)) :
        param' = param \/ param' = [param EXCEPT !.value = best]
  BY <1>1
<1>3. param # NoParameter /\ Fits(param)
  BY DEF Tune, Typed
<1>4. best \in param.low .. param.high
  BY <1>3 DEF Best, Samples, Fits
<1>5. CASE param' = param
  BY <1>3, <1>5 DEF Fits
<1>6. CASE param' = [param EXCEPT !.value = best]
  BY <1>3, <1>4, <1>6 DEF Fits
<1> QED
  BY <1>2, <1>5, <1>6

LEMMA RoundType == MaxRounds \in Nat
BY EvaluationAssumption

LEMMA TypedInit == Init => Typed
<1> SUFFICES ASSUME Init PROVE Typed
  OBVIOUS
<1>1. Fits(param)
  BY EvaluationAssumption DEF Init, Fits
<1>2. param = NoParameter \/ param.value \in param.low .. param.high
  BY <1>1 DEF Fits
<1>3. round \in 0 .. MaxRounds
  <2>1. round = 0
    BY DEF Init
  <2> QED
    BY <2>1, RoundType
<1>4. /\ stage = "test" /\ market \in Markets /\ seen \in [Markets -> Nat] /\ tail \in Nat
      /\ flags = {} /\ warnings = {} /\ verdict = "" /\ longTerm = FALSE
      /\ sharpe = 0 /\ oos = NoMetrics
  BY DEF Init
<1> QED
  BY <1>1, <1>2, <1>3, <1>4 DEF Typed, TypeOK

LEMMA TypedNext == Typed /\ [Next]_vars => Typed'
<1> SUFFICES ASSUME Typed, [Next]_vars PROVE Typed'
  OBVIOUS
<1>a. /\ Fits(param) /\ market \in Markets /\ seen \in [Markets -> Nat] /\ tail \in Nat
      /\ round \in 0 .. MaxRounds /\ MaxRounds \in Nat
      /\ flags \subseteq {"lucky", "spike", "folds", "era", "costs", "orderings"}
      /\ warnings \subseteq {"expectancy", "streak", "thin"}
      /\ verdict \in {"", "PASS", "BORDERLINE", "REJECT"} /\ longTerm \in BOOLEAN
      /\ oos \in Metrics \cup {NoMetrics} /\ sharpe \in InSample \cup {0}
  BY EvaluationAssumption DEF Typed, TypeOK
<1>b. ASSUME Fits(param)', market' = market, SplitBacktest(param')
      PROVE  tail' \in Nat /\ oos' \in Metrics \cup {NoMetrics} /\ sharpe' \in InSample \cup {0}
  <2>1. tail' \in Nat /\ (oos' = NoMetrics \/ oos' \in Metrics) /\ sharpe' \in InSample \cup {0}
    BY <1>a, <1>b, SplitType
  <2> QED
    BY <2>1
<1>c. ASSUME Fits(param)' PROVE (param = NoParameter \/ param.value \in param.low .. param.high)'
  BY <1>c DEF Fits
<1>1. CASE Test
  <2>1. param' = param /\ Fits(param)'
    BY <1>1, <1>a DEF Test, Fits
  <2>2. tail' \in Nat /\ oos' \in Metrics \cup {NoMetrics} /\ sharpe' \in InSample \cup {0}
    <3>1. CASE SplitBacktest(param)
      BY <1>1, <1>b, <2>1, <3>1 DEF Test
    <3>2. CASE UNCHANGED <<tail, oos, sharpe>>
      BY <1>a, <3>2
    <3> QED
      BY <1>1, <3>1, <3>2 DEF Test
  <2> QED
    BY <1>1, <1>a, <1>c, <2>1, <2>2 DEF Test, Typed, TypeOK
<1>2. CASE PassThrough
  <2>1. Fits(param)'
    BY <1>2, <1>a DEF PassThrough, Fits
  <2> QED
    BY <1>2, <1>a, <1>c, <2>1 DEF PassThrough, Typed, TypeOK
<1>3. CASE Tune
  <2>1. Fits(param)'
    BY <1>3, TunedFits
  <2>2. tail' \in Nat /\ oos' \in Metrics \cup {NoMetrics} /\ sharpe' \in InSample \cup {0}
    <3>1. CASE SplitBacktest(param')
      BY <1>3, <1>b, <2>1, <3>1 DEF Tune
    <3>2. CASE oos' = NoMetrics /\ sharpe' = 0 /\ tail' = tail
      BY <1>a, <3>2
    <3> QED
      BY <1>3, <3>1, <3>2 DEF Tune
  <2>3. flags' \subseteq {"lucky", "spike", "folds", "era", "costs", "orderings"}
    <3>1. \A v : Stability(v) \subseteq SUBSET {"lucky"}
      BY DEF Stability
    <3> QED
      BY <1>3, <3>1 DEF Tune
  <2>4. seen' \in [Markets -> Nat]
    BY <1>3, <1>a, CutType DEF Tune
  <2> QED
    BY <1>3, <1>a, <1>c, <2>1, <2>2, <2>3, <2>4 DEF Tune, Typed, TypeOK
<1>4. CASE Robustness
  <2>1. Fits(param)'
    BY <1>4, <1>a DEF Robustness, Fits
  <2>2. flags' \subseteq {"lucky", "spike", "folds", "era", "costs", "orderings"}
    BY <1>4, <1>a DEF Robustness, WalkForward, CostStress, MonteCarlo, Sensitivity
  <2> QED
    BY <1>4, <1>a, <1>c, <2>1, <2>2 DEF Robustness, Typed, TypeOK
<1>5. CASE Risk
  <2>1. Fits(param)'
    BY <1>5, <1>a DEF Risk, Fits
  <2>2. warnings' \subseteq {"expectancy", "streak", "thin"}
    BY <1>5 DEF Risk
  <2> QED
    BY <1>5, <1>a, <1>c, <2>1, <2>2 DEF Risk, Typed, TypeOK
<1>6. CASE Judge
  <2>1. Fits(param)'
    BY <1>6, <1>a DEF Judge, Fits
  <2>2. verdict' \in {"", "PASS", "BORDERLINE", "REJECT"} /\ longTerm' \in BOOLEAN
    BY <1>6, VerdictNames DEF Judge
  <2> QED
    BY <1>6, <1>a, <1>c, <2>1, <2>2 DEF Judge, Typed, TypeOK
<1>7. CASE Promote
  <2>1. Fits(param)'
    BY <1>7, <1>a, ChangesFit DEF Promote
  <2>2. seen' \in [Markets -> Nat] /\ market' \in Markets /\ round' \in 0 .. MaxRounds
    <3>1. \A m \in Markets : Swept(m) \in Nat
      BY CutType DEF Swept
    <3>2. seen' \in [Markets -> Nat] /\ market' \in Markets
      BY <1>7, <1>a, <3>1 DEF Promote
    <3>3. round < MaxRounds /\ round' = round + 1
      BY <1>7 DEF Promote
    <3>4. round \in 0 .. MaxRounds /\ MaxRounds \in Nat
      BY <1>a
    <3>5. round' \in 0 .. MaxRounds
      BY <3>3, <3>4
    <3> QED
      BY <3>2, <3>5
  <2> QED
    BY <1>7, <1>a, <1>c, <2>1, <2>2 DEF Promote, Typed, TypeOK
<1>8. CASE UNCHANGED vars
  <2>1. Fits(param)'
    BY <1>8, <1>a DEF vars, Fits
  <2> QED
    BY <1>8, <1>a, <1>c, <2>1 DEF vars, Typed, TypeOK
<1> QED
  BY <1>1, <1>2, <1>3, <1>4, <1>5, <1>6, <1>7, <1>8 DEF Next

\* The variables keep their types: above all the parameter stays within its
\* bounds, however often the tuner and the champion change it.
THEOREM TypeCorrect == Spec => []TypeOK
<1>1. Typed => TypeOK
  BY DEF Typed
<1> QED
  BY <1>1, TypedInit, TypedNext, PTL DEF Spec

-----------------------------------------------------------------------------
(* The selection *)

Tested == {"tune", "robustness", "risk", "judge", "judged"}

\* Whatever chose a parameter or a market stayed before the cut of its market, and
\* the part that was tested last begins at or after it.
Selected ==
  /\ \A m \in Markets : seen[m] <= InSampleCut(Bars[m])
  /\ stage \in Tested => InSampleCut(Bars[market]) <= tail

LEMMA SelectedInit == Init => Selected
<1> SUFFICES ASSUME Init PROVE Selected
  OBVIOUS
<1>1. stage \notin Tested /\ seen = [m \in Markets |-> 0]
  BY DEF Init, Tested
<1>2. \A m \in Markets : seen[m] <= InSampleCut(Bars[m])
  BY <1>1, CutType
<1> QED
  BY <1>1, <1>2 DEF Selected

LEMMA SelectedNext == Typed /\ Selected /\ [Next]_vars => Selected'
<1> SUFFICES ASSUME Typed, Selected, [Next]_vars PROVE Selected'
  OBVIOUS
<1>a. /\ Fits(param) /\ market \in Markets /\ seen \in [Markets -> Nat]
      /\ \A m \in Markets : seen[m] <= InSampleCut(Bars[m])
      /\ stage \in Tested => InSampleCut(Bars[market]) <= tail
  BY DEF Typed, TypeOK, Selected
<1>1. CASE Test
  <2>1. seen' = seen /\ market' = market /\ param' = param
    BY <1>1 DEF Test
  <2>2. CASE SplitBacktest(param)
    <3>1. Fits(param)' /\ SplitBacktest(param')
      BY <1>a, <2>1, <2>2 DEF Fits
    <3>2. InSampleCut(Bars[market]) <= tail'
      BY <1>a, <2>1, <3>1, SplitType
    <3> QED
      BY <1>a, <2>1, <3>2 DEF Selected
  <2>3. CASE stage' = "failed"
    BY <1>a, <2>1, <2>3 DEF Selected, Tested
  <2> QED
    BY <1>1, <2>2, <2>3 DEF Test
<1>2. CASE PassThrough
  BY <1>2, <1>a DEF PassThrough, Selected, Tested
<1>3. CASE Tune
  <2>1. market' = market /\ Fits(param)' /\ stage = "tune"
    BY <1>3, TunedFits DEF Tune
  <2>2. InSampleCut(Bars[market]) <= tail'
    <3>1. CASE SplitBacktest(param')
      BY <1>a, <2>1, <3>1, SplitType
    <3>2. CASE tail' = tail
      BY <1>a, <2>1, <3>2 DEF Tested
    <3> QED
      BY <1>3, <3>1, <3>2 DEF Tune
  <2>3. \A m \in Markets : seen'[m] <= InSampleCut(Bars[m])
    <3>1. seen' = [seen EXCEPT ![market] = IF @ > InSampleCut(Bars[market]) THEN @
                                           ELSE InSampleCut(Bars[market])]
      BY <1>3 DEF Tune
    <3> QED
      BY <1>a, <3>1, CutType
  <2> QED
    BY <2>1, <2>2, <2>3 DEF Selected
<1>4. CASE Robustness
  BY <1>4, <1>a DEF Robustness, Selected, Tested
<1>5. CASE Risk
  BY <1>5, <1>a DEF Risk, Selected, Tested
<1>6. CASE Judge
  BY <1>6, <1>a DEF Judge, Selected, Tested
<1>7. CASE Promote
  <2>1. \A m \in Markets : Swept(m) \in Nat /\ Swept(m) <= InSampleCut(Bars[m])
    BY CutType DEF Swept
  <2>2. \A m \in Markets : seen'[m] <= InSampleCut(Bars[m])
    <3>1. seen' = [m \in Markets |-> IF Swept(m) > seen[m] THEN Swept(m) ELSE seen[m]]
      BY <1>7 DEF Promote
    <3> QED
      BY <1>a, <2>1, <3>1
  <2>3. stage' = "test"
    BY <1>7 DEF Promote
  <2> QED
    BY <2>2, <2>3 DEF Selected, Tested
<1>8. CASE UNCHANGED vars
  BY <1>8, <1>a DEF vars, Selected, Tested
<1> QED
  BY <1>1, <1>2, <1>3, <1>4, <1>5, <1>6, <1>7, <1>8 DEF Next

LEMMA SelectedStops == Typed /\ Selected => SelectionStopsBeforeTail
<1> SUFFICES ASSUME Typed, Selected, stage \notin {"test", "failed"} PROVE seen[market] <= tail
  BY DEF SelectionStopsBeforeTail
<1>1. stage \in Tested /\ market \in Markets /\ seen[market] \in Nat /\ tail \in Nat
  BY DEF Typed, TypeOK, Tested
<1>2. seen[market] <= InSampleCut(Bars[market]) /\ InSampleCut(Bars[market]) <= tail
  BY <1>1 DEF Selected
<1> QED
  BY <1>1, <1>2, CutType

\* No bar that chose the parameters or the market of a strategy is among those it
\* is judged on, whatever the history, the warm-ups and the share held out
\* (tuner, sweep and champion cut otherwise than the engine).
THEOREM SelectionStops == Spec => []SelectionStopsBeforeTail
BY TypedInit, TypedNext, SelectedInit, SelectedNext, SelectedStops, PTL DEF Spec

-----------------------------------------------------------------------------
(* The verdict *)

\* What is known of the metrics and the verdict between the test and the promotion.
Measured ==
  /\ stage \in Tested => \/ oos = NoMetrics
                         \/ /\ tail = SplitAt(Bars[market], WarmupOf(param))
                            /\ Bars[market] - tail >= MinBars
  /\ stage = "judged" => verdict = VerdictOf(oos, sharpe, flags, warnings, Bar)
  /\ stage # "judged" => verdict = ""

LEMMA MeasuredInit == Init => Measured
BY DEF Init, Measured, Tested

LEMMA MeasuredNext == Typed /\ Measured /\ [Next]_vars => Measured'
<1> SUFFICES ASSUME Typed, Measured, [Next]_vars PROVE Measured'
  OBVIOUS
<1> DEFINE Known == \/ oos = NoMetrics
                    \/ /\ tail = SplitAt(Bars[market], WarmupOf(param))
                       /\ Bars[market] - tail >= MinBars
<1>a. /\ Fits(param) /\ market \in Markets
      /\ stage \in Tested => Known
      /\ stage # "judged" => verdict = ""
      /\ stage = "judged" => verdict = VerdictOf(oos, sharpe, flags, warnings, Bar)
  BY DEF Typed, TypeOK, Measured
<1>b. ASSUME UNCHANGED <<market, param, tail, oos>>, Known PROVE Known'
  BY <1>b DEF WarmupOf, SplitAt
<1>1. CASE Test
  <2>1. market' = market /\ param' = param /\ verdict' = verdict /\ stage = "test" /\ stage' # "judged"
    BY <1>1 DEF Test
  <2>2. CASE SplitBacktest(param)
    <3>1. Fits(param)' /\ SplitBacktest(param')
      BY <1>a, <2>1, <2>2 DEF Fits
    <3>2. /\ tail' = SplitAt(Bars[market], WarmupOf(param'))
          /\ oos' = NoMetrics \/ Bars[market] - tail' >= MinBars
      BY <1>a, <2>1, <3>1, SplitType
    <3>3. Known'
      BY <2>1, <3>2 DEF WarmupOf, SplitAt
    <3> QED
      BY <1>a, <2>1, <3>3 DEF Measured
  <2>3. CASE stage' = "failed"
    BY <1>a, <2>1, <2>3 DEF Measured, Tested
  <2> QED
    BY <1>1, <2>2, <2>3 DEF Test
<1>2. CASE PassThrough
  <2>1. /\ UNCHANGED <<market, param, tail, oos>> /\ verdict' = verdict
        /\ stage = "tune" /\ stage' = "robustness"
    BY <1>2 DEF PassThrough
  <2> QED
    BY <1>a, <1>b, <2>1 DEF Measured, Tested
<1>3. CASE Tune
  <2>1. market' = market /\ Fits(param)' /\ stage = "tune" /\ stage' = "robustness" /\ verdict' = verdict
    BY <1>3, TunedFits DEF Tune
  <2>2. Known'
    <3>1. CASE SplitBacktest(param')
      <4>1. /\ tail' = SplitAt(Bars[market], WarmupOf(param'))
            /\ oos' = NoMetrics \/ Bars[market] - tail' >= MinBars
        BY <1>a, <2>1, <3>1, SplitType
      <4> QED
        BY <2>1, <4>1 DEF WarmupOf, SplitAt
    <3>2. CASE oos' = NoMetrics
      BY <3>2
    <3> QED
      BY <1>3, <3>1, <3>2 DEF Tune
  <2> QED
    BY <1>a, <2>1, <2>2 DEF Measured
<1>4. CASE Robustness
  <2>1. /\ UNCHANGED <<market, param, tail, oos>> /\ verdict' = verdict
        /\ stage = "robustness" /\ stage' = "risk"
    BY <1>4 DEF Robustness
  <2> QED
    BY <1>a, <1>b, <2>1 DEF Measured, Tested
<1>5. CASE Risk
  <2>1. /\ UNCHANGED <<market, param, tail, oos>> /\ verdict' = verdict
        /\ stage = "risk" /\ stage' = "judge"
    BY <1>5 DEF Risk
  <2> QED
    BY <1>a, <1>b, <2>1 DEF Measured, Tested
<1>6. CASE Judge
  <2>1. /\ UNCHANGED <<market, param, tail, oos, sharpe, flags, warnings>>
        /\ stage = "judge" /\ stage' = "judged"
        /\ verdict' = VerdictOf(oos, sharpe, flags, warnings, WithTarget(Bar, 0))
    BY <1>6 DEF Judge
  <2>2. verdict' = VerdictOf(oos', sharpe', flags', warnings', Bar)
    BY <2>1 DEF WithTarget
  <2> QED
    BY <1>a, <1>b, <2>1, <2>2 DEF Measured, Tested
<1>7. CASE Promote
  BY <1>7 DEF Promote, Measured, Tested
<1>8. CASE UNCHANGED vars
  BY <1>8, <1>a, <1>b DEF vars, Measured
<1> QED
  BY <1>1, <1>2, <1>3, <1>4, <1>5, <1>6, <1>7, <1>8 DEF Next

LEMMA MeasuredShips == Typed /\ Measured => ShipsWhatWasMeasured
<1> SUFFICES ASSUME Typed, Measured, verdict \in {"PASS", "BORDERLINE"}
             PROVE  /\ tail = SplitAt(Bars[market], WarmupOf(param))
                    /\ Bars[market] - tail >= MinBars
  BY DEF ShipsWhatWasMeasured
<1>1. stage = "judged" /\ verdict = VerdictOf(oos, sharpe, flags, warnings, Bar)
  BY DEF Measured
<1>2. sharpe \in Int
  BY JudgeAssumption DEF Typed
<1>3. oos # NoMetrics
  BY <1>1, <1>2, NoMetricsAreRejected
<1> QED
  BY <1>1, <1>3 DEF Measured, Tested

\* The metrics behind a PASS or BORDERLINE are those of the parameters the
\* strategy has, on a tail of at least 50 bars: what the tuner changed it tested
\* anew, and a strategy without metrics is rejected, since no trade is no near
\* miss (tester, tuner and judge).
THEOREM ShipsMeasured == Spec => []ShipsWhatWasMeasured
BY TypedInit, TypedNext, MeasuredInit, MeasuredNext, MeasuredShips, PTL DEF Spec

LEMMA MeasuredIsMonotone == Typed /\ Measured => VerdictIsMonotone
<1> SUFFICES ASSUME Typed, Measured, stage = "judged"
             PROVE  /\ \A t \in Targets :
                         Grade(VerdictOf(oos, sharpe, flags, warnings, WithTarget(Bar, t))) <= Grade(verdict)
                    /\ \A m \in Metrics : Better(oos, m) =>
                         Grade(VerdictOf(m, sharpe, flags, warnings, Bar)) <= Grade(verdict)
  BY DEF VerdictIsMonotone
<1>1. verdict = VerdictOf(oos, sharpe, flags, warnings, Bar)
  BY DEF Measured
<1>2. oos \in Metric /\ sharpe \in Int /\ Bar \in Thresholds
  BY NoMetricsType, JudgeAssumption DEF Typed
<1>3. ASSUME NEW t \in Targets
      PROVE  Grade(VerdictOf(oos, sharpe, flags, warnings, WithTarget(Bar, t))) <= Grade(verdict)
  <2>1. t \in Nat
    BY JudgeAssumption
  <2>2. WithTarget(Bar, t) \in Thresholds /\ Gates(WithTarget(Bar, t)) = Gates(Bar)
        /\ WithTarget(Bar, t).band = Bar.band
    BY <1>2, <2>1, TargetType
  <2>3. \A g \in Gates(Bar) : ~Clears(g, oos, sharpe, Bar) =>
          /\ ~Clears(g, oos, sharpe, WithTarget(Bar, t))
          /\ RatioTo(g, oos, sharpe, WithTarget(Bar, t)) <= RatioTo(g, oos, sharpe, Bar)
    BY <1>2, <2>1, GatesFollowTarget
  <2> QED
    BY <1>1, <1>2, <2>2, <2>3, GradesFollowGates
<1>4. ASSUME NEW m \in Metrics, Better(oos, m)
      PROVE  Grade(VerdictOf(m, sharpe, flags, warnings, Bar)) <= Grade(verdict)
  <2>1. m \in Metric
    BY NoMetricsType
  <2>2. \A g \in Gates(Bar) : ~Clears(g, oos, sharpe, Bar) =>
          /\ ~Clears(g, m, sharpe, Bar)
          /\ RatioTo(g, m, sharpe, Bar) <= RatioTo(g, oos, sharpe, Bar)
    BY <1>2, <1>4, <2>1, GatesFollowMetrics
  <2> QED
    BY <1>1, <1>2, <2>1, <2>2, GradesFollowGates
<1> QED
  BY <1>3, <1>4

\* A target never makes a verdict better, and metrics that are nowhere better are
\* never judged better, for any thresholds, near-miss band and retention
\* (JudgeAgent.handle).
THEOREM JudgesMonotonically == Spec => []VerdictIsMonotone
BY TypedInit, TypedNext, MeasuredInit, MeasuredNext, MeasuredIsMonotone, PTL DEF Spec

-----------------------------------------------------------------------------
(* The spikes *)

\* Rounding to hundredths is off by half a step at most.
LEMMA Rounds ==
  ASSUME NEW x \in Int
  PROVE  RoundDiv(x, 100) \in Int /\ 100 * RoundDiv(x, 100) \in x - 50 .. x + 50
<1> DEFINE q == x \div 100
           r == x % 100
<1>1. q \in Int /\ r \in 0 .. 99 /\ x = (100 * q) + r
  OBVIOUS
<1>2. RoundDiv(x, 100) = IF 2 * r > 100 \/ (2 * r = 100 /\ q % 2 = 1) THEN q + 1 ELSE q
  BY DEF RoundDiv
<1> HIDE DEF q, r
<1> QED
  BY <1>1, <1>2

\* 15 % of 4 or more are more than half a step.
LEMMA Steps ==
  ASSUME NEW v \in Int, v >= 4
  PROVE  /\ RoundDiv(v * 85, 100) \in Int /\ RoundDiv(v * 85, 100) < v
         /\ RoundDiv(v * 115, 100) \in Int /\ RoundDiv(v * 115, 100) > v
<1>1. v * 85 \in Int /\ v * 115 \in Int
  OBVIOUS
<1> QED
  BY <1>1, Rounds

\* A parameter of 4 or more is moved in one direction at least, within its bounds.
LEMMA Moves ==
  ASSUME NEW p, p # NoParameter, Fits(p), p.value >= 4
  PROVE  \E v \in Perturbed(p) : v \in (p.low .. p.high) \ {p.value}
<1> DEFINE down == RoundDiv(p.value * 85, 100)
           up == RoundDiv(p.value * 115, 100)
           Clip(v) == IF v < p.low THEN p.low ELSE IF v > p.high THEN p.high ELSE v
<1>1. /\ p.value \in Int /\ p.low \in Int /\ p.high \in Int
      /\ p.low < p.high /\ p.low <= p.value /\ p.value <= p.high
  BY DEF Fits
<1>2. down \in Int /\ down < p.value /\ up \in Int /\ up > p.value
  BY <1>1, Steps
<1>3. Clip(down) \in Perturbed(p) /\ Clip(up) \in Perturbed(p)
  BY DEF Perturbed
<1> HIDE DEF down, up
<1>4. CASE p.low < p.value
  <2>1. Clip(down) \in p.low .. p.high /\ Clip(down) # p.value
    BY <1>1, <1>2, <1>4
  <2> QED
    BY <1>3, <2>1
<1>5. CASE p.low = p.value
  <2>1. Clip(up) \in p.low .. p.high /\ Clip(up) # p.value
    BY <1>1, <1>2, <1>5
  <2> QED
    BY <1>3, <2>1
<1> QED
  BY <1>1, <1>4, <1>5

\* What the perturbed parameters show stays among the flags.
Flagged == stage \in {"risk", "judge", "judged"} => Sensitivity \subseteq flags

LEMMA FlaggedInit == Init => Flagged
BY DEF Init, Flagged

LEMMA FlaggedNext == Flagged /\ [Next]_vars => Flagged'
<1> SUFFICES ASSUME Flagged, [Next]_vars PROVE Flagged'
  OBVIOUS
<1>a. ASSUME UNCHANGED <<param, whole>> PROVE Sensitivity' = Sensitivity
  BY <1>a DEF Sensitivity, Perturbed
<1>1. CASE Test
  BY <1>1 DEF Test, Flagged
<1>2. CASE PassThrough
  BY <1>2 DEF PassThrough, Flagged
<1>3. CASE Tune
  <2>1. stage' = "robustness"
    BY <1>3 DEF Tune
  <2> QED
    BY <2>1 DEF Flagged
<1>4. CASE Robustness
  <2>1. Sensitivity \subseteq flags' /\ UNCHANGED <<param, whole>>
    BY <1>4 DEF Robustness
  <2> QED
    BY <1>a, <2>1 DEF Flagged
<1>5. CASE Risk
  <2>1. UNCHANGED <<param, whole, flags>> /\ stage = "risk"
    BY <1>5 DEF Risk
  <2> QED
    BY <1>a, <2>1 DEF Flagged
<1>6. CASE Judge
  <2>1. UNCHANGED <<param, whole, flags>> /\ stage = "judge"
    BY <1>6 DEF Judge
  <2> QED
    BY <1>a, <2>1 DEF Flagged
<1>7. CASE Promote
  BY <1>7 DEF Promote, Flagged
<1>8. CASE UNCHANGED vars
  <2>1. UNCHANGED <<param, whole, flags, stage>>
    BY <1>8 DEF vars
  <2> QED
    BY <1>a, <2>1 DEF Flagged
<1> QED
  BY <1>1, <1>2, <1>3, <1>4, <1>5, <1>6, <1>7, <1>8 DEF Next

LEMMA FlaggedFail == Typed /\ Measured /\ Flagged => SpikesDoNotPass
<1> SUFFICES ASSUME Typed, Measured, Flagged, stage = "judged", param # NoParameter, param.value >= 4,
                    whole[param.value] > 0,
                    \A v \in (param.low .. param.high) \ {param.value} : 10 * whole[v] < 6 * whole[param.value]
             PROVE  verdict # "PASS"
  BY DEF SpikesDoNotPass
<1>1. \E v \in Perturbed(param) : 10 * whole[v] < 6 * whole[param.value]
  BY Moves DEF Typed
<1>2. "spike" \in flags
  BY <1>1 DEF Flagged, Sensitivity
<1>3. verdict = VerdictOf(oos, sharpe, flags, warnings, Bar)
  BY DEF Measured
<1> QED
  BY <1>2, <1>3 DEF VerdictOf

\* No parameter of 4 or more passes whose neighbours all lose 40 % of its score:
\* rounding and the bounds never leave both perturbed values where they started
\* (RobustnessAgent._sensitivity).
THEOREM SpikesFail == Spec => []SpikesDoNotPass
BY TypedInit, TypedNext, MeasuredInit, MeasuredNext, FlaggedInit, FlaggedNext, FlaggedFail, PTL DEF Spec
=============================================================================

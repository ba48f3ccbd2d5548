--------------------------- MODULE Backtest_proofs ---------------------------
(***************************************************************************)
(* What the bar loop promises for any bars, risk blocks, costs, point      *)
(* values and lengths of the history.                                      *)
(***************************************************************************)
EXTENDS Backtest, SequenceTheorems, WellFoundedInduction, TLAPS

-----------------------------------------------------------------------------
(* Arithmetic *)

LEMMA Constants ==
  /\ Cooldown \in Nat /\ Adverse \in Nat /\ Commission \in Nat /\ InitialBalance \in Nat /\ Bars \in Nat
  /\ PointValue \in Nat \ {0} /\ AtrPeriod \in Nat \ {0} /\ AtrPeriod - 1 \in Nat /\ InitialAtr \in Nat
<1>1. {Cooldown, Adverse, Commission, InitialBalance, Bars} \subseteq Nat
  BY BacktestAssumption
<1>2. PointValue \in Nat \ {0} /\ InitialAtr \in Nat
  BY BacktestAssumption
<1>3. AtrPeriod \in 5 .. 100
  BY BacktestAssumption
<1>4. AtrPeriod \in Nat \ {0} /\ AtrPeriod - 1 \in Nat
  BY <1>3
<1> QED
  BY <1>1, <1>2, <1>4

LEMMA BarType ==
  ASSUME NEW b \in Bar
  PROVE  /\ b.open \in Nat /\ b.high \in Nat /\ b.low \in Nat /\ b.close \in Nat
         /\ b.low <= b.open /\ b.open <= b.high /\ b.low <= b.close /\ b.close <= b.high
         /\ b.open - Adverse \in Nat \ {0} /\ b.open + Adverse \in Nat \ {0}
<1>1. b \in [open : Nat, high : Nat, low : Nat, close : Nat,
             signals : SUBSET {"long", "short", "exit long", "exit short"}]
  BY BacktestAssumption
<1>2. b.low <= b.open /\ b.open <= b.high /\ b.low <= b.close /\ b.close <= b.high
  BY BacktestAssumption
<1>3. b.open \in Nat /\ Adverse \in Nat /\ b.open > Adverse
  BY <1>1, Constants, PricesExceedCosts
<1>4. b.open - Adverse \in Nat \ {0} /\ b.open + Adverse \in Nat \ {0}
  BY <1>3
<1> QED
  BY <1>1, <1>2, <1>4

LEMMA BlockType ==
  ASSUME ir \in RiskBlock
  PROVE  /\ ir.stopValue \in Nat \ {0} /\ ir.targetValue \in Nat \ {0} /\ ir.trailMult \in Nat \ {0}
         /\ ir.breakevenTenths \in Nat /\ ir.riskPct \in 1 .. 5 /\ ir.maxBars \in Nat
         /\ ir.stopKind \in {"atr", "points", "percent", "none"}
         /\ ir.targetKind \in {"atr", "points", "percent", "rr", "none"}
BY BacktestAssumption

LEMMA Divides ==
  ASSUME NEW a \in Nat, NEW b \in Nat \ {0}
  PROVE  a \div b \in Nat /\ (a \div b) * b <= a
OBVIOUS

LEMMA Products == \A a, b \in Nat : a * b \in Nat /\ (a > 0 /\ b > 0 => a * b > 0)
OBVIOUS

LEMMA AtrType ==
  ASSUME NEW b \in Bar, bar \in Bar, atr \in Nat
  PROVE  Atr(b) \in Nat
<1> DEFINE range == Higher(b.high - b.low,
                           Higher(Distance(b.high, bar.close), Distance(b.low, bar.close)))
<1>1. range \in Nat
  <2>1. \A x, y \in Int : Higher(x, y) \in Int /\ Higher(x, y) >= x
    BY DEF Higher
  <2>2. \A x, y \in Nat : Distance(x, y) \in Int
    BY DEF Higher, Distance
  <2>3. /\ b.high \in Nat /\ b.low \in Nat /\ bar.close \in Nat
        /\ b.high - b.low \in Nat
    BY BarType
  <2>4. Higher(Distance(b.high, bar.close), Distance(b.low, bar.close)) \in Int
    <3>1. Distance(b.high, bar.close) \in Int /\ Distance(b.low, bar.close) \in Int
      BY <2>2, <2>3
    <3> QED
      BY <2>1, <3>1
  <2>5. \A x \in Nat, y \in Int : Higher(x, y) \in Nat
    BY DEF Higher
  <2> QED
    BY <2>3, <2>4, <2>5
<1>2. atr * (AtrPeriod - 1) + range \in Nat
  BY <1>1, Products, Constants
<1> QED
  BY <1>2, Divides, Constants DEF Atr

LEMMA Distances ==
  ASSUME ir \in RiskBlock, NEW price \in Nat, NEW range \in Nat
  PROVE  /\ StopDistance(price, range) \in Nat
         /\ \A d \in Nat : TargetDistance(price, range, d) \in Nat
<1>1. /\ range * ir.stopValue \in Nat /\ price * ir.stopValue \in Nat /\ range * 3 \in Nat
      /\ range * ir.targetValue \in Nat /\ price * ir.targetValue \in Nat
      /\ \A d \in Nat : d * ir.targetValue \in Nat
  BY BlockType, Products
<1>2. /\ (price * ir.stopValue) \div 100 \in Nat /\ price \div 100 \in Nat
      /\ (price * ir.targetValue) \div 100 \in Nat
  BY <1>1, Divides
<1>3. StopDistance(price, range) \in Nat
  BY <1>1, <1>2, BlockType DEF StopDistance, Higher
<1>4. ASSUME NEW d \in Nat PROVE TargetDistance(price, range, d) \in Nat
  BY <1>1, <1>2, BlockType DEF TargetDistance
<1> QED
  BY <1>3, <1>4

\* Lots at the stop risk no more than the configured share of the equity.
LEMMA Sizes ==
  ASSUME ir \in RiskBlock, equity \in Int, NEW d \in Nat, NEW price \in Nat \ {0}
  PROVE  /\ SizePosition(d, price) \in Nat
         /\ SizePosition(d, price) > 0 =>
              d > 0 /\ equity > 0 /\ 100 * (d * SizePosition(d, price) * PointValue) <= equity * ir.riskPct
<1>1. CASE equity <= 0 \/ d <= 0
  BY <1>1 DEF SizePosition
<1>2. CASE equity > 0 /\ d > 0
  <2> DEFINE x == equity * ir.riskPct
             y == 100 * d * PointValue
             z == (equity * 50) \div Higher(price * PointValue, 1)
             lots == SizePosition(d, price)
  <2>1. equity \in Nat /\ x \in Nat
    BY <1>2, BlockType, Products
  <2>2. d * PointValue \in Nat \ {0} /\ y = 100 * (d * PointValue)
    BY <1>2, Products, Constants
  <2>3. y \in Nat \ {0}
    BY <2>2
  <2>4. z \in Nat
    <3>1. price * PointValue \in Nat
      BY Products, Constants
    <3>2. Higher(price * PointValue, 1) \in Nat \ {0}
      BY <3>1 DEF Higher
    <3> QED
      BY <2>1, <3>2, Divides
  <2>5. x \div y \in Nat /\ (x \div y) * y <= x
    BY <2>1, <2>3, Divides
  <2>6. lots = Lower(x \div y, z)
    BY <1>2 DEF SizePosition
  <2>7. lots \in Nat /\ lots <= x \div y
    BY <2>4, <2>5, <2>6 DEF Lower
  <2>8. lots * y <= (x \div y) * y
    BY <2>3, <2>5, <2>7
  <2>9. lots * y <= x
    <3>1. lots * y \in Nat /\ (x \div y) * y \in Nat
      BY <2>3, <2>5, <2>7, Products
    <3> QED
      BY <2>1, <2>5, <2>8, <3>1
  <2>10. lots * y = 100 * (d * lots * PointValue)
    BY <2>2, <2>7, Constants
  <2> QED
    BY <1>2, <2>7, <2>9, <2>10
<1> QED
  BY <1>1, <1>2

-----------------------------------------------------------------------------
(* The position that an order opens *)

LEMMA Levels ==
  ASSUME NEW side \in {"long", "short"}, NEW p \in Int, NEW d \in Int
  PROVE  /\ Beyond(side, p, d) \in Int /\ Beyond(side, p, - d) \in Int
         /\ Gain(side, p, Beyond(side, p, d)) = d /\ Gain(side, p, Beyond(side, p, - d)) = - d
BY DEF Beyond, Gain

LEMMA NotFlat == \A p \in Position : p # Flat
BY DEF Position, Flat

\* With d points to the stop.
Entered(p, d) ==
  /\ p \in Position /\ p.side = pending /\ p.since = i
  /\ p.entry \in Nat \ {0}
  /\ 100 * (d * p.lots * PointValue) <= equity * ir.riskPct
  /\ IF ir.stopKind = "none" THEN p.stop = 0 ELSE p.stop = Beyond(p.side, p.entry, - d)
  /\ p.target # 0 => Gain(p.side, p.entry, p.target) >= 0

LEMMA Opens ==
  ASSUME ir \in RiskBlock, bar \in Bar, atr \in Nat, equity \in Int, pending \in {"long", "short"},
         i \in 0 .. Bars, NEW b \in Bar
  PROVE  Opened(b) = Flat \/ \E d \in Nat \ {0} : Entered(Opened(b), d)
<1> DEFINE fill == Beyond(pending, b.open, Adverse)
           dist == StopDistance(fill, Atr(b))
           aim  == TargetDistance(fill, Atr(b), dist)
           lots == SizePosition(dist, fill)
           p    == [side   |-> pending, entry |-> fill,
                    stop   |-> IF ir.stopKind = "none" THEN 0 ELSE Beyond(pending, fill, - dist),
                    target |-> IF aim = 0 THEN 0 ELSE Beyond(pending, fill, aim),
                    lots   |-> lots, risked |-> dist * lots * PointValue,
                    since  |-> i, beDone |-> FALSE]
<1>1. fill \in Nat \ {0}
  BY BarType DEF Beyond
<1>2. Atr(b) \in Nat
  BY AtrType
<1>3. dist \in Nat /\ aim \in Nat
  BY <1>1, <1>2, Distances
<1>4. /\ lots \in Nat
      /\ lots > 0 => dist > 0 /\ 100 * (dist * lots * PointValue) <= equity * ir.riskPct
  BY <1>1, <1>3, Sizes
<1>5. Opened(b) = IF Atr(b) > 0 /\ lots > 0 THEN p ELSE Flat
  BY DEF Opened
<1> HIDE DEF fill, dist, aim, lots
<1>6. CASE Atr(b) > 0 /\ lots > 0
  <2>1. dist \in Nat \ {0} /\ lots \in Nat \ {0}
    BY <1>3, <1>4, <1>6
  <2>2. dist * lots * PointValue \in Nat \ {0}
    BY <2>1, Products, Constants
  <2>3. /\ Beyond(pending, fill, - dist) \in Int /\ Beyond(pending, fill, aim) \in Int
        /\ Gain(pending, fill, Beyond(pending, fill, aim)) = aim
    <3>1. fill \in Int /\ aim \in Int /\ dist \in Int
      BY <1>1, <1>3
    <3> QED
      BY <3>1, Levels
  <2>4. p.stop \in Int /\ p.target \in Int
    BY <2>3
  <2>5. p \in Position
    BY <1>1, <2>1, <2>2, <2>4 DEF Position
  <2>6. Entered(p, dist)
    <3>1. p.target # 0 => Gain(p.side, p.entry, p.target) >= 0
      BY <1>3, <2>3
    <3>2. 100 * (dist * p.lots * PointValue) <= equity * ir.riskPct
      BY <1>4, <1>6
    <3> QED
      BY <1>1, <2>5, <3>1, <3>2 DEF Entered
  <2> QED
    BY <1>5, <1>6, <2>1, <2>6
<1>7. CASE ~(Atr(b) > 0 /\ lots > 0)
  BY <1>5, <1>7
<1> QED
  BY <1>6, <1>7

-----------------------------------------------------------------------------
(* Types, and where in the loop what can be *)

TradeSet == [side : {"long", "short"}, since : 0 .. Bars, until : 0 .. Bars,
             price : Int, pnl : Int, reason : Reason]

\* An order is gone once the open is over, and a position is older than the open it is
\* held at.
Typed ==
  /\ TypeOK
  /\ trades \in Seq(TradeSet)
  /\ phase \in {"inside", "decide"} => i < Bars /\ pending = "none"
  /\ pos # Flat => pos.since <= i /\ (phase = "open" => pos.since < i) /\ phase # "done"

LEMMA TradeType ==
  ASSUME pos \in Position, NEW price \in Int, NEW until \in 0 .. Bars, NEW reason \in Reason
  PROVE  /\ Trade(price, until, reason) \in TradeSet
         /\ Trade(price, until, reason).since = pos.since
         /\ Trade(price, until, reason).until = until
         /\ Trade(price, until, reason).reason = reason
         /\ Trade(price, until, reason).pnl =
              ((Gain(pos.side, pos.entry, price) - Adverse) * PointValue - Commission) * pos.lots
<1>1. /\ pos.side \in {"long", "short"} /\ pos.entry \in Int /\ pos.lots \in Nat /\ pos.since \in 0 .. Bars
      /\ Adverse \in Nat /\ PointValue \in Nat /\ Commission \in Nat
  BY Constants DEF Position
<1> DEFINE fill == Beyond(pos.side, price, - Adverse)
           pnl == (Gain(pos.side, pos.entry, fill) * PointValue - Commission) * pos.lots
<1>2. /\ fill \in Int
      /\ Gain(pos.side, pos.entry, fill) = Gain(pos.side, pos.entry, price) - Adverse
      /\ Gain(pos.side, pos.entry, fill) \in Int
  BY <1>1 DEF Beyond, Gain
<1>3. pnl \in Int
  BY <1>1, <1>2
<1>4. Trade(price, until, reason) = [side |-> pos.side, since |-> pos.since, until |-> until, price |-> fill,
                                     pnl |-> pnl, reason |-> reason]
  BY DEF Trade
<1>5. pnl = ((Gain(pos.side, pos.entry, price) - Adverse) * PointValue - Commission) * pos.lots
  BY <1>2
<1> HIDE DEF fill, pnl
<1> QED
  BY <1>1, <1>2, <1>3, <1>4, <1>5 DEF TradeSet

\* Where the stop of a held position goes.
LEMMA Manages ==
  ASSUME pos \in Position, bar \in Bar, atr \in Nat, ir \in RiskBlock
  PROVE  /\ ManageStop \in Position
         /\ ManageStop = [pos EXCEPT !.stop = ManageStop.stop, !.beDone = ManageStop.beDone]
         /\ Gain(pos.side, pos.stop, ManageStop.stop) >= 0
         /\ pos.side = "short" /\ pos.stop > 0 /\ pos.entry > 0 => ManageStop.stop > 0
         /\ pos.stop = 0 => ManageStop.stop = 0
<1> DEFINE dist  == IF pos.stop # 0 THEN Distance(pos.entry, pos.stop)
                    ELSE pos.risked \div (pos.lots * PointValue)
           even  == /\ pos.stop # 0 /\ ir.breakevenTenths # 0 /\ ~ pos.beDone /\ dist > 0
                    /\ 10 * Gain(pos.side, pos.entry, bar.close) >= ir.breakevenTenths * dist
           first == IF even THEN Tighter(pos.stop, pos.entry) ELSE pos.stop
           trail == Beyond(pos.side, bar.close, - atr * ir.trailMult)
           last  == IF first # 0 /\ ir.trailing /\ atr > 0 THEN Tighter(first, trail) ELSE first
<1>1. ManageStop = [pos EXCEPT !.beDone = even \/ @, !.stop = last]
  BY DEF ManageStop
<1>2. /\ pos.side \in {"long", "short"} /\ pos.entry \in Int /\ pos.stop \in Int /\ pos.beDone \in BOOLEAN
      /\ bar.close \in Nat /\ atr * ir.trailMult \in Nat
  BY BarType, BlockType, Products DEF Position
<1>3. trail \in Int /\ (pos.side = "short" /\ atr > 0 => trail > 0)
  <2>1. atr > 0 => atr * ir.trailMult > 0
    BY BlockType, Products
  <2>2. - atr * ir.trailMult = - (atr * ir.trailMult)
    BY BlockType
  <2> QED
    BY <1>2, <2>1, <2>2 DEF Beyond
<1>4. even \in BOOLEAN /\ (pos.stop = 0 => ~even)
  OBVIOUS
<1> HIDE DEF even, trail, dist
<1>5. /\ first \in Int /\ Gain(pos.side, pos.stop, first) >= 0
      /\ pos.side = "short" /\ pos.stop > 0 /\ pos.entry > 0 => first > 0
      /\ pos.stop = 0 => first = 0
  BY <1>2, <1>4 DEF Gain, Tighter, Higher, Lower
<1> HIDE DEF first
<1>6. /\ last \in Int /\ Gain(pos.side, pos.stop, last) >= 0
      /\ pos.side = "short" /\ pos.stop > 0 /\ pos.entry > 0 => last > 0
      /\ pos.stop = 0 => last = 0
  BY <1>2, <1>3, <1>5 DEF Gain, Tighter, Higher, Lower
<1> HIDE DEF last
<1>7. ManageStop \in Position
  BY <1>1, <1>2, <1>4, <1>6 DEF Position
<1>8. ManageStop.stop = last /\ ManageStop = [pos EXCEPT !.stop = last, !.beDone = ManageStop.beDone]
  BY <1>1 DEF Position
<1> QED
  BY <1>6, <1>7, <1>8

\* Typed, with the assumptions about constants that its steps need.
LEMMA TypedParts ==
  ASSUME Typed
  PROVE  /\ ir \in RiskBlock /\ bar \in Bar /\ i \in 0 .. Bars /\ i \in Nat /\ Bars \in Nat /\ atr \in Nat
         /\ pos = Flat \/ (pos \in Position /\ pos # Flat)
         /\ pending \in {"none", "long", "short", "exit"}
         /\ cooldown \in Int /\ equity \in Int /\ curve \in Int /\ exposure \in Nat
         /\ trades \in Seq(TradeSet) /\ Cooldown \in Nat
BY Constants, NotFlat DEF Typed, TypeOK

LEMMA Elements == ASSUME NEW f \in Seq(TradeSet) PROVE \A k \in 1 .. Len(f) : f[k] \in TradeSet
OBVIOUS

LEMMA TypedInit == Init => Typed
<1> SUFFICES ASSUME Init PROVE Typed
  OBVIOUS
<1>1. /\ i = 0 /\ i \in 0 .. Bars /\ -1 \in Int /\ equity \in Int /\ curve \in Int /\ atr \in Nat
      /\ cooldown = -1
  BY Constants DEF Init
<1>2. trades = << >> /\ trades \in Seq(TradeSet)
  BY DEF Init
<1>3. TypeOK
  BY <1>1, <1>2, Elements DEF Init, TypeOK, TradeSet
<1> QED
  BY <1>2, <1>3 DEF Init, Typed

\* A position is closed at a price, in the bar it is or the one before.
LEMMA Books ==
  ASSUME Typed, pos # Flat, NEW price \in Int, NEW until \in 0 .. Bars, NEW reason \in Reason,
         Book(Trade(price, until, reason))
  PROVE  /\ equity' \in Int /\ pos' = Flat
         /\ trades' = Append(trades, Trade(price, until, reason))
         /\ trades' \in Seq(TradeSet)
         /\ Trade(price, until, reason) \in TradeSet
<1>1. pos \in Position /\ equity \in Int /\ trades \in Seq(TradeSet)
  BY TypedParts
<1>2. Trade(price, until, reason) \in TradeSet
  BY <1>1, TradeType
<1>3. Trade(price, until, reason).pnl \in Int
  BY <1>2 DEF TradeSet
<1> QED
  BY <1>1, <1>2, <1>3 DEF Book

LEMMA TypedNext == Typed /\ [Next]_vars => Typed'
<1> SUFFICES ASSUME Typed, [Next]_vars PROVE Typed'
  OBVIOUS
<1>a. /\ ir \in RiskBlock /\ bar \in Bar /\ i \in 0 .. Bars /\ i \in Nat /\ Bars \in Nat /\ atr \in Nat
      /\ pos = Flat \/ (pos \in Position /\ pos # Flat)
      /\ pending \in {"none", "long", "short", "exit"}
      /\ cooldown \in Int /\ equity \in Int /\ curve \in Int /\ exposure \in Nat
      /\ trades \in Seq(TradeSet) /\ Cooldown \in Nat
      /\ phase \in {"inside", "decide"} => i < Bars /\ pending = "none"
      /\ pos # Flat => pos.since <= i /\ (phase = "open" => pos.since < i) /\ phase # "done"
  BY TypedParts DEF Typed
<1>b. i + Cooldown \in Int
  BY <1>a
<1>1. ASSUME NEW b \in Bar, Open(b), pending' = "none", cooldown' \in Int, equity' \in Int,
             trades' \in Seq(TradeSet),
             pos' = pos \/ pos' = Flat \/ (pos' \in Position /\ pos'.since = i)
      PROVE  Typed'
  <2>1. /\ ir' = ir /\ bar' \in Bar /\ phase = "open" /\ phase' = "inside" /\ i' = i /\ i < Bars /\ atr' \in Nat
        /\ curve' = curve /\ exposure' = exposure
    BY <1>1, <1>a, AtrType DEF Open
  <2>2. pos' \in Position \cup {Flat} /\ (pos' # Flat => pos'.since <= i)
    BY <1>1, <1>a
  <2>3. TypeOK'
    <3>1. \A k \in 1 .. Len(trades') : trades'[k] \in TradeSet
      BY <1>1, <1>a, <2>1, <2>2, Elements
    <3> QED
      BY <1>1, <1>a, <2>1, <2>2, <3>1 DEF TypeOK, TradeSet
  <2> QED
    BY <1>1, <2>1, <2>2, <2>3 DEF Typed
<1>2. ASSUME NEW b \in Bar, RuleExit(b) PROVE Typed'
  <2>1. equity' \in Int /\ pos' = Flat /\ trades' \in Seq(TradeSet)
    BY <1>2, <1>a, Books, BarType DEF RuleExit, Close, Reason
  <2>2. cooldown' \in Int
    BY <1>2, <1>b DEF RuleExit, Close
  <2> QED
    BY <1>1, <1>2, <2>1, <2>2 DEF RuleExit
<1>3. ASSUME NEW b \in Bar, Enter(b) PROVE Typed'
  <2>1. pos' = Flat \/ (pos' \in Position /\ pos'.since = i)
    BY <1>3, <1>a, Opens DEF Enter, Entered
  <2> QED
    BY <1>1, <1>3, <1>a, <2>1 DEF Enter
<1>4. ASSUME NEW b \in Bar, NoOrder(b) PROVE Typed'
  BY <1>1, <1>4, <1>a DEF NoOrder
<1>5. ASSUME Inside(TRUE) \/ Inside(FALSE), cooldown' \in Int, equity' \in Int, trades' \in Seq(TradeSet),
             pos' = Flat \/ (pos # Flat /\ pos' \in Position /\ pos'.since = pos.since)
      PROVE  Typed'
  <2>1. /\ ir' = ir /\ bar' = bar /\ atr' = atr /\ pending' = pending /\ i' = i /\ curve' = curve
        /\ phase = "inside" /\ phase' = "decide" /\ exposure' \in Nat
    BY <1>5, <1>a DEF Inside
  <2>2. pos' \in Position \cup {Flat} /\ (pos' # Flat => pos'.since <= i)
    BY <1>5, <1>a
  <2>3. TypeOK'
    <3>1. \A k \in 1 .. Len(trades') : trades'[k] \in TradeSet
      BY <1>5, <1>a, <2>1, <2>2, Elements
    <3> QED
      BY <1>5, <1>a, <2>1, <2>2, <3>1 DEF TypeOK, TradeSet
  <2> QED
    BY <1>5, <1>a, <2>1, <2>2, <2>3 DEF Typed
<1>6. ASSUME NEW price \in Int, NEW reason \in Reason, Inside(TRUE), Close(price, reason) PROVE Typed'
  <2>1. equity' \in Int /\ pos' = Flat /\ trades' \in Seq(TradeSet)
    BY <1>6, <1>a, Books DEF Inside, Close
  <2>2. cooldown' \in Int
    BY <1>6, <1>b DEF Close
  <2> QED
    BY <1>5, <1>6, <2>1, <2>2
<1>7. ASSUME StopOut \/ TakeProfit \/ TimeStop PROVE Typed'
  <2>1. pos \in Position
    BY <1>7, <1>a DEF StopOut, TakeProfit, TimeStop, Inside
  <2>2. pos.stop \in Int /\ pos.target \in Int /\ bar.close \in Int
    BY <1>a, <2>1, BarType DEF Position
  <2> QED
    BY <1>6, <1>7, <2>2 DEF StopOut, TakeProfit, TimeStop, Reason
<1>8. CASE Hold
  <2>1. pos \in Position /\ pos # Flat
    BY <1>8, <1>a DEF Hold, Inside
  <2>2. ManageStop \in Position /\ ManageStop.since = pos.since
    BY <1>a, <2>1, Manages DEF Position
  <2> QED
    BY <1>5, <1>8, <1>a, <2>1, <2>2 DEF Hold
<1>9. CASE StayFlat
  BY <1>5, <1>9, <1>a DEF StayFlat, Inside
<1>10. CASE Decide
  <2>1. /\ UNCHANGED << ir, bar, atr, pos, cooldown, equity, exposure, trades >>
        /\ phase = "decide" /\ phase' = "open" /\ i' = i + 1 /\ i < Bars /\ pending = "none"
        /\ curve' = equity + Floating /\ pending' = Decision
    BY <1>10, <1>a DEF Decide
  <2>2. Floating \in Int
    <3>1. ASSUME pos \in Position PROVE Gain(pos.side, pos.entry, bar.close) * pos.lots * PointValue \in Int
      <4>1. Gain(pos.side, pos.entry, bar.close) \in Int /\ pos.lots \in Int /\ PointValue \in Int
        BY <1>a, <3>1, BarType, Constants DEF Gain, Position
      <4> QED
        BY <4>1
    <3> QED
      BY <1>a, <3>1 DEF Floating
  <2>3. pending' \in {"none", "long", "short", "exit"}
    BY <2>1 DEF Decision
  <2>4. i' \in 0 .. Bars /\ curve' \in Int
    BY <1>a, <2>1, <2>2
  <2>5. TypeOK'
    <3>1. \A k \in 1 .. Len(trades') : trades'[k] \in TradeSet
      BY <1>a, <2>1, <2>3, <2>4, Elements
    <3> QED
      BY <1>a, <2>1, <2>3, <2>4, <3>1 DEF TypeOK, TradeSet
  <2>6. pos' # Flat => pos'.since < i' /\ pos'.since <= i'
    <3>1. pos # Flat => pos.since \in 0 .. Bars
      BY <1>a DEF Position
    <3> QED
      BY <1>a, <2>1, <3>1
  <2> QED
    BY <1>a, <2>1, <2>5, <2>6 DEF Typed
<1>11. CASE EndOfData
  <2>1. /\ UNCHANGED << ir, i, bar, atr, pending, cooldown, exposure >>
        /\ phase = "open" /\ phase' = "done" /\ i = Bars
    BY <1>11 DEF EndOfData
  <2>2. equity' \in Int /\ pos' = Flat /\ trades' \in Seq(TradeSet) /\ curve' \in Int
    <3>1. CASE pos = Flat
      BY <1>11, <1>a, <3>1 DEF EndOfData
    <3>2. CASE pos # Flat
      <4>1. i - 1 \in 0 .. Bars
        <5>1. pos.since \in 0 .. Bars /\ pos.since < i
          BY <1>a, <2>1, <3>2 DEF Position
        <5> QED
          BY <1>a, <5>1
      <4>2. Book(Trade(bar.close, i - 1, "end_of_data")) /\ curve' = equity' /\ bar.close \in Int
        BY <1>11, <1>a, <3>2, BarType DEF EndOfData
      <4> QED
        BY <3>2, <4>1, <4>2, Books DEF Reason
    <3> QED
      BY <3>1, <3>2
  <2>3. TypeOK'
    <3>1. \A k \in 1 .. Len(trades') : trades'[k] \in TradeSet
      BY <1>a, <2>1, <2>2, Elements
    <3> QED
      BY <1>a, <2>1, <2>2, <3>1 DEF TypeOK, TradeSet
  <2> QED
    BY <2>1, <2>2, <2>3 DEF Typed
<1>12. CASE UNCHANGED vars
  BY <1>12 DEF vars, Typed, TypeOK
<1> QED
  BY <1>2, <1>3, <1>4, <1>7, <1>8, <1>9, <1>10, <1>11, <1>12 DEF Next

\* Whatever the prices, positions, orders and trades keep their types: above all
\* a position that is open has lots, and something at risk.
THEOREM TypeCorrect == Spec => []TypeOK
<1>1. Typed => TypeOK
  BY DEF Typed
<1> QED
  BY <1>1, TypedInit, TypedNext, PTL DEF Spec

-----------------------------------------------------------------------------
(* Time *)

Pause == Higher(Cooldown, 1)

\* The trades are apart, and the cooldown is that of the last one.
Apart ==
  /\ \A k \in 1 .. Len(trades) : trades[k].since <= trades[k].until
  /\ \A k \in 1 .. Len(trades) - 1 : trades[k + 1].since >= trades[k].until + Pause
  /\ Len(trades) > 0 /\ phase # "done" =>
       LET last == trades[Len(trades)]
       IN  /\ cooldown = last.until + Cooldown
           /\ last.until <= i /\ (phase = "open" => last.until < i)
           /\ pos # Flat => pos.since >= last.until + Pause

\* Neither a trade nor the open position is older than its limit.
Limited ==
  ir.maxBars # 0 =>
    /\ \A k \in 1 .. Len(trades) : trades[k].until - trades[k].since <= ir.maxBars
    /\ pos # Flat => i - pos.since <= ir.maxBars /\ (phase = "decide" => i - pos.since < ir.maxBars)

LEMMA ApartSuffices == Typed /\ Apart => TradesApart
<1> SUFFICES ASSUME Typed, Apart PROVE TradesApart
  OBVIOUS
<1> DEFINE n == Len(trades)
           starts == [k \in 1 .. n |-> trades[k].since] \o (IF pos = Flat THEN << >> ELSE << pos.since >>)
<1>1. trades \in Seq(TradeSet) /\ n \in Nat
  BY TypedParts
<1>2. CASE pos = Flat
  <2>1. Len(starts) = n /\ \A k \in 1 .. n : starts[k] = trades[k].since
    BY <1>1, <1>2
  <2>2. ASSUME NEW k \in 1 .. n
        PROVE  trades[k].since <= trades[k].until /\ (k < Len(starts) => starts[k + 1] >= trades[k].until + Pause)
    <3>1. trades[k].since <= trades[k].until
      BY DEF Apart
    <3>2. k < n => k \in 1 .. n - 1 /\ k + 1 \in 1 .. n
      BY <1>1
    <3> HIDE DEF starts
    <3> QED
      BY <2>1, <3>1, <3>2 DEF Apart
  <2> QED
    BY <2>2 DEF TradesApart, Pause
<1>3. CASE pos # Flat
  <2>1. Len(starts) = n + 1 /\ starts[n + 1] = pos.since /\ \A k \in 1 .. n : starts[k] = trades[k].since
    BY <1>1, <1>3
  <2>2. phase # "done"
    BY <1>3 DEF Typed
  <2>3. ASSUME NEW k \in 1 .. n
        PROVE  trades[k].since <= trades[k].until /\ (k < Len(starts) => starts[k + 1] >= trades[k].until + Pause)
    <3>1. trades[k].since <= trades[k].until
      BY DEF Apart
    <3>2. k = n \/ (k \in 1 .. n - 1 /\ k + 1 \in 1 .. n)
      BY <1>1
    <3>3. k = n => n > 0 /\ pos.since >= trades[n].until + Pause
      BY <1>1, <1>3, <2>2 DEF Apart
    <3> HIDE DEF starts
    <3> QED
      BY <2>1, <3>1, <3>2, <3>3 DEF Apart
  <2> QED
    BY <2>3 DEF TradesApart, Pause
<1> QED
  BY <1>2, <1>3

\* A new trade starts after all the others, and after a pause.
LEMMA AppendsApart ==
  ASSUME Typed, Apart, Limited, pos # Flat, NEW t \in TradeSet, t.since = pos.since,
         t.until \in {i - 1, i}, t.since <= t.until, trades' = Append(trades, t), ir' = ir,
         ir.maxBars # 0 => t.until - t.since <= ir.maxBars
  PROVE  /\ \A k \in 1 .. Len(trades') : trades'[k].since <= trades'[k].until
         /\ \A k \in 1 .. Len(trades') - 1 : trades'[k + 1].since >= trades'[k].until + Pause
         /\ Len(trades') > 0 /\ trades'[Len(trades')] = t
         /\ ir.maxBars # 0 => \A k \in 1 .. Len(trades') : trades'[k].until - trades'[k].since <= ir.maxBars
<1> DEFINE n == Len(trades)
<1>1. trades \in Seq(TradeSet) /\ n \in Nat /\ phase # "done"
  BY TypedParts DEF Typed
<1>2. Len(trades') = n + 1 /\ trades'[n + 1] = t /\ \A k \in 1 .. n : trades'[k] = trades[k]
  BY <1>1
<1>3. \A k \in 1 .. n + 1 : k = n + 1 \/ k \in 1 .. n
  BY <1>1
<1>4. \A k \in 1 .. n : k = n \/ (k \in 1 .. n - 1 /\ k + 1 \in 1 .. n)
  BY <1>1
<1>5. n > 0 => t.since >= trades[n].until + Pause
  BY <1>1 DEF Apart
<1>6. \A k \in 1 .. n : trades'[k + 1].since >= trades'[k].until + Pause
  <2> SUFFICES ASSUME NEW k \in 1 .. n PROVE trades'[k + 1].since >= trades'[k].until + Pause
    OBVIOUS
  <2>1. CASE k = n
    BY <1>1, <1>2, <1>5, <2>1
  <2>2. CASE k \in 1 .. n - 1 /\ k + 1 \in 1 .. n
    BY <1>2, <2>2 DEF Apart
  <2> QED
    BY <1>4, <2>1, <2>2
<1>7. (n + 1) - 1 = n
  BY <1>1
<1> QED
  BY <1>1, <1>2, <1>3, <1>6, <1>7 DEF Apart, Limited

LEMMA TimeInit == Init => Apart /\ Limited /\ OrdersAreFresh
<1> SUFFICES ASSUME Init PROVE Apart /\ Limited /\ OrdersAreFresh
  OBVIOUS
<1>1. trades = << >> /\ Len(trades) = 0 /\ pos = Flat /\ pending = "none"
  BY DEF Init
<1>2. \A k \in Int : k \notin 1 .. 0 /\ k \notin 1 .. 0 - 1
  OBVIOUS
<1> QED
  BY <1>1, <1>2 DEF Apart, Limited, OrdersAreFresh

\* A position is closed inside the loop, and the cooldown counts from there.
LEMMA ClosesApart ==
  ASSUME Typed, Apart, Limited, pos # Flat, NEW price \in Int, NEW reason \in Reason,
         Close(price, reason), ir' = ir, i' = i, phase' \in {"inside", "decide"}
  PROVE  Apart' /\ Limited'
<1>1. i \in 0 .. Bars /\ i \in Int /\ pos \in Position /\ Cooldown \in Nat /\ pos.since <= i /\ pos.since \in Int
  BY TypedParts DEF Typed, Position
<1> DEFINE t == Trade(price, i, reason)
<1>2. /\ pos' = Flat /\ trades' = Append(trades, t) /\ trades' \in Seq(TradeSet) /\ t \in TradeSet
      /\ cooldown' = i + Cooldown
  BY <1>1, Books DEF Close
<1>3. t.since = pos.since /\ t.until = i
  BY <1>1, TradeType
<1>4. ir.maxBars # 0 => t.until - t.since <= ir.maxBars
  BY <1>3 DEF Limited
<1>5. t.until \in {i - 1, i} /\ t.since <= t.until
  BY <1>1, <1>3
<1> HIDE DEF t
<1>6. /\ \A k \in 1 .. Len(trades') : trades'[k].since <= trades'[k].until
      /\ \A k \in 1 .. Len(trades') - 1 : trades'[k + 1].since >= trades'[k].until + Pause
      /\ Len(trades') > 0 /\ trades'[Len(trades')] = t
      /\ ir.maxBars # 0 => \A k \in 1 .. Len(trades') : trades'[k].until - trades'[k].since <= ir.maxBars
  BY <1>2, <1>3, <1>4, <1>5, AppendsApart
<1>7. i <= i
  BY <1>1
<1> QED
  BY <1>2, <1>3, <1>6, <1>7 DEF Apart, Limited, Pause

LEMMA TimeNext == Typed /\ Apart /\ Limited /\ OrdersAreFresh /\ [Next]_vars
                    => Apart' /\ Limited' /\ OrdersAreFresh'
<1> SUFFICES ASSUME Typed, Apart, Limited, OrdersAreFresh, [Next]_vars
             PROVE  Apart' /\ Limited' /\ OrdersAreFresh'
  OBVIOUS
<1>a. /\ ir \in RiskBlock /\ ir.maxBars \in Nat /\ bar \in Bar /\ i \in Nat /\ atr \in Nat
      /\ pos = Flat \/ (pos \in Position /\ pos # Flat /\ pos.since \in Nat)
      /\ cooldown \in Int /\ equity \in Int /\ Cooldown \in Nat
      /\ trades \in Seq(TradeSet) /\ Len(trades) \in Nat
      /\ phase \in {"inside", "decide"} => pending = "none"
      /\ pos # Flat => pos.since <= i
  BY TypedParts, BlockType DEF Typed, Position
<1>b. Len(trades) > 0 => trades[Len(trades)].until \in Int
  <2>1. \A t \in TradeSet : t.until \in Int
    BY Constants DEF TradeSet
  <2>2. Len(trades) > 0 => Len(trades) \in 1 .. Len(trades)
    BY <1>a
  <2>3. Len(trades) > 0 => trades[Len(trades)] \in TradeSet
    BY <1>a, <2>2, Elements
  <2> QED
    BY <2>1, <2>3
<1>1. ASSUME NEW b \in Bar, RuleExit(b) PROVE Apart' /\ Limited' /\ OrdersAreFresh'
  <2>1. /\ ir' = ir /\ i' = i /\ phase' = "inside" /\ pos # Flat /\ Close(b.open, "rule_exit")
        /\ b.open \in Int
    BY <1>1, BarType DEF RuleExit, Open
  <2>2. "rule_exit" \in Reason
    BY DEF Reason
  <2>3. Apart' /\ Limited'
    BY <2>1, <2>2, ClosesApart
  <2> QED
    BY <2>1, <2>3 DEF OrdersAreFresh
<1>2. ASSUME NEW b \in Bar, Enter(b) PROVE Apart' /\ Limited' /\ OrdersAreFresh'
  <2>1. /\ ir' = ir /\ i' = i /\ phase = "open" /\ phase' = "inside" /\ trades' = trades
        /\ cooldown' = cooldown /\ i >= cooldown
        /\ pos' # Flat => pos'.since = i
    <3>1. pos' = Opened(b) /\ i \in 0 .. Bars
      BY <1>2, TypedParts DEF Enter
    <3>2. Opened(b) # Flat => Opened(b).since = i
      BY <1>2, <1>a, <3>1, Opens DEF Enter, Entered
    <3> QED
      BY <1>2, <3>1, <3>2 DEF Enter, Open
  <2>2. Len(trades) > 0 => i >= trades[Len(trades)].until + Pause
    BY <1>a, <1>b, <2>1 DEF Apart, Pause, Higher
  <2>3. Apart'
    BY <1>a, <2>1, <2>2 DEF Apart, Pause
  <2>4. Limited'
    BY <1>a, <2>1 DEF Limited
  <2> QED
    BY <2>1, <2>3, <2>4 DEF OrdersAreFresh
<1>3. ASSUME NEW b \in Bar, NoOrder(b) PROVE Apart' /\ Limited' /\ OrdersAreFresh'
  <2>1. /\ ir' = ir /\ i' = i /\ phase = "open" /\ phase' = "inside" /\ trades' = trades
        /\ cooldown' = cooldown /\ pos' = pos
    BY <1>3 DEF NoOrder, Open
  <2> QED
    BY <2>1 DEF Apart, Limited, OrdersAreFresh, Pause
<1>4. CASE StopOut \/ TakeProfit \/ TimeStop
  <2>1. pos # Flat /\ ir' = ir /\ i' = i /\ phase' = "decide"
    BY <1>4 DEF StopOut, TakeProfit, TimeStop, Inside
  <2>2. pos.stop \in Int /\ pos.target \in Int /\ bar.close \in Int
    BY <1>a, <2>1, BarType DEF Position
  <2>3. \E price \in Int, reason \in Reason : Close(price, reason)
    BY <1>4, <2>2 DEF StopOut, TakeProfit, TimeStop, Reason
  <2> QED
    BY <2>1, <2>3, ClosesApart DEF OrdersAreFresh
<1>5. CASE Hold
  <2>1. /\ ir' = ir /\ i' = i /\ phase = "inside" /\ phase' = "decide" /\ trades' = trades
        /\ cooldown' = cooldown /\ pos # Flat /\ pos' = ManageStop /\ ~ TimeUp
    BY <1>5 DEF Hold, Inside
  <2>2. pos'.since = pos.since
    BY <1>a, <2>1, Manages DEF Position
  <2>3. Apart'
    BY <2>1, <2>2 DEF Apart, Pause
  <2>4. ir.maxBars # 0 => i - pos.since < ir.maxBars
    BY <1>a, <2>1 DEF TimeUp
  <2>5. Limited'
    BY <2>1, <2>2, <2>4 DEF Limited
  <2> QED
    BY <2>1, <2>3, <2>5 DEF OrdersAreFresh
<1>6. CASE StayFlat
  <2>1. /\ ir' = ir /\ i' = i /\ phase = "inside" /\ phase' = "decide" /\ trades' = trades
        /\ cooldown' = cooldown /\ pos = Flat /\ pos' = pos
    BY <1>6 DEF StayFlat, Inside
  <2> QED
    BY <2>1 DEF Apart, Limited, OrdersAreFresh, Pause
<1>7. CASE Decide
  <2>1. /\ ir' = ir /\ i' = i + 1 /\ phase = "decide" /\ phase' = "open" /\ trades' = trades
        /\ cooldown' = cooldown /\ pos' = pos /\ bar' = bar /\ pending = "none" /\ pending' = Decision
    BY <1>7, <1>a DEF Decide
  <2>2. Apart'
    BY <1>a, <1>b, <2>1 DEF Apart, Pause
  <2>3. Limited'
    BY <1>a, <2>1 DEF Limited
  <2>4. OrdersAreFresh'
    BY <2>1 DEF OrdersAreFresh, Decision
  <2> QED
    BY <2>2, <2>3, <2>4
<1>8. CASE EndOfData
  <2>1. ir' = ir /\ i' = i /\ phase = "open" /\ phase' = "done"
    BY <1>8 DEF EndOfData
  <2>2. CASE pos = Flat
    <3>1. trades' = trades /\ pos' = pos
      BY <1>8, <2>2 DEF EndOfData
    <3> QED
      BY <2>1, <2>2, <3>1 DEF Apart, Limited, OrdersAreFresh, Pause
  <2>3. CASE pos # Flat
    <3> DEFINE t == Trade(bar.close, i - 1, "end_of_data")
    <3>1. pos \in Position /\ pos.since < i /\ pos.since \in Nat /\ i - 1 \in 0 .. Bars
      BY <1>a, <2>1, <2>3, TypedParts DEF Typed
    <3>2. /\ pos' = Flat /\ trades' = Append(trades, t) /\ t \in TradeSet
          /\ t.since = pos.since /\ t.until = i - 1
      BY <1>8, <1>a, <2>3, <3>1, Books, TradeType, BarType DEF EndOfData, Reason
    <3>3. t.until \in {i - 1, i} /\ t.since <= t.until
      BY <1>a, <3>1, <3>2
    <3>4. ir.maxBars # 0 => t.until - t.since <= ir.maxBars
      BY <1>a, <2>3, <3>1, <3>2 DEF Limited
    <3> HIDE DEF t
    <3>5. /\ \A k \in 1 .. Len(trades') : trades'[k].since <= trades'[k].until
          /\ \A k \in 1 .. Len(trades') - 1 : trades'[k + 1].since >= trades'[k].until + Pause
          /\ ir.maxBars # 0 => \A k \in 1 .. Len(trades') : trades'[k].until - trades'[k].since <= ir.maxBars
      BY <2>1, <2>3, <3>2, <3>3, <3>4, AppendsApart
    <3> QED
      BY <2>1, <3>2, <3>5 DEF Apart, Limited, OrdersAreFresh, Pause
  <2> QED
    BY <2>2, <2>3
<1>9. CASE UNCHANGED vars
  BY <1>9 DEF vars, Apart, Limited, OrdersAreFresh, Pause, ExitSignal
<1> QED
  BY <1>1, <1>2, <1>3, <1>4, <1>5, <1>6, <1>7, <1>8, <1>9 DEF Next

\* For any prices an order executes at the next open or never, trades follow each other
\* apart by the cooldown, and none is held longer than its limit.
THEOREM InTime == Spec => []TradesInTime
<1>1. Typed /\ Apart /\ Limited /\ OrdersAreFresh => TradesInTime
  <2>1. Limited => HoldIsLimited
    BY DEF Limited, HoldIsLimited
  <2> QED
    BY <2>1, ApartSuffices DEF TradesInTime
<1> QED
  BY <1>1, TypedInit, TypedNext, TimeInit, TimeNext, PTL DEF Spec

-----------------------------------------------------------------------------
(* Stops *)

LEMMA StopsStep == Typed /\ [Next]_vars => [StopOnlyTightens /\ StopWinsTie]_vars
<1> SUFFICES ASSUME Typed, Next PROVE StopOnlyTightens /\ StopWinsTie
  OBVIOUS
<1>a. pos = Flat \/ (pos \in Position /\ pos # Flat)
  BY TypedParts
<1>1. StopOnlyTightens
  <2> SUFFICES ASSUME pos # Flat, pos' # Flat
               PROVE  /\ Gain(pos.side, pos.stop, pos'.stop) >= 0
                      /\ pos' = [pos EXCEPT !.stop = pos'.stop, !.beDone = pos'.beDone]
    BY DEF StopOnlyTightens
  <2>1. (\E b \in Bar : NoOrder(b)) \/ Hold \/ Decide
    BY DEF Next, RuleExit, Enter, StopOut, TakeProfit, TimeStop, StayFlat, Inside, EndOfData, Close, Book
  <2>2. CASE Hold
    <3>1. pos' = ManageStop /\ bar \in Bar /\ atr \in Nat /\ ir \in RiskBlock
      BY <2>2, TypedParts DEF Hold
    <3> QED
      BY <1>a, <3>1, Manages
  <2>3. CASE (\E b \in Bar : NoOrder(b)) \/ Decide
    <3>1. pos' = pos
      BY <2>3 DEF NoOrder, Decide
    <3>2. pos.stop \in Int /\ pos.stop - pos.stop >= 0
      BY <1>a DEF Position
    <3>3. Gain(pos.side, pos.stop, pos.stop) >= 0
      BY <3>2 DEF Gain
    <3>4. pos = [pos EXCEPT !.stop = pos.stop, !.beDone = pos.beDone]
      BY <1>a DEF Position
    <3> QED
      BY <3>1, <3>3, <3>4
  <2> QED
    BY <2>1, <2>2, <2>3
<1>2. StopWinsTie
  <2> SUFFICES ASSUME phase = "inside", pos # Flat, HitStop
               PROVE  pos' = Flat /\ equity' - equity <= Trade(pos.stop, i, "stop").pnl
    BY DEF StopWinsTie
  <2>1. StopOut
    BY DEF Next, RuleExit, Enter, NoOrder, Open, TakeProfit, TimeStop, Hold, StayFlat, Inside, Decide, EndOfData
  <2> DEFINE t == Trade(pos.stop, i, "stop")
  <2>2. pos' = Flat /\ equity' = equity + t.pnl
    BY <2>1 DEF StopOut, Close, Book
  <2>3. t \in TradeSet
    <3>1. pos.stop \in Int /\ i \in 0 .. Bars /\ "stop" \in Reason
      BY <1>a, TypedParts DEF Position, Reason
    <3> QED
      BY <1>a, <3>1, TradeType
  <2>4. t.pnl \in Int /\ equity \in Int
    BY <2>3, TypedParts DEF TradeSet
  <2> HIDE DEF t
  <2>5. equity' - equity <= t.pnl
    BY <2>2, <2>4
  <2> QED
    BY <2>2, <2>5 DEF t
<1> QED
  BY <1>1, <1>2

\* For any prices and any breakeven and trailing rule, a stop only ever moves in favour
\* of the position, and the bar that reaches it ends in it.
THEOREM StopsHold == Spec => StopsBind
BY TypedInit, TypedNext, StopsStep, PTL DEF Spec, StopsBind

-----------------------------------------------------------------------------
(* Risk *)

\* The stop is at most d points away, and so is any close the position was held over.
Exposed(d) ==
  /\ pos.entry > 0
  /\ pos.side = "short" => pos.stop > 0
  /\ pos.target # 0 => Gain(pos.side, pos.entry, pos.target) >= 0
  /\ 100 * (d * pos.lots * PointValue) <= equity * ir.riskPct
  /\ Gain(pos.side, pos.entry, pos.stop) >= - d
  /\ phase \in {"decide", "open"} => Gain(pos.side, pos.entry, bar.close) >= - d

Risked == pos # Flat /\ ir.stopKind # "none" => \E d \in Nat : Exposed(d)

\* What is lost when a position closes at a loss of at most d points.
LEMMA Loss ==
  ASSUME NEW g \in Int, NEW d \in Nat, g >= - d, NEW lots \in Nat
  PROVE  - 100 * (((g - Adverse) * PointValue - Commission) * lots)
           <= 100 * (d * lots * PointValue) + 100 * (Adverse * PointValue + Commission) * lots
<1> DEFINE v == PointValue * lots
           cost == (Adverse * PointValue + Commission) * lots
<1>1. v \in Nat /\ PointValue \in Nat /\ Adverse \in Nat /\ Commission \in Nat /\ cost \in Int
  BY Constants, Products
<1>2. (0 - g) * v <= d * v
  <2>1. (d + g) * v \in Nat
    BY <1>1, Products
  <2>2. (d + g) * v = d * v - (0 - g) * v
    BY <1>1
  <2>3. d * v \in Int /\ (0 - g) * v \in Int
    BY <1>1
  <2> QED
    BY <2>1, <2>2, <2>3
<1>3. d * lots * PointValue = d * v
  BY <1>1
<1>4. - 100 * (((g - Adverse) * PointValue - Commission) * lots) = 100 * ((0 - g) * v) + 100 * cost
  BY <1>1
<1>5. 100 * (Adverse * PointValue + Commission) * lots = 100 * cost
  BY <1>1
<1>6. (0 - g) * v \in Int /\ d * v \in Int
  BY <1>1
<1> HIDE DEF v, cost
<1> QED
  BY <1>1, <1>2, <1>3, <1>4, <1>5, <1>6

\* A bar that does not reach the stop closes on this side of it.
LEMMA HeldOver ==
  ASSUME Typed, pos # Flat, NEW d \in Nat, Exposed(d), ~ HitStop
  PROVE  Gain(pos.side, pos.entry, bar.close) >= - d
<1>1. /\ pos.side \in {"long", "short"} /\ pos.entry \in Int /\ pos.stop \in Int
      /\ bar.close \in Nat /\ bar.low \in Nat /\ bar.high \in Nat
      /\ bar.low <= bar.close /\ bar.close <= bar.high
  BY TypedParts, BarType DEF Position
<1>2. /\ pos.entry > 0 /\ (pos.side = "short" => pos.stop > 0)
      /\ Gain(pos.side, pos.entry, pos.stop) >= - d
  BY DEF Exposed
<1>3. CASE pos.side = "long"
  <2>1. bar.close >= pos.stop
    BY <1>1, <1>3 DEF HitStop
  <2> QED
    BY <1>1, <1>2, <1>3, <2>1 DEF Gain
<1>4. CASE pos.side = "short"
  <2>1. bar.close <= pos.stop
    BY <1>1, <1>2, <1>4 DEF HitStop
  <2> QED
    BY <1>1, <1>2, <1>4, <2>1 DEF Gain
<1> QED
  BY <1>1, <1>3, <1>4

\* An exit at a price that is at most d points worse than the entry.
LEMMA ExitCapped ==
  ASSUME Typed, pos # Flat, NEW d \in Nat, 100 * (d * pos.lots * PointValue) <= equity * ir.riskPct,
         NEW price \in Int, Gain(pos.side, pos.entry, price) >= - d,
         NEW until \in 0 .. Bars, NEW reason \in Reason, Book(Trade(price, until, reason))
  PROVE  100 * (equity - equity') <=
           equity * ir.riskPct + 100 * (Adverse * PointValue + Commission) * pos.lots
<1>1. pos \in Position /\ pos.lots \in Nat /\ equity \in Int /\ ir.riskPct \in Nat
  <2>1. pos \in Position /\ equity \in Int /\ ir \in RiskBlock
    BY TypedParts
  <2>2. ir.riskPct \in Nat
    BY <2>1, BlockType
  <2> QED
    BY <2>1, <2>2 DEF Position
<1> DEFINE g == Gain(pos.side, pos.entry, price)
           pnl == ((g - Adverse) * PointValue - Commission) * pos.lots
           risk == d * pos.lots * PointValue
           cost == (Adverse * PointValue + Commission) * pos.lots
<1>2. g \in Int
  BY <1>1 DEF Gain, Position
<1>3. equity' = equity + pnl
  BY <1>1, TradeType DEF Book
<1>4. - 100 * pnl <= 100 * risk + 100 * (Adverse * PointValue + Commission) * pos.lots
  BY <1>1, <1>2, Loss
<1>5. /\ pnl \in Int /\ risk \in Int /\ cost \in Int /\ equity * ir.riskPct \in Int
      /\ 100 * (Adverse * PointValue + Commission) * pos.lots = 100 * cost
  BY <1>1, <1>2, Constants
<1>6. - 100 * pnl = 0 - 100 * pnl
  BY <1>5
<1>7. 100 * risk <= equity * ir.riskPct
  OBVIOUS
<1> HIDE DEF g, pnl, risk, cost
<1>8. 100 * (equity - equity') = 0 - 100 * pnl
  BY <1>1, <1>3, <1>5
<1> QED
  BY <1>4, <1>5, <1>6, <1>7, <1>8

LEMMA RiskedNext == Typed /\ Risked /\ [Next]_vars => Risked'
<1> SUFFICES ASSUME Typed, Risked, [Next]_vars, pos' # Flat, ir'.stopKind # "none"
             PROVE  Risked'
  BY DEF Risked
<1>a. pos = Flat \/ (pos \in Position /\ pos # Flat)
  BY TypedParts
<1>1. ASSUME NEW b \in Bar, Enter(b) PROVE Risked'
  <2>1. /\ ir' = ir /\ equity' = equity /\ phase' = "inside" /\ pos' = Opened(b)
        /\ pending \in {"long", "short"}
    BY <1>1 DEF Enter, Open
  <2>2. PICK d \in Nat \ {0} : Entered(pos', d)
    BY <2>1, TypedParts, Opens
  <2>3. /\ pos'.side \in {"long", "short"} /\ pos'.entry \in Nat \ {0} /\ pos'.stop = Beyond(pos'.side, pos'.entry, - d)
        /\ 100 * (d * pos'.lots * PointValue) <= equity * ir.riskPct
        /\ pos'.target # 0 => Gain(pos'.side, pos'.entry, pos'.target) >= 0
    BY <2>1, <2>2 DEF Entered, Position
  <2>4. /\ Gain(pos'.side, pos'.entry, pos'.stop) >= - d
        /\ pos'.side = "short" => pos'.stop > 0
    BY <2>2, <2>3 DEF Beyond, Gain
  <2> QED
    BY <2>1, <2>3, <2>4 DEF Risked, Exposed
<1>2. ASSUME NEW b \in Bar, NoOrder(b) PROVE Risked'
  <2>1. ir' = ir /\ equity' = equity /\ phase = "open" /\ phase' = "inside" /\ pos' = pos
    BY <1>2 DEF NoOrder, Open
  <2>2. PICK d \in Nat : Exposed(d)
    BY <2>1 DEF Risked
  <2> QED
    BY <2>1, <2>2 DEF Risked, Exposed
<1>3. CASE Hold
  <2>1. /\ ir' = ir /\ equity' = equity /\ phase' = "decide" /\ bar' = bar /\ pos' = ManageStop
        /\ pos # Flat /\ ~ HitStop
    BY <1>3 DEF Hold, Inside
  <2>2. PICK d \in Nat : Exposed(d)
    BY <2>1 DEF Risked
  <2>3. /\ pos' = [pos EXCEPT !.stop = pos'.stop, !.beDone = pos'.beDone]
        /\ Gain(pos.side, pos.stop, pos'.stop) >= 0
        /\ pos.side = "short" /\ pos.stop > 0 /\ pos.entry > 0 => pos'.stop > 0
        /\ pos'.stop \in Int
    BY <1>a, <2>1, TypedParts, Manages DEF Position
  <2>4. /\ pos'.side = pos.side /\ pos'.entry = pos.entry /\ pos'.target = pos.target /\ pos'.lots = pos.lots
        /\ pos.side \in {"long", "short"} /\ pos.entry \in Int /\ pos.stop \in Int
    BY <1>a, <2>1, <2>3 DEF Position
  <2>5. Gain(pos.side, pos.entry, bar.close) >= - d
    BY <2>1, <2>2, HeldOver
  <2>6. Gain(pos.side, pos.entry, pos'.stop) >= - d
    BY <2>2, <2>3, <2>4 DEF Gain, Exposed
  <2> QED
    BY <2>1, <2>2, <2>3, <2>4, <2>5, <2>6 DEF Risked, Exposed
<1>4. CASE Decide
  <2>1. ir' = ir /\ equity' = equity /\ phase = "decide" /\ phase' = "open" /\ pos' = pos /\ bar' = bar
    BY <1>4 DEF Decide
  <2>2. PICK d \in Nat : Exposed(d)
    BY <2>1 DEF Risked
  <2> QED
    BY <2>1, <2>2 DEF Risked, Exposed
<1>5. CASE UNCHANGED vars
  <2>1. ir' = ir /\ equity' = equity /\ phase' = phase /\ pos' = pos /\ bar' = bar
    BY <1>5 DEF vars
  <2>2. PICK d \in Nat : Exposed(d)
    BY <2>1 DEF Risked
  <2> QED
    BY <2>1, <2>2 DEF Risked, Exposed
<1> QED
  <2>1. (\E b \in Bar : Enter(b) \/ NoOrder(b)) \/ Hold \/ Decide \/ UNCHANGED vars
    BY DEF Next, RuleExit, StopOut, TakeProfit, TimeStop, StayFlat, Inside, EndOfData, Close, Book
  <2> QED
    BY <1>1, <1>2, <1>3, <1>4, <1>5, <2>1

RiskStep ==
  pos # Flat /\ pos' = Flat /\ ir.stopKind # "none" /\ trades'[Len(trades')].reason # "rule_exit"
    => 100 * (equity - equity') <=
         equity * ir.riskPct + 100 * (Adverse * PointValue + Commission) * pos.lots

LEMMA RiskCappedStep == Typed /\ Risked /\ Next => RiskStep
<1> SUFFICES ASSUME Typed, Risked, Next, pos # Flat, pos' = Flat, ir.stopKind # "none",
                    trades'[Len(trades')].reason # "rule_exit"
             PROVE  100 * (equity - equity') <=
                      equity * ir.riskPct + 100 * (Adverse * PointValue + Commission) * pos.lots
  BY DEF RiskStep
<1>a. /\ pos \in Position /\ pos.stop \in Int /\ pos.target \in Int /\ bar.close \in Int /\ i \in 0 .. Bars
      /\ {"rule_exit", "stop", "target", "time_stop", "end_of_data"} \subseteq Reason
  BY TypedParts, BarType DEF Position, Reason
<1>b. PICK d \in Nat : Exposed(d)
  BY DEF Risked
<1>c. 100 * (d * pos.lots * PointValue) <= equity * ir.riskPct
  BY <1>b DEF Exposed
<1>1. ~ \E b \in Bar : RuleExit(b)
  <2> SUFFICES ASSUME NEW b \in Bar, RuleExit(b) PROVE FALSE
    OBVIOUS
  <2> DEFINE t == Trade(b.open, i, "rule_exit")
  <2>1. t \in TradeSet /\ t.reason = "rule_exit"
    <3>1. b.open \in Int /\ "rule_exit" \in Reason
      BY <1>a, BarType
    <3> QED
      BY <1>a, <3>1, TradeType
  <2>2. trades' = Append(trades, t) /\ trades \in Seq(TradeSet)
    BY TypedParts DEF RuleExit, Close, Book
  <2> HIDE DEF t
  <2> QED
    BY <2>1, <2>2
<1>2. CASE StopOut
  <2>1. Book(Trade(pos.stop, i, "stop"))
    BY <1>2 DEF StopOut, Close
  <2>2. Gain(pos.side, pos.entry, pos.stop) >= - d
    BY <1>b DEF Exposed
  <2> QED
    BY <1>a, <1>c, <2>1, <2>2, ExitCapped
<1>3. CASE TakeProfit
  <2>1. Book(Trade(pos.target, i, "target")) /\ pos.target # 0
    BY <1>3 DEF TakeProfit, Close, HitTarget
  <2>2. Gain(pos.side, pos.entry, pos.target) >= - d
    <3>1. Gain(pos.side, pos.entry, pos.target) >= 0 /\ Gain(pos.side, pos.entry, pos.target) \in Int
      BY <1>a, <1>b, <2>1 DEF Exposed, Gain, Position
    <3> QED
      BY <3>1
  <2> QED
    BY <1>a, <1>c, <2>1, <2>2, ExitCapped
<1>4. CASE TimeStop
  <2>1. Book(Trade(bar.close, i, "time_stop")) /\ ~ HitStop
    BY <1>4 DEF TimeStop, Close
  <2>2. Gain(pos.side, pos.entry, bar.close) >= - d
    BY <1>b, <2>1, HeldOver
  <2> QED
    BY <1>a, <1>c, <2>1, <2>2, ExitCapped
<1>5. CASE EndOfData
  <2>1. Book(Trade(bar.close, i - 1, "end_of_data")) /\ phase = "open"
    BY <1>5 DEF EndOfData
  <2>2. Gain(pos.side, pos.entry, bar.close) >= - d
    BY <1>b, <2>1 DEF Exposed
  <2>3. i - 1 \in 0 .. Bars
    BY <1>a, <2>1, TypedParts DEF Typed, Position
  <2> QED
    BY <1>a, <1>c, <2>1, <2>2, <2>3, ExitCapped
<1> QED
  <2>1. StopOut \/ TakeProfit \/ TimeStop \/ EndOfData
    <3>1. ~ Hold
      BY <1>a, TypedParts, Manages, NotFlat DEF Hold
    <3> QED
      BY <1>1, <3>1 DEF Next, Enter, NoOrder, StayFlat, Inside, Decide
  <2> QED
    BY <1>2, <1>3, <1>4, <1>5, <2>1

\* For any prices, a position with a stop that does not leave at an open costs at most
\* the configured share of the equity, and the costs of leaving.
THEOREM RiskCapped == Spec => RiskIsCapped
<1>1. Init => Risked
  BY DEF Init, Risked
<1>2. Typed /\ Risked /\ [Next]_vars => [RiskStep]_vars
  BY RiskCappedStep
<1> QED
  BY <1>1, <1>2, TypedInit, TypedNext, RiskedNext, PTL DEF Spec, RiskIsCapped, RiskStep
-----------------------------------------------------------------------------
(* Sums: induction over the naturals, from the least element of a set *)

LEMMA Least ==
  ASSUME NEW T, T \subseteq Nat, T # {}
  PROVE  \E n \in T : \A m \in T : n <= m
<1>1. \E n \in T : \A m \in T : ~ (<< m, n >> \in OpToRel(<, Nat))
  BY NatLessThanWellFounded, WFMin
<1>2. PICK n \in T : \A m \in T : ~ (<< m, n >> \in OpToRel(<, Nat))
  BY <1>1
<1>3. n \in Nat /\ \A m \in T : m \in Nat /\ ~ (m < n)
  BY <1>2 DEF OpToRel
<1>4. \A m \in T : n <= m
  BY <1>3
<1> QED
  BY <1>4

LEMMA Induction ==
  ASSUME NEW T, 0 \in T, \A n \in Nat : n \in T => n + 1 \in T
  PROVE  Nat \subseteq T
<1> DEFINE out == {n \in Nat : n \notin T}
<1>1. CASE out # {}
  <2>1. PICK n \in out : \A m \in out : n <= m
    BY <1>1, Least
  <2>2. n \in Nat /\ n # 0
    BY <2>1
  <2>3. n - 1 \in Nat /\ ~ (n <= n - 1)
    BY <2>2
  <2>4. n - 1 \in T
    BY <2>1, <2>3
  <2> QED
    BY <2>1, <2>2, <2>3, <2>4
<1> QED
  BY <1>1

\* S holds the sums of the first numbers of f.
Sums(f, S) == S = [k \in 0 .. Len(f) |-> IF k = 0 THEN 0 ELSE S[k - 1] + f[k]]

\* Any two functions that hold the sums of two sequences agree as far as these do.
LEMMA SumsAgree ==
  ASSUME NEW f, NEW g, Len(f) \in Nat, Len(g) \in Nat, Len(f) <= Len(g),
         \A k \in 1 .. Len(f) : f[k] = g[k],
         NEW S, NEW R, Sums(f, S), Sums(g, R)
  PROVE  S[Len(f)] = R[Len(f)]
<1> DEFINE T == {m \in Nat : m <= Len(f) => S[m] = R[m]}
<1>1. 0 \in T
  BY DEF Sums
<1>2. ASSUME NEW m \in Nat, m \in T PROVE m + 1 \in T
  <2> SUFFICES ASSUME m + 1 <= Len(f) PROVE S[m + 1] = R[m + 1]
    OBVIOUS
  <2>1. S[m] = R[m] /\ f[m + 1] = g[m + 1]
    BY <1>2
  <2>2. m + 1 \in 0 .. Len(f) /\ m + 1 \in 0 .. Len(g) /\ m + 1 # 0 /\ (m + 1) - 1 = m
    OBVIOUS
  <2>3. S[m + 1] = S[m] + f[m + 1] /\ R[m + 1] = R[m] + g[m + 1]
    BY <2>2 DEF Sums
  <2> QED
    BY <2>1, <2>3
<1>3. Len(f) \in T
  BY <1>1, <1>2, Induction
<1> QED
  BY <1>3

\* Every sequence of numbers has its sums.
LEMMA SumsExist ==
  ASSUME NEW f \in Seq(Int)
  PROVE  \E S : Sums(f, S) /\ S \in [0 .. Len(f) -> Int]
<1>1. Len(f) \in Nat /\ \A k \in 1 .. Len(f) : f[k] \in Int
  OBVIOUS
<1> DEFINE Upto(n, S) == /\ S \in [0 .. n -> Int]
                         /\ S[0] = 0
                         /\ \A k \in 1 .. n : S[k] = S[k - 1] + f[k]
           T == {n \in Nat : n <= Len(f) => \E S : Upto(n, S)}
<1>2. 0 \in T
  <2> DEFINE R == [k \in 0 .. 0 |-> 0]
  <2>1. R \in [0 .. 0 -> Int] /\ R[0] = 0 /\ \A k \in 1 .. 0 : FALSE
    OBVIOUS
  <2> QED
    BY <2>1
<1>3. ASSUME NEW n \in Nat, n \in T PROVE n + 1 \in T
  <2> SUFFICES ASSUME n + 1 <= Len(f) PROVE \E S : Upto(n + 1, S)
    OBVIOUS
  <2>0. n <= Len(f)
    BY <1>1
  <2>1. PICK S : Upto(n, S)
    BY <1>3, <2>0
  <2> DEFINE R == [k \in 0 .. n + 1 |-> IF k = n + 1 THEN S[n] + f[n + 1] ELSE S[k]]
  <2>2. S[n] \in Int /\ f[n + 1] \in Int
    BY <1>1, <2>1
  <2>3. R \in [0 .. n + 1 -> Int]
    BY <2>1, <2>2
  <2>4. R[0] = 0
    BY <2>1
  <2>5. ASSUME NEW k \in 1 .. n + 1 PROVE R[k] = R[k - 1] + f[k]
    <3>1. CASE k = n + 1
      BY <3>1
    <3>2. CASE k # n + 1
      <4>1. k \in 1 .. n /\ k - 1 \in 0 .. n + 1 /\ k - 1 # n + 1 /\ k \in 0 .. n + 1
        BY <3>2
      <4> QED
        BY <2>1, <3>2, <4>1
    <3> QED
      BY <3>1, <3>2
  <2> HIDE DEF R
  <2> QED
    BY <2>3, <2>4, <2>5
<1>4. Len(f) \in T
  BY <1>1, <1>2, <1>3, Induction
<1>5. PICK S : Upto(Len(f), S)
  BY <1>1, <1>4
<1>6. S = [k \in 0 .. Len(f) |-> S[k]]
  BY <1>5
<1>7. \A k \in 0 .. Len(f) : S[k] = IF k = 0 THEN 0 ELSE S[k - 1] + f[k]
  BY <1>1, <1>5
<1>8. Sums(f, S)
  BY <1>6, <1>7 DEF Sums
<1> QED
  BY <1>5, <1>8

\* What the sum of a sequence of numbers is.
LEMMA SumFacts ==
  ASSUME NEW f \in Seq(Int)
  PROVE  \E S \in [0 .. Len(f) -> Int] : Sums(f, S) /\ Sum(f) = S[Len(f)]
<1>1. PICK S : Sums(f, S) /\ S \in [0 .. Len(f) -> Int]
  BY SumsExist
<1> DEFINE R == CHOOSE R : R = [k \in 0 .. Len(f) |-> IF k = 0 THEN 0 ELSE R[k - 1] + f[k]]
<1>2. Sums(f, R)
  BY <1>1 DEF Sums
<1>3. Sum(f) = R[Len(f)]
  BY DEF Sum
<1>4. Len(f) \in Nat
  OBVIOUS
<1> HIDE DEF R
<1>5. R[Len(f)] = S[Len(f)]
  BY <1>1, <1>2, <1>4, SumsAgree
<1> QED
  BY <1>1, <1>3, <1>5

LEMMA SumType == ASSUME NEW f \in Seq(Int) PROVE Sum(f) \in Int
<1>1. PICK S \in [0 .. Len(f) -> Int] : Sum(f) = S[Len(f)]
  BY SumFacts
<1>2. Len(f) \in 0 .. Len(f)
  OBVIOUS
<1> QED
  BY <1>1, <1>2

LEMMA SumOfNone == ASSUME NEW f \in Seq(Int), Len(f) = 0 PROVE Sum(f) = 0
<1>1. PICK S \in [0 .. Len(f) -> Int] : Sums(f, S) /\ Sum(f) = S[Len(f)]
  BY SumFacts
<1>2. S[0] = 0
  BY <1>1 DEF Sums
<1> QED
  BY <1>1, <1>2

\* One number more.
LEMMA SumOfMore ==
  ASSUME NEW f \in Seq(Int), NEW g \in Seq(Int), Len(g) = Len(f) + 1,
         \A k \in 1 .. Len(f) : g[k] = f[k]
  PROVE  Sum(g) = Sum(f) + g[Len(g)]
<1>1. PICK S \in [0 .. Len(f) -> Int] : Sums(f, S) /\ Sum(f) = S[Len(f)]
  BY SumFacts
<1>2. PICK R \in [0 .. Len(g) -> Int] : Sums(g, R) /\ Sum(g) = R[Len(g)]
  BY SumFacts
<1>3. Len(f) \in Nat /\ Len(g) \in Nat
  OBVIOUS
<1>4. S[Len(f)] = R[Len(f)]
  <2>1. Len(f) <= Len(g) /\ \A k \in 1 .. Len(f) : f[k] = g[k]
    BY <1>3
  <2> QED
    BY <1>1, <1>2, <1>3, <2>1, SumsAgree
<1>5. R[Len(g)] = R[Len(f)] + g[Len(g)]
  <2>1. Len(g) \in 0 .. Len(g) /\ Len(g) # 0 /\ Len(g) - 1 = Len(f)
    BY <1>3
  <2> QED
    BY <1>2, <2>1 DEF Sums
<1> QED
  BY <1>1, <1>2, <1>4, <1>5

-----------------------------------------------------------------------------
(* The books *)

\* The bars of exposure that a trade stands for, and those of a list of trades.
HeldIn(t) == t.until - t.since + (IF t.reason = "rule_exit" THEN 0 ELSE 1)

Exposure(list) == Sum([k \in 1 .. Len(list) |-> HeldIn(list[k])])

\* The exposure so far of the position that is open.
OpenBars == IF pos = Flat THEN 0 ELSE i - pos.since + (IF phase = "decide" THEN 1 ELSE 0)

Counted == exposure = Exposure(trades) + OpenBars

\* Where no position is open, the curve ends with the equity.
Marked ==
  /\ phase \in {"open", "done"} /\ pos = Flat => curve = equity
  /\ phase = "done" => pos = Flat

LEMMA HeldType == \A t \in TradeSet : HeldIn(t) \in Int
<1>1. \A t \in TradeSet : t.until \in Int /\ t.since \in Int
  BY Constants DEF TradeSet
<1> QED
  BY <1>1 DEF HeldIn

LEMMA HeldSeq ==
  ASSUME NEW list \in Seq(TradeSet)
  PROVE  /\ [k \in 1 .. Len(list) |-> HeldIn(list[k])] \in Seq(Int)
         /\ Len([k \in 1 .. Len(list) |-> HeldIn(list[k])]) = Len(list)
<1> DEFINE held == [k \in 1 .. Len(list) |-> HeldIn(list[k])]
<1>1. Len(list) \in Nat /\ \A k \in 1 .. Len(list) : HeldIn(list[k]) \in Int
  BY Elements, HeldType
<1>2. held \in [1 .. Len(list) -> Int]
  BY <1>1
<1>3. held \in Seq(Int)
  BY <1>1, <1>2, SeqDef
<1>4. DOMAIN held = 1 .. Len(held) /\ DOMAIN held = 1 .. Len(list) /\ Len(held) \in Nat
  BY <1>3, LenProperties
<1> HIDE DEF held
<1>5. Len(held) = Len(list)
  BY <1>1, <1>4
<1> QED
  BY <1>3, <1>5 DEF held

LEMMA ExposureType == \A list \in Seq(TradeSet) : Exposure(list) \in Int
BY HeldSeq, SumType DEF Exposure

LEMMA ExposureOfMore ==
  ASSUME NEW list \in Seq(TradeSet), NEW t \in TradeSet
  PROVE  Exposure(Append(list, t)) = Exposure(list) + HeldIn(t)
<1> DEFINE more == Append(list, t)
           f == [k \in 1 .. Len(list) |-> HeldIn(list[k])]
           g == [k \in 1 .. Len(more) |-> HeldIn(more[k])]
<1>1. more \in Seq(TradeSet) /\ Len(more) = Len(list) + 1 /\ Len(list) \in Nat
  OBVIOUS
<1>2. f \in Seq(Int) /\ Len(f) = Len(list) /\ g \in Seq(Int) /\ Len(g) = Len(f) + 1
  <2> HIDE DEF more
  <2> QED
    BY <1>1, HeldSeq
<1>3. \A k \in 1 .. Len(list) : more[k] = list[k]
  OBVIOUS
<1>4. more[Len(list) + 1] = t
  OBVIOUS
<1>5. \A k \in 1 .. Len(list) : g[k] = f[k]
  BY <1>1, <1>3
<1>6. g[Len(list) + 1] = HeldIn(t)
  BY <1>1, <1>4
<1> HIDE DEF f, g, more
<1>7. Sum(g) = Sum(f) + g[Len(g)]
  BY <1>2, <1>5, SumOfMore
<1>8. Exposure(list) = Sum(f) /\ Exposure(more) = Sum(g)
  BY DEF Exposure, f, g
<1> QED
  BY <1>2, <1>6, <1>7, <1>8 DEF more

LEMMA BooksInit == Init => Counted /\ Marked
<1> SUFFICES ASSUME Init PROVE Counted /\ Marked
  OBVIOUS
<1>1. trades \in Seq(TradeSet) /\ Len(trades) = 0
  BY DEF Init
<1>2. Exposure(trades) = 0
  BY <1>1, HeldSeq, SumOfNone DEF Exposure
<1> QED
  BY <1>2 DEF Init, Counted, OpenBars, Marked

\* A position that closes takes its bars of exposure into the list.
LEMMA ClosesCounted ==
  ASSUME Typed, Counted, pos # Flat, NEW price \in Int, NEW until \in 0 .. Bars, NEW reason \in Reason,
         Book(Trade(price, until, reason)),
         exposure' = exposure - OpenBars + HeldIn(Trade(price, until, reason))
  PROVE  Counted'
<1> DEFINE t == Trade(price, until, reason)
<1>1. pos' = Flat /\ trades' = Append(trades, t) /\ t \in TradeSet
  BY Books
<1>2. trades \in Seq(TradeSet)
  BY TypedParts
<1>3. OpenBars \in Int
  <2>1. pos \in Position /\ i \in Nat /\ pos.since \in Int
    BY TypedParts DEF Position
  <2> QED
    BY <2>1 DEF OpenBars
<1> HIDE DEF t
<1>4. exposure' = exposure - OpenBars + HeldIn(t)
  BY DEF t
<1>5. Exposure(trades') = Exposure(trades) + HeldIn(t)
  BY <1>1, <1>2, ExposureOfMore
<1>6. Exposure(trades) \in Int /\ HeldIn(t) \in Int
  BY <1>1, <1>2, ExposureType, HeldType
<1>7. exposure' = Exposure(trades) + HeldIn(t)
  BY <1>3, <1>4, <1>6 DEF Counted
<1>8. OpenBars' = 0
  BY <1>1 DEF OpenBars
<1> QED
  BY <1>5, <1>6, <1>7, <1>8 DEF Counted

\* The bars a closing position was held in.
LEMMA HeldOf ==
  ASSUME Typed, pos # Flat, NEW price \in Int, NEW until \in Int, NEW reason
  PROVE  HeldIn(Trade(price, until, reason)) = until - pos.since + (IF reason = "rule_exit" THEN 0 ELSE 1)
BY DEF HeldIn, Trade

LEMMA BooksNext == Typed /\ Counted /\ Marked /\ [Next]_vars => Counted' /\ Marked'
<1> SUFFICES ASSUME Typed, Counted, Marked, [Next]_vars PROVE Counted' /\ Marked'
  OBVIOUS
<1>a. /\ bar \in Bar /\ bar.close \in Int /\ i \in 0 .. Bars /\ i \in Nat /\ exposure \in Nat /\ equity \in Int
      /\ pos = Flat \/ (pos \in Position /\ pos # Flat /\ pos.since \in Nat /\ pos.stop \in Int /\ pos.target \in Int)
      /\ {"rule_exit", "stop", "target", "time_stop", "end_of_data"} \subseteq Reason
  BY TypedParts, BarType DEF Position, Reason
<1>1. ASSUME NEW b \in Bar, RuleExit(b) PROVE Counted' /\ Marked'
  <2>1. /\ phase = "open" /\ phase' = "inside" /\ exposure' = exposure /\ pos # Flat
        /\ Book(Trade(b.open, i, "rule_exit")) /\ b.open \in Int
    BY <1>1, BarType DEF RuleExit, Open, Close
  <2>2. exposure' = exposure - OpenBars + HeldIn(Trade(b.open, i, "rule_exit"))
    <3>1. HeldIn(Trade(b.open, i, "rule_exit")) = i - pos.since
      BY <1>a, <2>1, HeldOf
    <3> QED
      BY <1>a, <2>1, <3>1 DEF OpenBars
  <2>3. Counted'
    BY <1>a, <2>1, <2>2, ClosesCounted
  <2> QED
    BY <2>1, <2>3 DEF Marked
<1>2. ASSUME NEW b \in Bar, Enter(b) PROVE Counted' /\ Marked'
  <2>1. /\ phase' = "inside" /\ exposure' = exposure /\ trades' = trades /\ i' = i /\ pos = Flat
        /\ pos' = Opened(b)
    BY <1>2 DEF Enter, Open
  <2>2. pos' # Flat => pos'.since = i
    BY <1>2, <1>a, <2>1, TypedParts, Opens DEF Enter, Entered
  <2>3. OpenBars = 0 /\ OpenBars' = 0
    BY <1>a, <2>1, <2>2 DEF OpenBars
  <2> QED
    BY <2>1, <2>3 DEF Counted, Marked
<1>3. ASSUME NEW b \in Bar, NoOrder(b) PROVE Counted' /\ Marked'
  <2>1. /\ phase = "open" /\ phase' = "inside" /\ exposure' = exposure /\ trades' = trades /\ i' = i /\ pos' = pos
    BY <1>3 DEF NoOrder, Open
  <2> QED
    BY <2>1 DEF Counted, Marked, OpenBars
<1>4. CASE StopOut \/ TakeProfit \/ TimeStop
  <2>1. /\ phase = "inside" /\ phase' = "decide" /\ exposure' = exposure + 1 /\ pos # Flat
        /\ \E price \in Int, reason \in Reason : Book(Trade(price, i, reason)) /\ reason # "rule_exit"
    BY <1>4, <1>a DEF StopOut, TakeProfit, TimeStop, Inside, Close
  <2>2. PICK price \in Int, reason \in Reason : Book(Trade(price, i, reason)) /\ reason # "rule_exit"
    BY <2>1
  <2>3. exposure' = exposure - OpenBars + HeldIn(Trade(price, i, reason))
    <3>1. HeldIn(Trade(price, i, reason)) = i - pos.since + 1
      BY <1>a, <2>1, <2>2, HeldOf
    <3> QED
      BY <1>a, <2>1, <3>1 DEF OpenBars
  <2>4. Counted'
    BY <1>a, <2>1, <2>2, <2>3, ClosesCounted
  <2> QED
    BY <2>1, <2>4 DEF Marked
<1>5. CASE Hold
  <2>1. /\ phase = "inside" /\ phase' = "decide" /\ exposure' = exposure + 1 /\ trades' = trades /\ i' = i
        /\ pos # Flat /\ pos' = ManageStop
    BY <1>5 DEF Hold, Inside
  <2>2. pos' # Flat /\ pos'.since = pos.since
    <3>1. pos' = [pos EXCEPT !.stop = pos'.stop, !.beDone = pos'.beDone]
      BY <1>a, <2>1, TypedParts, Manages
    <3>2. pos'.since = pos.since /\ pos'.side = pos.side
      BY <1>a, <2>1, <3>1 DEF Position
    <3>3. pos'.side # "none"
      BY <1>a, <2>1, <3>2 DEF Position
    <3> QED
      BY <3>2, <3>3 DEF Flat
  <2>3. OpenBars' = OpenBars + 1 /\ OpenBars \in Int
    BY <1>a, <2>1, <2>2 DEF OpenBars
  <2>4. Exposure(trades) \in Int
    BY TypedParts, ExposureType
  <2>5. Counted'
    BY <2>1, <2>3, <2>4 DEF Counted
  <2> QED
    BY <2>1, <2>5 DEF Marked
<1>6. CASE StayFlat
  <2>1. /\ phase = "inside" /\ phase' = "decide" /\ exposure' = exposure /\ trades' = trades /\ i' = i
        /\ pos = Flat /\ pos' = pos
    BY <1>6 DEF StayFlat, Inside
  <2> QED
    BY <2>1 DEF Counted, Marked, OpenBars
<1>7. CASE Decide
  <2>1. /\ phase = "decide" /\ phase' = "open" /\ exposure' = exposure /\ trades' = trades /\ i' = i + 1
        /\ pos' = pos /\ equity' = equity /\ curve' = equity + Floating
    BY <1>7 DEF Decide
  <2>2. OpenBars' = OpenBars
    BY <1>a, <2>1 DEF OpenBars
  <2>3. pos' = Flat => curve' = equity'
    BY <1>a, <2>1 DEF Floating
  <2> QED
    BY <2>1, <2>2, <2>3 DEF Counted, Marked
<1>8. CASE EndOfData
  <2>1. phase = "open" /\ phase' = "done" /\ exposure' = exposure /\ i' = i
    BY <1>8 DEF EndOfData
  <2>2. CASE pos = Flat
    <3>1. pos' = pos /\ equity' = equity /\ curve' = curve /\ trades' = trades
      BY <1>8, <2>2 DEF EndOfData
    <3> QED
      BY <2>1, <2>2, <3>1 DEF Counted, Marked, OpenBars
  <2>3. CASE pos # Flat
    <3>1. Book(Trade(bar.close, i - 1, "end_of_data")) /\ curve' = equity'
      BY <1>8, <2>3 DEF EndOfData
    <3>2. i - 1 \in 0 .. Bars
      <4>1. pos.since < i /\ pos.since \in Nat
        BY <1>a, <2>1, <2>3 DEF Typed
      <4> QED
        BY <1>a, <4>1, Constants
    <3>3. exposure' = exposure - OpenBars + HeldIn(Trade(bar.close, i - 1, "end_of_data"))
      <4>1. HeldIn(Trade(bar.close, i - 1, "end_of_data")) = i - 1 - pos.since + 1
        BY <1>a, <2>3, <3>2, HeldOf
      <4> QED
        BY <1>a, <2>1, <2>3, <4>1 DEF OpenBars
    <3>4. Counted'
      BY <1>a, <2>1, <2>3, <3>1, <3>2, <3>3, ClosesCounted
    <3>5. pos' = Flat
      BY <3>1 DEF Book
    <3> QED
      BY <3>1, <3>4, <3>5 DEF Marked
  <2> QED
    BY <2>2, <2>3
<1>9. CASE UNCHANGED vars
  BY <1>9 DEF vars, Counted, Marked, OpenBars
<1> QED
  BY <1>1, <1>2, <1>3, <1>4, <1>5, <1>6, <1>7, <1>8, <1>9 DEF Next

\* For any prices the exposure is what the trades and the open position say it is, and
\* the equity curve ends with what was really made.
THEOREM BooksBalance == Spec => []BooksAgree
<1>1. Counted /\ Marked => BooksAgree
  <2>1. Counted => ExposureIsHeld
    BY DEF Counted, ExposureIsHeld, Exposure, HeldIn, OpenBars
  <2>2. Marked => CurveEndsBooked
    BY DEF Marked, CurveEndsBooked
  <2> QED
    BY <2>1, <2>2 DEF BooksAgree
<1> QED
  BY <1>1, TypedInit, TypedNext, BooksInit, BooksNext, PTL DEF Spec
=============================================================================

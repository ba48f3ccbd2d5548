------------------------------ MODULE Backtest ------------------------------
(***************************************************************************)
(* The bar loop of the backtest engine (backtest/engine.py, _simulate): a  *)
(* strategy's orders, its one position and the account, over a price path  *)
(* that is whatever the data turns out to be.                              *)
(*                                                                         *)
(* Prices are integer points, lots hundredths of a lot, money cents, so    *)
(* that what the code rounds to two digits is exact here.  Excursions (mae *)
(* and mfe) are not modelled: nothing reads them.                          *)
(***************************************************************************)
EXTENDS Integers, Sequences

CONSTANTS
  Bar,             \* the bars a price path is made of
  RiskBlock,       \* the risk blocks of the strategies (ir.risk)
  AtrPeriod,       \* ir.risk.atr_period
  InitialAtr,      \* the ATR at the end of the warm-up
  Cooldown,        \* ir.filters.cooldown_bars
  Adverse,         \* half the spread and the slippage, in points
  Commission,      \* per lot
  PointValue,
  InitialBalance,
  Bars             \* bound: bars in the slice, end - start

ASSUME BacktestAssumption ==
  /\ Bar \subseteq [open : Nat, high : Nat, low : Nat, close : Nat,
                    signals : SUBSET {"long", "short", "exit long", "exit short"}]
  /\ \A b \in Bar : b.low <= b.open /\ b.open <= b.high /\ b.low <= b.close /\ b.close <= b.high
  /\ RiskBlock \subseteq
       [stopKind : {"atr", "points", "percent", "none"}, stopValue : Nat \ {0},
        targetKind : {"atr", "points", "percent", "rr", "none"}, targetValue : Nat \ {0},
        trailing : BOOLEAN, trailMult : Nat \ {0}, breakevenTenths : Nat,
        riskPct : 1 .. 5, maxBars : Nat]
  /\ AtrPeriod \in 5 .. 100 /\ InitialAtr \in Nat
  /\ {Cooldown, Adverse, Commission, InitialBalance, Bars} \subseteq Nat
  /\ PointValue \in Nat \ {0}

\* A price is more than what it costs to trade it.  Without this a level could come to
\* be 0, which the engine takes for "no stop" (engine.py:261).
ASSUME PricesExceedCosts == \A b \in Bar : b.open > Adverse

VARIABLES
  ir,        \* the risk block under test
  phase,     \* where in the loop body: "open", "inside", "decide"; or "done"
  i,         \* index of the bar
  bar,       \* the bar, or in phase "open" the one before
  atr,       \* the average true range, of the bars up to this one
  pos,       \* the position
  pending,   \* what the last close decided
  cooldown,  \* cooldown_until
  equity,
  curve,     \* the last point of equity_curve
  exposure,  \* exposure_bars
  trades

vars == << ir, phase, i, bar, atr, pos, pending, cooldown, equity, curve, exposure, trades >>

Flat == [side |-> "none", entry |-> 0, stop |-> 0, target |-> 0, lots |-> 0,
         risked |-> 0, since |-> 0, beDone |-> FALSE]

Higher(a, b) == IF a >= b THEN a ELSE b
Lower(a, b) == IF a <= b THEN a ELSE b
Distance(a, b) == Higher(a - b, b - a)

\* Points won by a move from one price to another; and the reverse of it.
Gain(side, from, to) == IF side = "long" THEN to - from ELSE from - to
Beyond(side, price, points) == IF side = "long" THEN price + points ELSE price - points

\* indicators.atr: the average that ends with bar b, in whole points.
Atr(b) ==
  LET trueRange == Higher(b.high - b.low,
                          Higher(Distance(b.high, bar.close), Distance(b.low, bar.close)))
  IN  (atr * (AtrPeriod - 1) + trueRange) \div AtrPeriod

StopDistance(price, range) ==
  CASE ir.stopKind = "atr"     -> range * ir.stopValue
    [] ir.stopKind = "points"  -> ir.stopValue
    [] ir.stopKind = "percent" -> (price * ir.stopValue) \div 100
    [] ir.stopKind = "none"    -> Higher(range * 3, price \div 100)

TargetDistance(price, range, stopDist) ==
  CASE ir.targetKind = "none"    -> 0
    [] ir.targetKind = "atr"     -> range * ir.targetValue
    [] ir.targetKind = "points"  -> ir.targetValue
    [] ir.targetKind = "percent" -> (price * ir.targetValue) \div 100
    [] ir.targetKind = "rr"      -> stopDist * ir.targetValue

\* Mutant of SizePosition: the point value is left out of the risk.
SizeByPoints(stopDist, price) ==
  IF equity <= 0 \/ stopDist <= 0 THEN 0
  ELSE Lower((equity * ir.riskPct) \div (100 * stopDist), (equity * 50) \div Higher(price * PointValue, 1))

\* Risk-based lots, under a leverage of 50, rounded down to 0.01 lots.
SizePosition(stopDist, price) ==
  IF equity <= 0 \/ stopDist <= 0 THEN 0
  ELSE Lower((equity * ir.riskPct) \div (100 * stopDist * PointValue),
             (equity * 50) \div Higher(price * PointValue, 1))

\* Mutant of Opened: a position too small to trade is opened all the same.
OpenedUnsized(b) ==
  LET fill == Beyond(pending, b.open, Adverse)
      dist == StopDistance(fill, Atr(b))
      aim  == TargetDistance(fill, Atr(b), dist)
      lots == SizePosition(dist, fill)
  IN  IF Atr(b) > 0 /\ dist > 0
      THEN [side   |-> pending, entry |-> fill,
            stop   |-> IF ir.stopKind = "none" THEN 0 ELSE Beyond(pending, fill, - dist),
            target |-> IF aim = 0 THEN 0 ELSE Beyond(pending, fill, aim),
            lots   |-> lots, risked |-> dist * lots * PointValue,
            since  |-> i, beDone |-> FALSE]
      ELSE Flat

\* The position that an entry order opens in bar b, or Flat.
Opened(b) ==
  LET fill == Beyond(pending, b.open, Adverse)
      dist == StopDistance(fill, Atr(b))
      aim  == TargetDistance(fill, Atr(b), dist)
      lots == SizePosition(dist, fill)
  IN  IF Atr(b) > 0 /\ lots > 0
      THEN [side   |-> pending, entry |-> fill,
            stop   |-> IF ir.stopKind = "none" THEN 0 ELSE Beyond(pending, fill, - dist),
            target |-> IF aim = 0 THEN 0 ELSE Beyond(pending, fill, aim),
            lots   |-> lots, risked |-> dist * lots * PointValue,
            since  |-> i, beDone |-> FALSE]
      ELSE Flat

-----------------------------------------------------------------------------

Init ==
  /\ ir \in RiskBlock
  /\ phase = "open"
  /\ i = 0
  /\ bar \in {b \in Bar : b.signals = {}}  \* the last one of the warm-up
  /\ atr = InitialAtr
  /\ pos = Flat
  /\ pending = "none"
  /\ cooldown = -1
  /\ equity = InitialBalance
  /\ curve = InitialBalance
  /\ exposure = 0
  /\ trades = << >>

\* The trade that an exit at this price makes of the position: costs make the
\* price worse.
Trade(price, until, reason) ==
  LET fill == Beyond(pos.side, price, - Adverse)
  IN  [side |-> pos.side, since |-> pos.since, until |-> until, price |-> fill,
       pnl |-> (Gain(pos.side, pos.entry, fill) * PointValue - Commission) * pos.lots,
       reason |-> reason]

Book(trade) ==
  /\ trades' = Append(trades, trade)
  /\ equity' = equity + trade.pnl
  /\ pos' = Flat

Close(price, reason) ==
  /\ Book(Trade(price, i, reason))
  /\ cooldown' = i + Cooldown

-----------------------------------------------------------------------------
(* 1. At the open: what the last bar decided. *)

Open(b) ==
  /\ phase = "open" /\ i < Bars
  /\ phase' = "inside"
  /\ bar' = b /\ atr' = Atr(b)
  /\ UNCHANGED << ir, i, curve, exposure >>

RuleExit(b) ==
  /\ Open(b)
  /\ pending = "exit" /\ pos # Flat
  /\ Close(b.open, "rule_exit")
  /\ pending' = "none"

Enter(b) ==
  /\ Open(b)
  /\ pending \in {"long", "short"} /\ pos = Flat /\ i >= cooldown
  /\ pos' = Opened(b)
  /\ pending' = "none"
  /\ UNCHANGED << cooldown, equity, trades >>

\* Mutant of NoOrder: an order the cooldown stops is kept for later.
NoOrderKeeps(b) ==
  /\ Open(b)
  /\ pending = "none" \/ (pending # "exit" /\ i < cooldown)
  /\ UNCHANGED << pending, pos, cooldown, equity, trades >>

NoOrder(b) ==
  /\ Open(b)
  /\ pending = "none" \/ (pending # "exit" /\ i < cooldown)
  /\ pending' = "none"
  /\ UNCHANGED << pos, cooldown, equity, trades >>

-----------------------------------------------------------------------------
(* 2. Inside the bar: the stop, the target, the time stop, the moving stop. *)

HitStop ==
  /\ pos.stop # 0
  /\ IF pos.side = "long" THEN bar.low <= pos.stop ELSE bar.high >= pos.stop
HitTarget ==
  /\ pos.target # 0
  /\ IF pos.side = "long" THEN bar.high >= pos.target ELSE bar.low <= pos.target
TimeUp == ir.maxBars # 0 /\ i - pos.since >= ir.maxBars

\* Mutant of Inside: the bar a position is closed in does not count.
InsideUncounted(open) ==
  /\ phase = "inside" /\ (pos # Flat) = open
  /\ phase' = "decide"
  /\ exposure' = IF open /\ ~ (HitStop \/ HitTarget) THEN exposure + 1 ELSE exposure
  /\ UNCHANGED << ir, i, bar, atr, pending, curve >>

Inside(open) ==
  /\ phase = "inside" /\ (pos # Flat) = open
  /\ phase' = "decide"
  /\ exposure' = IF open THEN exposure + 1 ELSE exposure
  /\ UNCHANGED << ir, i, bar, atr, pending, curve >>

StopOut ==
  /\ Inside(TRUE) /\ HitStop
  /\ Close(pos.stop, "stop")

\* Mutant of TakeProfit: it does not wait to see whether the stop was hit.
TakeProfitFirst ==
  /\ Inside(TRUE) /\ HitTarget
  /\ Close(pos.target, "target")

TakeProfit ==
  /\ Inside(TRUE) /\ ~ HitStop /\ HitTarget
  /\ Close(pos.target, "target")

TimeStop ==
  /\ Inside(TRUE) /\ ~ HitStop /\ ~ HitTarget /\ TimeUp
  /\ Close(bar.close, "time_stop")

\* Where a stop goes that is to move to a level, but only in our favour.
Tighter(stop, level) ==
  IF pos.side = "long" THEN Higher(stop, level) ELSE Lower(stop, level)

\* Breakeven, then trailing.  A unit of risk is the distance to the stop where
\* it is now.
ManageStop ==
  LET dist  == IF pos.stop # 0 THEN Distance(pos.entry, pos.stop)
               ELSE pos.risked \div (pos.lots * PointValue)
      even  == /\ pos.stop # 0 /\ ir.breakevenTenths # 0 /\ ~ pos.beDone /\ dist > 0
               /\ 10 * Gain(pos.side, pos.entry, bar.close) >= ir.breakevenTenths * dist
      stop  == IF even THEN Tighter(pos.stop, pos.entry) ELSE pos.stop
      trail == Beyond(pos.side, bar.close, - atr * ir.trailMult)
  IN  [pos EXCEPT !.beDone = even \/ @,
                  !.stop = IF stop # 0 /\ ir.trailing /\ atr > 0
                           THEN Tighter(stop, trail) ELSE stop]

Hold ==
  /\ Inside(TRUE) /\ ~ HitStop /\ ~ HitTarget /\ ~ TimeUp
  /\ pos' = ManageStop
  /\ UNCHANGED << cooldown, equity, trades >>

StayFlat ==
  /\ Inside(FALSE)
  /\ UNCHANGED << pos, cooldown, equity, trades >>

-----------------------------------------------------------------------------
(* 3. and 4. At the close: mark to market, and decide for the next bar. *)

Floating == IF pos = Flat THEN 0
            ELSE Gain(pos.side, pos.entry, bar.close) * pos.lots * PointValue

ExitSignal(side) == IF side = "long" THEN "exit long" ELSE "exit short"

Decision ==
  IF pos = Flat
  THEN IF "long" \in bar.signals THEN "long"
       ELSE IF "short" \in bar.signals THEN "short" ELSE pending
  ELSE IF ExitSignal(pos.side) \in bar.signals THEN "exit" ELSE pending

Decide ==
  /\ phase = "decide"
  /\ curve' = equity + Floating
  /\ pending' = Decision
  /\ i' = i + 1
  /\ phase' = "open"
  /\ UNCHANGED << ir, bar, atr, pos, cooldown, equity, exposure, trades >>

\* After the loop a position that is still open is closed at the last close.
EndOfData ==
  /\ phase = "open" /\ i = Bars
  /\ phase' = "done"
  /\ IF pos = Flat THEN UNCHANGED << pos, equity, curve, trades >>
     ELSE /\ Book(Trade(bar.close, i - 1, "end_of_data"))
          /\ curve' = equity'
  /\ UNCHANGED << ir, i, bar, atr, pending, cooldown, exposure >>

Next ==
  \/ \E b \in Bar : RuleExit(b) \/ Enter(b) \/ NoOrder(b)
  \/ StopOut \/ TakeProfit \/ TimeStop \/ Hold \/ StayFlat
  \/ Decide
  \/ EndOfData

Spec == Init /\ [][Next]_vars

-----------------------------------------------------------------------------
(* Properties *)

Position == [side : {"long", "short"}, entry : Int, stop : Int, target : Int,
             lots : Nat \ {0}, risked : Nat \ {0}, since : 0 .. Bars, beDone : BOOLEAN]
Reason == {"rule_exit", "stop", "target", "time_stop", "end_of_data"}

TypeOK ==
  /\ ir \in RiskBlock /\ bar \in Bar
  /\ phase \in {"open", "inside", "decide", "done"}
  /\ i \in 0 .. Bars /\ atr \in Nat
  /\ pos \in Position \cup {Flat}
  /\ pending \in {"none", "long", "short", "exit"}
  /\ {cooldown, equity, curve} \subseteq Int
  /\ exposure \in Nat
  /\ \A k \in 1 .. Len(trades) :
       trades[k] \in [side : {"long", "short"}, since : 0 .. Bars, until : 0 .. Bars,
                      price : Int, pnl : Int, reason : Reason]

(* An order executes at the open of the bar after the close that decided    *)
(* it, or never: at every open, what is pending is what the bar before      *)
(* signalled for the position that is there (engine.py:196-243, 334-341).   *)
OrdersAreFresh ==
  phase = "open" /\ pending # "none" =>
    IF pos = Flat THEN pending \in bar.signals
    ELSE pending = "exit" /\ ExitSignal(pos.side) \in bar.signals

(* One position at a time, in the order of the list, and the next not       *)
(* before the cooldown after the last one is over, however it ended.        *)
TradesApart ==
  LET starts == [k \in 1 .. Len(trades) |-> trades[k].since]
                  \o (IF pos = Flat THEN << >> ELSE << pos.since >>)
  IN  \A k \in 1 .. Len(trades) :
        /\ trades[k].since <= trades[k].until
        /\ k < Len(starts) => starts[k + 1] >= trades[k].until + Higher(Cooldown, 1)

(* No position outlives its time stop, through whatever exit it leaves.     *)
HoldIsLimited ==
  ir.maxBars # 0 =>
    \A k \in 1 .. Len(trades) : trades[k].until - trades[k].since <= ir.maxBars

(* What the engine promises of time: an order executes at the next open or  *)
(* never, positions follow each other apart, and none outlives its limit.   *)
TradesInTime == OrdersAreFresh /\ TradesApart /\ HoldIsLimited

Sum(f) == LET S[k \in 0 .. Len(f)] == IF k = 0 THEN 0 ELSE S[k - 1] + f[k] IN S[Len(f)]

(* The exposure is what the trades say it is: every bar a position was held *)
(* in, but for the bar a rule closes it at the open of.                     *)
ExposureIsHeld ==
  phase # "inside" =>
    exposure = Sum([k \in 1 .. Len(trades) |->
                      trades[k].until - trades[k].since
                        + (IF trades[k].reason = "rule_exit" THEN 0 ELSE 1)])
               + (IF pos = Flat THEN 0
                  ELSE i - pos.since + (IF phase = "decide" THEN 1 ELSE 0))

(* "close anything still open at the last close, so equity is honest"       *)
(* (engine.py:343): the curve ends with what was really made.               *)
CurveEndsBooked == phase = "done" => pos = Flat /\ curve = equity

(* The engine's books, which it keeps apart from each other, agree with the *)
(* list of trades: the bars of exposure and the end of the curve.           *)
BooksAgree == ExposureIsHeld /\ CurveEndsBooked

(* "Position size follows risk" (engine.py:11): unless a rule closes it at  *)
(* an open, a position with a stop loses at most the configured share of    *)
(* the equity it was opened with, and the costs of leaving.                 *)
RiskIsCapped ==
  [][ pos # Flat /\ pos' = Flat /\ ir.stopKind # "none"
        /\ trades'[Len(trades')].reason # "rule_exit"
      => 100 * (equity - equity') <=
           equity * ir.riskPct + 100 * (Adverse * PointValue + Commission) * pos.lots
    ]_vars

(* "Stops only ever move in our favour" (engine.py:380), and nothing else   *)
(* of a position moves while it is open.                                    *)
StopOnlyTightens ==
  pos # Flat /\ pos' # Flat =>
    /\ Gain(pos.side, pos.stop, pos'.stop) >= 0
    /\ pos' = [pos EXCEPT !.stop = pos'.stop, !.beDone = pos'.beDone]

(* "Stop wins ties" (engine.py:9): a bar that reaches the stop never ends   *)
(* in a trade that makes more than the stop does.                           *)
StopWinsTie ==
  phase = "inside" /\ pos # Flat /\ HitStop =>
    pos' = Flat /\ equity' - equity <= Trade(pos.stop, i, "stop").pnl

(* A stop binds: from the entry to the bar that reaches it, it is only ever *)
(* tightened, and then it is what ends the trade, also against the target,  *)
(* the time stop and the end of the bar in which it is moved.               *)
StopsBind == [][StopOnlyTightens /\ StopWinsTie]_vars

(* "Nothing can trade the candle it was computed from" (engine.py:5-6): of  *)
(* the bar it executes in, an order knows only the open.                    *)
EntryUsesThePast ==
  phase = "open" /\ pending \in {"long", "short"} =>
    \A b, c \in Bar : b.open = c.open => Opened(b) = Opened(c)

=============================================================================

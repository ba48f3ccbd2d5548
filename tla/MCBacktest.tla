----------------------------- MODULE MCBacktest -----------------------------
(***************************************************************************)
(* Backtest over every path of bars of a few shapes: quiet, rising,        *)
(* falling, a bar as wide as stop and target, and gaps down and up.        *)
(***************************************************************************)
EXTENDS Backtest

Shape(o, h, l, c) == [open |-> o, high |-> h, low |-> l, close |-> c]
Shapes == {Shape(20, 21, 19, 20), Shape(20, 25, 19, 24), Shape(20, 21, 15, 16),
           Shape(20, 27, 13, 21), Shape(12, 13, 11, 12), Shape(28, 29, 27, 28)}
Signals == {{}, {"long", "exit short"}, {"short", "exit long"}}

MCBar == {[open |-> s.open, high |-> s.high, low |-> s.low, close |-> s.close,
           signals |-> g] : s \in Shapes, g \in Signals}

Block(stop, target, be, trailing, max) ==
  [stopKind |-> stop[1], stopValue |-> stop[2], targetKind |-> target[1],
   targetValue |-> target[2], trailing |-> trailing, trailMult |-> 2,
   breakevenTenths |-> be, riskPct |-> 2, maxBars |-> max]

MCRiskBlock ==
  {Block(<<"atr", 2>>, <<"rr", 1>>, 5, TRUE, 0),
   Block(<<"points", 4>>, <<"points", 3>>, 0, TRUE, 2),
   Block(<<"percent", 20>>, <<"percent", 20>>, 5, FALSE, 0),
   Block(<<"none", 1>>, <<"atr", 2>>, 0, FALSE, 1),
   Block(<<"atr", 1>>, <<"none", 1>>, 5, TRUE, 0)}
=============================================================================

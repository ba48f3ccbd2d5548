------------------------------- MODULE Recipes -------------------------------
(***************************************************************************)
(* The structural recipes of genome.py: for each one the set of blueprints *)
(* it can return.  A threshold that is drawn from a range is represented   *)
(* by one value of that range, in tenths.                                  *)
(***************************************************************************)
EXTENDS StrategyIR

Gt(l, r) == Cond("gt", l, r)
Lt(l, r) == Cond("lt", l, r)
Above(l, r) == Cond("cross_above", l, r)
Below(l, r) == Cond("cross_below", l, r)
I(name) == Ind(<<name>>)
Close == Price("close")

\* A dictionary of indicators from a set of <<name, type>>.
Inds(pairs) ==
  [a \in {<<p[1]>> : p \in pairs} |-> (CHOOSE p \in pairs : <<p[1]>> = a)[2]]

Flip(op) ==
  CASE op = "cross_above" -> "cross_below" [] op = "cross_below" -> "cross_above"
    [] op = "gt" -> "lt" [] op = "lt" -> "gt"
    [] op = "gte" -> "lte" [] op = "lte" -> "gte"
    [] op = "rising" -> "falling" [] OTHER -> "rising"

\* The opposite side of a rule group: every comparison is turned round, and
\* the constant of a plain comparison, if it lies in 0..100, is mirrored at 50.
Mirror(group) ==
  [i \in DOMAIN group |->
     LET c == group[i]
         plain == c.op \in {"gt", "lt", "gte", "lte"}
         mirrored == plain /\ c.right.kind = "const" /\ c.right.value \in 0 .. 1000
     IN  Cond(Flip(c.op), c.left, IF mirrored THEN Const(1000 - c.right.value) ELSE c.right)]

Bp(inds, long, short, xlong, xshort, hint) ==
  [inds |-> Inds(inds), entry_long |-> long, entry_short |-> short,
   exit_long |-> xlong, exit_short |-> xshort, hint |-> hint]

MaCross ==
  {LET long == <<Above(I("fast"), I("slow"))>>
                 \o (IF gated THEN <<Gt(I("strength"), Const(150))>> ELSE <<>>)
       inds == {<<"fast", "ma">>, <<"slow", "ma">>} \cup (IF gated THEN {<<"strength", "adx">>} ELSE {})
   IN  Bp(inds, long, Mirror(long), <<>>, <<>>, <<>>) : gated \in BOOLEAN}

DonchianBreakout ==
  {LET gate == IF gated THEN <<Gt(I("vol"), Const(5))>> ELSE <<>>
       inds == {<<"hi", "donchian_high">>, <<"lo", "donchian_low">>}
                 \cup (IF gated THEN {<<"vol", "atr_pct">>} ELSE {})
   IN  Bp(inds, <<Gt(Close, I("hi"))>> \o gate, <<Lt(Close, I("lo"))>> \o gate, <<>>, <<>>, <<>>) :
     gated \in BOOLEAN}

BbReversion ==
  {Bp({<<"lower", "bb_lower">>, <<"upper", "bb_upper">>, <<"mid", "ma">>},
      <<Lt(Close, I("lower"))>>, <<Gt(Close, I("upper"))>>,
      <<Above(Close, I("mid"))>>, <<Below(Close, I("mid"))>>, <<>>)}

RsiPullback ==
  {LET long == <<Above(I("osc"), Const(300))>>
   IN  Bp({<<"osc", "rsi">>, <<"trend", "ma">>}, long, Mirror(long), <<>>, <<>>, <<"trend">>)}

MacdMomentum ==
  {LET long == <<Above(I("line"), I("sig")), Gt(I("line"), Const(0))>>
   IN  Bp({<<"line", "macd">>, <<"sig", "macd_signal">>}, long, Mirror(long), <<>>, <<>>, <<>>)}

ZscoreReversion ==
  {Bp({<<"z", "zscore">>}, <<Lt(I("z"), Const(-20))>>, <<Gt(I("z"), Const(20))>>,
      <<Above(I("z"), Const(0))>>, <<Below(I("z"), Const(0))>>, <<>>)}

KeltnerTrend ==
  {Bp({<<"kc_up", "keltner_upper">>, <<"kc_dn", "keltner_lower">>, <<"basis", "ma">>},
      <<Above(Close, I("kc_up"))>>, <<Below(Close, I("kc_dn"))>>,
      <<Below(Close, I("basis"))>>, <<Above(Close, I("basis"))>>, <<>>)}

StochReversal ==
  {LET long == <<Above(I("k"), Const(200))>>
   IN  Bp({<<"k", "stoch_k">>}, long, Mirror(long), <<>>, <<>>, <<>>)}

SqueezeExpansion ==
  {LET quiet == Lt(I("vol"), Const(4))
   IN  Bp({<<"hh", "highest">>, <<"ll", "lowest">>, <<"vol", "atr_pct">>},
          <<Gt(Close, I("hh")), quiet>>, <<Lt(Close, I("ll")), quiet>>, <<>>, <<>>, <<>>)}

RocTrend ==
  {LET long == <<Gt(I("mom"), Const(10)), Cond("rising", I("mom"), NoOperand)>>
   IN  Bp({<<"mom", "roc">>, <<"trend", "ma">>}, long, Mirror(long), <<>>, <<>>, <<"trend">>)}

BosContinuation ==
  {LET body == Gt(I("disp"), Const(10))
   IN  Bp({<<"sw_hi", "swing_high_level">>, <<"sw_lo", "swing_low_level">>, <<"disp", "displacement">>},
          <<Above(Close, I("sw_hi")), body>>, <<Below(Close, I("sw_lo")), body>>, <<>>, <<>>, <<>>)}

FvgRetrace ==
  {Bp({<<"fvg_up", "fvg_bull_level">>, <<"fvg_dn", "fvg_bear_level">>},
      <<Lt(Price("low"), I("fvg_up")), Gt(Close, I("fvg_up"))>>,
      <<Gt(Price("high"), I("fvg_dn")), Lt(Close, I("fvg_dn"))>>, <<>>, <<>>, <<>>)}

OrderBlockReclaim ==
  {LET gate == IF gated THEN <<Gt(I("disp"), Const(9))>> ELSE <<>>
       inds == {<<"ob_up", "ob_bull_level">>, <<"ob_dn", "ob_bear_level">>}
                 \cup (IF gated THEN {<<"disp", "displacement">>} ELSE {})
   IN  Bp(inds, <<Above(Close, I("ob_up"))>> \o gate, <<Below(Close, I("ob_dn"))>> \o gate,
          <<>>, <<>>, <<>>) : gated \in BOOLEAN}

LiquiditySweep ==
  {LET down == IF gated THEN <<Gt(I("wick_dn"), Const(450))>> ELSE <<>>
       up == IF gated THEN <<Gt(I("wick_up"), Const(450))>> ELSE <<>>
       inds == {<<"sweep_lo", "liquidity_sweep_low">>, <<"sweep_hi", "liquidity_sweep_high">>}
                 \cup (IF gated THEN {<<"wick_dn", "wick_down_pct">>, <<"wick_up", "wick_up_pct">>}
                       ELSE {})
   IN  Bp(inds, <<Gt(I("sweep_lo"), Const(500))>> \o down, <<Gt(I("sweep_hi"), Const(500))>> \o up,
          <<>>, <<>>, <<>>) : gated \in BOOLEAN}

PremiumDiscount ==
  {Bp({<<"eq", "equilibrium">>, <<"wick_dn", "wick_down_pct">>, <<"wick_up", "wick_up_pct">>},
      <<Lt(Close, I("eq")), Gt(I("wick_dn"), Const(400))>>,
      <<Gt(Close, I("eq")), Gt(I("wick_up"), Const(400))>>, <<>>, <<>>, <<>>)}

\* RECIPES: the blueprints a recipe can return.
Blueprints ==
  [ma_cross |-> MaCross, donchian_breakout |-> DonchianBreakout, bb_reversion |-> BbReversion,
   rsi_pullback |-> RsiPullback, macd_momentum |-> MacdMomentum,
   zscore_reversion |-> ZscoreReversion, keltner_trend |-> KeltnerTrend,
   stoch_reversal |-> StochReversal, squeeze_expansion |-> SqueezeExpansion,
   roc_trend |-> RocTrend, bos_continuation |-> BosContinuation, fvg_retrace |-> FvgRetrace,
   order_block_reclaim |-> OrderBlockReclaim, liquidity_sweep |-> LiquiditySweep,
   premium_discount |-> PremiumDiscount]
=============================================================================

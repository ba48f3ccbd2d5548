----------------------------- MODULE StrategyIR -----------------------------
(***************************************************************************)
(* The strategy representation (ir/schema.py): operands, conditions, rule  *)
(* groups and the record a strategy is.  A rule group is the sequence of   *)
(* its conditions.  An alias is a sequence of names, so that the prefix of *)
(* a crossover is one more name in front.  Constants, stops and targets    *)
(* are in tenths.  The three moving averages are one type, "ma".  Shifts,  *)
(* look-backs, indicator parameters, trailing and breakeven, and the       *)
(* filters other than the trend filter, are not kept: no rule of this      *)
(* module or of its users depends on them.                                 *)
(***************************************************************************)
EXTENDS Integers, Sequences, FiniteSets, Functions

Group == {"entry_long", "entry_short", "exit_long", "exit_short"}

CONSTANT MaxConditions  \* the longest rule group the schema accepts (8)

ASSUME MaxConditionsAssumption == MaxConditions \in Nat

Ind(alias) == [kind |-> "indicator", ref |-> alias, value |-> 0]

Price(field) == [kind |-> "price", ref |-> <<field>>, value |-> 0]

Const(v) == [kind |-> "const", ref |-> <<>>, value |-> v]

\* RISING and FALLING have no right operand.
NoOperand == [kind |-> "none", ref |-> <<>>, value |-> 0]

Op == {"cross_above", "cross_below", "gt", "lt", "gte", "lte", "rising", "falling"}

Cond(op, left, right) == [op |-> op, left |-> left, right |-> right]

\* The scale of an indicator, which decides what it may be compared with.
ScaleOf(type) ==
  CASE type \in {"rsi", "stoch_k", "bb_percent", "adx", "wick_up_pct", "wick_down_pct"} -> "0-100"
    [] type \in {"liquidity_sweep_high", "liquidity_sweep_low"} -> "binary"
    [] type \in {"cci", "atr", "atr_pct", "stddev", "displacement"} -> "unbounded"
    [] type \in {"macd", "macd_signal", "macd_hist", "roc", "momentum", "zscore"} -> "zero-centered"
    [] OTHER -> "price"

\* The two families a trend filter may be taken from.
TrendOrLevel ==
  {"ma", "donchian_high", "donchian_low", "donchian_mid", "vwap", "highest", "lowest"}

\* The aliases that a set of groups refers to.
Refs(ir, groups) ==
  UNION {{o.ref : o \in {p \in {c.left, c.right} : p.kind = "indicator"}} :
           c \in UNION {Range(ir[g]) : g \in groups}}

\* The trend filter has an alias or is off (<<>>).
Referenced(ir) == Refs(ir, Group) \cup ({ir.trend} \ {<<>>})

TradesLong(ir) == ir.direction \in {"long", "both"} /\ ir.entry_long # <<>>

TradesShort(ir) == ir.direction \in {"short", "both"} /\ ir.entry_short # <<>>

\* What parsing a stored or received strategy checks and assigning its fields
\* does not: no group is longer than the schema allows.
Parses(ir) == \A g \in Group : Len(ir[g]) <= MaxConditions

-----------------------------------------------------------------------------
\* The type of a strategy over given aliases and stops.
IsStrategy(ir) ==
  /\ DOMAIN ir = Group \cup {"recipe", "origin", "effort", "direction", "inds", "stop_kind",
                             "stop", "target_kind", "target", "timed", "trend"}
  /\ ir.origin \in {"fresh", "mutation", "crossover"}
  /\ ir.effort \in Nat
  /\ ir.direction \in {"long", "short", "both"}
  /\ ir.stop_kind \in {"atr", "percent", "none"}
  /\ ir.target_kind \in {"rr", "atr", "none"}
  /\ {ir.stop, ir.target} \subseteq Nat
  /\ ir.timed \in BOOLEAN
  /\ \A g \in Group : \A i \in DOMAIN ir[g] : ir[g][i].op \in Op
=============================================================================

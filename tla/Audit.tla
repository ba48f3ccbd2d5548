-------------------------------- MODULE Audit --------------------------------
(***************************************************************************)
(* The static audit of a strategy (ir/validate.py) and the developer's     *)
(* repair of what it finds (agents/build.py).  An error is a record: its   *)
(* kind and, for a condition, its group and the condition (for a dangling  *)
(* reference, the alias in place of the condition).                        *)
(***************************************************************************)
EXTENDS StrategyIR, SequencesExt

CONSTANT MaxRepairRounds  \* MAX_REPAIR_ROUNDS (4)

\* What a round repairs may uncover a missing exit, which the next one mends.
ASSUME MaxRepairRoundsAssumption == MaxRepairRounds \in Nat /\ MaxRepairRounds >= 2

Err(kind) == [kind |-> kind, group |-> "", what |-> <<>>]
ErrIn(kind, group, what) == [kind |-> kind, group |-> group, what |-> what]
When(cond, kind) == IF cond THEN <<Err(kind)>> ELSE <<>>

\* _operand_scale: the scale a condition's operand is compared on.
OperandScale(ir, o) ==
  CASE o.kind = "const" -> "const"
    [] o.kind = "price" -> "price"
    [] OTHER -> IF o.ref \in DOMAIN ir.inds THEN ScaleOf(ir.inds[o.ref]) ELSE "unknown"

PriceLike == {"price", "unbounded"}

ScalesClash(left, right) ==
  /\ {"unknown", "const"} \cap {left, right} = {}
  /\ left # right
  /\ {left, right} \cap PriceLike # {}
  /\ {left, right} \ PriceLike # {}

\* _check_condition, in its order: references, self-comparison, scales, reach.
ConditionErrors(ir, g, c) ==
  LET Dangling(o) == IF o.kind = "indicator" /\ o.ref \notin DOMAIN ir.inds
                       THEN <<ErrIn("unknown alias", g, o.ref)>> ELSE <<>>
      compares == c.op \notin {"rising", "falling"}
      left == OperandScale(ir, c.left)
      self == /\ c.left.kind = c.right.kind
              /\ c.left.ref = c.right.ref
      clash == ScalesClash(left, OperandScale(ir, c.right))
      unreachable == c.right.kind = "const" /\ left = "0-100" /\ c.right.value \notin -10 .. 1010
      Found(bad) == IF compares /\ bad THEN <<ErrIn("nonsense", g, c)>> ELSE <<>>
  IN  Dangling(c.left) \o Dangling(c.right) \o Found(self) \o Found(clash) \o Found(unreachable)

Opposites ==
  {{"gt", "lt"}, {"gte", "lte"}, {"cross_above", "cross_below"}, {"rising", "falling"}}

Contradicts(a, b) == {a.op, b.op} \in Opposites /\ a.left = b.left /\ a.right = b.right

\* _check_group: the conditions one by one, then every contradictory pair.
GroupErrors(ir, g) ==
  LET group == ir[g]
      pairs == {h \in (DOMAIN group) \X (DOMAIN group) :
                  h[1] < h[2] /\ Contradicts(group[h[1]], group[h[2]])}
  IN  FlattenSeq([i \in DOMAIN group |-> ConditionErrors(ir, g, group[i])])
        \o [i \in 1 .. Cardinality(pairs) |-> ErrIn("contradictory", g, <<>>)]

\* audit_ir: the errors it reports, in the order in which it reports them.
Errors(ir) ==
  When(ir.entry_long = <<>> /\ ir.entry_short = <<>>, "no entry")
    \o When(ir.direction = "long" /\ ir.entry_long = <<>>, "long without entry")
    \o When(ir.direction = "short" /\ ir.entry_short = <<>>, "short without entry")
    \o When(ir.trend # <<>> /\ ir.trend \notin DOMAIN ir.inds, "trend undefined")
    \o GroupErrors(ir, "entry_long") \o GroupErrors(ir, "entry_short")
    \o GroupErrors(ir, "exit_long") \o GroupErrors(ir, "exit_short")
    \o When(/\ ir.exit_long = <<>> /\ ir.exit_short = <<>>
            /\ ir.target_kind = "none" /\ ~ir.timed, "no exit")
    \o When(ir.stop_kind = "none" /\ ~ir.timed, "no stop")

-----------------------------------------------------------------------------
\* _ensure_group_usable: a repair that emptied an entry group retires that
\* side, or falls back to a rising indicator when it was the only one.  The
\* code takes the first indicator; which one that is makes no difference here.
EnsureGroupUsable(ir, g) ==
  IF ir[g] # <<>> \/ g \notin {"entry_long", "entry_short"} THEN ir
  ELSE CASE g = "entry_long" /\ ir.entry_short # <<>> ->
              [ir EXCEPT !.direction = "short", !.exit_long = <<>>]
         [] g = "entry_short" /\ ir.entry_long # <<>> ->
              [ir EXCEPT !.direction = "long", !.exit_short = <<>>]
         [] OTHER ->
              IF DOMAIN ir.inds = {} THEN ir
              ELSE [ir EXCEPT ![g] = <<Cond("rising", Ind(CHOOSE a \in DOMAIN ir.inds : TRUE),
                                            NoOperand)>>]

\* What is left of a group; it is looked after only when something was removed.
DropFrom(ir, g, kept) ==
  IF kept = ir[g] THEN ir ELSE EnsureGroupUsable([ir EXCEPT ![g] = kept], g)

\* The conditions of a group that are not among these.
Without(group, conditions) ==
  LET kept[n \in 0 .. Len(group)] ==
        IF n = 0 THEN <<>>
        ELSE IF group[n] \in conditions THEN kept[n - 1] ELSE Append(kept[n - 1], group[n])
  IN  kept[Len(group)]

References(c, alias) == \E o \in {c.left, c.right} : o.kind = "indicator" /\ o.ref = alias

\* Mutant of RepairOne: a repair that empties a group leaves it empty.
RepairOneLeavesEmpty(ir, e) ==
  IF e.kind = "nonsense" THEN [ir EXCEPT ![e.group] = Without(@, {e.what})] ELSE ir

\* _repair_one
RepairOne(ir, e) ==
  CASE e.kind = "no exit" ->
         [ir EXCEPT !.target_kind = "rr", !.target = IF @ > 15 THEN @ ELSE 15]
    [] e.kind = "no stop" ->
         [ir EXCEPT !.stop_kind = "atr", !.stop = IF @ > 15 THEN @ ELSE 15]
    [] e.kind = "trend undefined" -> [ir EXCEPT !.trend = <<>>]
    [] e.kind = "long without entry" /\ ir.entry_short # <<>> -> [ir EXCEPT !.direction = "short"]
    [] e.kind = "short without entry" /\ ir.entry_long # <<>> -> [ir EXCEPT !.direction = "long"]
    [] e.kind = "nonsense" -> DropFrom(ir, e.group, Without(ir[e.group], {e.what}))
    [] e.kind = "contradictory" /\ Len(ir[e.group]) > 1 ->
         EnsureGroupUsable([ir EXCEPT ![e.group] = Front(@)], e.group)
    [] e.kind = "unknown alias" ->
         DropFrom(ir, e.group, Without(ir[e.group], {c \in Range(ir[e.group]) : References(c, e.what)}))
    [] OTHER -> ir

\* _repair: one round, over the errors of the audit before it.
Repair(ir, errors) ==
  LET done[n \in 0 .. Len(errors)] == IF n = 0 THEN ir ELSE RepairOne(done[n - 1], errors[n])
  IN  done[Len(errors)]
=============================================================================

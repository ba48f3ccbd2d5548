------------------------------- MODULE Genome -------------------------------
(***************************************************************************)
(* How strategies come into existence (genome.py) and what the developer   *)
(* makes of them (agents/build.py): a child is drawn fresh from a recipe,  *)
(* mutated from an elite by one to three operators, or crossed from an     *)
(* elite and a partner; it is parsed, audited, repaired in rounds and      *)
(* built or given up.  A built child is the next elite.                    *)
(***************************************************************************)
EXTENDS Audit, Recipes

CONSTANTS
  Bred,           \* the recipes that are bred here
  Risks,          \* the risk blocks a fresh strategy may have
  GatePicks,      \* the indicators a gate may be of
  GateLevels,     \* the levels a gate may have
  Levels,         \* the values a mutated threshold may take
  Stops, Targets, \* the values a mutated stop and target may take
  GateCap,        \* no gate is added to a long entry of this length (4)
  MaxOperators,   \* the operators of one mutation (3)
  Budget,         \* bound of the model: the operators in the history of a line
  CrossoverCost   \* and what a crossover counts for

ASSUME GenomeAssumption ==
  /\ Bred \subseteq DOMAIN Blueprints
  /\ Risks \subseteq [stop_kind : {"atr", "percent", "none"}, stop : Nat,
                      target_kind : {"rr", "atr", "none"}, target : Nat, timed : BOOLEAN]
  /\ GatePicks \subseteq {"adx", "rsi", "atr_pct", "zscore", "stoch_k"}
  /\ Levels \cup GateLevels \subseteq Int
  /\ Stops \cup Targets \subseteq Nat
  /\ MaxOperators \in Nat \ {0}
  /\ {Budget, CrossoverCost} \subseteq Nat

VARIABLES
  strategy,  \* the end of the line that is followed, <<>> when there is none
  phase,     \* how far it has come
  left,      \* the operators a mutation still applies
  round      \* the repair rounds it has had

genomeVars == <<strategy, phase, left, round>>

Max2(a, b) == IF a > b THEN a ELSE b
Min2(a, b) == IF a < b THEN a ELSE b

\* Mutant of Prune: looks at the entries only.
PruneByEntries(ir) ==
  [ir EXCEPT !.inds = Restrict(@, {a \in DOMAIN ir.inds : a \in Refs(ir, {"entry_long", "entry_short"})})]

\* _prune_indicators
Prune(ir) ==
  LET used == {a \in DOMAIN ir.inds : a \in Referenced(ir)}
  IN  [ir EXCEPT !.inds = Restrict(@, used), !.trend = IF @ \in used THEN @ ELSE <<>>]

\* The tuner's knobs for stop and target: low and high, in thousandths.
SpaceIsEmpty(ir) ==
  \/ ir.stop_kind = "atr" /\ 50 * Max2(10, ir.stop) >= Min2(6000, 180 * ir.stop)
  \/ ir.target_kind = "rr" /\ 50 * Max2(12, ir.target) >= Min2(8000, 180 * ir.target)

-----------------------------------------------------------------------------
\* A strategy that carries no rules for a side it does not trade.
OneSided(ir) ==
  CASE ir.direction = "long" -> [ir EXCEPT !.entry_short = <<>>, !.exit_short = <<>>]
    [] ir.direction = "short" -> [ir EXCEPT !.entry_long = <<>>, !.exit_long = <<>>]
    [] OTHER -> ir

TrendCandidates(inds) == {a \in DOMAIN inds : inds[a] \in TrendOrLevel}

\* fresh: every strategy the recipes can return with these risk blocks.  A
\* recipe that hints at a trend filter gets it, another one may get one.
FreshFrom(recipe) ==
  UNION {
    {OneSided([entry_long |-> bp.entry_long, entry_short |-> bp.entry_short,
               exit_long |-> bp.exit_long, exit_short |-> bp.exit_short,
               recipe |-> recipe, origin |-> "fresh", effort |-> 0, direction |-> d,
               inds |-> bp.inds, stop_kind |-> r.stop_kind, stop |-> r.stop,
               target_kind |-> r.target_kind, target |-> r.target, timed |-> r.timed,
               trend |-> t]) :
       d \in {"long", "short", "both"}, r \in Risks,
       t \in IF bp.hint # <<>> THEN {bp.hint} ELSE {<<>>} \cup TrendCandidates(bp.inds)} :
    bp \in Blueprints[recipe]}

Partners == UNION {FreshFrom(r) : r \in Bred}

-----------------------------------------------------------------------------
\* The mutation operators: what each may turn a strategy into.

\* Mutant of MutRisk: the stop is moved by a fixed step.
MutRiskBySteps(ir) == {[ir EXCEPT !.timed = ~@], [ir EXCEPT !.stop = @ - 12]}

\* _mut_risk: stop times 0.6 to 1.6, target times 0.6 to 1.7, time stop on or
\* off; trailing and breakeven change nothing that is kept here.
MutRisk(ir) ==
  {ir, [ir EXCEPT !.timed = ~@]}
    \cup {[ir EXCEPT !.stop = v] : v \in {v \in Stops : 6 * ir.stop <= 10 * v /\ 10 * v <= 16 * ir.stop}}
    \cup {[ir EXCEPT !.target = v] :
            v \in {v \in Targets : 6 * ir.target <= 10 * v /\ 10 * v <= 17 * ir.target}}

\* _mut_threshold: one constant by up to a quarter, or off zero.
MutThreshold(ir) ==
  LET Near(old) == {v \in Levels : LET d == IF v > old THEN v - old ELSE old - v
                                       size == IF old < 0 THEN -old ELSE old
                                   IN  IF old = 0 THEN d <= 10 ELSE 4 * d <= size}
      consts == {h \in Group \X (1 .. MaxConditions + MaxOperators) :
                   h[2] \in DOMAIN ir[h[1]] /\ ir[h[1]][h[2]].right.kind = "const"}
  IN  UNION {{[ir EXCEPT ![h[1]][h[2]].right = Const(v)] : v \in Near(ir[h[1]][h[2]].right.value)} :
               h \in consts}

\* _mut_filter: the trend filter goes off or, when it is off, on.
MutFilter(ir) ==
  IF ir.trend # <<>> THEN {ir, [ir EXCEPT !.trend = <<>>]}
  ELSE {ir} \cup {[ir EXCEPT !.trend = a] : a \in TrendCandidates(ir.inds)}

\* The alias of a gate is the number of indicators; it joins every entry there is.
GateAlias(ir) == <<"gate", Cardinality(DOMAIN ir.inds)>>

WithGate(ir, pick, gate) ==
  [ir EXCEPT !.inds = [a \in DOMAIN @ \cup {GateAlias(ir)} |->
                         IF a = GateAlias(ir) THEN pick ELSE ir.inds[a]],
             !.entry_long = IF @ = <<>> THEN @ ELSE Append(@, gate),
             !.entry_short = IF @ = <<>> THEN @ ELSE Append(@, gate)]

\* _mut_add_condition
MutAddCondition(ir) ==
  IF Len(ir.entry_long) >= GateCap THEN {ir}
  ELSE {WithGate(ir, pick, Cond(op, Ind(GateAlias(ir)), Const(v))) :
          pick \in GatePicks, op \in {"gt", "lt"}, v \in GateLevels}

\* _mut_drop_condition: the long entry first; a group keeps at least one.
MutDropCondition(ir) ==
  LET g == IF Len(ir.entry_long) > 1 THEN "entry_long" ELSE "entry_short"
  IN  IF Len(ir[g]) <= 1 THEN {ir}
      ELSE {Prune([ir EXCEPT ![g] = RemoveAt(@, i)]) : i \in DOMAIN ir[g]}

\* _mut_direction: a two-sided strategy is confined to one side.
MutDirection(ir) ==
  IF ir.direction # "both" THEN {ir}
  ELSE {OneSided([ir EXCEPT !.direction = side]) : side \in {"long", "short"}}

\* _mut_exit_style: the target on, off when there is a rule exit, or changed.
MutExitStyle(ir) ==
  LET Target(kind) == {[ir EXCEPT !.target_kind = kind, !.target = v] : v \in Targets \cap (12 .. 40)}
  IN  IF ir.target_kind = "none" THEN Target("rr")
      ELSE Target(IF ir.target_kind = "rr" THEN "atr" ELSE "rr")
             \cup (IF ir.exit_long # <<>> \/ ir.exit_short # <<>>
                     THEN {[ir EXCEPT !.target_kind = "none"]} ELSE {})

\* _mut_param and _mut_swap_indicator change a parameter and the kind of a
\* moving average, which are not kept: the child stays as it is.
Mutations(ir) ==
  {ir} \cup MutRisk(ir) \cup MutThreshold(ir) \cup MutFilter(ir) \cup MutAddCondition(ir)
    \cup MutDropCondition(ir) \cup MutDirection(ir) \cup MutExitStyle(ir)

-----------------------------------------------------------------------------
\* crossover: entries, direction and indicators of the source under a prefix,
\* exits and filter of the other when it has any, risk of either.
RenameAliases(group, prefix) ==
  LET Renamed(o) == IF o.kind = "indicator" THEN Ind(<<prefix>> \o o.ref) ELSE o
  IN  [i \in DOMAIN group |-> Cond(group[i].op, Renamed(group[i].left), Renamed(group[i].right))]

Prefixed(inds, prefix) == [a \in {<<prefix>> \o b : b \in DOMAIN inds} |-> inds[Tail(a)]]

\* The first of two dictionaries updated by the second.
Both(f, g) == [a \in DOMAIN f \cup DOMAIN g |-> IF a \in DOMAIN g THEN g[a] ELSE f[a]]

Splice(source, other, risk, effort) ==
  LET theirs == other.exit_long # <<>> \/ other.exit_short # <<>>
      exits == IF theirs THEN other ELSE source
      prefix == IF theirs THEN "b" ELSE "a"
      inds == IF theirs THEN Both(Prefixed(source.inds, "a"), Prefixed(other.inds, "b"))
                        ELSE Prefixed(source.inds, "a")
      trend == IF other.trend = <<>> THEN <<>>
               ELSE IF <<"b">> \o other.trend \in DOMAIN inds THEN <<"b">> \o other.trend
               ELSE IF <<"a">> \o other.trend \in DOMAIN inds THEN <<"a">> \o other.trend
               ELSE <<>>
  IN  Prune(OneSided(
        [risk EXCEPT !.entry_long = RenameAliases(source.entry_long, "a"),
                     !.entry_short = RenameAliases(source.entry_short, "a"),
                     !.exit_long = RenameAliases(exits.exit_long, prefix),
                     !.exit_short = RenameAliases(exits.exit_short, prefix),
                     !.recipe = "crossed", !.origin = "crossover", !.effort = effort,
                     !.direction = source.direction, !.inds = inds, !.trend = trend]))

-----------------------------------------------------------------------------
GenomeInit == strategy = <<>> /\ phase = "none" /\ left = 0 /\ round = 0

\* A child leaves the factory, unless its parameter space cannot be built:
\* then the architect's handler raises.
Delivered(child) ==
  /\ strategy' = child
  /\ phase' = IF SpaceIsEmpty(child) THEN "raised" ELSE "made"

Fresh ==
  /\ phase = "none"
  /\ \E child \in Partners : Delivered(child)
  /\ UNCHANGED <<left, round>>

StartMutate ==
  /\ phase = "built"
  /\ left' \in 1 .. Min2(MaxOperators, Budget - strategy.effort)
  /\ strategy' = [strategy EXCEPT !.origin = "mutation", !.effort = @ + left']
  /\ phase' = "mutating"
  /\ UNCHANGED round

Mutate ==
  /\ phase = "mutating" /\ left > 0
  /\ strategy' \in Mutations(strategy)
  /\ left' = left - 1
  /\ UNCHANGED <<phase, round>>

FinishMutate ==
  /\ phase = "mutating" /\ left = 0
  /\ Delivered(strategy)
  /\ UNCHANGED <<left, round>>

\* The line goes on with a crossover of its last strategy and a fresh partner.
Crossover ==
  /\ phase = "built" /\ strategy.effort + CrossoverCost <= Budget
  /\ \E partner \in Partners :
       \E source, risk \in {strategy, partner} :
         LET other == IF source = strategy THEN partner ELSE strategy
         IN  Delivered(Splice(source, other, risk, strategy.effort + CrossoverCost))
  /\ UNCHANGED <<left, round>>

\* The developer parses what it received.
Parse ==
  /\ phase = "made"
  /\ phase' = IF Parses(strategy) THEN "audit" ELSE "unparsed"
  /\ UNCHANGED <<strategy, left, round>>

\* One round of repairs.
RepairRound ==
  /\ phase = "audit" /\ Errors(strategy) # <<>> /\ round < MaxRepairRounds
  /\ strategy' = Repair(strategy, Errors(strategy))
  /\ strategy' # strategy
  /\ round' = round + 1
  /\ UNCHANGED <<phase, left>>

\* The loop ends: without errors, or out of rounds, or out of repairs.
EndRepair ==
  /\ phase = "audit"
  /\ \/ Errors(strategy) = <<>>
     \/ round = MaxRepairRounds
     \/ Repair(strategy, Errors(strategy)) = strategy
  /\ phase' = IF Errors(strategy) = <<>> THEN "built" ELSE "invalid"
  /\ round' = 0
  /\ UNCHANGED <<strategy, left>>

\* The line ends: the child did not come this far, or it was built and its
\* smoke test found no entry signal, or nothing is bred from it.
EndLine ==
  /\ phase \in {"built", "unparsed", "invalid", "raised"}
  /\ strategy' = <<>> /\ phase' = "none"
  /\ UNCHANGED <<left, round>>

GenomeNext ==
  \/ Fresh \/ StartMutate \/ Mutate \/ FinishMutate \/ Crossover
  \/ Parse \/ RepairRound \/ EndRepair \/ EndLine

GenomeSpec == GenomeInit /\ [][GenomeNext]_genomeVars

-----------------------------------------------------------------------------
\* The types of the variables.
GenomeTypeOK ==
  /\ strategy = <<>> \/ IsStrategy(strategy)
  /\ phase \in {"none", "mutating", "made", "raised", "audit", "unparsed", "built", "invalid"}
  /\ left \in 0 .. MaxOperators
  /\ round \in 0 .. MaxRepairRounds

\* Every reference is to an indicator that is defined, the trend filter is on
\* one that can carry a trend, and there are rules exactly for the sides that
\* the direction names.
Coherent(ir) ==
  /\ Referenced(ir) \subseteq DOMAIN ir.inds
  /\ ir.trend # <<>> => ir.inds[ir.trend] \in TrendOrLevel
  /\ (ir.entry_long # <<>>) = (ir.direction \in {"long", "both"})
  /\ (ir.entry_short # <<>>) = (ir.direction \in {"short", "both"})
  /\ ir.exit_long # <<>> => ir.entry_long # <<>>
  /\ ir.exit_short # <<>> => ir.entry_short # <<>>

\* A child that parses and still cannot be repaired within the rounds holds a
\* contradictory pair: its repair takes the last condition of the group, which
\* need not be one of the pair (build.py:187-190).  No other error, and no error
\* that the repair of another one made, defeats the loop.
OnlyPairsDefeatRepair ==
  phase = "invalid" => \E i \in DOMAIN Errors(strategy) : Errors(strategy)[i].kind = "contradictory"

\* What the factory delivers, however many operators, crossings and generations
\* made it, is coherent, and so is what the developer builds, also when the repairs of
\* several errors emptied and retired a side on the way (build.py:221-249).  Of "all
\* producing valid StrategyIR" (genome.py:3) that is not everything: what is delivered
\* may have more conditions than the schema allows, and the developer refuses it then
\* (phase "unparsed").
StrategiesAreCoherent == phase \in {"made", "built"} => Coherent(strategy)
=============================================================================

--------------------------- MODULE Evolution_proofs ---------------------------
(***************************************************************************)
(* What Genome promises for every set of risk blocks, levels and gates and *)
(* every budget, and Learning for any number of strategies and verdicts.   *)
(* Breeding: whatever is bred, crossed, mutated and repaired is coherent,  *)
(* and only a contradictory pair defeats the repair loop.  Learning: the   *)
(* types, what the researcher steers by, and that no purge or sweep takes  *)
(* what the judge accepted.                                                *)
(***************************************************************************)
EXTENDS Genome, Learning, SequenceTheorems, FiniteSetTheorems, WellFoundedInduction, TLAPS

-----------------------------------------------------------------------------
(* Recursion: what is computed along a sequence *)

LEMMA Least ==
  ASSUME NEW T, T \subseteq Nat, T # {}
  PROVE  \E n \in T : \A m \in T : n <= m
<1>1. \E n \in T : \A m \in T : ~ (<< m, n >> \in OpToRel(<, Nat))
  BY NatLessThanWellFounded, WFMin
<1>2. PICK n \in T : \A m \in T : ~ (<< m, n >> \in OpToRel(<, Nat))
  BY <1>1
<1>3. n \in Nat /\ \A m \in T : m \in Nat /\ ~ (m < n)
  BY <1>2 DEF OpToRel
<1> QED
  BY <1>3

LEMMA Induction ==
  ASSUME NEW T, 0 \in T, \A n \in Nat : n \in T => n + 1 \in T
  PROVE  Nat \subseteq T
<1> DEFINE out == {n \in Nat : n \notin T}
<1>1. CASE out # {}
  <2>1. PICK n \in out : \A m \in out : n <= m
    BY <1>1, Least
  <2>2. n \in Nat /\ n # 0
    BY <2>1
  <2>3. n - 1 \in Nat /\ ~ (n <= n - 1)
    BY <2>2
  <2>4. n - 1 \in T
    BY <2>1, <2>3
  <2> QED
    BY <2>1, <2>2, <2>3, <2>4
<1> QED
  BY <1>1

\* A step that stays in a set, and the function it computes.
StaysIn(step, m, X) == \A n \in 1 .. m : \A x \in X : step[<<n, x>>] \in X

Computes(f, base, step, m, X) ==
  f \in [0 .. m -> X] /\ f[0] = base /\ \A n \in 1 .. m : f[n] = step[<<n, f[n - 1]>>]

\* A recursion along a sequence has a solution when its step stays in a set.
LEMMA Recursion ==
  ASSUME NEW X, NEW base \in X, NEW m \in Nat, NEW step, StaysIn(step, m, X)
  PROVE  \E f : Computes(f, base, step, m, X)
<1> DEFINE Upto(n, f) == /\ f \in [0 .. n -> X]
                         /\ f[0] = base
                         /\ \A k \in 1 .. n : f[k] = step[<<k, f[k - 1]>>]
           T == {n \in Nat : n <= m => \E f : Upto(n, f)}
<1>1. 0 \in T
  <2> DEFINE r == [k \in 0 .. 0 |-> base]
  <2>1. Upto(0, r)
    OBVIOUS
  <2> QED
    BY <2>1
<1>2. ASSUME NEW n \in Nat, n \in T PROVE n + 1 \in T
  <2> SUFFICES ASSUME n + 1 <= m PROVE \E f : Upto(n + 1, f)
    OBVIOUS
  <2>1. PICK f : Upto(n, f)
    BY <1>2
  <2> DEFINE r == [k \in 0 .. n + 1 |-> IF k = n + 1 THEN step[<<k, f[n]>>] ELSE f[k]]
  <2>2. step[<<n + 1, f[n]>>] \in X
    <3>1. n + 1 \in 1 .. m /\ f[n] \in X
      BY <2>1
    <3> QED
      BY <3>1 DEF StaysIn
  <2>3. r \in [0 .. n + 1 -> X] /\ r[0] = base
    BY <2>1, <2>2
  <2>4. ASSUME NEW k \in 1 .. n + 1 PROVE r[k] = step[<<k, r[k - 1]>>]
    <3>1. CASE k = n + 1
      BY <3>1
    <3>2. CASE k # n + 1
      <4>1. k \in 1 .. n /\ k - 1 \in 0 .. n + 1 /\ k - 1 # n + 1 /\ k \in 0 .. n + 1
        BY <3>2
      <4> QED
        BY <2>1, <3>2, <4>1
    <3> QED
      BY <3>1, <3>2
  <2> HIDE DEF r
  <2> QED
    BY <2>3, <2>4
<1>3. m \in T
  <2> HIDE DEF T
  <2> QED
    BY <1>1, <1>2, Induction
<1> QED
  BY <1>3 DEF Computes

-----------------------------------------------------------------------------
(* What the helpers on sequences return *)

LEMMA RangeOfConcat ==
  ASSUME NEW S, NEW s \in Seq(S), NEW t \in Seq(S)
  PROVE  s \o t \in Seq(S) /\ Range(s \o t) = Range(s) \cup Range(t)
<1>1. s \o t \in Seq(S) /\ Len(s \o t) = Len(s) + Len(t)
  OBVIOUS
<1>2. \A i \in 1 .. Len(s) + Len(t) :
        (s \o t)[i] = IF i <= Len(s) THEN s[i] ELSE t[i - Len(s)]
  OBVIOUS
<1>3. DOMAIN s = 1 .. Len(s) /\ DOMAIN t = 1 .. Len(t) /\ DOMAIN (s \o t) = 1 .. Len(s) + Len(t)
  BY <1>1
<1>4. Range(s) \subseteq Range(s \o t)
  <2>1. ASSUME NEW i \in 1 .. Len(s) PROVE i \in DOMAIN (s \o t) /\ s[i] = (s \o t)[i]
    BY <1>2, <1>3
  <2> QED
    BY <1>3, <2>1 DEF Range
<1>5. Range(t) \subseteq Range(s \o t)
  <2>1. ASSUME NEW i \in 1 .. Len(t)
        PROVE  Len(s) + i \in DOMAIN (s \o t) /\ t[i] = (s \o t)[Len(s) + i]
    BY <1>2, <1>3
  <2> QED
    BY <1>3, <2>1 DEF Range
<1>6. Range(s \o t) \subseteq Range(s) \cup Range(t)
  <2>1. ASSUME NEW i \in 1 .. Len(s) + Len(t)
        PROVE  (s \o t)[i] \in Range(s) \cup Range(t)
    <3>1. CASE i <= Len(s)
      BY <1>2, <1>3, <3>1 DEF Range
    <3>2. CASE ~ (i <= Len(s))
      <4>1. i - Len(s) \in DOMAIN t /\ (s \o t)[i] = t[i - Len(s)]
        BY <1>2, <1>3, <3>2
      <4> QED
        BY <4>1 DEF Range
    <3> QED
      BY <3>1, <3>2
  <2> QED
    BY <1>3, <2>1 DEF Range
<1> QED
  BY <1>1, <1>4, <1>5, <1>6

Yields(s, S, R) == s \in Seq(S) /\ Range(s) = R

LEMMA YieldsConcat ==
  ASSUME NEW S, NEW s, NEW t, NEW Q, NEW R, Yields(s, S, Q), Yields(t, S, R)
  PROVE  Yields(s \o t, S, Q \cup R)
BY RangeOfConcat DEF Yields

\* What is left of a group is of it, in number and kind, and not of what was removed.
LEMMA WithoutFacts ==
  ASSUME NEW S, NEW group \in Seq(S), NEW conditions
  PROVE  /\ Without(group, conditions) \in Seq(S)
         /\ Range(Without(group, conditions)) \subseteq Range(group) \ conditions
<1> DEFINE m == Len(group)
           Y == Range(group) \ conditions
           X == Seq(Y)
           step == [p \in (1 .. m) \X X |->
                      IF group[p[1]] \in conditions THEN p[2] ELSE Append(p[2], group[p[1]])]
           Kept(f) == f = [n \in 0 .. m |->
                             IF n = 0 THEN <<>>
                             ELSE IF group[n] \in conditions THEN f[n - 1]
                             ELSE Append(f[n - 1], group[n])]
           kept == CHOOSE f : Kept(f)
<1>1. m \in Nat
  OBVIOUS
<1>2. \A n \in 1 .. m : group[n] \in Range(group)
  BY DEF Range
<1>3. <<>> \in X
  OBVIOUS
<1>4. StaysIn(step, m, X)
  <2>1. ASSUME NEW n \in 1 .. m, NEW x \in X PROVE step[<<n, x>>] \in X
    BY <1>2
  <2> QED
    BY <2>1 DEF StaysIn
<1>5. PICK f : Computes(f, <<>>, step, m, X)
  <2> HIDE DEF step, X, m
  <2> QED
    BY <1>1, <1>3, <1>4, Recursion
<1>6. \A n \in 0 .. m :
        f[n] = IF n = 0 THEN <<>> ELSE IF group[n] \in conditions THEN f[n - 1]
               ELSE Append(f[n - 1], group[n])
  <2>1. ASSUME NEW n \in 0 .. m, n # 0
        PROVE  step[<<n, f[n - 1]>>] = IF group[n] \in conditions THEN f[n - 1]
                                       ELSE Append(f[n - 1], group[n])
    <3>1. n \in 1 .. m /\ n - 1 \in 0 .. m
      BY <1>1, <2>1
    <3>2. f[n - 1] \in X
      BY <1>5, <3>1 DEF Computes
    <3> QED
      BY <3>1, <3>2
  <2>2. \A n \in 0 .. m : n # 0 => n \in 1 .. m
    BY <1>1
  <2> HIDE DEF step, X, m
  <2> QED
    BY <1>5, <2>1, <2>2 DEF Computes
<1> HIDE DEF step, m
<1>7. Kept(kept)
  <2>1. f = [n \in 0 .. m |-> f[n]]
    BY <1>5 DEF Computes
  <2>2. Kept(f)
    BY <1>6, <2>1
  <2> QED
    BY <2>2
<1>8. Without(group, conditions) = kept[m]
  BY DEF Without, m
<1> HIDE DEF kept, X
<1>9. \A n \in 0 .. m :
        kept[n] = IF n = 0 THEN <<>> ELSE IF group[n] \in conditions THEN kept[n - 1]
                  ELSE Append(kept[n - 1], group[n])
  BY <1>7
<1> DEFINE T == {n \in Nat : n <= m => kept[n] \in X}
<1>10. 0 \in T
  <2>1. 0 \in 0 .. m
    BY <1>1
  <2>2. kept[0] = <<>>
    BY <1>9, <2>1
  <2> QED
    BY <1>3, <2>2
<1>11. ASSUME NEW n \in Nat, n \in T PROVE n + 1 \in T
  <2> SUFFICES ASSUME n + 1 <= m PROVE kept[n + 1] \in X
    OBVIOUS
  <2>1. n + 1 \in 0 .. m /\ (n + 1) - 1 = n /\ n + 1 \in 1 .. m /\ n + 1 # 0 /\ n <= m
    BY <1>1
  <2>2. kept[n + 1] = IF group[n + 1] \in conditions THEN kept[n] ELSE Append(kept[n], group[n + 1])
    BY <1>9, <2>1
  <2>3. kept[n] \in X
    BY <1>11, <2>1
  <2>4. group[n + 1] \in conditions \/ group[n + 1] \in Y
    BY <1>2, <2>1
  <2> QED
    BY <2>2, <2>3, <2>4 DEF X
<1>12. kept[m] \in Seq(Y)
  <2> HIDE DEF T, Y
  <2>1. m \in T
    BY <1>1, <1>10, <1>11, Induction
  <2> QED
    BY <1>1, <2>1 DEF T, X
<1>13. Y \subseteq S
  BY DEF Range
<1> QED
  <2>1. \A s \in Seq(Y) : s \in Seq(S) /\ Range(s) \subseteq Y
    <3>1. ASSUME NEW s \in Seq(Y) PROVE s \in Seq(S)
      BY <1>13, SeqDef DEF Y
    <3>2. ASSUME NEW s \in Seq(Y) PROVE Range(s) \subseteq Y
      BY DEF Range
    <3> QED
      BY <3>1, <3>2
  <2> QED
    BY <1>8, <1>12, <2>1

\* The elements of a flattened sequence are those of its sequences.
LEMMA FlattenFacts ==
  ASSUME NEW S, NEW seqs \in Seq(Seq(S))
  PROVE  /\ FlattenSeq(seqs) \in Seq(S)
         /\ Range(FlattenSeq(seqs)) = UNION {Range(seqs[i]) : i \in DOMAIN seqs}
<1> DEFINE m == Len(seqs)
           X == Seq(S)
           step == [p \in (1 .. m - 1) \X X |-> p[2] \o seqs[p[1] + 1]]
           Flat(f) == f = [i \in 1 .. m |-> IF i = 1 THEN seqs[i] ELSE f[i - 1] \o seqs[i]]
           flat == CHOOSE f : Flat(f)
<1>1. m \in Nat /\ DOMAIN seqs = 1 .. m
  OBVIOUS
<1>2. \A i \in 1 .. m : seqs[i] \in X
  OBVIOUS
<1>3. CASE m = 0
  <2>1. seqs = <<>> /\ FlattenSeq(seqs) = <<>>
    BY <1>3 DEF FlattenSeq
  <2>2. Range(<<>>) = {} /\ <<>> \in Seq(S) /\ DOMAIN seqs = {}
    BY <2>1 DEF Range
  <2> QED
    BY <2>1, <2>2
<1>4. CASE m # 0
  <2>1. m - 1 \in Nat /\ (m - 1) + 1 = m
    BY <1>1, <1>4
  <2>2. seqs[1] \in X
    BY <1>1, <1>2, <1>4
  <2>3. StaysIn(step, m - 1, X)
    <3>1. ASSUME NEW n \in 1 .. m - 1, NEW x \in X PROVE step[<<n, x>>] = x \o seqs[n + 1]
      OBVIOUS
    <3>2. ASSUME NEW n \in 1 .. m - 1, NEW x \in X PROVE x \o seqs[n + 1] \in X
      <4>1. n + 1 \in 1 .. m
        BY <1>1
      <4>2. seqs[n + 1] \in Seq(S)
        BY <1>2, <4>1
      <4> QED
        BY <4>2
    <3> HIDE DEF step, X, m
    <3> QED
      BY <3>1, <3>2 DEF StaysIn
  <2>4. PICK f : Computes(f, seqs[1], step, m - 1, X)
    <3> HIDE DEF step, X, m
    <3> QED
      BY <2>1, <2>2, <2>3, Recursion
  <2>5. f[0] = seqs[1] /\ \A n \in 1 .. m - 1 : f[n] = f[n - 1] \o seqs[n + 1]
    <3>1. ASSUME NEW n \in 1 .. m - 1 PROVE f[n - 1] \in X
      <4>1. n - 1 \in 0 .. m - 1
        BY <1>1
      <4> QED
        BY <2>4, <4>1 DEF Computes
    <3>2. ASSUME NEW n \in 1 .. m - 1 PROVE step[<<n, f[n - 1]>>] = f[n - 1] \o seqs[n + 1]
      BY <3>1
    <3> HIDE DEF step, X, m
    <3> QED
      BY <2>4, <3>2 DEF Computes
  <2> HIDE DEF step
  <2> DEFINE r == [i \in 1 .. m |-> f[i - 1]]
  <2>6. \A i \in 1 .. m : r[i] = IF i = 1 THEN seqs[i] ELSE r[i - 1] \o seqs[i]
    <3>1. ASSUME NEW i \in 1 .. m, i # 1 PROVE r[i] = r[i - 1] \o seqs[i]
      <4>1. /\ i - 1 \in 1 .. m - 1 /\ (i - 1) + 1 = i /\ i - 1 \in 1 .. m
            /\ r[i] = f[i - 1] /\ r[i - 1] = f[(i - 1) - 1]
        BY <1>1, <3>1
      <4> HIDE DEF r, m
      <4> QED
        BY <2>5, <4>1
    <3>2. 1 \in 1 .. m /\ r[1] = seqs[1]
      BY <1>1, <1>4, <2>5
    <3> HIDE DEF r, m
    <3> QED
      BY <3>1, <3>2
  <2>7. r = [i \in 1 .. m |-> r[i]]
    OBVIOUS
  <2>8. Flat(flat)
    <3>1. Flat(r)
      <4> HIDE DEF r, m
      <4> QED
        BY <2>6, <2>7
    <3> QED
      BY <3>1
  <2>9. FlattenSeq(seqs) = flat[m]
    BY <1>4 DEF FlattenSeq
  <2> HIDE DEF flat, m, X
  <2>10. \A i \in 1 .. m : flat[i] = IF i = 1 THEN seqs[i] ELSE flat[i - 1] \o seqs[i]
    BY <2>8
  <2> DEFINE Done(n) == /\ flat[n] \in Seq(S)
                        /\ Range(flat[n]) = UNION {Range(seqs[i]) : i \in 1 .. n}
             T == {n \in Nat : n + 1 <= m => Done(n + 1)}
  <2>11. 0 \in T
    <3>1. flat[1] = seqs[1]
      <4>1. 1 \in 1 .. m
        BY <1>1, <1>4
      <4> QED
        BY <2>10, <4>1
    <3>2. UNION {Range(seqs[i]) : i \in 1 .. 1} = Range(seqs[1])
      OBVIOUS
    <3> QED
      BY <2>2, <3>1, <3>2 DEF X
  <2>12. ASSUME NEW n \in Nat, n \in T PROVE n + 1 \in T
    <3> SUFFICES ASSUME (n + 1) + 1 <= m PROVE Done((n + 1) + 1)
      OBVIOUS
    <3>1. Done(n + 1)
      BY <1>1, <2>12
    <3>2. (n + 1) + 1 \in 1 .. m /\ (n + 1) + 1 # 1 /\ ((n + 1) + 1) - 1 = n + 1
      BY <1>1
    <3>3. flat[(n + 1) + 1] = flat[n + 1] \o seqs[(n + 1) + 1]
      BY <2>10, <3>2
    <3>4. seqs[(n + 1) + 1] \in Seq(S)
      BY <1>2, <3>2 DEF X
    <3>5. 1 .. (n + 1) + 1 = (1 .. n + 1) \cup {(n + 1) + 1}
      OBVIOUS
    <3>6. /\ flat[(n + 1) + 1] \in Seq(S)
          /\ Range(flat[(n + 1) + 1]) = Range(flat[n + 1]) \cup Range(seqs[(n + 1) + 1])
      BY <3>1, <3>3, <3>4, RangeOfConcat
    <3>7. UNION {Range(seqs[i]) : i \in 1 .. (n + 1) + 1}
            = (UNION {Range(seqs[i]) : i \in 1 .. n + 1}) \cup Range(seqs[(n + 1) + 1])
      BY <3>5
    <3> QED
      BY <3>1, <3>6, <3>7
  <2>13. Done(m)
    <3>1. m - 1 \in T
      <4> HIDE DEF T
      <4> QED
        BY <2>1, <2>11, <2>12, Induction
    <3> QED
      BY <1>1, <2>1, <3>1
  <2> QED
    BY <1>1, <2>9, <2>13
<1> QED
  BY <1>3, <1>4
-----------------------------------------------------------------------------
(* Sound strategies: the strengthening of Coherent that every step keeps *)

Part == {"a", "b", "gate", "close", "low", "high",
         "fast", "slow", "strength", "hi", "lo", "vol", "lower", "upper", "mid", "osc", "trend",
         "line", "sig", "z", "kc_up", "kc_dn", "basis", "k", "hh", "ll", "mom", "sw_hi", "sw_lo",
         "disp", "fvg_up", "fvg_dn", "ob_up", "ob_dn", "sweep_lo", "sweep_hi", "wick_dn",
         "wick_up", "eq"}
Name == Part \cup Nat
Alias == Seq(Name) \ {<<>>}

IndType ==
  {"ma", "adx", "donchian_high", "donchian_low", "atr_pct", "bb_lower", "bb_upper", "rsi", "macd",
   "macd_signal", "zscore", "keltner_upper", "keltner_lower", "stoch_k", "highest", "lowest",
   "roc", "swing_high_level", "swing_low_level", "displacement", "fvg_bull_level",
   "fvg_bear_level", "ob_bull_level", "ob_bear_level", "liquidity_sweep_low",
   "liquidity_sweep_high", "wick_down_pct", "wick_up_pct", "equilibrium"}

\* Operands and conditions over the indicators D; a condition has one of them.
Operand(D) ==
  {o \in [kind : {"indicator", "price", "const", "none"}, ref : Seq(Name), value : Int] :
     o.kind = "indicator" => o.ref \in D}
Rule(D) ==
  {c \in [op : Op, left : Operand(D), right : Operand(D)] :
     "indicator" \in {c.left.kind, c.right.kind}}

\* The strategies over the indicators D.
Over(D) ==
  [entry_long : Seq(Rule(D)), entry_short : Seq(Rule(D)),
   exit_long : Seq(Rule(D)), exit_short : Seq(Rule(D)),
   recipe : DOMAIN Blueprints \cup {"crossed"},
   origin : {"fresh", "mutation", "crossover"}, effort : Nat,
   direction : {"long", "short", "both"}, inds : [D -> IndType],
   stop_kind : {"atr", "percent", "none"}, stop : Nat,
   target_kind : {"rr", "atr", "none"}, target : Nat, timed : BOOLEAN,
   trend : D \cup {<<>>}]

\* The recipes agree on what an indicator that can carry a trend is called, and
\* the name of a gate is a number: after any renaming, the last part of an alias
\* says whether its indicator may be the trend filter.
TrendNames == {"fast", "slow", "hi", "lo", "mid", "trend", "basis", "hh", "ll"}
Carries(a) == ~(Len(a) >= 2 /\ a[Len(a) - 1] = "gate") /\ a[Len(a)] \in TrendNames

\* Indicators whose names tell which of them can carry a trend.
Dictionary(inds) ==
  /\ DOMAIN inds \subseteq Alias /\ IsFiniteSet(DOMAIN inds)
  /\ inds \in [DOMAIN inds -> IndType]
  /\ \A a \in DOMAIN inds : inds[a] \in TrendOrLevel <=> Carries(a)

\* There are rules exactly for the sides that the direction names.
Sided(ir) ==
  /\ ir.entry_long # <<>> <=> ir.direction \in {"long", "both"}
  /\ ir.entry_short # <<>> <=> ir.direction \in {"short", "both"}
  /\ ir.exit_long # <<>> => ir.entry_long # <<>>
  /\ ir.exit_short # <<>> => ir.entry_short # <<>>

Sound(ir) ==
  /\ Dictionary(ir.inds)
  /\ ir \in Over(DOMAIN ir.inds)
  /\ ir.trend # <<>> => Carries(ir.trend)
  /\ Sided(ir)

\* What the audit can find in a sound strategy.
Nonsense(ir, c) ==
  /\ c.op \notin {"rising", "falling"}
  /\ \/ c.left.kind = c.right.kind /\ c.left.ref = c.right.ref
     \/ ScalesClash(OperandScale(ir, c.left), OperandScale(ir, c.right))
     \/ /\ c.right.kind = "const" /\ OperandScale(ir, c.left) = "0-100"
        /\ c.right.value \notin -10 .. 1010

HasNoStop(ir) == ir.stop_kind = "none" /\ ~ir.timed
HasNoExit(ir) ==
  ir.exit_long = <<>> /\ ir.exit_short = <<>> /\ ir.target_kind = "none" /\ ~ir.timed

\* What a first round of repairs leaves no trace of.
Weeded(ir) ==
  /\ ~HasNoStop(ir)
  /\ \A g \in Group : \A c \in Range(ir[g]) : ~Nonsense(ir, c)

\* The invariant: what is followed is sound; a first round of repairs weeds it,
\* and a second one mends the exit that the first one may have taken.
GenomeInv ==
  /\ phase \in {"none", "mutating", "made", "raised", "audit", "unparsed", "built", "invalid"}
  /\ left \in 0 .. MaxOperators
  /\ round \in 0 .. MaxRepairRounds
  /\ IF phase = "none" THEN strategy = <<>> ELSE Sound(strategy)
  /\ phase # "audit" => round = 0
  /\ round >= 1 => Weeded(strategy)
  /\ round >= 2 => ~HasNoExit(strategy)
  /\ OnlyPairsDefeatRepair

-----------------------------------------------------------------------------
(* Sound strategies, changed in one place *)

LEMMA RuleMore ==
  ASSUME NEW D, NEW E, D \subseteq E
  PROVE  Rule(D) \subseteq Rule(E) /\ Seq(Rule(D)) \subseteq Seq(Rule(E))
<1>1. Operand(D) \subseteq Operand(E)
  BY DEF Operand
<1>2. Rule(D) \subseteq Rule(E)
  BY <1>1 DEF Rule
<1> QED
  BY <1>2, SeqMonotonic

LEMMA Groups ==
  ASSUME NEW D, NEW ir \in Over(D), NEW g \in Group
  PROVE  ir[g] \in Seq(Rule(D))
BY DEF Over, Group

\* Another group in place of one.
Regroup(ir, g, s) == [ir EXCEPT ![g] = s]
Differs(new, ir, g, s) ==
  /\ new.inds = ir.inds /\ new.trend = ir.trend /\ new.direction = ir.direction
  /\ new.timed = ir.timed /\ new.stop_kind = ir.stop_kind /\ new.target_kind = ir.target_kind
  /\ \A h \in Group : new[h] = IF h = g THEN s ELSE ir[h]

LEMMA Replaced ==
  ASSUME NEW D, NEW ir \in Over(D), NEW g \in Group, NEW s \in Seq(Rule(D)), NEW new,
         new = Regroup(ir, g, s)
  PROVE  new \in Over(D) /\ Differs(new, ir, g, s)
<1>1. new \in Over(D)
  BY DEF Over, Group, Regroup
<1> QED
  BY <1>1 DEF Over, Group, Regroup, Differs

\* A group that stays empty or not keeps the strategy sound; an exit may also
\* be emptied.
LEMMA Regrouped ==
  ASSUME NEW ir, Sound(ir), NEW g \in Group, NEW s \in Seq(Rule(DOMAIN ir.inds)),
         \/ s = <<>> <=> ir[g] = <<>>
         \/ g \in {"exit_long", "exit_short"} /\ s = <<>>
  PROVE  Sound(Regroup(ir, g, s))
<1> DEFINE D == DOMAIN ir.inds
           new == Regroup(ir, g, s)
<1>1. ir \in Over(D) /\ Dictionary(ir.inds) /\ Sided(ir) /\ (ir.trend # <<>> => Carries(ir.trend))
  BY DEF Sound
<1>2. new \in Over(D) /\ Differs(new, ir, g, s)
  BY <1>1, Replaced
<1> HIDE DEF new
<1>3. Sided(new)
  BY <1>1, <1>2 DEF Sided, Group, Differs
<1>4. Sound(new)
  BY <1>1, <1>2, <1>3 DEF Sound, Differs
<1> QED
  BY <1>4 DEF new

\* The fields that no rule depends on.
LEMMA Refitted ==
  ASSUME NEW ir, Sound(ir), NEW new, new \in Over(DOMAIN ir.inds),
         new.inds = ir.inds, new.direction = ir.direction,
         \A g \in Group : new[g] = ir[g],
         new.trend # <<>> => Carries(new.trend)
  PROVE  Sound(new)
<1>1. Sided(new)
  BY DEF Sound, Sided, Group
<1> QED
  BY <1>1 DEF Sound

\* A side that is not traded loses its rules.
LEMMA OneSidedFacts ==
  ASSUME NEW D, NEW ir \in Over(D), D = DOMAIN ir.inds, Dictionary(ir.inds),
         ir.trend # <<>> => Carries(ir.trend),
         ir.direction \in {"long", "both"} => ir.entry_long # <<>>,
         ir.direction \in {"short", "both"} => ir.entry_short # <<>>
  PROVE  Sound(OneSided(ir))
<1>1. CASE ir.direction = "long"
  <2> DEFINE mid == Regroup(ir, "entry_short", <<>>)
             new == Regroup(mid, "exit_short", <<>>)
  <2>0. <<>> \in Seq(Rule(D)) /\ mid = Regroup(ir, "entry_short", <<>>)
    OBVIOUS
  <2>1. "entry_short" \in Group /\ "exit_short" \in Group
    BY DEF Group
  <2> HIDE DEF mid
  <2>2. mid \in Over(D) /\ Differs(mid, ir, "entry_short", <<>>)
    BY <2>0, <2>1, Replaced
  <2>3. OneSided(ir) = new
    BY <1>1, <2>0 DEF OneSided, Regroup
  <2>4. new \in Over(D) /\ Differs(new, mid, "exit_short", <<>>)
    BY <2>0, <2>1, <2>2, Replaced
  <2> HIDE DEF new
  <2>5. Sided(new)
    BY <1>1, <2>2, <2>4 DEF Sided, Group, Differs
  <2>6. Sound(new)
    BY <2>2, <2>4, <2>5 DEF Sound, Differs
  <2> QED
    BY <2>3, <2>6
<1>2. CASE ir.direction = "short"
  <2> DEFINE mid == Regroup(ir, "entry_long", <<>>)
             new == Regroup(mid, "exit_long", <<>>)
  <2>0. <<>> \in Seq(Rule(D)) /\ mid = Regroup(ir, "entry_long", <<>>)
    OBVIOUS
  <2>1. "entry_long" \in Group /\ "exit_long" \in Group
    BY DEF Group
  <2> HIDE DEF mid
  <2>2. mid \in Over(D) /\ Differs(mid, ir, "entry_long", <<>>)
    BY <2>0, <2>1, Replaced
  <2>3. OneSided(ir) = new
    BY <1>2, <2>0 DEF OneSided, Regroup
  <2>4. new \in Over(D) /\ Differs(new, mid, "exit_long", <<>>)
    BY <2>0, <2>1, <2>2, Replaced
  <2> HIDE DEF new
  <2>5. Sided(new)
    BY <1>2, <2>2, <2>4 DEF Sided, Group, Differs
  <2>6. Sound(new)
    BY <2>2, <2>4, <2>5 DEF Sound, Differs
  <2> QED
    BY <2>3, <2>6
<1>3. CASE ir.direction = "both"
  <2>1. OneSided(ir) = ir /\ Sided(ir)
    BY <1>3 DEF OneSided, Sided
  <2> QED
    BY <2>1 DEF Sound
<1> QED
  BY <1>1, <1>2, <1>3 DEF Over

\* Every reference of a strategy is counted.
LEMMA RefCounts ==
  ASSUME NEW D, NEW ir \in Over(D), NEW g \in Group, NEW i \in DOMAIN ir[g]
  PROVE  /\ ir[g][i].left.kind = "indicator" => ir[g][i].left.ref \in Referenced(ir)
         /\ ir[g][i].right.kind = "indicator" => ir[g][i].right.ref \in Referenced(ir)
<1> DEFINE c == ir[g][i]
           all == UNION {Range(ir[h]) : h \in Group}
<1>1. c \in all
  BY DEF Range
<1> HIDE DEF all
<1>2. Refs(ir, Group) =
        UNION {{o.ref : o \in {p \in {d.left, d.right} : p.kind = "indicator"}} : d \in all}
  BY DEF Refs, all
<1>3. ASSUME NEW o \in {c.left, c.right}, o.kind = "indicator" PROVE o.ref \in Refs(ir, Group)
  <2> HIDE DEF c
  <2>1. o.ref \in {p.ref : p \in {q \in {c.left, c.right} : q.kind = "indicator"}}
    BY <1>3
  <2> QED
    BY <1>1, <1>2, <2>1
<1> QED
  BY <1>3 DEF Referenced

\* Pruning takes only what no rule and no filter needs.
LEMMA PruneSound ==
  ASSUME NEW ir, Sound(ir)
  PROVE  Sound(Prune(ir))
<1> DEFINE D == DOMAIN ir.inds
           used == {a \in D : a \in Referenced(ir)}
           new == Prune(ir)
<1>1. ir \in Over(D) /\ Dictionary(ir.inds) /\ Sided(ir)
  BY DEF Sound
<1>2. new = [ir EXCEPT !.inds = Restrict(ir.inds, used),
                       !.trend = IF ir.trend \in used THEN ir.trend ELSE <<>>]
  BY <1>1 DEF Prune, Over
<1>3. Restrict(ir.inds, used) = [a \in used |-> ir.inds[a]]
  BY DEF Restrict
<1> DEFINE inds == Restrict(ir.inds, used)
           trend == IF ir.trend \in used THEN ir.trend ELSE <<>>
<1>4. Dictionary(inds) /\ DOMAIN inds = used
  <2>1. IsFiniteSet(used)
    BY <1>1, FS_Subset DEF Dictionary
  <2> QED
    BY <1>1, <1>3, <2>1 DEF Dictionary
<1>5. ASSUME NEW g \in Group PROVE ir[g] \in Seq(Rule(used))
  <2>1. ir[g] \in Seq(Rule(D))
    BY <1>1, Groups
  <2>2. ASSUME NEW i \in DOMAIN ir[g] PROVE ir[g][i] \in Rule(used)
    <3>1. ir[g][i] \in Rule(D)
      BY <2>1
    <3>2. /\ ir[g][i].left.kind = "indicator" => ir[g][i].left.ref \in used
          /\ ir[g][i].right.kind = "indicator" => ir[g][i].right.ref \in used
      BY <1>1, <3>1, RefCounts DEF Rule, Operand
    <3> HIDE DEF used
    <3> QED
      BY <3>1, <3>2 DEF Rule, Operand
  <2> HIDE DEF used, D
  <2> QED
    BY <2>1, <2>2
<1>6. trend \in used \cup {<<>>}
  OBVIOUS
<1> HIDE DEF used
<1>7. new \in Over(used) /\ new.inds = inds /\ new.trend = trend /\ new.direction = ir.direction
  <2>1. inds \in [used -> IndType]
    BY <1>4 DEF Dictionary
  <2> HIDE DEF inds, trend, new
  <2> QED
    BY <1>1, <1>2, <1>5, <1>6, <2>1 DEF Over, Group, inds, trend
<1>8. \A g \in Group : new[g] = ir[g]
  <2> HIDE DEF inds, trend, new
  <2> QED
    BY <1>1, <1>2 DEF Over, Group
<1>9. new.trend # <<>> => Carries(new.trend)
  BY <1>7 DEF Sound
<1> HIDE DEF new, inds
<1>10. Sided(new)
  BY <1>1, <1>7, <1>8 DEF Sided, Group
<1>11. Sound(new)
  BY <1>4, <1>7, <1>9, <1>10 DEF Sound
<1> QED
  BY <1>11 DEF new

-----------------------------------------------------------------------------
(* What a repair does to a sound strategy *)

\* The risk block and the indicators stay.
KeepsRisk(new, ir) ==
  /\ new.inds = ir.inds /\ new.timed = ir.timed
  /\ new.stop_kind = ir.stop_kind /\ new.target_kind = ir.target_kind

\* A condition that is new is a fallback, which only says that something rises.
FromOrRising(new, conditions) == \A c \in Range(new) : c \in conditions \/ c.op = "rising"

LEMMA HasIndicators ==
  ASSUME NEW D, NEW s \in Seq(Rule(D)), s # <<>>
  PROVE  D # {}
<1>1. s[1] \in Rule(D)
  OBVIOUS
<1> QED
  BY <1>1 DEF Rule, Operand

LEMMA FallbackIsRule ==
  ASSUME NEW D, D \subseteq Alias, NEW a \in D
  PROVE  /\ <<Cond("rising", Ind(a), NoOperand)>> \in Seq(Rule(D))
         /\ \A c \in Range(<<Cond("rising", Ind(a), NoOperand)>>) : c.op = "rising"
<1> DEFINE c == Cond("rising", Ind(a), NoOperand)
<1>1. Ind(a) \in Operand(D) /\ NoOperand \in Operand(D)
  BY DEF Ind, NoOperand, Operand, Alias
<1>2. c \in Rule(D) /\ c.op = "rising"
  BY <1>1 DEF Cond, Rule, Op, Ind
<1> HIDE DEF c
<1>3. Range(<<c>>) = {c}
  BY DEF Range
<1>4. <<c>> \in Seq(Rule(D)) /\ \A d \in Range(<<c>>) : d.op = "rising"
  BY <1>2, <1>3
<1> QED
  BY <1>4 DEF c

\* Looking after a group keeps the strategy sound.
LEMMA UsableFacts ==
  ASSUME NEW ir, Sound(ir), NEW g \in Group, NEW s \in Seq(Rule(DOMAIN ir.inds)), ir[g] # <<>>,
         NEW mid, mid = Regroup(ir, g, s), NEW new, new = EnsureGroupUsable(mid, g)
  PROVE  /\ Sound(new) /\ KeepsRisk(new, ir)
         /\ \A h \in Group : FromOrRising(new[h], Range(IF h = g THEN s ELSE ir[h]))
         /\ s # <<>> => \A h \in Group : new[h] = <<>> => ir[h] = <<>>
<1> DEFINE D == DOMAIN ir.inds
<1>1. ir \in Over(D) /\ Dictionary(ir.inds) /\ Sided(ir) /\ (ir.trend # <<>> => Carries(ir.trend))
  BY DEF Sound
<1>2. mid \in Over(D) /\ Differs(mid, ir, g, s)
  BY <1>1, Replaced
<1>3. CASE mid[g] # <<>> \/ g \notin {"entry_long", "entry_short"}
  <2>1. new = mid
    BY <1>3 DEF EnsureGroupUsable
  <2>2. mid[g] = s
    BY <1>2 DEF Differs
  <2>3. Sound(mid)
    BY <1>3, <2>2, Regrouped DEF Group
  <2> QED
    BY <1>2, <2>1, <2>3 DEF Differs, KeepsRisk, FromOrRising
<1>4. CASE s = <<>> /\ g = "entry_long" /\ mid.entry_short # <<>>
  <2> DEFINE turned == [mid EXCEPT !.direction = "short"]
             r == [turned EXCEPT !.exit_long = <<>>]
  <2>1. new = r
    BY <1>2, <1>4 DEF EnsureGroupUsable, Differs, Group
  <2>2. r \in Over(D)
    <3>1. turned \in Over(D)
      BY <1>2 DEF Over
    <3>2. <<>> \in Seq(Rule(D))
      OBVIOUS
    <3> HIDE DEF turned, D
    <3> QED
      BY <3>1, <3>2 DEF Over
  <2>3. /\ r.inds = mid.inds /\ r.trend = mid.trend /\ r.direction = "short" /\ KeepsRisk(r, mid)
        /\ \A h \in Group : r[h] = IF h = "exit_long" THEN <<>> ELSE mid[h]
    BY <1>2 DEF Over, Group, KeepsRisk
  <2> HIDE DEF r
  <2>4. Sided(r)
    BY <1>1, <1>2, <1>4, <2>3 DEF Sided, Differs, Group
  <2>5. Sound(r)
    BY <1>1, <1>2, <2>2, <2>3, <2>4 DEF Sound, Differs
  <2>6. ASSUME NEW h \in Group PROVE FromOrRising(r[h], Range(IF h = g THEN s ELSE ir[h]))
    <3>1. r[h] = <<>> \/ r[h] = IF h = g THEN s ELSE ir[h]
      BY <1>2, <2>3 DEF Differs
    <3> QED
      BY <3>1 DEF FromOrRising, Range
  <2> QED
    BY <1>2, <1>4, <2>1, <2>3, <2>5, <2>6 DEF KeepsRisk, Differs
<1>5. CASE s = <<>> /\ g = "entry_short" /\ mid.entry_long # <<>>
  <2> DEFINE turned == [mid EXCEPT !.direction = "long"]
             r == [turned EXCEPT !.exit_short = <<>>]
  <2>1. new = r
    BY <1>2, <1>5 DEF EnsureGroupUsable, Differs, Group
  <2>2. r \in Over(D)
    <3>1. turned \in Over(D)
      BY <1>2 DEF Over
    <3>2. <<>> \in Seq(Rule(D))
      OBVIOUS
    <3> HIDE DEF turned, D
    <3> QED
      BY <3>1, <3>2 DEF Over
  <2>3. /\ r.inds = mid.inds /\ r.trend = mid.trend /\ r.direction = "long" /\ KeepsRisk(r, mid)
        /\ \A h \in Group : r[h] = IF h = "exit_short" THEN <<>> ELSE mid[h]
    BY <1>2 DEF Over, Group, KeepsRisk
  <2> HIDE DEF r
  <2>4. Sided(r)
    BY <1>1, <1>2, <1>5, <2>3 DEF Sided, Differs, Group
  <2>5. Sound(r)
    BY <1>1, <1>2, <2>2, <2>3, <2>4 DEF Sound, Differs
  <2>6. ASSUME NEW h \in Group PROVE FromOrRising(r[h], Range(IF h = g THEN s ELSE ir[h]))
    <3>1. r[h] = <<>> \/ r[h] = IF h = g THEN s ELSE ir[h]
      BY <1>2, <2>3 DEF Differs
    <3> QED
      BY <3>1 DEF FromOrRising, Range
  <2> QED
    BY <1>2, <1>5, <2>1, <2>3, <2>5, <2>6 DEF KeepsRisk, Differs
<1>6. CASE /\ s = <<>> /\ g \in {"entry_long", "entry_short"}
           /\ g = "entry_long" => mid.entry_short = <<>>
           /\ g = "entry_short" => mid.entry_long = <<>>
  <2>1. D # {}
    BY <1>1, Groups, HasIndicators
  <2>2. PICK a \in D : new = Regroup(mid, g, <<Cond("rising", Ind(a), NoOperand)>>)
    <3>1. mid[g] = <<>> /\ mid.inds = ir.inds
      BY <1>2, <1>6 DEF Differs
    <3> DEFINE a == CHOOSE a \in DOMAIN mid.inds : TRUE
    <3>2. a \in D
      BY <2>1, <3>1
    <3>3. new = [mid EXCEPT ![g] = <<Cond("rising", Ind(a), NoOperand)>>]
      BY <1>6, <2>1, <3>1 DEF EnsureGroupUsable
    <3> HIDE DEF a
    <3> QED
      BY <3>2, <3>3 DEF Regroup
  <2> DEFINE t == <<Cond("rising", Ind(a), NoOperand)>>
  <2>3. t \in Seq(Rule(D)) /\ \A c \in Range(t) : c.op = "rising"
    BY <1>1, FallbackIsRule DEF Dictionary
  <2>4. t # <<>>
    OBVIOUS
  <2>5. new = Regroup(mid, g, t)
    BY <2>2
  <2> HIDE DEF t
  <2>6. new \in Over(D) /\ Differs(new, mid, g, t)
    BY <1>2, <2>3, <2>5, Replaced
  <2>7. Sided(new)
    BY <1>1, <1>2, <1>6, <2>4, <2>6 DEF Sided, Differs, Group
  <2>8. Sound(new)
    BY <1>1, <1>2, <2>6, <2>7 DEF Sound, Differs
  <2>9. ASSUME NEW h \in Group PROVE FromOrRising(new[h], Range(IF h = g THEN s ELSE ir[h]))
    <3>1. new[h] = IF h = g THEN t ELSE ir[h]
      BY <1>2, <2>6 DEF Differs
    <3> QED
      BY <2>3, <3>1 DEF FromOrRising
  <2> QED
    BY <1>2, <1>6, <2>6, <2>8, <2>9 DEF KeepsRisk, Differs
<1> QED
  <2>1. mid[g] = s
    BY <1>2 DEF Differs
  <2> QED
    BY <1>3, <1>4, <1>5, <1>6, <2>1

\* The errors that a sound strategy can have.
Mendable(e) ==
  \/ e.kind \in {"no exit", "no stop"}
  \/ e.kind \in {"nonsense", "contradictory"} /\ e.group \in Group

\* What one repair of such an error does.
Repaired(new, ir, e) ==
  /\ Sound(new) /\ new.inds = ir.inds /\ new.timed = ir.timed
  /\ new.target_kind = IF e.kind = "no exit" THEN "rr" ELSE ir.target_kind
  /\ new.stop_kind = IF e.kind = "no stop" THEN "atr" ELSE ir.stop_kind
  /\ \A g \in Group : FromOrRising(new[g], Range(ir[g]))
  /\ e.kind = "nonsense" => FromOrRising(new[e.group], Range(ir[e.group]) \ {e.what})
  /\ e.kind # "nonsense" => \A g \in Group : new[g] = <<>> => ir[g] = <<>>

LEMMA Stays == ASSUME NEW s, NEW C, Range(s) \subseteq C PROVE FromOrRising(s, C)
BY DEF FromOrRising

LEMMA RepairOneFacts ==
  ASSUME NEW ir, Sound(ir), NEW e, Mendable(e), NEW new, new = RepairOne(ir, e)
  PROVE  Repaired(new, ir, e)
<1> DEFINE D == DOMAIN ir.inds
<1>1. ir \in Over(D) /\ (ir.trend # <<>> => Carries(ir.trend))
  BY DEF Sound
<1>2. \A g \in Group : FromOrRising(ir[g], Range(ir[g]))
  BY Stays
<1>3. CASE e.kind = "no exit"
  <2> DEFINE aimed == [ir EXCEPT !.target_kind = "rr"]
             r == [aimed EXCEPT !.target = IF ir.target > 15 THEN ir.target ELSE 15]
  <2>1. new = r
    BY <1>1, <1>3 DEF RepairOne, Over
  <2>2. r \in Over(D)
    <3>1. aimed \in Over(D)
      BY <1>1 DEF Over
    <3>2. ir.target \in Nat
      BY <1>1 DEF Over
    <3> HIDE DEF aimed, D
    <3> QED
      BY <3>1, <3>2 DEF Over
  <2>3. /\ r.inds = ir.inds /\ r.trend = ir.trend /\ r.direction = ir.direction
        /\ r.timed = ir.timed /\ r.stop_kind = ir.stop_kind /\ r.target_kind = "rr"
        /\ \A g \in Group : r[g] = ir[g]
    BY <1>1 DEF Over, Group
  <2> HIDE DEF r
  <2>4. Sound(r)
    BY <1>1, <2>2, <2>3, Refitted
  <2> QED
    BY <1>2, <1>3, <2>1, <2>3, <2>4 DEF Repaired
<1>4. CASE e.kind = "no stop"
  <2> DEFINE kept == [ir EXCEPT !.stop_kind = "atr"]
             r == [kept EXCEPT !.stop = IF ir.stop > 15 THEN ir.stop ELSE 15]
  <2>1. new = r
    BY <1>1, <1>4 DEF RepairOne, Over
  <2>2. r \in Over(D)
    <3>1. kept \in Over(D)
      BY <1>1 DEF Over
    <3>2. ir.stop \in Nat
      BY <1>1 DEF Over
    <3> HIDE DEF kept, D
    <3> QED
      BY <3>1, <3>2 DEF Over
  <2>3. /\ r.inds = ir.inds /\ r.trend = ir.trend /\ r.direction = ir.direction
        /\ r.timed = ir.timed /\ r.target_kind = ir.target_kind /\ r.stop_kind = "atr"
        /\ \A g \in Group : r[g] = ir[g]
    BY <1>1 DEF Over, Group
  <2> HIDE DEF r
  <2>4. Sound(r)
    BY <1>1, <2>2, <2>3, Refitted
  <2> QED
    BY <1>2, <1>4, <2>1, <2>3, <2>4 DEF Repaired
<1>5. CASE e.kind = "nonsense"
  <2> DEFINE g == e.group
             kept == Without(ir[g], {e.what})
  <2>1. g \in Group /\ ir[g] \in Seq(Rule(D))
    BY <1>1, <1>5, Groups DEF Mendable
  <2>2. kept \in Seq(Rule(D)) /\ Range(kept) \subseteq Range(ir[g]) \ {e.what}
    BY <2>1, WithoutFacts
  <2>3. new = DropFrom(ir, g, kept)
    BY <1>5 DEF RepairOne
  <2> HIDE DEF kept
  <2>4. CASE kept = ir[g]
    <3>1. new = ir
      BY <2>3, <2>4 DEF DropFrom
    <3>2. FromOrRising(ir[g], Range(ir[g]) \ {e.what})
      BY <2>2, <2>4, Stays
    <3> QED
      BY <1>2, <1>5, <3>1, <3>2 DEF Repaired
  <2>5. CASE kept # ir[g]
    <3> DEFINE mid == Regroup(ir, g, kept)
    <3>1. mid = Regroup(ir, g, kept) /\ new = EnsureGroupUsable(mid, g)
      BY <2>3, <2>5 DEF DropFrom, Regroup
    <3>2. ir[g] # <<>>
      <4>1. ASSUME ir[g] = <<>> PROVE kept = <<>>
        <5>1. Range(ir[g]) = {}
          BY <4>1 DEF Range
        <5>2. kept \in Seq({})
          <6>1. Range(kept) = {}
            BY <2>2, <5>1
          <6> QED
            BY <2>2, <6>1 DEF Range
        <5> QED
          BY <5>2
      <4> QED
        BY <2>5, <4>1
    <3> HIDE DEF mid, g
    <3>3. /\ Sound(new) /\ KeepsRisk(new, ir)
          /\ \A h \in Group : FromOrRising(new[h], Range(IF h = g THEN kept ELSE ir[h]))
      BY <2>1, <2>2, <3>1, <3>2, UsableFacts
    <3>4. \A h \in Group : FromOrRising(new[h], Range(ir[h]))
      BY <2>2, <3>3 DEF FromOrRising
    <3>5. FromOrRising(new[g], Range(ir[g]) \ {e.what})
      BY <2>1, <2>2, <3>3 DEF FromOrRising
    <3> QED
      BY <1>5, <3>3, <3>4, <3>5 DEF Repaired, KeepsRisk, g
  <2> QED
    BY <2>4, <2>5
<1>6. CASE e.kind = "contradictory"
  <2> DEFINE g == e.group
             rest == Front(ir[g])
  <2>1. g \in Group /\ ir[g] \in Seq(Rule(D))
    BY <1>1, <1>6, Groups DEF Mendable
  <2>2. CASE ~ (Len(ir[g]) > 1)
    <3>1. new = ir
      BY <1>6, <2>2 DEF RepairOne
    <3> QED
      BY <1>2, <1>6, <3>1 DEF Repaired
  <2>3. CASE Len(ir[g]) > 1
    <3>1. rest \in Seq(Rule(D)) /\ rest # <<>> /\ Range(rest) \subseteq Range(ir[g]) /\ ir[g] # <<>>
      <4>1. rest = SubSeq(ir[g], 1, Len(ir[g]) - 1)
        BY DEF Front
      <4>2. /\ rest \in Seq(Rule(D)) /\ Len(rest) = Len(ir[g]) - 1
            /\ \A i \in 1 .. Len(rest) : rest[i] = ir[g][i]
        BY <2>1, <2>3, <4>1
      <4> HIDE DEF rest
      <4>3. \A i \in DOMAIN rest : i \in DOMAIN ir[g] /\ rest[i] = ir[g][i]
        BY <2>1, <4>2
      <4> QED
        BY <2>1, <2>3, <4>2, <4>3 DEF Range
    <3> DEFINE mid == Regroup(ir, g, rest)
    <3>2. mid = Regroup(ir, g, rest) /\ new = EnsureGroupUsable(mid, g)
      BY <1>6, <2>3 DEF RepairOne, Regroup
    <3> HIDE DEF mid, g, rest
    <3>3. /\ Sound(new) /\ KeepsRisk(new, ir)
          /\ \A h \in Group : FromOrRising(new[h], Range(IF h = g THEN rest ELSE ir[h]))
          /\ rest # <<>> => \A h \in Group : new[h] = <<>> => ir[h] = <<>>
      BY <2>1, <3>1, <3>2, UsableFacts
    <3>4. \A h \in Group : FromOrRising(new[h], Range(ir[h]))
      BY <3>1, <3>3 DEF FromOrRising
    <3> QED
      BY <1>6, <3>1, <3>3, <3>4 DEF Repaired, KeepsRisk
  <2> QED
    BY <2>2, <2>3
<1> QED
  BY <1>3, <1>4, <1>5, <1>6 DEF Mendable

-----------------------------------------------------------------------------
(* What the audit finds in a sound strategy *)

\* The errors it can report of conditions over the indicators D.
Findings(D) ==
  [kind : {"nonsense", "contradictory", "no exit", "no stop"},
   group : Group \cup {""}, what : Rule(D) \cup {<<>>}]

LEMMA WhenFacts ==
  ASSUME NEW E, NEW cond \in BOOLEAN, NEW kind, cond => Err(kind) \in E
  PROVE  When(cond, kind) \in Seq(E) /\ Range(When(cond, kind)) = IF cond THEN {Err(kind)} ELSE {}
<1>1. CASE cond
  <2>1. When(cond, kind) = <<Err(kind)>>
    BY <1>1 DEF When
  <2>2. <<Err(kind)>> \in Seq(E) /\ Range(<<Err(kind)>>) = {Err(kind)}
    BY <1>1 DEF Range
  <2> QED
    BY <1>1, <2>1, <2>2
<1>2. CASE ~ cond
  <2>1. When(cond, kind) = <<>>
    BY <1>2 DEF When
  <2>2. <<>> \in Seq(E) /\ Range(<<>>) = {}
    BY DEF Range
  <2> QED
    BY <1>2, <2>1, <2>2
<1> QED
  BY <1>1, <1>2

\* A condition over the indicators dangles nowhere: it is nonsense or right.
LEMMA ConditionFacts ==
  ASSUME NEW ir, NEW g \in Group, NEW c \in Rule(DOMAIN ir.inds)
  PROVE  /\ ConditionErrors(ir, g, c) \in Seq(Findings(DOMAIN ir.inds))
         /\ Range(ConditionErrors(ir, g, c)) =
              IF Nonsense(ir, c) THEN {ErrIn("nonsense", g, c)} ELSE {}
<1> DEFINE e == ErrIn("nonsense", g, c)
           E == Findings(DOMAIN ir.inds)
           compares == c.op \notin {"rising", "falling"}
           self == c.left.kind = c.right.kind /\ c.left.ref = c.right.ref
           clash == ScalesClash(OperandScale(ir, c.left), OperandScale(ir, c.right))
           unreachable == c.right.kind = "const" /\ OperandScale(ir, c.left) = "0-100"
                            /\ c.right.value \notin -10 .. 1010
           F(bad) == IF compares /\ bad THEN <<e>> ELSE <<>>
<1>1. \A o \in {c.left, c.right} : ~ (o.kind = "indicator" /\ o.ref \notin DOMAIN ir.inds)
  BY DEF Rule, Operand
<1>2. ConditionErrors(ir, g, c) = <<>> \o <<>> \o F(self) \o F(clash) \o F(unreachable)
  <2> HIDE DEF self, clash, unreachable, e
  <2> QED
    BY <1>1 DEF ConditionErrors, self, clash, unreachable, e
<1>3. e \in E /\ <<>> \in Seq(E) /\ Range(<<>>) = {} /\ <<e>> \in Seq(E) /\ Range(<<e>>) = {e}
  <2>1. e \in E
    BY DEF Findings, ErrIn
  <2> HIDE DEF e, E
  <2> QED
    BY <2>1 DEF Range
<1>4. Nonsense(ir, c) <=> compares /\ (self \/ clash \/ unreachable)
  BY DEF Nonsense
<1> HIDE DEF self, clash, unreachable, e, E, compares
<1>5. \A bad \in BOOLEAN : F(bad) \in Seq(E) /\ Range(F(bad)) = IF compares /\ bad THEN {e} ELSE {}
  BY <1>3
<1>6. self \in BOOLEAN /\ clash \in BOOLEAN /\ unreachable \in BOOLEAN
  BY DEF self, clash, unreachable, ScalesClash
<1> DEFINE a == F(self)
           b == F(clash)
           d == F(unreachable)
<1>7. /\ a \in Seq(E) /\ Range(a) = IF compares /\ self THEN {e} ELSE {}
      /\ b \in Seq(E) /\ Range(b) = IF compares /\ clash THEN {e} ELSE {}
      /\ d \in Seq(E) /\ Range(d) = IF compares /\ unreachable THEN {e} ELSE {}
  BY <1>5, <1>6
<1> HIDE DEF a, b, d, F
<1> DEFINE none == <<>> \o <<>>
           upto1 == none \o a
           upto2 == upto1 \o b
           upto3 == upto2 \o d
<1>9. none \in Seq(E) /\ Range(none) = {}
  BY <1>3, RangeOfConcat
<1> HIDE DEF none
<1>10. upto1 \in Seq(E) /\ Range(upto1) = Range(a)
  BY <1>7, <1>9, RangeOfConcat
<1> HIDE DEF upto1
<1>11. upto2 \in Seq(E) /\ Range(upto2) = Range(a) \cup Range(b)
  BY <1>7, <1>10, RangeOfConcat
<1> HIDE DEF upto2
<1>12. upto3 \in Seq(E) /\ Range(upto3) = Range(a) \cup Range(b) \cup Range(d)
  BY <1>7, <1>11, RangeOfConcat
<1>13. Range(a) \cup Range(b) \cup Range(d) = IF Nonsense(ir, c) THEN {e} ELSE {}
  BY <1>4, <1>7
<1>14. ConditionErrors(ir, g, c) = upto3
  BY <1>2 DEF none, upto1, upto2, a, b, d
<1> HIDE DEF upto3
<1> QED
  BY <1>12, <1>13, <1>14 DEF e, E

\* A group reports its nonsense, every condition of it, and contradictions.
LEMMA GroupFacts ==
  ASSUME NEW ir, NEW g \in Group, ir[g] \in Seq(Rule(DOMAIN ir.inds))
  PROVE  /\ GroupErrors(ir, g) \in Seq(Findings(DOMAIN ir.inds))
         /\ \A c \in Range(ir[g]) :
              Nonsense(ir, c) => ErrIn("nonsense", g, c) \in Range(GroupErrors(ir, g))
         /\ \A e \in Range(GroupErrors(ir, g)) :
              \/ \E c \in Range(ir[g]) : Nonsense(ir, c) /\ e = ErrIn("nonsense", g, c)
              \/ e = ErrIn("contradictory", g, <<>>)
<1> DEFINE group == ir[g]
           E == Findings(DOMAIN ir.inds)
           each == [i \in DOMAIN group |-> ConditionErrors(ir, g, group[i])]
           pairs == {h \in (DOMAIN group) \X (DOMAIN group) :
                       h[1] < h[2] /\ Contradicts(group[h[1]], group[h[2]])}
           x == ErrIn("contradictory", g, <<>>)
           twos == [i \in 1 .. Cardinality(pairs) |-> x]
<1>1. DOMAIN group = 1 .. Len(group) /\ Len(group) \in Nat
  OBVIOUS
<1>2. \A i \in DOMAIN group : group[i] \in Rule(DOMAIN ir.inds)
  OBVIOUS
<1>3. \A i \in DOMAIN group : each[i] \in Seq(E)
  BY <1>2, ConditionFacts
<1>4. each \in Seq(Seq(E))
  <2>1. each \in [1 .. Len(group) -> Seq(E)]
    BY <1>1, <1>3
  <2> HIDE DEF each, E
  <2> QED
    BY <1>1, <2>1
<1>5. Cardinality(pairs) \in Nat
  <2>1. IsFiniteSet(1 .. Len(group))
    BY <1>1, FS_Interval
  <2>2. IsFiniteSet((DOMAIN group) \X (DOMAIN group))
    BY <1>1, <2>1, FS_Product
  <2>3. pairs \subseteq (DOMAIN group) \X (DOMAIN group)
    OBVIOUS
  <2>4. IsFiniteSet(pairs)
    BY <2>2, <2>3, FS_Subset
  <2> QED
    BY <2>4, FS_CardinalityType
<1>6. x \in E
  BY DEF Findings, ErrIn
<1>7. GroupErrors(ir, g) = FlattenSeq(each) \o twos
  BY DEF GroupErrors
<1> HIDE DEF pairs, x, E
<1>8. twos \in Seq(E) /\ Range(twos) \subseteq {x}
  BY <1>5, <1>6 DEF Range
<1> HIDE DEF twos
<1>9. /\ FlattenSeq(each) \in Seq(E)
      /\ Range(FlattenSeq(each)) = UNION {Range(each[i]) : i \in DOMAIN each}
  <2> HIDE DEF each
  <2> QED
    BY <1>4, FlattenFacts
<1>10. /\ GroupErrors(ir, g) \in Seq(E)
       /\ Range(GroupErrors(ir, g)) = (UNION {Range(each[i]) : i \in DOMAIN each}) \cup Range(twos)
  <2> HIDE DEF each
  <2> QED
    BY <1>7, <1>8, <1>9, RangeOfConcat
<1>11. DOMAIN each = DOMAIN group
  OBVIOUS
<1>12. \A i \in DOMAIN group :
         Range(each[i]) = IF Nonsense(ir, group[i]) THEN {ErrIn("nonsense", g, group[i])} ELSE {}
  BY <1>2, ConditionFacts
<1> HIDE DEF each
<1>13. ASSUME NEW c \in Range(group), Nonsense(ir, c)
       PROVE  ErrIn("nonsense", g, c) \in Range(GroupErrors(ir, g))
  <2>1. PICK i \in DOMAIN group : c = group[i]
    BY DEF Range
  <2>2. ErrIn("nonsense", g, c) \in Range(each[i]) /\ i \in DOMAIN each
    BY <1>11, <1>12, <1>13, <2>1
  <2> QED
    BY <1>10, <2>2
<1>14. ASSUME NEW e \in Range(GroupErrors(ir, g))
       PROVE  \/ \E c \in Range(group) : Nonsense(ir, c) /\ e = ErrIn("nonsense", g, c)
              \/ e = x
  <2>1. CASE e \in Range(twos)
    BY <1>8, <2>1
  <2>2. CASE e \in UNION {Range(each[i]) : i \in DOMAIN each}
    <3>1. PICK i \in DOMAIN group : e \in Range(each[i])
      BY <1>11, <2>2
    <3>2. Nonsense(ir, group[i]) /\ e = ErrIn("nonsense", g, group[i])
      <4>1. Range(each[i]) = IF Nonsense(ir, group[i]) THEN {ErrIn("nonsense", g, group[i])} ELSE {}
        BY <1>12
      <4> QED
        BY <3>1, <4>1, Zenon
    <3>3. group[i] \in Range(group)
      BY DEF Range
    <3> QED
      BY <3>2, <3>3
  <2> QED
    BY <1>10, <2>1, <2>2
<1> QED
  BY <1>10, <1>13, <1>14 DEF E, x

\* A sound strategy has entries for its sides and a trend filter that exists:
\* what is left to find is nonsense, contradictions, no way out and no stop.
LEMMA ErrorFacts ==
  ASSUME NEW ir, Sound(ir)
  PROVE  /\ Errors(ir) \in Seq(Findings(DOMAIN ir.inds))
         /\ \A g \in Group : \A c \in Range(ir[g]) :
              Nonsense(ir, c) => ErrIn("nonsense", g, c) \in Range(Errors(ir))
         /\ HasNoExit(ir) => Err("no exit") \in Range(Errors(ir))
         /\ HasNoStop(ir) => Err("no stop") \in Range(Errors(ir))
         /\ \A e \in Range(Errors(ir)) :
              \/ \E g \in Group : \E c \in Range(ir[g]) :
                   Nonsense(ir, c) /\ e = ErrIn("nonsense", g, c)
              \/ \E g \in Group : e = ErrIn("contradictory", g, <<>>)
              \/ HasNoExit(ir) /\ e = Err("no exit")
              \/ HasNoStop(ir) /\ e = Err("no stop")
<1> DEFINE D == DOMAIN ir.inds
           E == Findings(D)
           noEntry == When(FALSE, "no entry")
           noLong == When(FALSE, "long without entry")
           noShort == When(FALSE, "short without entry")
           noTrend == When(FALSE, "trend undefined")
           g1 == GroupErrors(ir, "entry_long")
           g2 == GroupErrors(ir, "entry_short")
           g3 == GroupErrors(ir, "exit_long")
           g4 == GroupErrors(ir, "exit_short")
           noExit == When(HasNoExit(ir), "no exit")
           noStop == When(HasNoStop(ir), "no stop")
           s1 == noEntry \o noLong
           s2 == s1 \o noShort
           s3 == s2 \o noTrend
           s4 == s3 \o g1
           s5 == s4 \o g2
           s6 == s5 \o g3
           s7 == s6 \o g4
           s8 == s7 \o noExit
           s9 == s8 \o noStop
<1>1. ir \in Over(D) /\ Sided(ir)
  BY DEF Sound
<1>2. /\ (ir.entry_long = <<>> /\ ir.entry_short = <<>>) = FALSE
      /\ (ir.direction = "long" /\ ir.entry_long = <<>>) = FALSE
      /\ (ir.direction = "short" /\ ir.entry_short = <<>>) = FALSE
      /\ (ir.trend # <<>> /\ ir.trend \notin DOMAIN ir.inds) = FALSE
  BY <1>1 DEF Over, Sided
<1>3. Errors(ir) = s9
  BY <1>2 DEF Errors, HasNoExit, HasNoStop
<1>4. /\ noEntry \in Seq(E) /\ Range(noEntry) = {}
      /\ noLong \in Seq(E) /\ Range(noLong) = {}
      /\ noShort \in Seq(E) /\ Range(noShort) = {}
      /\ noTrend \in Seq(E) /\ Range(noTrend) = {}
  BY WhenFacts
<1>5. /\ noExit \in Seq(E) /\ Range(noExit) = IF HasNoExit(ir) THEN {Err("no exit")} ELSE {}
      /\ noStop \in Seq(E) /\ Range(noStop) = IF HasNoStop(ir) THEN {Err("no stop")} ELSE {}
  <2>1. Err("no exit") \in E /\ Err("no stop") \in E
    BY DEF Findings, Err
  <2>2. HasNoExit(ir) \in BOOLEAN /\ HasNoStop(ir) \in BOOLEAN
    BY DEF HasNoExit, HasNoStop
  <2> HIDE DEF E
  <2> QED
    BY <2>1, <2>2, WhenFacts
<1>6. \A g \in Group : GroupErrors(ir, g) \in Seq(E)
  BY <1>1, Groups, GroupFacts
<1>7. g1 \in Seq(E) /\ g2 \in Seq(E) /\ g3 \in Seq(E) /\ g4 \in Seq(E)
  BY <1>6 DEF Group
<1>8. UNION {Range(GroupErrors(ir, g)) : g \in Group}
        = Range(g1) \cup Range(g2) \cup Range(g3) \cup Range(g4)
  BY DEF Group
<1> HIDE DEF E, noEntry, noLong, noShort, noTrend, g1, g2, g3, g4, noExit, noStop
<1>9. /\ Yields(noEntry, E, {}) /\ Yields(noLong, E, {})
      /\ Yields(noShort, E, {}) /\ Yields(noTrend, E, {})
  BY <1>4 DEF Yields
<1>10. /\ Yields(g1, E, Range(g1)) /\ Yields(g2, E, Range(g2))
       /\ Yields(g3, E, Range(g3)) /\ Yields(g4, E, Range(g4))
  BY <1>7 DEF Yields
<1>11. Yields(noExit, E, Range(noExit)) /\ Yields(noStop, E, Range(noStop))
  BY <1>5 DEF Yields
<1>12. {} \cup {} = {} /\ {} \cup Range(g1) = Range(g1)
  OBVIOUS
<1> DEFINE r1 == Range(g1)
           r2 == r1 \cup Range(g2)
           r3 == r2 \cup Range(g3)
           r4 == r3 \cup Range(g4)
           r5 == r4 \cup Range(noExit)
           r6 == r5 \cup Range(noStop)
<1>13. Yields(s1, E, {})
  BY <1>9, <1>10, <1>11, <1>12, YieldsConcat
<1> HIDE DEF s1
<1>14. Yields(s2, E, {})
  BY <1>9, <1>10, <1>11, <1>12, <1>13, YieldsConcat
<1> HIDE DEF s2
<1>15. Yields(s3, E, {})
  BY <1>9, <1>10, <1>11, <1>12, <1>14, YieldsConcat
<1> HIDE DEF s3
<1>16. Yields(s4, E, r1)
  BY <1>9, <1>10, <1>11, <1>12, <1>15, YieldsConcat
<1> HIDE DEF s4
<1>17. Yields(s5, E, r2)
  BY <1>9, <1>10, <1>11, <1>12, <1>16, YieldsConcat
<1> HIDE DEF s5
<1>18. Yields(s6, E, r3)
  BY <1>9, <1>10, <1>11, <1>12, <1>17, YieldsConcat
<1> HIDE DEF s6
<1>19. Yields(s7, E, r4)
  BY <1>9, <1>10, <1>11, <1>12, <1>18, YieldsConcat
<1> HIDE DEF s7
<1>20. Yields(s8, E, r5)
  BY <1>9, <1>10, <1>11, <1>12, <1>19, YieldsConcat
<1> HIDE DEF s8
<1>21. Yields(s9, E, r6)
  BY <1>9, <1>10, <1>11, <1>12, <1>20, YieldsConcat
<1> HIDE DEF s9
<1>22. s9 \in Seq(E) /\ Range(s9) = Range(g1) \cup Range(g2) \cup Range(g3) \cup Range(g4)
                                     \cup Range(noExit) \cup Range(noStop)
  BY <1>21 DEF Yields
<1>23. \A e : e \in Range(Errors(ir)) <=>
                \/ \E g \in Group : e \in Range(GroupErrors(ir, g))
                \/ HasNoExit(ir) /\ e = Err("no exit")
                \/ HasNoStop(ir) /\ e = Err("no stop")
  <2> DEFINE found == UNION {Range(GroupErrors(ir, g)) : g \in Group}
  <2>1. \A e : e \in found <=> \E g \in Group : e \in Range(GroupErrors(ir, g))
    OBVIOUS
  <2>2. Range(Errors(ir)) = found \cup Range(noExit) \cup Range(noStop)
    BY <1>3, <1>8, <1>22
  <2>4. \A e : e \in Range(noExit) <=> HasNoExit(ir) /\ e = Err("no exit")
    BY <1>5
  <2>5. \A e : e \in Range(noStop) <=> HasNoStop(ir) /\ e = Err("no stop")
    BY <1>5
  <2> HIDE DEF found
  <2> QED
    BY <2>1, <2>2, <2>4, <2>5
<1>24. \A g \in Group :
         /\ \A c \in Range(ir[g]) :
              Nonsense(ir, c) => ErrIn("nonsense", g, c) \in Range(GroupErrors(ir, g))
         /\ \A e \in Range(GroupErrors(ir, g)) :
              \/ \E c \in Range(ir[g]) : Nonsense(ir, c) /\ e = ErrIn("nonsense", g, c)
              \/ e = ErrIn("contradictory", g, <<>>)
  BY <1>1, Groups, GroupFacts
<1>25. \A g \in Group : \A c \in Range(ir[g]) :
         Nonsense(ir, c) => ErrIn("nonsense", g, c) \in Range(Errors(ir))
  BY <1>23, <1>24
<1>26. ASSUME NEW e \in Range(Errors(ir))
       PROVE  \/ \E g \in Group : \E c \in Range(ir[g]) :
                   Nonsense(ir, c) /\ e = ErrIn("nonsense", g, c)
              \/ \E g \in Group : e = ErrIn("contradictory", g, <<>>)
              \/ HasNoExit(ir) /\ e = Err("no exit")
              \/ HasNoStop(ir) /\ e = Err("no stop")
  BY <1>23, <1>24
<1>27. Errors(ir) \in Seq(E)
  BY <1>3, <1>22
<1> QED
  BY <1>23, <1>25, <1>26, <1>27 DEF E

-----------------------------------------------------------------------------
(* A round of repairs *)

\* What the repairs of the first n errors have done.
After(r, ir, errors, n) ==
  /\ Sound(r) /\ r.inds = ir.inds /\ r.timed = ir.timed
  /\ r.target_kind \in {"rr", ir.target_kind} /\ r.stop_kind \in {"atr", ir.stop_kind}
  /\ \A g \in Group : FromOrRising(r[g], Range(ir[g]))
  /\ \A i \in 1 .. n :
       /\ errors[i].kind = "no exit" => r.target_kind = "rr"
       /\ errors[i].kind = "no stop" => r.stop_kind = "atr"
       /\ errors[i].kind = "nonsense" =>
            FromOrRising(r[errors[i].group], Range(ir[errors[i].group]) \ {errors[i].what})
  /\ (\A i \in 1 .. n : errors[i].kind # "nonsense") =>
       \A g \in Group : r[g] = <<>> => ir[g] = <<>>

LEMMA FromOrRisingTransitive ==
  ASSUME NEW s, NEW t, NEW C, FromOrRising(s, Range(t)), FromOrRising(t, C)
  PROVE  FromOrRising(s, C)
BY DEF FromOrRising

\* One error more.
LEMMA AfterOneMore ==
  ASSUME NEW ir, NEW errors, NEW n \in Nat, NEW r, After(r, ir, errors, n),
         NEW new, \A i \in 1 .. n + 1 : Mendable(errors[i]), Repaired(new, r, errors[n + 1])
  PROVE  After(new, ir, errors, n + 1)
<1> DEFINE e == errors[n + 1]
<1>1. /\ Sound(new) /\ new.inds = ir.inds /\ new.timed = ir.timed
      /\ new.target_kind \in {"rr", ir.target_kind} /\ new.stop_kind \in {"atr", ir.stop_kind}
  BY DEF After, Repaired
<1>2. \A g \in Group : \A C : FromOrRising(r[g], C) => FromOrRising(new[g], C)
  BY FromOrRisingTransitive DEF Repaired
<1>3. \A g \in Group : FromOrRising(new[g], Range(ir[g]))
  BY <1>2 DEF After
<1>4. ASSUME NEW i \in 1 .. n + 1
      PROVE  /\ errors[i].kind = "no exit" => new.target_kind = "rr"
             /\ errors[i].kind = "no stop" => new.stop_kind = "atr"
             /\ errors[i].kind = "nonsense" =>
                  FromOrRising(new[errors[i].group], Range(ir[errors[i].group]) \ {errors[i].what})
  <2>1. CASE i = n + 1
    <3>1. /\ e.kind = "no exit" => new.target_kind = "rr"
          /\ e.kind = "no stop" => new.stop_kind = "atr"
      BY DEF Repaired
    <3>2. ASSUME e.kind = "nonsense"
          PROVE  FromOrRising(new[e.group], Range(ir[e.group]) \ {e.what})
      <4>1. e.group \in Group
        <5>1. Mendable(e)
          OBVIOUS
        <5> QED
          BY <3>2, <5>1 DEF Mendable
      <4>2. FromOrRising(r[e.group], Range(ir[e.group]))
        BY <4>1 DEF After
      <4>3. FromOrRising(new[e.group], Range(r[e.group]) \ {e.what})
        BY <3>2 DEF Repaired
      <4> HIDE DEF e
      <4> QED
        BY <4>2, <4>3 DEF FromOrRising
    <3> QED
      BY <2>1, <3>1, <3>2
  <2>2. CASE i # n + 1
    <3>1. i \in 1 .. n
      BY <2>2
    <3>2. /\ errors[i].kind = "no exit" => r.target_kind = "rr"
          /\ errors[i].kind = "no stop" => r.stop_kind = "atr"
      BY <3>1 DEF After
    <3>3. /\ r.target_kind = "rr" => new.target_kind = "rr"
          /\ r.stop_kind = "atr" => new.stop_kind = "atr"
      BY DEF Repaired
    <3>4. ASSUME errors[i].kind = "nonsense"
          PROVE  FromOrRising(new[errors[i].group], Range(ir[errors[i].group]) \ {errors[i].what})
      <4>1. FromOrRising(r[errors[i].group], Range(ir[errors[i].group]) \ {errors[i].what})
        BY <3>1, <3>4 DEF After
      <4>2. errors[i].group \in Group
        <5>1. Mendable(errors[i])
          OBVIOUS
        <5> QED
          BY <3>4, <5>1 DEF Mendable
      <4> QED
        BY <1>2, <4>1, <4>2
    <3> QED
      BY <3>2, <3>3, <3>4
  <2> QED
    BY <2>1, <2>2
<1>5. ASSUME \A i \in 1 .. n + 1 : errors[i].kind # "nonsense", NEW g \in Group, new[g] = <<>>
      PROVE  ir[g] = <<>>
  <2>1. n + 1 \in 1 .. n + 1 /\ \A i \in 1 .. n : i \in 1 .. n + 1
    OBVIOUS
  <2>2. r[g] = <<>>
    BY <1>5, <2>1 DEF Repaired
  <2> QED
    BY <1>5, <2>1, <2>2 DEF After
<1> QED
  BY <1>1, <1>3, <1>4, <1>5 DEF After

\* What a round of repairs does.
LEMMA RepairFacts ==
  ASSUME NEW ir, Sound(ir), NEW S, NEW errors \in Seq(S),
         \A i \in 1 .. Len(errors) : Mendable(errors[i])
  PROVE  After(Repair(ir, errors), ir, errors, Len(errors))
<1> DEFINE D == DOMAIN ir.inds
           m == Len(errors)
           X == {r \in Over(D) : Sound(r) /\ r.inds = ir.inds}
           step == [p \in (1 .. m) \X X |-> RepairOne(p[2], errors[p[1]])]
           Done(f) == f = [n \in 0 .. m |-> IF n = 0 THEN ir ELSE RepairOne(f[n - 1], errors[n])]
           done == CHOOSE f : Done(f)
<1>1. m \in Nat
  OBVIOUS
<1>2. ir \in X
  BY DEF Sound
<1>3. StaysIn(step, m, X)
  <2>1. ASSUME NEW n \in 1 .. m, NEW r \in X PROVE step[<<n, r>>] = RepairOne(r, errors[n])
    OBVIOUS
  <2>2. ASSUME NEW n \in 1 .. m, NEW r \in X PROVE RepairOne(r, errors[n]) \in X
    <3>1. Repaired(RepairOne(r, errors[n]), r, errors[n])
      BY RepairOneFacts
    <3> QED
      BY <3>1 DEF Repaired, Sound
  <2> HIDE DEF step, X, m
  <2> QED
    BY <2>1, <2>2 DEF StaysIn
<1>4. PICK f : Computes(f, ir, step, m, X)
  <2> HIDE DEF step, X, m
  <2> QED
    BY <1>1, <1>2, <1>3, Recursion
<1>5. \A n \in 0 .. m : f[n] = IF n = 0 THEN ir ELSE RepairOne(f[n - 1], errors[n])
  <2>1. ASSUME NEW n \in 0 .. m, n # 0
        PROVE  step[<<n, f[n - 1]>>] = RepairOne(f[n - 1], errors[n])
    <3>1. n \in 1 .. m /\ n - 1 \in 0 .. m
      BY <1>1, <2>1
    <3>2. f[n - 1] \in X
      BY <1>4, <3>1 DEF Computes
    <3> QED
      BY <3>1, <3>2
  <2>2. \A n \in 0 .. m : n # 0 => n \in 1 .. m
    BY <1>1
  <2> HIDE DEF step, X, m
  <2> QED
    BY <1>4, <2>1, <2>2 DEF Computes
<1> HIDE DEF step, m
<1>6. Done(done)
  <2>1. f = [n \in 0 .. m |-> f[n]]
    BY <1>4 DEF Computes
  <2>2. Done(f)
    BY <1>5, <2>1
  <2> QED
    BY <2>2
<1>7. Repair(ir, errors) = done[m]
  BY DEF Repair, m
<1> HIDE DEF done
<1>8. \A n \in 0 .. m : done[n] = IF n = 0 THEN ir ELSE RepairOne(done[n - 1], errors[n])
  BY <1>6
<1> DEFINE T == {n \in Nat : n <= m => After(done[n], ir, errors, n)}
<1>9. 0 \in T
  <2>1. 0 \in 0 .. m
    BY <1>1
  <2>2. done[0] = ir
    BY <1>8, <2>1
  <2>3. \A g \in Group : FromOrRising(ir[g], Range(ir[g]))
    BY Stays
  <2>4. After(ir, ir, errors, 0)
    BY <2>3 DEF After
  <2> QED
    BY <2>2, <2>4
<1>10. ASSUME NEW n \in Nat, n \in T PROVE n + 1 \in T
  <2> SUFFICES ASSUME n + 1 <= m PROVE After(done[n + 1], ir, errors, n + 1)
    OBVIOUS
  <2>1. n + 1 \in 0 .. m /\ (n + 1) - 1 = n /\ n + 1 \in 1 .. m /\ n + 1 # 0 /\ n <= m
    BY <1>1
  <2>2. done[n + 1] = RepairOne(done[n], errors[n + 1])
    BY <1>8, <2>1
  <2>3. After(done[n], ir, errors, n)
    BY <1>10, <2>1
  <2>4. Mendable(errors[n + 1]) /\ \A i \in 1 .. n + 1 : Mendable(errors[i])
    BY <1>1, <2>1 DEF m
  <2>5. Sound(done[n])
    BY <2>3 DEF After
  <2>6. Repaired(done[n + 1], done[n], errors[n + 1])
    BY <2>2, <2>4, <2>5, RepairOneFacts
  <2> QED
    BY <2>3, <2>4, <2>6, AfterOneMore
<1>11. After(done[m], ir, errors, m)
  <2>1. m \in T
    <3> HIDE DEF T
    <3> QED
      BY <1>1, <1>9, <1>10, Induction
  <2> QED
    BY <1>1, <2>1
<1> QED
  BY <1>7, <1>11 DEF m

LEMMA ErrorFields ==
  ASSUME NEW kind, NEW g, NEW what
  PROVE  /\ Err(kind).kind = kind
         /\ ErrIn(kind, g, what).kind = kind /\ ErrIn(kind, g, what).group = g
         /\ ErrIn(kind, g, what).what = what
BY DEF Err, ErrIn

LEMMA KindsOfError ==
  /\ \A g \in Group : \A c : Mendable(ErrIn("nonsense", g, c))
  /\ \A g \in Group : Mendable(ErrIn("contradictory", g, <<>>))
  /\ \A g \in Group : ErrIn("contradictory", g, <<>>).kind # "nonsense"
  /\ Mendable(Err("no exit")) /\ Err("no exit").kind # "nonsense"
  /\ Mendable(Err("no stop")) /\ Err("no stop").kind # "nonsense"
BY DEF Mendable, Err, ErrIn

HoldsPair(ir) == \E i \in DOMAIN Errors(ir) : Errors(ir)[i].kind = "contradictory"

\* Without nonsense, with a stop and a way out, only a contradiction is left.
LEMMA OnlyPairsLeft ==
  ASSUME NEW ir, Sound(ir), Weeded(ir), ~HasNoExit(ir), Errors(ir) # <<>>
  PROVE  HoldsPair(ir)
<1>1. Errors(ir) \in Seq(Findings(DOMAIN ir.inds))
  BY ErrorFacts
<1>2. 1 \in DOMAIN Errors(ir)
  BY <1>1
<1>3. Errors(ir)[1] \in Range(Errors(ir))
  BY <1>2 DEF Range
<1>4. \E g \in Group : Errors(ir)[1] = ErrIn("contradictory", g, <<>>)
  BY <1>3, ErrorFacts DEF Weeded
<1>5. Errors(ir)[1].kind = "contradictory"
  BY <1>4, ErrorFields
<1> QED
  BY <1>2, <1>5 DEF HoldsPair

\* What one round of repairs makes of a sound strategy: a second round finds
\* neither nonsense nor a missing stop, and a third one no missing exit.
LEMMA RoundFacts ==
  ASSUME NEW ir, Sound(ir), NEW new, new = Repair(ir, Errors(ir))
  PROVE  Sound(new) /\ Weeded(new) /\ (Weeded(ir) => ~HasNoExit(new))
<1> DEFINE errors == Errors(ir)
           m == Len(errors)
<1>1. errors \in Seq(Findings(DOMAIN ir.inds)) /\ DOMAIN errors = 1 .. m
  <2>1. errors \in Seq(Findings(DOMAIN ir.inds))
    BY ErrorFacts
  <2> HIDE DEF errors
  <2> QED
    BY <2>1
<1>2. \A i \in 1 .. m : errors[i] \in Range(errors)
  BY <1>1 DEF Range
<1>3. \A e \in Range(errors) : \E i \in 1 .. m : e = errors[i]
  BY <1>1 DEF Range
<1>4. \A e \in Range(errors) : Mendable(e)
  <2>1. ASSUME NEW e \in Range(errors) PROVE Mendable(e)
    <3>1. CASE \E g \in Group : \E c \in Range(ir[g]) : e = ErrIn("nonsense", g, c)
      BY <3>1, KindsOfError
    <3>2. CASE \E g \in Group : e = ErrIn("contradictory", g, <<>>)
      BY <3>2, KindsOfError
    <3>3. CASE e = Err("no exit") \/ e = Err("no stop")
      BY <3>3, KindsOfError
    <3> HIDE DEF errors
    <3> QED
      BY <3>1, <3>2, <3>3, ErrorFacts DEF errors
  <2> QED
    BY <2>1
<1>5. After(new, ir, errors, m)
  BY <1>1, <1>2, <1>4, RepairFacts
<1> HIDE DEF m
<1>6. ASSUME HasNoStop(new) PROVE FALSE
  <2>1. HasNoStop(ir)
    BY <1>5, <1>6 DEF HasNoStop, After
  <2>2. PICK i \in 1 .. m : Err("no stop") = errors[i]
    BY <1>3, <2>1, ErrorFacts
  <2>3. errors[i].kind = "no stop"
    BY <2>2, ErrorFields
  <2> QED
    BY <1>5, <1>6, <2>3 DEF HasNoStop, After
<1>7. ASSUME NEW g \in Group, NEW c \in Range(new[g]), Nonsense(new, c) PROVE FALSE
  <2>1. c.op # "rising" /\ c.op # "falling"
    BY <1>7 DEF Nonsense
  <2>2. c \in Range(ir[g])
    BY <1>5, <2>1 DEF After, FromOrRising
  <2>3. new.inds = ir.inds
    BY <1>5 DEF After
  <2>4. Nonsense(ir, c)
    <3>1. \A o : OperandScale(ir, o) = OperandScale(new, o)
      BY <2>3 DEF OperandScale
    <3> QED
      BY <1>7, <3>1 DEF Nonsense
  <2>5. PICK i \in 1 .. m : ErrIn("nonsense", g, c) = errors[i]
    BY <1>3, <2>2, <2>4, ErrorFacts
  <2>6. errors[i].kind = "nonsense" /\ errors[i].group = g /\ errors[i].what = c
    BY <2>5, ErrorFields
  <2>7. FromOrRising(new[g], Range(ir[g]) \ {c})
    BY <1>5, <2>6 DEF After
  <2> QED
    BY <1>7, <2>1, <2>7 DEF FromOrRising
<1>8. ASSUME Weeded(ir), HasNoExit(new) PROVE FALSE
  <2>1. \A i \in 1 .. m : errors[i].kind # "nonsense"
    <3>1. ASSUME NEW i \in 1 .. m PROVE errors[i].kind # "nonsense"
      <4>1. \/ \E g \in Group : errors[i] = ErrIn("contradictory", g, <<>>)
            \/ errors[i] = Err("no exit") \/ errors[i] = Err("no stop")
        BY <1>2, <1>8, ErrorFacts DEF Weeded
      <4> QED
        BY <4>1, KindsOfError
    <3> QED
      BY <3>1
  <2>2. \A g \in Group : new[g] = <<>> => ir[g] = <<>>
    BY <1>5, <2>1 DEF After
  <2>3. HasNoExit(ir)
    BY <1>5, <1>8, <2>2 DEF HasNoExit, After, Group
  <2>4. PICK i \in 1 .. m : Err("no exit") = errors[i]
    BY <1>3, <2>3, ErrorFacts
  <2>5. errors[i].kind = "no exit"
    BY <2>4, ErrorFields
  <2> QED
    BY <1>5, <1>8, <2>5 DEF HasNoExit, After
<1>9. Weeded(new)
  BY <1>6, <1>7 DEF Weeded
<1>10. Sound(new)
  BY <1>5 DEF After
<1> QED
  BY <1>8, <1>9, <1>10

\* A round that changes nothing had only contradictions to mend.
LEMMA StuckOnPairs ==
  ASSUME NEW ir, Sound(ir), Errors(ir) # <<>>, Repair(ir, Errors(ir)) = ir
  PROVE  HoldsPair(ir)
<1>1. Weeded(ir)
  BY RoundFacts
<1>2. ~HasNoExit(ir)
  BY <1>1, RoundFacts
<1> QED
  BY <1>1, <1>2, OnlyPairsLeft

-----------------------------------------------------------------------------
(* The recipes *)

LEMMA RuleFacts ==
  ASSUME NEW D, NEW op \in Op, NEW l \in Operand(D), NEW r \in Operand(D),
         l.kind = "indicator" \/ r.kind = "indicator"
  PROVE  Cond(op, l, r) \in Rule(D)
BY DEF Cond, Rule

LEMMA FewFacts ==
  ASSUME NEW S
  PROVE  /\ <<>> \in Seq(S)
         /\ \A a \in S : <<a>> \in Seq(S) /\ <<a>> # <<>>
         /\ \A a \in S, b \in S : <<a, b>> \in Seq(S) /\ <<a, b>> # <<>>
         /\ \A a \in S, t \in Seq(S) : <<a>> \o t \in Seq(S) /\ <<a>> \o t # <<>>
<1>1. ASSUME NEW a \in S, NEW t \in Seq(S) PROVE <<a>> \o t \in Seq(S) /\ <<a>> \o t # <<>>
  <2>1. <<a>> \in Seq(S) /\ Len(<<a>>) = 1
    OBVIOUS
  <2>2. <<a>> \o t \in Seq(S) /\ Len(<<a>> \o t) = 1 + Len(t)
    BY <2>1
  <2> QED
    BY <2>2
<1> QED
  BY <1>1

LEMMA OperandFacts ==
  ASSUME NEW D
  PROVE  /\ \A name \in Part :
              <<name>> \in D => I(name) \in Operand(D) /\ I(name).kind = "indicator"
         /\ \A field \in Part : Price(field) \in Operand(D)
         /\ \A v \in Int : Const(v) \in Operand(D)
         /\ NoOperand \in Operand(D) /\ Close \in Operand(D)
<1>1. ASSUME NEW name \in Part PROVE <<name>> \in Seq(Name)
  <2>1. name \in Name
    BY DEF Name
  <2> QED
    BY <2>1, FewFacts
<1>2. <<>> \in Seq(Name)
  OBVIOUS
<1>3. ASSUME NEW name \in Part, <<name>> \in D
      PROVE  I(name) \in Operand(D) /\ I(name).kind = "indicator"
  BY <1>1, <1>3 DEF Operand, I, Ind
<1>4. ASSUME NEW field \in Part PROVE Price(field) \in Operand(D)
  <2>1. <<field>> \in Seq(Name)
    BY <1>1
  <2> QED
    BY <2>1 DEF Operand, Price
<1>5. ASSUME NEW v \in Int PROVE Const(v) \in Operand(D)
  BY <1>2 DEF Operand, Const
<1>6. NoOperand \in Operand(D)
  BY <1>2 DEF Operand, NoOperand
<1>7. Close \in Operand(D)
  <2>1. "close" \in Part
    BY DEF Part
  <2> QED
    BY <1>4, <2>1 DEF Close
<1> QED
  BY <1>3, <1>4, <1>5, <1>6, <1>7, Zenon

\* A comparison with an indicator is a condition over the indicators.
LEMMA Comparisons ==
  ASSUME NEW D, NEW name \in Part, <<name>> \in D, NEW o \in Operand(D)
  PROVE  /\ Gt(I(name), o) \in Rule(D) /\ Gt(o, I(name)) \in Rule(D)
         /\ Lt(I(name), o) \in Rule(D) /\ Lt(o, I(name)) \in Rule(D)
         /\ Above(I(name), o) \in Rule(D) /\ Above(o, I(name)) \in Rule(D)
         /\ Below(I(name), o) \in Rule(D) /\ Below(o, I(name)) \in Rule(D)
         /\ Cond("rising", I(name), NoOperand) \in Rule(D)
<1>1. I(name) \in Operand(D) /\ I(name).kind = "indicator" /\ NoOperand \in Operand(D)
  BY OperandFacts
<1>2. \A op \in Op : /\ Cond(op, I(name), o) \in Rule(D) /\ Cond(op, o, I(name)) \in Rule(D)
                     /\ Cond(op, I(name), NoOperand) \in Rule(D)
  BY <1>1, RuleFacts
<1>3. {"gt", "lt", "cross_above", "cross_below", "rising"} \subseteq Op
  BY DEF Op
<1> QED
  BY <1>2, <1>3 DEF Gt, Lt, Above, Below

LEMMA MirrorFacts ==
  ASSUME NEW D, NEW group \in Seq(Rule(D)), group # <<>>
  PROVE  Mirror(group) \in Seq(Rule(D)) /\ Mirror(group) # <<>>
<1> DEFINE Turned(c) ==
             Cond(Flip(c.op), c.left,
                  IF /\ c.op \in {"gt", "lt", "gte", "lte"}
                     /\ c.right.kind = "const" /\ c.right.value \in 0 .. 1000
                    THEN Const(1000 - c.right.value) ELSE c.right)
<1>1. DOMAIN group = 1 .. Len(group) /\ Len(group) \in Nat \ {0}
  OBVIOUS
<1>2. Mirror(group) = [i \in 1 .. Len(group) |-> Turned(group[i])]
  BY <1>1 DEF Mirror
<1>3. ASSUME NEW c \in Rule(D) PROVE Turned(c) \in Rule(D)
  <2>1. Flip(c.op) \in Op
    BY DEF Rule, Flip, Op
  <2>2. /\ c.left \in Operand(D) /\ c.right \in Operand(D) /\ c.right.value \in Int
        /\ c.left.kind = "indicator" \/ c.right.kind = "indicator"
    BY DEF Rule, Operand
  <2>3. CASE /\ c.op \in {"gt", "lt", "gte", "lte"}
             /\ c.right.kind = "const" /\ c.right.value \in 0 .. 1000
    <3>1. Const(1000 - c.right.value) \in Operand(D)
      BY <2>2, OperandFacts
    <3>2. c.left.kind = "indicator"
      BY <2>2, <2>3
    <3> QED
      BY <2>1, <2>2, <2>3, <3>1, <3>2, RuleFacts
  <2>4. CASE ~ (/\ c.op \in {"gt", "lt", "gte", "lte"}
                /\ c.right.kind = "const" /\ c.right.value \in 0 .. 1000)
    BY <2>1, <2>2, <2>4, RuleFacts
  <2> QED
    BY <2>3, <2>4
<1>4. \A i \in 1 .. Len(group) : group[i] \in Rule(D)
  OBVIOUS
<1> HIDE DEF Turned
<1>5. Mirror(group) \in Seq(Rule(D)) /\ Len(Mirror(group)) = Len(group)
  BY <1>1, <1>2, <1>3, <1>4
<1> QED
  BY <1>1, <1>5

\* Pairs whose names tell which types can carry a trend.
NamesTell(pairs) ==
  /\ pairs \subseteq Part \X IndType /\ IsFiniteSet(pairs)
  /\ \A p \in pairs : p[2] \in TrendOrLevel <=> p[1] \in TrendNames

Aliases(pairs) == {<<p[1]>> : p \in pairs}

LEMMA IndsFacts ==
  ASSUME NEW pairs, NamesTell(pairs)
  PROVE  Dictionary(Inds(pairs)) /\ DOMAIN Inds(pairs) = Aliases(pairs)
<1> DEFINE inds == Inds(pairs)
           The(a) == CHOOSE p \in pairs : <<p[1]>> = a
<1>1. inds = [a \in Aliases(pairs) |-> The(a)[2]]
  BY DEF Inds, Aliases
<1>2. ASSUME NEW a \in Aliases(pairs) PROVE The(a) \in pairs /\ <<The(a)[1]>> = a
  BY DEF Aliases
<1> HIDE DEF The, inds
<1>3. \A p \in pairs : p[1] \in Part /\ p[2] \in IndType
  BY DEF NamesTell
<1>4. inds \in [Aliases(pairs) -> IndType]
  BY <1>1, <1>2, <1>3
<1>5. ASSUME NEW a \in Aliases(pairs)
      PROVE  a \in Alias /\ (inds[a] \in TrendOrLevel <=> Carries(a))
  <2>1. The(a) \in pairs /\ a = <<The(a)[1]>> /\ inds[a] = The(a)[2]
    BY <1>1, <1>2
  <2>2. a \in Seq(Name) /\ Len(a) = 1 /\ a[1] = The(a)[1]
    BY <1>3, <2>1 DEF Name
  <2>3. Carries(a) <=> The(a)[1] \in TrendNames
    BY <2>2 DEF Carries
  <2>4. a \in Alias
    BY <2>2 DEF Alias
  <2>5. The(a)[2] \in TrendOrLevel <=> The(a)[1] \in TrendNames
    BY <2>1 DEF NamesTell
  <2> QED
    BY <2>1, <2>3, <2>4, <2>5
<1>6. IsFiniteSet(Aliases(pairs))
  <2> DEFINE name == [p \in pairs |-> <<p[1]>>]
  <2>1. name \in Surjection(pairs, Aliases(pairs))
    BY DEF Surjection, Aliases
  <2> QED
    BY <2>1, FS_Surjection DEF NamesTell
<1> QED
  BY <1>4, <1>5, <1>6 DEF Dictionary, inds

-----------------------------------------------------------------------------
\* What every recipe returns: rules over its own indicators for either side.
GoodBlueprint(bp) ==
  /\ Dictionary(bp.inds)
  /\ {bp.entry_long, bp.entry_short, bp.exit_long, bp.exit_short}
       \subseteq Seq(Rule(DOMAIN bp.inds))
  /\ bp.entry_long # <<>> /\ bp.entry_short # <<>>
  /\ bp.hint # <<>> => bp.hint \in DOMAIN bp.inds /\ Carries(bp.hint)

LEMMA BpFacts ==
  ASSUME NEW pairs, NamesTell(pairs), NEW long, NEW short, NEW xlong, NEW xshort, NEW hint,
         {long, short, xlong, xshort} \subseteq Seq(Rule(Aliases(pairs))),
         long # <<>>, short # <<>>,
         hint # <<>> => hint \in Aliases(pairs) /\ Carries(hint)
  PROVE  GoodBlueprint(Bp(pairs, long, short, xlong, xshort, hint))
<1>1. Dictionary(Inds(pairs)) /\ DOMAIN Inds(pairs) = Aliases(pairs)
  BY IndsFacts
<1> DEFINE bp == Bp(pairs, long, short, xlong, xshort, hint)
<1>2. /\ bp.inds = Inds(pairs) /\ bp.entry_long = long /\ bp.entry_short = short
      /\ bp.exit_long = xlong /\ bp.exit_short = xshort /\ bp.hint = hint
  BY DEF Bp
<1> HIDE DEF bp
<1>3. GoodBlueprint(bp)
  BY <1>1, <1>2 DEF GoodBlueprint
<1> QED
  BY <1>3 DEF bp

\* A name and a type that agree on whether the indicator can carry a trend.
Tells(n, t) == n \in Part /\ t \in IndType /\ (t \in TrendOrLevel <=> n \in TrendNames)

\* The dictionaries of no, one, two and three indicators, and of more.
LEMMA NoneTells == NamesTell({}) /\ Aliases({}) = {}
BY FS_EmptySet DEF NamesTell, Aliases

LEMMA OneTells ==
  ASSUME NEW n, NEW t, Tells(n, t)
  PROVE  NamesTell({<<n, t>>}) /\ <<n>> \in Aliases({<<n, t>>})
<1>1. IsFiniteSet({<<n, t>>})
  BY FS_Singleton
<1>2. NamesTell({<<n, t>>})
  BY <1>1 DEF Tells, NamesTell
<1>3. <<n>> \in Aliases({<<n, t>>})
  BY DEF Aliases
<1> QED
  BY <1>2, <1>3

LEMMA MoreTell ==
  ASSUME NEW P, NEW Q, NamesTell(P), NamesTell(Q)
  PROVE  NamesTell(P \cup Q) /\ Aliases(P \cup Q) = Aliases(P) \cup Aliases(Q)
<1>1. IsFiniteSet(P \cup Q)
  BY FS_Union DEF NamesTell
<1> QED
  BY <1>1 DEF NamesTell, Aliases

LEMMA TwoTell ==
  ASSUME NEW n, NEW t, NEW m, NEW u, Tells(n, t), Tells(m, u)
  PROVE  /\ NamesTell({<<n, t>>, <<m, u>>})
         /\ {<<n>>, <<m>>} \subseteq Aliases({<<n, t>>, <<m, u>>})
<1>1. {<<n, t>>, <<m, u>>} = {<<n, t>>} \cup {<<m, u>>}
  OBVIOUS
<1>2. /\ NamesTell({<<n, t>>}) /\ <<n>> \in Aliases({<<n, t>>})
      /\ NamesTell({<<m, u>>}) /\ <<m>> \in Aliases({<<m, u>>})
  BY OneTells
<1>3. /\ NamesTell({<<n, t>>} \cup {<<m, u>>})
      /\ {<<n>>, <<m>>} \subseteq Aliases({<<n, t>>} \cup {<<m, u>>})
  BY <1>2, MoreTell
<1> QED
  BY <1>1, <1>3

LEMMA ThreeTell ==
  ASSUME NEW n, NEW t, NEW m, NEW u, NEW l, NEW v, Tells(n, t), Tells(m, u), Tells(l, v)
  PROVE  /\ NamesTell({<<n, t>>, <<m, u>>, <<l, v>>})
         /\ {<<n>>, <<m>>, <<l>>} \subseteq Aliases({<<n, t>>, <<m, u>>, <<l, v>>})
<1>1. {<<n, t>>, <<m, u>>, <<l, v>>} = {<<n, t>>, <<m, u>>} \cup {<<l, v>>}
  OBVIOUS
<1>2. /\ NamesTell({<<n, t>>, <<m, u>>}) /\ {<<n>>, <<m>>} \subseteq Aliases({<<n, t>>, <<m, u>>})
      /\ NamesTell({<<l, v>>}) /\ <<l>> \in Aliases({<<l, v>>})
  BY OneTells, TwoTell
<1>3. /\ NamesTell({<<n, t>>, <<m, u>>} \cup {<<l, v>>})
      /\ {<<n>>, <<m>>, <<l>>} \subseteq Aliases({<<n, t>>, <<m, u>>} \cup {<<l, v>>})
  BY <1>2, MoreTell
<1> QED
  BY <1>1, <1>3

\* Recipes with a gate that is there or not.
LEMMA GateFacts ==
  ASSUME NEW D, NEW c, NEW gated \in BOOLEAN, gated => c \in Rule(D)
  PROVE  (IF gated THEN <<c>> ELSE <<>>) \in Seq(Rule(D))
<1>1. CASE gated
  BY <1>1, FewFacts
<1>2. CASE ~gated
  BY <1>2, FewFacts
<1> QED
  BY <1>1, <1>2

LEMMA GatedTell ==
  ASSUME NEW P, NEW Q, NamesTell(P), NamesTell(Q), NEW gated \in BOOLEAN,
         NEW pairs, pairs = P \cup (IF gated THEN Q ELSE {})
  PROVE  /\ NamesTell(pairs) /\ Aliases(P) \subseteq Aliases(pairs)
         /\ gated => Aliases(Q) \subseteq Aliases(pairs)
<1>1. CASE gated
  BY <1>1, MoreTell
<1>2. CASE ~gated
  BY <1>2
<1> QED
  BY <1>1, <1>2

LEMMA MaCrossIsGood == \A bp \in MaCross : GoodBlueprint(bp)
<1> SUFFICES ASSUME NEW gated \in BOOLEAN
             PROVE  LET long == <<Above(I("fast"), I("slow"))>>
                                  \o (IF gated THEN <<Gt(I("strength"), Const(150))>> ELSE <<>>)
                        pairs == {<<"fast", "ma">>, <<"slow", "ma">>}
                                   \cup (IF gated THEN {<<"strength", "adx">>} ELSE {})
                    IN  GoodBlueprint(Bp(pairs, long, Mirror(long), <<>>, <<>>, <<>>))
  BY DEF MaCross
<1> DEFINE cond == Gt(I("strength"), Const(150))
           gate == IF gated THEN <<cond>> ELSE <<>>
           long == <<Above(I("fast"), I("slow"))>> \o gate
           P == {<<"fast", "ma">>, <<"slow", "ma">>}
           Q == {<<"strength", "adx">>}
           pairs == P \cup (IF gated THEN Q ELSE {})
           D == Aliases(pairs)
<1>1. Tells("fast", "ma") /\ Tells("slow", "ma") /\ Tells("strength", "adx")
  BY DEF Tells, Part, IndType, TrendOrLevel, TrendNames
<1>2. /\ NamesTell(P) /\ {<<"fast">>, <<"slow">>} \subseteq Aliases(P)
      /\ NamesTell(Q) /\ <<"strength">> \in Aliases(Q)
  BY <1>1, OneTells, TwoTell
<1>3. {"fast", "slow", "strength"} \subseteq Part
  BY DEF Part
<1> HIDE DEF P, Q
<1>4. /\ NamesTell(pairs) /\ {<<"fast">>, <<"slow">>} \subseteq D
      /\ gated => <<"strength">> \in D
  BY <1>2, GatedTell
<1> HIDE DEF pairs, D
<1>5. Above(I("fast"), I("slow")) \in Rule(D) /\ (gated => cond \in Rule(D))
  <2>1. I("slow") \in Operand(D) /\ Const(150) \in Operand(D)
    BY <1>3, <1>4, OperandFacts
  <2> QED
    BY <1>3, <1>4, <2>1, Comparisons
<1> HIDE DEF cond
<1>6. gate \in Seq(Rule(D))
  BY <1>5, GateFacts
<1> HIDE DEF gate
<1>7. long \in Seq(Rule(D)) /\ long # <<>>
  BY <1>5, <1>6, FewFacts
<1> HIDE DEF long
<1>8. Mirror(long) \in Seq(Rule(D)) /\ Mirror(long) # <<>> /\ <<>> \in Seq(Rule(D))
  BY <1>7, MirrorFacts, FewFacts
<1>9. GoodBlueprint(Bp(pairs, long, Mirror(long), <<>>, <<>>, <<>>))
  BY <1>4, <1>7, <1>8, BpFacts DEF D
<1> QED
  BY <1>9 DEF pairs, long, gate, cond, P, Q

LEMMA BbReversionIsGood == \A bp \in BbReversion : GoodBlueprint(bp)
<1> DEFINE pairs == {<<"lower", "bb_lower">>, <<"upper", "bb_upper">>, <<"mid", "ma">>}
           D == Aliases(pairs)
           long == <<Lt(Close, I("lower"))>>
           short == <<Gt(Close, I("upper"))>>
           xlong == <<Above(Close, I("mid"))>>
           xshort == <<Below(Close, I("mid"))>>
<1>1. Tells("lower", "bb_lower") /\ Tells("upper", "bb_upper") /\ Tells("mid", "ma")
  BY DEF Tells, Part, IndType, TrendOrLevel, TrendNames
<1>2. NamesTell(pairs) /\ {<<"lower">>, <<"upper">>, <<"mid">>} \subseteq D
  BY <1>1, ThreeTell
<1> HIDE DEF pairs, D
<1>3. {"lower", "upper", "mid"} \subseteq Part
  BY DEF Part
<1>4. {Close, I("lower"), I("upper"), I("mid")} \subseteq Operand(D)
  BY <1>2, <1>3, OperandFacts
<1>5. {Lt(Close, I("lower")), Gt(Close, I("upper")), Above(Close, I("mid")),
       Below(Close, I("mid"))} \subseteq Rule(D)
  BY <1>2, <1>3, <1>4, Comparisons
<1>6. /\ {long, short, xlong, xshort} \subseteq Seq(Rule(D))
      /\ long # <<>> /\ short # <<>>
  BY <1>5, FewFacts
<1> HIDE DEF long, short, xlong, xshort
<1>7. GoodBlueprint(Bp(pairs, long, short, xlong, xshort, <<>>))
  BY <1>2, <1>6, BpFacts DEF D
<1> QED
  BY <1>7 DEF BbReversion, pairs, long, short, xlong, xshort

LEMMA RsiPullbackIsGood == \A bp \in RsiPullback : GoodBlueprint(bp)
<1> DEFINE pairs == {<<"osc", "rsi">>, <<"trend", "ma">>}
           D == Aliases(pairs)
           long == <<Above(I("osc"), Const(300))>>
<1>1. Tells("osc", "rsi") /\ Tells("trend", "ma")
  BY DEF Tells, Part, IndType, TrendOrLevel, TrendNames
<1>2. NamesTell(pairs) /\ {<<"osc">>, <<"trend">>} \subseteq D
  BY <1>1, TwoTell
<1> HIDE DEF pairs, D
<1>3. {"osc", "trend"} \subseteq Part
  BY DEF Part
<1>4. {I("osc"), Const(300)} \subseteq Operand(D)
  BY <1>2, <1>3, OperandFacts
<1>5. {Above(I("osc"), Const(300))} \subseteq Rule(D)
  BY <1>2, <1>3, <1>4, Comparisons
<1>6. /\ {long, <<>>} \subseteq Seq(Rule(D))
      /\ long # <<>>
  BY <1>5, FewFacts
<1> HIDE DEF long
<1>7. Mirror(long) \in Seq(Rule(D)) /\ Mirror(long) # <<>>
  BY <1>6, MirrorFacts
<1>8. <<"trend">> \in D /\ Carries(<<"trend">>)
  BY <1>2 DEF Carries, TrendNames
<1>9. GoodBlueprint(Bp(pairs, long, Mirror(long), <<>>, <<>>, <<"trend">>))
  BY <1>2, <1>6, <1>7, <1>8, BpFacts DEF D
<1> QED
  BY <1>9 DEF RsiPullback, pairs, long

LEMMA MacdMomentumIsGood == \A bp \in MacdMomentum : GoodBlueprint(bp)
<1> DEFINE pairs == {<<"line", "macd">>, <<"sig", "macd_signal">>}
           D == Aliases(pairs)
           long == <<Above(I("line"), I("sig")), Gt(I("line"), Const(0))>>
<1>1. Tells("line", "macd") /\ Tells("sig", "macd_signal")
  BY DEF Tells, Part, IndType, TrendOrLevel, TrendNames
<1>2. NamesTell(pairs) /\ {<<"line">>, <<"sig">>} \subseteq D
  BY <1>1, TwoTell
<1> HIDE DEF pairs, D
<1>3. {"line", "sig"} \subseteq Part
  BY DEF Part
<1>4. {I("line"), I("sig"), Const(0)} \subseteq Operand(D)
  BY <1>2, <1>3, OperandFacts
<1>5. {Above(I("line"), I("sig")), Gt(I("line"), Const(0))} \subseteq Rule(D)
  BY <1>2, <1>3, <1>4, Comparisons
<1>6. /\ {long, <<>>} \subseteq Seq(Rule(D))
      /\ long # <<>>
  BY <1>5, FewFacts
<1> HIDE DEF long
<1>7. Mirror(long) \in Seq(Rule(D)) /\ Mirror(long) # <<>>
  BY <1>6, MirrorFacts
<1>8. GoodBlueprint(Bp(pairs, long, Mirror(long), <<>>, <<>>, <<>>))
  BY <1>2, <1>6, <1>7, BpFacts DEF D
<1> QED
  BY <1>8 DEF MacdMomentum, pairs, long

LEMMA ZscoreReversionIsGood == \A bp \in ZscoreReversion : GoodBlueprint(bp)
<1> DEFINE pairs == {<<"z", "zscore">>}
           D == Aliases(pairs)
           long == <<Lt(I("z"), Const(-20))>>
           short == <<Gt(I("z"), Const(20))>>
           xlong == <<Above(I("z"), Const(0))>>
           xshort == <<Below(I("z"), Const(0))>>
<1>1. Tells("z", "zscore")
  BY DEF Tells, Part, IndType, TrendOrLevel, TrendNames
<1>2. NamesTell(pairs) /\ {<<"z">>} \subseteq D
  BY <1>1, OneTells
<1> HIDE DEF pairs, D
<1>3. {"z"} \subseteq Part
  BY DEF Part
<1>4. {I("z"), Const(-20), Const(20), Const(0)} \subseteq Operand(D)
  BY <1>2, <1>3, OperandFacts
<1>5. {Lt(I("z"), Const(-20)), Gt(I("z"), Const(20)), Above(I("z"), Const(0)),
       Below(I("z"), Const(0))} \subseteq Rule(D)
  BY <1>2, <1>3, <1>4, Comparisons
<1>6. /\ {long, short, xlong, xshort} \subseteq Seq(Rule(D))
      /\ long # <<>> /\ short # <<>>
  BY <1>5, FewFacts
<1> HIDE DEF long, short, xlong, xshort
<1>7. GoodBlueprint(Bp(pairs, long, short, xlong, xshort, <<>>))
  BY <1>2, <1>6, BpFacts DEF D
<1> QED
  BY <1>7 DEF ZscoreReversion, pairs, long, short, xlong, xshort

LEMMA KeltnerTrendIsGood == \A bp \in KeltnerTrend : GoodBlueprint(bp)
<1> DEFINE pairs == {<<"kc_up", "keltner_upper">>, <<"kc_dn", "keltner_lower">>, <<"basis", "ma">>}
           D == Aliases(pairs)
           long == <<Above(Close, I("kc_up"))>>
           short == <<Below(Close, I("kc_dn"))>>
           xlong == <<Below(Close, I("basis"))>>
           xshort == <<Above(Close, I("basis"))>>
<1>1. Tells("kc_up", "keltner_upper") /\ Tells("kc_dn", "keltner_lower") /\ Tells("basis", "ma")
  BY DEF Tells, Part, IndType, TrendOrLevel, TrendNames
<1>2. NamesTell(pairs) /\ {<<"kc_up">>, <<"kc_dn">>, <<"basis">>} \subseteq D
  BY <1>1, ThreeTell
<1> HIDE DEF pairs, D
<1>3. {"kc_up", "kc_dn", "basis"} \subseteq Part
  BY DEF Part
<1>4. {Close, I("kc_up"), I("kc_dn"), I("basis")} \subseteq Operand(D)
  BY <1>2, <1>3, OperandFacts
<1>5. {Above(Close, I("kc_up")), Below(Close, I("kc_dn")), Below(Close, I("basis")),
       Above(Close, I("basis"))} \subseteq Rule(D)
  BY <1>2, <1>3, <1>4, Comparisons
<1>6. /\ {long, short, xlong, xshort} \subseteq Seq(Rule(D))
      /\ long # <<>> /\ short # <<>>
  BY <1>5, FewFacts
<1> HIDE DEF long, short, xlong, xshort
<1>7. GoodBlueprint(Bp(pairs, long, short, xlong, xshort, <<>>))
  BY <1>2, <1>6, BpFacts DEF D
<1> QED
  BY <1>7 DEF KeltnerTrend, pairs, long, short, xlong, xshort

LEMMA StochReversalIsGood == \A bp \in StochReversal : GoodBlueprint(bp)
<1> DEFINE pairs == {<<"k", "stoch_k">>}
           D == Aliases(pairs)
           long == <<Above(I("k"), Const(200))>>
<1>1. Tells("k", "stoch_k")
  BY DEF Tells, Part, IndType, TrendOrLevel, TrendNames
<1>2. NamesTell(pairs) /\ {<<"k">>} \subseteq D
  BY <1>1, OneTells
<1> HIDE DEF pairs, D
<1>3. {"k"} \subseteq Part
  BY DEF Part
<1>4. {I("k"), Const(200)} \subseteq Operand(D)
  BY <1>2, <1>3, OperandFacts
<1>5. {Above(I("k"), Const(200))} \subseteq Rule(D)
  BY <1>2, <1>3, <1>4, Comparisons
<1>6. /\ {long, <<>>} \subseteq Seq(Rule(D))
      /\ long # <<>>
  BY <1>5, FewFacts
<1> HIDE DEF long
<1>7. Mirror(long) \in Seq(Rule(D)) /\ Mirror(long) # <<>>
  BY <1>6, MirrorFacts
<1>8. GoodBlueprint(Bp(pairs, long, Mirror(long), <<>>, <<>>, <<>>))
  BY <1>2, <1>6, <1>7, BpFacts DEF D
<1> QED
  BY <1>8 DEF StochReversal, pairs, long

LEMMA SqueezeExpansionIsGood == \A bp \in SqueezeExpansion : GoodBlueprint(bp)
<1> DEFINE pairs == {<<"hh", "highest">>, <<"ll", "lowest">>, <<"vol", "atr_pct">>}
           D == Aliases(pairs)
           long == <<Gt(Close, I("hh")), Lt(I("vol"), Const(4))>>
           short == <<Lt(Close, I("ll")), Lt(I("vol"), Const(4))>>
<1>1. Tells("hh", "highest") /\ Tells("ll", "lowest") /\ Tells("vol", "atr_pct")
  BY DEF Tells, Part, IndType, TrendOrLevel, TrendNames
<1>2. NamesTell(pairs) /\ {<<"hh">>, <<"ll">>, <<"vol">>} \subseteq D
  BY <1>1, ThreeTell
<1> HIDE DEF pairs, D
<1>3. {"hh", "ll", "vol"} \subseteq Part
  BY DEF Part
<1>4. {Close, I("hh"), I("vol"), Const(4), I("ll")} \subseteq Operand(D)
  BY <1>2, <1>3, OperandFacts
<1>5. {Gt(Close, I("hh")), Lt(I("vol"), Const(4)), Lt(Close, I("ll"))} \subseteq Rule(D)
  BY <1>2, <1>3, <1>4, Comparisons
<1>6. /\ {long, short, <<>>} \subseteq Seq(Rule(D))
      /\ long # <<>> /\ short # <<>>
  BY <1>5, FewFacts
<1> HIDE DEF long, short
<1>7. GoodBlueprint(Bp(pairs, long, short, <<>>, <<>>, <<>>))
  BY <1>2, <1>6, BpFacts DEF D
<1> QED
  BY <1>7 DEF SqueezeExpansion, pairs, long, short

LEMMA RocTrendIsGood == \A bp \in RocTrend : GoodBlueprint(bp)
<1> DEFINE pairs == {<<"mom", "roc">>, <<"trend", "ma">>}
           D == Aliases(pairs)
           long == <<Gt(I("mom"), Const(10)), Cond("rising", I("mom"), NoOperand)>>
<1>1. Tells("mom", "roc") /\ Tells("trend", "ma")
  BY DEF Tells, Part, IndType, TrendOrLevel, TrendNames
<1>2. NamesTell(pairs) /\ {<<"mom">>, <<"trend">>} \subseteq D
  BY <1>1, TwoTell
<1> HIDE DEF pairs, D
<1>3. {"mom", "trend"} \subseteq Part
  BY DEF Part
<1>4. {I("mom"), Const(10), NoOperand} \subseteq Operand(D)
  BY <1>2, <1>3, OperandFacts
<1>5. {Gt(I("mom"), Const(10)), Cond("rising", I("mom"), NoOperand)} \subseteq Rule(D)
  BY <1>2, <1>3, <1>4, Comparisons
<1>6. /\ {long, <<>>} \subseteq Seq(Rule(D))
      /\ long # <<>>
  BY <1>5, FewFacts
<1> HIDE DEF long
<1>7. Mirror(long) \in Seq(Rule(D)) /\ Mirror(long) # <<>>
  BY <1>6, MirrorFacts
<1>8. <<"trend">> \in D /\ Carries(<<"trend">>)
  BY <1>2 DEF Carries, TrendNames
<1>9. GoodBlueprint(Bp(pairs, long, Mirror(long), <<>>, <<>>, <<"trend">>))
  BY <1>2, <1>6, <1>7, <1>8, BpFacts DEF D
<1> QED
  BY <1>9 DEF RocTrend, pairs, long

LEMMA BosContinuationIsGood == \A bp \in BosContinuation : GoodBlueprint(bp)
<1> DEFINE pairs == {<<"sw_hi", "swing_high_level">>, <<"sw_lo", "swing_low_level">>,
                      <<"disp", "displacement">>}
           D == Aliases(pairs)
           long == <<Above(Close, I("sw_hi")), Gt(I("disp"), Const(10))>>
           short == <<Below(Close, I("sw_lo")), Gt(I("disp"), Const(10))>>
<1>1. /\ Tells("sw_hi", "swing_high_level") /\ Tells("sw_lo", "swing_low_level")
      /\ Tells("disp", "displacement")
  BY DEF Tells, Part, IndType, TrendOrLevel, TrendNames
<1>2. NamesTell(pairs) /\ {<<"sw_hi">>, <<"sw_lo">>, <<"disp">>} \subseteq D
  BY <1>1, ThreeTell
<1> HIDE DEF pairs, D
<1>3. {"sw_hi", "sw_lo", "disp"} \subseteq Part
  BY DEF Part
<1>4. {Close, I("sw_hi"), I("disp"), Const(10), I("sw_lo")} \subseteq Operand(D)
  BY <1>2, <1>3, OperandFacts
<1>5. {Above(Close, I("sw_hi")), Gt(I("disp"), Const(10)),
       Below(Close, I("sw_lo"))} \subseteq Rule(D)
  BY <1>2, <1>3, <1>4, Comparisons
<1>6. /\ {long, short, <<>>} \subseteq Seq(Rule(D))
      /\ long # <<>> /\ short # <<>>
  BY <1>5, FewFacts
<1> HIDE DEF long, short
<1>7. GoodBlueprint(Bp(pairs, long, short, <<>>, <<>>, <<>>))
  BY <1>2, <1>6, BpFacts DEF D
<1> QED
  BY <1>7 DEF BosContinuation, pairs, long, short

LEMMA FvgRetraceIsGood == \A bp \in FvgRetrace : GoodBlueprint(bp)
<1> DEFINE pairs == {<<"fvg_up", "fvg_bull_level">>, <<"fvg_dn", "fvg_bear_level">>}
           D == Aliases(pairs)
           long == <<Lt(Price("low"), I("fvg_up")), Gt(Close, I("fvg_up"))>>
           short == <<Gt(Price("high"), I("fvg_dn")), Lt(Close, I("fvg_dn"))>>
<1>1. Tells("fvg_up", "fvg_bull_level") /\ Tells("fvg_dn", "fvg_bear_level")
  BY DEF Tells, Part, IndType, TrendOrLevel, TrendNames
<1>2. NamesTell(pairs) /\ {<<"fvg_up">>, <<"fvg_dn">>} \subseteq D
  BY <1>1, TwoTell
<1> HIDE DEF pairs, D
<1>3. {"fvg_up", "fvg_dn", "low", "high"} \subseteq Part
  BY DEF Part
<1>4. {Price("low"), I("fvg_up"), Close, Price("high"), I("fvg_dn")} \subseteq Operand(D)
  BY <1>2, <1>3, OperandFacts
<1>5. {Lt(Price("low"), I("fvg_up")), Gt(Close, I("fvg_up")), Gt(Price("high"), I("fvg_dn")),
       Lt(Close, I("fvg_dn"))} \subseteq Rule(D)
  BY <1>2, <1>3, <1>4, Comparisons
<1>6. /\ {long, short, <<>>} \subseteq Seq(Rule(D))
      /\ long # <<>> /\ short # <<>>
  BY <1>5, FewFacts
<1> HIDE DEF long, short
<1>7. GoodBlueprint(Bp(pairs, long, short, <<>>, <<>>, <<>>))
  BY <1>2, <1>6, BpFacts DEF D
<1> QED
  BY <1>7 DEF FvgRetrace, pairs, long, short

LEMMA PremiumDiscountIsGood == \A bp \in PremiumDiscount : GoodBlueprint(bp)
<1> DEFINE pairs == {<<"eq", "equilibrium">>, <<"wick_dn", "wick_down_pct">>,
                      <<"wick_up", "wick_up_pct">>}
           D == Aliases(pairs)
           long == <<Lt(Close, I("eq")), Gt(I("wick_dn"), Const(400))>>
           short == <<Gt(Close, I("eq")), Gt(I("wick_up"), Const(400))>>
<1>1. /\ Tells("eq", "equilibrium") /\ Tells("wick_dn", "wick_down_pct")
      /\ Tells("wick_up", "wick_up_pct")
  BY DEF Tells, Part, IndType, TrendOrLevel, TrendNames
<1>2. NamesTell(pairs) /\ {<<"eq">>, <<"wick_dn">>, <<"wick_up">>} \subseteq D
  BY <1>1, ThreeTell
<1> HIDE DEF pairs, D
<1>3. {"eq", "wick_dn", "wick_up"} \subseteq Part
  BY DEF Part
<1>4. {Close, I("eq"), I("wick_dn"), Const(400), I("wick_up")} \subseteq Operand(D)
  BY <1>2, <1>3, OperandFacts
<1>5. {Lt(Close, I("eq")), Gt(I("wick_dn"), Const(400)), Gt(Close, I("eq")),
       Gt(I("wick_up"), Const(400))} \subseteq Rule(D)
  BY <1>2, <1>3, <1>4, Comparisons
<1>6. /\ {long, short, <<>>} \subseteq Seq(Rule(D))
      /\ long # <<>> /\ short # <<>>
  BY <1>5, FewFacts
<1> HIDE DEF long, short
<1>7. GoodBlueprint(Bp(pairs, long, short, <<>>, <<>>, <<>>))
  BY <1>2, <1>6, BpFacts DEF D
<1> QED
  BY <1>7 DEF PremiumDiscount, pairs, long, short

LEMMA DonchianBreakoutIsGood == \A bp \in DonchianBreakout : GoodBlueprint(bp)
<1> SUFFICES ASSUME NEW gated \in BOOLEAN
             PROVE  LET gate == IF gated THEN <<Gt(I("vol"), Const(5))>> ELSE <<>>
                        inds == {<<"hi", "donchian_high">>, <<"lo", "donchian_low">>}
                                  \cup (IF gated THEN {<<"vol", "atr_pct">>} ELSE {})
                    IN  GoodBlueprint(Bp(inds, <<Gt(Close, I("hi"))>> \o gate,
                                         <<Lt(Close, I("lo"))>> \o gate, <<>>, <<>>, <<>>))
  BY DEF DonchianBreakout
<1> DEFINE cond == Gt(I("vol"), Const(5))
           gate == IF gated THEN <<cond>> ELSE <<>>
           long == <<Gt(Close, I("hi"))>> \o gate
           short == <<Lt(Close, I("lo"))>> \o gate
           P == {<<"hi", "donchian_high">>, <<"lo", "donchian_low">>}
           Q == {<<"vol", "atr_pct">>}
           inds == P \cup (IF gated THEN Q ELSE {})
           D == Aliases(inds)
<1>1. /\ Tells("hi", "donchian_high") /\ Tells("lo", "donchian_low")
      /\ Tells("vol", "atr_pct")
  BY DEF Tells, Part, IndType, TrendOrLevel, TrendNames
<1>2. /\ NamesTell(P) /\ {<<"hi">>, <<"lo">>} \subseteq Aliases(P)
      /\ NamesTell(Q) /\ {<<"vol">>} \subseteq Aliases(Q)
  BY <1>1, OneTells, TwoTell
<1>3. {"hi", "lo", "vol"} \subseteq Part
  BY DEF Part
<1> HIDE DEF P, Q
<1>4. /\ NamesTell(inds) /\ {<<"hi">>, <<"lo">>} \subseteq D
      /\ gated => {<<"vol">>} \subseteq D
  BY <1>2, GatedTell
<1> HIDE DEF inds, D
<1>5. /\ Gt(Close, I("hi")) \in Rule(D) /\ Lt(Close, I("lo")) \in Rule(D)
      /\ gated => cond \in Rule(D)
  <2>1. {Close, Const(5), I("hi"), I("lo")} \subseteq Operand(D)
    BY <1>3, <1>4, OperandFacts
  <2> QED
    BY <1>3, <1>4, <2>1, Comparisons
<1> HIDE DEF cond
<1>6. gate \in Seq(Rule(D))
  BY <1>5, GateFacts
<1> HIDE DEF gate
<1>7. /\ {long, short, <<>>} \subseteq Seq(Rule(D))
      /\ long # <<>> /\ short # <<>>
  BY <1>5, <1>6, FewFacts
<1> HIDE DEF long, short
<1>8. GoodBlueprint(Bp(inds, long, short, <<>>, <<>>, <<>>))
  BY <1>4, <1>7, BpFacts DEF D
<1> QED
  BY <1>8 DEF inds, long, short, gate, cond, P, Q

LEMMA OrderBlockReclaimIsGood == \A bp \in OrderBlockReclaim : GoodBlueprint(bp)
<1> SUFFICES ASSUME NEW gated \in BOOLEAN
             PROVE  LET gate == IF gated THEN <<Gt(I("disp"), Const(9))>> ELSE <<>>
                        inds == {<<"ob_up", "ob_bull_level">>, <<"ob_dn", "ob_bear_level">>}
                                  \cup (IF gated THEN {<<"disp", "displacement">>} ELSE {})
                    IN  GoodBlueprint(Bp(inds, <<Above(Close, I("ob_up"))>> \o gate,
                                         <<Below(Close, I("ob_dn"))>> \o gate, <<>>, <<>>, <<>>))
  BY DEF OrderBlockReclaim
<1> DEFINE cond == Gt(I("disp"), Const(9))
           gate == IF gated THEN <<cond>> ELSE <<>>
           long == <<Above(Close, I("ob_up"))>> \o gate
           short == <<Below(Close, I("ob_dn"))>> \o gate
           P == {<<"ob_up", "ob_bull_level">>, <<"ob_dn", "ob_bear_level">>}
           Q == {<<"disp", "displacement">>}
           inds == P \cup (IF gated THEN Q ELSE {})
           D == Aliases(inds)
<1>1. /\ Tells("ob_up", "ob_bull_level") /\ Tells("ob_dn", "ob_bear_level")
      /\ Tells("disp", "displacement")
  BY DEF Tells, Part, IndType, TrendOrLevel, TrendNames
<1>2. /\ NamesTell(P) /\ {<<"ob_up">>, <<"ob_dn">>} \subseteq Aliases(P)
      /\ NamesTell(Q) /\ {<<"disp">>} \subseteq Aliases(Q)
  BY <1>1, OneTells, TwoTell
<1>3. {"ob_up", "ob_dn", "disp"} \subseteq Part
  BY DEF Part
<1> HIDE DEF P, Q
<1>4. /\ NamesTell(inds) /\ {<<"ob_up">>, <<"ob_dn">>} \subseteq D
      /\ gated => {<<"disp">>} \subseteq D
  BY <1>2, GatedTell
<1> HIDE DEF inds, D
<1>5. /\ Above(Close, I("ob_up")) \in Rule(D) /\ Below(Close, I("ob_dn")) \in Rule(D)
      /\ gated => cond \in Rule(D)
  <2>1. {Close, Const(9)} \subseteq Operand(D)
    BY <1>3, <1>4, OperandFacts
  <2> QED
    BY <1>3, <1>4, <2>1, Comparisons
<1> HIDE DEF cond
<1>6. gate \in Seq(Rule(D))
  BY <1>5, GateFacts
<1> HIDE DEF gate
<1>7. /\ {long, short, <<>>} \subseteq Seq(Rule(D))
      /\ long # <<>> /\ short # <<>>
  BY <1>5, <1>6, FewFacts
<1> HIDE DEF long, short
<1>8. GoodBlueprint(Bp(inds, long, short, <<>>, <<>>, <<>>))
  BY <1>4, <1>7, BpFacts DEF D
<1> QED
  BY <1>8 DEF inds, long, short, gate, cond, P, Q

LEMMA LiquiditySweepIsGood == \A bp \in LiquiditySweep : GoodBlueprint(bp)
<1> DEFINE made(gated) ==
             LET down == IF gated THEN <<Gt(I("wick_dn"), Const(450))>> ELSE <<>>
                 up == IF gated THEN <<Gt(I("wick_up"), Const(450))>> ELSE <<>>
                 inds == {<<"sweep_lo", "liquidity_sweep_low">>,
                          <<"sweep_hi", "liquidity_sweep_high">>}
                           \cup (IF gated THEN {<<"wick_dn", "wick_down_pct">>,
                                                <<"wick_up", "wick_up_pct">>} ELSE {})
             IN  Bp(inds, <<Gt(I("sweep_lo"), Const(500))>> \o down,
                    <<Gt(I("sweep_hi"), Const(500))>> \o up, <<>>, <<>>, <<>>)
<1>0. LiquiditySweep = {made(gated) : gated \in BOOLEAN}
  BY DEF LiquiditySweep
<1> SUFFICES ASSUME NEW gated \in BOOLEAN PROVE GoodBlueprint(made(gated))
  <2> HIDE DEF made
  <2> QED
    BY <1>0
<1> DEFINE fall == Gt(I("wick_dn"), Const(450))
           rise == Gt(I("wick_up"), Const(450))
           down == IF gated THEN <<fall>> ELSE <<>>
           up == IF gated THEN <<rise>> ELSE <<>>
           long == <<Gt(I("sweep_lo"), Const(500))>> \o down
           short == <<Gt(I("sweep_hi"), Const(500))>> \o up
           P == {<<"sweep_lo", "liquidity_sweep_low">>, <<"sweep_hi", "liquidity_sweep_high">>}
           Q == {<<"wick_dn", "wick_down_pct">>, <<"wick_up", "wick_up_pct">>}
           inds == P \cup (IF gated THEN Q ELSE {})
           D == Aliases(inds)
<1>1. /\ Tells("sweep_lo", "liquidity_sweep_low") /\ Tells("sweep_hi", "liquidity_sweep_high")
      /\ Tells("wick_dn", "wick_down_pct") /\ Tells("wick_up", "wick_up_pct")
  BY DEF Tells, Part, IndType, TrendOrLevel, TrendNames
<1>2. /\ NamesTell(P) /\ {<<"sweep_lo">>, <<"sweep_hi">>} \subseteq Aliases(P)
      /\ NamesTell(Q) /\ {<<"wick_dn">>, <<"wick_up">>} \subseteq Aliases(Q)
  BY <1>1, OneTells, TwoTell
<1>3. {"sweep_lo", "sweep_hi", "wick_dn", "wick_up"} \subseteq Part
  BY DEF Part
<1> HIDE DEF P, Q
<1>4. /\ NamesTell(inds) /\ {<<"sweep_lo">>, <<"sweep_hi">>} \subseteq D
      /\ gated => {<<"wick_dn">>, <<"wick_up">>} \subseteq D
  BY <1>2, GatedTell
<1> HIDE DEF inds, D
<1>5. /\ Gt(I("sweep_lo"), Const(500)) \in Rule(D) /\ Gt(I("sweep_hi"), Const(500)) \in Rule(D)
      /\ gated => fall \in Rule(D) /\ rise \in Rule(D)
  <2>1. {Const(500), Const(450)} \subseteq Operand(D)
    BY <1>3, <1>4, OperandFacts
  <2> QED
    BY <1>3, <1>4, <2>1, Comparisons
<1> HIDE DEF fall, rise
<1>6. down \in Seq(Rule(D)) /\ up \in Seq(Rule(D))
  BY <1>5, GateFacts
<1> HIDE DEF down, up
<1>7. /\ {long, short, <<>>} \subseteq Seq(Rule(D))
      /\ long # <<>> /\ short # <<>>
  BY <1>5, <1>6, FewFacts
<1> HIDE DEF long, short
<1>8. GoodBlueprint(Bp(inds, long, short, <<>>, <<>>, <<>>))
  BY <1>4, <1>7, BpFacts DEF D
<1> QED
  BY <1>8 DEF inds, long, short, down, up, fall, rise, P, Q

LEMMA RecipesAreGood ==
  ASSUME NEW r \in DOMAIN Blueprints, NEW bp \in Blueprints[r]
  PROVE  GoodBlueprint(bp)
<1>1. Blueprints[r] \in {MaCross, DonchianBreakout, BbReversion, RsiPullback,
                          MacdMomentum, ZscoreReversion, KeltnerTrend, StochReversal,
                          SqueezeExpansion, RocTrend, BosContinuation, FvgRetrace,
                          OrderBlockReclaim, LiquiditySweep, PremiumDiscount}
  BY DEF Blueprints
<1> QED
  BY <1>1, MaCrossIsGood, DonchianBreakoutIsGood, BbReversionIsGood, RsiPullbackIsGood,
     MacdMomentumIsGood, ZscoreReversionIsGood, KeltnerTrendIsGood, StochReversalIsGood,
     SqueezeExpansionIsGood, RocTrendIsGood, BosContinuationIsGood, FvgRetraceIsGood,
     OrderBlockReclaimIsGood, LiquiditySweepIsGood, PremiumDiscountIsGood

-----------------------------------------------------------------------------
(* Fresh strategies *)

LEMMA FreshIsSound ==
  ASSUME NEW recipe \in Bred, NEW child \in FreshFrom(recipe)
  PROVE  Sound(child)
<1> DEFINE Drawn(bp, d, r, t) ==
             [entry_long |-> bp.entry_long, entry_short |-> bp.entry_short,
              exit_long |-> bp.exit_long, exit_short |-> bp.exit_short,
              recipe |-> recipe, origin |-> "fresh", effort |-> 0, direction |-> d,
              inds |-> bp.inds, stop_kind |-> r.stop_kind, stop |-> r.stop,
              target_kind |-> r.target_kind, target |-> r.target, timed |-> r.timed,
              trend |-> t]
           Trends(bp) == IF bp.hint # <<>> THEN {bp.hint} ELSE {<<>>} \cup TrendCandidates(bp.inds)
           From(bp) == {OneSided(Drawn(bp, d, r, t)) :
                          d \in {"long", "short", "both"}, r \in Risks, t \in Trends(bp)}
<1>0. FreshFrom(recipe) = UNION {From(bp) : bp \in Blueprints[recipe]}
  BY DEF FreshFrom
<1>1. PICK bp \in Blueprints[recipe] : child \in From(bp)
  <2> HIDE DEF From
  <2> QED
    BY <1>0
<1>2. PICK d \in {"long", "short", "both"}, r \in Risks, t \in Trends(bp) :
        child = OneSided(Drawn(bp, d, r, t))
  BY <1>1
<1> DEFINE D == DOMAIN bp.inds
           ir == Drawn(bp, d, r, t)
<1>3. recipe \in DOMAIN Blueprints
  BY GenomeAssumption
<1>4. GoodBlueprint(bp)
  BY <1>1, <1>3, RecipesAreGood
<1>5. t \in D \cup {<<>>} /\ (t # <<>> => Carries(t))
  BY <1>4 DEF GoodBlueprint, TrendCandidates, Dictionary
<1>6. r \in [stop_kind : {"atr", "percent", "none"}, stop : Nat,
             target_kind : {"rr", "atr", "none"}, target : Nat, timed : BOOLEAN]
  BY GenomeAssumption
<1>7. /\ ir.inds = bp.inds /\ ir.trend = t /\ ir.direction = d
      /\ ir.entry_long = bp.entry_long /\ ir.entry_short = bp.entry_short
  OBVIOUS
<1>8. ir \in Over(D)
  <2>1. bp.inds \in [D -> IndType]
    BY <1>4 DEF GoodBlueprint, Dictionary
  <2> HIDE DEF D, Trends
  <2> QED
    BY <1>3, <1>4, <1>5, <1>6, <2>1 DEF Over, GoodBlueprint, D
<1> HIDE DEF ir
<1>9. Sound(OneSided(ir))
  BY <1>4, <1>5, <1>7, <1>8, OneSidedFacts DEF GoodBlueprint
<1> QED
  BY <1>2, <1>9 DEF ir

-----------------------------------------------------------------------------
(* Mutations *)

\* Another risk block, trend filter or age in place of the strategy's.
LEMMA RiskIsSound ==
  ASSUME NEW ir, Sound(ir), NEW new \in MutRisk(ir)
  PROVE  Sound(new)
<1> DEFINE D == DOMAIN ir.inds
<1>1. ir \in Over(D) /\ (ir.trend # <<>> => Carries(ir.trend))
  BY DEF Sound
<1>2. \/ new = ir
      \/ new = [ir EXCEPT !.timed = ~ir.timed]
      \/ \E v \in Stops : new = [ir EXCEPT !.stop = v]
      \/ \E v \in Targets : new = [ir EXCEPT !.target = v]
  BY <1>1 DEF MutRisk, Over
<1>3. Stops \subseteq Nat /\ Targets \subseteq Nat
  BY GenomeAssumption
<1> HIDE DEF D
<1>4. /\ new \in Over(D) /\ new.inds = ir.inds /\ new.direction = ir.direction
      /\ new.trend = ir.trend /\ \A g \in Group : new[g] = ir[g]
  BY <1>1, <1>2, <1>3 DEF Over, Group
<1> QED
  BY <1>1, <1>4, Refitted DEF D

LEMMA FilterIsSound ==
  ASSUME NEW ir, Sound(ir), NEW new \in MutFilter(ir)
  PROVE  Sound(new)
<1> DEFINE D == DOMAIN ir.inds
<1>1. ir \in Over(D) /\ (ir.trend # <<>> => Carries(ir.trend)) /\ Dictionary(ir.inds)
  BY DEF Sound
<1>2. new = ir \/ \E t \in {<<>>} \cup TrendCandidates(ir.inds) : new = [ir EXCEPT !.trend = t]
  BY DEF MutFilter
<1>3. \A t \in TrendCandidates(ir.inds) : t \in D /\ Carries(t)
  BY <1>1 DEF TrendCandidates, Dictionary
<1> HIDE DEF D
<1>4. /\ new \in Over(D) /\ new.inds = ir.inds /\ new.direction = ir.direction
      /\ new.trend # <<>> => Carries(new.trend)
      /\ \A g \in Group : new[g] = ir[g]
  <2>1. CASE new = ir
    BY <1>1, <2>1
  <2>2. CASE new # ir
    <3>1. PICK t \in {<<>>} \cup TrendCandidates(ir.inds) : new = [ir EXCEPT !.trend = t]
      BY <1>2, <2>2
    <3>2. t \in D \cup {<<>>} /\ (t # <<>> => Carries(t))
      BY <1>3
    <3> QED
      BY <1>1, <3>1, <3>2 DEF Over, Group
  <2> QED
    BY <2>1, <2>2
<1> QED
  BY <1>4, Refitted DEF D

LEMMA ExitStyleIsSound ==
  ASSUME NEW ir, Sound(ir), NEW new \in MutExitStyle(ir)
  PROVE  Sound(new)
<1> DEFINE D == DOMAIN ir.inds
<1>1. ir \in Over(D) /\ (ir.trend # <<>> => Carries(ir.trend))
  BY DEF Sound
<1>2. \/ \E kind \in {"rr", "atr"}, v \in Targets :
           new = [ir EXCEPT !.target_kind = kind, !.target = v]
      \/ new = [ir EXCEPT !.target_kind = "none"]
  BY DEF MutExitStyle
<1>3. Targets \subseteq Nat
  BY GenomeAssumption
<1> HIDE DEF D
<1>4. /\ new \in Over(D) /\ new.inds = ir.inds /\ new.direction = ir.direction
      /\ new.trend = ir.trend /\ \A g \in Group : new[g] = ir[g]
  BY <1>1, <1>2, <1>3 DEF Over, Group
<1> QED
  BY <1>1, <1>4, Refitted DEF D

\* A threshold is the right side of a comparison with an indicator.
LEMMA ThresholdIsSound ==
  ASSUME NEW ir, Sound(ir), NEW new \in MutThreshold(ir)
  PROVE  Sound(new)
<1> DEFINE D == DOMAIN ir.inds
           consts == {h \in Group \X (1 .. MaxConditions + MaxOperators) :
                        h[2] \in DOMAIN ir[h[1]] /\ ir[h[1]][h[2]].right.kind = "const"}
<1>1. ir \in Over(D)
  BY DEF Sound
<1>2. PICK h \in consts, v \in Levels : new = [ir EXCEPT ![h[1]][h[2]].right = Const(v)]
  BY DEF MutThreshold
<1> DEFINE g == h[1]
           i == h[2]
           s == [ir[g] EXCEPT ![i] = [ir[g][i] EXCEPT !.right = Const(v)]]
<1>3. g \in Group /\ i \in DOMAIN ir[g] /\ ir[g][i].right.kind = "const"
  OBVIOUS
<1>4. new = Regroup(ir, g, s)
  BY <1>2 DEF Regroup
<1>5. ir[g] \in Seq(Rule(D)) /\ ir[g] # <<>>
  BY <1>1, <1>3, Groups
<1>6. [ir[g][i] EXCEPT !.right = Const(v)] \in Rule(D)
  <2>1. Const(v) \in Operand(D)
    BY GenomeAssumption, OperandFacts
  <2>2. ir[g][i] \in Rule(D)
    BY <1>3, <1>5
  <2> HIDE DEF D, g, i
  <2> QED
    BY <1>3, <2>1, <2>2 DEF Rule
<1>7. s \in Seq(Rule(D)) /\ s # <<>>
  <2> HIDE DEF D, g, i
  <2> QED
    BY <1>3, <1>5, <1>6
<1> HIDE DEF g, s
<1> QED
  BY <1>3, <1>4, <1>5, <1>7, Regrouped

LEMMA DropIsSound ==
  ASSUME NEW ir, Sound(ir), NEW new \in MutDropCondition(ir)
  PROVE  Sound(new)
<1> DEFINE D == DOMAIN ir.inds
           g == IF Len(ir.entry_long) > 1 THEN "entry_long" ELSE "entry_short"
<1>1. \/ new = ir
      \/ /\ Len(ir[g]) > 1
         /\ \E i \in DOMAIN ir[g] : new = Prune([ir EXCEPT ![g] = RemoveAt(ir[g], i)])
  <2>1. ir \in Over(D) /\ g \in Group
    BY DEF Sound, Group
  <2>2. ir[g] \in Seq(Rule(D)) /\ g \in DOMAIN ir
    BY <2>1, Groups DEF Over, Group
  <2>3. new \in IF Len(ir[g]) <= 1 THEN {ir}
                ELSE {Prune([ir EXCEPT ![g] = RemoveAt(@, i)]) : i \in DOMAIN ir[g]}
    BY DEF MutDropCondition
  <2> HIDE DEF g, D
  <2> QED
    BY <2>2, <2>3
<1>2. ASSUME Len(ir[g]) > 1, NEW i \in DOMAIN ir[g] PROVE Sound(Regroup(ir, g, RemoveAt(ir[g], i)))
  <2>1. ir \in Over(D) /\ g \in Group
    BY DEF Sound, Group
  <2>2. ir[g] \in Seq(Rule(D))
    BY <2>1, Groups
  <2> HIDE DEF g, D
  <2>3. RemoveAt(ir[g], i) \in Seq(Rule(D)) /\ RemoveAt(ir[g], i) # <<>> /\ ir[g] # <<>>
    <3> DEFINE s == ir[g]
               a == SubSeq(s, 1, i - 1)
               b == SubSeq(s, i + 1, Len(s))
    <3>1. s \in Seq(Rule(D)) /\ i \in 1 .. Len(s) /\ Len(s) > 1
      BY <1>2, <2>2
    <3> HIDE DEF s
    <3>2. a \in Seq(Rule(D)) /\ Len(a) = i - 1
      BY <3>1
    <3>3. b \in Seq(Rule(D)) /\ Len(b) = Len(s) - i
      BY <3>1
    <3> HIDE DEF a, b
    <3>4. a \o b \in Seq(Rule(D)) /\ Len(a \o b) = Len(s) - 1
      BY <3>1, <3>2, <3>3
    <3>5. a \o b # <<>> /\ s # <<>>
      BY <3>1, <3>4
    <3> QED
      BY <3>4, <3>5 DEF RemoveAt, a, b, s
  <2> QED
    BY <2>1, <2>3, Regrouped DEF D
<1> HIDE DEF g
<1>3. CASE new # ir
  BY <1>1, <1>2, <1>3, PruneSound DEF Regroup
<1> QED
  BY <1>3

LEMMA DirectionIsSound ==
  ASSUME NEW ir, Sound(ir), NEW new \in MutDirection(ir)
  PROVE  Sound(new)
<1> DEFINE D == DOMAIN ir.inds
<1>1. ir \in Over(D) /\ Dictionary(ir.inds) /\ Sided(ir) /\ (ir.trend # <<>> => Carries(ir.trend))
  BY DEF Sound
<1>2. CASE new # ir
  <2>1. PICK side \in {"long", "short"} : new = OneSided([ir EXCEPT !.direction = side])
    BY <1>2 DEF MutDirection
  <2>2. ir.direction = "both"
    BY <1>2 DEF MutDirection
  <2> DEFINE one == [ir EXCEPT !.direction = side]
  <2>3. /\ one \in Over(D) /\ one.inds = ir.inds /\ one.trend = ir.trend /\ one.direction = side
        /\ one.entry_long = ir.entry_long /\ one.entry_short = ir.entry_short
    <3> HIDE DEF D
    <3> QED
      BY <1>1 DEF Over
  <2> HIDE DEF one
  <2>4. Sound(OneSided(one))
    BY <1>1, <2>2, <2>3, OneSidedFacts DEF Sided
  <2> QED
    BY <2>1, <2>4 DEF one
<1> QED
  BY <1>2

\* A gate is named after the number of indicators, which is no trend's name, and
\* is of a type that cannot carry one.
LEMMA GateIsSound ==
  ASSUME NEW ir, Sound(ir), NEW new \in MutAddCondition(ir)
  PROVE  Sound(new)
<1> DEFINE D == DOMAIN ir.inds
           alias == GateAlias(ir)
           E == D \cup {alias}
           inds(pick) == [a \in E |-> IF a = alias THEN pick ELSE ir.inds[a]]
           more(group, gate) == IF group = <<>> THEN group ELSE Append(group, gate)
<1>1. ir \in Over(D) /\ Dictionary(ir.inds) /\ Sided(ir) /\ (ir.trend # <<>> => Carries(ir.trend))
  BY DEF Sound
<1>2. CASE new # ir
  <2>1. PICK pick \in GatePicks, op \in {"gt", "lt"}, v \in GateLevels :
          new = WithGate(ir, pick, Cond(op, Ind(alias), Const(v)))
    BY <1>2 DEF MutAddCondition
  <2> DEFINE gate == Cond(op, Ind(alias), Const(v))
  <2>2. alias \in Alias /\ ~Carries(alias)
    <3> DEFINE n == Cardinality(D)
    <3>1. n \in Nat
      BY <1>1, FS_CardinalityType DEF Dictionary
    <3>2. "gate" \in Name /\ n \in Name
      BY <3>1 DEF Name, Part
    <3>0. alias = <<"gate", n>>
      BY DEF GateAlias
    <3> HIDE DEF n, alias
    <3>3. alias \in Seq(Name) /\ Len(alias) = 2 /\ alias # <<>> /\ alias[Len(alias) - 1] = "gate"
      BY <3>0, <3>2
    <3> HIDE DEF alias
    <3> QED
      BY <3>3 DEF Alias, Carries
  <2>3. pick \in IndType /\ pick \notin TrendOrLevel /\ v \in Int
    BY GenomeAssumption DEF IndType, TrendOrLevel
  <2> HIDE DEF alias
  <2>4. Dictionary(inds(pick)) /\ DOMAIN inds(pick) = E
    <3>1. IsFiniteSet(E)
      BY <1>1, FS_AddElement DEF Dictionary
    <3> QED
      BY <1>1, <2>2, <2>3, <3>1 DEF Dictionary
  <2>5. gate \in Rule(E)
    <3>1. Ind(alias) \in Operand(E) /\ Ind(alias).kind = "indicator"
      BY <2>2 DEF Operand, Ind, Alias
    <3>2. Const(v) \in Operand(E) /\ op \in Op
      BY <2>3, OperandFacts DEF Op
    <3> QED
      BY <3>1, <3>2, RuleFacts
  <2> HIDE DEF gate
  <2>6. ASSUME NEW group \in Seq(Rule(D))
        PROVE  more(group, gate) \in Seq(Rule(E)) /\ (more(group, gate) = <<>> <=> group = <<>>)
    <3>1. group \in Seq(Rule(E))
      BY RuleMore
    <3>2. Append(group, gate) \in Seq(Rule(E)) /\ Append(group, gate) # <<>>
      <4> DEFINE R == Rule(E)
      <4>1. gate \in R /\ group \in Seq(R)
        BY <2>5, <3>1
      <4> HIDE DEF R
      <4>2. /\ Append(group, gate) \in Seq(R)
            /\ Len(Append(group, gate)) = Len(group) + 1 /\ Len(group) \in Nat
        BY <4>1
      <4>3. Append(group, gate) # <<>>
        BY <4>2
      <4> QED
        BY <4>2, <4>3 DEF R
    <3> QED
      BY <3>1, <3>2
  <2>7. \A g \in Group : ir[g] \in Seq(Rule(D)) /\ ir[g] \in Seq(Rule(E))
    BY <1>1, Groups, RuleMore
  <2>8. inds(pick) \in [E -> IndType] /\ D \subseteq E
    BY <2>4 DEF Dictionary
  <2> DEFINE long == more(ir.entry_long, gate)
             short == more(ir.entry_short, gate)
             dict == inds(pick)
  <2>9. {"entry_long", "entry_short", "exit_long", "exit_short"} \subseteq Group
    BY DEF Group
  <2>10. /\ long \in Seq(Rule(E)) /\ (long = <<>> <=> ir.entry_long = <<>>)
         /\ short \in Seq(Rule(E)) /\ (short = <<>> <=> ir.entry_short = <<>>)
    BY <2>6, <2>7, <2>9
  <2>11. new = [ir EXCEPT !.inds = dict, !.entry_long = long, !.entry_short = short]
    <3>1. WithGate(ir, pick, gate) =
            [ir EXCEPT !.inds = dict, !.entry_long = long, !.entry_short = short]
      BY <1>1 DEF WithGate, Over, alias
    <3> QED
      BY <2>1, <3>1 DEF gate
  <2> HIDE DEF inds, more, long, short, dict, D, E
  <2>12. /\ new.inds = dict /\ new.trend = ir.trend /\ new.direction = ir.direction
         /\ new.entry_long = long /\ new.entry_short = short
         /\ new.exit_long = ir.exit_long /\ new.exit_short = ir.exit_short
    BY <1>1, <2>11 DEF Over
  <2>13. new \in Over(E)
    BY <1>1, <2>7, <2>8, <2>9, <2>10, <2>11 DEF Over, dict
  <2>14. Sided(new)
    BY <1>1, <2>10, <2>12 DEF Sided
  <2>15. DOMAIN new.inds = E /\ Dictionary(new.inds)
    BY <2>4, <2>12 DEF dict
  <2>16. Sound(new)
    BY <1>1, <2>12, <2>13, <2>14, <2>15 DEF Sound
  <2> QED
    BY <2>16
<1> QED
  BY <1>2

\* Whatever a mutation operator makes of a sound strategy is sound.
LEMMA MutationIsSound ==
  ASSUME NEW ir, Sound(ir), NEW new \in Mutations(ir)
  PROVE  Sound(new)
BY RiskIsSound, ThresholdIsSound, FilterIsSound, GateIsSound, DropIsSound, DirectionIsSound,
   ExitStyleIsSound DEF Mutations

-----------------------------------------------------------------------------
(* Crossover *)

\* Every alias under a prefix.
Under(p, D) == {<<p>> \o b : b \in D}

LEMMA PrefixFacts ==
  ASSUME NEW p \in Part, NEW b \in Alias
  PROVE  /\ <<p>> \o b \in Alias /\ Tail(<<p>> \o b) = b
         /\ p # "gate" => (Carries(<<p>> \o b) <=> Carries(b))
<1> DEFINE a == <<p>> \o b
<1>1. b \in Seq(Name) /\ Len(b) >= 1 /\ p \in Name
  BY DEF Alias, Name
<1>2. <<p>> \in Seq(Name) /\ Len(<<p>>) = 1 /\ <<p>>[1] = p
  BY <1>1
<1>3. a \in Seq(Name) /\ Len(a) = 1 + Len(b)
  BY <1>1, <1>2
<1>4. a[1] = p /\ \A i \in 1 .. Len(b) : a[1 + i] = b[i]
  BY <1>1, <1>2
<1> HIDE DEF a
<1>5. a \in Alias
  BY <1>1, <1>3 DEF Alias
<1>6. Tail(a) = b
  <2>1. Tail(a) \in Seq(Name) /\ Len(Tail(a)) = Len(b)
    BY <1>1, <1>3
  <2>2. \A i \in 1 .. Len(b) : Tail(a)[i] = a[1 + i]
    BY <1>1, <1>3
  <2> QED
    BY <1>1, <1>4, <2>1, <2>2
<1>7. ASSUME p # "gate" PROVE Carries(a) <=> Carries(b)
  <2>1. a[Len(a)] = b[Len(b)]
    BY <1>1, <1>3, <1>4
  <2>2. CASE Len(b) >= 2
    <3>1. Len(b) - 1 \in 1 .. Len(b) /\ Len(a) - 1 = 1 + (Len(b) - 1)
      BY <1>1, <1>3, <2>2
    <3>2. a[Len(a) - 1] = b[Len(b) - 1]
      BY <1>4, <3>1
    <3> QED
      BY <1>1, <1>3, <2>1, <2>2, <3>2 DEF Carries
  <2>3. CASE ~(Len(b) >= 2)
    <3>1. Len(a) = 2 /\ a[Len(a) - 1] = p
      BY <1>1, <1>3, <1>4, <2>3
    <3> QED
      BY <1>7, <2>1, <2>3, <3>1 DEF Carries
  <2> QED
    BY <2>2, <2>3
<1> QED
  BY <1>5, <1>6, <1>7 DEF a

LEMMA PrefixedFacts ==
  ASSUME NEW inds, Dictionary(inds), NEW p \in {"a", "b"}
  PROVE  Dictionary(Prefixed(inds, p)) /\ DOMAIN Prefixed(inds, p) = Under(p, DOMAIN inds)
<1> DEFINE D == DOMAIN inds
           new == Prefixed(inds, p)
<1>1. p \in Part /\ p # "gate"
  BY DEF Part
<1>2. new = [a \in Under(p, D) |-> inds[Tail(a)]]
  BY DEF Prefixed, Under
<1>3. D \subseteq Alias /\ inds \in [D -> IndType] /\ IsFiniteSet(D)
      /\ \A a \in D : inds[a] \in TrendOrLevel <=> Carries(a)
  BY DEF Dictionary
<1> HIDE DEF new, D
<1>4. ASSUME NEW a \in Under(p, D)
      PROVE  /\ a \in Alias /\ new[a] \in IndType
             /\ new[a] \in TrendOrLevel <=> Carries(a)
  <2>1. PICK b \in D : a = <<p>> \o b
    BY DEF Under
  <2>2. a \in Alias /\ Tail(a) = b /\ (Carries(a) <=> Carries(b))
    BY <1>1, <1>3, <2>1, PrefixFacts
  <2>3. new[a] = inds[b]
    BY <1>2, <2>2
  <2> QED
    BY <1>3, <2>2, <2>3
<1>5. IsFiniteSet(Under(p, D))
  <2> DEFINE under == [b \in D |-> <<p>> \o b]
  <2>1. under \in Surjection(D, Under(p, D))
    BY DEF Surjection, Under
  <2> QED
    BY <1>3, <2>1, FS_Surjection
<1>6. new \in [Under(p, D) -> IndType]
  BY <1>2, <1>4
<1>7. DOMAIN new = Under(p, D)
  BY <1>2
<1>8. Dictionary(new)
  BY <1>4, <1>5, <1>6, <1>7 DEF Dictionary
<1> QED
  BY <1>7, <1>8 DEF new, D

LEMMA BothFacts ==
  ASSUME NEW f, NEW g, Dictionary(f), Dictionary(g)
  PROVE  Dictionary(Both(f, g)) /\ DOMAIN Both(f, g) = DOMAIN f \cup DOMAIN g
<1> DEFINE new == Both(f, g)
<1>1. new = [a \in DOMAIN f \cup DOMAIN g |-> IF a \in DOMAIN g THEN g[a] ELSE f[a]]
  BY DEF Both
<1>2. IsFiniteSet(DOMAIN f \cup DOMAIN g)
  BY FS_Union DEF Dictionary
<1> HIDE DEF new
<1>3. Dictionary(new) /\ DOMAIN new = DOMAIN f \cup DOMAIN g
  BY <1>1, <1>2 DEF Dictionary
<1> QED
  BY <1>3 DEF new

LEMMA IndIsOperand ==
  ASSUME NEW D, NEW a \in D, a \in Seq(Name)
  PROVE  Ind(a) \in Operand(D) /\ Ind(a).kind = "indicator"
BY DEF Ind, Operand

\* The rules of a group under a prefix are rules over the aliases under it.
LEMMA RenamedFacts ==
  ASSUME NEW D, D \subseteq Alias, NEW group \in Seq(Rule(D)), NEW p \in Part
  PROVE  /\ RenameAliases(group, p) \in Seq(Rule(Under(p, D)))
         /\ RenameAliases(group, p) = <<>> <=> group = <<>>
<1> DEFINE Renamed(o) == IF o.kind = "indicator" THEN Ind(<<p>> \o o.ref) ELSE o
           Other(c) == Cond(c.op, Renamed(c.left), Renamed(c.right))
           E == Under(p, D)
           new == RenameAliases(group, p)
<1>1. /\ DOMAIN group = 1 .. Len(group) /\ Len(group) \in Nat
      /\ \A i \in 1 .. Len(group) : group[i] \in Rule(D)
  OBVIOUS
<1>2. new = [i \in 1 .. Len(group) |-> Other(group[i])]
  BY <1>1 DEF RenameAliases
<1>3. ASSUME NEW o \in Operand(D) PROVE Renamed(o) \in Operand(E) /\ Renamed(o).kind = o.kind
  <2>1. CASE o.kind = "indicator"
    <3>1. o.ref \in D
      BY <2>1 DEF Operand
    <3>2. <<p>> \o o.ref \in E /\ <<p>> \o o.ref \in Seq(Name)
      BY <3>1, PrefixFacts DEF Under, Alias
    <3>3. Ind(<<p>> \o o.ref) \in Operand(E) /\ Ind(<<p>> \o o.ref).kind = "indicator"
      <4> HIDE DEF E
      <4> QED
        BY <3>2, IndIsOperand
    <3> QED
      BY <2>1, <3>3
  <2>2. CASE o.kind # "indicator"
    BY <2>2 DEF Operand
  <2> QED
    BY <2>1, <2>2
<1> HIDE DEF Renamed, E
<1>4. ASSUME NEW c \in Rule(D) PROVE Other(c) \in Rule(E)
  <2>1. c.op \in Op /\ c.left \in Operand(D) /\ c.right \in Operand(D)
        /\ (c.left.kind = "indicator" \/ c.right.kind = "indicator")
    BY DEF Rule
  <2> QED
    BY <1>3, <2>1, RuleFacts
<1> HIDE DEF Other, new
<1>5. new \in Seq(Rule(E)) /\ Len(new) = Len(group)
  BY <1>1, <1>2, <1>4
<1>6. new = <<>> <=> group = <<>>
  BY <1>5
<1> QED
  BY <1>5, <1>6 DEF E, new

LEMMA RenamedInto ==
  ASSUME NEW D, D \subseteq Alias, NEW group \in Seq(Rule(D)), NEW p \in {"a", "b"},
         NEW E, Under(p, D) \subseteq E
  PROVE  /\ RenameAliases(group, p) \in Seq(Rule(E))
         /\ RenameAliases(group, p) = <<>> <=> group = <<>>
<1>1. p \in Part
  BY DEF Part
<1>2. /\ RenameAliases(group, p) \in Seq(Rule(Under(p, D)))
      /\ RenameAliases(group, p) = <<>> <=> group = <<>>
  BY <1>1, RenamedFacts
<1>3. Seq(Rule(Under(p, D))) \subseteq Seq(Rule(E))
  BY RuleMore
<1> QED
  BY <1>2, <1>3

Child(risk, el, es, xl, xs, effort, dir, inds, trend) ==
  [risk EXCEPT !.entry_long = el, !.entry_short = es, !.exit_long = xl, !.exit_short = xs,
               !.recipe = "crossed", !.origin = "crossover", !.effort = effort,
               !.direction = dir, !.inds = inds, !.trend = trend]

LEMMA ChildIsTyped ==
  ASSUME NEW D, NEW risk \in Over(D), NEW E, NEW el \in Seq(Rule(E)), NEW es \in Seq(Rule(E)),
         NEW xl \in Seq(Rule(E)), NEW xs \in Seq(Rule(E)), NEW effort \in Nat,
         NEW dir \in {"long", "short", "both"}, NEW inds \in [E -> IndType],
         NEW trend \in E \cup {<<>>}
  PROVE  Child(risk, el, es, xl, xs, effort, dir, inds, trend) \in Over(E)
<1> DEFINE S == Seq(Rule(E))
           Moved == [entry_long : S, entry_short : S, exit_long : S, exit_short : S,
                     recipe : DOMAIN Blueprints \cup {"crossed"},
                     origin : {"fresh", "mutation", "crossover"}, effort : Nat,
                     direction : {"long", "short", "both"}, inds : [D -> IndType],
                     stop_kind : {"atr", "percent", "none"}, stop : Nat,
                     target_kind : {"rr", "atr", "none"}, target : Nat, timed : BOOLEAN,
                     trend : D \cup {<<>>}]
           first == [risk EXCEPT !.entry_long = el, !.entry_short = es, !.exit_long = xl,
                                 !.exit_short = xs]
           second == [first EXCEPT !.recipe = "crossed", !.origin = "crossover",
                                   !.effort = effort, !.direction = dir]
           child == [second EXCEPT !.inds = inds, !.trend = trend]
<1>0. el \in S /\ es \in S /\ xl \in S /\ xs \in S
  OBVIOUS
<1> HIDE DEF S
<1>1. first \in Moved
  BY <1>0 DEF Over
<1> HIDE DEF first
<1>2. second \in Moved
  BY <1>1
<1> HIDE DEF second
<1>3. child \in Over(E)
  BY <1>2 DEF Over, S
<1>4. Child(risk, el, es, xl, xs, effort, dir, inds, trend) = child
  BY DEF Child, first, second
<1> QED
  BY <1>3, <1>4

\* A child of two sound strategies is sound: its rules and its filter are over the
\* indicators it took, and the names of those keep telling which carry a trend.
LEMMA SpliceIsSound ==
  ASSUME NEW source, NEW other, NEW risk, Sound(source), Sound(other), Sound(risk),
         NEW effort \in Nat
  PROVE  Sound(Splice(source, other, risk, effort))
<1> DEFINE theirs == other.exit_long # <<>> \/ other.exit_short # <<>>
           exits == IF theirs THEN other ELSE source
           prefix == IF theirs THEN "b" ELSE "a"
           inds == IF theirs THEN Both(Prefixed(source.inds, "a"), Prefixed(other.inds, "b"))
                             ELSE Prefixed(source.inds, "a")
           trend == IF other.trend = <<>> THEN <<>>
                    ELSE IF <<"b">> \o other.trend \in DOMAIN inds THEN <<"b">> \o other.trend
                    ELSE IF <<"a">> \o other.trend \in DOMAIN inds THEN <<"a">> \o other.trend
                    ELSE <<>>
           el == RenameAliases(source.entry_long, "a")
           es == RenameAliases(source.entry_short, "a")
           xl == RenameAliases(exits.exit_long, prefix)
           xs == RenameAliases(exits.exit_short, prefix)
           child == Child(risk, el, es, xl, xs, effort, source.direction, inds, trend)
           A == DOMAIN source.inds
           B == DOMAIN other.inds
           E == DOMAIN inds
<1>1. Splice(source, other, risk, effort) = Prune(OneSided(child))
  BY DEF Splice, Child
<1>2. /\ Dictionary(source.inds) /\ source \in Over(A) /\ Sided(source)
      /\ Dictionary(other.inds) /\ other \in Over(B)
      /\ other.trend # <<>> => Carries(other.trend)
      /\ risk \in Over(DOMAIN risk.inds)
  BY DEF Sound
<1>3. Dictionary(inds) /\ Under("a", A) \subseteq E /\ (theirs => Under("b", B) \subseteq E)
  <2>1. /\ Dictionary(Prefixed(source.inds, "a"))
        /\ DOMAIN Prefixed(source.inds, "a") = Under("a", A)
        /\ Dictionary(Prefixed(other.inds, "b"))
        /\ DOMAIN Prefixed(other.inds, "b") = Under("b", B)
    BY <1>2, PrefixedFacts
  <2>2. LET both == Both(Prefixed(source.inds, "a"), Prefixed(other.inds, "b"))
        IN  Dictionary(both) /\ DOMAIN both = Under("a", A) \cup Under("b", B)
    BY <2>1, BothFacts
  <2> QED
    BY <2>1, <2>2
<1>4. trend \in E \cup {<<>>} /\ (trend # <<>> => Carries(trend))
  <2>1. ASSUME other.trend # <<>>, NEW p \in {"a", "b"} PROVE Carries(<<p>> \o other.trend)
    <3>1. other.trend \in Alias
      BY <1>2, <2>1 DEF Over, Dictionary
    <3>2. p \in Part /\ p # "gate"
      BY DEF Part
    <3> QED
      BY <1>2, <2>1, <3>1, <3>2, PrefixFacts
  <2> HIDE DEF inds
  <2> QED
    BY <2>1
<1>5. A \subseteq Alias /\ B \subseteq Alias
  BY <1>2 DEF Dictionary
<1>6. /\ source.entry_long \in Seq(Rule(A)) /\ source.entry_short \in Seq(Rule(A))
      /\ source.exit_long \in Seq(Rule(A)) /\ source.exit_short \in Seq(Rule(A))
      /\ other.exit_long \in Seq(Rule(B)) /\ other.exit_short \in Seq(Rule(B))
  BY <1>2 DEF Over
<1> HIDE DEF inds, trend, A, B, E
<1>7. /\ el \in Seq(Rule(E)) /\ (el = <<>> <=> source.entry_long = <<>>)
      /\ es \in Seq(Rule(E)) /\ (es = <<>> <=> source.entry_short = <<>>)
  BY <1>3, <1>5, <1>6, RenamedInto
<1>8. xl \in Seq(Rule(E)) /\ xs \in Seq(Rule(E))
  <2>1. CASE theirs
    <3>1. /\ RenameAliases(other.exit_long, "b") \in Seq(Rule(E))
          /\ RenameAliases(other.exit_short, "b") \in Seq(Rule(E))
      BY <1>3, <1>5, <1>6, <2>1, RenamedInto
    <3> QED
      BY <2>1, <3>1
  <2>2. CASE ~theirs
    <3>1. /\ RenameAliases(source.exit_long, "a") \in Seq(Rule(E))
          /\ RenameAliases(source.exit_short, "a") \in Seq(Rule(E))
      BY <1>3, <1>5, <1>6, RenamedInto
    <3> QED
      BY <2>2, <3>1
  <2> QED
    BY <2>1, <2>2
<1>9. inds \in [E -> IndType]
  BY <1>3 DEF Dictionary, E
<1> HIDE DEF el, es, xl, xs
<1>10. /\ child.inds = inds /\ child.trend = trend /\ child.direction = source.direction
       /\ child.entry_long = el /\ child.entry_short = es
  BY <1>2 DEF Over, Child
<1>11. child \in Over(E)
  <2>1. source.direction \in {"long", "short", "both"}
    BY <1>2 DEF Over
  <2> QED
    BY <1>2, <1>4, <1>7, <1>8, <1>9, <2>1, ChildIsTyped
<1> HIDE DEF child
<1>12. Sound(OneSided(child))
  BY <1>2, <1>3, <1>4, <1>7, <1>10, <1>11, OneSidedFacts DEF E, Sided
<1> QED
  BY <1>1, <1>12, PruneSound

-----------------------------------------------------------------------------
(* The invariant *)

LEMMA PartnerIsSound == ASSUME NEW child \in Partners PROVE Sound(child)
<1>1. PICK r \in Bred : child \in FreshFrom(r)
  BY DEF Partners
<1> QED
  BY <1>1, FreshIsSound

\* A step that is not a repair leaves no round counted.
LEMMA Unrepaired ==
  ASSUME left' \in 0 .. MaxOperators, round' = 0, phase' # "invalid",
         phase' \in {"none", "mutating", "made", "raised", "audit", "unparsed", "built"},
         IF phase' = "none" THEN strategy' = <<>> ELSE Sound(strategy')
  PROVE  GenomeInv'
BY MaxRepairRoundsAssumption DEF GenomeInv, OnlyPairsDefeatRepair

LEMMA DeliveredFacts ==
  ASSUME NEW child, Sound(child), Delivered(child), left' \in 0 .. MaxOperators, round' = 0
  PROVE  GenomeInv'
BY Unrepaired DEF Delivered

LEMMA GenomeStep == GenomeInv /\ [GenomeNext]_genomeVars => GenomeInv'
<1> SUFFICES ASSUME GenomeInv, [GenomeNext]_genomeVars PROVE GenomeInv'
  OBVIOUS
<1>1. /\ left \in 0 .. MaxOperators /\ round \in 0 .. MaxRepairRounds
      /\ phase # "none" => Sound(strategy)
      /\ phase # "audit" => round = 0
      /\ round >= 1 => Weeded(strategy)
      /\ round >= 2 => ~HasNoExit(strategy)
  BY DEF GenomeInv
<1>2. CASE Fresh
  <2>1. PICK child \in Partners : Delivered(child)
    BY <1>2 DEF Fresh
  <2> QED
    BY <1>1, <1>2, <2>1, PartnerIsSound, DeliveredFacts DEF Fresh
<1>3. CASE StartMutate
  <2> DEFINE new == [strategy EXCEPT !.origin = "mutation", !.effort = strategy.effort + left']
  <2>1. phase = "built" /\ strategy' = new /\ phase' = "mutating" /\ round' = round
    BY <1>3 DEF StartMutate
  <2>2. /\ strategy \in Over(DOMAIN strategy.inds) /\ Sound(strategy)
        /\ strategy.trend # <<>> => Carries(strategy.trend)
    BY <1>1, <2>1 DEF Sound
  <2>3. left' \in 0 .. MaxOperators
    <3>1. strategy.effort \in Nat
      BY <2>2 DEF Over
    <3> QED
      BY <1>3, <3>1, GenomeAssumption DEF StartMutate, Min2
  <2> DEFINE D == DOMAIN strategy.inds
  <2>4. /\ new \in Over(D) /\ new.inds = strategy.inds /\ new.direction = strategy.direction
        /\ new.trend = strategy.trend /\ \A g \in Group : new[g] = strategy[g]
    <3>1. strategy.effort + left' \in Nat
      BY <2>2, <2>3, GenomeAssumption DEF Over
    <3> HIDE DEF D
    <3> QED
      BY <2>2, <3>1 DEF Over, Group, D
  <2> HIDE DEF new
  <2>5. Sound(new)
    BY <2>2, <2>4, Refitted
  <2> QED
    BY <1>1, <2>1, <2>3, <2>5, Unrepaired
<1>4. CASE Mutate
  <2>1. phase = "mutating" /\ phase' = phase /\ round' = round /\ strategy' \in Mutations(strategy)
    BY <1>4 DEF Mutate
  <2>2. Sound(strategy')
    BY <1>1, <2>1, MutationIsSound
  <2>3. left' \in 0 .. MaxOperators
    BY <1>1, <1>4, GenomeAssumption DEF Mutate
  <2> QED
    BY <1>1, <2>1, <2>2, <2>3, Unrepaired
<1>5. CASE FinishMutate
  BY <1>1, <1>5, DeliveredFacts DEF FinishMutate
<1>6. CASE Crossover
  <2>0. PICK partner \in Partners :
          \E source, risk \in {strategy, partner} :
            Delivered(Splice(source, IF source = strategy THEN partner ELSE strategy, risk,
                             strategy.effort + CrossoverCost))
    BY <1>6 DEF Crossover
  <2>1. PICK source \in {strategy, partner}, risk \in {strategy, partner} :
          Delivered(Splice(source, IF source = strategy THEN partner ELSE strategy, risk,
                           strategy.effort + CrossoverCost))
    BY <2>0
  <2>2. Sound(strategy) /\ Sound(partner) /\ strategy.effort + CrossoverCost \in Nat
    <3>1. Sound(strategy)
      BY <1>1, <1>6 DEF Crossover
    <3>2. strategy.effort \in Nat
      BY <3>1 DEF Sound, Over
    <3> QED
      BY <3>1, <3>2, PartnerIsSound, GenomeAssumption
  <2> DEFINE other == IF source = strategy THEN partner ELSE strategy
             effort == strategy.effort + CrossoverCost
  <2>3. Sound(source) /\ Sound(other) /\ Sound(risk)
    BY <2>2
  <2> HIDE DEF other, effort
  <2>4. Sound(Splice(source, other, risk, effort))
    BY <2>2, <2>3, SpliceIsSound DEF effort
  <2>5. Delivered(Splice(source, other, risk, effort))
    BY <2>1 DEF other, effort
  <2> QED
    BY <1>1, <1>6, <2>4, <2>5, DeliveredFacts DEF Crossover
<1>7. CASE Parse
  BY <1>1, <1>7, Unrepaired DEF Parse
<1>8. CASE RepairRound
  <2> DEFINE new == Repair(strategy, Errors(strategy))
  <2>1. /\ phase = "audit" /\ phase' = "audit" /\ round < MaxRepairRounds /\ round' = round + 1
        /\ strategy' = new /\ left' = left
    BY <1>8 DEF RepairRound
  <2>2. Sound(strategy)
    BY <1>1, <2>1
  <2> HIDE DEF new
  <2>3. Sound(new) /\ Weeded(new) /\ (Weeded(strategy) => ~HasNoExit(new))
    BY <2>2, RoundFacts DEF new
  <2>4. round' \in 0 .. MaxRepairRounds /\ (round' >= 2 => round >= 1)
    BY <1>1, <2>1, MaxRepairRoundsAssumption
  <2> QED
    BY <1>1, <2>1, <2>3, <2>4 DEF GenomeInv, OnlyPairsDefeatRepair
<1>9. CASE EndRepair
  <2>1. /\ phase = "audit" /\ round' = 0 /\ strategy' = strategy /\ left' = left
        /\ phase' = IF Errors(strategy) = <<>> THEN "built" ELSE "invalid"
    BY <1>9 DEF EndRepair
  <2>2. CASE Errors(strategy) = <<>>
    BY <1>1, <2>1, <2>2, Unrepaired
  <2>3. CASE Errors(strategy) # <<>>
    <3>1. HoldsPair(strategy)
      <4>1. CASE round = MaxRepairRounds
        BY <1>1, <2>1, <2>3, <4>1, MaxRepairRoundsAssumption, OnlyPairsLeft
      <4>2. CASE Repair(strategy, Errors(strategy)) = strategy
        BY <1>1, <2>1, <2>3, <4>2, StuckOnPairs
      <4> QED
        BY <1>9, <2>3, <4>1, <4>2 DEF EndRepair
    <3>2. OnlyPairsDefeatRepair'
      BY <2>1, <3>1 DEF OnlyPairsDefeatRepair, HoldsPair
    <3> QED
      BY <1>1, <2>1, <2>3, <3>2, MaxRepairRoundsAssumption DEF GenomeInv
  <2> QED
    BY <2>2, <2>3
<1>10. CASE EndLine
  BY <1>1, <1>10, Unrepaired DEF EndLine
<1>11. CASE UNCHANGED genomeVars
  BY <1>11 DEF GenomeInv, OnlyPairsDefeatRepair, genomeVars
<1> QED
  BY <1>2, <1>3, <1>4, <1>5, <1>6, <1>7, <1>8, <1>9, <1>10, <1>11 DEF GenomeNext

LEMMA GenomeInvariant == GenomeSpec => []GenomeInv
<1>1. GenomeInit => GenomeInv
  BY GenomeAssumption, MaxRepairRoundsAssumption DEF GenomeInit, GenomeInv, OnlyPairsDefeatRepair
<1> QED
  BY <1>1, GenomeStep, PTL DEF GenomeSpec

\* The variables keep their types: no line of mutations, crossings and repairs,
\* however long, makes something that is not a strategy (genome.py, build.py).
THEOREM GenomeTypeCorrect == GenomeSpec => []GenomeTypeOK
<1>1. ASSUME NEW ir, Sound(ir) PROVE IsStrategy(ir)
  <2>1. ir \in Over(DOMAIN ir.inds)
    BY <1>1 DEF Sound
  <2>2. ASSUME NEW g \in Group, NEW i \in DOMAIN ir[g] PROVE ir[g][i].op \in Op
    <3>1. ir[g][i] \in Rule(DOMAIN ir.inds)
      BY <2>1, Groups
    <3> QED
      BY <3>1 DEF Rule
  <2>3. DOMAIN ir = Group \cup {"recipe", "origin", "effort", "direction", "inds", "stop_kind",
                                "stop", "target_kind", "target", "timed", "trend"}
    BY <2>1 DEF Over, Group
  <2>4. /\ ir.origin \in {"fresh", "mutation", "crossover"} /\ ir.effort \in Nat
        /\ ir.direction \in {"long", "short", "both"} /\ ir.stop_kind \in {"atr", "percent", "none"}
        /\ ir.target_kind \in {"rr", "atr", "none"} /\ ir.stop \in Nat /\ ir.target \in Nat
        /\ ir.timed \in BOOLEAN
    BY <2>1 DEF Over
  <2> QED
    BY <2>2, <2>3, <2>4 DEF IsStrategy
<1>2. GenomeInv => GenomeTypeOK
  BY <1>1 DEF GenomeInv, GenomeTypeOK
<1> QED
  BY <1>2, GenomeInvariant, PTL

\* Whatever the factory delivers and the developer builds is coherent: its rules and
\* its trend filter refer to indicators it has, the filter to one that can carry a
\* trend, and it has rules exactly for the sides it trades (genome.py, build.py).
THEOREM CoherentAlways == GenomeSpec => []StrategiesAreCoherent
<1>1. ASSUME NEW ir, Sound(ir) PROVE Coherent(ir)
  <2> DEFINE D == DOMAIN ir.inds
  <2>1. ir \in Over(D) /\ Dictionary(ir.inds) /\ Sided(ir) /\ (ir.trend # <<>> => Carries(ir.trend))
    BY <1>1 DEF Sound
  <2>2. ir.trend \in D \cup {<<>>}
    BY <2>1 DEF Over
  <2>3. Refs(ir, Group) \subseteq D
    <3>1. ASSUME NEW g \in Group, NEW c \in Range(ir[g]), NEW o \in {c.left, c.right},
                 o.kind = "indicator"
          PROVE  o.ref \in D
      <4>1. PICK i \in DOMAIN ir[g] : c = ir[g][i]
        BY DEF Range
      <4>2. ir[g] \in Seq(Rule(D))
        BY <2>1, Groups
      <4>3. c \in Rule(D)
        BY <4>1, <4>2
      <4> QED
        BY <3>1, <4>3 DEF Rule, Operand
    <3> HIDE DEF D
    <3> QED
      BY <3>1 DEF Refs
  <2>4. Referenced(ir) \subseteq D
    BY <2>2, <2>3 DEF Referenced
  <2>5. ir.trend # <<>> => ir.inds[ir.trend] \in TrendOrLevel
    BY <2>1, <2>2 DEF Dictionary
  <2>6. ir.direction \in {"long", "short", "both"}
    BY <2>1 DEF Over
  <2> QED
    BY <2>1, <2>4, <2>5 DEF Coherent, Sided
<1>2. GenomeInv => StrategiesAreCoherent
  BY <1>1 DEF GenomeInv, StrategiesAreCoherent
<1> QED
  BY <1>2, GenomeInvariant, PTL

\* Only a contradictory pair of conditions defeats the repair loop: everything else
\* that the audit finds is gone after two rounds, what the repairs themselves broke
\* included (build.py:221-249).
THEOREM OnlyPairsDefeatIt == GenomeSpec => []OnlyPairsDefeatRepair
<1>1. GenomeInv => OnlyPairsDefeatRepair
  BY DEF GenomeInv
<1> QED
  BY <1>1, GenomeInvariant, PTL

-----------------------------------------------------------------------------
(* Learning *)

USE LearningAssumption

-----------------------------------------------------------------------------
(* Types *)

LEMMA TypeInit == Init => TypeOK
<1>1. <<>> \in Seq(Verdict)
  OBVIOUS
<1> QED
  BY <1>1 DEF Init, TypeOK

LEMMA TypeStrategy ==
  ASSUME TypeOK, NEW s \in Strategy,
         Create(s) \/ Retest(s) \/ Test(s) \/ Judge(s) \/ Purge(s) \/ GiveUp(s)
  PROVE  TypeOK'
<1>1. CASE Create(s)
  BY <1>1 DEF Create, Go, TypeOK, memory
<1>2. CASE Retest(s)
  BY <1>2 DEF Retest, Go, TypeOK, memory
<1>3. CASE Test(s)
  BY <1>3 DEF Test, Go, TypeOK, memory
<1>4. CASE Judge(s)
  <2>1. PICK is \in {"ACCEPT", "REJECT"} :
          /\ verdicts' = [verdicts EXCEPT ![s] =
                            IF Exists(s) THEN Append(@, [is |-> is, age |-> 0]) ELSE @]
          /\ Go(s, IF is = "REJECT" THEN "purge" ELSE "none")
    BY <1>4 DEF Judge
  <2>2. [is |-> is, age |-> 0] \in Verdict
    BY DEF Verdict, Age
  <2>3. verdicts' \in [Strategy -> Seq(Verdict)]
    BY <2>1, <2>2 DEF TypeOK
  <2>4. journey' \in [Strategy -> {"none", "built", "tested", "purge"}]
    BY <2>1 DEF Go, TypeOK
  <2>5. news' \in BOOLEAN
    BY <1>4 DEF Judge, TypeOK
  <2> QED
    BY <1>4, <2>3, <2>4, <2>5 DEF Judge, TypeOK, Verdict
<1>5. CASE Purge(s)
  BY <1>5 DEF Purge, Go, TypeOK, memory
<1>6. CASE GiveUp(s)
  BY <1>6 DEF GiveUp, Go, TypeOK, memory
<1> QED
  BY <1>1, <1>2, <1>3, <1>4, <1>5, <1>6

LEMMA TypeLibrarian == TypeOK /\ (Strip \/ Delete) => TypeOK'
<1> SUFFICES ASSUME TypeOK, Strip \/ Delete PROVE TypeOK'
  OBVIOUS
<1>1. CASE Strip
  BY <1>1 DEF Strip, TypeOK, memory
<1>2. CASE Delete
  <2>1. verdicts' \in [Strategy -> Seq(Verdict)]
    <3>1. <<>> \in Seq(Verdict)
      OBVIOUS
    <3> QED
      BY <1>2, <3>1 DEF Delete, TypeOK
  <2>2. runs' \in [Strategy -> SUBSET {"new", "old", "bare"}]
    BY <1>2 DEF Delete, TypeOK
  <2> QED
    BY <1>2, <2>1, <2>2 DEF Delete, TypeOK, memory
<1> QED
  BY <1>1, <1>2

LEMMA TypeMemory == TypeOK /\ (Learn \/ Broadcast \/ Forgo \/ Hear) => TypeOK'
<1> SUFFICES ASSUME TypeOK, Learn \/ Broadcast \/ Forgo \/ Hear PROVE TypeOK'
  OBVIOUS
<1>1. Tried \in SUBSET Recipe
  <2>1. ASSUME NEW r \in Tried PROVE r \in Recipe
    <3>1. PICK t \in Strategy : r = RecipeOf[t]
      BY DEF Tried
    <3> QED
      BY <3>1 DEF Recipe
  <2> QED
    BY <2>1
<1>2. CASE Learn
  BY <1>1, <1>2 DEF Learn, TypeOK, rows
<1>3. CASE Broadcast
  BY <1>3 DEF Broadcast, TypeOK, rows
<1>4. CASE Forgo
  BY <1>4 DEF Forgo, TypeOK, rows
<1>5. CASE Hear
  BY <1>5 DEF Hear, TypeOK, rows
<1> QED
  BY <1>2, <1>3, <1>4, <1>5

LEMMA TypeAround == TypeOK /\ (Wipe \/ Restart \/ Tick) => TypeOK'
<1> SUFFICES ASSUME TypeOK, Wipe \/ Restart \/ Tick PROVE TypeOK'
  OBVIOUS
<1>1. CASE Wipe
  <2>1. verdicts' \in [Strategy -> Seq(Verdict)]
    BY <1>1 DEF Wipe, Verdict
  <2> QED
    BY <1>1, <2>1 DEF Wipe, TypeOK
<1>2. CASE Restart
  BY <1>2 DEF Restart, TypeOK
<1>3. CASE Tick
  <2>1. ASSUME NEW t \in Strategy PROVE verdicts'[t] \in Seq(Verdict)
    <3>1. verdicts[t] \in Seq(Verdict)
      BY DEF TypeOK
    <3>2. \A i \in DOMAIN verdicts[t] :
            [verdicts[t][i] EXCEPT !.age = IF @ = 2 THEN 2 ELSE @ + 1] \in Verdict
      <4>1. ASSUME NEW v \in Verdict
            PROVE  [v EXCEPT !.age = IF @ = 2 THEN 2 ELSE @ + 1] \in Verdict
        <5>1. v.age \in Age
          BY DEF Verdict
        <5>2. (IF v.age = 2 THEN 2 ELSE v.age + 1) \in Age
          BY <5>1 DEF Age
        <5> QED
          BY <5>2 DEF Verdict
      <4>2. \A i \in DOMAIN verdicts[t] : verdicts[t][i] \in Verdict
        BY <3>1
      <4> QED
        BY <4>1, <4>2
    <3>3. verdicts'[t] = [i \in DOMAIN verdicts[t] |->
                            [verdicts[t][i] EXCEPT !.age = IF @ = 2 THEN 2 ELSE @ + 1]]
      BY <1>3 DEF Tick
    <3> QED
      BY <3>1, <3>2, <3>3
  <2>2. runs' \in [Strategy -> SUBSET {"new", "old", "bare"}]
    BY <1>3 DEF Tick, TypeOK
  <2> QED
    BY <1>3, <2>1, <2>2 DEF Tick, TypeOK, memory
<1> QED
  BY <1>1, <1>2, <1>3

LEMMA TypeStep == TypeOK /\ [Next]_vars => TypeOK'
<1> SUFFICES ASSUME TypeOK, [Next]_vars PROVE TypeOK'
  OBVIOUS
<1>1. CASE UNCHANGED vars
  BY <1>1 DEF vars, rows, memory, TypeOK
<1>2. CASE Next
  BY <1>2, TypeStrategy, TypeLibrarian, TypeMemory, TypeAround DEF Next
<1> QED
  BY <1>1, <1>2

\* The rows, the ledger, the priors and the messages about them keep their types, for
\* any strategies, recipes and number of retests (agents/system.py, store.py).
THEOREM TypeCorrect == Spec => []TypeOK
<1> QED
  BY TypeInit, TypeStep, PTL DEF Spec

-----------------------------------------------------------------------------
(* What the researcher steers by *)

\* Nothing astray, the broadcast on its way says what the store says, and without one
\* the researcher knows nothing or that.
Mailed ==
  ~stray =>
    /\ mail # <<>> => mail = <<priors>>
    /\ mail = <<>> => told \in {None, priors}

LEMMA MailedStep == TypeOK /\ Mailed /\ [Next]_vars => Mailed'
<1> SUFFICES ASSUME TypeOK, Mailed, [Next]_vars PROVE Mailed'
  OBVIOUS
<1>1. ASSUME UNCHANGED memory PROVE Mailed'
  BY <1>1 DEF memory, Mailed
<1>2. ASSUME NEW s \in Strategy,
             Create(s) \/ Retest(s) \/ Test(s) \/ Judge(s) \/ Purge(s) \/ GiveUp(s)
      PROVE  Mailed'
  <2>1. UNCHANGED <<priors, mail, told, stray>>
    BY <1>2 DEF Create, Retest, Test, Judge, Purge, GiveUp, memory
  <2> QED
    BY <2>1 DEF Mailed
<1>3. CASE Learn
  BY <1>3 DEF Learn, Mailed
<1>4. CASE Broadcast
  <2>1. mail' = <<priors'>> /\ mail' # <<>>
    BY <1>4 DEF Broadcast
  <2> QED
    BY <2>1 DEF Mailed
<1>5. CASE Forgo
  BY <1>5 DEF Forgo, Mailed
<1>6. CASE Hear
  <2>1. mail # <<>> /\ mail' = <<>> /\ told' = mail[1] /\ UNCHANGED <<priors, stray>>
    BY <1>6 DEF Hear
  <2>2. ~stray => told' = priors
    BY <2>1 DEF Mailed
  <2> QED
    BY <2>1, <2>2 DEF Mailed
<1>7. CASE Wipe
  BY <1>7 DEF Wipe, Mailed
<1>8. CASE Restart
  BY <1>8 DEF Restart, Mailed
<1>9. CASE Strip \/ Delete \/ Tick \/ UNCHANGED vars
  BY <1>1, <1>9 DEF Strip, Delete, Tick, vars
<1> QED
  BY <1>2, <1>3, <1>4, <1>5, <1>6, <1>7, <1>8, <1>9 DEF Next

\* The researcher's own copy of the priors (research.py:62) says what the store says
\* once the last broadcast has arrived, unless priors were wiped or stored and not
\* broadcast since.
THEOREM SteeredByStore == Spec => []SteersByStore
<1>1. Init => Mailed
  BY DEF Init, Mailed
<1>2. Mailed => SteersByStore
  BY DEF Mailed, SteersByStore, Steering
<1> QED
  BY <1>1, <1>2, TypeInit, TypeStep, MailedStep, PTL DEF Spec

-----------------------------------------------------------------------------
(* What the judge accepted *)

\* A purge is only on its way for what has a rejection in the ledger or no row, and
\* what is new has no journey.
PurgesRejected ==
  \A s \in Strategy :
    /\ journey[s] = "purge" => Rejected(s, 0) \/ row[s] = "gone"
    /\ journey[s] # "none" => row[s] # "new"

\* Whether there is a rejection of any age does not depend on the ages.
LEMMA RejectedMeans ==
  ASSUME NEW ledger \in Seq(Verdict)
  PROVE  (\E i \in DOMAIN ledger : ledger[i].is = "REJECT" /\ ledger[i].age >= 0)
           <=> \E i \in DOMAIN ledger : ledger[i].is = "REJECT"
<1>1. ASSUME NEW i \in DOMAIN ledger PROVE ledger[i].age >= 0
  <2>1. ledger[i] \in Verdict
    OBVIOUS
  <2>2. ledger[i].age \in Age
    BY <2>1 DEF Verdict
  <2> QED
    BY <2>2 DEF Age
<1> QED
  BY <1>1

\* An older rejection is a rejection.
LEMMA DoomedRejected ==
  ASSUME TypeOK, NEW s \in Strategy, Doomed(s)
  PROVE  Rejected(s, 0)
<1>1. PICK i \in DOMAIN verdicts[s] : verdicts[s][i].is = "REJECT"
  BY DEF Doomed, Rejected
<1>2. verdicts[s] \in Seq(Verdict)
  BY DEF TypeOK
<1> QED
  BY <1>1, <1>2, RejectedMeans DEF Rejected

\* What the verdicts of a strategy say survives a verdict more.
LEMMA JudgeKeeps ==
  ASSUME TypeOK, NEW s \in Strategy, Judge(s)
  PROVE  /\ \A t \in Strategy \ {s} : verdicts'[t] = verdicts[t] /\ journey'[t] = journey[t]
         /\ Rejected(s, 0) => Rejected(s, 0)'
         /\ Judged(s) => Judged(s)'
         /\ journey'[s] = "purge" => Rejected(s, 0)' \/ row[s] \in {"new", "gone"}
<1>1. PICK is \in {"ACCEPT", "REJECT"} :
        /\ verdicts' = [verdicts EXCEPT ![s] =
                          IF Exists(s) THEN Append(@, [is |-> is, age |-> 0]) ELSE @]
        /\ journey' = [journey EXCEPT ![s] = IF is = "REJECT" THEN "purge" ELSE "none"]
  BY DEF Judge, Go
<1>2. verdicts'[s] \in Seq(Verdict)
  BY TypeStrategy DEF TypeOK
<1>3. verdicts[s] \in Seq(Verdict)
  BY DEF TypeOK
<1>4. ASSUME Exists(s)
      PROVE  /\ verdicts'[s] = Append(verdicts[s], [is |-> is, age |-> 0])
             /\ Len(verdicts'[s]) = Len(verdicts[s]) + 1
             /\ verdicts'[s][Len(verdicts[s]) + 1].is = is
             /\ \A i \in DOMAIN verdicts[s] :
                  i \in DOMAIN verdicts'[s] /\ verdicts'[s][i] = verdicts[s][i]
             /\ Len(verdicts[s]) + 1 \in DOMAIN verdicts'[s]
  <2>1. verdicts'[s] = Append(verdicts[s], [is |-> is, age |-> 0])
    BY <1>1, <1>4 DEF TypeOK
  <2> QED
    BY <1>3, <2>1
<1>5. ~Exists(s) => verdicts'[s] = verdicts[s]
  BY <1>1 DEF TypeOK
<1>6. Rejected(s, 0) => Rejected(s, 0)'
  <2> SUFFICES ASSUME Rejected(s, 0) PROVE Rejected(s, 0)'
    OBVIOUS
  <2>1. PICK i \in DOMAIN verdicts[s] : verdicts[s][i].is = "REJECT"
    BY DEF Rejected
  <2>2. i \in DOMAIN verdicts'[s] /\ verdicts'[s][i].is = "REJECT"
    BY <1>4, <1>5, <2>1
  <2> QED
    BY <1>2, <2>2, RejectedMeans DEF Rejected
<1>7. Judged(s) => Judged(s)'
  BY <1>3, <1>4, <1>5 DEF Judged
<1>8. journey'[s] = "purge" => is = "REJECT"
  BY <1>1 DEF TypeOK
<1>9. is = "REJECT" /\ Exists(s) => Rejected(s, 0)'
  BY <1>2, <1>4, RejectedMeans DEF Rejected
<1>10. ~Exists(s) => row[s] \in {"new", "gone"}
  BY DEF Exists, TypeOK
<1> QED
  BY <1>1, <1>6, <1>7, <1>8, <1>9, <1>10

\* Time changes the ages of the verdicts only.
LEMMA TickKeeps ==
  ASSUME TypeOK, Tick, NEW s \in Strategy
  PROVE  (Rejected(s, 0) <=> Rejected(s, 0)') /\ (Judged(s) <=> Judged(s)')
<1>1. verdicts'[s] = [i \in DOMAIN verdicts[s] |->
                        [verdicts[s][i] EXCEPT !.age = IF @ = 2 THEN 2 ELSE @ + 1]]
  BY DEF Tick
<1>2. verdicts[s] \in Seq(Verdict)
  BY DEF TypeOK
<1>3. verdicts'[s] \in Seq(Verdict)
  BY TypeAround DEF TypeOK
<1>4. DOMAIN verdicts'[s] = DOMAIN verdicts[s]
  BY <1>1
<1>5. \A i \in DOMAIN verdicts[s] : verdicts'[s][i].is = verdicts[s][i].is
  <2> TAKE i \in DOMAIN verdicts[s]
  <2>1. verdicts[s][i] \in Verdict
    BY <1>2
  <2>2. verdicts'[s][i] = [verdicts[s][i] EXCEPT !.age = IF @ = 2 THEN 2 ELSE @ + 1]
    BY <1>1
  <2> QED
    BY <2>1, <2>2 DEF Verdict
<1>6. Rejected(s, 0) <=> Rejected(s, 0)'
  BY <1>2, <1>3, <1>4, <1>5, RejectedMeans DEF Rejected
<1>7. Len(verdicts'[s]) = Len(verdicts[s])
  BY <1>2, <1>3, <1>4
<1>8. Judged(s) <=> Judged(s)'
  BY <1>2, <1>3, <1>7 DEF Judged
<1> QED
  BY <1>6, <1>8

LEMMA PurgesStep == TypeOK /\ PurgesRejected /\ [Next]_vars => PurgesRejected'
<1> SUFFICES ASSUME TypeOK, PurgesRejected, [Next]_vars, NEW s \in Strategy
             PROVE  /\ journey'[s] = "purge" => Rejected(s, 0)' \/ row'[s] = "gone"
                    /\ journey'[s] # "none" => row'[s] # "new"
  BY DEF PurgesRejected
<1>1. /\ journey[s] = "purge" => Rejected(s, 0) \/ row[s] = "gone"
      /\ journey[s] # "none" => row[s] # "new"
  BY DEF PurgesRejected
<1>2. ASSUME UNCHANGED <<row, journey, verdicts>>
      PROVE  /\ journey'[s] = "purge" => Rejected(s, 0)' \/ row'[s] = "gone"
             /\ journey'[s] # "none" => row'[s] # "new"
  BY <1>1, <1>2 DEF Rejected
<1>3. ASSUME NEW t \in Strategy, Create(t) \/ Retest(t) \/ Test(t) \/ Purge(t) \/ GiveUp(t)
      PROVE  /\ journey'[s] = "purge" => Rejected(s, 0)' \/ row'[s] = "gone"
             /\ journey'[s] # "none" => row'[s] # "new"
  <2>1. verdicts' = verdicts
    BY <1>3 DEF Create, Retest, Test, Purge, GiveUp
  <2>2. Rejected(s, 0)' <=> Rejected(s, 0)
    BY <2>1 DEF Rejected
  <2>3. journey'[s] = "purge" => journey[s] = "purge"
    BY <1>3 DEF Create, Retest, Test, Purge, GiveUp, Go, TypeOK
  <2>4. /\ row[s] = "gone" => row'[s] = "gone"
        /\ journey'[s] # "none" => row'[s] # "new"
    BY <1>1, <1>3 DEF Create, Retest, Test, Purge, GiveUp, Go, TypeOK, Exists
  <2> QED
    BY <1>1, <2>2, <2>3, <2>4
<1>4. ASSUME NEW t \in Strategy, Judge(t)
      PROVE  /\ journey'[s] = "purge" => Rejected(s, 0)' \/ row'[s] = "gone"
             /\ journey'[s] # "none" => row'[s] # "new"
  <2>1. row' = row /\ journey[t] = "tested"
    BY <1>4 DEF Judge
  <2>2. CASE s = t
    BY <1>1, <1>4, <2>1, <2>2, JudgeKeeps
  <2>3. CASE s # t
    BY <1>1, <1>4, <2>1, <2>3, JudgeKeeps DEF Rejected
  <2> QED
    BY <2>2, <2>3
<1>5. CASE Delete
  BY <1>1, <1>5 DEF Delete, Rejected
<1>6. CASE Wipe
  BY <1>1, <1>6 DEF Wipe, Exists, TypeOK
<1>7. CASE Restart
  BY <1>7 DEF Restart
<1>8. CASE Tick
  BY <1>1, <1>8, TickKeeps DEF Tick
<1>9. CASE Strip \/ Learn \/ Broadcast \/ Forgo \/ Hear \/ UNCHANGED vars
  BY <1>2, <1>9 DEF Strip, Learn, Broadcast, Forgo, Hear, vars, rows
<1> QED
  BY <1>3, <1>4, <1>5, <1>6, <1>7, <1>8, <1>9 DEF Next

LEMMA KeptStep ==
  TypeOK /\ PurgesRejected /\ [Next]_vars =>
    \A s \in Strategy : Accepted(s) => Accepted(s)' \/ Rejected(s, 0)' \/ Wipe
<1> SUFFICES ASSUME TypeOK, PurgesRejected, [Next]_vars, NEW s \in Strategy, Accepted(s), ~Wipe
             PROVE  Accepted(s)' \/ Rejected(s, 0)'
  OBVIOUS
<1>1. Judged(s) /\ ~Rejected(s, 0) /\ row[s] = "stored" /\ Detailed(s)
  BY DEF Accepted
<1>2. ASSUME Judged(s)', row'[s] = "stored", Detailed(s)' PROVE Accepted(s)' \/ Rejected(s, 0)'
  BY <1>2 DEF Accepted
<1>3. ASSUME verdicts'[s] = verdicts[s], row'[s] = row[s], runs[s] \subseteq runs'[s]
      PROVE  Accepted(s)' \/ Rejected(s, 0)'
  BY <1>1, <1>2, <1>3 DEF Judged, Detailed
<1>4. ASSUME NEW t \in Strategy, Create(t) \/ Retest(t) \/ Test(t) \/ GiveUp(t)
      PROVE  Accepted(s)' \/ Rejected(s, 0)'
  <2>1. verdicts'[s] = verdicts[s] /\ runs[s] \subseteq runs'[s] /\ row'[s] = row[s]
    BY <1>1, <1>4 DEF Create, Retest, Test, GiveUp, TypeOK
  <2> QED
    BY <1>3, <2>1
<1>5. ASSUME NEW t \in Strategy, Judge(t) PROVE Accepted(s)' \/ Rejected(s, 0)'
  <2>1. Judged(s)'
    BY <1>1, <1>5, JudgeKeeps DEF Judged
  <2> QED
    BY <1>1, <1>2, <1>5, <2>1 DEF Judge, Detailed
<1>6. ASSUME NEW t \in Strategy, Purge(t) PROVE Accepted(s)' \/ Rejected(s, 0)'
  <2>1. t # s
    BY <1>1, <1>6 DEF Purge, PurgesRejected
  <2> QED
    BY <1>3, <1>6, <2>1 DEF Purge, TypeOK
<1>7. CASE Strip
  BY <1>1, <1>3, <1>7 DEF Strip, TypeOK
<1>8. CASE Delete
  <2>1. ~Doomed(s)
    BY <1>1, DoomedRejected
  <2> QED
    BY <1>3, <1>8, <2>1 DEF Delete
<1>9. CASE Tick
  <2>1. Detailed(s)'
    BY <1>1, <1>9 DEF Tick, Detailed
  <2> QED
    BY <1>1, <1>2, <1>9, <2>1, TickKeeps DEF Tick
<1>10. CASE Learn \/ Broadcast \/ Forgo \/ Hear \/ Restart \/ UNCHANGED vars
  BY <1>3, <1>10 DEF Learn, Broadcast, Forgo, Hear, Restart, vars, rows
<1> QED
  BY <1>4, <1>5, <1>6, <1>7, <1>8, <1>9, <1>10 DEF Next

\* What the judge accepted keeps row, rules, verdict and the detail of its runs through
\* every purge and every sweep of the librarian (store.py strip_rejected_details,
\* delete_old_rejected, purge_rejected_strategy), until it is rejected or wiped.
THEOREM AcceptedStays == Spec => AcceptedIsKept
<1>1. Init => PurgesRejected
  BY DEF Init, PurgesRejected
<1> QED
  BY <1>1, TypeInit, TypeStep, PurgesStep, KeptStep, PTL DEF Spec, AcceptedIsKept
=============================================================================

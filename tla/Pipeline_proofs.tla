--------------------------- MODULE Pipeline_proofs ---------------------------
(***************************************************************************)
(* What the pipeline keeps of a strategy and of a project, for any number  *)
(* of projects, strategies, rules and promotions, and any number of        *)
(* failures, restarts and requests of the operator.                        *)
(***************************************************************************)
EXTENDS Pipeline, TLAPS

-----------------------------------------------------------------------------
(* The inductive invariant *)

\* The positions of a job, along its way: before there is a strategy, with one that is
\* not saved yet, up to the verdict, after it, and at the champion.
Unnamed == {"hypothesis.created", "feature_spec.created"}
Reserving == {"architect.save", "champion.save"}
ToBeTested == {"strategy.created", "strategy.test_failed", "strategy.built"}
Tested == {"tester.mark", "strategy.tested", "tuner.run", "strategy.tuned",
           "robustness.report", "risk.report"}
BeforeVerdict == ToBeTested \union Tested
Shipping == {"docs.ready", "package.ready"}
Judged == {"judge.mark", "judge.purge", "judged.docs"} \union Shipping
Sweeping == {"champion.sweep", "champion.save"}

\* What a message says is what there can be at its position.
JobType(j) ==
  /\ j \in Job
  /\ IF j.at \in Unnamed THEN j.s = NoRules ELSE j.s \in Strategies
  /\ j.at \notin Unnamed \union {"strategy.built", "package.request"} => j.rules \in Ideas
  /\ j.at \in {"judge.mark", "judge.purge", "judged.docs", "judged.champion"} => j.verdict \in Verdict
  /\ j.at \in Sweeping => j.gen < MaxGeneration
  /\ j.at = "champion.save" => j.left > 0

RowType == [status : RowStatus, rules : Ideas \union {NoRules}, fingerprint : Ideas \union {NoRules},
            gen : 0 .. MaxGeneration, p : Projects \union {NoRules}]

Typed ==
  /\ \A j \in jobs : JobType(j)
  /\ project \in [Projects -> [stage : ProjectStage, status : {"none", "running", "stopped", "done"}]]
  /\ row \in [Strategies -> RowType]
  /\ \A s \in Strategies : Exists(s) => row[s].p \in Projects
  /\ runs \in [Strategies -> SUBSET {"full", "is", "oos", "tuned_oos"}]
  /\ verdicts \in [Strategies -> Seq([rules : Ideas, verdict : Verdict, n : 0 .. MaxTrouble])]
  /\ lost \subseteq Projects
  /\ \A k \in packages : k.s \in Strategies
  /\ asked \in Seq(Strategies)
  /\ testFailures \in Nat /\ failures \in Nat /\ restarts \in Nat

\* Messages that close their project when they end.
Carries(j) ==
  /\ ~ OfChampion(j) /\ j.at # "judge.purge"
  /\ j.at = "judged.docs" => j.verdict \in DELIVERABLE
  /\ j.at \in {"strategy.built", "package.request"} => j.rules # NoRules

Carried ==
  \A p \in Projects :
    project[p].status = "running" => p \in lost \/ \E j \in jobs : j.p = p /\ Carries(j)

\* A strategy has a row, or had one before the librarian came.
Named(s) == row[s].status # "none"

Journey(s) == {j \in jobs : j.s = s /\ ~ OfChampion(j)}

Evidence == {"full", "is", "oos"}

\* What the store, with rows r, runs b and verdicts v, holds of the strategy of a message
\* nobody asked for.
AgreesIn(j, r, b, v) ==
  /\ j.at # "package.request"
  /\ IF r[j.s].status = "gone"
     THEN j.at \in {"judge.mark", "judge.purge", "judged.docs"} /\ j.verdict = "REJECT" /\ v[j.s] = << >>
     ELSE /\ r[j.s].fingerprint = j.rules /\ j.rules \in Ideas
          /\ IF j.at = "judged.docs" /\ j.verdict = "REJECT" THEN r[j.s].status = "purged_reject"
             ELSE /\ r[j.s].rules = j.rules /\ r[j.s].status # "purged_reject"
                  /\ j.at \notin ToBeTested => Evidence \subseteq b[j.s]
          /\ v[j.s] = IF j.at \in BeforeVerdict THEN << >>
                      ELSE << [rules |-> j.rules, verdict |-> j.verdict, n |-> j.n] >>
          /\ j.at = "judge.purge" => j.verdict = "REJECT"
          /\ j.at \in Shipping => j.verdict \in DELIVERABLE

Agrees(j) == AgreesIn(j, row, runs, verdicts)

\* What a package nobody asked for rests on, in a store with rows r and verdicts v.
EarnedIn(k, r, v) ==
  /\ \E i \in 1 .. Len(v[k.s]) : v[k.s][i].rules = k.rules /\ v[k.s][i].verdict = k.verdict
  /\ k.verdict \in DELIVERABLE
  /\ Evidence \subseteq k.evidence
  /\ r[k.s].rules = k.rules

Earned(k) == EarnedIn(k, row, verdicts)

\* What rows r and verdicts v say of a strategy nobody asked for: one verdict at most, on
\* the rules of the fingerprint; a purged row was rejected; a deleted one has no verdict.
LedgerIn(s, r, v) ==
  /\ v[s] = << >> \/ \E x \in [rules : Ideas, verdict : Verdict, n : 0 .. MaxTrouble] :
                        v[s] = <<x>> /\ x.rules = r[s].fingerprint
                        /\ (r[s].status = "purged_reject" => x.verdict = "REJECT")
  /\ r[s].status = "purged_reject" => v[s] # << >>
  /\ r[s].status = "gone" => v[s] = << >>

Ledger(s) == LedgerIn(s, row, verdicts)

\* A strategy is one journey, until somebody asks for another.
Coherent(s) ==
  /\ \A j \in jobs : j.s = s =>
       IF j.at \in Reserving THEN ~ Named(s) /\ \A k \in jobs : k.s = s => k = j
       ELSE Named(s)
  /\ AskedFor(s) => Named(s)
  /\ ~ Named(s) => verdicts[s] = << >> /\ \A k \in packages : k.s # s
  /\ ~ AskedFor(s) =>
       /\ \A j, k \in Journey(s) : j = k
       /\ Named(s) => \A j \in Journey(s) : Agrees(j)
       /\ Ledger(s)
       /\ \A k \in packages : k.s = s => Earned(k) /\ \A j \in Journey(s) : j.at = "package.ready"

IInv == Typed /\ Carried /\ \A s \in Strategies : Coherent(s)

-----------------------------------------------------------------------------
(* Positions, messages and rows *)

LEMMA Places ==
  /\ InHand.champion = Sweeping
  /\ Unnamed \union Reserving \union BeforeVerdict \union Judged \union Sweeping
       \union {"judged.champion", "package.request"} = Positions
<1>1. DOMAIN InHand = {"architect", "tester", "tuner", "judge", "champion"}
  BY DEF InHand
<1>2. UNION {InHand[r] : r \in DOMAIN InHand} =
        InHand.architect \union InHand.tester \union InHand.tuner \union InHand.judge \union InHand.champion
  BY <1>1
<1>3. /\ InHand.architect = {"architect.save"} /\ InHand.tester = {"tester.mark"}
      /\ InHand.tuner = {"tuner.run"} /\ InHand.judge = {"judge.mark", "judge.purge"}
      /\ InHand.champion = {"champion.sweep", "champion.save"}
  BY DEF InHand
<1> HIDE DEF InHand
<1> QED
  BY <1>2, <1>3 DEF Positions, Topics, Unnamed, Reserving, BeforeVerdict, ToBeTested, Tested, Judged,
                    Shipping, Sweeping

LEMMA Champions == \A j : OfChampion(j) <=> j.at \in {"judged.champion", "champion.sweep", "champion.save"}
BY Places DEF OfChampion, Sweeping

LEMMA MovedJob ==
  ASSUME NEW j \in Job, NEW q \in Positions
  PROVE  LET m == [j EXCEPT !.at = q]
         IN  /\ m \in Job /\ m.at = q /\ m.p = j.p /\ m.s = j.s /\ m.rules = j.rules /\ m.gen = j.gen
             /\ m.verdict = j.verdict /\ m.n = j.n /\ m.left = j.left
BY DEF Job

LEMMA Rows ==
  ASSUME NEW r \in [Strategies -> RowType], NEW s \in Strategies
  PROVE  /\ r[s].status \in RowStatus
         /\ \A u \in RowStatus :
              LET n == [r EXCEPT ![s].status = u]
              IN  /\ n \in [Strategies -> RowType]
                  /\ n[s].status = u /\ n[s].rules = r[s].rules /\ n[s].fingerprint = r[s].fingerprint
                  /\ n[s].gen = r[s].gen /\ n[s].p = r[s].p
                  /\ \A t \in Strategies : t # s => n[t] = r[t]
BY DEF RowType

LEMMA Asked ==
  ASSUME asked \in Seq(Strategies)
  PROVE  /\ asked' = asked => \A s : AskedFor(s)' <=> AskedFor(s)
         /\ \A s \in Strategies : asked' = Append(asked, s) =>
              asked' \in Seq(Strategies) /\ \A t : AskedFor(t)' <=> AskedFor(t) \/ t = s
<1>1. asked' = asked => \A s : AskedFor(s)' <=> AskedFor(s)
  BY DEF AskedFor
<1>2. ASSUME NEW s \in Strategies, asked' = Append(asked, s)
      PROVE  asked' \in Seq(Strategies) /\ \A t : AskedFor(t)' <=> AskedFor(t) \/ t = s
  <2>1. /\ asked' \in Seq(Strategies) /\ Len(asked') = Len(asked) + 1 /\ Len(asked) \in Nat
        /\ asked'[Len(asked) + 1] = s /\ \A i \in 1 .. Len(asked) : asked'[i] = asked[i]
    BY <1>2
  <2>2. DOMAIN asked = 1 .. Len(asked) /\ DOMAIN asked' = 1 .. (Len(asked) + 1)
    BY <1>2, <2>1
  <2>3. ToSet(asked') = ToSet(asked) \union {s}
    BY <2>1, <2>2 DEF ToSet
  <2> QED
    BY <2>1, <2>3 DEF AskedFor
<1> QED
  BY <1>1, <1>2

-----------------------------------------------------------------------------
(* How a step keeps a strategy coherent *)

\* Of the strategy nothing changes, but some of its messages may go.
LEMMA Elsewhere ==
  ASSUME NEW s \in Strategies, Coherent(s), AskedFor(s)' <=> AskedFor(s),
         row'[s] = row[s], verdicts'[s] = verdicts[s], runs'[s] = runs[s],
         \A k \in packages' : k.s = s => k \in packages,
         \A k \in jobs' : k.s = s => k \in jobs
  PROVE  Coherent(s)'
<1>1. Named(s)' <=> Named(s)
  BY DEF Named
<1>2. \A k \in Journey(s)' : k \in Journey(s) /\ k.s = s
  BY DEF Journey, OfChampion
<1>3. \A k : k.s = s => (Agrees(k)' <=> Agrees(k)) /\ (Earned(k)' <=> Earned(k))
  BY DEF Agrees, AgreesIn, Earned, EarnedIn
<1>4. Ledger(s)' <=> Ledger(s)
  BY DEF Ledger, LedgerIn
<1> QED
  BY <1>1, <1>2, <1>3, <1>4 DEF Coherent, Named

\* A champion's message, which is of no journey, moves.
LEMMA Champion2 ==
  ASSUME NEW s \in Strategies, Coherent(s), AskedFor(s)' <=> AskedFor(s), Named(s), NEW m,
         OfChampion(m), m.at \notin Reserving,
         row'[s] = row[s], verdicts'[s] = verdicts[s], runs'[s] = runs[s], packages' = packages,
         \A k \in jobs' : k.s = s => k \in jobs \/ k = m
  PROVE  Coherent(s)'
<1>1. Named(s)' <=> Named(s)
  BY DEF Named
<1>2. \A k \in Journey(s)' : k \in Journey(s) /\ k.s = s
  BY DEF Journey, OfChampion
<1>3. \A k : k.s = s => (Agrees(k)' <=> Agrees(k)) /\ (Earned(k)' <=> Earned(k))
  BY DEF Agrees, AgreesIn, Earned, EarnedIn
<1>4. Ledger(s)' <=> Ledger(s)
  BY DEF Ledger, LedgerIn
<1> QED
  BY <1>1, <1>2, <1>3, <1>4 DEF Coherent, Named

\* A strategy that nobody uses gets its first message.
LEMMA Reserves ==
  ASSUME NEW s \in Strategies, Coherent(s), Fresh(s), AskedFor(s)' <=> AskedFor(s), NEW m,
         m.s = s, m.at \in Reserving,
         row'[s] = row[s], verdicts'[s] = verdicts[s], packages' = packages,
         \A k \in jobs' : k \in jobs \/ k = m
  PROVE  Coherent(s)'
<1>1. ~ Named(s) /\ ~ Named(s)'
  BY DEF Named, Fresh
<1>2. \A k \in jobs' : k.s = s => k = m
  BY DEF Fresh
<1>3. ~ AskedFor(s) /\ verdicts[s] = << >> /\ \A k \in packages : k.s # s
  BY <1>1 DEF Coherent
<1>4. \A k \in Journey(s)' : k = m
  BY <1>2 DEF Journey
<1>5. Ledger(s)'
  BY <1>1, <1>3 DEF Ledger, LedgerIn, Named
<1> QED
  BY <1>1, <1>2, <1>3, <1>4, <1>5 DEF Coherent

\* And is saved.
LEMMA Saves ==
  ASSUME NEW s \in Strategies, Coherent(s), NEW j \in jobs, j.s = s, j.at \in Reserving, j.rules \in Ideas,
         AskedFor(s)' <=> AskedFor(s), NEW m, m.s = s, m.at = "strategy.created", m.rules = j.rules,
         row'[s] = NewRow(j, m.gen), verdicts'[s] = verdicts[s], packages' = packages,
         \A k \in jobs' : k.s = s => (k \in jobs /\ k # j) \/ k = m \/ k.at = "champion.sweep"
  PROVE  Coherent(s)'
<1>1. ~ Named(s) /\ \A k \in jobs : k.s = s => k = j
  BY DEF Coherent
<1>2. Named(s)'
  BY DEF Named, NewRow
<1>3. ~ AskedFor(s) /\ verdicts'[s] = << >> /\ \A k \in packages : k.s # s
  BY <1>1 DEF Coherent
<1>4. \A k \in jobs' : k.s = s => k = m \/ k.at = "champion.sweep"
  BY <1>1
<1>5. \A k \in Journey(s)' : k = m
  BY <1>4, Champions DEF Journey, OfChampion
<1>6. AgreesIn(m, row', runs', verdicts')
  BY <1>3 DEF Agrees, AgreesIn, NewRow, ToBeTested, BeforeVerdict, Shipping
<1>7. \A k \in jobs' : k.s = s => k.at \notin Reserving
  BY <1>4 DEF Reserving
<1>8. Ledger(s)'
  BY <1>3 DEF Ledger, LedgerIn, NewRow
<1> QED
  BY <1>2, <1>3, <1>5, <1>6, <1>7, <1>8 DEF Coherent, Agrees

-----------------------------------------------------------------------------
(* One lemma for all handlers *)

ProjectSet == [Projects -> [stage : ProjectStage, status : {"none", "running", "stopped", "done"}]]
RunSet == [Strategies -> SUBSET {"full", "is", "oos", "tuned_oos"}]
VerdictSet == [Strategies -> Seq([rules : Ideas, verdict : Verdict, n : 0 .. MaxTrouble])]

\* A handler replaces its message by New, which is about s, and writes only to s.
LEMMA Handled ==
  ASSUME IInv, NEW j \in jobs, NEW New, NEW s \in Strategies \union {NoRules},
         jobs' = (jobs \ {j}) \union New,
         \A k \in New : JobType(k) /\ k.s = s,
         asked' = asked, lost' = lost, testFailures' \in Nat, UNCHANGED <<failures, restarts>>,
         project' \in ProjectSet, row' \in [Strategies -> RowType], runs' \in RunSet,
         verdicts' \in VerdictSet,
         \A t \in Strategies : t # s => row'[t] = row[t] /\ runs'[t] = runs[t] /\ verdicts'[t] = verdicts[t],
         \A k \in packages' : k.s \in Strategies /\ (k \in packages \/ k.s = s),
         s \in Strategies => Coherent(s)' /\ (Exists(s)' => row'[s].p \in Projects),
         \A p \in Projects : p # j.p => project'[p].status = project[p].status,
         project'[j.p].status = "running" =>
           \/ \E k \in New : k.p = j.p /\ Carries(k)
           \/ ~ Carries(j) /\ project[j.p].status = "running"
  PROVE  IInv'
<1>1. /\ \A t \in Strategies : AskedFor(t)' <=> AskedFor(t)
      /\ asked \in Seq(Strategies) /\ lost \subseteq Projects /\ failures \in Nat /\ restarts \in Nat
      /\ \A k \in jobs : JobType(k)
      /\ \A t \in Strategies : Exists(t) => row[t].p \in Projects
  BY Asked DEF IInv, Typed
<1>2. Typed'
  <2>1. \A k \in jobs' : JobType(k)
    BY <1>1
  <2>2. \A t \in Strategies : Exists(t)' => row'[t].p \in Projects
    BY <1>1 DEF Exists, Named
  <2> QED
    BY <1>1, <2>1, <2>2 DEF Typed, ProjectSet, RunSet, VerdictSet
<1>3. Carried'
  <2> SUFFICES ASSUME NEW p \in Projects, project'[p].status = "running", p \notin lost
               PROVE  \E k \in jobs' : k.p = p /\ Carries(k)
    BY DEF Carried
  <2>1. CASE \E k \in New : k.p = p /\ Carries(k)
    BY <2>1
  <2>2. CASE ~ \E k \in New : k.p = p /\ Carries(k)
    <3>1. project[p].status = "running" /\ (p = j.p => ~ Carries(j))
      BY <2>2
    <3>2. PICK k \in jobs : k.p = p /\ Carries(k)
      BY <3>1 DEF IInv, Carried
    <3> QED
      BY <3>1, <3>2
  <2> QED
    BY <2>1, <2>2
<1>4. ASSUME NEW t \in Strategies PROVE Coherent(t)'
  <2>1. CASE t = s
    BY <2>1
  <2>2. CASE t # s
    BY <1>1, <2>2, Elsewhere DEF IInv
  <2> QED
    BY <2>1, <2>2
<1> QED
  BY <1>2, <1>3, <1>4 DEF IInv

\* What every handler may assume of its message.
LEMMA Hand ==
  ASSUME IInv, NEW j \in jobs
  PROVE  /\ JobType(j) /\ j \in Job /\ j.p \in Projects /\ j.at \in Positions
         /\ j.s \in Strategies \union {NoRules} /\ NoRules \notin Strategies
         /\ j.gen \in 0 .. MaxGeneration /\ MaxGeneration \in Nat
         /\ project \in ProjectSet /\ row \in [Strategies -> RowType] /\ runs \in RunSet
         /\ verdicts \in VerdictSet /\ testFailures \in Nat
         /\ \A k \in packages : k.s \in Strategies
         /\ \A s \in Strategies : Coherent(s) /\ (Exists(s) => row[s].p \in Projects)
         /\ asked' = asked => \A s : AskedFor(s)' <=> AskedFor(s)
BY Asked, PipelineAssumption DEF IInv, Typed, JobType, Job, ProjectSet, RunSet, VerdictSet

\* The message of a journey on its way.
LEMMA OnJourney ==
  ASSUME IInv, NEW j \in jobs, j.at \in BeforeVerdict \union Judged \union {"package.request"}
  PROVE  /\ j.s \in Strategies /\ ~ OfChampion(j) /\ j.at \notin Reserving /\ Named(j.s)
         /\ ~ AskedFor(j.s) => Agrees(j)
<1>1. /\ j.at \notin Unnamed /\ j.at \notin Reserving
      /\ j.at \notin {"judged.champion", "champion.sweep", "champion.save"}
  BY DEF BeforeVerdict, ToBeTested, Tested, Judged, Shipping, Unnamed, Reserving
<1>2. j.s \in Strategies /\ ~ OfChampion(j)
  BY <1>1, Hand, Champions DEF JobType
<1>3. Named(j.s)
  BY <1>1, <1>2, Hand DEF Coherent
<1>4. ~ AskedFor(j.s) => Agrees(j)
  BY <1>2, <1>3, Hand DEF Coherent, Journey
<1> QED
  BY <1>1, <1>2, <1>3, <1>4

\* The stage of a project is written, or it is closed.
LEMMA Staged ==
  ASSUME project \in ProjectSet, NEW j \in Job, NEW stage \in ProjectStage,
         project' = [project EXCEPT ![j.p].stage = stage]
  PROVE  project' \in ProjectSet /\ \A p \in Projects : project'[p].status = project[p].status
BY DEF ProjectSet, Job

LEMMA Closed ==
  ASSUME project \in ProjectSet, NEW j \in Job, NEW stage \in ProjectStage,
         NEW u \in {"none", "running", "stopped", "done"},
         project' = [project EXCEPT ![j.p] = [stage |-> stage, status |-> u]]
  PROVE  /\ project' \in ProjectSet /\ project'[j.p].status = u
         /\ \A p \in Projects : p # j.p => project'[p].status = project[p].status
BY DEF ProjectSet, Job

-----------------------------------------------------------------------------
(* Research squad *)

\* A message that is lost, or that is dropped with nothing written but the project.
LEMMA Drops ==
  ASSUME IInv, NEW j \in jobs, Drop(j), UNCHANGED <<row, runs, verdicts, packages, campaigned, bounds>>,
         \/ \E stage \in ProjectStage, u \in {"stopped", "done"} :
              project' = [project EXCEPT ![j.p] = [stage |-> stage, status |-> u]]
         \/ UNCHANGED project /\ ~ Carries(j)
  PROVE  IInv'
<1>1. /\ UNCHANGED <<row, runs, verdicts, packages, asked, lost, testFailures, failures, restarts>>
      /\ jobs' = (jobs \ {j}) \union {}
  BY DEF Drop, bounds
<1>2. /\ project' \in ProjectSet
      /\ \A p \in Projects : p # j.p => project'[p].status = project[p].status
      /\ project'[j.p].status = "running" => ~ Carries(j) /\ project[j.p].status = "running"
  <2>1. CASE UNCHANGED project /\ ~ Carries(j)
    BY <2>1, Hand
  <2>2. ASSUME NEW stage \in ProjectStage, NEW u \in {"stopped", "done"},
               project' = [project EXCEPT ![j.p] = [stage |-> stage, status |-> u]]
        PROVE  /\ project' \in ProjectSet /\ project'[j.p].status = u
               /\ \A p \in Projects : p # j.p => project'[p].status = project[p].status
    BY <2>2, Hand, Closed
  <2> QED
    BY <2>1, <2>2
<1>3. ASSUME NEW t \in Strategies PROVE Coherent(t)' /\ (Exists(t)' => row'[t].p \in Projects)
  BY <1>1, Hand, Elsewhere DEF Exists, Named
<1> DEFINE New == {}
<1>4. jobs' = (jobs \ {j}) \union New /\ \A k \in New : JobType(k) /\ k.s = NoRules
  BY <1>1
<1> HIDE DEF New
<1> QED
  BY <1>1, <1>2, <1>3, <1>4, Hand, Handled

LEMMA ResearchStep == ASSUME IInv, NEW p \in Projects, Research(p) PROVE IInv'
<1>1. /\ project[p].status = "none"
      /\ project' = [project EXCEPT ![p] = [stage |-> "hypothesis", status |-> "running"]]
      /\ jobs' = jobs \union {NewJob(p)}
      /\ UNCHANGED <<row, runs, verdicts, packages, asked, lost, testFailures, failures, restarts>>
  BY DEF Research, bounds
<1>2. JobType(NewJob(p)) /\ Carries(NewJob(p)) /\ NewJob(p).p = p /\ NewJob(p).s = NoRules
  <2>1. "hypothesis.created" \in Positions /\ MaxGeneration \in Nat /\ MaxTrouble \in Nat /\ PromoteTopK \in Nat
    BY Places, PipelineAssumption DEF Unnamed
  <2> QED
    BY <2>1, Champions DEF NewJob, JobType, Job, Unnamed, Carries, Sweeping
<1>3. Typed'
  <2>1. project' \in ProjectSet
    BY <1>1 DEF ProjectSet, IInv, Typed, ProjectStage
  <2> QED
    BY <1>1, <1>2, <2>1 DEF IInv, Typed, ProjectSet, Exists, Named
<1>4. Carried'
  <2> SUFFICES ASSUME NEW q \in Projects, project'[q].status = "running", q \notin lost
               PROVE  \E k \in jobs' : k.p = q /\ Carries(k)
    BY <1>1 DEF Carried
  <2>1. CASE q = p
    BY <1>1, <1>2, <2>1
  <2>2. CASE q # p
    BY <1>1, <2>2 DEF IInv, Carried, Typed
  <2> QED
    BY <2>1, <2>2
<1>5. ASSUME NEW t \in Strategies PROVE Coherent(t)'
  <2>1. \A k \in jobs' : k.s = t => k \in jobs
    BY <1>1, <1>2, PipelineAssumption
  <2> QED
    BY <1>1, <2>1, Elsewhere, Asked DEF IInv, Typed
<1> QED
  BY <1>3, <1>4, <1>5 DEF IInv

LEMMA QuantStep == ASSUME IInv, NEW j \in jobs, Quant(j) PROVE IInv'
<1>1. CASE RejectHypothesis(j)
  <2>1. "rejected_early" \in ProjectStage
    BY DEF ProjectStage
  <2> QED
    BY <1>1, <2>1, Drops DEF RejectHypothesis, Close
<1>2. CASE SpecifyFeatures(j)
  <2> DEFINE m == [j EXCEPT !.at = "feature_spec.created"]
             New == {m}
  <2>1. /\ j.at = "hypothesis.created" /\ jobs' = (jobs \ {j}) \union New
        /\ UNCHANGED <<row, runs, verdicts, packages, asked, lost, testFailures, failures, restarts>>
    BY <1>2 DEF SpecifyFeatures, At, Move, bounds
  <2>2. j \in Job /\ "feature_spec.created" \in Positions /\ j.s = NoRules
    BY <2>1, Hand, Places DEF JobType, Unnamed
  <2>3. m.at = "feature_spec.created" /\ m.s = NoRules /\ m.p = j.p /\ JobType(m) /\ Carries(m)
    BY <2>1, <2>2, MovedJob, Champions DEF JobType, Unnamed, Sweeping, Carries
  <2>5. \A k \in New : JobType(k) /\ k.s = NoRules
    BY <2>3
  <2>6. \E k \in New : k.p = j.p /\ Carries(k)
    BY <2>3
  <2> HIDE DEF m, New
  <2>4. project' \in ProjectSet /\ \A p \in Projects : project'[p].status = project[p].status
    <3>1. project' = [project EXCEPT ![j.p].stage = "design"] /\ "design" \in ProjectStage
      BY <1>2 DEF SpecifyFeatures, Stage, ProjectStage
    <3> QED
      BY <2>2, <3>1, Hand, Staged
  <2> QED
    BY <2>1, <2>4, <2>5, <2>6, Hand, Handled
<1> QED
  BY <1>1, <1>2 DEF Quant

-----------------------------------------------------------------------------
(* The way of a strategy, from the developer to the archive *)

\* Rows, runs and verdicts before and after a step that writes to one strategy only.
Written(s, r, newR, b, newB, v, newV) ==
  /\ newR \in [Strategies -> RowType] /\ newB \in RunSet /\ newV \in VerdictSet
  /\ newR[s].p = r[s].p /\ newR[s].status # "none" /\ (newR[s].status = "gone" <=> r[s].status = "gone")
  /\ \A t \in Strategies : t # s => newR[t] = r[t] /\ newB[t] = b[t] /\ newV[t] = v[t]

\* The rules in the row stay, and it is not purged.
Kept(s, r, newR) ==
  /\ newR[s].rules = r[s].rules /\ newR[s].fingerprint = r[s].fingerprint
  /\ newR[s].status = "purged_reject" => r[s].status = "purged_reject"

\* The message becomes New: m, and perhaps one to the champion.
LEMMA Goes ==
  ASSUME IInv, NEW j \in jobs,
         j.at \in BeforeVerdict \union {"judge.mark", "judge.purge", "judged.docs", "docs.ready", "package.request"},
         NEW New, NEW m, NEW archive, jobs' = (jobs \ {j}) \union New,
         \A k \in New : JobType(k) /\ k.s = j.s /\ k.at \notin Reserving /\ (k = m \/ k.at = "judged.champion"),
         m.s = j.s, m.p = j.p,
         Written(j.s, row, row', runs, runs', verdicts, verdicts'),
         ~ AskedFor(j.s) => AgreesIn(m, row', runs', verdicts'),
         packages' = packages \/ packages' = packages \union {archive},
         packages' # packages =>
           archive.s = j.s /\ m.at = "package.ready" /\ (~ AskedFor(j.s) => EarnedIn(archive, row', verdicts')),
         asked' = asked, lost' = lost, testFailures' \in Nat, UNCHANGED <<failures, restarts>>,
         project' \in ProjectSet, \A p \in Projects : p # j.p => project'[p].status = project[p].status,
         project'[j.p].status = "running" =>
           \/ m \in New /\ Carries(m)
           \/ ~ Carries(j) /\ project[j.p].status = "running"
  PROVE  IInv'
<1>0. SUFFICES ASSUME NEW s, j.s = s PROVE IInv'
  OBVIOUS
<1>1. /\ s \in Strategies /\ ~ OfChampion(j) /\ Named(s) /\ j.at \notin Reserving \union {"package.ready"}
      /\ Coherent(s)
  <2>1. j.at \in BeforeVerdict \union Judged \union {"package.request"} /\ j.at # "package.ready"
    BY DEF Judged, Shipping, BeforeVerdict, ToBeTested, Tested
  <2> QED
    BY <1>0, <2>1, OnJourney, Hand
<1>2. AskedFor(s)' <=> AskedFor(s)
  BY Hand
<1>3. Named(s)' /\ (Exists(s)' => row'[s].p \in Projects)
  BY <1>0, <1>1, Hand DEF Exists, Named, Written
<1>4. Coherent(s)'
  <2>1. \A k \in New : ~ OfChampion(k) => k = m
    BY Champions
  <2>2. ~ AskedFor(s) => Ledger(s)'
    <3> SUFFICES ASSUME ~ AskedFor(s) PROVE Ledger(s)'
      OBVIOUS
    <3>1. AgreesIn(m, row', runs', verdicts') /\ m.s = s
      BY <1>0
    <3>2. CASE row'[s].status = "gone"
      BY <3>1, <3>2 DEF AgreesIn, Ledger, LedgerIn
    <3>3. CASE row'[s].status # "gone" /\ m.at \in BeforeVerdict
      BY <3>1, <3>3 DEF AgreesIn, Ledger, LedgerIn, BeforeVerdict, ToBeTested, Tested
    <3>4. CASE row'[s].status # "gone" /\ m.at \notin BeforeVerdict
      <4> DEFINE x == [rules |-> m.rules, verdict |-> m.verdict, n |-> m.n]
      <4>1. verdicts'[s] = <<x>> /\ x.rules = row'[s].fingerprint /\ x.verdict = m.verdict
        BY <3>1, <3>4 DEF AgreesIn
      <4>2. row'[s].status = "purged_reject" => m.verdict = "REJECT"
        BY <3>1, <3>4 DEF AgreesIn
      <4>3. x \in [rules : Ideas, verdict : Verdict, n : 0 .. MaxTrouble]
        <5> DEFINE V == [rules : Ideas, verdict : Verdict, n : 0 .. MaxTrouble]
        <5>1. verdicts'[s] \in Seq(V) /\ verdicts'[s] = <<x>>
          BY <1>0, <1>1, <4>1 DEF Written, VerdictSet
        <5> HIDE DEF V, x
        <5>2. x \in V
          BY <5>1
        <5> QED
          BY <5>2 DEF V
      <4> HIDE DEF x
      <4> QED
        BY <4>1, <4>2, <4>3, <3>4 DEF Ledger, LedgerIn
    <3> QED
      BY <3>2, <3>3, <3>4
  <2>3. \A k \in jobs' : k.s = s => (k \in jobs /\ k # j) \/ k \in New
    BY <1>0
  <2>4. ~ AskedFor(s) /\ m \in New => AgreesIn(m, row', runs', verdicts')
    BY <1>0
  <2>6. \A k \in New : k.at \notin Reserving
    OBVIOUS
  <2>7. j \in jobs /\ j.s = s
    BY <1>0
  <2>8. packages' # packages => m.at = "package.ready" /\ (~ AskedFor(s) => EarnedIn(archive, row', verdicts'))
    BY <1>0
  <2>9. /\ s \in Strategies /\ Coherent(s) /\ ~ OfChampion(j)
        /\ j.at \notin Reserving \union {"package.ready"}
    BY <1>1
  <2>10. \A k \in jobs : k.s = s => k.at \notin Reserving
    BY <1>1 DEF Coherent
  <2>11. \A k \in jobs' : k.s = s => k.at \notin Reserving
    BY <2>3, <2>6, <2>10
  <2>12. CASE AskedFor(s)
    BY <1>2, <1>3, <2>11, <2>12 DEF Coherent
  <2>13. CASE ~ AskedFor(s)
    <3>1. \A k \in jobs : k.s = s /\ k # j => OfChampion(k)
      BY <1>1, <2>7, <2>13 DEF Coherent, Journey
    <3>2. \A k \in Journey(s)' : k = m /\ AgreesIn(m, row', runs', verdicts')
      BY <2>1, <2>3, <2>4, <2>13, <3>1 DEF Journey, OfChampion
    <3>3. \A k \in packages : k.s # s
      BY <1>1, <2>7, <2>13 DEF Coherent, Journey
    <3> QED
      BY <1>2, <1>3, <2>2, <2>8, <2>11, <2>13, <3>2, <3>3 DEF Coherent, Agrees, Earned
  <2> QED
    BY <2>12, <2>13
<1>5. \A k \in New : JobType(k) /\ k.s = s
  BY <1>0
<1>6. \A k \in packages' : k.s \in Strategies /\ (k \in packages \/ k.s = s)
  BY <1>0, <1>1, Hand
<1>7. project'[j.p].status = "running" =>
        \/ \E k \in New : k.p = j.p /\ Carries(k)
        \/ ~ Carries(j) /\ project[j.p].status = "running"
  OBVIOUS
<1>8. /\ \A t \in Strategies : t # s => row'[t] = row[t] /\ runs'[t] = runs[t] /\ verdicts'[t] = verdicts[t]
      /\ row' \in [Strategies -> RowType] /\ runs' \in RunSet /\ verdicts' \in VerdictSet
  BY <1>0 DEF Written
<1> QED
  BY <1>1, <1>3, <1>4, <1>5, <1>6, <1>7, <1>8, Handled

\* With nothing archived, as in most steps.
LEMMA Proceeds ==
  ASSUME IInv, NEW j \in jobs,
         j.at \in BeforeVerdict \union {"judge.mark", "judge.purge", "judged.docs", "package.request"},
         NEW New, NEW m, jobs' = (jobs \ {j}) \union New,
         \A k \in New : JobType(k) /\ k.s = j.s /\ k.at \notin Reserving /\ (k = m \/ k.at = "judged.champion"),
         m.s = j.s, m.p = j.p,
         Written(j.s, row, row', runs, runs', verdicts, verdicts'),
         ~ AskedFor(j.s) => AgreesIn(m, row', runs', verdicts'),
         packages' = packages, asked' = asked, lost' = lost, testFailures' \in Nat,
         UNCHANGED <<failures, restarts>>,
         project' \in ProjectSet, \A p \in Projects : p # j.p => project'[p].status = project[p].status,
         project'[j.p].status = "running" =>
           \/ m \in New /\ Carries(m)
           \/ ~ Carries(j) /\ project[j.p].status = "running"
  PROVE  IInv'
<1> PICK archive : TRUE
  OBVIOUS
<1>1. /\ packages' = packages \/ packages' = packages \union {archive}
      /\ packages' # packages =>
           archive.s = j.s /\ m.at = "package.ready" /\ (~ AskedFor(j.s) => EarnedIn(archive, row', verdicts'))
  OBVIOUS
<1>2. \A k \in New : JobType(k) /\ k.s = j.s /\ k.at \notin Reserving /\ (k = m \/ k.at = "judged.champion")
  OBVIOUS
<1>3. j.at \in BeforeVerdict \union {"judge.mark", "judge.purge", "judged.docs", "docs.ready", "package.request"}
  OBVIOUS
<1>4. project'[j.p].status = "running" =>
           \/ m \in New /\ Carries(m)
           \/ ~ Carries(j) /\ project[j.p].status = "running"
  OBVIOUS
<1> QED
  BY ONLY IInv, j \in jobs, <1>1, <1>2, <1>3, <1>4, jobs' = (jobs \ {j}) \union New,
     m.s = j.s, m.p = j.p, Written(j.s, row, row', runs, runs', verdicts, verdicts'),
     ~ AskedFor(j.s) => AgreesIn(m, row', runs', verdicts'),
     asked' = asked, lost' = lost, testFailures' \in Nat, UNCHANGED <<failures, restarts>>,
     project' \in ProjectSet, \A p \in Projects : p # j.p => project'[p].status = project[p].status,
     Goes

\* The message goes on as it is, and the rules in the store stay what they are.
LEMMA Moves ==
  ASSUME IInv, NEW j \in jobs,
         j.at \in BeforeVerdict \union {"judged.docs", "docs.ready", "package.request"},
         NEW q \in BeforeVerdict \union Shipping, j.at \in BeforeVerdict <=> q \in BeforeVerdict,
         j.at = "judged.docs" => j.verdict \in DELIVERABLE, j.rules \in Ideas,
         jobs' = (jobs \ {j}) \union {[j EXCEPT !.at = q]}, NEW archive,
         Written(j.s, row, row', runs, runs', verdicts, verdicts'), verdicts' = verdicts,
         runs[j.s] \subseteq runs'[j.s],
         Kept(j.s, row, row'),
         q \in ToBeTested \/ j.at \notin ToBeTested \/ Evidence \subseteq runs'[j.s],
         packages' = packages \/ packages' = packages \union {archive},
         packages' # packages =>
           archive.s = j.s /\ q = "package.ready" /\ (~ AskedFor(j.s) => EarnedIn(archive, row', verdicts')),
         asked' = asked, lost' = lost, testFailures' \in Nat, UNCHANGED <<failures, restarts>>,
         project' \in ProjectSet, \A p \in Projects : p # j.p => project'[p].status = project[p].status
  PROVE  IInv'
<1> DEFINE m == [j EXCEPT !.at = q]
           New == {m}
<1>1. /\ JobType(j) /\ j.s \in Strategies /\ (~ AskedFor(j.s) => Agrees(j)) /\ j \in Job
      /\ NoRules \notin Ideas
  <2>1. j.at \in BeforeVerdict \union Judged \union {"package.request"}
    BY DEF Judged, Shipping
  <2> QED
    BY <2>1, Hand, OnJourney, PipelineAssumption
<1>2. /\ q \in Positions /\ q \notin Unnamed \union Reserving \union Sweeping
      /\ q \notin {"judge.mark", "judge.purge", "judged.docs", "judged.champion", "package.request"}
  BY Places DEF Shipping, Judged, BeforeVerdict, ToBeTested, Tested, Unnamed, Reserving, Sweeping
<1>3. /\ m \in Job /\ m.at = q /\ m.p = j.p /\ m.s = j.s /\ m.rules = j.rules
      /\ m.verdict = j.verdict /\ m.n = j.n
  BY <1>1, <1>2, MovedJob
<1>4. JobType(m) /\ Carries(m)
  <2>1. m.at # "champion.save"
    BY <1>2, <1>3 DEF Sweeping
  <2>2. ~ OfChampion(m)
    BY <1>2, <1>3, Champions DEF Sweeping
  <2> QED
    BY <1>1, <1>2, <1>3, <2>1, <2>2 DEF JobType, Carries
<1>5. m \in New /\ New = {m} /\ jobs' = (jobs \ {j}) \union New
  OBVIOUS
<1> HIDE DEF m, New
<1>6. ASSUME ~ AskedFor(j.s) PROVE AgreesIn(m, row', runs', verdicts')
  <2>1. /\ Agrees(j) /\ j.at # "package.request"
        /\ row[j.s].status # "gone" /\ row'[j.s].status # "gone"
    BY <1>1, <1>6 DEF Agrees, AgreesIn, DELIVERABLE, BeforeVerdict, ToBeTested, Tested, Written
  <2>2. /\ row[j.s].rules = j.rules /\ row'[j.s].rules = j.rules /\ row'[j.s].status # "purged_reject"
        /\ j.at \notin ToBeTested => Evidence \subseteq runs[j.s]
    BY <2>1 DEF Agrees, AgreesIn, DELIVERABLE, Kept
  <2>3. q \in Shipping => j.verdict \in DELIVERABLE
    BY <2>1 DEF Agrees, AgreesIn, BeforeVerdict, ToBeTested, Tested, Shipping
  <2>4. row'[j.s].fingerprint = j.rules
    BY <2>1 DEF Agrees, AgreesIn, Kept
  <2>5. verdicts[j.s] = IF q \in BeforeVerdict THEN << >>
                        ELSE << [rules |-> j.rules, verdict |-> j.verdict, n |-> j.n] >>
    BY <2>1 DEF Agrees, AgreesIn
  <2>6. m.at \notin ToBeTested => Evidence \subseteq runs'[j.s]
    BY <1>3, <2>2
  <2> QED
    BY <1>1, <1>2, <1>3, <2>1, <2>2, <2>3, <2>4, <2>5, <2>6 DEF AgreesIn
<1>7. \A k \in New : JobType(k) /\ k.s = j.s /\ k.at \notin Reserving /\ (k = m \/ k.at = "judged.champion")
  BY <1>2, <1>3, <1>4, <1>5
<1>8. /\ j.at \in BeforeVerdict \union {"judge.mark", "judge.purge", "judged.docs", "docs.ready", "package.request"}
      /\ packages' # packages =>
           archive.s = j.s /\ m.at = "package.ready" /\ (~ AskedFor(j.s) => EarnedIn(archive, row', verdicts'))
  BY <1>3
<1>9. m.s = j.s /\ m.p = j.p /\ m \in New /\ Carries(m) /\ jobs' = (jobs \ {j}) \union New
  BY <1>3, <1>4, <1>5
<1>10. project'[j.p].status = "running" =>
           \/ m \in New /\ Carries(m)
           \/ ~ Carries(j) /\ project[j.p].status = "running"
  BY <1>9
<1> QED
  BY ONLY IInv, j \in jobs, <1>6, <1>7, <1>8, <1>9, <1>10,
     Written(j.s, row, row', runs, runs', verdicts, verdicts'),
     packages' = packages \/ packages' = packages \union {archive},
     asked' = asked, lost' = lost, testFailures' \in Nat, UNCHANGED <<failures, restarts>>,
         project' \in ProjectSet, \A p \in Projects : p # j.p => project'[p].status = project[p].status,
         Goes

\* As most steps do it: with nothing archived.
LEMMA Passes ==
  ASSUME IInv, NEW j \in jobs,
         j.at \in BeforeVerdict \union {"judged.docs", "package.request"},
         NEW q \in BeforeVerdict \union Shipping, j.at \in BeforeVerdict <=> q \in BeforeVerdict,
         j.at = "judged.docs" => j.verdict \in DELIVERABLE, j.rules \in Ideas,
         jobs' = (jobs \ {j}) \union {[j EXCEPT !.at = q]},
         Written(j.s, row, row', runs, runs', verdicts, verdicts'), verdicts' = verdicts,
         runs[j.s] \subseteq runs'[j.s],
         Kept(j.s, row, row'),
         q \in ToBeTested \/ j.at \notin ToBeTested \/ Evidence \subseteq runs'[j.s],
         packages' = packages,
         asked' = asked, lost' = lost, testFailures' \in Nat, UNCHANGED <<failures, restarts>>,
         project' \in ProjectSet, \A p \in Projects : p # j.p => project'[p].status = project[p].status
  PROVE  IInv'
<1> PICK archive : TRUE
  OBVIOUS
<1>1. /\ packages' = packages \/ packages' = packages \union {archive}
      /\ packages' # packages =>
           archive.s = j.s /\ q = "package.ready" /\ (~ AskedFor(j.s) => EarnedIn(archive, row', verdicts'))
  OBVIOUS
<1> QED
  BY <1>1, Moves

LEMMA Unwritten ==
  ASSUME IInv, NEW s \in Strategies, Named(s), row' = row, verdicts' = verdicts, runs' \in RunSet,
         \A t \in Strategies : t # s => runs'[t] = runs[t]
  PROVE  /\ Written(s, row, row', runs, runs', verdicts, verdicts')
         /\ Kept(s, row, row')
BY DEF IInv, Typed, Written, Kept, VerdictSet, Named

LEMMA Marked ==
  ASSUME IInv, NEW j \in jobs, j.s \in Strategies, Named(j.s), verdicts' = verdicts, runs' \in RunSet,
         \A t \in Strategies : t # j.s => runs'[t] = runs[t],
         NEW u \in RowStatus \ {"none", "gone", "purged_reject"}, Mark(j, u)
  PROVE  /\ Written(j.s, row, row', runs, runs', verdicts, verdicts')
         /\ Kept(j.s, row, row')
<1>1. row \in [Strategies -> RowType] /\ verdicts \in VerdictSet
  BY DEF IInv, Typed, VerdictSet
<1>2. CASE Exists(j.s)
  <2>1. row' = [row EXCEPT ![j.s].status = u]
    BY <1>1, <1>2 DEF Mark, Update, RowType
  <2> QED
    BY <1>1, <1>2, <2>1, Rows DEF Written, Kept, Exists
<1>3. CASE ~ Exists(j.s)
  BY <1>1, <1>3 DEF Mark, Update, Written, Kept, Named
<1> QED
  BY <1>2, <1>3

-----------------------------------------------------------------------------
(* Developer and tester *)

LEMMA BuildStep == ASSUME IInv, NEW j \in jobs, Build(j) PROVE IInv'
<1>1. /\ j.at \in {"strategy.created", "strategy.test_failed"}
      /\ Mark(j, "built") /\ project' = [project EXCEPT ![j.p].stage = "built"]
      /\ jobs' = (jobs \ {j}) \union {[j EXCEPT !.at = "strategy.built"]}
      /\ runs' = runs /\ verdicts' = verdicts /\ packages' = packages
      /\ UNCHANGED <<asked, lost, testFailures, failures, restarts>>
  BY DEF Build, ForDeveloper, Mark, Stage, Move, bounds
<1>2. /\ j.at \in BeforeVerdict /\ "strategy.built" \in BeforeVerdict /\ "strategy.built" \in ToBeTested
      /\ "built" \in ProjectStage /\ "built" \in RowStatus \ {"none", "gone", "purged_reject"} /\ j.at # "judged.docs"
  BY <1>1 DEF BeforeVerdict, ToBeTested, ProjectStage, RowStatus
<1>3. j.s \in Strategies /\ Named(j.s) /\ j \in Job /\ j.rules \in Ideas
  BY <1>1, <1>2, OnJourney, Hand DEF JobType, Unnamed
<1>4. /\ Written(j.s, row, row', runs, runs', verdicts, verdicts')
      /\ Kept(j.s, row, row')
  BY <1>1, <1>2, <1>3, Hand, Marked
<1>5. project' \in ProjectSet /\ \A p \in Projects : project'[p].status = project[p].status
  BY <1>1, <1>2, <1>3, Hand, Staged
<1> QED
  BY <1>1, <1>2, <1>3, <1>4, <1>5, Hand, Passes

LEMMA SaveRunsStep == ASSUME IInv, NEW j \in jobs, SaveRuns(j) PROVE IInv'
<1>1. /\ j.at = "strategy.built" /\ j.rules # NoRules
      /\ jobs' = (jobs \ {j}) \union {[j EXCEPT !.at = "tester.mark"]}
      /\ row' = row
      /\ project' = project
      /\ verdicts' = verdicts /\ packages' = packages
      /\ UNCHANGED <<asked, lost, testFailures, failures, restarts>>
  BY DEF SaveRuns, At, Move, store, bounds
<1>2. /\ j.at \in BeforeVerdict /\ "tester.mark" \in BeforeVerdict /\ j.at \in ToBeTested
      /\ j.at \notin {"judged.docs", "package.request"}
  BY <1>1 DEF BeforeVerdict, ToBeTested, Tested
<1>3. j.s \in Strategies /\ j \in Job /\ j.rules \in Ideas /\ Named(j.s)
  BY <1>1, <1>2, OnJourney, Hand DEF JobType, Unnamed, Job
<1>4. runs' = [runs EXCEPT ![j.s] = @ \union {"full", "is", "oos"}]
  BY DEF SaveRuns
<1>5. /\ runs' \in RunSet /\ runs[j.s] \subseteq runs'[j.s] /\ Evidence \subseteq runs'[j.s]
      /\ \A t \in Strategies : t # j.s => runs'[t] = runs[t]
  BY <1>3, <1>4, Hand DEF RunSet, Evidence
<1>6. /\ Written(j.s, row, row', runs, runs', verdicts, verdicts')
      /\ Kept(j.s, row, row')
  BY <1>1, <1>2, <1>3, <1>5, Hand, Unwritten
<1> QED
  BY <1>1, <1>2, <1>3, <1>5, <1>6, Hand, Passes

LEMMA MarkTestedStep == ASSUME IInv, NEW j \in jobs, MarkTested(j) PROVE IInv'
<1>1. /\ j.at = "tester.mark"
      /\ jobs' = (jobs \ {j}) \union {[j EXCEPT !.at = "strategy.tested"]}
      /\ Mark(j, "tested")
      /\ project' = [project EXCEPT ![j.p].stage = "tested"]
      /\ runs' = runs
      /\ verdicts' = verdicts /\ packages' = packages
      /\ UNCHANGED <<asked, lost, testFailures, failures, restarts>>
  BY DEF MarkTested, Stage, Mark, At, Move, bounds
<1>2. /\ j.at \in BeforeVerdict /\ "strategy.tested" \in BeforeVerdict /\ j.at \notin ToBeTested
      /\ "tested" \in ProjectStage /\ "tested" \in RowStatus \ {"none", "gone", "purged_reject"}
      /\ j.at \notin {"judged.docs", "package.request"}
  BY <1>1 DEF BeforeVerdict, ToBeTested, Tested, ProjectStage, RowStatus
<1>3. j.s \in Strategies /\ j \in Job /\ j.rules \in Ideas /\ Named(j.s)
  BY <1>1, <1>2, OnJourney, Hand DEF JobType, Unnamed
<1>4. /\ Written(j.s, row, row', runs, runs', verdicts, verdicts')
      /\ Kept(j.s, row, row')
  BY <1>1, <1>2, <1>3, Hand, Marked
<1>5. project' \in ProjectSet /\ \A p \in Projects : project'[p].status = project[p].status
  BY <1>1, <1>2, <1>3, Hand, Staged
<1> QED
  BY <1>1, <1>2, <1>3, <1>4, <1>5, Hand, Passes

LEMMA TestFailsStep == ASSUME IInv, NEW j \in jobs, TestFails(j) PROVE IInv'
<1>1. /\ j.at = "strategy.built" /\ j.rules # NoRules
      /\ jobs' = (jobs \ {j}) \union {[j EXCEPT !.at = "strategy.test_failed"]}
      /\ Mark(j, "test_failed")
      /\ project' = [project EXCEPT ![j.p] = [stage |-> "test_failed", status |-> "stopped"]]
      /\ runs' = runs
      /\ verdicts' = verdicts /\ packages' = packages
      /\ testFailures' = testFailures + 1 /\ UNCHANGED <<asked, lost, failures, restarts>>
  BY DEF TestFails, Close, Mark, At, Move
<1>2. /\ j.at \in BeforeVerdict /\ "strategy.test_failed" \in BeforeVerdict
      /\ "strategy.test_failed" \in ToBeTested
      /\ "test_failed" \in ProjectStage /\ "test_failed" \in RowStatus \ {"none", "gone", "purged_reject"}
      /\ j.at \notin {"judged.docs", "package.request"}
  BY <1>1 DEF BeforeVerdict, ToBeTested, Tested, ProjectStage, RowStatus
<1>3. j.s \in Strategies /\ j \in Job /\ j.rules \in Ideas /\ Named(j.s) /\ testFailures' \in Nat
  BY <1>1, <1>2, OnJourney, Hand DEF JobType, Unnamed, Job
<1>4. /\ Written(j.s, row, row', runs, runs', verdicts, verdicts')
      /\ Kept(j.s, row, row')
  BY <1>1, <1>2, <1>3, Hand, Marked
<1>5. project' \in ProjectSet /\ \A p \in Projects : p # j.p => project'[p].status = project[p].status
  BY <1>1, <1>2, <1>3, Hand, Closed
<1> QED
  BY <1>1, <1>2, <1>3, <1>4, <1>5, Hand, Passes

-----------------------------------------------------------------------------
(* Tuner, robustness analyst and risk manager *)

LEMMA PassThroughStep == ASSUME IInv, NEW j \in jobs, PassThrough(j) PROVE IInv'
<1>1. /\ j.at = "strategy.tested"
      /\ jobs' = (jobs \ {j}) \union {[j EXCEPT !.at = "strategy.tuned"]}
      /\ row' = row
      /\ project' = project
      /\ runs' = runs
      /\ verdicts' = verdicts /\ packages' = packages
      /\ UNCHANGED <<asked, lost, testFailures, failures, restarts>>
  BY DEF PassThrough, At, Move, store, bounds
<1>2. /\ j.at \in BeforeVerdict /\ "strategy.tuned" \in BeforeVerdict /\ j.at \notin ToBeTested
      /\ j.at \notin {"judged.docs", "package.request"}
  BY <1>1 DEF BeforeVerdict, ToBeTested, Tested
<1>3. j.s \in Strategies /\ j \in Job /\ j.rules \in Ideas /\ Named(j.s)
  BY <1>1, <1>2, OnJourney, Hand DEF JobType, Unnamed
<1>4. /\ Written(j.s, row, row', runs, runs', verdicts, verdicts')
      /\ Kept(j.s, row, row')
  BY <1>1, <1>2, <1>3, Hand, Unwritten
<1> QED
  BY <1>1, <1>2, <1>3, <1>4, Hand, Passes

LEMMA LeaveAloneStep == ASSUME IInv, NEW j \in jobs, LeaveAlone(j) PROVE IInv'
<1>1. /\ j.at = "strategy.tested"
      /\ jobs' = (jobs \ {j}) \union {[j EXCEPT !.at = "strategy.tuned"]}
      /\ row' = row
      /\ project' = [project EXCEPT ![j.p].stage = "tuned"]
      /\ runs' = runs
      /\ verdicts' = verdicts /\ packages' = packages
      /\ UNCHANGED <<asked, lost, testFailures, failures, restarts>>
  BY DEF LeaveAlone, Stage, At, Move, bounds
<1>2. /\ j.at \in BeforeVerdict /\ "strategy.tuned" \in BeforeVerdict /\ j.at \notin ToBeTested
      /\ "tuned" \in ProjectStage /\ j.at \notin {"judged.docs", "package.request"}
  BY <1>1 DEF BeforeVerdict, ToBeTested, Tested, ProjectStage
<1>3. j.s \in Strategies /\ j \in Job /\ j.rules \in Ideas /\ Named(j.s)
  BY <1>1, <1>2, OnJourney, Hand DEF JobType, Unnamed
<1>4. /\ Written(j.s, row, row', runs, runs', verdicts, verdicts')
      /\ Kept(j.s, row, row')
  BY <1>1, <1>2, <1>3, Hand, Unwritten
<1>5. project' \in ProjectSet /\ \A p \in Projects : project'[p].status = project[p].status
  BY <1>1, <1>2, <1>3, Hand, Staged
<1> QED
  BY <1>1, <1>2, <1>3, <1>4, <1>5, Hand, Passes

LEMMA SaveTunedRunStep == ASSUME IInv, NEW j \in jobs, SaveTunedRun(j) PROVE IInv'
<1>1. /\ j.at = "tuner.run"
      /\ jobs' = (jobs \ {j}) \union {[j EXCEPT !.at = "strategy.tuned"]}
      /\ row' = row
      /\ project' = [project EXCEPT ![j.p].stage = "tuned"]
      /\ verdicts' = verdicts /\ packages' = packages
      /\ UNCHANGED <<asked, lost, testFailures, failures, restarts>>
  BY DEF SaveTunedRun, Stage, At, Move, bounds
<1>2. /\ j.at \in BeforeVerdict /\ "strategy.tuned" \in BeforeVerdict /\ j.at \notin ToBeTested
      /\ "tuned" \in ProjectStage /\ j.at \notin {"judged.docs", "package.request"}
  BY <1>1 DEF BeforeVerdict, ToBeTested, Tested, ProjectStage
<1>3. j.s \in Strategies /\ j \in Job /\ j.rules \in Ideas /\ Named(j.s)
  BY <1>1, <1>2, OnJourney, Hand DEF JobType, Unnamed
<1>4. runs' = [runs EXCEPT ![j.s] = @ \union {"tuned_oos"}]
  BY DEF SaveTunedRun
<1>5. /\ runs' \in RunSet /\ runs[j.s] \subseteq runs'[j.s]
      /\ \A t \in Strategies : t # j.s => runs'[t] = runs[t]
  BY <1>3, <1>4, Hand DEF RunSet
<1>6. /\ Written(j.s, row, row', runs, runs', verdicts, verdicts')
      /\ Kept(j.s, row, row')
  BY <1>1, <1>2, <1>3, <1>5, Hand, Unwritten
<1>7. project' \in ProjectSet /\ \A p \in Projects : project'[p].status = project[p].status
  BY <1>1, <1>2, <1>3, Hand, Staged
<1> QED
  BY <1>1, <1>2, <1>3, <1>5, <1>6, <1>7, Hand, Passes

LEMMA StressStep == ASSUME IInv, NEW j \in jobs, Stress(j) PROVE IInv'
<1>1. /\ j.at = "strategy.tuned"
      /\ jobs' = (jobs \ {j}) \union {[j EXCEPT !.at = "robustness.report"]}
      /\ row' = row
      /\ project' = [project EXCEPT ![j.p].stage = "robustness"]
      /\ runs' = runs
      /\ verdicts' = verdicts /\ packages' = packages
      /\ UNCHANGED <<asked, lost, testFailures, failures, restarts>>
  BY DEF Stress, Stage, At, Move, bounds
<1>2. /\ j.at \in BeforeVerdict /\ "robustness.report" \in BeforeVerdict /\ j.at \notin ToBeTested
      /\ "robustness" \in ProjectStage /\ j.at \notin {"judged.docs", "package.request"}
  BY <1>1 DEF BeforeVerdict, ToBeTested, Tested, ProjectStage
<1>3. j.s \in Strategies /\ j \in Job /\ j.rules \in Ideas /\ Named(j.s)
  BY <1>1, <1>2, OnJourney, Hand DEF JobType, Unnamed
<1>4. /\ Written(j.s, row, row', runs, runs', verdicts, verdicts')
      /\ Kept(j.s, row, row')
  BY <1>1, <1>2, <1>3, Hand, Unwritten
<1>5. project' \in ProjectSet /\ \A p \in Projects : project'[p].status = project[p].status
  BY <1>1, <1>2, <1>3, Hand, Staged
<1> QED
  BY <1>1, <1>2, <1>3, <1>4, <1>5, Hand, Passes

LEMMA ReviewRiskStep == ASSUME IInv, NEW j \in jobs, ReviewRisk(j) PROVE IInv'
<1>1. /\ j.at = "robustness.report"
      /\ jobs' = (jobs \ {j}) \union {[j EXCEPT !.at = "risk.report"]}
      /\ row' = row
      /\ project' = [project EXCEPT ![j.p].stage = "risk_reviewed"]
      /\ runs' = runs
      /\ verdicts' = verdicts /\ packages' = packages
      /\ UNCHANGED <<asked, lost, testFailures, failures, restarts>>
  BY DEF ReviewRisk, Stage, At, Move, bounds
<1>2. /\ j.at \in BeforeVerdict /\ "risk.report" \in BeforeVerdict /\ j.at \notin ToBeTested
      /\ "risk_reviewed" \in ProjectStage /\ j.at \notin {"judged.docs", "package.request"}
  BY <1>1 DEF BeforeVerdict, ToBeTested, Tested, ProjectStage
<1>3. j.s \in Strategies /\ j \in Job /\ j.rules \in Ideas /\ Named(j.s)
  BY <1>1, <1>2, OnJourney, Hand DEF JobType, Unnamed
<1>4. /\ Written(j.s, row, row', runs, runs', verdicts, verdicts')
      /\ Kept(j.s, row, row')
  BY <1>1, <1>2, <1>3, Hand, Unwritten
<1>5. project' \in ProjectSet /\ \A p \in Projects : project'[p].status = project[p].status
  BY <1>1, <1>2, <1>3, Hand, Staged
<1> QED
  BY <1>1, <1>2, <1>3, <1>4, <1>5, Hand, Passes

-----------------------------------------------------------------------------
(* Messages that end *)

LEMMA GiveUpDuplicateStep == ASSUME IInv, NEW j \in jobs, GiveUpDuplicate(j) PROVE IInv'
<1>1. "duplicate" \in ProjectStage
  BY DEF ProjectStage
<1> QED
  BY <1>1, Drops DEF GiveUpDuplicate, Close

LEMMA DeliverStep == ASSUME IInv, NEW j \in jobs, Deliver(j) PROVE IInv'
<1>1. "delivered" \in ProjectStage
  BY DEF ProjectStage
<1> QED
  BY <1>1, Drops DEF Deliver, Close

LEMMA UnreadableStep == ASSUME IInv, NEW j \in jobs, Unreadable(j) PROVE IInv'
<1>1. /\ ~ Carries(j) /\ Drop(j) /\ UNCHANGED project
      /\ UNCHANGED <<row, runs, verdicts, packages, campaigned, bounds>>
  BY DEF Unreadable, Carries, store
<1> QED
  BY <1>1, Drops

LEMMA DropRejectedStep == ASSUME IInv, NEW j \in jobs, DropRejected(j) PROVE IInv'
<1>1. /\ ~ Carries(j) /\ Drop(j) /\ UNCHANGED project
      /\ UNCHANGED <<row, runs, verdicts, packages, campaigned, bounds>>
  BY DEF DropRejected, At, Carries, store
<1> QED
  BY <1>1, Drops

LEMMA LeaveChampionStep == ASSUME IInv, NEW j \in jobs, LeaveChampion(j) PROVE IInv'
<1>1. /\ ~ Carries(j) /\ Drop(j) /\ UNCHANGED project
      /\ UNCHANGED <<row, runs, verdicts, packages, campaigned, bounds>>
  BY Champions DEF LeaveChampion, At, Carries, store
<1> QED
  BY <1>1, Drops

LEMMA EndCampaignStep == ASSUME IInv, NEW j \in jobs, EndCampaign(j) PROVE IInv'
<1>1. /\ ~ Carries(j) /\ Drop(j) /\ UNCHANGED project
      /\ UNCHANGED <<row, runs, verdicts, packages, campaigned, bounds>>
  BY Champions DEF EndCampaign, At, Carries, store
<1> QED
  BY <1>1, Drops

\* The row of a refused strategy is marked, and the message goes with its project.
LEMMA RefuseStep == ASSUME IInv, NEW j \in jobs, Refuse(j) PROVE IInv'
<1> DEFINE New == {}
<1>1. /\ j.at \in {"strategy.created", "strategy.test_failed"}
      /\ Mark(j, "invalid")
      /\ project' = [project EXCEPT ![j.p] = [stage |-> "invalid", status |-> "stopped"]]
      /\ jobs' = (jobs \ {j}) \union New
      /\ runs' = runs /\ verdicts' = verdicts /\ packages' = packages
      /\ UNCHANGED <<asked, lost, testFailures, failures, restarts>>
  BY DEF Refuse, ForDeveloper, Mark, Close, Drop, bounds
<1>2. /\ j.at \in BeforeVerdict /\ "invalid" \in ProjectStage /\ "invalid" \in RowStatus \ {"none", "gone", "purged_reject"}
  BY <1>1 DEF BeforeVerdict, ToBeTested, ProjectStage, RowStatus
<1>3. j.s \in Strategies /\ Named(j.s) /\ j \in Job /\ (~ AskedFor(j.s) => Agrees(j))
  BY <1>1, <1>2, OnJourney, Hand
<1>4. /\ Written(j.s, row, row', runs, runs', verdicts, verdicts')
      /\ Kept(j.s, row, row')
  BY <1>1, <1>2, <1>3, Hand, Marked
<1>5. /\ project' \in ProjectSet /\ project'[j.p].status = "stopped"
      /\ \A p \in Projects : p # j.p => project'[p].status = project[p].status
  BY <1>1, <1>2, <1>3, Hand, Closed
<1>6. ~ AskedFor(j.s) => AgreesIn(j, row', runs', verdicts')
  BY <1>1, <1>3, <1>4 DEF Agrees, AgreesIn, Kept, Written
<1>7. \A k \in New : JobType(k) /\ k.s = j.s /\ k.at \notin Reserving /\ (k = j \/ k.at = "judged.champion")
  OBVIOUS
<1>8. /\ j.at \in BeforeVerdict \union {"judge.mark", "judge.purge", "judged.docs", "package.request"}
      /\ jobs' = (jobs \ {j}) \union New /\ packages' = packages /\ testFailures' \in Nat
      /\ UNCHANGED <<asked, lost, failures, restarts>>
      /\ project'[j.p].status = "running" =>
           \/ j \in New /\ Carries(j)
           \/ ~ Carries(j) /\ project[j.p].status = "running"
  BY <1>1, <1>2, <1>5, Hand
<1> HIDE DEF New
<1> QED
  BY <1>4, <1>5, <1>6, <1>7, <1>8, Proceeds

-----------------------------------------------------------------------------
(* Delivery squad *)

LEMMA WriteDossierStep == ASSUME IInv, NEW j \in jobs, WriteDossier(j) PROVE IInv'
<1>1. /\ \/ j.at = "judged.docs" /\ j.verdict \in DELIVERABLE
         \/ j.at = "package.request" /\ j.rules # NoRules
      /\ jobs' = (jobs \ {j}) \union {[j EXCEPT !.at = "docs.ready"]}
      /\ row' = row /\ project' = project /\ runs' = runs
      /\ verdicts' = verdicts /\ packages' = packages
      /\ UNCHANGED <<asked, lost, testFailures, failures, restarts>>
  BY DEF WriteDossier, At, Move, store, bounds
<1>2. /\ j.at \in {"judged.docs", "package.request"} /\ "docs.ready" \in Shipping
      /\ j.at \notin BeforeVerdict /\ "docs.ready" \notin BeforeVerdict /\ j.at \notin ToBeTested
  BY <1>1 DEF BeforeVerdict, ToBeTested, Tested, Shipping
<1>3. j.s \in Strategies /\ j \in Job /\ j.rules \in Ideas /\ Named(j.s)
  BY <1>1, <1>2, OnJourney, Hand DEF JobType, Unnamed, Job, Judged
<1>4. /\ Written(j.s, row, row', runs, runs', verdicts, verdicts')
      /\ Kept(j.s, row, row')
  BY <1>1, <1>3, Hand, Unwritten
<1> QED
  BY <1>1, <1>2, <1>3, <1>4, Hand, Passes

LEMMA PackageStep == ASSUME IInv, NEW j \in jobs, Package(j) PROVE IInv'
<1> DEFINE archive == [s |-> j.s, n |-> j.n, rules |-> j.rules, verdict |-> j.verdict,
                       evidence |-> runs[j.s]]
<1>1. /\ j.at = "docs.ready"
      /\ jobs' = (jobs \ {j}) \union {[j EXCEPT !.at = "package.ready"]}
      /\ row' = row /\ project' = [project EXCEPT ![j.p].stage = "packaged"] /\ runs' = runs
      /\ verdicts' = verdicts /\ packages' = packages \union {archive}
      /\ UNCHANGED <<asked, lost, testFailures, failures, restarts>>
  BY DEF Package, At, Stage, Move, bounds
<1>2. /\ j.at \in Judged /\ "package.ready" \in Shipping /\ j.at \in Shipping
      /\ j.at \notin BeforeVerdict /\ "package.ready" \notin BeforeVerdict /\ j.at \notin ToBeTested
      /\ "packaged" \in ProjectStage
  BY <1>1 DEF BeforeVerdict, ToBeTested, Tested, Shipping, Judged, ProjectStage
<1>3. /\ j.s \in Strategies /\ j \in Job /\ j.rules \in Ideas /\ Named(j.s)
      /\ ~ AskedFor(j.s) => Agrees(j)
  BY <1>1, <1>2, OnJourney, Hand DEF JobType, Unnamed
<1>4. /\ Written(j.s, row, row', runs, runs', verdicts, verdicts')
      /\ Kept(j.s, row, row')
  BY <1>1, <1>3, Hand, Unwritten
<1>5. project' \in ProjectSet /\ \A p \in Projects : project'[p].status = project[p].status
  BY <1>1, <1>2, <1>3, Hand, Staged
<1>6. ASSUME ~ AskedFor(j.s) PROVE EarnedIn(archive, row', verdicts')
  <2>1. /\ row[j.s].rules = j.rules /\ Evidence \subseteq runs[j.s] /\ j.verdict \in DELIVERABLE
        /\ verdicts[j.s] = << [rules |-> j.rules, verdict |-> j.verdict, n |-> j.n] >>
    BY <1>1, <1>2, <1>3, <1>6 DEF Agrees, AgreesIn
  <2>2. /\ 1 \in 1 .. Len(verdicts[j.s]) /\ verdicts[j.s][1].rules = j.rules
        /\ verdicts[j.s][1].verdict = j.verdict
    BY <2>1
  <2> QED
    BY <1>1, <2>1, <2>2 DEF EarnedIn
<1>7. archive.s = j.s
  OBVIOUS
<1> HIDE DEF archive
<1> QED
  BY <1>1, <1>2, <1>3, <1>4, <1>5, <1>6, <1>7, Hand, Moves

-----------------------------------------------------------------------------
(* Rules that are rewritten: developer and tuner *)

LEMMA Rewrites ==
  ASSUME IInv, NEW j \in jobs, NEW q, NEW f \in Ideas, NEW u \in RowStatus \ {"none", "gone", "purged_reject"},
         \/ j.at = "strategy.created" /\ q = "strategy.built"
         \/ j.at = "strategy.tested" /\ q = "tuner.run",
         jobs' = (jobs \ {j}) \union {[j EXCEPT !.at = q, !.rules = f]},
         Rewrite(j, f, u),
         UNCHANGED <<runs, verdicts, packages, asked, lost, testFailures, failures, restarts>>,
         project' \in ProjectSet, \A p \in Projects : project'[p].status = project[p].status
  PROVE  IInv'
<1> DEFINE m == [j EXCEPT !.at = q, !.rules = f]
           New == {m}
<1>1. /\ q \in Positions /\ q \notin Unnamed \union Reserving \union Sweeping
      /\ q \notin {"judge.mark", "judge.purge", "judged.docs", "judged.champion", "package.request"}
      /\ q \in BeforeVerdict /\ j.at \in BeforeVerdict /\ (j.at \in ToBeTested <=> q \in ToBeTested)
      /\ q \notin Shipping
  BY Places DEF Shipping, Judged, BeforeVerdict, ToBeTested, Tested, Unnamed, Reserving, Sweeping
<1>2. /\ j.s \in Strategies /\ j \in Job /\ JobType(j) /\ NoRules \notin Ideas
      /\ Named(j.s) /\ (~ AskedFor(j.s) => Agrees(j))
  BY <1>1, OnJourney, Hand, PipelineAssumption
<1>3. /\ m \in Job /\ m.at = q /\ m.p = j.p /\ m.s = j.s /\ m.rules = f
      /\ m.verdict = j.verdict /\ m.n = j.n
  BY <1>1, <1>2 DEF Job
<1>4. m \in New /\ New = {m} /\ jobs' = (jobs \ {j}) \union New
  OBVIOUS
<1> HIDE DEF m, New
<1>5. JobType(m) /\ Carries(m)
  <2>1. m.at # "champion.save" /\ ~ OfChampion(m)
    BY <1>1, <1>3, Champions DEF Sweeping
  <2> QED
    BY <1>1, <1>2, <1>3, <2>1 DEF JobType, Carries
<1>6. /\ row' \in [Strategies -> RowType] /\ row'[j.s].status # "none"
      /\ row'[j.s].p = row[j.s].p /\ (row'[j.s].status = "gone" <=> row[j.s].status = "gone")
      /\ \A t \in Strategies : t # j.s => row'[t] = row[t]
      /\ row[j.s].status # "gone" =>
           row'[j.s].rules = f /\ row'[j.s].fingerprint = f /\ row'[j.s].status = u
  <2>1. CASE Exists(j.s)
    <3> DEFINE new == [row[j.s] EXCEPT !.rules = f, !.fingerprint = f, !.status = u]
    <3>1. row' = [row EXCEPT ![j.s] = new]
      BY <2>1 DEF Rewrite, Update
    <3>2. /\ new \in RowType /\ new.p = row[j.s].p /\ new.rules = f /\ new.fingerprint = f
          /\ new.status = u
      BY <1>2, Hand DEF RowType
    <3> HIDE DEF new
    <3> QED
      BY <1>2, <2>1, <3>1, <3>2, Hand DEF Exists
  <2>2. CASE ~ Exists(j.s)
    BY <1>2, <2>2, Hand DEF Rewrite, Update, Exists, Named
  <2> QED
    BY <2>1, <2>2
<1>7. Written(j.s, row, row', runs, runs', verdicts, verdicts')
  BY <1>6, Hand DEF Written
<1>8. ASSUME ~ AskedFor(j.s) PROVE AgreesIn(m, row', runs', verdicts')
  <2>1. /\ verdicts[j.s] = << >> /\ (j.at \notin ToBeTested => Evidence \subseteq runs[j.s])
        /\ row[j.s].status # "gone"
    BY <1>1, <1>2, <1>8 DEF Agrees, AgreesIn
  <2> QED
    BY <1>1, <1>3, <1>6, <2>1 DEF AgreesIn
<1>9. \A k \in New : JobType(k) /\ k.s = j.s /\ k.at \notin Reserving /\ (k = m \/ k.at = "judged.champion")
  BY <1>1, <1>3, <1>4, <1>5
<1>10. /\ m.s = j.s /\ m.p = j.p /\ jobs' = (jobs \ {j}) \union New
       /\ j.at \in BeforeVerdict \union {"judge.mark", "judge.purge", "judged.docs", "package.request"}
       /\ packages' = packages /\ testFailures' \in Nat /\ UNCHANGED <<asked, lost, failures, restarts>>
       /\ \A p \in Projects : p # j.p => project'[p].status = project[p].status
       /\ project'[j.p].status = "running" =>
            \/ m \in New /\ Carries(m)
            \/ ~ Carries(j) /\ project[j.p].status = "running"
  BY <1>1, <1>3, <1>4, <1>5, Hand
<1> QED
  BY ONLY IInv, j \in jobs, project' \in ProjectSet, <1>7, <1>8, <1>9, <1>10, Proceeds

LEMMA RepairStep == ASSUME IInv, NEW j \in jobs, Repair(j) PROVE IInv'
<1>1. PICK f \in Ideas \ {j.rules} :
        /\ Rewrite(j, f, "built")
        /\ jobs' = (jobs \ {j}) \union {[j EXCEPT !.at = "strategy.built", !.rules = f]}
  BY DEF Repair, Rewrite
<1>2. /\ j.at = "strategy.created" /\ project' = [project EXCEPT ![j.p].stage = "built"]
      /\ UNCHANGED <<runs, verdicts, packages, asked, lost, testFailures, failures, restarts>>
  BY DEF Repair, At, Stage, bounds
<1>3. "built" \in ProjectStage /\ "built" \in RowStatus \ {"none", "gone", "purged_reject"}
  BY DEF ProjectStage, RowStatus
<1>4. project' \in ProjectSet /\ \A p \in Projects : project'[p].status = project[p].status
  BY <1>2, <1>3, Hand, Staged
<1> QED
  BY <1>1, <1>2, <1>3, <1>4, Rewrites

LEMMA TuneStep == ASSUME IInv, NEW j \in jobs, Tune(j) PROVE IInv'
<1>1. PICK f \in Ideas :
        /\ Rewrite(j, f, "tuned")
        /\ jobs' = (jobs \ {j}) \union {[j EXCEPT !.at = "tuner.run", !.rules = f]}
  BY DEF Tune, Rewrite
<1>2. /\ j.at = "strategy.tested" /\ project' = project
      /\ UNCHANGED <<runs, verdicts, packages, asked, lost, testFailures, failures, restarts>>
  BY DEF Tune, At, bounds
<1>3. "tuned" \in RowStatus \ {"none", "gone", "purged_reject"}
  BY DEF RowStatus
<1>4. project' \in ProjectSet /\ \A p \in Projects : project'[p].status = project[p].status
  BY <1>2, Hand
<1> QED
  BY <1>1, <1>2, <1>3, <1>4, Rewrites

-----------------------------------------------------------------------------
(* Judge *)

LEMMA SaveVerdictStep == ASSUME IInv, NEW j \in jobs, SaveVerdict(j) PROVE IInv'
<1>1. PICK v \in Verdict :
        /\ verdicts' = [verdicts EXCEPT ![j.s] = Append(@, [rules |-> j.rules, verdict |-> v, n |-> j.n])]
        /\ jobs' = (jobs \ {j}) \union {[j EXCEPT !.at = "judge.mark", !.verdict = v]}
  BY DEF SaveVerdict
<1> DEFINE m == [j EXCEPT !.at = "judge.mark", !.verdict = v]
           New == {m}
<1>2. /\ j.at = "risk.report" /\ project' = project /\ row' = row /\ runs' = runs
      /\ UNCHANGED <<packages, asked, lost, testFailures, failures, restarts>>
  BY DEF SaveVerdict, At, bounds
<1>3. /\ j.at \in BeforeVerdict /\ j.at \notin ToBeTested /\ j.at \notin Unnamed
      /\ "judge.mark" \in Positions /\ "judge.mark" \notin Unnamed \union Reserving \union Sweeping
      /\ "judge.mark" \notin BeforeVerdict \union ToBeTested \union Shipping
  BY <1>2, Places DEF Shipping, Judged, BeforeVerdict, ToBeTested, Tested, Unnamed, Reserving, Sweeping
<1>4. /\ j.s \in Strategies /\ j \in Job /\ JobType(j) /\ Named(j.s) /\ j.rules \in Ideas
      /\ ~ AskedFor(j.s) => Agrees(j)
  BY <1>2, <1>3, OnJourney, Hand DEF JobType
<1>5. /\ m \in Job /\ m.at = "judge.mark" /\ m.p = j.p /\ m.s = j.s /\ m.rules = j.rules
      /\ m.verdict = v /\ m.n = j.n
  BY <1>3, <1>4 DEF Job
<1>6. m \in New /\ jobs' = (jobs \ {j}) \union New /\ (\A k \in New : k = m)
  BY <1>1
<1> HIDE DEF m, New
<1>7. JobType(m) /\ Carries(m)
  BY <1>3, <1>4, <1>5, Champions DEF JobType, Carries
<1>8. /\ verdicts' \in VerdictSet
      /\ verdicts'[j.s] = Append(verdicts[j.s], [rules |-> j.rules, verdict |-> v, n |-> j.n])
      /\ \A t \in Strategies : t # j.s => verdicts'[t] = verdicts[t]
  <2> DEFINE V == [rules : Ideas, verdict : Verdict, n : 0 .. MaxTrouble]
             x == [rules |-> j.rules, verdict |-> v, n |-> j.n]
  <2>1. x \in V /\ verdicts \in [Strategies -> Seq(V)]
    BY <1>4, Hand DEF Job, VerdictSet
  <2>2. verdicts' = [verdicts EXCEPT ![j.s] = Append(verdicts[j.s], x)] /\ j.s \in Strategies
    BY <1>1, <1>4
  <2>3. VerdictSet = [Strategies -> Seq(V)]
    BY DEF VerdictSet
  <2> HIDE DEF V, x
  <2>4. Append(verdicts[j.s], x) \in Seq(V)
    BY <2>1, <2>2
  <2>5. /\ verdicts' \in VerdictSet /\ verdicts'[j.s] = Append(verdicts[j.s], x)
        /\ \A t \in Strategies : t # j.s => verdicts'[t] = verdicts[t]
    BY <2>1, <2>2, <2>3, <2>4
  <2> QED
    BY <2>5 DEF x
<1>9. Written(j.s, row, row', runs, runs', verdicts, verdicts')
  BY <1>2, <1>4, <1>8, Hand DEF Written, Exists, Named
<1>10. ASSUME ~ AskedFor(j.s) PROVE AgreesIn(m, row', runs', verdicts')
  <2>1. /\ verdicts[j.s] = << >> /\ Evidence \subseteq runs[j.s]
        /\ row[j.s].fingerprint = j.rules /\ row[j.s].rules = j.rules
        /\ row[j.s].status \notin {"gone", "purged_reject"}
    BY <1>2, <1>3, <1>4, <1>10 DEF Agrees, AgreesIn
  <2>2. verdicts'[j.s] = << [rules |-> m.rules, verdict |-> m.verdict, n |-> m.n] >>
    BY <1>5, <1>8, <2>1
  <2> QED
    BY <1>2, <1>3, <1>4, <1>5, <2>1, <2>2 DEF AgreesIn
<1>11. \A k \in New : JobType(k) /\ k.s = j.s /\ k.at \notin Reserving /\ (k = m \/ k.at = "judged.champion")
  BY <1>3, <1>5, <1>6, <1>7
<1>12. /\ m.s = j.s /\ m.p = j.p /\ jobs' = (jobs \ {j}) \union New /\ m \in New /\ Carries(m)
       /\ j.at \in BeforeVerdict \union {"judge.mark", "judge.purge", "judged.docs", "package.request"}
       /\ packages' = packages /\ testFailures' \in Nat /\ UNCHANGED <<asked, lost, failures, restarts>>
       /\ project' \in ProjectSet
       /\ \A p \in Projects : p # j.p => project'[p].status = project[p].status
  BY <1>2, <1>3, <1>5, <1>6, <1>7, Hand
<1> QED
  BY ONLY IInv, j \in jobs, <1>9, <1>10, <1>11, <1>12, Proceeds

\* What the judge sends on: to the doc writer, whose message is the journey, and to the champion.
LEMMA Announced ==
  ASSUME IInv, NEW j \in jobs, Announce(j), j.at \in {"judge.mark", "judge.purge"}
  PROVE  \E m, New :
           /\ jobs' = (jobs \ {j}) \union New /\ m \in New
           /\ \A k \in New : JobType(k) /\ k.s = j.s /\ k.at \notin Reserving /\ (k = m \/ k.at = "judged.champion")
           /\ m.at = "judged.docs" /\ m.s = j.s /\ m.p = j.p /\ m.rules = j.rules
           /\ m.verdict = j.verdict /\ m.n = j.n /\ (m.verdict \in DELIVERABLE => Carries(m))
<1> DEFINE m == [j EXCEPT !.at = "judged.docs"]
           c == [j EXCEPT !.at = "judged.champion"]
           New == {m, c}
<1>1. jobs' = (jobs \ {j}) \union New
  BY DEF Announce
<1>2. /\ "judged.docs" \in Positions /\ "judged.docs" \notin Unnamed \union Reserving \union Sweeping
      /\ "judged.champion" \in Positions
      /\ "judged.champion" \notin Unnamed \union Reserving \union Sweeping /\ j.at \notin Unnamed
  BY Places DEF Shipping, Judged, BeforeVerdict, ToBeTested, Tested, Unnamed, Reserving, Sweeping
<1>3. j \in Job /\ JobType(j)
  BY Hand
<1>4. /\ m \in Job /\ m.at = "judged.docs" /\ m.p = j.p /\ m.s = j.s /\ m.rules = j.rules
      /\ m.verdict = j.verdict /\ m.n = j.n
      /\ c \in Job /\ c.at = "judged.champion" /\ c.s = j.s /\ c.rules = j.rules /\ c.verdict = j.verdict
  BY <1>2, <1>3, MovedJob
<1>5. m \in New /\ \A k \in New : k = m \/ k = c
  OBVIOUS
<1> HIDE DEF m, c, New
<1>6. JobType(m) /\ JobType(c)
  BY <1>2, <1>3, <1>4 DEF JobType, Sweeping
<1>7. m.verdict \in DELIVERABLE => Carries(m)
  BY <1>4, Champions DEF Carries
<1>8. \A k \in New : JobType(k) /\ k.s = j.s /\ k.at \notin Reserving /\ (k = m \/ k.at = "judged.champion")
  BY <1>2, <1>4, <1>5, <1>6
<1> QED
  BY <1>1, <1>4, <1>5, <1>7, <1>8

LEMMA MarkJudgedStep == ASSUME IInv, NEW j \in jobs, MarkJudged(j) PROVE IInv'
<1>1. /\ j.at = "judge.mark" /\ Mark(j, JudgedAs[j.verdict])
      /\ project' = [project EXCEPT ![j.p] = [stage |-> JudgedAs[j.verdict],
                                              status |-> IF j.verdict = "PASS" THEN "running" ELSE "done"]]
      /\ runs' = runs /\ verdicts' = verdicts /\ packages' = packages
      /\ UNCHANGED <<asked, lost, testFailures, failures, restarts>>
  BY DEF MarkJudged, At, Mark, Close, bounds
<1>2. /\ j.at \in Judged /\ j.at \notin Unnamed /\ j.at \notin BeforeVerdict /\ j.at \notin ToBeTested
      /\ "judge.purge" \in Positions /\ "judge.purge" \notin Unnamed \union Reserving \union Sweeping
      /\ "judge.purge" \notin BeforeVerdict \union ToBeTested \union Shipping
      /\ "judged.docs" \notin BeforeVerdict \union ToBeTested \union Shipping
  BY <1>1, Places DEF Shipping, Judged, BeforeVerdict, ToBeTested, Tested, Unnamed, Reserving, Sweeping
<1>3. /\ j.s \in Strategies /\ j \in Job /\ JobType(j) /\ j.verdict \in Verdict
      /\ Named(j.s) /\ (~ AskedFor(j.s) => Agrees(j))
  BY <1>1, <1>2, OnJourney, Hand DEF JobType
<1>4. JudgedAs[j.verdict] \in ProjectStage /\ JudgedAs[j.verdict] \in RowStatus \ {"none", "gone", "purged_reject"}
  BY <1>3 DEF JudgedAs, Verdict, ProjectStage, RowStatus
<1>5. /\ Written(j.s, row, row', runs, runs', verdicts, verdicts')
      /\ Kept(j.s, row, row')
  <2> HIDE DEF JudgedAs
  <2> QED
    BY <1>1, <1>3, <1>4, Hand, Marked
<1>6. /\ project' \in ProjectSet /\ project'[j.p].status = IF j.verdict = "PASS" THEN "running" ELSE "done"
      /\ \A p \in Projects : p # j.p => project'[p].status = project[p].status
  <2> DEFINE u == IF j.verdict = "PASS" THEN "running" ELSE "done"
  <2>1. u \in {"none", "running", "stopped", "done"}
    OBVIOUS
  <2>2. project' = [project EXCEPT ![j.p] = [stage |-> JudgedAs[j.verdict], status |-> u]]
    BY <1>1
  <2> HIDE DEF u, JudgedAs
  <2>3. /\ project' \in ProjectSet /\ project'[j.p].status = u
        /\ \A p \in Projects : p # j.p => project'[p].status = project[p].status
    BY <1>3, <1>4, <2>1, <2>2, Hand, Closed
  <2> QED
    BY <2>3 DEF u
<1>7. \E m, New :
        /\ jobs' = (jobs \ {j}) \union New /\ m \in New
        /\ \A k \in New : JobType(k) /\ k.s = j.s /\ k.at \notin Reserving /\ (k = m \/ k.at = "judged.champion")
        /\ m.at = (IF j.verdict = "REJECT" THEN "judge.purge" ELSE "judged.docs")
        /\ m.s = j.s /\ m.p = j.p /\ m.rules = j.rules
        /\ m.verdict = j.verdict /\ m.n = j.n /\ (j.verdict = "PASS" => Carries(m))
  <2>1. CASE j.verdict = "REJECT"
    <3> DEFINE m == [j EXCEPT !.at = "judge.purge"]
               New == {m}
    <3>1. jobs' = (jobs \ {j}) \union New /\ m \in New /\ \A k \in New : k = m
      BY <2>1 DEF MarkJudged, Move
    <3>2. /\ m \in Job /\ m.at = "judge.purge" /\ m.p = j.p /\ m.s = j.s /\ m.rules = j.rules
          /\ m.verdict = j.verdict /\ m.n = j.n
      BY <1>2, <1>3, MovedJob
    <3> HIDE DEF m, New
    <3>3. JobType(m)
      BY <1>1, <1>2, <1>3, <3>2 DEF JobType, Sweeping
    <3>4. \A k \in New : JobType(k) /\ k.s = j.s /\ k.at \notin Reserving /\ (k = m \/ k.at = "judged.champion")
      BY <1>2, <3>1, <3>2, <3>3
    <3> QED
      BY <2>1, <3>1, <3>2, <3>4
  <2>2. CASE j.verdict # "REJECT"
    <3>1. Announce(j) /\ j.at \in {"judge.mark", "judge.purge"}
      BY <1>1, <2>2 DEF MarkJudged
    <3> HIDE DEF Announce
    <3> QED
      BY <2>2, <3>1, Announced DEF DELIVERABLE
  <2> QED
    BY <2>1, <2>2
<1>8. PICK m, New :
        /\ jobs' = (jobs \ {j}) \union New /\ m \in New
        /\ \A k \in New : JobType(k) /\ k.s = j.s /\ k.at \notin Reserving /\ (k = m \/ k.at = "judged.champion")
        /\ m.at = (IF j.verdict = "REJECT" THEN "judge.purge" ELSE "judged.docs")
        /\ m.s = j.s /\ m.p = j.p /\ m.rules = j.rules
        /\ m.verdict = j.verdict /\ m.n = j.n /\ (j.verdict = "PASS" => Carries(m))
  BY <1>7
<1>9. ASSUME ~ AskedFor(j.s) PROVE AgreesIn(m, row', runs', verdicts')
  BY <1>1, <1>2, <1>3, <1>5, <1>8, <1>9 DEF Agrees, AgreesIn, Kept, Written
<1>10. /\ j.at \in BeforeVerdict \union {"judge.mark", "judge.purge", "judged.docs", "package.request"}
       /\ packages' = packages /\ testFailures' \in Nat /\ UNCHANGED <<asked, lost, failures, restarts>>
       /\ project'[j.p].status = "running" =>
            \/ m \in New /\ Carries(m)
            \/ ~ Carries(j) /\ project[j.p].status = "running"
  BY <1>1, <1>6, <1>8, Hand
<1> QED
  BY ONLY IInv, j \in jobs, <1>5, <1>6, <1>8, <1>9, <1>10, Proceeds

LEMMA PurgeStep == ASSUME IInv, NEW j \in jobs, Purge(j) PROVE IInv'
<1>1. /\ j.at = "judge.purge" /\ project' = project /\ verdicts' = verdicts /\ packages' = packages
      /\ runs' = [runs EXCEPT ![j.s] = {}]
      /\ Update(j.s, [row[j.s] EXCEPT !.rules = NoRules, !.status = "purged_reject"])
      /\ UNCHANGED <<asked, lost, testFailures, failures, restarts>>
  BY DEF Purge, At, bounds
<1>2. /\ j.at \in Judged /\ j.at \notin Unnamed /\ j.at \notin BeforeVerdict
      /\ "judged.docs" \notin BeforeVerdict \union ToBeTested \union Shipping
      /\ "purged_reject" \in RowStatus
  BY <1>1, Places DEF Shipping, Judged, BeforeVerdict, ToBeTested, Tested, Unnamed, RowStatus
<1>3. /\ j.s \in Strategies /\ Named(j.s) /\ JobType(j) /\ (~ AskedFor(j.s) => Agrees(j))
  BY <1>1, <1>2, OnJourney, Hand
<1>4. /\ row' \in [Strategies -> RowType] /\ row'[j.s].status # "none"
      /\ row'[j.s].p = row[j.s].p /\ (row'[j.s].status = "gone" <=> row[j.s].status = "gone")
      /\ \A t \in Strategies : t # j.s => row'[t] = row[t]
      /\ row[j.s].status # "gone" =>
           row'[j.s].fingerprint = row[j.s].fingerprint /\ row'[j.s].status = "purged_reject"
  <2>1. CASE Exists(j.s)
    <3> DEFINE new == [row[j.s] EXCEPT !.rules = NoRules, !.status = "purged_reject"]
    <3>1. row' = [row EXCEPT ![j.s] = new]
      BY <1>1, <2>1 DEF Update
    <3>2. /\ new \in RowType /\ new.p = row[j.s].p /\ new.fingerprint = row[j.s].fingerprint
          /\ new.status = "purged_reject"
      BY <1>2, <1>3, Hand DEF RowType
    <3> HIDE DEF new
    <3> QED
      BY <1>3, <2>1, <3>1, <3>2, Hand DEF Exists
  <2>2. CASE ~ Exists(j.s)
    BY <1>1, <1>3, <2>2, Hand DEF Update, Exists, Named
  <2> QED
    BY <2>1, <2>2
<1>5. runs' \in RunSet /\ \A t \in Strategies : t # j.s => runs'[t] = runs[t]
  BY <1>1, <1>3, Hand DEF RunSet
<1>6. Written(j.s, row, row', runs, runs', verdicts, verdicts')
  BY <1>1, <1>2, <1>4, <1>5, Hand DEF Written
<1>7. PICK m, New :
        /\ jobs' = (jobs \ {j}) \union New /\ m \in New
        /\ \A k \in New : JobType(k) /\ k.s = j.s /\ k.at \notin Reserving /\ (k = m \/ k.at = "judged.champion")
        /\ m.at = "judged.docs" /\ m.s = j.s /\ m.p = j.p /\ m.rules = j.rules
        /\ m.verdict = j.verdict /\ m.n = j.n
  <2>1. Announce(j) /\ j.at \in {"judge.mark", "judge.purge"}
    BY <1>1 DEF Purge
  <2> HIDE DEF Announce
  <2> QED
    BY <2>1, Announced
<1>8. ASSUME ~ AskedFor(j.s) PROVE AgreesIn(m, row', runs', verdicts')
  BY <1>1, <1>2, <1>3, <1>4, <1>7, <1>8 DEF Agrees, AgreesIn
<1>9. /\ j.at \in BeforeVerdict \union {"judge.mark", "judge.purge", "judged.docs", "package.request"}
      /\ packages' = packages /\ testFailures' \in Nat /\ UNCHANGED <<asked, lost, failures, restarts>>
      /\ project' \in ProjectSet /\ \A p \in Projects : p # j.p => project'[p].status = project[p].status
      /\ project'[j.p].status = "running" =>
            \/ m \in New /\ Carries(m)
            \/ ~ Carries(j) /\ project[j.p].status = "running"
  BY <1>1, Hand DEF Carries
<1> QED
  BY ONLY IInv, j \in jobs, <1>6, <1>7, <1>8, <1>9, Proceeds

-----------------------------------------------------------------------------
(* Architect and champion: strategies that are named and saved *)

\* An identifier nobody uses, and new rules, for a message of the architect or the champion.
LEMMA Names ==
  ASSUME IInv, NEW j \in jobs, NEW s \in Strategies, Fresh(s), NEW f \in Ideas, NEW q,
         \/ j.at = "feature_spec.created" /\ q = "architect.save"
         \/ j.at = "champion.sweep" /\ q = "champion.save" /\ j.left > 0,
         jobs' = (jobs \ {j}) \union {[j EXCEPT !.at = q, !.s = s, !.rules = f]},
         UNCHANGED <<project, row, runs, verdicts, packages, asked, lost, testFailures, failures, restarts>>
  PROVE  IInv'
<1> DEFINE m == [j EXCEPT !.at = q, !.s = s, !.rules = f]
           New == {m}
<1>1. /\ q \in Positions /\ q \in Reserving /\ q \notin Unnamed /\ (q \in Sweeping => j.at \in Sweeping)
      /\ q \notin {"judge.mark", "judge.purge", "judged.docs", "judged.champion", "strategy.built",
                   "package.request"}
  BY Places DEF Unnamed, Reserving, Sweeping
<1>2. j \in Job /\ JobType(j)
  BY Hand
<1>3. /\ m \in Job /\ m.at = q /\ m.p = j.p /\ m.s = s /\ m.rules = f
      /\ m.verdict = j.verdict /\ m.n = j.n /\ m.left = j.left /\ m.gen = j.gen
  BY <1>1, <1>2 DEF Job
<1>4. m \in New /\ jobs' = (jobs \ {j}) \union New /\ (\A k \in New : k = m)
  OBVIOUS
<1> HIDE DEF m, New
<1>5. JobType(m)
  BY <1>1, <1>2, <1>3 DEF JobType
<1>6. Carries(m) \/ ~ Carries(j)
  BY <1>1, <1>3, Champions DEF Carries
<1>7. Coherent(s)'
  <2>1. Coherent(s) /\ (AskedFor(s)' <=> AskedFor(s)) /\ m.s = s /\ m.at \in Reserving
    BY <1>1, <1>3, Hand
  <2>2. \A k \in jobs' : k \in jobs \/ k = m
    BY <1>4
  <2>3. row'[s] = row[s] /\ verdicts'[s] = verdicts[s] /\ packages' = packages
    OBVIOUS
  <2> QED
    BY ONLY s \in Strategies, Fresh(s), <2>1, <2>2, <2>3, Reserves
<1>8. ~ Exists(s)'
  BY DEF Fresh, Exists
<1>9. /\ \A k \in New : JobType(k) /\ k.s = s
      /\ project'[j.p].status = "running" =>
           \/ \E k \in New : k.p = j.p /\ Carries(k)
           \/ ~ Carries(j) /\ project[j.p].status = "running"
      /\ \A k \in packages' : k.s \in Strategies /\ (k \in packages \/ k.s = s)
  BY <1>3, <1>4, <1>5, <1>6, Hand
<1> QED
  BY <1>4, <1>7, <1>8, <1>9, Hand, Handled

LEMMA DesignStep == ASSUME IInv, NEW j \in jobs, Design(j) PROVE IInv'
<1>1. PICK s \in Strategies, f \in Ideas :
        Fresh(s) /\ jobs' = (jobs \ {j}) \union {[j EXCEPT !.at = "architect.save", !.s = s, !.rules = f]}
  BY DEF Design
<1>2. /\ j.at = "feature_spec.created"
      /\ UNCHANGED <<project, row, runs, verdicts, packages, asked, lost, testFailures, failures, restarts>>
  BY DEF Design, At, store, bounds
<1> QED
  BY <1>1, <1>2, Names

LEMMA ChooseCellStep == ASSUME IInv, NEW j \in jobs, ChooseCell(j) PROVE IInv'
<1>1. PICK s \in Strategies, f \in Ideas :
        Fresh(s) /\ jobs' = (jobs \ {j}) \union {[j EXCEPT !.at = "champion.save", !.s = s, !.rules = f]}
  BY DEF ChooseCell
<1>2. /\ j.at = "champion.sweep" /\ j.left > 0
      /\ UNCHANGED <<project, row, runs, verdicts, packages, asked, lost, testFailures, failures, restarts>>
  BY DEF ChooseCell, At, store, bounds
<1> QED
  BY <1>1, <1>2, Names

LEMMA SaveDesignStep == ASSUME IInv, NEW j \in jobs, SaveDesign(j) PROVE IInv'
<1> DEFINE m == [j EXCEPT !.at = "strategy.created"]
           New == {m}
<1>1. /\ j.at = "architect.save" /\ row' = [row EXCEPT ![j.s] = NewRow(j, j.gen)]
      /\ project' = [project EXCEPT ![j.p].stage = "created"]
      /\ UNCHANGED <<runs, verdicts, packages, asked, lost, testFailures, failures, restarts>>
  BY DEF SaveDesign, At, Stage, bounds
<1>2. /\ j.at \in Reserving /\ j.at \notin Unnamed /\ "strategy.created" \in Positions
      /\ "strategy.created" \notin Unnamed \union Reserving \union Sweeping
      /\ "created" \in ProjectStage /\ "created" \in RowStatus
  BY <1>1, Places DEF Shipping, Judged, BeforeVerdict, ToBeTested, Tested, Unnamed, Reserving, Sweeping,
                      ProjectStage, RowStatus
<1>3. j.s \in Strategies /\ j \in Job /\ j.p \in Projects /\ JobType(j) /\ j.rules \in Ideas
  BY <1>1, <1>2, Hand DEF JobType
<1>4. /\ m \in Job /\ m.at = "strategy.created" /\ m.p = j.p /\ m.s = j.s /\ m.rules = j.rules
      /\ m.gen = j.gen
  BY <1>2, <1>3, MovedJob
<1>5. m \in New /\ jobs' = (jobs \ {j}) \union New /\ (\A k \in New : k = m)
  BY DEF SaveDesign, Move
<1> HIDE DEF m, New
<1>6. JobType(m) /\ Carries(m)
  BY <1>2, <1>3, <1>4, Champions DEF JobType, Carries
<1>7. NewRow(j, j.gen) \in RowType /\ NewRow(j, j.gen).p = j.p
  BY <1>2, <1>3, Hand DEF NewRow, RowType
<1>8. /\ row' \in [Strategies -> RowType] /\ row'[j.s] = NewRow(j, m.gen)
      /\ \A t \in Strategies : t # j.s => row'[t] = row[t]
  BY <1>1, <1>3, <1>4, <1>7, Hand
<1>9. Coherent(j.s)'
  <2>1. \A k \in jobs' : k.s = j.s => (k \in jobs /\ k # j) \/ k = m \/ k.at = "champion.sweep"
    BY <1>5
  <2>2. Coherent(j.s) /\ (AskedFor(j.s)' <=> AskedFor(j.s)) /\ verdicts'[j.s] = verdicts[j.s] /\ packages' = packages
    BY <1>1, <1>3, Hand
  <2> QED
    BY <1>2, <1>3, <1>4, <1>8, <2>1, <2>2, Saves
<1>10. project' \in ProjectSet /\ \A p \in Projects : project'[p].status = project[p].status
  BY <1>1, <1>2, <1>3, Hand, Staged
<1>11. /\ \A k \in New : JobType(k) /\ k.s = j.s
       /\ \E k \in New : k.p = j.p /\ Carries(k)
       /\ row'[j.s].p \in Projects
  BY <1>3, <1>4, <1>5, <1>6, <1>7, <1>8
<1>12. /\ runs' \in RunSet /\ verdicts' \in VerdictSet /\ row' \in [Strategies -> RowType]
       /\ \A t \in Strategies : t # j.s => row'[t] = row[t] /\ runs'[t] = runs[t] /\ verdicts'[t] = verdicts[t]
       /\ \A k \in packages' : k.s \in Strategies /\ (k \in packages \/ k.s = j.s)
       /\ testFailures' \in Nat /\ UNCHANGED <<asked, lost, failures, restarts>>
       /\ j.s \in Strategies \union {NoRules}
       /\ jobs' = (jobs \ {j}) \union New
  BY <1>1, <1>3, <1>5, <1>8, Hand
<1> QED
  BY ONLY IInv, j \in jobs, <1>9, <1>10, <1>11, <1>12, Handled

\* The message of a sweep: no journey of the strategy it names is touched.
LEMMA Sweeps ==
  ASSUME IInv, NEW j \in jobs, j.at \in {"judged.champion", "champion.sweep"}, j.gen < MaxGeneration,
         NEW m \in Job, m.at = "champion.sweep", m.s = j.s, m.p = j.p, m.rules = j.rules, m.gen = j.gen,
         jobs' = (jobs \ {j}) \union {m},
         UNCHANGED <<project, row, runs, verdicts, packages, asked, lost, testFailures, failures, restarts>>
  PROVE  IInv'
<1> DEFINE New == {m}
<1>1. /\ j.at \notin Unnamed /\ j.at \notin Reserving
      /\ m.at \notin Unnamed /\ m.at \notin Reserving
      /\ OfChampion(m) /\ OfChampion(j)
  BY Champions DEF Unnamed, Reserving
<1>2. j.s \in Strategies /\ JobType(j) /\ j.rules \in Ideas
  BY <1>1, Hand DEF JobType
<1>3. JobType(m)
  BY <1>1, <1>2 DEF JobType
<1>4. m \in New /\ jobs' = (jobs \ {j}) \union New /\ (\A k \in New : k = m)
  OBVIOUS
<1> HIDE DEF New
<1>5. Coherent(j.s) /\ (AskedFor(j.s)' <=> AskedFor(j.s)) /\ Named(j.s) /\ (Exists(j.s) => row[j.s].p \in Projects)
  BY <1>1, <1>2, Hand DEF Coherent
<1>6. Coherent(j.s)'
  <2>1. \A k \in jobs' : k.s = j.s => k \in jobs \/ k = m
    BY <1>4
  <2>2. row'[j.s] = row[j.s] /\ verdicts'[j.s] = verdicts[j.s] /\ runs'[j.s] = runs[j.s] /\ packages' = packages
    OBVIOUS
  <2> QED
    BY ONLY <1>1, <1>2, <1>5, <2>1, <2>2, Champion2
<1>7. Exists(j.s)' => row'[j.s].p \in Projects
  BY <1>5 DEF Exists
<1>8. /\ \A k \in New : JobType(k) /\ k.s = j.s
      /\ \A k \in packages' : k.s \in Strategies /\ (k \in packages \/ k.s = j.s)
      /\ project'[j.p].status = "running" =>
           \/ \E k \in New : k.p = j.p /\ Carries(k)
           \/ ~ Carries(j) /\ project[j.p].status = "running"
  BY <1>1, <1>2, <1>3, <1>4, Hand DEF Carries
<1>9. /\ project' \in ProjectSet /\ \A p \in Projects : p # j.p => project'[p].status = project[p].status
      /\ runs' \in RunSet /\ verdicts' \in VerdictSet /\ row' \in [Strategies -> RowType]
      /\ \A t \in Strategies : t # j.s => row'[t] = row[t] /\ runs'[t] = runs[t] /\ verdicts'[t] = verdicts[t]
      /\ testFailures' \in Nat /\ UNCHANGED <<asked, lost, failures, restarts>>
      /\ j.s \in Strategies \union {NoRules}
      /\ jobs' = (jobs \ {j}) \union New
  BY <1>2, <1>4, Hand
<1> QED
  BY ONLY IInv, j \in jobs, <1>6, <1>7, <1>8, <1>9, Handled

LEMMA PromoteStep == ASSUME IInv, NEW j \in jobs, Promote(j) PROVE IInv'
<1> DEFINE m == [j EXCEPT !.at = "champion.sweep", !.left = PromoteTopK]
<1>1. /\ j.at = "judged.champion" /\ j.gen < MaxGeneration /\ jobs' = (jobs \ {j}) \union {m}
      /\ UNCHANGED <<project, row, runs, verdicts, packages, asked, lost, testFailures, failures, restarts>>
  BY DEF Promote, At, store, bounds
<1>2. "champion.sweep" \in Positions /\ PromoteTopK \in 0 .. PromoteTopK
  BY Places, PipelineAssumption DEF Sweeping
<1>3. /\ m \in Job /\ m.at = "champion.sweep" /\ m.p = j.p /\ m.s = j.s /\ m.rules = j.rules
      /\ m.gen = j.gen
  BY <1>2, Hand DEF Job
<1> HIDE DEF m
<1> QED
  BY <1>1, <1>3, Sweeps

LEMMA SkipCellStep == ASSUME IInv, NEW j \in jobs, SkipCell(j) PROVE IInv'
<1> DEFINE m == [j EXCEPT !.left = @ - 1]
<1>1. /\ j.at = "champion.sweep" /\ j.left > 0 /\ jobs' = (jobs \ {j}) \union {m}
      /\ UNCHANGED <<project, row, runs, verdicts, packages, asked, lost, testFailures, failures, restarts>>
  BY DEF SkipCell, At, store, bounds
<1>2. j.gen < MaxGeneration /\ j \in Job /\ PromoteTopK \in Nat
  BY <1>1, Hand, PipelineAssumption DEF JobType, Sweeping
<1>3. j.left - 1 \in 0 .. PromoteTopK
  BY <1>1, <1>2 DEF Job
<1>4. /\ m \in Job /\ m.at = "champion.sweep" /\ m.p = j.p /\ m.s = j.s /\ m.rules = j.rules
      /\ m.gen = j.gen
  BY <1>1, <1>2, <1>3 DEF Job
<1> HIDE DEF m
<1> QED
  BY <1>1, <1>2, <1>4, Sweeps

\* The child's row is saved, its message goes to the developer, and the sweep goes on.
LEMMA SaveChildStep == ASSUME IInv, NEW j \in jobs, SaveChild(j) PROVE IInv'
<1> DEFINE c == [j EXCEPT !.at = "champion.sweep", !.left = @ - 1]
           m == [NewJob(j.p) EXCEPT !.at = "strategy.created", !.s = j.s, !.rules = j.rules,
                                    !.gen = j.gen + 1]
           New == {c, m}
<1>1. /\ j.at = "champion.save" /\ row' = [row EXCEPT ![j.s] = NewRow(j, j.gen + 1)]
      /\ UNCHANGED <<project, runs, verdicts, packages, asked, lost, testFailures, failures, restarts>>
      /\ jobs' = (jobs \ {j}) \union New
  BY DEF SaveChild, At, bounds
<1>2. /\ j.at \in Reserving /\ j.at \notin Unnamed /\ j.at \in Sweeping
      /\ "strategy.created" \in Positions /\ "champion.sweep" \in Positions
      /\ "strategy.created" \notin Unnamed \union Reserving \union Sweeping
      /\ "champion.sweep" \notin Unnamed \union Reserving
      /\ "created" \in RowStatus
  BY <1>1, Places DEF Shipping, Judged, BeforeVerdict, ToBeTested, Tested, Unnamed, Reserving, Sweeping,
                      RowStatus
<1>3. j.s \in Strategies /\ j \in Job /\ j.p \in Projects /\ JobType(j) /\ j.rules \in Ideas
  BY <1>1, <1>2, Hand DEF JobType
<1>4. /\ j.gen + 1 \in 0 .. MaxGeneration /\ j.left - 1 \in 0 .. PromoteTopK /\ j.gen < MaxGeneration
      /\ 0 \in 0 .. PromoteTopK /\ 0 \in 0 .. MaxTrouble
  BY <1>1, <1>2, <1>3, Hand, PipelineAssumption DEF JobType, Job
<1>5. c \in Job /\ c.at = "champion.sweep" /\ c.s = j.s /\ c.rules = j.rules /\ c.gen = j.gen
  BY <1>2, <1>3, <1>4 DEF Job
<1>6. /\ m \in Job /\ m.at = "strategy.created" /\ m.s = j.s /\ m.rules = j.rules /\ m.gen = j.gen + 1
  BY <1>2, <1>3, <1>4 DEF Job, NewJob
<1>7. \A k \in New : k = m \/ k = c
  OBVIOUS
<1> HIDE DEF c, m, New
<1>8. JobType(c) /\ JobType(m)
  BY <1>2, <1>3, <1>4, <1>5, <1>6 DEF JobType
<1>9. NewRow(j, j.gen + 1) \in RowType /\ NewRow(j, j.gen + 1).p = j.p
  BY <1>2, <1>3, <1>4 DEF NewRow, RowType
<1>10. /\ row' \in [Strategies -> RowType] /\ row'[j.s] = NewRow(j, m.gen)
       /\ \A t \in Strategies : t # j.s => row'[t] = row[t]
  BY <1>1, <1>3, <1>6, <1>9, Hand
<1>11. Coherent(j.s)'
  <2>1. \A k \in jobs' : k.s = j.s => (k \in jobs /\ k # j) \/ k = m \/ k.at = "champion.sweep"
    BY <1>1, <1>5, <1>7
  <2>2. Coherent(j.s) /\ (AskedFor(j.s)' <=> AskedFor(j.s)) /\ verdicts'[j.s] = verdicts[j.s] /\ packages' = packages
    BY <1>1, <1>3, Hand
  <2> QED
    BY <1>2, <1>3, <1>6, <1>10, <2>1, <2>2, Saves
<1>12. /\ \A k \in New : JobType(k) /\ k.s = j.s
       /\ row'[j.s].p \in Projects
       /\ ~ Carries(j)
  BY <1>1, <1>3, <1>5, <1>6, <1>7, <1>8, <1>9, <1>10, Champions DEF Carries
<1>13. /\ runs' \in RunSet /\ verdicts' \in VerdictSet
       /\ \A t \in Strategies : t # j.s => row'[t] = row[t] /\ runs'[t] = runs[t] /\ verdicts'[t] = verdicts[t]
       /\ \A k \in packages' : k.s \in Strategies /\ (k \in packages \/ k.s = j.s)
       /\ testFailures' \in Nat /\ UNCHANGED <<asked, lost, failures, restarts>>
       /\ j.s \in Strategies \union {NoRules}
       /\ project' \in ProjectSet /\ \A p \in Projects : p # j.p => project'[p].status = project[p].status
       /\ project'[j.p].status = "running" =>
            \/ \E k \in New : k.p = j.p /\ Carries(k)
            \/ ~ Carries(j) /\ project[j.p].status = "running"
  BY <1>1, <1>3, <1>10, <1>12, Hand
<1> QED
  BY ONLY IInv, j \in jobs, <1>1, <1>10, <1>11, <1>12, <1>13, Handled

-----------------------------------------------------------------------------
(* The operator, failures and restarts *)

LEMMA RequestStep ==
  ASSUME IInv, NEW s \in Strategies, NEW where \in {"strategy.built", "package.request"},
         NEW verdict \in Verdict \union {"MANUAL", "none"}, Request(s, where, verdict)
  PROVE  IInv'
<1> DEFINE m == [NewJob(row[s].p) EXCEPT !.at = where, !.s = s, !.rules = row[s].rules,
                                         !.gen = row[s].gen, !.verdict = verdict,
                                         !.n = Len(asked) + 1]
<1>1. /\ Exists(s) /\ Trouble < MaxTrouble /\ asked' = Append(asked, s) /\ jobs' = jobs \union {m}
      /\ UNCHANGED <<project, row, runs, verdicts, packages, lost, testFailures, failures, restarts>>
  BY DEF Request, store
<1>2. /\ asked \in Seq(Strategies) /\ testFailures \in Nat /\ failures \in Nat /\ restarts \in Nat
      /\ row[s] \in RowType /\ row[s].p \in Projects /\ MaxTrouble \in Nat /\ PromoteTopK \in Nat
  BY <1>1, PipelineAssumption DEF IInv, Typed
<1>3. Len(asked) + 1 \in 0 .. MaxTrouble
  <2>1. Len(asked) \in Nat
    BY <1>2
  <2> QED
    BY <1>1, <1>2, <2>1 DEF Trouble
<1>4. /\ where \in Positions /\ where \notin Unnamed \union Reserving \union Sweeping
      /\ where \notin {"judge.mark", "judge.purge", "judged.docs", "judged.champion"}
  BY Places DEF BeforeVerdict, ToBeTested, Unnamed, Reserving, Sweeping
<1>5. m \in Job /\ m.at = where /\ m.s = s
  <2>1. /\ row[s].rules \in Ideas \union {NoRules} /\ row[s].gen \in 0 .. MaxGeneration
        /\ 0 \in 0 .. PromoteTopK
    BY <1>2 DEF RowType
  <2> QED
    BY <1>2, <1>3, <1>4, <2>1 DEF Job, NewJob
<1> HIDE DEF m
<1>6. JobType(m)
  BY <1>4, <1>5 DEF JobType, Sweeping
<1>7. /\ asked' \in Seq(Strategies) /\ AskedFor(s)'
      /\ \A t \in Strategies : t # s => (AskedFor(t)' <=> AskedFor(t))
  BY <1>1, <1>2, Asked
<1>8. Typed'
  <2>1. \A k \in jobs' : JobType(k)
    BY <1>1, <1>6 DEF IInv, Typed
  <2> QED
    BY <1>1, <1>7, <2>1 DEF IInv, Typed, Exists, Named
<1>9. Carried'
  BY <1>1 DEF IInv, Carried
<1>10. ASSUME NEW t \in Strategies PROVE Coherent(t)'
  <2>1. CASE t = s
    <3>1. Named(s)' /\ \A k \in jobs : k.s = s => k.at \notin Reserving
      BY <1>1 DEF IInv, Coherent, Exists, Named
    <3>2. \A k \in jobs' : k.s = s => k.at \notin Reserving
      BY <1>1, <1>4, <1>5, <3>1
    <3> QED
      BY <1>7, <2>1, <3>1, <3>2 DEF Coherent
  <2>2. CASE t # s
    <3>1. \A k \in jobs' : k.s = t => k \in jobs
      BY <1>1, <1>5, <2>2
    <3> QED
      BY <1>1, <1>7, <2>2, <3>1, Elsewhere DEF IInv
  <2> QED
    BY <2>1, <2>2
<1> QED
  BY <1>8, <1>9, <1>10 DEF IInv

\* The librarian finds a strategy on which no package rests.
LEMMA DeleteStep == ASSUME IInv, NEW s \in Strategies, DeleteOldRejected(s) PROVE IInv'
<1>1. /\ row' = [row EXCEPT ![s] = Gone] /\ runs' = [runs EXCEPT ![s] = {}]
      /\ verdicts' = [verdicts EXCEPT ![s] = << >>]
      /\ UNCHANGED <<jobs, project, packages, lost, asked, testFailures, failures, restarts>>
  BY DEF DeleteOldRejected, bounds
<1>2. PICK i \in 1 .. Len(verdicts[s]) : verdicts[s][i].verdict = "REJECT"
  BY DEF DeleteOldRejected
<1>3. /\ row \in [Strategies -> RowType] /\ runs \in RunSet /\ verdicts \in VerdictSet
      /\ \A t : AskedFor(t)' <=> AskedFor(t)
  BY <1>1, Asked DEF IInv, Typed, RunSet, VerdictSet
<1>4. Gone \in RowType /\ Gone.status = "gone"
  BY PipelineAssumption DEF Gone, Unsaved, RowType, RowStatus
<1>5. /\ row' \in [Strategies -> RowType] /\ row'[s].status = "gone"
      /\ \A t \in Strategies : t # s => row'[t] = row[t] /\ runs'[t] = runs[t] /\ verdicts'[t] = verdicts[t]
      /\ runs' \in RunSet /\ verdicts' \in VerdictSet /\ verdicts'[s] = << >>
  <2>1. row' \in [Strategies -> RowType] /\ row'[s] = Gone /\ \A t \in Strategies : t # s => row'[t] = row[t]
    BY <1>1, <1>3, <1>4
  <2>2. runs' \in RunSet /\ \A t \in Strategies : t # s => runs'[t] = runs[t]
    BY <1>1, <1>3 DEF RunSet
  <2>3. /\ verdicts' \in VerdictSet /\ verdicts'[s] = << >>
        /\ \A t \in Strategies : t # s => verdicts'[t] = verdicts[t]
    <3> DEFINE V == [rules : Ideas, verdict : Verdict, n : 0 .. MaxTrouble]
    <3>1. VerdictSet = [Strategies -> Seq(V)]
      BY DEF VerdictSet
    <3> HIDE DEF V
    <3>2. << >> \in Seq(V)
      OBVIOUS
    <3> QED
      BY <1>1, <1>3, <3>1, <3>2
  <2> QED
    BY <1>4, <2>1, <2>2, <2>3
<1>6. Typed'
  <2>1. \A t \in Strategies : Exists(t)' => row'[t].p \in Projects
    BY <1>5 DEF IInv, Typed, Exists
  <2> QED
    BY <1>1, <1>5, <2>1 DEF IInv, Typed, RunSet, VerdictSet
<1>7. Carried'
  BY <1>1 DEF IInv, Carried
<1>8. Coherent(s)'
  <2>1. Coherent(s) /\ Named(s)'
    BY <1>5 DEF IInv, Named
  <2>2. verdicts[s] # << >> /\ Named(s)
    BY <1>2, <2>1 DEF Coherent
  <2>3. CASE AskedFor(s)
    BY <1>1, <1>3, <2>1, <2>2, <2>3 DEF Coherent
  <2>4. CASE ~ AskedFor(s)
    <3>1. Ledger(s) /\ (\A j \in Journey(s) : Agrees(j)) /\ (\A k \in packages : k.s = s => Earned(k))
      BY <2>1, <2>2, <2>4 DEF Coherent
    <3>2. PICK x : verdicts[s] = <<x>> /\ x.verdict = "REJECT"
      BY <1>2, <2>2, <3>1 DEF Ledger, LedgerIn
    <3>3. \A k \in packages : k.s # s
      BY <3>1, <3>2 DEF Earned, EarnedIn, DELIVERABLE
    <3>4. ASSUME NEW j \in Journey(s) PROVE AgreesIn(j, row', runs', verdicts')
      <4>1. j.s = s /\ AgreesIn(j, row, runs, verdicts) /\ row[s].status # "gone"
        BY <2>2, <3>1 DEF Journey, Agrees, Ledger, LedgerIn
      <4>2. /\ j.at \notin BeforeVerdict /\ j.verdict = x.verdict
            /\ j.at \notin Shipping /\ j.at # "package.request"
        BY <2>2, <3>2, <4>1 DEF AgreesIn, DELIVERABLE
      <4>3. j \in jobs /\ ~ OfChampion(j) /\ JobType(j)
        BY DEF Journey, IInv, Typed
      <4>4. j.at \in {"judge.mark", "judge.purge", "judged.docs"}
        <5>1. j.at \notin Reserving
          BY <2>1, <2>2, <4>1, <4>3 DEF Coherent
        <5>2. j.at \notin Unnamed
          BY <4>1, <4>3, PipelineAssumption DEF JobType
        <5>3. j.at \in Positions
          BY <4>3 DEF JobType, Job
        <5> QED
          BY <4>2, <4>3, <5>1, <5>2, <5>3, Places, Champions DEF Judged, Sweeping
      <4> QED
        BY <1>5, <3>2, <4>1, <4>2, <4>4 DEF AgreesIn
    <3>5. Ledger(s)'
      BY <1>5 DEF Ledger, LedgerIn
    <3>6. Journey(s)' = Journey(s)
      BY <1>1 DEF Journey, OfChampion
    <3> QED
      BY <1>1, <1>3, <2>1, <2>2, <2>4, <3>3, <3>4, <3>5, <3>6 DEF Coherent, Agrees
  <2> QED
    BY <2>3, <2>4
<1>9. ASSUME NEW t \in Strategies, t # s PROVE Coherent(t)'
  BY <1>1, <1>3, <1>5, <1>9, Elsewhere DEF IInv
<1> QED
  BY <1>6, <1>7, <1>8, <1>9 DEF IInv

LEMMA HandlerFailsStep == ASSUME IInv, NEW j \in jobs, HandlerFails(j) PROVE IInv'
<1>1. /\ jobs' = jobs \ {j} /\ lost' = lost \union {j.p} /\ failures' = failures + 1
      /\ UNCHANGED <<project, row, runs, verdicts, packages, asked, testFailures, restarts>>
  BY DEF HandlerFails, Drop, store
<1>2. j.p \in Projects
  BY Hand
<1>3. Typed'
  <2>1. (\A k \in jobs' : JobType(k)) /\ lost' \subseteq Projects /\ failures' \in Nat
    BY <1>1, <1>2 DEF IInv, Typed
  <2> QED
    BY <1>1, <2>1 DEF IInv, Typed, Exists, Named
<1>4. Carried'
  BY <1>1 DEF IInv, Carried
<1>5. ASSUME NEW t \in Strategies PROVE Coherent(t)'
  BY <1>1, Hand, Elsewhere
<1> QED
  BY <1>3, <1>4, <1>5 DEF IInv

LEMMA RestartStep == ASSUME IInv, Restart PROVE IInv'
<1>1. /\ jobs' = {} /\ lost' = lost \union {j.p : j \in jobs} /\ restarts' = restarts + 1
      /\ UNCHANGED <<project, row, runs, verdicts, packages, asked, testFailures, failures>>
  BY DEF Restart, store
<1>2. \A j \in jobs : j.p \in Projects
  BY Hand
<1>3. Typed'
  <2>1. (\A k \in jobs' : JobType(k)) /\ lost' \subseteq Projects /\ restarts' \in Nat
    BY <1>1, <1>2 DEF IInv, Typed
  <2> QED
    BY <1>1, <2>1 DEF IInv, Typed, Exists, Named
<1>4. Carried'
  BY <1>1 DEF IInv, Carried
<1>5. ASSUME NEW t \in Strategies PROVE Coherent(t)'
  <2>1. AskedFor(t)' <=> AskedFor(t)
    BY <1>1, Asked DEF IInv, Typed
  <2> QED
    BY <1>1, <2>1, Elsewhere DEF IInv
<1> QED
  BY <1>3, <1>4, <1>5 DEF IInv

-----------------------------------------------------------------------------
(* The invariant is inductive *)

LEMMA InitStep == Init => IInv
<1> SUFFICES ASSUME Init PROVE IInv
  OBVIOUS
<1>1. /\ jobs = {} /\ packages = {} /\ lost = {} /\ asked = << >>
      /\ testFailures = 0 /\ failures = 0 /\ restarts = 0
      /\ project = [p \in Projects |-> [stage |-> "none", status |-> "none"]]
      /\ row = [s \in Strategies |-> Unsaved]
      /\ runs = [s \in Strategies |-> {}]
      /\ verdicts = [s \in Strategies |-> << >>]
  BY DEF Init
<1>2. \A s : ~ AskedFor(s)
  BY <1>1 DEF AskedFor, ToSet
<1>3. \A s \in Strategies : ~ Named(s) /\ ~ Exists(s)
  BY <1>1 DEF Exists, Named, Unsaved
<1>4. Typed
  <2>1. Unsaved \in RowType
    BY PipelineAssumption DEF Unsaved, RowType, RowStatus
  <2>2. project \in ProjectSet
    BY <1>1 DEF ProjectSet, ProjectStage
  <2>3. row \in [Strategies -> RowType] /\ runs \in RunSet /\ verdicts \in VerdictSet /\ asked \in Seq(Strategies)
    BY <1>1, <2>1 DEF RunSet, VerdictSet
  <2> QED
    BY <1>1, <1>3, <2>2, <2>3 DEF Typed, ProjectSet, RunSet, VerdictSet
<1>5. Carried
  BY <1>1 DEF Carried
<1>6. \A s \in Strategies : Coherent(s)
  BY <1>1, <1>2, <1>3 DEF Coherent, Journey, Ledger, LedgerIn, Unsaved
<1> QED
  BY <1>4, <1>5, <1>6 DEF IInv

LEMMA HandleStep == ASSUME IInv, NEW j \in jobs, Handle(j) PROVE IInv'
<1>1. CASE Architect(j)
  BY <1>1, DesignStep, GiveUpDuplicateStep, SaveDesignStep DEF Architect
<1>2. CASE Developer(j)
  BY <1>2, RepairStep, BuildStep, RefuseStep DEF Developer
<1>3. CASE Tester(j)
  BY <1>3, SaveRunsStep, MarkTestedStep, TestFailsStep DEF Tester
<1>4. CASE Tuner(j)
  BY <1>4, PassThroughStep, TuneStep, SaveTunedRunStep, LeaveAloneStep DEF Tuner
<1>5. CASE Judge(j)
  BY <1>5, SaveVerdictStep, MarkJudgedStep, PurgeStep DEF Judge
<1>6. CASE Champion(j)
  BY <1>6, LeaveChampionStep, PromoteStep, ChooseCellStep, SkipCellStep, SaveChildStep,
     EndCampaignStep DEF Champion
<1>7. CASE DocWriter(j)
  BY <1>7, DropRejectedStep, WriteDossierStep DEF DocWriter
<1> QED
  BY <1>1, <1>2, <1>3, <1>4, <1>5, <1>6, <1>7, QuantStep, UnreadableStep, StressStep, ReviewRiskStep,
     PackageStep, DeliverStep DEF Handle

LEMMA NextStep == IInv /\ [Next]_vars => IInv'
<1> SUFFICES ASSUME IInv, [Next]_vars PROVE IInv'
  OBVIOUS
<1>1. ASSUME NEW p \in Projects, Research(p) PROVE IInv'
  BY <1>1, ResearchStep
<1>2. ASSUME NEW j \in jobs, Handle(j) PROVE IInv'
  BY <1>2, HandleStep
<1>3. ASSUME NEW j \in jobs, HandlerFails(j) PROVE IInv'
  BY <1>3, HandlerFailsStep
<1>4. ASSUME NEW s \in Strategies, Retest(s) PROVE IInv'
  BY <1>4, RequestStep DEF Retest
<1>5. ASSUME NEW s \in Strategies, RequestPackage(s) PROVE IInv'
  <2> DEFINE v == IF verdicts[s] = << >> THEN "MANUAL" ELSE Last(verdicts[s]).verdict
  <2>1. v \in Verdict \union {"MANUAL", "none"}
    <3>1. verdicts[s] \in Seq([rules : Ideas, verdict : Verdict, n : 0 .. MaxTrouble])
      BY DEF IInv, Typed
    <3>2. verdicts[s] # << >> => Last(verdicts[s]).verdict \in Verdict
      <4> DEFINE V == [rules : Ideas, verdict : Verdict, n : 0 .. MaxTrouble]
      <4>1. verdicts[s] \in Seq(V) /\ \A x \in V : x.verdict \in Verdict
        BY <3>1
      <4> HIDE DEF V
      <4>2. verdicts[s] # << >> => Last(verdicts[s]) \in V
        BY <4>1 DEF Last
      <4> QED
        BY <4>1, <4>2
    <3> QED
      BY <3>2
  <2>2. Request(s, "package.request", v)
    BY <1>5 DEF RequestPackage
  <2> HIDE DEF v
  <2> QED
    BY <2>1, <2>2, RequestStep
<1>6. CASE Restart
  BY <1>6, RestartStep
<1>7. CASE UNCHANGED vars
  <2>1. UNCHANGED <<jobs, project, row, runs, verdicts, packages, lost, asked, testFailures, failures, restarts>>
    BY <1>7 DEF vars, store, bounds
  <2>2. \A t \in Strategies : AskedFor(t)' <=> AskedFor(t)
    BY <2>1, Asked DEF IInv, Typed
  <2>3. \A t \in Strategies : Coherent(t)'
    BY <2>1, <2>2, Elsewhere DEF IInv
  <2> QED
    BY <2>1, <2>3 DEF IInv, Typed, Carried, Exists, Named
<1>8. ASSUME NEW s \in Strategies, DeleteOldRejected(s) PROVE IInv'
  BY <1>8, DeleteStep
<1> QED
  BY <1>1, <1>2, <1>3, <1>4, <1>5, <1>6, <1>7, <1>8 DEF Next

THEOREM Inductive == Spec => []IInv
<1> QED
  BY InitStep, NextStep, PTL DEF Spec

-----------------------------------------------------------------------------
(* What the pipeline promises *)

\* Projects, rows, runs, verdicts and messages have the values the code gives them.
THEOREM TypeCorrect == Spec => []TypeOK
<1>1. IInv => TypeOK
  BY DEF IInv, Typed, JobType, RowType, TypeOK
<1> QED
  BY <1>1, Inductive, PTL

\* A project the store shows as running is carried on by a message, unless a handler
\* failed on one or the process died.
THEOREM RunningProjectsAreCarried == Spec => []RunningIsCarried
<1>1. IInv => RunningIsCarried
  BY DEF IInv, Carried, RunningIsCarried, Carries
<1> QED
  BY <1>1, Inductive, PTL

\* As long as the store holds the rejection of some rules it holds their fingerprint, and
\* as long as it holds the stub of a purged strategy it holds why: what the librarian
\* takes, it takes together.
THEOREM RejectedRulesAreKnown == Spec => []RejectedIsKnown
<1>1. IInv => RejectedIsKnown
  <2> SUFFICES ASSUME IInv, NEW s \in Strategies, ~ AskedFor(s)
               PROVE  /\ \A f \in Ideas : RejectionOf(s, f) => Known(f)
                      /\ row[s].status = "purged_reject" => RejectionOf(s, row[s].fingerprint)
    BY DEF RejectedIsKnown
  <2>1. Ledger(s) /\ (~ Named(s) => verdicts[s] = << >>)
    BY DEF IInv, Coherent
  <2>2. ASSUME NEW f \in Ideas, RejectionOf(s, f) PROVE Known(f)
    <3>1. verdicts[s] # << >>
      BY <2>2 DEF RejectionOf
    <3>2. PICK x : verdicts[s] = <<x>> /\ x.rules = row[s].fingerprint
      BY <2>1, <3>1 DEF Ledger, LedgerIn
    <3>3. f = row[s].fingerprint
      BY <2>2, <3>2 DEF RejectionOf
    <3>4. Exists(s)
      BY <2>1, <3>1 DEF Exists, Named, Ledger, LedgerIn
    <3> QED
      BY <3>3, <3>4 DEF Known
  <2>3. ASSUME row[s].status = "purged_reject" PROVE RejectionOf(s, row[s].fingerprint)
    <3>1. PICK x : verdicts[s] = <<x>> /\ x.rules = row[s].fingerprint /\ x.verdict = "REJECT"
      BY <2>1, <2>3 DEF Ledger, LedgerIn
    <3>2. 1 \in 1 .. Len(verdicts[s]) /\ verdicts[s][1] = x
      BY <3>1
    <3> QED
      BY <3>1, <3>2 DEF RejectionOf
  <2> QED
    BY <2>2, <2>3
<1> QED
  BY <1>1, Inductive, PTL

\* The rules a message carries are those of the row, and a package has the rules, the
\* runs and a verdict that earned it.
THEOREM RulesAreKeptAlong == Spec => []RulesAreKept
<1>1. IInv => PayloadIsStored
  <2> SUFFICES ASSUME IInv, NEW j \in jobs, j.s \in Strategies, Exists(j.s), ~ AskedFor(j.s),
                      ~ OfChampion(j), row[j.s].status # "purged_reject"
               PROVE  row[j.s].rules = j.rules /\ row[j.s].fingerprint = j.rules
    BY DEF PayloadIsStored
  <2>1. Agrees(j)
    BY DEF IInv, Coherent, Journey, Exists, Named
  <2> QED
    BY <2>1 DEF Agrees, AgreesIn, Exists
<1>2. IInv => ShipsWhatWasJudged
  <2> SUFFICES ASSUME IInv, NEW k \in packages, ~ AskedFor(k.s)
               PROVE  /\ \E i \in 1 .. Len(verdicts[k.s]) :
                           /\ verdicts[k.s][i].rules = k.rules
                           /\ verdicts[k.s][i].verdict = k.verdict
                           /\ k.verdict \in DELIVERABLE
                      /\ {"full", "is", "oos"} \subseteq k.evidence
                      /\ row[k.s].rules = k.rules
    BY DEF ShipsWhatWasJudged
  <2>1. k.s \in Strategies
    BY DEF IInv, Typed
  <2>2. Earned(k)
    BY <2>1 DEF IInv, Coherent
  <2> QED
    BY <2>2 DEF Earned, EarnedIn, Evidence
<1> QED
  BY <1>1, <1>2, Inductive, PTL DEF RulesAreKept
=============================================================================

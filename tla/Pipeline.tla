------------------------------ MODULE Pipeline ------------------------------
(***************************************************************************)
(* The journey of a strategy through the squads, from a hypothesis to a    *)
(* delivered package (agents/research.py, build.py, validate.py,           *)
(* champion.py, deliver.py and the operator's requests of api.py), over    *)
(* the two places its state is kept in: the messages, which live in the    *)
(* memory of the process, and the rows of the store (store.py).            *)
(*                                                                         *)
(* A job is one message in a queue, or in the hand of the handler that     *)
(* took it; its "at" says where.  Handlers write to the store in several   *)
(* transactions.  A step is as many of them as nobody else can tell from   *)
(* one (the status of the row, the stage of the project, and the emit);    *)
(* other handlers, failures and restarts come between a check and what     *)
(* relies on it, and between the writes of rules, runs, verdict and purge. *)
(* Queues are sets: an agent takes its messages in any order, which allows *)
(* all that the bus does.  Every handler has one instance, except those of *)
(* REPLICABLE roles (tester, tuner, robustness), which have any number.    *)
(*                                                                         *)
(* What an indicator, a backtest or a score says is a choice.  The rules   *)
(* of a strategy (what its fingerprint hashes) are an element of Ideas.    *)
(***************************************************************************)
EXTENDS Naturals, FiniteSets, SequencesExt

CONSTANTS
  Projects, Strategies,  \* identifiers, given out in any order
  Ideas,                 \* rules with their parameters, on one market
  Shape,                 \* [Ideas -> shapes]: the rules without parameters and market
  NoRules,               \* the IR of a purged strategy, {}
  MaxGeneration,         \* champion.max_generation
  PromoteTopK,           \* champion.promote_top_k
  MaxTrouble,            \* bound: backtests that return an error, handlers that raise or
                         \*   time out, restarts and requests of the operator, together
  MaxBusy                \* bound: jobs there are when the operator asks

ASSUME PipelineAssumption ==
  /\ NoRules \notin Ideas \union Strategies \union Projects
  /\ DOMAIN Shape = Ideas
  /\ {MaxGeneration, PromoteTopK, MaxTrouble, MaxBusy} \subseteq Nat

VARIABLES
  jobs,        \* messages queued or being handled
  project,     \* Project rows: stage and status
  row,         \* Strategy rows
  runs,        \* kinds of the BacktestRun rows of each strategy
  verdicts,    \* Verdict rows of each strategy, oldest first
  packages,    \* Delivery rows
  campaigned,  \* shapes the champion of this process has swept
  lost,        \* history: projects one of whose jobs failed or died with the process
  asked,       \* history: strategies the operator asked to retest or package
  testFailures, failures, restarts

store == <<project, row, runs, verdicts, packages>>
bounds == <<lost, asked, testFailures, failures, restarts>>
vars == <<jobs, store, campaigned, bounds>>

Verdict == {"PASS", "BORDERLINE", "REJECT"}
DELIVERABLE == {"PASS", "BORDERLINE"}
JudgedAs == [PASS |-> "judged_pass", BORDERLINE |-> "judged_borderline",
             REJECT |-> "judged_reject"]

\* Where a job is while a handler with several transactions is at work on it.
InHand ==
  [architect |-> {"architect.save"},
   tester    |-> {"tester.mark"},
   tuner     |-> {"tuner.run"},
   judge     |-> {"judge.mark", "judge.purge"},
   champion  |-> {"champion.sweep", "champion.save"}]

Topics ==
  {"hypothesis.created", "feature_spec.created", "strategy.created",
   "strategy.test_failed", "strategy.built", "strategy.tested", "strategy.tuned",
   "robustness.report", "risk.report", "judged.docs", "judged.champion",
   "package.request", "docs.ready", "package.ready"}

Positions == Topics \union UNION {InHand[r] : r \in DOMAIN InHand}

\* Whose message it is, the payload's rules, how many promotions lie behind them,
\* the verdict, the number of the operator's request (0: none), and the cells the
\* champion has left.
Job == [at : Positions, p : Projects, s : Strategies \union {NoRules},
        rules : Ideas \union {NoRules}, gen : 0..MaxGeneration,
        verdict : Verdict \union {"MANUAL", "none"}, n : 0..MaxTrouble,
        left : 0..PromoteTopK]

NewJob(p) == [at |-> "hypothesis.created", p |-> p, s |-> NoRules, rules |-> NoRules,
              gen |-> 0, verdict |-> "none", n |-> 0, left |-> 0]

Unsaved == [status |-> "none", rules |-> NoRules, fingerprint |-> NoRules, gen |-> 0,
            p |-> NoRules]

\* The row of a strategy the librarian has deleted; no other strategy gets its name.
Gone == [Unsaved EXCEPT !.status = "gone"]

ProjectStage ==
  {"none", "hypothesis", "rejected_early", "design", "duplicate", "created", "built", "invalid",
   "tested", "test_failed", "tuned", "robustness", "risk_reviewed", "judged_pass",
   "judged_borderline", "judged_reject", "packaged", "delivered"}

RowStatus ==
  {"none", "created", "built", "invalid", "tested", "test_failed", "tuned", "judged_pass",
   "judged_borderline", "judged_reject", "purged_reject", "gone"}

TypeOK ==
  /\ jobs \subseteq Job
  /\ project \in [Projects -> [stage : ProjectStage, status : {"none", "running", "stopped", "done"}]]
  /\ row \in [Strategies -> [status : RowStatus, rules : Ideas \union {NoRules},
                             fingerprint : Ideas \union {NoRules}, gen : 0..MaxGeneration,
                             p : Projects \union {NoRules}]]
  /\ runs \in [Strategies -> SUBSET {"full", "is", "oos", "tuned_oos"}]
  /\ verdicts \in [Strategies -> Seq([rules : Ideas, verdict : Verdict, n : 0..MaxTrouble])]
  /\ lost \subseteq Projects

-----------------------------------------------------------------------------
(* Shared steps *)

Exists(s) == row[s].status \notin {"none", "gone"}
Known(f) == \E s \in Strategies : Exists(s) /\ row[s].fingerprint = f
Fresh(s) == row[s].status = "none" /\ \A j \in jobs : j.s # s

At(j, where) == j.at = where
Trouble == testFailures + failures + restarts + Len(asked)

Idle(role) == \A j \in jobs : j.at \notin InHand[role]

Move(j, where) == jobs' = (jobs \ {j}) \union {[j EXCEPT !.at = where]}
Drop(j) == jobs' = jobs \ {j}

Stage(j, stage) == project' = [project EXCEPT ![j.p].stage = stage]
Close(j, stage, status) == project' = [project EXCEPT ![j.p] = [stage |-> stage, status |-> status]]

\* A write to a row that was deleted does nothing.
Update(s, new) == row' = IF Exists(s) THEN [row EXCEPT ![s] = new] ELSE row
Mark(j, status) == Update(j.s, [row[j.s] EXCEPT !.status = status])
Rewrite(j, f, status) ==
  Update(j.s, [row[j.s] EXCEPT !.rules = f, !.fingerprint = f, !.status = status])

NewRow(j, gen) == [status |-> "created", rules |-> j.rules, fingerprint |-> j.rules,
                   gen |-> gen, p |-> j.p]

-----------------------------------------------------------------------------
(* Research squad *)

\* Researcher, one turn of the loop of handle: a project and its first message.
Research(p) ==
  /\ project[p].status = "none"
  /\ project' = [project EXCEPT ![p] = [stage |-> "hypothesis", status |-> "running"]]
  /\ jobs' = jobs \union {NewJob(p)}
  /\ UNCHANGED <<row, runs, verdicts, packages, campaigned, bounds>>

\* Quant analyst: no data, or too little, ends the project.
RejectHypothesis(j) ==
  /\ At(j, "hypothesis.created")
  /\ Close(j, "rejected_early", "stopped")
  /\ Drop(j)
  /\ UNCHANGED <<row, runs, verdicts, packages, campaigned, bounds>>

SpecifyFeatures(j) ==
  /\ At(j, "hypothesis.created")
  /\ Stage(j, "design")
  /\ Move(j, "feature_spec.created")
  /\ UNCHANGED <<row, runs, verdicts, packages, campaigned, bounds>>

\* Architect: rolls the dice until fingerprint_exists says no ...
Design(j) ==
  /\ At(j, "feature_spec.created") /\ Idle("architect")
  /\ \E s \in {t \in Strategies : Fresh(t)}, f \in {g \in Ideas : ~Known(g)} :
       jobs' = (jobs \ {j}) \union {[j EXCEPT !.at = "architect.save", !.s = s, !.rules = f]}
  /\ UNCHANGED <<store, campaigned, bounds>>

\* Mutant of GiveUpDuplicate: gives up without closing the project.
GiveUpSilently(j) ==
  /\ At(j, "feature_spec.created") /\ Idle("architect")
  /\ \E f \in Ideas : Known(f)
  /\ Drop(j)
  /\ UNCHANGED <<store, campaigned, bounds>>

\* ... or until DEDUPE_ATTEMPTS rolls were all known.
GiveUpDuplicate(j) ==
  /\ At(j, "feature_spec.created") /\ Idle("architect")
  /\ \E f \in Ideas : Known(f)
  /\ Close(j, "duplicate", "stopped")
  /\ Drop(j)
  /\ UNCHANGED <<row, runs, verdicts, packages, campaigned, bounds>>

SaveDesign(j) ==
  /\ At(j, "architect.save")
  /\ row' = [row EXCEPT ![j.s] = NewRow(j, j.gen)]
  /\ Stage(j, "created")
  /\ Move(j, "strategy.created")
  /\ UNCHANGED <<runs, verdicts, packages, campaigned, bounds>>

Quant(j) == RejectHypothesis(j) \/ SpecifyFeatures(j)
Architect(j) == Design(j) \/ GiveUpDuplicate(j) \/ SaveDesign(j)

-----------------------------------------------------------------------------
(* Developer *)

\* The audit fails, the repairs help: the row gets the repaired rules.  What
\* comes back from the tester, and what the champion sends, passed the audit.
Repair(j) ==
  /\ At(j, "strategy.created") /\ j.gen = 0
  /\ \E f \in Ideas \ {j.rules} :
       /\ Rewrite(j, f, "built")
       /\ jobs' = (jobs \ {j}) \union {[j EXCEPT !.at = "strategy.built", !.rules = f]}
  /\ Stage(j, "built")
  /\ UNCHANGED <<runs, verdicts, packages, campaigned, bounds>>

ForDeveloper(j) == j.at \in {"strategy.created", "strategy.test_failed"}

Build(j) ==
  /\ ForDeveloper(j)
  /\ Mark(j, "built") /\ Stage(j, "built")
  /\ Move(j, "strategy.built")
  /\ UNCHANGED <<runs, verdicts, packages, campaigned, bounds>>

\* _invalid: the repairs do not help, or the compile smoke test fails.
Refuse(j) ==
  /\ ForDeveloper(j)
  /\ Mark(j, "invalid") /\ Close(j, "invalid", "stopped")
  /\ Drop(j)
  /\ UNCHANGED <<runs, verdicts, packages, campaigned, bounds>>

Developer(j) == Repair(j) \/ Build(j) \/ Refuse(j)

-----------------------------------------------------------------------------
(* Tester *)

\* The full, in-sample and out-of-sample runs, saved one after the other.
SaveRuns(j) ==
  /\ At(j, "strategy.built") /\ j.rules # NoRules
  /\ runs' = [runs EXCEPT ![j.s] = @ \union {"full", "is", "oos"}]
  /\ Move(j, "tester.mark")
  /\ UNCHANGED <<project, row, verdicts, packages, campaigned, bounds>>

MarkTested(j) ==
  /\ At(j, "tester.mark")
  /\ Mark(j, "tested") /\ Stage(j, "tested")
  /\ Move(j, "strategy.tested")
  /\ UNCHANGED <<runs, verdicts, packages, campaigned, bounds>>

\* _failed: the split backtest returned an error.
TestFails(j) ==
  /\ At(j, "strategy.built") /\ j.rules # NoRules
  /\ Trouble < MaxTrouble
  /\ testFailures' = testFailures + 1
  /\ Mark(j, "test_failed") /\ Close(j, "test_failed", "stopped")
  /\ Move(j, "strategy.test_failed")
  /\ UNCHANGED <<runs, verdicts, packages, campaigned, lost, asked, failures, restarts>>

Tester(j) == SaveRuns(j) \/ MarkTested(j) \/ TestFails(j)

\* The IR of a purged strategy does not parse: tester and doc writer raise at once.
Unreadable(j) ==
  /\ j.at \in {"strategy.built", "package.request"} /\ j.rules = NoRules
  /\ Drop(j)
  /\ UNCHANGED <<store, campaigned, bounds>>

-----------------------------------------------------------------------------
(* Tuner, robustness analyst and risk manager *)

\* Nothing to tune: the message goes on, the project is not touched.
PassThrough(j) ==
  /\ At(j, "strategy.tested")
  /\ Move(j, "strategy.tuned")
  /\ UNCHANGED <<store, campaigned, bounds>>

\* Mutant of Tune: the message goes on with the rules as they were.
TuneOnlyStored(j) ==
  /\ At(j, "strategy.tested")
  /\ \E f \in {g \in Ideas \ {j.rules} : Shape[g] = Shape[j.rules]} : Rewrite(j, f, "tuned")
  /\ Move(j, "tuner.run")
  /\ UNCHANGED <<project, runs, verdicts, packages, campaigned, bounds>>

\* Better parameters: the row gets the tuned rules and their fingerprint.
Tune(j) ==
  /\ At(j, "strategy.tested")
  /\ \E f \in {g \in Ideas \ {j.rules} : Shape[g] = Shape[j.rules]} :
       /\ Rewrite(j, f, "tuned")
       /\ jobs' = (jobs \ {j}) \union {[j EXCEPT !.at = "tuner.run", !.rules = f]}
  /\ UNCHANGED <<project, runs, verdicts, packages, campaigned, bounds>>

SaveTunedRun(j) ==
  /\ At(j, "tuner.run")
  /\ runs' = [runs EXCEPT ![j.s] = @ \union {"tuned_oos"}]
  /\ Stage(j, "tuned")
  /\ Move(j, "strategy.tuned")
  /\ UNCHANGED <<row, verdicts, packages, campaigned, bounds>>

\* No trial was better.
LeaveAlone(j) ==
  /\ At(j, "strategy.tested")
  /\ Stage(j, "tuned")
  /\ Move(j, "strategy.tuned")
  /\ UNCHANGED <<row, runs, verdicts, packages, campaigned, bounds>>

Stress(j) ==
  /\ At(j, "strategy.tuned")
  /\ Stage(j, "robustness")
  /\ Move(j, "robustness.report")
  /\ UNCHANGED <<row, runs, verdicts, packages, campaigned, bounds>>

ReviewRisk(j) ==
  /\ At(j, "robustness.report")
  /\ Stage(j, "risk_reviewed")
  /\ Move(j, "risk.report")
  /\ UNCHANGED <<row, runs, verdicts, packages, campaigned, bounds>>

Tuner(j) == PassThrough(j) \/ Tune(j) \/ SaveTunedRun(j) \/ LeaveAlone(j)

-----------------------------------------------------------------------------
(* Judge *)

SaveVerdict(j) ==
  /\ At(j, "risk.report") /\ Idle("judge")
  /\ \E v \in Verdict :
       /\ verdicts' = [verdicts EXCEPT ![j.s] =
                         Append(@, [rules |-> j.rules, verdict |-> v, n |-> j.n])]
       /\ jobs' = (jobs \ {j}) \union {[j EXCEPT !.at = "judge.mark", !.verdict = v]}
  /\ UNCHANGED <<project, row, runs, packages, campaigned, bounds>>

\* STRATEGY_JUDGED goes to the doc writer and to the champion.
Announce(j) ==
  jobs' = (jobs \ {j}) \union {[j EXCEPT !.at = q] : q \in {"judged.docs", "judged.champion"}}

MarkJudged(j) ==
  /\ At(j, "judge.mark")
  /\ Mark(j, JudgedAs[j.verdict])
  /\ Close(j, JudgedAs[j.verdict], IF j.verdict = "PASS" THEN "running" ELSE "done")
  /\ IF j.verdict = "REJECT" THEN Move(j, "judge.purge") ELSE Announce(j)
  /\ UNCHANGED <<runs, verdicts, packages, campaigned, bounds>>

\* purge_rejected_strategy: the runs and the IR go, the fingerprint stays.
Purge(j) ==
  /\ At(j, "judge.purge")
  /\ runs' = [runs EXCEPT ![j.s] = {}]
  /\ Update(j.s, [row[j.s] EXCEPT !.rules = NoRules, !.status = "purged_reject"])
  /\ Announce(j)
  /\ UNCHANGED <<project, verdicts, packages, campaigned, bounds>>

Judge(j) == SaveVerdict(j) \/ MarkJudged(j) \/ Purge(j)

-----------------------------------------------------------------------------
(* Champion *)

\* The score is too low, the lineage long enough or the shape was swept before.
LeaveChampion(j) ==
  /\ At(j, "judged.champion") /\ Idle("champion")
  /\ Drop(j)
  /\ UNCHANGED <<store, campaigned, bounds>>

\* The shape is remembered before the sweep of markets and timeframes starts.
Promote(j) ==
  /\ At(j, "judged.champion") /\ Idle("champion")
  /\ j.gen < MaxGeneration
  /\ Shape[j.rules] \notin campaigned
  /\ campaigned' = campaigned \union {Shape[j.rules]}
  /\ jobs' = (jobs \ {j}) \union {[j EXCEPT !.at = "champion.sweep", !.left = PromoteTopK]}
  /\ UNCHANGED <<store, bounds>>

\* A cell of the sweep, relocated and deep-tuned, that is new ...
ChooseCell(j) ==
  /\ At(j, "champion.sweep") /\ j.left > 0
  /\ \E s \in {t \in Strategies : Fresh(t)},
        f \in {g \in Ideas : ~Known(g) /\ Shape[g] = Shape[j.rules]} :
       jobs' = (jobs \ {j}) \union {[j EXCEPT !.at = "champion.save", !.s = s, !.rules = f]}
  /\ UNCHANGED <<store, campaigned, bounds>>

\* Mutant of SkipCell: one cell too many.
SkipCellBeyond(j) ==
  /\ At(j, "champion.sweep")
  /\ jobs' = (jobs \ {j}) \union {[j EXCEPT !.left = @ - 1]}
  /\ UNCHANGED <<store, campaigned, bounds>>

\* ... or one that fails the audit or is known.
SkipCell(j) ==
  /\ At(j, "champion.sweep") /\ j.left > 0
  /\ jobs' = (jobs \ {j}) \union {[j EXCEPT !.left = @ - 1]}
  /\ UNCHANGED <<store, campaigned, bounds>>

\* The child starts at the developer, under the project of its parent.
SaveChild(j) ==
  /\ At(j, "champion.save")
  /\ row' = [row EXCEPT ![j.s] = NewRow(j, j.gen + 1)]
  /\ jobs' = (jobs \ {j}) \union
               {[j EXCEPT !.at = "champion.sweep", !.left = @ - 1],
                [NewJob(j.p) EXCEPT !.at = "strategy.created", !.s = j.s, !.rules = j.rules,
                                    !.gen = j.gen + 1]}
  /\ UNCHANGED <<project, runs, verdicts, packages, campaigned, bounds>>

\* All top cells were seen, or the sweep had fewer that can be used.
EndCampaign(j) ==
  /\ At(j, "champion.sweep")
  /\ Drop(j)
  /\ UNCHANGED <<store, campaigned, bounds>>

Champion(j) == \/ LeaveChampion(j) \/ Promote(j) \/ ChooseCell(j) \/ SkipCell(j)
               \/ SaveChild(j) \/ EndCampaign(j)

-----------------------------------------------------------------------------
(* Delivery squad *)

\* Doc writer: a rejected strategy gets no dossier unless the operator asks.
DropRejected(j) ==
  /\ At(j, "judged.docs") /\ j.verdict \notin DELIVERABLE
  /\ Drop(j)
  /\ UNCHANGED <<store, campaigned, bounds>>

WriteDossier(j) ==
  /\ \/ At(j, "judged.docs") /\ j.verdict \in DELIVERABLE
     \/ At(j, "package.request") /\ j.rules # NoRules
  /\ Move(j, "docs.ready")
  /\ UNCHANGED <<store, campaigned, bounds>>

\* Packager: the archive takes the rules and verdict from the message, the
\* trades and equity curves from the store.
Package(j) ==
  /\ At(j, "docs.ready")
  /\ packages' = packages \union
       {[s |-> j.s, n |-> j.n, rules |-> j.rules, verdict |-> j.verdict, evidence |-> runs[j.s]]}
  /\ Stage(j, "packaged")
  /\ Move(j, "package.ready")
  /\ UNCHANGED <<row, runs, verdicts, campaigned, bounds>>

\* Delivery: where the channels put the archive is not part of this module.
Deliver(j) ==
  /\ At(j, "package.ready")
  /\ Close(j, "delivered", "done")
  /\ Drop(j)
  /\ UNCHANGED <<row, runs, verdicts, packages, campaigned, bounds>>

DocWriter(j) == DropRejected(j) \/ WriteDossier(j)

-----------------------------------------------------------------------------
(* The librarian *)

\* Mutant of DeleteOldRejected: the verdicts are kept.
DeleteAllButVerdicts(s) ==
  /\ \E i \in 1..Len(verdicts[s]) : verdicts[s][i].verdict = "REJECT"
  /\ runs' = [runs EXCEPT ![s] = {}]
  /\ row' = [row EXCEPT ![s] = Gone]
  /\ UNCHANGED <<jobs, project, verdicts, packages, campaigned, bounds>>

\* delete_old_rejected: a strategy with a rejection older than rejected_keep_days, be
\* it the newest verdict or not, loses its runs, its verdicts and its row, fingerprint
\* included; messages about it stay where they are.  How old is not told apart, and
\* what one transaction deletes goes strategy by strategy.
DeleteOldRejected(s) ==
  /\ \E i \in 1..Len(verdicts[s]) : verdicts[s][i].verdict = "REJECT"
  /\ runs' = [runs EXCEPT ![s] = {}]
  /\ verdicts' = [verdicts EXCEPT ![s] = <<>>]
  /\ row' = [row EXCEPT ![s] = Gone]
  /\ UNCHANGED <<jobs, project, packages, campaigned, bounds>>

-----------------------------------------------------------------------------
(* The operator, failures and restarts *)

Request(s, where, verdict) ==
  /\ Exists(s)
  /\ Trouble < MaxTrouble /\ Cardinality(jobs) <= MaxBusy
  /\ asked' = Append(asked, s)
  /\ jobs' = jobs \union
       {[NewJob(row[s].p) EXCEPT !.at = where, !.s = s, !.rules = row[s].rules,
                                 !.gen = row[s].gen, !.verdict = verdict,
                                 !.n = Len(asked) + 1]}
  /\ UNCHANGED <<store, campaigned, lost, testFailures, failures, restarts>>

\* POST /api/control/retest: the strategy enters again at the tester.
Retest(s) == Request(s, "strategy.built", "none")

\* POST /api/control/deliver: with the newest verdict, if there is one.
RequestPackage(s) ==
  Request(s, "package.request",
          IF verdicts[s] = <<>> THEN "MANUAL" ELSE Last(verdicts[s]).verdict)

\* A handler raises or runs into its timeout: base.py logs it and goes on.
HandlerFails(j) ==
  /\ Trouble < MaxTrouble
  /\ failures' = failures + 1
  /\ Drop(j)
  /\ lost' = lost \union {j.p}
  /\ UNCHANGED <<store, campaigned, asked, testFailures, restarts>>

\* With the in-process bus, queues and the champion's memory end with the process.
Restart ==
  /\ Trouble < MaxTrouble
  /\ restarts' = restarts + 1
  /\ jobs' = {} /\ campaigned' = {}
  /\ lost' = lost \union {j.p : j \in jobs}
  /\ UNCHANGED <<store, asked, testFailures, failures>>

-----------------------------------------------------------------------------
Init ==
  /\ jobs = {}
  /\ project = [p \in Projects |-> [stage |-> "none", status |-> "none"]]
  /\ row = [s \in Strategies |-> Unsaved]
  /\ runs = [s \in Strategies |-> {}]
  /\ verdicts = [s \in Strategies |-> <<>>]
  /\ packages = {} /\ campaigned = {} /\ lost = {}
  /\ asked = <<>>
  /\ testFailures = 0 /\ failures = 0 /\ restarts = 0

Handle(j) == \/ Quant(j) \/ Architect(j) \/ Developer(j) \/ Tester(j) \/ Unreadable(j)
             \/ Tuner(j) \/ Stress(j) \/ ReviewRisk(j) \/ Judge(j) \/ Champion(j)
             \/ DocWriter(j) \/ Package(j) \/ Deliver(j)

Next ==
  \/ \E p \in Projects : Research(p)
  \/ \E j \in jobs : Handle(j) \/ HandlerFails(j)
  \/ \E s \in Strategies : Retest(s) \/ RequestPackage(s) \/ DeleteOldRejected(s)
  \/ Restart

Spec == Init /\ [][Next]_vars

-----------------------------------------------------------------------------
(* Properties *)

AskedFor(s) == s \in ToSet(asked)

OfChampion(j) == j.at \in {"judged.champion"} \union InHand.champion

\* A project the store shows as running has a message that carries it on, unless
\* a handler failed on one or the process died: every early return of every
\* agent (quant, architect, developer, tester, judge) closes what it ends, also
\* when promoted children and requests open and close the same project.
RunningIsCarried ==
  \A p \in Projects :
    project[p].status = "running" =>
      p \in lost \/ \E j \in jobs : j.p = p /\ ~OfChampion(j)

\* The rules a message carries from the developer to the judge are those of its
\* strategy's row, and the row's fingerprint is theirs: what is tested, tuned,
\* judged and remembered against duplicates is one thing, whoever rewrote it.
PayloadIsStored ==
  \A j \in jobs :
    /\ j.s \in Strategies /\ Exists(j.s) /\ ~AskedFor(j.s) /\ ~OfChampion(j)
    /\ row[j.s].status # "purged_reject"
    => row[j.s].rules = j.rules /\ row[j.s].fingerprint = j.rules

RejectionOf(s, f) ==
  \E i \in 1..Len(verdicts[s]) : verdicts[s][i].verdict = "REJECT" /\ verdicts[s][i].rules = f

\* What was rejected and why go together.  As long as the store holds the rejection of
\* some rules it holds their fingerprint, so that the architect and the champion cannot
\* design them again; and as long as it holds the stub of a purged strategy it holds the
\* rejection of just these rules.  The purge leaves both.  The librarian takes both, and
\* from then on the rules may be designed and tested once more.
RejectedIsKnown ==
  \A s \in Strategies : ~AskedFor(s) =>
    /\ \A f \in Ideas : RejectionOf(s, f) => Known(f)
    /\ row[s].status = "purged_reject" => RejectionOf(s, row[s].fingerprint)

\* A package the factory makes of its own has a verdict that earned it, on just
\* these rules, the runs of the tester in it, and is of what the store still holds:
\* no purge and no rewriting comes between the verdict and the archive.
ShipsWhatWasJudged ==
  \A k \in packages : ~AskedFor(k.s) =>
    /\ \E i \in 1..Len(verdicts[k.s]) :
         /\ verdicts[k.s][i].rules = k.rules
         /\ verdicts[k.s][i].verdict = k.verdict
         /\ k.verdict \in DELIVERABLE
    /\ {"full", "is", "oos"} \subseteq k.evidence
    /\ row[k.s].rules = k.rules

\* From the developer to the archive a strategy is one set of rules, however often
\* it was rewritten, relocated, purged or promoted on the way.
RulesAreKept == PayloadIsStored /\ ShipsWhatWasJudged

=============================================================================

------------------------------ MODULE Learning ------------------------------
(***************************************************************************)
(* What becomes of the results of the strategies of one asset and          *)
(* timeframe (agents/system.py, store.py): the judge stores and purges,    *)
(* the librarian strips and deletes, the memory agent turns the ledger     *)
(* into priors, the researcher steers by them, the operator retests and    *)
(* wipes.                                                                  *)
(*                                                                         *)
(* Of the priors the recipes matter that count as tried; a recipe that     *)
(* does not gets the weight of an untried one.  PASS and BORDERLINE are    *)
(* both "ACCEPT" here.  Of several messages that wait for the memory agent *)
(* or the researcher the last one stands for all.                          *)
(***************************************************************************)
EXTENDS Naturals, Sequences, FiniteSetsExt

CONSTANTS
  Strategy,    \* strategies
  RecipeOf,    \* strategy -> the recipe in the notes of its IR
  None,        \* no priors, no message
  MinLedger,   \* judged strategies below which nothing is learned (5)
  MaxVerdicts  \* bound of the model: verdicts there are when the operator retests

ASSUME LearningAssumption ==
  /\ MinLedger \in Nat \ {0} /\ MaxVerdicts \in Nat \ {0}
  /\ DOMAIN RecipeOf = Strategy

VARIABLES
  row,      \* the strategy row; "purged" has the IR {}
  journey,  \* where a test and judgement of the strategy is
  verdicts, \* its verdicts, oldest first
  runs,     \* its backtest runs with their detail, by age, and those without
  news,     \* a message waits for the memory agent
  learning, \* it has stored priors it has not broadcast yet
  priors,   \* the stored priors: the recipes that count as tried
  mail,     \* the broadcast on its way to the researcher
  told,     \* the researcher's _priors
  stray     \* history: priors were wiped, or stored but not broadcast, since the
            \*   last broadcast

rows == <<row, journey, verdicts, runs>>
memory == <<news, learning, priors, mail, told, stray>>
vars == <<rows, memory>>

\* 0, older than rejected_detail_keep_hours, older than rejected_keep_days.
Age == 0 .. 2
Recipe == {RecipeOf[s] : s \in Strategy}
Verdict == [is : {"ACCEPT", "REJECT"}, age : Age]

TypeOK ==
  /\ row \in [Strategy -> {"new", "stored", "purged", "gone"}]
  /\ journey \in [Strategy -> {"none", "built", "tested", "purge"}]
  /\ verdicts \in [Strategy -> Seq(Verdict)]
  /\ runs \in [Strategy -> SUBSET {"new", "old", "bare"}]
  /\ news \in BOOLEAN /\ learning \in BOOLEAN /\ stray \in BOOLEAN
  /\ priors \in {None} \cup SUBSET Recipe /\ told \in {None} \cup SUBSET Recipe
  /\ mail \in {<<>>} \cup {<<p>> : p \in {None} \cup SUBSET Recipe}

Init ==
  /\ row = [s \in Strategy |-> "new"] /\ journey = [s \in Strategy |-> "none"]
  /\ verdicts = [s \in Strategy |-> <<>>] /\ runs = [s \in Strategy |-> {}]
  /\ news = FALSE /\ learning = FALSE
  /\ priors = None /\ mail = <<>> /\ told = None /\ stray = FALSE

Judged(s) == verdicts[s] # <<>>
LedgerSize == MapThenSumSet(LAMBDA s : Len(verdicts[s]), Strategy)
Exists(s) == row[s] \in {"stored", "purged"}
Go(s, where) == journey' = [journey EXCEPT ![s] = where]

-----------------------------------------------------------------------------
(* A strategy *)

Create(s) ==
  /\ row[s] = "new"
  /\ row' = [row EXCEPT ![s] = "stored"]
  /\ Go(s, "built")
  /\ UNCHANGED <<verdicts, runs, memory>>

\* Mutant of Retest: sent where no agent listens.
RetestUnheard(s) ==
  /\ row[s] = "stored" /\ journey[s] = "none" /\ LedgerSize <= MaxVerdicts
  /\ Go(s, "retested")
  /\ UNCHANGED <<row, verdicts, runs, memory>>

\* The operator's retest.  The IR of a purged strategy does not parse.
Retest(s) ==
  /\ row[s] = "stored" /\ journey[s] = "none" /\ LedgerSize <= MaxVerdicts
  /\ Go(s, "built")
  /\ UNCHANGED <<row, verdicts, runs, memory>>

\* The tester saves its runs; without the row that is an error, or, on SQLite, runs
\* that belong to nobody and are left out here.
Test(s) ==
  /\ journey[s] = "built"
  /\ runs' = [runs EXCEPT ![s] = IF Exists(s) THEN @ \cup {"new"} ELSE @]
  /\ Go(s, IF Exists(s) THEN "tested" ELSE "none")
  /\ UNCHANGED <<row, verdicts, memory>>

\* The verdict, and the word to the memory agent; also without the row on SQLite,
\* where it is a verdict that no join finds.
Judge(s) ==
  /\ journey[s] = "tested"
  /\ \E is \in {"ACCEPT", "REJECT"} :
       /\ verdicts' = [verdicts EXCEPT ![s] =
                         IF Exists(s) THEN Append(@, [is |-> is, age |-> 0]) ELSE @]
       /\ Go(s, IF is = "REJECT" THEN "purge" ELSE "none")
  /\ news' \in IF Exists(s) THEN {TRUE} ELSE {news, TRUE}
  /\ UNCHANGED <<row, runs, learning, priors, mail, told, stray>>

\* purge_rejected_strategy: a transaction of its own, unless it is switched off.
Purge(s) ==
  /\ journey[s] = "purge"
  /\ runs' = [runs EXCEPT ![s] = {}]
  /\ row' = [row EXCEPT ![s] = IF Exists(s) THEN "purged" ELSE @]
  /\ Go(s, "none")
  /\ UNCHANGED <<verdicts, memory>>

\* A handler fails, the process dies, or rejects are not purged.
GiveUp(s) ==
  /\ journey[s] # "none"
  /\ Go(s, "none")
  /\ UNCHANGED <<row, verdicts, runs, memory>>

-----------------------------------------------------------------------------
(* Librarian *)

Rejected(s, age) ==
  \E i \in DOMAIN verdicts[s] : verdicts[s][i].is = "REJECT" /\ verdicts[s][i].age >= age

\* Mutant of Strip: only runs of strategies whose purge went through.
StripPurged ==
  /\ runs' = [s \in Strategy |-> IF row[s] = "purged" /\ "old" \in runs[s]
                                 THEN (runs[s] \ {"old"}) \cup {"bare"} ELSE runs[s]]
  /\ runs' # runs
  /\ UNCHANGED <<row, journey, verdicts, memory>>

\* strip_rejected_details: old runs of what was ever rejected, whatever came after.
Strip ==
  /\ runs' = [s \in Strategy |-> IF Rejected(s, 0) /\ "old" \in runs[s]
                                 THEN (runs[s] \ {"old"}) \cup {"bare"} ELSE runs[s]]
  /\ runs' # runs
  /\ UNCHANGED <<row, journey, verdicts, memory>>

\* Mutant of Doomed: every verdict of that age counts.
DoomedByAge(s) == \E i \in DOMAIN verdicts[s] : verdicts[s][i].age = 2

\* delete_old_rejected: what was rejected that long ago, whatever came after.
Doomed(s) == Rejected(s, 2)

Delete ==
  /\ \E s \in Strategy : Doomed(s)
  /\ row' = [s \in Strategy |-> IF Doomed(s) THEN "gone" ELSE row[s]]
  /\ verdicts' = [s \in Strategy |-> IF Doomed(s) THEN <<>> ELSE verdicts[s]]
  /\ runs' = [s \in Strategy |-> IF Doomed(s) THEN {} ELSE runs[s]]
  /\ UNCHANGED <<journey, memory>>

-----------------------------------------------------------------------------
(* Memory agent and researcher *)

\* _recipe_of: read from the notes of the IR, which a purged row has no more.
Tried == {RecipeOf[s] : s \in {t \in Strategy : Judged(t) /\ row[t] = "stored"}}

\* handle and _derive, up to the priors in the store.  A message is dropped when the
\* scope was refreshed less than REFRESH_SECONDS ago, and when there is an error.
Learn ==
  /\ news /\ ~learning
  /\ news' = FALSE
  /\ \/ /\ LedgerSize >= MinLedger
        /\ priors' = Tried /\ learning' = TRUE /\ stray' = TRUE
     \/ UNCHANGED <<priors, learning, stray>>
  /\ UNCHANGED <<rows, mail, told>>

Broadcast ==
  /\ learning
  /\ mail' = <<priors>> /\ learning' = FALSE /\ stray' = FALSE
  /\ UNCHANGED <<rows, news, priors, told>>

\* An error or a timeout between the two.
Forgo ==
  /\ learning
  /\ learning' = FALSE
  /\ UNCHANGED <<rows, news, priors, mail, told, stray>>

\* Mutant of Hear: what is new is added to what was known.
HearMore ==
  /\ mail # <<>>
  /\ told' = IF None \in {told, mail[1]} THEN mail[1] ELSE told \cup mail[1]
  /\ mail' = <<>>
  /\ UNCHANGED <<rows, news, learning, priors, stray>>

\* ResearcherAgent.handle of MEMORY_PRIORS.
Hear ==
  /\ mail # <<>>
  /\ told' = mail[1] /\ mail' = <<>>
  /\ UNCHANGED <<rows, news, learning, priors, stray>>

\* What the next hypothesis is steered by.
Steering == IF told = None THEN priors ELSE told

-----------------------------------------------------------------------------
(* Operator, process and time *)

\* wipe_all; strategies on their way through the factory go on without a row.
Wipe ==
  /\ row' = [s \in Strategy |-> IF Exists(s) THEN "gone" ELSE row[s]]
  /\ verdicts' = [s \in Strategy |-> <<>>] /\ runs' = [s \in Strategy |-> {}]
  /\ row' # row
  /\ \/ UNCHANGED <<priors, stray>>
     \/ priors' = None /\ stray' = TRUE
  /\ UNCHANGED <<journey, news, learning, mail, told>>

Restart ==
  /\ journey' = [s \in Strategy |-> "none"]
  /\ news' = FALSE /\ learning' = FALSE
  /\ mail' = <<>> /\ told' = None /\ stray' = FALSE
  /\ UNCHANGED <<row, verdicts, runs, priors>>

Tick ==
  /\ verdicts' = [s \in Strategy |-> [i \in DOMAIN verdicts[s] |->
                   [verdicts[s][i] EXCEPT !.age = IF @ = 2 THEN 2 ELSE @ + 1]]]
  /\ runs' = [s \in Strategy |-> IF "new" \in runs[s] THEN (runs[s] \ {"new"}) \cup {"old"} ELSE runs[s]]
  /\ <<verdicts, runs>>' # <<verdicts, runs>>
  /\ UNCHANGED <<row, journey, memory>>

Next ==
  \/ \E s \in Strategy : Create(s) \/ Retest(s) \/ Test(s) \/ Judge(s) \/ Purge(s) \/ GiveUp(s)
  \/ Strip \/ Delete
  \/ Learn \/ Broadcast \/ Forgo \/ Hear
  \/ Wipe \/ Restart \/ Tick

\* Time passes, and the loop of the librarian comes round.
Spec == Init /\ [][Next]_vars /\ WF_vars(Tick) /\ WF_vars(Strip)

-----------------------------------------------------------------------------
(* Properties *)

Detailed(s) == runs[s] \cap {"new", "old"} # {}

NewestRejects(s) == Judged(s) /\ verdicts[s][Len(verdicts[s])].is = "REJECT"

Accepted(s) == Judged(s) /\ ~Rejected(s, 0) /\ row[s] = "stored" /\ Detailed(s)

\* What the judge accepted and never rejected keeps its row, its rules, its verdict and
\* the detail of its runs through every purge and sweep, unless it is rejected later or
\* the operator wipes it (the vault, accepted_strategies, is made from them).  One that
\* was rejected before does not: both sweeps go by any verdict there is.
AcceptedIsKept ==
  [][\A s \in Strategy : Accepted(s) => Accepted(s)' \/ Rejected(s, 0)' \/ Wipe]_vars

\* "Backstop for anything the instant purge missed" (factory.yaml:143): the detail of
\* the runs of a strategy that the newest verdict rejects is gone in the end, wherever
\* its purge failed, unless it is tested again.
RejectedDetailGoes ==
  \A s \in Strategy : NewestRejects(s) /\ journey[s] = "none"
                         ~> ~Detailed(s) \/ ~NewestRejects(s) \/ journey[s] # "none"

\* The researcher's own copy of the priors says what the store says once the last
\* broadcast has arrived, except after a wipe of the priors and after a refresh that
\* failed between the store and the broadcast (research.py:62).
SteersByStore == mail = <<>> /\ ~stray => Steering = priors

\* store.py purge_rejected_strategy: "the memory agent builds its priors from failures
\* as much as successes; delete them and the factory stops learning what does not
\* work": every recipe in the ledger counts as tried when priors are derived.
FailuresAreLearned ==
  [][~learning /\ learning' => \A s \in Strategy : Judged(s) => RecipeOf[s] \in priors']_vars
=============================================================================

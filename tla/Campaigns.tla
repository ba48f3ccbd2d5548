----------------------------- MODULE Campaigns -----------------------------
(***************************************************************************)
(* The operator's campaigns (campaign.py, the campaign requests of api.py) *)
(* and the orchestrator that works on them (agents/system.py), with the    *)
(* journey of their ideas as far as the campaign they belong to, their     *)
(* market and their recipe go: the payload of a message is what its sender *)
(* puts into it, and the judge only knows what reaches it.  Pipeline says  *)
(* what else happens on that journey.                                      *)
(*                                                                         *)
(* The book of campaigns is in memory and shared by the API and the        *)
(* orchestrator.  The orchestrator may suspend at every emit, and the emit *)
(* may raise: so it is with Redis as the bus; with the in-process one it   *)
(* goes on at once.                                                        *)
(***************************************************************************)
EXTENDS Naturals

CONSTANTS
  Campaigns,      \* identifiers
  Assets, Timeframes, Recipes,
  ConfiguredFor,  \* [Assets -> SUBSET Timeframes], assets.yaml
  Payloads,       \* what the operator may post as a brief
  None,           \* no campaign, no recipe
  MaxAllowed,     \* the 500 of validate_brief
  PerCycle,       \* cycle.strategies_per_cycle
  MaxCycles,      \* bound: cycles that belong to no campaign
  Followed,       \* bound: the ideas, as <<of, n>>, whose messages are handled; the others wait
  MaxCommands     \* bound: commands of the operator, but for the creation of campaigns

ASSUME CampaignsAssumption ==
  /\ None \notin Campaigns \union Recipes
  /\ ConfiguredFor \in [Assets -> (SUBSET Timeframes) \ {{}}]
  /\ Recipes # {}
  /\ \A q \in Payloads : q.max_strategies \in Nat
  /\ MaxAllowed \in Nat \ {0} /\ PerCycle \in Nat \ {0}
  /\ {MaxCycles, MaxCommands} \subseteq Nat

VARIABLES
  book,       \* campaigns by id
  autorun,    \* _AUTORUN
  paused,     \* the orchestrator's pause gate is closed
  current,    \* the campaign the ticker serves
  left,       \* what is left of its batch; 0: it is at the next one, or sleeps
  todo,       \* campaigns this tick has not come to yet
  requested,  \* cycles the operator asked for that wait in the orchestrator's queue
  cycles,     \* those of _cycles that belong to no campaign
  ideas,      \* messages about ideas, from cycle.start to the judge
  late,       \* history: ideas started for a campaign that does not run, since the
              \*   last command about it
  commands    \* given so far

vars == <<book, autorun, paused, current, left, todo, requested, cycles, ideas, late,
          commands>>
ticker == <<current, left, todo>>
orchestrator == <<ticker, cycles>>

States == {"none", "running", "paused", "done", "cancelled"}
Topics == {"cycle.start", "hypothesis.created", "feature_spec.created", "strategy.created",
           "strategy.built", "strategy.tested", "strategy.tuned", "risk.report"}

\* campaign_id stands for the target profit factor too: they are put into and left
\* out of a payload together.  "of" is history: the campaign the idea was made for.
Message == [at : Topics, n : Nat, k : 1..PerCycle, count : 1..PerCycle, asset : Assets,
            timeframe : Timeframes, recipe : Recipes \union {None},
            campaign_id : Campaigns \union {None}, of : Campaigns \union {None}]

Brief == [assets : SUBSET Assets, timeframes : SUBSET Timeframes, recipes : SUBSET Recipes,
          max_strategies : 0..MaxAllowed]
Campaign == [state : States, brief : Brief, generated : Nat, delivered : Nat, dropped : Nat]

NoBrief == [assets |-> {}, timeframes |-> {}, recipes |-> {}, max_strategies |-> 0]

TypeOK ==
  /\ book \in [Campaigns -> Campaign]
  /\ late \in [Campaigns -> Nat]
  /\ autorun \in BOOLEAN /\ paused \in BOOLEAN
  /\ current \in Campaigns \union {None} /\ left \in 0..PerCycle
  /\ todo \subseteq Campaigns
  /\ ideas \subseteq Message
  /\ {requested, cycles, commands} \subseteq Nat

-----------------------------------------------------------------------------
(* campaign.py *)

Complete(c) == book[c].generated >= book[c].brief.max_strategies
Running(c) == book[c].state = "running"
Active(c) == Running(c) /\ ~Complete(c)

Least(m, n) == IF m < n THEN m ELSE n
Most(m, n) == IF m > n THEN m ELSE n

\* Mutant of Length: no ceiling.
LengthUncapped(n) == Most(1, n)

\* The length of a brief: at least one idea, at most MaxAllowed.
Length(n) == Most(1, Least(n, MaxAllowed))

\* A brief keeps of what was asked what the factory has, and takes all there is
\* when nothing is left; without an asset it is refused.
ValidateBrief(q) ==
  LET assets == q.assets \intersect Assets
      allowed == UNION {ConfiguredFor[a] : a \in assets}
      OrAll(S, all) == IF S = {} THEN all ELSE S
  IN [assets |-> assets,
      timeframes |-> OrAll(q.timeframes \intersect allowed, allowed),
      recipes |-> OrAll(q.recipes \intersect Recipes, Recipes),
      max_strategies |-> Length(q.max_strategies)]

-----------------------------------------------------------------------------
(* The operator *)

CreateCampaign(c) ==
  /\ book[c].state = "none"
  /\ \E q \in Payloads :
       /\ q.assets \intersect Assets # {}
       /\ book' = [book EXCEPT ![c].state = "running", ![c].brief = ValidateBrief(q)]
  /\ UNCHANGED <<autorun, paused, orchestrator, requested, ideas, late, commands>>

Command == commands < MaxCommands /\ commands' = commands + 1

\* Any campaign can be given any state, also one that is done or cancelled.
ControlCampaign(c) ==
  /\ book[c].state # "none" /\ Command
  /\ \E s \in {"paused", "running", "cancelled"} : book' = [book EXCEPT ![c].state = s]
  /\ late' = [late EXCEPT ![c] = 0]
  /\ UNCHANGED <<autorun, paused, orchestrator, requested, ideas>>

SetAutorun ==
  /\ Command
  /\ autorun' = ~autorun
  /\ UNCHANGED <<book, paused, orchestrator, requested, ideas, late>>

ControlOrchestrator ==
  /\ Command
  /\ paused' = ~paused
  /\ UNCHANGED <<book, autorun, orchestrator, requested, ideas, late>>

CyclesLeft == cycles + requested < MaxCycles

RequestCycle ==
  /\ Command /\ CyclesLeft
  /\ requested' = requested + 1
  /\ UNCHANGED <<book, autorun, paused, orchestrator, ideas, late>>

-----------------------------------------------------------------------------
(* Orchestrator *)

Start(c, n, asset, timeframe, recipe, count) ==
  ideas' = ideas \union
    {[at |-> "cycle.start", n |-> n, k |-> 1, count |-> count, asset |-> asset,
      timeframe |-> timeframe, recipe |-> recipe, campaign_id |-> c, of |-> c]}

\* The campaigns a tick works on, as the book has them when it begins.
Served == {c \in Campaigns : Active(c)}

\* Mutant of Batch: a full batch, whatever is left of the brief.
BatchFull(c) == PerCycle

Batch(c) == Least(PerCycle, book[c].brief.max_strategies - book[c].generated)

\* One idea of a batch of which "count" are left.
Emit(c, count) ==
  /\ book' = [book EXCEPT ![c].generated = @ + 1]
  /\ \E a \in book[c].brief.assets, t \in book[c].brief.timeframes,
        r \in book[c].brief.recipes : Start(c, book[c].generated + 1, a, t, r, 1)
  /\ current' = c
  /\ left' = count - 1
  /\ late' = IF Running(c) THEN late ELSE [late EXCEPT ![c] = @ + 1]
  /\ UNCHANGED <<autorun, paused, requested, cycles, commands>>

\* Within a batch the loop does not look at the state of the campaign again, and market
\* and recipe are drawn independently of each other.
GoOn == left > 0 /\ Emit(current, left) /\ UNCHANGED todo

\* The next campaign of the tick, in any order.
NextBatch ==
  /\ left = 0
  /\ \E c \in todo : Emit(c, Batch(c)) /\ todo' = todo \ {c}

Sleeping == left = 0 /\ todo = {}

BeginTick ==
  /\ Sleeping /\ ~paused
  /\ \E c \in Served : Emit(c, Batch(c)) /\ todo' = Served \ {c}

\* An emit that raises ends the tick; its idea is counted all the same.
LoseIdea(c) ==
  /\ book' = [book EXCEPT ![c].generated = @ + 1]
  /\ current' = c /\ left' = 0 /\ todo' = {}
  /\ UNCHANGED <<autorun, paused, requested, cycles, ideas, late, commands>>

EmitFails ==
  \/ left > 0 /\ LoseIdea(current)
  \/ left = 0 /\ \E c \in todo : LoseIdea(c)
  \/ Sleeping /\ ~paused /\ \E c \in Served : LoseIdea(c)

\* Mutant of Retired: the book stays as it is.
RetiredNever == book

\* Campaigns that are complete are retired by a tick that has none to work on.
Retired ==
  [c \in Campaigns |-> IF Running(c) /\ Complete(c) THEN [book[c] EXCEPT !.state = "done"]
                                                    ELSE book[c]]

Retire ==
  /\ Sleeping /\ ~paused /\ Served = {}
  /\ ~(autorun /\ CyclesLeft)
  /\ book' = Retired
  /\ UNCHANGED <<autorun, paused, orchestrator, requested, ideas, late, commands>>

\* Mutant of ConveyorTurns: the conveyor does not wait for the campaigns.
ConveyorTurnsAlways == autorun

\* The conveyor: a cycle of the rotation, when no campaign did any work.
ConveyorTurns == autorun /\ Served = {}

Conveyor ==
  /\ Sleeping /\ ~paused /\ ConveyorTurns /\ CyclesLeft
  /\ book' = Retired
  /\ cycles' = cycles + 1
  /\ \E a \in Assets : \E t \in ConfiguredFor[a] : Start(None, cycles + 1, a, t, None, PerCycle)
  /\ UNCHANGED <<autorun, paused, ticker, requested, late, commands>>

\* The orchestrator's own loop: a cycle on request, next to whatever the ticker does.
HandleRequest ==
  /\ requested > 0 /\ ~paused
  /\ requested' = requested - 1
  /\ cycles' = cycles + 1
  /\ \E a \in Assets, t \in Timeframes : Start(None, cycles + 1, a, t, None, PerCycle)
  /\ UNCHANGED <<book, autorun, paused, ticker, late, commands>>

-----------------------------------------------------------------------------
(* What the squads put into their messages *)

Forward(j, from, to, campaign_id) ==
  /\ j.at = from
  /\ ideas' = (ideas \ {j}) \union {[j EXCEPT !.at = to, !.campaign_id = campaign_id]}
  /\ UNCHANGED <<book, autorun, paused, orchestrator, requested, late, commands>>

Research(j) ==
  /\ j.at = "cycle.start"
  /\ ideas' = (ideas \ {j}) \union
       {[j EXCEPT !.at = "hypothesis.created", !.k = k] : k \in 1..j.count}
  /\ UNCHANGED <<book, autorun, paused, orchestrator, requested, late, commands>>

SpecifyFeatures(j) ==
  /\ j.at = "hypothesis.created"
  /\ \E r \in IF j.recipe # None THEN {j.recipe} ELSE Recipes \union {None} :
       ideas' = (ideas \ {j}) \union {[j EXCEPT !.at = "feature_spec.created", !.recipe = r]}
  /\ UNCHANGED <<book, autorun, paused, orchestrator, requested, late, commands>>

\* A first roll that is new has the recipe asked for; after one that was known the
\* architect rolls without.  Its message carries the strategy and nothing else.
Design(j) ==
  /\ j.at = "feature_spec.created"
  /\ \E r \in Recipes :
       ideas' = (ideas \ {j}) \union
         {[j EXCEPT !.at = "strategy.created", !.recipe = r, !.campaign_id = None]}
  /\ UNCHANGED <<book, autorun, paused, orchestrator, requested, late, commands>>

Build(j) == Forward(j, "strategy.created", "strategy.built", None)
Test(j) == Forward(j, "strategy.built", "strategy.tested", None)
\* What the tuner leaves alone keeps its payload.
Tune(j) == \E c \in {None, j.campaign_id} : Forward(j, "strategy.tested", "strategy.tuned", c)

Review(j) == Forward(j, "strategy.tuned", "risk.report", j.campaign_id)

\* A handler that rejects the idea, fails or runs out of time ends the journey.
EndJourney(j) ==
  /\ ideas' = ideas \ {j}
  /\ UNCHANGED <<book, autorun, paused, orchestrator, requested, late, commands>>

\* The judge keeps the tally of the campaign the message names.
Judge(j) ==
  /\ j.at = "risk.report"
  /\ ideas' = ideas \ {j}
  /\ \E deliverable \in BOOLEAN :
       book' = [c \in Campaigns |->
                 IF c # j.campaign_id THEN book[c]
                 ELSE IF deliverable THEN [book[c] EXCEPT !.delivered = @ + 1]
                 ELSE [book[c] EXCEPT !.dropped = @ + 1]]
  /\ UNCHANGED <<autorun, paused, orchestrator, requested, late, commands>>

-----------------------------------------------------------------------------
Init ==
  /\ book = [c \in Campaigns |-> [state |-> "none", brief |-> NoBrief, generated |-> 0,
                                  delivered |-> 0, dropped |-> 0]]
  /\ autorun = FALSE /\ paused = FALSE
  /\ current = None /\ left = 0 /\ todo = {} /\ requested = 0 /\ cycles = 0
  /\ ideas = {} /\ late = [c \in Campaigns |-> 0]
  /\ commands = 0

Operator ==
  \/ \E c \in Campaigns : CreateCampaign(c) \/ ControlCampaign(c)
  \/ SetAutorun \/ ControlOrchestrator \/ RequestCycle

Ticker == GoOn \/ NextBatch \/ BeginTick \/ EmitFails \/ Retire \/ Conveyor

Handle(j) == \/ Research(j) \/ SpecifyFeatures(j) \/ Design(j) \/ Build(j) \/ Test(j)
             \/ Tune(j) \/ Review(j) \/ EndJourney(j) \/ Judge(j)

Next == \/ Operator \/ Ticker \/ HandleRequest
        \/ \E j \in ideas : <<j.of, j.n>> \in Followed /\ Handle(j)

Spec == Init /\ [][Next]_vars

\* The ticker's loop goes on while the orchestrator is not paused.
FairSpec == Spec /\ WF_vars(Ticker)

-----------------------------------------------------------------------------
(* Properties *)

\* "Stop generating after this many ideas" (campaign.py:71): whatever the operator
\* pauses, resumes or revives in between, and however the batches of several campaigns
\* follow one another.
NeverMoreThanAsked ==
  \A c \in Campaigns : book[c].generated <= book[c].brief.max_strategies

\* A campaign that was paused or cancelled, also in the middle of a tick, gets at most
\* the rest of one batch.
StopsWithItsBatch == \A c \in Campaigns : late[c] <= PerCycle

\* The operator's word counts: neither the number a brief asks for nor the moment it is
\* stopped is overrun by more than the code's grain, the batch under way.
WithinItsBrief == NeverMoreThanAsked /\ StopsWithItsBatch

\* "When any is active, they are the ONLY thing that runs" (system.py:96-97): no cycle
\* of the rotation starts while a campaign runs that has ideas left, but for those
\* the operator asks for.
OnlyCampaigns ==
  [][requested' = requested =>
       \A j \in ideas' \ ideas :
         j.at = "cycle.start" /\ j.of = None => \A c \in Campaigns : ~Active(c)]_vars

\* A campaign left running comes to its end and is retired, also when others are
\* served before it; unless the orchestrator stays paused.
CampaignEnds == <>[]paused \/ \A c \in Campaigns : Running(c) ~> ~Running(c)

=============================================================================

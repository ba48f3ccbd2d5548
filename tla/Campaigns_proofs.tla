-------------------------- MODULE Campaigns_proofs --------------------------
(***************************************************************************)
(* Proofs about Campaigns, for any campaigns, briefs and batch size, and   *)
(* for every bound.                                                        *)
(***************************************************************************)
EXTENDS Campaigns, TLAPS

\* What a batch under way and a tick under way rest on: the rest of the batch is still
\* wanted, what was started late and the rest make no more than one batch, and the
\* campaigns the tick has not come to want more and got nothing late.
Batches ==
  /\ left > 0 =>
       /\ current \in Campaigns \ todo
       /\ book[current].state # "none"
       /\ book[current].generated + left <= book[current].brief.max_strategies
       /\ late[current] + left <= PerCycle
  /\ \A c \in todo : book[c].state # "none" /\ ~Complete(c) /\ late[c] = 0
  /\ \A c \in Campaigns :
       /\ Running(c) => late[c] = 0
       /\ book[c].state = "none" => book[c].generated = 0 /\ late[c] = 0

IInv == NeverMoreThanAsked /\ StopsWithItsBatch /\ Batches

-----------------------------------------------------------------------------
(* Briefs and batches *)

\* A brief the API accepts is one the factory can work on, and asks for at least one
\* idea.
LEMMA BriefIsClean ==
  ASSUME NEW q \in Payloads
  PROVE  ValidateBrief(q) \in Brief /\ ValidateBrief(q).max_strategies >= 1
<1>1. Length(q.max_strategies) \in 1..MaxAllowed
  BY CampaignsAssumption DEF Length, Most, Least
<1>2. \A a \in Assets : ConfiguredFor[a] \subseteq Timeframes
  BY CampaignsAssumption
<1> QED
  BY <1>1, <1>2 DEF ValidateBrief, Brief

\* A batch is not empty, and no larger than what is left of the brief.
LEMMA BatchFits ==
  ASSUME TypeOK, NEW c \in Campaigns, ~Complete(c)
  PROVE  /\ Batch(c) \in 1..PerCycle
         /\ book[c].generated + Batch(c) <= book[c].brief.max_strategies
<1>1. book[c].generated \in Nat /\ book[c].brief.max_strategies \in Nat
  BY DEF TypeOK, Campaign, Brief
<1> QED
  BY <1>1, CampaignsAssumption DEF Batch, Least, Complete

-----------------------------------------------------------------------------
(* Types *)

LEMMA TypeInit == Init => TypeOK
<1> SUFFICES ASSUME Init PROVE TypeOK
  OBVIOUS
<1>1. NoBrief \in Brief
  BY CampaignsAssumption DEF NoBrief, Brief
<1>2. [state |-> "none", brief |-> NoBrief, generated |-> 0, delivered |-> 0, dropped |-> 0]
        \in Campaign
  BY <1>1 DEF Campaign, States
<1>3. book \in [Campaigns -> Campaign]
  BY <1>2 DEF Init
<1>4. late \in [Campaigns -> Nat]
  BY DEF Init
<1>5. left \in 0..PerCycle /\ {requested, cycles, commands} \subseteq Nat
  BY CampaignsAssumption DEF Init
<1>6. todo \subseteq Campaigns /\ ideas \subseteq Message
  BY DEF Init
<1> QED
  BY <1>3, <1>4, <1>5, <1>6 DEF Init, TypeOK

LEMMA TypeStart ==
  ASSUME TypeOK, NEW a \in Assets, NEW t \in Timeframes, NEW r \in Recipes \union {None},
         NEW n \in 1..PerCycle, NEW c \in Campaigns \union {None}, NEW i \in Nat,
         Start(c, i, a, t, r, n)
  PROVE  ideas' \subseteq Message
<1>1. 1 \in 1..PerCycle
  BY CampaignsAssumption
<1> QED
  BY <1>1 DEF TypeOK, Start, Message, Topics

LEMMA TypeEmit ==
  ASSUME TypeOK, NEW c \in Campaigns, NEW n \in 1..PerCycle, Emit(c, n), todo' \subseteq Campaigns
  PROVE  TypeOK'
<1>1. book' \in [Campaigns -> Campaign]
  BY DEF TypeOK, Emit, Campaign
<1>2. late' \in [Campaigns -> Nat]
  BY DEF TypeOK, Emit
<1>3. ideas' \subseteq Message
  <2>1. PICK a \in book[c].brief.assets, t \in book[c].brief.timeframes,
             r \in book[c].brief.recipes : Start(c, book[c].generated + 1, a, t, r, 1)
    BY DEF Emit
  <2>2. /\ a \in Assets /\ t \in Timeframes /\ r \in Recipes \union {None}
        /\ book[c].generated + 1 \in Nat
    BY DEF TypeOK, Campaign, Brief
  <2> QED
    BY <2>1, <2>2, TypeStart, CampaignsAssumption
<1>4. left' \in 0..PerCycle
  BY CampaignsAssumption DEF Emit
<1> QED
  BY <1>1, <1>2, <1>3, <1>4 DEF TypeOK, Emit

LEMMA TypeLose ==
  ASSUME TypeOK, NEW c \in Campaigns, LoseIdea(c)
  PROVE  TypeOK'
<1>1. book' \in [Campaigns -> Campaign]
  BY DEF TypeOK, LoseIdea, Campaign
<1>2. left' \in 0..PerCycle
  BY CampaignsAssumption DEF LoseIdea
<1> QED
  BY <1>1, <1>2 DEF TypeOK, LoseIdea

LEMMA TypeRetired == TypeOK => Retired \in [Campaigns -> Campaign]
BY DEF TypeOK, Retired, Campaign, States

LEMMA TypeOperator == ASSUME TypeOK, Operator PROVE TypeOK'
<1>1. ASSUME NEW c \in Campaigns, CreateCampaign(c) PROVE TypeOK'
  <2>1. PICK q \in Payloads :
          book' = [book EXCEPT ![c].state = "running", ![c].brief = ValidateBrief(q)]
    BY <1>1 DEF CreateCampaign
  <2>2. book' \in [Campaigns -> Campaign]
    BY <2>1, BriefIsClean DEF TypeOK, Campaign, States
  <2> QED
    BY <1>1, <2>2 DEF TypeOK, CreateCampaign, orchestrator, ticker
<1>2. ASSUME NEW c \in Campaigns, ControlCampaign(c) PROVE TypeOK'
  <2>1. book' \in [Campaigns -> Campaign] /\ late' \in [Campaigns -> Nat]
    BY <1>2 DEF TypeOK, ControlCampaign, Campaign, States
  <2> QED
    BY <1>2, <2>1 DEF TypeOK, ControlCampaign, Command, orchestrator, ticker
<1>3. CASE SetAutorun
  BY <1>3 DEF TypeOK, SetAutorun, Command, orchestrator, ticker
<1>4. CASE ControlOrchestrator
  BY <1>4 DEF TypeOK, ControlOrchestrator, Command, orchestrator, ticker
<1>5. CASE RequestCycle
  BY <1>5 DEF TypeOK, RequestCycle, Command, orchestrator, ticker
<1> QED
  BY <1>1, <1>2, <1>3, <1>4, <1>5 DEF Operator

LEMMA TypeTicker == ASSUME TypeOK, Batches, Ticker PROVE TypeOK'
<1>1. CASE GoOn
  <2>1. current \in Campaigns /\ left \in 1..PerCycle
    BY <1>1, CampaignsAssumption DEF GoOn, Batches, TypeOK
  <2> QED
    BY <1>1, <2>1, TypeEmit DEF GoOn, TypeOK
<1>2. CASE NextBatch
  <2>1. PICK c \in todo : Emit(c, Batch(c)) /\ todo' = todo \ {c}
    BY <1>2 DEF NextBatch
  <2>2. c \in Campaigns /\ ~Complete(c) /\ todo' \subseteq Campaigns
    BY <2>1 DEF Batches, TypeOK
  <2> QED
    BY <2>1, <2>2, BatchFits, TypeEmit
<1>3. CASE BeginTick
  <2>1. PICK c \in Served : Emit(c, Batch(c)) /\ todo' = Served \ {c}
    BY <1>3 DEF BeginTick
  <2>2. c \in Campaigns /\ ~Complete(c) /\ todo' \subseteq Campaigns
    BY <2>1 DEF Served, Active
  <2> QED
    BY <2>1, <2>2, BatchFits, TypeEmit
<1>4. CASE Retire
  BY <1>4, TypeRetired DEF TypeOK, Retire, orchestrator, ticker
<1>5. CASE Conveyor
  <2>1. PICK a \in Assets : \E t \in ConfiguredFor[a] :
          Start(None, cycles + 1, a, t, None, PerCycle)
    BY <1>5 DEF Conveyor
  <2>2. PICK t \in ConfiguredFor[a] : Start(None, cycles + 1, a, t, None, PerCycle)
    BY <2>1
  <2>3. t \in Timeframes /\ PerCycle \in 1..PerCycle /\ cycles + 1 \in Nat
    BY CampaignsAssumption DEF TypeOK
  <2>4. ideas' \subseteq Message
    BY <2>2, <2>3, TypeStart
  <2> QED
    BY <1>5, <2>4, TypeRetired DEF TypeOK, Conveyor, ticker
<1>6. CASE EmitFails
  <2>1. \E c \in Campaigns : LoseIdea(c)
    BY <1>6, CampaignsAssumption DEF EmitFails, TypeOK, Batches, Served
  <2> QED
    BY <2>1, TypeLose
<1> QED
  BY <1>1, <1>2, <1>3, <1>4, <1>5, <1>6 DEF Ticker

LEMMA TypeRequest == ASSUME TypeOK, HandleRequest PROVE TypeOK'
<1>1. PICK a \in Assets, t \in Timeframes : Start(None, cycles + 1, a, t, None, PerCycle)
  BY DEF HandleRequest
<1>2. PerCycle \in 1..PerCycle /\ cycles + 1 \in Nat
  BY CampaignsAssumption DEF TypeOK
<1>3. ideas' \subseteq Message
  BY <1>1, <1>2, TypeStart
<1>4. requested' \in Nat
  BY DEF HandleRequest, TypeOK
<1> QED
  BY <1>3, <1>4 DEF TypeOK, HandleRequest, ticker

LEMMA TypeHandle ==
  ASSUME TypeOK, NEW j \in ideas, Handle(j)
  PROVE  TypeOK'
<1>1. j \in Message
  BY DEF TypeOK
<1>2. ASSUME NEW to \in Topics, NEW from, NEW c \in Campaigns \union {None},
             Forward(j, from, to, c)
      PROVE  TypeOK'
  <2>1. [j EXCEPT !.at = to, !.campaign_id = c] \in Message
    BY <1>1 DEF Message
  <2> QED
    BY <1>2, <2>1 DEF Forward, TypeOK, orchestrator, ticker
<1>3. CASE Research(j)
  <2>1. j.count \in 1..PerCycle
    BY <1>1 DEF Message
  <2>2. 1..j.count \subseteq 1..PerCycle
    BY <2>1, CampaignsAssumption
  <2>3. \A k \in 1..PerCycle : [j EXCEPT !.at = "hypothesis.created", !.k = k] \in Message
    BY <1>1 DEF Message, Topics
  <2> QED
    BY <1>3, <2>2, <2>3 DEF Research, TypeOK, orchestrator, ticker
<1>4. CASE SpecifyFeatures(j)
  <2>1. \A r \in Recipes \union {None} :
          [j EXCEPT !.at = "feature_spec.created", !.recipe = r] \in Message
    BY <1>1 DEF Message, Topics
  <2>2. j.recipe \in Recipes \union {None}
    BY <1>1 DEF Message
  <2> QED
    BY <1>4, <2>1, <2>2 DEF SpecifyFeatures, TypeOK, orchestrator, ticker
<1>5. CASE Design(j)
  <2>1. \A r \in Recipes :
          [j EXCEPT !.at = "strategy.created", !.recipe = r, !.campaign_id = None] \in Message
    BY <1>1 DEF Message, Topics
  <2> QED
    BY <1>5, <2>1 DEF Design, TypeOK, orchestrator, ticker
<1>6. CASE Build(j)
  BY <1>2, <1>6 DEF Build, Topics
<1>7. CASE Test(j)
  BY <1>2, <1>7 DEF Test, Topics
<1>8. CASE Tune(j)
  BY <1>1, <1>2, <1>8 DEF Tune, Topics, Message
<1>9. CASE Review(j)
  BY <1>1, <1>2, <1>9 DEF Review, Topics, Message
<1>10. CASE EndJourney(j)
  BY <1>10 DEF EndJourney, TypeOK, orchestrator, ticker
<1>11. CASE Judge(j)
  <2>1. book' \in [Campaigns -> Campaign]
    BY <1>11 DEF Judge, TypeOK, Campaign
  <2> QED
    BY <1>11, <2>1 DEF Judge, TypeOK, orchestrator, ticker
<1> QED
  BY <1>3, <1>4, <1>5, <1>6, <1>7, <1>8, <1>9, <1>10, <1>11 DEF Handle

LEMMA TypeStep == ASSUME TypeOK, Batches, [Next]_vars PROVE TypeOK'
<1>1. CASE UNCHANGED vars
  BY <1>1 DEF TypeOK, vars
<1> QED
  BY <1>1, TypeOperator, TypeTicker, TypeRequest, TypeHandle DEF Next

-----------------------------------------------------------------------------
(* The invariant *)

LEMMA InvInit == Init => IInv
<1> SUFFICES ASSUME Init PROVE IInv
  OBVIOUS
<1>1. \A c \in Campaigns :
        /\ book[c].state = "none" /\ book[c].generated = 0
        /\ book[c].brief.max_strategies = 0 /\ late[c] = 0
  BY DEF Init, NoBrief
<1>2. left = 0 /\ todo = {}
  BY DEF Init
<1> QED
  BY <1>1, <1>2, CampaignsAssumption
  DEF IInv, NeverMoreThanAsked, StopsWithItsBatch, Batches, Running

\* One more idea of a batch, when the campaign still wants all that is left of it.
LEMMA InvEmit ==
  ASSUME TypeOK, IInv,
         NEW c \in Campaigns, NEW n \in 1..PerCycle, Emit(c, n),
         book[c].state # "none",
         book[c].generated + n <= book[c].brief.max_strategies,
         late[c] + n <= PerCycle,
         todo' \subseteq Campaigns \ {c},
         \A d \in todo' : book[d].state # "none" /\ ~Complete(d) /\ late[d] = 0
  PROVE  IInv'
<1> USE CampaignsAssumption
<1>1. /\ book \in [Campaigns -> Campaign] /\ late \in [Campaigns -> Nat]
      /\ book[c].generated \in Nat /\ book[c].brief.max_strategies \in Nat
  BY DEF TypeOK, Campaign, Brief
<1>2. /\ \A d \in Campaigns : book'[d].state = book[d].state /\ book'[d].brief = book[d].brief
      /\ \A d \in Campaigns \ {c} : book'[d].generated = book[d].generated
      /\ book'[c].generated = book[c].generated + 1
  BY <1>1 DEF Emit, Campaign
<1>3. /\ \A d \in Campaigns \ {c} : late'[d] = late[d]
      /\ late'[c] = IF Running(c) THEN late[c] ELSE late[c] + 1
  BY <1>1 DEF Emit
<1>4. late'[c] \in Nat /\ late'[c] <= late[c] + 1 /\ late[c] \in Nat
  BY <1>1, <1>3
<1>5. current' = c /\ left' = n - 1
  BY DEF Emit
<1>6. NeverMoreThanAsked'
  BY <1>1, <1>2 DEF IInv, NeverMoreThanAsked
<1>7. StopsWithItsBatch'
  BY <1>3, <1>4 DEF IInv, StopsWithItsBatch
<1>8. Batches'
  <2>1. left' > 0 =>
          /\ current' \in Campaigns \ todo'
          /\ book'[current'].state # "none"
          /\ book'[current'].generated + left' <= book'[current'].brief.max_strategies
          /\ late'[current'] + left' <= PerCycle
    BY <1>1, <1>2, <1>4, <1>5
  <2>2. \A d \in todo' : book'[d].state # "none" /\ ~Complete(d)' /\ late'[d] = 0
    BY <1>2, <1>3 DEF Complete
  <2>3. \A d \in Campaigns :
          /\ Running(d)' => late'[d] = 0
          /\ book'[d].state = "none" => book'[d].generated = 0 /\ late'[d] = 0
    BY <1>2, <1>3 DEF IInv, Batches, Running
  <2> QED
    BY <2>1, <2>2, <2>3 DEF Batches
<1> QED
  BY <1>6, <1>7, <1>8 DEF IInv

\* One idea lost, of a campaign that still wants one.
LEMMA InvLose ==
  ASSUME TypeOK, IInv, NEW c \in Campaigns, LoseIdea(c),
         book[c].state # "none",
         book[c].generated + 1 <= book[c].brief.max_strategies
  PROVE  IInv'
<1>1. book[c].generated \in Nat /\ book[c].brief.max_strategies \in Nat
  BY DEF TypeOK, Campaign, Brief
<1>2. /\ \A d \in Campaigns : book'[d].state = book[d].state /\ book'[d].brief = book[d].brief
      /\ \A d \in Campaigns \ {c} : book'[d].generated = book[d].generated
      /\ book'[c].generated = book[c].generated + 1
  BY DEF LoseIdea, TypeOK, Campaign
<1>3. left' = 0 /\ todo' = {} /\ late' = late
  BY DEF LoseIdea
<1>4. NeverMoreThanAsked' /\ StopsWithItsBatch'
  BY <1>1, <1>2, <1>3 DEF IInv, NeverMoreThanAsked, StopsWithItsBatch
<1>5. \A d \in Campaigns :
        /\ Running(d)' => late'[d] = 0
        /\ book'[d].state = "none" => book'[d].generated = 0 /\ late'[d] = 0
  BY <1>2, <1>3 DEF IInv, Batches, Running
<1> QED
  BY <1>3, <1>4, <1>5 DEF IInv, Batches

\* A step that changes no more of the book than states that are not "none" and tallies.
LEMMA InvBook ==
  ASSUME TypeOK, IInv, UNCHANGED <<ticker, late>>,
         \A c \in Campaigns :
           /\ book'[c].generated = book[c].generated /\ book'[c].brief = book[c].brief
           /\ book'[c].state = "none" <=> book[c].state = "none"
           /\ Running(c)' => Running(c)
  PROVE  IInv'
<1>1. \A c \in Campaigns : Complete(c)' <=> Complete(c)
  BY DEF Complete
<1>2. todo \subseteq Campaigns
  BY DEF TypeOK
<1>3. NeverMoreThanAsked' /\ StopsWithItsBatch'
  BY DEF IInv, NeverMoreThanAsked, StopsWithItsBatch
<1>4. left > 0 =>
        /\ current \in Campaigns \ todo
        /\ book'[current].state # "none"
        /\ book'[current].generated + left <= book'[current].brief.max_strategies
        /\ late[current] + left <= PerCycle
  BY DEF IInv, Batches
<1>5. \A c \in todo : book'[c].state # "none" /\ ~Complete(c)' /\ late[c] = 0
  BY <1>1, <1>2 DEF IInv, Batches
<1>6. \A c \in Campaigns :
        /\ Running(c)' => late[c] = 0
        /\ book'[c].state = "none" => book'[c].generated = 0 /\ late[c] = 0
  BY DEF IInv, Batches
<1>7. Batches'
  BY <1>4, <1>5, <1>6 DEF Batches, ticker
<1> QED
  BY <1>3, <1>7 DEF IInv

LEMMA InvRetired ==
  ASSUME TypeOK, IInv, UNCHANGED <<ticker, late>>, book' = Retired
  PROVE  IInv'
<1>1. \A c \in Campaigns :
        /\ book'[c].generated = book[c].generated /\ book'[c].brief = book[c].brief
        /\ book'[c].state = IF Running(c) /\ Complete(c) THEN "done" ELSE book[c].state
  BY DEF Retired, TypeOK, Campaign
<1>2. \A c \in Campaigns : /\ book'[c].state = "none" <=> book[c].state = "none"
                           /\ Running(c)' => Running(c)
  BY <1>1 DEF Running
<1> QED
  BY <1>1, <1>2, InvBook

LEMMA InvOperator == ASSUME TypeOK, IInv, Operator PROVE IInv'
<1> USE CampaignsAssumption
<1>1. ASSUME NEW c \in Campaigns, CreateCampaign(c) PROVE IInv'
  <2>1. PICK q \in Payloads :
          book' = [book EXCEPT ![c].state = "running", ![c].brief = ValidateBrief(q)]
    BY <1>1 DEF CreateCampaign
  <2>2. /\ book'[c].state = "running" /\ book'[c].generated = 0
        /\ book'[c].brief.max_strategies >= 0 /\ late[c] = 0
        /\ \A d \in Campaigns \ {c} : book'[d] = book[d]
    BY <1>1, <2>1, BriefIsClean DEF TypeOK, Campaign, Brief, CreateCampaign, IInv, Batches
  <2>3. c \notin todo /\ ~(left > 0 /\ current = c) /\ todo \subseteq Campaigns
    BY <1>1 DEF CreateCampaign, IInv, Batches, TypeOK
  <2>4. UNCHANGED <<current, left, todo, late>>
    BY <1>1 DEF CreateCampaign, orchestrator, ticker
  <2>5. NeverMoreThanAsked' /\ StopsWithItsBatch'
    BY <2>2, <2>4 DEF IInv, NeverMoreThanAsked, StopsWithItsBatch
  <2>6. left > 0 =>
          /\ current \in Campaigns \ todo
          /\ book'[current].state # "none"
          /\ book'[current].generated + left <= book'[current].brief.max_strategies
          /\ late[current] + left <= PerCycle
    BY <2>2, <2>3 DEF IInv, Batches
  <2>7. \A d \in todo : book'[d].state # "none" /\ ~Complete(d)' /\ late[d] = 0
    BY <2>2, <2>3 DEF IInv, Batches, Complete
  <2>8. \A d \in Campaigns :
          /\ Running(d)' => late[d] = 0
          /\ book'[d].state = "none" => book'[d].generated = 0 /\ late[d] = 0
    BY <2>2 DEF IInv, Batches, Running
  <2> QED
    BY <2>4, <2>5, <2>6, <2>7, <2>8 DEF IInv, Batches
<1>2. ASSUME NEW c \in Campaigns, ControlCampaign(c) PROVE IInv'
  <2>1. PICK s \in {"paused", "running", "cancelled"} : book' = [book EXCEPT ![c].state = s]
    BY <1>2 DEF ControlCampaign
  <2>2. /\ book'[c].state = s /\ s # "none" /\ book[c].state # "none"
        /\ \A d \in Campaigns : /\ book'[d].generated = book[d].generated
                               /\ book'[d].brief = book[d].brief
        /\ \A d \in Campaigns \ {c} : book'[d] = book[d]
    BY <1>2, <2>1 DEF TypeOK, Campaign, ControlCampaign
  <2>3. late'[c] = 0 /\ \A d \in Campaigns \ {c} : late'[d] = late[d]
    BY <1>2 DEF ControlCampaign, TypeOK
  <2>4. /\ UNCHANGED <<current, left, todo>> /\ todo \subseteq Campaigns
        /\ left \in 0..PerCycle /\ late \in [Campaigns -> Nat]
    BY <1>2 DEF ControlCampaign, orchestrator, ticker, TypeOK
  <2>5. NeverMoreThanAsked' /\ StopsWithItsBatch'
    BY <2>2, <2>3 DEF IInv, NeverMoreThanAsked, StopsWithItsBatch
  <2>6. left > 0 =>
          /\ current \in Campaigns \ todo
          /\ book'[current].state # "none"
          /\ book'[current].generated + left <= book'[current].brief.max_strategies
          /\ late'[current] + left <= PerCycle
    BY <2>2, <2>3, <2>4 DEF IInv, Batches
  <2>7. \A d \in todo : book'[d].state # "none" /\ ~Complete(d)' /\ late'[d] = 0
    BY <2>2, <2>3, <2>4 DEF IInv, Batches, Complete
  <2>8. \A d \in Campaigns :
          /\ Running(d)' => late'[d] = 0
          /\ book'[d].state = "none" => book'[d].generated = 0 /\ late'[d] = 0
    BY <2>2, <2>3 DEF IInv, Batches, Running
  <2> QED
    BY <2>4, <2>5, <2>6, <2>7, <2>8 DEF IInv, Batches
<1>3. CASE SetAutorun \/ ControlOrchestrator \/ RequestCycle
  <2>1. UNCHANGED <<book, ticker, late>>
    BY <1>3 DEF SetAutorun, ControlOrchestrator, RequestCycle, orchestrator
  <2> QED
    BY <2>1, InvBook DEF Running
<1> QED
  BY <1>1, <1>2, <1>3 DEF Operator

LEMMA InvTicker == ASSUME TypeOK, IInv, Ticker PROVE IInv'
<1> USE CampaignsAssumption
<1>1. CASE GoOn
  <2>1. /\ current \in Campaigns \ todo /\ left \in 1..PerCycle
        /\ Emit(current, left) /\ todo' = todo /\ todo \subseteq Campaigns
    BY <1>1 DEF GoOn, IInv, Batches, TypeOK
  <2>2. /\ book[current].state # "none"
        /\ book[current].generated + left <= book[current].brief.max_strategies
        /\ late[current] + left <= PerCycle
        /\ \A d \in todo : book[d].state # "none" /\ ~Complete(d) /\ late[d] = 0
    BY <1>1, <2>1 DEF IInv, Batches
  <2> QED
    BY <2>1, <2>2, InvEmit
<1>2. CASE NextBatch
  <2>1. PICK c \in todo : Emit(c, Batch(c)) /\ todo' = todo \ {c}
    BY <1>2 DEF NextBatch
  <2>2. /\ c \in Campaigns /\ todo' \subseteq Campaigns \ {c}
        /\ \A d \in todo : book[d].state # "none" /\ ~Complete(d) /\ late[d] = 0
    BY <2>1 DEF IInv, Batches, TypeOK
  <2>3. /\ Batch(c) \in 1..PerCycle
        /\ book[c].generated + Batch(c) <= book[c].brief.max_strategies
    BY <2>2, BatchFits
  <2>4. late[c] + Batch(c) <= PerCycle
    BY <2>2, <2>3
  <2>5. book[c].state # "none" /\ \A d \in todo' : d \in todo
    BY <2>1, <2>2
  <2> QED
    BY <2>1, <2>2, <2>3, <2>4, <2>5, InvEmit
<1>3. CASE BeginTick
  <2>1. PICK c \in Served : Emit(c, Batch(c)) /\ todo' = Served \ {c}
    BY <1>3 DEF BeginTick
  <2>2. /\ c \in Campaigns /\ todo' \subseteq Campaigns \ {c}
        /\ \A d \in Served : book[d].state # "none" /\ ~Complete(d) /\ late[d] = 0
    BY <2>1 DEF IInv, Batches, Served, Active, Running
  <2>3. /\ Batch(c) \in 1..PerCycle
        /\ book[c].generated + Batch(c) <= book[c].brief.max_strategies
    BY <2>1, <2>2, BatchFits
  <2>4. late[c] + Batch(c) <= PerCycle
    BY <2>1, <2>2, <2>3
  <2>5. book[c].state # "none" /\ \A d \in todo' : d \in Served
    BY <2>1, <2>2
  <2> QED
    BY <2>1, <2>2, <2>3, <2>4, <2>5, InvEmit
<1>4. CASE Retire
  BY <1>4, InvRetired DEF Retire, orchestrator
<1>5. CASE Conveyor
  BY <1>5, InvRetired DEF Conveyor
<1>6. CASE EmitFails
  <2>1. ASSUME NEW c \in Campaigns, book[c].state # "none", ~Complete(c), LoseIdea(c)
        PROVE  IInv'
    <3>1. book[c].generated + 1 <= book[c].brief.max_strategies
      BY <2>1 DEF Complete, TypeOK, Campaign, Brief
    <3> QED
      BY <2>1, <3>1, InvLose
  <2>2. CASE left > 0 /\ LoseIdea(current)
    <3>1. /\ current \in Campaigns /\ left \in 1..PerCycle
          /\ book[current].state # "none"
          /\ book[current].generated + left <= book[current].brief.max_strategies
      BY <2>2 DEF IInv, Batches, TypeOK
    <3>2. ~Complete(current)
      BY <3>1 DEF Complete, TypeOK, Campaign, Brief
    <3> QED
      BY <2>1, <2>2, <3>1, <3>2
  <2>3. CASE \E c \in todo : LoseIdea(c)
    BY <2>1, <2>3 DEF IInv, Batches, TypeOK
  <2>4. CASE \E c \in Served : LoseIdea(c)
    BY <2>1, <2>4 DEF Served, Active, Running
  <2> QED
    BY <1>6, <2>2, <2>3, <2>4 DEF EmitFails
<1> QED
  BY <1>1, <1>2, <1>3, <1>4, <1>5, <1>6 DEF Ticker

LEMMA InvHandle ==
  ASSUME TypeOK, IInv, NEW j \in ideas, Handle(j)
  PROVE  IInv'
<1>1. CASE Judge(j)
  <2>1. \A c \in Campaigns :
          /\ book'[c].state = book[c].state
          /\ book'[c].generated = book[c].generated /\ book'[c].brief = book[c].brief
    BY <1>1 DEF Judge, TypeOK, Campaign
  <2>2. UNCHANGED <<ticker, late>>
    BY <1>1 DEF Judge, orchestrator
  <2> QED
    BY <2>1, <2>2, InvBook DEF Running
<1>2. CASE ~Judge(j)
  <2>1. UNCHANGED <<book, ticker, late>>
    BY <1>2 DEF Handle, Research, SpecifyFeatures, Design, Build, Test, Tune, Review,
                EndJourney, Forward, orchestrator
  <2> QED
    BY <2>1, InvBook DEF Running
<1> QED
  BY <1>1, <1>2

LEMMA InvStep == ASSUME TypeOK, IInv, [Next]_vars PROVE IInv'
<1>1. CASE UNCHANGED vars
  <2>1. UNCHANGED <<book, ticker, late>>
    BY <1>1 DEF vars, ticker
  <2> QED
    BY <2>1, InvBook DEF Running
<1>2. CASE HandleRequest
  <2>1. UNCHANGED <<book, ticker, late>>
    BY <1>2 DEF HandleRequest
  <2> QED
    BY <2>1, InvBook DEF Running
<1> QED
  BY <1>1, <1>2, InvOperator, InvTicker, InvHandle DEF Next

-----------------------------------------------------------------------------
(* Theorems *)

\* The state is what its types say and the invariant holds, in every behaviour.
THEOREM Invariant == Spec => [](TypeOK /\ IInv)
<1>1. Init => TypeOK /\ IInv
  BY TypeInit, InvInit
<1>2. TypeOK /\ IInv /\ [Next]_vars => (TypeOK /\ IInv)'
  BY TypeStep, InvStep DEF IInv
<1> QED
  BY <1>1, <1>2, PTL DEF Spec

\* Types: the book, the ticker and the messages about ideas, for any number of
\* campaigns and ideas.
THEOREM TypeCorrect == Spec => []TypeOK
<1> QED
  BY Invariant, PTL

\* No campaign is given more ideas than its brief asks for, whatever the operator does
\* to it while the ticker is in the middle of a batch (system.py:111-149).
THEOREM GeneratesNoMore == Spec => []NeverMoreThanAsked
<1>1. IInv => NeverMoreThanAsked
  BY DEF IInv
<1> QED
  BY <1>1, Invariant, PTL

\* A campaign that was paused or cancelled gets at most the rest of one batch.
THEOREM StopsSoon == Spec => []StopsWithItsBatch
<1>1. IInv => StopsWithItsBatch
  BY DEF IInv
<1> QED
  BY <1>1, Invariant, PTL

\* The operator's word counts (campaign.py:71, system.py:111-149): neither the number
\* of ideas nor the moment of a stop is overrun by more than the batch under way.
THEOREM HeedsTheOperator == Spec => []WithinItsBrief
<1>1. NeverMoreThanAsked /\ StopsWithItsBatch => WithinItsBrief
  BY DEF WithinItsBrief
<1> QED
  BY <1>1, GeneratesNoMore, StopsSoon, PTL

\* An idea that an emit starts belongs to the campaign it is emitted for.
LEMMA EmitIsForCampaign ==
  ASSUME NEW c \in Campaigns, NEW n, Emit(c, n), NEW j \in ideas' \ ideas
  PROVE  j.of # None
<1>1. PICK i, a, t, r : Start(c, i, a, t, r, 1)
  BY DEF Emit
<1>2. j.of = c
  BY <1>1 DEF Start
<1> QED
  BY <1>2, CampaignsAssumption

\* What the squads send is never a new cycle.
LEMMA SquadsStartNothing ==
  ASSUME TypeOK, NEW i \in ideas, Handle(i), NEW j \in ideas' \ ideas
  PROVE  j.at # "cycle.start"
<1>1. i \in Message
  BY DEF TypeOK
<1>2. ASSUME NEW from, NEW to, NEW c, Forward(i, from, to, c) PROVE j.at = to
  BY <1>1, <1>2 DEF Forward, Message
<1>3. CASE Research(i)
  BY <1>1, <1>3 DEF Research, Message
<1>4. CASE SpecifyFeatures(i)
  BY <1>1, <1>4 DEF SpecifyFeatures, Message
<1>5. CASE Design(i)
  <2>1. PICK r \in Recipes :
          j = [i EXCEPT !.at = "strategy.created", !.recipe = r, !.campaign_id = None]
    BY <1>5 DEF Design
  <2> QED
    BY <1>1, <2>1 DEF Message
<1>6. CASE Build(i) \/ Test(i) \/ Tune(i) \/ Review(i)
  BY <1>2, <1>6 DEF Build, Test, Tune, Review
<1>7. CASE EndJourney(i) \/ Judge(i)
  BY <1>7 DEF EndJourney, Judge
<1> QED
  BY <1>3, <1>4, <1>5, <1>6, <1>7 DEF Handle

\* While a campaign runs that has ideas left, the rotation starts no cycle
\* (system.py:96-104), but for those the operator asks for.
THEOREM CampaignsOnly == Spec => OnlyCampaigns
<1> DEFINE Only == requested' = requested =>
                     \A j \in ideas' \ ideas :
                       j.at = "cycle.start" /\ j.of = None => \A c \in Campaigns : ~Active(c)
<1>1. TypeOK /\ IInv /\ [Next]_vars => [Only]_vars
  <2> SUFFICES ASSUME TypeOK, IInv, Next, requested' = requested,
                      NEW j \in ideas' \ ideas, j.at = "cycle.start", j.of = None,
                      NEW c \in Campaigns
               PROVE  ~Active(c)
    BY DEF vars
  <2>1. CASE Operator
    BY <2>1 DEF Operator, CreateCampaign, ControlCampaign, SetAutorun, ControlOrchestrator,
                RequestCycle
  <2>2. CASE GoOn \/ NextBatch \/ BeginTick
    <3>1. PICK d \in Campaigns, n \in Nat : Emit(d, n)
      <4>1. CASE GoOn
        BY <4>1, CampaignsAssumption DEF GoOn, IInv, Batches, TypeOK
      <4>2. ASSUME NEW d \in Campaigns, ~Complete(d), Emit(d, Batch(d))
            PROVE  \E e \in Campaigns, n \in Nat : Emit(e, n)
        BY <4>2, BatchFits, CampaignsAssumption
      <4>3. CASE NextBatch
        BY <4>2, <4>3 DEF NextBatch, IInv, Batches, TypeOK
      <4>4. CASE BeginTick
        BY <4>2, <4>4 DEF BeginTick, Served, Active
      <4> QED
        BY <2>2, <4>1, <4>3, <4>4
    <3> QED
      BY <3>1, EmitIsForCampaign
  <2>3. CASE Retire \/ EmitFails
    BY <2>3 DEF Retire, EmitFails, LoseIdea
  <2>4. CASE Conveyor
    BY <2>4 DEF Conveyor, ConveyorTurns, Served
  <2>5. CASE HandleRequest
    BY <2>5 DEF HandleRequest, TypeOK
  <2>6. CASE \E i \in ideas : j \in ideas' \ ideas /\ Handle(i)
    BY <2>6, SquadsStartNothing
  <2> QED
    BY <2>1, <2>2, <2>3, <2>4, <2>5, <2>6 DEF Next, Ticker
<1> QED
  BY <1>1, Invariant, PTL DEF Spec, OnlyCampaigns
=============================================================================

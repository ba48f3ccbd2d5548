# KRISH in TLA+

KRISH is a factory of asynchronous agents that invents, tests, tunes, judges
and packages trading strategies.  One Python process runs them all on one
asyncio event loop; they talk over a message bus and share a database, the
blackboard.  This directory specifies the parts of it whose correctness rests
on ordering, sharing and accounting, checks them with TLC on small instances,
and proves with TLAPS, for every instance, every safety property that a
passing run checks: of the bus, the agents on it, the pipeline, the campaigns, breeding,
learning, evaluation, storage and the backtest.

`PROJECT.json` lists the components, the runs, which source lines every
definition stands for, the mutants (plausible bugs, each of which a property
catches), the hazards, the findings and the theorems.  Paths below are relative
to `src/backend/krish/`.

## 1. Inventory

| Component | State it keeps | Operations | Talks to | What is hard | What makes it correct |
|---|---|---|---|---|---|
| In-process bus (`bus.py`, `messages.py`) | a queue and a reference count per group, a table of waiters | publish, subscribe, request | every agent | competing consumers that come and go, answers racing timeouts | counts are members; one cursor per group; no message twice; no waiter left |
| Redis bus (`bus.py`) | a stream and consumer groups, in Redis | the same | several processes | acknowledging after a whole batch | nothing acknowledged unhandled, nothing unhandled forgotten |
| Agent lifecycle (`agents/base.py`) | run loop, control loop, pause gate, stop flag, status | run, dispatch, ask, pause/resume/kill | bus, roster | commands and crashes at any await | a message is dispatched once; waiting work is kept |
| Supervision (`runtime.py`) | one task per agent, the stop event | start, supervise, stop | agents | crash, back-off and shutdown interleave | crashed agents return; shutdown ends |
| Roster (`registry.py`) | one AgentState per agent | status, heartbeat | API | stale entries | what is shown is so |
| Backtest engine (`backtest/engine.py`) | position, pending order, cooldown, equity, curve, trades | the bar loop, split, walk-forward | tester, tuner, robustness, champion | what may know what, within a bar | no stale order, no look-ahead, risk capped, books add up |
| Metrics, sweep (`backtest/metrics.py`, `sweep.py`) | none | statistics, grid of markets | validation squad, champion | where a selection stops looking | it stops before the bars of the verdict |
| Indicators, IR, compiler (`indicators.py`, `ir/`) | none | series, schema, audit, translation | engine, developer | an error that a repair makes | what is built is coherent |
| Genome (`genome.py`) | none | draw, mutate, cross, prune | architect | operators upon operators | strategies stay coherent |
| Research squad (`agents/research.py`) | cached priors | hypothesis, feasibility, design | store, bus | check-then-save of fingerprints; a cache beside the store | rejected ideas stay known while their rejection is kept; steers by what the store says |
| Developer (`agents/build.py`) | none | audit, repair, build | store, bus | repairs upon repairs; failed tests come back | repairs converge |
| Validation squad (`agents/validate.py`) | none | test, tune, stress, risk, judge | engine, store, bus | several transactions per handler; numeric edges | judged as measured; monotone; spikes fail |
| Champion (`agents/champion.py`) | shapes already campaigned | sweep, deep-tune, promote | engine, store, bus | shares the parent's project | children do not corrupt the parent's record |
| Delivery squad (`agents/deliver.py`, `storage.py`) | archives on disk and in a bucket, delivery rows | write docs, zip, upload, ship | store, object storage, Telegram, Drive | names collide, uploads fail, local copies go | the only copy stays; readers get it |
| Orchestrator and campaigns (`agents/system.py`, `campaign.py`) | the campaign book, autorun | tick, start cycles, retire | research squad, API | the operator changes a campaign mid-batch | never more than asked; only the campaign while one runs |
| Memory (`agents/system.py`) | refresh times | derive and broadcast priors | store, researcher | purges remove what it reads | failures count |
| Monitor, librarian (`agents/system.py`) | - | sample, sweep the store, prune price files | store, object storage | deletes what others read, in a thread of its own | what was only ever accepted stays; the bulk of the rejected goes; a price file goes only if the store has it |
| Store (`store.py`) | projects, strategies, runs, verdicts, priors, deliveries | one transaction per call | all | reads and writes in different transactions | a restart loses nothing |
| Market data (`agents/data.py`, `data/`) | frames of the process, memory or Parquet cache, copies in the store | fetch, answer requests | providers, object storage | writers, readers and the librarian on one file, uploads that fail | the last copy of a history goes only where a fetch is replacing it, or after a failed upload |
| API and pages (`api.py`, `web/`) | none | control, campaigns, retest, deliver, download, wipe | bus, store | act on rows that are in flight | - |
| Compilers, LLM, config, assets, CLI, deployment | files | generate, read, write | - | - | - |

Agents interact in three ways: events (a group of replicas shares a queue),
requests with a matching response (`market_data` answers the tester, the quant
and others), and control messages, one group per agent instance.  Facts that
outlive a message are rows of the store; each store call is a transaction of its
own, run in a thread, so a handler suspends at every one of them.

The hazards, each at its line with the properties that guard it, are listed in
`PROJECT.json`.

## 2. Modules

| Module | Models | Checked by | Proved in |
|---|---|---|---|
| `GroupCursor` | what the members of one group are promised: a shared cursor into the log | `bus` (as the property `SharedCursor`) | `MemoryBus_proofs` |
| `MemoryBus` | `bus.py`, `Bus` and `MemoryBus` | `bus` | `MemoryBus_proofs` |
| `AgentRuntime` | `agents/base.py` and the supervision of `runtime.py`, on top of an instance of `MemoryBus` | `agents`, `agent_control` | `AgentRuntime_proofs` |
| `Backtest` | `_simulate` and its helpers in `backtest/engine.py` | `backtest`, `look_ahead` | `Backtest_proofs` |
| `Pipeline` | the handlers of `agents/research.py`, `build.py`, `validate.py`, `champion.py`, `deliver.py` and two requests of `api.py`, over queues and the rows of `store.py` | `pipeline` | `Pipeline_proofs` |
| `Campaigns` | `campaign.py`, the orchestrator of `agents/system.py`, the campaign requests of `api.py`, and what every squad puts into its payload | `campaigns` | `Campaigns_proofs` |
| `StrategyIR` | `ir/schema.py`: operands, conditions, groups, what parses | `genome` | `Evolution_proofs` |
| `Recipes` | the fifteen recipes of `genome.py` | `genome` | `Evolution_proofs` |
| `Audit` | `ir/validate.py` and the repairs of `agents/build.py` | `genome` | `Evolution_proofs` |
| `Genome` | drawing, mutating, crossing, pruning (`genome.py`) and the developer's rounds | `genome` | `Evolution_proofs` |
| `Verdict` | the judge's gates, near misses and vetoes (`agents/validate.py`) | `evaluation` | `Evaluation_proofs` |
| `Evaluation` | which bars and parameters tester, tuner, robustness, judge, sweep and champion look at | `evaluation` | `Evaluation_proofs` |
| `Packages` | packager, delivery, object storage and the download | `storage` | `Storage_proofs` |
| `Prices` | `data/providers.py`, `agents/data.py` and the pruning of price files | `storage` | `Storage_proofs` |
| `Storage` | the two together: one configuration, one store, one restart | `storage` | `Storage_proofs` |
| `Learning` | judge, purge, librarian, memory agent, researcher's priors, retest and wipe (`agents/system.py`, `store.py`) | `learning`, `failures_learned` | `Evolution_proofs` |

### The grain of a step

asyncio runs one coroutine at a time, so a step is what the code does between
two suspensions.  `put` on an unbounded queue and `get` on a queue that is not
empty do not suspend: `publish` is one step, and so is the subscription's loop
from the queue to the next message its group wants.

### MemoryBus

`log` is a history of everything published; `queues`, `exists` and `refs` are
`_queues` (contents and keys) and `_refs`; queues hold positions in the log.
`sub` says where each `subscribe()` generator is, `got` what it has yielded.
`waiters`, `asked` and `answer` are `_waiters` and the futures in it.  The
wait_for of a request ends by an answer (`Receive`) or at any time by its timeout or a
cancellation (`GiveUp`).  A caller that breaks out of its `async for` leaves the
generator to the event loop, which runs its `aclose()` later: `Drop`, then
`Finish`.  The kind "event" stands for every kind that expects no answer.
A message that the group does not want is dropped with the next one it does
want; the code drops it when it comes to the front, and nothing can tell.

### AgentRuntime

`pc` is where `run()` and its supervisor are, `ctl` the control loops, `clear`
the event `_paused` (set means not paused).  `AgentRuntime` uses the bus through
an `INSTANCE`: taking a message is `Bus!Get`, `ask()` is `Bus!Request`, and so
on.  The handler of an agent is whatever it does between taking a message and
returning: it may ask, it may crash.  `_dispatch` swallows exceptions and
timeouts; what is left is an exception in writing a row of the log, which is a
transaction like any other, and there are three of them.  In the handler it is `Crash`.
At the start (`agents/base.py:77`) it leaves `run()` after its helper tasks were
created and before the `try` whose `finally` cancels them (`RunFails`): the supervisor
runs the agent again beside the old control loop, and each has a slot in `ctl`
(`Control(a, s)`; `orphans` is a history, those of failed starts).  At the end
(`agents/base.py:95`, `Ended`) it lets the supervisor take a stopped agent for a crashed
one and run it again.  The next `finally` that is reached cancels the tasks of all
starts, since `_tasks` still has them.  Two things the code does that are easily missed are in the model: an agent that
was killed notices only at its next message, which it then drops, and a pause that
directly follows a resume still lets the gated message through (`woken`).
`tries` is a history: how often each role dispatched each message; another role
that wants the same message has a queue of its own and dispatches it as well.  Not
modelled: a control loop that dies of a failing log call, what an override of
`on_reload()` awaits, a failing `setup()`, heartbeats, and the tasks that `setup()` of the
orchestrator, the monitor and the librarian creates (`agents/system.py:52-62`, 338, 454):
they survive a start that fails as the control loop does, so that there may be two
tickers for a while (`Campaigns` has one).

### Backtest

Prices are integer points, lots are hundredths and money is cents, so what the
code rounds is exact.  A price path is any sequence of the bars in `Bar`, and a
strategy is a risk block and the signals that each bar carries.  `phase` splits
the body of the loop where the code's comments number it: the open (`RuleExit`,
`Enter`, `NoOrder`), inside the bar (`StopOut`, `TakeProfit`, `TimeStop`,
`Hold`, `StayFlat`), and the close (`Decide`).  Left out are excursions (`mae`,
`mfe`: display only), the unused `max_positions`, and the fractions of a point
in percentages and averages, which are rounded down.

### Pipeline

A job is a message with the place it is at: a topic when it is in a queue, or a
position such as `tester.mark` when its handler has done some of its
transactions.  It carries what the payload carries and the module needs: project,
strategy, rules, verdict.  `project`, `row`, `runs`, `verdicts` and `packages`
are the tables; `campaigned` is the champion's `_campaigned`.  Every handler
above is one or more actions, one per write that somebody else can see
before the handler is done:

| Agent | Actions |
|---|---|
| researcher, quant | `Research`; `RejectHypothesis`, `SpecifyFeatures` |
| architect | `Design` (the check), `GiveUpDuplicate`, `SaveDesign` |
| developer | `Repair`, `Build`, `Refuse` |
| tester | `SaveRuns`, `MarkTested`, `TestFails`, `Unreadable` |
| tuner | `PassThrough`, `Tune` (the row), `SaveTunedRun`, `LeaveAlone` |
| robustness, risk | `Stress`, `ReviewRisk` |
| judge | `SaveVerdict`, `MarkJudged`, `Purge` |
| champion | `LeaveChampion`, `Promote`, `ChooseCell`, `SkipCell`, `SaveChild`, `EndCampaign` |
| doc writer, packager, delivery | `DropRejected`, `WriteDossier`; `Package`; `Deliver` |
| librarian (`delete_old_rejected`) | `DeleteOldRejected` |
| operator (`api.py`) | `Retest`, `RequestPackage` |
| any handler, the process | `HandlerFails`, `Restart` |

What a backtest, an audit or a score says is a choice, and `gen` counts
promotions only: the code also counts mutations and crossovers as generations,
which can only end a lineage earlier, and a lineage may end at any verdict here.
The rules of a strategy are an element of `Ideas`, which stands for what
the fingerprint hashes; `Shape` is the part of it that tuning and relocation
keep.  Queues are sets, which allows every order the bus allows and more.  What
`AgentRuntime` says of dispatch is used here in short: a handler that raises
or times out loses its message (`HandlerFails`), and a process that restarts all
of them (`Restart`).

`DeleteOldRejected` may come at any time after a verdict REJECT (the age is not told
apart) and takes one strategy after the other, which the code does in one transaction;
the row is then `Gone`, and its id is not used again.  Messages about the strategy
go on: a write to its row does nothing (`Update`), runs and verdicts are inserted all
the same, because SQLite does not enforce foreign keys unless it is told to, and nothing
tells it.  On Postgres the insert raises, which `HandlerFails` stands for.

### Campaigns

`book` is the campaign book; a campaign that was not created yet is in state
"none".  `current`, `left` and `todo` are the locals of `_advance_campaigns`: the
campaign and the rest of the batch under way, and the campaigns of the list `active`
that the loop has not come to.  One `Emit` is one turn of the inner loop, up to the
`await` of its emit, where the operator may act; `EmitFails` is an emit that
raises, which ends the tick after the idea was counted.  With the in-process bus a
tick does not suspend and an emit does not fail: those behaviours are among the ones
modelled.

| Code | Actions |
|---|---|
| `create_campaign`, `control_campaign`, `post_autorun`, `control_cycle` | `CreateCampaign`, `ControlCampaign`, `SetAutorun`, `RequestCycle` |
| pause or resume of the orchestrator | `ControlOrchestrator` |
| `_ticker`, `_advance_campaigns` | `BeginTick`, `GoOn`, `NextBatch`, `EmitFails`, `Retire` |
| `_start_cycle` | `Conveyor`, and `HandleRequest` from `handle` |
| the squads | `Research`, `SpecifyFeatures`, `Design`, `Build`, `Test`, `Tune`, `Review`, `Judge`, `EndJourney` |

`ideas` holds the messages with the part of their payload that names campaign, market
and recipe; `campaign_id` stands for the target profit factor too, which
always travels with it.  `of` and `late` are history variables: whom an idea was
made for, and how many ideas a campaign got since it was stopped.  The pause gate closes
at once here (`AgentRuntime` has the control loop), the rotation is any
configured pair, and a ticker that dies with its agent, which starts another
one with the same book, is left out.

### Genome, Recipes, Audit, StrategyIR

A strategy is a record: `inds` (alias to type), four rule groups, direction, stop and
target, and the trend filter.  A group is the sequence of its conditions; thresholds,
stops and targets are in tenths.  `Recipes` has every recipe of `genome.py` with the set
of the blueprints it can return, the mirrored short side included.  `Genome` follows
one line: `Fresh`, then `StartMutate`, `Mutate` (one operator), `FinishMutate`, or
`Crossover`, then `Parse`, `RepairRound`, `EndRepair`, and on from what was built, or
`EndLine`.  An alias is the sequence of the parts of its name, so that the prefixes of a
crossing stay apart from what they are put before; a gate's alias is `GateAlias`, the
number of indicators there are, which a pruned strategy may use a second time.
`Mutations` has one operator per method of the code.  `phase = "raised"` is the
ValueError of `build_param_space` for a stop or target so wide that `low >= high`,
which ends the handler.  Left out are shifts, look-backs, indicator parameters,
trailing and breakeven, sessions and the other filters, and the operator
that changes a parameter: no check of the code relates them to anything else.

### Evaluation, Verdict

What a backtest returns is a choice; what is exact is the slice it is run on and who
reads its result.  `SplitAt` is where the engine starts the out-of-sample part, after
the warm-up of the parameters; `InSampleCut` is where tuner and sweep stop.  A
strategy has at most one integer parameter, and a landscape gives the score of each
of its values, so that `Tune`, the stability check and `Sensitivity` see the same one.
`seen` is a history: the bars that choosing anything has used, by market.  `Verdict`
computes in hundredths and rounds as the code does.

### Storage: Packages, Prices

A file or an object is named by the package whose content it has, so that "some copy of
this package is left" can be said at all.  `stage` is where packager and delivery are with
it: `Request`, `Build`, `Upload`, `Save`, `Ship`, `Reclaim`, `Confirm`; a handler may fail
at any of them (`Drop`), the process may restart (`DropAll`), the operator may wipe the
rows, and a signed link runs out after a week.  A package has a name of its own or shares
it with another one, of which the later build replaces the file.

A price history is in the cache (`cache`: the Parquet file, or in memory mode the entry
of `_MEM`), in the store (`copy`), or in both, whole or torn; `fresh` is whether its
timestamp is within `CACHE_TTL_SECONDS`.  Callers fetch at the same time, each in a
thread: the market data agent, which keeps what it has in `_FRAMES`, and those that do not
wait for it.  `to_parquet` empties the file before it writes it, which another caller may
see, upload (`Put`) or delete as corrupt (`Discard`).  The librarian is in a thread,
too: it looks at the file's age (`Judge`), asks the store over the network, and
removes what has that name by then (`Prune`).  `saved` is a history: whether the object is
exactly what is cached.  A file that is no longer fresh may be taken for older than
`local_cache_keep_days` at any time, which allows more than the code.  Taken together:
`price_cache` follows `minimise_local_disk`, which forces it; `refresh=True` has no
caller; a write that ends makes the file whole, whoever else is still at it.

### Learning

`row`, `verdicts` and `runs` are the tables of one asset and timeframe, with ages for
what the sweeps look at; `journey` is where the test and judgement of a strategy is, so
that verdict and purge are two steps with a crash between them.  `priors` is what
the store has, `mail` the broadcast, `told` the researcher's `_priors`.  A prior is the set
of recipes that count as tried, because that is what the weights tell apart: an untried
recipe gets 1.2.  The refresh interval of the memory agent is a choice (`Learn` may do
nothing), and `Forgo` is a failure between storing and broadcasting.  `stray` is a
history: the store has changed since the last broadcast in a way that is not told.
A retest is of a strategy at rest (`Pipeline` has the same restriction).

## 3. Runs

| Run | Instance | Shows |
|---|---|---|
| `bus` | 2 replicas and a second group, 3 messages | reference counts, queues and waiters right in every interleaving; the bus implements `GroupCursor`; every call ends |
| `agents` | 2 replicas, 2 work messages, 1 command, 1 request, 1 row of the log that fails | a role dispatches no message twice; waiting work is lost only with a stopped replica or the last subscriber |
| `agent_control` | 1 agent, 2 commands, 1 row of the log that fails, shutdown | nothing left behind but the control loop of a failed start, and that until the next end; work taken, restart, shutdown |
| `backtest` | 5 risk blocks, 18 bars, every path of 5 | orders never stale, trades apart, books add up, risk capped, stops only tighten and win ties |
| `look_ahead` | paths of 3 | finding: the stop and size of an order know the bar it executes in |
| `pipeline` | 2 projects, 2 strategies, 2 sets of rules of one shape, a promotion; 1 failed test, handler failure, restart or request | a running project is carried on; rejected ideas stay known as long as their rejection is kept; what is tested, judged and packaged is what is stored |
| `campaigns` | 2 campaigns of 1 or 3 ideas, batches of 2, 1 cycle of the rotation, 2 commands, emits that fail | never more ideas than asked, at most the rest of a batch after a pause, no rotation while campaigns have work, every campaign ends |
| `genome` | lines of up to 5 operators from 2 recipes, crossings with fresh partners | everything delivered or built is coherent; only a contradictory pair can defeat the repairs |
| `evaluation` | markets of 1000 and 230 bars, 3 parameter spaces, 3 landscapes, 15 metrics, 1 promotion | no selection looks at the verdict's bars; the judge is monotone; spikes do not pass; what ships was measured |
| `storage` | 2 packages, 1 history, 2 callers, the librarian, 4 settings | the only copy of a package stays; readers get what they ask for; the librarian removes a price file only for an object that is exactly it, or whose upload is to come or was missed |
| `learning` | 2 strategies of 2 recipes, a ledger that teaches from 2 verdicts on | what was only ever accepted is kept; the bulk of what the newest verdict rejects goes; the researcher steers by the store |
| `failures_learned` | the same | finding: a purged failure is no lesson |

Bounds.  Three bus messages make a request, its answer and one event, or three
events that two replicas share: every case of the code concerns at most two
messages of a queue and one waiter.  Two replicas are the least that share
anything; one row of the log that fails, at a start, in a handler or at an end, is the least that restarts, and the least that leaves a control loop behind.  Two commands are a pause and a
resume, or either and a stop.  Five bars hold an entry, a stop that moves, an
exit, a cooldown of two and the next entry; the risk blocks cover each kind of
stop and target, breakeven, trailing and time stops.  In `pipeline` two
projects race for one set of rules at the architect, or one of them races a
promoted child of the other; two ideas of one shape are the least that
can be tuned or repaired into each other; `MaxTrouble` is shared by everything that
goes wrong or is asked, and `MaxBusy = 0` lets the operator ask only when no
message is under way.  Two campaigns are the least where one waits for the other, a brief
of three with batches of two has a batch that is cut short, and one of one idea is
shorter than a batch; two commands stop a campaign and revive it; `Followed` lets one
idea of the first campaign go on to the judge while the others wait.

In `genome` the recipes are one with mirrored sides and a gate and one with exit rules
and a trend filter, which between them have every group a repair can empty.  `GateCap` (4
in the code) and `MaxConditions` (8) are scaled down together to 2 and 5, which keeps
the room between them, `MaxRepairRounds` (4) is the 2 that always suffice, and five operators are a full mutation of three and a crossing (which
counts two), or two mutations, so that an alias can be taken, pruned and taken again.
In `evaluation` the short market is one where a slow parameter leaves no 50 bars out of
sample; the thresholds are those of `config/factory.yaml`, and the metrics sit at both
sides of each near-miss boundary.  `storage` has the settings that differ in where the
last copy can be; two packages are the least that share a name, two callers the least
that race.  `learning` learns from two
verdicts (5 in the code), which two strategies, or one and its retest, make.

Deadlock is not checked where a model stops at its bounds or the system may fall
idle; `storage` and `learning`, where a restart and time are always possible, check it.

Fairness.  The event loop runs a ready task eventually, and the timeouts of
`wait_for` fire: weak fairness of each agent's main task and control task, of the
`aclose()` the loop has scheduled, and of the end of a call.  Nothing is assumed of
publishers, operators or handlers that may or may not ask.  In `Campaigns` the ticker is
weakly fair: `while not self._stop` with a sleep that ends; the operator and the
squads need not act, `CampaignEnds` excepts an orchestrator that stays paused,
and says nothing of a campaign that does not stay running.  In `Learning` time passes
(`Tick`) and the librarian's loop comes round (`Strip`; `rejected_detail_keep_hours` is not
0): it has no other way out than the stop event, and suppresses the exceptions of a sweep.

Symmetry is used in `agents` (replicas) and `pipeline` (projects, strategies,
ideas) only, where no liveness is checked.

## 4. Findings

Two runs TLC refutes, each with the sentence of the repository it disagrees with
quoted in `PROJECT.json`:

1. `look_ahead`: "Nothing can trade the candle it was computed from", but the
   ATR that sizes an entry contains the bar it fills in.
2. `failures_learned`: "the memory agent builds its priors from failures as much as
   successes", but the purge empties the IR the ledger takes the recipe from, so
   that a recipe that was only ever rejected keeps the bonus of an untried one.

Disagreements of code and text that the models contain and on which no run is spent:

- "pausing "tester" has to reach all four replicas" (`agents/base.py:109-111`): replicas compare
  the target with `tester-1` .. `tester-4` (`agents/base.py:115`).
- "Deliberately a group of one per *instance*" (`agents/base.py:109`): after a start that failed the group of the instance has two
  members, which share it, so that the first to take a command is the only one to obey;
  a kill ends that control loop only (`agents/base.py:77`, 87).
- A killed agent whose row "stopped" cannot be written is run again and, since `_stop`
  stays set, drops one more message before it ends (`agents/base.py:83`, 95, `runtime.py:152-159`).
- "a restart never loses a project" (`docs/ARCHITECTURE.md:116-117`, `store.py:3-5`): nothing takes
  the running projects of the store up again, and the messages were in memory.
- "the same idea is never re-tested" (`README.md:48-49` of the repository): the tuner replaces
  the fingerprint of the rules that were tested (`agents/validate.py:253-259`).
- "the fingerprint stops the factory re-inventing and re-testing the same failing idea
  forever" (`store.py:806-807`) and "so the factory never re-tests the same failing idea"
  (`config/factory.yaml:135-136`): after `rejected_keep_days`, 14 in the same file, the librarian
  deletes the row with the fingerprint (`store.py:504-526`, `agents/system.py:484`), and the
  rules may be designed and tested again.  `RejectedIsKnown` says what is left of the
  promise.
- "Metrics and verdicts are NEVER deleted by these settings" (`config/factory.yaml:126-129`)
  and "metrics and verdicts are always kept" (`store.py:461-462`): `rejected_keep_days`
  deletes runs and verdicts of rejected strategies (`store.py:517-519`), and the purge at the
  rejection deletes the rows of the runs, metrics included (`store.py:814-817`).
- "Only the newest one counts" (`store.py:560-562`), of several verdicts: both sweeps go by any
  REJECT there is (`store.py:488`, 512-514), so that a strategy rejected once and accepted
  later is stripped, and deleted with its verdicts.  `AcceptedIsKept` is about strategies
  that were never rejected.
- "only after confirming the object store actually has that exact file"
  (`docs/CLOUD_STORAGE.md:148-149`): any object of that name will do (`agents/system.py:551`),
  an older one when the upload of the new file failed (`storage.py:155-160` logs it) or
  was cut off by a restart, or one that was uploaded half written by a fetch that overtook
  another; and the file that is removed need not be the one that was found old, because a
  fetch may have replaced it while the store was asked.  `CacheIsSound` excepts these.
- "using the cache when fresh" (`data/providers.py:132`): in memory mode with a store, an entry
  that has expired is replaced by the copy, however old that is, with a new timestamp
  (`data/providers.py:214-227`).  As long as the copy can be read the provider is not asked
  again, so that in this mode a history never gets a new bar.
- "all producing valid StrategyIR" (`genome.py:3`): a mutation may leave a group with more
  conditions than the schema allows, and the developer then refuses the strategy
  (`phase = "unparsed"` of `Genome`).
- "carried untouched all the way to the judge" (`agents/research.py:64`): the architect's payload has
  neither campaign nor target profit factor (`agents/research.py:379-391`).
- "we never ask for a timeframe an asset is not configured for" (`campaign.py:115-116`): asset and
  timeframe are drawn independently (`campaign.py:164-170`).
- "oscillator thresholds mirror around their midpoint" (`genome.py:166`): only plain comparisons
  do, so the short side of `rsi_pullback` and `stoch_reversal` crosses below the threshold
  the long side crosses above; and the constant, not the indicator, is looked at, so
  that an ADX gate is mirrored too (`genome.py:167-173`).
- "the out-of-sample tail is still untouched when the judge sees the result" (`agents/champion.py:11-13`):
  the champion promotes by a score computed from that tail (`agents/champion.py:62-66`) and may
  put the strategy back on the same market (`sweep.py:142-150`).
- The cursor of a group, which `bus.py` calls durable, goes with its last subscriber, and so
  does what waited for an agent that restarts alone.
- A stop that is gapped through fills at a price the bar did not trade, though "Real fills are
  never generous" (`backtest/engine.py:10`).
- With `keep_local_packages: false` two packages of one name that are in hand together share
  a file: the first delivery removes it, and the second finds nothing to ship
  (`agents/deliver.py:334`, 571-577).  The properties of `storage` leave
  this setting out and say so (`Shared`).
- A delivery is always "delivered": "local" is a channel that always answers ok or offloaded, so
  DELIVERY_FAILED cannot be sent (`agents/deliver.py:593`).
- The download hands out the recorded link, although its comment says "Re-signed on each
  request" (`api.py:469-472`): a signed one is dead after a week.

## 5. Proofs

`MemoryBus_proofs` proves, from `BusAssumption` alone (finitely many consumers,
each with a group), for any number of groups, consumers, topics and messages:

| Theorem | Property |
|---|---|
| `TypeCorrect` | `TypeOK` |
| `QueuesAgree` | `QueueState` |
| `BusImplementsCursor` | `SharedCursor` |
| `WaitersMatch` | `WaitersAreOpenCalls` |
| `CursorsAdvance` | `CursorForward` of `GroupCursor`, under the mapping of `SharedCursor` |

`QueuesAgree` joins `RefsCount` (a count is the number of members), `QueueTail` (a queue
is the tail of the log from the group's cursor) and `NoDoubleWork` (a message has one
holder).  `IInv` joins types, counts and queues with `HandsAreYielded` (only a
generator that has yielded holds a message): a count is the number of members
only as long as `Finish` finds the member it takes off.  That a message has one
holder needs in addition that what is in hand lies before the queue (`Holders`): a
`Get` then hands out a position nobody holds.  `CallsInv` adds that two callers
never await the same request, so an answer completes one future.  The
refinement shows that the initial state maps to `GroupCursor`'s and every step
to a step of it or a stutter; members that join or leave an existing group stutter.
`CursorsAdvance` follows step by step from `CursorStep`: a group that ends takes its
queue with it, so a later member starts at the end of the log and nothing comes twice.

`AgentRuntime_proofs` proves, from `AgentAssumption` (finitely many agents, each with a role, and
no role that is called like the control group of an instance), for any squad, any control
messages and any number of rows of the log that fail, at starts, in handlers and at ends:

| Theorem | Property |
|---|---|
| `TypeCorrect` | `TypeOK` |
| `NothingIsLeft` | `NothingLeftBehind` |
| `NothingTwice` | `DispatchedOnce` |
| `WorkIsKept` | `WaitingWorkIsKept` |
| `UsesTheBus` | every behaviour of the squad is one of its `MemoryBus` |
| `CallsAreAnswered` | `WaitersAreOpenCalls` of that bus |

It cites the lemmas of `MemoryBus_proofs` for the groups and loops of the agents, after showing
that these satisfy `BusAssumption` (`BusConstants`) and that every step of the squad is a
step of the bus or leaves it alone (`OnBus`).  `IInv` adds to the invariant of the bus what
each state of `run()` and of its control loops goes with (`Follows`: `MainAgrees` for the main
loop, `SlotAgrees` for each control loop, `LoopsAgree` for which of them there are; `NothingLeftBehind`
by itself is not inductive: it says nothing of an agent that is leaving), that what a role has dispatched lies
behind its cursor (`TriedBehind`), and that what waits at the gate has not been dispatched
(`HeldUntried`).  A `Get` returns a position ahead of the cursor, so nobody has dispatched
it, and a gated message keeps its one holder until it is dispatched (`Holders`).  `WorkIsKept`
follows step by step: `KeptGet` says that what a loop skips on its way was no work,
`KeptFinish` that a queue only goes with the group.

`Pipeline_proofs` proves, from `PipelineAssumption` (`NoRules` is no idea, strategy or project,
every idea has a shape, the bounds are natural numbers), for any ideas, strategies and
projects, and any number of promotions, failures, restarts and requests:

| Theorem | Property |
|---|---|
| `TypeCorrect` | `TypeOK` |
| `RunningProjectsAreCarried` | `RunningIsCarried` |
| `RejectedRulesAreKnown` | `RejectedIsKnown` |
| `RulesAreKeptAlong` | `RulesAreKept` |

`Coherent` is the invariant of one strategy: until somebody asks for it again, one message at
most carries it, and what that message says (rules, runs, verdict) is what the row, the
runs and the verdicts of the store say at that position; a package exists only behind its verdict.
That there is one message only is what makes the rest inductive: a tuner that replaces the
rules of a row cannot then have a second message of the same strategy, with the old
rules, between tester and judge.  An id that is reserved but not saved has one message and no
row, so a new strategy disturbs nobody.  `Ledger` joins what a row, its fingerprint and
the rejections of the strategy say of one another, which the deletion of all three keeps
where a deletion of two of them would not; `Agrees` has a case of its own for a row
that is gone while a message still goes round.  `Carried` says which messages will close their project.

`Campaigns_proofs` proves, from `CampaignsAssumption` (an asset has a timeframe, there
are recipes, a batch and the ceiling of a brief are at least one), for any
number of campaigns, ideas, commands and failures:

| Theorem | Property |
|---|---|
| `TypeCorrect` | `TypeOK` |
| `HeedsTheOperator` | `WithinItsBrief` |
| `CampaignsOnly` | `OnlyCampaigns` |

`HeedsTheOperator` joins `GeneratesNoMore` and `StopsSoon`.  Neither count is inductive:
the length of a batch is taken from the book before its first emit, and the campaign may
be paused, resumed and cancelled at each of them.  `Batches` says what survives: the rest of the batch still fits into the brief,
what was started late and the rest make no more than one batch, and the campaigns the
tick has not come to want more and got nothing late.  `CampaignsOnly` then follows
step by step: only `Conveyor` starts a cycle of the rotation, `Emit` names its
campaign, and what the squads send is never a `cycle.start`.

`Evolution_proofs` proves the properties of `Genome`, from `GenomeAssumption` (the recipes
bred are among the fifteen, risk blocks have their types, a gate is of one of the five
indicators `_mut_add_condition` picks from, levels are integers, stops and targets
natural numbers) and `MaxRepairRoundsAssumption` (two rounds or more; the code has four), for any of
the recipes, any levels, and any number of operators, generations and crossings:

| Theorem | Property |
|---|---|
| `GenomeTypeCorrect` | `GenomeTypeOK` |
| `CoherentAlways` | `StrategiesAreCoherent` |
| `OnlyPairsDefeatIt` | `OnlyPairsDefeatRepair` |

`Coherent` is not inductive: that rules exist for exactly the sides traded survives a repair
only because what the repair falls back to has an indicator to rise, and the trend filter
that a crossing takes over is looked up by name among the renamed indicators of the
*other* parent, then of the *first* one (`<<"b">> \o trend`, `<<"a">> \o trend`).
`Sound` is the strengthening.  `Sided` and `Over` say that every condition refers to an
indicator the strategy has, and to one at least, so a strategy with a rule has an indicator.
`Dictionary` states a convention the code relies on and nowhere writes down: whether an
indicator can carry a trend can be told from the last part of its alias (`TrendNames`,
`Carries`).  The fifteen recipes keep it, a prefix keeps the last part, and a gate's alias ends in a
number; without it the crossing could put the filter on an indicator of the same name
and another type.  The proof follows the code: every blueprint of every recipe is a
`GoodBlueprint` (`RecipesAreGood`), `fresh`, each mutation, the crossing and the pruning
keep `Sound` (`FreshIsSound`, `MutationIsSound`, `SpliceIsSound`, `PruneSound`), and so does a round
of repairs (`RepairOneFacts`, `RepairFacts`).

That the repairs converge is `GenomeInv`: after one round a strategy is `Weeded`, without
nonsense and with a stop, because what a round adds is only ever a rising condition; that round may
have emptied and retired a side and taken the last exit with it, so after two rounds there
is also a way out (`RoundFacts`).  From then on the audit finds contradictory pairs
or nothing (`OnlyPairsLeft`, from `ErrorFacts`), and a round that changes nothing had only
pairs to mend (`StuckOnPairs`).  A single round would not do, hence the assumption.
`Without`, `Repair` and the flattening of error lists recurse along a sequence; `Least`,
`Induction` and `Recursion` do for such a function, with the least element of a set of
numbers, what the library's theorems on induction do for an operator.

It also proves, from `LearningAssumption`, for any strategies, recipes and ages:

| Theorem | Property |
|---|---|
| `TypeCorrect` | `TypeOK` |
| `SteeredByStore` | `SteersByStore` |
| `AcceptedStays` | `AcceptedIsKept` |

`SteeredByStore` needs to know of the message under way what the property says of the
one that has arrived (`Mailed`): what is in the mail is what the store has, unless it
changed without being told.  `AcceptedStays` follows from `PurgesRejected`: a journey
that has its verdict behind it and its purge before it belongs to a rejected row.

`Evaluation_proofs` proves all properties of the `evaluation` run, from
`EvaluationAssumption` (a history is longer than any warm-up, a parameter has a warm-up
at each of its values and lies within its bounds, the share held out is 1 to 99 %) and
`JudgeAssumption` (the types of the metrics; at least one trade is asked for, and a near
miss is off by less than all of the threshold):

| Theorem | Property |
|---|---|
| `TypeCorrect` | `TypeOK` |
| `SelectionStops` | `SelectionStopsBeforeTail` |
| `ShipsMeasured` | `ShipsWhatWasMeasured` |
| `JudgesMonotonically` | `VerdictIsMonotone` |
| `SpikesFail` | `SpikesDoNotPass` |

`Selected` rests on `Cuts`: the warm-up that the tuner's cut ignores moves the engine's
cut up by at least as much as it takes from the share, rounding down in both.
`Measured` carries the split from the test to the verdict, and a strategy without
metrics is rejected because zero trades are no near miss.  Monotony is shown gate by gate: a
gate failed by better metrics is failed by worse ones, by at least as much
(`GatesFollowMetrics`, `GatesFollowTarget`), which holds through the rounding of the ratio
to thousandths and its cut-off at 3 (`QuotientRises`, `QuotientFalls`), and then for the
verdict (`GradesFollowGates`).  `Moves` says that rounding and clipping leave one of the
two perturbed values different from the parameter.

`Storage_proofs` proves all properties of the `storage` run, from
`PackagesAssumption` (a missing file or object is
none of those there are) and `StorageAssumption` (the market data agent is one of the callers), for any packages, names, settings and callers:

| Theorem | Property |
|---|---|
| `TypeCorrect` | `TypesOK` |
| `CopyIsKept` | `SoleCopyIsKept` |
| `ReadersServed` | `ReadersGetIt` |
| `HistoryIsKept` | `CacheIsSound` |

`Right` says that files, objects and couriers hold the package or a namesake, if
anything, and that a link means an object; `Placed` what holds at each place of the
delivery's way, so that `Reclaim` removes a file only where another copy is known and
`Ship` never forgets one.  `HistoryIsKept` follows step by step (`CachedStep`) from `Cached`: an
upload that is to come has somebody who will do it (`ToCome`), what counts as saved is in
the store (`Saved`), and a file that is torn under an uploader's hands is in those of a
writer (`InHands`).

`Backtest_proofs` proves, from `BacktestAssumption` (a bar's open and close lie between its
low and high; stops and targets are at least one point) and `PricesExceedCosts`, for any bars,
risk blocks, costs and length of the history:

| Theorem | Property |
|---|---|
| `TypeCorrect` | `TypeOK` |
| `InTime` | `TradesInTime` |
| `StopsHold` | `StopsBind` |
| `RiskCapped` | `RiskIsCapped` |
| `BooksBalance` | `BooksAgree` |

`Typed` adds to the types where in the loop what can be: an order is gone once the open is
over, and the position at an open is older than it.  `InTime` needs `Apart`, which says of
the last trade and `cooldown` what the property says of two trades, and `Limited`, which
knows that a position at a close has not reached its limit yet.  `RiskCapped` keeps the
distance to the first stop as a witness (`Exposed`): `Sizes` bounds the lots by it through
both roundings, a stop only moves closer, and a bar that does not reach the stop closes on
this side of it (`HeldOver`), so time stop and end of data lose no more either.
`PricesExceedCosts` says that a price is more than half the spread and the slippage.  It
keeps the entry, and the stop of a short position, off 0, which the engine takes for "no
stop" (`backtest/engine.py:261`); about prices that small the theorem says nothing.
`BooksBalance` joins `Counted` (the exposure is the sum over the trades, and over the bars
the open position has been held) and `Marked` (where no position is open
the curve ends with the equity, and none is open once the data is used up).  The sums are recursive
functions of the trade list: that appending a trade adds its share is shown by the least list
length for which it fails.

Only model-checked: liveness (`CallsEnd`, `CampaignEnds`, `RejectedDetailGoes`, and `WorkIsTaken`
and `Supervised` of `AgentRuntime`), which is out of the prover's reach, as is ENABLED.
Every invariant and every action property of a passing run is a theorem.  The two
findings are TLC's counterexamples.

## 6. Plan

What is left, in this order:

1. `Pipeline`: requests of the operator while the strategy is under way (a package
   has the evidence of its verdict), and `wipe_all` with jobs in flight, on an instance
   small enough for them.
2. The Redis bus: the acknowledgement protocol, compared with `GroupCursor`.
3. `Backtest` with the runs of a split carried into the rows the judge reads.

## 7. Not modelled

The generators of MQL5, Pine and Python turn a strategy into text, and the compiler into
signals; indicators and the statistics of `metrics.py` compute with floating point
numbers.  Providers' formats, the language model, configuration files, pages, the command line
and deployment are input and output.  Their results appear in the models as constants
or choices.  The Redis bus is a protocol between processes whose server is not part of
the repository; it is in the plan.  The roster, heartbeats and the monitor's samples
are display only.

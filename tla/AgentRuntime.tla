---------------------------- MODULE AgentRuntime ----------------------------
(***************************************************************************)
(* Agents on the bus: the main loop, the control loop and the status of a  *)
(* BaseAgent (agents/base.py), and the supervision of the squad            *)
(* (runtime.py, Factory).  Replicas of a role share the group of the role; *)
(* each agent has a control group of its own, that has more than one       *)
(* member only after run() failed between its side tasks and its try.      *)
(*                                                                         *)
(* A handler is whatever handle() does with one message: it may ask        *)
(* another agent, and it ends, by returning, by an exception that          *)
(* _dispatch swallows or by its timeout.  The agent that answers and the   *)
(* producers of work are the environment.                                  *)
(***************************************************************************)
EXTENDS Integers, Sequences, FiniteSets

CONSTANTS
  Agent,       \* agent instances
  Role,        \* agent classes: names of consumer groups
  RoleOf,
  Target,      \* the names the operator uses in control messages
  Shutdown,    \* whether the factory may be stopped
  MaxWork,     \* bound: work messages published
  MaxCommand,  \* bound: control messages published
  MaxAsk,      \* bound: requests published
  MaxCrash     \* bound: rows of the log that fail, and with them run()

ASSUME AgentAssumption ==
  /\ IsFiniteSet(Agent)
  /\ RoleOf \in [Agent -> Role]
  /\ \A a \in Agent : << a, "ctl" >> \notin Role  \* no role is called <instance>-ctl
  /\ Target \subseteq {"*"} \cup Role \cup Agent
  /\ Shutdown \in BOOLEAN
  /\ {MaxWork, MaxCommand, MaxAsk, MaxCrash} \subseteq Nat

VARIABLES
  log, queues, exists, refs, sub, got, waiters, asked, answer,  \* MemoryBus
  pc,        \* where run() and its supervisor are
  ctl,       \* the control loops: each "off", "new", "loop" or "done"
  stop,      \* _stop is set
  clear,     \* _paused is set, which means: not paused
  status,    \* AgentState.status
  previous,  \* the status ask() restores
  crashed,   \* run() is leaving with an exception
  stopping,  \* Factory._stopping
  crashes,   \* how many rows of the log failed
  orphans,   \* history: the control loops of starts that failed
  tries      \* history: how often each role dispatched each message

busVars == << log, queues, exists, refs, sub, got, waiters, asked, answer >>
vars == << busVars, pc, ctl, stop, clear, status, previous, crashed, stopping,
           crashes, orphans, tries >>

\* The loops of an agent on the bus: its main loop, and one control loop for
\* every start of run() that has not ended (bound: MaxCrash starts fail).
Slot == 1 .. (MaxCrash + 1)
Main(a) == << a, 0 >>
Control(a, s) == << a, s >>
Ctl(a) == << a, "ctl" >>

\* An instance that is alone in its role has the role's name.
Replicas(a) == {b \in Agent : RoleOf[b] = RoleOf[a]}
Name(a) == IF Replicas(a) = {a} THEN RoleOf[a] ELSE a

Command == [target : Target, action : {"pause", "resume", "stop"}]
NoCommand == [target |-> "*", action |-> "none"]

BusGroup == Role \cup {Ctl(a) : a \in Agent}
BusLoop == Agent \X (0 .. (MaxCrash + 1))
LoopGroup == [c \in BusLoop |-> IF c[2] = 0 THEN RoleOf[c[1]] ELSE Ctl(c[1])]
Subject == {"work", "control", "data.request", "data.response"}
Subscribed == [g \in BusGroup |-> IF g \in Role THEN {"work"} ELSE {"control"}]
Payload == Command \cup {NoCommand}
MaxSent == MaxWork + MaxCommand + 2 * MaxAsk

Bus == INSTANCE MemoryBus WITH
         Group    <- BusGroup,
         Consumer <- BusLoop,
         GroupOf  <- LoopGroup,
         Topic    <- Subject,
         Wanted   <- Subscribed,
         Body     <- Payload,
         MaxLog   <- MaxSent

\* Where run() is, seen by its supervisor: "down" waits to be run, "exited"
\* is over.  A message in hand waits at the "gate" of a paused agent; when
\* the event is set the agent is "woken", and dispatches even if a new pause
\* clears the event before its turn comes.
RunState == {"down", "loop", "gate", "woken", "handling", "asking", "leaving", "exited"}
Status == {"starting", "idle", "working", "waiting", "paused", "stopped"}

\* _set_status(): only "idle" replaces "paused".
SetStatus(a, s) == IF status[a] = "paused" /\ s # "idle" THEN "paused" ELSE s

Sent(topic) == Cardinality({i \in 1 .. Len(log) : log[i].topic = topic})

-----------------------------------------------------------------------------

Init ==
  /\ Bus!Init
  /\ pc = [a \in Agent |-> "down"]
  /\ ctl = [a \in Agent |-> [s \in Slot |-> "off"]]
  /\ stop = [a \in Agent |-> FALSE]
  /\ clear = [a \in Agent |-> TRUE]
  /\ status = [a \in Agent |-> "starting"]
  /\ previous = [a \in Agent |-> "starting"]
  /\ crashed = [a \in Agent |-> FALSE]
  /\ stopping = FALSE
  /\ crashes = 0
  /\ orphans = [a \in Agent |-> {}]
  /\ tries = [r \in Role |-> [i \in 1 .. MaxSent |-> 0]]

\* The control loops that listen, or will when they first run.
Live(a) == {s \in Slot : ctl[a][s] \in {"new", "loop"}}

\* The supervisor calls run(): its side tasks are created before anything
\* that may fail.  The back-off of a second or more outlasts any aclose()
\* that is scheduled.
NewControl(a, s) ==
  /\ pc[a] = "down" /\ ~ stopping
  /\ \A t \in Slot \ Live(a) : sub[Control(a, t)] = "none"
  /\ s \notin Live(a) /\ 1 .. (s - 1) \subseteq Live(a)
  /\ ctl' = [ctl EXCEPT ![a][s] = "new"]
  /\ status' = [status EXCEPT ![a] = "idle"]
  /\ UNCHANGED << stop, clear, previous, crashed, stopping, tries >>

Run(a) ==
  \E s \in Slot :
    /\ NewControl(a, s)
    /\ Bus!Subscribe(Main(a))
    /\ pc' = [pc EXCEPT ![a] = "loop"]
    /\ orphans' = [orphans EXCEPT ![a] = @ \ {s}]
    /\ UNCHANGED crashes

\* The row "started" cannot be written: run() is left before its try, and
\* nobody cancels the control loop.
RunFails(a) ==
  \E s \in Slot :
    /\ NewControl(a, s)
    /\ crashes < MaxCrash
    /\ crashes' = crashes + 1
    /\ orphans' = [orphans EXCEPT ![a] = @ \cup {s}]
    /\ UNCHANGED pc
    /\ UNCHANGED busVars

\* A control loop is a task of its own: it subscribes when it first runs.
StartControl(a, s) ==
  /\ ctl[a][s] = "new" /\ pc[a] # "leaving"
  /\ Bus!Subscribe(Control(a, s))
  /\ ctl' = [ctl EXCEPT ![a][s] = "loop"]
  /\ UNCHANGED << pc, stop, clear, status, previous, crashed, stopping, crashes, orphans, tries >>

Dispatching(a, p) ==
  /\ pc' = [pc EXCEPT ![a] = "handling"]
  /\ status' = [status EXCEPT ![a] = SetStatus(a, "working")]
  /\ tries' = [tries EXCEPT ![RoleOf[a]][p] = @ + 1]

\* Mutant of TakeWork: a paused agent skips the message instead of waiting.
TakeWorkSkips(a) ==
  /\ pc[a] = "loop" /\ ~ stopping
  /\ \/ /\ ~ clear[a] /\ ~ stop[a]
        /\ \E k \in 1 .. Len(queues[RoleOf[a]]) : Bus!Consume(Main(a), k)
        /\ UNCHANGED << pc, status, tries >>
     \/ /\ clear[a] \/ stop[a]
        /\ Bus!Get(Main(a))
        /\ IF stop[a] THEN pc' = [pc EXCEPT ![a] = "leaving"] /\ UNCHANGED << status, tries >>
           ELSE Dispatching(a, got'[Main(a)])
  /\ UNCHANGED << ctl, stop, clear, previous, crashed, stopping, crashes, orphans >>

\* A stopped agent notices only now, with a message in hand, and leaves.
TakeWork(a) ==
  /\ pc[a] = "loop" /\ ~ stopping
  /\ Bus!Get(Main(a))
  /\ \/ /\ stop[a]
        /\ pc' = [pc EXCEPT ![a] = "leaving"]
        /\ UNCHANGED << status, tries >>
     \/ /\ ~ stop[a] /\ clear[a]
        /\ Dispatching(a, got'[Main(a)])
     \/ /\ ~ stop[a] /\ ~ clear[a]
        /\ pc' = [pc EXCEPT ![a] = "gate"]
        /\ UNCHANGED << status, tries >>
  /\ UNCHANGED << ctl, stop, clear, previous, crashed, stopping, crashes, orphans >>

Wake(a) ==
  /\ pc[a] = "woken" /\ ~ stopping
  /\ Dispatching(a, got[Main(a)])
  /\ UNCHANGED << ctl, stop, clear, previous, crashed, stopping, crashes, orphans >>
  /\ UNCHANGED busVars

\* ask(): remember the status, then Bus.request().
Ask(a) ==
  /\ pc[a] = "handling" /\ ~ stopping
  /\ Sent("data.request") < MaxAsk
  /\ Bus!Request(Main(a), [kind |-> "request", topic |-> "data.request",
                           replyTo |-> 0, body |-> NoCommand])
  /\ pc' = [pc EXCEPT ![a] = "asking"]
  /\ previous' = [previous EXCEPT ![a] = status[a]]
  /\ status' = [status EXCEPT ![a] = SetStatus(a, "waiting")]
  /\ UNCHANGED << ctl, stop, clear, crashed, stopping, crashes, orphans, tries >>

\* The answer, BusTimeout, or the cancellation by the handler's timeout: the
\* finally block of ask() puts back the status it found.
EndAsk(a) ==
  /\ pc[a] = "asking"
  /\ \/ Bus!Receive(Main(a)) /\ ~ stopping
     \/ Bus!GiveUp(Main(a))
  /\ pc' = [pc EXCEPT ![a] = "handling"]
  /\ status' = [status EXCEPT ![a] = SetStatus(a, previous[a])]
  /\ UNCHANGED << ctl, stop, clear, previous, crashed, stopping, crashes, orphans, tries >>

\* Mutant of AfterDispatch: "working" becomes a status that AgentStatus does
\* not have.
AfterDispatchReady(a) == IF status[a] = "working" THEN "ready" ELSE status[a]

\* The finally block of _dispatch().
AfterDispatch(a) == IF status[a] = "working" THEN "idle" ELSE status[a]

Done(a) ==
  /\ pc[a] = "handling" /\ ~ stopping
  /\ Bus!Resume(Main(a))
  /\ pc' = [pc EXCEPT ![a] = "loop"]
  /\ status' = [status EXCEPT ![a] = AfterDispatch(a)]
  /\ UNCHANGED << ctl, stop, clear, previous, crashed, stopping, crashes, orphans, tries >>

\* Mutant of Crash: the message that failed is tried again.
CrashRetries(a) ==
  /\ pc[a] = "handling" /\ ~ stopping
  /\ crashes < MaxCrash
  /\ crashes' = crashes + 1
  /\ pc' = [pc EXCEPT ![a] = "woken"]
  /\ status' = [status EXCEPT ![a] = AfterDispatch(a)]
  /\ UNCHANGED << ctl, stop, clear, previous, crashed, stopping, orphans, tries >>
  /\ UNCHANGED busVars

\* The handler failed, and writing that to the blackboard fails as well.
Crash(a) ==
  /\ pc[a] = "handling" /\ ~ stopping
  /\ crashes < MaxCrash
  /\ crashes' = crashes + 1
  /\ crashed' = [crashed EXCEPT ![a] = TRUE]
  /\ pc' = [pc EXCEPT ![a] = "leaving"]
  /\ status' = [status EXCEPT ![a] = AfterDispatch(a)]
  /\ UNCHANGED << ctl, stop, clear, previous, stopping, orphans, tries >>
  /\ UNCHANGED busVars

-----------------------------------------------------------------------------
(* Control *)

\* Mutant of SetClear: the event is set, and nobody who waits for it hears.
SetClearUnheard(a, b) ==
  /\ clear' = [clear EXCEPT ![a] = b]
  /\ UNCHANGED pc

\* Event.set() and Event.clear(), with what the waiting main loop notices.
SetClear(a, b) ==
  /\ clear' = [clear EXCEPT ![a] = b]
  /\ pc' = IF b /\ pc[a] = "gate" THEN [pc EXCEPT ![a] = "woken"] ELSE pc

\* One message of a control loop, which does not suspend while it obeys.
Obey(a, s) ==
  \E k \in 1 .. Len(queues[Ctl(a)]) :
    LET m == log[queues[Ctl(a)][k]].body IN
    /\ ctl[a][s] = "loop" /\ pc[a] # "leaving"
    /\ Bus!Consume(Control(a, s), k)
    /\ \/ /\ m.target \notin {"*", Name(a)}
          /\ UNCHANGED << pc, ctl, stop, clear, status >>
       \/ /\ m.target \in {"*", Name(a)} /\ m.action = "pause"
          /\ SetClear(a, FALSE)
          /\ status' = [status EXCEPT ![a] = "paused"]
          /\ UNCHANGED << ctl, stop >>
       \/ /\ m.target \in {"*", Name(a)} /\ m.action = "resume"
          /\ SetClear(a, TRUE)
          /\ status' = [status EXCEPT ![a] = "idle"]
          /\ UNCHANGED << ctl, stop >>
       \/ /\ m.target \in {"*", Name(a)} /\ m.action = "stop"
          /\ stop' = [stop EXCEPT ![a] = TRUE]
          /\ SetClear(a, TRUE)
          /\ ctl' = [ctl EXCEPT ![a][s] = "done"]
          /\ UNCHANGED status
    /\ UNCHANGED << previous, crashed, stopping, crashes, orphans, tries >>

\* A control loop returned: aclose() of its subscription.
CloseControl(a, s) ==
  /\ ctl[a][s] = "done"
  /\ Bus!Finish(Control(a, s))
  /\ UNCHANGED << pc, ctl, stop, clear, status, previous, crashed, stopping, crashes, orphans, tries >>

-----------------------------------------------------------------------------
(* The end of run(), and the supervisor *)

\* Leaving the async for gives up the message and the subscription.
LeaveLoop(a) ==
  /\ pc[a] = "leaving"
  /\ Bus!Drop(Main(a))
  /\ UNCHANGED << pc, ctl, stop, clear, status, previous, crashed, stopping, crashes, orphans, tries >>

CloseMain(a) ==
  /\ sub[Main(a)] = "dropped"
  /\ Bus!Finish(Main(a))
  /\ UNCHANGED << pc, ctl, stop, clear, status, previous, crashed, stopping, crashes, orphans, tries >>

\* The finally block ends the side tasks of every start since the last end.
CancelControl(a, s) ==
  /\ pc[a] = "leaving" /\ s \in Live(a)
  /\ IF ctl[a][s] = "loop" THEN Bus!Finish(Control(a, s)) ELSE UNCHANGED busVars
  /\ ctl' = [ctl EXCEPT ![a][s] = "off"]
  /\ UNCHANGED << pc, stop, clear, status, previous, crashed, stopping, crashes, orphans, tries >>

\* The end of run(): the row "stopped" may fail as well, and after any
\* exception the supervisor runs the agent again, whatever _stop says.
Ended(a) ==
  \E fails \in BOOLEAN :
    /\ fails => crashes < MaxCrash
    /\ crashes' = IF fails THEN crashes + 1 ELSE crashes
    /\ pc' = [pc EXCEPT ![a] = IF (crashed[a] \/ fails) /\ ~ stopping THEN "down" ELSE "exited"]
    /\ crashed' = [crashed EXCEPT ![a] = FALSE]
    /\ status' = [status EXCEPT ![a] = SetStatus(a, "stopped")]
    /\ orphans' = [orphans EXCEPT ![a] = {}]
    /\ UNCHANGED << ctl, stop, clear, previous, stopping, tries >>
    /\ UNCHANGED busVars

\* Mutant of Left: the finally block ends the side tasks of this start only.
LeftEarly(a) ==
  /\ pc[a] = "leaving"
  /\ sub[Main(a)] # "yielded" /\ Live(a) \subseteq orphans[a]
  /\ Ended(a)

Left(a) ==
  /\ pc[a] = "leaving"
  /\ sub[Main(a)] # "yielded" /\ Live(a) = {}
  /\ Ended(a)

\* Factory.stop(): every agent is told, then every supervisor is cancelled.
FactoryStop ==
  /\ Shutdown /\ ~ stopping
  /\ stopping' = TRUE
  /\ stop' = [a \in Agent |-> TRUE]
  /\ clear' = [a \in Agent |-> TRUE]
  /\ UNCHANGED << pc, ctl, status, previous, crashed, crashes, orphans, tries >>
  /\ UNCHANGED busVars

\* Mutant of Unwind: the wait for the pause to end survives the cancellation.
UnwindNotGate(a) ==
  /\ stopping
  /\ \/ /\ pc[a] = "loop"
        /\ Bus!Finish(Main(a))
        /\ pc' = [pc EXCEPT ![a] = "leaving"]
     \/ /\ pc[a] = "handling"
        /\ pc' = [pc EXCEPT ![a] = "leaving"]
        /\ UNCHANGED busVars
     \/ /\ pc[a] = "down"
        /\ pc' = [pc EXCEPT ![a] = "exited"]
        /\ UNCHANGED busVars
  /\ status' = [status EXCEPT ![a] = AfterDispatch(a)]
  /\ UNCHANGED << ctl, stop, clear, previous, crashed, stopping, crashes, orphans, tries >>

\* CancelledError where run() is suspended, or in the supervisor's backoff.
Unwind(a) ==
  /\ stopping
  /\ \/ /\ pc[a] = "loop"
        /\ Bus!Finish(Main(a))
        /\ pc' = [pc EXCEPT ![a] = "leaving"]
     \/ /\ pc[a] \in {"gate", "woken", "handling"}
        /\ pc' = [pc EXCEPT ![a] = "leaving"]
        /\ UNCHANGED busVars
     \/ /\ pc[a] = "down"
        /\ pc' = [pc EXCEPT ![a] = "exited"]
        /\ UNCHANGED busVars
  /\ status' = [status EXCEPT ![a] = AfterDispatch(a)]
  /\ UNCHANGED << ctl, stop, clear, previous, crashed, stopping, crashes, orphans, tries >>

-----------------------------------------------------------------------------
(* The environment: upstream agents, the agent that answers, the operator *)

agentVars == << pc, ctl, stop, clear, status, previous, crashed, stopping, crashes, orphans, tries >>

PublishWork ==
  /\ Sent("work") < MaxWork
  /\ Bus!Publish([kind |-> "event", topic |-> "work", replyTo |-> 0, body |-> NoCommand])
  /\ UNCHANGED agentVars

PublishAnswer(r) ==
  /\ log[r].kind = "request" /\ Bus!Answers(r) = {}
  /\ Bus!Publish([kind |-> "response", topic |-> "data.response", replyTo |-> r,
                  body |-> NoCommand])
  /\ UNCHANGED agentVars

PublishControl(m) ==
  /\ Sent("control") < MaxCommand
  /\ Bus!Publish([kind |-> "event", topic |-> "control", replyTo |-> 0, body |-> m])
  /\ UNCHANGED agentVars

AgentStep(a) ==
  \/ Run(a) \/ RunFails(a) \/ TakeWork(a) \/ Wake(a)
  \/ Ask(a) \/ EndAsk(a) \/ Done(a) \/ Crash(a)
  \/ LeaveLoop(a) \/ CloseMain(a) \/ Left(a) \/ Unwind(a)
  \/ \E s \in Slot : \/ StartControl(a, s) \/ Obey(a, s)
                     \/ CloseControl(a, s) \/ CancelControl(a, s)

Next ==
  \/ \E a \in Agent : AgentStep(a)
  \/ FactoryStop
  \/ PublishWork
  \/ \E r \in 1 .. Len(log) : PublishAnswer(r)
  \/ \E m \in Command : PublishControl(m)

Spec == Init /\ [][Next]_vars

\* The main task, the control tasks and the scheduled aclose() of each agent
\* run when they can; a handler ends because its timeout ends it.  Nothing is
\* promised about publishers, about the operator, or about a handler's asking.
MainTask(a) ==
  \/ Run(a) \/ RunFails(a) \/ TakeWork(a) \/ Wake(a) \/ EndAsk(a) \/ Done(a)
  \/ LeaveLoop(a) \/ (\E s \in Slot : CancelControl(a, s)) \/ Left(a) \/ Unwind(a)
ControlTask(a, s) == StartControl(a, s) \/ Obey(a, s)

Fairness ==
  \A a \in Agent :
    /\ WF_vars(MainTask(a)) /\ WF_vars(CloseMain(a))
    /\ \A s \in Slot : WF_vars(ControlTask(a, s)) /\ WF_vars(CloseControl(a, s))

FairSpec == Spec /\ Fairness

-----------------------------------------------------------------------------
(* Properties *)

TypeOK ==
  /\ Bus!TypeOK
  /\ pc \in [Agent -> RunState]
  /\ ctl \in [Agent -> [Slot -> {"off", "new", "loop", "done"}]]
  /\ {stop, clear, crashed} \subseteq [Agent -> BOOLEAN]
  /\ status \in [Agent -> Status] /\ previous \in [Agent -> Status]
  /\ stopping \in BOOLEAN
  /\ crashes \in 0 .. MaxCrash
  /\ orphans \in [Agent -> SUBSET Slot]
  /\ tries \in [Role -> [1 .. MaxSent -> Nat]]

(* Replicas share the work, they do not repeat it: however replicas pause,  *)
(* crash, restart and stop, a role dispatches no message twice.             *)
DispatchedOnce == \A r \in Role : \A p \in 1 .. MaxSent : tries[r][p] <= 1

Running(a) == pc[a] \in {"loop", "gate", "woken", "handling", "asking"}

(* What an agent holds on the bus matches where run() is.  A run that       *)
(* begins takes everything along when it ends, the control loops of failed  *)
(* starts before it included: behind it nothing is subscribed and no waiter *)
(* is left, except an aclose() that is scheduled.  Only a start that fails  *)
(* leaves a control loop, and a running agent has besides such loops at     *)
(* most its own, and one that hears the operator unless it was stopped.  A  *)
(* message is in hand just where the main loop has one.                     *)
NothingLeftBehind ==
  \A a \in Agent :
    /\ Running(a) =>
         /\ sub[Main(a)] = IF pc[a] = "loop" THEN "waiting" ELSE "yielded"
         /\ stop[a] \/ Live(a) # {}
         /\ \A s, t \in Live(a) \ orphans[a] : s = t
    /\ pc[a] \in {"down", "exited"} =>
         /\ sub[Main(a)] \in {"none", "dropped"}
         /\ Live(a) \subseteq orphans[a]
    /\ \A s \in Slot :
         /\ ctl[a][s] = "loop" => sub[Control(a, s)] = "waiting"
         /\ sub[Control(a, s)] # "none" => ctl[a][s] \in {"loop", "done"}
    /\ asked[Main(a)] # 0 <=> pc[a] = "asking"

Queued(r) ==
  {p \in {queues[r][i] : i \in 1 .. Len(queues[r])} : log[p].topic = "work"}
Gated(r) == {got[Main(a)] : a \in {b \in Agent : RoleOf[b] = r /\ pc[b] \in {"gate", "woken"}}}

(* A work message published to a role with a running replica is only lost   *)
(* with a replica: one that was told to stop took it, or it was the last    *)
(* subscriber and its queue went away.  A crash, a pause or the stop of a   *)
(* sibling that is not reading loses nothing that waits.                    *)
WaitingWorkIsKept ==
  [][ \A r \in Role : \A p \in Queued(r) \cup Gated(r) :
        \/ p \in Queued(r)' \cup Gated(r)'
        \/ tries'[r][p] = tries[r][p] + 1
        \/ \E a \in Agent : RoleOf[a] = r /\ stop[a] /\ got'[Main(a)] = p
        \/ r \notin exists'
        \/ stopping
    ]_vars

(* Work that waits for a role, in its queue or with an agent that was       *)
(* paused, is taken, or everybody leaves, unless somebody is paused: a      *)
(* handler that waits for an answer nobody sends does not block its role.   *)
WorkIsTaken ==
  \A r \in Role :
    Queued(r) \cup Gated(r) # {} ~>
      Queued(r) \cup Gated(r) = {} \/ stopping \/ \E a \in Agent : ~ clear[a]

(* The supervisor brings an agent back after a crash, a start that failed   *)
(* or an end that did, subscribed again (_supervise, runtime.py:142).       *)
RunsAgain == \A a \in Agent : pc[a] = "down" ~> pc[a] = "loop" \/ stopping

(* Factory.stop() ends every agent with nothing subscribed, wherever its    *)
(* loop, its handler, its request or its control loop was, except for the   *)
(* control loops of starts that failed.                                     *)
StopCompletes ==
  stopping ~> \A a \in Agent :
                /\ pc[a] = "exited" /\ sub[Main(a)] = "none"
                /\ \A s \in Slot \ orphans[a] : sub[Control(a, s)] = "none"

(* What supervision is for: an agent that crashed comes back, a factory     *)
(* that stops ends all of them, and neither undoes the other when a crash,  *)
(* a back-off and the shutdown meet.                                        *)
Supervised == RunsAgain /\ StopCompletes

=============================================================================

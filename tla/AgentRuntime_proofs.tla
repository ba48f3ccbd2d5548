------------------------ MODULE AgentRuntime_proofs ------------------------
(***************************************************************************)
(* Proofs about AgentRuntime, for every squad, every set of roles and      *)
(* every bound.  What the bus does is taken from MemoryBus_proofs, whose   *)
(* lemmas are cited for the groups and the loops of the agents.            *)
(***************************************************************************)
EXTENDS AgentRuntime, SequenceTheorems, FiniteSetTheorems, TLAPS

B == INSTANCE MemoryBus_proofs WITH
       Group    <- BusGroup,
       Consumer <- BusLoop,
       GroupOf  <- LoopGroup,
       Topic    <- Subject,
       Wanted   <- Subscribed,
       Body     <- Payload,
       MaxLog   <- MaxSent

-----------------------------------------------------------------------------
(* The bus of the agents *)

LEMMA Slots == MaxCrash \in Nat /\ Slot \subseteq Nat \ {0}
BY AgentAssumption DEF Slot

LEMMA Loops ==
  /\ \A a \in Agent : Main(a) \in BusLoop
  /\ \A a \in Agent, s \in Slot : Control(a, s) \in BusLoop
  /\ \A a, b \in Agent, s \in Slot : Main(a) # Control(b, s)
  /\ \A a, b \in Agent : Main(a) = Main(b) => a = b
  /\ \A a, b \in Agent, s, t \in Slot : Control(a, s) = Control(b, t) => a = b /\ s = t
BY Slots DEF Main, Control, BusLoop, Slot

LEMMA Groups ==
  /\ LoopGroup \in [BusLoop -> BusGroup]
  /\ \A r \in Role : r \in BusGroup /\ Subscribed[r] = {"work"}
  /\ \A a \in Agent :
       /\ LoopGroup[Main(a)] = RoleOf[a] /\ RoleOf[a] \in Role
       /\ Ctl(a) \in BusGroup \ Role
       /\ \A s \in Slot : LoopGroup[Control(a, s)] = Ctl(a)
<1> USE AgentAssumption
<1>1. \A a \in Agent : RoleOf[a] \in Role /\ Ctl(a) \in BusGroup \ Role
  BY DEF BusGroup, Ctl
<1>2. \A a \in Agent : LoopGroup[Main(a)] = RoleOf[a]
  BY Loops DEF LoopGroup, Main
<1>3. \A a \in Agent, s \in Slot : LoopGroup[Control(a, s)] = Ctl(a)
  <2> SUFFICES ASSUME NEW a \in Agent, NEW s \in Slot PROVE LoopGroup[Control(a, s)] = Ctl(a)
    OBVIOUS
  <2>1. Control(a, s)[1] = a /\ Control(a, s)[2] = s /\ s # 0
    BY Slots DEF Control
  <2> QED
    BY <2>1, Loops DEF LoopGroup
<1>4. LoopGroup \in [BusLoop -> BusGroup]
  <2>1. ASSUME NEW c \in BusLoop PROVE LoopGroup[c] \in BusGroup
    <3>1. c[1] \in Agent /\ LoopGroup[c] \in {RoleOf[c[1]], Ctl(c[1])}
      BY DEF LoopGroup, BusLoop
    <3> QED
      BY <1>1, <3>1 DEF BusGroup
  <2> QED
    BY <2>1 DEF LoopGroup
<1>5. \A r \in Role : r \in BusGroup /\ Subscribed[r] = {"work"}
  BY DEF BusGroup, Subscribed
<1> QED
  BY <1>1, <1>2, <1>3, <1>4, <1>5

LEMMA Bounds == MaxSent \in Nat /\ {MaxWork, MaxCommand, MaxAsk, MaxCrash} \subseteq Nat
BY AgentAssumption DEF MaxSent

(* What MemoryBus asks of its constants holds of the agents' bus.           *)
LEMMA BusConstants ==
  /\ B!IsFiniteSet(BusLoop)
  /\ LoopGroup \in [BusLoop -> BusGroup]
  /\ Subscribed \in [BusGroup -> SUBSET Subject]
  /\ MaxSent \in Nat
<1>1. IsFiniteSet(BusLoop)
  <2>1. IsFiniteSet(0 .. (MaxCrash + 1))
    BY Slots, FS_Interval
  <2> QED
    BY <2>1, AgentAssumption, FS_Product DEF BusLoop
<1>2. B!IsFiniteSet(BusLoop)
  BY <1>1 DEF B!IsFiniteSet, IsFiniteSet
<1>3. Subscribed \in [BusGroup -> SUBSET Subject]
  BY DEF Subscribed, Subject
<1> QED
  BY <1>2, <1>3, Groups, Bounds

(* The operations of the bus are those the lemmas of MemoryBus_proofs speak *)
(* of.                                                                      *)
LEMMA SameBus ==
  /\ Bus!Init <=> B!Init
  /\ Bus!TypeOK <=> B!TypeOK
  /\ \A m : Bus!Publish(m) <=> B!Publish(m)
  /\ \A c : /\ Bus!Subscribe(c) <=> B!Subscribe(c)
            /\ Bus!Get(c) <=> B!Get(c)
            /\ Bus!Resume(c) <=> B!Resume(c)
            /\ Bus!Drop(c) <=> B!Drop(c)
            /\ Bus!Finish(c) <=> B!Finish(c)
            /\ Bus!Receive(c) <=> B!Receive(c)
            /\ Bus!GiveUp(c) <=> B!GiveUp(c)
            /\ \A k : Bus!Consume(c, k) <=> B!Consume(c, k)
            /\ \A m : Bus!Request(c, m) <=> B!Request(c, m)
<1>1. Bus!Init <=> B!Init
  BY DEF Bus!Init, B!Init
<1>2. Bus!TypeOK <=> B!TypeOK
  BY DEF Bus!TypeOK, B!TypeOK, Bus!Message, B!Message, Bus!SubState, B!SubState
<1>3. \A m : Bus!Publish(m) <=> B!Publish(m)
  BY DEF Bus!Publish, B!Publish, Bus!Deliver, B!Deliver, Bus!FanoutLocal, B!FanoutLocal,
         Bus!askVars, B!askVars
<1>4. \A c : Bus!Subscribe(c) <=> B!Subscribe(c)
  BY DEF Bus!Subscribe, B!Subscribe, Bus!askVars, B!askVars
<1>5. \A c, k : Bus!TakeWanted(c, k) <=> B!TakeWanted(c, k)
  BY DEF Bus!TakeWanted, B!TakeWanted, Bus!Wants, B!Wants
<1>6. \A c : Bus!Get(c) <=> B!Get(c)
  BY <1>5 DEF Bus!Get, B!Get, Bus!askVars, B!askVars
<1>7. \A c, k : Bus!Consume(c, k) <=> B!Consume(c, k)
  BY <1>5 DEF Bus!Consume, B!Consume, Bus!askVars, B!askVars
<1>8. \A c : (Bus!Resume(c) <=> B!Resume(c)) /\ (Bus!Drop(c) <=> B!Drop(c))
  BY DEF Bus!Resume, B!Resume, Bus!Drop, B!Drop, Bus!askVars, B!askVars
<1>9. \A c : Bus!Finish(c) <=> B!Finish(c)
  BY DEF Bus!Finish, B!Finish, Bus!Unref, B!Unref, Bus!askVars, B!askVars
<1>10. \A c, m : Bus!Request(c, m) <=> B!Request(c, m)
  BY DEF Bus!Request, B!Request, Bus!Deliver, B!Deliver
<1>11. \A c : Bus!EndRequest(c) <=> B!EndRequest(c)
  BY DEF Bus!EndRequest, B!EndRequest, Bus!subVars, B!subVars
<1>12. \A c : (Bus!Receive(c) <=> B!Receive(c)) /\ (Bus!GiveUp(c) <=> B!GiveUp(c))
  BY <1>11 DEF Bus!Receive, B!Receive, Bus!GiveUp, B!GiveUp
<1> QED
  BY <1>1, <1>2, <1>3, <1>4, <1>6, <1>7, <1>8, <1>9, <1>10, <1>12

(* What the bus keeps invariant: counts, queues and what is in hand.        *)
BusInv == B!IInv /\ B!Holders

LEMMA BusInit == Bus!Init => BusInv
<1>1. B!Init => B!IInv
  BY ONLY B!InductiveInit, BusConstants
<1>2. B!Init => B!Holders
  BY DEF B!Init, B!Holders
<1> QED
  BY <1>1, <1>2, SameBus DEF BusInv

LEMMA BusStep == BusInv /\ [B!Next]_(B!vars) => BusInv'
<1>1. B!IInv /\ [B!Next]_(B!vars) => B!IInv'
  BY ONLY B!InductiveStep, BusConstants
<1>2. B!IInv /\ [B!Next]_(B!vars) => [B!Cursor!Next]_(B!Cursor!vars)
  BY ONLY B!RefineStep, BusConstants
<1>3. B!IInv /\ B!IInv' /\ B!Holders /\ [B!Cursor!Next]_(B!Cursor!vars) => B!Holders'
  BY ONLY B!HoldersStep, BusConstants
<1> QED
  BY <1>1, <1>2, <1>3 DEF BusInv

-----------------------------------------------------------------------------
(* Every step of the agents is a step of the bus *)

LEMMA Kinds ==
  /\ [kind |-> "event", topic |-> "work", replyTo |-> 0, body |-> NoCommand] \in B!Message
  /\ [kind |-> "request", topic |-> "data.request", replyTo |-> 0, body |-> NoCommand]
       \in B!Message
  /\ \A r \in 1 .. MaxSent :
       [kind |-> "response", topic |-> "data.response", replyTo |-> r, body |-> NoCommand]
         \in B!Message
  /\ \A m \in Command :
       [kind |-> "event", topic |-> "control", replyTo |-> 0, body |-> m] \in B!Message
BY Bounds DEF B!Message, Subject, Payload

LEMMA SameVars == UNCHANGED busVars => UNCHANGED B!vars
BY DEF busVars, B!vars

LEMMA AgentOnBus ==
  ASSUME NEW a \in Agent, AgentStep(a)
  PROVE  [B!Next]_(B!vars)
<1> DEFINE BusStepOf(c) ==
             \/ B!Subscribe(c) \/ B!Get(c) \/ B!Resume(c) \/ B!Drop(c) \/ B!Finish(c)
             \/ \E k \in 1 .. Len(queues[LoopGroup[c]]) : B!Consume(c, k)
             \/ \E m \in B!Message : B!Request(c, m)
             \/ B!Receive(c) \/ B!GiveUp(c)
<1>1. \A c \in BusLoop : BusStepOf(c) => B!Next
  BY DEF B!Next
<1>2. /\ Main(a) \in BusLoop
      /\ \A s \in Slot : Control(a, s) \in BusLoop /\ LoopGroup[Control(a, s)] = Ctl(a)
  BY Loops, Groups
<1>3. CASE Run(a) \/ RunFails(a)
  BY <1>1, <1>2, <1>3, SameBus, SameVars DEF Run, RunFails
<1>4. CASE TakeWork(a)
  BY <1>1, <1>2, <1>4, SameBus DEF TakeWork
<1>5. CASE Wake(a) \/ Crash(a) \/ Left(a)
  BY <1>5, SameVars DEF Wake, Crash, Left, Ended
<1>6. CASE Ask(a)
  <2>1. \E m \in B!Message : B!Request(Main(a), m)
    BY <1>6, Kinds, SameBus DEF Ask
  <2> QED
    BY <1>1, <1>2, <2>1
<1>7. CASE EndAsk(a)
  BY <1>1, <1>2, <1>7, SameBus DEF EndAsk
<1>8. CASE Done(a) \/ LeaveLoop(a)
  BY <1>1, <1>2, <1>8, SameBus DEF Done, LeaveLoop
<1>9. ASSUME NEW s \in Slot, Obey(a, s) PROVE [B!Next]_(B!vars)
  <2>1. \E k \in 1 .. Len(queues[Ctl(a)]) : B!Consume(Control(a, s), k)
    BY <1>9, SameBus DEF Obey
  <2> QED
    BY <1>1, <1>2, <2>1
<1>10. CASE CloseMain(a)
  BY <1>1, <1>2, <1>10, SameBus DEF CloseMain
<1>11. ASSUME NEW s \in Slot, StartControl(a, s) \/ CloseControl(a, s) \/ CancelControl(a, s)
       PROVE  [B!Next]_(B!vars)
  BY <1>1, <1>2, <1>11, SameBus, SameVars DEF StartControl, CloseControl, CancelControl
<1>12. CASE Unwind(a)
  BY <1>1, <1>2, <1>12, SameBus, SameVars DEF Unwind
<1> QED
  BY <1>3, <1>4, <1>5, <1>6, <1>7, <1>8, <1>9, <1>10, <1>11, <1>12 DEF AgentStep

LEMMA OnBus == BusInv /\ [Next]_vars => [B!Next]_(B!vars)
<1> SUFFICES ASSUME BusInv, [Next]_vars PROVE [B!Next]_(B!vars)
  OBVIOUS
<1>1. ASSUME NEW a \in Agent, AgentStep(a) PROVE [B!Next]_(B!vars)
  BY <1>1, AgentOnBus
<1>2. ASSUME NEW m \in B!Message, B!Publish(m) PROVE B!Next
  BY <1>2 DEF B!Next
<1>3. CASE FactoryStop
  BY <1>3, SameVars DEF FactoryStop
<1>4. CASE PublishWork
  BY <1>2, <1>4, Kinds, SameBus DEF PublishWork
<1>5. ASSUME NEW r \in 1 .. Len(log), PublishAnswer(r) PROVE B!Next
  <2>1. r \in 1 .. MaxSent
    BY Bounds DEF BusInv, B!IInv, B!TypeOK
  <2> QED
    BY <1>2, <1>5, <2>1, Kinds, SameBus DEF PublishAnswer
<1>6. ASSUME NEW m \in Command, PublishControl(m) PROVE B!Next
  BY <1>2, <1>6, Kinds, SameBus DEF PublishControl
<1>7. CASE UNCHANGED vars
  BY <1>7, SameVars DEF vars
<1> QED
  BY <1>1, <1>3, <1>4, <1>5, <1>6, <1>7 DEF Next

-----------------------------------------------------------------------------
(* Types *)

AgentTypes ==
  /\ pc \in [Agent -> RunState]
  /\ ctl \in [Agent -> [Slot -> {"off", "new", "loop", "done"}]]
  /\ stop \in [Agent -> BOOLEAN] /\ clear \in [Agent -> BOOLEAN] /\ crashed \in [Agent -> BOOLEAN]
  /\ status \in [Agent -> Status] /\ previous \in [Agent -> Status]
  /\ stopping \in BOOLEAN
  /\ crashes \in 0 .. MaxCrash
  /\ orphans \in [Agent -> SUBSET Slot]
  /\ tries \in [Role -> [1 .. MaxSent -> Nat]]

LEMMA TypeSplit == BusInv /\ AgentTypes => TypeOK
BY SameBus DEF BusInv, B!IInv, AgentTypes, TypeOK

LEMMA TypesInit == Init => AgentTypes
<1> SUFFICES ASSUME Init PROVE AgentTypes
  OBVIOUS
<1>1. tries \in [Role -> [1 .. MaxSent -> Nat]]
  BY DEF Init
<1>2. crashes \in 0 .. MaxCrash
  BY Bounds DEF Init
<1> QED
  BY <1>1, <1>2 DEF Init, AgentTypes, RunState, Status

LEMMA TriesType ==
  ASSUME NEW r \in Role, NEW p, tries \in [Role -> [1 .. MaxSent -> Nat]]
  PROVE  [tries EXCEPT ![r][p] = @ + 1] \in [Role -> [1 .. MaxSent -> Nat]]
<1> DEFINE t == [tries[r] EXCEPT ![p] = tries[r][p] + 1]
<1>1. t \in [1 .. MaxSent -> Nat]
  <2>1. tries[r] \in [1 .. MaxSent -> Nat]
    OBVIOUS
  <2>2. CASE p \in 1 .. MaxSent
    BY <2>1, <2>2
  <2>3. CASE p \notin 1 .. MaxSent
    BY <2>1, <2>3
  <2> QED
    BY <2>2, <2>3
<1>2. [tries EXCEPT ![r][p] = @ + 1] = [tries EXCEPT ![r] = t]
  OBVIOUS
<1> HIDE DEF t
<1> QED
  BY <1>1, <1>2

\* What one control message may do to its agent.
LEMMA ObeyEffect ==
  ASSUME NEW a \in Agent, NEW s \in Slot, Obey(a, s)
  PROVE  /\ ctl[a][s] = "loop" /\ pc[a] # "leaving"
         /\ \E k \in 1 .. Len(queues[Ctl(a)]) : Bus!Consume(Control(a, s), k)
         /\ \/ pc' = pc
            \/ pc[a] = "gate" /\ pc' = [pc EXCEPT ![a] = "woken"]
         /\ \/ ctl' = ctl /\ stop' = stop
            \/ ctl' = [ctl EXCEPT ![a][s] = "done"] /\ stop' = [stop EXCEPT ![a] = TRUE]
         /\ clear' \in {clear, [clear EXCEPT ![a] = TRUE], [clear EXCEPT ![a] = FALSE]}
         /\ status' \in {status, [status EXCEPT ![a] = "paused"], [status EXCEPT ![a] = "idle"]}
         /\ UNCHANGED << previous, crashed, stopping, crashes, orphans, tries >>
<1>1. PICK k \in 1 .. Len(queues[Ctl(a)]) :
        /\ ctl[a][s] = "loop" /\ pc[a] # "leaving"
        /\ Bus!Consume(Control(a, s), k)
        /\ UNCHANGED << previous, crashed, stopping, crashes, orphans, tries >>
        /\ \/ UNCHANGED << pc, ctl, stop, clear, status >>
           \/ /\ SetClear(a, FALSE)
              /\ status' = [status EXCEPT ![a] = "paused"]
              /\ UNCHANGED << ctl, stop >>
           \/ /\ SetClear(a, TRUE)
              /\ status' = [status EXCEPT ![a] = "idle"]
              /\ UNCHANGED << ctl, stop >>
           \/ /\ stop' = [stop EXCEPT ![a] = TRUE]
              /\ SetClear(a, TRUE)
              /\ ctl' = [ctl EXCEPT ![a][s] = "done"]
              /\ UNCHANGED status
  BY DEF Obey
<1> QED
  BY <1>1 DEF SetClear

\* What becomes of one control loop.
LEMMA CtlType ==
  ASSUME NEW a \in Agent, NEW s \in Slot, NEW v \in {"off", "new", "loop", "done"},
         ctl \in [Agent -> [Slot -> {"off", "new", "loop", "done"}]],
         ctl' = [ctl EXCEPT ![a][s] = v]
  PROVE  /\ ctl' \in [Agent -> [Slot -> {"off", "new", "loop", "done"}]]
         /\ \A b \in Agent, t \in Slot :
              ctl'[b][t] = IF a = b /\ s = t THEN v ELSE ctl[b][t]
<1> DEFINE c == [ctl[a] EXCEPT ![s] = v]
<1>1. c \in [Slot -> {"off", "new", "loop", "done"}] /\ c[s] = v /\ \A t \in Slot \ {s} : c[t] = ctl[a][t]
  OBVIOUS
<1>2. ctl' = [ctl EXCEPT ![a] = c]
  OBVIOUS
<1> HIDE DEF c
<1> QED
  BY <1>1, <1>2

\* What a start does, whether it fails or not.
LEMMA StartEffect ==
  ASSUME NEW a \in Agent, Run(a) \/ RunFails(a)
  PROVE  \E s \in Slot :
           /\ NewControl(a, s)
           /\ \/ Run(a) /\ Bus!Subscribe(Main(a)) /\ pc' = [pc EXCEPT ![a] = "loop"]
                 /\ orphans' = [orphans EXCEPT ![a] = @ \ {s}] /\ crashes' = crashes
              \/ RunFails(a) /\ UNCHANGED busVars /\ pc' = pc /\ crashes < MaxCrash
                 /\ orphans' = [orphans EXCEPT ![a] = @ \cup {s}] /\ crashes' = crashes + 1
BY DEF Run, RunFails

LEMMA TypesStep == AgentTypes /\ [Next]_vars => AgentTypes'
<1> SUFFICES ASSUME AgentTypes, [Next]_vars PROVE AgentTypes'
  OBVIOUS
<1> USE DEF AgentTypes
<1>1. \A a \in Agent : RoleOf[a] \in Role
  BY Groups
<1>2. \A a \in Agent, s \in Status :
        SetStatus(a, s) \in Status /\ AfterDispatch(a) \in Status
  BY DEF SetStatus, AfterDispatch, Status
<1>3. {"working", "waiting", "stopped", "idle", "paused"} \subseteq Status
  BY DEF Status
<1>4. ASSUME NEW a \in Agent, NEW p, Dispatching(a, p)
      PROVE  /\ pc' \in [Agent -> RunState] /\ status' \in [Agent -> Status]
             /\ tries' \in [Role -> [1 .. MaxSent -> Nat]]
  BY <1>1, <1>2, <1>3, <1>4, TriesType DEF Dispatching, RunState
<1>5. ASSUME NEW a \in Agent, AgentStep(a) PROVE AgentTypes'
  <2>1. CASE Run(a) \/ RunFails(a)
    <3>1. PICK s \in Slot :
            /\ NewControl(a, s)
            /\ pc' \in {pc, [pc EXCEPT ![a] = "loop"]}
            /\ orphans' \in {[orphans EXCEPT ![a] = @ \ {s}], [orphans EXCEPT ![a] = @ \cup {s}]}
            /\ crashes' = crashes \/ (crashes < MaxCrash /\ crashes' = crashes + 1)
      BY <2>1, StartEffect
    <3>2. ctl' \in [Agent -> [Slot -> {"off", "new", "loop", "done"}]]
      BY <3>1, CtlType DEF NewControl
    <3>3. orphans' \in [Agent -> SUBSET Slot] /\ pc' \in [Agent -> RunState]
      <4>1. orphans[a] \ {s} \in SUBSET Slot /\ orphans[a] \cup {s} \in SUBSET Slot
        OBVIOUS
      <4>2. \E o \in SUBSET Slot : orphans' = [orphans EXCEPT ![a] = o]
        BY <3>1, <4>1
      <4>3. pc' \in [Agent -> RunState]
        BY <3>1 DEF RunState
      <4> QED
        BY <4>2, <4>3
    <3>4. crashes' \in 0 .. MaxCrash
      BY <3>1, Bounds
    <3>5. status' \in [Agent -> Status] /\ UNCHANGED << stop, clear, previous, crashed, stopping, tries >>
      BY <1>3, <3>1 DEF NewControl
    <3> QED
      BY <3>2, <3>3, <3>4, <3>5
  <2>2. CASE TakeWork(a)
    <3>1. /\ pc' \in [Agent -> RunState] /\ status' \in [Agent -> Status]
          /\ tries' \in [Role -> [1 .. MaxSent -> Nat]]
      BY <1>4, <2>2 DEF TakeWork, RunState
    <3> QED
      BY <2>2, <3>1 DEF TakeWork
  <2>3. CASE Wake(a)
    <3>1. /\ pc' \in [Agent -> RunState] /\ status' \in [Agent -> Status]
          /\ tries' \in [Role -> [1 .. MaxSent -> Nat]]
      BY <1>4, <2>3 DEF Wake
    <3> QED
      BY <2>3, <3>1 DEF Wake
  <2>4. CASE Ask(a) \/ EndAsk(a) \/ Done(a)
    <3>1. pc' \in [Agent -> RunState]
      BY <2>4 DEF Ask, EndAsk, Done, RunState
    <3>2. status' \in [Agent -> Status] /\ previous' \in [Agent -> Status]
      <4>1. CASE Ask(a)
        BY <1>2, <1>3, <4>1 DEF Ask
      <4>2. CASE EndAsk(a)
        BY <1>2, <1>3, <4>2 DEF EndAsk
      <4>3. CASE Done(a)
        BY <1>2, <1>3, <4>3 DEF Done
      <4> QED
        BY <2>4, <4>1, <4>2, <4>3
    <3> QED
      BY <2>4, <3>1, <3>2 DEF Ask, EndAsk, Done
  <2>5. CASE Crash(a)
    <3>1. crashes' \in 0 .. MaxCrash
      BY <2>5, Bounds DEF Crash
    <3>2. status' \in [Agent -> Status] /\ pc' \in [Agent -> RunState]
      BY <1>2, <1>3, <2>5 DEF Crash, RunState
    <3> QED
      BY <2>5, <3>1, <3>2 DEF Crash
  <2>6. ASSUME NEW s \in Slot, Obey(a, s) PROVE AgentTypes'
    <3>1. /\ pc' \in [Agent -> RunState]
          /\ ctl' \in [Agent -> [Slot -> {"off", "new", "loop", "done"}]]
      <4>1. pc' \in {pc, [pc EXCEPT ![a] = "woken"]} /\ ctl' \in {ctl, [ctl EXCEPT ![a][s] = "done"]}
        BY <2>6, ObeyEffect
      <4>2. ctl' \in [Agent -> [Slot -> {"off", "new", "loop", "done"}]]
        BY <4>1, CtlType
      <4> QED
        BY <4>1, <4>2 DEF RunState
    <3>2. stop' \in [Agent -> BOOLEAN] /\ clear' \in [Agent -> BOOLEAN]
      <4>1. /\ stop' \in {stop, [stop EXCEPT ![a] = TRUE]}
            /\ clear' \in {clear, [clear EXCEPT ![a] = TRUE], [clear EXCEPT ![a] = FALSE]}
        BY <2>6, ObeyEffect
      <4> QED
        BY <4>1
    <3>3. /\ status' \in [Agent -> Status]
          /\ UNCHANGED << previous, crashed, stopping, crashes, orphans, tries >>
      <4>1. /\ status' \in {status, [status EXCEPT ![a] = "paused"], [status EXCEPT ![a] = "idle"]}
            /\ UNCHANGED << previous, crashed, stopping, crashes, orphans, tries >>
        BY <2>6, ObeyEffect
      <4> QED
        BY <1>3, <4>1
    <3> QED
      BY <3>1, <3>2, <3>3
  <2>7. CASE LeaveLoop(a) \/ CloseMain(a)
    BY <2>7 DEF LeaveLoop, CloseMain
  <2>8. ASSUME NEW s \in Slot, StartControl(a, s) \/ CloseControl(a, s) \/ CancelControl(a, s)
        PROVE  AgentTypes'
    <3>1. /\ \/ ctl' = ctl
             \/ \E v \in {"loop", "off"} : ctl' = [ctl EXCEPT ![a][s] = v]
          /\ UNCHANGED << pc, stop, clear, status, previous, crashed, stopping, crashes, orphans, tries >>
      BY <2>8 DEF StartControl, CloseControl, CancelControl
    <3>2. ctl' \in [Agent -> [Slot -> {"off", "new", "loop", "done"}]]
      BY <3>1, CtlType
    <3> QED
      BY <3>1, <3>2
  <2>9. CASE Left(a)
    <3>1. Ended(a)
      BY <2>9 DEF Left
    <3>2. crashes' \in 0 .. MaxCrash
      BY <3>1, Bounds DEF Ended
    <3> QED
      BY <1>2, <1>3, <3>1, <3>2 DEF Ended, RunState
  <2>10. CASE Unwind(a)
    BY <1>2, <1>3, <2>10 DEF Unwind, RunState
  <2> QED
    BY <1>5, <2>1, <2>2, <2>3, <2>4, <2>5, <2>6, <2>7, <2>8, <2>9, <2>10 DEF AgentStep
<1>6. CASE FactoryStop
  BY <1>6 DEF FactoryStop
<1>7. CASE PublishWork \/ (\E r \in 1 .. Len(log) : PublishAnswer(r))
             \/ (\E m \in Command : PublishControl(m))
  BY <1>7 DEF PublishWork, PublishAnswer, PublishControl, agentVars
<1>8. CASE UNCHANGED vars
  BY <1>8 DEF vars
<1> QED
  BY <1>5, <1>6, <1>7, <1>8 DEF Next

(* Every reachable state of the squad and its bus is well typed: no status  *)
(* outside AgentStatus, no state of run() outside RunState.                 *)
THEOREM TypeCorrect == Spec => []TypeOK
<1>1. Init => BusInv /\ AgentTypes
  BY BusInit, TypesInit DEF Init
<1>2. BusInv /\ AgentTypes /\ [Next]_vars => (BusInv /\ AgentTypes)'
  BY OnBus, BusStep, TypesStep
<1> QED
  BY <1>1, <1>2, TypeSplit, PTL DEF Spec

-----------------------------------------------------------------------------
(* What an agent holds on the bus *)

(* The states of run() p, of the main subscription and of the request ask,  *)
(* that go together.                                                        *)
MainAgrees(p, main, ask) ==
  /\ p \in {"loop", "gate", "woken", "handling", "asking"} =>
       main = (IF p = "loop" THEN "waiting" ELSE "yielded")
  /\ p = "leaving" => main # "waiting"
  /\ p \in {"down", "exited"} => main \in {"none", "dropped"}
  /\ ask # 0 <=> p = "asking"

(* A control loop and its subscription.                                     *)
SlotAgrees(c, control) ==
  /\ c \in {"off", "new"} => control = "none"
  /\ c = "loop" => control = "waiting"
  /\ c = "done" => control \in {"waiting", "none"}

(* The control loops that live, and whose starts failed.                    *)
LoopsAgree(p, live, orphaned, stopped) ==
  /\ p \in {"loop", "gate", "woken", "handling", "asking"} =>
       /\ stopped \/ live # {}
       /\ \A s, t \in live \ orphaned : s = t
  /\ p \in {"down", "exited"} => live \subseteq orphaned

Follows(a) ==
  /\ MainAgrees(pc[a], sub[Main(a)], asked[Main(a)])
  /\ \A s \in Slot : SlotAgrees(ctl[a][s], sub[Control(a, s)])
  /\ LoopsAgree(pc[a], Live(a), orphans[a], stop[a])

SquadInv == \A a \in Agent : Follows(a)

LEMMA BusTypes ==
  BusInv => /\ sub \in [BusLoop -> {"none", "waiting", "yielded", "dropped"}]
            /\ got \in [BusLoop -> 0 .. MaxSent] /\ asked \in [BusLoop -> 0 .. MaxSent]
            /\ log \in Seq(B!Message) /\ Len(log) \in 0 .. MaxSent
            /\ queues \in [BusGroup -> Seq(1 .. MaxSent)]
BY Bounds DEF BusInv, B!IInv, B!TypeOK, B!SubState

LEMMA SquadInit == Init => SquadInv
<1> SUFFICES ASSUME Init, NEW a \in Agent PROVE Follows(a)
  BY DEF SquadInv
<1>1. /\ sub[Main(a)] = "none" /\ asked[Main(a)] = 0
      /\ \A s \in Slot : sub[Control(a, s)] = "none" /\ ctl[a][s] = "off"
  BY Loops DEF Init, Bus!Init
<1>2. pc[a] = "down" /\ Live(a) = {}
  BY <1>1 DEF Init, Live
<1> QED
  BY <1>1, <1>2 DEF Follows, MainAgrees, SlotAgrees, LoopsAgree

\* The operations of the bus that a loop c uses.
OnLoop(c) ==
  \/ Bus!Subscribe(c) \/ Bus!Get(c) \/ Bus!Resume(c) \/ Bus!Drop(c) \/ Bus!Finish(c)
  \/ \E k \in 1 .. Len(queues[LoopGroup[c]]) : Bus!Consume(c, k)
  \/ \E m \in B!Message : Bus!Request(c, m)
  \/ Bus!Receive(c) \/ Bus!GiveUp(c)

(* An operation of the bus changes the subscription, the message in hand    *)
(* and the request of its own loop only.                                    *)
LEMMA LoopFrame ==
  ASSUME BusInv, NEW c \in BusLoop, NEW d \in BusLoop \ {c}, OnLoop(c)
  PROVE  sub'[d] = sub[d] /\ got'[d] = got[d] /\ asked'[d] = asked[d]
<1> USE BusTypes
<1>1. CASE Bus!Subscribe(c)
  BY <1>1 DEF Bus!Subscribe, Bus!askVars
<1>2. CASE Bus!Get(c)
  BY <1>2 DEF Bus!Get, Bus!askVars
<1>3. CASE Bus!Resume(c) \/ Bus!Drop(c)
  BY <1>3 DEF Bus!Resume, Bus!Drop, Bus!askVars
<1>4. CASE Bus!Finish(c)
  BY <1>4 DEF Bus!Finish, Bus!askVars
<1>5. ASSUME NEW k \in 1 .. Len(queues[LoopGroup[c]]), Bus!Consume(c, k)
      PROVE  sub' = sub /\ got' = got /\ asked' = asked
  BY <1>5 DEF Bus!Consume, Bus!askVars
<1>6. ASSUME NEW m \in B!Message, Bus!Request(c, m)
      PROVE  sub' = sub /\ got' = got /\ asked'[d] = asked[d]
  BY <1>6 DEF Bus!Request, Bus!Deliver
<1>7. CASE Bus!Receive(c) \/ Bus!GiveUp(c)
  BY <1>7 DEF Bus!Receive, Bus!GiveUp, Bus!EndRequest, Bus!subVars
<1> QED
  BY <1>1, <1>2, <1>3, <1>4, <1>5, <1>6, <1>7 DEF OnLoop

(* A step of one agent leaves what every other agent is and holds alone.    *)
LEMMA OthersKept ==
  ASSUME BusInv, AgentTypes, NEW a \in Agent, AgentStep(a), NEW b \in Agent \ {a}
  PROVE  /\ pc'[b] = pc[b] /\ ctl'[b] = ctl[b] /\ stop'[b] = stop[b] /\ orphans'[b] = orphans[b]
         /\ sub'[Main(b)] = sub[Main(b)]
         /\ \A s \in Slot : sub'[Control(b, s)] = sub[Control(b, s)]
         /\ got'[Main(b)] = got[Main(b)] /\ asked'[Main(b)] = asked[Main(b)]
<1> DEFINE Own == {Main(a)} \cup {Control(a, s) : s \in Slot}
           BusKept == \A d \in BusLoop \ Own :
                        sub'[d] = sub[d] /\ got'[d] = got[d] /\ asked'[d] = asked[d]
           Same == pc'[b] = pc[b] /\ ctl'[b] = ctl[b] /\ stop'[b] = stop[b] /\ orphans'[b] = orphans[b]
<1>1. /\ Main(a) \in BusLoop
      /\ \A s \in Slot : Control(a, s) \in BusLoop /\ LoopGroup[Control(a, s)] = Ctl(a)
      /\ Main(b) \in BusLoop \ Own /\ \A s \in Slot : Control(b, s) \in BusLoop \ Own
  BY Loops, Groups
<1>2. \A c \in Own : OnLoop(c) => BusKept
  <2> SUFFICES ASSUME NEW c \in Own, OnLoop(c), NEW d \in BusLoop \ Own
               PROVE  sub'[d] = sub[d] /\ got'[d] = got[d] /\ asked'[d] = asked[d]
    OBVIOUS
  <2>1. c \in BusLoop /\ d \in BusLoop \ {c}
    BY <1>1
  <2> QED
    BY <2>1, LoopFrame
<1>3. UNCHANGED busVars => BusKept
  BY DEF busVars
<1>4. Main(a) \in Own /\ \A s \in Slot : Control(a, s) \in Own
  OBVIOUS
<1> SUFFICES BusKept /\ Same
  BY <1>1
<1> HIDE DEF BusKept, Own
<1> USE DEF AgentTypes
<1>5. CASE Run(a) \/ RunFails(a)
  <2>1. PICK s \in Slot :
          /\ NewControl(a, s)
          /\ Bus!Subscribe(Main(a)) \/ UNCHANGED busVars
          /\ pc' \in {pc, [pc EXCEPT ![a] = "loop"]}
          /\ orphans' = [orphans EXCEPT ![a] = @ \ {s}] \/ orphans' = [orphans EXCEPT ![a] = @ \cup {s}]
    BY <1>5, StartEffect
  <2>2. Same
    BY <2>1 DEF NewControl
  <2> QED
    BY <1>2, <1>3, <1>4, <2>1, <2>2 DEF OnLoop
<1>6. ASSUME NEW s \in Slot, StartControl(a, s) \/ CloseControl(a, s) \/ CancelControl(a, s)
      PROVE  BusKept /\ Same
  <2>1. Same
    BY <1>6 DEF StartControl, CloseControl, CancelControl
  <2>2. OnLoop(Control(a, s)) \/ UNCHANGED busVars
    BY <1>6 DEF StartControl, CloseControl, CancelControl, OnLoop
  <2> QED
    BY <1>2, <1>3, <1>4, <2>1, <2>2
<1>7. CASE TakeWork(a)
  <2>1. Same
    BY <1>7 DEF TakeWork, Dispatching
  <2> QED
    BY <1>2, <1>4, <1>7, <2>1 DEF TakeWork, OnLoop
<1>8. CASE Wake(a) \/ Crash(a) \/ Left(a)
  <2>1. Same
    BY <1>8 DEF Wake, Crash, Left, Ended, Dispatching
  <2> QED
    BY <1>3, <1>8, <2>1 DEF Wake, Crash, Left, Ended
<1>9. CASE Ask(a)
  <2>1. OnLoop(Main(a))
    BY <1>9, Kinds DEF Ask, OnLoop
  <2> QED
    BY <1>2, <1>4, <1>9, <2>1 DEF Ask
<1>10. CASE EndAsk(a)
  BY <1>2, <1>4, <1>10 DEF EndAsk, OnLoop
<1>11. CASE Done(a) \/ LeaveLoop(a) \/ CloseMain(a)
  BY <1>2, <1>4, <1>11 DEF Done, LeaveLoop, CloseMain, OnLoop
<1>12. ASSUME NEW s \in Slot, Obey(a, s) PROVE BusKept /\ Same
  <2>1. OnLoop(Control(a, s))
    BY <1>1, <1>12, ObeyEffect DEF OnLoop
  <2>2. /\ pc' \in {pc, [pc EXCEPT ![a] = "woken"]}
        /\ ctl' \in {ctl, [ctl EXCEPT ![a][s] = "done"]}
        /\ stop' \in {stop, [stop EXCEPT ![a] = TRUE]} /\ orphans' = orphans
    BY <1>12, ObeyEffect
  <2>3. Same
    BY <2>2
  <2> QED
    BY <1>2, <1>4, <2>1, <2>3
<1>13. CASE Unwind(a)
  <2>1. Same
    BY <1>13 DEF Unwind
  <2> QED
    BY <1>2, <1>3, <1>4, <1>13, <2>1 DEF Unwind, OnLoop
<1> QED
  BY <1>5, <1>6, <1>7, <1>8, <1>9, <1>10, <1>11, <1>12, <1>13 DEF AgentStep

(* The main loop of an agent, and its control loops, do not disturb each    *)
(* other's subscriptions.                                                   *)
MainKept(a) == sub'[Main(a)] = sub[Main(a)] /\ got'[Main(a)] = got[Main(a)]
                 /\ asked'[Main(a)] = asked[Main(a)]
ControlKept(a, s) == sub'[Control(a, s)] = sub[Control(a, s)]

LEMMA OwnFrame ==
  ASSUME BusInv, NEW a \in Agent
  PROVE  /\ OnLoop(Main(a)) => \A s \in Slot : ControlKept(a, s)
         /\ \A s \in Slot : OnLoop(Control(a, s)) =>
              MainKept(a) /\ \A t \in Slot \ {s} : ControlKept(a, t)
         /\ UNCHANGED busVars => MainKept(a) /\ \A s \in Slot : ControlKept(a, s)
<1>1. OnLoop(Main(a)) => \A s \in Slot : ControlKept(a, s)
  BY Loops, LoopFrame DEF OnLoop, ControlKept
<1>2. ASSUME NEW s \in Slot, OnLoop(Control(a, s)) PROVE MainKept(a)
  <2>1. Control(a, s) \in BusLoop /\ Main(a) \in BusLoop \ {Control(a, s)}
    BY Loops
  <2> QED
    BY <1>2, <2>1, LoopFrame DEF OnLoop, MainKept
<1>3. ASSUME NEW s \in Slot, OnLoop(Control(a, s)), NEW t \in Slot \ {s} PROVE ControlKept(a, t)
  <2>1. Control(a, s) \in BusLoop /\ Control(a, t) \in BusLoop \ {Control(a, s)}
    BY Loops
  <2> QED
    BY <1>3, <2>1, LoopFrame DEF OnLoop, ControlKept
<1>4. UNCHANGED busVars => MainKept(a) /\ \A s \in Slot : ControlKept(a, s)
  BY DEF busVars, MainKept, ControlKept
<1> QED
  BY <1>1, <1>2, <1>3, <1>4

(* What one step of an agent makes of its control loop s alone: which       *)
(* loop, if any, it changes and how.                                        *)
LEMMA OwnSlots ==
  ASSUME BusInv, AgentTypes, NEW a \in Agent, Follows(a), AgentStep(a), NEW s \in Slot
  PROVE  SlotAgrees(ctl'[a][s], sub'[Control(a, s)])
<1>1. SlotAgrees(ctl[a][s], sub[Control(a, s)])
  BY DEF Follows
<1>2. /\ sub \in [BusLoop -> {"none", "waiting", "yielded", "dropped"}]
      /\ \A t \in Slot : Control(a, t) \in BusLoop /\ LoopGroup[Control(a, t)] = Ctl(a)
      /\ ctl \in [Agent -> [Slot -> {"off", "new", "loop", "done"}]]
  BY BusTypes, Loops, Groups DEF AgentTypes
<1>3. ASSUME ctl' = ctl, ControlKept(a, s) PROVE SlotAgrees(ctl'[a][s], sub'[Control(a, s)])
  BY <1>1, <1>3 DEF ControlKept
<1>4. CASE Run(a) \/ RunFails(a)
  <2>1. PICK t \in Slot : NewControl(a, t) /\ (Bus!Subscribe(Main(a)) \/ UNCHANGED busVars)
    BY <1>4, StartEffect
  <2>2. ControlKept(a, s)
    BY <2>1, OwnFrame DEF OnLoop
  <2>3. ctl'[a][s] = IF s = t THEN "new" ELSE ctl[a][s]
    BY <1>2, <2>1, CtlType DEF NewControl
  <2>4. s = t => sub[Control(a, s)] = "none"
    BY <2>1 DEF NewControl
  <2> QED
    BY <1>1, <2>2, <2>3, <2>4 DEF SlotAgrees, ControlKept
<1>5. ASSUME NEW t \in Slot, StartControl(a, t) PROVE SlotAgrees(ctl'[a][s], sub'[Control(a, s)])
  <2>1. ctl'[a][s] = IF s = t THEN "loop" ELSE ctl[a][s]
    BY <1>2, <1>5, CtlType DEF StartControl
  <2>2. IF s = t THEN sub'[Control(a, s)] = "waiting" ELSE ControlKept(a, s)
    BY <1>2, <1>5, OwnFrame DEF StartControl, OnLoop, Bus!Subscribe
  <2> QED
    BY <1>1, <2>1, <2>2 DEF SlotAgrees, ControlKept
<1>6. ASSUME NEW t \in Slot, Obey(a, t) PROVE SlotAgrees(ctl'[a][s], sub'[Control(a, s)])
  <2>1. /\ ctl[a][t] = "loop" /\ sub' = sub
        /\ ctl' = ctl \/ ctl' = [ctl EXCEPT ![a][t] = "done"]
    BY <1>6, ObeyEffect DEF Bus!Consume
  <2>2. ctl'[a][s] \in {ctl[a][s], IF s = t THEN "done" ELSE ctl[a][s]}
    BY <1>2, <2>1, CtlType
  <2> QED
    BY <1>1, <2>1, <2>2 DEF SlotAgrees
<1>7. ASSUME NEW t \in Slot, CloseControl(a, t) PROVE SlotAgrees(ctl'[a][s], sub'[Control(a, s)])
  <2>1. ctl' = ctl /\ ctl[a][t] = "done"
    BY <1>7 DEF CloseControl
  <2>2. IF s = t THEN sub'[Control(a, s)] = "none" ELSE ControlKept(a, s)
    BY <1>2, <1>7, OwnFrame DEF CloseControl, OnLoop, Bus!Finish
  <2> QED
    BY <1>1, <2>1, <2>2 DEF SlotAgrees, ControlKept
<1>8. ASSUME NEW t \in Slot, CancelControl(a, t) PROVE SlotAgrees(ctl'[a][s], sub'[Control(a, s)])
  <2>1. ctl'[a][s] = IF s = t THEN "off" ELSE ctl[a][s]
    BY <1>2, <1>8, CtlType DEF CancelControl
  <2>2. CASE ctl[a][t] = "loop"
    <3>1. Bus!Finish(Control(a, t))
      BY <1>8, <2>2 DEF CancelControl
    <3>2. IF s = t THEN sub'[Control(a, s)] = "none" ELSE ControlKept(a, s)
      BY <1>2, <3>1, OwnFrame DEF OnLoop, Bus!Finish
    <3> QED
      BY <1>1, <2>1, <3>2 DEF SlotAgrees, ControlKept
  <2>3. CASE ctl[a][t] # "loop"
    <3>1. ControlKept(a, s) /\ ctl[a][t] = "new"
      BY <1>8, <2>3, OwnFrame DEF CancelControl, Live
    <3> QED
      BY <1>1, <2>1, <3>1 DEF SlotAgrees, ControlKept
  <2> QED
    BY <2>2, <2>3
<1>9. CASE \/ TakeWork(a) \/ EndAsk(a) \/ Done(a) \/ LeaveLoop(a) \/ CloseMain(a)
  <2>1. ctl' = ctl /\ OnLoop(Main(a))
    BY <1>9 DEF TakeWork, EndAsk, Done, LeaveLoop, CloseMain, OnLoop
  <2> QED
    BY <1>3, <2>1, OwnFrame
<1>10. CASE Ask(a)
  <2>1. ctl' = ctl /\ OnLoop(Main(a))
    BY <1>10, Kinds DEF Ask, OnLoop
  <2> QED
    BY <1>3, <2>1, OwnFrame
<1>11. CASE Wake(a) \/ Crash(a) \/ Left(a)
  <2>1. ctl' = ctl /\ UNCHANGED busVars
    BY <1>11 DEF Wake, Crash, Left, Ended
  <2> QED
    BY <1>3, <2>1, OwnFrame
<1>12. CASE Unwind(a)
  <2>1. ctl' = ctl /\ (OnLoop(Main(a)) \/ UNCHANGED busVars)
    BY <1>12 DEF Unwind, OnLoop
  <2> QED
    BY <1>3, <2>1, OwnFrame
<1> QED
  BY <1>4, <1>5, <1>6, <1>7, <1>8, <1>9, <1>10, <1>11, <1>12 DEF AgentStep

(* What a step of an agent makes of its main loop.                          *)
LEMMA OwnMain ==
  ASSUME BusInv, AgentTypes, NEW a \in Agent, Follows(a), AgentStep(a)
  PROVE  MainAgrees(pc'[a], sub'[Main(a)], asked'[Main(a)])
<1> USE DEF MainAgrees
<1>1. /\ MainAgrees(pc[a], sub[Main(a)], asked[Main(a)])
      /\ Main(a) \in BusLoop
      /\ sub \in [BusLoop -> {"none", "waiting", "yielded", "dropped"}]
      /\ asked \in [BusLoop -> 0 .. MaxSent] /\ pc \in [Agent -> RunState]
  BY Loops, BusTypes DEF AgentTypes, Follows
<1>2. CASE Run(a) \/ RunFails(a)
  <2>1. /\ pc[a] = "down"
        /\ \/ Bus!Subscribe(Main(a)) /\ pc' = [pc EXCEPT ![a] = "loop"]
           \/ UNCHANGED busVars /\ pc' = pc
    BY <1>2, StartEffect DEF NewControl
  <2> QED
    BY <1>1, <2>1 DEF Bus!Subscribe, Bus!askVars, busVars
<1>3. CASE TakeWork(a)
  <2>1. sub' = [sub EXCEPT ![Main(a)] = "yielded"] /\ asked' = asked
    BY <1>3 DEF TakeWork, Bus!Get, Bus!askVars
  <2>2. pc[a] = "loop" /\ \E p \in {"leaving", "handling", "gate"} : pc' = [pc EXCEPT ![a] = p]
    BY <1>3 DEF TakeWork, Dispatching
  <2> QED
    BY <1>1, <2>1, <2>2
<1>4. CASE Wake(a)
  BY <1>1, <1>4 DEF Wake, Dispatching, busVars
<1>5. CASE Ask(a)
  <2>1. sub' = sub /\ asked' = [asked EXCEPT ![Main(a)] = Len(log) + 1] /\ Len(log) + 1 # 0
    BY <1>5, BusTypes DEF Ask, Bus!Request, Bus!Deliver
  <2>2. pc[a] = "handling" /\ pc' = [pc EXCEPT ![a] = "asking"]
    BY <1>5 DEF Ask
  <2> QED
    BY <1>1, <2>1, <2>2
<1>6. CASE EndAsk(a)
  <2>1. sub' = sub /\ asked' = [asked EXCEPT ![Main(a)] = 0]
    BY <1>6 DEF EndAsk, Bus!Receive, Bus!GiveUp, Bus!EndRequest, Bus!subVars
  <2> QED
    BY <1>1, <1>6, <2>1 DEF EndAsk
<1>7. CASE Done(a)
  BY <1>1, <1>7 DEF Done, Bus!Resume, Bus!askVars
<1>8. CASE Crash(a)
  BY <1>1, <1>8 DEF Crash, busVars
<1>9. ASSUME NEW s \in Slot, Obey(a, s)
      PROVE  MainAgrees(pc'[a], sub'[Main(a)], asked'[Main(a)])
  <2>1. sub' = sub /\ asked' = asked
    BY <1>9, ObeyEffect DEF Bus!Consume, Bus!askVars
  <2>2. \/ pc' = pc
        \/ pc[a] = "gate" /\ pc' = [pc EXCEPT ![a] = "woken"]
    BY <1>9, ObeyEffect
  <2> QED
    BY <1>1, <2>1, <2>2
<1>10. ASSUME NEW s \in Slot, StartControl(a, s) \/ CloseControl(a, s) \/ CancelControl(a, s)
       PROVE  MainAgrees(pc'[a], sub'[Main(a)], asked'[Main(a)])
  <2>1. pc' = pc /\ (OnLoop(Control(a, s)) \/ UNCHANGED busVars)
    BY <1>10 DEF StartControl, CloseControl, CancelControl, OnLoop
  <2>2. MainKept(a)
    BY <2>1, OwnFrame
  <2> QED
    BY <1>1, <2>1, <2>2 DEF MainKept
<1>11. CASE LeaveLoop(a)
  BY <1>1, <1>11 DEF LeaveLoop, Bus!Drop, Bus!askVars
<1>12. CASE CloseMain(a)
  BY <1>1, <1>12 DEF CloseMain, Bus!Finish, Bus!askVars
<1>13. CASE Left(a)
  BY <1>1, <1>13 DEF Left, Ended, busVars, RunState
<1>14. CASE Unwind(a)
  BY <1>1, <1>14 DEF Unwind, Bus!Finish, Bus!askVars, busVars
<1> QED
  BY <1>2, <1>3, <1>4, <1>5, <1>6, <1>7, <1>8, <1>9, <1>10, <1>11, <1>12, <1>13, <1>14 DEF AgentStep

(* What a step of an agent makes of the set of its control loops: a start   *)
(* adds one, which is an orphan if the start fails, and an end needs them   *)
(* all gone.                                                                *)
LEMMA OwnLoops ==
  ASSUME BusInv, AgentTypes, NEW a \in Agent, Follows(a), AgentStep(a)
  PROVE  LoopsAgree(pc'[a], Live(a)', orphans'[a], stop'[a])
<1> USE DEF LoopsAgree
<1>1. /\ LoopsAgree(pc[a], Live(a), orphans[a], stop[a])
      /\ ctl \in [Agent -> [Slot -> {"off", "new", "loop", "done"}]]
      /\ pc \in [Agent -> RunState] /\ stop \in [Agent -> BOOLEAN]
      /\ orphans \in [Agent -> SUBSET Slot]
  BY DEF AgentTypes, Follows
<1>2. /\ Live(a) = {s \in Slot : ctl[a][s] \in {"new", "loop"}}
      /\ Live(a)' = {s \in Slot : ctl'[a][s] \in {"new", "loop"}}
  BY DEF Live
<1>3. CASE Run(a) \/ RunFails(a)
  <2>1. PICK s \in Slot :
          /\ NewControl(a, s)
          /\ \/ pc' = [pc EXCEPT ![a] = "loop"] /\ orphans' = [orphans EXCEPT ![a] = @ \ {s}]
             \/ pc' = pc /\ orphans' = [orphans EXCEPT ![a] = @ \cup {s}]
    BY <1>3, StartEffect
  <2>2. \A t \in Slot : ctl'[a][t] = IF s = t THEN "new" ELSE ctl[a][t]
    BY <1>1, <2>1, CtlType DEF NewControl
  <2>3. Live(a)' = Live(a) \cup {s}
    BY <1>2, <2>2
  <2>4. Live(a) \subseteq orphans[a]
    BY <1>1, <2>1 DEF NewControl
  <2>5. CASE pc'[a] = "loop" /\ orphans'[a] = orphans[a] \ {s}
    BY <2>3, <2>4, <2>5
  <2>6. CASE pc'[a] = "down" /\ orphans'[a] = orphans[a] \cup {s}
    BY <2>3, <2>4, <2>6
  <2>7. pc[a] = "down"
    BY <2>1 DEF NewControl
  <2> QED
    BY <1>1, <2>1, <2>5, <2>6, <2>7
<1>4. ASSUME ctl' = ctl, orphans' = orphans, stop' = stop, pc'[a] = pc[a]
      PROVE  LoopsAgree(pc'[a], Live(a)', orphans'[a], stop'[a])
  BY <1>1, <1>2, <1>4
<1>5. ASSUME NEW s \in Slot, StartControl(a, s)
      PROVE  LoopsAgree(pc'[a], Live(a)', orphans'[a], stop'[a])
  <2>1. /\ ctl[a][s] = "new" /\ ctl' = [ctl EXCEPT ![a][s] = "loop"]
        /\ pc' = pc /\ orphans' = orphans /\ stop' = stop
    BY <1>5 DEF StartControl
  <2>2. \A t \in Slot : ctl'[a][t] = IF s = t THEN "loop" ELSE ctl[a][t]
    BY <1>1, <2>1, CtlType
  <2>3. Live(a)' = Live(a)
    BY <1>2, <2>1, <2>2
  <2> QED
    BY <1>1, <2>1, <2>3
<1>6. ASSUME NEW s \in Slot, Obey(a, s)
      PROVE  LoopsAgree(pc'[a], Live(a)', orphans'[a], stop'[a])
  <2>1. /\ pc' = pc \/ (pc[a] = "gate" /\ pc' = [pc EXCEPT ![a] = "woken"])
        /\ \/ ctl' = ctl /\ stop' = stop
           \/ ctl' = [ctl EXCEPT ![a][s] = "done"] /\ stop' = [stop EXCEPT ![a] = TRUE]
        /\ orphans' = orphans
    BY <1>6, ObeyEffect
  <2>2. pc'[a] = pc[a] \/ (pc[a] = "gate" /\ pc'[a] = "woken")
    BY <1>1, <2>1
  <2>3. CASE ctl' = ctl /\ stop' = stop
    BY <1>1, <1>2, <2>1, <2>2, <2>3
  <2>4. CASE ctl' = [ctl EXCEPT ![a][s] = "done"] /\ stop' = [stop EXCEPT ![a] = TRUE]
    <3>1. \A t \in Slot : ctl'[a][t] = IF s = t THEN "done" ELSE ctl[a][t]
      BY <1>1, <2>4, CtlType
    <3>2. Live(a)' \subseteq Live(a) /\ stop'[a]
      BY <1>1, <1>2, <2>4, <3>1
    <3> QED
      BY <1>1, <2>1, <2>2, <3>2
  <2> QED
    BY <2>1, <2>3, <2>4
<1>7. ASSUME NEW s \in Slot, CancelControl(a, s)
      PROVE  LoopsAgree(pc'[a], Live(a)', orphans'[a], stop'[a])
  BY <1>7 DEF CancelControl
<1>8. CASE \/ TakeWork(a) \/ Wake(a) \/ Ask(a) \/ EndAsk(a) \/ Done(a) \/ Crash(a)
           \/ LeaveLoop(a) \/ CloseMain(a) \/ \E s \in Slot : CloseControl(a, s)
  <2>1. ctl' = ctl /\ orphans' = orphans /\ stop' = stop
    BY <1>8 DEF TakeWork, Wake, Ask, EndAsk, Done, Crash, LeaveLoop, CloseMain, CloseControl
  <2>2. Live(a)' = Live(a)
    BY <1>2, <2>1
  <2>3. \/ pc'[a] = pc[a]
        \/ pc[a] \in {"loop", "woken", "handling", "asking", "gate"} /\ pc'[a] \notin {"down", "exited"}
    BY <1>1, <1>8 DEF TakeWork, Wake, Dispatching, Ask, EndAsk, Done, Crash, LeaveLoop, CloseMain, CloseControl
  <2> QED
    BY <1>1, <2>1, <2>2, <2>3
<1>9. CASE Left(a)
  <2>1. Live(a) = {} /\ ctl' = ctl /\ pc'[a] \in {"down", "exited"}
    BY <1>1, <1>9 DEF Left, Ended
  <2> QED
    BY <1>2, <2>1
<1>10. CASE Unwind(a)
  <2>1. ctl' = ctl /\ orphans' = orphans
    BY <1>10 DEF Unwind
  <2>2. pc'[a] = "leaving" \/ (pc[a] = "down" /\ pc'[a] = "exited")
    BY <1>1, <1>10 DEF Unwind
  <2> QED
    BY <1>1, <1>2, <2>1, <2>2
<1> QED
  BY <1>3, <1>5, <1>6, <1>7, <1>8, <1>9, <1>10 DEF AgentStep

LEMMA SquadStep == BusInv /\ AgentTypes /\ SquadInv /\ [Next]_vars => SquadInv'
<1> SUFFICES ASSUME BusInv, AgentTypes, SquadInv, [Next]_vars, NEW b \in Agent
             PROVE  /\ MainAgrees(pc'[b], sub'[Main(b)], asked'[Main(b)])
                    /\ \A s \in Slot : SlotAgrees(ctl'[b][s], sub'[Control(b, s)])
                    /\ LoopsAgree(pc'[b], Live(b)', orphans'[b], stop'[b])
  BY DEF SquadInv, Follows, Main, Control
<1>1. /\ MainAgrees(pc[b], sub[Main(b)], asked[Main(b)])
      /\ \A s \in Slot : SlotAgrees(ctl[b][s], sub[Control(b, s)])
      /\ LoopsAgree(pc[b], Live(b), orphans[b], stop[b])
  BY DEF SquadInv, Follows
<1>2. ctl'[b] = ctl[b] => Live(b)' = Live(b)
  BY DEF Live
<1>3. ASSUME NEW a \in Agent, AgentStep(a)
      PROVE  /\ MainAgrees(pc'[b], sub'[Main(b)], asked'[Main(b)])
             /\ \A s \in Slot : SlotAgrees(ctl'[b][s], sub'[Control(b, s)])
             /\ LoopsAgree(pc'[b], Live(b)', orphans'[b], stop'[b])
  <2>1. CASE a = b
    BY <1>3, <2>1, OwnMain, OwnSlots, OwnLoops DEF SquadInv
  <2>2. CASE a # b
    BY <1>1, <1>2, <1>3, <2>2, OthersKept
  <2> QED
    BY <2>1, <2>2
<1>4. CASE FactoryStop
  BY <1>1, <1>2, <1>4 DEF FactoryStop, busVars, LoopsAgree
<1>5. CASE PublishWork \/ (\E r \in 1 .. Len(log) : PublishAnswer(r))
             \/ (\E m \in Command : PublishControl(m))
  <2>1. UNCHANGED << pc, ctl, sub, asked, orphans, stop >>
    BY <1>5 DEF PublishWork, PublishAnswer, PublishControl, agentVars, Bus!Publish,
                Bus!Deliver, Bus!FanoutLocal, Bus!askVars
  <2> QED
    BY <1>1, <1>2, <2>1
<1>6. CASE UNCHANGED vars
  BY <1>1, <1>2, <1>6 DEF vars, busVars
<1> QED
  BY <1>3, <1>4, <1>5, <1>6 DEF Next

(* Wherever run() is, the bus agrees.  A run that begins ends everything    *)
(* that is the agent's when it ends, failed starts before it included, and  *)
(* only a start that fails leaves a control loop behind; a running agent    *)
(* that was not stopped hears the operator (base.py, run(); runtime.py,     *)
(* _supervise).                                                             *)
THEOREM NothingIsLeft == Spec => []NothingLeftBehind
<1>1. Init => BusInv /\ AgentTypes /\ SquadInv
  BY BusInit, TypesInit, SquadInit DEF Init
<1>2. BusInv /\ AgentTypes /\ SquadInv /\ [Next]_vars => (BusInv /\ AgentTypes /\ SquadInv)'
  BY OnBus, BusStep, TypesStep, SquadStep
<1>3. BusInv /\ AgentTypes /\ SquadInv => NothingLeftBehind
  BY Slots DEF SquadInv, Follows, MainAgrees, SlotAgrees, LoopsAgree, NothingLeftBehind, Running,
     AgentTypes
<1> QED
  BY <1>1, <1>2, <1>3, PTL DEF Spec

-----------------------------------------------------------------------------
(* Nobody dispatches a message twice *)

(* What a role has dispatched lies behind its cursor.                       *)
TriedBehind ==
  \A r \in Role : \A p \in 1 .. MaxSent :
    tries[r][p] # 0 => tries[r][p] = 1 /\ p <= B!CursorOf(r)

(* A message that waits at the gate of a paused agent is still to be        *)
(* dispatched, by nobody else.                                              *)
HeldUntried ==
  \A a \in Agent :
    pc[a] \in {"gate", "woken"} =>
      got[Main(a)] # 0 /\ tries[RoleOf[a]][got[Main(a)]] = 0

IInv == BusInv /\ AgentTypes /\ SquadInv /\ TriedBehind /\ HeldUntried

LEMMA TriedInit == Init => TriedBehind /\ HeldUntried
BY DEF Init, TriedBehind, HeldUntried

LEMMA Cursors ==
  ASSUME BusInv, BusInv', [B!Next]_(B!vars), NEW r \in Role
  PROVE  B!CursorOf(r) \in Int /\ B!CursorOf(r)' \in Int /\ B!CursorOf(r)' >= B!CursorOf(r)
<1>1. B!IInv /\ B!IInv' /\ r \in BusGroup
  BY Groups DEF BusInv
<1>2. [B!Cursor!Next]_(B!Cursor!vars)
  BY ONLY <1>1, B!RefineStep, BusConstants, [B!Next]_(B!vars)
<1>3. B!CursorOf(r)' >= B!CursorOf(r)
  BY ONLY <1>1, <1>2, B!CursorStep, BusConstants
<1>4. /\ Len(log) \in Int /\ Len(queues[r]) \in Int
      /\ Len(log') \in Int /\ Len(queues'[r]) \in Int
  BY <1>1, LenProperties DEF B!IInv, B!TypeOK
<1> QED
  BY <1>3, <1>4 DEF B!CursorOf

(* The message that a main loop takes is ahead of its role's cursor.        *)
LEMMA Taken ==
  ASSUME BusInv, NEW a \in Agent, Bus!Get(Main(a))
  PROVE  /\ got'[Main(a)] \in 1 .. MaxSent
         /\ got'[Main(a)] > B!CursorOf(RoleOf[a])
<1>1. PICK k \in 1 .. Len(queues[RoleOf[a]]) :
        got' = [got EXCEPT ![Main(a)] = queues[RoleOf[a]][k]]
  BY Groups DEF Bus!Get
<1>2. B!IInv /\ RoleOf[a] \in BusGroup
  BY Groups DEF BusInv
<1>3. /\ queues[RoleOf[a]][k] = B!CursorOf(RoleOf[a]) + k
      /\ queues[RoleOf[a]][k] \in 1 .. Len(log)
  BY ONLY <1>2, B!QueuedAt, BusConstants, k \in 1 .. Len(queues[RoleOf[a]])
<1>4. got'[Main(a)] = queues[RoleOf[a]][k]
  BY <1>1, Loops, BusTypes
<1>5. B!CursorOf(RoleOf[a]) \in Int
  BY <1>2, BusTypes, LenProperties DEF B!CursorOf
<1> QED
  BY <1>3, <1>4, <1>5, Bounds, BusTypes

LEMMA TakenUntried ==
  ASSUME BusInv, AgentTypes, TriedBehind, NEW a \in Agent, Bus!Get(Main(a))
  PROVE  got'[Main(a)] \in 1 .. MaxSent /\ tries[RoleOf[a]][got'[Main(a)]] = 0
<1>1. RoleOf[a] \in Role /\ RoleOf[a] \in BusGroup
  BY Groups
<1>2. B!CursorOf(RoleOf[a]) \in Int
  BY <1>1, BusTypes, LenProperties DEF B!CursorOf
<1> QED
  BY <1>1, <1>2, Taken, Bounds DEF TriedBehind

(* An agent dispatches what it holds after the step, which its role had not *)
(* dispatched before.                                                       *)
LEMMA Dispatches ==
  ASSUME IInv, NEW a \in Agent, AgentStep(a)
  PROVE  \/ tries' = tries
         \/ /\ pc'[a] = "handling"
            /\ got'[Main(a)] \in 1 .. MaxSent
            /\ tries[RoleOf[a]][got'[Main(a)]] = 0
            /\ tries' = [tries EXCEPT ![RoleOf[a]][got'[Main(a)]] = @ + 1]
<1> USE DEF IInv
<1>1. CASE TakeWork(a)
  <2>1. got'[Main(a)] \in 1 .. MaxSent /\ tries[RoleOf[a]][got'[Main(a)]] = 0
    BY <1>1, TakenUntried DEF TakeWork
  <2> QED
    BY <1>1, <2>1 DEF TakeWork, Dispatching, AgentTypes
<1>2. CASE Wake(a)
  <2>1. got[Main(a)] # 0 /\ tries[RoleOf[a]][got[Main(a)]] = 0
    BY <1>2 DEF Wake, HeldUntried
  <2>2. got[Main(a)] \in 1 .. MaxSent
    BY <2>1, BusTypes, Loops, Bounds
  <2>3. got' = got
    BY <1>2 DEF Wake, busVars
  <2> QED
    BY <1>2, <2>1, <2>2, <2>3 DEF Wake, Dispatching, AgentTypes
<1>3. ASSUME NEW s \in Slot, Obey(a, s) PROVE tries' = tries
  BY <1>3, ObeyEffect
<1>4. CASE Run(a) \/ RunFails(a)
  BY <1>4, StartEffect DEF NewControl
<1> QED
  BY <1>1, <1>2, <1>3, <1>4 DEF AgentStep, StartControl, Ask, EndAsk, Done, Crash, CloseControl,
     LeaveLoop, CloseMain, CancelControl, Left, Ended, Unwind

LEMMA TriedStep == IInv /\ [Next]_vars => TriedBehind'
<1> SUFFICES ASSUME IInv, [Next]_vars PROVE TriedBehind'
  OBVIOUS
<1>1. BusInv /\ BusInv' /\ [B!Next]_(B!vars)
  BY OnBus, BusStep DEF IInv
<1>2. SUFFICES ASSUME NEW r \in Role, NEW p \in 1 .. MaxSent, tries'[r][p] # 0
               PROVE  tries'[r][p] = 1 /\ p <= B!CursorOf(r)'
  BY DEF TriedBehind
<1>3. B!CursorOf(r) \in Int /\ B!CursorOf(r)' \in Int /\ B!CursorOf(r)' >= B!CursorOf(r)
  BY <1>1, Cursors
<1>4. tries[r][p] # 0 => tries[r][p] = 1 /\ p <= B!CursorOf(r)
  BY DEF IInv, TriedBehind
<1>5. CASE tries' = tries
  BY <1>2, <1>3, <1>4, <1>5, Bounds
<1>6. ASSUME NEW a \in Agent, AgentStep(a), tries' # tries
      PROVE  tries'[r][p] = 1 /\ p <= B!CursorOf(r)'
  <2> DEFINE q == got'[Main(a)]
  <2>1. /\ q \in 1 .. MaxSent /\ tries[RoleOf[a]][q] = 0
        /\ tries' = [tries EXCEPT ![RoleOf[a]][q] = @ + 1]
    BY <1>6, Dispatches
  <2>2. q \in 1 .. B!CursorOf(RoleOf[a])'
    BY <1>1, <2>1, Loops, Groups DEF BusInv, B!Holders
  <2> HIDE DEF q
  <2>3. RoleOf[a] \in Role /\ tries \in [Role -> [1 .. MaxSent -> Nat]]
    BY Groups DEF IInv, AgentTypes
  <2>4. CASE r = RoleOf[a] /\ p = q
    <3>1. tries'[r] = [tries[r] EXCEPT ![p] = tries[r][p] + 1] /\ tries[r][p] = 0
      BY ONLY <2>1, <2>3, <2>4
    <3>2. tries[r] \in [1 .. MaxSent -> Nat]
      BY <2>3
    <3>3. tries'[r][p] = 1
      <4> DEFINE t == tries[r]
                 n == tries[r][p]
      <4>1. tries'[r] = [t EXCEPT ![p] = n + 1] /\ t \in [1 .. MaxSent -> Nat] /\ n = 0
        BY <3>1, <3>2
      <4> HIDE DEF t, n
      <4>2. tries'[r][p] = n + 1
        BY <4>1
      <4> QED
        BY <4>1, <4>2
    <3>4. p <= B!CursorOf(r)'
      BY <1>3, <2>2, <2>4 DEF B!CursorOf
    <3> QED
      BY <3>3, <3>4
  <2>5. CASE ~ (r = RoleOf[a] /\ p = q)
    <3>1. tries'[r][p] = tries[r][p]
      BY <2>1, <2>3, <2>5
    <3> QED
      BY <1>2, <1>3, <1>4, <3>1
  <2> QED
    BY <2>4, <2>5
<1> QED
  BY <1>5, <1>6 DEF Next, FactoryStop, PublishWork, PublishAnswer, PublishControl, agentVars, vars

(* How a message comes to wait at the gate, and how it stays there.         *)
LEMMA Holds ==
  ASSUME IInv, NEW a \in Agent, AgentStep(a), pc'[a] \in {"gate", "woken"}
  PROVE  /\ tries' = tries
         /\ got'[Main(a)] # 0 /\ tries[RoleOf[a]][got'[Main(a)]] = 0
<1> USE DEF IInv
<1>1. /\ pc \in [Agent -> RunState] /\ Main(a) \in BusLoop
      /\ got \in [BusLoop -> 0 .. MaxSent]
  BY Loops, BusTypes DEF AgentTypes
<1>2. CASE TakeWork(a)
  <2>1. got'[Main(a)] \in 1 .. MaxSent /\ tries[RoleOf[a]][got'[Main(a)]] = 0
    BY <1>2, TakenUntried DEF TakeWork
  <2>2. tries' = tries
    BY <1>1, <1>2 DEF TakeWork, Dispatching
  <2> QED
    BY <2>1, <2>2
<1>3. ASSUME pc[a] \in {"gate", "woken"}, tries' = tries, got'[Main(a)] = got[Main(a)]
      PROVE  /\ tries' = tries
             /\ got'[Main(a)] # 0 /\ tries[RoleOf[a]][got'[Main(a)]] = 0
  BY <1>3 DEF HeldUntried
<1>4. CASE Wake(a) \/ Ask(a) \/ EndAsk(a) \/ Done(a) \/ Crash(a) \/ Left(a)
  <2>1. pc'[a] \notin {"gate", "woken"}
    BY <1>1, <1>4 DEF Wake, Dispatching, Ask, EndAsk, Done, Crash, Left, Ended
  <2> QED
    BY <2>1
<1>5. CASE Run(a) \/ RunFails(a)
  <2>1. pc[a] = "down" /\ pc' \in {pc, [pc EXCEPT ![a] = "loop"]}
    BY <1>5, StartEffect DEF NewControl
  <2> QED
    BY <1>1, <2>1
<1>6. ASSUME NEW s \in Slot, Obey(a, s)
      PROVE  pc[a] \in {"gate", "woken"} /\ tries' = tries /\ got'[Main(a)] = got[Main(a)]
  BY <1>6, ObeyEffect DEF Bus!Consume
<1>7. ASSUME NEW s \in Slot, StartControl(a, s) \/ CloseControl(a, s)
      PROVE  pc[a] \in {"gate", "woken"} /\ tries' = tries /\ got'[Main(a)] = got[Main(a)]
  BY <1>7 DEF StartControl, CloseControl, Bus!Subscribe, Bus!Finish
<1>8. CASE CloseMain(a)
  BY <1>3, <1>8 DEF CloseMain, Bus!Finish
<1>9. CASE LeaveLoop(a) \/ \E s \in Slot : CancelControl(a, s)
  BY <1>9 DEF LeaveLoop, CancelControl
<1>10. CASE Unwind(a)
  BY <1>1, <1>10 DEF Unwind
<1> QED
  BY <1>2, <1>3, <1>4, <1>5, <1>6, <1>7, <1>8, <1>9, <1>10 DEF AgentStep

LEMMA HeldStep == IInv /\ [Next]_vars => HeldUntried'
<1> SUFFICES ASSUME IInv, [Next]_vars PROVE HeldUntried'
  OBVIOUS
<1>1. BusInv /\ BusInv' /\ AgentTypes
  BY OnBus, BusStep DEF IInv
<1> SUFFICES ASSUME NEW b \in Agent, pc'[b] \in {"gate", "woken"}
             PROVE  got'[Main(b)] # 0 /\ tries'[RoleOf[b]][got'[Main(b)]] = 0
  BY DEF HeldUntried, Main
<1>2. pc[b] \in {"gate", "woken"} => got[Main(b)] # 0 /\ tries[RoleOf[b]][got[Main(b)]] = 0
  BY DEF IInv, HeldUntried
<1>3. ASSUME NEW a \in Agent, AgentStep(a)
      PROVE  got'[Main(b)] # 0 /\ tries'[RoleOf[b]][got'[Main(b)]] = 0
  <2>1. CASE a = b
    BY <1>3, <2>1, Holds
  <2>2. CASE a # b
    <3>1. pc'[b] = pc[b] /\ got'[Main(b)] = got[Main(b)]
      BY <1>1, <1>3, <2>2, OthersKept
    <3>2. got'[Main(b)] # 0 /\ tries[RoleOf[b]][got'[Main(b)]] = 0
      BY <1>2, <3>1
    <3>3. CASE tries' = tries
      BY <3>2, <3>3
    <3>4. CASE tries' = [tries EXCEPT ![RoleOf[a]][got'[Main(a)]] = @ + 1]
      <4>1. RoleOf[a] = RoleOf[b] => got'[Main(a)] # got'[Main(b)]
        BY <1>1, <2>2, <3>2, Loops, Groups DEF BusInv, B!Holders
      <4>2. tries'[RoleOf[b]][got'[Main(b)]] = tries[RoleOf[b]][got'[Main(b)]]
        BY <1>1, <3>4, <4>1, Groups DEF AgentTypes
      <4> QED
        BY <3>2, <4>2
    <3> QED
      BY <1>3, <3>3, <3>4, Dispatches
  <2> QED
    BY <2>1, <2>2
<1>4. CASE FactoryStop \/ UNCHANGED vars
  BY <1>2, <1>4 DEF FactoryStop, vars, busVars
<1>5. CASE PublishWork \/ (\E r \in 1 .. Len(log) : PublishAnswer(r))
             \/ (\E m \in Command : PublishControl(m))
  BY <1>2, <1>5 DEF PublishWork, PublishAnswer, PublishControl, agentVars, Bus!Publish, Bus!Deliver
<1> QED
  BY <1>3, <1>4, <1>5 DEF Next

LEMMA InductiveInit == Init => IInv
BY BusInit, TypesInit, SquadInit, TriedInit DEF Init, IInv

LEMMA InductiveStep == IInv /\ [Next]_vars => IInv'
BY OnBus, BusStep, TypesStep, SquadStep, TriedStep, HeldStep DEF IInv

(* The inductive invariant of the squad.                                    *)
THEOREM Inductive == Spec => []IInv
<1> QED
  BY InductiveInit, InductiveStep, PTL DEF Spec

(* Replicas share the work: however they pause, crash, are run again and    *)
(* stop, no message is dispatched twice in a role (base.py, _dispatch).     *)
THEOREM NothingTwice == Spec => []DispatchedOnce
<1>1. IInv => DispatchedOnce
  <2> SUFFICES ASSUME IInv, NEW r \in Role, NEW p \in 1 .. MaxSent PROVE tries[r][p] <= 1
    BY DEF DispatchedOnce
  <2>1. tries[r][p] \in Nat
    BY DEF IInv, AgentTypes
  <2> QED
    BY <2>1 DEF IInv, TriedBehind
<1> QED
  BY <1>1, Inductive, PTL

-----------------------------------------------------------------------------
(* Work that waits is not lost *)

\* Position p of the log l is in the queue q, and is a message of work.
WaitsIn(q, l, p) == (\E i \in 1 .. Len(q) : q[i] = p) /\ l[p].topic = "work"

\* An agent of role r in a state of ps holds p, by the hands gs.
HeldIn(ps, gs, r, p) ==
  \E a \in Agent : RoleOf[a] = r /\ ps[a] \in {"gate", "woken"} /\ gs[Main(a)] = p

(* What WaitingWorkIsKept says of one message of one role.                  *)
Kept(r, p) ==
  \/ WaitsIn(queues'[r], log', p)
  \/ HeldIn(pc', got', r, p)
  \/ tries'[r][p] = tries[r][p] + 1
  \/ \E a \in Agent : RoleOf[a] = r /\ stop[a] /\ got'[Main(a)] = p
  \/ r \notin exists'
  \/ stopping

LEMMA KeptMeans ==
  (\A r \in Role : \A p \in Nat :
     WaitsIn(queues[r], log, p) \/ HeldIn(pc, got, r, p) => Kept(r, p))
  /\ IInv
  => \A r \in Role : \A p \in Queued(r) \cup Gated(r) :
        \/ p \in Queued(r)' \cup Gated(r)'
        \/ tries'[r][p] = tries[r][p] + 1
        \/ \E a \in Agent : RoleOf[a] = r /\ stop[a] /\ got'[Main(a)] = p
        \/ r \notin exists'
        \/ stopping
<1> SUFFICES ASSUME IInv,
                    \A r \in Role : \A p \in Nat :
                      WaitsIn(queues[r], log, p) \/ HeldIn(pc, got, r, p) => Kept(r, p),
                    NEW r \in Role, NEW p \in Queued(r) \cup Gated(r)
             PROVE  \/ p \in Queued(r)' \cup Gated(r)'
                    \/ tries'[r][p] = tries[r][p] + 1
                    \/ \E a \in Agent : RoleOf[a] = r /\ stop[a] /\ got'[Main(a)] = p
                    \/ r \notin exists'
                    \/ stopping
  OBVIOUS
<1>1. WaitsIn(queues[r], log, p) \/ HeldIn(pc, got, r, p)
  BY DEF Queued, Gated, WaitsIn, HeldIn
<1>2. p \in Nat
  <2>1. queues[r] \in Seq(1 .. MaxSent) /\ got \in [BusLoop -> 0 .. MaxSent]
    BY Groups, BusTypes DEF IInv
  <2>2. CASE WaitsIn(queues[r], log, p)
    <3>1. PICK i \in 1 .. Len(queues[r]) : queues[r][i] = p
      BY <2>2 DEF WaitsIn
    <3>2. queues[r][i] \in 1 .. MaxSent
      BY <2>1, ElementOfSeq
    <3> QED
      BY <3>1, <3>2, Bounds
  <2>3. CASE HeldIn(pc, got, r, p)
    BY <2>1, <2>3, Loops DEF HeldIn
  <2> QED
    BY <1>1, <2>2, <2>3
<1>3. Kept(r, p)
  BY <1>1, <1>2
<1>4. WaitsIn(queues'[r], log', p) => p \in Queued(r)'
  BY DEF WaitsIn, Queued
<1>5. HeldIn(pc', got', r, p) => p \in Gated(r)'
  BY DEF HeldIn, Gated
<1> QED
  BY <1>3, <1>4, <1>5 DEF Kept

\* A message published joins the queues, behind what waits.
LEMMA KeptDeliver ==
  ASSUME BusInv, NEW m, Bus!Deliver(m), NEW r \in Role, NEW p, WaitsIn(queues[r], log, p)
  PROVE  WaitsIn(queues'[r], log', p)
<1>1. PICK i \in 1 .. Len(queues[r]) : queues[r][i] = p /\ log[p].topic = "work"
  BY DEF WaitsIn
<1>2. r \in BusGroup /\ queues[r] \in Seq(1 .. MaxSent) /\ log \in Seq(B!Message)
  BY Groups, BusTypes
<1>3. p \in 1 .. Len(log)
  <2>1. B!IInv
    BY DEF BusInv
  <2>2. queues[r][i] \in 1 .. Len(log)
    BY ONLY <1>2, <2>1, B!QueuedAt, BusConstants, i \in 1 .. Len(queues[r])
  <2> QED
    BY <1>1, <2>2
<1>4. log'[p] = log[p]
  BY <1>2, <1>3 DEF Bus!Deliver
<1>5. \/ queues'[r] = queues[r]
      \/ queues'[r] = Append(queues[r], Len(log) + 1)
  BY <1>2 DEF Bus!Deliver
<1>6. i \in 1 .. Len(queues'[r]) /\ queues'[r][i] = p
  BY <1>1, <1>2, <1>5
<1> QED
  BY <1>1, <1>4, <1>6 DEF WaitsIn

\* What a main loop takes is the message it then has, or it was not work.
LEMMA KeptGet ==
  ASSUME BusInv, NEW a \in Agent, Bus!Get(Main(a)), NEW r \in Role, NEW p,
         WaitsIn(queues[r], log, p)
  PROVE  WaitsIn(queues'[r], log', p) \/ (RoleOf[a] = r /\ got'[Main(a)] = p)
<1>1. /\ r \in BusGroup /\ RoleOf[a] \in BusGroup /\ Main(a) \in BusLoop
      /\ queues \in [BusGroup -> Seq(1 .. MaxSent)] /\ got \in [BusLoop -> 0 .. MaxSent]
      /\ LoopGroup[Main(a)] = RoleOf[a] /\ Subscribed[r] = {"work"}
  BY Groups, Loops, BusTypes
<1>2. PICK k \in 1 .. Len(queues[RoleOf[a]]) :
        /\ Bus!TakeWanted(Main(a), k)
        /\ got' = [got EXCEPT ![Main(a)] = queues[RoleOf[a]][k]]
        /\ log' = log
  BY <1>1 DEF Bus!Get
<1>3. /\ queues' = [queues EXCEPT ![RoleOf[a]] =
                      SubSeq(queues[RoleOf[a]], k + 1, Len(queues[RoleOf[a]]))]
      /\ \A j \in 1 .. (k - 1) : ~ Bus!Wants(RoleOf[a], log[queues[RoleOf[a]][j]])
  BY <1>1, <1>2 DEF Bus!TakeWanted
<1>4. CASE RoleOf[a] # r
  BY <1>1, <1>2, <1>3, <1>4 DEF WaitsIn
<1>5. CASE RoleOf[a] = r
  <2> DEFINE q == queues[r]
             rest == SubSeq(q, k + 1, Len(q))
  <2>1. PICK i \in 1 .. Len(q) : q[i] = p /\ log[p].topic = "work"
    BY DEF WaitsIn
  <2>2. q \in Seq(1 .. MaxSent) /\ k \in 1 .. Len(q) /\ Len(q) \in Nat /\ queues'[r] = rest
    BY <1>1, <1>3, <1>5, LenProperties
  <2>3. /\ Len(rest) = Len(q) - k
        /\ \A j \in 1 .. (Len(q) - k) : rest[j] = q[k + j]
    BY ONLY <2>2, B!RestFacts, BusConstants
  <2>4. ~ (i \in 1 .. (k - 1))
    BY <1>1, <1>3, <1>5, <2>1 DEF Bus!Wants
  <2>5. CASE i = k
    <3>1. got'[Main(a)] = p
      BY <1>1, <1>2, <1>5, <2>1, <2>5
    <3> QED
      BY <1>5, <3>1
  <2>6. CASE i > k
    <3> HIDE DEF q, rest
    <3>1. i - k \in 1 .. (Len(q) - k) /\ k + (i - k) = i
      BY <2>1, <2>2, <2>6
    <3>2. i - k \in 1 .. Len(queues'[r]) /\ queues'[r][i - k] = p
      BY <2>1, <2>2, <2>3, <3>1
    <3> QED
      BY <1>2, <2>1, <3>2 DEF WaitsIn
  <2> HIDE DEF q, rest
  <2> QED
    BY <2>1, <2>2, <2>4, <2>5, <2>6
<1> QED
  BY <1>4, <1>5

LEMMA KeptFinish ==
  ASSUME BusInv, NEW c \in BusLoop, Bus!Finish(c), NEW r \in Role, NEW p,
         WaitsIn(queues[r], log, p)
  PROVE  WaitsIn(queues'[r], log', p) \/ r \notin exists'
<1>1. queues'[r] = queues[r] \/ r \notin exists'
  BY BusTypes, Groups DEF Bus!Finish, Bus!Unref
<1> QED
  BY <1>1 DEF Bus!Finish, WaitsIn

\* A message in a queue, over a step of an agent.
LEMMA KeptQueued ==
  ASSUME IInv, NEW a \in Agent, AgentStep(a), NEW r \in Role, NEW p,
         WaitsIn(queues[r], log, p)
  PROVE  Kept(r, p)
<1> USE DEF IInv
<1>1. /\ Main(a) \in BusLoop /\ Ctl(a) # r /\ RoleOf[a] \in Role
      /\ \A s \in Slot : Control(a, s) \in BusLoop /\ LoopGroup[Control(a, s)] = Ctl(a)
      /\ queues \in [BusGroup -> Seq(1 .. MaxSent)] /\ r \in BusGroup
      /\ pc \in [Agent -> RunState] /\ tries \in [Role -> [1 .. MaxSent -> Nat]]
  BY Groups, Loops, BusTypes DEF AgentTypes
\* The operations that leave queues and log alone.
<1>2. ASSUME queues'[r] = queues[r], log' = log PROVE Kept(r, p)
  BY <1>2 DEF Kept, WaitsIn
<1>3. ASSUME NEW c \in BusLoop, Bus!Finish(c) PROVE Kept(r, p)
  BY <1>3, KeptFinish DEF Kept
<1>4. CASE Run(a) \/ RunFails(a)
  BY <1>2, <1>4 DEF Run, RunFails, Bus!Subscribe, busVars
<1>5. CASE TakeWork(a)
  <2>1. CASE WaitsIn(queues'[r], log', p)
    BY <2>1 DEF Kept
  <2>2. CASE RoleOf[a] = r /\ got'[Main(a)] = p
    <3>1. CASE stop[a]
      BY <2>2, <3>1 DEF Kept
    <3>2. CASE pc' = [pc EXCEPT ![a] = "gate"]
      BY <1>1, <2>2, <3>2 DEF Kept, HeldIn
    <3>3. CASE Dispatching(a, got'[Main(a)])
      <4>1. got'[Main(a)] \in 1 .. MaxSent
        BY <1>5, Taken DEF TakeWork
      <4>2. tries'[r][p] = tries[r][p] + 1
        BY <1>1, <2>2, <3>3, <4>1 DEF Dispatching
      <4> QED
        BY <4>2 DEF Kept
    <3> QED
      BY <1>5, <3>1, <3>2, <3>3 DEF TakeWork
  <2> QED
    BY <1>5, <2>1, <2>2, KeptGet DEF TakeWork
<1>6. CASE Wake(a) \/ Crash(a) \/ Left(a)
  BY <1>2, <1>6 DEF Wake, Crash, Left, Ended, busVars
<1>7. CASE Ask(a)
  <2>1. WaitsIn(queues'[r], log', p)
    BY <1>7, KeptDeliver DEF Ask, Bus!Request
  <2> QED
    BY <2>1 DEF Kept
<1>8. CASE EndAsk(a)
  BY <1>2, <1>8 DEF EndAsk, Bus!Receive, Bus!GiveUp, Bus!EndRequest, Bus!subVars
<1>9. CASE Done(a) \/ LeaveLoop(a)
  BY <1>2, <1>9 DEF Done, LeaveLoop, Bus!Resume, Bus!Drop
<1>10. ASSUME NEW s \in Slot, Obey(a, s) PROVE Kept(r, p)
  <2>1. PICK k \in 1 .. Len(queues[Ctl(a)]) : Bus!Consume(Control(a, s), k)
    BY <1>10, ObeyEffect
  <2>2. queues'[r] = queues[r] /\ log' = log
    BY <1>1, <2>1 DEF Bus!Consume, Bus!TakeWanted
  <2> QED
    BY <1>2, <2>2
<1>11. CASE CloseMain(a)
  BY <1>1, <1>3, <1>11 DEF CloseMain
<1>12. ASSUME NEW s \in Slot, StartControl(a, s) \/ CloseControl(a, s) \/ CancelControl(a, s)
       PROVE  Kept(r, p)
  BY <1>1, <1>2, <1>3, <1>12 DEF StartControl, CloseControl, CancelControl, Bus!Subscribe, busVars
<1>13. CASE Unwind(a)
  BY <1>13 DEF Unwind, Kept
<1> QED
  BY <1>4, <1>5, <1>6, <1>7, <1>8, <1>9, <1>10, <1>11, <1>12, <1>13 DEF AgentStep

\* A message at the gate, over a step of an agent.
LEMMA KeptHeld ==
  ASSUME IInv, NEW a \in Agent, AgentStep(a), NEW r \in Role, NEW p, HeldIn(pc, got, r, p)
  PROVE  Kept(r, p)
<1> USE DEF IInv
<1>1. PICK b \in Agent : RoleOf[b] = r /\ pc[b] \in {"gate", "woken"} /\ got[Main(b)] = p
  BY DEF HeldIn
<1>2. ASSUME pc'[b] \in {"gate", "woken"}, got'[Main(b)] = got[Main(b)] PROVE Kept(r, p)
  BY <1>1, <1>2 DEF Kept, HeldIn
<1>3. CASE a # b
  BY <1>1, <1>2, <1>3, OthersKept
<1>4. CASE a = b
  <2>1. /\ pc \in [Agent -> RunState] /\ tries \in [Role -> [1 .. MaxSent -> Nat]]
        /\ got \in [BusLoop -> 0 .. MaxSent] /\ Main(b) \in BusLoop
    BY BusTypes, Loops DEF AgentTypes
  <2>2. CASE Wake(b)
    <3>1. got[Main(b)] \in 1 .. MaxSent
      BY <1>1, <2>1, Bounds DEF HeldUntried
    <3>2. tries'[r][p] = tries[r][p] + 1
      BY <1>1, <2>1, <2>2, <3>1 DEF Wake, Dispatching
    <3> QED
      BY <3>2 DEF Kept
  <2>3. ASSUME NEW s \in Slot, Obey(b, s) PROVE Kept(r, p)
    <3>1. pc'[b] \in {"gate", "woken"}
      BY <1>1, <2>1, <2>3, ObeyEffect
    <3>2. got' = got
      BY <2>3, ObeyEffect DEF Bus!Consume
    <3> QED
      BY <1>2, <3>1, <3>2
  <2>4. ASSUME NEW s \in Slot, StartControl(b, s) \/ CloseControl(b, s) PROVE Kept(r, p)
    BY <1>1, <1>2, <2>4 DEF StartControl, CloseControl, Bus!Subscribe, Bus!Finish
  <2>5. CASE CloseMain(b)
    BY <1>1, <1>2, <2>5 DEF CloseMain, Bus!Finish
  <2>6. CASE Unwind(b)
    BY <2>6 DEF Unwind, Kept
  <2>7. CASE Run(b) \/ RunFails(b)
    BY <1>1, <2>7, StartEffect DEF NewControl
  <2> QED
    BY <1>1, <1>4, <2>2, <2>3, <2>4, <2>5, <2>6, <2>7 DEF AgentStep, TakeWork, Ask, EndAsk, Done,
       Crash, LeaveLoop, CancelControl, Left
<1> QED
  BY <1>3, <1>4

LEMMA KeptStep ==
  ASSUME IInv, [Next]_vars, NEW r \in Role, NEW p,
         WaitsIn(queues[r], log, p) \/ HeldIn(pc, got, r, p)
  PROVE  Kept(r, p)
<1>1. ASSUME NEW a \in Agent, AgentStep(a) PROVE Kept(r, p)
  BY <1>1, KeptQueued, KeptHeld
<1>2. CASE FactoryStop \/ UNCHANGED vars
  BY <1>2 DEF FactoryStop, vars, busVars, Kept, WaitsIn, HeldIn
<1>3. CASE PublishWork \/ (\E q \in 1 .. Len(log) : PublishAnswer(q))
             \/ (\E m \in Command : PublishControl(m))
  <2>1. UNCHANGED << pc, got >> /\ \E m : Bus!Deliver(m)
    BY <1>3 DEF PublishWork, PublishAnswer, PublishControl, agentVars, Bus!Publish, Bus!Deliver
  <2>2. CASE WaitsIn(queues[r], log, p)
    BY <2>1, <2>2, KeptDeliver DEF IInv, Kept
  <2>3. CASE HeldIn(pc, got, r, p)
    BY <2>1, <2>3 DEF HeldIn, Kept
  <2> QED
    BY <2>2, <2>3
<1> QED
  BY <1>1, <1>2, <1>3 DEF Next

(* Work that waits for a role, in its queue or with a paused agent, is      *)
(* taken by it or kept, unless a replica that was told to stop takes it or  *)
(* the last replica leaves: a crash, a pause or a sibling's stop loses      *)
(* nothing (bus.py, subscribe(); base.py, run()).                           *)
THEOREM WorkIsKept == Spec => WaitingWorkIsKept
<1> DEFINE Keeps ==
             \A r \in Role : \A p \in Queued(r) \cup Gated(r) :
               \/ p \in Queued(r)' \cup Gated(r)'
               \/ tries'[r][p] = tries[r][p] + 1
               \/ \E a \in Agent : RoleOf[a] = r /\ stop[a] /\ got'[Main(a)] = p
               \/ r \notin exists'
               \/ stopping
<1>1. IInv /\ [Next]_vars => [Keeps]_vars
  <2> SUFFICES ASSUME IInv, [Next]_vars PROVE Keeps
    OBVIOUS
  <2>1. \A r \in Role : \A p \in Nat :
          WaitsIn(queues[r], log, p) \/ HeldIn(pc, got, r, p) => Kept(r, p)
    BY KeptStep
  <2> QED
    BY <2>1, KeptMeans
<1> QED
  BY <1>1, Inductive, PTL DEF Spec, WaitingWorkIsKept

-----------------------------------------------------------------------------
(* The agents use the bus as it is meant to be used *)

(* Every behaviour of the squad is one of its bus: no agent does anything   *)
(* to queues, subscriptions or waiters that MemoryBus does not do.          *)
THEOREM UsesTheBus == Spec => B!Spec
<1>1. Init => B!Init
  BY SameBus DEF Init
<1>2. IInv /\ [Next]_vars => [B!Next]_(B!vars)
  BY OnBus DEF IInv
<1> QED
  BY <1>1, <1>2, Inductive, PTL DEF Spec, B!Spec

(* However agents ask, time out, crash and are cancelled, the table of      *)
(* waiters holds exactly the calls that wait, and no call gets the answer   *)
(* of another one (base.py, ask(); bus.py, request()).                      *)
THEOREM CallsAreAnswered == Spec => []B!WaitersAreOpenCalls
<1>1. B!Spec => []B!WaitersAreOpenCalls
  BY ONLY B!WaitersMatch, BusConstants
<1> QED
  BY <1>1, UsesTheBus, PTL

=============================================================================

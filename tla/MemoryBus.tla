------------------------------ MODULE MemoryBus ------------------------------
(***************************************************************************)
(* The in-process message bus (bus.py, Bus and MemoryBus): publish, the    *)
(* competing consumers of a group behind one queue, and request/response   *)
(* correlation through the table of waiters.                               *)
(*                                                                         *)
(* asyncio runs one coroutine at a time, so a step here is what the code   *)
(* does between two suspensions.  put() on an unbounded queue and get() on *)
(* a queue that is not empty do not suspend: publish() is one step, and so *)
(* is the subscribe() loop from the queue to the next wanted message.      *)
(***************************************************************************)
EXTENDS Integers, Sequences, FiniteSets

CONSTANTS
  Group,     \* consumer groups: an agent's name, or one control group each
  Consumer,  \* running subscribe() loops
  GroupOf,   \* the group each of them names
  Topic,
  Wanted,    \* the topics each group subscribes to; {} subscribes to all
  Body,      \* payloads, uninterpreted here
  MaxLog     \* bound: messages ever published

ASSUME BusAssumption ==
  /\ IsFiniteSet(Consumer)
  /\ GroupOf \in [Consumer -> Group]
  /\ Wanted \in [Group -> SUBSET Topic]
  /\ MaxLog \in Nat

\* replyTo is 0, or for a response the position in the log of its request.
Message == [kind : {"event", "request", "response"}, topic : Topic,
            replyTo : 0 .. MaxLog, body : Body]

VARIABLES
  log,      \* history: every message published, in order
  queues,   \* _queues: per group, positions in the log not yet taken
  exists,   \* the keys of _queues
  refs,     \* _refs
  sub,      \* where each subscribe() loop is
  got,      \* position of the message a loop has yielded, or 0
  waiters,  \* keys of _waiters: positions of requests with a future
  asked,    \* per consumer, the request it awaits in request(), or 0
  answer    \* per consumer, the future of that request

subVars == << queues, exists, refs, sub, got >>
askVars == << waiters, asked, answer >>
vars == << log, queues, exists, refs, sub, got, waiters, asked, answer >>

(***************************************************************************)
(* "none": no generator.  "waiting": in q.get().  "yielded": the caller    *)
(* has a message.  "dropped": the caller left its loop, and the event loop *)
(* has the generator's aclose() scheduled.                                 *)
(***************************************************************************)
SubState == {"none", "waiting", "yielded", "dropped"}

Wants(g, m) == Wanted[g] = {} \/ m.topic \in Wanted[g]

Members(g) == {c \in Consumer : sub[c] # "none" /\ GroupOf[c] = g}

-----------------------------------------------------------------------------

Init ==
  /\ log = << >>
  /\ queues = [g \in Group |-> << >>]
  /\ exists = {}
  /\ refs = [g \in Group |-> 0]
  /\ sub = [c \in Consumer |-> "none"]
  /\ got = [c \in Consumer |-> 0]
  /\ waiters = {}
  /\ asked = [c \in Consumer |-> 0]
  /\ answer = [c \in Consumer |-> "none"]

\* Every group that exists gets every message; topics are filtered in Get.
Deliver(m) ==
  /\ Len(log) < MaxLog
  /\ log' = Append(log, m)
  /\ queues' = [g \in Group |->
                  IF g \in exists THEN Append(queues[g], Len(log) + 1) ELSE queues[g]]
  /\ UNCHANGED << exists, refs, sub, got >>

\* A response resolves the future of its request, if one still waits for it.
FanoutLocal(m) ==
  IF m.kind = "response" /\ m.replyTo \in waiters
  THEN /\ waiters' = waiters \ {m.replyTo}
       /\ answer' = [c \in Consumer |->
                       IF asked[c] = m.replyTo THEN "done" ELSE answer[c]]
       /\ UNCHANGED asked
  ELSE UNCHANGED askVars

Publish(m) ==
  /\ m.kind # "request"
  /\ IF m.kind = "response"
     THEN m.replyTo \in 1 .. Len(log) /\ log[m.replyTo].kind = "request"
     ELSE m.replyTo = 0
  /\ Deliver(m)
  /\ FanoutLocal(m)

-----------------------------------------------------------------------------

Subscribe(c) ==
  LET g == GroupOf[c] IN
  /\ sub[c] = "none"
  /\ sub' = [sub EXCEPT ![c] = "waiting"]
  /\ exists' = exists \cup {g}
  /\ refs' = [refs EXCEPT ![g] = @ + 1]
  /\ UNCHANGED << log, queues, got >> /\ UNCHANGED askVars

\* Mutant of TakeWanted: the message taken stays in the queue.
TakeWantedPeeks(c, k) ==
  LET g == GroupOf[c]
      q == queues[g]
  IN  /\ sub[c] = "waiting"
      /\ Wants(g, log[q[k]])
      /\ \A j \in 1 .. (k - 1) : ~ Wants(g, log[q[j]])
      /\ queues' = [queues EXCEPT ![g] = SubSeq(q, k, Len(q))]

\* Unwanted messages in front are taken off the queue and dropped.
TakeWanted(c, k) ==
  LET g == GroupOf[c]
      q == queues[g]
  IN  /\ sub[c] = "waiting"
      /\ Wants(g, log[q[k]])
      /\ \A j \in 1 .. (k - 1) : ~ Wants(g, log[q[j]])
      /\ queues' = [queues EXCEPT ![g] = SubSeq(q, k + 1, Len(q))]

\* The loop yields a message to a caller that will work on it.
Get(c) ==
  \E k \in 1 .. Len(queues[GroupOf[c]]) :
    /\ TakeWanted(c, k)
    /\ sub' = [sub EXCEPT ![c] = "yielded"]
    /\ got' = [got EXCEPT ![c] = queues[GroupOf[c]][k]]
    /\ UNCHANGED << log, exists, refs >> /\ UNCHANGED askVars

\* The loop yields a message to a caller that is done without suspending.
Consume(c, k) ==
  /\ TakeWanted(c, k)
  /\ UNCHANGED << log, exists, refs, sub, got >> /\ UNCHANGED askVars

\* The caller comes back for the next message.
Resume(c) ==
  /\ sub[c] = "yielded"
  /\ asked[c] = 0
  /\ sub' = [sub EXCEPT ![c] = "waiting"]
  /\ got' = [got EXCEPT ![c] = 0]
  /\ UNCHANGED << log, queues, exists, refs >> /\ UNCHANGED askVars

\* The caller breaks out of its loop, or an exception leaves it.
Drop(c) ==
  /\ sub[c] = "yielded"
  /\ asked[c] = 0
  /\ sub' = [sub EXCEPT ![c] = "dropped"]
  /\ got' = [got EXCEPT ![c] = 0]
  /\ UNCHANGED << log, queues, exists, refs >> /\ UNCHANGED askVars

\* Mutants of Unref: the count passes 0, or every leaver takes the queue away.
UnrefBelowZero(g) ==
  /\ refs' = [refs EXCEPT ![g] = @ - 2]
  /\ exists' = IF refs[g] = 2 THEN exists \ {g} ELSE exists
  /\ queues' = IF refs[g] = 2 THEN [queues EXCEPT ![g] = << >>] ELSE queues

UnrefAlwaysPops(g) ==
  /\ refs' = [refs EXCEPT ![g] = IF @ > 0 THEN @ - 1 ELSE 0]
  /\ exists' = exists \ {g}
  /\ queues' = [queues EXCEPT ![g] = << >>]

\* The finally block of subscribe(): the last reference takes the queue away.
Unref(g) ==
  LET left == IF refs[g] > 0 THEN refs[g] - 1 ELSE 0 IN
  /\ refs' = [refs EXCEPT ![g] = left]
  /\ exists' = IF left = 0 THEN exists \ {g} ELSE exists
  /\ queues' = IF left = 0 THEN [queues EXCEPT ![g] = << >>] ELSE queues

\* aclose() of a dropped generator, or CancelledError out of q.get().
Finish(c) ==
  /\ sub[c] \in {"dropped", "waiting"}
  /\ sub' = [sub EXCEPT ![c] = "none"]
  /\ Unref(GroupOf[c])
  /\ UNCHANGED << log, got >> /\ UNCHANGED askVars

-----------------------------------------------------------------------------

\* request(): the waiter is registered before the request is published.
Request(c, m) ==
  /\ sub[c] = "yielded"
  /\ asked[c] = 0
  /\ m.kind = "request" /\ m.replyTo = 0
  /\ Deliver(m)
  /\ waiters' = waiters \cup {Len(log) + 1}
  /\ asked' = [asked EXCEPT ![c] = Len(log) + 1]
  /\ answer' = [answer EXCEPT ![c] = "pending"]

\* Mutant of EndRequest: a call that timed out leaves its waiter behind.
EndRequestKeepsWaiter(c) ==
  /\ asked' = [asked EXCEPT ![c] = 0]
  /\ answer' = [answer EXCEPT ![c] = "none"]
  /\ UNCHANGED << log, waiters >> /\ UNCHANGED subVars

\* End of request(): its finally block pops the waiter on every way out.
EndRequest(c) ==
  /\ waiters' = waiters \ {asked[c]}
  /\ asked' = [asked EXCEPT ![c] = 0]
  /\ answer' = [answer EXCEPT ![c] = "none"]
  /\ UNCHANGED log /\ UNCHANGED subVars

Receive(c) ==
  /\ answer[c] = "done"
  /\ EndRequest(c)

\* Mutant of GiveUp: the future is awaited without a timeout.
GiveUpNever(c) ==
  /\ asked[c] # 0 /\ answer[c] = "done"
  /\ EndRequest(c)

\* BusTimeout, or the caller's task is cancelled.  The timer may also fire
\* between the answer and the caller's next turn: the answer is then lost.
GiveUp(c) ==
  /\ asked[c] # 0
  /\ EndRequest(c)

Next ==
  \/ \E m \in Message : Publish(m)
  \/ \E c \in Consumer :
       \/ Subscribe(c) \/ Get(c) \/ Resume(c) \/ Drop(c) \/ Finish(c)
       \/ \E k \in 1 .. Len(queues[GroupOf[c]]) : Consume(c, k)
       \/ \E m \in Message : Request(c, m)
       \/ Receive(c) \/ GiveUp(c)

Spec == Init /\ [][Next]_vars

\* The event loop runs what is scheduled, and wait_for() has a timeout.
Fairness ==
  \A c \in Consumer : WF_vars(sub[c] = "dropped" /\ Finish(c)) /\ WF_vars(GiveUp(c))

FairSpec == Spec /\ Fairness

-----------------------------------------------------------------------------
(* Properties *)

TypeOK ==
  /\ log \in Seq(Message) /\ Len(log) <= MaxLog
  /\ queues \in [Group -> Seq(1 .. MaxLog)]
  /\ exists \subseteq Group
  /\ refs \in [Group -> Nat]
  /\ sub \in [Consumer -> SubState]
  /\ got \in [Consumer -> 0 .. MaxLog]
  /\ waiters \subseteq 1 .. MaxLog
  /\ asked \in [Consumer -> 0 .. MaxLog]
  /\ answer \in [Consumer -> {"none", "pending", "done"}]

(* A group's reference count is the number of its subscribe() loops that    *)
(* have not run their finally block, and the group has a queue exactly when *)
(* that is not 0: one replica leaving never takes the queue from the others *)
(* and the last one never leaves a queue that fills up with no reader.      *)
RefsCountMembers ==
  \A g \in Group :
    /\ refs[g] = Cardinality(Members(g))
    /\ g \in exists <=> refs[g] > 0

\* q is the last Len(q) positions of a log of n messages.
IsTail(q, n) ==
  /\ Len(q) <= n
  /\ \A i \in 1 .. Len(q) : q[i] = n - Len(q) + i

(* What a group's queue holds is the tail of the log, without a gap, a      *)
(* repetition or a change of order: nothing published while the group has a *)
(* member is missing from what its members still have to take.              *)
QueueIsLogTail ==
  \A g \in Group :
    IF g \in exists THEN IsTail(queues[g], Len(log)) ELSE queues[g] = << >>

(* The bus keeps the promise of GroupCursor: the members of a group share   *)
(* one cursor into the log, that moves only by taking messages.             *)
Cursor == INSTANCE GroupCursor WITH
            cursor <- [g \in Group |-> Len(log) - Len(queues[g])],
            member <- {c \in Consumer : sub[c] # "none"},
            hand   <- got

SharedCursor == Cursor!Spec

(* No message is in two members' hands (see GroupCursor).                   *)
OneHolder == Cursor!OneHolder

(* What competing consumers rest on, all at once: the counts, the queues    *)
(* and what is in hand agree with each other and with the log.              *)
QueueState == RefsCountMembers /\ QueueIsLogTail /\ OneHolder

Answers(r) == {i \in 1 .. Len(log) : log[i].kind = "response" /\ log[i].replyTo = r}

(* The table of waiters holds exactly the calls still waiting, so it does   *)
(* not grow with calls that timed out; a call waits only while no answer to *)
(* its request has been published, and returns only an answer to its own.   *)
WaitersAreOpenCalls ==
  /\ waiters = {asked[c] : c \in {d \in Consumer : answer[d] = "pending"}}
  /\ \A c \in Consumer :
       /\ answer[c] = "none" <=> asked[c] = 0
       /\ answer[c] = "pending" => Answers(asked[c]) = {}
       /\ answer[c] = "done" => Answers(asked[c]) # {}

(* Nobody hangs: a request ends, and a subscription whose caller left its   *)
(* loop gives its reference back.                                           *)
CallsEnd == \A c \in Consumer :
  /\ asked[c] # 0 ~> asked[c] = 0
  /\ sub[c] = "dropped" ~> sub[c] = "none"

=============================================================================

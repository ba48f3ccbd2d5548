--------------------------- MODULE MemoryBus_proofs ---------------------------
(***************************************************************************)
(* Proofs about MemoryBus, for every set of groups and consumers and every *)
(* bound on the log.                                                       *)
(***************************************************************************)
EXTENDS MemoryBus, SequenceTheorems, FiniteSetTheorems, TLAPS

(* Appending keeps a sequence's elements and adds one at its end.           *)
LEMMA AppendFacts ==
  ASSUME NEW S, NEW s \in Seq(S), NEW e \in S
  PROVE  /\ Append(s, e) \in Seq(S)
         /\ Len(Append(s, e)) = Len(s) + 1
         /\ \A i \in 1 .. Len(s) : Append(s, e)[i] = s[i]
         /\ Append(s, e)[Len(s) + 1] = e
BY AppendProperties

(* What is left of a queue behind its k-th element.                         *)
LEMMA RestFacts ==
  ASSUME NEW S, NEW s \in Seq(S), NEW k \in 1 .. Len(s)
  PROVE  /\ SubSeq(s, k + 1, Len(s)) \in Seq(S)
         /\ Len(SubSeq(s, k + 1, Len(s))) = Len(s) - k
         /\ \A i \in 1 .. (Len(s) - k) : SubSeq(s, k + 1, Len(s))[i] = s[k + i]
<1>1. \A i \in (k + 1) .. Len(s) : s[i] \in S
  BY ElementOfSeq, LenProperties
<1>2. k + 1 \in Int /\ Len(s) \in Int
  BY LenProperties
<1>3. /\ SubSeq(s, k + 1, Len(s)) \in Seq(S)
      /\ Len(SubSeq(s, k + 1, Len(s))) =
           IF k + 1 <= Len(s) THEN Len(s) - (k + 1) + 1 ELSE 0
      /\ \A i \in 1 .. (Len(s) - (k + 1) + 1) :
           SubSeq(s, k + 1, Len(s))[i] = s[(k + 1) + i - 1]
  BY <1>1, <1>2, SubSeqProperties
<1> QED
  BY <1>2, <1>3

-----------------------------------------------------------------------------
(* Type correctness *)

LEMMA TypeInit == Init => TypeOK
BY BusAssumption DEF Init, TypeOK, SubState

LEMMA TypeDeliver ==
  ASSUME TypeOK, NEW m \in Message, Deliver(m)
  PROVE  /\ log' \in Seq(Message) /\ Len(log') <= MaxLog
         /\ queues' \in [Group -> Seq(1 .. MaxLog)]
         /\ Len(log) + 1 \in 1 .. MaxLog
         /\ Len(log') = Len(log) + 1
         /\ \A i \in 1 .. Len(log) : log'[i] = log[i]
         /\ log'[Len(log) + 1] = m
<1>1. Len(log) \in Nat /\ Len(log) + 1 \in 1 .. MaxLog
  BY BusAssumption DEF TypeOK, Deliver
<1>2. \A g \in Group : Append(queues[g], Len(log) + 1) \in Seq(1 .. MaxLog)
  BY <1>1, AppendFacts DEF TypeOK
<1>3. queues' \in [Group -> Seq(1 .. MaxLog)]
  BY <1>2 DEF TypeOK, Deliver
<1> QED
  BY <1>1, <1>3, AppendFacts DEF TypeOK, Deliver

LEMMA TypeStep == TypeOK /\ [Next]_vars => TypeOK'
<1> SUFFICES ASSUME TypeOK, [Next]_vars PROVE TypeOK'
  OBVIOUS
<1> USE BusAssumption
<1>1. ASSUME NEW m \in Message, Publish(m) PROVE TypeOK'
  <2>1. Deliver(m) /\ FanoutLocal(m)
    BY <1>1 DEF Publish
  <2>2. /\ waiters' \subseteq 1 .. MaxLog
        /\ asked' \in [Consumer -> 0 .. MaxLog]
        /\ answer' \in [Consumer -> {"none", "pending", "done"}]
    BY <2>1 DEF FanoutLocal, TypeOK, askVars
  <2> QED
    BY <2>1, <2>2, TypeDeliver DEF Deliver, TypeOK
<1>2. ASSUME NEW c \in Consumer, Subscribe(c) PROVE TypeOK'
  BY <1>2 DEF Subscribe, TypeOK, SubState, askVars
<1>3. ASSUME NEW c \in Consumer, NEW k \in 1 .. Len(queues[GroupOf[c]]), TakeWanted(c, k)
      PROVE  /\ queues' \in [Group -> Seq(1 .. MaxLog)]
             /\ queues[GroupOf[c]][k] \in 0 .. MaxLog
  <2>1. GroupOf[c] \in Group /\ queues[GroupOf[c]] \in Seq(1 .. MaxLog)
    BY DEF TypeOK
  <2>2. SubSeq(queues[GroupOf[c]], k + 1, Len(queues[GroupOf[c]])) \in Seq(1 .. MaxLog)
    BY <2>1, RestFacts
  <2>3. queues[GroupOf[c]][k] \in 1 .. MaxLog
    BY <2>1, ElementOfSeq
  <2> QED
    BY <1>3, <2>1, <2>2, <2>3 DEF TakeWanted, TypeOK
<1>4. ASSUME NEW c \in Consumer, Get(c) PROVE TypeOK'
  BY <1>3, <1>4 DEF Get, TypeOK, SubState, askVars
<1>5. ASSUME NEW c \in Consumer, NEW k \in 1 .. Len(queues[GroupOf[c]]), Consume(c, k)
      PROVE  TypeOK'
  BY <1>3, <1>5 DEF Consume, TypeOK, askVars
<1>6. ASSUME NEW c \in Consumer, Resume(c) \/ Drop(c) PROVE TypeOK'
  BY <1>6 DEF Resume, Drop, TypeOK, SubState, askVars
<1>7. ASSUME NEW c \in Consumer, Finish(c) PROVE TypeOK'
  <2>1. GroupOf[c] \in Group /\ << >> \in Seq(1 .. MaxLog)
    OBVIOUS
  <2> QED
    BY <1>7, <2>1 DEF Finish, Unref, TypeOK, SubState, askVars
<1>8. ASSUME NEW c \in Consumer, NEW m \in Message, Request(c, m) PROVE TypeOK'
  <2>1. Deliver(m)
    BY <1>8 DEF Request
  <2>2. Len(log) + 1 \in 1 .. MaxLog
    BY <2>1, TypeDeliver
  <2>3. waiters' \subseteq 1 .. MaxLog
    BY <1>8, <2>2 DEF Request, TypeOK
  <2>4. asked' \in [Consumer -> 0 .. MaxLog]
    BY <1>8, <2>2 DEF Request, TypeOK
  <2>5. answer' \in [Consumer -> {"none", "pending", "done"}]
    BY <1>8 DEF Request, TypeOK
  <2> QED
    BY <2>1, <2>3, <2>4, <2>5, TypeDeliver DEF Deliver, TypeOK
<1>9. ASSUME NEW c \in Consumer, Receive(c) \/ GiveUp(c) PROVE TypeOK'
  <2>1. EndRequest(c)
    BY <1>9 DEF Receive, GiveUp
  <2>2. waiters' \subseteq 1 .. MaxLog
    BY <2>1 DEF EndRequest, TypeOK
  <2>3. asked' \in [Consumer -> 0 .. MaxLog]
    BY <2>1 DEF EndRequest, TypeOK
  <2>4. answer' \in [Consumer -> {"none", "pending", "done"}]
    BY <2>1 DEF EndRequest, TypeOK
  <2> QED
    BY <2>1, <2>2, <2>3, <2>4 DEF EndRequest, TypeOK, subVars
<1>10. CASE UNCHANGED vars
  BY <1>10 DEF vars, TypeOK
<1> QED
  BY <1>1, <1>2, <1>4, <1>5, <1>6, <1>7, <1>8, <1>9, <1>10 DEF Next

(* Every reachable state of the bus is well typed.                          *)
THEOREM TypeCorrect == Spec => []TypeOK
<1> QED
  BY TypeInit, TypeStep, PTL DEF Spec

-----------------------------------------------------------------------------
(* Reference counts *)

LEMMA MembersFinite ==
  ASSUME NEW g \in Group
  PROVE  IsFiniteSet(Members(g)) /\ Cardinality(Members(g)) \in Nat
BY BusAssumption, FS_Subset, FS_CardinalityType DEF Members

LEMMA RefsInit == Init => RefsCountMembers
<1> SUFFICES ASSUME Init, NEW g \in Group
             PROVE  /\ refs[g] = Cardinality(Members(g))
                    /\ g \in exists <=> refs[g] > 0
  BY DEF RefsCountMembers
<1>1. Members(g) = {}
  BY DEF Init, Members
<1> QED
  BY <1>1, FS_EmptySet DEF Init

\* A step that creates and ends no generator leaves the counts right.
LEMMA RefsFrame ==
  ASSUME RefsCountMembers,
         UNCHANGED << refs, exists >>,
         \A c \in Consumer : sub'[c] = "none" <=> sub[c] = "none"
  PROVE  RefsCountMembers'
<1>1. \A g \in Group : Members(g)' = Members(g)
  BY DEF Members
<1> QED
  BY <1>1 DEF RefsCountMembers

LEMMA RefsStep == TypeOK /\ RefsCountMembers /\ [Next]_vars => RefsCountMembers'
<1> SUFFICES ASSUME TypeOK, RefsCountMembers, [Next]_vars PROVE RefsCountMembers'
  OBVIOUS
<1>1. ASSUME NEW m \in Message, Publish(m) PROVE RefsCountMembers'
  BY <1>1, RefsFrame DEF Publish, Deliver
<1>2. ASSUME NEW c \in Consumer, Subscribe(c) PROVE RefsCountMembers'
  <2> SUFFICES ASSUME NEW g \in Group
               PROVE  /\ refs'[g] = Cardinality(Members(g)')
                      /\ g \in exists' <=> refs'[g] > 0
    BY DEF RefsCountMembers
  <2>1. CASE g = GroupOf[c]
    <3>1. Members(g)' = Members(g) \cup {c} /\ c \notin Members(g)
      BY <1>2, <2>1 DEF Subscribe, Members, TypeOK
    <3>2. Cardinality(Members(g)') = Cardinality(Members(g)) + 1
      BY <3>1, MembersFinite, FS_AddElement
    <3> QED
      BY <1>2, <2>1, <3>2, MembersFinite DEF Subscribe, RefsCountMembers, TypeOK
  <2>2. CASE g # GroupOf[c]
    <3>1. Members(g)' = Members(g)
      BY <1>2, <2>2 DEF Subscribe, Members, TypeOK
    <3> QED
      BY <1>2, <2>2, <3>1 DEF Subscribe, RefsCountMembers, TypeOK
  <2> QED
    BY <2>1, <2>2
<1>3. ASSUME NEW c \in Consumer, Get(c) PROVE RefsCountMembers'
  BY <1>3, RefsFrame DEF Get, TakeWanted, TypeOK
<1>4. ASSUME NEW c \in Consumer, NEW k \in 1 .. Len(queues[GroupOf[c]]), Consume(c, k)
      PROVE  RefsCountMembers'
  BY <1>4, RefsFrame DEF Consume
<1>5. ASSUME NEW c \in Consumer, Resume(c) \/ Drop(c) PROVE RefsCountMembers'
  BY <1>5, RefsFrame DEF Resume, Drop, TypeOK
<1>6. ASSUME NEW c \in Consumer, Finish(c) PROVE RefsCountMembers'
  <2> SUFFICES ASSUME NEW g \in Group
               PROVE  /\ refs'[g] = Cardinality(Members(g)')
                      /\ g \in exists' <=> refs'[g] > 0
    BY DEF RefsCountMembers
  <2>1. CASE g = GroupOf[c]
    <3>1. Members(g)' = Members(g) \ {c} /\ c \in Members(g)
      BY <1>6, <2>1 DEF Finish, Members, TypeOK
    <3>2. Cardinality(Members(g)') = Cardinality(Members(g)) - 1
      BY <3>1, MembersFinite, FS_RemoveElement
    <3>3. refs[g] > 0
      <4>1. Cardinality(Members(g)) # 0
        BY <3>1, MembersFinite, FS_EmptySet
      <4> QED
        BY <4>1, MembersFinite DEF RefsCountMembers
    <3>4. refs'[g] = refs[g] - 1
      BY <1>6, <2>1, <3>3 DEF Finish, Unref, TypeOK
    <3>5. g \in exists' <=> refs'[g] > 0
      BY <1>6, <2>1, <3>3, <3>4 DEF Finish, Unref, TypeOK, RefsCountMembers
    <3> QED
      BY <3>2, <3>4, <3>5 DEF RefsCountMembers
  <2>2. CASE g # GroupOf[c]
    <3>1. Members(g)' = Members(g)
      BY <1>6, <2>2 DEF Finish, Members, TypeOK
    <3>2. refs'[g] = refs[g] /\ (g \in exists' <=> g \in exists)
      BY <1>6, <2>2 DEF Finish, Unref, TypeOK
    <3> QED
      BY <3>1, <3>2 DEF RefsCountMembers
  <2> QED
    BY <2>1, <2>2
<1>7. ASSUME NEW c \in Consumer, NEW m \in Message, Request(c, m) PROVE RefsCountMembers'
  BY <1>7, RefsFrame DEF Request, Deliver
<1>8. ASSUME NEW c \in Consumer, Receive(c) \/ GiveUp(c) PROVE RefsCountMembers'
  BY <1>8, RefsFrame DEF Receive, GiveUp, EndRequest, subVars
<1>9. CASE UNCHANGED vars
  BY <1>9, RefsFrame DEF vars
<1> QED
  BY <1>1, <1>2, <1>3, <1>4, <1>5, <1>6, <1>7, <1>8, <1>9 DEF Next

(* bus.py:142: the count of a group is the number of its live loops, and    *)
(* its queue exists exactly while that is positive, so a replica that stops *)
(* never takes the queue away from its siblings.                            *)
THEOREM RefsCount == Spec => []RefsCountMembers
<1> QED
  BY TypeCorrect, RefsInit, RefsStep, PTL DEF Spec

-----------------------------------------------------------------------------
(* The queues are tails of the log *)

LEMMA IsTailEmpty == ASSUME NEW n \in Nat PROVE IsTail(<< >>, n)
BY EmptySeq DEF IsTail

LEMMA IsTailAppend ==
  ASSUME NEW S, NEW q \in Seq(S), NEW n \in Nat, n + 1 \in S, IsTail(q, n)
  PROVE  IsTail(Append(q, n + 1), n + 1)
<1> DEFINE r == Append(q, n + 1)
<1>1. Len(q) \in Nat
  BY LenProperties
<1>2. Len(r) = Len(q) + 1 /\ r[Len(q) + 1] = n + 1 /\ \A i \in 1 .. Len(q) : r[i] = q[i]
  BY AppendFacts
<1>3. PICK l \in Nat : l = Len(q)
  BY <1>1
<1>4. l <= n /\ \A i \in 1 .. l : q[i] = n - l + i
  BY <1>3 DEF IsTail
<1> HIDE DEF r
<1>5. ASSUME NEW i \in 1 .. (l + 1) PROVE r[i] = (n + 1) - (l + 1) + i
  <2>1. CASE i \in 1 .. l
    <3>1. r[i] = q[i] /\ q[i] = n - l + i
      BY <1>2, <1>3, <1>4, <2>1
    <3> QED
      BY <3>1, <2>1
  <2>2. CASE i = l + 1
    BY <1>2, <1>3, <2>2
  <2> QED
    BY <2>1, <2>2
<1>6. Len(r) = l + 1
  BY <1>2, <1>3
<1>7. IsTail(r, n + 1)
  BY <1>4, <1>5, <1>6 DEF IsTail
<1> QED
  BY <1>7 DEF r

LEMMA IsTailRest ==
  ASSUME NEW S, NEW q \in Seq(S), NEW n \in Nat, NEW k \in 1 .. Len(q), IsTail(q, n)
  PROVE  IsTail(SubSeq(q, k + 1, Len(q)), n)
<1> DEFINE r == SubSeq(q, k + 1, Len(q))
<1>1. PICK l \in Nat : l = Len(q)
  BY LenProperties
<1>2. Len(r) = l - k /\ \A i \in 1 .. (l - k) : r[i] = q[k + i]
  BY <1>1, RestFacts
<1>3. k \in 1 .. l /\ l <= n /\ \A i \in 1 .. l : q[i] = n - l + i
  BY <1>1 DEF IsTail
<1> HIDE DEF r
<1>4. ASSUME NEW i \in 1 .. (l - k) PROVE r[i] = n - (l - k) + i
  <2>1. k + i \in 1 .. l
    BY <1>3
  <2>2. r[i] = q[k + i] /\ q[k + i] = n - l + (k + i)
    BY <1>2, <1>3, <2>1
  <2> QED
    BY <2>2, <1>3
<1>5. l - k <= n /\ l - k \in Nat
  BY <1>3
<1>6. IsTail(r, n)
  BY <1>2, <1>4, <1>5 DEF IsTail
<1> QED
  BY <1>6 DEF r

LEMMA TailInit == Init => QueueIsLogTail
BY DEF Init, QueueIsLogTail

LEMMA TailDeliver ==
  ASSUME TypeOK, QueueIsLogTail, NEW m \in Message, Deliver(m)
  PROVE  QueueIsLogTail'
<1> SUFFICES ASSUME NEW g \in Group
             PROVE  IF g \in exists' THEN IsTail(queues'[g], Len(log')) ELSE queues'[g] = << >>
  BY DEF QueueIsLogTail
<1>1. /\ queues[g] \in Seq(1 .. MaxLog) /\ Len(log) \in Nat
      /\ Len(log') = Len(log) + 1 /\ Len(log) + 1 \in 1 .. MaxLog
  BY TypeDeliver DEF TypeOK
<1>2. CASE g \in exists
  BY <1>1, <1>2, IsTailAppend DEF Deliver, QueueIsLogTail
<1>3. CASE g \notin exists
  BY <1>3 DEF Deliver, QueueIsLogTail
<1> QED
  BY <1>2, <1>3

LEMMA TailTake ==
  ASSUME TypeOK, QueueIsLogTail, NEW c \in Consumer,
         NEW k \in 1 .. Len(queues[GroupOf[c]]), TakeWanted(c, k),
         UNCHANGED << log, exists >>
  PROVE  QueueIsLogTail'
<1> DEFINE h == GroupOf[c]
<1>1. h \in Group /\ queues[h] \in Seq(1 .. MaxLog) /\ Len(log) \in Nat
  BY BusAssumption DEF TypeOK
<1>2. queues' = [queues EXCEPT ![h] = SubSeq(queues[h], k + 1, Len(queues[h]))]
  BY DEF TakeWanted
<1> SUFFICES ASSUME NEW g \in Group
             PROVE  IF g \in exists THEN IsTail(queues'[g], Len(log)) ELSE queues'[g] = << >>
  BY DEF QueueIsLogTail
<1>3. CASE g = h
  <2>1. queues'[g] = SubSeq(queues[h], k + 1, Len(queues[h]))
    BY <1>1, <1>2, <1>3 DEF TypeOK
  <2>2. h \in exists /\ IsTail(queues[h], Len(log))
    BY <1>1, EmptySeq DEF QueueIsLogTail
  <2> QED
    BY <1>1, <1>3, <2>1, <2>2, IsTailRest
<1>4. CASE g # h
  BY <1>1, <1>2, <1>4 DEF TypeOK, QueueIsLogTail
<1> QED
  BY <1>3, <1>4

LEMMA TailStep == TypeOK /\ QueueIsLogTail /\ [Next]_vars => QueueIsLogTail'
<1> SUFFICES ASSUME TypeOK, QueueIsLogTail, [Next]_vars PROVE QueueIsLogTail'
  OBVIOUS
<1>1. ASSUME NEW m \in Message, Publish(m) PROVE QueueIsLogTail'
  BY <1>1, TailDeliver DEF Publish
<1>2. ASSUME NEW c \in Consumer, Subscribe(c) PROVE QueueIsLogTail'
  <2>1. Len(log) \in Nat
    BY DEF TypeOK
  <2> QED
    BY <1>2, <2>1, IsTailEmpty DEF Subscribe, QueueIsLogTail
<1>3. ASSUME NEW c \in Consumer, Get(c) PROVE QueueIsLogTail'
  BY <1>3, TailTake DEF Get
<1>4. ASSUME NEW c \in Consumer, NEW k \in 1 .. Len(queues[GroupOf[c]]), Consume(c, k)
      PROVE  QueueIsLogTail'
  BY <1>4, TailTake DEF Consume
<1>5. ASSUME NEW c \in Consumer, Resume(c) \/ Drop(c) PROVE QueueIsLogTail'
  BY <1>5 DEF Resume, Drop, QueueIsLogTail
<1>6. ASSUME NEW c \in Consumer, Finish(c) PROVE QueueIsLogTail'
  <2> SUFFICES ASSUME NEW g \in Group
               PROVE  IF g \in exists' THEN IsTail(queues'[g], Len(log)) ELSE queues'[g] = << >>
    BY <1>6 DEF QueueIsLogTail, Finish
  <2>1. Unref(GroupOf[c])
    BY <1>6 DEF Finish
  <2>2. \/ queues'[g] = queues[g] /\ (g \in exists' <=> g \in exists)
        \/ queues'[g] = << >> /\ g \notin exists'
    BY <2>1 DEF Unref, TypeOK
  <2> QED
    BY <2>2 DEF QueueIsLogTail
<1>7. ASSUME NEW c \in Consumer, NEW m \in Message, Request(c, m) PROVE QueueIsLogTail'
  BY <1>7, TailDeliver DEF Request
<1>8. ASSUME NEW c \in Consumer, Receive(c) \/ GiveUp(c) PROVE QueueIsLogTail'
  BY <1>8 DEF Receive, GiveUp, EndRequest, subVars, QueueIsLogTail
<1>9. CASE UNCHANGED vars
  BY <1>9 DEF vars, QueueIsLogTail
<1> QED
  BY <1>1, <1>2, <1>3, <1>4, <1>5, <1>6, <1>7, <1>8, <1>9 DEF Next

(* While a group has a member its queue is the tail of the log: nothing     *)
(* published meanwhile is missing from it, repeated in it or out of order.  *)
THEOREM QueueTail == Spec => []QueueIsLogTail
<1> QED
  BY TypeCorrect, TailInit, TailStep, PTL DEF Spec

-----------------------------------------------------------------------------
(* The bus implements GroupCursor *)

\* A message is in hand only while the generator that yielded it is open.
HandsAreYielded == \A c \in Consumer : got[c] # 0 => sub[c] = "yielded"

IInv == TypeOK /\ RefsCountMembers /\ QueueIsLogTail /\ HandsAreYielded

LEMMA HandsStep == TypeOK /\ HandsAreYielded /\ [Next]_vars => HandsAreYielded'
<1> SUFFICES ASSUME TypeOK, HandsAreYielded, [Next]_vars PROVE HandsAreYielded'
  OBVIOUS
<1> USE DEF HandsAreYielded
<1>1. ASSUME NEW m \in Message, Publish(m) PROVE HandsAreYielded'
  BY <1>1 DEF Publish, Deliver
<1>2. ASSUME NEW c \in Consumer, Subscribe(c) \/ Get(c) \/ Resume(c) \/ Drop(c) \/ Finish(c)
      PROVE  HandsAreYielded'
  BY <1>2 DEF Subscribe, Get, TakeWanted, Resume, Drop, Finish, TypeOK
<1>3. ASSUME NEW c \in Consumer, NEW k \in 1 .. Len(queues[GroupOf[c]]), Consume(c, k)
      PROVE  HandsAreYielded'
  BY <1>3 DEF Consume
<1>4. ASSUME NEW c \in Consumer, NEW m \in Message, Request(c, m) PROVE HandsAreYielded'
  BY <1>4 DEF Request, Deliver
<1>5. ASSUME NEW c \in Consumer, Receive(c) \/ GiveUp(c) PROVE HandsAreYielded'
  BY <1>5 DEF Receive, GiveUp, EndRequest, subVars
<1>6. CASE UNCHANGED vars
  BY <1>6 DEF vars
<1> QED
  BY <1>1, <1>2, <1>3, <1>4, <1>5, <1>6 DEF Next

LEMMA InductiveInit == Init => IInv
BY TypeInit, RefsInit, TailInit DEF IInv, HandsAreYielded, Init

LEMMA InductiveStep == IInv /\ [Next]_vars => IInv'
BY TypeStep, RefsStep, TailStep, HandsStep DEF IInv

\* A group has a queue exactly while somebody is attached to it.
LEMMA ExistsAttached ==
  ASSUME IInv, NEW g \in Group
  PROVE  g \in exists <=> Cursor!Attached(g)
<1>1. Cursor!Attached(g) <=> Members(g) # {}
  BY DEF Cursor!Attached, Members
<1>2. Members(g) # {} <=> Cardinality(Members(g)) > 0
  <2>1. IsFiniteSet(Members(g)) /\ Cardinality(Members(g)) \in Nat
    BY MembersFinite
  <2>2. Cardinality(Members(g)) = 0 <=> Members(g) = {}
    BY <2>1, FS_EmptySet
  <2> QED
    BY <2>1, <2>2
<1> QED
  BY <1>1, <1>2 DEF IInv, RefsCountMembers

LEMMA RefineInit == Init => Cursor!Init
<1> SUFFICES ASSUME Init PROVE Cursor!Init
  OBVIOUS
<1>1. Len(log) = 0 /\ \A g \in Group : Len(queues[g]) = 0
  BY EmptySeq DEF Init
<1>2. [g \in Group |-> Len(log) - Len(queues[g])] = [g \in Group |-> 0]
  BY <1>1
<1> QED
  BY <1>2 DEF Init, Cursor!Init

LEMMA RefineDeliver ==
  ASSUME IInv, NEW m \in Message, Deliver(m)
  PROVE  Cursor!Append_(m)
<1>1. /\ log' = Append(log, m) /\ UNCHANGED << sub, got >>
      /\ Len(log') = Len(log) + 1 /\ Len(log) \in Nat
  BY TypeDeliver DEF Deliver, IInv, TypeOK
<1>2. ASSUME NEW g \in Group
      PROVE  Len(log') - Len(queues'[g]) =
               IF Cursor!Attached(g) THEN Len(log) - Len(queues[g]) ELSE Len(log) + 1
  <2>1. queues[g] \in Seq(1 .. MaxLog) /\ Len(log) + 1 \in 1 .. MaxLog
    BY TypeDeliver DEF IInv, TypeOK
  <2>2. CASE g \in exists
    <3>1. queues'[g] = Append(queues[g], Len(log) + 1)
      BY <2>2 DEF Deliver
    <3>2. Len(queues'[g]) = Len(queues[g]) + 1
      BY <2>1, <3>1, AppendFacts
    <3>3. Len(queues[g]) \in Nat
      BY <2>1, LenProperties
    <3>4. Len(log') - Len(queues'[g]) = Len(log) - Len(queues[g])
      BY <1>1, <3>2, <3>3
    <3>5. Cursor!Attached(g)
      BY <2>2, ExistsAttached
    <3> QED
      BY <3>4, <3>5
  <2>3. CASE g \notin exists
    <3>1. queues'[g] = << >>
      BY <2>3 DEF Deliver, IInv, QueueIsLogTail
    <3>2. Len(queues'[g]) = 0
      BY <3>1
    <3> QED
      BY <1>1, <2>3, <3>2, ExistsAttached
  <2> QED
    BY <2>2, <2>3
<1>3. [g \in Group |-> Len(log) - Len(queues[g])]' =
        [g \in Group |-> IF Cursor!Attached(g)
                         THEN [h \in Group |-> Len(log) - Len(queues[h])][g]
                         ELSE Len(log) + 1]
  BY <1>2
<1> QED
  BY <1>1, <1>3 DEF Cursor!Append_

\* A member that takes the k-th message of its queue takes the first wanted
\* one behind the cursor, and leaves the cursor on it.
LEMMA RefineTake ==
  ASSUME IInv, NEW c \in Consumer, NEW k \in 1 .. Len(queues[GroupOf[c]]),
         TakeWanted(c, k), UNCHANGED << log, exists, refs >>,
         {d \in Consumer : sub'[d] # "none"} = {d \in Consumer : sub[d] # "none"},
         \/ got' = got
         \/ got' = [got EXCEPT ![c] = queues[GroupOf[c]][k]]
  PROVE  Cursor!Take(c)
<1> DEFINE g == GroupOf[c]
           q == queues[g]
           cur == [h \in Group |-> Len(log) - Len(queues[h])]
<1>1. g \in Group /\ q \in Seq(1 .. MaxLog) /\ Len(log) \in Nat
  BY BusAssumption DEF IInv, TypeOK
<1>0. PICK n \in Nat : n = Len(log)
  BY <1>1
<1>2. PICK l \in Nat : l = Len(q)
  BY <1>1, LenProperties
<1>3. k \in 1 .. l /\ l <= n /\ \A i \in 1 .. l : q[i] = n - l + i
  <2>1. g \in exists
    BY <1>1, EmptySeq DEF IInv, QueueIsLogTail
  <2> QED
    BY <1>0, <1>1, <1>2, <2>1 DEF IInv, QueueIsLogTail, IsTail
<1>4. cur[g] = n - l
  BY <1>0, <1>1, <1>2
<1>5. sub[c] = "waiting" /\ Wants(g, log[q[k]]) /\ \A j \in 1 .. (k - 1) : ~ Wants(g, log[q[j]])
  BY DEF TakeWanted
<1>6. cur' = [cur EXCEPT ![g] = n - l + k]
  <2>1. queues' = [queues EXCEPT ![g] = SubSeq(q, k + 1, Len(q))]
    BY DEF TakeWanted
  <2>2. Len(queues'[g]) = l - k
    BY <1>1, <1>2, <2>1, RestFacts DEF IInv, TypeOK
  <2>3. n - (l - k) = n - l + k
    BY <1>3
  <2>4. \A h \in Group : h # g => queues'[h] = queues[h]
    BY <2>1 DEF IInv, TypeOK
  <2>5. \A h \in Group : cur'[h] = IF h = g THEN n - l + k ELSE cur[h]
    BY <1>0, <2>2, <2>3, <2>4
  <2> QED
    BY <1>1, <2>5
<1>7. n - l + k \in (n - l + 1) .. n /\ q[k] = n - l + k
  BY <1>3
<1>8. \A j \in (n - l + 1) .. (n - l + k - 1) : ~ Wants(g, log[j])
  <2> SUFFICES ASSUME NEW j \in (n - l + 1) .. (n - l + k - 1) PROVE ~ Wants(g, log[j])
    OBVIOUS
  <2>1. PICK i \in 1 .. l : i \in 1 .. (k - 1) /\ j = n - l + i
    <3>1. j - (n - l) \in 1 .. (k - 1) /\ j - (n - l) \in 1 .. l
      BY <1>3
    <3> QED
      BY <3>1
  <2>2. q[i] = j
    BY <1>3, <2>1
  <2> QED
    BY <1>5, <2>1, <2>2
<1>9. got[c] = 0
  BY <1>5 DEF IInv, HandsAreYielded, TypeOK
<1>10. \/ got' = [got EXCEPT ![c] = n - l + k]
       \/ got' = got
  BY <1>7
<1>11. c \in {d \in Consumer : sub[d] # "none"}
  BY <1>5
<1> HIDE DEF q
<1>12. n - l + k \in (cur[g] + 1) .. Len(log)
  BY <1>0, <1>4, <1>7
<1>13. \A j \in (cur[g] + 1) .. (n - l + k - 1) : ~ Wants(g, log[j])
  BY <1>4, <1>8
<1>14. Wants(g, log[n - l + k])
  BY <1>5, <1>7
<1> HIDE DEF cur, g
<1>15. \E p \in (cur[g] + 1) .. Len(log) :
         /\ Wants(g, log[p])
         /\ \A j \in (cur[g] + 1) .. (p - 1) : ~ Wants(g, log[j])
         /\ cur' = [cur EXCEPT ![g] = p]
         /\ got' = [got EXCEPT ![c] = p] \/ got' = got
  <2> DEFINE p == n - l + k
  <2>1. /\ p \in (cur[g] + 1) .. Len(log) /\ Wants(g, log[p])
        /\ \A j \in (cur[g] + 1) .. (p - 1) : ~ Wants(g, log[j])
        /\ cur' = [cur EXCEPT ![g] = p]
        /\ got' = [got EXCEPT ![c] = p] \/ got' = got
    BY <1>6, <1>10, <1>12, <1>13, <1>14
  <2> HIDE DEF p
  <2> QED
    BY <2>1
<1> QED
  BY <1>9, <1>11, <1>15 DEF Cursor!Take, cur, g

LEMMA RefineLeave ==
  ASSUME IInv, NEW c \in Consumer, Finish(c)
  PROVE  Cursor!Leave(c)
<1> DEFINE g == GroupOf[c]
           cur == [h \in Group |-> Len(log) - Len(queues[h])]
           mem == {d \in Consumer : sub[d] # "none"}
<1>1. g \in Group /\ c \in mem /\ mem' = mem \ {c}
  BY BusAssumption DEF Finish, IInv, TypeOK
<1>2. got[c] = 0 /\ UNCHANGED << log, got >>
  BY DEF Finish, IInv, HandsAreYielded, TypeOK
<1>3. Unref(g)
  BY DEF Finish
<1>4. IInv'
  <2>1. Next
    BY DEF Next
  <2> QED
    BY <2>1, InductiveStep
<1>5. g \in exists' <=> \E d \in mem \ {c} : GroupOf[d] = g
  <2>1. Members(g)' = {d \in mem \ {c} : GroupOf[d] = g}
    BY <1>1 DEF Members
  <2>2. refs'[g] > 0 <=> Members(g)' # {}
    <3>1. IsFiniteSet(Members(g)') /\ Cardinality(Members(g)') \in Nat
      BY BusAssumption, <2>1, FS_Subset, FS_CardinalityType
    <3>2. Cardinality(Members(g)') = 0 <=> Members(g)' = {}
      BY <3>1, FS_EmptySet
    <3>3. refs'[g] = Cardinality(Members(g)')
      BY <1>1, <1>4 DEF IInv, RefsCountMembers
    <3> QED
      BY <3>1, <3>2, <3>3
  <2>3. g \in exists' <=> refs'[g] > 0
    BY <1>1, <1>4 DEF IInv, RefsCountMembers
  <2> QED
    BY <2>1, <2>2, <2>3
<1>6. \A h \in Group : h # g => queues'[h] = queues[h]
  BY <1>3 DEF Unref, IInv, TypeOK
<1>7. CASE g \in exists'
  <2>1. queues'[g] = queues[g]
    BY <1>1, <1>3, <1>7 DEF Unref, IInv, TypeOK
  <2>2. cur' = [cur EXCEPT ![g] = cur[g]]
    BY <1>1, <1>2, <1>6, <2>1
  <2> QED
    BY <1>1, <1>2, <1>5, <1>7, <2>2 DEF Cursor!Leave
<1>8. CASE g \notin exists'
  <2>3. queues'[g] = << >>
    BY <1>1, <1>4, <1>8 DEF IInv, QueueIsLogTail
  <2>1. Len(queues'[g]) = 0 /\ Len(log) \in Nat
    BY <2>3 DEF IInv, TypeOK
  <2>4. Len(log') - Len(queues'[g]) = Len(log)
    BY <1>2, <2>1
  <2>2. cur' = [cur EXCEPT ![g] = Len(log)]
    BY <1>1, <1>2, <1>6, <2>4
  <2> QED
    BY <1>1, <1>2, <1>5, <1>8, <2>2 DEF Cursor!Leave
<1> QED
  BY <1>7, <1>8

LEMMA RefineStep == IInv /\ [Next]_vars => [Cursor!Next]_(Cursor!vars)
<1> SUFFICES ASSUME IInv, [Next]_vars PROVE [Cursor!Next]_(Cursor!vars)
  OBVIOUS
<1>1. ASSUME NEW m \in Message, Publish(m) PROVE Cursor!Next
  BY <1>1, RefineDeliver DEF Publish, Cursor!Next
<1>2. ASSUME NEW c \in Consumer, Subscribe(c) PROVE Cursor!Next
  <2>1. Cursor!Join(c)
    BY <1>2 DEF Subscribe, Cursor!Join, IInv, TypeOK
  <2> QED
    BY <2>1 DEF Cursor!Next
<1>3. ASSUME NEW c \in Consumer, Get(c) PROVE Cursor!Next
  <2>1. PICK k \in 1 .. Len(queues[GroupOf[c]]) :
          /\ TakeWanted(c, k)
          /\ sub' = [sub EXCEPT ![c] = "yielded"]
          /\ got' = [got EXCEPT ![c] = queues[GroupOf[c]][k]]
          /\ UNCHANGED << log, exists, refs >>
    BY <1>3 DEF Get
  <2>2. {d \in Consumer : sub'[d] # "none"} = {d \in Consumer : sub[d] # "none"}
    BY <2>1 DEF TakeWanted, IInv, TypeOK
  <2>3. Cursor!Take(c)
    BY <2>1, <2>2, RefineTake
  <2> QED
    BY <2>3 DEF Cursor!Next
<1>4. ASSUME NEW c \in Consumer, NEW k \in 1 .. Len(queues[GroupOf[c]]), Consume(c, k)
      PROVE  Cursor!Next
  <2>1. Cursor!Take(c)
    BY <1>4, RefineTake DEF Consume
  <2> QED
    BY <2>1 DEF Cursor!Next
<1>5. ASSUME NEW c \in Consumer, Resume(c) \/ Drop(c) PROVE Cursor!Next
  <2>1. {d \in Consumer : sub'[d] # "none"} = {d \in Consumer : sub[d] # "none"}
    BY <1>5 DEF Resume, Drop, IInv, TypeOK
  <2>2. Cursor!Release(c)
    BY <1>5, <2>1 DEF Resume, Drop, Cursor!Release
  <2> QED
    BY <2>2 DEF Cursor!Next
<1>6. ASSUME NEW c \in Consumer, Finish(c) PROVE Cursor!Next
  BY <1>6, RefineLeave DEF Cursor!Next
<1>7. ASSUME NEW c \in Consumer, NEW m \in Message, Request(c, m) PROVE Cursor!Next
  BY <1>7, RefineDeliver DEF Request, Cursor!Next
<1>8. ASSUME NEW c \in Consumer, Receive(c) \/ GiveUp(c) PROVE UNCHANGED Cursor!vars
  BY <1>8 DEF Receive, GiveUp, EndRequest, subVars, Cursor!vars
<1>9. CASE UNCHANGED vars
  BY <1>9 DEF vars, Cursor!vars
<1> QED
  BY <1>1, <1>2, <1>3, <1>4, <1>5, <1>6, <1>7, <1>8, <1>9 DEF Next

(* MemoryBus implements GroupCursor: the members of a group share one       *)
(* cursor into the log, which only moves by a member taking the first       *)
(* wanted message behind it, or when nobody is attached.                    *)
THEOREM BusImplementsCursor == Spec => SharedCursor
<1>1. IInv /\ [Next]_vars => [Cursor!Next]_(Cursor!vars)
  BY RefineStep
<1> QED
  BY <1>1, RefineInit, InductiveInit, InductiveStep, PTL DEF Spec, SharedCursor, Cursor!Spec

-----------------------------------------------------------------------------
(* Nobody repeats the work of a sibling *)

CursorOf(g) == Len(log) - Len(queues[g])

LEMMA CursorType ==
  ASSUME IInv, NEW g \in Group
  PROVE  /\ CursorOf(g) \in 0 .. Len(log)
         /\ [h \in Group |-> Len(log) - Len(queues[h])][g] = CursorOf(g)
<1>1. Len(log) \in Nat /\ Len(queues[g]) \in Nat
  BY LenProperties DEF IInv, TypeOK
<1>2. CASE g \in exists
  <2>1. Len(queues[g]) <= Len(log)
    BY <1>2 DEF IInv, QueueIsLogTail, IsTail
  <2> QED
    BY <1>1, <2>1 DEF CursorOf
<1>3. CASE g \notin exists
  <2>1. queues[g] = << >>
    BY <1>3 DEF IInv, QueueIsLogTail
  <2>2. Len(queues[g]) = 0
    BY <2>1
  <2> QED
    BY <1>1, <2>2 DEF CursorOf
<1> QED
  BY <1>2, <1>3

\* The k-th message of a queue is the k-th one behind the group's cursor.
LEMMA QueuedAt ==
  ASSUME IInv, NEW g \in Group, NEW k \in 1 .. Len(queues[g])
  PROVE  queues[g][k] = CursorOf(g) + k /\ queues[g][k] \in 1 .. Len(log)
<1>1. PICK n \in Nat : n = Len(log)
  BY DEF IInv, TypeOK
<1>2. PICK l \in Nat : l = Len(queues[g])
  BY LenProperties DEF IInv, TypeOK
<1>3. g \in exists
  BY EmptySeq DEF IInv, QueueIsLogTail
<1>4. k \in 1 .. l /\ l <= n /\ \A i \in 1 .. l : queues[g][i] = n - l + i
  BY <1>1, <1>2, <1>3 DEF IInv, QueueIsLogTail, IsTail
<1>5. CursorOf(g) = n - l
  BY <1>1, <1>2 DEF CursorOf
<1> QED
  BY <1>1, <1>4, <1>5

\* Every step of GroupCursor leaves the cursors where they are or moves them on.
LEMMA CursorStep ==
  ASSUME IInv, IInv', [Cursor!Next]_(Cursor!vars), NEW g \in Group
  PROVE  CursorOf(g)' >= CursorOf(g)
<1> DEFINE cur == [h \in Group |-> Len(log) - Len(queues[h])]
<1>1. \A c \in Consumer : GroupOf[c] \in Group
  BY BusAssumption
<1>2. \A h \in Group : cur[h] = CursorOf(h) /\ cur'[h] = CursorOf(h)' /\ CursorOf(h) \in 0 .. Len(log)
  BY CursorType DEF CursorOf
<1>3. Len(log) \in Nat /\ CursorOf(g) \in 0 .. Len(log)
  BY <1>2 DEF IInv, TypeOK
<1> SUFFICES cur'[g] >= cur[g]
  BY <1>2
<1>4. cur[g] \in 0 .. Len(log)
  BY <1>2, <1>3
<1> HIDE DEF cur
<1>5. ASSUME NEW m \in Message, Cursor!Append_(m) PROVE cur'[g] \in {cur[g], Len(log) + 1}
  BY <1>5 DEF Cursor!Append_, cur
<1>6. ASSUME NEW c \in Consumer, Cursor!Join(c) \/ Cursor!Release(c) PROVE cur' = cur
  BY <1>6 DEF Cursor!Join, Cursor!Release, cur
<1>7. ASSUME NEW c \in Consumer, Cursor!Leave(c) PROVE cur'[g] \in {cur[g], Len(log)}
  BY <1>1, <1>7 DEF Cursor!Leave, cur
<1>8. ASSUME NEW c \in Consumer, Cursor!Take(c)
      PROVE  \E p \in (cur[GroupOf[c]] + 1) .. Len(log) : cur' = [cur EXCEPT ![GroupOf[c]] = p]
  BY <1>8 DEF Cursor!Take, cur
<1>9. ASSUME NEW c \in Consumer, Cursor!Take(c) PROVE cur'[g] >= cur[g]
  <2>1. PICK p \in (cur[GroupOf[c]] + 1) .. Len(log) : cur' = [cur EXCEPT ![GroupOf[c]] = p]
    BY <1>8, <1>9
  <2>2. cur[GroupOf[c]] \in 0 .. Len(log) /\ cur'[g] = IF g = GroupOf[c] THEN p ELSE cur[g]
    BY <1>1, <1>2, <2>1 DEF cur
  <2> QED
    BY <1>3, <1>4, <2>1, <2>2
<1>10. CASE UNCHANGED Cursor!vars
  <2>1. cur' = cur
    BY <1>10 DEF Cursor!vars, cur
  <2> QED
    BY <1>4, <2>1
<1> QED
  BY <1>3, <1>4, <1>5, <1>6, <1>7, <1>9, <1>10 DEF Cursor!Next

\* OneHolder, with the cursor written out.
Holders ==
  \A c \in Consumer : got[c] # 0 =>
    /\ got[c] \in 1 .. CursorOf(GroupOf[c])
    /\ \A d \in Consumer \ {c} : GroupOf[d] = GroupOf[c] => got[d] # got[c]

LEMMA HoldersMeans == IInv => (Holders <=> Cursor!OneHolder)
<1> SUFFICES ASSUME IInv PROVE Holders <=> Cursor!OneHolder
  OBVIOUS
<1>1. \A c \in Consumer : GroupOf[c] \in Group
  BY BusAssumption
<1>2. \A c \in Consumer :
        [h \in Group |-> Len(log) - Len(queues[h])][GroupOf[c]] = CursorOf(GroupOf[c])
  BY <1>1, CursorType
<1> QED
  BY <1>2 DEF Cursor!OneHolder, Holders

\* A cursor that only moves forward keeps the messages in hand behind it.
LEMMA HoldersFrame ==
  ASSUME IInv, TypeOK', Holders,
         \A g \in Group : CursorOf(g)' >= CursorOf(g),
         \A c \in Consumer : got'[c] \in {0, got[c]}
  PROVE  Holders'
<1> SUFFICES ASSUME NEW c \in Consumer, got'[c] # 0
             PROVE  /\ got'[c] \in 1 .. CursorOf(GroupOf[c])'
                    /\ \A d \in Consumer \ {c} : GroupOf[d] = GroupOf[c] => got'[d] # got'[c]
  BY DEF Holders
<1>1. got'[c] = got[c] /\ got[c] # 0
  OBVIOUS
<1>2. /\ got[c] \in 1 .. CursorOf(GroupOf[c])
      /\ \A d \in Consumer \ {c} : GroupOf[d] = GroupOf[c] => got[d] # got[c]
  BY <1>1 DEF Holders
<1>3. GroupOf[c] \in Group
  BY BusAssumption
<1>4. CursorOf(GroupOf[c]) \in Int /\ CursorOf(GroupOf[c])' \in Int
  BY <1>3, LenProperties DEF CursorOf, IInv, TypeOK
<1>5. got'[c] \in 1 .. CursorOf(GroupOf[c])'
  BY <1>1, <1>2, <1>3, <1>4
<1> QED
  BY <1>1, <1>2, <1>5

LEMMA HoldersStep == IInv /\ IInv' /\ Holders /\ [Cursor!Next]_(Cursor!vars) => Holders'
<1> DEFINE cur == [h \in Group |-> Len(log) - Len(queues[h])]
<1> SUFFICES ASSUME IInv, IInv', Holders, [Cursor!Next]_(Cursor!vars) PROVE Holders'
  OBVIOUS
<1>1. TypeOK' /\ \A c \in Consumer : GroupOf[c] \in Group
  BY BusAssumption DEF IInv
<1>2. \A g \in Group : cur[g] = CursorOf(g) /\ cur'[g] = CursorOf(g)' /\ CursorOf(g) \in 0 .. Len(log)
  BY CursorType DEF CursorOf
<1>3. Len(log) \in Nat
  BY DEF IInv, TypeOK
<1>4. \A g \in Group : CursorOf(g)' >= CursorOf(g)
  BY CursorStep
<1> HIDE DEF cur
\* Only Take puts a message in a hand.
<1>5. ASSUME \A c \in Consumer : got'[c] \in {0, got[c]} PROVE Holders'
  BY <1>1, <1>4, <1>5, HoldersFrame
<1>6. ASSUME NEW m \in Message, Cursor!Append_(m) PROVE Holders'
  BY <1>5, <1>6 DEF Cursor!Append_
<1>7. ASSUME NEW c \in Consumer, Cursor!Join(c) \/ Cursor!Release(c) \/ Cursor!Leave(c)
      PROVE  Holders'
  BY <1>5, <1>7 DEF Cursor!Join, Cursor!Release, Cursor!Leave, IInv, TypeOK
<1>8. ASSUME NEW c \in Consumer, Cursor!Take(c) PROVE Holders'
  <2> DEFINE g == GroupOf[c]
  <2>1. PICK p \in (cur[g] + 1) .. Len(log) :
          /\ cur' = [cur EXCEPT ![g] = p]
          /\ got' = [got EXCEPT ![c] = p] \/ got' = got
    BY <1>8 DEF Cursor!Take, cur
  <2>2. g \in Group /\ p \in Int /\ CursorOf(g)' = p /\ p > CursorOf(g)
    BY <1>1, <1>2, <1>3, <2>1 DEF cur
  <2>3. \A h \in Group : h # g => CursorOf(h)' = CursorOf(h)
    BY <1>2, <2>1 DEF cur
  <2>4. \A h \in Group : CursorOf(h)' >= CursorOf(h)
    BY <1>4
  <2>5. CASE got' = got
    BY <1>5, <2>5
  <2>6. CASE got' = [got EXCEPT ![c] = p]
    <3> SUFFICES ASSUME NEW d \in Consumer, got'[d] # 0
                 PROVE  /\ got'[d] \in 1 .. CursorOf(GroupOf[d])'
                        /\ \A e \in Consumer \ {d} : GroupOf[e] = GroupOf[d] => got'[e] # got'[d]
      BY DEF Holders
    <3>1. got'[c] = p /\ \A e \in Consumer \ {c} : got'[e] = got[e] /\ got[e] \in Nat
      BY <2>6 DEF IInv, TypeOK
    \* The others of the group hold messages behind the cursor, which is below p.
    <3>2. \A e \in Consumer \ {c} : GroupOf[e] = g => got[e] < p
      <4> SUFFICES ASSUME NEW e \in Consumer \ {c}, GroupOf[e] = g PROVE got[e] < p
        OBVIOUS
      <4>1. got[e] = 0 \/ got[e] \in 1 .. CursorOf(g)
        BY DEF Holders
      <4>2. CursorOf(g) \in Int /\ CursorOf(g) >= 0
        BY <1>2, <2>2
      <4> QED
        BY <2>2, <4>1, <4>2
    <3>3. CASE d = c
      <4>1. p \in 1 .. CursorOf(g)'
        BY <1>2, <2>2
      <4> QED
        BY <3>1, <3>2, <3>3, <4>1, <2>2
    <3>4. CASE d # c
      <4>1. got'[d] = got[d] /\ got[d] # 0
        BY <3>1, <3>4
      <4>2. /\ got[d] \in 1 .. CursorOf(GroupOf[d])
            /\ \A e \in Consumer \ {d} : GroupOf[e] = GroupOf[d] => got[e] # got[d]
        BY <4>1 DEF Holders
      <4>3. CursorOf(GroupOf[d]) \in Int /\ CursorOf(GroupOf[d])' \in Int
        <5>1. GroupOf[d] = g \/ CursorOf(GroupOf[d])' = CursorOf(GroupOf[d])
          BY <1>1, <2>3
        <5> QED
          BY <1>1, <1>2, <2>2, <5>1
      <4>4. got[d] \in 1 .. CursorOf(GroupOf[d])'
        BY <1>1, <2>4, <4>2, <4>3
      <4>5. ASSUME NEW e \in Consumer \ {d}, GroupOf[e] = GroupOf[d] PROVE got'[e] # got[d]
        <5>1. CASE e = c
          <6>1. got[d] < p /\ got[d] \in Nat
            BY <3>1, <3>2, <3>4, <4>5, <5>1
          <6> QED
            BY <2>2, <3>1, <5>1, <6>1
        <5>2. CASE e # c
          BY <3>1, <4>2, <4>5, <5>2
        <5> QED
          BY <5>1, <5>2
      <4> QED
        BY <4>1, <4>4, <4>5
    <3> QED
      BY <3>3, <3>4
  <2> QED
    BY <2>1, <2>5, <2>6
<1>9. CASE UNCHANGED Cursor!vars
  BY <1>5, <1>9 DEF Cursor!vars
<1> QED
  BY <1>6, <1>7, <1>8, <1>9 DEF Cursor!Next

(* Competing consumers (bus.py:135): no message is in the hands of two      *)
(* members of a group, however many replicas take, leave and come back.     *)
THEOREM NoDoubleWork == Spec => []OneHolder
<1>1. Init => Holders
  BY DEF Init, Holders
<1>2. IInv /\ Holders /\ [Next]_vars => Holders'
  BY InductiveStep, RefineStep, HoldersStep
<1>3. IInv /\ Holders => OneHolder
  BY HoldersMeans DEF OneHolder
<1> QED
  BY <1>1, <1>2, <1>3, InductiveInit, InductiveStep, PTL DEF Spec

(* The cursor of a group never moves back, whoever joins, leaves or takes,  *)
(* so nothing is handed out twice over the life of the bus (bus.py:149).    *)
THEOREM CursorsAdvance == Spec => Cursor!CursorForward
<1> DEFINE cur == [g \in Group |-> Len(log) - Len(queues[g])]
<1>1. IInv /\ [Next]_vars => [\A g \in Group : cur'[g] >= cur[g]]_cur
  <2> SUFFICES ASSUME IInv, [Next]_vars, NEW g \in Group PROVE cur'[g] >= cur[g]
    OBVIOUS
  <2>1. IInv' /\ [Cursor!Next]_(Cursor!vars)
    BY InductiveStep, RefineStep
  <2>2. CursorOf(g)' >= CursorOf(g)
    BY <2>1, CursorStep
  <2> QED
    BY <2>2 DEF CursorOf
<1> QED
  BY <1>1, InductiveInit, InductiveStep, PTL DEF Spec, Cursor!CursorForward

(* What competing consumers rest on (bus.py:135-157), together: counts,     *)
(* queues and what is in hand agree, for any number of groups and replicas. *)
THEOREM QueuesAgree == Spec => []QueueState
<1>1. RefsCountMembers /\ QueueIsLogTail /\ OneHolder => QueueState
  BY DEF QueueState
<1> QED
  BY <1>1, RefsCount, QueueTail, NoDoubleWork, PTL

-----------------------------------------------------------------------------
(* Request and response *)

\* A response names an earlier request, and no two calls await the same one.
CallsInv ==
  /\ \A i \in 1 .. Len(log) : log[i].kind = "response" => log[i].replyTo \in 1 .. Len(log)
  /\ \A c \in Consumer : asked[c] # 0 =>
       /\ asked[c] \in 1 .. Len(log)
       /\ \A d \in Consumer \ {c} : asked[d] # asked[c]

LEMMA WaitersInit == Init => WaitersAreOpenCalls /\ CallsInv
<1> SUFFICES ASSUME Init PROVE WaitersAreOpenCalls /\ CallsInv
  OBVIOUS
<1>1. Len(log) = 0
  BY EmptySeq DEF Init
<1> QED
  BY <1>1 DEF Init, WaitersAreOpenCalls, CallsInv

\* What a new message changes of the answers in the log.
LEMMA AnswersAppend ==
  ASSUME TypeOK, NEW m \in Message, Deliver(m)
  PROVE  \A r : /\ Answers(r) \subseteq Answers(r)'
                /\ ~ (m.kind = "response" /\ m.replyTo = r) => Answers(r)' = Answers(r)
                /\ m.kind = "response" /\ m.replyTo = r => Answers(r)' # {}
<1>1. PICK n \in Nat : n = Len(log)
  BY DEF TypeOK
<1>2. /\ Len(log') = n + 1 /\ log'[n + 1] = m
      /\ \A i \in 1 .. n : log'[i] = log[i]
  BY <1>1, TypeDeliver
<1> TAKE r
<1>3. Answers(r) = {i \in 1 .. n : log[i].kind = "response" /\ log[i].replyTo = r}
  BY <1>1 DEF Answers
<1>4. Answers(r)' = {i \in 1 .. (n + 1) : log'[i].kind = "response" /\ log'[i].replyTo = r}
  BY <1>2 DEF Answers
<1>5. \A i : i \in 1 .. (n + 1) <=> i \in 1 .. n \/ i = n + 1
  OBVIOUS
<1> QED
  BY <1>2, <1>3, <1>4, <1>5

\* A step that leaves log and calls alone.
LEMMA WaitersFrame ==
  ASSUME WaitersAreOpenCalls, CallsInv, UNCHANGED << log, waiters, asked, answer >>
  PROVE  WaitersAreOpenCalls' /\ CallsInv'
BY DEF WaitersAreOpenCalls, CallsInv, Answers

LEMMA CallsDeliver ==
  ASSUME TypeOK, CallsInv, NEW m \in Message, Deliver(m),
         m.kind = "response" => m.replyTo \in 1 .. Len(log)
  PROVE  /\ \A i \in 1 .. Len(log') :
              log'[i].kind = "response" => log'[i].replyTo \in 1 .. Len(log')
         /\ \A r \in 1 .. Len(log) : r \in 1 .. Len(log')
         /\ Len(log') = Len(log) + 1
<1>1. PICK n \in Nat : n = Len(log)
  BY DEF TypeOK
<1>2. /\ Len(log') = n + 1 /\ log'[n + 1] = m
      /\ \A i \in 1 .. n : log'[i] = log[i]
  BY <1>1, TypeDeliver
<1>3. \A i \in 1 .. n : log[i].kind = "response" => log[i].replyTo \in 1 .. n
  BY <1>1 DEF CallsInv
<1>4. \A i \in 1 .. (n + 1) : log'[i].kind = "response" => log'[i].replyTo \in 1 .. (n + 1)
  <2> SUFFICES ASSUME NEW i \in 1 .. (n + 1), log'[i].kind = "response"
               PROVE  log'[i].replyTo \in 1 .. n
    OBVIOUS
  <2>1. CASE i \in 1 .. n
    BY <1>2, <1>3, <2>1
  <2>2. CASE i = n + 1
    BY <1>1, <1>2, <2>2
  <2> QED
    BY <2>1, <2>2
<1> QED
  BY <1>1, <1>2, <1>4

LEMMA WaitersPublish ==
  ASSUME TypeOK, WaitersAreOpenCalls, CallsInv, NEW m \in Message, Publish(m)
  PROVE  WaitersAreOpenCalls' /\ CallsInv'
<1>1. Deliver(m) /\ FanoutLocal(m) /\ (m.kind = "response" => m.replyTo \in 1 .. Len(log))
  BY DEF Publish
<1>2. asked' = asked
  BY <1>1 DEF FanoutLocal, askVars
<1>3. CallsInv'
  BY <1>1, <1>2, CallsDeliver DEF CallsInv
<1>4. CASE m.kind = "response" /\ m.replyTo \in waiters
  <2> DEFINE r == m.replyTo
  <2>1. /\ waiters' = waiters \ {r}
        /\ answer' = [c \in Consumer |-> IF asked[c] = r THEN "done" ELSE answer[c]]
    BY <1>1, <1>4 DEF FanoutLocal
  <2>2. \A c \in Consumer : answer'[c] = "pending" <=> answer[c] = "pending" /\ asked[c] # r
    BY <2>1
  <2>3. waiters' = {asked'[c] : c \in {d \in Consumer : answer'[d] = "pending"}}
    BY <1>2, <2>1, <2>2 DEF WaitersAreOpenCalls
  <2>4. r # 0
    BY <1>1, <1>4
  <2>5. ASSUME NEW c \in Consumer
        PROVE  /\ answer'[c] = "none" <=> asked'[c] = 0
               /\ answer'[c] = "pending" => Answers(asked[c])' = {}
               /\ answer'[c] = "done" => Answers(asked[c])' # {}
    <3>1. CASE asked[c] = r
      BY <1>1, <1>2, <1>4, <2>1, <2>4, <3>1, AnswersAppend
    <3>2. CASE asked[c] # r
      <4>1. answer'[c] = answer[c] /\ asked'[c] = asked[c]
        BY <1>2, <2>1, <3>2
      <4>2. Answers(asked[c])' = Answers(asked[c])
        BY <1>1, <1>2, <3>2, AnswersAppend
      <4> QED
        BY <4>1, <4>2 DEF WaitersAreOpenCalls
    <3> QED
      BY <3>1, <3>2
  <2> QED
    BY <1>2, <1>3, <2>3, <2>5 DEF WaitersAreOpenCalls
<1>5. CASE ~ (m.kind = "response" /\ m.replyTo \in waiters)
  <2>1. waiters' = waiters /\ answer' = answer
    BY <1>1, <1>5 DEF FanoutLocal, askVars
  <2>2. ASSUME NEW c \in Consumer
        PROVE  /\ answer[c] = "pending" => Answers(asked[c])' = {}
               /\ answer[c] = "done" => Answers(asked[c])' # {}
    <3>1. answer[c] = "pending" => asked[c] \in waiters
      BY DEF WaitersAreOpenCalls
    <3>2. answer[c] = "pending" => ~ (m.kind = "response" /\ m.replyTo = asked[c])
      BY <1>5, <3>1
    <3> QED
      BY <1>1, <1>2, <3>2, AnswersAppend DEF WaitersAreOpenCalls
  <2> QED
    BY <1>2, <1>3, <2>1, <2>2 DEF WaitersAreOpenCalls
<1> QED
  BY <1>4, <1>5

LEMMA WaitersRequest ==
  ASSUME TypeOK, WaitersAreOpenCalls, CallsInv,
         NEW c \in Consumer, NEW m \in Message, Request(c, m)
  PROVE  WaitersAreOpenCalls' /\ CallsInv'
<1>1. PICK r \in Nat : r = Len(log) + 1 /\ r \notin 1 .. Len(log) /\ r # 0
  BY DEF TypeOK
<1>2. /\ Deliver(m) /\ m.kind = "request"
      /\ waiters' = waiters \cup {r}
      /\ asked' = [asked EXCEPT ![c] = r]
      /\ answer' = [answer EXCEPT ![c] = "pending"]
      /\ asked[c] = 0
  BY <1>1 DEF Request
<1>3. \A d \in Consumer \ {c} : asked'[d] = asked[d] /\ answer'[d] = answer[d] /\ asked[d] # r
  BY <1>1, <1>2 DEF TypeOK, CallsInv
<1>4. asked'[c] = r /\ answer'[c] = "pending"
  BY <1>2 DEF TypeOK
<1>5. \A x : Answers(x)' = Answers(x)
  BY <1>2, AnswersAppend
<1>6. Answers(r) = {}
  BY <1>1 DEF Answers, CallsInv
<1>7. answer[c] = "none"
  BY <1>2 DEF WaitersAreOpenCalls
<1>8. waiters' = {asked'[d] : d \in {e \in Consumer : answer'[e] = "pending"}}
  <2>1. {e \in Consumer : answer'[e] = "pending"} =
          {e \in Consumer : answer[e] = "pending"} \cup {c}
    BY <1>3, <1>4
  <2>2. waiters = {asked[d] : d \in {e \in Consumer : answer[e] = "pending"}}
    BY DEF WaitersAreOpenCalls
  <2>3. \A d \in {e \in Consumer : answer[e] = "pending"} : asked'[d] = asked[d]
    BY <1>3, <1>7
  <2> QED
    BY <1>2, <1>4, <2>1, <2>2, <2>3
<1>9. ASSUME NEW d \in Consumer
      PROVE  /\ answer'[d] = "none" <=> asked'[d] = 0
             /\ answer'[d] = "pending" => Answers(asked'[d]) = {}
             /\ answer'[d] = "done" => Answers(asked'[d]) # {}
  <2>1. CASE d = c
    BY <1>1, <1>4, <1>6, <2>1
  <2>2. CASE d # c
    BY <1>3, <2>2 DEF WaitersAreOpenCalls
  <2> QED
    BY <2>1, <2>2
<1>10. WaitersAreOpenCalls'
  <2>1. \A d \in Consumer : Answers(asked[d])' = Answers(asked'[d])
    BY <1>5 DEF Answers
  <2> QED
    BY <1>8, <1>9, <2>1 DEF WaitersAreOpenCalls
<1>11. CallsInv'
  <2>1. /\ \A i \in 1 .. Len(log') :
             log'[i].kind = "response" => log'[i].replyTo \in 1 .. Len(log')
        /\ \A x \in 1 .. Len(log) : x \in 1 .. Len(log')
        /\ Len(log') = Len(log) + 1
    BY <1>2, CallsDeliver
  <2>2. r \in 1 .. Len(log')
    BY <1>1, <2>1 DEF TypeOK
  <2>3. ASSUME NEW d \in Consumer, asked'[d] # 0
        PROVE  /\ asked'[d] \in 1 .. Len(log')
               /\ \A e \in Consumer \ {d} : asked'[e] # asked'[d]
    <3>1. CASE d = c
      BY <1>3, <1>4, <2>2, <3>1
    <3>2. CASE d # c
      BY <1>3, <1>4, <2>1, <2>3, <3>2 DEF CallsInv
    <3> QED
      BY <3>1, <3>2
  <2> QED
    BY <2>1, <2>3 DEF CallsInv
<1> QED
  BY <1>10, <1>11

LEMMA WaitersEnd ==
  ASSUME TypeOK, WaitersAreOpenCalls, CallsInv,
         NEW c \in Consumer, asked[c] # 0, EndRequest(c)
  PROVE  WaitersAreOpenCalls' /\ CallsInv'
<1>1. /\ waiters' = waiters \ {asked[c]} /\ log' = log
      /\ asked' = [asked EXCEPT ![c] = 0]
      /\ answer' = [answer EXCEPT ![c] = "none"]
  BY DEF EndRequest
<1>2. \A d \in Consumer \ {c} : asked'[d] = asked[d] /\ answer'[d] = answer[d] /\ asked[d] # asked[c]
  BY <1>1 DEF TypeOK, CallsInv
<1>3. asked'[c] = 0 /\ answer'[c] = "none"
  BY <1>1 DEF TypeOK
<1>4. waiters' = {asked'[d] : d \in {e \in Consumer : answer'[e] = "pending"}}
  <2>1. {e \in Consumer : answer'[e] = "pending"} =
          {e \in Consumer : answer[e] = "pending"} \ {c}
    BY <1>2, <1>3
  <2>2. waiters = {asked[d] : d \in {e \in Consumer : answer[e] = "pending"}}
    BY DEF WaitersAreOpenCalls
  <2> QED
    BY <1>1, <1>2, <2>1, <2>2
<1>5. WaitersAreOpenCalls'
  <2>1. \A x : Answers(x)' = Answers(x)
    BY <1>1 DEF Answers
  <2>2. ASSUME NEW d \in Consumer
        PROVE  /\ answer'[d] = "none" <=> asked'[d] = 0
               /\ answer'[d] = "pending" => Answers(asked'[d]) = {}
               /\ answer'[d] = "done" => Answers(asked'[d]) # {}
    BY <1>2, <1>3 DEF WaitersAreOpenCalls
  <2>3. \A d \in Consumer : Answers(asked[d])' = Answers(asked'[d])
    BY <1>1 DEF Answers
  <2> QED
    BY <1>4, <2>2, <2>3 DEF WaitersAreOpenCalls
<1>6. CallsInv'
  BY <1>1, <1>2, <1>3 DEF CallsInv
<1> QED
  BY <1>5, <1>6

LEMMA WaitersStep ==
  TypeOK /\ WaitersAreOpenCalls /\ CallsInv /\ [Next]_vars => WaitersAreOpenCalls' /\ CallsInv'
<1> SUFFICES ASSUME TypeOK, WaitersAreOpenCalls, CallsInv, [Next]_vars
             PROVE  WaitersAreOpenCalls' /\ CallsInv'
  OBVIOUS
<1>1. ASSUME NEW m \in Message, Publish(m) PROVE WaitersAreOpenCalls' /\ CallsInv'
  BY <1>1, WaitersPublish
<1>2. ASSUME NEW c \in Consumer, Subscribe(c) \/ Get(c) \/ Resume(c) \/ Drop(c) \/ Finish(c)
      PROVE  WaitersAreOpenCalls' /\ CallsInv'
  BY <1>2, WaitersFrame DEF Subscribe, Get, Resume, Drop, Finish, askVars
<1>3. ASSUME NEW c \in Consumer, NEW k \in 1 .. Len(queues[GroupOf[c]]), Consume(c, k)
      PROVE  WaitersAreOpenCalls' /\ CallsInv'
  BY <1>3, WaitersFrame DEF Consume, askVars
<1>4. ASSUME NEW c \in Consumer, NEW m \in Message, Request(c, m)
      PROVE  WaitersAreOpenCalls' /\ CallsInv'
  BY <1>4, WaitersRequest
<1>5. ASSUME NEW c \in Consumer, Receive(c) \/ GiveUp(c)
      PROVE  WaitersAreOpenCalls' /\ CallsInv'
  <2>1. asked[c] # 0
    BY <1>5 DEF Receive, GiveUp, WaitersAreOpenCalls
  <2> QED
    BY <1>5, <2>1, WaitersEnd DEF Receive, GiveUp
<1>6. CASE UNCHANGED vars
  BY <1>6, WaitersFrame DEF vars
<1> QED
  BY <1>1, <1>2, <1>3, <1>4, <1>5, <1>6 DEF Next

(* request() (bus.py:100): the table of waiters is exactly the calls still  *)
(* waiting, whatever times out, and an answer goes to the call that asked.  *)
THEOREM WaitersMatch == Spec => []WaitersAreOpenCalls
<1> QED
  BY TypeCorrect, WaitersInit, WaitersStep, PTL DEF Spec

=============================================================================

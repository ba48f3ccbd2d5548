----------------------------- MODULE GroupCursor -----------------------------
(***************************************************************************)
(* What the bus promises to consumer groups, whatever carries the          *)
(* messages: one log of everything published, and per group one cursor     *)
(* into it that the members of the group share.  While a group has members *)
(* its cursor only moves when a member takes a message, and a member takes *)
(* the first wanted message behind the cursor.                             *)
(*                                                                         *)
(* A group without members has no cursor of its own: it stands at the end  *)
(* of the log, so what is published meanwhile is never delivered.          *)
(***************************************************************************)
EXTENDS Integers, Sequences

CONSTANTS
  Group,      \* consumer groups
  Consumer,   \* subscribers (agent main loops and control loops)
  GroupOf,    \* the group each subscriber names
  Message,    \* what may be published
  Wants(_, _) \* Wants(g, m): group g subscribes to message m's topic

VARIABLES
  log,        \* everything published, in order
  cursor,     \* per group, how much of the log is behind it
  member,     \* consumers attached to their group
  hand        \* per consumer, the position of the message it works on, or 0

vars == << log, cursor, member, hand >>

Attached(g) == \E c \in member : GroupOf[c] = g

Init ==
  /\ log = << >>
  /\ cursor = [g \in Group |-> 0]
  /\ member = {}
  /\ hand = [c \in Consumer |-> 0]

Append_(m) ==
  /\ log' = Append(log, m)
  /\ cursor' = [g \in Group |-> IF Attached(g) THEN cursor[g] ELSE Len(log) + 1]
  /\ UNCHANGED << member, hand >>

Join(c) ==
  /\ c \notin member
  /\ member' = member \cup {c}
  /\ UNCHANGED << log, cursor, hand >>

\* The member keeps the message in hand, or is done with it in the same step.
Take(c) ==
  LET g == GroupOf[c] IN
  /\ c \in member
  /\ hand[c] = 0
  /\ \E k \in (cursor[g] + 1) .. Len(log) :
       /\ Wants(g, log[k])
       /\ \A j \in (cursor[g] + 1) .. (k - 1) : ~ Wants(g, log[j])
       /\ cursor' = [cursor EXCEPT ![g] = k]
       /\ \/ hand' = [hand EXCEPT ![c] = k]
          \/ hand' = hand
  /\ UNCHANGED << log, member >>

Release(c) ==
  /\ hand' = [hand EXCEPT ![c] = 0]
  /\ UNCHANGED << log, cursor, member >>

Leave(c) ==
  LET g == GroupOf[c] IN
  /\ c \in member
  /\ hand[c] = 0
  /\ member' = member \ {c}
  /\ cursor' = [cursor EXCEPT ![g] =
                  IF \E d \in member \ {c} : GroupOf[d] = g THEN @ ELSE Len(log)]
  /\ UNCHANGED << log, hand >>

Next ==
  \/ \E m \in Message : Append_(m)
  \/ \E c \in Consumer : Join(c) \/ Take(c) \/ Release(c) \/ Leave(c)

Spec == Init /\ [][Next]_vars

-----------------------------------------------------------------------------

(* A message in a member's hand is behind its group's cursor, was asked for *)
(* by the group, and is in no other member's hand: replicas share the work  *)
(* of the group, they do not repeat it.                                     *)
OneHolder ==
  \A c \in Consumer : hand[c] # 0 =>
    /\ hand[c] \in 1 .. cursor[GroupOf[c]]
    /\ \A d \in Consumer \ {c} :
         GroupOf[d] = GroupOf[c] => hand[d] # hand[c]

(* A cursor never moves back, so no message is handed out twice, by any    *)
(* member, before or after members come and go.                            *)
CursorForward == [][\A g \in Group : cursor'[g] >= cursor[g]]_cursor

=============================================================================

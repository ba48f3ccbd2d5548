--------------------------- MODULE MCAgentRuntime ---------------------------
(***************************************************************************)
(* AgentRuntime with two replicas of one role.                             *)
(***************************************************************************)
EXTENDS AgentRuntime, TLC

CONSTANTS tester, tester1, tester2

MCRole == {tester}
MCAgent == {tester1, tester2}
MCRoleOf == [a \in MCAgent |-> tester]
MCTarget == {"*"} \cup MCAgent
Replica == Permutations(MCAgent)
=============================================================================

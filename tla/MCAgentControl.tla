--------------------------- MODULE MCAgentControl ---------------------------
(***************************************************************************)
(* AgentRuntime with one agent, which then has the name of its role, under *)
(* a sequence of control messages.                                         *)
(***************************************************************************)
EXTENDS AgentRuntime

CONSTANTS judge, theJudge

MCRole == {judge}
MCAgent == {theJudge}
MCRoleOf == [a \in MCAgent |-> judge]
MCTarget == {judge}
=============================================================================

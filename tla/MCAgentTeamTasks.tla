------------------------- MODULE MCAgentTeamTasks -------------------------
(* AgentTeamTasks on a small instance: two tasks on one resource, the second *)
(* of which waits for the first.                                             *)
EXTENDS AgentTeamTasks, TLC

CONSTANTS a, b

Chain == a :> {} @@ b :> {a}
Shared == a :> {"r"} @@ b :> {"r"}

=============================================================================

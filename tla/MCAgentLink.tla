----------------------------- MODULE MCAgentLink -----------------------------
(* AgentLink for TLC: the environments of its runs.  In a run with two     *)
(* connections "overlap" and "earlyClose" are kept apart: together they    *)
(* can use up both and leave the agent none to reconnect with.             *)
EXTENDS AgentLink

Each == {
    FaultKinds \ {"earlyClose"},
    FaultKinds \ {"overlap"},
    {"drop", "restart", "clockDrift", "earlyClose"},
    {"drop", "clockDrift"} }

=============================================================================

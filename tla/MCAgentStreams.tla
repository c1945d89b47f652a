---------------------------- MODULE MCAgentStreams ----------------------------
(* AgentStreams for TLC: the circumstances of its runs.                    *)
EXTENDS AgentStreams

Each == {
    {"linkLoss", "slowExec", "hasty", "remount"},
    {"linkLoss", "slowEvents", "dockerRestart"},
    {"linkLoss", "readFails", "refusal"},
    {"linkLoss", "dockerRestart"},
    {"slowRead", "readFails", "remount"},
    {"refusal", "hasty", "tabClosed"} }
=============================================================================

---------------------------- MODULE MCContainerView ----------------------------
(* The constants of ContainerView for TLC: two containers on the server of *)
(* the page and one on another.                                            *)
EXTENDS ContainerView

CONSTANTS s1, s2, c1, c2, c3

MCServerOf == [c \in Container |-> IF c = c3 THEN s2 ELSE s1]
(* Commands, refused and half done ones; the agent's absence, with and     *)
(* without a user who moves about, and what spoils the view, one by one;   *)
(* modals.                                                                 *)
MCEnvironments ==
    {{"refuses", "startFails"}, {"agentLeaves", "resultLost"},
     {"agentLeaves", "navigates", "viewer"}, {"agentLeaves", "unnoticed", "viewer"},
     {"overtaken", "navigates", "viewer"}, {"otherServer", "navigates", "viewer"},
     {"otherTab", "signal", "viewer"}, {"outside", "signal", "viewer"},
     {"listFails", "refuses"}, {"slowRead", "agentLeaves", "viewer"},
     {"readFails", "modals", "viewer"}, {"modals", "early", "viewer"}, {"modals", "socketLost", "viewer"},
     {"modals", "otherTab", "viewer"}, {"modals", "outside", "viewer"}}
=============================================================================

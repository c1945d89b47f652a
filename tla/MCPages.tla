--------------------------------- MODULE MCPages --------------------------------
(* The constants of Pages for TLC: two servers, two items, two compose     *)
(* files; on each page the circumstances that can meet there.              *)
EXTENDS Pages, TLC

CONSTANTS s1, s2, i1, i2, y1, y2

MCEnvironments ==
    ({"images", "networks", "volumes", "stacks"} \X
        {{"refuses"}, {"otherTab"}, {"agentLeaves"}, {"socketLost", "invalid"}, {"listFails"},
         {"agentLeaves", "slowRead", "readFails"}})
    \cup ({"networks", "volumes"} \X
        {{"navigates"}, {"agentLeaves", "unnoticed"}, {"outside", "overtaken"},
         {"otherServer", "refuses"}})
    \cup {<<"images", {"slow"}>>, <<"images", {"navigates", "hurries"}>>, <<"stacks", {"edits"}>>,
          <<"stacks", {"navigates"}>>, <<"stacks", {"agentLeaves", "recreated"}>>,
          <<"stacks", {"refuses", "halfway"}>>, <<"stacks", {"outside", "overtaken"}>>}

Symmetry == Permutations(Item)
=============================================================================

------------------------------ MODULE MCSessions ------------------------------
(* Sessions for TLC: the circumstances of its runs.                        *)
EXTENDS Sessions, TLC

Each == {{}, {"lostAnswer"}, {"twoTabs"}, {"race"}, {"crash"}, {"writeFails"}}

Calm == {{}}

AnyOrder == Permutations(Request) \cup Permutations(Browser)
=============================================================================

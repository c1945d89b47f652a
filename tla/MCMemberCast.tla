----------------------------- MODULE MCMemberCast -----------------------------
(* MemberCast for TLC: who is logged in where, and the circumstances.      *)
EXTENDS MemberCast, TLC

CONSTANTS owner, guest, t1, t2, t3

TabsOf == (t1 :> owner) @@ (t2 :> owner) @@ (t3 :> guest)

(* Every property meets an environment that satisfies its proviso, and     *)
(* each circumstance appears without the ones that are excluded there.     *)
Each == {{"slowRead"}, {"racingRead"}, {"racingRead", "readFails"},
         {"slowRead", "readFails"}}

SameUser == Permutations({t1, t2})
=============================================================================

---------------------------- MODULE MCServerAccess ----------------------------
(* ServerAccess for TLC: one user on each plan, and the circumstances.     *)
EXTENDS ServerAccess, TLC

CONSTANTS free, pro, r1, r2

(* The free plan of plans.ts with room for one server; pro is unlimited,   *)
(* which two servers and two users stand for.                              *)
PlanServers == (free :> 1) @@ (pro :> 2)
PlanMembers == (free :> 1) @@ (pro :> 2)

Each == {{}, {"readFails"}, {"crash"}, {"undoFails"}, Circumstances}

OnlyOverlap == {{"overlap"}}

Symmetry == Permutations(Server) \cup Permutations(Request)
=============================================================================

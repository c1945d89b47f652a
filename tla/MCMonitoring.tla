---------------------------- MODULE MCMonitoring ----------------------------
(* Monitoring for TLC: the circumstances, each part on its own.            *)
EXTENDS Monitoring, TLC

Each ==
    {[parts |-> {"alerts"}, alerts |-> a, uptime |-> {}] :
        a \in {{}, {"slowRecord"}, {"slowFire"}, {"readFails"}, {"writeFails"}, {"restart"}}}
    \cup
    {[parts |-> {"uptime"}, alerts |-> {}, uptime |-> u] :
        u \in {{}, {"sweep"}, {"eventLost"}, {"overlap"}, {"seedFails"}, {"sweep", "seedFails"}}}

AnySlot == Permutations(Slot)
=============================================================================

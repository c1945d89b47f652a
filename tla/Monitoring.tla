----------------------------- MODULE Monitoring -----------------------------
(***************************************************************************)
(* What the backend derives over time from one server's agent connection:  *)
(* its alerts (Alerts) and its uptime (Uptime), under one clock.  The two  *)
(* share nothing else.                                                     *)
(***************************************************************************)
EXTENDS Alerts, Uptime

CONSTANT Environments  \* the pairs of circumstances and active parts to consider

ASSUME EnvironmentAssumption ==
    Environments \subseteq [parts : SUBSET {"alerts", "uptime"},
                            alerts : SUBSET AlertCircumstances,
                            uptime : SUBSET UptimeCircumstances]

VARIABLE parts  \* which of the two are looked at in this behaviour

vars == <<now, parts, alertVars, uptimeVars>>

(* Every variable has its type.                                            *)
TypeOK ==
    /\ now \in Moment
    /\ [parts |-> parts, alerts |-> env, uptime |-> happen] \in Environments
    /\ AlertTypeOK /\ UptimeTypeOK

Init ==
    /\ now = Start
    /\ \E e \in Environments : parts = e.parts /\ env = e.alerts /\ happen = e.uptime
    /\ AlertInit /\ UptimeInit

(* A database call takes less than a tick, unless it is slow.              *)
Passes ==
    /\ Tick /\ Settled
    /\ UptimePasses /\ UNCHANGED <<parts, alertVars>>

Next ==
    \/ "alerts" \in parts /\ AlertNext /\ UNCHANGED <<now, parts, uptimeVars>>
    \/ "uptime" \in parts /\ UptimeNext /\ UNCHANGED <<now, parts, alertVars>>
    \/ Passes

Spec == Init /\ [][Next]_vars
=============================================================================

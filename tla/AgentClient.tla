----------------------------- MODULE AgentClient -----------------------------
(***************************************************************************)
(* What the agent promises of its connection to the backend, whatever the  *)
(* network and the backend do: at any moment it is stopped, waiting to     *)
(* reconnect, trying to, or connected; a lost or failed connection always  *)
(* leads to waiting, with a longer delay up to the longest; and only a     *)
(* connection that opens, or a fresh start, makes the delay short again.   *)
(***************************************************************************)
EXTENDS Naturals

CONSTANT MaxDelay

VARIABLES phase, delay

vars == <<phase, delay>>

Longer(d) == IF d < MaxDelay THEN d + 1 ELSE MaxDelay

Init == phase = "stopped" /\ delay = 0

Start == phase = "stopped" /\ phase' = "trying" /\ delay' = 0

Stop == phase # "stopped" /\ phase' = "stopped" /\ UNCHANGED delay

Retry == phase = "waiting" /\ phase' = "trying" /\ UNCHANGED delay

Open == phase = "trying" /\ phase' = "connected" /\ delay' = 0

Lose ==
    /\ phase \in {"trying", "connected"}
    /\ phase' = "waiting"
    /\ delay' = Longer(delay)

Next == Start \/ Stop \/ Retry \/ Open \/ Lose

Spec == Init /\ [][Next]_vars
=============================================================================

-------------------------------- MODULE Clock --------------------------------
(***************************************************************************)
(* Date.now() of the backend, as the time-dependent handlers read it.      *)
(* Between two ticks any number of things may happen at the same moment.   *)
(***************************************************************************)
EXTENDS Naturals

CONSTANTS
    Start,    \* the moment the behaviour begins
    MaxTime   \* bound: the last moment considered

ASSUME ClockAssumption == Start \in Nat /\ MaxTime \in Nat /\ Start <= MaxTime

VARIABLE now

Moment == Start..MaxTime

Tick == now < MaxTime /\ now' = now + 1
=============================================================================

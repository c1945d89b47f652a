------------------------------ MODULE Terminals ------------------------------
(***************************************************************************)
(* What a user may believe of a terminal, from its opening until it is     *)
(* closed or its page is taken away, whatever the relay, the agent and     *)
(* Docker do with the messages in between: it gets one shell at most,      *)
(* which is over for good once it is; it calls it "ready" only after it    *)
(* began, "exited" only after it is over, and speaks of an error only if   *)
(* it never was ready; and it takes nothing back.                          *)
(***************************************************************************)
CONSTANT Session

VARIABLES
    shell,   \* shell[s]: "none" yet, "running", or "over", if it ever began
    screen   \* screen[s]: what the terminal of s says, while it is open

vars == <<shell, screen>>

Init ==
    /\ shell = [s \in Session |-> "none"]
    /\ screen = [s \in Session |-> "unopened"]

(* There is one terminal at a time.                                        *)
Open(s) ==
    /\ screen[s] = "unopened" /\ \A t \in Session : screen[t] \in {"unopened", "left"}
    /\ screen' = [screen EXCEPT ![s] = "connecting"]
    /\ UNCHANGED shell

Begin(s) ==
    /\ screen[s] # "unopened" /\ shell[s] = "none"
    /\ shell' = [shell EXCEPT ![s] = "running"]
    /\ UNCHANGED screen

(* A shell ends, or will never begin.                                      *)
End(s) ==
    /\ screen[s] # "unopened" /\ shell[s] # "over"
    /\ shell' = [shell EXCEPT ![s] = "over"]
    /\ UNCHANGED screen

Show(s, what) ==
    /\ \/ what = "ready"  /\ screen[s] = "connecting" /\ shell[s] # "none"
       \/ what = "exited" /\ screen[s] \in {"connecting", "ready"} /\ shell[s] = "over"
       \/ what = "error"  /\ screen[s] = "connecting" /\ shell[s] = "over"
    /\ screen' = [screen EXCEPT ![s] = what]
    /\ UNCHANGED shell

Leave(s) ==
    /\ screen[s] \notin {"unopened", "left"}
    /\ screen' = [screen EXCEPT ![s] = "left"]
    /\ UNCHANGED shell

Next ==
    \E s \in Session :
        \/ Open(s) \/ Begin(s) \/ End(s) \/ Leave(s)
        \/ \E what \in {"ready", "exited", "error"} : Show(s, what)

Spec == Init /\ [][Next]_vars
=============================================================================

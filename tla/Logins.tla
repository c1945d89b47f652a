------------------------------- MODULE Logins -------------------------------
(***************************************************************************)
(* What an account's user may believe of its sessions, however the tokens  *)
(* behind them are rotated: a browser gets a session only by logging in    *)
(* with the password of that moment, keeps that one session until it ends, *)
(* and once a change of the password is through, no earlier session is     *)
(* left in any browser, and none comes back.                               *)
(***************************************************************************)
EXTENDS Naturals

CONSTANTS Browser, Change

VARIABLES
    password,  \* how often it has changed
    ending,    \* the changes after which the sessions are still to be ended
    session    \* session[b]: the password the session of b began with, if it has one

vars == <<password, ending, session>>

Init == password = 0 /\ ending = {} /\ session = [b \in Browser |-> {}]

Login(b) ==
    /\ ending = {}
    /\ session' = [session EXCEPT ![b] = {password}]
    /\ UNCHANGED <<password, ending>>

(* The user logs out, or the cookies are lost.                             *)
End(b) ==
    /\ session' = [session EXCEPT ![b] = {}]
    /\ UNCHANGED <<password, ending>>

ChangePassword(c) ==
    /\ c \notin ending
    /\ password' = password + 1 /\ ending' = ending \cup {c}
    /\ UNCHANGED session

EndAll(c) ==
    /\ c \in ending
    /\ ending' = ending \ {c} /\ session' = [b \in Browser |-> {}]
    /\ UNCHANGED password

Next ==
    \/ \E b \in Browser : Login(b) \/ End(b)
    \/ \E c \in Change : ChangePassword(c) \/ EndAll(c)

Spec == Init /\ [][Next]_vars
=============================================================================

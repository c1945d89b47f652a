----------------------------- MODULE CommandGate -----------------------------
(***************************************************************************)
(* What stands between a browser's command and the agent:                  *)
(* handleClientCommand (server/ws/commandHandler.ts) with the rate limiter *)
(* wsRateLimit (middleware/rateLimiter.ts), the allowlists, and the roles; *)
(* on the other side the agent's dispatch (agent/src/actions.js, ws.js).   *)
(*                                                                         *)
(* The handler awaits the membership and then the connection state; each   *)
(* command runs through these steps on its own.  Time is counted in ticks. *)
(***************************************************************************)
EXTENDS Integers, Sequences

CONSTANTS
    Caller,       \* the users whose tabs send commands
    Command,
    Action,       \* the actions the users send
    Limit,        \* commands counted per window (60)
    Window,       \* ticks of a window (60 s)
    MaxNow,       \* bound: the last tick
    GateEnvironments  \* the sets of circumstances to consider

(***************************************************************************)
(* roleRace: a role changes while the reads of a command are awaited;      *)
(* roles: roles change otherwise; offline: the agent's connection comes    *)
(* and goes.                                                               *)
(***************************************************************************)
GateCircumstances == {"roleRace", "roles", "offline"}

ASSUME BudgetAssumption == Limit \in Nat \ {0} /\ Window \in Nat /\ MaxNow \in Nat
ASSUME GateEnvironmentAssumption == GateEnvironments \subseteq SUBSET GateCircumstances

-----------------------------------------------------------------------------
(* The allowlists of the backend.                                          *)

VIEWER_ALLOWED_ACTIONS == {
    "containers:list", "containers:inspect", "containers:logs",
    "containers:stats", "system:stats", "images:list", "images:dangling",
    "system:diskUsage", "volumes:list", "volumes:inspect", "networks:list",
    "networks:inspect", "stacks:list", "system:engineInfo", "system:logsTail"}

EXEC_STREAM_ACTIONS == {"containers:exec:input", "containers:exec:resize"}

ALLOWED_ACTIONS == VIEWER_ALLOWED_ACTIONS \cup EXEC_STREAM_ACTIONS \cup {
    "containers:start", "containers:stop", "containers:restart",
    "containers:pause", "containers:unpause", "containers:remove",
    "containers:create", "images:pull", "images:remove", "images:prune",
    "volumes:remove", "networks:create", "networks:remove",
    "containers:exec:start", "containers:exec:stop", "images:build:start",
    "stacks:deploy:start", "stacks:down:start"}

(* The agent: handlers that only ask Docker, the host or compose ...       *)
Asking == {
    "containers:list", "containers:inspect", "containers:logs",
    "containers:stats", "system:stats", "images:list", "images:dangling",
    "system:diskUsage", "volumes:list", "volumes:inspect", "networks:list",
    "networks:inspect", "stacks:list", "system:engineInfo", "system:logsTail"}

(* ... and those that do something, of ACTION_HANDLERS and of ws.js.       *)
Doing == {
    "containers:start", "containers:stop", "containers:pause",
    "containers:unpause", "containers:restart", "containers:remove",
    "containers:create", "images:pull", "images:remove", "images:prune",
    "volumes:remove", "networks:create", "networks:remove"}
    \cup {
    "containers:exec:start", "containers:exec:input", "containers:exec:resize",
    "containers:exec:stop", "images:build:start", "stacks:deploy:start",
    "stacks:down:start"}

-----------------------------------------------------------------------------
VARIABLES
    gateEnv,      \* the circumstances of this behaviour
    now,
    counter,  \* wsCounters: counter[u] is empty or has the user's entry
    passed,   \* passed[u]: when the user's counted commands were let through
    role,     \* role[u]: the membership of the server
    online,   \* servers.agent_connected
    socket,   \* the agent's socket is registered and open
    command   \* the commands being handled, and how the last one ended

gateVars == <<gateEnv, now, counter, passed, role, online, socket, command>>

Role == {"none", "viewer", "operator", "owner"}
Free == [pc |-> "free"]
Step == {"arrived", "counted", "member", "online", "relayed", "refused", "limited"}
Handled == [pc : Step, by : Caller, action : Action, seen : Role]
Counter == [count : 1..(Limit + 1), resetAt : Window..(MaxNow + Window)]
Busy(c) == command[c].pc \in {"arrived", "counted", "member", "online"}
Reading(u) == \E c \in Command : Busy(c) /\ command[c].by = u

(* Every variable has its type; a count above the limit counts as one more.*)
GateTypeOK ==
    /\ gateEnv \in GateEnvironments /\ now \in 0..MaxNow
    /\ counter \in [Caller -> SUBSET Counter]
    /\ \A u \in Caller : \A e, f \in counter[u] : e = f
    /\ passed \in [Caller -> Seq(0..MaxNow)]
    /\ role \in [Caller -> Role] /\ online \in BOOLEAN /\ socket \in BOOLEAN
    /\ command \in [Command -> Handled \cup {Free}]

GateInit ==
    /\ gateEnv \in GateEnvironments /\ now = 0
    /\ counter = [u \in Caller |-> {}]
    /\ passed = [u \in Caller |-> <<>>]
    /\ role \in [Caller -> Role] /\ online = TRUE /\ socket = TRUE
    /\ command = [c \in Command |-> Free]

Goto(c, pc) == command' = [command EXCEPT ![c].pc = pc]
world == <<role, online, socket>>

Send(c, u, a) ==
    /\ ~Busy(c)
    /\ command' = [command EXCEPT ![c] =
            [pc |-> "arrived", by |-> u, action |-> a, seen |-> "none"]]
    /\ UNCHANGED <<gateEnv, now, counter, passed, world>>

(* The user's entry, a new one if its window is over.                      *)
EntryOf(u) ==
    LET running == {e \in counter[u] : now <= e.resetAt} IN
    IF running = {} THEN [count |-> 0, resetAt |-> now + Window]
    ELSE CHOOSE e \in running : TRUE

(* Slip: keystrokes are counted, too.                                      *)
RateLimitAll(c) ==
    LET u == command[c].by  e == EntryOf(u) IN
    /\ command[c].pc = "arrived"
    /\ counter' = [counter EXCEPT ![u] =
            {[e EXCEPT !.count = IF @ > Limit THEN @ ELSE @ + 1]}]
    /\ IF e.count < Limit
         THEN passed' = [passed EXCEPT ![u] = Append(@, now)] /\ Goto(c, "counted")
         ELSE UNCHANGED passed /\ Goto(c, "limited")
    /\ UNCHANGED <<gateEnv, now, world>>

(* wsRateLimit: throws beyond the limit; keystrokes are exempt.            *)
RateLimit(c) ==
    LET u == command[c].by  e == EntryOf(u) IN
    /\ command[c].pc = "arrived"
    /\ IF command[c].action \in EXEC_STREAM_ACTIONS
         THEN UNCHANGED <<counter, passed>> /\ Goto(c, "counted")
         ELSE /\ counter' = [counter EXCEPT ![u] =
                     {[e EXCEPT !.count = IF @ > Limit THEN @ ELSE @ + 1]}]
              /\ IF e.count < Limit
                   THEN passed' = [passed EXCEPT ![u] = Append(@, now)] /\ Goto(c, "counted")
                   ELSE UNCHANGED passed /\ Goto(c, "limited")
    /\ UNCHANGED <<gateEnv, now, world>>

(* Slip: a viewer may send whatever is known.                              *)
MayKnown(r, a) == r # "none"

(* The membership, and what a viewer may send.                             *)
May(r, a) == r # "none" /\ (r = "viewer" => a \in VIEWER_ALLOWED_ACTIONS)

(* Slip: the role found does not matter if the action is allowed at all.   *)
CheckMemberAnyone(c) ==
    LET a == command[c].action  r == role[command[c].by] IN
    /\ command[c].pc = "counted"
    /\ command' = [command EXCEPT ![c].seen = r,
            ![c].pc = IF a \in ALLOWED_ACTIONS THEN "member" ELSE "refused"]
    /\ UNCHANGED <<gateEnv, now, counter, passed, world>>

(* The allowlist, and the membership as the database has it now.           *)
CheckMember(c) ==
    LET a == command[c].action  r == role[command[c].by] IN
    /\ command[c].pc = "counted"
    /\ command' = [command EXCEPT ![c].seen = r,
            ![c].pc = IF a \in ALLOWED_ACTIONS /\ May(r, a) THEN "member" ELSE "refused"]
    /\ UNCHANGED <<gateEnv, now, counter, passed, world>>

(* findConnectionState.                                                    *)
CheckOnline(c) ==
    /\ command[c].pc = "member"
    /\ Goto(c, IF online THEN "online" ELSE "refused")
    /\ UNCHANGED <<gateEnv, now, counter, passed, world>>

(* The socket is looked up, the fields are validated (or an error is       *)
(* thrown) and the command is sent, all without an await in between.       *)
Relay(c) ==
    /\ command[c].pc = "online"
    /\ Goto(c, IF socket THEN "relayed" ELSE "refused")
    /\ UNCHANGED <<gateEnv, now, counter, passed, world>>

-----------------------------------------------------------------------------
(* Slip: the cleanup takes running windows as well.                        *)
CleanUpAll ==
    /\ counter' = [u \in Caller |-> {}]
    /\ UNCHANGED <<gateEnv, now, passed, world, command>>

(* Every 5 minutes: entries whose window is over are dropped.              *)
CleanUp ==
    /\ counter' = [u \in Caller |-> {e \in counter[u] : now <= e.resetAt}]
    /\ UNCHANGED <<gateEnv, now, passed, world, command>>

Tick ==
    /\ now < MaxNow /\ now' = now + 1
    /\ UNCHANGED <<gateEnv, counter, passed, world, command>>

ChangeRole(u, r) ==
    /\ "roleRace" \in gateEnv \/ ("roles" \in gateEnv /\ ~Reading(u))
    /\ role' = [role EXCEPT ![u] = r]
    /\ UNCHANGED <<gateEnv, now, counter, passed, online, socket, command>>

(* AgentLink.tla says how these two follow the agent's connection.         *)
AgentComesAndGoes ==
    /\ "offline" \in gateEnv
    /\ \/ online' = ~online /\ UNCHANGED socket
       \/ socket' = ~socket /\ UNCHANGED online
    /\ UNCHANGED <<gateEnv, now, counter, passed, role, command>>

Handle(c) == RateLimit(c) \/ CheckMember(c) \/ CheckOnline(c) \/ Relay(c)

GateNext ==
    \/ \E c \in Command : Handle(c) \/ \E u \in Caller, a \in Action : Send(c, u, a)
    \/ CleanUp \/ Tick \/ AgentComesAndGoes
    \/ \E u \in Caller, r \in Role : ChangeRole(u, r)

GateSpec == GateInit /\ [][GateNext]_gateVars

-----------------------------------------------------------------------------
(* Properties.                                                             *)

(* "Actions that grant effective code execution or otherwise mutate state  *)
(* - a 'viewer' must never be allowed to send these" (ws-allowlist.test):  *)
(* a viewer's command that gets past the role check is one the agent only  *)
(* answers, and whatever gets past is something the agent has a handler    *)
(* for.                                                                    *)
ViewersOnlyAsk ==
    \A c \in Command : command[c].pc \in {"member", "online", "relayed"} =>
        /\ command[c].action \in Asking \cup Doing
        /\ command[c].seen = "viewer" => command[c].action \in Asking

(* The role a command is relayed under is the one its sender has at that   *)
(* moment, and sufficient, unless it changes between the reads.            *)
RoleInForce ==
    [][\A c \in Command :
        command[c].pc = "online" /\ command'[c].pc = "relayed" /\ "roleRace" \notin gateEnv =>
            LET r == role[command[c].by] IN
            r # "none" /\ (command[c].action \in Doing => r # "viewer")]_gateVars

(* In no stretch of time as long as a window does a user get more than     *)
(* twice the limit through, wherever the windows happen to begin: this is  *)
(* what "60 WS commands/min per user" amounts to with fixed windows.       *)
SlidingBudget ==
    \A u \in Caller : \A i \in 1..(Len(passed[u]) - 2 * Limit) :
        passed[u][i + 2 * Limit] - passed[u][i] > Window

(* Without changes of role or connection a command is not refused without  *)
(* cause: a keystroke is never limited, and an owner's or operator's known *)
(* command gets through as long as it is within the limit.                 *)
NoRefusalWithoutCause ==
    \A c \in Command :
        /\ command[c].pc = "limited" => command[c].action \notin EXEC_STREAM_ACTIONS
        /\ command[c].pc = "refused" /\ gateEnv = {} =>
               \/ command[c].action \notin Asking \cup Doing
               \/ role[command[c].by] = "none"
               \/ role[command[c].by] = "viewer" /\ command[c].action \in Doing
=============================================================================

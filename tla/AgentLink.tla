------------------------------ MODULE AgentLink ------------------------------
(***************************************************************************)
(* The link between one agent (agent/src/ws.js) and the backend's record   *)
(* of it (server/ws/agentConnection.ts): connecting and reconnecting, the  *)
(* handshake with its awaits, the in-memory registry agentSockets, the     *)
(* column servers.agent_connected, the agent_status_events rows, and the   *)
(* online/offline notices sent to the members' browsers.                   *)
(*                                                                         *)
(* All of the server's state is keyed by server id, so one server record   *)
(* and the one agent installed for it are modelled.  A member of Conn is a *)
(* WebSocket connection; it is used again once both of its ends are done   *)
(* with it.  A key is the number of times it has been regenerated.         *)
(*                                                                         *)
(* Each await of the handshake is a place where any other step may fall.   *)
(* A database write takes effect when its await resumes; until then it is  *)
(* in flight, and writes of two handlers land in either order.             *)
(***************************************************************************)
EXTENDS Naturals, FiniteSets

CONSTANTS
    Conn,        \* connections that exist at the same time
    NoConn,      \* "no entry": Map.get() on an absent key
    MaxBackoff,  \* reconnect delays between the initial one and the longest
    MaxKey,      \* bound: how many times the key is regenerated
    MaxHalfOpen, \* bound: connections only the backend still holds open
    Environments \* the sets of faults to consider

(***************************************************************************)
(* drop: the network loses a connection; restart: the backend dies and is  *)
(* started again; regenerate: an owner regenerates the key; dbFailure: a   *)
(* database request fails (its error is returned, and not looked at);      *)
(* clockDrift: a handshake timestamp is out of range; overlap: the agent   *)
(* connects again before the backend is done with its last connection;     *)
(* earlyClose: a socket closes on the backend during its handshake.        *)
(***************************************************************************)
FaultKinds == {"drop", "restart", "regenerate", "dbFailure", "clockDrift",
               "overlap", "earlyClose"}

ASSUME ConnAssumption == NoConn \notin Conn
ASSUME BoundAssumption ==
    MaxBackoff \in Nat /\ MaxKey \in Nat /\ MaxHalfOpen \in Nat
ASSUME EnvironmentAssumption == Environments \subseteq SUBSET FaultKinds

VARIABLES
    faults,          \* the faults this behaviour's environment is capable of
    up,              \* the agent process runs
    agentKey,        \* the AGENT_KEY the agent was installed with
    timer,           \* its setTimeout(connect) is pending
    backoff,         \* reconnectMs, as the number of times it was multiplied
    agt,             \* agt[c]: the agent's end of c
    hello,           \* hello[c]: the initial state pushed over c
    srv,             \* srv[c]: the backend's end of c
    pc,              \* pc[c]: where handleAgentConnection(c) waits
    ckey,            \* ckey[c]: the key c presents
    seen,            \* seen[c]: the key hash its lookup returned
    born,            \* born[c]: the valid key when c reached the backend
    agentSockets,    \* the registry's entry for this server
    dbKey,           \* the key whose hash servers.agent_key_hash holds
    agentConnected,  \* servers.agent_connected
    lastEvent,       \* the newest agent_status_events row
    lastNotice       \* the newest notice broadcast to the members

agentVars  == <<faults, up, agentKey, timer, backoff>>
ends       == <<agt, srv>>
connData   == <<ckey, seen, born>>
dbVars     == <<dbKey, agentConnected, lastEvent>>
vars == <<faults, up, agentKey, timer, backoff, agt, hello, srv, pc, ckey, seen, born,
          agentSockets, dbKey, agentConnected, lastEvent, lastNotice>>

AgentEnd  == {"closed", "connecting", "accepted", "open"}
Handshake == {"none", "lookup", "compare", "mark", "markEvent", "ready",
              "unmark", "unmarkEvent"}

AgentTypes ==
    /\ faults \in Environments
    /\ up \in BOOLEAN /\ timer \in BOOLEAN
    /\ agentKey \in 0..MaxKey
    /\ backoff \in 0..MaxBackoff

ConnTypes ==
    /\ agt \in [Conn -> AgentEnd]
    /\ hello \in [Conn -> {"no", "sent", "seen", "lost"}]
    /\ srv \in [Conn -> {"closed", "open"}]
    /\ pc \in [Conn -> Handshake]

KeyTypes ==
    /\ ckey \in [Conn -> 0..MaxKey]
    /\ seen \in [Conn -> 0..MaxKey]
    /\ born \in [Conn -> 0..MaxKey]

BackendTypes ==
    /\ agentSockets \in Conn \cup {NoConn}
    /\ dbKey \in 0..MaxKey
    /\ agentConnected \in BOOLEAN /\ lastEvent \in BOOLEAN
    /\ lastNotice \in {"none", "online", "offline"}

(* Every variable has its type.                                            *)
TypeOK == AgentTypes /\ ConnTypes /\ KeyTypes /\ BackendTypes

-----------------------------------------------------------------------------
(* The agent process.                                                      *)

(* The connection `ws` refers to while it is not closed.                   *)
Live(c) == agt[c] # "closed"

(* Both ends are done with c, and no registry entry names it.              *)
Free(c) ==
    /\ agt[c] = "closed" /\ srv[c] = "closed" /\ agentSockets # c
    /\ pc[c] \in {"none", "ready"}

(* The agent's end is gone and the backend does not know it.               *)
HalfOpen == {c \in Conn : agt[c] = "closed" /\ srv[c] = "open"}

(* Bound: the backend takes note of a lost connection before the next one  *)
(* is lost, once there are this many.                                      *)
MayLose == Cardinality(HalfOpen) < MaxHalfOpen

Init ==
    /\ faults \in Environments
    /\ up = FALSE /\ timer = FALSE /\ backoff = 0
    /\ agentKey = 0 /\ dbKey = 0
    /\ agt = [c \in Conn |-> "closed"]
    /\ hello = [c \in Conn |-> "no"]
    /\ srv = [c \in Conn |-> "closed"]
    /\ pc = [c \in Conn |-> "none"]
    /\ ckey = [c \in Conn |-> 0]
    /\ seen = [c \in Conn |-> 0]
    /\ born = [c \in Conn |-> 0]
    /\ agentSockets = NoConn
    /\ agentConnected = FALSE /\ lastEvent = FALSE /\ lastNotice = "none"

(* Without "overlap" the backend has finished with every old connection    *)
(* when the agent makes a new one.                                         *)
MayConnect ==
    \/ "overlap" \in faults
    \/ \A c \in Conn : srv[c] = "closed" /\ pc[c] \in {"none", "ready"}

(* connect(): `ws` becomes a new socket, its handshake URL signed with key *)
Connect(c, k) ==
    /\ Free(c) /\ MayConnect
    /\ agt' = [agt EXCEPT ![c] = "connecting"]
    /\ hello' = [hello EXCEPT ![c] = "no"]
    /\ pc' = [pc EXCEPT ![c] = "none"]
    /\ ckey' = [ckey EXCEPT ![c] = k]
    /\ UNCHANGED <<faults, srv, seen, born, agentSockets, dbVars, lastNotice>>

(* The container starts, with the key it had or the one just issued.       *)
AgentStart(c, k) ==
    /\ ~up
    /\ k \in {agentKey, dbKey}
    /\ up' = TRUE /\ agentKey' = k /\ timer' = FALSE /\ backoff' = 0
    /\ Connect(c, k)

(* SIGTERM: shutdown() and at once process.exit(); a crash looks the same. *)
AgentStop ==
    /\ up /\ MayLose
    /\ up' = FALSE /\ timer' = FALSE
    /\ agt' = [c \in Conn |-> "closed"]
    /\ UNCHANGED <<faults, agentKey, backoff, hello, srv, pc, connData,
                   agentSockets, dbVars, lastNotice>>

(* Slip: an attempt, not a success, makes the delay short again.           *)
ReconnectResetting(c) ==
    /\ up /\ timer
    /\ timer' = FALSE /\ backoff' = 0
    /\ Connect(c, agentKey)
    /\ UNCHANGED <<up, agentKey>>

(* The reconnect timer fires.                                              *)
Reconnect(c) ==
    /\ up /\ timer
    /\ timer' = FALSE
    /\ Connect(c, agentKey)
    /\ UNCHANGED <<up, agentKey, backoff>>

(* ws.on('open'): the upgrade succeeded; nothing is known of the handshake *)
AgentOpen(c) ==
    /\ agt[c] = "accepted"
    /\ agt' = [agt EXCEPT ![c] = "open"]
    /\ backoff' = 0
    /\ UNCHANGED <<faults, up, agentKey, timer, hello, srv, pc, connData,
                   agentSockets, dbVars, lastNotice>>

(* sendInitialState(): the lists have been read and are pushed.            *)
SendInitialState(c) ==
    /\ agt[c] = "open" /\ hello[c] = "no"
    /\ hello' = [hello EXCEPT ![c] = "sent"]
    /\ UNCHANGED <<agentVars, ends, pc, connData, agentSockets, dbVars,
                   lastNotice>>

(* c closes for the agent: the backend closed it, or it got lost.          *)
CloseSeen(c) ==
    /\ Live(c)
    /\ \/ "drop" \in faults /\ MayLose
       \/ agt[c] # "connecting" /\ srv[c] = "closed"

(* Slip: the close handler returns without setting the timer.              *)
AgentCloseWithoutTimer(c) ==
    /\ CloseSeen(c)
    /\ agt' = [agt EXCEPT ![c] = "closed"]
    /\ UNCHANGED <<agentVars, hello, srv, pc, connData, agentSockets, dbVars,
                   lastNotice>>

(* ws.on('close') and scheduleReconnect().                                 *)
AgentClose(c) ==
    /\ CloseSeen(c)
    /\ agt' = [agt EXCEPT ![c] = "closed"]
    /\ timer' = TRUE
    /\ backoff' = IF backoff < MaxBackoff THEN backoff + 1 ELSE MaxBackoff
    /\ UNCHANGED <<faults, up, agentKey, hello, srv, pc, connData,
                   agentSockets, dbVars, lastNotice>>

-----------------------------------------------------------------------------
(* The backend: handleAgentConnection.                                     *)

(* The upgrade is accepted and findForHandshake is awaited.                *)
Upgrade(c) ==
    /\ agt[c] = "connecting"
    /\ agt' = [agt EXCEPT ![c] = "accepted"]
    /\ srv' = [srv EXCEPT ![c] = "open"]
    /\ pc' = [pc EXCEPT ![c] = "lookup"]
    /\ born' = [born EXCEPT ![c] = dbKey]
    /\ UNCHANGED <<agentVars, hello, ckey, seen, agentSockets, dbVars,
                   lastNotice>>

(* Slip: the handler returns and leaves the socket open.                   *)
RejectSilently(c) ==
    /\ pc' = [pc EXCEPT ![c] = "none"]
    /\ UNCHANGED <<agentVars, ends, hello, connData, agentSockets, dbVars,
                   lastNotice>>

(* ws.close(4003) or ws.close(4008): the handler returns.                  *)
Reject(c) ==
    /\ srv' = [srv EXCEPT ![c] = "closed"]
    /\ pc' = [pc EXCEPT ![c] = "none"]
    /\ UNCHANGED <<agentVars, agt, hello, connData, agentSockets, dbVars,
                   lastNotice>>

(* findForHandshake returns the row, and bcrypt.compare is awaited.        *)
Lookup(c) ==
    /\ pc[c] = "lookup"
    /\ seen' = [seen EXCEPT ![c] = dbKey]
    /\ pc' = [pc EXCEPT ![c] = "compare"]
    /\ UNCHANGED <<agentVars, ends, hello, ckey, born, agentSockets, dbVars,
                   lastNotice>>

LookupFails(c) ==
    /\ "dbFailure" \in faults
    /\ pc[c] = "lookup"
    /\ Reject(c)

KeyInvalid(c) ==
    /\ pc[c] = "compare"
    /\ ckey[c] # seen[c] \/ "clockDrift" \in faults
    /\ Reject(c)

(* Slip: the result of bcrypt.compare is not looked at.                    *)
RegisterUnchecked(c) ==
    /\ pc[c] = "compare"
    /\ agentSockets' = c
    /\ pc' = [pc EXCEPT ![c] = "mark"]
    /\ UNCHANGED <<agentVars, ends, hello, connData, dbVars, lastNotice>>

(* Key and timestamp are good: agentSockets.set, then markAgentConnected.  *)
(* The socket is not asked whether it is still open.                       *)
Register(c) ==
    /\ pc[c] = "compare"
    /\ ckey[c] = seen[c]
    /\ agentSockets' = c
    /\ pc' = [pc EXCEPT ![c] = "mark"]
    /\ UNCHANGED <<agentVars, ends, hello, connData, dbVars, lastNotice>>

(* What a write leaves in its column: the value, or what was there before. *)
Written(old, value) ==
    {value} \cup (IF "dbFailure" \in faults THEN {old} ELSE {})

(* Slip: the column is not written.                                        *)
MarkConnectedNot(c) ==
    /\ pc[c] = "mark"
    /\ pc' = [pc EXCEPT ![c] = "markEvent"]
    /\ UNCHANGED <<agentVars, ends, hello, connData, agentSockets, dbVars,
                   lastNotice>>

(* markAgentConnected lands; insertAgentStatusEvent(true) is awaited.      *)
MarkConnected(c) ==
    /\ pc[c] = "mark"
    /\ agentConnected' \in Written(agentConnected, TRUE)
    /\ pc' = [pc EXCEPT ![c] = "markEvent"]
    /\ UNCHANGED <<agentVars, ends, hello, connData, agentSockets, dbKey,
                   lastEvent, lastNotice>>

(* The row is in: broadcast agent:online, and only now attach the          *)
(* listeners for 'message' and 'close'.                                    *)
Attach(c) ==
    /\ pc[c] = "markEvent"
    /\ lastEvent' \in Written(lastEvent, TRUE)
    /\ lastNotice' = "online"
    /\ pc' = [pc EXCEPT ![c] = "ready"]
    /\ UNCHANGED <<agentVars, ends, hello, connData, agentSockets, dbKey,
                   agentConnected>>

(* A message arrives: without a listener nobody ever sees it.              *)
Receive(c) ==
    /\ hello[c] = "sent" /\ srv[c] = "open"
    /\ hello' = [hello EXCEPT ![c] = IF pc[c] = "ready" THEN "seen" ELSE "lost"]
    /\ UNCHANGED <<agentVars, ends, pc, connData, agentSockets, dbVars,
                   lastNotice>>

(* The socket closes.  With the listener attached, agentSockets.delete     *)
(* takes the entry out whatever socket it names, and the two writes follow *)
(* one after the other.  Without it, nothing will ever be done about c.    *)
ServerClose(c) ==
    /\ srv[c] = "open"
    /\ agt[c] = "closed" \/ "drop" \in faults
    /\ pc[c] = "ready" \/ "earlyClose" \in faults
    /\ srv' = [srv EXCEPT ![c] = "closed"]
    /\ IF pc[c] = "ready"
         THEN agentSockets' = NoConn /\ pc' = [pc EXCEPT ![c] = "unmark"]
         ELSE UNCHANGED <<agentSockets, pc>>
    /\ UNCHANGED <<agentVars, agt, hello, connData, dbVars, lastNotice>>

MarkDisconnected(c) ==
    /\ pc[c] = "unmark"
    /\ agentConnected' \in Written(agentConnected, FALSE)
    /\ pc' = [pc EXCEPT ![c] = "unmarkEvent"]
    /\ UNCHANGED <<agentVars, ends, hello, connData, agentSockets, dbKey,
                   lastEvent, lastNotice>>

(* Slip: no row is inserted when the agent goes.                           *)
NotifyOfflineUnlogged(c) ==
    /\ pc[c] = "unmarkEvent"
    /\ lastNotice' = "offline"
    /\ pc' = [pc EXCEPT ![c] = "none"]
    /\ UNCHANGED <<agentVars, ends, hello, connData, agentSockets, dbVars>>

NotifyOffline(c) ==
    /\ pc[c] = "unmarkEvent"
    /\ lastEvent' \in Written(lastEvent, FALSE)
    /\ lastNotice' = "offline"
    /\ pc' = [pc EXCEPT ![c] = "none"]
    /\ UNCHANGED <<agentVars, ends, hello, connData, agentSockets, dbKey,
                   agentConnected>>

-----------------------------------------------------------------------------
(* The rest of the environment.                                            *)

(* POST regenerate-key: updateCredentials with markDisconnected.  The      *)
(* socket and the registry are not touched.                                *)
RegenerateKey ==
    /\ "regenerate" \in faults
    /\ dbKey < MaxKey
    /\ dbKey' = dbKey + 1
    /\ agentConnected' = FALSE
    /\ UNCHANGED <<agentVars, ends, hello, pc, connData, agentSockets,
                   lastEvent, lastNotice>>

(* The backend dies with its memory.  A write in flight lands or does not. *)
InFlight(waiting) == \E c \in Conn : pc[c] = waiting

Restart ==
    /\ "restart" \in faults
    /\ agentSockets' = NoConn
    /\ srv' = [c \in Conn |-> "closed"]
    /\ pc' = [c \in Conn |-> "none"]
    /\ \/ agentConnected' = agentConnected
       \/ InFlight("mark") /\ agentConnected' = TRUE
       \/ InFlight("unmark") /\ agentConnected' = FALSE
    /\ \/ lastEvent' = lastEvent
       \/ InFlight("markEvent") /\ lastEvent' = TRUE
       \/ InFlight("unmarkEvent") /\ lastEvent' = FALSE
    /\ lastNotice' = "none"
    /\ UNCHANGED <<agentVars, agt, hello, connData, dbKey>>

AgentStep ==
    \/ AgentStop
    \/ \E c \in Conn :
        \/ \E k \in 0..MaxKey : AgentStart(c, k)
        \/ Reconnect(c)
        \/ AgentOpen(c)
        \/ SendInitialState(c)
        \/ AgentClose(c)

Handle(c) ==
    \/ Upgrade(c)
    \/ Lookup(c) \/ LookupFails(c)
    \/ KeyInvalid(c) \/ Register(c)
    \/ MarkConnected(c) \/ Attach(c)
    \/ Receive(c)
    \/ ServerClose(c)
    \/ MarkDisconnected(c) \/ NotifyOffline(c)

Next ==
    \/ AgentStep
    \/ \E c \in Conn : Handle(c)
    \/ RegenerateKey
    \/ Restart

Spec == Init /\ [][Next]_vars

(***************************************************************************)
(* Node runs a due timer and resumes a handler whose answer has arrived,   *)
(* and the network delivers what it does not lose.  Nothing obliges an     *)
(* operator to start an agent, or the backend to notice that a peer is     *)
(* gone: neither side sends a ping.                                        *)
(***************************************************************************)
Fairness == \A c \in Conn :
    /\ WF_vars(Reconnect(c)) /\ WF_vars(AgentOpen(c))
    /\ WF_vars(srv[c] = "closed" /\ AgentClose(c))
    /\ WF_vars(Upgrade(c)) /\ WF_vars(Lookup(c))
    /\ WF_vars(KeyInvalid(c) \/ Register(c))
    /\ WF_vars(MarkConnected(c)) /\ WF_vars(Attach(c))
    /\ WF_vars(MarkDisconnected(c)) /\ WF_vars(NotifyOffline(c))

FairSpec == Spec /\ Fairness

-----------------------------------------------------------------------------
(* Properties.                                                             *)

(* The agent never gives up and never doubles up: while its process runs   *)
(* it has one connection that is not closed, or one pending reconnect      *)
(* timer, and not both; a stopped process has neither (ws.js: the only     *)
(* callers of connect() are main() and the timer set in ws.on('close')).   *)
AgentAlwaysTrying ==
    /\ \A c, d \in Conn : Live(c) /\ Live(d) => c = d
    /\ up => (timer <=> \A c \in Conn : ~Live(c))
    /\ ~up => ~timer /\ \A c \in Conn : ~Live(c)

(* The agent's state as AgentClient describes it.                          *)
Phase ==
    IF ~up THEN "stopped"
    ELSE IF timer THEN "waiting"
    ELSE IF \E c \in Conn : agt[c] = "open" THEN "connected" ELSE "trying"

Client == INSTANCE AgentClient
    WITH MaxDelay <- MaxBackoff, phase <- Phase, delay <- backoff

(* The agent's part of the link implements the promise of AgentClient: in  *)
(* particular no answer of the backend short of accepting the upgrade, and *)
(* no order of losses and restarts, resets or skips the reconnect delay.   *)
ClientSpec == Client!Spec

(* Past the checks of the handshake, with its listeners or about to.       *)
Admitted(c) == pc[c] \in {"mark", "markEvent", "ready"}

(* "An existing agent connection using the old key will be rejected on its *)
(* next handshake" (openapi.yaml, regenerate-key): a connection that       *)
(* reached the backend after a regeneration is never admitted, nor named   *)
(* by the registry, with a key older than the one valid when it came.      *)
OldKeyRejected ==
    \A c \in Conn : Admitted(c) \/ agentSockets = c => ckey[c] >= born[c]

(* The backend holds an open socket whose handshake was passed.            *)
LiveOnServer(c) == srv[c] = "open" /\ Admitted(c)

(* Slip: the entry's readyState is not asked for.                          *)
StatusSentByEntry ==
    IF agentSockets # NoConn THEN "agent:online" ELSE "agent:offline"

(* sendCurrentAgentStatuses: what a browser that connects now is told.     *)
StatusSent ==
    IF agentSockets # NoConn /\ srv[agentSockets] = "open"
      THEN "agent:online" ELSE "agent:offline"

(* The status a new browser is sent is "what's actually connected"         *)
(* (clientConnection.ts, sendCurrentAgentStatuses): online exactly while   *)
(* the backend holds an open socket of the agent that passed the checks.   *)
StatusExact ==
    StatusSent = "agent:online" <=> \E c \in Conn : LiveOnServer(c)

(* The status is real in every environment in which the agent's            *)
(* connections do not overlap: also after restarts, losses, failed writes, *)
(* and sockets that close during their handshake.                          *)
StatusIsReal == "overlap" \notin faults => StatusExact

(* No handler of a connection waits for the database.                      *)
Settled == \A c \in Conn : pc[c] \in {"none", "ready"}

(* Where nothing worse happens than lost connections and rejected          *)
(* handshakes, the four records of the agent's state agree whenever no     *)
(* handler is at work: the registry, servers.agent_connected, the newest   *)
(* status event (from which uptime is computed) and the last notice to the *)
(* browsers.                                                               *)
RecordsAgree ==
    faults \subseteq {"drop", "clockDrift"} /\ Settled =>
        /\ agentConnected <=> agentSockets # NoConn
        /\ lastEvent <=> agentSockets # NoConn
        /\ lastNotice = "online" <=> agentSockets # NoConn

(* handleClientCommand relays only if the column says connected and the    *)
(* registry's socket is open.                                              *)
RelayOpen == agentConnected /\ StatusSent = "agent:online"

(* As long as no key is regenerated, no write fails and no connections     *)
(* overlap, commands are relayed whenever the agent is there to take them, *)
(* restarts and sockets closed in mid-handshake notwithstanding.           *)
RelayServesLiveAgent ==
    faults \cap {"overlap", "regenerate", "dbFailure"} = {} /\ Settled =>
        (RelayOpen <=> \E c \in Conn : LiveOnServer(c))

(* What would explain an agent that is not served for long.                *)
Disturbance ==
    \/ AgentStop \/ RegenerateKey \/ Restart
    \/ \E c \in Conn :
        \/ (srv[c] = "open" \/ agt[c] = "connecting") /\ AgentClose(c)
        \/ LookupFails(c)
        \/ ckey[c] = seen[c] /\ KeyInvalid(c)
        \/ agt[c] # "closed" /\ ServerClose(c)

Served(c) == agt[c] = "open" /\ srv[c] = "open" /\ pc[c] = "ready"

(* An agent that keeps running with the valid key, and does not wait for   *)
(* the backend to notice its last connection is gone, is connected and     *)
(* listened to for good once the disturbances end: no rejected or lost     *)
(* attempt leaves it waiting, whatever came before.                        *)
AgentServed ==
    ("overlap" \in faults /\ <>[][~Disturbance]_vars /\ <>[](up /\ agentKey = dbKey))
        => <>[](\E c \in Conn : Served(c))
=============================================================================

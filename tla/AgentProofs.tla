----------------------------- MODULE AgentProofs -----------------------------
(***************************************************************************)
(* Theorems of AgentLink, for every set of connections, every bound and    *)
(* every set of environments; and of AgentStreams, for any sessions and    *)
(* watchers, any bound on the messages under way, and any set of           *)
(* environments.                                                           *)
(***************************************************************************)
EXTENDS AgentLink, AgentStreams, SequenceTheorems, TLAPS

-----------------------------------------------------------------------------
(* AgentLink.                                                              *)

(* Every variable has its type: in particular the reconnect delay stays    *)
(* within the cap of scheduleReconnect in ws.js.                           *)
THEOREM TypeCorrect == Spec => []TypeOK
<1>1. Init => TypeOK
  <2>1. 0 \in 0..MaxKey /\ 0 \in 0..MaxBackoff
    BY BoundAssumption
  <2>2. Init => AgentTypes /\ BackendTypes
    BY <2>1 DEF Init, AgentTypes, BackendTypes
  <2>3. Init => ConnTypes
    BY DEF Init, ConnTypes, AgentEnd, Handshake
  <2>4. Init => KeyTypes
    BY <2>1 DEF Init, KeyTypes
  <2>5. QED
    BY <2>2, <2>3, <2>4 DEF TypeOK
<1>2. TypeOK /\ [Next]_vars => TypeOK'
  <2> SUFFICES ASSUME TypeOK, [Next]_vars PROVE TypeOK'
    OBVIOUS
  <2> USE BoundAssumption DEF TypeOK, AgentTypes, ConnTypes, KeyTypes,
          BackendTypes, AgentEnd, Handshake, agentVars, ends,
          connData, dbVars
  <2>1. CASE AgentStop
    BY <2>1 DEF AgentStop
  <2>2. ASSUME NEW c \in Conn, NEW k \in 0..MaxKey, AgentStart(c, k)
        PROVE  TypeOK'
    <3>0. 0 \in 0..MaxBackoff
      OBVIOUS
    <3>1. AgentTypes'
      <4>1. faults' = faults /\ up' = TRUE /\ agentKey' = k /\ timer' = FALSE
            /\ backoff' = 0
        BY <2>2 DEF AgentStart, Connect
      <4>2. QED
        BY <4>1, <3>0
    <3>2. ConnTypes'
      BY <2>2 DEF AgentStart, Connect
    <3>3. KeyTypes' /\ BackendTypes'
      BY <2>2 DEF AgentStart, Connect
    <3>4. QED
      BY <3>1, <3>2, <3>3
  <2>3. ASSUME NEW c \in Conn, Reconnect(c)
        PROVE  TypeOK'
    BY <2>3 DEF Reconnect, Connect
  <2>4. ASSUME NEW c \in Conn, AgentOpen(c) \/ SendInitialState(c)
        PROVE  TypeOK'
    BY <2>4 DEF AgentOpen, SendInitialState
  <2>5. ASSUME NEW c \in Conn, AgentClose(c)
        PROVE  TypeOK'
    BY <2>5 DEF AgentClose
  <2>6. ASSUME NEW c \in Conn, Upgrade(c)
        PROVE  TypeOK'
    BY <2>6 DEF Upgrade
  <2>7. ASSUME NEW c \in Conn, Lookup(c) \/ Register(c)
        PROVE  TypeOK'
    BY <2>7 DEF Lookup, Register
  <2>8. ASSUME NEW c \in Conn, LookupFails(c) \/ KeyInvalid(c)
        PROVE  TypeOK'
    BY <2>8 DEF LookupFails, KeyInvalid, Reject
  <2>9. ASSUME NEW c \in Conn, MarkConnected(c) \/ Attach(c)
        PROVE  TypeOK'
    BY <2>9 DEF MarkConnected, Attach, Written
  <2>10. ASSUME NEW c \in Conn, Receive(c) \/ ServerClose(c)
         PROVE  TypeOK'
    BY <2>10 DEF Receive, ServerClose
  <2>11. ASSUME NEW c \in Conn, MarkDisconnected(c) \/ NotifyOffline(c)
         PROVE  TypeOK'
    BY <2>11 DEF MarkDisconnected, NotifyOffline, Written
  <2>12. CASE RegenerateKey
    <3>1. dbKey + 1 \in 0..MaxKey
      BY <2>12 DEF RegenerateKey
    <3>2. AgentTypes' /\ ConnTypes'
      BY <2>12 DEF RegenerateKey
    <3>3. KeyTypes' /\ BackendTypes'
      BY <2>12, <3>1 DEF RegenerateKey
    <3>4. QED
      BY <3>2, <3>3
  <2>13. CASE Restart
    BY <2>13 DEF Restart, InFlight
  <2>14. CASE UNCHANGED vars
    BY <2>14 DEF vars
  <2>15. QED
    BY <2>1, <2>2, <2>3, <2>4, <2>5, <2>6, <2>7, <2>8, <2>9, <2>10, <2>11,
       <2>12, <2>13, <2>14 DEF Next, AgentStep, Handle
<1>3. QED
  BY <1>1, <1>2, PTL DEF Spec

(* The agent has one live connection or one pending timer while it runs,   *)
(* and neither once it is stopped (the handlers of ws.js).                 *)
THEOREM NeverGivesUp == Spec => []AgentAlwaysTrying
<1>1. Init => AgentAlwaysTrying
  BY DEF Init, AgentAlwaysTrying, Live
<1>2. TypeOK /\ AgentAlwaysTrying /\ [Next]_vars => AgentAlwaysTrying'
  <2> SUFFICES ASSUME TypeOK, AgentAlwaysTrying, [Next]_vars
               PROVE  AgentAlwaysTrying'
    OBVIOUS
  <2> USE DEF TypeOK, AgentTypes, ConnTypes, AgentEnd, AgentAlwaysTrying, Live, agentVars, ends
  <2>1. CASE AgentStop
    BY <2>1 DEF AgentStop
  <2>2. ASSUME NEW c \in Conn, NEW k \in 0..MaxKey, AgentStart(c, k)
        PROVE  AgentAlwaysTrying'
    BY <2>2 DEF AgentStart, Connect
  <2>3. ASSUME NEW c \in Conn, Reconnect(c)
        PROVE  AgentAlwaysTrying'
    BY <2>3 DEF Reconnect, Connect
  <2>4. ASSUME NEW c \in Conn, AgentOpen(c) \/ Upgrade(c)
        PROVE  AgentAlwaysTrying'
    BY <2>4 DEF AgentOpen, Upgrade
  <2>5. ASSUME NEW c \in Conn, AgentClose(c)
        PROVE  AgentAlwaysTrying'
    BY <2>5 DEF AgentClose, CloseSeen
  <2>6. CASE UNCHANGED <<up, timer, agt>>
    BY <2>6
  <2>7. ASSUME NEW c \in Conn, Handle(c) PROVE Upgrade(c) \/ UNCHANGED <<up, timer, agt>>
    BY <2>7 DEF Handle, Lookup, LookupFails, KeyInvalid, Reject, Register, MarkConnected,
       Attach, Receive, ServerClose, MarkDisconnected, NotifyOffline
  <2>8. ASSUME RegenerateKey \/ Restart \/ UNCHANGED vars \/ \E c \in Conn : SendInitialState(c)
        PROVE UNCHANGED <<up, timer, agt>>
    BY <2>8 DEF RegenerateKey, Restart, vars, SendInitialState
  <2>9. QED
    BY <2>1, <2>2, <2>3, <2>4, <2>5, <2>6, <2>7, <2>8 DEF Next, AgentStep
<1>3. QED
  BY <1>1, <1>2, TypeCorrect, PTL DEF Spec

(* OldKeyRejected is not inductive: whether Register admits a connection   *)
(* depends on the hash its lookup returned, which must be no older than    *)
(* the key that was valid when the connection came; and a connection that  *)
(* has yet to come is nobody's entry.                                      *)
KeyInv ==
    /\ \A c \in Conn : born[c] <= dbKey
    /\ \A c \in Conn : pc[c] = "compare" => born[c] <= seen[c]
    /\ \A c \in Conn : agt[c] = "connecting" => pc[c] = "none" /\ agentSockets # c
    /\ OldKeyRejected

LEMMA KeyInvariant == Spec => []KeyInv
<1> USE DEF KeyInv, OldKeyRejected, Admitted
<1>1. Init => KeyInv
  BY ConnAssumption DEF Init
<1>2. TypeOK /\ KeyInv /\ [Next]_vars => KeyInv'
  <2> SUFFICES ASSUME TypeOK, KeyInv, [Next]_vars
               PROVE  KeyInv'
    OBVIOUS
  <2> USE ConnAssumption, BoundAssumption
      DEF TypeOK, ConnTypes, KeyTypes, BackendTypes, AgentEnd, Handshake,
          agentVars, ends, connData, dbVars
  <2>1. ASSUME NEW c \in Conn, NEW k \in 0..MaxKey, AgentStart(c, k) \/ Reconnect(c)
        PROVE  KeyInv'
    <3>1. \E l \in 0..MaxKey : Connect(c, l)
      BY <2>1 DEF AgentStart, Reconnect, AgentTypes
    <3>2. QED
      BY <3>1 DEF Connect, Free
  <2>2. ASSUME NEW c \in Conn,
               AgentOpen(c) \/ SendInitialState(c) \/ AgentClose(c)
        PROVE  KeyInv'
    BY <2>2 DEF AgentOpen, SendInitialState, AgentClose
  <2>3. CASE AgentStop
    BY <2>3 DEF AgentStop
  <2>4. ASSUME NEW c \in Conn, Upgrade(c)
        PROVE  KeyInv'
    BY <2>4 DEF Upgrade
  <2>5. ASSUME NEW c \in Conn, Lookup(c)
        PROVE  KeyInv'
    BY <2>5 DEF Lookup
  <2>6. ASSUME NEW c \in Conn, LookupFails(c) \/ KeyInvalid(c)
        PROVE  KeyInv'
    BY <2>6 DEF LookupFails, KeyInvalid, Reject
  <2>7. ASSUME NEW c \in Conn, Register(c)
        PROVE  KeyInv'
    BY <2>7 DEF Register
  <2>8. ASSUME NEW c \in Conn,
               \/ MarkConnected(c) \/ Attach(c)
               \/ MarkDisconnected(c) \/ NotifyOffline(c)
        PROVE  KeyInv'
    <3>1. UNCHANGED <<agt, ckey, seen, born, agentSockets, dbKey>>
      BY <2>8 DEF MarkConnected, Attach, MarkDisconnected, NotifyOffline
    <3>2. CASE MarkConnected(c) \/ Attach(c)
      BY <3>1, <3>2 DEF MarkConnected, Attach
    <3>3. CASE MarkDisconnected(c) \/ NotifyOffline(c)
      BY <3>1, <3>3 DEF MarkDisconnected, NotifyOffline
    <3>4. QED
      BY <2>8, <3>2, <3>3
  <2>9. ASSUME NEW c \in Conn, Receive(c) \/ ServerClose(c)
        PROVE  KeyInv'
    BY <2>9 DEF Receive, ServerClose
  <2>10. CASE RegenerateKey
    BY <2>10 DEF RegenerateKey
  <2>11. CASE Restart
    BY <2>11 DEF Restart
  <2>12. CASE UNCHANGED vars
    BY <2>12 DEF vars
  <2>13. QED
    BY <2>1, <2>2, <2>3, <2>4, <2>5, <2>6, <2>7, <2>8, <2>9, <2>10, <2>11,
       <2>12 DEF Next, AgentStep, Handle
<1>3. QED
  BY <1>1, <1>2, TypeCorrect, PTL DEF Spec

(* A connection that came after a regeneration is never admitted or        *)
(* registered with an older key (handleAgentConnection).                   *)
THEOREM StaleKeysRejected == Spec => []OldKeyRejected
<1>1. KeyInv => OldKeyRejected
  BY DEF KeyInv
<1>2. QED
  BY <1>1, KeyInvariant, PTL

-----------------------------------------------------------------------------
(* c is in use: by the agent, by the backend, or by a handler at work.     *)
Busy(c) == Live(c) \/ srv[c] = "open" \/ pc[c] \notin {"none", "ready"}

(* StatusExact is not inductive: that the close of one socket, or the      *)
(* admission of another, leaves the entry right depends on there being no  *)
(* second connection in use, and on close handlers running for closed      *)
(* sockets only.                                                           *)
StatusInv == "overlap" \notin faults =>
    /\ \A c, d \in Conn : Busy(c) /\ Busy(d) => c = d
    /\ \A c \in Conn : pc[c] \in {"unmark", "unmarkEvent"} => srv[c] = "closed"
    /\ \A c \in Conn : LiveOnServer(c) => agentSockets = c
    /\ \A c \in Conn : agentSockets = c /\ srv[c] = "open" => Admitted(c)

LEMMA StatusInvariant == Spec => []StatusInv
<1> USE DEF StatusInv, LiveOnServer, Admitted
<1>1. Init => StatusInv
  BY ConnAssumption DEF Init, Busy, Live
<1>2. TypeOK /\ AgentAlwaysTrying /\ KeyInv /\ StatusInv /\ [Next]_vars => StatusInv'
  <2> SUFFICES ASSUME TypeOK, AgentAlwaysTrying, KeyInv, StatusInv, [Next]_vars,
                      "overlap" \notin faults'
               PROVE  StatusInv'
    OBVIOUS
  <2>0. faults' = faults
    BY DEF Next, AgentStep, Handle, vars, agentVars, AgentStop, AgentStart,
       Reconnect, Connect, AgentOpen, SendInitialState, AgentClose, Upgrade,
       Lookup, LookupFails, KeyInvalid, Reject, Register, MarkConnected, Attach,
       Receive, ServerClose, MarkDisconnected, NotifyOffline, RegenerateKey, Restart
  <2> USE <2>0, ConnAssumption
      DEF TypeOK, ConnTypes, BackendTypes, AgentEnd, Handshake, Busy, Live,
          agentVars, ends, connData, dbVars
  <2>1. ASSUME NEW c \in Conn, NEW k \in 0..MaxKey, AgentStart(c, k) \/ Reconnect(c)
        PROVE  StatusInv'
    <3>1. \A d \in Conn : ~Busy(d)
      BY <2>1 DEF AgentStart, Reconnect, Connect, MayConnect, AgentAlwaysTrying
    <3>2. /\ pc' = [pc EXCEPT ![c] = "none"] /\ agt' = [agt EXCEPT ![c] = "connecting"]
          /\ UNCHANGED <<srv, agentSockets>>
      BY <2>1 DEF AgentStart, Reconnect, Connect
    <3>3. QED
      BY <3>1, <3>2
  <2>2. ASSUME NEW c \in Conn, AgentOpen(c) \/ SendInitialState(c) \/ AgentClose(c)
        PROVE  StatusInv'
    BY <2>2 DEF AgentOpen, SendInitialState, AgentClose
  <2>3. CASE AgentStop
    BY <2>3 DEF AgentStop
  <2>4. ASSUME NEW c \in Conn, Upgrade(c)
        PROVE  StatusInv'
    BY <2>4 DEF Upgrade, KeyInv
  <2>5. ASSUME NEW c \in Conn, Lookup(c)
        PROVE  StatusInv'
    BY <2>5 DEF Lookup
  <2>6. ASSUME NEW c \in Conn, LookupFails(c) \/ KeyInvalid(c)
        PROVE  StatusInv'
    BY <2>6 DEF LookupFails, KeyInvalid, Reject
  <2>7. ASSUME NEW c \in Conn, Register(c)
        PROVE  StatusInv'
    <3>1. /\ pc[c] = "compare" /\ agentSockets' = c
          /\ pc' = [pc EXCEPT ![c] = "mark"] /\ UNCHANGED <<agt, srv>>
      BY <2>7 DEF Register
    <3>2. \A d \in Conn : Busy(d)' => d = c
      BY <3>1
    <3>3. QED
      BY <3>1, <3>2
  <2>8. ASSUME NEW c \in Conn, MarkConnected(c) \/ Attach(c)
        PROVE  StatusInv'
    <3>1. PICK p \in {"markEvent", "ready"} :
            /\ pc[c] \in {"mark", "markEvent"}
            /\ pc' = [pc EXCEPT ![c] = p] /\ UNCHANGED <<agt, srv, agentSockets>>
      BY <2>8 DEF MarkConnected, Attach
    <3>2. \A d \in Conn : Busy(d)' => Busy(d)
      BY <3>1
    <3>3. \A d \in Conn : Admitted(d)' <=> Admitted(d)
      BY <3>1
    <3>4. \A d \in Conn : pc'[d] \in {"unmark", "unmarkEvent"} => srv'[d] = "closed"
      BY <3>1
    <3>5. \A d \in Conn : LiveOnServer(d)' => agentSockets' = d
      BY <3>1, <3>3
    <3>6. \A d \in Conn : agentSockets' = d /\ srv'[d] = "open" => Admitted(d)'
      BY <3>1, <3>3
    <3>7. QED
      BY <3>2, <3>4, <3>5, <3>6
  <2>9. ASSUME NEW c \in Conn, MarkDisconnected(c) \/ NotifyOffline(c)
        PROVE  StatusInv'
    <3>1. PICK p \in {"unmarkEvent", "none"} :
            /\ pc[c] \in {"unmark", "unmarkEvent"}
            /\ pc' = [pc EXCEPT ![c] = p] /\ UNCHANGED <<agt, srv, agentSockets>>
      BY <2>9 DEF MarkDisconnected, NotifyOffline
    <3>2. \A d \in Conn : Busy(d)' => Busy(d)
      BY <3>1
    <3>3. \A d \in Conn : Admitted(d)' <=> Admitted(d)
      BY <3>1
    <3>4. \A d \in Conn : pc'[d] \in {"unmark", "unmarkEvent"} => srv'[d] = "closed"
      BY <3>1
    <3>5. \A d \in Conn : LiveOnServer(d)' => agentSockets' = d
      BY <3>1, <3>3
    <3>6. \A d \in Conn : agentSockets' = d /\ srv'[d] = "open" => Admitted(d)'
      BY <3>1, <3>3
    <3>7. QED
      BY <3>2, <3>4, <3>5, <3>6
  <2>10. ASSUME NEW c \in Conn, Receive(c) \/ ServerClose(c)
         PROVE  StatusInv'
    BY <2>10 DEF Receive, ServerClose
  <2>11. CASE RegenerateKey
    BY <2>11 DEF RegenerateKey
  <2>12. CASE Restart
    BY <2>12 DEF Restart
  <2>13. CASE UNCHANGED vars
    BY <2>13 DEF vars
  <2>14. QED
    BY <2>1, <2>2, <2>3, <2>4, <2>5, <2>6, <2>7, <2>8, <2>9, <2>10, <2>11,
       <2>12, <2>13 DEF Next, AgentStep, Handle
<1>3. QED
  BY <1>1, <1>2, TypeCorrect, NeverGivesUp, KeyInvariant, PTL DEF Spec

(* As long as the agent's connections do not overlap, the status sent to a *)
(* browser is the real one (sendCurrentAgentStatuses), whatever else the   *)
(* environment does.                                                       *)
THEOREM StatusReal == Spec => []StatusIsReal
<1>1. TypeOK /\ StatusInv => StatusIsReal
  BY ConnAssumption DEF TypeOK, BackendTypes, StatusInv, StatusIsReal, StatusExact,
     StatusSent, LiveOnServer, Admitted
<1>2. QED
  BY <1>1, StatusInvariant, TypeCorrect, PTL

-----------------------------------------------------------------------------
(* The agent's part of the link implements AgentClient: each of its steps  *)
(* is a step or a stutter of the abstract client.                          *)
THEOREM ImplementsClient == Spec => ClientSpec
<1> USE DEF Client!vars, Client!Next, Client!Start, Client!Stop, Client!Retry,
            Client!Open, Client!Lose, Client!Longer
<1>1. Init => Client!Init
  BY DEF Init, Client!Init, Phase
<1>2. TypeOK /\ AgentAlwaysTrying /\ AgentAlwaysTrying' /\ [Next]_vars
        => [Client!Next]_Client!vars
  <2> SUFFICES ASSUME TypeOK, AgentAlwaysTrying, AgentAlwaysTrying', [Next]_vars
               PROVE  [Client!Next]_Client!vars
    OBVIOUS
  <2> USE DEF TypeOK, AgentTypes, ConnTypes, AgentEnd, AgentAlwaysTrying, Live,
              agentVars, ends
  <2>1. CASE AgentStop
    BY <2>1 DEF AgentStop, Phase
  <2>2. ASSUME NEW c \in Conn, NEW k \in 0..MaxKey, AgentStart(c, k)
        PROVE  Client!Start
    BY <2>2 DEF AgentStart, Connect, Phase
  <2>3. ASSUME NEW c \in Conn, Reconnect(c)
        PROVE  Client!Retry
    BY <2>3 DEF Reconnect, Connect, Phase
  <2>4. ASSUME NEW c \in Conn, AgentOpen(c)
        PROVE  Client!Open
    BY <2>4 DEF AgentOpen, Phase
  <2>5. ASSUME NEW c \in Conn, AgentClose(c)
        PROVE  Client!Lose
    BY <2>5 DEF AgentClose, CloseSeen, Phase
  <2>6. ASSUME NEW c \in Conn, Upgrade(c)
        PROVE  UNCHANGED Client!vars
    BY <2>6 DEF Upgrade, Phase
  <2>7. CASE UNCHANGED <<up, timer, backoff, agt>>
    BY <2>7 DEF Phase
  <2>8. ASSUME NEW c \in Conn, Handle(c)
        PROVE  Upgrade(c) \/ UNCHANGED <<up, timer, backoff, agt>>
    BY <2>8 DEF Handle, Lookup, LookupFails, KeyInvalid, Reject, Register,
       MarkConnected, Attach, Receive, ServerClose, MarkDisconnected, NotifyOffline
  <2>9. ASSUME \/ RegenerateKey \/ Restart \/ UNCHANGED vars
               \/ \E c \in Conn : SendInitialState(c)
        PROVE  UNCHANGED <<up, timer, backoff, agt>>
    BY <2>9 DEF RegenerateKey, Restart, vars, SendInitialState
  <2>10. QED
    BY <2>1, <2>2, <2>3, <2>4, <2>5, <2>6, <2>7, <2>8, <2>9 DEF Next, AgentStep
<1>3. QED
  BY <1>1, <1>2, TypeCorrect, NeverGivesUp, PTL DEF Spec, ClientSpec, Client!Spec

-----------------------------------------------------------------------------
(* The records of the agent's state.                                       *)

LEMMA FaultsFixed == ASSUME [Next]_vars PROVE faults' = faults
BY DEF Next, AgentStep, Handle, vars, agentVars, AgentStop, AgentStart,
   Reconnect, Connect, AgentOpen, SendInitialState, AgentClose, Upgrade,
   Lookup, LookupFails, KeyInvalid, Reject, Register, MarkConnected, Attach,
   Receive, ServerClose, MarkDisconnected, NotifyOffline, RegenerateKey, Restart

(* Once markAgentConnected has landed for a socket that is still open, only *)
(* the close of that socket takes the column back.                         *)
ColumnInv ==
    faults \cap {"overlap", "regenerate", "dbFailure"} = {} =>
        \A c \in Conn : srv[c] = "open" /\ pc[c] \in {"markEvent", "ready"} => agentConnected

LEMMA ColumnInvariant == Spec => []ColumnInv
<1>1. Init => ColumnInv
  BY DEF Init, ColumnInv
<1>2. TypeOK /\ KeyInv /\ StatusInv /\ ColumnInv /\ [Next]_vars => ColumnInv'
  <2> SUFFICES ASSUME TypeOK, KeyInv, StatusInv, ColumnInv, [Next]_vars,
                      (faults \cap {"overlap", "regenerate", "dbFailure"})' = {}
               PROVE  ColumnInv'
    BY DEF ColumnInv
  <2>0. /\ "overlap" \notin faults /\ "regenerate" \notin faults /\ "dbFailure" \notin faults
        /\ \A c \in Conn : srv[c] = "open" /\ pc[c] \in {"markEvent", "ready"} => agentConnected
    BY FaultsFixed DEF ColumnInv
  <2> USE <2>0 DEF ColumnInv, TypeOK, ConnTypes, BackendTypes, AgentEnd, Handshake,
          agentVars, ends, connData, dbVars
  <2>1. ASSUME NEW c \in Conn, NEW k \in 0..MaxKey, AgentStart(c, k) \/ Reconnect(c)
        PROVE  ColumnInv'
    BY <2>1 DEF AgentStart, Reconnect, Connect
  <2>2. ASSUME NEW c \in Conn, AgentOpen(c) \/ SendInitialState(c) \/ AgentClose(c)
        PROVE  ColumnInv'
    BY <2>2 DEF AgentOpen, SendInitialState, AgentClose
  <2>3. CASE AgentStop
    BY <2>3 DEF AgentStop
  <2>4. ASSUME NEW c \in Conn, Upgrade(c) \/ Lookup(c) \/ Register(c) \/ Receive(c)
        PROVE  ColumnInv'
    BY <2>4 DEF Upgrade, Lookup, Register, Receive
  <2>5. ASSUME NEW c \in Conn, LookupFails(c) \/ KeyInvalid(c)
        PROVE  ColumnInv'
    BY <2>5 DEF LookupFails, KeyInvalid, Reject
  <2>6. ASSUME NEW c \in Conn, MarkConnected(c)
        PROVE  ColumnInv'
    <3>1. agentConnected' = TRUE
      BY <2>6 DEF MarkConnected, Written
    <3>2. QED
      BY <3>1
  <2>7. ASSUME NEW c \in Conn, Attach(c)
        PROVE  ColumnInv'
    BY <2>7 DEF Attach
  <2>8. ASSUME NEW c \in Conn, ServerClose(c)
        PROVE  ColumnInv'
    BY <2>8 DEF ServerClose
  <2>9. ASSUME NEW c \in Conn, MarkDisconnected(c)
        PROVE  ColumnInv'
    <3>1. pc[c] = "unmark" /\ srv' = srv /\ pc' = [pc EXCEPT ![c] = "unmarkEvent"]
      BY <2>9 DEF MarkDisconnected
    <3>2. \A d \in Conn : srv[d] # "open"
      BY <3>1 DEF StatusInv, Busy
    <3>3. QED
      BY <3>1, <3>2
  <2>10. ASSUME NEW c \in Conn, NotifyOffline(c)
        PROVE  ColumnInv'
    BY <2>10 DEF NotifyOffline
  <2>11. CASE RegenerateKey
    BY <2>11 DEF RegenerateKey
  <2>12. CASE Restart
    BY <2>12 DEF Restart
  <2>13. CASE UNCHANGED vars
    BY <2>13 DEF vars
  <2>14. QED
    BY <2>1, <2>2, <2>3, <2>4, <2>5, <2>6, <2>7, <2>8, <2>9, <2>10, <2>11, <2>12, <2>13
       DEF Next, AgentStep, Handle
<1>3. QED
  BY <1>1, <1>2, TypeCorrect, KeyInvariant, StatusInvariant, PTL DEF Spec

(* With no key regenerated, no failed write and no overlap, commands are   *)
(* relayed whenever the agent is there to take them (handleClientCommand). *)
THEOREM AgentIsServed == Spec => []RelayServesLiveAgent
<1>1. StatusIsReal /\ ColumnInv => RelayServesLiveAgent
  BY DEF StatusIsReal, StatusExact, ColumnInv, RelayServesLiveAgent, RelayOpen, LiveOnServer,
     Admitted, Settled
<1>2. QED
  BY <1>1, StatusReal, ColumnInvariant, PTL

(* Where each record stands at each step of the handlers: a record follows *)
(* the registry when the handler that changed it is done.                  *)
RecordsInv == faults \subseteq {"drop", "clockDrift"} =>
    /\ \A c \in Conn : pc[c] \in {"lookup", "compare", "mark", "markEvent", "ready"} => srv[c] = "open"
    /\ \A c \in Conn : agentSockets = c <=> Admitted(c)
    /\ agentConnected <=> \E c \in Conn : pc[c] \in {"markEvent", "ready", "unmark"}
    /\ lastEvent <=> \E c \in Conn : pc[c] \in {"ready", "unmark", "unmarkEvent"}
    /\ lastNotice = "online" <=> \E c \in Conn : pc[c] \in {"ready", "unmark", "unmarkEvent"}

LEMMA RecordsInvariant == Spec => []RecordsInv
<1>1. Init => RecordsInv
  BY ConnAssumption DEF Init, RecordsInv, Admitted
<1>2. TypeOK /\ AgentAlwaysTrying /\ KeyInv /\ StatusInv /\ RecordsInv /\ [Next]_vars => RecordsInv'
  <2> SUFFICES ASSUME TypeOK, AgentAlwaysTrying, KeyInv, StatusInv, RecordsInv, [Next]_vars,
                      (faults \subseteq {"drop", "clockDrift"})'
               PROVE  RecordsInv'
    BY DEF RecordsInv
  <2>0. faults' = faults /\ faults \cap (FaultKinds \ {"drop", "clockDrift"}) = {}
    BY FaultsFixed DEF FaultKinds
  <2>00. \A f \in {"restart", "regenerate", "dbFailure", "overlap", "earlyClose"} : f \notin faults
    BY <2>0 DEF FaultKinds
  <2>i. /\ \A c \in Conn : pc[c] \in {"lookup", "compare", "mark", "markEvent", "ready"} => srv[c] = "open"
        /\ \A c \in Conn : agentSockets = c <=> Admitted(c)
        /\ agentConnected <=> \E c \in Conn : pc[c] \in {"markEvent", "ready", "unmark"}
        /\ lastEvent <=> \E c \in Conn : pc[c] \in {"ready", "unmark", "unmarkEvent"}
        /\ lastNotice = "online" <=> \E c \in Conn : pc[c] \in {"ready", "unmark", "unmarkEvent"}
        /\ \A c, d \in Conn : Busy(c) /\ Busy(d) => c = d
    BY <2>0, <2>00 DEF RecordsInv, StatusInv
  (* The handler of c moves on, and nobody else is at work.                *)
  <2>1. ASSUME NEW c \in Conn, NEW p \in Handshake, pc' = [pc EXCEPT ![c] = p],
               srv' = [srv EXCEPT ![c] = srv'[c]],
               Busy(c) \/ \A d \in Conn : ~Busy(d),
               p \in {"lookup", "compare", "mark", "markEvent", "ready"} => srv'[c] = "open",
               agentSockets' = IF p \in {"mark", "markEvent", "ready"} THEN c ELSE NoConn,
               agentConnected' <=> p \in {"markEvent", "ready", "unmark"},
               lastEvent' <=> p \in {"ready", "unmark", "unmarkEvent"},
               lastNotice' = "online" <=> p \in {"ready", "unmark", "unmarkEvent"}
        PROVE  RecordsInv'
    <3>1. \A d \in Conn : d # c => pc[d] = "none" /\ pc'[d] = "none" /\ srv'[d] = srv[d]
      <4> SUFFICES ASSUME NEW d \in Conn, d # c PROVE pc[d] = "none"
        BY <2>1 DEF TypeOK, ConnTypes
      <4>1. ~Busy(d)
        BY <2>1, <2>i
      <4>2. QED
        BY <2>i, <4>1 DEF Busy
    <3>2. pc'[c] = p
      BY <2>1 DEF TypeOK, ConnTypes
    <3>3. QED
      BY <2>1, <3>1, <3>2, ConnAssumption DEF RecordsInv, Admitted
  (* The backend does nothing, or nothing that the records are about.      *)
  <2>2. ASSUME UNCHANGED <<srv, pc, agentSockets, agentConnected, lastEvent, lastNotice>>
        PROVE  RecordsInv'
    BY <2>2, <2>i DEF RecordsInv, Admitted
  <2>3. ASSUME NEW c \in Conn, NEW k, AgentStart(c, k) \/ Reconnect(c)
        PROVE  RecordsInv'
    <3>1. /\ Free(c) /\ MayConnect /\ \A d \in Conn : ~Live(d)
      BY <2>3 DEF AgentStart, Reconnect, Connect, AgentAlwaysTrying
    <3>2. \A d \in Conn : ~Busy(d)
      BY <2>00, <3>1 DEF MayConnect, Busy
    <3>3. \A d \in Conn : pc[d] = "none"
      BY <2>i, <3>2 DEF Busy, TypeOK, ConnTypes, Handshake
    <3>4. /\ pc' = [pc EXCEPT ![c] = "none"]
          /\ UNCHANGED <<srv, agentSockets, agentConnected, lastEvent, lastNotice>>
      BY <2>3 DEF AgentStart, Reconnect, Connect, dbVars
    <3>5. pc' = pc
      BY <3>3, <3>4 DEF TypeOK, ConnTypes
    <3>6. QED
      BY <2>2, <3>4, <3>5
  <2>4. ASSUME NEW c \in Conn, Upgrade(c) PROVE RecordsInv'
    <3>1. Busy(c) /\ pc[c] = "none" /\ agentSockets # c
      BY <2>4 DEF Upgrade, Busy, Live, KeyInv
    <3>2. \A d \in Conn : pc[d] = "none"
      BY <2>i, <3>1 DEF Busy, TypeOK, ConnTypes, Handshake
    <3>3. agentSockets = NoConn /\ ~agentConnected /\ ~lastEvent /\ lastNotice # "online"
      BY <2>i, <3>2 DEF TypeOK, BackendTypes, Admitted
    <3>4. /\ srv' = [srv EXCEPT ![c] = "open"] /\ pc' = [pc EXCEPT ![c] = "lookup"]
          /\ UNCHANGED <<agentSockets, agentConnected, lastEvent, lastNotice>>
      BY <2>4 DEF Upgrade, dbVars
    <3>5. srv'[c] = "open"
      BY <3>4 DEF TypeOK, ConnTypes
    <3>6. QED
      BY <2>1, <3>1, <3>3, <3>4, <3>5 DEF Handshake
  <2>5. ASSUME NEW c \in Conn, pc[c] # "none", Busy(c)
        PROVE  /\ \A d \in Conn : d # c => pc[d] = "none"
               /\ agentSockets = IF Admitted(c) THEN c ELSE NoConn
               /\ agentConnected <=> pc[c] \in {"markEvent", "ready", "unmark"}
               /\ lastEvent <=> pc[c] \in {"ready", "unmark", "unmarkEvent"}
               /\ lastNotice = "online" <=> pc[c] \in {"ready", "unmark", "unmarkEvent"}
    <3>1. \A d \in Conn : d # c => pc[d] = "none"
      BY <2>5, <2>i DEF Busy, TypeOK, ConnTypes, Handshake
    <3>2. QED
      BY <2>i, <3>1 DEF Admitted, TypeOK, BackendTypes
  <2>6. ASSUME NEW c \in Conn,
               \/ Lookup(c) \/ LookupFails(c) \/ KeyInvalid(c) \/ Register(c) \/ MarkConnected(c)
               \/ Attach(c) \/ MarkDisconnected(c) \/ NotifyOffline(c)
        PROVE  RecordsInv'
    <3>1. pc[c] \in {"lookup", "compare", "mark", "markEvent", "unmark", "unmarkEvent"} /\ Busy(c)
      BY <2>6 DEF Lookup, LookupFails, KeyInvalid, Register, MarkConnected, Attach, MarkDisconnected,
         NotifyOffline, Busy
    <3>2. /\ pc[c] \in {"lookup", "compare", "mark", "markEvent"} => srv[c] = "open"
          /\ agentSockets = IF Admitted(c) THEN c ELSE NoConn
          /\ agentConnected <=> pc[c] \in {"markEvent", "ready", "unmark"}
          /\ lastEvent <=> pc[c] \in {"ready", "unmark", "unmarkEvent"}
          /\ lastNotice = "online" <=> pc[c] \in {"ready", "unmark", "unmarkEvent"}
      BY <2>5, <2>i, <3>1
    <3>3. srv' = [srv EXCEPT ![c] = srv'[c]]
      BY <2>6 DEF Lookup, LookupFails, KeyInvalid, Reject, Register, MarkConnected, Attach,
         MarkDisconnected, NotifyOffline, ends, TypeOK, ConnTypes
    <3> USE DEF ends, dbVars, Handshake, Admitted, Written
    <3>4. CASE Lookup(c)
      BY <2>1, <3>1, <3>2, <3>3, <3>4 DEF Lookup
    <3>5. CASE LookupFails(c)
      BY <2>00, <3>5 DEF LookupFails
    <3>6. CASE KeyInvalid(c)
      BY <2>1, <3>1, <3>2, <3>3, <3>6 DEF KeyInvalid, Reject
    <3>7. CASE Register(c)
      BY <2>1, <3>1, <3>2, <3>3, <3>7 DEF Register
    <3>8. CASE MarkConnected(c)
      BY <2>00, <2>1, <3>1, <3>2, <3>3, <3>8 DEF MarkConnected
    <3>9. CASE Attach(c)
      BY <2>00, <2>1, <3>1, <3>2, <3>3, <3>9 DEF Attach
    <3>10. CASE MarkDisconnected(c)
      BY <2>00, <2>1, <3>1, <3>2, <3>3, <3>10 DEF MarkDisconnected
    <3>11. CASE NotifyOffline(c)
      BY <2>00, <2>1, <3>1, <3>2, <3>3, <3>11 DEF NotifyOffline
    <3>12. QED
      BY <2>6, <3>4, <3>5, <3>6, <3>7, <3>8, <3>9, <3>10, <3>11
  <2>7. ASSUME NEW c \in Conn, ServerClose(c) PROVE RecordsInv'
    <3>1. /\ pc[c] = "ready" /\ Busy(c) /\ srv' = [srv EXCEPT ![c] = "closed"]
          /\ pc' = [pc EXCEPT ![c] = "unmark"] /\ agentSockets' = NoConn
          /\ UNCHANGED <<agentConnected, lastEvent, lastNotice>>
      BY <2>00, <2>7 DEF ServerClose, Busy, dbVars
    <3>2. agentConnected /\ lastEvent /\ lastNotice = "online"
      BY <2>5, <3>1
    <3>3. QED
      BY <2>1, <3>1, <3>2 DEF Handshake, TypeOK, ConnTypes
  <2>8. ASSUME NEW c \in Conn, AgentOpen(c) \/ SendInitialState(c) \/ AgentClose(c) \/ Receive(c)
        PROVE  RecordsInv'
    BY <2>2, <2>8 DEF AgentOpen, SendInitialState, AgentClose, Receive, ends, dbVars
  <2>9. CASE AgentStop \/ RegenerateKey \/ Restart
    BY <2>00, <2>2, <2>9 DEF AgentStop, RegenerateKey, Restart, ends, dbVars
  <2>10. CASE UNCHANGED vars
    BY <2>2, <2>10 DEF vars, dbVars
  <2>11. ASSUME NEW c \in Conn, Handle(c) PROVE RecordsInv'
    BY <2>4, <2>6, <2>7, <2>8, <2>11 DEF Handle
  <2>12. CASE AgentStep
    BY <2>3, <2>8, <2>9, <2>12 DEF AgentStep
  <2>13. QED
    BY <2>9, <2>10, <2>11, <2>12 DEF Next
<1>3. QED
  BY <1>1, <1>2, TypeCorrect, NeverGivesUp, KeyInvariant, StatusInvariant, PTL DEF Spec

(* Where only connections are lost and handshakes rejected, the registry,  *)
(* the column, the newest event row and the last notice agree whenever no  *)
(* handler is at work (handleAgentConnection).                             *)
THEOREM RecordsAgreeAtRest == Spec => []RecordsAgree
<1>1. TypeOK /\ RecordsInv => RecordsAgree
  BY ConnAssumption DEF RecordsInv, RecordsAgree, Settled, Admitted, TypeOK, BackendTypes
<1>2. QED
  BY <1>1, TypeCorrect, RecordsInvariant, PTL

-----------------------------------------------------------------------------
(* AgentStreams.                                                          *)

(* The mounts there have been: no shell, nor a start, of another, a start  *)
(* before its exec call before its stream; and the modal that is shown was *)
(* mounted.                                                                *)
StreamsFit ==
    /\ shown \in Session => mounts[shown] > 0
    /\ \A s \in Session, i \in Mounts :
          <<s, i>> \in starting \cup live \/ <<"start", s, i>> \in relay => i <= mounts[s]
    /\ \A s \in Session, i \in Mounts :
          /\ <<"start", s, i>> \in relay => <<s, i>> \notin starting \cup live
          /\ <<s, i>> \in starting => <<s, i>> \notin live

(* What the 'open' and 'close' of the agent's connection leave behind.     *)
(* Without slow answers of Docker nothing is being opened while there is   *)
(* no connection, and what is opening is what stopEvents is for.           *)
StreamsInv ==
    /\ SessionsCleanedUp
    /\ "slowExec" \notin env /\ ~link => starting = {}
    /\ "slowEvents" \notin env =>
          \A w \in Watch : watcher[w] # "free" => stopEvents = w /\ link

(* A sequence without one of its elements.                                 *)
LEMMA Removed ==
    ASSUME NEW S, NEW q \in Seq(S), NEW i \in 1..Len(q)
    PROVE  /\ RemoveAt(q, i) \in Seq(S) /\ Len(RemoveAt(q, i)) = Len(q) - 1
           /\ i = 1 => \A j \in 1..Len(q) - 1 : RemoveAt(q, i)[j] = q[j + 1]
<1> DEFINE front == SubSeq(q, 1, i - 1)
           back == SubSeq(q, i + 1, Len(q))
<1>1. Len(q) \in Nat /\ i \in Nat /\ i >= 1 /\ i <= Len(q) /\ \A j \in 1..Len(q) : q[j] \in S
  OBVIOUS
<1>2. front \in Seq(S) /\ Len(front) = i - 1
  <2>1. front \in Seq(S) /\ Len(front) = IF 1 <= i - 1 THEN i - 1 - 1 + 1 ELSE 0
    BY <1>1, SubSeqProperties
  <2>2. QED
    BY <1>1, <2>1
<1>3. back \in Seq(S) /\ Len(back) = Len(q) - i /\ \A j \in 1..Len(q) - i : back[j] = q[i + j]
  <2>1. /\ back \in Seq(S)
        /\ Len(back) = IF i + 1 <= Len(q) THEN Len(q) - (i + 1) + 1 ELSE 0
        /\ \A j \in 1..Len(q) - (i + 1) + 1 : back[j] = q[(i + 1) + j - 1]
    BY <1>1, SubSeqProperties
  <2>2. QED
    BY <1>1, <2>1
<1>4. RemoveAt(q, i) = front \o back
  BY DEF RemoveAt
<1> HIDE DEF front, back
<1>5. /\ front \o back \in Seq(S) /\ Len(front \o back) = Len(front) + Len(back)
      /\ \A j \in 1..Len(front) + Len(back) :
            (front \o back)[j] = IF j <= Len(front) THEN front[j] ELSE back[j - Len(front)]
  BY <1>2, <1>3, ConcatProperties
<1>c. Len(front \o back) = Len(q) - 1
  BY <1>1, <1>2, <1>3, <1>5
<1>6. ASSUME i = 1, NEW j \in 1..Len(q) - 1 PROVE (front \o back)[j] = q[j + 1]
  BY <1>1, <1>2, <1>3, <1>5, <1>6
<1>7. QED
  BY <1>4, <1>5, <1>c, <1>6

LEMMA Prefix ==
    ASSUME NEW S, NEW q \in Seq(S), NEW k \in 0..Len(q)
    PROVE  /\ SubSeq(q, 1, k) \in Seq(S) /\ Len(SubSeq(q, 1, k)) = k
           /\ \A i \in 1..k : SubSeq(q, 1, k)[i] = q[i]
<1>1. k \in Int /\ 1 \in Int /\ k >= 0 /\ \A i \in 1..k : q[i] \in S
  OBVIOUS
<1>2. /\ SubSeq(q, 1, k) \in Seq(S) /\ Len(SubSeq(q, 1, k)) = IF 1 <= k THEN k - 1 + 1 ELSE 0
      /\ \A i \in 1..k - 1 + 1 : SubSeq(q, 1, k)[i] = q[1 + i - 1]
  BY <1>1, SubSeqProperties
<1>3. QED
  BY <1>1, <1>2

LEMMA StreamTypes == StreamSpec => [](StreamTypeOK /\ StreamsFit)
<1>1. StreamInit => StreamTypeOK /\ StreamsFit
  <2> SUFFICES ASSUME StreamInit PROVE StreamTypeOK /\ StreamsFit
    OBVIOUS
  <2>1. outbox = <<>> /\ <<>> \in Seq(Kinds \X Session)
    BY DEF StreamInit
  <2>2. watcher \in [Watch -> {"free", "opening", "open"}]
    BY DEF StreamInit
  <2>3. link \in BOOLEAN /\ page \in BOOLEAN /\ status \in Status
    BY DEF StreamInit, Status
  <2>4. mounts \in [Session -> 0..MaxMounts]
    BY MountsAssumption DEF StreamInit
  <2>5. StreamTypeOK
    BY <2>1, <2>2, <2>3, <2>4 DEF StreamInit, StreamTypeOK
  <2>6. StreamsFit
    BY SentinelAssumption DEF StreamInit, StreamsFit
  <2>7. QED
    BY <2>5, <2>6
<1>2. StreamTypeOK /\ StreamsFit /\ [StreamNext]_streamVars => StreamTypeOK' /\ StreamsFit'
  <2> SUFFICES ASSUME StreamTypeOK, StreamsFit, [StreamNext]_streamVars
               PROVE  StreamTypeOK' /\ StreamsFit'
    OBVIOUS
  <2> USE MountsAssumption DEF StreamTypeOK, StreamsFit, execVars, clientVars, eventVars
  <2>o. ASSUME NEW kind \in {"ready", "data", "exit", "error"}, NEW s \in Session
        PROVE  Sent(kind, s) \in Seq(Kinds \X Session)
    <3>1. <<kind, s>> \in Kinds \X Session
      BY DEF Kinds
    <3>2. QED
      BY <3>1 DEF Sent
  <2>m. ASSUME NEW s \in Session, Mount(s)
        PROVE  /\ mounts' \in [Session -> 0..MaxMounts] /\ mounts[s] + 1 \in Mounts
               /\ mounts'[s] = mounts[s] + 1 /\ \A t \in Session : t # s => mounts'[t] = mounts[t]
               /\ relay' = relay \cup {<<"start", s, mounts[s] + 1>>}
               /\ relay' \subseteq {"start", "stop"} \X Session \X Mounts
    BY <2>m DEF Mount, Mounts
  <2>u. ASSUME NEW s \in Session, mounts[s] > 0, Unmount(s)
        PROVE  /\ relay' \subseteq {"start", "stop"} \X Session \X Mounts
               /\ \A t \in Session, i \in Mounts :
                     <<"start", t, i>> \in relay' <=> <<"start", t, i>> \in relay
    BY <2>u DEF Unmount, Mounts
  <2>w. ASSUME NEW s \in Session, Mount(s), shown' = s, UNCHANGED <<starting, live>>
        PROVE  StreamsFit'
    <3>1. /\ mounts \in [Session -> 0..MaxMounts] /\ mounts' \in [Session -> 0..MaxMounts]
          /\ mounts'[s] = mounts[s] + 1 /\ \A t \in Session : t # s => mounts'[t] = mounts[t]
          /\ relay' = relay \cup {<<"start", s, mounts[s] + 1>>}
      BY <2>w, <2>m
    <3>2. ASSUME NEW t \in Session PROVE mounts[t] \in Nat /\ mounts'[t] \in Nat /\ mounts'[t] >= mounts[t]
      <4>1. mounts[t] \in 0..MaxMounts /\ mounts'[t] \in 0..MaxMounts
        BY <3>1
      <4>2. mounts'[t] = mounts[t] \/ mounts'[t] = mounts[t] + 1
        BY <3>1
      <4>3. QED
        BY <4>1, <4>2
    <3>3. ASSUME NEW t \in Session, NEW i \in Mounts
          PROVE  /\ <<t, i>> \in starting' \cup live' \/ <<"start", t, i>> \in relay' => i <= mounts'[t]
                 /\ <<"start", t, i>> \in relay' => <<t, i>> \notin starting' \cup live'
                 /\ <<t, i>> \in starting' => <<t, i>> \notin live'
      <4>1. i \in Nat /\ mounts[t] \in Nat /\ mounts'[t] \in Nat /\ mounts'[t] >= mounts[t]
        BY <3>2 DEF Mounts
      <4>2. /\ <<t, i>> \in starting \cup live \/ <<"start", t, i>> \in relay => i <= mounts[t]
            /\ <<"start", t, i>> \in relay => <<t, i>> \notin starting \cup live
            /\ <<t, i>> \in starting => <<t, i>> \notin live
        OBVIOUS
      <4>3. CASE t = s /\ i = mounts[s] + 1
        <5>1. <<t, i>> \notin starting \cup live /\ i = mounts'[t]
          BY <3>1, <4>1, <4>2, <4>3
        <5>2. QED
          BY <2>w, <4>1, <5>1
      <4>4. CASE ~(t = s /\ i = mounts[s] + 1)
        <5>1. <<"start", t, i>> \in relay' => <<"start", t, i>> \in relay
          BY <3>1, <4>4
        <5>2. i <= mounts[t] => i <= mounts'[t]
          BY <4>1
        <5>3. starting' = starting /\ live' = live
          BY <2>w
        <5>4. QED
          BY <4>2, <5>1, <5>2, <5>3
      <4>5. QED
        BY <4>3, <4>4
    <3>4. mounts'[shown'] > 0
      BY <2>w, <3>1, <3>2
    <3>5. QED
      BY <3>3, <3>4
  <2>1. ASSUME NEW s \in Session, OpenModal(s) PROVE StreamTypeOK' /\ StreamsFit'
    <3>1. /\ Mount(s) /\ mounts[s] = 0 /\ shown' = s /\ status' \in Status
          /\ UNCHANGED <<env, link, page, execVars, outbox, eventVars>>
      BY <2>1 DEF OpenModal, Status
    <3>2. StreamTypeOK'
      BY <2>m, <3>1
    <3>3. StreamsFit'
      BY <2>w, <3>1
    <3>4. QED
      BY <3>2, <3>3
  <2>2. CASE CloseModal
    <3>1. shown \in Session
      BY <2>2 DEF CloseModal
    <3>2. /\ Unmount(shown) /\ shown' = NoSession /\ status' \in Status
          /\ UNCHANGED <<env, link, page, mounts, execVars, outbox, eventVars>>
      BY <2>2 DEF CloseModal, Status
    <3>3. QED
      BY <2>u, <3>1, <3>2, SentinelAssumption
  <2>3. CASE CloseTab
    BY <2>3, SentinelAssumption DEF CloseTab, Status
  <2>4. CASE PageLeaves
    <3>1. page' = FALSE /\ UNCHANGED <<env, link, shown, status, mounts, execVars, outbox, eventVars>>
      BY <2>4 DEF PageLeaves
    <3>2. CASE shown # NoSession
      BY <2>4, <2>u, <3>1, <3>2 DEF PageLeaves
    <3>3. CASE shown = NoSession
      BY <2>4, <3>1, <3>3 DEF PageLeaves
    <3>4. QED
      BY <3>2, <3>3
  <2>5. CASE PageReturns
    <3>1. page' = TRUE /\ UNCHANGED <<env, link, shown, status, execVars, outbox, eventVars>>
      BY <2>5 DEF PageReturns
    <3>2. CASE shown # NoSession
      <4>1. shown \in Session /\ Mount(shown) /\ mounts[shown] > 0
        BY <2>5, <3>2 DEF PageReturns
      <4>2. StreamTypeOK'
        BY <2>m, <3>1, <4>1
      <4>3. StreamsFit'
        BY <2>w, <3>1, <4>1
      <4>4. QED
        BY <4>2, <4>3
    <3>3. CASE shown = NoSession
      BY <2>5, <3>1, <3>3 DEF PageReturns
    <3>4. QED
      BY <3>2, <3>3
  <2>6. ASSUME NEW i \in Arriving, ClientReceive(i) \/ ClientMisses(i)
        PROVE  StreamTypeOK' /\ StreamsFit'
    <3>1. i \in 1..Len(outbox) /\ outbox[i] \in Kinds \X Session
      BY DEF Arriving
    <3>2. RemoveAt(outbox, i) \in Seq(Kinds \X Session)
      BY <3>1, Removed
    <3>3. status' \in Status
      BY <2>6, <3>1 DEF ClientReceive, ClientMisses, Status, StatusAfter, Kinds
    <3>4. outbox' = RemoveAt(outbox, i)
          /\ UNCHANGED <<env, link, page, shown, mounts, relay, execVars, eventVars>>
      BY <2>6 DEF ClientReceive, ClientMisses
    <3>5. QED
      BY <3>2, <3>3, <3>4
  <2>7. ASSUME NEW s \in Session, NEW i \in Mounts, ExecStart(s, i)
        PROVE  StreamTypeOK' /\ StreamsFit'
    BY <2>7 DEF ExecStart, Shell
  <2>8. ASSUME NEW s \in Session, NEW i \in Mounts, ExecStarted(s, i) \/ ExecFailed(s, i)
        PROVE  StreamTypeOK' /\ StreamsFit'
    <3>1. /\ <<s, i>> \in starting /\ starting' = starting \ {<<s, i>>}
          /\ live' \subseteq live \cup {<<s, i>>} /\ execSessions' \subseteq execSessions \cup {<<s, i>>}
          /\ outbox' \in Seq(Kinds \X Session)
          /\ UNCHANGED <<env, link, clientVars, relay, ending, eventVars>>
      BY <2>8, <2>o DEF ExecStarted, ExecFailed
    <3>2. QED
      BY <3>1
  <2>9. ASSUME NEW s \in Session, NEW i \in Mounts, ExecOutput(s, i) \/ ExecEnd(s, i)
        PROVE  StreamTypeOK' /\ StreamsFit'
    <3>1. /\ live' \subseteq live /\ execSessions' \subseteq execSessions /\ ending' \subseteq ending
          /\ outbox' \in Seq(Kinds \X Session)
          /\ UNCHANGED <<env, link, clientVars, relay, starting, eventVars>>
      BY <2>9, <2>o DEF ExecOutput, ExecEnd
    <3>2. QED
      BY <3>1
  <2>10. ASSUME NEW s \in Session, NEW i \in Mounts, ExecStop(s, i)
         PROVE  StreamTypeOK' /\ StreamsFit'
    BY <2>10 DEF ExecStop, EntriesOf
  <2>11. ASSUME NEW m \in relay, Refuse(m) PROVE StreamTypeOK' /\ StreamsFit'
    BY <2>11 DEF Refuse
  <2>12. ASSUME NEW w \in Watch, LinkUp(w) \/ EventsOpen(w) \/ EventsFail(w) \/ EventsEnd(w)
         PROVE  StreamTypeOK' /\ StreamsFit'
    BY <2>12 DEF LinkUp, EventsOpen, EventsFail, EventsEnd
  <2>13. CASE LinkDown
    <3>1. outbox' \in Seq(Kinds \X Session)
      BY <2>13, Prefix DEF LinkDown
    <3>2. watcher' \in [Watch -> {"free", "opening", "open"}] /\ stopEvents' = NoWatch
      BY <2>13 DEF LinkDown, Cleanup
    <3>3. UNCHANGED <<env, clientVars, relay, starting, live>>
          /\ link' = FALSE /\ execSessions' = {} /\ ending' = ending \cup execSessions
      BY <2>13 DEF LinkDown
    <3>4. QED
      BY <3>1, <3>2, <3>3
  <2>14. CASE UNCHANGED streamVars
    BY <2>14 DEF streamVars
  <2>15. QED
    BY <2>1, <2>2, <2>3, <2>4, <2>5, <2>6, <2>7, <2>8, <2>9, <2>10, <2>11, <2>12, <2>13, <2>14
    DEF StreamNext
<1>3. QED
  BY <1>1, <1>2, PTL DEF StreamSpec

(* Every variable has its type.                                            *)
THEOREM StreamTypeCorrect == StreamSpec => []StreamTypeOK
BY StreamTypes, PTL

LEMMA StreamsInvariant == StreamSpec => []StreamsInv
<1>1. StreamInit => StreamsInv
  BY DEF StreamInit, StreamsInv, SessionsCleanedUp
<1>2. StreamTypeOK /\ StreamsInv /\ [StreamNext]_streamVars => StreamsInv'
  <2> SUFFICES ASSUME StreamTypeOK, StreamsInv, [StreamNext]_streamVars PROVE StreamsInv'
    OBVIOUS
  <2> USE DEF StreamsInv, SessionsCleanedUp, execVars, clientVars, eventVars
  <2>t. watcher \in [Watch -> {"free", "opening", "open"}] /\ link \in BOOLEAN
        /\ execSessions \subseteq Shell
    BY DEF StreamTypeOK
  <2>1. CASE \/ (\E s \in Session : OpenModal(s)) \/ CloseModal \/ CloseTab
             \/ PageLeaves \/ PageReturns
    BY <2>1 DEF OpenModal, CloseModal, CloseTab, PageLeaves, PageReturns
  <2>2. ASSUME NEW i \in Arriving, ClientReceive(i) \/ ClientMisses(i) PROVE StreamsInv'
    BY <2>2 DEF ClientReceive, ClientMisses
  <2>3. ASSUME NEW s \in Session, NEW i \in Mounts, ExecStart(s, i) PROVE StreamsInv'
    BY <2>3 DEF ExecStart
  <2>4. ASSUME NEW s \in Session, NEW i \in Mounts, ExecStarted(s, i) \/ ExecFailed(s, i)
        PROVE  StreamsInv'
    BY <2>4 DEF ExecStarted, ExecFailed
  <2>5. ASSUME NEW s \in Session, NEW i \in Mounts, ExecOutput(s, i) \/ ExecStop(s, i)
        PROVE  StreamsInv'
    BY <2>5 DEF ExecOutput, ExecStop
  <2>e. ASSUME NEW s \in Session, NEW i \in Mounts, ExecEnd(s, i) PROVE StreamsInv'
    <3>1. ASSUME NEW e \in execSessions' PROVE e \in live'
      <4>1. e \in live /\ e[1] # s
        BY <2>e, <3>1 DEF ExecEnd, EntriesOf
      <4>2. e # <<s, i>>
        BY <4>1
      <4>3. QED
        BY <2>e, <4>1, <4>2 DEF ExecEnd
    <3>2. QED
      BY <2>e, <3>1 DEF ExecEnd
  <2>6. ASSUME NEW m \in relay, Refuse(m) PROVE StreamsInv'
    BY <2>6 DEF Refuse
  <2>7. ASSUME NEW w \in Watch, LinkUp(w) PROVE StreamsInv'
    BY <2>7, <2>t DEF LinkUp
  <2>8. ASSUME NEW w \in Watch, EventsOpen(w) \/ EventsFail(w) \/ EventsEnd(w) PROVE StreamsInv'
    BY <2>8, <2>t DEF EventsOpen, EventsFail, EventsEnd
  <2>9. CASE LinkDown
    <3>1. "slowEvents" \notin env => \A w \in Watch : watcher'[w] = "free"
      BY <2>9, <2>t DEF LinkDown, Cleanup
    <3>2. QED
      BY <2>9, <3>1 DEF LinkDown
  <2>10. CASE UNCHANGED streamVars
    BY <2>10 DEF streamVars
  <2>11. QED
    BY <2>1, <2>2, <2>3, <2>4, <2>5, <2>e, <2>6, <2>7, <2>8, <2>9, <2>10 DEF StreamNext
<1>3. QED
  BY <1>1, <1>2, StreamTypeCorrect, PTL DEF StreamSpec

(* No entry of execSessions outlives its stream, nor, if Docker is quick,  *)
(* the connection.                                                         *)
THEOREM NoDeadSessions == StreamSpec => []SessionsCleanedUp
<1>1. StreamsInv => SessionsCleanedUp
  BY DEF StreamsInv
<1>2. QED
  BY <1>1, StreamsInvariant, PTL

(* If Docker is quick, one event stream at most, never without connection. *)
THEOREM NoSecondEventStream == StreamSpec => []OneEventStream
<1>1. StreamsInv => OneEventStream
  BY DEF StreamsInv, OneEventStream
<1>2. QED
  BY <1>1, StreamsInvariant, PTL

-----------------------------------------------------------------------------
(* What a terminal is told, while messages keep their order.               *)

Told(s) == \E k \in 1..Len(outbox) : outbox[k][2] = s
Final == {"exit", "error"}

(* A session that was mounted once goes from its start on the way, over    *)
(* the exec call, to its stream and to its last message, after which it is *)
(* not heard of again; so a terminal that shows an end is told nothing     *)
(* else.  An error is all that is said of its session, and of one that was *)
(* ready no error is said or will be.                                      *)
Story(s) ==
    /\ mounts[s] = 0 => ~Told(s)
    /\ mounts[s] = 1 =>
        /\ <<"start", s, 1>> \in relay => ~Told(s)
        /\ <<s, 1>> \in starting => ~Told(s)
        /\ \A k \in 1..Len(outbox) : outbox[k][2] = s /\ outbox[k][1] \in Final =>
              /\ <<s, 1>> \notin live
              /\ \A l \in 1..Len(outbox) : outbox[l][2] = s => l <= k
        /\ \A k, l \in 1..Len(outbox) :
              outbox[k][2] = s /\ outbox[l][2] = s /\ outbox[k][1] = "error" => k = l
        /\ shown = s => status # "idle"
        /\ shown = s /\ status \in {"exited", "error"} =>
              ~Told(s) /\ <<s, 1>> \notin starting \cup live /\ <<"start", s, 1>> \notin relay
        /\ shown = s /\ status = "ready" =>
              /\ <<"start", s, 1>> \notin relay /\ <<s, 1>> \notin starting
              /\ \A k \in 1..Len(outbox) : outbox[k][2] = s => outbox[k][1] # "error"

(* A step that tells nothing new about s and starts nothing for it.        *)
LEMMA StoryGoesOn ==
    ASSUME StreamTypeOK, NEW s \in Session, Story(s), NEW d \in Nat,
           Len(outbox') \in Nat,
           \A k \in 1..Len(outbox') : outbox'[k][2] = s =>
              k + d \in 1..Len(outbox) /\ outbox'[k] = outbox[k + d],
           mounts'[s] = mounts[s] \/ mounts'[s] > 1,
           mounts'[s] = 1 => /\ <<s, 1>> \in starting' <=> <<s, 1>> \in starting
                             /\ <<s, 1>> \in live' <=> <<s, 1>> \in live
                             /\ <<"start", s, 1>> \in relay' => <<"start", s, 1>> \in relay,
           mounts'[s] = 1 /\ shown' = s => shown = s /\ status' = status
    PROVE  Story(s)'
<1>1. Len(outbox) \in Nat
  BY DEF StreamTypeOK
<1>2. Told(s)' => Told(s)
  BY DEF Told
<1>3. CASE mounts'[s] \notin {0, 1}
  BY <1>3 DEF Story
<1>4. CASE mounts'[s] = 0
  BY <1>2, <1>4 DEF Story
<1>5. CASE mounts'[s] = 1
  <2>1. mounts[s] = 1
    BY <1>5
  <2>2. ASSUME NEW k \in 1..Len(outbox'), outbox'[k][2] = s, outbox'[k][1] \in Final
        PROVE  /\ <<s, 1>> \notin live'
               /\ \A l \in 1..Len(outbox') : outbox'[l][2] = s => l <= k
    <3>1. k + d \in 1..Len(outbox) /\ outbox[k + d] = outbox'[k]
      BY <2>2
    <3>2. ASSUME NEW l \in 1..Len(outbox'), outbox'[l][2] = s PROVE l <= k
      <4>1. l + d \in 1..Len(outbox) /\ outbox[l + d] = outbox'[l]
        BY <3>2
      <4>2. l + d <= k + d
        BY <2>1, <2>2, <3>1, <3>2, <4>1 DEF Story
      <4>3. QED
        BY <1>1, <4>2
    <3>3. QED
      BY <1>5, <2>1, <2>2, <3>1, <3>2 DEF Story
  <2>3. ASSUME NEW k \in 1..Len(outbox'), NEW l \in 1..Len(outbox'),
               outbox'[k][2] = s, outbox'[l][2] = s, outbox'[k][1] = "error"
        PROVE  k = l
    <3>1. /\ k + d \in 1..Len(outbox) /\ outbox[k + d] = outbox'[k]
          /\ l + d \in 1..Len(outbox) /\ outbox[l + d] = outbox'[l]
      BY <2>3
    <3>2. k + d = l + d
      BY <2>1, <2>3, <3>1 DEF Story
    <3>3. QED
      BY <3>2
  <2>4. ASSUME shown' = s, status' = "ready", NEW k \in 1..Len(outbox'), outbox'[k][2] = s
        PROVE  outbox'[k][1] # "error"
    BY <1>5, <2>1, <2>4 DEF Story
  <2>5. QED
    BY <1>2, <1>5, <2>1, <2>2, <2>3, <2>4 DEF Story
<1>6. QED
  BY <1>3, <1>4, <1>5

(* ... one that says something of s, of which nothing more is under way    *)
(* than before: what it says fits what became of the shell.                *)
LEMMA StoryIsTold ==
    ASSUME StreamTypeOK, StreamsFit, NEW s \in Session, Story(s), mounts[s] = 1,
           NEW kind \in Kinds, outbox' = Sent(kind, s),
           UNCHANGED <<shown, status, mounts, relay>>,
           \/ /\ kind \in Final /\ <<s, 1>> \in starting \cup live
              /\ kind = "error" => <<s, 1>> \in starting
              /\ starting' = starting \ {<<s, 1>>} /\ live' = live \ {<<s, 1>>}
           \/ /\ kind = "ready" /\ <<s, 1>> \in starting
              /\ starting' = starting \ {<<s, 1>>} /\ live' = live \cup {<<s, 1>>}
           \/ kind = "data" /\ <<s, 1>> \in live /\ UNCHANGED <<starting, live>>
    PROVE  Story(s)'
<1>t. Len(outbox) \in Nat /\ outbox \in Seq(Kinds \X Session)
  BY DEF StreamTypeOK
<1>m. 1 \in Mounts
  BY MountsAssumption DEF Mounts
<1>f. /\ <<"start", s, 1>> \notin relay
      /\ <<s, 1>> \in starting => ~Told(s) /\ <<s, 1>> \notin live
      /\ ~(shown = s /\ status \in {"exited", "error"})
      /\ shown = s /\ status = "ready" => kind # "error"
      /\ kind = "error" => ~Told(s)
      /\ <<s, 1>> \notin starting'
      /\ \A k \in 1..Len(outbox) : outbox[k][2] = s => outbox[k][1] \notin Final
  <2>1. /\ <<"start", s, 1>> \in relay => <<s, 1>> \notin starting \cup live
        /\ <<s, 1>> \in starting => <<s, 1>> \notin live
    BY <1>m DEF StreamsFit
  <2>2. <<s, 1>> \in starting \cup live
    OBVIOUS
  <2>3. /\ <<"start", s, 1>> \notin relay
        /\ <<s, 1>> \in starting => ~Told(s) /\ <<s, 1>> \notin live
        /\ ~(shown = s /\ status \in {"exited", "error"})
        /\ shown = s /\ status = "ready" => kind # "error"
        /\ kind = "error" => ~Told(s)
    BY <2>1, <2>2 DEF Story, Final
  <2>4. <<s, 1>> \notin starting'
    BY <2>1, <2>2
  <2>5. \A k \in 1..Len(outbox) : outbox[k][2] = s => outbox[k][1] \notin Final
    BY <2>1, <2>2 DEF Story, Told, Final
  <2>6. QED
    BY <2>1, <2>3, <2>4, <2>5
<1>1. CASE outbox' = outbox
  <2>1. Told(s)' <=> Told(s)
    BY <1>1 DEF Told
  <2>2. QED
    BY <1>1, <1>f, <2>1 DEF Story
<1>2. CASE outbox' = Append(outbox, <<kind, s>>)
  <2>1. /\ Len(outbox') = Len(outbox) + 1 /\ outbox'[Len(outbox) + 1] = <<kind, s>>
        /\ \A k \in 1..Len(outbox) : outbox'[k] = outbox[k]
    BY <1>2, <1>t
  <2>2. ASSUME NEW k \in 1..Len(outbox') PROVE k \in 1..Len(outbox) \/ k = Len(outbox) + 1
    BY <1>t, <2>1
  <2>3. ASSUME NEW k \in 1..Len(outbox'), outbox'[k][2] = s, outbox'[k][1] \in Final
        PROVE  /\ <<s, 1>> \notin live'
               /\ \A l \in 1..Len(outbox') : outbox'[l][2] = s => l <= k
    <3>1. k = Len(outbox) + 1
      BY <1>f, <2>1, <2>2, <2>3
    <3>2. kind \in Final
      BY <2>1, <2>3, <3>1
    <3>3. <<s, 1>> \notin live'
      BY <3>2 DEF Final
    <3>4. QED
      BY <1>t, <2>1, <3>1, <3>3
  <2>4. ASSUME NEW k \in 1..Len(outbox'), NEW l \in 1..Len(outbox'),
               outbox'[k][2] = s, outbox'[l][2] = s, outbox'[k][1] = "error"
        PROVE  k = l
    <3>1. k = Len(outbox) + 1 /\ kind = "error"
      BY <1>f, <2>1, <2>2, <2>4 DEF Final
    <3>2. l \notin 1..Len(outbox)
      BY <1>f, <2>1, <2>4, <3>1 DEF Told
    <3>3. QED
      BY <2>2, <3>1, <3>2
  <2>5. ASSUME shown' = s, status' = "ready", NEW k \in 1..Len(outbox'), outbox'[k][2] = s
        PROVE  outbox'[k][1] # "error"
    <3>1. CASE k \in 1..Len(outbox)
      BY <1>f, <2>1, <2>5, <3>1 DEF Final
    <3>2. CASE k = Len(outbox) + 1
      BY <1>f, <2>1, <2>5, <3>2
    <3>3. QED
      BY <2>2, <3>1, <3>2
  <2>6. QED
    BY <1>f, <2>3, <2>4, <2>5 DEF Story
<1>3. QED
  BY <1>1, <1>2 DEF Sent

LEMMA StoryNext ==
    ASSUME StreamTypeOK, StreamsFit, [StreamNext]_streamVars, "slowRead" \notin env,
           NEW s \in Session, Story(s)
    PROVE  Story(s)'
<1> USE DEF execVars, clientVars, eventVars
<1>t. /\ outbox \in Seq(Kinds \X Session) /\ Len(outbox) \in Nat
      /\ \A k \in 1..Len(outbox) : outbox[k] \in Kinds \X Session
      /\ mounts \in [Session -> Nat]
  BY MountsAssumption DEF StreamTypeOK
<1>o. ASSUME UNCHANGED outbox
      PROVE  Len(outbox') \in Nat /\ \A k \in 1..Len(outbox') :
                 outbox'[k][2] = s => k + 0 \in 1..Len(outbox) /\ outbox'[k] = outbox[k + 0]
  BY <1>o, <1>t
<1>q. ASSUME UNCHANGED <<starting, live, outbox>>, mounts'[s] = mounts[s] \/ mounts'[s] > 1,
             mounts'[s] = 1 /\ <<"start", s, 1>> \in relay' => <<"start", s, 1>> \in relay,
             mounts'[s] = 1 /\ shown' = s => shown = s /\ status' = status
      PROVE  Story(s)'
  <2>1. 0 \in Nat
    OBVIOUS
  <2>2. QED
    BY <1>q, <1>o, <2>1, StoryGoesOn
<1>1. ASSUME NEW r \in Session, OpenModal(r) PROVE Story(s)'
  <2>1. /\ mounts[r] = 0 /\ mounts' = [mounts EXCEPT ![r] = @ + 1] /\ shown' = r
        /\ relay' = relay \cup {<<"start", r, mounts[r] + 1>>} /\ status' = "connecting"
        /\ UNCHANGED <<starting, live, outbox>>
    BY <1>1 DEF OpenModal, Mount
  <2>2. CASE r = s
    <3>1. mounts[s] = 0 /\ mounts'[s] = 1 /\ 1 \in Mounts
      BY <1>t, <2>1, <2>2, MountsAssumption DEF Mounts
    <3>a. ~Told(s)
      BY <3>1 DEF Story
    <3>b. ~Told(s)'
      BY <2>1, <3>a DEF Told
    <3>c. <<s, 1>> \notin starting \cup live
      <4>1. <<s, 1>> \in starting \cup live => 1 <= mounts[s]
        BY <3>1 DEF StreamsFit
      <4>2. QED
        BY <3>1, <4>1
    <3>2. ~Told(s)' /\ <<s, 1>> \notin starting' \cup live'
      BY <2>1, <3>b, <3>c
    <3>3. \A k \in 1..Len(outbox)' : outbox'[k][2] # s
      BY <3>2 DEF Told
    <3>4. QED
      BY <2>1, <2>2, <3>1, <3>2, <3>3 DEF Story
  <2>3. CASE r # s
    BY <1>q, <1>t, <2>1, <2>3
  <2>4. QED
    BY <2>2, <2>3
<1>2. CASE CloseModal \/ CloseTab
  <2>1. shown' = NoSession /\ (<<"start", s, 1>> \in relay' => <<"start", s, 1>> \in relay)
        /\ UNCHANGED <<starting, live, outbox, mounts>>
    BY <1>2 DEF CloseModal, CloseTab, Unmount
  <2>2. QED
    BY <1>q, <2>1, SentinelAssumption
<1>3. CASE PageLeaves
  <2>1. (<<"start", s, 1>> \in relay' => <<"start", s, 1>> \in relay)
        /\ UNCHANGED <<starting, live, outbox, mounts, shown, status>>
    BY <1>3 DEF PageLeaves, Unmount
  <2>2. QED
    BY <1>q, <2>1
<1>4. CASE PageReturns
  <2>1. UNCHANGED <<starting, live, outbox, shown, status>>
    BY <1>4 DEF PageReturns
  <2>2. CASE shown = NoSession
    BY <1>4, <1>q, <2>1, <2>2 DEF PageReturns
  <2>3. CASE shown # NoSession
    <3>1. /\ shown \in Session /\ mounts[shown] > 0 /\ mounts' = [mounts EXCEPT ![shown] = @ + 1]
          /\ relay' = relay \cup {<<"start", shown, mounts[shown] + 1>>}
      BY <1>4, <2>3 DEF PageReturns, Mount, StreamTypeOK, StreamsFit
    <3>2. mounts'[s] = mounts[s] \/ mounts'[s] > 1
      BY <1>t, <3>1
    <3>3. mounts[shown] + 1 # 1
      BY <1>t, <3>1
    <3>4. QED
      BY <1>q, <2>1, <3>1, <3>2, <3>3
  <2>4. QED
    BY <2>2, <2>3
<1>5. ASSUME NEW i \in Arriving, ClientReceive(i) \/ ClientMisses(i) PROVE Story(s)'
  <2>1. i = 1 /\ 1 \in 1..Len(outbox) /\ outbox' = RemoveAt(outbox, 1)
    BY <1>5 DEF Arriving, ClientReceive, ClientMisses
  <2>2. /\ outbox[1] \in Kinds \X Session /\ Len(outbox') = Len(outbox) - 1
        /\ \A k \in 1..Len(outbox) - 1 : outbox'[k] = outbox[k + 1]
    BY <1>t, <2>1, Removed
  <2>3. /\ Len(outbox') \in Nat /\ 1 \in Nat
        /\ \A k \in 1..Len(outbox') : k + 1 \in 1..Len(outbox) /\ outbox'[k] = outbox[k + 1]
    BY <1>t, <2>1, <2>2
  <2>4. UNCHANGED <<shown, mounts, relay, starting, live>>
    BY <1>5 DEF ClientReceive, ClientMisses
  <2>5. CASE status' = status
    BY <2>3, <2>4, <2>5, StoryGoesOn
  <2>6. CASE shown # s \/ mounts[s] # 1
    BY <2>3, <2>4, <2>6, StoryGoesOn
  <2>7. CASE status' # status /\ shown = s /\ mounts[s] = 1
    <3>1. outbox[1][2] = s /\ outbox[1][1] # "data" /\ status' = StatusAfter[outbox[1][1]]
      BY <1>5, <2>1, <2>7 DEF ClientReceive, ClientMisses
    <3>2. Told(s) /\ <<"start", s, 1>> \notin relay /\ <<s, 1>> \notin starting
      BY <2>1, <2>7, <3>1 DEF Story, Told
    <3>3. CASE outbox[1][1] = "ready"
      <4>1. status' = "ready"
        BY <3>1, <3>3 DEF StatusAfter
      <4>2. ASSUME NEW k \in 1..Len(outbox'), outbox'[k][2] = s PROVE outbox'[k][1] # "error"
        <5>1. k + 1 \in 1..Len(outbox) /\ outbox'[k] = outbox[k + 1] /\ k + 1 # 1
          BY <2>3
        <5>2. QED
          BY <2>1, <2>7, <3>1, <4>2, <5>1 DEF Story
      <4>3. Told(s)' => Told(s)
        BY <2>3 DEF Told
      <4>4. ASSUME NEW k \in 1..Len(outbox'), outbox'[k][2] = s, outbox'[k][1] \in Final
            PROVE  /\ <<s, 1>> \notin live'
                   /\ \A l \in 1..Len(outbox') : outbox'[l][2] = s => l <= k
        <5>1. k + 1 \in 1..Len(outbox) /\ outbox'[k] = outbox[k + 1]
          BY <2>3
        <5>2. ASSUME NEW l \in 1..Len(outbox'), outbox'[l][2] = s PROVE l <= k
          <6>1. l + 1 \in 1..Len(outbox) /\ outbox'[l] = outbox[l + 1]
            BY <2>3
          <6>2. l + 1 <= k + 1
            BY <2>7, <4>4, <5>1, <5>2, <6>1 DEF Story
          <6>3. QED
            BY <2>3, <6>2
        <5>3. QED
          BY <2>4, <2>7, <4>4, <5>1, <5>2 DEF Story
      <4>5. QED
        BY <2>4, <2>7, <3>2, <4>1, <4>2, <4>4 DEF Story
    <3>4. CASE outbox[1][1] \in Final
      <4>1. status' \in {"exited", "error"}
        BY <3>1, <3>4 DEF StatusAfter, Final
      <4>2. <<s, 1>> \notin live /\ \A l \in 1..Len(outbox) : outbox[l][2] = s => l <= 1
        BY <2>1, <2>7, <3>1, <3>4 DEF Story
      <4>3. ASSUME NEW k \in 1..Len(outbox') PROVE outbox'[k][2] # s
        <5>1. k + 1 \in 1..Len(outbox) /\ outbox'[k] = outbox[k + 1] /\ ~(k + 1 <= 1)
          BY <2>3
        <5>2. QED
          BY <4>2, <5>1
      <4>4. ~Told(s)'
        BY <4>3 DEF Told
      <4>5. QED
        BY <2>4, <2>7, <3>2, <4>1, <4>2, <4>3, <4>4 DEF Story
    <3>5. QED
      BY <2>2, <3>1, <3>3, <3>4 DEF Kinds, Final
  <2>8. QED
    BY <2>5, <2>6, <2>7
<1>6. ASSUME NEW r \in Session, NEW i \in Mounts, ExecStart(r, i) PROVE Story(s)'
  <2>1. /\ <<"start", r, i>> \in relay /\ relay' = relay \ {<<"start", r, i>>} /\ i <= mounts[r]
        /\ starting' = starting \cup {<<r, i>>} /\ UNCHANGED <<shown, status, mounts, live, outbox>>
    BY <1>6 DEF ExecStart, StreamsFit
  <2>2. CASE r = s /\ mounts[s] = 1
    <3>1. i = 1
      BY <2>1, <2>2 DEF Mounts
    <3>2. Told(s)' <=> Told(s)
      BY <2>1 DEF Told
    <3>3. QED
      BY <2>1, <2>2, <3>1, <3>2 DEF Story
  <2>3. CASE ~(r = s /\ mounts[s] = 1)
    <3>1. mounts'[s] = 1 => (<<s, 1>> \in starting' <=> <<s, 1>> \in starting)
      BY <2>1, <2>3
    <3>2. 0 \in Nat
      OBVIOUS
    <3>3. QED
      BY <1>o, <2>1, <3>1, <3>2, StoryGoesOn
  <2>4. QED
    BY <2>2, <2>3
<1>7. ASSUME NEW r \in Session, NEW i \in Mounts, NEW kind \in Kinds, outbox' = Sent(kind, r),
             UNCHANGED <<shown, status, mounts, relay>>,
             \/ /\ kind \in Final /\ <<r, i>> \in starting \cup live
                /\ kind = "error" => <<r, i>> \in starting
                /\ starting' = starting \ {<<r, i>>} /\ live' = live \ {<<r, i>>}
             \/ /\ kind = "ready" /\ <<r, i>> \in starting
                /\ starting' = starting \ {<<r, i>>} /\ live' = live \cup {<<r, i>>}
             \/ kind = "data" /\ <<r, i>> \in live /\ UNCHANGED <<starting, live>>
      PROVE  Story(s)'
  <2>1. i <= mounts[r]
    BY <1>7 DEF StreamsFit
  <2>2. CASE r = s /\ mounts[s] = 1
    <3>1. i = 1
      BY <2>1, <2>2 DEF Mounts
    <3>2. QED
      BY <1>7, <2>2, <3>1, StoryIsTold
  <2>3. CASE r = s /\ mounts[s] # 1
    <3>1. mounts[s] > 1
      BY <1>t, <2>1, <2>3 DEF Mounts
    <3>2. QED
      BY <1>7, <3>1 DEF Story
  <2>4. CASE r # s
    <3>1. /\ Len(outbox') \in Nat
          /\ \A k \in 1..Len(outbox') : outbox'[k][2] = s =>
                k + 0 \in 1..Len(outbox) /\ outbox'[k] = outbox[k + 0]
      <4>1. CASE outbox' = outbox
        BY <1>o, <4>1
      <4>2. CASE outbox' = Append(outbox, <<kind, r>>)
        <5>1. /\ Len(outbox') = Len(outbox) + 1 /\ outbox'[Len(outbox) + 1] = <<kind, r>>
              /\ \A k \in 1..Len(outbox) : outbox'[k] = outbox[k]
          BY <1>t, <4>2
        <5>2. QED
          BY <1>t, <2>4, <5>1
      <4>3. QED
        BY <1>7, <4>1, <4>2 DEF Sent
    <3>2. /\ <<s, 1>> \in starting' <=> <<s, 1>> \in starting
          /\ <<s, 1>> \in live' <=> <<s, 1>> \in live
      BY <1>7, <2>4
    <3>3. 0 \in Nat
      OBVIOUS
    <3>4. QED
      BY <1>7, <3>1, <3>2, <3>3, StoryGoesOn
  <2>5. QED
    BY <2>2, <2>3, <2>4
<1>8. ASSUME NEW r \in Session, NEW i \in Mounts,
             ExecStarted(r, i) \/ ExecFailed(r, i) \/ ExecOutput(r, i) \/ ExecEnd(r, i)
      PROVE  Story(s)'
  <2>1. {"ready", "data", "exit", "error"} \subseteq Kinds /\ {"exit", "error"} = Final
    BY DEF Kinds, Final
  <2>f. <<r, i>> \in starting => <<r, i>> \notin live
    BY DEF StreamsFit
  <2>2. CASE ExecStarted(r, i)
    BY <1>7, <2>1, <2>2 DEF ExecStarted
  <2>3. CASE ExecFailed(r, i)
    <3>1. live = live \ {<<r, i>>}
      BY <2>3, <2>f DEF ExecFailed
    <3>2. QED
      BY <1>7, <2>1, <2>3, <3>1 DEF ExecFailed
  <2>4. CASE ExecOutput(r, i)
    BY <1>7, <2>1, <2>4 DEF ExecOutput
  <2>5. CASE ExecEnd(r, i)
    <3>1. /\ <<r, i>> \in live /\ live' = live \ {<<r, i>>} /\ outbox' = Sent("exit", r)
          /\ UNCHANGED <<shown, status, mounts, relay, starting>>
      BY <2>5 DEF ExecEnd
    <3>2. starting = starting \ {<<r, i>>}
      BY <2>f, <3>1
    <3>3. QED
      BY <1>7, <2>1, <3>1, <3>2
  <2>6. QED
    BY <1>8, <2>2, <2>3, <2>4, <2>5
<1>9. ASSUME NEW r \in Session, NEW i \in Mounts, ExecStop(r, i) PROVE Story(s)'
  BY <1>9, <1>q DEF ExecStop
<1>10. ASSUME NEW m \in relay, Refuse(m) PROVE Story(s)'
  BY <1>10, <1>q DEF Refuse
<1>11. ASSUME NEW w \in Watch, LinkUp(w) \/ EventsOpen(w) \/ EventsFail(w) \/ EventsEnd(w)
       PROVE  Story(s)'
  BY <1>11, <1>q DEF LinkUp, EventsOpen, EventsFail, EventsEnd
<1>12. CASE LinkDown
  <2>1. PICK n \in 0..Len(outbox) : outbox' = SubSeq(outbox, 1, n)
    BY <1>12 DEF LinkDown
  <2>2. Len(outbox') = n /\ \A k \in 1..n : outbox'[k] = outbox[k]
    BY <1>t, <2>1, Prefix
  <2>3. /\ Len(outbox') \in Nat /\ 0 \in Nat
        /\ \A k \in 1..Len(outbox') : k + 0 \in 1..Len(outbox) /\ outbox'[k] = outbox[k + 0]
    BY <1>t, <2>1, <2>2
  <2>4. UNCHANGED <<shown, status, mounts, relay, starting, live>>
    BY <1>12 DEF LinkDown
  <2>5. QED
    BY <2>3, <2>4, StoryGoesOn
<1>13. CASE UNCHANGED streamVars
  BY <1>13, <1>q DEF streamVars
<1>14. QED
  BY <1>1, <1>2, <1>3, <1>4, <1>5, <1>6, <1>8, <1>9, <1>10, <1>11, <1>12, <1>13 DEF StreamNext

LEMMA StoryInvariant == StreamSpec => []("slowRead" \notin env => \A s \in Session : Story(s))
<1>1. StreamInit => \A s \in Session : Story(s)
  <2> SUFFICES ASSUME StreamInit, NEW s \in Session PROVE Story(s)
    OBVIOUS
  <2>1. Len(outbox) = 0 /\ mounts[s] = 0
    BY DEF StreamInit
  <2>2. ~Told(s)
    BY <2>1 DEF Told
  <2>3. QED
    BY <2>1, <2>2 DEF Story
<1>2. [StreamNext]_streamVars => env' = env
  BY DEF StreamNext, streamVars, OpenModal, CloseModal, CloseTab, PageLeaves, PageReturns,
         ClientReceive, ClientMisses, ExecStart, ExecStarted, ExecFailed, ExecOutput, ExecEnd,
         ExecStop, Refuse, LinkUp, EventsOpen, EventsFail, EventsEnd, LinkDown
<1>3. /\ StreamTypeOK /\ StreamsFit /\ ("slowRead" \notin env => \A s \in Session : Story(s))
      /\ [StreamNext]_streamVars
      => ("slowRead" \notin env => \A s \in Session : Story(s))'
  <2> SUFFICES ASSUME StreamTypeOK, StreamsFit, "slowRead" \notin env => \A s \in Session : Story(s),
                      [StreamNext]_streamVars, "slowRead" \notin env', NEW s \in Session
               PROVE  Story(s)'
    OBVIOUS
  <2>1. "slowRead" \notin env
    BY <1>2
  <2>2. QED
    BY <2>1, StoryNext
<1>4. QED
  BY <1>1, <1>3, StreamTypes, PTL DEF StreamSpec

(* While messages keep their order, a terminal never goes from an end, or  *)
(* from "ready", back to where it was, whatever is late, lost or refused.  *)
THEOREM StatusOneWay == StreamSpec => StatusNeverGoesBack
<1> DEFINE Known == StreamTypeOK /\ StreamsFit /\ ("slowRead" \notin env => \A s \in Session : Story(s))
           OneWay == \A s \in Session :
                        "slowRead" \notin env /\ OnScreen(s) /\ OnScreen(s)' =>
                            /\ status \in {"exited", "error"} => status' = status
                            /\ status = "ready" => status' # "connecting"
<1>1. Known /\ StreamNext => OneWay
  <2> SUFFICES ASSUME Known, StreamNext
               PROVE  \A s \in Session :
                          "slowRead" \notin env /\ OnScreen(s) /\ OnScreen(s)' =>
                              /\ status \in {"exited", "error"} => status' = status
                              /\ status = "ready" => status' # "connecting"
    OBVIOUS
  <2> SUFFICES ASSUME NEW s \in Session, "slowRead" \notin env, OnScreen(s), OnScreen(s)'
               PROVE  /\ status \in {"exited", "error"} => status' = status
                      /\ status = "ready" => status' # "connecting"
    OBVIOUS
  <2> USE DEF clientVars
  <2>s. shown = s /\ shown' = s /\ mounts[s] = 1 /\ s # NoSession /\ Story(s)
    BY SentinelAssumption DEF OnScreen
  <2>1. ASSUME NEW i \in Arriving, ClientReceive(i)
        PROVE  /\ status \in {"exited", "error"} => status' = status
               /\ status = "ready" => status' # "connecting"
    <3>1. i \in 1..Len(outbox) /\ outbox[i] \in Kinds \X Session
      BY DEF Arriving, StreamTypeOK
    <3>2. outbox[i][1] # "data" => StatusAfter[outbox[i][1]] # "connecting"
      BY <3>1 DEF StatusAfter, Kinds
    <3>3. outbox[i][2] = s => Told(s)
      BY <3>1 DEF Told
    <3>4. QED
      BY <2>1, <2>s, <3>1, <3>2, <3>3 DEF ClientReceive, Story
  <2>2. CASE (\E r \in Session : OpenModal(r)) \/ CloseModal \/ CloseTab
    BY <2>2, <2>s DEF OpenModal, CloseModal, CloseTab
  <2>3. CASE \/ PageLeaves \/ PageReturns \/ \E i \in Arriving : ClientMisses(i)
             \/ \E r \in Session, i \in Mounts : ExecStart(r, i) \/ ExecStarted(r, i)
                    \/ ExecFailed(r, i) \/ ExecOutput(r, i) \/ ExecEnd(r, i) \/ ExecStop(r, i)
             \/ \E m \in relay : Refuse(m)
             \/ \E w \in Watch : LinkUp(w) \/ EventsOpen(w) \/ EventsFail(w) \/ EventsEnd(w)
             \/ LinkDown
    BY <2>3 DEF PageLeaves, PageReturns, ClientMisses, ExecStart, ExecStarted, ExecFailed,
                ExecOutput, ExecEnd, ExecStop, Refuse, LinkUp, EventsOpen, EventsFail, EventsEnd,
                LinkDown
  <2>4. QED
    BY <2>1, <2>2, <2>3 DEF StreamNext
<1>2. QED
  BY <1>1, StreamTypes, StoryInvariant, PTL DEF StreamSpec, StatusNeverGoesBack

(* A step of one session's shell or of its terminal.                       *)
Shells == [s \in Session |-> ShellOf(s)]
Screens == [s \in Session |-> ScreenOf(s)]

LEMMA OneMoves ==
    ASSUME NEW s \in Session
    PROVE  /\ (\A t \in Session : ShellOf(t)' = ShellOf(t)) => Shells' = Shells
           /\ (\A t \in Session : ScreenOf(t)' = ScreenOf(t)) => Screens' = Screens
           /\ (\A t \in Session : t # s => ShellOf(t)' = ShellOf(t))
                 => Shells' = [Shells EXCEPT ![s] = ShellOf(s)']
           /\ (\A t \in Session : t # s => ScreenOf(t)' = ScreenOf(t))
                 => Screens' = [Screens EXCEPT ![s] = ScreenOf(s)']
BY DEF Shells, Screens

(* While messages keep their order, each terminal tells of its shell what  *)
(* is so, whatever is refused, overtaken on the way to the agent, late or  *)
(* lost, and whatever becomes of the page: a step of the browser, the      *)
(* relay, the agent or Docker is one of Terminals or none.                 *)
THEOREM ImplementsTerminals == StreamSpec => TerminalSpec
<1> DEFINE Known == /\ StreamTypeOK /\ StreamsFit
                    /\ "slowRead" \notin env => \A s \in Session : Story(s)
           Ordered == "slowRead" \notin env => Seen!Next
<1>1. StreamInit => Seen!Init
  <2> SUFFICES ASSUME StreamInit PROVE Seen!Init
    OBVIOUS
  <2>1. \A s \in Session : ShellOf(s) = "none" /\ ScreenOf(s) = "unopened"
    BY SentinelAssumption DEF StreamInit, ShellOf, ScreenOf, OnScreen
  <2>2. QED
    BY <2>1 DEF Seen!Init
<1>2. Known /\ [StreamNext]_streamVars => Ordered \/ UNCHANGED Seen!vars
  <2> SUFFICES ASSUME Known, [StreamNext]_streamVars, "slowRead" \notin env
               PROVE  \/ Seen!Next
                      \/ Shells' = Shells /\ Screens' = Screens
    BY DEF Seen!vars, Shells, Screens
  <2>k. /\ \A s \in Session : Shells[s] = ShellOf(s) /\ Screens[s] = ScreenOf(s)
        /\ StreamTypeOK /\ StreamsFit /\ \A s \in Session : Story(s)
        /\ 1 \in Mounts
    BY MountsAssumption DEF Shells, Screens, Mounts
  <2>q. ASSUME \A t \in Session :
                 /\ mounts'[t] > 0 <=> mounts[t] > 0
                 /\ <<t, 1>> \in live' <=> <<t, 1>> \in live
                 /\ <<"start", t, 1>> \in relay' \/ <<t, 1>> \in starting'
                      <=> <<"start", t, 1>> \in relay \/ <<t, 1>> \in starting
        PROVE  Shells' = Shells /\ \A t \in Session : ShellOf(t)' = ShellOf(t)
    BY <2>q DEF Shells, ShellOf
  <2>r. ASSUME UNCHANGED <<page, shown, status, mounts>> PROVE Screens' = Screens
    BY <2>r DEF Screens, ScreenOf, OnScreen
  <2> HIDE DEF Known
  <2> USE DEF execVars, clientVars, eventVars
  <2>1. ASSUME NEW s \in Session, OpenModal(s) PROVE Seen!Open(s)
    <3>0. /\ page /\ shown = NoSession /\ mounts[s] = 0 /\ shown' = s /\ status' = "connecting"
          /\ page' = page /\ mounts' = [mounts EXCEPT ![s] = @ + 1]
          /\ relay' = relay \cup {<<"start", s, 1>>} /\ UNCHANGED <<starting, live>>
      BY <2>1 DEF OpenModal, Mount
    <3>a. mounts'[s] = 1 /\ (\A t \in Session : t # s => mounts'[t] = mounts[t]) /\ s # NoSession
      BY <2>k, <3>0, SentinelAssumption DEF StreamTypeOK
    <3>1. ScreenOf(s) = "unopened" /\ ScreenOf(s)' = "connecting"
      BY <3>0, <3>a DEF ScreenOf, OnScreen
    <3>2. \A t \in Session : ScreenOf(t) \in {"unopened", "left"} /\ (t # s => ScreenOf(t)' = ScreenOf(t))
      BY <3>0, <3>a, SentinelAssumption DEF ScreenOf, OnScreen
    <3>b. <<s, 1>> \notin live
      <4>1. <<s, 1>> \in live => 1 <= mounts[s]
        BY <2>k DEF StreamsFit
      <4>2. QED
        BY <3>0, <4>1
    <3>3. \A t \in Session : ShellOf(t)' = ShellOf(t)
      <4>1. ShellOf(s) = "none" /\ ShellOf(s)' = "none"
        BY <3>0, <3>a, <3>b DEF ShellOf
      <4>2. ASSUME NEW t \in Session, t # s PROVE ShellOf(t)' = ShellOf(t)
        BY <3>0, <3>a, <4>2 DEF ShellOf
      <4>3. QED
        BY <4>1, <4>2
    <3>4. QED
      BY <2>k, <3>1, <3>2, <3>3, OneMoves DEF Seen!Open, Shells, Screens
  <2>2. CASE CloseModal \/ CloseTab \/ PageLeaves
    <3>0. /\ UNCHANGED <<mounts, starting, live>> /\ (page' = FALSE \/ shown' = NoSession)
          /\ \A t \in Session : <<"start", t, 1>> \in relay' <=> <<"start", t, 1>> \in relay
      BY <2>2 DEF CloseModal, CloseTab, PageLeaves, Unmount
    <3>1. Shells' = Shells /\ \A t \in Session : ShellOf(t)' = ShellOf(t)
      BY <2>q, <3>0
    <3>2. \A t \in Session : ~OnScreen(t)'
      BY <3>0, SentinelAssumption DEF OnScreen
    <3>3. CASE \E s \in Session : OnScreen(s)
      <4>1. PICK s \in Session : OnScreen(s)
        BY <3>3
      <4>2. ScreenOf(s) = status /\ status \in {"connecting", "ready", "exited", "error"}
        BY <2>k, <4>1 DEF ScreenOf, OnScreen, Story, StreamTypeOK, Status
      <4>3. ScreenOf(s)' = "left"
        BY <3>0, <3>2, <4>1 DEF ScreenOf, OnScreen
      <4>4. \A t \in Session : t # s => ScreenOf(t)' = ScreenOf(t)
        BY <3>0, <3>2, <4>1 DEF ScreenOf, OnScreen
      <4>5. Seen!Leave(s)
        BY <2>k, <3>1, <4>2, <4>3, <4>4, OneMoves DEF Seen!Leave, Shells, Screens
      <4>6. QED
        BY <4>5 DEF Seen!Next
    <3>4. CASE ~\E s \in Session : OnScreen(s)
      <4>1. Screens' = Screens
        BY <3>0, <3>2, <3>4 DEF Screens, ScreenOf
      <4>2. QED
        BY <3>1, <4>1
    <3>5. QED
      BY <3>3, <3>4
  <2>3. CASE PageReturns
    <3>0. ~page /\ UNCHANGED <<shown, status, starting, live>>
      BY <2>3 DEF PageReturns
    <3>1. CASE shown = NoSession
      <4>1. UNCHANGED <<mounts, relay>>
        BY <2>3, <3>1 DEF PageReturns
      <4>2. Shells' = Shells
        BY <2>q, <3>0, <4>1
      <4>3. \A t \in Session : ~OnScreen(t) /\ ~OnScreen(t)'
        BY <3>0, <3>1, SentinelAssumption DEF OnScreen
      <4>4. QED
        BY <4>1, <4>2, <4>3 DEF Screens, ScreenOf
    <3>2. CASE shown # NoSession
      <4>1. PICK s \in Session : s = shown
        BY <2>k, <3>2 DEF StreamTypeOK
      <4>2. mounts[s] \in Nat /\ mounts[s] > 0
        BY <2>k, <4>1, MountsAssumption DEF StreamsFit, StreamTypeOK
      <4>3. /\ mounts' = [mounts EXCEPT ![s] = @ + 1]
            /\ relay' = relay \cup {<<"start", s, mounts[s] + 1>>}
        BY <2>3, <3>2, <4>1 DEF PageReturns, Mount
      <4>4. mounts'[s] = mounts[s] + 1 /\ \A t \in Session : t # s => mounts'[t] = mounts[t]
        BY <2>k, <4>3 DEF StreamTypeOK
      <4>5. mounts'[s] > 1 /\ mounts[s] + 1 # 1
        BY <4>2, <4>4
      <4>6. Shells' = Shells
        BY <2>q, <3>0, <4>2, <4>3, <4>4, <4>5
      <4>7. \A t \in Session : ~OnScreen(t) /\ ~OnScreen(t)'
        BY <3>0, <4>1, <4>5 DEF OnScreen
      <4>8. Screens' = Screens
        BY <4>2, <4>4, <4>5, <4>7 DEF Screens, ScreenOf
      <4>9. QED
        BY <4>6, <4>8
    <3>3. QED
      BY <3>1, <3>2
  <2>4. ASSUME NEW i \in Arriving, ClientReceive(i)
        PROVE  \/ Seen!Next
               \/ Shells' = Shells /\ Screens' = Screens
    <3>1. i = 1 /\ 1 \in 1..Len(outbox) /\ outbox[1] \in Kinds \X Session
      BY <2>k DEF Arriving, StreamTypeOK
    <3>2. UNCHANGED <<page, shown, mounts, relay, starting, live>>
      BY <2>4 DEF ClientReceive
    <3>s. Shells' = Shells /\ \A t \in Session : ShellOf(t)' = ShellOf(t)
      BY <2>q, <3>2
    <3>3. CASE outbox[1][2] = shown /\ outbox[1][1] # "data" /\ OnScreen(shown)
      <4>s. PICK s \in Session : s = outbox[1][2]
        BY <3>1
      <4>w. PICK what \in {"ready", "exited", "error"} : what = StatusAfter[outbox[1][1]]
        BY <3>1, <3>3 DEF Kinds, StatusAfter
      <4>1. s = outbox[1][2] /\ status' = what /\ s = shown /\ OnScreen(s) /\ mounts[s] = 1
            /\ outbox[1][1] \in {"ready", "exit", "error"}
        BY <2>4, <3>1, <3>3, <4>s, <4>w DEF ClientReceive, Kinds, OnScreen
      <4>2. Told(s) /\ <<"start", s, 1>> \notin relay /\ <<s, 1>> \notin starting
        BY <2>k, <3>1, <4>1 DEF Story, Told
      <4>3. ShellOf(s) # "none"
        BY <4>1, <4>2 DEF ShellOf
      <4>4. outbox[1][1] \in {"exit", "error"} => ShellOf(s) = "over"
        <5>1. outbox[1][1] \in {"exit", "error"} => <<s, 1>> \notin live
          BY <2>k, <3>1, <4>1 DEF Story, Final
        <5>2. QED
          BY <4>1, <4>2, <5>1 DEF ShellOf
      <4>5. status \in {"connecting", "ready"}
        BY <2>k, <4>1, <4>2 DEF Story, StreamTypeOK, Status
      <4>6. outbox[1][1] = "error" => status = "connecting"
        BY <2>k, <3>1, <4>1, <4>5 DEF Story
      <4>7. what = [ready |-> "ready", exit |-> "exited", error |-> "error"][outbox[1][1]]
        BY <4>w DEF StatusAfter
      <4>8. ScreenOf(s) = status /\ ScreenOf(s)' = what
        BY <3>2, <4>1 DEF ScreenOf, OnScreen
      <4>9. \A t \in Session : t # s => ScreenOf(t)' = ScreenOf(t)
        BY <3>2, <4>1 DEF ScreenOf, OnScreen
      <4>10. CASE what = status
        <5>1. \A t \in Session : ScreenOf(t)' = ScreenOf(t)
          BY <4>8, <4>9, <4>10
        <5>2. QED
          BY <3>s, <5>1, OneMoves
      <4>11. CASE what # status
        <5>1. Screens' = [Screens EXCEPT ![s] = what]
          BY <4>8, <4>9, OneMoves
        <5>2. Screens[s] = status /\ Shells[s] = ShellOf(s)
          BY <2>k, <4>8
        <5>3. \/ what = "ready" /\ status = "connecting" /\ ShellOf(s) # "none"
              \/ what = "exited" /\ ShellOf(s) = "over"
              \/ what = "error" /\ status = "connecting" /\ ShellOf(s) = "over"
          BY <4>1, <4>3, <4>4, <4>5, <4>6, <4>7, <4>11
        <5>4. Seen!Show(s, what)
          BY <3>s, <4>5, <5>1, <5>2, <5>3 DEF Seen!Show, Shells, Screens
        <5>5. Seen!Next
          BY <5>4 DEF Seen!Next
        <5>6. QED
          BY <5>5
      <4>12. QED
        BY <4>10, <4>11
    <3>4. CASE ~(outbox[1][2] = shown /\ outbox[1][1] # "data")
      BY <2>4, <2>r, <3>1, <3>2, <3>4, <3>s DEF ClientReceive
    <3>5. CASE ~OnScreen(shown)
      <4>1. \A t \in Session : ~OnScreen(t) /\ ~OnScreen(t)'
        BY <3>2, <3>5 DEF OnScreen
      <4>2. QED
        BY <3>2, <3>s, <4>1 DEF Screens, ScreenOf
    <3>6. QED
      BY <3>3, <3>4, <3>5
  <2>5. ASSUME NEW s \in Session, NEW i \in Mounts, ExecStart(s, i)
        PROVE  Shells' = Shells /\ Screens' = Screens
    BY <2>5, <2>q, <2>r DEF ExecStart
  <2>6. ASSUME NEW s \in Session, UNCHANGED <<page, shown, status, mounts>>, mounts[s] > 0,
               \A t \in Session : t # s => ShellOf(t)' = ShellOf(t),
               \/ ShellOf(s) = "none" /\ ShellOf(s)' = "running"
               \/ ShellOf(s) # "over" /\ ShellOf(s)' = "over"
        PROVE  Seen!Begin(s) \/ Seen!End(s)
    <3>1. Screens' = Screens
      BY <2>6, <2>r
    <3>2. ScreenOf(s) # "unopened"
      BY <2>6, <2>k DEF ScreenOf, StreamTypeOK, Status
    <3>3. Shells' = [Shells EXCEPT ![s] = ShellOf(s)']
      BY <2>6, OneMoves
    <3>4. QED
      BY <2>6, <2>k, <3>1, <3>2, <3>3 DEF Seen!Begin, Seen!End, Shells, Screens
  <2>7. ASSUME NEW s \in Session, ExecStarted(s, 1) \/ ExecFailed(s, 1) \/ ExecEnd(s, 1)
        PROVE  Seen!Begin(s) \/ Seen!End(s)
    <3>0. /\ <<s, 1>> \in starting \cup live
          /\ <<s, 1>> \in starting => <<"start", s, 1>> \notin relay /\ <<s, 1>> \notin live
          /\ <<s, 1>> \in live => <<"start", s, 1>> \notin relay /\ <<s, 1>> \notin starting
      BY <2>7, <2>k DEF StreamsFit, ExecStarted, ExecFailed, ExecEnd
    <3>1. mounts[s] > 0
      <4>1. 1 <= mounts[s] /\ mounts[s] \in Nat
        BY <3>0, <2>k, MountsAssumption DEF StreamsFit, StreamTypeOK
      <4>2. QED
        BY <4>1
    <3>2. UNCHANGED <<page, shown, status, mounts>>
          /\ \A t \in Session : t # s => ShellOf(t)' = ShellOf(t)
      BY <2>7 DEF ExecStarted, ExecFailed, ExecEnd, ShellOf
    <3>3. \/ ShellOf(s) = "none" /\ ShellOf(s)' = "running"
          \/ ShellOf(s) # "over" /\ ShellOf(s)' = "over"
      BY <2>7, <3>0, <3>1 DEF ExecStarted, ExecFailed, ExecEnd, ShellOf
    <3>4. QED
      BY <2>6, <3>1, <3>2, <3>3
  <2>8. ASSUME NEW s \in Session, NEW i \in Mounts, i # 1,
               ExecStarted(s, i) \/ ExecFailed(s, i) \/ ExecEnd(s, i)
        PROVE  Shells' = Shells /\ Screens' = Screens
    <3>1. UNCHANGED <<page, shown, status, mounts, relay>>
          /\ \A t \in Session : /\ <<t, 1>> \in live' <=> <<t, 1>> \in live
                                /\ <<t, 1>> \in starting' <=> <<t, 1>> \in starting
      BY <2>8 DEF ExecStarted, ExecFailed, ExecEnd
    <3>2. QED
      BY <2>q, <2>r, <3>1
  <2>9. ASSUME NEW m \in relay, Refuse(m)
        PROVE  \/ \E s \in Session : Seen!Begin(s) \/ Seen!End(s)
               \/ Shells' = Shells /\ Screens' = Screens
    <3>1. UNCHANGED <<page, shown, status, mounts, starting, live>> /\ relay' = relay \ {m}
      BY <2>9 DEF Refuse
    <3>2. CASE \E s \in Session : m = <<"start", s, 1>>
      <4>1. PICK s \in Session : m = <<"start", s, 1>>
        BY <3>2
      <4>2. <<s, 1>> \notin starting \cup live /\ <<"start", s, 1>> \notin relay'
            /\ 1 <= mounts[s] /\ mounts[s] \in Nat
        BY <2>9, <2>k, <3>1, <4>1, MountsAssumption DEF StreamsFit, StreamTypeOK
      <4>p. mounts[s] > 0
        BY <4>2
      <4>3. ShellOf(s) = "none" /\ ShellOf(s)' = "over"
        BY <2>9, <3>1, <4>1, <4>2, <4>p DEF ShellOf
      <4>4. \A t \in Session : t # s => ShellOf(t)' = ShellOf(t)
        BY <3>1, <4>1 DEF ShellOf
      <4>5. QED
        BY <2>6, <3>1, <4>p, <4>3, <4>4
    <3>3. CASE \A s \in Session : m # <<"start", s, 1>>
      BY <2>q, <2>r, <3>1, <3>3
    <3>4. QED
      BY <3>2, <3>3
  <2>10. ASSUME NEW s \in Session, NEW i \in Mounts, ExecStop(s, i)
         PROVE  Shells' = Shells /\ Screens' = Screens
    BY <2>10, <2>q, <2>r DEF ExecStop
  <2>11. ASSUME \/ \E s \in Session, i \in Mounts : ExecOutput(s, i)
                \/ \E i \in Arriving : ClientMisses(i)
                \/ \E w \in Watch : LinkUp(w) \/ EventsOpen(w) \/ EventsFail(w) \/ EventsEnd(w)
                \/ LinkDown \/ UNCHANGED streamVars
         PROVE  Shells' = Shells /\ Screens' = Screens
    <3>1. UNCHANGED <<page, shown, status, mounts, relay, starting, live>>
      BY <2>11 DEF ExecOutput, ClientMisses, LinkUp, EventsOpen, EventsFail, EventsEnd, LinkDown,
                   streamVars
    <3>2. QED
      BY <2>q, <2>r, <3>1
  <2>12. ASSUME NEW s \in Session, Seen!Open(s) \/ Seen!Begin(s) \/ Seen!End(s) PROVE Seen!Next
    BY <2>12 DEF Seen!Next
  <2>13. QED
    BY <2>1, <2>2, <2>3, <2>4, <2>5, <2>7, <2>8, <2>9, <2>10, <2>11, <2>12 DEF StreamNext
<1>3. QED
  BY <1>1, <1>2, StreamTypes, StoryInvariant, PTL DEF StreamSpec, TerminalSpec
=============================================================================

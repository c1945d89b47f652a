----------------------------- MODULE ContainerView -----------------------------
(***************************************************************************)
(* What one browser tab shows of the containers of a server: the handlers  *)
(* of lib/websocket-handlers.js, the stores container, system, logs and    *)
(* inspect, the pages that show containers, and under them the container   *)
(* operations of the agent (docker.js, actions.js) with Docker's events.   *)
(*                                                                         *)
(* The tab never keeps a copy in step by itself: it asks for the list when *)
(* a page opens or a container was created, and between two lists it       *)
(* applies Docker's events to the rows it has.  A list is read at one      *)
(* moment and arrives at a later one.  Events, and the status of an agent, *)
(* keep their order on the way while the backend knows the members of the  *)
(* server (module MemberCast), and may overtake each other while it reads  *)
(* them: feed is the order in which they will arrive.  Answers are awaited *)
(* one by one and arrive in any order, also relative to the events.        *)
(***************************************************************************)
EXTENDS Naturals, SequencesExt

CONSTANTS
    Server, Container,
    ServerOf,     \* ServerOf[c]: the server whose Docker has container c
    Mine,         \* a server the user is a member of
    MaxSteps,     \* bound: operations on containers, by pages or by hand
    Environments  \* the sets of circumstances to consider

(***************************************************************************)
(* overtaken: a container changes while a list that was read is on its     *)
(*   way, or before the agent's event stream is open again;                *)
(* otherServer: the user is a member of every server, not only of Mine;    *)
(* otherTab: other tabs of the server's members use it as well;            *)
(* outside: containers are created and removed by hand on the host;        *)
(* signal: a signal is sent to a container which does not end it;          *)
(* refuses: the limiter or Docker may refuse a command or a modal's        *)
(*   question;  listFails: ... a list;  slowRead: the members of a server  *)
(*   are read for a message while those of a later one are known, which    *)
(*   overtakes it;  readFails: they cannot be read, and what was asked or  *)
(*   told is lost;  startFails: a container is created, but does not start;*)
(* early: a modal is opened again before its last answer came;             *)
(* agentLeaves: the agent's connection breaks;                             *)
(* unnoticed: ... and is replaced before the backend says it is offline;   *)
(* resultLost: ... when a container has just been created or removed;      *)
(* socketLost: the tab's own connection breaks;  viewer: the user's role;  *)
(* modals: logs and inspections are looked at;  navigates: the user leaves *)
(*   the page, and comes back or goes to that of another server.           *)
(***************************************************************************)
Circumstances ==
    {"overtaken", "otherServer", "otherTab", "outside", "signal", "refuses", "listFails",
     "slowRead", "readFails", "startFails", "early", "agentLeaves", "unnoticed", "resultLost",
     "socketLost", "viewer", "modals", "navigates"}

ASSUME ServerOfAssumption == ServerOf \in [Container -> Server] /\ Mine \in Server
ASSUME StepsAssumption == MaxSteps \in Nat
ASSUME ViewEnvironmentAssumption == Environments \subseteq SUBSET Circumstances

VARIABLES
    env,         \* the circumstances of this behaviour
    host,        \* host[c]: what Docker says of c
    script,      \* script[c]: the events left of the operation on c
    online,      \* online[s]: the agent is connected
    watching,    \* watching[s]: its event stream is open
    feed,        \* feed[s]: events and statuses on their way to the tab
    jobs,        \* what the agents were asked and the tab has not handled
    connected,   \* isConnected of the tab's WebSocketContext
    agentState,  \* systemData.agentState
    serverId,    \* the server of the page that is open, or None
    containers,  \* the rows of the container store
    logs,        \* the logs store: containerId, content, loading
    inspect,     \* the inspect store
    steps        \* operations on containers so far

hostVars == <<host, script>>
agentVars == <<online, watching>>
tabVars == <<connected, agentState, serverId, containers, logs, inspect>>
vars == <<env, hostVars, agentVars, feed, jobs, tabVars, steps>>

None == "none"
ASSUME ViewSentinelAssumption == None \notin Server \cup Container
Command == {"start", "stop", "pause", "unpause", "restart", "remove", "create"}
Question == {"logs", "inspect"}
State == {"unborn", "created", "running", "paused", "exited", "gone"}
Event == {"kill", "die", "stop", "start", "restart", "pause", "unpause", "create", "destroy"}
Status == {"online", "offline"}
Message == [c : Container \cup {None}, e : Event \cup Status]
Row == [state : State, process : BOOLEAN]
Modal == [containerId : Container \cup {None}, content : Container \cup {None},
          loading : BOOLEAN]

(* The servers the user is a member of.                                    *)
mine == IF "otherServer" \in env THEN Server ELSE {Mine}

(* Every variable has its type.                                            *)
TypeOK ==
    /\ env \in Environments
    /\ host \in [Container -> State] /\ script \in [Container -> Seq(Event)]
    /\ online \in [Server -> BOOLEAN] /\ watching \in [Server -> BOOLEAN]
    /\ feed \in [Server -> Seq(Message)]
    /\ \A j \in jobs : /\ j.act \in Command \cup Question \cup {"list"}
                       /\ j.server \in Server /\ j.c \in Container \cup {None}
                       /\ j.at \in {"asked", "doing", "read"}
                       /\ j.list \in [DOMAIN j.list -> State]
                       /\ DOMAIN j.list \subseteq Container
    /\ connected \in BOOLEAN /\ agentState \in {None, "online", "offline"}
    /\ serverId \in Server \cup {None}
    /\ DOMAIN containers \subseteq Container
    /\ containers \in [DOMAIN containers -> Row]
    /\ logs \in Modal /\ inspect \in Modal /\ steps \in 0..MaxSteps

-----------------------------------------------------------------------------
(* Docker.                                                                 *)

Existing(s) == {c \in Container : ServerOf[c] = s /\ host[c] \notin {"unborn", "gone"}}

(* The states in which Docker carries the operation out.                   *)
Allowed(act) ==
    CASE act = "start"   -> {"created", "exited"}
      [] act = "stop"    -> {"running", "paused"}
      [] act = "pause"   -> {"running"}
      [] act = "unpause" -> {"paused"}
      [] act = "create"  -> {"unborn"}
      [] OTHER           -> {"created", "running", "paused", "exited"}

(* The events it reports when it does.                                     *)
Events(act, state) ==
    LET ending == IF state \in {"running", "paused"} THEN <<"kill", "die">> ELSE <<>>
    IN  CASE act = "stop"    -> <<"kill", "die", "stop">>
          [] act = "restart" -> ending \o <<"stop", "start", "restart">>
          [] act = "remove"  -> ending \o <<"destroy">>
          [] act = "create"  -> <<"create", "start">>
          [] OTHER           -> <<act>>

(* The container after an event.                                           *)
After(e, state) ==
    CASE e = "create"             -> "created"
      [] e \in {"start", "unpause"} -> "running"
      [] e = "pause"              -> "paused"
      [] e = "die"                -> "exited"
      [] e = "destroy"            -> "gone"
      [] OTHER                    -> state

(* Nothing known of server s is about to be shown too late.                *)
Undisturbed(s) ==
    /\ \A j \in jobs : j.server = s => j.at # "read"
    /\ online[s] => watching[s]

(* watchDockerEvents: Docker takes the next step on c and reports it.      *)
DockerStep(c) ==
    LET s == ServerOf[c]
        e == Head(script[c])
    IN  /\ script[c] # <<>>
        /\ "overtaken" \in env \/ Undisturbed(s)
        /\ host' = [host EXCEPT ![c] = After(e, @)]
        /\ script' = [script EXCEPT ![c] = Tail(@)]
        /\ feed' = IF online[s] /\ watching[s]
                     THEN [feed EXCEPT ![s] = Append(@, [c |-> c, e |-> e])] ELSE feed
        /\ UNCHANGED <<env, agentVars, jobs, tabVars, steps>>

(* A container changes without this tab: it ends, and is restarted or not, *)
(* or somebody operates it, from another tab or by hand.                   *)
ByHand(c) ==
    /\ steps < MaxSteps /\ steps' = steps + 1
    /\ script[c] = <<>> /\ ServerOf[c] \in mine
    /\ \/ /\ host[c] = "running"
          /\ script' \in {[script EXCEPT ![c] = <<"die">>],
                          [script EXCEPT ![c] = <<"die", "start">>]}
       \/ \E act \in {"start", "stop", "pause", "unpause", "restart"} :
              /\ "otherTab" \in env /\ host[c] \in Allowed(act)
              /\ script' = [script EXCEPT ![c] = Events(act, host[c])]
       \/ \E act \in {"create", "remove"} :
              /\ "outside" \in env /\ host[c] \in Allowed(act)
              /\ script' = [script EXCEPT ![c] = Events(act, host[c])]
       \/ /\ "signal" \in env /\ host[c] = "running"
          /\ script' = [script EXCEPT ![c] = <<"kill">>]
    /\ UNCHANGED <<env, host, agentVars, feed, jobs, tabVars>>

-----------------------------------------------------------------------------
(* The agent, reached through the backend.                                 *)

Job(act, s, c) == [act |-> act, server |-> s, c |-> c, at |-> "asked", list |-> <<>>]

(* sendMessage: dropped without an open socket; the backend answers a      *)
(* request for an offline agent with an error, which the tab ignores.      *)
Asked(js) == IF connected THEN {j \in js : online[j.server]} ELSE {}

(* listContainers: the rows as of now; the inspections that follow only    *)
(* add restarts and health.                                                *)
ReadList(j) ==
    /\ j.act = "list" /\ j.at = "asked"
    /\ jobs' = (jobs \ {j}) \cup
               {[j EXCEPT !.at = "read", !.list = [c \in Existing(j.server) |-> host[c]]]}
    /\ UNCHANGED <<env, hostVars, agentVars, feed, tabVars, steps>>

(* startContainer ... removeContainer, createContainer.                    *)
Begin(j) ==
    /\ j.act \in Command /\ j.at = "asked" /\ script[j.c] = <<>>
    /\ host[j.c] \in Allowed(j.act)
    /\ script' = [script EXCEPT ![j.c] = Events(j.act, host[j.c])]
    /\ jobs' = (jobs \ {j}) \cup {[j EXCEPT !.at = "doing"]}
    /\ UNCHANGED <<env, host, agentVars, feed, tabVars, steps>>

(* The limiter throws, or the agent's call rejects: an error or            *)
(* docker:error, for which the tab has no handler.                         *)
Refuse(j) ==
    /\ j.at = "asked"
    /\ \/ j.act = "list" /\ "listFails" \in env
       \/ /\ j.act \in Command \cup Question /\ script[j.c] = <<>>
          /\ \/ "refuses" \in env
             \/ j.act \in Command /\ host[j.c] \notin Allowed(j.act)
             \/ j.act \in Question /\ j.c \notin Existing(j.server)
    /\ jobs' = jobs \ {j}
    /\ UNCHANGED <<env, hostVars, agentVars, feed, tabVars, steps>>

(* createContainer: the second await fails and nothing is taken back.      *)
StartFails(j) ==
    /\ "startFails" \in env
    /\ j.act = "create" /\ j.at = "doing" /\ script[j.c] = <<"start">>
    /\ script' = [script EXCEPT ![j.c] = <<>>]
    /\ jobs' = jobs \ {j}
    /\ UNCHANGED <<env, host, agentVars, feed, tabVars, steps>>

(* The connection breaks: events not under way yet are lost, the agent     *)
(* goes on with what it was asked.                                         *)
AgentLost(s) ==
    /\ "agentLeaves" \in env /\ online[s] /\ steps < MaxSteps
    /\ steps' = steps + 1
    /\ online' = [online EXCEPT ![s] = FALSE]
    /\ watching' = [watching EXCEPT ![s] = FALSE]
    /\ \E n \in 0..Len(feed[s]) :
          LET kept == SubSeq(feed[s], 1, n)
          IN  \/ feed' = [feed EXCEPT ![s] = Append(kept, [c |-> None, e |-> "offline"])]
              \/ "unnoticed" \in env /\ feed' = [feed EXCEPT ![s] = kept]
    /\ UNCHANGED <<env, hostVars, jobs, tabVars>>

(* send drops an answer while there is no open connection; and without the *)
(* members the backend relays neither a request nor an answer.             *)
Drop(j) ==
    /\ \/ "readFails" \in env
       \/ /\ ~online[j.server]
          /\ "resultLost" \in env \/ j.act \notin {"create", "remove"}
    /\ jobs' = jobs \ {j}
    /\ UNCHANGED <<env, hostVars, agentVars, feed, tabVars, steps>>

(* connect's "open": the status, and the initial state if it gets through. *)
AgentBack(s) ==
    /\ ~online[s]
    /\ online' = [online EXCEPT ![s] = TRUE]
    /\ feed' = [feed EXCEPT ![s] = Append(@, [c |-> None, e |-> "online"])]
    /\ jobs' \in {jobs, jobs \cup {Job("list", s, None)}}
    /\ UNCHANGED <<env, hostVars, watching, tabVars, steps>>

(* getEvents calls back with the stream.                                   *)
StreamOpens(s) ==
    /\ online[s] /\ ~watching[s]
    /\ watching' = [watching EXCEPT ![s] = TRUE]
    /\ UNCHANGED <<env, hostVars, online, feed, jobs, tabVars, steps>>

-----------------------------------------------------------------------------
(* The backend: broadcastToServerMembers awaits getServerMemberIds.        *)

(* Of two messages, the members are known for the later one first.         *)
Overtakes(s) ==
    /\ "slowRead" \in env
    /\ \E i \in 1..Len(feed[s]) : i + 1 \in 1..Len(feed[s]) /\
          feed' = [feed EXCEPT ![s][i] = feed[s][i + 1], ![s][i + 1] = feed[s][i]]
    /\ UNCHANGED <<env, hostVars, agentVars, jobs, tabVars, steps>>

(* They cannot be read, and none are cached: the message goes to nobody.   *)
Missed(s) ==
    /\ "readFails" \in env
    /\ \E i \in 1..Len(feed[s]) : feed' = [feed EXCEPT ![s] = RemoveAt(@, i)]
    /\ UNCHANGED <<env, hostVars, agentVars, jobs, tabVars, steps>>

-----------------------------------------------------------------------------
(* The tab.                                                                *)

(* Layout renders the page only while agentState is "online".              *)
Mounted == serverId # None /\ agentState = "online"

(* Slip: the end of a container is taken for part of its "stop".           *)
UpdatedWithoutDie(row, e) == IF e = "die" THEN row
    ELSE CASE e = "kill"                 -> [row EXCEPT !.process = TRUE]
           [] e = "stop"                 -> [state |-> "exited", process |-> FALSE]
           [] e \in {"start", "unpause"} -> [state |-> "running", process |-> FALSE]
           [] e = "pause"                -> [state |-> "paused", process |-> FALSE]
           [] OTHER                      -> row

(* handleDockerEvent on a row.                                             *)
Updated(row, e) ==
    CASE e = "kill"                 -> [row EXCEPT !.process = TRUE]
      [] e \in {"stop", "die"}      -> [state |-> "exited", process |-> FALSE]
      [] e \in {"start", "unpause"} -> [state |-> "running", process |-> FALSE]
      [] e = "pause"                -> [state |-> "paused", process |-> FALSE]
      [] OTHER                      -> row

(* docker:event, for a row that is there.                                  *)
HandleEvent(s) ==
    LET m == Head(feed[s])
    IN  /\ connected /\ s \in mine /\ feed[s] # <<>> /\ m.c # None
        /\ feed' = [feed EXCEPT ![s] = Tail(@)]
        /\ containers' = [c \in DOMAIN containers |->
                             IF c = m.c THEN Updated(containers[c], m.e) ELSE containers[c]]
        /\ UNCHANGED <<env, hostVars, agentVars, jobs, connected, agentState,
                       serverId, logs, inspect, steps>>

(* Slip: the page that comes back trusts the rows it had.                  *)
HandleStatusOnly(s) ==
    LET m == Head(feed[s])
    IN  /\ connected /\ s \in mine /\ feed[s] # <<>> /\ m.c = None
        /\ feed' = [feed EXCEPT ![s] = Tail(@)]
        /\ agentState' = m.e
        /\ UNCHANGED <<env, hostVars, agentVars, jobs, connected, serverId,
                       containers, logs, inspect, steps>>

(* agent:online and agent:offline, of whatever server; a page that comes   *)
(* back asks for the list.                                                 *)
HandleStatus(s) ==
    LET m == Head(feed[s])
    IN  /\ connected /\ s \in mine /\ feed[s] # <<>> /\ m.c = None
        /\ feed' = [feed EXCEPT ![s] = Tail(@)]
        /\ agentState' = m.e
        /\ jobs' = IF m.e = "online" /\ agentState # "online" /\ serverId # None
                     THEN jobs \cup Asked({Job("list", serverId, None)}) ELSE jobs
        /\ UNCHANGED <<env, hostVars, agentVars, connected, serverId,
                       containers, logs, inspect, steps>>

(* containers:list:result replaces the rows, of whatever server.           *)
HandleList(j) ==
    /\ connected /\ j.server \in mine /\ j.act = "list" /\ j.at = "read"
    /\ jobs' = jobs \ {j}
    /\ containers' = [c \in DOMAIN j.list |-> [state |-> j.list[c], process |-> FALSE]]
    /\ UNCHANGED <<env, hostVars, agentVars, feed, connected, agentState,
                   serverId, logs, inspect, steps>>

(* The result of a command: a removed container leaves the rows, a created *)
(* one makes its page ask for the list, the other results go unnoticed.    *)
HandleResult(j) ==
    /\ connected /\ j.server \in mine /\ j.at = "doing" /\ script[j.c] = <<>>
    /\ jobs' = (jobs \ {j}) \cup
               IF j.act = "create" /\ Mounted /\ serverId = j.server
                 THEN Asked({Job("list", serverId, None)}) ELSE {}
    /\ containers' = IF j.act = "remove"
                       THEN [c \in DOMAIN containers \ {j.c} |-> containers[c]] ELSE containers
    /\ UNCHANGED <<env, hostVars, agentVars, feed, connected, agentState,
                   serverId, logs, inspect, steps>>

(* Slip: whatever comes is shown.                                          *)
SetAnyLines(c) ==
    IF logs.containerId # None THEN [logs EXCEPT !.content = c, !.loading = FALSE] ELSE logs

(* setLines: only for the container whose modal is open.                   *)
SetLines(c) ==
    IF logs.containerId = c THEN [logs EXCEPT !.content = c, !.loading = FALSE] ELSE logs

(* setData: for any container, if a modal is open.                         *)
SetData(c) ==
    IF inspect.containerId # None
      THEN [inspect EXCEPT !.content = c, !.loading = FALSE] ELSE inspect

(* getContainerLogs or inspectContainer answers.                           *)
HandleAnswer(j) ==
    /\ connected /\ j.server \in mine /\ j.act \in Question
    /\ j.c \in Existing(j.server)
    /\ jobs' = jobs \ {j}
    /\ logs' = IF j.act = "logs" THEN SetLines(j.c) ELSE logs
    /\ inspect' = IF j.act = "inspect" THEN SetData(j.c) ELSE inspect
    /\ UNCHANGED <<env, hostVars, agentVars, feed, connected, agentState,
                   serverId, containers, steps>>

(* The commands a row offers ("created" has no icon but the pause button). *)
Offers(c) ==
    LET state == containers[c].state
        toggle == CASE state = "running" -> {"stop"}
                    [] state = "paused"  -> {"unpause"}
                    [] state = "exited"  -> {"start"}
                    [] OTHER             -> {}
    IN  IF "viewer" \in env THEN {}
        ELSE (IF containers[c].process THEN {}
              ELSE toggle \cup {"restart"}
                          \cup IF state \in {"paused", "exited"} THEN {} ELSE {"pause"})
             \cup IF state = "running" THEN {} ELSE {"remove"}

NoModal == logs.containerId = None /\ inspect.containerId = None

(* handleContrinerAction, handleRemoveContainer.                           *)
Press(c, act) ==
    /\ steps < MaxSteps /\ steps' = steps + 1
    /\ Mounted /\ NoModal /\ c \in DOMAIN containers /\ act \in Offers(c)
    /\ jobs' = jobs \cup Asked({Job(act, serverId, c)})
    /\ UNCHANGED <<env, hostVars, agentVars, feed, tabVars>>

(* DeployContainerModal's onSubmit.                                        *)
Deploy(c) ==
    /\ steps < MaxSteps /\ steps' = steps + 1
    /\ Mounted /\ NoModal /\ "viewer" \notin env
    /\ ServerOf[c] = serverId /\ host[c] = "unborn" /\ script[c] = <<>>
    /\ jobs' = jobs \cup Asked({Job("create", serverId, c)})
    /\ UNCHANGED <<env, hostVars, agentVars, feed, tabVars>>

(* handleViewLogs and handleInspect.                                       *)
OpenModal(q, c) ==
    /\ "modals" \in env /\ Mounted /\ NoModal /\ c \in DOMAIN containers
    /\ "early" \in env \/ \A j \in jobs : j.act \notin Question
    /\ jobs' = jobs \cup Asked({Job(q, serverId, c)})
    /\ LET opened == [containerId |-> c, content |-> None, loading |-> TRUE]
       IN  IF q = "logs" THEN logs' = opened /\ UNCHANGED inspect
                         ELSE inspect' = opened /\ UNCHANGED logs
    /\ UNCHANGED <<env, hostVars, agentVars, feed, connected, agentState,
                   serverId, containers, steps>>

Closed == [containerId |-> None, content |-> None, loading |-> FALSE]

CloseModal ==
    /\ ~NoModal
    /\ logs' = Closed /\ inspect' = Closed
    /\ UNCHANGED <<env, hostVars, agentVars, feed, jobs, connected, agentState,
                   serverId, containers, steps>>

(* A page that shows containers is opened; if it is mounted it asks.       *)
OpenPage(s) ==
    /\ "navigates" \in env /\ serverId # s /\ s \in mine /\ NoModal
    /\ serverId' = s
    /\ jobs' = IF agentState = "online" THEN jobs \cup Asked({Job("list", s, None)}) ELSE jobs
    /\ UNCHANGED <<env, hostVars, agentVars, feed, connected, agentState,
                   containers, logs, inspect, steps>>

(* Another page (images, ...) takes its place; the stores keep their rows. *)
LeavePage ==
    /\ "navigates" \in env /\ serverId # None /\ NoModal
    /\ serverId' = None
    /\ UNCHANGED <<env, hostVars, agentVars, feed, jobs, connected, agentState,
                   containers, logs, inspect, steps>>

(* A page in another tab asks; the answer reaches this one as well.        *)
OtherTabAsks(s) ==
    /\ "otherTab" \in env /\ s \in mine /\ online[s]
    /\ steps < MaxSteps /\ steps' = steps + 1
    /\ \/ jobs' = jobs \cup {Job("list", s, None)}
       \/ \E c \in Existing(s), q \in Question : jobs' = jobs \cup {Job(q, s, c)}
    /\ UNCHANGED <<env, hostVars, agentVars, feed, tabVars>>

(* onclose: nothing opens the socket again.                                *)
SocketLost ==
    /\ "socketLost" \in env /\ connected
    /\ connected' = FALSE
    /\ UNCHANGED <<env, hostVars, agentVars, feed, jobs, agentState, serverId,
                   containers, logs, inspect, steps>>

(* The tab was just opened: the backend sent the status of every agent of  *)
(* the user's servers (sendCurrentAgentStatuses).                          *)
Init ==
    /\ env \in Environments
    /\ host \in [Container -> {"unborn", "running", "exited"}]
    /\ \A c \in Container : ServerOf[c] \notin mine => host[c] = "unborn"
    /\ script = [c \in Container |-> <<>>]
    /\ online = [s \in Server |-> TRUE] /\ watching = [s \in Server |-> TRUE]
    /\ feed = [s \in Server |-> IF s \in mine THEN <<[c |-> None, e |-> "online"]>> ELSE <<>>]
    /\ jobs = {} /\ connected = TRUE /\ agentState = None /\ serverId = Mine
    /\ containers = <<>> /\ logs = Closed /\ inspect = Closed /\ steps = 0

Next ==
    \/ \E c \in Container : DockerStep(c) \/ ByHand(c) \/ Deploy(c)
    \/ \E j \in jobs : ReadList(j) \/ Begin(j) \/ Refuse(j) \/ StartFails(j) \/ Drop(j)
                       \/ HandleList(j) \/ HandleResult(j) \/ HandleAnswer(j)
    \/ \E s \in Server : \/ AgentLost(s) \/ AgentBack(s) \/ StreamOpens(s)
                         \/ Overtakes(s) \/ Missed(s) \/ HandleEvent(s) \/ HandleStatus(s)
                         \/ OpenPage(s) \/ OtherTabAsks(s)
    \/ \E c \in Container : \/ \E act \in Command : Press(c, act)
                            \/ \E q \in Question : OpenModal(q, c)
    \/ CloseModal \/ LeavePage \/ SocketLost

Spec == Init /\ [][Next]_vars

-----------------------------------------------------------------------------
(* Properties.                                                             *)

(* Nothing is under way that concerns the rows of server s.                *)
Settled(s) ==
    /\ online[s] /\ feed[s] = <<>>
    /\ \A j \in jobs : j.server = s => j.act \in Question
    /\ \A c \in Container : ServerOf[c] = s => script[c] = <<>>

Looking == connected /\ Mounted

(* Once nothing is under way, a page that is open shows the containers of  *)
(* its server as Docker has them: through commands, also refused ones, a   *)
(* restart of the agent, other tabs' questions and changes by hand; unless *)
(* a list was refused or overtaken by an event, one event was overtaken by *)
(* another or lost, a container was created or removed outside or half     *)
(* created, the agent came back unnoticed, or the tab gets the messages of *)
(* another server too.                                                     *)
ViewTrue ==
    (env \cap {"overtaken", "slowRead", "readFails", "listFails", "outside", "startFails",
             "unnoticed", "resultLost", "otherServer"} = {}
       /\ Looking /\ Settled(serverId)) =>
        /\ DOMAIN containers = Existing(serverId)
        /\ \A c \in Existing(serverId) : containers[c].state = host[c]

(* A row's buttons come back: its process mark is gone when nothing is     *)
(* under way, also in a list that was overtaken or is another server's;    *)
(* unless a signal did not end the container, its end was told before its  *)
(* "kill" or not at all, or the agent was away and came back unnoticed, by *)
(* the backend or by the tab, which takes the status of any server for     *)
(* that of its own, or the list it then asks for is refused.               *)
ProcessEnds ==
    (env \cap {"signal", "unnoticed", "slowRead", "readFails"} = {}
       /\ ("agentLeaves" \in env => env \cap {"otherServer", "listFails"} = {})
       /\ Looking
       /\ \A s \in mine : Settled(s)) =>
        \A c \in DOMAIN containers : ~containers[c].process

(* A modal shows its own container: the logs always, whatever was asked    *)
(* before or by others; the inspection if no answer to an earlier or       *)
(* another tab's question is on its way.  And its spinner turns only while *)
(* its answer is under way, unless the container is gone, or its row was   *)
(* another server's, it is refused, the members cannot be read, or the     *)
(* agent's or the tab's connection breaks: an error has no handler, a lost *)
(* answer no timeout.                                                      *)
ModalTrue ==
    /\ logs.content \in {None, logs.containerId}
    /\ env \cap {"early", "otherTab"} = {} => inspect.content \in {None, inspect.containerId}
    /\ env \cap {"refuses", "readFails", "agentLeaves", "socketLost", "otherServer"} = {} =>
          \A q \in Question : LET modal == IF q = "logs" THEN logs ELSE inspect
                             IN  modal.loading /\ host[modal.containerId] # "gone" =>
                                     \E j \in jobs : j.act = q /\ j.c = modal.containerId
=============================================================================

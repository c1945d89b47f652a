----------------------------------- MODULE Tab ----------------------------------
(***************************************************************************)
(* One browser tab on a page of a server and its way to the agents: what   *)
(* was asked over the WebSocket (and, for saved stacks, over REST) and is  *)
(* not handled yet, and the statuses of the agents.  HostPages and Stacks  *)
(* add the pages, Pages puts them together.                                *)
(*                                                                         *)
(* Every command is carried out in its own time by the agent; its answer   *)
(* goes to all tabs of the members and is handled in any order.            *)
(***************************************************************************)
EXTENDS Naturals, SequencesExt

CONSTANTS
    Server, Mine, \* the user's servers, and the one opened first
    Item,         \* images or networks by id, volumes or stacks by name
    MaxSteps,     \* bound: presses, commands of other tabs, lost connections
    Environments  \* pairs of a page and a set of circumstances to consider

(***************************************************************************)
(* overtaken: the host changes while a list that was read is on its way;   *)
(* outside: the host changes without the agent;  otherTab, otherServer:    *)
(*   another tab uses this server, or another one (and its agent leaves);  *)
(* refuses: Docker, or for a deploy the disk, may refuse a command;        *)
(* halfway: compose fails after it changed something;  invalid: the        *)
(*   backend may refuse a command (what was typed, the limiter, the role); *)
(* listFails: the limiter, Docker or the database may refuse a question;   *)
(* slowRead: the members of a server are read for a status while those of  *)
(*   a later one are known, which overtakes it;  readFails: they cannot be *)
(*   read, and what was asked or told is lost;                             *)
(* slow: a timer of the page fires before the command was carried out;     *)
(* agentLeaves: the agent's connection breaks;  unnoticed: ... and is      *)
(*   replaced before the backend says it is offline;  recreated: ... since *)
(*   its container was, without its files;  socketLost: the tab's own      *)
(*   connection breaks;  navigates: the user goes to another server when   *)
(*   nothing is under way;  hurries: ... while a timer of the page runs;   *)
(* edits: the user edits stacks.                                           *)
(***************************************************************************)
Circumstances ==
    {"overtaken", "outside", "otherTab", "otherServer", "refuses", "halfway", "invalid",
     "listFails", "slowRead", "readFails", "slow", "agentLeaves", "unnoticed", "recreated",
     "socketLost", "navigates", "hurries", "edits"}

ASSUME MineAssumption == Mine \in Server
ASSUME MaxStepsAssumption == MaxSteps \in Nat

VARIABLES
    env,         \* the circumstances of this behaviour
    page,        \* the page that is open
    serverId,    \* and its server
    online,      \* online[s]: the agent is connected
    feed,        \* statuses of agents, in the order in which the tab will get them
    connected,   \* isConnected of the tab's WebSocketContext
    agentState,  \* systemData.agentState: the page is mounted while "online"
    jobs,        \* what was asked and the tab has not handled
    steps

tabVars == <<env, page, serverId, online, feed, connected, agentState, steps>>

None == "none"
Page == {"images", "networks", "volumes", "stacks"}

ASSUME EnvironmentsAssumption == Environments \subseteq Page \X SUBSET Circumstances

(* What a page asks when it is mounted and when its server changes.        *)
Questions(pg) ==
    CASE pg = "images" -> {"list", "dangling"}
      [] pg = "stacks" -> {"list", "saved"}
      [] OTHER         -> {"list"}

(* at: "asked"; for a list "items" and "use" while one half of it is read, *)
(* and "read"; for a command "written", then "done" or "failed".           *)
Job(act, s, i) ==
    [act |-> act, server |-> s, item |-> i, session |-> 0, at |-> "asked",
     items |-> {}, use |-> {}, yaml |-> None]

(* ... of this tab's user: session tells it from the others.               *)
MyJob(act, s, i) == [Job(act, s, i) EXCEPT !.session = steps + 1]

Asking(acts, s) == {Job(act, s, None) : act \in acts}

(* sendMessage drops what it cannot send; the backend answers a request    *)
(* for an offline agent with an error, which the tab ignores.              *)
Asked(js) == IF connected THEN {j \in js : online[j.server]} ELSE {}

(* refreshImages and refreshDiskUsage, refreshNetworks, ...                *)
Refresh(acts, s) == Asked(Asking(acts, s))

Mounted == agentState = "online"
Step == steps < MaxSteps /\ steps' = steps + 1

(* A new saved-stacks query cancels the one that runs.                     *)
Replacing(js, acts) == IF "saved" \in acts THEN {j \in js : j.act # "saved"} ELSE js

Opening(s) == Replacing(jobs, Questions(page))
                  \cup (IF page = "stacks" THEN {Job("saved", s, None)} ELSE {})
                  \cup Refresh(Questions(page) \ {"saved"}, s)

(* The agent's connection breaks; the agent goes on with what it was asked.*)
AgentLost(s) ==
    /\ "agentLeaves" \in env /\ Step /\ online[s]
    /\ s = serverId \/ "otherServer" \in env
    /\ online' = [online EXCEPT ![s] = FALSE]
    /\ feed' \in {Append(feed, "offline")} \cup (IF "unnoticed" \in env THEN {feed} ELSE {})
    /\ UNCHANGED <<env, page, serverId, connected, agentState, jobs>>

(* sendInitialState: a list of images that nobody asked for.               *)
AgentBack(s) ==
    /\ ~online[s]
    /\ online' = [online EXCEPT ![s] = TRUE]
    /\ feed' = Append(feed, "online")
    /\ jobs' = IF page = "images" THEN jobs \cup {Job("list", s, None)} ELSE jobs
    /\ UNCHANGED <<env, page, serverId, connected, agentState, steps>>

(* The backend awaits getServerMemberIds: for one status longer than for   *)
(* the next; or it cannot read them, and the status goes to nobody.        *)
Overtakes ==
    /\ "slowRead" \in env
    /\ \E i \in 1..Len(feed) : i + 1 \in 1..Len(feed) /\
          feed' = [feed EXCEPT ![i] = feed[i + 1], ![i + 1] = feed[i]]
    /\ UNCHANGED <<env, page, serverId, online, connected, agentState, jobs, steps>>

Missed ==
    /\ "readFails" \in env
    /\ \E i \in 1..Len(feed) : feed' = RemoveAt(feed, i)
    /\ UNCHANGED <<env, page, serverId, online, connected, agentState, jobs, steps>>

(* agent:online and agent:offline: Layout takes the page away or puts it   *)
(* back, and then it asks again.                                           *)
HandleStatus ==
    /\ connected /\ feed # <<>>
    /\ feed' = Tail(feed) /\ agentState' = Head(feed)
    /\ jobs' = IF Head(feed) = "online" /\ ~Mounted THEN Opening(serverId) ELSE jobs
    /\ UNCHANGED <<env, page, serverId, online, connected, steps>>

(* onclose: nothing opens the socket again.                                *)
SocketLost ==
    /\ "socketLost" \in env /\ connected /\ connected' = FALSE
    /\ UNCHANGED <<env, page, serverId, online, feed, agentState, jobs, steps>>

(* The agent drops what it cannot send, the backend what it cannot relay,  *)
(* to the agent or to the tab.                                             *)
Drop(j) ==
    /\ \/ ~online[j.server]
       \/ "readFails" \in env /\ j.at \in {"asked", "read", "done", "failed"}
    /\ j.act # "saved" /\ jobs' = jobs \ {j}
    /\ UNCHANGED tabVars

(* The same page of another server, in place: only serverId changes.       *)
GoTo(s) ==
    /\ "navigates" \in env /\ Step /\ s # serverId /\ Mounted /\ jobs = {}
    /\ serverId' = s /\ jobs' = Opening(s)
    /\ UNCHANGED <<env, page, online, feed, connected, agentState>>

(* Nothing that would show the host as it was is under way.                *)
Undisturbed(s) ==
    "overtaken" \in env \/ \A j \in jobs : j.server = s => j.at \notin {"items", "use", "read"}

(* Another tab's command or question.                                      *)
OtherTab(j) ==
    /\ Step /\ online[j.server]
    /\ (IF j.server = serverId THEN "otherTab" ELSE "otherServer") \in env
    /\ jobs' = jobs \cup {j}
    /\ UNCHANGED <<env, page, serverId, online, feed, connected, agentState>>

(* The page has just been opened, with its server's agent connected.       *)
TabInit ==
    /\ \E e \in Environments : page = e[1] /\ env = e[2]
    /\ serverId = Mine
    /\ online = [s \in Server |-> TRUE] /\ feed = <<>>
    /\ connected = TRUE /\ agentState = "online" /\ steps = 0
    /\ jobs = Asking(Questions(page), serverId)

(* agentState, once all statuses were handled, is that of the page's agent:*)
(* not if one is late or lost; a status names no server the tab looks at,  *)
(* so not if the agent of another one can leave and come back meanwhile.   *)
StatusTells ==
    /\ env \cap {"unnoticed", "slowRead", "readFails"} = {}
    /\ "agentLeaves" \in env => env \cap {"otherServer", "navigates"} = {}

Looking == connected /\ Mounted /\ feed = <<>> /\ online[serverId]
=============================================================================

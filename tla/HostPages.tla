-------------------------------- MODULE HostPages -------------------------------
(***************************************************************************)
(* The pages of a server's images, networks and volumes (Images.jsx with   *)
(* BuildImageModal.jsx, Networks.jsx, Volumes.jsx), their stores and the   *)
(* operations of the agent under them (docker.js).                         *)
(*                                                                         *)
(* No page learns that the host has changed: it asks again when a command  *)
(* is answered (a prune, a build, a created network), after a fixed time   *)
(* (a pull, a removed image), or it takes out the row (a removed network   *)
(* or volume).  A refused command has no answer the page listens to.       *)
(***************************************************************************)
EXTENDS Tab

VARIABLES
    host,       \* host[s][i]: see Use
    list,       \* the rows of the page's store, and which of them are in use
    dangling,   \* the store of dangling images
    pulling, pruning, creating, buildOpen,   \* useState of the mounted page
    build,      \* the imageBuild store: sessionId and status
    timers      \* setTimeout calls of the images page that have not fired

pageState == <<pulling, pruning, creating, buildOpen>>
stores == <<list, dangling, build>>
hostVars == <<host, stores, pageState, timers>>

(* An image is tagged, a network connected, a volume mounted: "used"; the  *)
(* id of a network that is "gone" does not come again.                     *)
Use == {"absent", "free", "used", "gone"}
HostCommand == {"pull", "rmi", "prune", "build", "create", "rmnet", "rmvol"}
CommandsOf(pg) ==
    CASE pg = "images"   -> {"pull", "rmi", "prune", "build"}
      [] pg = "networks" -> {"create", "rmnet"}
      [] pg = "volumes"  -> {"rmvol"}
      [] OTHER           -> {}
ImageQuestions == {"list", "dangling"}

Rows == [items : SUBSET Item, use : SUBSET Item]
Existing(s) == {i \in Item : host[s][i] \in {"free", "used"}}
InUse(s) == {i \in Item : host[s][i] = "used"}

(* Every variable has its type.                                            *)
HostTypeOK ==
    /\ host \in [Server -> [Item -> Use]]
    /\ list \in Rows /\ dangling \in SUBSET Item
    /\ {pulling, pruning, creating, buildOpen} \subseteq BOOLEAN
    /\ build \in [session : 0..MaxSteps, status : {"idle", "building", "done", "error"}]
    /\ timers \subseteq [kind : {"pull", "remove"}, server : Server,
                         id : 1..MaxSteps, live : BOOLEAN]

-----------------------------------------------------------------------------
(* The agent.                                                              *)

(* What a command makes of the host; nothing if Docker cannot do it.  A    *)
(* build may take the tag of another image.                                *)
ImageEffects(act, i, h) ==
    CASE act = "pull"  -> {[h EXCEPT ![i] = "used"]}
      [] act = "rmi"   -> IF h[i] # "absent" THEN {[h EXCEPT ![i] = "absent"]} ELSE {}
      [] act = "prune" -> {[k \in Item |-> IF h[k] = "free" THEN "absent" ELSE h[k]]}
      [] act = "build" -> {[h EXCEPT ![i] = "used"]} \cup
                          {[h EXCEPT ![i] = "used", ![k] = "free"] :
                              k \in {n \in Item \ {i} : h[i] = "absent" /\ h[n] = "used"}}

NetworkEffects(act, i, h) ==
    CASE act = "create" /\ h[i] = "absent" -> {[h EXCEPT ![i] = "free"]}
      [] act = "rmnet" /\ h[i] = "free"    -> {[h EXCEPT ![i] = "gone"]}
      [] OTHER                             -> {}

VolumeEffects(i, h) == IF h[i] # "used" THEN {[h EXCEPT ![i] = "absent"]} ELSE {}

Effects(act, i, h) ==
    CASE act \in CommandsOf("images")   -> ImageEffects(act, i, h)
      [] act \in CommandsOf("networks") -> NetworkEffects(act, i, h)
      [] act \in CommandsOf("volumes")  -> VolumeEffects(i, h)

(* pullImage ... removeNetwork.                                            *)
Execute(j) ==
    /\ j.act \in HostCommand /\ j.at = "asked" /\ Undisturbed(j.server)
    /\ \E h \in Effects(j.act, j.item, host[j.server]) : host' = [host EXCEPT ![j.server] = h]
    /\ jobs' = (jobs \ {j}) \cup {[j EXCEPT !.at = "done"]}
    /\ UNCHANGED <<tabVars, stores, pageState, timers>>

(* docker:error, for which the tab has no handler; a build has its own end.*)
(* A question of a page other than stacks may fail as well, in either half.*)
Fail(j) ==
    /\ \/ /\ j.act \in HostCommand /\ j.at = "asked"
          /\ "refuses" \in env \/ Effects(j.act, j.item, host[j.server]) = {}
       \/ /\ page # "stacks" /\ j.act \in ImageQuestions /\ j.at # "read"
          /\ "listFails" \in env
    /\ jobs' = (jobs \ {j}) \cup
               (IF j.act = "build" THEN {[j EXCEPT !.at = "failed"]} ELSE {})
    /\ UNCHANGED <<tabVars, hostVars>>

(* The backend refuses, also a question, which its limiter counts: an      *)
(* error, for which the tab has no handler either.                         *)
Invalid(j) ==
    /\ j.at = "asked"
    /\ \/ "invalid" \in env /\ j.act \in HostCommand
       \/ "listFails" \in env /\ page # "stacks" /\ j.act \in ImageQuestions
    /\ jobs' = jobs \ {j}
    /\ UNCHANGED <<tabVars, hostVars>>

(* The questions of a page other than stacks; listVolumes reads volumes    *)
(* and containers at once and joins what it gets.                          *)
ReadItems(j) ==
    /\ page # "stacks" /\ j.act \in ImageQuestions /\ j.at \in {"asked", "use"}
    /\ jobs' = (jobs \ {j}) \cup
               {IF page = "volumes"
                  THEN [j EXCEPT !.items = Existing(j.server),
                                 !.at = IF @ = "use" THEN "read" ELSE "items"]
                  ELSE [j EXCEPT !.items = Existing(j.server), !.use = InUse(j.server),
                                 !.at = "read"]}
    /\ UNCHANGED <<tabVars, hostVars>>

ReadUse(j) ==
    /\ page = "volumes" /\ j.act = "list" /\ j.at \in {"asked", "items"}
    /\ jobs' = (jobs \ {j}) \cup
               {[j EXCEPT !.use = InUse(j.server), !.at = IF @ = "items" THEN "read" ELSE "use"]}
    /\ UNCHANGED <<tabVars, hostVars>>

(* The host changes without the agent: containers come and go.             *)
ByHand(s, i) ==
    /\ "outside" \in env /\ Step
    /\ \E u \in {"absent", "free", "used"} \ {host[s][i]} : host' = [host EXCEPT ![s][i] = u]
    /\ UNCHANGED <<env, page, serverId, online, feed, connected, agentState, jobs,
                   stores, pageState, timers>>

-----------------------------------------------------------------------------
(* The tab.                                                                *)

(* ...:list:result and images:dangling:result, of whatever server.      *)
HandleList(j) ==
    /\ connected /\ page # "stacks" /\ j.act \in ImageQuestions /\ j.at = "read"
    /\ jobs' = jobs \ {j}
    /\ LET rows == [items |-> j.items, use |-> j.use \cap j.items]
       IN  /\ list' = IF j.act = "list" THEN rows ELSE list
           /\ dangling' = IF j.act = "dangling" THEN j.items \ j.use ELSE dangling
    /\ UNCHANGED <<tabVars, host, build, pageState, timers>>

(* The removal of a volume names no server; a network's id is its own.     *)
WithoutRow(j) ==
    IF j.act = "rmvol" \/ (j.act = "rmnet" /\ j.server = serverId)
      THEN [items |-> list.items \ {j.item}, use |-> list.use \ {j.item}] ELSE list

(* Slip: a build is not followed by a refresh.                             *)
AsksAgainAfterPrune(j) ==
    CASE ~Mounted \/ j.at = "failed"                        -> {}
      [] j.act = "prune" /\ page = "images"              -> ImageQuestions
      [] j.act = "create" /\ page = "networks"            -> {"list"}
      [] OTHER                                            -> {}

(* What makes the page ask again.                                          *)
AsksAgain(j) ==
    CASE ~Mounted \/ j.at = "failed"                           -> {}
      [] j.act \in {"prune", "build"} /\ page = "images"    -> ImageQuestions
      [] j.act = "create" /\ page = "networks"               -> {"list"}
      [] OTHER                                               -> {}

(* finishBuild: for the session of the store.                              *)
Finished(j) ==
    IF j.act = "build" /\ j.session = build.session /\ build.session > 0
      THEN [build EXCEPT !.status = IF j.at = "done" THEN "done" ELSE "error"] ELSE build

(* The answer to a command; whoever gave it, the page's marks go.          *)
HandleResult(j) ==
    /\ connected /\ j.act \in HostCommand /\ j.at \in {"done", "failed"}
    /\ jobs' = (jobs \ {j}) \cup Refresh(AsksAgain(j), serverId)
    /\ list' = WithoutRow(j) /\ build' = Finished(j)
    /\ pruning' = (pruning /\ ~(j.act \in {"prune", "build"} /\ j.at = "done"))
    /\ creating' = (creating /\ j.act # "create")
    /\ UNCHANGED <<tabVars, host, dangling, pulling, buildOpen, timers>>

(* The timers of handlePull and handleRemove: with the server they had.    *)
TimerFires(t) ==
    /\ "slow" \in env \/ \A j \in jobs : j.session = t.id => j.at # "asked"
    /\ timers' = timers \ {t}
    /\ pulling' = (pulling /\ ~(t.kind = "pull" /\ t.live))
    /\ jobs' = jobs \cup Refresh(ImageQuestions, t.server)
    /\ UNCHANGED <<tabVars, host, stores, pruning, creating, buildOpen>>

(* The buttons.  A pull and a prune wait for their mark, a prune needs     *)
(* dangling images.                                                        *)
ImageButtons(i) ==
    {act \in {"pull", "rmi", "prune"} :
        /\ act = "pull" => ~pulling
        /\ act = "prune" => ~pruning /\ dangling # {}
        /\ act = "rmi" => i \in list.items}

(* The name of a new network is a free one, or Docker refuses it.          *)
NetworkButtons(i) ==
    {act \in {"create", "rmnet"} :
        /\ act = "create" => ~creating /\ ("refuses" \in env \/ host[serverId][i] = "absent")
        /\ act = "rmnet" => i \in list.items \ list.use}

VolumeButtons(i) == IF i \in list.items \ list.use THEN {"rmvol"} ELSE {}

Offered(i) ==
    CASE page = "images"   -> ImageButtons(i)
      [] page = "networks" -> NetworkButtons(i)
      [] page = "volumes"  -> VolumeButtons(i)
      [] OTHER             -> {}

(* handlePull, handleRemove, handlePrune, handleCreate; the build modal is *)
(* not on top.                                                             *)
PressHost(act, i) ==
    /\ Step /\ Mounted /\ ~buildOpen /\ act \in Offered(i)
    /\ jobs' = jobs \cup Asked({MyJob(act, serverId, i)})
    /\ pulling' = (pulling \/ act = "pull") /\ pruning' = (pruning \/ act = "prune")
    /\ creating' = (creating \/ act = "create")
    /\ timers' = timers \cup {[kind |-> k, server |-> serverId, id |-> steps + 1, live |-> TRUE] :
                                  k \in CASE act = "pull" -> {"pull"} [] act = "rmi" -> {"remove"}
                                          [] OTHER -> {}}
    /\ UNCHANGED <<env, page, serverId, online, feed, connected, agentState, host,
                   stores, buildOpen>>

(* Build Image: openModal makes the store forget an earlier build.         *)
OpenBuild ==
    /\ page = "images" /\ Mounted /\ ~buildOpen
    /\ buildOpen' = TRUE /\ build' = [session |-> 0, status |-> "idle"]
    /\ UNCHANGED <<tabVars, jobs, host, list, dangling, pulling, pruning,
                   creating, timers>>

(* handleClose.                                                            *)
CloseBuild ==
    /\ buildOpen /\ build.status # "building"
    /\ buildOpen' = FALSE
    /\ UNCHANGED <<tabVars, jobs, host, stores, pulling, pruning, creating, timers>>

(* handleBuild, from the form that is there before the first build.        *)
StartBuild(i) ==
    /\ Step /\ buildOpen /\ build.session = 0
    /\ build' = [session |-> steps + 1, status |-> "building"]
    /\ jobs' = jobs \cup Asked({MyJob("build", serverId, i)})
    /\ UNCHANGED <<env, page, serverId, online, feed, connected, agentState, host,
                   list, dangling, pageState, timers>>

(* Slip: the marks are kept in a store that outlives the page.             *)
UnmountKeepsMarks ==
    /\ timers' = {[t EXCEPT !.live = FALSE] : t \in timers}
    /\ UNCHANGED <<host, stores, pageState>>

(* A page that is taken away loses its state; its timers run on.           *)
Unmount ==
    /\ pulling' = FALSE /\ pruning' = FALSE /\ creating' = FALSE /\ buildOpen' = FALSE
    /\ timers' = {[t EXCEPT !.live = FALSE] : t \in timers}
    /\ UNCHANGED <<host, stores>>

(* At first some of the items exist, in use or not.                        *)
HostInit ==
    /\ host \in [Server -> [Item -> Use]]
    /\ list = [items |-> {}, use |-> {}] /\ dangling = {}
    /\ pulling = FALSE /\ pruning = FALSE /\ creating = FALSE /\ buildOpen = FALSE
    /\ build = [session |-> 0, status |-> "idle"] /\ timers = {}

HostNext ==
    \/ \E j \in jobs : \/ Execute(j) \/ Fail(j) \/ Invalid(j) \/ ReadItems(j) \/ ReadUse(j)
                       \/ HandleList(j) \/ HandleResult(j)
    \/ \E s \in Server, i \in Item : ByHand(s, i)
    \/ \E i \in Item : StartBuild(i) \/ \E act \in HostCommand : PressHost(act, i)
    \/ \E t \in timers : TimerFires(t)
    \/ OpenBuild \/ CloseBuild

-----------------------------------------------------------------------------
(* Properties.                                                             *)

(* Once nothing is under way and no timer runs, the page shows what the    *)
(* host has, and what of it is in use: through its own commands, refused   *)
(* and invalid ones, a build that takes another image's tag, an agent that *)
(* leaves, a walk to another server, and on the pages of networks and      *)
(* volumes also through the commands of another tab, of which the images   *)
(* page misses pulls and removals.  Not if a question was refused or a list*)
(* was overtaken, a timer fires too early or after the user went on, a     *)
(* status is late or lost, or another server's messages or statuses come   *)
(* in: then the page keeps the rows it has, and nothing is under way.      *)
ListTrue ==
    (env \cap {"listFails", "overtaken", "outside", "otherServer", "slow", "hurries"} = {}
       /\ StatusTells /\ (page = "images" => "otherTab" \notin env) /\ page # "stacks"
       /\ Looking /\ jobs = {} /\ timers = {}) =>
        LET rows == [items |-> Existing(serverId), use |-> InUse(serverId)]
        IN  /\ list = rows
            /\ page = "images" => dangling = rows.items \ rows.use

(* A mark of the page is there only as long as what it waits for: a build, *)
(* a prune or a create that was asked for and is not answered, a timer.    *)
(* So no button stays dead and the build modal can be closed: also if a    *)
(* build fails, and if the agent leaves, for then the page starts afresh;  *)
(* but not if the backend refuses the command, or cannot read who is to be *)
(* told, the agent is replaced before it was missed, its statuses come in  *)
(* another order, or another server's agent that comes back hides that it  *)
(* left; and a prune or a create that Docker refuses is waited for as long *)
(* as the page is open.                                                    *)
MarksEnd ==
    LET waiting(act) == \E j \in jobs : j.act = act /\ j.session > 0
    IN  ("invalid" \notin env /\ StatusTells /\ Looking) =>
            /\ buildOpen /\ build.status = "building" =>
                   \E j \in jobs : j.act = "build" /\ j.session = build.session
            /\ pulling => \E t \in timers : t.kind = "pull"
            /\ "refuses" \notin env =>
                  /\ pruning => waiting("prune")
                  /\ creating => waiting("create") \/ env \cap {"otherTab", "outside"} # {}
=============================================================================

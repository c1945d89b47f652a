--------------------------------- MODULE Stacks ---------------------------------
(***************************************************************************)
(* The page of a server's Compose stacks (Stacks.jsx, StackEditorModal.jsx,*)
(* StackOpModal.jsx, store/stack.js), the routes that save them            *)
(* (routes/servers/stacks.ts) and the agent that runs them (stacks.js).    *)
(*                                                                         *)
(* A stack is saved in the database, written to the agent's disk by a      *)
(* deploy, and run by Compose from there: three copies, and the page's.    *)
(***************************************************************************)
EXTENDS Tab

CONSTANTS Yaml, DefaultCompose

ASSUME YamlAssumption == DefaultCompose \in Yaml

VARIABLES
    saved,          \* saved[s][n]: the stored compose file, or None
    file,           \* file[s][n]: docker-compose.yml on the agent, or None
    running,        \* running[s][n]: what Compose runs, or None
    shown,          \* shown[s]: what the query of saved stacks has in its cache
    runningStacks,  \* the store: the names Compose listed
    op,             \* the store: the operation its modal shows (server and yaml
                    \* are not in it: they say what was asked for)
    editor          \* the editor: open, editingStack, and what its form holds

stackVars == <<saved, file, running, shown, runningStacks, op, editor>>
StackCommand == {"deploy", "down"}
NoStacks == [n \in Item |-> None]
NoOp == [act |-> None, session |-> 0, target |-> None, server |-> Mine, yaml |-> None,
         status |-> "idle"]

(* Every variable has its type.                                            *)
StackTypeOK ==
    LET Stored == [Item -> Yaml \cup {None}]
    IN  /\ saved \in [Server -> Stored] /\ file \in [Server -> Stored]
        /\ running \in [Server -> Stored] /\ shown \in [Server -> Stored]
        /\ runningStacks \subseteq Item
        /\ op \in [act : StackCommand \cup {None}, session : 0..MaxSteps,
                   target : Item \cup {None}, server : Server, yaml : Yaml \cup {None},
                   status : {"idle", "running", "done", "error"}]
        /\ editor \in [open : BOOLEAN, stack : Item \cup {None}, yaml : Yaml]

-----------------------------------------------------------------------------
(* The agent.                                                              *)

(* writeStackFile, which may fail (what is left of a file that was not     *)
(* written to the end is not told apart from the old one); downStack goes  *)
(* to the directory of an earlier deploy, and spawn fails if there is none.*)
Write(j) ==
    /\ j.at = "asked"
    /\ \/ /\ j.act = "deploy" /\ "refuses" \in env /\ UNCHANGED file
          /\ jobs' = (jobs \ {j}) \cup {[j EXCEPT !.at = "failed"]}
       \/ /\ j.act = "deploy" /\ file' = [file EXCEPT ![j.server][j.item] = j.yaml]
          /\ jobs' = (jobs \ {j}) \cup {[j EXCEPT !.at = "written"]}
       \/ /\ j.act = "down" /\ UNCHANGED file
          /\ jobs' = (jobs \ {j}) \cup
                     {[j EXCEPT !.at = IF file[j.server][j.item] = None THEN "failed" ELSE "written"]}
    /\ UNCHANGED <<tabVars, saved, running, shown, runningStacks, op, editor>>

(* runCompose: it runs what the file says by now.                          *)
Compose(j) ==
    LET after == IF j.act = "deploy" THEN file[j.server][j.item] ELSE None
    IN  /\ j.act \in StackCommand /\ j.at = "written" /\ Undisturbed(j.server)
        /\ \/ /\ jobs' = (jobs \ {j}) \cup {[j EXCEPT !.at = "done"]}
              /\ running' = [running EXCEPT ![j.server][j.item] = after]
           \/ /\ "refuses" \in env /\ jobs' = (jobs \ {j}) \cup {[j EXCEPT !.at = "failed"]}
              /\ \/ UNCHANGED running
                 \/ "halfway" \in env /\ running' = [running EXCEPT ![j.server][j.item] = after]
        /\ UNCHANGED <<tabVars, saved, file, shown, runningStacks, op, editor>>

(* The backend refuses a command, or, by its limiter, a list: the tab is   *)
(* told nothing it listens to.                                             *)
InvalidStack(j) ==
    /\ j.at = "asked"
    /\ \/ "invalid" \in env /\ j.act \in StackCommand
       \/ "listFails" \in env /\ page = "stacks" /\ j.act = "list"
    /\ jobs' = jobs \ {j} /\ UNCHANGED <<tabVars, stackVars>>

(* listStacks: docker compose ls; if it fails, docker:error.               *)
ReadRunning(j) ==
    /\ page = "stacks" /\ j.act = "list" /\ j.at = "asked"
    /\ \/ jobs' = (jobs \ {j}) \cup
                  {[j EXCEPT !.at = "read", !.items = {n \in Item : running[j.server][n] # None}]}
       \/ "listFails" \in env /\ jobs' = jobs \ {j}
    /\ UNCHANGED <<tabVars, stackVars>>

(* The agent's container is replaced, and STACKS_DIR was not on a volume.  *)
Recreated(s) ==
    /\ "recreated" \in env /\ ~online[s] /\ file[s] # NoStacks
    /\ \A j \in jobs : j.server = s => j.act \notin StackCommand
    /\ file' = [file EXCEPT ![s] = NoStacks]
    /\ UNCHANGED <<tabVars, jobs, saved, running, shown, runningStacks, op, editor>>

(* Somebody runs or stops a stack on the host by hand.                     *)
ComposeByHand(s, n) ==
    /\ "outside" \in env /\ Step
    /\ \E y \in (Yaml \cup {None}) \ {running[s][n]} : running' = [running EXCEPT ![s][n] = y]
    /\ UNCHANGED <<env, page, serverId, online, feed, connected, agentState, jobs,
                   saved, file, shown, runningStacks, op, editor>>

-----------------------------------------------------------------------------
(* The tab and the routes.                                                 *)

(* stacks:list:result, of whatever server.                                 *)
HandleStacks(j) ==
    /\ connected /\ page = "stacks" /\ j.act = "list" /\ j.at = "read"
    /\ jobs' = jobs \ {j} /\ runningStacks' = j.items
    /\ UNCHANGED <<tabVars, saved, file, running, shown, op, editor>>

(* GET .../stacks; the key of the query has the server.  A query that fails*)
(* leaves the rows of the last one.                                        *)
FetchSaved(j) ==
    /\ j.act = "saved" /\ jobs' = jobs \ {j}
    /\ \/ shown' = [shown EXCEPT ![j.server] = saved[j.server]]
       \/ "listFails" \in env /\ UNCHANGED shown
    /\ UNCHANGED <<tabVars, saved, file, running, runningStacks, op, editor>>

(* Slip: a failure is not reported.                                        *)
FinishOpIfOk(j) ==
    IF j.session = op.session /\ op.session > 0 /\ j.at = "done"
      THEN [op EXCEPT !.status = "done"] ELSE op

(* finishOp: for the session of the store.                                 *)
FinishOp(j) ==
    IF j.session = op.session /\ op.session > 0
      THEN [op EXCEPT !.status = IF j.at = "done" THEN "done" ELSE "error"] ELSE op

(* Slip: only the end of a deploy makes the page ask again.                *)
HandleDoneOfDeploy(j) ==
    /\ connected /\ j.act \in StackCommand /\ j.at \in {"done", "failed"}
    /\ op' = FinishOp(j)
    /\ jobs' = (jobs \ {j}) \cup
               IF j.at = "done" /\ j.act = "deploy" /\ Mounted
                 THEN Refresh({"list"}, serverId) ELSE {}
    /\ UNCHANGED <<tabVars, saved, file, running, shown, runningStacks, editor>>

(* ...:done; a success makes a page that is there ask again.               *)
HandleDone(j) ==
    /\ connected /\ j.act \in StackCommand /\ j.at \in {"done", "failed"}
    /\ op' = FinishOp(j)
    /\ jobs' = (jobs \ {j}) \cup
               IF j.at = "done" /\ Mounted THEN Refresh({"list"}, serverId) ELSE {}
    /\ UNCHANGED <<tabVars, saved, file, running, shown, runningStacks, editor>>

(* No modal is on top.                                                     *)
Free == Mounted /\ page = "stacks" /\ op.act = None /\ ~editor.open

(* handleDeploy of a saved stack, with the compose file of the page's row, *)
(* which is not fetched anew; handleDown of one that runs.                 *)
PressStack(act, n) ==
    LET yaml == IF act = "deploy" THEN shown[serverId][n] ELSE None
    IN  /\ Free /\ Step
        /\ IF act = "deploy" THEN shown[serverId][n] # None ELSE n \in runningStacks
        /\ op' = [act |-> act, session |-> steps + 1, target |-> n, server |-> serverId,
                  yaml |-> yaml, status |-> "running"]
        /\ jobs' = jobs \cup Asked({[MyJob(act, serverId, n) EXCEPT !.yaml = yaml]})
        /\ UNCHANGED <<env, page, serverId, online, feed, connected, agentState,
                       saved, file, running, shown, runningStacks, editor>>

(* StackOpModal: clearOp, refused while the operation runs.                *)
ClearOp ==
    /\ op.act # None /\ op.status # "running" /\ Mounted
    /\ op' = NoOp /\ UNCHANGED <<tabVars, jobs, saved, file, running, shown, runningStacks, editor>>

(* New Stack, Edit: the form stays as it was left, for React keeps the     *)
(* state of a component that renders nothing.                              *)
OpenEditor(n) ==
    /\ "edits" \in env /\ Free
    /\ n = None \/ (n \in Item /\ shown[serverId][n] # None)
    /\ editor' = [editor EXCEPT !.open = TRUE, !.stack = n]
    /\ UNCHANGED <<tabVars, jobs, saved, file, running, shown, runningStacks, op>>

CloseEditor ==
    /\ editor.open /\ editor' = [editor EXCEPT !.open = FALSE]
    /\ UNCHANGED <<tabVars, jobs, saved, file, running, shown, runningStacks, op>>

Type(y) ==
    /\ editor.open /\ y # editor.yaml /\ editor' = [editor EXCEPT !.yaml = y]
    /\ UNCHANGED <<tabVars, jobs, saved, file, running, shown, runningStacks, op>>

(* handleSubmit: POST (an upsert by name) or PATCH; handleSaved closes the *)
(* editor and lets the query run again.  If the stack is gone, or the call *)
(* fails, the editor stays open.                                           *)
Save(n) ==
    /\ editor.open /\ Step
    /\ editor.stack = None \/ (n = editor.stack /\ saved[serverId][n] # None)
    /\ saved' = [saved EXCEPT ![serverId][n] = editor.yaml]
    /\ editor' = [editor EXCEPT !.open = FALSE]
    /\ jobs' = Replacing(jobs, {"saved"}) \cup {Job("saved", serverId, None)}
    /\ UNCHANGED <<env, page, serverId, online, feed, connected, agentState, file,
                   running, shown, runningStacks, op>>

(* handleDelete: only what is saved; a running stack runs on.              *)
DeleteSaved(n) ==
    /\ "edits" \in env /\ Free /\ Step /\ shown[serverId][n] # None /\ saved[serverId][n] # None
    /\ saved' = [saved EXCEPT ![serverId][n] = None]
    /\ jobs' = Replacing(jobs, {"saved"}) \cup {Job("saved", serverId, None)}
    /\ UNCHANGED <<env, page, serverId, online, feed, connected, agentState, file,
                   running, shown, runningStacks, op, editor>>
(* Another tab saves a stack, or deletes a saved one.                      *)
OtherSaves(n) ==
    /\ "otherTab" \in env /\ page = "stacks" /\ Step
    /\ \E y \in (Yaml \cup {None}) \ {saved[serverId][n]} :
          saved' = [saved EXCEPT ![serverId][n] = y]
    /\ UNCHANGED <<env, page, serverId, online, feed, connected, agentState, jobs, file,
                   running, shown, runningStacks, op, editor>>

(* A page that is taken away loses the editor; the operation's modal comes *)
(* back with the page.                                                     *)
UnmountStacks ==
    /\ editor' = [open |-> FALSE, stack |-> None, yaml |-> DefaultCompose]
    /\ UNCHANGED <<saved, file, running, shown, runningStacks, op>>

(* Some stacks are saved; on each server they are all deployed or none is. *)
StackInit ==
    /\ saved \in [Server -> [Item -> Yaml \cup {None}]]
    /\ running \in [Server -> UNION {{saved[s], NoStacks} : s \in Server}]
    /\ \A s \in Server : running[s] \in {saved[s], NoStacks}
    /\ file = running
    /\ shown = [s \in Server |-> NoStacks] /\ runningStacks = {} /\ op = NoOp
    /\ editor = [open |-> FALSE, stack |-> None, yaml |-> DefaultCompose]

StackNext ==
    \/ \E j \in jobs : \/ Write(j) \/ Compose(j) \/ InvalidStack(j) \/ ReadRunning(j)
                       \/ HandleStacks(j) \/ FetchSaved(j) \/ HandleDone(j)
    \/ \E s \in Server : Recreated(s) \/ \E n \in Item : ComposeByHand(s, n)
    \/ \E n \in Item : \/ \E act \in StackCommand : PressStack(act, n)
                       \/ OpenEditor(n) \/ Save(n) \/ DeleteSaved(n) \/ OtherSaves(n)
    \/ \E y \in Yaml : Type(y)
    \/ ClearOp \/ OpenEditor(None) \/ CloseEditor

-----------------------------------------------------------------------------
(* Properties.                                                             *)

(* Once nothing is under way, the page shows the stacks that run, and,     *)
(* unless another tab saves some, those that are saved: through failed     *)
(* operations, another tab's deploys, an agent that comes back without its *)
(* files; not if Compose fails halfway, or a list or the query of the saved*)
(* stacks is refused: nothing asks again then.                             *)
StacksTrue ==
    (env \cap {"listFails", "overtaken", "outside", "otherServer", "halfway"} = {} /\ StatusTells
       /\ page = "stacks" /\ Looking /\ jobs = {}) =>
        /\ runningStacks = {n \in Item : running[serverId][n] # None}
        /\ "otherTab" \notin env => shown[serverId] = saved[serverId]

(* What the modal of an operation says: "done" if the stack then runs with *)
(* the compose file the page had in its row when the button was pressed    *)
(* (after a save, until the query has run again, that is the one before    *)
(* it), or is down, unless another tab deploys or stops it too; and it does*)
(* not wait for an operation that is over, unless the backend refused it,  *)
(* could not read who was to be told, or a connection broke: the modal     *)
(* cannot be closed before, and it outlives the page.                      *)
OpHonest ==
    /\ env \cap {"otherTab", "outside"} = {} /\ op.status = "done" =>
            running[op.server][op.target] = op.yaml
    /\ env \cap {"invalid", "readFails", "agentLeaves", "socketLost"} = {} /\ op.status = "running" =>
            \E j \in jobs : j.session = op.session
=============================================================================

---------------------------------- MODULE Pages ---------------------------------
(* One tab with the pages of HostPages and Stacks: one page is open, the   *)
(* connections and the walk from server to server are common to them.      *)
EXTENDS HostPages, Stacks

pageVars == <<tabVars, jobs, hostVars, stackVars>>

(* What is under way: the acts of the tab and of the pages.                *)
Jobs ==
    [act : {"list", "dangling", "saved"} \cup HostCommand \cup StackCommand,
     server : Server, item : Item \cup {None}, session : 0..MaxSteps,
     at : {"asked", "items", "use", "read", "written", "done", "failed"},
     items : SUBSET Item, use : SUBSET Item, yaml : Yaml \cup {None}]

(* Every variable has its type.                                            *)
TypeOK ==
    /\ <<page, env>> \in Environments /\ serverId \in Server
    /\ online \in [Server -> BOOLEAN] /\ feed \in Seq({"online", "offline"})
    /\ connected \in BOOLEAN /\ agentState \in {"online", "offline"} /\ steps \in 0..MaxSteps
    /\ jobs \subseteq Jobs /\ HostTypeOK /\ StackTypeOK

(* agent:offline takes the page away, with the state of its components.    *)
StatusArrives ==
    /\ HandleStatus
    /\ IF agentState' = "offline" THEN Unmount /\ UnmountStacks ELSE UNCHANGED <<hostVars, stackVars>>

(* The page stays mounted; no modal is on top of the switch.               *)
Walk(s) ==
    /\ GoTo(s) /\ ("hurries" \in env \/ timers = {})
    /\ ~buildOpen /\ op.act = None /\ ~editor.open
    /\ UNCHANGED <<hostVars, stackVars>>

(* Other servers than the first have everything or nothing, and nothing    *)
(* if none is considered.                                                  *)
Init ==
    /\ TabInit /\ HostInit /\ StackInit
    /\ \A s \in Server, i \in Item : host[s][i] # "gone"
    /\ page = "stacks" => host = [s \in Server |-> [i \in Item |-> "absent"]]
    /\ page # "stacks" => saved = [s \in Server |-> NoStacks]
    /\ \A s \in Server \ {Mine}, i \in Item :
          /\ host[s][i] \in {"absent", "used"} /\ \A k \in Item : host[s][k] = host[s][i]
          /\ \A k \in Item : saved[s][k] = saved[s][i]
          /\ env \cap {"otherServer", "navigates"} = {} =>
                host[s][i] = "absent" /\ saved[s][i] = None

Next ==
    \/ HostNext /\ UNCHANGED stackVars
    \/ StackNext /\ UNCHANGED hostVars
    \/ StatusArrives
    \/ \E s \in Server : Walk(s)
    \/ /\ \/ \E s \in Server : AgentLost(s) \/ AgentBack(s)
          \/ \E j \in jobs : Drop(j)
          \/ \E s \in Server : \/ OtherTab(Job("list", s, None))
                               \/ \E i \in Item : \E act \in CommandsOf(page) : OtherTab(Job(act, s, i))
                               \/ \E n \in Item, y \in Yaml : \E act \in StackCommand :
                                    page = "stacks" /\ OtherTab([Job(act, s, n) EXCEPT !.yaml = y])
          \/ SocketLost \/ Overtakes \/ Missed
       /\ UNCHANGED <<hostVars, stackVars>>

Spec == Init /\ [][Next]_pageVars
=============================================================================

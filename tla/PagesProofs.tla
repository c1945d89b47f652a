------------------------------ MODULE PagesProofs ------------------------------
(***************************************************************************)
(* Theorems of Pages, for any servers, items and compose files, any number *)
(* of steps and any set of environments.                                   *)
(***************************************************************************)
EXTENDS Pages, TLAPS

(* What may be under way on a page, and how far it may be.                 *)
Acts ==
    Questions(page) \cup CommandsOf(page) \cup (IF page = "stacks" THEN StackCommand ELSE {})

Shape(j) ==
    /\ j.act \in Acts
    /\ j.act \in HostCommand =>
          j.item \in Item /\ j.at \in {"asked", "done"} \cup (IF j.act = "build" THEN {"failed"} ELSE {})
    /\ j.act \in StackCommand => j.item \in Item /\ j.at \in {"asked", "written", "done", "failed"}
    /\ j.act \in ImageQuestions => j.at \in {"asked", "items", "use", "read"}
    /\ j.act \in Questions(page) => j.session = 0
    /\ j.act = "saved" => j.at = "asked"
    /\ j.session <= steps

(* No agent leaves but that of the server the tab looks at.                *)
Alone == "agentLeaves" \in env => env \cap {"otherServer", "navigates"} = {}

(* No other tab asks other servers, no timer is left of another one, and no*)
(* agent of another one comes back and sends its images.                   *)
Near == "otherServer" \notin env /\ (page = "images" => "hurries" \notin env /\ Alone)

(* The tab's own commands, and without other servers all there is, are for *)
(* the page's server; without another tab no other command is.             *)
Placed(j) ==
    /\ j.session > 0 \/ Near => j.server = serverId
    /\ "otherTab" \notin env /\ j.act \in HostCommand \cup StackCommand /\ j.session = 0 =>
          j.server # serverId

Fit(j) == j \in Jobs /\ Shape(j) /\ Placed(j)

Unique == \A j, k \in jobs : j.session = k.session /\ j.session > 0 => j = k

JobsInv == (\A j \in jobs : Fit(j)) /\ Unique

(* What the tab knows of the connections.                                  *)
LastStatus == IF feed = <<>> THEN agentState ELSE feed[Len(feed)]

Links ==
    /\ Alone => \A s \in Server : online[s] \/ s = serverId
    /\ StatusTells => (online[serverId] <=> LastStatus = "online")
    /\ "agentLeaves" \notin env => online = [s \in Server |-> TRUE] /\ feed = <<>> /\ Mounted
    /\ "socketLost" \notin env => connected

(* What belongs to one page is not in use on another, and unless the user  *)
(* goes on while they run, timers are for the page's server.               *)
Apart ==
    /\ page # "images" => timers = {} /\ ~buildOpen
    /\ page = "stacks" => ~pulling /\ ~pruning /\ ~creating
    /\ page # "stacks" => op = NoOp /\ ~editor.open
    /\ "hurries" \notin env => \A t \in timers : t.server = serverId

TabTypes ==
    /\ <<page, env>> \in Environments /\ serverId \in Server
    /\ online \in [Server -> BOOLEAN] /\ feed \in Seq({"online", "offline"})
    /\ connected \in BOOLEAN /\ agentState \in {"online", "offline"} /\ steps \in 0..MaxSteps

Types == TabTypes /\ HostTypeOK /\ StackTypeOK

BaseInv == Types /\ JobsInv /\ Links /\ Apart

LEMMA PageAndCircumstances ==
    ASSUME TabTypes
    PROVE  page \in Page /\ env \subseteq Circumstances
BY EnvironmentsAssumption DEF TabTypes

LEMMA BaseTypes ==
    ASSUME BaseInv
    PROVE  TypeOK
BY DEF BaseInv, Types, TabTypes, JobsInv, Fit, TypeOK

-----------------------------------------------------------------------------
(* What is asked anew.                                                     *)

LEMMA NewJob ==
    ASSUME NEW act \in {"list", "dangling", "saved"} \cup HostCommand \cup StackCommand,
           NEW s \in Server, NEW i \in Item \cup {None}
    PROVE  /\ Job(act, s, i) \in Jobs
           /\ Job(act, s, i).act = act /\ Job(act, s, i).server = s /\ Job(act, s, i).item = i
           /\ Job(act, s, i).session = 0 /\ Job(act, s, i).at = "asked"
           /\ Job(act, s, i).yaml = None
BY MaxStepsAssumption DEF Job, Jobs

LEMMA NewMine ==
    ASSUME NEW act \in HostCommand \cup StackCommand, NEW s \in Server, NEW i \in Item,
           steps + 1 \in 0..MaxSteps
    PROVE  \E m \in Jobs : /\ m = MyJob(act, s, i) /\ m.act = act /\ m.server = s /\ m.item = i
                           /\ m.session = steps + 1 /\ m.at = "asked"
<1> DEFINE m == MyJob(act, s, i)
<1>1. m \in Jobs /\ m.act = act /\ m.server = s /\ m.item = i /\ m.session = steps + 1 /\ m.at = "asked"
  BY DEF MyJob, Job, Jobs
<1> HIDE DEF m
<1>2. QED
  BY <1>1 DEF m

LEMMA NewMineYaml ==
    ASSUME NEW act \in HostCommand \cup StackCommand, NEW s \in Server, NEW i \in Item,
           steps + 1 \in 0..MaxSteps, NEW y, y \in Yaml \/ y = None
    PROVE  \E m \in Jobs : /\ m = [MyJob(act, s, i) EXCEPT !.yaml = y]
                           /\ m.act = act /\ m.server = s /\ m.item = i
                           /\ m.session = steps + 1 /\ m.at = "asked" /\ m.yaml = y
<1> DEFINE m == [MyJob(act, s, i) EXCEPT !.yaml = y]
<1>1. /\ m \in Jobs /\ m.act = act /\ m.server = s /\ m.item = i /\ m.session = steps + 1
      /\ m.at = "asked" /\ m.yaml = y
  BY DEF MyJob, Job, Jobs
<1> HIDE DEF m
<1>2. QED
  BY <1>1 DEF m

LEMMA Refreshed ==
    ASSUME NEW acts \in SUBSET {"list", "dangling", "saved"}, NEW s \in Server
    PROVE  /\ \A j \in Refresh(acts, s) :
                 /\ j \in Jobs /\ j.act \in acts /\ j.server = s
                 /\ j.session = 0 /\ j.at = "asked"
           /\ connected /\ online[s] =>
                 \A act \in acts : \E j \in Refresh(acts, s) : j.act = act
<1>1. \A act \in acts : /\ Job(act, s, None) \in Jobs /\ Job(act, s, None).act = act
                        /\ Job(act, s, None).server = s /\ Job(act, s, None).session = 0
                        /\ Job(act, s, None).at = "asked"
  <2> SUFFICES ASSUME NEW act \in acts
               PROVE  /\ Job(act, s, None) \in Jobs /\ Job(act, s, None).act = act
                      /\ Job(act, s, None).server = s /\ Job(act, s, None).session = 0
                      /\ Job(act, s, None).at = "asked"
    OBVIOUS
  <2>1. act \in {"list", "dangling", "saved"} \cup HostCommand \cup StackCommand /\ None \in Item \cup {None}
    OBVIOUS
  <2>2. QED
    BY <2>1, NewJob
<1>2. \A j \in Refresh(acts, s) : \E act \in acts : j = Job(act, s, None)
  BY DEF Refresh, Asked, Asking
<1>3. connected /\ online[s] => \A act \in acts : Job(act, s, None) \in Refresh(acts, s)
  BY <1>1 DEF Refresh, Asked, Asking
<1>4. QED
  BY <1>1, <1>2, <1>3

(* A page that is mounted or goes to another server asks what it asks.     *)
LEMMA Opened ==
    ASSUME NEW s \in Server, page \in Page
    PROVE  /\ \A j \in Opening(s) :
                 \/ j \in jobs /\ (page = "stacks" => j.act # "saved")
                 \/ /\ j \in Jobs /\ j.act \in Questions(page) /\ j.server = s
                    /\ j.session = 0 /\ j.at = "asked"
           /\ \A j \in jobs : j.act # "saved" => j \in Opening(s)
           /\ page = "stacks" => \E j \in Opening(s) : j.act = "saved" /\ j.server = s
           /\ connected /\ online[s] =>
                 \A act \in Questions(page) : \E j \in Opening(s) : j.act = act /\ j.server = s
<1> DEFINE asks == Questions(page) \ {"saved"}
<1>1. asks \in SUBSET {"list", "dangling", "saved"} /\ ("saved" \in Questions(page) <=> page = "stacks")
  BY DEF Questions, Page
<1>2. Job("saved", s, None) \in Jobs /\ Job("saved", s, None).act = "saved"
      /\ Job("saved", s, None).server = s /\ Job("saved", s, None).session = 0
      /\ Job("saved", s, None).at = "asked"
  BY NewJob
<1> HIDE DEF asks
<1>3. /\ \A j \in Refresh(asks, s) :
            j \in Jobs /\ j.act \in asks /\ j.server = s /\ j.session = 0 /\ j.at = "asked"
      /\ connected /\ online[s] =>
            \A act \in asks : \E j \in Refresh(asks, s) : j.act = act
  BY <1>1, Refreshed
<1>4. Opening(s) = Replacing(jobs, Questions(page))
                     \cup (IF page = "stacks" THEN {Job("saved", s, None)} ELSE {})
                     \cup Refresh(asks, s)
  BY DEF Opening, asks
<1>5. Replacing(jobs, Questions(page)) = IF page = "stacks" THEN {j \in jobs : j.act # "saved"} ELSE jobs
  BY <1>1 DEF Replacing
<1>6. \A act \in Questions(page) : act \in asks \/ (act = "saved" /\ page = "stacks")
  BY <1>1 DEF asks
<1>7. asks \subseteq Questions(page)
  BY DEF asks
<1>8. \A j \in Opening(s) : j \in Replacing(jobs, Questions(page)) \/ j \in Refresh(asks, s)
                             \/ (page = "stacks" /\ j = Job("saved", s, None))
  BY <1>4
<1>9. \A j \in Opening(s) :
         \/ j \in jobs /\ (page = "stacks" => j.act # "saved")
         \/ /\ j \in Jobs /\ j.act \in Questions(page) /\ j.server = s
            /\ j.session = 0 /\ j.at = "asked"
  BY <1>1, <1>2, <1>3, <1>5, <1>7, <1>8
<1>10. \A j \in jobs : j.act # "saved" => j \in Opening(s)
  BY <1>4, <1>5
<1>11. page = "stacks" => \E j \in Opening(s) : j.act = "saved" /\ j.server = s
  BY <1>2, <1>4
<1>12. ASSUME connected /\ online[s], NEW act \in Questions(page)
       PROVE  \E j \in Opening(s) : j.act = act /\ j.server = s
  BY <1>3, <1>4, <1>6, <1>11, <1>12
<1>13. QED
  BY <1>9, <1>10, <1>11, <1>12

(* jobs after a step: those that were there, new ones that are nobody's    *)
(* or the tab's, or one that went a step further.                          *)
LEMMA FitStays ==
    ASSUME NEW j, Fit(j), page' = page, env' = env, serverId' = serverId,
           steps \in Nat, steps' \in {steps, steps + 1}
    PROVE  Fit(j)'
<1>1. Acts' = Acts
  BY DEF Acts
<1>2. j.session \in Nat
  BY MaxStepsAssumption DEF Fit, Jobs
<1>3. Shape(j)'
  BY <1>1, <1>2 DEF Fit, Shape
<1>4. QED
  BY <1>3 DEF Fit, Placed, Near, Alone

LEMMA JobsAdded ==
    ASSUME JobsInv, page' = page, env' = env, serverId' = serverId,
           steps \in Nat, steps' \in {steps, steps + 1},
           \A j \in jobs' : j \in jobs \/ (Fit(j)' /\ j.session = 0)
    PROVE  JobsInv'
<1>1. \A j \in jobs' : Fit(j)'
  BY FitStays DEF JobsInv
<1>2. Unique'
  BY DEF JobsInv, Unique
<1>3. QED
  BY <1>1, <1>2 DEF JobsInv

LEMMA JobMoved ==
    ASSUME JobsInv, page' = page, env' = env, serverId' = serverId,
           steps \in Nat, steps' \in {steps, steps + 1},
           NEW j \in jobs, NEW k, k.session = j.session, Fit(k)',
           jobs' = (jobs \ {j}) \cup {k}
    PROVE  JobsInv'
<1>1. \A i \in jobs' : Fit(i)'
  BY FitStays DEF JobsInv
<1>2. Unique'
  BY DEF JobsInv, Unique
<1>3. QED
  BY <1>1, <1>2 DEF JobsInv

LEMMA MineAdded ==
    ASSUME JobsInv, page' = page, env' = env, serverId' = serverId,
           steps \in Nat, steps' = steps + 1,
           NEW m, m.session = steps + 1, Fit(m)',
           jobs' = jobs \cup Asked({m})
    PROVE  JobsInv'
<1>1. \A i \in jobs' : i \in jobs \/ i = m
  BY DEF Asked
<1>2. \A i \in jobs' : Fit(i)'
  BY <1>1, FitStays DEF JobsInv
<1>3. \A i \in jobs : i.session <= steps
  BY DEF JobsInv, Fit, Shape
<1>4. \A i \in jobs : i.session # m.session
  <2> SUFFICES ASSUME NEW i \in jobs PROVE i.session # m.session
    OBVIOUS
  <2>1. i.session \in Nat
    BY MaxStepsAssumption DEF JobsInv, Fit, Jobs
  <2>2. QED
    BY <2>1, <1>3
<1>5. Unique'
  BY <1>1, <1>4 DEF JobsInv, Unique
<1>6. QED
  BY <1>2, <1>5 DEF JobsInv


(* One that goes a step further in its place.                              *)
LEMMA JobFurther ==
    ASSUME JobsInv, page' = page, env' = env, serverId' = serverId,
           steps \in Nat, steps' \in {steps, steps + 1},
           NEW j \in jobs, NEW k \in Jobs,
           k.act = j.act, k.server = j.server, k.session = j.session, k.item = j.item,
           k.act \in HostCommand =>
               k.at \in {"asked", "done"} \cup (IF k.act = "build" THEN {"failed"} ELSE {}),
           k.act \in StackCommand => k.at \in {"asked", "written", "done", "failed"},
           k.act \in ImageQuestions => k.at \in {"asked", "items", "use", "read"},
           k.act # "saved",
           jobs' = (jobs \ {j}) \cup {k}
    PROVE  JobsInv'
<1>1. Fit(j)' /\ Fit(j)
  BY FitStays DEF JobsInv
<1>2. Fit(k)'
  BY <1>1 DEF Fit, Shape, Placed, Near, Alone
<1>3. QED
  BY <1>2, JobMoved

SameTab == UNCHANGED <<env, page, serverId, online, feed, connected, agentState>>

LEMMA LinksStay ==
    ASSUME Links, SameTab
    PROVE  Links'
BY DEF Links, SameTab, StatusTells, Alone, LastStatus, Mounted

LEMMA TabTypesStay ==
    ASSUME TabTypes, SameTab, steps' = steps \/ Step
    PROVE  /\ TabTypes' /\ steps \in Nat
           /\ steps' \in {steps, steps + 1} /\ steps' \in 0..MaxSteps
           /\ Step => steps' = steps + 1
BY MaxStepsAssumption DEF TabTypes, SameTab, Step

LEMMA CommandPages ==
    /\ CommandsOf("images") = {"pull", "rmi", "prune", "build"}
    /\ CommandsOf("networks") = {"create", "rmnet"}
    /\ CommandsOf("volumes") = {"rmvol"}
    /\ CommandsOf("stacks") = {}
    /\ Questions("images") = {"list", "dangling"}
    /\ Questions("stacks") = {"list", "saved"}
    /\ Questions("networks") = {"list"} /\ Questions("volumes") = {"list"}
BY DEF CommandsOf, Questions

LEMMA EffectsTyped ==
    ASSUME NEW act \in HostCommand, NEW i \in Item, NEW h \in [Item -> Use],
           NEW g \in Effects(act, i, h)
    PROVE  g \in [Item -> Use]
<1>1. CASE act \in CommandsOf("images")
  <2>1. g \in ImageEffects(act, i, h)
    BY <1>1, CommandPages DEF Effects
  <2>2. QED
    BY <2>1, <1>1, CommandPages DEF ImageEffects, Use
<1>2. CASE act \in CommandsOf("networks")
  BY <1>2, CommandPages DEF Effects, NetworkEffects, Use
<1>3. CASE act \in CommandsOf("volumes")
  BY <1>3, CommandPages DEF Effects, VolumeEffects, Use
<1>4. QED
  BY <1>1, <1>2, <1>3, CommandPages DEF HostCommand


(* A question of the page's server fits.                                   *)
LEMMA AskedFits ==
    ASSUME NEW j \in Jobs, page \in Page, page' = page, env' = env, steps' \in Nat,
           j.act \in Questions(page), j.server = serverId', j.session = 0, j.at = "asked"
    PROVE  Fit(j)'
<1>1. j.act \in Acts'
  BY DEF Acts
<1>2. j.act \in {"list", "dangling", "saved"}
  BY CommandPages DEF Page
<1>3. Shape(j)'
  BY <1>1, <1>2 DEF Shape, HostCommand, StackCommand
<1>4. Placed(j)'
  BY <1>2 DEF Placed, Near, Alone, HostCommand, StackCommand
<1>5. QED
  BY <1>3, <1>4 DEF Fit, Jobs

-----------------------------------------------------------------------------
(* The steps of HostPages.                                                 *)

HostJob(j) ==
    \/ Execute(j) \/ Fail(j) \/ Invalid(j) \/ ReadItems(j) \/ ReadUse(j)
    \/ HandleList(j) \/ HandleResult(j)

(* What happens to a command or question changes nothing else in the tab.  *)
LEMMA HostJobJobs ==
    ASSUME BaseInv, NEW j \in jobs, HostJob(j)
    PROVE  JobsInv' /\ UNCHANGED tabVars
<1>1. JobsInv /\ TabTypes /\ HostTypeOK /\ Fit(j) /\ j \in Jobs /\ page \in Page
  BY PageAndCircumstances DEF BaseInv, Types, JobsInv, Fit
<1>2. UNCHANGED tabVars
  BY DEF HostJob, Execute, Fail, Invalid, ReadItems, ReadUse, HandleList, HandleResult
<1>3. /\ page' = page /\ env' = env /\ serverId' = serverId
      /\ steps \in Nat /\ steps' \in {steps, steps + 1} /\ serverId \in Server
  BY <1>1, <1>2, MaxStepsAssumption DEF TabTypes, tabVars
<1>4. CASE jobs' \subseteq jobs
  BY <1>1, <1>2, <1>3, <1>4, JobsAdded
<1>5. ASSUME NEW k \in Jobs, jobs' = (jobs \ {j}) \cup {k},
             k.act = j.act, k.server = j.server, k.session = j.session, k.item = j.item,
             \/ k.act \in HostCommand /\ k.at = "done"
             \/ k.act = "build" /\ k.at = "failed"
             \/ k.act \in ImageQuestions /\ k.at \in {"items", "use", "read"}
      PROVE  JobsInv'
  <2>1. /\ k.act \in HostCommand =>
               k.at \in {"asked", "done"} \cup (IF k.act = "build" THEN {"failed"} ELSE {})
        /\ k.act \notin StackCommand /\ k.act # "saved"
        /\ k.act \in ImageQuestions => k.at \in {"asked", "items", "use", "read"}
    BY <1>5 DEF HostCommand, StackCommand, ImageQuestions
  <2>2. QED
    BY <2>1, <1>1, <1>3, <1>5, JobFurther
<1>6. CASE Execute(j)
  <2>1. [j EXCEPT !.at = "done"] \in Jobs
    BY <1>1 DEF Jobs
  <2>2. QED
    BY <2>1, <1>1, <1>5, <1>6 DEF Execute, Jobs
<1>7. CASE Fail(j)
  <2>1. [j EXCEPT !.at = "failed"] \in Jobs
    BY <1>1 DEF Jobs
  <2>2. CASE j.act = "build"
    BY <2>1, <2>2, <1>1, <1>5, <1>7 DEF Fail, Jobs
  <2>3. CASE j.act # "build"
    BY <2>3, <1>4, <1>7 DEF Fail
  <2>4. QED
    BY <2>2, <2>3
<1>8. CASE Invalid(j)
  BY <1>4, <1>8 DEF Invalid
<1>9. CASE ReadItems(j)
  <2> DEFINE k == IF page = "volumes"
                    THEN [j EXCEPT !.items = Existing(j.server),
                                   !.at = IF @ = "use" THEN "read" ELSE "items"]
                    ELSE [j EXCEPT !.items = Existing(j.server), !.use = InUse(j.server),
                                   !.at = "read"]
  <2>1. Existing(j.server) \in SUBSET Item /\ InUse(j.server) \in SUBSET Item
    BY DEF Existing, InUse
  <2>2. /\ k \in Jobs /\ k.act = j.act /\ k.server = j.server /\ k.session = j.session
        /\ k.item = j.item /\ k.at \in {"items", "read"}
    BY <1>1, <2>1 DEF Jobs
  <2>3. jobs' = (jobs \ {j}) \cup {k} /\ j.act \in ImageQuestions
    BY <1>9 DEF ReadItems
  <2> HIDE DEF k
  <2>4. QED
    BY <2>2, <2>3, <1>2, <1>5
<1>10. CASE ReadUse(j)
  <2> DEFINE k == [j EXCEPT !.use = InUse(j.server), !.at = IF @ = "items" THEN "read" ELSE "use"]
  <2>1. InUse(j.server) \in SUBSET Item
    BY DEF InUse
  <2>2. /\ k \in Jobs /\ k.act = j.act /\ k.server = j.server /\ k.session = j.session
        /\ k.item = j.item /\ k.at \in {"use", "read"}
    BY <1>1, <2>1 DEF Jobs
  <2>3. jobs' = (jobs \ {j}) \cup {k} /\ j.act \in ImageQuestions
    BY <1>10 DEF ReadUse, ImageQuestions
  <2> HIDE DEF k
  <2>4. QED
    BY <2>2, <2>3, <1>2, <1>5
<1>11. CASE HandleList(j)
  BY <1>4, <1>11 DEF HandleList
<1>12. CASE HandleResult(j)
  <2> DEFINE asks == AsksAgain(j)
  <2>1. asks \in SUBSET {"list", "dangling", "saved"} /\ asks \subseteq Questions(page)
    BY CommandPages DEF AsksAgain, ImageQuestions
  <2>2. jobs' = (jobs \ {j}) \cup Refresh(asks, serverId)
    BY <1>12 DEF HandleResult
  <2> HIDE DEF asks
  <2>3. \A i \in Refresh(asks, serverId) :
            i \in Jobs /\ i.act \in Questions(page) /\ i.server = serverId
            /\ i.session = 0 /\ i.at = "asked"
    <3>1. \A i \in Refresh(asks, serverId) :
              i \in Jobs /\ i.act \in asks /\ i.server = serverId /\ i.session = 0 /\ i.at = "asked"
      BY <2>1, <1>3, Refreshed
    <3>2. QED
      BY <3>1, <2>1
  <2>4. \A i \in Refresh(asks, serverId) : Fit(i)'
    BY <2>3, <1>1, <1>3, AskedFits
  <2>5. \A i \in jobs' : i \in jobs \/ (Fit(i)' /\ i.session = 0)
    BY <2>2, <2>3, <2>4
  <2>6. QED
    BY <2>5, <1>1, <1>2, <1>3, JobsAdded
<1>13. QED
  BY <1>2, <1>6, <1>7, <1>8, <1>9, <1>10, <1>11, <1>12 DEF HostJob


LEMMA HostJobTypes ==
    ASSUME BaseInv, NEW j \in jobs, HostJob(j)
    PROVE  HostTypeOK' /\ UNCHANGED <<timers, pulling, buildOpen>>
           /\ (pruning' => pruning) /\ (creating' => creating)
<1>1. HostTypeOK /\ Fit(j) /\ j \in Jobs /\ UNCHANGED tabVars
  BY HostJobJobs DEF BaseInv, Types, JobsInv, Fit
<1> USE DEF HostTypeOK
<1>2. CASE Execute(j)
  <2>1. /\ j.act \in HostCommand /\ j.item \in Item /\ j.server \in Server
        /\ \E h \in Effects(j.act, j.item, host[j.server]) : host' = [host EXCEPT ![j.server] = h]
        /\ UNCHANGED <<stores, pageState, timers>>
    BY <1>1, <1>2 DEF Execute, Fit, Shape, Jobs
  <2>2. host' \in [Server -> [Item -> Use]]
    BY <1>1, <2>1, EffectsTyped
  <2>3. QED
    BY <1>1, <2>1, <2>2 DEF stores, pageState
<1>3. CASE Fail(j) \/ Invalid(j) \/ ReadItems(j) \/ ReadUse(j)
  BY <1>1, <1>3 DEF Fail, Invalid, ReadItems, ReadUse, hostVars, stores, pageState
<1>4. CASE HandleList(j)
  <2>1. j.items \in SUBSET Item /\ j.use \in SUBSET Item
    BY <1>1 DEF Jobs
  <2>2. list' \in Rows /\ dangling' \in SUBSET Item
    BY <1>1, <1>4, <2>1 DEF HandleList, Rows
  <2>3. QED
    BY <1>1, <1>4, <2>2 DEF HandleList, pageState
<1>5. CASE HandleResult(j)
  <2>1. /\ list' = WithoutRow(j) /\ build' = Finished(j)
        /\ pruning' \in BOOLEAN /\ creating' \in BOOLEAN
        /\ UNCHANGED <<host, dangling, pulling, buildOpen, timers>>
        /\ (pruning' => pruning) /\ (creating' => creating)
    BY <1>1, <1>5 DEF HandleResult
  <2>2. list' \in Rows
    BY <1>1, <2>1 DEF WithoutRow, Rows
  <2>3. build' \in [session : 0..MaxSteps, status : {"idle", "building", "done", "error"}]
    BY <1>1, <2>1 DEF Finished
  <2>4. QED
    BY <1>1, <2>1, <2>2, <2>3
<1>6. QED
  BY <1>2, <1>3, <1>4, <1>5 DEF HostJob

LEMMA HostJobBase ==
    ASSUME BaseInv, NEW j \in jobs, HostJob(j), UNCHANGED stackVars
    PROVE  BaseInv'
<1>1. JobsInv' /\ UNCHANGED tabVars /\ HostTypeOK' /\ UNCHANGED <<timers, pulling, buildOpen>>
      /\ (pruning' => pruning) /\ (creating' => creating)
  BY HostJobJobs, HostJobTypes
<1>2. SameTab /\ steps' = steps
  BY <1>1 DEF SameTab, tabVars
<1>3. TabTypes' /\ Links'
  BY <1>2, TabTypesStay, LinksStay DEF BaseInv, Types
<1>4. StackTypeOK'
  BY DEF BaseInv, Types, StackTypeOK, stackVars
<1>5. Apart'
  BY <1>1, <1>2 DEF BaseInv, Apart, SameTab, stackVars
<1>6. QED
  BY <1>1, <1>3, <1>4, <1>5 DEF BaseInv, Types


(* A command of the tab's user fits.                                       *)
LEMMA MineFits ==
    ASSUME NEW m \in Jobs, page \in Page, page' = page, env' = env, steps \in Nat,
           steps' = steps + 1,
           m.act \in CommandsOf(page) \cup (IF page = "stacks" THEN StackCommand ELSE {}),
           m.item \in Item, m.server = serverId', m.session = steps + 1, m.at = "asked"
    PROVE  Fit(m)'
<1>1. m.act \in Acts' /\ m.act \in HostCommand \cup StackCommand
  BY CommandPages DEF Acts, Page, HostCommand
<1>2. m.act \notin Questions(page) /\ m.act \notin ImageQuestions /\ m.act # "saved"
  BY <1>1, CommandPages DEF Page, HostCommand, StackCommand, ImageQuestions
<1>3. Shape(m)'
  BY <1>1, <1>2 DEF Shape
<1>4. Placed(m)'
  BY DEF Placed, Near, Alone
<1>5. QED
  BY <1>3, <1>4 DEF Fit, Jobs

LEMMA OfferedActs ==
    ASSUME page \in Page, NEW i \in Item, NEW act \in Offered(i)
    PROVE  /\ act \in CommandsOf(page) /\ act \in HostCommand /\ page # "stacks"
           /\ act \in {"pull", "rmi", "prune"} <=> page = "images"
           /\ act = "create" => page = "networks"
BY CommandPages DEF Offered, ImageButtons, NetworkButtons, VolumeButtons, Page, HostCommand

LEMMA PressHostBase ==
    ASSUME BaseInv, NEW i \in Item, NEW act \in HostCommand, PressHost(act, i), UNCHANGED stackVars
    PROVE  BaseInv'
<1> DEFINE kinds == CASE act = "pull" -> {"pull"} [] act = "rmi" -> {"remove"} [] OTHER -> {}
           more == {[kind |-> k, server |-> serverId, id |-> steps + 1, live |-> TRUE] : k \in kinds}
<1>1. page \in Page /\ Types /\ serverId \in Server
  BY PageAndCircumstances DEF BaseInv, Types, TabTypes
<1>2. /\ SameTab /\ Step /\ act \in Offered(i)
      /\ jobs' = jobs \cup Asked({MyJob(act, serverId, i)})
      /\ timers' = timers \cup more
  BY DEF PressHost, SameTab
<1>3. /\ TabTypes' /\ Links' /\ steps \in Nat /\ steps' = steps + 1 /\ steps + 1 \in 0..MaxSteps
      /\ page' = page /\ env' = env /\ serverId' = serverId
  BY <1>1, <1>2, TabTypesStay, LinksStay DEF BaseInv, Types, SameTab
<1>4. act \in CommandsOf(page) /\ page # "stacks" /\ (act \in {"pull", "rmi", "prune"} <=> page = "images")
  BY <1>1, <1>2, OfferedActs
<1>5. PICK m \in Jobs : /\ m = MyJob(act, serverId, i) /\ m.act = act /\ m.server = serverId
                        /\ m.item = i /\ m.session = steps + 1 /\ m.at = "asked"
  BY <1>1, <1>3, NewMine
<1>6. JobsInv'
  <2>1. Fit(m)'
    BY <1>1, <1>3, <1>4, <1>5, MineFits
  <2>2. QED
    BY <2>1, <1>2, <1>3, <1>5, MineAdded DEF BaseInv
<1>7. kinds \subseteq {"pull", "remove"} /\ (page # "images" => kinds = {})
  BY <1>4
<1>8. more \subseteq [kind : {"pull", "remove"}, server : Server, id : 1..MaxSteps, live : BOOLEAN]
  <2> HIDE DEF kinds
  <2>1. steps + 1 \in 1..MaxSteps
    BY <1>3, MaxStepsAssumption
  <2> DEFINE T == [kind : {"pull", "remove"}, server : Server, id : 1..MaxSteps, live : BOOLEAN]
  <2>2. \A k \in kinds : [kind |-> k, server |-> serverId, id |-> steps + 1, live |-> TRUE] \in T
    BY <1>1, <1>7, <2>1
  <2> HIDE DEF T
  <2>3. more \subseteq T
    BY <2>2
  <2>4. QED
    BY <2>3 DEF T
<1>9. /\ pulling' = (pulling \/ act = "pull") /\ pruning' = (pruning \/ act = "prune")
      /\ creating' = (creating \/ act = "create")
      /\ UNCHANGED <<host, list, dangling, build, buildOpen>>
  BY DEF PressHost, stores
<1>10. HostTypeOK'
  <2> HIDE DEF more
  <2>1. {pulling', pruning', creating', buildOpen'} \subseteq BOOLEAN
    BY <1>1, <1>9 DEF Types, HostTypeOK
  <2>2. QED
    BY <1>1, <1>2, <1>8, <1>9, <2>1 DEF Types, HostTypeOK
<1>11. StackTypeOK'
  BY <1>1 DEF Types, StackTypeOK, stackVars
<1>12. Apart'
  <2> HIDE DEF kinds
  <2>1. (page # "images" => more = {}) /\ \A t \in more : t.server = serverId
    BY <1>7
  <2> HIDE DEF more
  <2>2. QED
    BY <1>2, <1>3, <1>4, <1>9, <2>1 DEF BaseInv, Apart, stackVars
<1>13. QED
  BY <1>3, <1>6, <1>10, <1>11, <1>12 DEF BaseInv, Types

LEMMA StartBuildBase ==
    ASSUME BaseInv, NEW i \in Item, StartBuild(i), UNCHANGED stackVars
    PROVE  BaseInv'
<1>1. page \in Page /\ Types /\ serverId \in Server
  BY PageAndCircumstances DEF BaseInv, Types, TabTypes
<1>2. /\ SameTab /\ Step /\ buildOpen
      /\ jobs' = jobs \cup Asked({MyJob("build", serverId, i)})
      /\ build' = [session |-> steps + 1, status |-> "building"]
      /\ UNCHANGED <<host, list, dangling, pulling, pruning, creating, buildOpen, timers>>
  BY DEF StartBuild, SameTab, pageState
<1>3. /\ TabTypes' /\ Links' /\ steps \in Nat /\ steps' = steps + 1 /\ steps + 1 \in 0..MaxSteps
      /\ page' = page /\ env' = env /\ serverId' = serverId
  BY <1>1, <1>2, TabTypesStay, LinksStay DEF BaseInv, Types, SameTab
<1>4. page = "images" /\ "build" \in CommandsOf(page)
  BY <1>2, CommandPages DEF BaseInv, Apart
<1>5. PICK m \in Jobs : /\ m = MyJob("build", serverId, i) /\ m.act = "build" /\ m.server = serverId
                        /\ m.item = i /\ m.session = steps + 1 /\ m.at = "asked"
  BY <1>1, <1>3, NewMine DEF HostCommand
<1>6. JobsInv'
  <2>1. Fit(m)'
    BY <1>1, <1>3, <1>4, <1>5, MineFits
  <2>2. QED
    BY <2>1, <1>2, <1>3, <1>5, MineAdded DEF BaseInv
<1>7. HostTypeOK' /\ StackTypeOK'
  BY <1>1, <1>2, <1>3 DEF Types, HostTypeOK, StackTypeOK, stackVars
<1>8. Apart'
  BY <1>2, <1>3, <1>4 DEF BaseInv, Apart, stackVars
<1>9. QED
  BY <1>3, <1>6, <1>7, <1>8 DEF BaseInv, Types

LEMMA TimerBase ==
    ASSUME BaseInv, NEW t \in timers, TimerFires(t), UNCHANGED stackVars
    PROVE  BaseInv'
<1>1. page \in Page /\ Types /\ JobsInv /\ serverId \in Server /\ t.server \in Server
  BY PageAndCircumstances DEF BaseInv, Types, TabTypes, HostTypeOK
<1>2. /\ SameTab /\ steps' = steps
      /\ jobs' = jobs \cup Refresh(ImageQuestions, t.server)
      /\ timers' = timers \ {t} /\ (pulling' => pulling) /\ pulling' \in BOOLEAN
      /\ UNCHANGED <<host, list, dangling, build, pruning, creating, buildOpen>>
  BY DEF TimerFires, SameTab, tabVars, stores
<1>3. /\ TabTypes' /\ Links' /\ steps \in Nat
      /\ page' = page /\ env' = env /\ serverId' = serverId
  BY <1>1, <1>2, TabTypesStay, LinksStay DEF BaseInv, Types, SameTab
<1>4. page = "images"
  BY DEF BaseInv, Apart
<1>5. \A j \in Refresh(ImageQuestions, t.server) :
         j \in Jobs /\ j.act \in ImageQuestions /\ j.server = t.server /\ j.session = 0 /\ j.at = "asked"
  BY <1>1, Refreshed DEF ImageQuestions
<1>6. \A j \in Refresh(ImageQuestions, t.server) : Fit(j)'
  <2> SUFFICES ASSUME NEW j \in Refresh(ImageQuestions, t.server) PROVE Fit(j)'
    OBVIOUS
  <2>1. j.act \in Questions(page) /\ j.act \in Acts'
    BY <1>3, <1>4, <1>5, CommandPages DEF Acts, ImageQuestions
  <2>2. Shape(j)'
    BY <1>2, <1>3, <1>5, <2>1 DEF Shape, HostCommand, StackCommand, ImageQuestions
  <2>3. Placed(j)'
    BY <1>3, <1>5 DEF Placed, Near, Alone, BaseInv, Apart, HostCommand, StackCommand, ImageQuestions
  <2>4. QED
    BY <1>5, <2>2, <2>3 DEF Fit, Jobs
<1>7. JobsInv'
  BY <1>1, <1>2, <1>3, <1>5, <1>6, JobsAdded
<1>8. HostTypeOK' /\ StackTypeOK'
  BY <1>1, <1>2 DEF Types, HostTypeOK, StackTypeOK, stackVars
<1>9. Apart'
  BY <1>2, <1>3, <1>4 DEF BaseInv, Apart, stackVars
<1>10. QED
  BY <1>3, <1>7, <1>8, <1>9 DEF BaseInv, Types


LEMMA HostBase ==
    ASSUME BaseInv, HostNext, UNCHANGED stackVars
    PROVE  BaseInv'
<1>1. Types /\ JobsInv /\ Links /\ Apart
  BY DEF BaseInv
<1>2. ASSUME SameTab, jobs' = jobs, steps' = steps \/ Step, HostTypeOK', Apart'
      PROVE  BaseInv'
  <2>1. /\ TabTypes' /\ Links' /\ steps \in Nat /\ steps' \in {steps, steps + 1}
        /\ page' = page /\ env' = env /\ serverId' = serverId
    BY <1>1, <1>2, TabTypesStay, LinksStay DEF Types, SameTab
  <2>2. JobsInv'
    BY <1>1, <1>2, <2>1, JobsAdded
  <2>3. StackTypeOK'
    BY <1>1 DEF Types, StackTypeOK, stackVars
  <2>4. QED
    BY <1>2, <2>1, <2>2, <2>3 DEF BaseInv, Types
<1>3. ASSUME NEW s \in Server, NEW i \in Item, ByHand(s, i)
      PROVE  BaseInv'
  <2>1. /\ SameTab /\ jobs' = jobs /\ Step
        /\ UNCHANGED <<list, dangling, build, pulling, pruning, creating, buildOpen, timers>>
    BY <1>3 DEF ByHand, SameTab, stores, pageState
  <2>2. host' \in [Server -> [Item -> Use]]
    BY <1>1, <1>3 DEF ByHand, Types, HostTypeOK, Use
  <2>3. HostTypeOK' /\ Apart'
    BY <1>1, <2>1, <2>2 DEF Types, HostTypeOK, Apart, SameTab, stackVars
  <2>4. QED
    BY <1>2, <2>1, <2>3
<1>4. CASE OpenBuild
  <2>1. /\ SameTab /\ jobs' = jobs /\ steps' = steps /\ page = "images"
        /\ buildOpen' = TRUE /\ build' = [session |-> 0, status |-> "idle"]
        /\ UNCHANGED <<host, list, dangling, pulling, pruning, creating, timers>>
    BY <1>4 DEF OpenBuild, SameTab, tabVars
  <2>2. HostTypeOK' /\ Apart'
    BY <1>1, <2>1, MaxStepsAssumption DEF Types, HostTypeOK, Apart, SameTab, stackVars
  <2>3. QED
    BY <1>2, <2>1, <2>2
<1>5. CASE CloseBuild
  <2>1. /\ SameTab /\ jobs' = jobs /\ steps' = steps /\ buildOpen' = FALSE
        /\ UNCHANGED <<host, list, dangling, build, pulling, pruning, creating, timers>>
    BY <1>5 DEF CloseBuild, SameTab, tabVars, stores
  <2>2. HostTypeOK' /\ Apart'
    BY <1>1, <2>1 DEF Types, HostTypeOK, Apart, SameTab, stackVars
  <2>3. QED
    BY <1>2, <2>1, <2>2
<1>6. QED
  BY <1>3, <1>4, <1>5, HostJobBase, PressHostBase, StartBuildBase, TimerBase
     DEF HostNext, HostJob


-----------------------------------------------------------------------------
(* The steps of Stacks.                                                    *)

StackJob(j) ==
    \/ Write(j) \/ Compose(j) \/ InvalidStack(j) \/ ReadRunning(j)
    \/ HandleStacks(j) \/ FetchSaved(j) \/ HandleDone(j)

LEMMA StackJobPage ==
    ASSUME BaseInv, NEW j \in jobs, StackJob(j)
    PROVE  /\ page = "stacks" /\ UNCHANGED tabVars /\ UNCHANGED editor
           /\ j \in Jobs /\ Fit(j)
           /\ j.act \in StackCommand => j.item \in Item
<1>1. Fit(j) /\ j \in Jobs /\ page \in Page
  BY PageAndCircumstances DEF BaseInv, Types, JobsInv, Fit
<1>2. j.act \in Acts
  BY <1>1 DEF Fit, Shape
<1>3. j.act \in StackCommand \cup {"saved"} \/ page = "stacks"
  BY DEF StackJob, Write, Compose, InvalidStack, ReadRunning, HandleStacks, FetchSaved,
         HandleDone, StackCommand
<1>4. page = "stacks"
  BY <1>1, <1>2, <1>3, CommandPages DEF Acts, Page, StackCommand
<1>5. UNCHANGED tabVars /\ UNCHANGED editor
  BY DEF StackJob, Write, Compose, InvalidStack, ReadRunning, HandleStacks, FetchSaved,
         HandleDone, stackVars
<1>6. QED
  BY <1>1, <1>4, <1>5 DEF Fit, Shape

LEMMA StackJobJobs ==
    ASSUME BaseInv, NEW j \in jobs, StackJob(j)
    PROVE  JobsInv'
<1>1. JobsInv /\ TabTypes /\ Fit(j) /\ j \in Jobs /\ page = "stacks" /\ UNCHANGED tabVars
  BY StackJobPage DEF BaseInv, Types
<1>2. /\ page' = page /\ env' = env /\ serverId' = serverId
      /\ steps \in Nat /\ steps' \in {steps, steps + 1} /\ serverId \in Server /\ page \in Page
  BY <1>1, MaxStepsAssumption DEF TabTypes, tabVars, Page
<1>3. CASE jobs' \subseteq jobs
  BY <1>1, <1>2, <1>3, JobsAdded
<1>4. ASSUME NEW k \in Jobs, jobs' = (jobs \ {j}) \cup {k},
             k.act = j.act, k.server = j.server, k.session = j.session, k.item = j.item,
             \/ k.act \in StackCommand /\ k.at \in {"written", "done", "failed"}
             \/ k.act = "list" /\ k.at = "read"
      PROVE  JobsInv'
  <2>1. /\ k.act \notin HostCommand /\ k.act # "saved"
        /\ k.act \in StackCommand => k.at \in {"asked", "written", "done", "failed"}
        /\ k.act \in ImageQuestions => k.at \in {"asked", "items", "use", "read"}
    BY <1>4 DEF HostCommand, StackCommand, ImageQuestions
  <2>2. QED
    BY <2>1, <1>1, <1>2, <1>4, JobFurther
<1>5. ASSUME NEW a \in {"written", "done", "failed"}, j.act \in StackCommand,
             jobs' = (jobs \ {j}) \cup {[j EXCEPT !.at = a]}
      PROVE  JobsInv'
  <2>1. PICK k \in Jobs : k = [j EXCEPT !.at = a]
    BY <1>1 DEF Jobs
  <2>2. k.act = j.act /\ k.server = j.server /\ k.session = j.session /\ k.item = j.item /\ k.at = a
    BY <1>1, <2>1 DEF Jobs
  <2>3. QED
    BY <2>1, <2>2, <1>4, <1>5
<1>6. CASE Write(j)
  <2>1. /\ j.act \in StackCommand
        /\ \E a \in {"written", "done", "failed"} : jobs' = (jobs \ {j}) \cup {[j EXCEPT !.at = a]}
    BY <1>6 DEF Write, StackCommand
  <2>2. QED
    BY <2>1, <1>5
<1>7. CASE Compose(j)
  <2>1. /\ j.act \in StackCommand
        /\ \E a \in {"written", "done", "failed"} : jobs' = (jobs \ {j}) \cup {[j EXCEPT !.at = a]}
    BY <1>7 DEF Compose
  <2>2. QED
    BY <2>1, <1>5
<1>8. CASE InvalidStack(j)
  BY <1>3, <1>8 DEF InvalidStack
<1>9. CASE ReadRunning(j)
  <2> DEFINE k == [j EXCEPT !.at = "read", !.items = {n \in Item : running[j.server][n] # None}]
  <2>1. /\ k \in Jobs /\ k.act = j.act /\ k.server = j.server /\ k.session = j.session
        /\ k.item = j.item /\ k.at = "read"
    BY <1>1 DEF Jobs
  <2>2. jobs' = (jobs \ {j}) \cup {k} \/ jobs' = jobs \ {j}
    BY <1>9 DEF ReadRunning
  <2>3. j.act = "list"
    BY <1>9 DEF ReadRunning
  <2> HIDE DEF k
  <2>4. QED
    BY <2>1, <2>2, <2>3, <1>3, <1>4
<1>10. CASE HandleStacks(j)
  BY <1>3, <1>10 DEF HandleStacks
<1>11. CASE FetchSaved(j)
  BY <1>3, <1>11 DEF FetchSaved
<1>12. CASE HandleDone(j)
  <2> DEFINE new == IF j.at = "done" /\ Mounted THEN Refresh({"list"}, serverId) ELSE {}
  <2>1. \A i \in new : /\ i \in Jobs /\ i.act \in Questions(page) /\ i.server = serverId
                       /\ i.session = 0 /\ i.at = "asked"
    <3>1. \A i \in Refresh({"list"}, serverId) :
              i \in Jobs /\ i.act \in {"list"} /\ i.server = serverId /\ i.session = 0 /\ i.at = "asked"
      BY <1>2, Refreshed
    <3>2. "list" \in Questions(page)
      BY <1>1, CommandPages
    <3>3. QED
      BY <3>1, <3>2
  <2>2. jobs' = (jobs \ {j}) \cup new
    BY <1>12 DEF HandleDone
  <2> HIDE DEF new
  <2>3. \A i \in new : Fit(i)'
    BY <2>1, <1>1, <1>2, AskedFits
  <2>4. \A i \in jobs' : i \in jobs \/ (Fit(i)' /\ i.session = 0)
    BY <2>1, <2>2, <2>3
  <2>5. QED
    BY <2>4, <1>1, <1>2, JobsAdded
<1>13. QED
  BY <1>6, <1>7, <1>8, <1>9, <1>10, <1>11, <1>12 DEF StackJob

Stored == [Item -> Yaml \cup {None}]

LEMMA StoredPut ==
    ASSUME NEW f \in [Server -> Stored], NEW s \in Server, NEW i \in Item,
           NEW y \in Yaml \cup {None}
    PROVE  /\ [f EXCEPT ![s][i] = y] \in [Server -> Stored]
           /\ [f EXCEPT ![s][i] = y][s][i] = y
           /\ \A r \in Server, k \in Item :
                 r # s \/ k # i => [f EXCEPT ![s][i] = y][r][k] = f[r][k]
<1>1. f[s] \in Stored
  OBVIOUS
<1>2. [f[s] EXCEPT ![i] = y] \in Stored /\ [f[s] EXCEPT ![i] = y][i] = y
      /\ \A k \in Item : k # i => [f[s] EXCEPT ![i] = y][k] = f[s][k]
  BY <1>1 DEF Stored
<1>3. [f EXCEPT ![s][i] = y] = [f EXCEPT ![s] = [f[s] EXCEPT ![i] = y]]
  OBVIOUS
<1>4. QED
  BY <1>2, <1>3

LEMMA StackJobTypes ==
    ASSUME BaseInv, NEW j \in jobs, StackJob(j)
    PROVE  StackTypeOK'
<1>1. /\ StackTypeOK /\ page = "stacks" /\ UNCHANGED tabVars /\ UNCHANGED editor /\ j \in Jobs
      /\ j.server \in Server /\ j.yaml \in Yaml \cup {None} /\ j.items \in SUBSET Item
      /\ j.act \in StackCommand => j.item \in Item
  BY StackJobPage DEF BaseInv, Types, Jobs
<1>2. /\ saved \in [Server -> Stored] /\ file \in [Server -> Stored]
      /\ running \in [Server -> Stored] /\ shown \in [Server -> Stored]
  BY <1>1 DEF StackTypeOK, Stored
<1>3. CASE Write(j)
  <2>1. j.act \in StackCommand
    BY <1>3 DEF Write, StackCommand
  <2>2. file' = file \/ file' = [file EXCEPT ![j.server][j.item] = j.yaml]
    BY <1>3 DEF Write
  <2>6. file' \in [Server -> Stored]
    <3>1. [file EXCEPT ![j.server][j.item] = j.yaml] \in [Server -> Stored]
      BY <1>1, <1>2, <2>1, StoredPut
    <3>2. QED
      BY <3>1, <1>2, <2>2
  <2>3. UNCHANGED <<saved, running, shown, runningStacks, op, editor>>
    BY <1>3 DEF Write
  <2>4. QED
    BY <1>1, <1>2, <2>6, <2>3 DEF StackTypeOK, Stored
<1>4. CASE Compose(j)
  <2>1. j.act \in StackCommand
    BY <1>4 DEF Compose
  <2>2. file[j.server][j.item] \in Yaml \cup {None}
    BY <1>1, <1>2, <2>1 DEF Stored
  <2>6. \/ running' = running
         \/ running' = [running EXCEPT ![j.server][j.item] = file[j.server][j.item]]
         \/ running' = [running EXCEPT ![j.server][j.item] = None]
    BY <1>4 DEF Compose
  <2>3. running' \in [Server -> Stored]
    <3>1. \A y \in Yaml \cup {None} : [running EXCEPT ![j.server][j.item] = y] \in [Server -> Stored]
      BY <1>1, <1>2, <2>1, StoredPut
    <3>2. QED
      BY <3>1, <1>2, <2>2, <2>6
  <2>4. UNCHANGED <<saved, file, shown, runningStacks, op, editor>>
    BY <1>4 DEF Compose
  <2>5. QED
    BY <1>1, <1>2, <2>3, <2>4 DEF StackTypeOK, Stored
<1>5. CASE InvalidStack(j) \/ ReadRunning(j)
  BY <1>1, <1>5 DEF InvalidStack, ReadRunning, StackTypeOK, stackVars
<1>6. CASE HandleStacks(j)
  BY <1>1, <1>6 DEF HandleStacks, StackTypeOK
<1>7. CASE FetchSaved(j)
  <2>1. shown' \in [Server -> Stored]
    BY <1>1, <1>2, <1>7 DEF FetchSaved
  <2>2. QED
    BY <1>1, <1>7, <2>1 DEF FetchSaved, StackTypeOK, Stored
<1>8. CASE HandleDone(j)
  BY <1>1, <1>8 DEF HandleDone, FinishOp, StackTypeOK
<1>9. QED
  BY <1>3, <1>4, <1>5, <1>6, <1>7, <1>8 DEF StackJob


LEMMA StackJobBase ==
    ASSUME BaseInv, NEW j \in jobs, StackJob(j), UNCHANGED hostVars
    PROVE  BaseInv'
<1>1. JobsInv' /\ StackTypeOK' /\ page = "stacks" /\ UNCHANGED tabVars /\ UNCHANGED editor
  BY StackJobPage, StackJobJobs, StackJobTypes
<1>2. SameTab /\ steps' = steps
  BY <1>1 DEF SameTab, tabVars
<1>3. TabTypes' /\ Links'
  BY <1>2, TabTypesStay, LinksStay DEF BaseInv, Types
<1>4. HostTypeOK'
  BY DEF BaseInv, Types, HostTypeOK, hostVars, stores, pageState
<1>5. Apart'
  BY <1>1, <1>2 DEF BaseInv, Apart, SameTab, hostVars, pageState
<1>6. QED
  BY <1>1, <1>3, <1>4, <1>5 DEF BaseInv, Types

(* The saved stacks are asked for anew.                                    *)
LEMMA SavedAnew ==
    ASSUME BaseInv, page = "stacks", page' = page, env' = env, serverId' = serverId,
           steps' \in {steps, steps + 1},
           jobs' = Replacing(jobs, {"saved"}) \cup {Job("saved", serverId, None)}
    PROVE  /\ JobsInv'
           /\ \A j : j.act # "saved" => (j \in jobs' <=> j \in jobs)
           /\ \E j \in jobs' : j.act = "saved" /\ j.server = serverId'
<1>1. JobsInv /\ steps \in Nat /\ serverId \in Server /\ page \in Page
  BY PageAndCircumstances, MaxStepsAssumption DEF BaseInv, Types, TabTypes
<1>2. PICK s \in Jobs : /\ s = Job("saved", serverId, None) /\ s.act = "saved"
                        /\ s.server = serverId /\ s.session = 0 /\ s.at = "asked"
  BY <1>1, NewJob
<1>3. jobs' = {j \in jobs : j.act # "saved"} \cup {s}
  BY <1>2 DEF Replacing
<1>4. Fit(s)'
  BY <1>1, <1>2, AskedFits, CommandPages
<1>5. JobsInv'
  BY <1>1, <1>2, <1>3, <1>4, JobsAdded
<1>6. QED
  BY <1>2, <1>3, <1>5

LEMMA PressStackBase ==
    ASSUME BaseInv, NEW n \in Item, NEW act \in StackCommand, PressStack(act, n), UNCHANGED hostVars
    PROVE  BaseInv'
<1> DEFINE y == IF act = "deploy" THEN shown[serverId][n] ELSE None
<1>1. /\ page \in Page /\ Types /\ serverId \in Server /\ page = "stacks"
      /\ y \in Yaml \cup {None}
  BY PageAndCircumstances DEF BaseInv, Types, TabTypes, StackTypeOK, PressStack, Free
<1>2. /\ SameTab /\ Step
      /\ jobs' = jobs \cup Asked({[MyJob(act, serverId, n) EXCEPT !.yaml = y]})
      /\ op' = [act |-> act, session |-> steps + 1, target |-> n, server |-> serverId,
                yaml |-> y, status |-> "running"]
      /\ UNCHANGED <<saved, file, running, shown, runningStacks, editor>>
  BY DEF PressStack, SameTab
<1> HIDE DEF y
<1>3. /\ TabTypes' /\ Links' /\ steps \in Nat /\ steps' = steps + 1 /\ steps + 1 \in 0..MaxSteps
      /\ page' = page /\ env' = env /\ serverId' = serverId
  BY <1>1, <1>2, TabTypesStay, LinksStay DEF BaseInv, Types, SameTab
<1>4. PICK m \in Jobs : /\ m = [MyJob(act, serverId, n) EXCEPT !.yaml = y]
                        /\ m.act = act /\ m.server = serverId
                        /\ m.item = n /\ m.session = steps + 1 /\ m.at = "asked" /\ m.yaml = y
  BY <1>1, <1>3, NewMineYaml
<1>5. Fit(m)'
  <2>1. m.act \in CommandsOf(page) \cup (IF page = "stacks" THEN StackCommand ELSE {})
    BY <1>1, <1>4
  <2>2. QED
    BY <2>1, <1>1, <1>3, <1>4, MineFits
<1>6. JobsInv'
  BY <1>5, <1>2, <1>3, <1>4, MineAdded DEF BaseInv
<1>7. HostTypeOK'
  BY <1>1 DEF Types, HostTypeOK, hostVars, stores, pageState
<1>8. StackTypeOK'
  BY <1>1, <1>2, <1>3 DEF Types, StackTypeOK
<1>9. Apart'
  BY <1>1, <1>2, <1>3 DEF BaseInv, Apart, hostVars, pageState
<1>10. QED
  BY <1>3, <1>6, <1>7, <1>8, <1>9 DEF BaseInv, Types

LEMMA StackBase ==
    ASSUME BaseInv, StackNext, UNCHANGED hostVars
    PROVE  BaseInv'
<1>1. Types /\ JobsInv /\ Links /\ Apart /\ serverId \in Server /\ StackTypeOK
  BY DEF BaseInv, Types, TabTypes
<1>2. /\ saved \in [Server -> Stored] /\ file \in [Server -> Stored]
      /\ running \in [Server -> Stored] /\ shown \in [Server -> Stored]
      /\ runningStacks \in SUBSET Item
      /\ editor \in [open : BOOLEAN, stack : Item \cup {None}, yaml : Yaml]
  BY <1>1 DEF StackTypeOK, Stored
<1>3. ASSUME SameTab, steps' = steps \/ Step, StackTypeOK', JobsInv' \/ jobs' = jobs,
             op' = NoOp \/ op' = op, editor'.open => editor.open \/ page = "stacks"
      PROVE  BaseInv'
  <2>1. /\ TabTypes' /\ Links' /\ steps \in Nat /\ steps' \in {steps, steps + 1}
        /\ page' = page /\ env' = env /\ serverId' = serverId
    BY <1>1, <1>3, TabTypesStay, LinksStay DEF Types, SameTab
  <2>2. JobsInv'
    BY <1>1, <1>3, <2>1, JobsAdded
  <2>3. HostTypeOK'
    BY <1>1 DEF Types, HostTypeOK, hostVars, stores, pageState
  <2>4. Apart'
    BY <1>1, <1>3, <2>1, <1>2 DEF Apart, hostVars, pageState
  <2>5. QED
    BY <1>3, <2>1, <2>2, <2>3, <2>4 DEF BaseInv, Types
<1>4. ASSUME SameTab, steps' = steps \/ Step, JobsInv' \/ jobs' = jobs, UNCHANGED <<shown, runningStacks, op>>,
             saved' \in [Server -> Stored], file' \in [Server -> Stored], running' \in [Server -> Stored],
             editor' \in [open : BOOLEAN, stack : Item \cup {None}, yaml : Yaml],
             editor'.open => editor.open \/ page = "stacks"
      PROVE  BaseInv'
  <2>1. StackTypeOK'
    BY <1>1, <1>4 DEF StackTypeOK, Stored
  <2>2. QED
    BY <1>3, <1>4, <2>1
<1>5. ASSUME NEW s \in Server, Recreated(s)
      PROVE  BaseInv'
  <2>1. file' \in [Server -> Stored]
    BY <1>2, <1>5 DEF Recreated, NoStacks, Stored
  <2>2. SameTab /\ steps' = steps /\ UNCHANGED <<jobs, saved, running, shown, runningStacks, op, editor>>
    BY <1>5 DEF Recreated, tabVars, SameTab
  <2>3. QED
    BY <2>1, <2>2, <1>2, <1>4
<1>6. ASSUME NEW s \in Server, NEW n \in Item, ComposeByHand(s, n)
      PROVE  BaseInv'
  <2>1. running' \in [Server -> Stored]
    <3>1. \A y \in Yaml \cup {None} : [running EXCEPT ![s][n] = y] \in [Server -> Stored]
      BY <1>2, StoredPut
    <3>2. QED
      BY <3>1, <1>6 DEF ComposeByHand
  <2>2. SameTab /\ Step /\ UNCHANGED <<jobs, saved, file, shown, runningStacks, op, editor>>
    BY <1>6 DEF ComposeByHand, SameTab
  <2>3. QED
    BY <2>1, <2>2, <1>2, <1>4
<1>7. ASSUME NEW n \in Item \cup {None}, OpenEditor(n)
      PROVE  BaseInv'
  <2>1. /\ SameTab /\ steps' = steps /\ page = "stacks"
        /\ editor' = [editor EXCEPT !.open = TRUE, !.stack = n]
        /\ UNCHANGED <<jobs, saved, file, running, shown, runningStacks, op>>
    BY <1>7 DEF OpenEditor, Free, tabVars, SameTab
  <2>2. editor' \in [open : BOOLEAN, stack : Item \cup {None}, yaml : Yaml]
    BY <1>2, <2>1
  <2>3. QED
    BY <2>1, <2>2, <1>2, <1>4
<1>8. CASE CloseEditor
  <2>1. /\ SameTab /\ steps' = steps /\ editor.open
        /\ editor' \in [open : BOOLEAN, stack : Item \cup {None}, yaml : Yaml]
        /\ UNCHANGED <<jobs, saved, file, running, shown, runningStacks, op>>
    BY <1>2, <1>8 DEF CloseEditor, tabVars, SameTab
  <2>2. QED
    BY <2>1, <1>2, <1>4
<1>9. ASSUME NEW y \in Yaml, Type(y)
      PROVE  BaseInv'
  <2>1. /\ SameTab /\ steps' = steps /\ editor.open
        /\ editor' \in [open : BOOLEAN, stack : Item \cup {None}, yaml : Yaml]
        /\ UNCHANGED <<jobs, saved, file, running, shown, runningStacks, op>>
    BY <1>2, <1>9 DEF Type, tabVars, SameTab
  <2>2. QED
    BY <2>1, <1>2, <1>4
<1>10. ASSUME NEW n \in Item, Save(n)
       PROVE  BaseInv'
  <2>1. /\ SameTab /\ Step /\ editor.open /\ page = "stacks"
        /\ saved' = [saved EXCEPT ![serverId][n] = editor.yaml]
        /\ editor' = [editor EXCEPT !.open = FALSE]
        /\ jobs' = Replacing(jobs, {"saved"}) \cup {Job("saved", serverId, None)}
        /\ UNCHANGED <<file, running, shown, runningStacks, op>>
    BY <1>1, <1>10 DEF Save, SameTab, Apart
  <2>2. editor.yaml \in Yaml \cup {None}
        /\ editor' \in [open : BOOLEAN, stack : Item \cup {None}, yaml : Yaml]
    BY <1>2, <2>1
  <2>3. saved' \in [Server -> Stored]
    <3>1. \A y \in Yaml \cup {None} : [saved EXCEPT ![serverId][n] = y] \in [Server -> Stored]
      BY <1>1, <1>2, StoredPut
    <3>2. QED
      BY <3>1, <2>1, <2>2
  <2>4. JobsInv'
    BY <2>1, SavedAnew DEF SameTab, Step
  <2>5. QED
    BY <2>1, <2>2, <2>3, <2>4, <1>2, <1>4
<1>11. ASSUME NEW n \in Item, DeleteSaved(n)
       PROVE  BaseInv'
  <2>1. /\ SameTab /\ Step /\ page = "stacks"
        /\ saved' = [saved EXCEPT ![serverId][n] = None]
        /\ jobs' = Replacing(jobs, {"saved"}) \cup {Job("saved", serverId, None)}
        /\ UNCHANGED <<file, running, shown, runningStacks, op, editor>>
    BY <1>11 DEF DeleteSaved, Free, SameTab
  <2>2. saved' \in [Server -> Stored]
    <3>1. \A y \in Yaml \cup {None} : [saved EXCEPT ![serverId][n] = y] \in [Server -> Stored]
      BY <1>1, <1>2, StoredPut
    <3>2. QED
      BY <3>1, <2>1
  <2>3. JobsInv'
    BY <2>1, SavedAnew DEF SameTab, Step
  <2>4. QED
    BY <2>1, <2>2, <2>3, <1>2, <1>4
<1>12. ASSUME NEW n \in Item, OtherSaves(n)
       PROVE  BaseInv'
  <2>1. saved' \in [Server -> Stored]
    <3>1. \A y \in Yaml \cup {None} : [saved EXCEPT ![serverId][n] = y] \in [Server -> Stored]
      BY <1>1, <1>2, StoredPut
    <3>2. QED
      BY <3>1, <1>12 DEF OtherSaves
  <2>2. SameTab /\ Step /\ UNCHANGED <<jobs, file, running, shown, runningStacks, op, editor>>
    BY <1>12 DEF OtherSaves, SameTab
  <2>3. QED
    BY <2>1, <2>2, <1>2, <1>4
<1>13. CASE ClearOp
  <2>1. /\ SameTab /\ steps' = steps /\ op' = NoOp
        /\ UNCHANGED <<jobs, saved, file, running, shown, runningStacks, editor>>
    BY <1>13 DEF ClearOp, tabVars, SameTab
  <2>2. StackTypeOK'
    BY <1>1, <2>1, MineAssumption, MaxStepsAssumption DEF StackTypeOK, NoOp
  <2>3. QED
    BY <2>1, <2>2, <1>3
<1>14. QED
  BY <1>5, <1>6, <1>7, <1>8, <1>9, <1>10, <1>11, <1>12, <1>13, StackJobBase, PressStackBase
     DEF StackNext, StackJob


-----------------------------------------------------------------------------
(* The steps of the tab and its connections.                               *)

LEMMA LastAppended ==
    ASSUME feed \in Seq({"online", "offline"}), NEW x \in {"online", "offline"},
           feed' = Append(feed, x)
    PROVE  /\ LastStatus' = x /\ feed' \in Seq({"online", "offline"})
           /\ \A n \in DOMAIN feed : n \in DOMAIN feed' /\ feed'[n] = feed[n]
           /\ \E n \in DOMAIN feed' : feed'[n] = x
<1>1. feed' # <<>> /\ feed'[Len(feed')] = x /\ Len(feed') \in DOMAIN feed'
  OBVIOUS
<1>2. QED
  BY <1>1 DEF LastStatus

LEMMA LastHandled ==
    ASSUME feed \in Seq({"online", "offline"}), feed # <<>>,
           feed' = Tail(feed), agentState' = Head(feed)
    PROVE  /\ LastStatus' = LastStatus /\ feed' \in Seq({"online", "offline"})
           /\ Head(feed) \in {"online", "offline"} /\ 1 \in DOMAIN feed /\ feed[1] = Head(feed)
           /\ \A n \in DOMAIN feed : n = 1 \/ \E k \in DOMAIN feed' : feed'[k] = feed[n]
           /\ \A k \in DOMAIN feed' : \E n \in DOMAIN feed : feed'[k] = feed[n]
<1>1. /\ Len(feed) \in Nat \ {0} /\ Len(feed') = Len(feed) - 1
      /\ \A k \in 1..Len(feed') : feed'[k] = feed[k + 1]
      /\ DOMAIN feed = 1..Len(feed) /\ DOMAIN feed' = 1..Len(feed')
      /\ feed' \in Seq({"online", "offline"})
      /\ Head(feed) = feed[1] /\ Head(feed) \in {"online", "offline"}
  OBVIOUS
<1>2. CASE Len(feed) = 1
  <2>1. feed' = <<>> /\ feed[Len(feed)] = Head(feed)
    BY <1>1, <1>2
  <2>2. QED
    BY <1>1, <1>2, <2>1 DEF LastStatus
<1>3. CASE Len(feed) > 1
  <2> DEFINE n == Len(feed)
             m == Len(feed')
  <2>1. n \in Nat /\ m = n - 1 /\ n > 1
    BY <1>1, <1>3
  <2> HIDE DEF n, m
  <2>2. m \in 1..m /\ m + 1 = n /\ m # 0
    BY <2>1
  <2>3. feed'[m] = feed[n]
    BY <1>1, <2>2 DEF m
  <2>4. feed' # <<>>
    BY <1>1, <2>2 DEF m
  <2>5. LastStatus' = LastStatus
    BY <2>3, <2>4 DEF LastStatus, m, n
  <2>6. \A k \in 1..n : k = 1 \/ (k - 1 \in 1..m /\ (k - 1) + 1 = k)
    BY <2>1
  <2>7. \A k \in 1..n : k = 1 \/ (k - 1 \in 1..m /\ feed'[k - 1] = feed[k])
    BY <1>1, <2>6 DEF m
  <2>8. \A k \in 1..m : k + 1 \in 1..n /\ feed'[k] = feed[k + 1]
    BY <1>1, <2>1 DEF m
  <2>9. 1 \in 1..n
    BY <2>1
  <2>10. DOMAIN feed = 1..n /\ DOMAIN feed' = 1..m
    BY <1>1 DEF m, n
  <2>11. QED
    BY <1>1, <2>5, <2>7, <2>8, <2>9, <2>10
<1>4. QED
  BY <1>1, <1>2, <1>3

(* What a page asks when it opens fits.                                    *)
LEMMA OpeningFits ==
    ASSUME BaseInv, page' = page, env' = env, serverId' \in Server, steps' \in {steps, steps + 1},
           jobs' = Opening(serverId'), serverId' = serverId \/ jobs = {}
    PROVE  JobsInv'
<1>1. JobsInv /\ steps \in Nat /\ steps' \in Nat /\ page \in Page
  BY PageAndCircumstances, MaxStepsAssumption DEF BaseInv, Types, TabTypes
<1>2. \A j \in jobs' : j \in jobs \/ (/\ j \in Jobs /\ j.act \in Questions(page) /\ j.server = serverId'
                                     /\ j.session = 0 /\ j.at = "asked")
  <2> DEFINE s == serverId'
  <2>1. \A r \in Server : \A j \in Opening(r) :
           j \in jobs \/ (/\ j \in Jobs /\ j.act \in Questions(page) /\ j.server = r
                          /\ j.session = 0 /\ j.at = "asked")
    BY <1>1, Opened
  <2>2. QED
    BY <2>1
<1>3. \A j \in jobs' : j \in jobs \/ (Fit(j)' /\ j.session = 0)
  BY <1>1, <1>2, AskedFits
<1>4. CASE serverId' = serverId
  BY <1>1, <1>3, <1>4, JobsAdded
<1>5. CASE jobs = {}
  BY <1>3, <1>5 DEF JobsInv, Unique
<1>6. QED
  BY <1>4, <1>5

LEMMA StatusBase ==
    ASSUME BaseInv, StatusArrives
    PROVE  BaseInv'
<1>1. Types /\ JobsInv /\ Links /\ Apart /\ TabTypes /\ HostTypeOK /\ StackTypeOK
  BY DEF BaseInv, Types
<1>2. /\ connected /\ feed # <<>> /\ feed' = Tail(feed) /\ agentState' = Head(feed)
      /\ jobs' = IF Head(feed) = "online" /\ ~Mounted THEN Opening(serverId) ELSE jobs
      /\ UNCHANGED <<env, page, serverId, online, connected, steps>>
  BY DEF StatusArrives, HandleStatus
<1>3. /\ LastStatus' = LastStatus /\ feed' \in Seq({"online", "offline"})
      /\ agentState' \in {"online", "offline"}
  BY <1>1, <1>2, LastHandled DEF TabTypes
<1>4. TabTypes'
  BY <1>1, <1>2, <1>3 DEF TabTypes
<1>5. Links'
  BY <1>1, <1>2, <1>3 DEF Links, StatusTells, Alone
<1>6. JobsInv'
  <2>1. steps \in Nat /\ serverId \in Server
    BY <1>1, MaxStepsAssumption DEF TabTypes
  <2>2. CASE jobs' = jobs
    BY <2>1, <2>2, <1>1, <1>2, JobsAdded
  <2>3. CASE jobs' = Opening(serverId)
    BY <2>1, <2>3, <1>2, OpeningFits
  <2>4. QED
    BY <2>2, <2>3, <1>2
<1>7. CASE agentState' = "offline"
  <2>1. /\ pulling' = FALSE /\ pruning' = FALSE /\ creating' = FALSE /\ buildOpen' = FALSE
        /\ timers' = {[t EXCEPT !.live = FALSE] : t \in timers}
        /\ UNCHANGED <<host, list, dangling, build>>
        /\ editor' = [open |-> FALSE, stack |-> None, yaml |-> DefaultCompose]
        /\ UNCHANGED <<saved, file, running, shown, runningStacks, op>>
    BY <1>7 DEF StatusArrives, Unmount, UnmountStacks, stores
  <2>2. \A t \in timers : /\ [t EXCEPT !.live = FALSE] \in [kind : {"pull", "remove"}, server : Server,
                                                           id : 1..MaxSteps, live : BOOLEAN]
                          /\ [t EXCEPT !.live = FALSE].server = t.server
    BY <1>1 DEF HostTypeOK
  <2>3. HostTypeOK'
    BY <1>1, <2>1, <2>2 DEF HostTypeOK
  <2>4. StackTypeOK'
    BY <1>1, <2>1, YamlAssumption DEF StackTypeOK
  <2>5. Apart'
    BY <1>1, <1>2, <2>1, <2>2 DEF Apart
  <2>6. QED
    BY <1>4, <1>5, <1>6, <2>3, <2>4, <2>5 DEF BaseInv, Types
<1>8. CASE agentState' # "offline"
  <2>1. UNCHANGED <<hostVars, stackVars>>
    BY <1>8 DEF StatusArrives
  <2>2. HostTypeOK' /\ StackTypeOK' /\ Apart'
    BY <1>1, <1>2, <2>1 DEF HostTypeOK, StackTypeOK, Apart, hostVars, stores, pageState, stackVars
  <2>3. QED
    BY <1>4, <1>5, <1>6, <2>2 DEF BaseInv, Types
<1>9. QED
  BY <1>7, <1>8

LEMMA WalkBase ==
    ASSUME BaseInv, NEW s \in Server, Walk(s)
    PROVE  BaseInv'
<1>1. Types /\ JobsInv /\ Links /\ Apart /\ TabTypes /\ HostTypeOK /\ StackTypeOK
  BY DEF BaseInv, Types
<1>2. /\ "navigates" \in env /\ Step /\ Mounted /\ jobs = {}
      /\ serverId' = s /\ jobs' = Opening(s) /\ ("hurries" \in env \/ timers = {})
      /\ UNCHANGED <<env, page, online, feed, connected, agentState>>
      /\ UNCHANGED <<hostVars, stackVars>>
  BY DEF Walk, GoTo
<1>3. steps' = steps + 1 /\ steps' \in 0..MaxSteps
  BY <1>1, <1>2, MaxStepsAssumption DEF TabTypes, Step
<1>4. TabTypes'
  BY <1>1, <1>2, <1>3 DEF TabTypes
<1>5. JobsInv'
  BY <1>2, <1>3, OpeningFits
<1>6. Links'
  BY <1>1, <1>2 DEF Links, StatusTells, Alone, LastStatus, Mounted
<1>7. HostTypeOK' /\ StackTypeOK'
  BY <1>1, <1>2, <1>3 DEF HostTypeOK, StackTypeOK, hostVars, stores, pageState, stackVars
<1>8. Apart'
  BY <1>1, <1>2 DEF Apart, hostVars, stores, pageState, stackVars
<1>9. QED
  BY <1>4, <1>5, <1>6, <1>7, <1>8 DEF BaseInv, Types

(* The other steps of the tab leave the pages alone.                       *)
Connections ==
    \/ \E s \in Server : AgentLost(s) \/ AgentBack(s)
    \/ \E j \in jobs : Drop(j)
    \/ \E s \in Server : \/ OtherTab(Job("list", s, None))
                         \/ \E i \in Item : \E act \in CommandsOf(page) : OtherTab(Job(act, s, i))
                         \/ \E n \in Item, y \in Yaml : \E act \in StackCommand :
                              page = "stacks" /\ OtherTab([Job(act, s, n) EXCEPT !.yaml = y])
    \/ SocketLost \/ Overtakes \/ Missed

LEMMA OtherTabFits ==
    ASSUME BaseInv, NEW j \in Jobs, OtherTab(j), j.session = 0, j.at = "asked",
           \/ j.act = "list"
           \/ j.act \in CommandsOf(page) /\ j.item \in Item
           \/ j.act \in StackCommand /\ page = "stacks" /\ j.item \in Item
    PROVE  SameTab /\ Step /\ JobsInv'
<1>1. /\ Types /\ JobsInv /\ TabTypes /\ page \in Page
      /\ steps \in Nat /\ steps' = steps + 1 /\ steps' \in Nat
  BY PageAndCircumstances, MaxStepsAssumption DEF BaseInv, Types, TabTypes, OtherTab, Step
<1>2. /\ SameTab /\ Step /\ jobs' = jobs \cup {j}
      /\ (IF j.server = serverId THEN "otherTab" ELSE "otherServer") \in env
  BY DEF OtherTab, SameTab
<1>3. j.act \in Acts' /\ j.act # "saved"
      /\ (j.act \in ImageQuestions \/ j.act \in HostCommand \/ j.act \in StackCommand)
      /\ (j.act \in HostCommand \cup StackCommand => j.item \in Item)
  BY <1>1, <1>2, CommandPages DEF Acts, Page, HostCommand, StackCommand, ImageQuestions, SameTab
<1>4. Shape(j)'
  BY <1>1, <1>3 DEF Shape
<1>5. Placed(j)'
  BY <1>2 DEF Placed, Near, Alone, SameTab
<1>6. Fit(j)'
  BY <1>4, <1>5 DEF Fit, Jobs
<1>7. QED
  BY <1>1, <1>2, <1>6, JobsAdded DEF SameTab

LEMMA ConnectionsBase ==
    ASSUME BaseInv, Connections, UNCHANGED <<hostVars, stackVars>>
    PROVE  BaseInv'
<1>1. Types /\ JobsInv /\ Links /\ Apart /\ TabTypes /\ HostTypeOK /\ StackTypeOK
      /\ steps \in Nat /\ feed \in Seq({"online", "offline"})
  BY MaxStepsAssumption DEF BaseInv, Types, TabTypes
<1>2. ASSUME UNCHANGED <<env, page, serverId>>, TabTypes', Links', JobsInv'
      PROVE  BaseInv'
  <2>1. HostTypeOK' /\ StackTypeOK' /\ Apart'
    BY <1>1, <1>2 DEF HostTypeOK, StackTypeOK, Apart, hostVars, stores, pageState, stackVars
  <2>2. QED
    BY <1>2, <2>1 DEF BaseInv, Types
<1>3. ASSUME NEW s \in Server, AgentLost(s)
      PROVE  BaseInv'
  <2>1. /\ "agentLeaves" \in env /\ online[s] /\ (s = serverId \/ "otherServer" \in env)
        /\ online' = [online EXCEPT ![s] = FALSE]
        /\ feed' = Append(feed, "offline") \/ ("unnoticed" \in env /\ feed' = feed)
        /\ UNCHANGED <<env, page, serverId, connected, agentState, jobs>>
        /\ steps' = steps + 1 /\ steps' \in 0..MaxSteps
    BY <1>1, <1>3, MaxStepsAssumption DEF AgentLost, Step, TabTypes
  <2>2. feed' = Append(feed, "offline") => LastStatus' = "offline" /\ feed' \in Seq({"online", "offline"})
    BY <1>1, LastAppended
  <2>3. TabTypes'
    BY <1>1, <2>1, <2>2 DEF TabTypes
  <2>4. Links'
    BY <1>1, <2>1, <2>2 DEF Links, StatusTells, Alone, TabTypes
  <2>5. JobsInv'
    BY <1>1, <2>1, JobsAdded
  <2>6. QED
    BY <1>2, <2>1, <2>3, <2>4, <2>5
<1>4. ASSUME NEW s \in Server, AgentBack(s)
      PROVE  BaseInv'
  <2>1. /\ ~online[s] /\ online' = [online EXCEPT ![s] = TRUE]
        /\ feed' = Append(feed, "online")
        /\ UNCHANGED <<env, page, serverId, connected, agentState, steps>>
    BY <1>4 DEF AgentBack
  <2>2. LastStatus' = "online" /\ feed' \in Seq({"online", "offline"})
    BY <1>1, <2>1, LastAppended
  <2>3. TabTypes'
    BY <1>1, <2>1, <2>2 DEF TabTypes
  <2>4. Links'
    BY <1>1, <2>1, <2>2 DEF Links, StatusTells, Alone, TabTypes
  <2>5. JobsInv'
    <3>1. PICK k \in Jobs : k = Job("list", s, None) /\ k.act = "list" /\ k.server = s /\ k.session = 0 /\ k.at = "asked"
      BY NewJob
    <3>2. jobs' = (IF page = "images" THEN jobs \cup {k} ELSE jobs)
      BY <1>4, <3>1 DEF AgentBack
    <3>3. Near => s = serverId \/ page # "images"
      BY <1>1, <2>1 DEF Near, Links
    <3>4. ASSUME page = "images" PROVE Fit(k)'
      <4>1. k.act \in Acts'
        BY <2>1, <3>1, <3>4, CommandPages DEF Acts
      <4>2. Shape(k)' /\ k \in Jobs
        BY <1>1, <2>1, <3>1, <4>1 DEF Shape, HostCommand, StackCommand
      <4>3. Placed(k)'
        BY <2>1, <3>1, <3>3, <3>4 DEF Placed, Near, Alone, HostCommand, StackCommand
      <4>4. QED
        BY <4>2, <4>3 DEF Fit, Jobs
    <3>5. \A w \in jobs' : w \in jobs \/ (Fit(w)' /\ w.session = 0)
      BY <3>1, <3>2, <3>4
    <3>6. QED
      BY <1>1, <2>1, <3>5, JobsAdded
  <2>6. QED
    BY <1>2, <2>1, <2>3, <2>4, <2>5
<1>5. ASSUME NEW j \in jobs, Drop(j)
      PROVE  BaseInv'
  <2>1. SameTab /\ steps' = steps /\ jobs' \subseteq jobs
    BY <1>5 DEF Drop, tabVars, SameTab
  <2>2. TabTypes' /\ Links'
    BY <1>1, <2>1, TabTypesStay, LinksStay
  <2>3. JobsInv'
    BY <1>1, <2>1, JobsAdded DEF SameTab
  <2>4. QED
    BY <1>2, <2>1, <2>2, <2>3 DEF SameTab
<1>6. ASSUME SameTab, Step, JobsInv'
      PROVE  BaseInv'
  <2>1. TabTypes' /\ Links'
    BY <1>1, <1>6, TabTypesStay, LinksStay
  <2>2. QED
    BY <1>2, <1>6, <2>1 DEF SameTab
<1>7. ASSUME NEW s \in Server, OtherTab(Job("list", s, None))
      PROVE  BaseInv'
  <2>1. PICK j \in Jobs : j = Job("list", s, None) /\ j.act = "list" /\ j.session = 0 /\ j.at = "asked"
    BY NewJob
  <2>2. QED
    BY <2>1, <1>6, <1>7, OtherTabFits
<1>8. ASSUME NEW s \in Server, NEW i \in Item, NEW act \in CommandsOf(page), OtherTab(Job(act, s, i))
      PROVE  BaseInv'
  <2>1. act \in HostCommand
    BY PageAndCircumstances, <1>1, CommandPages DEF Page, HostCommand
  <2>2. PICK j \in Jobs : j = Job(act, s, i) /\ j.act = act /\ j.item = i /\ j.session = 0 /\ j.at = "asked"
    BY <2>1, NewJob
  <2>3. QED
    BY <2>2, <1>6, <1>8, OtherTabFits
<1>9. ASSUME NEW s \in Server, NEW n \in Item, NEW y \in Yaml, NEW act \in StackCommand, page = "stacks",
             OtherTab([Job(act, s, n) EXCEPT !.yaml = y])
      PROVE  BaseInv'
  <2> DEFINE k == [Job(act, s, n) EXCEPT !.yaml = y]
  <2>1. k \in Jobs /\ k.act = act /\ k.item = n /\ k.session = 0 /\ k.at = "asked"
    BY MaxStepsAssumption DEF Job, Jobs
  <2>2. PICK j \in Jobs : j = k /\ j.act = act /\ j.item = n /\ j.session = 0 /\ j.at = "asked"
    BY <2>1
  <2>3. QED
    BY <2>2, <1>6, <1>9, OtherTabFits
<1>10. CASE SocketLost
  <2>1. /\ "socketLost" \in env /\ connected' = FALSE
        /\ UNCHANGED <<env, page, serverId, online, feed, agentState, jobs, steps>>
    BY <1>10 DEF SocketLost
  <2>2. TabTypes' /\ Links'
    BY <1>1, <2>1 DEF TabTypes, Links, StatusTells, Alone, LastStatus, Mounted
  <2>3. JobsInv'
    BY <1>1, <2>1, JobsAdded
  <2>4. QED
    BY <1>2, <2>1, <2>2, <2>3
<1>11. CASE Overtakes \/ Missed
  <2>1. /\ UNCHANGED <<env, page, serverId, online, connected, agentState, jobs, steps>>
        /\ ~StatusTells /\ feed # <<>>
    BY <1>1, <1>11 DEF Overtakes, Missed, StatusTells
  <2>2. feed' \in Seq({"online", "offline"})
    <3>1. CASE Overtakes
      BY <1>1, <3>1 DEF Overtakes
    <3>2. CASE Missed
      <4>1. PICK i \in 1..Len(feed) : feed' = RemoveAt(feed, i)
        BY <3>2 DEF Missed
      <4>2. QED
        BY <1>1, <4>1 DEF RemoveAt
    <3>3. QED
      BY <1>11, <3>1, <3>2
  <2>3. TabTypes' /\ Links'
    BY <1>1, <2>1, <2>2 DEF TabTypes, Links, Alone, StatusTells, LastStatus, Mounted
  <2>4. JobsInv'
    BY <1>1, <2>1, JobsAdded
  <2>5. QED
    BY <1>2, <2>1, <2>3, <2>4
<1>12. QED
  BY <1>3, <1>4, <1>5, <1>7, <1>8, <1>9, <1>10, <1>11 DEF Connections


-----------------------------------------------------------------------------
(* The steps of the composition.                                           *)

LEMMA Steps ==
    ASSUME [Next]_pageVars
    PROVE  \/ UNCHANGED pageVars
           \/ HostNext /\ UNCHANGED stackVars
           \/ StackNext /\ UNCHANGED hostVars
           \/ StatusArrives
           \/ \E s \in Server : Walk(s)
           \/ Connections /\ UNCHANGED <<hostVars, stackVars>>
BY DEF Next, Connections

LEMMA InitBase ==
    ASSUME Init
    PROVE  BaseInv
<1>1. PICK e \in Environments : page = e[1] /\ env = e[2]
  BY DEF Init, TabInit
<1>2. <<page, env>> \in Environments /\ page \in Page
  BY <1>1, EnvironmentsAssumption
<1>3. /\ serverId = Mine /\ online = [s \in Server |-> TRUE] /\ feed = <<>>
      /\ connected = TRUE /\ agentState = "online" /\ steps = 0
      /\ jobs = Asking(Questions(page), serverId)
  BY DEF Init, TabInit
<1>4. TabTypes
  BY <1>2, <1>3, MineAssumption, MaxStepsAssumption DEF TabTypes
<1>5. HostTypeOK
  <2>1. /\ host \in [Server -> [Item -> Use]]
        /\ list = [items |-> {}, use |-> {}] /\ dangling = {}
        /\ pulling = FALSE /\ pruning = FALSE /\ creating = FALSE /\ buildOpen = FALSE
        /\ build = [session |-> 0, status |-> "idle"] /\ timers = {}
    BY DEF Init, HostInit
  <2>2. list \in Rows /\ 0 \in 0..MaxSteps
    BY <2>1, MaxStepsAssumption DEF Rows
  <2>3. QED
    BY <2>1, <2>2 DEF HostTypeOK
<1>6. StackTypeOK
  <2>1. /\ saved \in [Server -> Stored]
        /\ running \in [Server -> UNION {{saved[s], NoStacks} : s \in Server}]
        /\ \A s \in Server : running[s] \in {saved[s], NoStacks}
        /\ file = running
        /\ shown = [s \in Server |-> NoStacks] /\ runningStacks = {} /\ op = NoOp
        /\ editor = [open |-> FALSE, stack |-> None, yaml |-> DefaultCompose]
    BY DEF Init, StackInit, Stored
  <2>2. NoStacks \in Stored
    BY DEF NoStacks, Stored
  <2>3. running \in [Server -> Stored] /\ file \in [Server -> Stored] /\ shown \in [Server -> Stored]
    BY <2>1, <2>2
  <2>4. op \in [act : StackCommand \cup {None}, session : 0..MaxSteps,
                target : Item \cup {None}, server : Server, yaml : Yaml \cup {None},
                status : {"idle", "running", "done", "error"}]
    BY <2>1, MineAssumption, MaxStepsAssumption DEF NoOp
  <2>5. editor \in [open : BOOLEAN, stack : Item \cup {None}, yaml : Yaml]
    BY <2>1, YamlAssumption
  <2>6. QED
    BY <2>1, <2>3, <2>4, <2>5 DEF StackTypeOK, Stored
<1>7. JobsInv
  <2>1. \A act \in Questions(page) :
           /\ act \in {"list", "dangling", "saved"} /\ act \in Acts
           /\ act \notin HostCommand \cup StackCommand
    BY <1>2, CommandPages DEF Page, Acts, HostCommand, StackCommand
  <2>2. \A j \in jobs : \E act \in Questions(page) : j = Job(act, serverId, None)
    BY <1>3 DEF Asking
  <2>3. \A j \in jobs : j \in Jobs /\ j.act \in Questions(page) /\ j.server = serverId
                        /\ j.session = 0 /\ j.at = "asked"
    BY <2>1, <2>2, <1>3, MineAssumption, NewJob
  <2>4. \A j \in jobs : Shape(j) /\ Placed(j)
    BY <1>3, <2>1, <2>3 DEF Shape, Placed, Near, Alone
  <2>5. QED
    BY <2>3, <2>4 DEF JobsInv, Fit, Unique
<1>8. Links
  BY <1>3, MineAssumption DEF Links, LastStatus, Mounted
<1>9. Apart
  BY DEF Init, HostInit, StackInit, Apart
<1>10. QED
  BY <1>4, <1>5, <1>6, <1>7, <1>8, <1>9 DEF BaseInv, Types

LEMMA NextBase ==
    ASSUME BaseInv, [Next]_pageVars
    PROVE  BaseInv'
<1>1. CASE UNCHANGED pageVars
  <2>1. SameTab /\ steps' = steps /\ jobs' = jobs
        /\ UNCHANGED <<hostVars, stackVars>>
    BY <1>1 DEF pageVars, tabVars, SameTab
  <2>2. TabTypes' /\ Links'
    BY <2>1, TabTypesStay, LinksStay DEF BaseInv, Types
  <2>3. JobsInv'
    BY <2>1, JobsAdded, TabTypesStay DEF BaseInv, Types, SameTab
  <2>4. HostTypeOK' /\ StackTypeOK' /\ Apart'
    BY <2>1 DEF BaseInv, Types, HostTypeOK, StackTypeOK, Apart, SameTab, hostVars, stores,
                pageState, stackVars
  <2>5. QED
    BY <2>2, <2>3, <2>4 DEF BaseInv, Types
<1>2. QED
  BY <1>1, Steps, HostBase, StackBase, StatusBase, WalkBase, ConnectionsBase

LEMMA BaseInvariant == Spec => []BaseInv
<1>1. Init => BaseInv
  BY InitBase
<1>2. BaseInv /\ [Next]_pageVars => BaseInv'
  BY NextBase
<1>3. QED
  BY <1>1, <1>2, PTL DEF Spec

(* Every variable of the pages keeps its type: no handler of an answer, a  *)
(* status or a timer makes a row, an operation or a question of something  *)
(* else, whatever it interrupts.                                           *)
THEOREM TypeCorrect == Spec => []TypeOK
<1>1. BaseInv => TypeOK
  BY BaseTypes
<1>2. QED
  BY <1>1, BaseInvariant, PTL


-----------------------------------------------------------------------------
(* The marks of the page.                                                  *)

(* The page is there, and no status on its way takes it away.              *)
Watched == connected /\ Mounted /\ \A n \in DOMAIN feed : feed[n] # "offline"

BuildWaits ==
    buildOpen /\ build.status = "building" =>
        \E j \in jobs : j.act = "build" /\ j.session = build.session

PruneWaits ==
    "refuses" \notin env /\ pruning => \E j \in jobs : j.act = "prune" /\ j.session > 0

(* A create that was not carried out yet can be.                           *)
CreateWaits ==
    "refuses" \notin env /\ creating /\ env \cap {"otherTab", "outside"} = {} =>
        \E j \in jobs : /\ j.act = "create" /\ j.session > 0
                        /\ j.at = "asked" => host[serverId][j.item] = "absent"

MarksInv ==
    /\ ~Mounted => ~pulling /\ ~pruning /\ ~creating /\ ~buildOpen
    /\ pulling => \E t \in timers : t.kind = "pull" /\ t.live
    /\ build.status = "building" => build.session > 0
    /\ "invalid" \notin env /\ StatusTells /\ Watched => BuildWaits /\ PruneWaits /\ CreateWaits

LEMMA WatchedOnline ==
    ASSUME BaseInv, StatusTells, Watched
    PROVE  connected /\ Mounted /\ online[serverId]
<1>1. feed \in Seq({"online", "offline"}) /\ (online[serverId] <=> LastStatus = "online")
  BY DEF BaseInv, Types, TabTypes, Links
<1>2. CASE feed = <<>>
  BY <1>1, <1>2 DEF Watched, Mounted, LastStatus
<1>3. CASE feed # <<>>
  <2>1. Len(feed) \in DOMAIN feed /\ feed[Len(feed)] \in {"online", "offline"}
    BY <1>1, <1>3
  <2>2. QED
    BY <1>1, <1>3, <2>1 DEF Watched, LastStatus
<1>4. QED
  BY <1>2, <1>3

(* A step of the connections: what the tab still watches it watched, and   *)
(* none of its user's commands is lost.                                    *)
LEMMA ConnectionsKeep ==
    ASSUME BaseInv, Connections
    PROVE  /\ UNCHANGED <<env, page, serverId, agentState>>
           /\ StatusTells /\ Watched' =>
                 /\ Watched
                 /\ \A j \in jobs : j.server = serverId => j \in jobs'
           /\ \A j \in jobs' : j \in jobs \/ (j.session = 0 /\ j.at = "asked")
           /\ \A j \in jobs : j.act = "saved" => j \in jobs'
           /\ env \cap {"agentLeaves", "readFails"} = {} => jobs \subseteq jobs'
<1>1. /\ feed \in Seq({"online", "offline"}) /\ JobsInv
      /\ \A j \in jobs : j.session > 0 => j.server = serverId
  BY DEF BaseInv, Types, TabTypes, JobsInv, Fit, Placed, Near, Alone
<1>2. ASSUME NEW s \in Server, AgentLost(s)
      PROVE  /\ UNCHANGED <<env, page, serverId, agentState, jobs>>
             /\ StatusTells => ~Watched'
  <2>1. /\ feed' = Append(feed, "offline") \/ "unnoticed" \in env
        /\ UNCHANGED <<env, page, serverId, connected, agentState, jobs>>
    BY <1>2 DEF AgentLost
  <2>2. feed' = Append(feed, "offline") => \E n \in DOMAIN feed' : feed'[n] = "offline"
    BY <1>1, LastAppended
  <2>3. QED
    BY <2>1, <2>2 DEF StatusTells, Alone, Watched
<1>3. ASSUME NEW s \in Server, AgentBack(s)
      PROVE  /\ UNCHANGED <<env, page, serverId, agentState>> /\ (Watched' => Watched)
             /\ jobs' \in {jobs, jobs \cup {Job("list", s, None)}}
  <2>1. /\ feed' = Append(feed, "online") /\ UNCHANGED <<env, page, serverId, connected, agentState>>
        /\ jobs' \in {jobs, jobs \cup {Job("list", s, None)}}
    BY <1>3 DEF AgentBack
  <2>2. \A n \in DOMAIN feed : n \in DOMAIN feed' /\ feed'[n] = feed[n]
    BY <1>1, <2>1, LastAppended
  <2>3. QED
    BY <2>1, <2>2 DEF Watched, Mounted
<1>4. ASSUME NEW d \in jobs, Drop(d)
      PROVE  /\ SameTab /\ jobs' = jobs \ {d} /\ d.act # "saved"
             /\ StatusTells /\ Watched => d.server # serverId
             /\ env \cap {"agentLeaves", "readFails"} # {}
  <2>1. /\ SameTab /\ jobs' = jobs \ {d} /\ d.act # "saved"
        /\ ~online[d.server] \/ "readFails" \in env
    BY <1>4 DEF Drop, tabVars, SameTab
  <2>2. "agentLeaves" \in env \/ "readFails" \in env
    BY <2>1 DEF BaseInv, Links, JobsInv, Fit, Jobs
  <2>3. StatusTells => ~online[d.server]
    BY <2>1 DEF StatusTells
  <2>4. QED
    BY <2>1, <2>2, <2>3, WatchedOnline
<1>5. ASSUME NEW k, OtherTab(k)
      PROVE  SameTab /\ jobs' = jobs \cup {k}
  BY <1>5 DEF OtherTab, SameTab
<1>6. \A act, s, i, y :
         /\ Job(act, s, i).session = 0 /\ Job(act, s, i).at = "asked"
         /\ [Job(act, s, i) EXCEPT !.yaml = y].session = 0 /\ [Job(act, s, i) EXCEPT !.yaml = y].at = "asked"
  BY DEF Job
<1>7. SameTab => (Watched' <=> Watched)
  BY DEF SameTab, Watched, Mounted
<1>8. CASE SocketLost
  BY <1>8 DEF SocketLost, Watched
<1>9. CASE \E k : OtherTab(k) /\ k.session = 0 /\ k.at = "asked"
  BY <1>5, <1>7, <1>9 DEF SameTab
<1>10. CASE \E d \in jobs : Drop(d)
  BY <1>4, <1>7, <1>10 DEF SameTab
<1>11. CASE \E s \in Server : AgentLost(s) \/ AgentBack(s)
  BY <1>2, <1>3, <1>6, <1>11
<1>12. ASSUME NEW s \in Server,
              \/ OtherTab(Job("list", s, None))
              \/ \E i \in Item : \E act \in CommandsOf(page) : OtherTab(Job(act, s, i))
              \/ \E n \in Item, y \in Yaml : \E act \in StackCommand :
                    page = "stacks" /\ OtherTab([Job(act, s, n) EXCEPT !.yaml = y])
       PROVE  \E k : OtherTab(k) /\ k.session = 0 /\ k.at = "asked"
  <2>1. CASE OtherTab(Job("list", s, None))
    BY <2>1, <1>6
  <2>2. CASE \E i \in Item : \E act \in CommandsOf(page) : OtherTab(Job(act, s, i))
    BY <2>2, <1>6
  <2>3. CASE \E n \in Item, y \in Yaml : \E act \in StackCommand :
                page = "stacks" /\ OtherTab([Job(act, s, n) EXCEPT !.yaml = y])
    <3>1. PICK n \in Item, y \in Yaml, act \in StackCommand :
                OtherTab([Job(act, s, n) EXCEPT !.yaml = y])
      BY <2>3
    <3> DEFINE k == [Job(act, s, n) EXCEPT !.yaml = y]
    <3>2. OtherTab(k) /\ k.session = 0 /\ k.at = "asked"
      BY <3>1 DEF Job
    <3> HIDE DEF k
    <3>3. QED
      BY <3>2
  <2>4. QED
    BY <1>12, <2>1, <2>2, <2>3
<1>13. CASE Overtakes \/ Missed
  BY <1>13 DEF Overtakes, Missed, StatusTells
<1>14. QED
  BY <1>8, <1>9, <1>10, <1>11, <1>12, <1>13 DEF Connections

(* So does a status that is handled, or the page was not there.            *)
LEMMA StatusKeeps ==
    ASSUME BaseInv, StatusArrives, Watched'
    PROVE  /\ UNCHANGED <<env, page, serverId, hostVars, stackVars>>
           /\ \/ Watched /\ jobs' = jobs
              \/ ~Mounted /\ jobs' = Opening(serverId)
<1>1. feed \in Seq({"online", "offline"})
  BY DEF BaseInv, Types, TabTypes
<1>2. /\ connected /\ feed # <<>> /\ feed' = Tail(feed) /\ agentState' = Head(feed)
      /\ jobs' = IF Head(feed) = "online" /\ ~Mounted THEN Opening(serverId) ELSE jobs
      /\ UNCHANGED <<env, page, serverId, online, connected, steps>>
  BY DEF StatusArrives, HandleStatus
<1>3. /\ 1 \in DOMAIN feed /\ feed[1] = Head(feed)
      /\ \A n \in DOMAIN feed : n = 1 \/ \E k \in DOMAIN feed' : feed'[k] = feed[n]
  BY <1>1, <1>2, LastHandled
<1>4. agentState' = "online" /\ Head(feed) = "online"
  BY <1>2 DEF Watched, Mounted
<1>5. UNCHANGED <<hostVars, stackVars>>
  BY <1>4 DEF StatusArrives
<1>6. \A n \in DOMAIN feed : feed[n] # "offline"
  BY <1>3, <1>4 DEF Watched
<1>7. QED
  BY <1>2, <1>4, <1>5, <1>6 DEF Watched

(* No step of the stacks is one of the connections.                        *)
LEMMA StackSame ==
    ASSUME StackNext
    PROVE  SameTab
<1>1. \A j : StackJob(j) => SameTab
  BY DEF StackJob, Write, Compose, InvalidStack, ReadRunning, HandleStacks, FetchSaved, HandleDone,
         tabVars, SameTab
<1>2. \A s : Recreated(s) => SameTab
  BY DEF Recreated, tabVars, SameTab
<1>3. \A s, n : ComposeByHand(s, n) => SameTab
  BY DEF ComposeByHand, SameTab
<1>4. \A n, act : PressStack(act, n) => SameTab
  BY DEF PressStack, SameTab
<1>5. \A n : OpenEditor(n) \/ Save(n) \/ DeleteSaved(n) \/ OtherSaves(n) => SameTab
  BY DEF OpenEditor, Save, DeleteSaved, OtherSaves, tabVars, SameTab
<1>6. ClearOp \/ CloseEditor \/ (\E y : Type(y)) => SameTab
  BY DEF ClearOp, CloseEditor, Type, tabVars, SameTab
<1>7. QED
  BY <1>1, <1>2, <1>3, <1>4, <1>5, <1>6 DEF StackNext, StackJob

LEMMA HostSame ==
    ASSUME HostNext
    PROVE  SameTab
<1>1. \A j : HostJob(j) => SameTab
  BY DEF HostJob, Execute, Fail, Invalid, ReadItems, ReadUse, HandleList, HandleResult, tabVars, SameTab
<1>2. \A s, i : ByHand(s, i) => SameTab
  BY DEF ByHand, SameTab
<1>3. \A i, act : PressHost(act, i) \/ StartBuild(i) => SameTab
  BY DEF PressHost, StartBuild, SameTab
<1>4. (\E t : TimerFires(t)) \/ OpenBuild \/ CloseBuild => SameTab
  BY DEF TimerFires, OpenBuild, CloseBuild, tabVars, SameTab
<1>5. QED
  BY <1>1, <1>2, <1>3, <1>4 DEF HostNext, HostJob

(* Off the page of stacks, their steps do not concern the tab.             *)
LEMMA StackOffPage ==
    ASSUME BaseInv, StackNext, page # "stacks"
    PROVE  SameTab /\ jobs' = jobs
<1>1. \A j \in jobs : ~StackJob(j)
  BY StackJobPage
<1>2. ~editor.open /\ op = NoOp
  BY DEF BaseInv, Apart
<1>3. \A n : ~OpenEditor(n) /\ ~Save(n) /\ ~DeleteSaved(n) /\ ~OtherSaves(n)
  BY <1>2 DEF OpenEditor, Save, DeleteSaved, OtherSaves, Free
<1>4. \A n, act : ~PressStack(act, n)
  BY DEF PressStack, Free
<1>5. ~ClearOp /\ ~CloseEditor /\ \A y : ~Type(y)
  BY <1>2 DEF ClearOp, CloseEditor, Type, NoOp
<1>6. \A s : Recreated(s) => SameTab /\ jobs' = jobs
  BY DEF Recreated, tabVars, SameTab
<1>7. \A s, n : ComposeByHand(s, n) => SameTab /\ jobs' = jobs
  BY DEF ComposeByHand, SameTab
<1>8. QED
  BY <1>1, <1>3, <1>4, <1>5, <1>6, <1>7 DEF StackNext, StackJob


(* What a command of the networks page makes of the networks.              *)
LEMMA NetworkChange ==
    ASSUME NEW act \in CommandsOf("networks"), NEW i, NEW h, NEW g \in Effects(act, i, h)
    PROVE  \/ act = "create" /\ h[i] = "absent" /\ g = [h EXCEPT ![i] = "free"]
           \/ act = "rmnet" /\ h[i] = "free" /\ g = [h EXCEPT ![i] = "gone"]
BY CommandPages DEF Effects, NetworkEffects

LEMMA AlwaysPossible ==
    /\ \A i, h : Effects("prune", i, h) # {}
    /\ \A i, h : h[i] = "absent" => Effects("create", i, h) # {}
BY CommandPages DEF Effects, ImageEffects, NetworkEffects

(* The marks stay true if nothing but other commands come and go.          *)
LEMMA MarksStay ==
    ASSUME MarksInv, UNCHANGED <<env, page, serverId, agentState>>,
           UNCHANGED <<build, pulling, pruning, creating, buildOpen, timers>>,
           StatusTells /\ Watched' =>
              /\ Watched
              /\ \A j \in jobs : j.act \in HostCommand /\ j.session > 0 => j \in jobs',
           "outside" \notin env => host' = host
    PROVE  MarksInv'
<1>1. ASSUME "invalid" \notin env', StatusTells', Watched'
      PROVE  BuildWaits' /\ PruneWaits' /\ CreateWaits'
  <2>1. /\ BuildWaits /\ PruneWaits /\ CreateWaits
        /\ \A j \in jobs : j.act \in HostCommand /\ j.session > 0 => j \in jobs'
        /\ build.status = "building" => build.session > 0
    BY <1>1 DEF MarksInv, StatusTells, Alone
  <2>2. BuildWaits'
    BY <2>1 DEF BuildWaits, HostCommand
  <2>3. PruneWaits'
    BY <2>1 DEF PruneWaits, HostCommand
  <2>4. CreateWaits'
    BY <2>1 DEF CreateWaits, HostCommand
  <2>5. QED
    BY <2>2, <2>3, <2>4
<1>2. QED
  BY <1>1 DEF MarksInv, Mounted

LEMMA MarksHostJob ==
    ASSUME BaseInv, MarksInv, NEW j \in jobs, HostJob(j)
    PROVE  MarksInv'
<1>1. /\ SameTab /\ UNCHANGED <<timers, pulling, buildOpen>>
      /\ (pruning' => pruning) /\ (creating' => creating)
      /\ Fit(j) /\ j \in Jobs /\ page \in Page
      /\ StatusTells' = StatusTells /\ Watched' = Watched /\ Mounted' = Mounted
  BY HostJobJobs, HostJobTypes, PageAndCircumstances
     DEF BaseInv, Types, JobsInv, Fit, tabVars, SameTab, StatusTells, Alone, Watched, Mounted
<1>2. CASE Invalid(j) /\ j.act \in HostCommand
  <2>1. "invalid" \in env
    BY <1>2 DEF Invalid, HostCommand, ImageQuestions
  <2>2. QED
    BY <1>1, <1>2, <2>1 DEF Invalid, MarksInv, SameTab, hostVars, stores, pageState
<1>10. CASE (Fail(j) \/ Invalid(j)) /\ j.act \notin HostCommand
  <2>1. jobs \ {j} \subseteq jobs' /\ UNCHANGED <<host, build, pruning, creating>>
    BY <1>10 DEF Fail, Invalid, hostVars, stores, pageState
  <2>2. QED
    BY <2>1, <1>1, <1>10, MarksStay DEF SameTab
<1>3. CASE ReadItems(j) \/ ReadUse(j) \/ HandleList(j)
  <2>1. /\ j.act \notin HostCommand /\ jobs \ {j} \subseteq jobs'
        /\ UNCHANGED <<host, build, pruning, creating>>
    BY <1>3 DEF ReadItems, ReadUse, HandleList, hostVars, stores, pageState, ImageQuestions, HostCommand
  <2>2. QED
    BY <2>1, <1>1, MarksStay DEF SameTab
<1>4. CASE Execute(j)
  <2>1. PICK k \in Jobs : k = [j EXCEPT !.at = "done"]
    BY <1>1 DEF Jobs
  <2>2. k.act = j.act /\ k.session = j.session /\ k.item = j.item /\ k.at = "done"
    BY <1>1, <2>1 DEF Jobs
  <2>3. /\ jobs' = (jobs \ {j}) \cup {k} /\ j.act \in HostCommand
        /\ \E h \in Effects(j.act, j.item, host[j.server]) : host' = [host EXCEPT ![j.server] = h]
        /\ UNCHANGED <<build, pruning, creating>>
    BY <1>4, <2>1 DEF Execute, stores, pageState
  <2>4. ASSUME BuildWaits PROVE BuildWaits'
    BY <1>1, <2>2, <2>3, <2>4 DEF BuildWaits
  <2>5. ASSUME PruneWaits PROVE PruneWaits'
    BY <1>1, <2>2, <2>3, <2>5 DEF PruneWaits, SameTab
  <2>6. ASSUME CreateWaits, "refuses" \notin env, creating', env \cap {"otherTab", "outside"} = {}
        PROVE  \E c \in jobs' : /\ c.act = "create" /\ c.session > 0
                                /\ c.at = "asked" => host'[serverId][c.item] = "absent"
    <3>1. PICK w \in jobs : /\ w.act = "create" /\ w.session > 0
                            /\ w.at = "asked" => host[serverId][w.item] = "absent"
      BY <1>1, <2>6 DEF CreateWaits
    <3>2. CASE w = j
      BY <3>1, <3>2, <2>2, <2>3
    <3>3. CASE w # j /\ (w.at # "asked" \/ host'[serverId][w.item] = "absent")
      BY <3>1, <3>3, <2>3
    <3>4. CASE w # j /\ w.at = "asked" /\ host'[serverId][w.item] # "absent"
      <4>1. Fit(w) /\ w.act \in Acts /\ j.act \in Acts /\ page = "networks" /\ w.item \in Item
        <5>1. Fit(w) /\ w.act \in Acts /\ j.act \in Acts
          BY <1>1 DEF BaseInv, JobsInv, Fit, Shape
        <5>2. page = "networks"
          BY <1>1, <3>1, <5>1, CommandPages DEF Acts, Page, StackCommand
        <5>3. QED
          BY <3>1, <5>1, <5>2 DEF Fit, Shape, HostCommand
      <4>2. j.act \in CommandsOf("networks") /\ j.item \in Item /\ j.server \in Server
        BY <1>1, <2>3, <4>1, CommandPages DEF Acts, Fit, Shape, Jobs, HostCommand, StackCommand
      <4>3. host \in [Server -> [Item -> Use]] /\ serverId \in Server
        BY DEF BaseInv, Types, HostTypeOK, TabTypes
      <4>4. PICK g \in Effects(j.act, j.item, host[j.server]) : host' = [host EXCEPT ![j.server] = g]
        BY <2>3
      <4>5. j.server = serverId /\ g[w.item] # "absent" /\ host[serverId][w.item] = "absent"
        BY <3>1, <3>4, <4>2, <4>3, <4>4
      <4>6. j.act = "create" /\ j.item = w.item
        BY <4>1, <4>2, <4>3, <4>4, <4>5, NetworkChange
      <4>7. j.session > 0
        <5>1. j.session \in Nat
          BY <1>1, MaxStepsAssumption DEF Jobs
        <5>2. j.session # 0
          BY <1>1, <2>3, <2>6, <4>5 DEF Fit, Placed, Near, Alone
        <5>3. QED
          BY <5>1, <5>2
      <4>8. QED
        BY <4>6, <4>7, <2>2, <2>3
    <3>5. QED
      BY <3>2, <3>3, <3>4
  <2>7. ASSUME CreateWaits PROVE CreateWaits'
    BY <1>1, <2>6, <2>7 DEF CreateWaits, SameTab
  <2>8. QED
    BY <1>1, <2>3, <2>4, <2>5, <2>7 DEF MarksInv, SameTab
<1>5. CASE Fail(j) /\ j.act \in HostCommand
  <2>1. /\ j.act \in HostCommand /\ j.at = "asked"
        /\ "refuses" \in env \/ Effects(j.act, j.item, host[j.server]) = {}
        /\ UNCHANGED <<host, build, pruning, creating>> /\ jobs \ {j} \subseteq jobs'
    BY <1>5 DEF Fail, hostVars, stores, pageState, HostCommand, ImageQuestions
  <2>2. ASSUME BuildWaits PROVE BuildWaits'
    <3>1. j.act = "build" => \E k \in jobs' : k.act = j.act /\ k.session = j.session
      <4>1. CASE j.act = "build"
        <5>1. PICK k \in Jobs : k = [j EXCEPT !.at = "failed"]
          BY <1>1 DEF Jobs
        <5>2. k.act = j.act /\ k.session = j.session
          BY <1>1, <5>1 DEF Jobs
        <5>3. k \in jobs'
          BY <1>5, <4>1, <5>1 DEF Fail
        <5>4. QED
          BY <5>2, <5>3
      <4>2. QED
        BY <4>1
    <3>2. QED
      BY <1>1, <2>1, <2>2, <3>1 DEF BuildWaits
  <2>3. ASSUME PruneWaits PROVE PruneWaits'
    <3>1. "refuses" \notin env => j.act # "prune"
      BY <2>1, AlwaysPossible
    <3>2. QED
      BY <1>1, <2>1, <2>3, <3>1 DEF PruneWaits, SameTab
  <2>4. ASSUME CreateWaits PROVE CreateWaits'
    <3>1. SUFFICES ASSUME "refuses" \notin env, creating, env \cap {"otherTab", "outside"} = {}
                   PROVE  \E c \in jobs' : /\ c.act = "create" /\ c.session > 0
                                           /\ c.at = "asked" => host[serverId][c.item] = "absent"
      BY <1>1, <2>1 DEF CreateWaits, SameTab
    <3>2. PICK w \in jobs : /\ w.act = "create" /\ w.session > 0
                            /\ w.at = "asked" => host[serverId][w.item] = "absent"
      BY <2>4, <3>1 DEF CreateWaits
    <3>3. w.server = serverId
      BY <3>2 DEF BaseInv, JobsInv, Fit, Placed, Near, Alone
    <3>4. w # j
      BY <2>1, <3>1, <3>2, <3>3, AlwaysPossible
    <3>5. QED
      BY <2>1, <3>2, <3>4
  <2>5. QED
    BY <1>1, <2>1, <2>2, <2>3, <2>4 DEF MarksInv, SameTab
<1>6. CASE HandleResult(j)
  <2>1. /\ j.act \in HostCommand /\ j.at \in {"done", "failed"} /\ jobs \ {j} \subseteq jobs'
        /\ build' = Finished(j) /\ host' = host
        /\ pruning' = (pruning /\ ~(j.act \in {"prune", "build"} /\ j.at = "done"))
        /\ creating' = (creating /\ j.act # "create")
    BY <1>6 DEF HandleResult
  <2>2. j.act = "prune" => j.at = "done"
    BY <1>1, <2>1 DEF Fit, Shape
  <2>3. \/ build' = build /\ ~(j.act = "build" /\ j.session = build.session /\ build.session > 0)
        \/ build'.status # "building"
    BY <2>1 DEF BaseInv, Types, HostTypeOK, Finished
  <2>4. ASSUME BuildWaits, build.status = "building" => build.session > 0 PROVE BuildWaits'
    BY <1>1, <2>1, <2>3, <2>4 DEF BuildWaits
  <2>5. ASSUME PruneWaits PROVE PruneWaits'
    BY <1>1, <2>1, <2>2, <2>5 DEF PruneWaits, SameTab
  <2>6. ASSUME CreateWaits PROVE CreateWaits'
    BY <1>1, <2>1, <2>6 DEF CreateWaits, SameTab
  <2>7. QED
    BY <1>1, <2>1, <2>3, <2>4, <2>5, <2>6 DEF MarksInv, SameTab
<1>7. CASE j.act \in HostCommand
  BY <1>2, <1>3, <1>4, <1>5, <1>6, <1>7 DEF HostJob
<1>8. CASE j.act \notin HostCommand
  BY <1>10, <1>3, <1>4, <1>6, <1>8 DEF HostJob
<1>9. QED
  BY <1>7, <1>8

(* A command of the tab that watches is on its way.                        *)
LEMMA PressGoes ==
    ASSUME BaseInv, NEW m \in Jobs, m.server = serverId, jobs' = jobs \cup Asked({m}),
           StatusTells, Watched
    PROVE  m \in jobs'
BY WatchedOnline DEF Asked

LEMMA MarksPress ==
    ASSUME BaseInv, MarksInv, NEW i \in Item, NEW act \in HostCommand, PressHost(act, i)
    PROVE  MarksInv'
<1> DEFINE kinds == CASE act = "pull" -> {"pull"} [] act = "rmi" -> {"remove"} [] OTHER -> {}
           more == {[kind |-> k, server |-> serverId, id |-> steps + 1, live |-> TRUE] : k \in kinds}
<1>1. page \in Page /\ Types /\ serverId \in Server
  BY PageAndCircumstances DEF BaseInv, Types, TabTypes
<1>2. /\ SameTab /\ Step /\ Mounted /\ act \in Offered(i)
      /\ jobs' = jobs \cup Asked({MyJob(act, serverId, i)})
      /\ pulling' = (pulling \/ act = "pull") /\ pruning' = (pruning \/ act = "prune")
      /\ creating' = (creating \/ act = "create")
      /\ timers' = timers \cup more
      /\ UNCHANGED <<host, build, buildOpen>>
  BY DEF PressHost, SameTab, stores
<1>3. steps \in Nat /\ steps' = steps + 1 /\ steps + 1 \in 0..MaxSteps
  BY <1>1, <1>2, TabTypesStay DEF Types, SameTab
<1>4. PICK m \in Jobs : /\ m = MyJob(act, serverId, i) /\ m.act = act /\ m.server = serverId
                        /\ m.item = i /\ m.session = steps + 1 /\ m.at = "asked"
  BY <1>1, <1>3, NewMine
<1>5. jobs' = jobs \cup Asked({m}) /\ m.session > 0
  BY <1>2, <1>3, <1>4
<1>6. pulling' => \E t \in timers' : t.kind = "pull" /\ t.live
  <2>1. CASE act = "pull"
    <3> DEFINE t == [kind |-> "pull", server |-> serverId, id |-> steps + 1, live |-> TRUE]
    <3>1. t \in more /\ t.kind = "pull" /\ t.live
      BY <2>1
    <3> HIDE DEF more, t
    <3>2. QED
      BY <3>1, <1>2
  <2>2. CASE act # "pull"
    <3> HIDE DEF more
    <3>1. QED
      BY <1>2, <2>2 DEF MarksInv
  <2>3. QED
    BY <2>1, <2>2
<1> HIDE DEF more
<1>7. ASSUME "invalid" \notin env, StatusTells, Watched
      PROVE  BuildWaits' /\ PruneWaits' /\ CreateWaits'
  <2>1. m \in jobs' /\ jobs \subseteq jobs' /\ BuildWaits /\ PruneWaits /\ CreateWaits
    BY <1>4, <1>5, <1>7, PressGoes DEF MarksInv
  <2>2. BuildWaits'
    BY <1>2, <2>1 DEF BuildWaits
  <2>3. PruneWaits'
    BY <1>2, <1>4, <1>5, <2>1 DEF PruneWaits, SameTab
  <2>4. act = "create" => "refuses" \in env \/ host[serverId][i] = "absent"
    BY <1>1, <1>2, OfferedActs DEF Offered, NetworkButtons
  <2>5. CreateWaits'
    BY <1>2, <1>4, <1>5, <2>1, <2>4 DEF CreateWaits, SameTab
  <2>6. QED
    BY <2>2, <2>3, <2>5
<1>8. StatusTells' = StatusTells /\ Watched' = Watched /\ Mounted' = Mounted
  BY <1>2 DEF SameTab, StatusTells, Alone, Watched, Mounted
<1>9. QED
  BY <1>2, <1>6, <1>7, <1>8 DEF MarksInv, SameTab

LEMMA MarksStartBuild ==
    ASSUME BaseInv, MarksInv, NEW i \in Item, StartBuild(i)
    PROVE  MarksInv'
<1>1. page \in Page /\ Types /\ serverId \in Server
  BY PageAndCircumstances DEF BaseInv, Types, TabTypes
<1>2. /\ SameTab /\ Step
      /\ jobs' = jobs \cup Asked({MyJob("build", serverId, i)})
      /\ build' = [session |-> steps + 1, status |-> "building"]
      /\ UNCHANGED <<host, pulling, pruning, creating, buildOpen, timers>>
  BY DEF StartBuild, SameTab, pageState
<1>3. steps \in Nat /\ steps' = steps + 1 /\ steps + 1 \in 0..MaxSteps
  BY <1>1, <1>2, TabTypesStay DEF Types, SameTab
<1>4. PICK m \in Jobs : /\ m = MyJob("build", serverId, i) /\ m.act = "build" /\ m.server = serverId
                        /\ m.item = i /\ m.session = steps + 1 /\ m.at = "asked"
  BY <1>1, <1>3, NewMine DEF HostCommand
<1>5. jobs' = jobs \cup Asked({m})
  BY <1>2, <1>4
<1>6. ASSUME "invalid" \notin env, StatusTells, Watched
      PROVE  BuildWaits' /\ PruneWaits' /\ CreateWaits'
  <2>1. m \in jobs' /\ jobs \subseteq jobs' /\ PruneWaits /\ CreateWaits
    BY <1>4, <1>5, <1>6, PressGoes DEF MarksInv
  <2>2. BuildWaits'
    BY <1>2, <1>4, <2>1 DEF BuildWaits
  <2>3. PruneWaits'
    BY <1>2, <2>1 DEF PruneWaits, SameTab
  <2>4. CreateWaits'
    BY <1>2, <2>1 DEF CreateWaits, SameTab
  <2>5. QED
    BY <2>2, <2>3, <2>4
<1>7. StatusTells' = StatusTells /\ Watched' = Watched /\ Mounted' = Mounted
  BY <1>2 DEF SameTab, StatusTells, Alone, Watched, Mounted
<1>8. build'.session > 0
  BY <1>2, <1>3
<1>9. QED
  BY <1>2, <1>6, <1>7, <1>8 DEF MarksInv, SameTab

(* A timer that is live takes its mark with it; it is the only one, for    *)
(* the button is dead until then.                                          *)
LEMMA MarksTimer ==
    ASSUME BaseInv, MarksInv, NEW t \in timers, TimerFires(t)
    PROVE  MarksInv'
<1>1. /\ SameTab /\ jobs \subseteq jobs' /\ timers' = timers \ {t}
      /\ pulling' = (pulling /\ ~(t.kind = "pull" /\ t.live))
      /\ UNCHANGED <<host, build, pruning, creating, buildOpen>>
  BY DEF TimerFires, tabVars, SameTab, stores
<1>2. StatusTells' = StatusTells /\ Watched' = Watched /\ Mounted' = Mounted
  BY <1>1 DEF SameTab, StatusTells, Alone, Watched, Mounted
<1>3. (BuildWaits => BuildWaits') /\ (PruneWaits => PruneWaits') /\ (CreateWaits => CreateWaits')
  BY <1>1 DEF BuildWaits, PruneWaits, CreateWaits, SameTab
<1>4. QED
  BY <1>1, <1>2, <1>3 DEF MarksInv, SameTab

LEMMA MarksHost ==
    ASSUME BaseInv, MarksInv, HostNext
    PROVE  MarksInv'
<1>1. ASSUME NEW s \in Server, NEW i \in Item, ByHand(s, i)
      PROVE  MarksInv'
  <2>1. /\ "outside" \in env /\ SameTab /\ jobs' = jobs
        /\ UNCHANGED <<build, pulling, pruning, creating, buildOpen, timers>>
    BY <1>1 DEF ByHand, SameTab, stores, pageState
  <2>2. QED
    BY <2>1, MarksStay DEF SameTab, Watched, Mounted
<1>2. CASE OpenBuild
  <2>1. /\ Mounted /\ SameTab /\ jobs' = jobs /\ build' = [session |-> 0, status |-> "idle"]
        /\ UNCHANGED <<host, pulling, pruning, creating, timers>>
    BY <1>2 DEF OpenBuild, SameTab, tabVars
  <2>2. StatusTells' = StatusTells /\ Watched' = Watched /\ Mounted' = Mounted
    BY <2>1 DEF SameTab, StatusTells, Alone, Watched, Mounted
  <2>3. BuildWaits' /\ (PruneWaits => PruneWaits') /\ (CreateWaits => CreateWaits')
    BY <2>1 DEF BuildWaits, PruneWaits, CreateWaits, SameTab
  <2>4. QED
    BY <2>1, <2>2, <2>3 DEF MarksInv, SameTab
<1>3. CASE CloseBuild
  <2>1. /\ SameTab /\ jobs' = jobs /\ buildOpen' = FALSE
        /\ UNCHANGED <<host, build, pulling, pruning, creating, timers>>
    BY <1>3 DEF CloseBuild, SameTab, tabVars, stores
  <2>2. StatusTells' = StatusTells /\ Watched' = Watched /\ Mounted' = Mounted
    BY <2>1 DEF SameTab, StatusTells, Alone, Watched, Mounted
  <2>3. BuildWaits' /\ (PruneWaits => PruneWaits') /\ (CreateWaits => CreateWaits')
    BY <2>1 DEF BuildWaits, PruneWaits, CreateWaits, SameTab
  <2>4. QED
    BY <2>1, <2>2, <2>3 DEF MarksInv, SameTab
<1>4. QED
  BY <1>1, <1>2, <1>3, MarksHostJob, MarksPress, MarksStartBuild, MarksTimer DEF HostNext, HostJob

LEMMA MarksNext ==
    ASSUME BaseInv, MarksInv, [Next]_pageVars
    PROVE  MarksInv'
<1>1. CASE UNCHANGED pageVars
  <2>1. /\ UNCHANGED <<env, page, serverId, agentState, connected, feed, jobs, host>>
        /\ UNCHANGED <<build, pulling, pruning, creating, buildOpen, timers>>
    BY <1>1 DEF pageVars, tabVars, hostVars, stores, pageState
  <2>2. QED
    BY <2>1, MarksStay DEF Watched, Mounted
<1>2. CASE StackNext /\ UNCHANGED hostVars
  <2>1. UNCHANGED <<host, build, pulling, pruning, creating, buildOpen, timers>>
    BY <1>2 DEF hostVars, stores, pageState
  <2>2. CASE page = "stacks"
    <3>1. BaseInv'
      BY <1>2, StackBase
    <3>2. page' = "stacks"
      BY <1>2, <2>2, StackSame DEF SameTab
    <3>3. ~pulling' /\ ~pruning' /\ ~creating' /\ ~buildOpen'
      BY <3>1, <3>2 DEF BaseInv, Apart
    <3>4. QED
      BY <2>1, <3>3 DEF MarksInv, BuildWaits, PruneWaits, CreateWaits
  <2>3. CASE page # "stacks"
    <3>1. SameTab /\ jobs' = jobs
      BY <1>2, <2>3, StackOffPage
    <3>2. QED
      BY <2>1, <3>1, MarksStay DEF SameTab, Watched, Mounted
  <2>4. QED
    BY <2>2, <2>3
<1>3. CASE StatusArrives
  <2>1. /\ UNCHANGED <<env, page, serverId, host, build>>
        /\ agentState' \in {"online", "offline"}
    <3>1. feed \in Seq({"online", "offline"}) /\ feed # <<>> /\ agentState' = Head(feed)
      BY <1>3 DEF BaseInv, Types, TabTypes, StatusArrives, HandleStatus
    <3>2. QED
      BY <1>3, <3>1 DEF StatusArrives, HandleStatus, Unmount, hostVars, stores
  <2>2. CASE agentState' = "offline"
    <3>1. ~pulling' /\ ~pruning' /\ ~creating' /\ ~buildOpen'
      BY <1>3, <2>2 DEF StatusArrives, Unmount
    <3>2. QED
      BY <2>1, <3>1 DEF MarksInv, BuildWaits, PruneWaits, CreateWaits
  <2>3. CASE agentState' # "offline"
    <3>1. UNCHANGED <<pulling, pruning, creating, buildOpen, timers>> /\ Mounted'
      BY <1>3, <2>1, <2>3 DEF StatusArrives, hostVars, pageState, Mounted
    <3>2. ASSUME "invalid" \notin env, StatusTells, Watched'
          PROVE  BuildWaits' /\ PruneWaits' /\ CreateWaits'
      <4>1. CASE Watched /\ jobs' = jobs
        BY <2>1, <3>1, <3>2, <4>1 DEF MarksInv, BuildWaits, PruneWaits, CreateWaits
      <4>2. CASE ~Mounted
        BY <2>1, <3>1, <4>2 DEF MarksInv, BuildWaits, PruneWaits, CreateWaits
      <4>3. QED
        BY <1>3, <3>2, <4>1, <4>2, StatusKeeps
    <3>3. QED
      BY <2>1, <3>1, <3>2 DEF MarksInv, StatusTells, Alone
  <2>4. QED
    BY <2>2, <2>3
<1>4. ASSUME NEW s \in Server, Walk(s)
      PROVE  MarksInv'
  <2>1. /\ jobs = {} /\ ~buildOpen /\ UNCHANGED <<env, page, connected, feed, agentState>>
        /\ UNCHANGED <<host, build, pulling, pruning, creating, buildOpen, timers>>
    BY <1>4 DEF Walk, GoTo, hostVars, stores, pageState
  <2>2. StatusTells' = StatusTells /\ Watched' = Watched /\ Mounted' = Mounted
    BY <2>1 DEF StatusTells, Alone, Watched, Mounted
  <2>3. BuildWaits' /\ (PruneWaits => PruneWaits') /\ (CreateWaits => CreateWaits')
    BY <2>1 DEF BuildWaits, PruneWaits, CreateWaits
  <2>4. QED
    BY <2>1, <2>2, <2>3 DEF MarksInv
<1>5. CASE Connections /\ UNCHANGED <<hostVars, stackVars>>
  <2>1. UNCHANGED <<host, build, pulling, pruning, creating, buildOpen, timers>>
    BY <1>5 DEF hostVars, stores, pageState
  <2>2. \A j \in jobs : j.session > 0 => j.server = serverId
    BY DEF BaseInv, JobsInv, Fit, Placed, Near, Alone
  <2>3. QED
    BY <1>5, <2>1, <2>2, ConnectionsKeep, MarksStay
<1>6. QED
  BY <1>1, <1>2, <1>3, <1>4, <1>5, Steps, MarksHost

LEMMA MarksInvariant == Spec => [](BaseInv /\ MarksInv)
<1>1. Init => MarksInv
  BY DEF Init, HostInit, MarksInv, BuildWaits, PruneWaits, CreateWaits
<1>2. BaseInv /\ MarksInv /\ [Next]_pageVars => MarksInv'
  BY MarksNext
<1>3. QED
  BY <1>1, <1>2, BaseInvariant, PTL DEF Spec

(* No mark stays: as long as a build, a prune, a pull or a create is shown *)
(* as under way, the command that will end it is on its way to the agent   *)
(* or back, or the timer that ends it runs, whatever the connections did   *)
(* meanwhile.                                                              *)
THEOREM MarksDoEnd == Spec => []MarksEnd
<1>1. BaseInv /\ MarksInv => MarksEnd
  <2> SUFFICES ASSUME BaseInv, MarksInv, "invalid" \notin env, StatusTells, Looking
               PROVE  /\ buildOpen /\ build.status = "building" =>
                            \E j \in jobs : j.act = "build" /\ j.session = build.session
                      /\ pulling => \E t \in timers : t.kind = "pull"
                      /\ "refuses" \notin env =>
                            /\ pruning => \E j \in jobs : j.act = "prune" /\ j.session > 0
                            /\ creating => \/ \E j \in jobs : j.act = "create" /\ j.session > 0
                                           \/ env \cap {"otherTab", "outside"} # {}
    BY DEF MarksEnd
  <2>1. Watched
    BY DEF Looking, Watched
  <2>2. QED
    BY <2>1 DEF MarksInv, BuildWaits, PruneWaits, CreateWaits
<1>2. QED
  BY <1>1, MarksInvariant, PTL


-----------------------------------------------------------------------------
(* The operation on a stack.                                               *)

(* The command of this tab's modal.                                        *)
Own(j) == j.act \in StackCommand /\ j.session > 0

OpShape ==
    /\ op.act # None => op.server = serverId /\ op.session > 0
    /\ op.status = "idle" <=> op.act = None
    /\ op.act = "down" => op.yaml = None

OpJobs ==
    \A j \in jobs : Own(j) =>
        /\ op.status = "running" /\ j.session = op.session
        /\ j.act = op.act /\ j.item = op.target /\ j.yaml = op.yaml

OpWaits ==
    op.status = "running" /\ env \cap {"invalid", "readFails", "agentLeaves", "socketLost"} = {} =>
        \E j \in jobs : Own(j)

(* What was asked for is on the disk before Compose runs it, and nobody    *)
(* else writes there.                                                      *)
OpTrue ==
    env \cap {"otherTab", "outside"} = {} =>
        /\ \A j \in jobs : Own(j) =>
              /\ j.at = "written" /\ j.act = "deploy" => file[serverId][op.target] = op.yaml
              /\ j.at = "done" => running[serverId][op.target] = op.yaml
        /\ op.status = "done" => running[serverId][op.target] = op.yaml

OpInv == OpShape /\ OpJobs /\ OpWaits /\ OpTrue

LEMMA OpOffPage ==
    ASSUME BaseInv', page' # "stacks"
    PROVE  OpInv'
<1>1. op' = NoOp /\ \A j \in jobs' : ~Own(j)
  <2>1. \A j \in jobs' : j.act \in Acts' /\ page' \in Page
    BY EnvironmentsAssumption DEF BaseInv, Types, TabTypes, JobsInv, Fit, Shape
  <2>2. \A j \in jobs' : j.act \notin StackCommand
    BY <2>1, CommandPages DEF Acts, Page, StackCommand
  <2>3. QED
    BY <2>2 DEF BaseInv, Apart, Own
<1>2. QED
  BY <1>1 DEF OpInv, OpShape, OpJobs, OpWaits, OpTrue, NoOp

(* Nothing happens to the operation.                                       *)
LEMMA OpStays ==
    ASSUME OpInv, op' = op, env' = env, serverId' = serverId \/ op.act = None,
           \A j \in jobs' : Own(j) => j \in jobs,
           env \cap {"invalid", "readFails", "agentLeaves", "socketLost"} = {} =>
               \A j \in jobs : Own(j) => j \in jobs',
           "outside" \notin env => running' = running,
           (\E j \in jobs : Own(j)) => file'[serverId] = file[serverId]
    PROVE  OpInv'
<1>1. OpShape'
  BY DEF OpInv, OpShape
<1>2. OpJobs'
  BY DEF OpInv, OpJobs
<1>3. OpWaits'
  BY DEF OpInv, OpWaits
<1>4. CASE serverId' = serverId
  <2>1. OpTrue'
    BY <1>4 DEF OpInv, OpTrue
  <2>2. QED
    BY <1>1, <1>2, <1>3, <2>1 DEF OpInv
<1>5. CASE op.act = None
  <2>1. op.status = "idle" /\ \A j \in jobs' : ~Own(j)
    BY <1>5 DEF OpInv, OpShape, OpJobs
  <2>2. OpTrue'
    BY <2>1 DEF OpTrue
  <2>3. QED
    BY <1>1, <1>2, <1>3, <2>2 DEF OpInv
<1>6. QED
  BY <1>4, <1>5

(* There is one command of the operation; others go to other servers,      *)
(* unless another tab deploys too.                                         *)
LEMMA OwnOne ==
    ASSUME BaseInv, OpInv
    PROVE  /\ \A j \in jobs : Own(j) => j.server = serverId
           /\ \A j, k \in jobs : Own(j) /\ Own(k) => j = k
           /\ \A j \in jobs : j.act \in StackCommand /\ ~Own(j) =>
                 /\ j.session = 0
                 /\ "otherTab" \notin env => j.server # serverId
           /\ \A j \in jobs : j.act \in {"list", "saved"} => j.session = 0
<1>1. \A j \in jobs : Fit(j) /\ j.session \in Nat
  BY MaxStepsAssumption DEF BaseInv, JobsInv, Fit, Jobs
<1>2. \A j \in jobs : Own(j) => j.server = serverId
  BY <1>1 DEF Own, Fit, Placed, Near, Alone
<1>3. \A j, k \in jobs : Own(j) /\ Own(k) => j = k
  BY <1>1 DEF Own, OpInv, OpJobs, BaseInv, JobsInv, Unique
<1>4. \A j \in jobs : j.act \in StackCommand /\ ~Own(j) =>
          j.session = 0 /\ ("otherTab" \notin env => j.server # serverId)
  BY <1>1 DEF Own, Fit, Placed, Near, Alone
<1>5. \A j \in jobs : j.act \in {"list", "saved"} => j.session = 0
  <2>1. page \in Page
    BY PageAndCircumstances DEF BaseInv, Types
  <2>2. \A j \in jobs : j.act \in {"list", "saved"} => j.act \in Questions(page)
    BY <1>1, <2>1, CommandPages DEF Fit, Shape, Acts, Page, HostCommand, StackCommand
  <2>3. QED
    BY <1>1, <2>2 DEF Fit, Shape
<1>6. QED
  BY <1>2, <1>3, <1>4, <1>5

LEMMA OpWrite ==
    ASSUME BaseInv, OpInv, NEW j \in jobs, Write(j)
    PROVE  OpInv'
<1>1. /\ UNCHANGED <<env, serverId, op, running>> /\ serverId \in Server
      /\ j \in Jobs /\ j.act \in StackCommand /\ j.item \in Item /\ j.server \in Server
      /\ j.yaml \in Yaml \cup {None} /\ file \in [Server -> Stored]
  <2>1. StackJob(j) /\ j.act \in StackCommand
    BY DEF StackJob, Write, StackCommand
  <2>2. QED
    BY <2>1, StackJobPage DEF Write, tabVars, Jobs, BaseInv, Types, TabTypes, StackTypeOK, Stored
<1> DEFINE s == j.server
           i == j.item
           y == j.yaml
<1>2. ASSUME file' = [file EXCEPT ![s][i] = y]
      PROVE  file'[s][i] = y /\ (s # serverId => file'[serverId] = file[serverId])
  <2>1. s \in Server /\ i \in Item /\ y \in Yaml \cup {None} /\ file \in [Server -> Stored]
    BY <1>1
  <2> HIDE DEF s, i, y
  <2>2. file[s] \in Stored /\ file' = [file EXCEPT ![s] = [file[s] EXCEPT ![i] = y]]
    BY <1>2, <2>1
  <2>3. [file[s] EXCEPT ![i] = y] \in Stored /\ [file[s] EXCEPT ![i] = y][i] = y
    BY <2>1, <2>2 DEF Stored
  <2>4. QED
    BY <1>1, <2>1, <2>2, <2>3
<1>3. PICK a \in {"written", "failed"} :
         /\ jobs' = (jobs \ {j}) \cup {[j EXCEPT !.at = a]}
         /\ j.act = "deploy" /\ a = "written" => file' = [file EXCEPT ![j.server][j.item] = j.yaml]
         /\ j.act = "down" \/ a = "failed" => file' = file
  BY DEF Write
<1>4. PICK k \in Jobs : k = [j EXCEPT !.at = a]
  BY <1>1, <1>3 DEF Jobs
<1>5. /\ k.act = j.act /\ k.session = j.session /\ k.item = j.item /\ k.yaml = j.yaml /\ k.at = a
      /\ jobs' = (jobs \ {j}) \cup {k} /\ (Own(k) <=> Own(j))
  BY <1>1, <1>3, <1>4 DEF Jobs, Own
<1>6. OpShape' /\ OpJobs' /\ OpWaits'
  BY <1>1, <1>5 DEF OpInv, OpShape, OpJobs, OpWaits
<1>7. ASSUME env \cap {"otherTab", "outside"} = {}, NEW w \in jobs', Own(w)
      PROVE  /\ w.at = "written" /\ w.act = "deploy" => file'[serverId][op.target] = op.yaml
             /\ w.at = "done" => running[serverId][op.target] = op.yaml
  <2>1. CASE w = k
    <3>1. Own(j) /\ j.server = serverId /\ j.item = op.target /\ j.yaml = op.yaml
      BY <1>5, <1>7, <2>1, OwnOne DEF OpInv, OpJobs
    <3>2. QED
      BY <1>1, <1>2, <1>3, <1>5, <2>1, <3>1
  <2>2. CASE w # k
    <3>1. w \in jobs /\ w # j
      BY <1>5, <1>7, <2>2
    <3>2. ~Own(j)
      BY <1>7, <3>1, OwnOne
    <3>3. j.server # serverId
      BY <1>1, <1>7, <3>2, OwnOne
    <3>4. w.item = op.target /\ w.item \in Item
      BY <1>7, <3>1 DEF OpInv, OpJobs, BaseInv, JobsInv, Fit, Shape, Own
    <3>5. file'[serverId][op.target] = file[serverId][op.target]
      BY <1>1, <1>2, <1>3, <3>3, <3>4 DEF StackCommand
    <3>6. QED
      BY <1>7, <3>1, <3>5 DEF OpInv, OpTrue
  <2>3. QED
    BY <2>1, <2>2
<1>8. OpTrue'
  BY <1>1, <1>7 DEF OpInv, OpTrue
<1>9. QED
  BY <1>6, <1>8 DEF OpInv

LEMMA OpCompose ==
    ASSUME BaseInv, OpInv, NEW j \in jobs, Compose(j)
    PROVE  OpInv'
<1>1. /\ UNCHANGED <<env, serverId, op, file>> /\ serverId \in Server
      /\ j \in Jobs /\ j.act \in StackCommand /\ j.item \in Item /\ j.server \in Server
      /\ file \in [Server -> Stored] /\ running \in [Server -> Stored]
  <2>1. StackJob(j) /\ j.act \in StackCommand
    BY DEF StackJob, Compose
  <2>2. QED
    BY <2>1, StackJobPage DEF Compose, tabVars, Jobs, BaseInv, Types, TabTypes, StackTypeOK, Stored
<1> DEFINE after == IF j.act = "deploy" THEN file[j.server][j.item] ELSE None
<1>2. PICK a \in {"done", "failed"} :
         /\ jobs' = (jobs \ {j}) \cup {[j EXCEPT !.at = a]}
         /\ \/ running' = [running EXCEPT ![j.server][j.item] = after]
            \/ a = "failed" /\ running' = running
  BY DEF Compose
<1>3. PICK k \in Jobs : k = [j EXCEPT !.at = a]
  BY <1>1, <1>2 DEF Jobs
<1>4. /\ k.act = j.act /\ k.session = j.session /\ k.item = j.item /\ k.yaml = j.yaml /\ k.at = a
      /\ jobs' = (jobs \ {j}) \cup {k} /\ (Own(k) <=> Own(j))
  BY <1>1, <1>2, <1>3 DEF Jobs, Own
<1>5. after \in Yaml \cup {None}
  <2>1. file[j.server] \in Stored
    BY <1>1
  <2>2. QED
    BY <1>1, <2>1 DEF Stored
<1>6. /\ a = "done" => running'[j.server][j.item] = after
      /\ j.server # serverId => running'[serverId] = running[serverId]
  <2> HIDE DEF after
  <2> DEFINE s == j.server
             i == j.item
  <2>1. ASSUME running' = [running EXCEPT ![s][i] = after]
        PROVE  running'[s][i] = after /\ (s # serverId => running'[serverId] = running[serverId])
    <3>1. s \in Server /\ i \in Item
      BY <1>1
    <3> HIDE DEF s, i
    <3>2. running[s] \in Stored /\ running' = [running EXCEPT ![s] = [running[s] EXCEPT ![i] = after]]
      BY <1>1, <2>1, <3>1
    <3>3. [running[s] EXCEPT ![i] = after] \in Stored /\ [running[s] EXCEPT ![i] = after][i] = after
      BY <1>5, <3>1, <3>2 DEF Stored
    <3>4. QED
      BY <1>1, <3>1, <3>2, <3>3
  <2>2. QED
    BY <1>2, <2>1
<1>7. OpShape' /\ OpJobs' /\ OpWaits'
  BY <1>1, <1>4 DEF OpInv, OpShape, OpJobs, OpWaits
<1>8. j.at = "written"
  BY DEF Compose
<1>9. ASSUME env \cap {"otherTab", "outside"} = {}, NEW w \in jobs', Own(w)
      PROVE  /\ w.at = "written" /\ w.act = "deploy" => file[serverId][op.target] = op.yaml
             /\ w.at = "done" => running'[serverId][op.target] = op.yaml
  <2>1. CASE w = k
    <3>1. /\ Own(j) /\ j.server = serverId /\ j.item = op.target /\ j.act = op.act
          /\ j.act = "deploy" => file[serverId][op.target] = op.yaml
      BY <1>4, <1>8, <1>9, <2>1, OwnOne DEF OpInv, OpJobs, OpTrue
    <3>2. after = op.yaml
      BY <1>1, <3>1 DEF OpInv, OpShape, StackCommand
    <3>3. QED
      BY <1>4, <1>6, <2>1, <3>1, <3>2
  <2>2. CASE w # k
    <3>1. w \in jobs /\ w # j
      BY <1>4, <1>9, <2>2
    <3>2. ~Own(j)
      BY <1>9, <3>1, OwnOne
    <3>3. j.server # serverId
      BY <1>1, <1>9, <3>2, OwnOne
    <3>4. QED
      BY <1>6, <1>9, <3>1, <3>3 DEF OpInv, OpTrue
  <2>3. QED
    BY <2>1, <2>2
<1>10. ASSUME env \cap {"otherTab", "outside"} = {}, op.status = "done"
       PROVE  running'[serverId][op.target] = op.yaml
  <2>1. ~Own(j)
    BY <1>10 DEF OpInv, OpJobs
  <2>2. j.server # serverId
    BY <1>1, <1>10, <2>1, OwnOne
  <2>3. QED
    BY <1>6, <1>10, <2>2 DEF OpInv, OpTrue
<1>11. OpTrue'
  <2> HIDE DEF after
  <2>1. QED
    BY <1>1, <1>9, <1>10 DEF OpTrue
<1>12. QED
  BY <1>7, <1>11 DEF OpInv

LEMMA OpDone ==
    ASSUME BaseInv, OpInv, NEW j \in jobs, HandleDone(j)
    PROVE  OpInv'
<1>1. /\ UNCHANGED <<env, serverId, running, file>> /\ serverId \in Server
      /\ j.act \in StackCommand /\ op' = FinishOp(j)
      /\ j.session \in Nat
      /\ op \in [act : StackCommand \cup {None}, session : 0..MaxSteps,
                   target : Item \cup {None}, server : Server, yaml : Yaml \cup {None},
                   status : {"idle", "running", "done", "error"}]
  BY MaxStepsAssumption DEF HandleDone, tabVars, Jobs, BaseInv, Types, TabTypes, StackTypeOK,
     JobsInv, Fit
<1>2. /\ \A w \in jobs' : Own(w) => w \in jobs \ {j}
      /\ jobs \ {j} \subseteq jobs'
  <2>1. \A w \in Refresh({"list"}, serverId) : w.session = 0
    BY <1>1, Refreshed
  <2>2. QED
    BY <2>1 DEF HandleDone, Own
<1>3. CASE Own(j)
  <2>1. /\ op.status = "running" /\ j.session = op.session /\ op.session > 0 /\ op.act # None
        /\ j.at = "done" /\ env \cap {"otherTab", "outside"} = {} => running[serverId][op.target] = op.yaml
    BY <1>3 DEF OpInv, OpShape, OpJobs, OpTrue, Own
  <2>2. op' = [op EXCEPT !.status = IF j.at = "done" THEN "done" ELSE "error"]
    BY <1>1, <2>1 DEF FinishOp
  <2>3. /\ op'.act = op.act /\ op'.session = op.session /\ op'.target = op.target
        /\ op'.server = op.server /\ op'.yaml = op.yaml
        /\ op'.status = IF j.at = "done" THEN "done" ELSE "error"
    BY <1>1, <2>2
  <2>4. \A w \in jobs' : ~Own(w)
    BY <1>2, <1>3, OwnOne
  <2>5. QED
    BY <1>1, <2>1, <2>3, <2>4 DEF OpInv, OpShape, OpJobs, OpWaits, OpTrue
<1>4. CASE ~Own(j)
  <2>1. j.session = 0 /\ op' = op
    BY <1>1, <1>4 DEF Own, FinishOp
  <2>2. QED
    BY <1>1, <1>2, <1>4, <2>1, OpStays
<1>5. QED
  BY <1>3, <1>4

LEMMA OpJob ==
    ASSUME BaseInv, OpInv, NEW j \in jobs, StackJob(j)
    PROVE  OpInv'
<1>1. CASE InvalidStack(j) /\ j.act \in StackCommand
  <2>1. "invalid" \in env /\ jobs' \subseteq jobs
        /\ UNCHANGED <<env, serverId, op, running, file>>
    BY <1>1 DEF InvalidStack, tabVars, stackVars, StackCommand
  <2>2. QED
    BY <2>1, OpStays
<1>2. CASE \/ ReadRunning(j) \/ HandleStacks(j) \/ FetchSaved(j)
           \/ InvalidStack(j) /\ j.act \notin StackCommand
  <2>1. /\ j.act \in {"list", "saved"} /\ j.session = 0 /\ j \in Jobs
        /\ UNCHANGED <<env, serverId, op, running, file>>
    BY <1>2, OwnOne DEF ReadRunning, HandleStacks, FetchSaved, InvalidStack, tabVars, stackVars,
                        BaseInv, JobsInv, Fit
  <2>2. \A i : [j EXCEPT !.at = "read", !.items = i].session = 0
    BY <2>1 DEF Jobs
  <2>3. \A w \in jobs' : w \in jobs \/ w.session = 0
    BY <1>2, <2>2 DEF ReadRunning, HandleStacks, FetchSaved, InvalidStack
  <2>4. jobs \ {j} \subseteq jobs'
    BY <1>2 DEF ReadRunning, HandleStacks, FetchSaved, InvalidStack
  <2>5. QED
    BY <2>1, <2>3, <2>4, OpStays DEF Own
<1>3. CASE InvalidStack(j)
  <2>1. CASE j.act \in StackCommand
    BY <1>1, <1>3, <2>1
  <2>2. CASE j.act \notin StackCommand
    BY <1>2, <1>3, <2>2
  <2>3. QED
    BY <2>1, <2>2
<1>4. QED
  BY <1>2, <1>3, OpWrite, OpCompose, OpDone DEF StackJob

LEMMA OpPress ==
    ASSUME BaseInv, OpInv, NEW n \in Item, NEW act \in StackCommand, PressStack(act, n)
    PROVE  OpInv'
<1> DEFINE y == IF act = "deploy" THEN shown[serverId][n] ELSE None
<1>1. /\ Types /\ serverId \in Server /\ y \in Yaml \cup {None} /\ op.act = None
      /\ act = "down" => y = None
  BY DEF BaseInv, Types, TabTypes, StackTypeOK, PressStack, Free, StackCommand
<1>2. /\ SameTab /\ Step
      /\ jobs' = jobs \cup Asked({[MyJob(act, serverId, n) EXCEPT !.yaml = y]})
      /\ op' = [act |-> act, session |-> steps + 1, target |-> n, server |-> serverId,
                yaml |-> y, status |-> "running"]
      /\ UNCHANGED <<file, running>>
  BY DEF PressStack, SameTab
<1> HIDE DEF y
<1>3. steps \in Nat /\ steps + 1 \in 0..MaxSteps
  BY <1>1, <1>2, TabTypesStay DEF Types, SameTab
<1>4. PICK m \in Jobs : /\ m = [MyJob(act, serverId, n) EXCEPT !.yaml = y]
                        /\ m.act = act /\ m.server = serverId
                        /\ m.item = n /\ m.session = steps + 1 /\ m.at = "asked" /\ m.yaml = y
  BY <1>1, <1>3, NewMineYaml
<1>5. jobs' = jobs \cup Asked({m}) /\ m.session > 0 /\ \A j \in jobs : ~Own(j)
  BY <1>1, <1>2, <1>3, <1>4 DEF OpInv, OpShape, OpJobs
<1>6. \A w \in jobs' : Own(w) => w = m
  BY <1>5 DEF Asked
<1>7. env \cap {"invalid", "readFails", "agentLeaves", "socketLost"} = {} => m \in jobs' /\ Own(m)
  BY <1>1, <1>4, <1>5 DEF BaseInv, Links, Asked, Own
<1>8. OpShape'
  BY <1>1, <1>2, <1>3 DEF OpShape, SameTab, StackCommand, None
<1>9. OpJobs' /\ OpWaits' /\ OpTrue'
  BY <1>2, <1>4, <1>6, <1>7 DEF OpJobs, OpWaits, OpTrue, SameTab
<1>10. QED
  BY <1>8, <1>9 DEF OpInv

LEMMA OpStack ==
    ASSUME BaseInv, OpInv, page = "stacks", StackNext
    PROVE  OpInv'
<1>1. ASSUME NEW s \in Server, Recreated(s)
      PROVE  OpInv'
  <2>1. /\ UNCHANGED <<env, serverId, jobs, running, op>> /\ file' = [file EXCEPT ![s] = NoStacks]
        /\ \A j \in jobs : j.server = s => j.act \notin StackCommand
    BY <1>1 DEF Recreated, tabVars
  <2>2. (\E j \in jobs : Own(j)) => s # serverId
    BY <2>1, OwnOne DEF Own
  <2>3. serverId \in Server /\ file \in [Server -> Stored]
    BY DEF BaseInv, Types, TabTypes, StackTypeOK, Stored
  <2>4. QED
    BY <2>1, <2>2, <2>3, OpStays
<1>2. ASSUME NEW s \in Server, NEW n \in Item, ComposeByHand(s, n)
      PROVE  OpInv'
  <2>1. UNCHANGED <<env, serverId, jobs, file, op>> /\ "outside" \in env
    BY <1>2 DEF ComposeByHand
  <2>2. QED
    BY <2>1, OpStays
<1>3. ASSUME NEW n, OpenEditor(n) \/ OtherSaves(n)
      PROVE  OpInv'
  <2>1. UNCHANGED <<env, serverId, jobs, file, running, op>>
    BY <1>3 DEF OpenEditor, OtherSaves, tabVars
  <2>2. QED
    BY <2>1, OpStays
<1>4. CASE CloseEditor \/ \E y \in Yaml : Type(y)
  <2>1. UNCHANGED <<env, serverId, jobs, file, running, op>>
    BY <1>4 DEF CloseEditor, Type, tabVars
  <2>2. QED
    BY <2>1, OpStays
<1>5. ASSUME NEW n \in Item, Save(n) \/ DeleteSaved(n)
      PROVE  OpInv'
  <2>1. /\ UNCHANGED <<env, page, serverId, file, running, op>> /\ steps' \in {steps, steps + 1}
        /\ jobs' = Replacing(jobs, {"saved"}) \cup {Job("saved", serverId, None)}
    BY <1>5 DEF Save, DeleteSaved, Step
  <2>2. \A j : j.act # "saved" => (j \in jobs' <=> j \in jobs)
    BY <2>1, SavedAnew
  <2>3. \A j : Own(j) => (j \in jobs' <=> j \in jobs)
    BY <2>2 DEF Own, StackCommand
  <2>4. QED
    BY <2>1, <2>3, OpStays
<1>6. CASE ClearOp
  <2>1. /\ UNCHANGED <<env, serverId, jobs>> /\ op' = NoOp /\ op.status # "running"
    BY <1>6 DEF ClearOp, tabVars
  <2>2. \A j \in jobs' : ~Own(j)
    BY <2>1 DEF OpInv, OpJobs
  <2>3. QED
    BY <2>1, <2>2 DEF OpInv, OpShape, OpJobs, OpWaits, OpTrue, NoOp
<1>7. QED
  BY <1>1, <1>2, <1>3, <1>4, <1>5, <1>6, OpJob, OpPress DEF StackNext, StackJob


(* The other pages' steps do not concern the page of stacks.               *)
LEMMA HostOnStacks ==
    ASSUME BaseInv, page = "stacks", HostNext
    PROVE  SameTab /\ jobs' = jobs /\ UNCHANGED <<list, dangling, build>>
<1>1. \A j \in jobs : j.act \notin HostCommand
  <2>1. \A j \in jobs : j.act \in Acts
    BY DEF BaseInv, JobsInv, Fit, Shape
  <2>2. QED
    BY <2>1, CommandPages DEF Acts, HostCommand, StackCommand
<1>2. \A j \in jobs : ~HostJob(j)
  BY <1>1 DEF HostJob, Execute, Fail, Invalid, ReadItems, ReadUse, HandleList, HandleResult
<1>3. ~buildOpen /\ timers = {}
  BY DEF BaseInv, Apart
<1>4. \A i, act : ~PressHost(act, i) /\ ~StartBuild(i)
  BY <1>3 DEF PressHost, StartBuild, Offered
<1>5. ~OpenBuild /\ ~CloseBuild
  BY <1>3 DEF OpenBuild, CloseBuild
<1>6. \A s, i : ByHand(s, i) => SameTab /\ jobs' = jobs /\ UNCHANGED <<list, dangling, build>>
  BY DEF ByHand, SameTab, stores
<1>7. QED
  BY <1>2, <1>3, <1>4, <1>5, <1>6 DEF HostNext, HostJob

LEMMA PageStays ==
    ASSUME BaseInv, [Next]_pageVars
    PROVE  page' = page /\ env' = env
<1>1. UNCHANGED pageVars => page' = page /\ env' = env
  BY DEF pageVars, tabVars
<1>2. HostNext \/ StackNext => page' = page /\ env' = env
  BY HostSame, StackSame DEF SameTab
<1>3. StatusArrives => page' = page /\ env' = env
  BY DEF StatusArrives, HandleStatus
<1>4. \A s : Walk(s) => page' = page /\ env' = env
  BY DEF Walk, GoTo
<1>5. QED
  BY <1>1, <1>2, <1>3, <1>4, Steps, ConnectionsKeep

LEMMA OpNext ==
    ASSUME BaseInv, BaseInv', OpInv, [Next]_pageVars
    PROVE  OpInv'
<1>1. page' = page /\ env' = env
  BY PageStays
<1>2. CASE page # "stacks"
  BY <1>1, <1>2, OpOffPage
<1>3. ASSUME page = "stacks", HostNext, UNCHANGED stackVars
      PROVE  OpInv'
  <2>1. SameTab /\ jobs' = jobs
    BY <1>3, HostOnStacks
  <2>2. QED
    BY <1>3, <2>1, OpStays DEF SameTab, stackVars
<1>4. ASSUME page = "stacks", StatusArrives
      PROVE  OpInv'
  <2>1. /\ UNCHANGED <<env, serverId, file, running, op>>
        /\ jobs' = jobs \/ jobs' = Opening(serverId)
    BY <1>4 DEF StatusArrives, HandleStatus, UnmountStacks, stackVars
  <2>2. /\ \A j \in Opening(serverId) : j \in jobs \/ j.session = 0
        /\ \A j \in jobs : j.act # "saved" => j \in Opening(serverId)
    BY Opened, PageAndCircumstances DEF BaseInv, Types, TabTypes
  <2>3. QED
    BY <2>1, <2>2, OpStays DEF Own, StackCommand
<1>5. ASSUME page = "stacks", NEW s \in Server, Walk(s)
      PROVE  OpInv'
  <2>1. /\ UNCHANGED <<env, file, running, op>> /\ jobs = {} /\ op.act = None
        /\ jobs' = Opening(s)
    BY <1>5 DEF Walk, GoTo, stackVars
  <2>2. \A j \in Opening(s) : j \in jobs \/ j.session = 0
    BY Opened, PageAndCircumstances DEF BaseInv, Types
  <2>3. QED
    BY <2>1, <2>2, OpStays DEF Own
<1>6. ASSUME Connections, UNCHANGED stackVars
      PROVE  OpInv'
  <2>1. /\ UNCHANGED <<env, serverId>>
        /\ \A j \in jobs' : j \in jobs \/ j.session = 0
        /\ env \cap {"agentLeaves", "readFails"} = {} => jobs \subseteq jobs'
    BY <1>6, ConnectionsKeep
  <2>2. QED
    BY <1>6, <2>1, OpStays DEF Own, stackVars
<1>7. CASE UNCHANGED pageVars
  BY <1>7, OpStays DEF pageVars, tabVars, stackVars
<1>8. QED
  BY <1>2, <1>3, <1>4, <1>5, <1>6, <1>7, Steps, OpStack

LEMMA OpInvariant == Spec => [](BaseInv /\ OpInv)
<1>1. Init => OpInv
  <2> SUFFICES ASSUME Init PROVE OpInv
    OBVIOUS
  <2>1. op = NoOp
    BY DEF Init, StackInit
  <2>2. \A j \in jobs : ~Own(j)
    <3>1. \A act, s : Job(act, s, None).session = 0
      BY DEF Job
    <3>2. QED
      BY <3>1 DEF Init, TabInit, Asking, Own
  <2>3. QED
    BY <2>1, <2>2 DEF OpInv, OpShape, OpJobs, OpWaits, OpTrue, NoOp
<1>2. BaseInv /\ BaseInv' /\ OpInv /\ [Next]_pageVars => OpInv'
  BY OpNext
<1>3. QED
  BY <1>1, <1>2, BaseInvariant, PTL DEF Spec

(* The modal of a deploy says that it succeeded only if the stack runs     *)
(* with the compose file that the page's row had when the button was       *)
(* pressed, whatever was saved before or since that the page has not       *)
(* fetched, and that of a stop if the stack is down; and as long as it says*)
(* that the operation runs, the answer that ends it is still to come.      *)
THEOREM OperationIsHonest == Spec => []OpHonest
<1>1. OpInv => OpHonest
  BY DEF OpInv, OpShape, OpWaits, OpTrue, OpJobs, OpHonest
<1>2. QED
  BY <1>1, OpInvariant, PTL


-----------------------------------------------------------------------------
(* What the page of stacks shows.                                          *)

LEMMA WatchedOnlineNext ==
    ASSUME BaseInv', StatusTells', Watched'
    PROVE  connected' /\ Mounted' /\ online'[serverId']
<1>1. feed' \in Seq({"online", "offline"}) /\ (online'[serverId'] <=> LastStatus' = "online")
  BY DEF BaseInv, Types, TabTypes, Links
<1>2. CASE feed' = <<>>
  BY <1>1, <1>2 DEF Watched, Mounted, LastStatus
<1>3. CASE feed' # <<>>
  <2>1. Len(feed') \in DOMAIN feed' /\ feed'[Len(feed')] \in {"online", "offline"}
    BY <1>1, <1>3
  <2>2. QED
    BY <1>1, <1>3, <2>1 DEF Watched, LastStatus
<1>4. QED
  BY <1>2, <1>3

Calm ==
    /\ env \cap {"listFails", "overtaken", "outside", "otherServer", "halfway"} = {}
    /\ StatusTells /\ page = "stacks"

Names == {n \in Item : running[serverId][n] # None}

(* What makes the page ask again: it does, or it will when it handles it.  *)
Asks(j) == j.act = "list" \/ (j.act \in StackCommand /\ j.at = "done")

ReadNames == Calm => \A j \in jobs : j.act = "list" /\ j.at = "read" => j.items = Names

ShowsNames == Calm /\ Watched => runningStacks = Names \/ \E j \in jobs : Asks(j)

ShowsSaved ==
    page = "stacks" /\ env \cap {"otherTab", "listFails"} = {} =>
        shown[serverId] = saved[serverId] \/ \E j \in jobs : j.act = "saved" /\ j.server = serverId

StacksInv == ReadNames /\ ShowsNames /\ ShowsSaved

(* Nothing is shown, saved or run.                                         *)
LEMMA ShownStays ==
    ASSUME StacksInv, UNCHANGED <<env, page, serverId, runningStacks, shown, saved>>,
           "outside" \notin env => running' = running,
           Calm => \A j \in jobs' : j \in jobs \/ j.at # "read",
           \A j \in jobs : j.act = "saved" => j \in jobs',
           Calm /\ Watched' => Watched /\ ((\E j \in jobs : Asks(j)) => \E j \in jobs' : Asks(j))
    PROVE  StacksInv'
<1>1. Calm' = Calm /\ (Calm => Names' = Names)
  BY DEF Calm, StatusTells, Alone, Names
<1>2. ReadNames'
  BY <1>1 DEF StacksInv, ReadNames
<1>3. ShowsNames'
  BY <1>1 DEF StacksInv, ShowsNames
<1>4. ShowsSaved'
  BY DEF StacksInv, ShowsSaved
<1>5. QED
  BY <1>2, <1>3, <1>4 DEF StacksInv

LEMMA CalmPlace ==
    ASSUME BaseInv, Calm
    PROVE  \A j \in jobs : j.server = serverId
BY DEF BaseInv, JobsInv, Fit, Placed, Near, Alone, Calm

LEMMA ShownCompose ==
    ASSUME BaseInv, StacksInv, NEW j \in jobs, Compose(j)
    PROVE  StacksInv'
<1>1. /\ UNCHANGED tabVars /\ UNCHANGED <<runningStacks, shown, saved>> /\ j \in Jobs
      /\ j.act \in StackCommand /\ j.at = "written" /\ Undisturbed(j.server)
  BY DEF Compose, BaseInv, JobsInv, Fit
<1>2. PICK a \in {"done", "failed"} :
         /\ jobs' = (jobs \ {j}) \cup {[j EXCEPT !.at = a]}
         /\ a = "failed" => running' = running \/ "halfway" \in env
  BY DEF Compose
<1>3. PICK k \in Jobs : k = [j EXCEPT !.at = a]
  BY <1>1, <1>2 DEF Jobs
<1>4. k.act = j.act /\ k.at = a /\ jobs' = (jobs \ {j}) \cup {k}
  BY <1>1, <1>2, <1>3 DEF Jobs
<1>5. UNCHANGED <<env, page, serverId>> /\ Calm' = Calm /\ Watched' = Watched
  BY <1>1 DEF tabVars, Calm, StatusTells, Alone, Watched, Mounted
<1>6. ReadNames'
  <2>1. Calm => \A w \in jobs : w.at # "read"
    BY <1>1, CalmPlace DEF Undisturbed, Calm
  <2>2. QED
    BY <1>2, <1>4, <1>5, <2>1 DEF ReadNames
<1>7. ShowsNames'
  <2>1. CASE a = "done"
    BY <1>1, <1>4, <1>5, <2>1 DEF ShowsNames, Asks
  <2>2. CASE a = "failed"
    <3>1. Calm => Names' = Names
      BY <1>2, <1>5, <2>2 DEF Calm, Names
    <3>2. ~Asks(j)
      BY <1>1 DEF Asks, StackCommand
    <3>3. QED
      BY <1>1, <1>4, <1>5, <3>1, <3>2 DEF StacksInv, ShowsNames
  <2>3. QED
    BY <2>1, <2>2
<1>8. ShowsSaved'
  BY <1>1, <1>4, <1>5 DEF StacksInv, ShowsSaved, StackCommand
<1>9. QED
  BY <1>6, <1>7, <1>8 DEF StacksInv

LEMMA ShownJob ==
    ASSUME BaseInv, StacksInv, NEW j \in jobs, StackJob(j)
    PROVE  StacksInv'
<1>1. /\ page = "stacks" /\ UNCHANGED <<env, page, serverId, connected, agentState, feed, online>>
      /\ j \in Jobs /\ serverId \in Server /\ Calm' = Calm /\ Watched' = Watched
  BY StackJobPage DEF tabVars, Calm, StatusTells, Alone, Watched, Mounted, BaseInv, Types, TabTypes
<1>2. CASE Write(j)
  <2>1. /\ UNCHANGED <<runningStacks, shown, saved, running>> /\ j.at = "asked" /\ j.act \in StackCommand
        /\ \E a \in {"written", "failed"} : jobs' = (jobs \ {j}) \cup {[j EXCEPT !.at = a]}
    BY <1>2 DEF Write, StackCommand
  <2>2. PICK k : jobs' = (jobs \ {j}) \cup {k} /\ k.at # "read"
    BY <1>1, <2>1 DEF Jobs
  <2>3. ~Asks(j) /\ j.act # "saved"
    BY <2>1 DEF Asks, StackCommand
  <2>4. QED
    BY <1>1, <2>1, <2>2, <2>3, ShownStays
<1>3. CASE \/ InvalidStack(j)
           \/ ReadRunning(j) /\ jobs' = jobs \ {j} /\ "listFails" \in env
  <2>1. /\ UNCHANGED <<runningStacks, shown, saved, running>> /\ jobs' = jobs \ {j}
        /\ j.at = "asked" /\ (j.act \in StackCommand \/ j.act = "list")
    BY <1>3 DEF InvalidStack, ReadRunning, stackVars
  <2>2. ASSUME Calm PROVE j.act \in StackCommand
    <3>1. "listFails" \notin env
      BY <2>2 DEF Calm
    <3>2. QED
      BY <1>3, <3>1 DEF InvalidStack
  <2>3. (Calm => ~Asks(j)) /\ j.act # "saved"
    BY <2>1, <2>2 DEF Asks, StackCommand
  <2>4. QED
    BY <1>1, <2>1, <2>3, ShownStays
<1>4. CASE ReadRunning(j) /\ ~(jobs' = jobs \ {j} /\ "listFails" \in env)
  <2> DEFINE k == [j EXCEPT !.at = "read", !.items = {n \in Item : running[j.server][n] # None}]
  <2>1. /\ jobs' = (jobs \ {j}) \cup {k} /\ j.act = "list"
        /\ UNCHANGED <<runningStacks, shown, saved, running>>
    BY <1>4 DEF ReadRunning, stackVars
  <2>2. k.act = "list" /\ (Calm => k.items = Names)
    BY <1>1, <2>1, CalmPlace DEF Jobs, Names
  <2> HIDE DEF k
  <2>3. ReadNames'
    BY <1>1, <2>1, <2>2 DEF StacksInv, ReadNames, Names
  <2>4. ShowsNames' /\ ShowsSaved'
    BY <1>1, <2>1, <2>2 DEF StacksInv, ShowsNames, ShowsSaved, Asks
  <2>5. QED
    BY <2>3, <2>4 DEF StacksInv
<1>5. CASE HandleStacks(j)
  <2>1. /\ jobs' = jobs \ {j} /\ j.act = "list" /\ j.at = "read" /\ runningStacks' = j.items
        /\ UNCHANGED <<shown, saved, running>>
    BY <1>5 DEF HandleStacks
  <2>2. ReadNames' /\ ShowsNames' /\ ShowsSaved'
    BY <1>1, <2>1 DEF StacksInv, ReadNames, ShowsNames, ShowsSaved, Names
  <2>3. QED
    BY <2>2 DEF StacksInv
<1>6. CASE FetchSaved(j)
  <2>1. /\ jobs' = jobs \ {j} /\ j.act = "saved"
        /\ shown' = [shown EXCEPT ![j.server] = saved[j.server]] \/ "listFails" \in env
        /\ UNCHANGED <<runningStacks, saved, running>>
    BY <1>6 DEF FetchSaved
  <2>2. ReadNames' /\ ShowsNames'
    BY <1>1, <2>1 DEF StacksInv, ReadNames, ShowsNames, Names, Asks, StackCommand
  <2>3. shown \in [Server -> Stored]
    BY DEF BaseInv, Types, StackTypeOK, Stored
  <2>4. ShowsSaved'
    BY <1>1, <2>1, <2>3 DEF StacksInv, ShowsSaved
  <2>5. QED
    BY <2>2, <2>4 DEF StacksInv
<1>7. CASE HandleDone(j)
  <2>1. /\ j.act \in StackCommand /\ j.at \in {"done", "failed"}
        /\ jobs' = (jobs \ {j}) \cup
                     (IF j.at = "done" /\ Mounted THEN Refresh({"list"}, serverId) ELSE {})
        /\ UNCHANGED <<runningStacks, shown, saved, running>>
    BY <1>7 DEF HandleDone
  <2>2. /\ \A w \in Refresh({"list"}, serverId) : w.at = "asked"
        /\ connected /\ online[serverId] => \E w \in Refresh({"list"}, serverId) : w.act = "list"
    BY <1>1, Refreshed
  <2>3. \A w \in jobs' : w \in jobs \/ w.at # "read"
    BY <2>1, <2>2
  <2>4. ASSUME Calm, Watched, NEW i \in jobs, Asks(i)
        PROVE  \E w \in jobs' : Asks(w)
    <3>1. CASE j.at = "done"
      BY <2>1, <2>2, <2>4, <3>1, WatchedOnline DEF Asks, Calm
    <3>2. CASE j.at # "done"
      BY <2>1, <2>4, <3>2 DEF Asks, StackCommand
    <3>3. QED
      BY <3>1, <3>2
  <2>5. \A w \in jobs : w.act = "saved" => w \in jobs'
    BY <2>1 DEF StackCommand
  <2>6. QED
    BY <1>1, <2>1, <2>3, <2>4, <2>5, ShownStays
<1>8. CASE ReadRunning(j)
  <2>1. CASE jobs' = jobs \ {j} /\ "listFails" \in env
    BY <1>3, <1>8, <2>1
  <2>2. CASE ~(jobs' = jobs \ {j} /\ "listFails" \in env)
    BY <1>4, <1>8, <2>2
  <2>3. QED
    BY <2>1, <2>2
<1>9. CASE InvalidStack(j)
  BY <1>3, <1>9
<1>10. QED
  BY <1>2, <1>5, <1>6, <1>7, <1>8, <1>9, ShownCompose DEF StackJob

LEMMA ShownStack ==
    ASSUME BaseInv, StacksInv, page = "stacks", StackNext
    PROVE  StacksInv'
<1>1. /\ UNCHANGED <<env, page, serverId, connected, agentState, feed>>
      /\ Calm' = Calm /\ Watched' = Watched
  BY StackSame DEF SameTab, Calm, StatusTells, Alone, Watched, Mounted
<1>2. ASSUME UNCHANGED <<jobs, runningStacks, shown, saved>>, "outside" \notin env => running' = running
      PROVE  StacksInv'
  BY <1>1, <1>2, ShownStays
<1>3. ASSUME NEW s \in Server, NEW n, Recreated(s) \/ ComposeByHand(s, n)
      PROVE  StacksInv'
  BY <1>2, <1>3 DEF Recreated, ComposeByHand
<1>4. ASSUME NEW n, OpenEditor(n)
      PROVE  StacksInv'
  BY <1>2, <1>4 DEF OpenEditor
<1>5. CASE CloseEditor \/ (\E y \in Yaml : Type(y)) \/ ClearOp
  BY <1>2, <1>5 DEF CloseEditor, Type, ClearOp
<1>6. ASSUME NEW n \in Item, OtherSaves(n)
      PROVE  StacksInv'
  <2>1. "otherTab" \in env /\ UNCHANGED <<jobs, runningStacks, running>>
    BY <1>6 DEF OtherSaves
  <2>2. ReadNames' /\ ShowsNames' /\ ShowsSaved'
    BY <1>1, <2>1 DEF StacksInv, ReadNames, ShowsNames, ShowsSaved, Names
  <2>3. QED
    BY <2>2 DEF StacksInv
<1>7. ASSUME NEW n \in Item, Save(n) \/ DeleteSaved(n)
      PROVE  StacksInv'
  <2>1. /\ UNCHANGED <<runningStacks, running>> /\ steps' \in {steps, steps + 1}
        /\ jobs' = Replacing(jobs, {"saved"}) \cup {Job("saved", serverId, None)}
    BY <1>7 DEF Save, DeleteSaved, Step
  <2>2. /\ \A j : j.act # "saved" => (j \in jobs' <=> j \in jobs)
        /\ \E j \in jobs' : j.act = "saved" /\ j.server = serverId'
    BY <1>1, <2>1, SavedAnew
  <2>3. ReadNames' /\ ShowsNames' /\ ShowsSaved'
    BY <1>1, <2>1, <2>2 DEF StacksInv, ReadNames, ShowsNames, ShowsSaved, Names, Asks, StackCommand
  <2>4. QED
    BY <2>3 DEF StacksInv
<1>8. ASSUME NEW n \in Item, NEW act \in StackCommand, PressStack(act, n)
      PROVE  StacksInv'
  <2>1. /\ UNCHANGED <<runningStacks, shown, saved, running>> /\ jobs \subseteq jobs'
        /\ \A j \in jobs' : j \in jobs \/ \E y : j = [MyJob(act, serverId, n) EXCEPT !.yaml = y]
    BY <1>8 DEF PressStack, Asked
  <2>2. \A y : [MyJob(act, serverId, n) EXCEPT !.yaml = y].at = "asked"
    BY DEF MyJob, Job
  <2>3. \A j \in jobs' : j \in jobs \/ j.at # "read"
    BY <2>1, <2>2
  <2>4. QED
    BY <1>1, <2>1, <2>3, ShownStays
<1>9. QED
  BY <1>3, <1>4, <1>5, <1>6, <1>7, <1>8, ShownJob DEF StackNext, StackJob

(* A page that opens asks for both lists.                                  *)
LEMMA ShownOpening ==
    ASSUME BaseInv, BaseInv', StacksInv, page = "stacks",
           UNCHANGED <<env, page, online, connected, runningStacks, shown, saved, running>>,
           serverId' = serverId \/ jobs = {}, serverId' \in Server, jobs' = Opening(serverId')
    PROVE  StacksInv'
<1> DEFINE s == serverId'
<1>1. /\ \A j \in Opening(s) : j \in jobs \/ j.at = "asked"
      /\ \E j \in Opening(s) : j.act = "saved" /\ j.server = s
      /\ connected /\ online[s] => \E j \in Opening(s) : j.act = "list"
  <2>1. \A r \in Server :
           /\ \A j \in Opening(r) : j \in jobs \/ j.at = "asked"
           /\ \E j \in Opening(r) : j.act = "saved" /\ j.server = r
           /\ connected /\ online[r] =>
                 \A act \in Questions(page) : \E j \in Opening(r) : j.act = act /\ j.server = r
    BY Opened, PageAndCircumstances DEF BaseInv, Types
  <2>2. "list" \in Questions(page)
    BY CommandPages
  <2>3. QED
    BY <2>1, <2>2
<1>2. Calm' = Calm /\ StatusTells' = StatusTells
  BY DEF Calm, StatusTells, Alone
<1>3. ReadNames'
  BY <1>1, <1>2 DEF StacksInv, ReadNames, Names
<1>4. ShowsNames'
  <2>1. Calm /\ Watched' => connected /\ online[s]
    BY <1>2, WatchedOnlineNext DEF Calm
  <2>2. QED
    BY <1>1, <1>2, <2>1 DEF ShowsNames, Asks
<1>5. ShowsSaved'
  BY <1>1 DEF ShowsSaved
<1>6. QED
  BY <1>3, <1>4, <1>5 DEF StacksInv

LEMMA ShownNext ==
    ASSUME BaseInv, BaseInv', StacksInv, [Next]_pageVars
    PROVE  StacksInv'
<1>1. CASE page # "stacks"
  BY <1>1, PageStays DEF StacksInv, ReadNames, ShowsNames, ShowsSaved, Calm
<1>2. ASSUME page = "stacks", HostNext, UNCHANGED stackVars
      PROVE  StacksInv'
  <2>1. SameTab /\ jobs' = jobs
    BY <1>2, HostOnStacks
  <2>2. Watched' = Watched
    BY <2>1 DEF SameTab, Watched, Mounted
  <2>3. QED
    BY <1>2, <2>1, <2>2, ShownStays DEF SameTab, stackVars
<1>3. ASSUME page = "stacks", StatusArrives
      PROVE  StacksInv'
  <2>1. /\ UNCHANGED <<env, page, online, connected, serverId, runningStacks, shown, saved, running>>
        /\ jobs' = jobs \/ jobs' = Opening(serverId)
    BY <1>3 DEF StatusArrives, HandleStatus, UnmountStacks, stackVars
  <2>2. CASE jobs' = Opening(serverId)
    <3>1. serverId \in Server
      BY DEF BaseInv, Types, TabTypes
    <3>2. QED
      BY <1>3, <2>1, <2>2, <3>1, ShownOpening
  <2>3. CASE jobs' = jobs /\ jobs' # Opening(serverId)
    <3>1. Watched' => Watched
      BY <1>3, <2>3, StatusKeeps
    <3>2. QED
      BY <2>1, <2>3, <3>1, ShownStays
  <2>4. QED
    BY <2>1, <2>2, <2>3
<1>4. ASSUME page = "stacks", NEW s \in Server, Walk(s)
      PROVE  StacksInv'
  <2>1. /\ UNCHANGED <<env, page, online, connected, runningStacks, shown, saved, running>>
        /\ serverId' = s /\ jobs = {} /\ jobs' = Opening(serverId')
    BY <1>4 DEF Walk, GoTo, stackVars
  <2>2. QED
    BY <1>4, <2>1, ShownOpening
<1>5. ASSUME page = "stacks", Connections, UNCHANGED stackVars
      PROVE  StacksInv'
  <2>1. /\ UNCHANGED <<env, page, serverId>>
        /\ StatusTells /\ Watched' =>
              Watched /\ \A j \in jobs : j.server = serverId => j \in jobs'
        /\ \A j \in jobs' : j \in jobs \/ j.at = "asked"
        /\ \A j \in jobs : j.act = "saved" => j \in jobs'
    BY <1>5, ConnectionsKeep
  <2>2. Calm /\ Watched' => Watched /\ \A j \in jobs : j \in jobs'
    BY <2>1, CalmPlace DEF Calm
  <2>3. QED
    BY <1>5, <2>1, <2>2, ShownStays DEF stackVars
<1>6. CASE UNCHANGED pageVars
  <2>1. /\ UNCHANGED <<env, page, serverId, runningStacks, shown, saved, running, jobs>>
        /\ Watched' = Watched
    BY <1>6 DEF pageVars, tabVars, stackVars, Watched, Mounted
  <2>2. QED
    BY <2>1, ShownStays
<1>7. QED
  BY <1>1, <1>2, <1>3, <1>4, <1>5, <1>6, Steps, ShownStack

LEMMA StacksInvariant == Spec => [](BaseInv /\ StacksInv)
<1>1. Init => StacksInv
  <2> SUFFICES ASSUME Init, page = "stacks" PROVE StacksInv
    BY DEF StacksInv, ReadNames, ShowsNames, ShowsSaved, Calm
  <2>1. jobs = Asking({"list", "saved"}, serverId)
    BY CommandPages DEF Init, TabInit
  <2>2. /\ \A act, s : /\ Job(act, s, None).at = "asked" /\ Job(act, s, None).act = act
                       /\ Job(act, s, None).server = s
        /\ \A act \in {"list", "saved"} : Job(act, serverId, None) \in jobs
    BY <2>1 DEF Job, Asking
  <2>3. \A j \in jobs : j.at = "asked"
    BY <2>1, <2>2 DEF Asking
  <2>4. ReadNames /\ ShowsNames /\ ShowsSaved
    BY <2>2, <2>3 DEF ReadNames, ShowsNames, ShowsSaved, Asks
  <2>5. QED
    BY <2>4 DEF StacksInv
<1>2. BaseInv /\ BaseInv' /\ StacksInv /\ [Next]_pageVars => StacksInv'
  BY ShownNext
<1>3. QED
  BY <1>1, <1>2, BaseInvariant, PTL DEF Spec

(* Once all answers came in, the page of stacks shows those that run and   *)
(* those that are saved, if no list and no query was refused: every deploy *)
(* and stop that changes what runs is followed by a list, and a page that  *)
(* comes back asks anew.                                                   *)
THEOREM StacksAreTrue == Spec => []StacksTrue
<1>1. BaseInv /\ StacksInv => StacksTrue
  <2> SUFFICES ASSUME BaseInv, StacksInv,
                      env \cap {"listFails", "overtaken", "outside", "otherServer", "halfway"} = {},
                      StatusTells, page = "stacks", Looking, jobs = {}
               PROVE  /\ runningStacks = {n \in Item : running[serverId][n] # None}
                      /\ "otherTab" \notin env => shown[serverId] = saved[serverId]
    BY DEF StacksTrue
  <2>1. Calm /\ Watched
    BY DEF Calm, Looking, Watched
  <2>2. QED
    BY <2>1 DEF StacksInv, ShowsNames, ShowsSaved, Names
<1>2. QED
  BY <1>1, StacksInvariant, PTL


-----------------------------------------------------------------------------
(* What the pages of images, networks and volumes show.                    *)

ListCalm ==
    /\ env \cap {"listFails", "overtaken", "outside", "otherServer", "slow", "hurries"} = {}
    /\ StatusTells
    /\ page # "stacks" /\ (page = "images" => "otherTab" \notin env)

(* What was read of a list is still so.                                    *)
RightRead(j) ==
    /\ j.at \in {"items", "read"} => j.items = Existing(serverId)
    /\ j.at \in {"use", "read"} => j.use = InUse(serverId)

ReadsTrue == \A j \in jobs : RightRead(j)

(* A pull or a removal was asked for with a timer, and that is not slow.   *)
TimersWait ==
    \A j \in jobs : j.act \in {"pull", "rmi"} /\ j.at = "asked" => \E t \in timers : t.id = j.session

(* The rows that the page will take out when it handles the answer.        *)
Removes(j) == j.act \in {"rmnet", "rmvol"} /\ j.at = "done"
Removed == {i \in Item : \E j \in jobs : Removes(j) /\ j.item = i}

Gone == IF page = "volumes" THEN "absent" ELSE "gone"
RemovedGone == \A i \in Removed : host[serverId][i] = Gone

(* What makes the page ask again: a timer, or what it has not handled.     *)
Announces(j, act) == j.act = act \/ (j.act \in {"prune", "build", "create"} /\ j.at = "done")
Pending(act) == timers # {} \/ \E j \in jobs : Announces(j, act)

ShowsRows ==
    \/ Pending("list")
    \/ list.items \ Removed = Existing(serverId) /\ list.use \ Removed = InUse(serverId)

ShowsDangling ==
    page = "images" => Pending("dangling") \/ dangling = Existing(serverId) \ InUse(serverId)

ListInv ==
    ListCalm => /\ ReadsTrue /\ TimersWait /\ RemovedGone
                /\ Watched => ShowsRows /\ ShowsDangling

LEMMA ListPlace ==
    ASSUME BaseInv, ListCalm
    PROVE  \A j \in jobs : j.server = serverId
BY DEF BaseInv, JobsInv, Fit, Placed, Near, Alone, StatusTells, ListCalm

LEMMA ListQuestions ==
    ASSUME BaseInv, page # "stacks"
    PROVE  /\ "list" \in Questions(page) /\ (page = "images" => "dangling" \in Questions(page))
           /\ Questions(page) \subseteq {"list", "dangling"}
BY PageAndCircumstances, CommandPages DEF BaseInv, Types, Page

(* Nothing is shown and nothing happens to the host.                       *)
LEMMA RowsStay ==
    ASSUME BaseInv, ListInv, UNCHANGED <<env, page, serverId, list, dangling, host>>,
           \A j \in jobs' : j \in jobs \/ j.at \notin {"items", "use", "read", "done"},
           ListCalm /\ TimersWait => TimersWait',
           ListCalm /\ Watched' =>
              /\ Watched
              /\ \A j \in jobs : Removes(j) => j \in jobs'
              /\ \A act \in Questions(page) : Pending(act) => Pending(act)'
    PROVE  ListInv'
<1>1. ListCalm' = ListCalm
  BY DEF ListCalm, StatusTells, Alone
<1> SUFFICES ASSUME ListCalm
             PROVE  /\ ReadsTrue' /\ TimersWait' /\ RemovedGone'
                    /\ Watched' => ShowsRows' /\ ShowsDangling'
  BY <1>1 DEF ListInv
<1>2. ReadsTrue /\ TimersWait /\ RemovedGone /\ (Watched => ShowsRows /\ ShowsDangling)
  BY DEF ListInv
<1>3. Existing(serverId)' = Existing(serverId) /\ InUse(serverId)' = InUse(serverId)
  BY DEF Existing, InUse
<1>4. ReadsTrue'
  BY <1>2, <1>3 DEF ReadsTrue, RightRead
<1>5. \A j \in jobs' : Removes(j) => j \in jobs
  BY DEF Removes
<1>6. Removed' \subseteq Removed
  BY <1>5 DEF Removed
<1>7. RemovedGone'
  BY <1>2, <1>6 DEF RemovedGone, Gone
<1>8. ASSUME Watched'
      PROVE  ShowsRows' /\ ShowsDangling'
  <2>1. Removed' = Removed
    BY <1>6, <1>8 DEF Removed
  <2>2. ShowsRows'
    BY <1>2, <1>3, <1>8, <2>1, ListQuestions DEF ShowsRows, ListCalm
  <2>3. ShowsDangling'
    BY <1>2, <1>3, <1>8, ListQuestions DEF ShowsDangling, ListCalm
  <2>4. QED
    BY <2>2, <2>3
<1>9. QED
  BY <1>2, <1>4, <1>7, <1>8

(* The agent carries out a command: it is announced, or it removes a row   *)
(* that the page takes out itself.                                         *)
LEMMA ListExecute ==
    ASSUME BaseInv, ListInv, NEW j \in jobs, Execute(j)
    PROVE  ListInv'
<1>1. /\ UNCHANGED tabVars /\ UNCHANGED <<list, dangling, timers>> /\ page \in Page
      /\ Fit(j) /\ j \in Jobs /\ j.act \in HostCommand /\ j.at = "asked" /\ Undisturbed(j.server)
      /\ serverId \in Server /\ host \in [Server -> [Item -> Use]]
  BY PageAndCircumstances DEF Execute, stores, BaseInv, Types, TabTypes, HostTypeOK, JobsInv, Fit
<1>2. /\ UNCHANGED <<env, page, serverId>> /\ ListCalm' = ListCalm /\ Watched' = Watched
  BY <1>1 DEF tabVars, ListCalm, StatusTells, Alone, Watched, Mounted
<1>3. j.item \in Item /\ j.act \in CommandsOf(page)
  BY <1>1, CommandPages DEF Fit, Shape, Acts, Page, HostCommand, StackCommand
<1> SUFFICES ASSUME ListCalm
             PROVE  /\ ReadsTrue' /\ TimersWait' /\ RemovedGone'
                    /\ Watched' => ShowsRows' /\ ShowsDangling'
  BY <1>2 DEF ListInv
<1>4. /\ ReadsTrue /\ TimersWait /\ RemovedGone /\ (Watched => ShowsRows /\ ShowsDangling)
      /\ j.server = serverId /\ \A w \in jobs : w.at \notin {"items", "use", "read"}
  BY <1>1, ListPlace DEF ListInv, ListCalm, Undisturbed
<1>5. PICK k \in Jobs : k = [j EXCEPT !.at = "done"]
  BY <1>1 DEF Jobs
<1>6. k.act = j.act /\ k.item = j.item /\ k.at = "done" /\ jobs' = (jobs \ {j}) \cup {k}
  BY <1>1, <1>5 DEF Jobs, Execute
<1>7. PICK h \in Effects(j.act, j.item, host[serverId]) : host' = [host EXCEPT ![serverId] = h]
  BY <1>4 DEF Execute
<1>8. host'[serverId] = h
  BY <1>1, <1>7
<1>9. ReadsTrue' /\ TimersWait'
  BY <1>1, <1>2, <1>4, <1>6 DEF ReadsTrue, RightRead, TimersWait
<1>10. ASSUME k.act \in {"prune", "build", "create"} \/ timers # {}, NEW act
       PROVE  Pending(act)'
  BY <1>1, <1>6, <1>10 DEF Pending, Announces
<1>11. \A act \in {"list", "dangling"} : Pending(act) => Pending(act)'
  BY <1>1, <1>6 DEF Pending, Announces, HostCommand
<1>12. /\ \A i \in Removed' : i \in Removed \/ (i = j.item /\ j.act \in {"rmnet", "rmvol"})
       /\ j.act \in {"rmnet", "rmvol"} => Removed' = Removed \cup {j.item}
  BY <1>1, <1>3, <1>6 DEF Removed, Removes
<1>13. CASE page = "images"
  <2>1. j.act \in {"pull", "rmi", "prune", "build"}
    BY <1>3, <1>13, CommandPages
  <2>2. j.act \in {"pull", "rmi"} => timers # {}
    BY <1>1, <1>4 DEF TimersWait
  <2>3. \A act : Pending(act)'
    BY <1>6, <1>10, <2>1, <2>2
  <2>4. Removed' = {}
    <3>1. \A w \in jobs : w.act \notin {"rmnet", "rmvol"}
      BY <1>13, CommandPages DEF BaseInv, JobsInv, Fit, Shape, Acts
    <3>2. QED
      BY <3>1, <1>12, <2>1 DEF Removed, Removes
  <2>5. QED
    BY <1>9, <2>3, <2>4 DEF RemovedGone, ShowsRows, ShowsDangling
<1>14. ASSUME page # "images", j.act \in {"rmnet", "rmvol"},
              host[serverId][j.item] # "used", h = [host[serverId] EXCEPT ![j.item] = Gone]
       PROVE  /\ RemovedGone'
              /\ Watched' => ShowsRows' /\ ShowsDangling'
  <2>1. /\ h[j.item] = Gone /\ Gone' = Gone /\ Gone \in {"absent", "gone"}
        /\ \A i \in Item : i # j.item => h[i] = host[serverId][i]
    BY <1>1, <1>2, <1>3, <1>14 DEF Gone
  <2>2. /\ Existing(serverId)' = Existing(serverId) \ {j.item}
        /\ InUse(serverId)' = InUse(serverId) /\ j.item \notin InUse(serverId)
    BY <1>2, <1>3, <1>8, <1>14, <2>1 DEF Existing, InUse
  <2>3. RemovedGone'
    BY <1>2, <1>4, <1>8, <1>12, <1>14, <2>1 DEF RemovedGone, Removed
  <2>4. Watched => ShowsRows'
    <3>1. CASE Pending("list")
      BY <1>11, <3>1 DEF ShowsRows
    <3>2. CASE ~Pending("list") /\ Watched
      <4>1. list.items \ Removed = Existing(serverId) /\ list.use \ Removed = InUse(serverId)
        BY <1>4, <3>2 DEF ShowsRows
      <4>2. Removed' = Removed \cup {j.item}
        BY <1>12, <1>14
      <4>3. list'.items \ Removed' = Existing(serverId)' /\ list'.use \ Removed' = InUse(serverId)'
        BY <1>1, <2>2, <4>1, <4>2
      <4>4. QED
        BY <1>2, <4>3 DEF ShowsRows
    <3>3. QED
      BY <3>1, <3>2
  <2>5. ShowsDangling'
    BY <1>2, <1>14 DEF ShowsDangling
  <2>6. QED
    BY <1>2, <2>3, <2>4, <2>5
<1>15. CASE page = "networks"
  <2>1. j.act \in CommandsOf("networks")
    BY <1>3, <1>15
  <2>2. CASE j.act = "create" /\ host[serverId][j.item] = "absent"
                /\ h = [host[serverId] EXCEPT ![j.item] = "free"]
    <3>1. Pending("list")'
      BY <1>6, <1>10, <2>2
    <3>2. \A i \in Removed' : i \in Removed
      BY <1>12, <2>2
    <3>3. RemovedGone'
      <4>1. Gone = "gone" /\ Gone' = Gone
        BY <1>2, <1>15 DEF Gone
      <4>2. \A i \in Removed : i # j.item
        BY <1>4, <2>2, <4>1 DEF RemovedGone
      <4>3. \A i \in Removed : h[i] = host[serverId][i]
        BY <1>1, <1>3, <2>2, <4>2 DEF Removed
      <4>4. QED
        BY <1>2, <1>4, <1>8, <3>2, <4>1, <4>3 DEF RemovedGone
    <3>4. QED
      BY <1>2, <1>9, <1>15, <3>1, <3>3 DEF ShowsRows, ShowsDangling
  <2>3. CASE j.act = "rmnet" /\ host[serverId][j.item] = "free"
                /\ h = [host[serverId] EXCEPT ![j.item] = "gone"]
    BY <1>9, <1>14, <1>15, <2>3 DEF Gone
  <2>4. QED
    BY <1>7, <2>1, <2>2, <2>3, NetworkChange
<1>16. CASE page = "volumes"
  <2>1. j.act = "rmvol" /\ h \in VolumeEffects(j.item, host[serverId])
    BY <1>3, <1>7, <1>16, CommandPages DEF Effects
  <2>2. host[serverId][j.item] # "used" /\ h = [host[serverId] EXCEPT ![j.item] = "absent"]
    BY <2>1 DEF VolumeEffects
  <2>3. QED
    BY <1>9, <1>14, <1>16, <2>1, <2>2 DEF Gone
<1>17. QED
  BY <1>1, <1>13, <1>15, <1>16 DEF ListCalm, Page


LEMMA ListRead ==
    ASSUME BaseInv, ListInv, NEW j \in jobs, ReadItems(j) \/ ReadUse(j)
    PROVE  ListInv'
<1>1. /\ UNCHANGED tabVars /\ UNCHANGED hostVars /\ j \in Jobs /\ j.act \in ImageQuestions
      /\ UNCHANGED <<env, page, serverId, list, dangling, host, timers>>
      /\ ListCalm' = ListCalm /\ Watched' = Watched
  BY DEF ReadItems, ReadUse, hostVars, stores, tabVars, BaseInv, JobsInv, Fit, ListCalm, StatusTells, Alone,
         Watched, Mounted, ImageQuestions
<1>2. \E k \in Jobs : /\ jobs' = (jobs \ {j}) \cup {k} /\ k.act = j.act
                      /\ ListCalm => RightRead(k)
  <2>1. ListCalm => j.server = serverId /\ RightRead(j)
    BY ListPlace DEF ListInv, ReadsTrue
  <2>2. Existing(j.server) \in SUBSET Item /\ InUse(j.server) \in SUBSET Item
    BY DEF Existing, InUse
  <2>3. CASE ReadItems(j) /\ page = "volumes"
    <3> DEFINE k == [j EXCEPT !.items = Existing(j.server), !.at = IF @ = "use" THEN "read" ELSE "items"]
    <3>1. /\ k \in Jobs /\ k.act = j.act /\ k.items = Existing(j.server) /\ k.use = j.use
          /\ k.at = IF j.at = "use" THEN "read" ELSE "items"
      BY <1>1, <2>2 DEF Jobs
    <3>2. jobs' = (jobs \ {j}) \cup {k}
      BY <2>3 DEF ReadItems
    <3> HIDE DEF k
    <3>3. ListCalm => RightRead(k)
      BY <2>1, <3>1 DEF RightRead
    <3>4. QED
      BY <3>1, <3>2, <3>3
  <2>4. CASE ReadItems(j) /\ page # "volumes"
    <3> DEFINE k == [j EXCEPT !.items = Existing(j.server), !.use = InUse(j.server), !.at = "read"]
    <3>1. k \in Jobs /\ k.act = j.act /\ k.items = Existing(j.server) /\ k.use = InUse(j.server)
      BY <1>1, <2>2 DEF Jobs
    <3>2. jobs' = (jobs \ {j}) \cup {k}
      BY <2>4 DEF ReadItems
    <3> HIDE DEF k
    <3>3. ListCalm => RightRead(k)
      BY <2>1, <3>1 DEF RightRead
    <3>4. QED
      BY <3>1, <3>2, <3>3
  <2>5. CASE ReadUse(j)
    <3> DEFINE k == [j EXCEPT !.use = InUse(j.server), !.at = IF @ = "items" THEN "read" ELSE "use"]
    <3>1. /\ k \in Jobs /\ k.act = j.act /\ k.items = j.items /\ k.use = InUse(j.server)
          /\ k.at = IF j.at = "items" THEN "read" ELSE "use"
      BY <1>1, <2>2 DEF Jobs
    <3>2. jobs' = (jobs \ {j}) \cup {k}
      BY <2>5 DEF ReadUse
    <3> HIDE DEF k
    <3>3. ListCalm => RightRead(k)
      BY <2>1, <3>1 DEF RightRead
    <3>4. QED
      BY <3>1, <3>2, <3>3
  <2>6. QED
    BY <2>3, <2>4, <2>5
<1>3. PICK k \in Jobs : /\ jobs' = (jobs \ {j}) \cup {k} /\ k.act = j.act
                        /\ ListCalm => RightRead(k)
  BY <1>2
<1>4. Existing(serverId)' = Existing(serverId) /\ InUse(serverId)' = InUse(serverId) /\ Gone' = Gone
  BY <1>1 DEF Existing, InUse, Gone
<1>5. Removed' = Removed /\ \A act : Pending(act) => Pending(act)'
  BY <1>1, <1>3 DEF Removed, Removes, Pending, Announces, ImageQuestions
<1>6. ListCalm => ReadsTrue' /\ TimersWait' /\ RemovedGone'
  BY <1>1, <1>3, <1>4, <1>5
     DEF ListInv, ReadsTrue, RightRead, TimersWait, RemovedGone, ImageQuestions
<1>7. ListCalm /\ Watched => ShowsRows' /\ ShowsDangling'
  BY <1>1, <1>4, <1>5 DEF ListInv, ShowsRows, ShowsDangling
<1>8. QED
  BY <1>1, <1>6, <1>7 DEF ListInv

LEMMA ListHandle ==
    ASSUME BaseInv, ListInv, NEW j \in jobs, HandleList(j)
    PROVE  ListInv'
<1>1. /\ UNCHANGED tabVars /\ jobs' = jobs \ {j} /\ j \in Jobs /\ j.at = "read"
      /\ j.act \in {"list", "dangling"}
      /\ UNCHANGED <<env, page, serverId, host, timers>>
      /\ ListCalm' = ListCalm /\ Watched' = Watched
      /\ j.act = "list" => list' = [items |-> j.items, use |-> j.use \cap j.items] /\ dangling' = dangling
      /\ j.act = "dangling" => dangling' = j.items \ j.use /\ list' = list
  BY DEF HandleList, tabVars, BaseInv, JobsInv, Fit, ListCalm, StatusTells, Alone,
         Watched, Mounted, ImageQuestions
<1> SUFFICES ASSUME ListCalm
             PROVE  /\ ReadsTrue' /\ TimersWait' /\ RemovedGone'
                    /\ Watched' => ShowsRows' /\ ShowsDangling'
  BY <1>1 DEF ListInv
<1>2. /\ ReadsTrue /\ TimersWait /\ RemovedGone /\ (Watched => ShowsRows /\ ShowsDangling)
      /\ j.items = Existing(serverId) /\ j.use = InUse(serverId)
  BY <1>1 DEF ListInv, ReadsTrue, RightRead
<1>3. Existing(serverId)' = Existing(serverId) /\ InUse(serverId)' = InUse(serverId) /\ Gone' = Gone
  BY <1>1 DEF Existing, InUse, Gone
<1>4. Removed' = Removed
  BY <1>1 DEF Removed, Removes
<1>5. ReadsTrue' /\ TimersWait' /\ RemovedGone'
  BY <1>1, <1>2, <1>3, <1>4 DEF ReadsTrue, RightRead, TimersWait, RemovedGone
<1>6. \A act : act # j.act /\ Pending(act) => Pending(act)'
  BY <1>1 DEF Pending, Announces
<1>7. CASE j.act = "list"
  <2>1. \A i \in Removed : i \notin Existing(serverId) /\ i \notin InUse(serverId)
    BY <1>2 DEF RemovedGone, Gone, Existing, InUse
  <2>2. InUse(serverId) \subseteq Existing(serverId)
    BY DEF Existing, InUse
  <2>3. list'.items \ Removed = Existing(serverId) /\ list'.use \ Removed = InUse(serverId)
    BY <1>1, <1>2, <1>7, <2>1, <2>2
  <2>4. ShowsRows'
    BY <1>3, <1>4, <2>3 DEF ShowsRows
  <2>5. Watched => ShowsDangling'
    BY <1>1, <1>2, <1>3, <1>6, <1>7 DEF ShowsDangling
  <2>6. QED
    BY <1>1, <1>5, <2>4, <2>5
<1>8. CASE j.act = "dangling"
  <2>1. ShowsDangling'
    BY <1>1, <1>2, <1>3, <1>8 DEF ShowsDangling
  <2>2. Watched => ShowsRows'
    BY <1>1, <1>2, <1>3, <1>4, <1>6, <1>8 DEF ShowsRows
  <2>3. QED
    BY <1>1, <1>5, <2>1, <2>2
<1>9. QED
  BY <1>1, <1>7, <1>8

(* An answer: the row is taken out, or the page asks again.                *)
LEMMA ListResult ==
    ASSUME BaseInv, ListInv, NEW j \in jobs, HandleResult(j)
    PROVE  ListInv'
<1>1. /\ UNCHANGED tabVars /\ UNCHANGED <<host, dangling, timers>>
      /\ UNCHANGED <<env, page, serverId>> /\ page \in Page /\ serverId \in Server
      /\ Fit(j) /\ j.act \in HostCommand /\ j.at \in {"done", "failed"}
      /\ jobs' = (jobs \ {j}) \cup Refresh(AsksAgain(j), serverId) /\ list' = WithoutRow(j)
      /\ ListCalm' = ListCalm /\ Watched' = Watched
  BY PageAndCircumstances DEF HandleResult, tabVars, BaseInv, Types, TabTypes, JobsInv, Fit, ListCalm,
     StatusTells, Watched, Mounted
<1>2. j.act \in CommandsOf(page) /\ (j.at = "failed" => j.act = "build")
  BY <1>1, CommandPages DEF Fit, Shape, Acts, Page, HostCommand, StackCommand
<1>3. CASE j.act \in {"rmnet", "rmvol"}
  <2>1. AsksAgain(j) = {} /\ jobs' = jobs \ {j}
    <3>1. AsksAgain(j) = {}
      BY <1>3 DEF AsksAgain
    <3>2. Refresh({}, serverId) = {}
      BY DEF Refresh, Asked, Asking
    <3>3. QED
      BY <1>1, <3>1, <3>2
  <2> SUFFICES ASSUME ListCalm
               PROVE  /\ ReadsTrue' /\ TimersWait' /\ RemovedGone'
                      /\ Watched' => ShowsRows' /\ ShowsDangling'
    BY <1>1 DEF ListInv
  <2>2. /\ ReadsTrue /\ TimersWait /\ RemovedGone /\ (Watched => ShowsRows /\ ShowsDangling)
        /\ j.server = serverId
    BY <1>1, ListPlace DEF ListInv
  <2>3. Existing(serverId)' = Existing(serverId) /\ InUse(serverId)' = InUse(serverId) /\ Gone' = Gone
    BY <1>1 DEF Existing, InUse, Gone
  <2>4. list' = [items |-> list.items \ {j.item}, use |-> list.use \ {j.item}]
    BY <1>1, <1>3, <2>2 DEF WithoutRow
  <2>5. Removes(j) /\ j.item \in Item
    BY <1>1, <1>2, <1>3 DEF Removes, Fit, Shape
  <2>6. Removed' \subseteq Removed /\ Removed \subseteq Removed' \cup {j.item} /\ j.item \in Removed
    BY <2>1, <2>5 DEF Removed
  <2>7. ReadsTrue' /\ TimersWait' /\ RemovedGone'
    BY <1>1, <2>1, <2>2, <2>3, <2>6 DEF ReadsTrue, RightRead, TimersWait, RemovedGone
  <2>8. \A act \in {"list", "dangling"} : Pending(act) => Pending(act)'
    BY <1>1, <1>3, <2>1 DEF Pending, Announces
  <2>9. list'.items \ Removed' = list.items \ Removed /\ list'.use \ Removed' = list.use \ Removed
    BY <2>4, <2>6
  <2>10. Watched => ShowsRows' /\ ShowsDangling'
    BY <1>1, <2>2, <2>3, <2>8, <2>9 DEF ShowsRows, ShowsDangling
  <2>11. QED
    BY <1>1, <2>7, <2>10
<1>4. CASE j.act \notin {"rmnet", "rmvol"}
  <2>1. list' = list
    BY <1>1, <1>4 DEF WithoutRow
  <2>2. AsksAgain(j) \in SUBSET {"list", "dangling", "saved"}
    BY DEF AsksAgain, ImageQuestions
  <2>3. /\ \A w \in Refresh(AsksAgain(j), serverId) : w.act \in {"list", "dangling", "saved"} /\ w.at = "asked"
        /\ connected /\ online[serverId] =>
              \A act \in AsksAgain(j) : \E w \in Refresh(AsksAgain(j), serverId) : w.act = act
    BY <1>1, <2>2, Refreshed
  <2>4. \A w \in jobs' : w \in jobs \/ w.at \notin {"items", "use", "read", "done"}
    BY <1>1, <2>3
  <2>5. TimersWait => TimersWait'
    BY <1>1, <2>3 DEF TimersWait
  <2>6. ASSUME ListCalm, Watched, NEW act \in Questions(page), Pending(act)
        PROVE  Pending(act)'
    <3>1. CASE j.act \in {"prune", "build", "create"} /\ j.at = "done"
      <4>1. connected /\ Mounted /\ online[serverId]
        BY <2>6, WatchedOnline DEF ListCalm
      <4>2. Questions(page) \subseteq AsksAgain(j)
        BY <1>1, <1>2, <3>1, <4>1, CommandPages DEF AsksAgain, ImageQuestions, Page
      <4>3. \E w \in jobs' : w.act = act
        BY <1>1, <2>3, <2>6, <4>1, <4>2
      <4>4. QED
        BY <4>3 DEF Pending, Announces
    <3>2. CASE ~(j.act \in {"prune", "build", "create"} /\ j.at = "done")
      <4>1. act \in {"list", "dangling"}
        BY <2>6, ListQuestions DEF ListCalm
      <4>2. ~Announces(j, act)
        BY <1>1, <3>2, <4>1 DEF Announces, HostCommand
      <4>3. QED
        BY <1>1, <2>6, <4>2 DEF Pending
    <3>3. QED
      BY <3>1, <3>2
  <2>7. \A w \in jobs : Removes(w) => w \in jobs'
    BY <1>1, <1>4 DEF Removes
  <2>8. QED
    BY <1>1, <2>1, <2>4, <2>5, <2>6, <2>7, RowsStay
<1>5. QED
  BY <1>3, <1>4


(* Commands that are refused, asked for, or timed.                         *)
LEMMA ListRefused ==
    ASSUME BaseInv, ListInv, NEW j \in jobs, Fail(j) \/ Invalid(j)
    PROVE  ListInv'
<1>1. /\ UNCHANGED <<env, page, serverId, list, dangling, host, timers>> /\ Watched' = Watched
      /\ j \in Jobs /\ jobs \ {j} \subseteq jobs'
      /\ \A k \in jobs' : k \in jobs \/ k = [j EXCEPT !.at = "failed"]
  BY DEF Fail, Invalid, tabVars, hostVars, stores, Watched, Mounted, BaseInv, JobsInv, Fit
<1>2. PICK k \in Jobs : k = [j EXCEPT !.at = "failed"]
  BY <1>1 DEF Jobs
<1>3. k.at = "failed" /\ \A w \in jobs' : w \in jobs \/ w.at = "failed"
  BY <1>1, <1>2 DEF Jobs
<1>4. TimersWait => TimersWait'
  BY <1>1, <1>3 DEF TimersWait
<1>5. ASSUME ListCalm PROVE ~Removes(j) /\ \A act \in {"list", "dangling"} : ~Announces(j, act)
  <2>1. j.act \in HostCommand /\ j.at = "asked"
    BY <1>5 DEF Fail, Invalid, ListCalm
  <2>2. QED
    BY <2>1 DEF Removes, Announces, HostCommand
<1>6. ListCalm => \A act \in {"list", "dangling"} : Pending(act) => Pending(act)'
  BY <1>1, <1>5 DEF Pending
<1>7. QED
  BY <1>1, <1>3, <1>4, <1>5, <1>6, RowsStay, ListQuestions DEF ListCalm

LEMMA ListPress ==
    ASSUME BaseInv, ListInv, NEW i \in Item, NEW act \in HostCommand,
           PressHost(act, i) \/ (StartBuild(i) /\ act = "build")
    PROVE  ListInv'
<1>1. page \in Page /\ Types /\ serverId \in Server
  BY PageAndCircumstances DEF BaseInv, Types, TabTypes
<1>2. /\ SameTab /\ Step /\ UNCHANGED <<host, list, dangling>>
      /\ jobs' = jobs \cup Asked({MyJob(act, serverId, i)})
  BY DEF PressHost, StartBuild, SameTab, stores, pageState
<1>3. steps \in Nat /\ steps' = steps + 1 /\ steps + 1 \in 0..MaxSteps
  BY <1>1, <1>2, TabTypesStay DEF Types, SameTab
<1>4. PICK m \in Jobs : /\ m = MyJob(act, serverId, i) /\ m.act = act /\ m.server = serverId
                        /\ m.item = i /\ m.session = steps + 1 /\ m.at = "asked"
  BY <1>1, <1>3, NewMine
<1>5. jobs \subseteq jobs' /\ \A j \in jobs' : j \in jobs \/ j = m
  BY <1>2, <1>4 DEF Asked
<1>6. timers \subseteq timers' /\ (act \in {"pull", "rmi"} => \E t \in timers' : t.id = steps + 1)
  <2>1. CASE StartBuild(i) /\ act = "build"
    BY <2>1 DEF StartBuild
  <2>2. CASE PressHost(act, i)
    <3>1. timers' = timers \cup
             {[kind |-> k, server |-> serverId, id |-> steps + 1, live |-> TRUE] :
                 k \in CASE act = "pull" -> {"pull"} [] act = "rmi" -> {"remove"} [] OTHER -> {}}
      BY <2>2 DEF PressHost
    <3>2. \A k : [kind |-> k, server |-> serverId, id |-> steps + 1, live |-> TRUE].id = steps + 1
      OBVIOUS
    <3>3. \A k \in CASE act = "pull" -> {"pull"} [] act = "rmi" -> {"remove"} [] OTHER -> {} :
             [kind |-> k, server |-> serverId, id |-> steps + 1, live |-> TRUE] \in timers'
      BY <3>1
    <3>4. act \in {"pull", "rmi"} =>
             \E k : k \in CASE act = "pull" -> {"pull"} [] act = "rmi" -> {"remove"} [] OTHER -> {}
      OBVIOUS
    <3>5. QED
      BY <3>1, <3>2, <3>3, <3>4
  <2>3. QED
    BY <2>1, <2>2
<1>7. TimersWait => TimersWait'
  BY <1>4, <1>5, <1>6 DEF TimersWait
<1>8. \A a : Pending(a) => Pending(a)'
  BY <1>5, <1>6 DEF Pending
<1>9. Watched' = Watched
  BY <1>2 DEF SameTab, Watched, Mounted
<1>10. QED
  BY <1>2, <1>4, <1>5, <1>7, <1>8, <1>9, RowsStay DEF SameTab

LEMMA ListTimer ==
    ASSUME BaseInv, ListInv, NEW t \in timers, TimerFires(t)
    PROVE  ListInv'
<1>1. /\ UNCHANGED <<env, page, serverId, list, dangling, host>> /\ Watched' = Watched
      /\ jobs' = jobs \cup Refresh(ImageQuestions, t.server) /\ timers' = timers \ {t}
      /\ "slow" \in env \/ \A j \in jobs : j.session = t.id => j.at # "asked"
      /\ t.server \in Server /\ page = "images"
      /\ "hurries" \notin env => t.server = serverId
  BY DEF TimerFires, tabVars, stores, Watched, Mounted, BaseInv, Types, HostTypeOK, Apart
<1>2. /\ \A j \in Refresh(ImageQuestions, t.server) : j.act \in ImageQuestions /\ j.at = "asked"
      /\ connected /\ online[t.server] =>
            \A act \in ImageQuestions : \E j \in Refresh(ImageQuestions, t.server) : j.act = act
  BY <1>1, Refreshed DEF ImageQuestions
<1>3. ListCalm /\ TimersWait => TimersWait'
  BY <1>1, <1>2 DEF ListCalm, TimersWait, ImageQuestions
<1>4. ASSUME ListCalm, Watched, NEW act \in Questions(page)
      PROVE  Pending(act)'
  <2>1. connected /\ online[t.server]
    BY <1>1, <1>4, WatchedOnline DEF ListCalm
  <2>2. act \in ImageQuestions
    BY <1>1, <1>4, CommandPages DEF ImageQuestions
  <2>3. QED
    BY <1>1, <1>2, <2>1, <2>2 DEF Pending, Announces
<1>5. \A j \in jobs' : j \in jobs \/ j.at = "asked"
  BY <1>1, <1>2
<1>6. QED
  BY <1>1, <1>3, <1>4, <1>5, RowsStay

LEMMA ListHost ==
    ASSUME BaseInv, ListInv, HostNext
    PROVE  ListInv'
<1>1. ASSUME NEW s \in Server, NEW i \in Item, ByHand(s, i)
      PROVE  ListInv'
  BY <1>1 DEF ByHand, ListInv, ListCalm
<1>2. CASE OpenBuild \/ CloseBuild
  <2>1. UNCHANGED <<env, page, serverId, connected, agentState, feed, jobs, host, list, dangling, timers>>
    BY <1>2 DEF OpenBuild, CloseBuild, tabVars, stores
  <2>2. /\ (TimersWait => TimersWait') /\ Watched' = Watched
        /\ \A act : Pending(act) => Pending(act)'
    BY <2>1 DEF TimersWait, Watched, Mounted, Pending
  <2>3. QED
    BY <2>1, <2>2, RowsStay
<1>3. ASSUME NEW i \in Item, StartBuild(i)
      PROVE  ListInv'
  BY <1>3, ListPress DEF HostCommand
<1>4. QED
  BY <1>1, <1>2, <1>3, ListExecute, ListRefused, ListRead, ListHandle, ListResult, ListPress, ListTimer
     DEF HostNext

(* A page that opens asks for what it shows.                               *)
LEMMA ListOpening ==
    ASSUME BaseInv, BaseInv', ListInv,
           UNCHANGED <<env, page, online, connected, host, list, dangling, timers>>,
           serverId' = serverId \/ jobs = {}, serverId' \in Server, jobs' = Opening(serverId')
    PROVE  ListInv'
<1> DEFINE s == serverId'
<1>1. /\ \A j \in Opening(s) : j \in jobs \/ (j.at = "asked" /\ j.act \in Questions(page))
      /\ connected /\ online[s] => \A act \in Questions(page) : \E j \in Opening(s) : j.act = act
  <2>1. \A r \in Server :
           /\ \A j \in Opening(r) : j \in jobs \/ (j.at = "asked" /\ j.act \in Questions(page))
           /\ connected /\ online[r] =>
                 \A act \in Questions(page) : \E j \in Opening(r) : j.act = act /\ j.server = r
    BY Opened, PageAndCircumstances DEF BaseInv, Types
  <2>2. QED
    BY <2>1
<1>2. ListCalm' = ListCalm /\ StatusTells' = StatusTells
  BY DEF ListCalm, StatusTells, Alone
<1> SUFFICES ASSUME ListCalm
             PROVE  /\ ReadsTrue' /\ TimersWait' /\ RemovedGone'
                    /\ Watched' => ShowsRows' /\ ShowsDangling'
  BY <1>2 DEF ListInv
<1>3. ReadsTrue /\ TimersWait /\ RemovedGone
  BY DEF ListInv
<1>4. \A j \in jobs' : j \in jobs \/ (j.at = "asked" /\ j.act \in {"list", "dangling"})
  BY <1>1, ListQuestions DEF ListCalm
<1>5. ReadsTrue'
  <2>1. CASE jobs = {}
    BY <1>4, <2>1 DEF ReadsTrue, RightRead
  <2>2. CASE serverId' = serverId
    BY <1>3, <1>4, <2>2 DEF ReadsTrue, RightRead, Existing, InUse
  <2>3. QED
    BY <2>1, <2>2
<1>6. TimersWait'
  BY <1>3, <1>4 DEF TimersWait
<1>7. RemovedGone'
  <2>1. \A j \in jobs' : Removes(j) => j \in jobs
    BY <1>4 DEF Removes
  <2>2. Removed' \subseteq Removed /\ (jobs = {} => Removed' = {})
    BY <2>1 DEF Removed
  <2>3. CASE jobs = {}
    BY <2>2, <2>3 DEF RemovedGone
  <2>4. CASE serverId' = serverId
    BY <1>3, <2>2, <2>4 DEF RemovedGone, Gone
  <2>5. QED
    BY <2>3, <2>4
<1>8. ASSUME Watched'
      PROVE  ShowsRows' /\ ShowsDangling'
  <2>1. connected /\ online[s]
    BY <1>2, <1>8, WatchedOnlineNext DEF ListCalm
  <2>2. \A act \in Questions(page) : Pending(act)'
    BY <1>1, <2>1 DEF Pending, Announces
  <2>3. QED
    BY <2>2, ListQuestions DEF ShowsRows, ShowsDangling, ListCalm
<1>9. QED
  BY <1>5, <1>6, <1>7, <1>8

LEMMA ListConnections ==
    ASSUME BaseInv, BaseInv', ListInv, Connections, UNCHANGED hostVars
    PROVE  ListInv'
<1>1. /\ UNCHANGED <<env, page, serverId>>
      /\ StatusTells /\ Watched' => Watched /\ \A j \in jobs : j.server = serverId => j \in jobs'
      /\ \A j \in jobs' : j \in jobs \/ (j.session = 0 /\ j.at = "asked")
  BY ConnectionsKeep
<1>2. UNCHANGED <<host, list, dangling, timers>>
  BY DEF hostVars, stores
<1>3. ListCalm /\ Watched' => Watched /\ jobs \subseteq jobs'
  BY <1>1, ListPlace DEF ListCalm
<1>4. ListCalm => \A j \in jobs' : j.act \in {"pull", "rmi"} => j.session > 0
  <2> SUFFICES ASSUME ListCalm, NEW j \in jobs', j.act \in {"pull", "rmi"} PROVE j.session > 0
    OBVIOUS
  <2>1. Fit(j)' /\ j.session \in Nat /\ page' \in Page
    BY EnvironmentsAssumption, MaxStepsAssumption DEF BaseInv, JobsInv, Fit, Jobs, Types, TabTypes
  <2>2. page' = "images"
    BY <2>1, CommandPages DEF Fit, Shape, Acts, Page, StackCommand
  <2>3. j.session # 0
    BY <1>1, <2>1, <2>2 DEF Fit, Placed, Near, Alone, StatusTells, ListCalm, HostCommand
  <2>4. QED
    BY <2>1, <2>3
<1>5. ListCalm /\ TimersWait => TimersWait'
  BY <1>1, <1>2, <1>4 DEF TimersWait
<1>6. jobs \subseteq jobs' => \A act : Pending(act) => Pending(act)'
  BY <1>2 DEF Pending
<1>7. QED
  BY <1>1, <1>2, <1>3, <1>5, <1>6, RowsStay

LEMMA ListNext ==
    ASSUME BaseInv, BaseInv', ListInv, [Next]_pageVars
    PROVE  ListInv'
<1>1. ASSUME UNCHANGED <<env, page, serverId, connected, agentState, feed, jobs, host, list, dangling, timers>>
      PROVE  ListInv'
  <2>1. /\ (TimersWait => TimersWait') /\ Watched' = Watched
        /\ \A act : Pending(act) => Pending(act)'
    BY <1>1 DEF TimersWait, Watched, Mounted, Pending
  <2>2. QED
    BY <1>1, <2>1, RowsStay
<1>2. CASE page = "stacks"
  BY <1>2, PageStays DEF ListInv, ListCalm
<1>3. ASSUME page # "stacks", StackNext, UNCHANGED hostVars
      PROVE  ListInv'
  BY <1>1, <1>3, StackOffPage DEF SameTab, hostVars, stores
<1>4. CASE StatusArrives
  <2>1. /\ UNCHANGED <<env, page, online, connected, serverId, host, list, dangling>>
        /\ jobs' = jobs \/ jobs' = Opening(serverId)
        /\ agentState' = "offline" \/ timers' = timers
        /\ timers' = timers \/ timers' = {[t EXCEPT !.live = FALSE] : t \in timers}
        /\ jobs' = Opening(serverId) => jobs' = jobs \/ timers' = timers
    BY <1>4 DEF StatusArrives, HandleStatus, Unmount, hostVars, stores
  <2>2. CASE jobs' = Opening(serverId) /\ timers' = timers
    <3>1. serverId \in Server
      BY DEF BaseInv, Types, TabTypes
    <3>2. QED
      BY <2>1, <2>2, <3>1, ListOpening
  <2>3. CASE jobs' = jobs /\ timers' = timers
    <3>1. Watched' => Watched \/ jobs' = Opening(serverId)
      BY <1>4, StatusKeeps
    <3>2. (TimersWait => TimersWait') /\ \A act : Pending(act) => Pending(act)'
      BY <2>3 DEF TimersWait, Pending
    <3>3. CASE Watched' => Watched
      BY <2>1, <2>3, <3>2, <3>3, RowsStay
    <3>4. QED
      BY <2>2, <2>3, <3>1, <3>3
  <2>4. CASE jobs' = jobs /\ timers' = {[t EXCEPT !.live = FALSE] : t \in timers} /\ timers' # timers
    <3>1. ~Watched'
      BY <2>1, <2>4 DEF Watched, Mounted
    <3>2. \A t \in timers : [t EXCEPT !.live = FALSE] \in timers' /\ [t EXCEPT !.live = FALSE].id = t.id
      BY <2>4 DEF BaseInv, Types, HostTypeOK
    <3>3. TimersWait => TimersWait'
      BY <2>4, <3>2 DEF TimersWait
    <3>4. QED
      BY <2>1, <2>4, <3>1, <3>3, RowsStay
  <2>5. QED
    BY <2>1, <2>2, <2>3, <2>4
<1>5. ASSUME NEW s \in Server, Walk(s)
      PROVE  ListInv'
  <2>1. /\ UNCHANGED <<env, page, online, connected, host, list, dangling, timers>>
        /\ serverId' = s /\ jobs = {} /\ jobs' = Opening(serverId')
    BY <1>5 DEF Walk, GoTo, hostVars, stores
  <2>2. QED
    BY <1>5, <2>1, ListOpening
<1>6. CASE UNCHANGED pageVars
  BY <1>1, <1>6 DEF pageVars, tabVars, hostVars, stores
<1>7. QED
  BY <1>2, <1>3, <1>4, <1>5, <1>6, Steps, ListHost, ListConnections

LEMMA ListInvariant == Spec => [](BaseInv /\ ListInv)
<1>1. Init => ListInv
  <2> SUFFICES ASSUME Init, page # "stacks" PROVE ReadsTrue /\ TimersWait /\ RemovedGone
                                                  /\ ShowsRows /\ ShowsDangling
    BY DEF ListInv, ListCalm
  <2>1. BaseInv
    BY InitBase
  <2>2. jobs = Asking(Questions(page), serverId)
    BY DEF Init, TabInit
  <2>3. \A act, s : Job(act, s, None).at = "asked" /\ Job(act, s, None).act = act
    BY DEF Job
  <2>4. /\ \A j \in jobs : j.at = "asked" /\ j.act \in Questions(page)
        /\ \A act \in Questions(page) : \E j \in jobs : j.act = act
    BY <2>2, <2>3 DEF Asking
  <2>5. \A act \in Questions(page) : Pending(act)
    BY <2>4 DEF Pending, Announces
  <2>6. ShowsRows /\ ShowsDangling
    BY <2>1, <2>5, ListQuestions DEF ShowsRows, ShowsDangling
  <2>7. ReadsTrue /\ TimersWait /\ RemovedGone
    BY <2>1, <2>4, ListQuestions DEF ReadsTrue, RightRead, TimersWait, RemovedGone, Removed, Removes
  <2>8. QED
    BY <2>6, <2>7
<1>2. BaseInv /\ BaseInv' /\ ListInv /\ [Next]_pageVars => ListInv'
  BY ListNext
<1>3. QED
  BY <1>1, <1>2, BaseInvariant, PTL DEF Spec

(* Once all answers came in and no timer runs, the pages of images,        *)
(* networks and volumes show what the host has and what of it is in use:   *)
(* every command is followed by a list that was read after it, or its      *)
(* answer takes the row out, and no list that was read before brings it    *)
(* back; if no question was refused.                                       *)
THEOREM ListIsTrue == Spec => []ListTrue
<1>1. BaseInv /\ ListInv => ListTrue
  <2> SUFFICES ASSUME BaseInv, ListInv,
                      env \cap {"listFails", "overtaken", "outside", "otherServer", "slow",
                                "hurries"} = {},
                      StatusTells, page = "images" => "otherTab" \notin env, page # "stacks",
                      Looking, jobs = {}, timers = {}
               PROVE  /\ list = [items |-> Existing(serverId), use |-> InUse(serverId)]
                      /\ page = "images" => dangling = Existing(serverId) \ InUse(serverId)
    BY DEF ListTrue
  <2>1. ListCalm /\ Watched
    BY DEF ListCalm, Looking, Watched
  <2>2. Removed = {} /\ \A act : ~Pending(act)
    BY DEF Removed, Pending
  <2>3. list.items = Existing(serverId) /\ list.use = InUse(serverId)
    BY <2>1, <2>2 DEF ListInv, ShowsRows
  <2>4. list \in Rows
    BY DEF BaseInv, Types, HostTypeOK
  <2>5. list = [items |-> list.items, use |-> list.use]
    BY <2>4 DEF Rows
  <2>6. QED
    BY <2>1, <2>2, <2>3, <2>5 DEF ListInv, ShowsDangling
<1>2. QED
  BY <1>1, ListInvariant, PTL
=============================================================================

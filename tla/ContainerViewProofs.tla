-------------------------- MODULE ContainerViewProofs --------------------------
(***************************************************************************)
(* Theorems of ContainerView, for any servers and containers, any number   *)
(* of operations and any set of environments.  BaseInv says what is where: *)
(* which messages, requests and events left a state may hold.  On it rest  *)
(* an invariant for each property: ModalInv, what an open modal waits for; *)
(* ProcInv, what follows a "kill" on its way; ViewInv, how rows, messages  *)
(* and orders add up to what Docker says.                                  *)
(***************************************************************************)
EXTENDS ContainerView, SequenceTheorems, TLAPS

Partial(S) == UNION {[D -> S] : D \in SUBSET Container}
Jobs == [act : Command \cup Question \cup {"list"}, server : Server, c : Container \cup {None},
         at : {"asked", "doing", "read"}, list : Partial(State)]

(* A message of server s is a status, or an event of one of its containers.*)
Good(s, m, h) ==
    \/ m.c = None /\ m.e \in Status
    \/ m.c \in Container /\ m.e \in Event /\ ServerOf[m.c] = s /\ h[m.c] # "unborn"

(* A job names a container unless it is a list; what it was read or asked  *)
(* for is there.                                                           *)
GoodJob(j, h) ==
    /\ j.act # "list" => j.c \in Container /\ j.server \in mine
    /\ j.at = "doing" => j.act \in Command
    /\ j.at = "read" => j.act = "list"
    /\ \A c \in DOMAIN j.list : ServerOf[c] = j.server /\ h[c] # "unborn"
    /\ j.act \in Question => /\ h[j.c] # "unborn"
                             /\ "otherServer" \notin env => ServerOf[j.c] = j.server

(* The events that are left: a container is created first and destroyed    *)
(* last, a "kill" comes first and is followed by its "die", a "stop" comes *)
(* after a "die", or where there is nothing to stop.                       *)
GoodScript(sc, state) ==
    /\ sc # <<>> => state # "gone" /\ (state = "unborn" <=> sc[1] = "create")
    /\ \A i \in 1..Len(sc) :
          /\ sc[i] \in {"create", "kill"} => i = 1
          /\ sc[i] = "destroy" => i = Len(sc)
          /\ sc[i] = "stop" => IF i = 1 THEN state = "exited" \/ (Len(sc) > 1 /\ sc[2] = "start")
                                        ELSE sc[i - 1] = "die"
          /\ sc[i] = "kill" => "signal" \in env \/ (Len(sc) > 1 /\ sc[2] = "die")

Types ==
    /\ env \in Environments
    /\ host \in [Container -> State] /\ script \in [Container -> Seq(Event)]
    /\ online \in [Server -> BOOLEAN] /\ watching \in [Server -> BOOLEAN]
    /\ feed \in [Server -> Seq(Message)]
    /\ jobs \subseteq Jobs
    /\ connected \in BOOLEAN /\ agentState \in {None, "online", "offline"}
    /\ serverId \in mine \cup {None}
    /\ containers \in Partial(Row)
    /\ logs \in Modal /\ inspect \in Modal /\ steps \in 0..MaxSteps

Sound ==
    /\ \A s \in Server : watching[s] => online[s]
    /\ \A s \in Server : \A i \in 1..Len(feed[s]) : Good(s, feed[s][i], host)
    /\ \A c \in Container : GoodScript(script[c], host[c])
    /\ \A j \in jobs : GoodJob(j, host)
    /\ \A c \in DOMAIN containers : ServerOf[c] \in mine /\ host[c] # "unborn"

BaseInv == Types /\ Sound

-----------------------------------------------------------------------------
LEMMA MineIn == mine \subseteq Server /\ Mine \in mine
BY ServerOfAssumption DEF mine

LEMMA EmptyPartial == ASSUME NEW S PROVE <<>> \in Partial(S)
<1>1. <<>> \in [{} -> S]
  OBVIOUS
<1>2. {} \in SUBSET Container
  OBVIOUS
<1> QED BY <1>1, <1>2 DEF Partial

LEMMA NewJob ==
    ASSUME NEW act \in Command \cup Question \cup {"list"}, NEW s \in Server,
           NEW c \in Container \cup {None}
    PROVE  Job(act, s, c) \in Jobs
BY EmptyPartial DEF Job, Jobs

(* What Docker reports of a restart and of a removal of a container that   *)
(* runs.                                                                   *)
LEMMA Endings ==
    /\ <<"kill", "die">> \o <<"stop", "start", "restart">>
          = <<"kill", "die", "stop", "start", "restart">>
    /\ <<"kill", "die">> \o <<"destroy">> = <<"kill", "die", "destroy">>
    /\ <<>> \o <<"stop", "start", "restart">> = <<"stop", "start", "restart">>
    /\ <<>> \o <<"destroy">> = <<"destroy">>
<1> DEFINE k == <<"kill", "die">>  r == <<"stop", "start", "restart">>  d == <<"destroy">>
           kr == <<"kill", "die", "stop", "start", "restart">>
           kd == <<"kill", "die", "destroy">>
<1>1. /\ k \in Seq(Event) /\ Len(k) = 2 /\ k[1] = "kill" /\ k[2] = "die"
      /\ r \in Seq(Event) /\ Len(r) = 3 /\ r[1] = "stop" /\ r[2] = "start" /\ r[3] = "restart"
      /\ d \in Seq(Event) /\ Len(d) = 1 /\ d[1] = "destroy"
  BY DEF Event
<1>2. /\ kr \in Seq(Event) /\ Len(kr) = 5 /\ kr[1] = "kill" /\ kr[2] = "die"
      /\ kr[3] = "stop" /\ kr[4] = "start" /\ kr[5] = "restart"
      /\ kd \in Seq(Event) /\ Len(kd) = 3 /\ kd[1] = "kill" /\ kd[2] = "die"
      /\ kd[3] = "destroy"
  BY DEF Event
<1> HIDE DEF k, r, d, kr, kd
<1>3. k \o r = kr
  <2>1. k \o r \in Seq(Event) /\ Len(k \o r) = 5
        /\ \A i \in 1..5 : (k \o r)[i] = IF i <= 2 THEN k[i] ELSE r[i - 2]
    <3>1. /\ k \o r \in Seq(Event) /\ Len(k \o r) = Len(k) + Len(r)
          /\ \A i \in 1..Len(k) + Len(r) :
                (k \o r)[i] = IF i <= Len(k) THEN k[i] ELSE r[i - Len(k)]
      <4>1. k \in Seq(Event) /\ r \in Seq(Event)
        BY <1>1
      <4> QED BY <4>1, ConcatProperties
    <3> QED BY <3>1, <1>1
  <2>2. \A i \in 1..5 : (k \o r)[i] = kr[i]
    BY <2>1, <1>1, <1>2
  <2> QED BY <2>1, <2>2, <1>2, SeqEqual
<1>4. k \o d = kd
  <2>1. k \o d \in Seq(Event) /\ Len(k \o d) = 3
        /\ \A i \in 1..3 : (k \o d)[i] = IF i <= 2 THEN k[i] ELSE d[i - 2]
    <3>1. /\ k \o d \in Seq(Event) /\ Len(k \o d) = Len(k) + Len(d)
          /\ \A i \in 1..Len(k) + Len(d) :
                (k \o d)[i] = IF i <= Len(k) THEN k[i] ELSE d[i - Len(k)]
      <4>1. k \in Seq(Event) /\ d \in Seq(Event)
        BY <1>1
      <4> QED BY <4>1, ConcatProperties
    <3> QED BY <3>1, <1>1
  <2>2. \A i \in 1..3 : (k \o d)[i] = kd[i]
    BY <2>1, <1>1, <1>2
  <2> QED BY <2>1, <2>2, <1>2, SeqEqual
<1>5. <<>> \o r = r /\ <<>> \o d = d
  BY <1>1, ConcatEmptySeq
<1> QED BY <1>3, <1>4, <1>5 DEF k, r, d, kr, kd

(* The event sequences, one by one.                                        *)
LEMMA EventsOf ==
    ASSUME NEW act \in Command, NEW state \in Allowed(act)
    PROVE  Events(act, state) =
             CASE act = "stop" -> <<"kill", "die", "stop">>
               [] act = "restart" -> IF state \in {"running", "paused"}
                                       THEN <<"kill", "die", "stop", "start", "restart">>
                                       ELSE <<"stop", "start", "restart">>
               [] act = "remove" -> IF state \in {"running", "paused"}
                                      THEN <<"kill", "die", "destroy">> ELSE <<"destroy">>
               [] act = "create" -> <<"create", "start">>
               [] OTHER -> <<act>>
BY Endings DEF Events

LEMMA EventsGood ==
    ASSUME NEW act \in Command, NEW state \in Allowed(act)
    PROVE  /\ Events(act, state) \in Seq(Event) /\ Events(act, state) # <<>>
           /\ GoodScript(Events(act, state), state)
<1> DEFINE sc == Events(act, state)
<1>1. CASE act = "stop"
  <2>1. sc = <<"kill", "die", "stop">>
    BY <1>1, EventsOf
  <2>2. sc \in Seq(Event)
    <3>1. "kill" \in Event /\ "die" \in Event /\ "stop" \in Event
      BY <1>1 DEF Event
    <3> QED BY <2>1, <3>1
  <2>3. Len(sc) = 3 /\ sc[1] = "kill" /\ sc[2] = "die" /\ sc[3] = "stop"
    BY <2>1
  <2> HIDE DEF sc
  <2>4. GoodScript(sc, state)
    BY <1>1, <2>3 DEF GoodScript, Allowed
  <2>5. sc # <<>>
    BY <2>3
  <2> QED BY <2>2, <2>4, <2>5 DEF sc
<1>2. CASE act = "restart" /\ state \in {"running", "paused"}
  <2>1. sc = <<"kill", "die", "stop", "start", "restart">>
    BY <1>2, EventsOf
  <2>2. sc \in Seq(Event)
    <3>1. "kill" \in Event /\ "die" \in Event /\ "stop" \in Event /\ "start" \in Event /\ "restart" \in Event
      BY <1>2 DEF Event
    <3> QED BY <2>1, <3>1
  <2>3. Len(sc) = 5 /\ sc[1] = "kill" /\ sc[2] = "die" /\ sc[3] = "stop" /\ sc[4] = "start" /\ sc[5] = "restart"
    BY <2>1
  <2> HIDE DEF sc
  <2>4. GoodScript(sc, state)
    BY <1>2, <2>3 DEF GoodScript, Allowed
  <2>5. sc # <<>>
    BY <2>3
  <2> QED BY <2>2, <2>4, <2>5 DEF sc
<1>3. CASE act = "restart" /\ state \notin {"running", "paused"}
  <2>1. sc = <<"stop", "start", "restart">>
    BY <1>3, EventsOf
  <2>2. sc \in Seq(Event)
    <3>1. "stop" \in Event /\ "start" \in Event /\ "restart" \in Event
      BY <1>3 DEF Event
    <3> QED BY <2>1, <3>1
  <2>3. Len(sc) = 3 /\ sc[1] = "stop" /\ sc[2] = "start" /\ sc[3] = "restart"
    BY <2>1
  <2> HIDE DEF sc
  <2>4. GoodScript(sc, state)
    BY <1>3, <2>3 DEF GoodScript, Allowed
  <2>5. sc # <<>>
    BY <2>3
  <2> QED BY <2>2, <2>4, <2>5 DEF sc
<1>4. CASE act = "remove" /\ state \in {"running", "paused"}
  <2>1. sc = <<"kill", "die", "destroy">>
    BY <1>4, EventsOf
  <2>2. sc \in Seq(Event)
    <3>1. "kill" \in Event /\ "die" \in Event /\ "destroy" \in Event
      BY <1>4 DEF Event
    <3> QED BY <2>1, <3>1
  <2>3. Len(sc) = 3 /\ sc[1] = "kill" /\ sc[2] = "die" /\ sc[3] = "destroy"
    BY <2>1
  <2> HIDE DEF sc
  <2>4. GoodScript(sc, state)
    BY <1>4, <2>3 DEF GoodScript, Allowed
  <2>5. sc # <<>>
    BY <2>3
  <2> QED BY <2>2, <2>4, <2>5 DEF sc
<1>5. CASE act = "remove" /\ state \notin {"running", "paused"}
  <2>1. sc = <<"destroy">>
    BY <1>5, EventsOf
  <2>2. sc \in Seq(Event)
    <3>1. "destroy" \in Event
      BY <1>5 DEF Event
    <3> QED BY <2>1, <3>1
  <2>3. Len(sc) = 1 /\ sc[1] = "destroy"
    BY <2>1
  <2> HIDE DEF sc
  <2>4. GoodScript(sc, state)
    BY <1>5, <2>3 DEF GoodScript, Allowed
  <2>5. sc # <<>>
    BY <2>3
  <2> QED BY <2>2, <2>4, <2>5 DEF sc
<1>6. CASE act = "create"
  <2>1. sc = <<"create", "start">>
    BY <1>6, EventsOf
  <2>2. sc \in Seq(Event)
    <3>1. "create" \in Event /\ "start" \in Event
      BY <1>6 DEF Event
    <3> QED BY <2>1, <3>1
  <2>3. Len(sc) = 2 /\ sc[1] = "create" /\ sc[2] = "start"
    BY <2>1
  <2> HIDE DEF sc
  <2>4. GoodScript(sc, state)
    BY <1>6, <2>3 DEF GoodScript, Allowed
  <2>5. sc # <<>>
    BY <2>3
  <2> QED BY <2>2, <2>4, <2>5 DEF sc
<1>7. CASE act \in {"start", "pause", "unpause"}
  <2>1. sc = <<act>>
    BY <1>7, EventsOf
  <2>2. sc \in Seq(Event)
    <3>1. act \in Event
      BY <1>7 DEF Event
    <3> QED BY <2>1, <3>1
  <2>3. Len(sc) = 1 /\ sc[1] = act
    BY <2>1
  <2> HIDE DEF sc
  <2>4. GoodScript(sc, state)
    BY <1>7, <2>3 DEF GoodScript, Allowed
  <2>5. sc # <<>>
    BY <2>3
  <2> QED BY <2>2, <2>4, <2>5 DEF sc
<1> QED BY <1>1, <1>2, <1>3, <1>4, <1>5, <1>6, <1>7 DEF Command

LEMMA AfterType ==
    ASSUME NEW state \in State, NEW e PROVE After(e, state) \in State
BY DEF After, State

LEMMA TailGood ==
    ASSUME NEW sc \in Seq(Event), NEW state \in State, sc # <<>>, GoodScript(sc, state)
    PROVE  /\ Tail(sc) \in Seq(Event)
           /\ GoodScript(Tail(sc), After(Head(sc), state))
<1> DEFINE t == Tail(sc)
<1>1. /\ t \in Seq(Event) /\ Len(t) = Len(sc) - 1 /\ Head(sc) = sc[1]
      /\ \A i \in 1..Len(t) : t[i] = sc[i + 1]
      /\ Len(sc) \in Nat /\ Len(sc) > 0
  BY HeadTailProperties
<1>2. t # <<>> => Len(sc) > 1
  BY <1>1
<1>3. state # "gone" /\ (state = "unborn" <=> sc[1] = "create")
  BY DEF GoodScript
<1>4. \A i \in 1..Len(sc) :
          /\ sc[i] \in {"create", "kill"} => i = 1
          /\ sc[i] = "destroy" => i = Len(sc)
          /\ sc[i] = "stop" /\ i > 1 => sc[i - 1] = "die"
  BY DEF GoodScript
<1> DEFINE new == After(sc[1], state)
<1>5. Len(sc) > 1 => new # "gone" /\ new # "unborn" /\ sc[2] # "create"
  <2>1. SUFFICES ASSUME Len(sc) > 1 PROVE new # "gone" /\ new # "unborn" /\ sc[2] # "create"
    OBVIOUS
  <2>2. 1 \in 1..Len(sc) /\ 2 \in 1..Len(sc)
    BY <2>1, <1>1
  <2>3. sc[1] # "destroy" /\ sc[2] # "create"
    BY <2>1, <2>2, <1>4
  <2> QED BY <2>3, <1>3 DEF After
<1>6. ASSUME NEW i \in 1..Len(t)
      PROVE  /\ t[i] \in {"create", "kill"} => i = 1
             /\ t[i] = "destroy" => i = Len(t)
             /\ t[i] = "stop" => IF i = 1 THEN new = "exited" \/ (Len(t) > 1 /\ t[2] = "start")
                                          ELSE t[i - 1] = "die"
             /\ t[i] = "kill" => "signal" \in env \/ (Len(t) > 1 /\ t[2] = "die")
  <2>1. i + 1 \in 1..Len(sc) /\ t[i] = sc[i + 1] /\ i + 1 # 1
    BY <1>1
  <2>2. t[i] \notin {"create", "kill"}
    BY <2>1, <1>4
  <2>3. t[i] = "destroy" => i = Len(t)
    <3> HIDE DEF t
    <3> QED BY <2>1, <1>4, <1>1
  <2>4. t[i] = "stop" => sc[i] = "die"
    BY <2>1, <1>4
  <2>5. sc[1] = "die" => new = "exited"
    BY DEF After
  <2>6. i # 1 => t[i - 1] = sc[i]
    BY <1>1
  <2> QED BY <2>2, <2>3, <2>4, <2>5, <2>6
<1>7. t # <<>> => new # "gone" /\ (new = "unborn" <=> t[1] = "create")
  BY <1>1, <1>2, <1>5
<1> QED BY <1>1, <1>6, <1>7 DEF GoodScript

-----------------------------------------------------------------------------
(* The state, action by action.                                            *)

LEMMA MineStays == ASSUME env' = env PROVE mine' = mine
BY DEF mine

LEMMA PartialOf ==
    ASSUME NEW S, NEW f
    PROVE  f \in Partial(S) <=> DOMAIN f \subseteq Container /\ f \in [DOMAIN f -> S]
BY DEF Partial

(* One more request of a page.                                             *)
LEMMA AskedType ==
    ASSUME Types, NEW act \in Command \cup Question \cup {"list"}, NEW s \in Server,
           NEW c \in Container \cup {None}
    PROVE  Asked({Job(act, s, c)}) \subseteq {Job(act, s, c)} /\ Asked({Job(act, s, c)}) \subseteq Jobs
BY NewJob DEF Asked

(* A list as it is read.                                                   *)
LEMMA ReadType ==
    ASSUME Types, NEW j \in Jobs
    PROVE  [j EXCEPT !.at = "read", !.list = [c \in Existing(j.server) |-> host[c]]] \in Jobs
<1> DEFINE l == [c \in Existing(j.server) |-> host[c]]
<1>1. l \in Partial(State)
  BY PartialOf DEF Types, Existing
<1> HIDE DEF l
<1>2. [j EXCEPT !.at = "read", !.list = l] \in Jobs
  BY <1>1 DEF Jobs
<1> QED BY <1>2 DEF l

LEMMA UpdatedType ==
    ASSUME NEW r \in Row, NEW e PROVE Updated(r, e) \in Row
<1>1. [r EXCEPT !.process = TRUE] \in Row
  BY DEF Row
<1> QED BY <1>1 DEF Updated, Row, State

LEMMA DockerTypes ==
    ASSUME Types, Sound, NEW c \in Container, DockerStep(c) \/ ByHand(c) \/ Deploy(c)
    PROVE  Types'
<1>1. CASE DockerStep(c)
  <2>1. ServerOf[c] \in Server
    BY ServerOfAssumption
  <2>2. script[c] \in Seq(Event) /\ script[c] # <<>> /\ host[c] \in State
    BY <1>1 DEF DockerStep, Types
  <2>3. Head(script[c]) \in Event /\ Tail(script[c]) \in Seq(Event)
    BY <2>2, HeadTailProperties
  <2>4. host' \in [Container -> State]
    BY <1>1, <2>2, AfterType DEF DockerStep, Types
  <2>5. script' \in [Container -> Seq(Event)]
    BY <1>1, <2>3 DEF DockerStep, Types
  <2>6. [c |-> c, e |-> Head(script[c])] \in Message
    BY <2>3 DEF Message
  <2>7. feed' \in [Server -> Seq(Message)]
    BY <1>1, <2>1, <2>6, AppendProperties DEF DockerStep, Types
  <2> QED BY <1>1, <2>4, <2>5, <2>7, MineStays DEF DockerStep, Types, agentVars, tabVars
<1>2. CASE ByHand(c)
  <2>1. <<"die">> \in Seq(Event) /\ <<"die", "start">> \in Seq(Event) /\ <<"kill">> \in Seq(Event)
    BY DEF Event
  <2>2. \A act \in Command : host[c] \in Allowed(act) => Events(act, host[c]) \in Seq(Event)
    BY EventsGood
  <2>3. script' \in [Container -> Seq(Event)]
    BY <1>2, <2>1, <2>2 DEF ByHand, Types, Command
  <2>4. steps' \in 0..MaxSteps
    BY <1>2, StepsAssumption DEF ByHand, Types
  <2> QED BY <1>2, <2>3, <2>4, MineStays DEF ByHand, Types, agentVars, tabVars
<1>3. CASE Deploy(c)
  <2>1. steps' \in 0..MaxSteps
    BY <1>3, StepsAssumption DEF Deploy, Types
  <2>2. serverId \in Server
    BY <1>3, MineIn DEF Deploy, Mounted, Types
  <2>3. Asked({Job("create", serverId, c)}) \subseteq Jobs
    BY <2>2, AskedType DEF Command
  <2> QED BY <1>3, <2>1, <2>3, MineStays DEF Deploy, Types, hostVars, agentVars, tabVars
<1> QED BY <1>1, <1>2, <1>3


LEMMA JobTypes ==
    ASSUME Types, Sound, NEW j \in jobs,
           \/ ReadList(j) \/ Begin(j) \/ Refuse(j) \/ StartFails(j) \/ Drop(j)
           \/ HandleList(j) \/ HandleResult(j) \/ HandleAnswer(j)
    PROVE  Types'
<1>0. j \in Jobs
  BY DEF Types
<1>1. CASE ReadList(j)
  <2>1. jobs' \subseteq Jobs
    BY <1>1, <1>0, ReadType DEF ReadList, Types
  <2> QED BY <1>1, <2>1, MineStays DEF ReadList, Types, hostVars, agentVars, tabVars
<1>2. CASE Begin(j)
  <2>1. [j EXCEPT !.at = "doing"] \in Jobs
    BY <1>0 DEF Jobs
  <2>2. jobs' \subseteq Jobs
    BY <1>2, <2>1 DEF Begin, Types
  <2>3. Events(j.act, host[j.c]) \in Seq(Event)
    BY <1>2, EventsGood DEF Begin
  <2>4. script' \in [Container -> Seq(Event)]
    BY <1>2, <2>3 DEF Begin, Types
  <2> QED BY <1>2, <2>2, <2>4, MineStays DEF Begin, Types, agentVars, tabVars
<1>3. CASE Refuse(j) \/ Drop(j)
  BY <1>3, MineStays DEF Refuse, Drop, Types, hostVars, agentVars, tabVars
<1>4. CASE StartFails(j)
  <2>1. script' \in [Container -> Seq(Event)]
    <3>1. <<>> \in Seq(Event)
      BY EmptySeq
    <3> QED BY <1>4, <3>1 DEF StartFails, Types
  <2> QED BY <1>4, <2>1, MineStays DEF StartFails, Types, agentVars, tabVars
<1>5. CASE HandleList(j)
  <2>1. j.list \in Partial(State)
    BY <1>0 DEF Jobs
  <2>2. \A c \in DOMAIN j.list : [state |-> j.list[c], process |-> FALSE] \in Row
    BY <2>1, PartialOf DEF Row
  <2>3. containers' \in Partial(Row)
    BY <1>5, <2>1, <2>2, PartialOf DEF HandleList
  <2> QED BY <1>5, <2>3, MineStays DEF HandleList, Types, hostVars, agentVars
<1>6. CASE HandleResult(j)
  <2>1. serverId # None => Asked({Job("list", serverId, None)}) \subseteq Jobs
    BY MineIn, AskedType DEF Types
  <2>2. jobs' \subseteq Jobs
    BY <1>6, <2>1 DEF HandleResult, Mounted, Types
  <2>3. containers' \in Partial(Row)
    BY <1>6, PartialOf DEF HandleResult, Types
  <2> QED BY <1>6, <2>2, <2>3, MineStays DEF HandleResult, Types, hostVars, agentVars
<1>7. CASE HandleAnswer(j)
  <2>1. j.c \in Container
    BY <1>7 DEF HandleAnswer, Existing
  <2>2. SetLines(j.c) \in Modal /\ SetData(j.c) \in Modal
    BY <2>1 DEF SetLines, SetData, Modal, Types
  <2>3. logs' \in Modal /\ inspect' \in Modal
    BY <1>7, <2>2 DEF HandleAnswer, Types
  <2> QED BY <1>7, <2>3, MineStays DEF HandleAnswer, Types, hostVars, agentVars
<1> QED BY <1>1, <1>2, <1>3, <1>4, <1>5, <1>6, <1>7


(* What has come of the feed when an agent's connection breaks.            *)
LEMMA KeptType ==
    ASSUME NEW q \in Seq(Message), NEW n \in 0..Len(q)
    PROVE  /\ SubSeq(q, 1, n) \in Seq(Message) /\ Len(SubSeq(q, 1, n)) = n
           /\ \A i \in 1..n : SubSeq(q, 1, n)[i] = q[i]
<1>1. n \in Nat /\ n <= Len(q) /\ Len(q) \in Nat
  BY LenProperties
<1>2. \A i \in 1..n : q[i] \in Message
  BY <1>1, ElementOfSeq
<1>3. 1 \in Int /\ n \in Int
  BY <1>1
<1>4. /\ SubSeq(q, 1, n) \in Seq(Message)
      /\ Len(SubSeq(q, 1, n)) = IF 1 <= n THEN n - 1 + 1 ELSE 0
      /\ \A i \in 1..n - 1 + 1 : SubSeq(q, 1, n)[i] = q[1 + i - 1]
  BY <1>2, <1>3, SubSeqProperties
<1> QED BY <1>1, <1>4

(* What is left of a queue that loses one of its messages.                 *)
LEMMA Without ==
    ASSUME NEW S, NEW q \in Seq(S), NEW i \in 1..Len(q)
    PROVE  /\ RemoveAt(q, i) \in Seq(S)
           /\ \A k \in 1..Len(RemoveAt(q, i)) : \E l \in 1..Len(q) : RemoveAt(q, i)[k] = q[l]
<1> DEFINE front == SubSeq(q, 1, i - 1)
           back == SubSeq(q, i + 1, Len(q))
<1>1. Len(q) \in Nat /\ i \in Nat /\ i >= 1 /\ i <= Len(q) /\ \A j \in 1..Len(q) : q[j] \in S
  OBVIOUS
<1>2. front \in Seq(S) /\ Len(front) = i - 1 /\ \A j \in 1..i - 1 : front[j] = q[j]
  <2>1. /\ front \in Seq(S) /\ Len(front) = IF 1 <= i - 1 THEN i - 1 - 1 + 1 ELSE 0
        /\ \A j \in 1..i - 1 - 1 + 1 : front[j] = q[1 + j - 1]
    BY <1>1, SubSeqProperties
  <2> QED BY <1>1, <2>1
<1>3. back \in Seq(S) /\ Len(back) = Len(q) - i /\ \A j \in 1..Len(q) - i : back[j] = q[i + j]
  <2>1. /\ back \in Seq(S)
        /\ Len(back) = IF i + 1 <= Len(q) THEN Len(q) - (i + 1) + 1 ELSE 0
        /\ \A j \in 1..Len(q) - (i + 1) + 1 : back[j] = q[(i + 1) + j - 1]
    BY <1>1, SubSeqProperties
  <2> QED BY <1>1, <2>1
<1>4. RemoveAt(q, i) = front \o back
  BY DEF RemoveAt
<1> HIDE DEF front, back
<1>5. /\ front \o back \in Seq(S) /\ Len(front \o back) = Len(front) + Len(back)
      /\ \A j \in 1..Len(front) + Len(back) :
            (front \o back)[j] = IF j <= Len(front) THEN front[j] ELSE back[j - Len(front)]
  BY <1>2, <1>3, ConcatProperties
<1>6. ASSUME NEW k \in 1..Len(front \o back) PROVE \E l \in 1..Len(q) : (front \o back)[k] = q[l]
  <2>1. CASE k <= i - 1
    <3>1. k \in 1..Len(q) /\ (front \o back)[k] = q[k]
      BY <1>1, <1>2, <1>3, <1>5, <2>1
    <3> QED BY <3>1
  <2>2. CASE ~(k <= i - 1)
    <3>1. k + 1 \in 1..Len(q) /\ (front \o back)[k] = q[k + 1]
      BY <1>1, <1>2, <1>3, <1>5, <2>2
    <3> QED BY <3>1
  <2> QED BY <2>1, <2>2
<1> QED BY <1>4, <1>5, <1>6

(* The backend puts messages in another order, or loses one.               *)
LEMMA Disordered ==
    ASSUME Types, NEW t \in Server, Overtakes(t) \/ Missed(t)
    PROVE  /\ feed' \in [Server -> Seq(Message)]
           /\ \A s \in Server : \A k \in 1..Len(feed'[s]) : \E l \in 1..Len(feed[s]) : feed'[s][k] = feed[s][l]
<1>0. feed \in [Server -> Seq(Message)] /\ feed[t] \in Seq(Message)
  BY DEF Types
<1>1. CASE Overtakes(t)
  <2>1. PICK i \in 1..Len(feed[t]) :
           /\ i + 1 \in 1..Len(feed[t])
           /\ feed' = [feed EXCEPT ![t][i] = feed[t][i + 1], ![t][i + 1] = feed[t][i]]
    BY <1>1 DEF Overtakes
  <2> DEFINE q == [feed[t] EXCEPT ![i] = feed[t][i + 1], ![i + 1] = feed[t][i]]
  <2>2. feed' = [feed EXCEPT ![t] = q]
    BY <1>0, <2>1
  <2>3. q \in Seq(Message) /\ \A k \in 1..Len(q) : \E l \in 1..Len(feed[t]) : q[k] = feed[t][l]
    <3>1. /\ q \in [1..Len(feed[t]) -> Message] /\ Len(feed[t]) \in Nat
          /\ q[i] = feed[t][i + 1] \/ q[i] = feed[t][i]
          /\ q[i + 1] = feed[t][i]
          /\ \A k \in 1..Len(feed[t]) : k # i /\ k # i + 1 => q[k] = feed[t][k]
      <4> DEFINE q1 == [feed[t] EXCEPT ![i] = feed[t][i + 1]]
      <4>1. /\ feed[t] \in [1..Len(feed[t]) -> Message] /\ Len(feed[t]) \in Nat
            /\ i \in 1..Len(feed[t]) /\ i + 1 \in 1..Len(feed[t]) /\ i # i + 1
            /\ feed[t][i] \in Message /\ feed[t][i + 1] \in Message
        BY <1>0, <2>1
      <4>2. /\ q1 \in [1..Len(feed[t]) -> Message]
            /\ \A k \in 1..Len(feed[t]) : k # i => q1[k] = feed[t][k]
            /\ q1[i] = feed[t][i + 1]
        BY <4>1
      <4>3. q = [q1 EXCEPT ![i + 1] = feed[t][i]]
        OBVIOUS
      <4> HIDE DEF q, q1
      <4>4. /\ q \in [1..Len(feed[t]) -> Message]
            /\ \A k \in 1..Len(feed[t]) : k # i + 1 => q[k] = q1[k]
            /\ q[i + 1] = feed[t][i]
        BY <4>1, <4>2, <4>3
      <4> QED BY <4>1, <4>2, <4>4
    <3> HIDE DEF q
    <3>2. q \in Seq(Message) /\ Len(q) = Len(feed[t])
      BY <3>1
    <3>3. ASSUME NEW k \in 1..Len(q) PROVE \E l \in 1..Len(feed[t]) : q[k] = feed[t][l]
      BY <2>1, <3>1, <3>2
    <3> QED BY <3>2, <3>3
  <2> HIDE DEF q
  <2> QED BY <1>0, <2>2, <2>3
<1>2. CASE Missed(t)
  <2>1. PICK i \in 1..Len(feed[t]) : feed' = [feed EXCEPT ![t] = RemoveAt(feed[t], i)]
    BY <1>2 DEF Missed
  <2>2. /\ RemoveAt(feed[t], i) \in Seq(Message)
        /\ \A k \in 1..Len(RemoveAt(feed[t], i)) :
              \E l \in 1..Len(feed[t]) : RemoveAt(feed[t], i)[k] = feed[t][l]
    BY <1>0, Without
  <2> QED BY <1>0, <2>1, <2>2
<1> QED BY <1>1, <1>2

LEMMA AgentTypes ==
    ASSUME Types, Sound, NEW s \in Server,
           AgentLost(s) \/ AgentBack(s) \/ StreamOpens(s) \/ Overtakes(s) \/ Missed(s)
    PROVE  Types'
<1>0. feed[s] \in Seq(Message)
  BY DEF Types
<1>m. [c |-> None, e |-> "offline"] \in Message /\ [c |-> None, e |-> "online"] \in Message
  BY DEF Message, Status
<1>1. CASE AgentLost(s)
  <2>1. steps' \in 0..MaxSteps
    BY <1>1, StepsAssumption DEF AgentLost, Types
  <2>2. PICK n \in 0..Len(feed[s]) :
           \/ feed' = [feed EXCEPT ![s] = Append(SubSeq(feed[s], 1, n), [c |-> None, e |-> "offline"])]
           \/ feed' = [feed EXCEPT ![s] = SubSeq(feed[s], 1, n)]
    BY <1>1 DEF AgentLost
  <2>3. SubSeq(feed[s], 1, n) \in Seq(Message)
    BY <1>0, KeptType
  <2>4. Append(SubSeq(feed[s], 1, n), [c |-> None, e |-> "offline"]) \in Seq(Message)
    BY <2>3, <1>m, AppendProperties
  <2>5. feed' \in [Server -> Seq(Message)]
    BY <2>2, <2>3, <2>4 DEF Types
  <2>6. online' \in [Server -> BOOLEAN] /\ watching' \in [Server -> BOOLEAN]
    BY <1>1 DEF AgentLost, Types
  <2>7. UNCHANGED <<env, hostVars, jobs, tabVars>>
    BY <1>1 DEF AgentLost
  <2> QED BY <2>1, <2>5, <2>6, <2>7, MineStays DEF Types, hostVars, tabVars
<1>2. CASE AgentBack(s)
  <2>1. feed' \in [Server -> Seq(Message)]
    BY <1>2, <1>0, <1>m, AppendProperties DEF AgentBack, Types
  <2>2. jobs' \subseteq Jobs
    <3>1. Job("list", s, None) \in Jobs
      BY NewJob
    <3> QED BY <1>2, <3>1 DEF AgentBack, Types
  <2>3. online' \in [Server -> BOOLEAN]
    BY <1>2 DEF AgentBack, Types
  <2> QED BY <1>2, <2>1, <2>2, <2>3, MineStays DEF AgentBack, Types, hostVars, tabVars
<1>3. CASE StreamOpens(s)
  BY <1>3, MineStays DEF StreamOpens, Types, hostVars, tabVars
<1>4. CASE Overtakes(s) \/ Missed(s)
  <2>1. UNCHANGED <<env, hostVars, agentVars, jobs, tabVars, steps>>
    BY <1>4 DEF Overtakes, Missed
  <2> QED BY <1>4, <2>1, Disordered, MineStays DEF Types, hostVars, agentVars, tabVars
<1> QED BY <1>1, <1>2, <1>3, <1>4

LEMMA TabTypes ==
    ASSUME Types, Sound, NEW s \in Server,
           HandleEvent(s) \/ HandleStatus(s) \/ OpenPage(s) \/ OtherTabAsks(s)
    PROVE  Types'
<1>0. feed[s] \in Seq(Message)
  BY DEF Types
<1>1. ASSUME feed[s] # <<>>, feed' = [feed EXCEPT ![s] = Tail(feed[s])]
      PROVE  /\ feed' \in [Server -> Seq(Message)] /\ Head(feed[s]) \in Message
             /\ Head(feed[s]) = feed[s][1] /\ 1 \in 1..Len(feed[s])
  <2>1. Tail(feed[s]) \in Seq(Message) /\ Head(feed[s]) \in Message
    BY <1>0, <1>1, HeadTailProperties
  <2>2. Head(feed[s]) = feed[s][1] /\ 1 \in 1..Len(feed[s])
    BY <1>0, <1>1
  <2> QED BY <1>1, <2>1, <2>2 DEF Types
<1>2. CASE HandleEvent(s)
  <2>1. \A c \in DOMAIN containers : containers[c] \in Row
    BY PartialOf DEF Types
  <2>2. \A c \in DOMAIN containers : Updated(containers[c], Head(feed[s]).e) \in Row
    BY <2>1, UpdatedType
  <2>3. containers' \in Partial(Row)
    BY <1>2, <2>1, <2>2, PartialOf DEF HandleEvent, Types
  <2>4. feed' \in [Server -> Seq(Message)]
    BY <1>2, <1>1 DEF HandleEvent
  <2> QED BY <1>2, <2>3, <2>4, MineStays DEF HandleEvent, Types, hostVars, agentVars
<1>3. CASE HandleStatus(s)
  <2>0. feed[s] # <<>> /\ feed' = [feed EXCEPT ![s] = Tail(feed[s])]
    BY <1>3 DEF HandleStatus
  <2>1. feed' \in [Server -> Seq(Message)]
    BY <2>0, <1>1
  <2>2. Good(s, Head(feed[s]), host)
    BY <2>0, <1>1 DEF Sound
  <2>3. agentState' \in {"online", "offline"}
    <3>1. None \notin Container /\ Head(feed[s]).c = None
      BY <1>3, ViewSentinelAssumption DEF HandleStatus
    <3> QED BY <1>3, <2>2, <3>1 DEF HandleStatus, Good, Status
  <2>4. serverId # None => Asked({Job("list", serverId, None)}) \subseteq Jobs
    BY MineIn, AskedType DEF Types
  <2>5. jobs' \subseteq Jobs
    BY <1>3, <2>4 DEF HandleStatus, Types
  <2> QED BY <1>3, <2>1, <2>3, <2>5, MineStays DEF HandleStatus, Types, hostVars, agentVars
<1>4. CASE OpenPage(s)
  <2>1. Asked({Job("list", s, None)}) \subseteq Jobs
    BY AskedType
  <2> QED BY <1>4, <2>1, MineStays DEF OpenPage, Types, hostVars, agentVars
<1>5. CASE OtherTabAsks(s)
  <2>1. \A c \in Container, q \in Question : Job(q, s, c) \in Jobs
    BY NewJob
  <2>2. Job("list", s, None) \in Jobs
    BY NewJob
  <2>3. jobs' \subseteq Jobs
    BY <1>5, <2>1, <2>2 DEF OtherTabAsks, Types, Existing
  <2>4. steps' \in 0..MaxSteps
    BY <1>5, StepsAssumption DEF OtherTabAsks, Types
  <2> QED BY <1>5, <2>3, <2>4, MineStays DEF OtherTabAsks, Types, hostVars, agentVars, tabVars
<1> QED BY <1>2, <1>3, <1>4, <1>5

LEMMA PageTypes ==
    ASSUME Types, Sound,
           \/ \E c \in Container : \/ \E act \in Command : Press(c, act)
                                   \/ \E q \in Question : OpenModal(q, c)
           \/ CloseModal \/ LeavePage \/ SocketLost
    PROVE  Types'
<1>1. ASSUME NEW c \in Container, NEW act \in Command, Press(c, act) PROVE Types'
  <2>1. steps' \in 0..MaxSteps
    BY <1>1, StepsAssumption DEF Press, Types
  <2>2. Asked({Job(act, serverId, c)}) \subseteq Jobs
    BY <1>1, MineIn, AskedType DEF Press, Mounted, Types
  <2> QED BY <1>1, <2>1, <2>2, MineStays DEF Press, Types, hostVars, agentVars, tabVars
<1>2. ASSUME NEW c \in Container, NEW q \in Question, OpenModal(q, c) PROVE Types'
  <2>1. Asked({Job(q, serverId, c)}) \subseteq Jobs
    BY <1>2, MineIn, AskedType DEF OpenModal, Mounted, Types
  <2>2. [containerId |-> c, content |-> None, loading |-> TRUE] \in Modal
    BY DEF Modal
  <2>3. logs' \in Modal /\ inspect' \in Modal
    BY <1>2, <2>2 DEF OpenModal, Types
  <2> QED BY <1>2, <2>1, <2>3, MineStays DEF OpenModal, Types, hostVars, agentVars
<1>3. CASE CloseModal
  <2>1. Closed \in Modal
    BY DEF Closed, Modal
  <2> QED BY <1>3, <2>1, MineStays DEF CloseModal, Types, hostVars, agentVars
<1>4. CASE LeavePage
  BY <1>4, MineStays DEF LeavePage, Types, hostVars, agentVars
<1>5. CASE SocketLost
  BY <1>5, MineStays DEF SocketLost, Types, hostVars, agentVars
<1> QED BY <1>1, <1>2, <1>3, <1>4, <1>5

LEMMA TypesStep ==
    ASSUME Types, Sound, [Next]_vars PROVE Types'
<1>1. CASE Next
  BY <1>1, DockerTypes, JobTypes, AgentTypes, TabTypes, PageTypes DEF Next
<1>2. CASE UNCHANGED vars
  BY <1>2, MineStays DEF vars, hostVars, agentVars, tabVars, Types
<1> QED BY <1>1, <1>2

-----------------------------------------------------------------------------
(* Which actions change what.                                              *)

Changes ==
    /\ env' = env
    /\ host' = host \/ \E c \in Container : DockerStep(c)
    /\ \/ script' = script
       \/ \E c \in Container : DockerStep(c) \/ ByHand(c)
       \/ \E j \in jobs : Begin(j) \/ StartFails(j)
    /\ \/ online' = online /\ watching' = watching
       \/ \E s \in Server : AgentLost(s) \/ AgentBack(s) \/ StreamOpens(s)
    /\ \/ feed' = feed
       \/ \E c \in Container : DockerStep(c)
       \/ \E s \in Server : \/ AgentLost(s) \/ AgentBack(s) \/ HandleEvent(s) \/ HandleStatus(s)
                            \/ Overtakes(s) \/ Missed(s)
    /\ \/ jobs' \subseteq jobs
       \/ \E c \in Container : Deploy(c) \/ (\E act \in Command : Press(c, act))
                                         \/ (\E q \in Question : OpenModal(q, c))
       \/ \E j \in jobs : ReadList(j) \/ Begin(j) \/ HandleResult(j)
       \/ \E s \in Server : AgentBack(s) \/ HandleStatus(s) \/ OpenPage(s) \/ OtherTabAsks(s)
    /\ \/ containers' = containers
       \/ \E j \in jobs : HandleList(j) \/ HandleResult(j)
       \/ \E s \in Server : HandleEvent(s)
    /\ connected' = connected \/ (connected' = FALSE /\ SocketLost)
    /\ agentState' = agentState \/ \E s \in Server : HandleStatus(s)
    /\ serverId' = serverId \/ LeavePage \/ \E s \in Server : OpenPage(s)
    /\ \/ logs' = logs /\ inspect' = inspect
       \/ CloseModal \/ \E j \in jobs : HandleAnswer(j)
       \/ \E c \in Container : \E q \in Question : OpenModal(q, c)

LEMMA Frames == ASSUME [Next]_vars PROVE Changes
<1>1. ASSUME NEW c \in Container, DockerStep(c) PROVE Changes
  <2>1. UNCHANGED <<env, agentVars, jobs, tabVars, steps>>
    BY <1>1 DEF DockerStep
  <2> QED BY <1>1, <2>1 DEF Changes, hostVars, agentVars, tabVars
<1>2. ASSUME NEW c \in Container, ByHand(c) PROVE Changes
  <2>1. UNCHANGED <<env, host, agentVars, feed, jobs, tabVars>>
    BY <1>2 DEF ByHand
  <2> QED BY <1>2, <2>1 DEF Changes, hostVars, agentVars, tabVars
<1>3. ASSUME NEW c \in Container, Deploy(c) \/ \E act \in Command : Press(c, act) PROVE Changes
  <2>1. UNCHANGED <<env, hostVars, agentVars, feed, tabVars>>
    BY <1>3 DEF Deploy, Press
  <2> QED BY <1>3, <2>1 DEF Changes, hostVars, agentVars, tabVars
<1>4. ASSUME NEW j \in jobs, ReadList(j) \/ Refuse(j) \/ Drop(j) PROVE Changes
  <2>1. /\ UNCHANGED <<env, hostVars, agentVars, feed, tabVars, steps>>
        /\ ReadList(j) \/ jobs' \subseteq jobs
    BY <1>4 DEF ReadList, Refuse, Drop
  <2> QED BY <1>4, <2>1 DEF Changes, hostVars, agentVars, tabVars
<1>5. ASSUME NEW j \in jobs, Begin(j) \/ StartFails(j) PROVE Changes
  <2>1. /\ UNCHANGED <<env, host, agentVars, feed, tabVars, steps>>
        /\ Begin(j) \/ jobs' \subseteq jobs
    BY <1>5 DEF Begin, StartFails
  <2> QED BY <1>5, <2>1 DEF Changes, hostVars, agentVars, tabVars
<1>6. ASSUME NEW j \in jobs, HandleList(j) \/ HandleResult(j) PROVE Changes
  <2>1. /\ UNCHANGED <<env, hostVars, agentVars, feed, connected, agentState,
                     serverId, logs, inspect, steps>>
        /\ HandleResult(j) \/ jobs' \subseteq jobs
    BY <1>6 DEF HandleList, HandleResult
  <2> QED BY <1>6, <2>1 DEF Changes, hostVars, agentVars, tabVars
<1>7. ASSUME NEW j \in jobs, HandleAnswer(j) PROVE Changes
  <2>1. /\ UNCHANGED <<env, hostVars, agentVars, feed, connected, agentState,
                     serverId, containers, steps>>
        /\ jobs' \subseteq jobs
    BY <1>7 DEF HandleAnswer
  <2> QED BY <1>7, <2>1 DEF Changes, hostVars, agentVars, tabVars
<1>8. ASSUME NEW s \in Server, AgentLost(s) PROVE Changes
  <2>1. UNCHANGED <<env, hostVars, jobs, tabVars>>
    BY <1>8 DEF AgentLost
  <2> QED BY <1>8, <2>1 DEF Changes, hostVars, agentVars, tabVars
<1>9. ASSUME NEW s \in Server, AgentBack(s) PROVE Changes
  <2>1. UNCHANGED <<env, hostVars, watching, tabVars, steps>>
    BY <1>9 DEF AgentBack
  <2> QED BY <1>9, <2>1 DEF Changes, hostVars, agentVars, tabVars
<1>10. ASSUME NEW s \in Server, StreamOpens(s) PROVE Changes
  <2>1. UNCHANGED <<env, hostVars, online, feed, jobs, tabVars, steps>>
    BY <1>10 DEF StreamOpens
  <2> QED BY <1>10, <2>1 DEF Changes, hostVars, agentVars, tabVars
<1>11. ASSUME NEW s \in Server, HandleEvent(s) PROVE Changes
  <2>1. UNCHANGED <<env, hostVars, agentVars, jobs, connected, agentState,
                     serverId, logs, inspect, steps>>
    BY <1>11 DEF HandleEvent
  <2> QED BY <1>11, <2>1 DEF Changes, hostVars, agentVars, tabVars
<1>12. ASSUME NEW s \in Server, HandleStatus(s) PROVE Changes
  <2>1. UNCHANGED <<env, hostVars, agentVars, connected, serverId,
                     containers, logs, inspect, steps>>
    BY <1>12 DEF HandleStatus
  <2> QED BY <1>12, <2>1 DEF Changes, hostVars, agentVars, tabVars
<1>13. ASSUME NEW s \in Server, OpenPage(s) PROVE Changes
  <2>1. UNCHANGED <<env, hostVars, agentVars, feed, connected, agentState,
                     containers, logs, inspect, steps>>
    BY <1>13 DEF OpenPage
  <2> QED BY <1>13, <2>1 DEF Changes, hostVars, agentVars, tabVars
<1>14. ASSUME NEW s \in Server, OtherTabAsks(s) PROVE Changes
  <2>1. UNCHANGED <<env, hostVars, agentVars, feed, tabVars>>
    BY <1>14 DEF OtherTabAsks
  <2> QED BY <1>14, <2>1 DEF Changes, hostVars, agentVars, tabVars
<1>15. ASSUME NEW c \in Container, NEW q \in Question, OpenModal(q, c) PROVE Changes
  <2>1. UNCHANGED <<env, hostVars, agentVars, feed, connected, agentState,
                     serverId, containers, steps>>
    BY <1>15 DEF OpenModal
  <2> QED BY <1>15, <2>1 DEF Changes, hostVars, agentVars, tabVars
<1>16. ASSUME CloseModal PROVE Changes
  <2>1. UNCHANGED <<env, hostVars, agentVars, feed, jobs, connected, agentState,
                     serverId, containers, steps>>
    BY <1>16 DEF CloseModal
  <2> QED BY <1>16, <2>1 DEF Changes, hostVars, agentVars, tabVars
<1>17. ASSUME LeavePage PROVE Changes
  <2>1. UNCHANGED <<env, hostVars, agentVars, feed, jobs, connected, agentState,
                     containers, logs, inspect, steps>>
    BY <1>17 DEF LeavePage
  <2> QED BY <1>17, <2>1 DEF Changes, hostVars, agentVars, tabVars
<1>18. ASSUME SocketLost PROVE Changes
  <2>1. /\ UNCHANGED <<env, hostVars, agentVars, feed, jobs, agentState, serverId,
                     containers, logs, inspect, steps>>
        /\ connected' = FALSE
    BY <1>18 DEF SocketLost
  <2> QED BY <1>18, <2>1 DEF Changes, hostVars, agentVars, tabVars
<1>19. CASE UNCHANGED vars
  BY <1>19 DEF vars, hostVars, agentVars, tabVars, Changes
<1>20. ASSUME NEW s \in Server, Overtakes(s) \/ Missed(s) PROVE Changes
  <2>1. UNCHANGED <<env, hostVars, agentVars, jobs, tabVars, steps>>
    BY <1>20 DEF Overtakes, Missed
  <2> QED BY <1>20, <2>1 DEF Changes, hostVars, agentVars, tabVars
<1> QED BY <1>1, <1>2, <1>3, <1>4, <1>5, <1>6, <1>7, <1>8, <1>9, <1>10, <1>11, <1>12, <1>13,
          <1>14, <1>15, <1>16, <1>17, <1>18, <1>19, <1>20 DEF Next


(* A queue with one more message, and with the first one taken.            *)
LEMMA Queued ==
    ASSUME NEW S, NEW q \in Seq(S), NEW m \in S
    PROVE  /\ Append(q, m) \in Seq(S) /\ Len(Append(q, m)) = Len(q) + 1 /\ Len(q) \in Nat
           /\ \A i \in 1..Len(q) : Append(q, m)[i] = q[i]
           /\ Append(q, m)[Len(q) + 1] = m
BY AppendProperties, LenProperties

LEMMA Taken ==
    ASSUME NEW S, NEW q \in Seq(S), q # <<>>
    PROVE  /\ Tail(q) \in Seq(S) /\ Len(Tail(q)) = Len(q) - 1 /\ Len(q) \in Nat /\ Len(q) >= 1
           /\ \A i \in 1..Len(Tail(q)) : Tail(q)[i] = q[i + 1]
           /\ Head(q) = q[1] /\ Head(q) \in S /\ 1 \in 1..Len(q)
<1>1. /\ Tail(q) \in Seq(S) /\ Len(Tail(q)) = Len(q) - 1 /\ Head(q) \in S
      /\ \A i \in 1..Len(Tail(q)) : Tail(q)[i] = q[i + 1]
  BY HeadTailProperties
<1>2. Len(q) \in Nat /\ Len(q) >= 1 /\ Head(q) = q[1]
  OBVIOUS
<1> QED BY <1>1, <1>2

LEMMA Shorter == ASSUME NEW S, NEW q \in Seq(S), q # <<>> PROVE Tail(q) # q
<1> DEFINE t == Tail(q)
<1>1. Len(t) = Len(q) - 1 /\ Len(q) \in Nat
  BY Taken
<1> HIDE DEF t
<1>2. t # q
  BY <1>1
<1> QED BY <1>2 DEF t

LEMMA StaysBorn ==
    ASSUME Types, Sound, [Next]_vars
    PROVE  \A c \in Container : host[c] # "unborn" => host'[c] # "unborn"
<1>1. CASE host' = host
  BY <1>1
<1>2. ASSUME NEW c \in Container, DockerStep(c)
      PROVE  \A d \in Container : host[d] # "unborn" => host'[d] # "unborn"
  BY <1>2 DEF DockerStep, After, Types
<1> QED BY <1>1, <1>2, Frames DEF Changes

(* What is reported is of a container that is there.                       *)
LEMMA ReportGood ==
    ASSUME Types, Sound, NEW c \in Container, DockerStep(c)
    PROVE  /\ [c |-> c, e |-> Head(script[c])] \in Message /\ Head(script[c]) \in Event
           /\ host'[c] # "unborn" /\ ServerOf[c] \in Server
           /\ script'[c] \in Seq(Event) /\ GoodScript(script'[c], host'[c])
           /\ host' = [host EXCEPT ![c] = After(Head(script[c]), host[c])]
           /\ script' = [script EXCEPT ![c] = Tail(script[c])]
<1>1. script[c] \in Seq(Event) /\ script[c] # <<>> /\ host[c] \in State
  BY DEF DockerStep, Types
<1>2. GoodScript(script[c], host[c])
  BY DEF Sound
<1>3. Head(script[c]) \in Event /\ Head(script[c]) = script[c][1]
  BY <1>1, Taken
<1>4. After(Head(script[c]), host[c]) # "unborn"
  BY <1>1, <1>2, <1>3 DEF GoodScript, After
<1>5. Tail(script[c]) \in Seq(Event) /\ GoodScript(Tail(script[c]), After(Head(script[c]), host[c]))
  BY <1>1, <1>2, TailGood
<1>6. /\ host' = [host EXCEPT ![c] = After(Head(script[c]), host[c])]
      /\ script' = [script EXCEPT ![c] = Tail(script[c])]
  BY DEF DockerStep
<1>7. host'[c] = After(Head(script[c]), host[c]) /\ script'[c] = Tail(script[c])
  BY <1>6 DEF Types
<1> QED BY <1>3, <1>4, <1>5, <1>6, <1>7, ServerOfAssumption DEF Message

LEMMA FeedGood ==
    ASSUME Types, Sound, [Next]_vars, NEW s \in Server, NEW i \in 1..Len(feed'[s])
    PROVE  Good(s, feed'[s][i], host')
<1>0. feed[s] \in Seq(Message)
  BY DEF Types
<1>1. \A k \in 1..Len(feed[s]) : Good(s, feed[s][k], host')
  BY StaysBorn DEF Sound, Good
<1>2. CASE feed' = feed
  BY <1>1, <1>2
<1>3. ASSUME NEW c \in Container, DockerStep(c) PROVE Good(s, feed'[s][i], host')
  <2> DEFINE m == [c |-> c, e |-> Head(script[c])]
  <2>1. m \in Message /\ host'[c] # "unborn" /\ Head(script[c]) \in Event
    BY <1>3, ReportGood
  <2>2. feed'[s] = feed[s] \/ (ServerOf[c] = s /\ feed'[s] = Append(feed[s], m))
    BY <1>3 DEF DockerStep, Types
  <2>3. ServerOf[c] = s => Good(s, m, host')
    BY <2>1 DEF Good
  <2> HIDE DEF m
  <2> QED BY <1>0, <1>1, <2>1, <2>2, <2>3, Queued
<1>4. ASSUME NEW t \in Server, AgentLost(t) PROVE Good(s, feed'[s][i], host')
  <2> DEFINE m == [c |-> None, e |-> "offline"]
  <2>1. PICK n \in 0..Len(feed[t]) :
           \/ feed' = [feed EXCEPT ![t] = Append(SubSeq(feed[t], 1, n), m)]
           \/ feed' = [feed EXCEPT ![t] = SubSeq(feed[t], 1, n)]
    BY <1>4 DEF AgentLost
  <2>2. Good(s, m, host') /\ m \in Message
    BY DEF Good, Status, Message
  <2> HIDE DEF m
  <2>3. CASE s # t
    BY <1>1, <2>1, <2>3 DEF Types
  <2>4. CASE s = t
    <3> DEFINE q == SubSeq(feed[s], 1, n)
    <3>1. q \in Seq(Message) /\ Len(q) = n /\ n <= Len(feed[s]) /\ \A k \in 1..n : q[k] = feed[s][k]
      BY <1>0, <2>4, KeptType, LenProperties
    <3>2. feed'[s] = Append(q, m) \/ feed'[s] = q
      BY <2>1, <2>4 DEF Types
    <3> HIDE DEF q
    <3>3. \A k \in 1..Len(q) : Good(s, q[k], host')
      BY <1>0, <1>1, <3>1, LenProperties
    <3> QED BY <2>2, <3>1, <3>2, <3>3, Queued
  <2> QED BY <2>3, <2>4
<1>5. ASSUME NEW t \in Server, AgentBack(t) PROVE Good(s, feed'[s][i], host')
  <2> DEFINE m == [c |-> None, e |-> "online"]
  <2>1. feed'[s] = feed[s] \/ feed'[s] = Append(feed[s], m)
    BY <1>5 DEF AgentBack, Types
  <2>2. Good(s, m, host') /\ m \in Message
    BY DEF Good, Status, Message
  <2> HIDE DEF m
  <2> QED BY <1>0, <1>1, <2>1, <2>2, Queued
<1>6. ASSUME NEW t \in Server, HandleEvent(t) \/ HandleStatus(t) PROVE Good(s, feed'[s][i], host')
  <2>1. feed[t] # <<>> /\ feed' = [feed EXCEPT ![t] = Tail(feed[t])]
    BY <1>6 DEF HandleEvent, HandleStatus
  <2>2. feed'[s] = feed[s] \/ (feed[s] # <<>> /\ feed'[s] = Tail(feed[s]))
    BY <2>1 DEF Types
  <2>3. CASE feed'[s] = feed[s]
    BY <1>1, <2>3
  <2>4. CASE feed[s] # <<>> /\ feed'[s] = Tail(feed[s])
    <3>1. feed'[s][i] = feed[s][i + 1] /\ i + 1 \in 1..Len(feed[s])
      BY <1>0, <2>4, Taken
    <3> QED BY <1>1, <3>1
  <2> QED BY <2>2, <2>3, <2>4
<1>7. ASSUME NEW t \in Server, Overtakes(t) \/ Missed(t) PROVE Good(s, feed'[s][i], host')
  BY <1>1, <1>7, Disordered
<1> QED BY <1>2, <1>3, <1>4, <1>5, <1>6, <1>7, Frames DEF Changes

LEMMA ScriptGood ==
    ASSUME Types, Sound, [Next]_vars, NEW d \in Container
    PROVE  GoodScript(script[d], host[d])'
<1>0. GoodScript(script[d], host[d]) /\ env' = env
  BY Frames DEF Sound, Changes
<1>1. \A sc, st : GoodScript(sc, st) => (sc = script'[d] /\ st = host'[d] => GoodScript(script[d], host[d])')
  BY <1>0 DEF GoodScript
<1>2. ASSUME NEW c \in Container, DockerStep(c) PROVE GoodScript(script[d], host[d])'
  BY <1>0, <1>1, <1>2, ReportGood DEF Types
<1>3. ASSUME NEW c \in Container, ByHand(c) PROVE GoodScript(script[d], host[d])'
  <2>1. host' = host
    BY <1>3 DEF ByHand
  <2>2. CASE c # d
    <3>1. script'[d] = script[d]
      BY <1>3, <2>2 DEF ByHand, Types
    <3> QED BY <1>0, <1>1, <2>1, <3>1
  <2>3. CASE c = d
    <3>1. \/ host[d] = "running" /\ script'[d] \in {<<"die">>, <<"die", "start">>}
          \/ \E act \in Command : host[d] \in Allowed(act) /\ script'[d] = Events(act, host[d])
          \/ host[d] = "running" /\ script'[d] = <<"kill">> /\ "signal" \in env
      BY <1>3, <2>3 DEF ByHand, Types, Command
    <3>2. GoodScript(<<"die">>, "running") /\ GoodScript(<<"die", "start">>, "running")
      BY DEF GoodScript
    <3>3. "signal" \in env => GoodScript(<<"kill">>, "running")
      BY DEF GoodScript
    <3> QED BY <1>1, <2>1, <3>1, <3>2, <3>3, EventsGood
  <2> QED BY <2>2, <2>3
<1>4. ASSUME NEW j \in jobs, Begin(j) PROVE GoodScript(script[d], host[d])'
  <2>1. host' = host
    BY <1>4 DEF Begin
  <2>2. CASE j.c # d
    <3>1. script'[d] = script[d]
      BY <1>4, <2>2 DEF Begin, Types
    <3> QED BY <1>0, <1>1, <2>1, <3>1
  <2>3. CASE j.c = d
    <3>1. j.act \in Command /\ host[d] \in Allowed(j.act) /\ script'[d] = Events(j.act, host[d])
      BY <1>4, <2>3 DEF Begin, Types
    <3> QED BY <1>1, <2>1, <3>1, EventsGood
  <2> QED BY <2>2, <2>3
<1>5. ASSUME NEW j \in jobs, StartFails(j) PROVE GoodScript(script[d], host[d])'
  <2>1. host' = host /\ (script'[d] = script[d] \/ script'[d] = <<>>)
    BY <1>5 DEF StartFails, Types
  <2>2. GoodScript(<<>>, host[d])
    BY DEF GoodScript
  <2> QED BY <1>0, <1>1, <2>1, <2>2
<1>6. CASE host' = host /\ script' = script
  BY <1>0, <1>1, <1>6
<1>7. \/ host' = host /\ script' = script
      \/ \E c \in Container : DockerStep(c) \/ ByHand(c)
      \/ \E j \in jobs : Begin(j) \/ StartFails(j)
  BY Frames DEF Changes
<1> QED BY <1>2, <1>3, <1>4, <1>5, <1>6, <1>7


LEMMA JobsGood ==
    ASSUME Types, Sound, [Next]_vars, NEW j \in jobs'
    PROVE  GoodJob(j, host')
<1>0. env' = env /\ mine' = mine /\ mine \subseteq Server
  BY Frames, MineStays, MineIn DEF Changes
<1>1. ASSUME NEW k \in jobs PROVE GoodJob(k, host')
  <2>1. GoodJob(k, host) /\ k \in Jobs
    BY DEF Sound, Types
  <2>2. DOMAIN k.list \subseteq Container
    BY <2>1, PartialOf DEF Jobs
  <2>3. k.act \in Question => k.c \in Container
    BY <2>1 DEF GoodJob, Question
  <2> QED BY <1>0, <2>1, <2>2, <2>3, StaysBorn DEF GoodJob
<1>2. ASSUME NEW act \in Command \cup {"list"}, NEW s \in mine, NEW c,
             act # "list" => c \in Container
      PROVE  GoodJob(Job(act, s, c), host')
  BY <1>0, <1>2 DEF GoodJob, Job, Command, Question
<1>3. ASSUME NEW s \in Server PROVE GoodJob(Job("list", s, None), host')
  BY DEF GoodJob, Job, Command, Question
<1>4. ASSUME NEW q \in Question, NEW s \in mine, NEW c \in Container, host[c] # "unborn",
             "otherServer" \notin env => ServerOf[c] = s
      PROVE  GoodJob(Job(q, s, c), host')
  <2>1. host'[c] # "unborn"
    BY <1>4, StaysBorn
  <2> QED BY <1>0, <1>4, <2>1 DEF GoodJob, Job, Command, Question
<1>5. CASE jobs' \subseteq jobs
  BY <1>1, <1>5
<1>6. ASSUME NEW c \in Container, Deploy(c) PROVE GoodJob(j, host')
  <2>1. jobs' \subseteq jobs \cup {Job("create", serverId, c)} /\ serverId \in mine
    BY <1>6, ViewSentinelAssumption DEF Deploy, Asked, Mounted, Types
  <2>2. GoodJob(Job("create", serverId, c), host')
    BY <1>2, <2>1 DEF Command
  <2> QED BY <1>1, <2>1, <2>2
<1>7. ASSUME NEW c \in Container, NEW act \in Command, Press(c, act) PROVE GoodJob(j, host')
  <2>1. jobs' \subseteq jobs \cup {Job(act, serverId, c)} /\ serverId \in mine
    BY <1>7 DEF Press, Asked, Mounted, Types
  <2>2. GoodJob(Job(act, serverId, c), host')
    BY <1>2, <2>1
  <2> QED BY <1>1, <2>1, <2>2
<1>8. ASSUME NEW c \in Container, NEW q \in Question, OpenModal(q, c) PROVE GoodJob(j, host')
  <2>1. jobs' \subseteq jobs \cup {Job(q, serverId, c)} /\ serverId \in mine /\ c \in DOMAIN containers
    BY <1>8 DEF OpenModal, Asked, Mounted, Types
  <2>2. ServerOf[c] \in mine /\ host[c] # "unborn"
    BY <2>1 DEF Sound
  <2>3. "otherServer" \notin env => ServerOf[c] = serverId
    BY <2>1, <2>2 DEF mine
  <2>4. GoodJob(Job(q, serverId, c), host')
    BY <1>4, <2>1, <2>2, <2>3
  <2> QED BY <1>1, <2>1, <2>4
<1>9. ASSUME NEW k \in jobs, ReadList(k) PROVE GoodJob(j, host')
  <2> DEFINE l == [c \in Existing(k.server) |-> host[c]]
             r == [k EXCEPT !.at = "read", !.list = l]
  <2>1. jobs' \subseteq jobs \cup {r} /\ k.act = "list" /\ k \in Jobs
    BY <1>9 DEF ReadList, Types
  <2>2. r.act = "list" /\ r.server = k.server /\ r.list = l /\ r.at = "read"
    BY <2>1 DEF Jobs
  <2>3. \A c \in DOMAIN l : c \in Container /\ ServerOf[c] = k.server /\ host[c] # "unborn"
    BY DEF Existing
  <2>4. DOMAIN r.list = DOMAIN l
    BY <2>2
  <2> HIDE DEF l, r
  <2>5. GoodJob(r, host')
    BY <2>2, <2>3, <2>4, StaysBorn DEF GoodJob, Question
  <2> QED BY <1>1, <2>1, <2>5
<1>10. ASSUME NEW k \in jobs, Begin(k) PROVE GoodJob(j, host')
  <2> DEFINE r == [k EXCEPT !.at = "doing"]
  <2>1. jobs' \subseteq jobs \cup {r} /\ k.act \in Command /\ k \in Jobs
    BY <1>10 DEF Begin, Types
  <2>2. r.act = k.act /\ r.server = k.server /\ r.list = k.list /\ r.at = "doing" /\ r.c = k.c
    BY <2>1 DEF Jobs
  <2> HIDE DEF r
  <2>3. GoodJob(k, host')
    BY <1>1
  <2>4. GoodJob(r, host')
    BY <2>1, <2>2, <2>3 DEF GoodJob
  <2> QED BY <1>1, <2>1, <2>4
<1>11. ASSUME NEW k \in jobs, HandleResult(k) PROVE GoodJob(j, host')
  <2>1. jobs' \subseteq jobs \/ (serverId \in mine /\ jobs' \subseteq jobs \cup {Job("list", serverId, None)})
    BY <1>11 DEF HandleResult, Asked, Mounted, Types
  <2> QED BY <1>0, <1>1, <1>3, <2>1
<1>12. ASSUME NEW s \in Server, AgentBack(s) \/ HandleStatus(s) \/ OpenPage(s) PROVE GoodJob(j, host')
  <2>1. \/ jobs' \subseteq jobs \/ jobs' \subseteq jobs \cup {Job("list", s, None)}
        \/ serverId \in mine /\ jobs' \subseteq jobs \cup {Job("list", serverId, None)}
    BY <1>12 DEF AgentBack, HandleStatus, OpenPage, Asked, Types
  <2> QED BY <1>0, <1>1, <1>3, <2>1
<1>13. ASSUME NEW s \in Server, OtherTabAsks(s) PROVE GoodJob(j, host')
  <2>1. \/ jobs' = jobs \cup {Job("list", s, None)}
        \/ \E c \in Existing(s), q \in Question : jobs' = jobs \cup {Job(q, s, c)}
    BY <1>13 DEF OtherTabAsks
  <2>2. s \in mine
    BY <1>13 DEF OtherTabAsks
  <2>3. \A c \in Existing(s), q \in Question : GoodJob(Job(q, s, c), host')
    BY <1>4, <2>2 DEF Existing
  <2> QED BY <1>1, <1>3, <2>1, <2>3
<1> QED BY <1>5, <1>6, <1>7, <1>8, <1>9, <1>10, <1>11, <1>12, <1>13, Frames DEF Changes

LEMMA RowsGood ==
    ASSUME Types, Sound, [Next]_vars, NEW c \in DOMAIN containers'
    PROVE  ServerOf[c] \in mine /\ host'[c] # "unborn"
<1>1. CASE c \in DOMAIN containers
  BY <1>1, StaysBorn, PartialOf DEF Sound, Types
<1>2. ASSUME NEW j \in jobs, HandleList(j) PROVE ServerOf[c] \in mine /\ host'[c] # "unborn"
  <2>1. j \in Jobs /\ GoodJob(j, host) /\ j.server \in mine
    BY <1>2 DEF HandleList, Sound, Types
  <2>2. c \in DOMAIN j.list /\ c \in Container
    BY <1>2, <2>1, PartialOf DEF HandleList, Jobs
  <2> QED BY <2>1, <2>2, StaysBorn DEF GoodJob
<1>3. ASSUME NEW j \in jobs, HandleResult(j) PROVE c \in DOMAIN containers
  BY <1>3 DEF HandleResult
<1>4. ASSUME NEW s \in Server, HandleEvent(s) PROVE c \in DOMAIN containers
  BY <1>4 DEF HandleEvent
<1> QED BY <1>1, <1>2, <1>3, <1>4, Frames DEF Changes

LEMMA StreamsGood ==
    ASSUME Types, Sound, [Next]_vars, NEW s \in Server, watching'[s]
    PROVE  online'[s]
<1>1. watching[s] => online[s]
  BY DEF Sound
<1>2. ASSUME NEW t \in Server, AgentLost(t) \/ AgentBack(t) \/ StreamOpens(t) PROVE online'[s]
  BY <1>1, <1>2 DEF AgentLost, AgentBack, StreamOpens, Types
<1> QED BY <1>1, <1>2, Frames DEF Changes

LEMMA BaseInit == Init => BaseInv
<1> SUFFICES ASSUME Init PROVE BaseInv
  OBVIOUS
<1>1. Types
  <2>1. [c |-> None, e |-> "online"] \in Message /\ Closed \in Modal
    BY DEF Message, Status, Closed, Modal
  <2>2. feed \in [Server -> Seq(Message)]
    BY <2>1 DEF Init
  <2>3. script \in [Container -> Seq(Event)]
    BY DEF Init
  <2>4. containers \in Partial(Row)
    BY EmptyPartial DEF Init
  <2> QED BY <2>1, <2>2, <2>3, <2>4, MineIn, StepsAssumption DEF Init, Types, State
<1>2. Sound
  <2>1. \A s \in Server : \A i \in 1..Len(feed[s]) : Good(s, feed[s][i], host)
    BY DEF Init, Good, Status
  <2>2. \A c \in Container : GoodScript(script[c], host[c])
    BY DEF Init, GoodScript
  <2>3. DOMAIN containers = {}
    BY DEF Init
  <2> QED BY <2>1, <2>2, <2>3 DEF Sound, Init
<1> QED BY <1>1, <1>2 DEF BaseInv

LEMMA BaseNext == BaseInv /\ [Next]_vars => BaseInv'
<1> SUFFICES ASSUME Types, Sound, [Next]_vars PROVE Types' /\ Sound'
  BY DEF BaseInv
<1>1. mine' = mine
  BY Frames, MineStays DEF Changes
<1>2. Types'
  BY TypesStep
<1>3. Sound'
  <2>1. \A s \in Server : watching'[s] => online'[s]
    BY StreamsGood
  <2>2. \A s \in Server : \A i \in 1..Len(feed'[s]) : Good(s, feed'[s][i], host')
    BY FeedGood
  <2>3. \A c \in Container : GoodScript(script[c], host[c])'
    BY ScriptGood
  <2>4. \A j \in jobs' : GoodJob(j, host)'
    <3>1. env' = env
      BY Frames DEF Changes
    <3>2. \A j \in jobs' : GoodJob(j, host')
      BY JobsGood
    <3> QED BY <1>1, <3>1, <3>2 DEF GoodJob
  <2>5. \A c \in DOMAIN containers' : ServerOf[c] \in mine' /\ host'[c] # "unborn"
    BY <1>1, RowsGood
  <2> QED BY <2>1, <2>2, <2>3, <2>4, <2>5 DEF Sound, Good
<1> QED BY <1>2, <1>3

LEMMA BaseAlways == Spec => []BaseInv
BY BaseInit, BaseNext, PTL DEF Spec

LEMMA BaseTypes == BaseInv => TypeOK
<1> SUFFICES ASSUME Types, Sound PROVE TypeOK
  BY DEF BaseInv
<1>3. \A j \in jobs : /\ j.act \in Command \cup Question \cup {"list"}
                      /\ j.server \in Server /\ j.c \in Container \cup {None}
                      /\ j.at \in {"asked", "doing", "read"}
                      /\ j.list \in [DOMAIN j.list -> State]
                      /\ DOMAIN j.list \subseteq Container
  BY PartialOf DEF Types, Jobs
<1>4. DOMAIN containers \subseteq Container /\ containers \in [DOMAIN containers -> Row]
  BY PartialOf DEF Types
<1>5. serverId \in Server \cup {None}
  BY MineIn DEF Types
<1> QED BY <1>3, <1>4, <1>5 DEF Types, TypeOK

(* Every variable of the tab, the agents and Docker keeps its type.        *)
THEOREM TypeCorrect == Spec => []TypeOK
BY BaseAlways, BaseTypes, PTL

-----------------------------------------------------------------------------
(* The modals.                                                             *)

Waits(modal, q) ==
    modal.loading /\ host[modal.containerId] # "gone" =>
        \E j \in jobs : j.act = q /\ j.c = modal.containerId

ModalInv ==
    /\ logs.content \in {None, logs.containerId}
    /\ logs.containerId = None => ~logs.loading
    /\ inspect.containerId = None => ~inspect.loading
    /\ env \cap {"early", "otherTab"} = {} =>
          /\ inspect.content \in {None, inspect.containerId}
          /\ inspect.containerId # None =>
                \A j \in jobs : j.act = "inspect" => j.c = inspect.containerId
    /\ env \cap {"refuses", "readFails", "agentLeaves", "socketLost", "otherServer"} = {} =>
          /\ connected /\ \A s \in Server : online[s]
          /\ Waits(logs, "logs") /\ Waits(inspect, "inspect")

(* What a request becomes.                                                 *)
LEMMA ReadJob ==
    ASSUME Types, NEW j \in jobs, ReadList(j)
    PROVE  \E r \in Jobs : /\ jobs' = (jobs \ {j}) \cup {r} /\ r.act = "list" /\ r.at = "read"
                          /\ r.server = j.server /\ r.c = j.c /\ j.act = "list"
                          /\ r.list = [c \in Existing(j.server) |-> host[c]]
<1> DEFINE l == [c \in Existing(j.server) |-> host[c]]
           r == [j EXCEPT !.at = "read", !.list = l]
<1>1. j \in Jobs /\ j.act = "list" /\ jobs' = (jobs \ {j}) \cup {r}
  BY DEF ReadList, Types
<1>2. r \in Jobs
  BY <1>1, ReadType
<1>3. r.act = "list" /\ r.server = j.server /\ r.list = l /\ r.at = "read" /\ r.c = j.c
  BY <1>1 DEF Jobs
<1> HIDE DEF r
<1> QED BY <1>1, <1>2, <1>3

LEMMA BegunJob ==
    ASSUME Types, NEW j \in jobs, Begin(j)
    PROVE  \E r \in Jobs : /\ jobs' = (jobs \ {j}) \cup {r} /\ r.act = j.act /\ r.at = "doing"
                          /\ r.server = j.server /\ r.c = j.c /\ j.act \in Command
<1> DEFINE r == [j EXCEPT !.at = "doing"]
<1>1. j \in Jobs /\ j.act \in Command /\ jobs' = (jobs \ {j}) \cup {r}
  BY DEF Begin, Types
<1>2. r \in Jobs
  BY <1>1 DEF Jobs
<1>3. r.act = j.act /\ r.server = j.server /\ r.at = "doing" /\ r.c = j.c
  BY <1>1 DEF Jobs
<1> HIDE DEF r
<1> QED BY <1>1, <1>2, <1>3

(* A question stays until it is answered, refused or lost.                 *)
LEMMA QuestionStays ==
    ASSUME Types, Sound, [Next]_vars, NEW k \in jobs, k.act \in Question, k \notin jobs'
    PROVE  Refuse(k) \/ Drop(k) \/ HandleAnswer(k)
<1>1. k.act \notin Command /\ k.act # "list" /\ k.at # "doing"
  BY DEF Question, Command, Sound, GoodJob
<1>2. ASSUME NEW c \in Container, DockerStep(c) \/ ByHand(c) \/ Deploy(c) PROVE FALSE
  BY <1>2 DEF DockerStep, ByHand, Deploy
<1>3. ASSUME NEW j \in jobs, ReadList(j) \/ HandleList(j) PROVE FALSE
  BY <1>1, <1>3 DEF ReadList, HandleList
<1>4. ASSUME NEW j \in jobs, Begin(j) \/ StartFails(j) PROVE FALSE
  BY <1>1, <1>4 DEF Begin, StartFails
<1>5. ASSUME NEW j \in jobs, HandleResult(j) PROVE FALSE
  BY <1>1, <1>5 DEF HandleResult
<1>6. ASSUME NEW j \in jobs, Refuse(j) \/ Drop(j) \/ HandleAnswer(j) PROVE j = k
  BY <1>6 DEF Refuse, Drop, HandleAnswer
<1>7. ASSUME NEW s \in Server, \/ AgentLost(s) \/ AgentBack(s) \/ StreamOpens(s) \/ HandleEvent(s)
                               \/ HandleStatus(s) \/ OpenPage(s) \/ OtherTabAsks(s)
                               \/ Overtakes(s) \/ Missed(s)
      PROVE  FALSE
  BY <1>7 DEF AgentLost, AgentBack, StreamOpens, HandleEvent, HandleStatus, OpenPage, OtherTabAsks, Overtakes, Missed
<1>8. ASSUME NEW c \in Container, \/ \E act \in Command : Press(c, act)
                                  \/ \E q \in Question : OpenModal(q, c)
      PROVE  FALSE
  BY <1>8 DEF Press, OpenModal
<1>9. ~CloseModal /\ ~LeavePage /\ ~SocketLost /\ vars' # vars
  BY DEF CloseModal, LeavePage, SocketLost, vars
<1> QED BY <1>2, <1>3, <1>4, <1>5, <1>6, <1>7, <1>8, <1>9 DEF Next

(* Questions come from a modal that opens, or from another tab.            *)
LEMMA NewQuestion ==
    ASSUME Types, Sound, [Next]_vars, NEW k \in jobs', k.act \in Question, k \notin jobs
    PROVE  \/ "otherTab" \in env
           \/ \E q \in Question, c \in Container : OpenModal(q, c) /\ k.act = q /\ k.c = c
<1>0. \A act, s, c : Job(act, s, c).act = act /\ Job(act, s, c).c = c
  BY DEF Job
<1>1. k.act \notin Command /\ k.act # "list"
  BY DEF Question, Command
<1>2. ASSUME NEW c \in Container, Deploy(c) \/ \E act \in Command : Press(c, act) PROVE FALSE
  BY <1>0, <1>1, <1>2 DEF Deploy, Press, Asked, Command
<1>3. ASSUME NEW j \in jobs, ReadList(j) \/ Begin(j) PROVE FALSE
  BY <1>1, <1>3, ReadJob, BegunJob
<1>4. ASSUME NEW j \in jobs, HandleResult(j) PROVE FALSE
  BY <1>0, <1>1, <1>4 DEF HandleResult, Asked
<1>5. ASSUME NEW s \in Server, AgentBack(s) \/ HandleStatus(s) \/ OpenPage(s) PROVE FALSE
  BY <1>0, <1>1, <1>5 DEF AgentBack, HandleStatus, OpenPage, Asked
<1>6. ASSUME NEW s \in Server, OtherTabAsks(s) PROVE "otherTab" \in env
  BY <1>6 DEF OtherTabAsks
<1>7. ASSUME NEW c \in Container, NEW q \in Question, OpenModal(q, c) PROVE k.act = q /\ k.c = c
  BY <1>0, <1>7 DEF OpenModal, Asked
<1> QED BY <1>2, <1>3, <1>4, <1>5, <1>6, <1>7, Frames DEF Changes

(* What the two stores become.                                             *)
LEMMA ModalChange ==
    ASSUME Types, [Next]_vars
    PROVE  \/ logs' = logs /\ inspect' = inspect
           \/ logs' = Closed /\ inspect' = Closed
           \/ \E j \in jobs : HandleAnswer(j) /\ j.act = "logs" /\ logs' = SetLines(j.c) /\ inspect' = inspect
           \/ \E j \in jobs : HandleAnswer(j) /\ j.act = "inspect" /\ inspect' = SetData(j.c) /\ logs' = logs
           \/ \E c \in Container : /\ OpenModal("logs", c) /\ inspect' = inspect
                                   /\ logs' = [containerId |-> c, content |-> None, loading |-> TRUE]
           \/ \E c \in Container : /\ OpenModal("inspect", c) /\ logs' = logs
                                   /\ inspect' = [containerId |-> c, content |-> None, loading |-> TRUE]
<1>1. CASE CloseModal
  BY <1>1 DEF CloseModal
<1>2. ASSUME NEW j \in jobs, HandleAnswer(j)
      PROVE  \/ j.act = "logs" /\ logs' = SetLines(j.c) /\ inspect' = inspect
             \/ j.act = "inspect" /\ inspect' = SetData(j.c) /\ logs' = logs
  BY <1>2 DEF HandleAnswer, Question
<1>3. ASSUME NEW c \in Container, NEW q \in Question, OpenModal(q, c)
      PROVE  \/ /\ q = "logs" /\ inspect' = inspect
                /\ logs' = [containerId |-> c, content |-> None, loading |-> TRUE]
             \/ /\ q = "inspect" /\ logs' = logs
                /\ inspect' = [containerId |-> c, content |-> None, loading |-> TRUE]
  BY <1>3 DEF OpenModal, Question
<1> QED BY <1>1, <1>2, <1>3, Frames DEF Changes

LEMMA ModalContents ==
    ASSUME Types, Sound, ModalInv, [Next]_vars
    PROVE  /\ logs'.content \in {None, logs'.containerId}
           /\ logs'.containerId = None => ~logs'.loading
           /\ inspect'.containerId = None => ~inspect'.loading
           /\ env \cap {"early", "otherTab"} = {} => inspect'.content \in {None, inspect'.containerId}
<1>0. logs \in Modal /\ inspect \in Modal
  BY DEF Types
<1>1. /\ logs.content \in {None, logs.containerId}
      /\ logs.containerId = None => ~logs.loading
      /\ inspect.containerId = None => ~inspect.loading
      /\ env \cap {"early", "otherTab"} = {} =>
           /\ inspect.content \in {None, inspect.containerId}
           /\ inspect.containerId # None =>
                 \A j \in jobs : j.act = "inspect" => j.c = inspect.containerId
  BY DEF ModalInv
<1>2. CASE logs' = logs /\ inspect' = inspect
  BY <1>1, <1>2
<1>3. CASE logs' = Closed /\ inspect' = Closed
  BY <1>3 DEF Closed
<1>4. ASSUME NEW j \in jobs, HandleAnswer(j), logs' = SetLines(j.c), inspect' = inspect
      PROVE  /\ logs'.content \in {None, logs'.containerId}
             /\ logs'.containerId = None => ~logs'.loading
  BY <1>0, <1>1, <1>4 DEF SetLines, Modal
<1>5. ASSUME NEW j \in jobs, HandleAnswer(j), j.act = "inspect", inspect' = SetData(j.c), logs' = logs
      PROVE  /\ inspect'.containerId = None => ~inspect'.loading
             /\ env \cap {"early", "otherTab"} = {} => inspect'.content \in {None, inspect'.containerId}
  BY <1>0, <1>1, <1>5 DEF SetData, Modal
<1>6. ASSUME NEW c \in Container, logs' = [containerId |-> c, content |-> None, loading |-> TRUE]
      PROVE  logs'.content = None /\ logs'.containerId # None
  BY <1>6, ViewSentinelAssumption
<1>7. ASSUME NEW c \in Container, inspect' = [containerId |-> c, content |-> None, loading |-> TRUE]
      PROVE  inspect'.content = None /\ inspect'.containerId # None
  BY <1>7, ViewSentinelAssumption
<1> QED BY <1>1, <1>2, <1>3, <1>4, <1>5, <1>6, <1>7, ModalChange


LEMMA InspectionsAsked ==
    ASSUME Types, Sound, ModalInv, [Next]_vars, env \cap {"early", "otherTab"} = {},
           inspect'.containerId # None, NEW k \in jobs', k.act = "inspect"
    PROVE  k.c = inspect'.containerId
<1>1. inspect.containerId # None => \A j \in jobs : j.act = "inspect" => j.c = inspect.containerId
  BY DEF ModalInv
<1>2. ASSUME NEW q \in Question, NEW c \in Container, OpenModal(q, c)
      PROVE  /\ inspect.containerId = None /\ \A j \in jobs : j.act # "inspect"
             /\ q = "logs" => inspect' = inspect
             /\ q = "inspect" => inspect'.containerId = c
  BY <1>2 DEF OpenModal, NoModal, Question
<1>3. k \in jobs \/ \E q \in Question, c \in Container : OpenModal(q, c) /\ k.act = q /\ k.c = c
  BY NewQuestion DEF Question
<1>4. ASSUME NEW q \in Question, NEW c \in Container, OpenModal(q, c), k.act = q, k.c = c
      PROVE  k.c = inspect'.containerId
  BY <1>2, <1>4
<1>5. CASE k \in jobs /\ \A q \in Question, c \in Container : ~OpenModal(q, c)
  <2>1. inspect'.containerId = inspect.containerId \/ inspect'.containerId = None
    <3>1. \A c : SetData(c).containerId = inspect.containerId
      BY DEF SetData, Types, Modal
    <3>2. Closed.containerId = None
      BY DEF Closed
    <3>3. "inspect" \in Question /\ "logs" \in Question
      BY DEF Question
    <3> QED BY <1>5, <3>1, <3>2, <3>3, ModalChange
  <2> QED BY <1>1, <1>5, <2>1
<1>6. ASSUME NEW q \in Question, NEW c \in Container, OpenModal(q, c), k \in jobs PROVE FALSE
  BY <1>2, <1>6
<1> QED BY <1>3, <1>4, <1>5, <1>6

(* A removed container stays removed.                                      *)
LEMMA StaysGone ==
    ASSUME Types, Sound, [Next]_vars
    PROVE  \A c \in Container : host[c] = "gone" => host'[c] = "gone"
<1>1. ASSUME NEW c \in Container, DockerStep(c)
      PROVE  host[c] # "gone" /\ host' = [host EXCEPT ![c] = After(Head(script[c]), @)]
  BY <1>1 DEF DockerStep, Sound, GoodScript
<1> QED BY <1>1, Frames DEF Changes, Types

Steady == env \cap {"refuses", "readFails", "agentLeaves", "socketLost", "otherServer"} = {}

(* While every connection holds and Docker refuses nothing, a question is  *)
(* answered, or its container is gone.                                     *)
LEMMA Answered ==
    ASSUME Types, Sound, ModalInv, Steady, [Next]_vars, NEW k \in jobs, k.act \in Question,
           k \notin jobs', host'[k.c] # "gone"
    PROVE  HandleAnswer(k)
<1>1. /\ k.c \in Container /\ host[k.c] # "unborn" /\ ServerOf[k.c] = k.server
  BY DEF Steady, Sound, GoodJob, Question
<1>2. host[k.c] # "gone"
  BY <1>1, StaysGone
<1>3. k.c \in Existing(k.server)
  BY <1>1, <1>2 DEF Existing
<1>4. online[k.server]
  BY DEF ModalInv, Steady, Types, Jobs
<1>5. ~Refuse(k)
  BY <1>3 DEF Refuse, Steady, Question, Command
<1>6. ~Drop(k)
  BY <1>4 DEF Drop, Steady
<1> QED BY <1>5, <1>6, QuestionStays

LEMMA SteadyStep ==
    ASSUME Types, Sound, ModalInv, Steady, [Next]_vars
    PROVE  connected' /\ \A s \in Server : online'[s]
<1>0. connected /\ \A s \in Server : online[s]
  BY DEF ModalInv, Steady
<1>1. ~SocketLost
  BY DEF SocketLost, Steady
<1>2. \A s \in Server : ~AgentLost(s)
  BY DEF AgentLost, Steady
<1>3. ASSUME NEW t \in Server, AgentBack(t) \/ StreamOpens(t) PROVE \A s \in Server : online'[s]
  BY <1>0, <1>3 DEF AgentBack, StreamOpens, Types
<1> QED BY <1>0, <1>1, <1>2, <1>3, Frames DEF Changes

(* A modal that still turns has its question.                              *)
LEMMA QuestionKept ==
    ASSUME Types, Sound, ModalInv, Steady, [Next]_vars, NEW q \in Question, NEW c \in Container,
           host'[c] # "gone", host[c] # "gone" => \E j \in jobs : j.act = q /\ j.c = c
    PROVE  (\E j \in jobs' : j.act = q /\ j.c = c) \/ \E j \in jobs : j.act = q /\ j.c = c /\ HandleAnswer(j)
BY StaysGone, Answered

LEMMA ModalOpened ==
    ASSUME Types, ModalInv, Steady, NEW q \in Question, NEW c \in Container, OpenModal(q, c)
    PROVE  /\ \E j \in jobs' : j.act = q /\ j.c = c
           /\ ~logs.loading /\ ~inspect.loading
<1>1. connected /\ \A s \in Server : online[s]
  BY DEF ModalInv, Steady
<1>2. serverId \in Server
  BY MineIn DEF OpenModal, Mounted, Types
<1>3. Job(q, serverId, c) \in Asked({Job(q, serverId, c)}) /\ Job(q, serverId, c).act = q /\ Job(q, serverId, c).c = c
  BY <1>1, <1>2 DEF Asked, Job
<1>4. jobs' = jobs \cup Asked({Job(q, serverId, c)})
  BY DEF OpenModal
<1>5. ~logs.loading /\ ~inspect.loading
  BY DEF OpenModal, NoModal, ModalInv
<1> QED BY <1>3, <1>4, <1>5

LEMMA LogsWait ==
    ASSUME Types, Sound, ModalInv, Steady, [Next]_vars, logs'.loading, host'[logs'.containerId] # "gone"
    PROVE  \E j \in jobs' : j.act = "logs" /\ j.c = logs'.containerId
<1>0. logs \in Modal /\ Waits(logs, "logs") /\ (logs.containerId = None => ~logs.loading)
  BY DEF Types, ModalInv, Steady
<1>1. ASSUME logs' = logs PROVE \E j \in jobs' : j.act = "logs" /\ j.c = logs'.containerId
  <2>1. logs.containerId \in Container
    BY <1>0, <1>1 DEF Modal
  <2>2. host[logs.containerId] # "gone" => \E j \in jobs : j.act = "logs" /\ j.c = logs.containerId
    BY <1>0, <1>1 DEF Waits
  <2>3. \A j \in jobs : HandleAnswer(j) /\ j.act = "logs" /\ j.c = logs.containerId => FALSE
    <3>1. SetLines(logs.containerId).loading = FALSE
      BY <1>0 DEF SetLines, Modal
    <3> QED BY <1>1, <3>1 DEF HandleAnswer
  <2> QED BY <1>1, <2>1, <2>2, <2>3, QuestionKept DEF Question
<1>2. ASSUME NEW j \in jobs, HandleAnswer(j), logs' = SetLines(j.c) PROVE logs' = logs
  BY <1>0, <1>2 DEF SetLines, Modal
<1>3. ASSUME NEW c \in Container, OpenModal("logs", c),
             logs' = [containerId |-> c, content |-> None, loading |-> TRUE]
      PROVE  \E j \in jobs' : j.act = "logs" /\ j.c = logs'.containerId
  <2>1. logs'.containerId = c
    BY <1>3
  <2> QED BY <1>3, <2>1, ModalOpened DEF Question
<1>4. logs' # Closed
  BY DEF Closed
<1> QED BY <1>1, <1>2, <1>3, <1>4, ModalChange

LEMMA InspectWaits ==
    ASSUME Types, Sound, ModalInv, Steady, [Next]_vars, inspect'.loading,
           host'[inspect'.containerId] # "gone"
    PROVE  \E j \in jobs' : j.act = "inspect" /\ j.c = inspect'.containerId
<1>0. inspect \in Modal /\ Waits(inspect, "inspect") /\ (inspect.containerId = None => ~inspect.loading)
  BY DEF Types, ModalInv, Steady
<1>1. ASSUME inspect' = inspect PROVE \E j \in jobs' : j.act = "inspect" /\ j.c = inspect'.containerId
  <2>1. inspect.containerId \in Container
    BY <1>0, <1>1 DEF Modal
  <2>2. host[inspect.containerId] # "gone" => \E j \in jobs : j.act = "inspect" /\ j.c = inspect.containerId
    BY <1>0, <1>1 DEF Waits
  <2>3. \A j \in jobs : HandleAnswer(j) /\ j.act = "inspect" => FALSE
    <3>1. \A c : SetData(c).loading = FALSE
      BY <1>0, <2>1, ViewSentinelAssumption DEF SetData, Modal
    <3> QED BY <1>1, <3>1 DEF HandleAnswer
  <2> QED BY <1>1, <2>1, <2>2, <2>3, QuestionKept DEF Question
<1>2. ASSUME NEW j \in jobs, HandleAnswer(j), inspect' = SetData(j.c) PROVE inspect' = inspect
  BY <1>0, <1>2 DEF SetData, Modal
<1>3. ASSUME NEW c \in Container, OpenModal("inspect", c),
             inspect' = [containerId |-> c, content |-> None, loading |-> TRUE]
      PROVE  \E j \in jobs' : j.act = "inspect" /\ j.c = inspect'.containerId
  <2>1. inspect'.containerId = c
    BY <1>3
  <2> QED BY <1>3, <2>1, ModalOpened DEF Question
<1>4. inspect' # Closed
  BY DEF Closed
<1> QED BY <1>1, <1>2, <1>3, <1>4, ModalChange

LEMMA ModalNext == BaseInv /\ ModalInv /\ [Next]_vars => ModalInv'
<1> SUFFICES ASSUME Types, Sound, ModalInv, [Next]_vars PROVE ModalInv'
  BY DEF BaseInv
<1>1. env' = env
  BY Frames DEF Changes
<1>2. env \cap {"early", "otherTab"} = {} /\ inspect'.containerId # None =>
         \A k \in jobs' : k.act = "inspect" => k.c = inspect'.containerId
  BY InspectionsAsked
<1>3. Steady => Waits(logs, "logs")' /\ Waits(inspect, "inspect")'
  BY LogsWait, InspectWaits DEF Waits
<1>4. Steady => connected' /\ \A s \in Server : online'[s]
  BY SteadyStep
<1> QED BY <1>1, <1>2, <1>3, <1>4, ModalContents DEF ModalInv, Steady

LEMMA ModalInit == Init => ModalInv
BY DEF Init, ModalInv, Closed, Waits

LEMMA ModalHolds == BaseInv /\ ModalInv => ModalTrue
BY DEF ModalInv, ModalTrue, Waits, Question

(* A modal shows its own container, and its spinner turns only while its   *)
(* answer is under way, in the circumstances that ModalTrue names.         *)
THEOREM ModalShowsItsOwn == Spec => []ModalTrue
BY BaseAlways, ModalInit, ModalNext, ModalHolds, PTL DEF Spec

-----------------------------------------------------------------------------
(* The messages on their way to the tab.                                   *)

Report(c) == [c |-> c, e |-> Head(script[c])]
Said(e) == [c |-> None, e |-> e]

(* The backend passes every message on, in its turn.                       *)
InOrder == env \cap {"slowRead", "readFails"} = {}

LEMMA FeedCases ==
    ASSUME Types, Sound, InOrder, [Next]_vars, NEW s \in Server
    PROVE  \/ /\ feed'[s] = feed[s] /\ (watching[s] => watching'[s])
              /\ \A c \in Container : DockerStep(c) /\ ServerOf[c] = s => ~watching[s]
           \/ \E c \in Container : /\ DockerStep(c) /\ ServerOf[c] = s /\ online[s] /\ watching'[s]
                                   /\ feed'[s] = Append(feed[s], Report(c))
           \/ /\ AgentLost(s) /\ script' = script /\ host' = host
              /\ \E n \in 0..Len(feed[s]) :
                    \/ feed'[s] = Append(SubSeq(feed[s], 1, n), Said("offline"))
                    \/ "unnoticed" \in env /\ feed'[s] = SubSeq(feed[s], 1, n)
           \/ /\ AgentBack(s) /\ script' = script /\ host' = host /\ watching' = watching
              /\ feed'[s] = Append(feed[s], Said("online"))
           \/ /\ HandleEvent(s) \/ HandleStatus(s)
              /\ script' = script /\ host' = host /\ watching' = watching /\ s \in mine
              /\ feed[s] # <<>> /\ feed'[s] = Tail(feed[s])
<1> DEFINE Same == /\ feed'[s] = feed[s] /\ (watching[s] => watching'[s])
                   /\ \A c \in Container : DockerStep(c) /\ ServerOf[c] = s => ~watching[s]
<1>1. ASSUME NEW c \in Container, DockerStep(c)
      PROVE  \/ Same
             \/ /\ ServerOf[c] = s /\ online[s] /\ watching'[s]
                /\ feed'[s] = Append(feed[s], Report(c))
  <2>1. watching' = watching /\ script' = [script EXCEPT ![c] = Tail(script[c])] /\ script[c] # <<>>
    BY <1>1 DEF DockerStep, agentVars
  <2>2. CASE ServerOf[c] = s /\ watching[s]
    <3>1. online[s]
      BY <2>2 DEF Sound
    <3> QED BY <1>1, <2>1, <2>2, <3>1 DEF DockerStep, Types, Report
  <2>3. CASE ServerOf[c] # s
    <3>1. feed'[s] = feed[s]
      BY <1>1, <2>3 DEF DockerStep, Types
    <3>2. \A d \in Container : DockerStep(d) => d = c
      <4>1. ASSUME NEW d \in Container, DockerStep(d), d # c PROVE FALSE
        <5>1. script'[c] = script[c]
          BY <4>1 DEF DockerStep, Types
        <5>2. script'[c] = Tail(script[c]) /\ script[c] \in Seq(Event)
          BY <2>1 DEF Types
        <5> QED BY <2>1, <5>1, <5>2, Shorter
      <4> QED BY <4>1
    <3> QED BY <2>1, <2>3, <3>1, <3>2
  <2>4. CASE ServerOf[c] = s /\ ~watching[s]
    <3>1. feed'[s] = feed[s]
      BY <1>1, <2>4 DEF DockerStep
    <3> QED BY <2>1, <2>4, <3>1
  <2> QED BY <2>2, <2>3, <2>4
<1>2. ASSUME NEW t \in Server, AgentLost(t)
      PROVE  \/ Same
             \/ /\ t = s /\ script' = script /\ host' = host
                /\ \E n \in 0..Len(feed[s]) :
                      \/ feed'[s] = Append(SubSeq(feed[s], 1, n), Said("offline"))
                      \/ "unnoticed" \in env /\ feed'[s] = SubSeq(feed[s], 1, n)
  <2>1. PICK n \in 0..Len(feed[t]) :
           \/ feed' = [feed EXCEPT ![t] = Append(SubSeq(feed[t], 1, n), Said("offline"))]
           \/ "unnoticed" \in env /\ feed' = [feed EXCEPT ![t] = SubSeq(feed[t], 1, n)]
    BY <1>2 DEF AgentLost, Said
  <2>2. /\ watching' = [watching EXCEPT ![t] = FALSE] /\ online' = [online EXCEPT ![t] = FALSE]
        /\ online[t] /\ script' = script /\ host' = host
    BY <1>2 DEF AgentLost, hostVars
  <2>3. \A c \in Container : ~DockerStep(c)
    BY <2>2 DEF DockerStep, agentVars, Types
  <2>4. CASE t # s
    BY <2>1, <2>2, <2>3, <2>4 DEF Types
  <2>5. CASE t = s
    BY <2>1, <2>2, <2>5 DEF Types
  <2> QED BY <2>4, <2>5
<1>3. ASSUME NEW t \in Server, AgentBack(t)
      PROVE  \/ Same
             \/ /\ t = s /\ script' = script /\ host' = host /\ watching' = watching
                /\ feed'[s] = Append(feed[s], Said("online"))
  <2>1. /\ feed' = [feed EXCEPT ![t] = Append(feed[t], Said("online"))]
        /\ online' = [online EXCEPT ![t] = TRUE] /\ ~online[t]
        /\ script' = script /\ host' = host /\ watching' = watching
    BY <1>3 DEF AgentBack, Said, hostVars
  <2>2. \A c \in Container : ~DockerStep(c)
    BY <2>1 DEF DockerStep, agentVars, Types
  <2> QED BY <2>1, <2>2 DEF Types
<1>4. ASSUME NEW t \in Server, HandleEvent(t) \/ HandleStatus(t)
      PROVE  \/ Same
             \/ /\ t = s /\ script' = script /\ host' = host /\ watching' = watching /\ s \in mine
                /\ feed[s] # <<>> /\ feed'[s] = Tail(feed[s])
  <2>1. /\ feed' = [feed EXCEPT ![t] = Tail(feed[t])] /\ feed[t] # <<>> /\ t \in mine
        /\ script' = script /\ host' = host /\ watching' = watching
    BY <1>4 DEF HandleEvent, HandleStatus, hostVars, agentVars
  <2>2. \A c \in Container : ~DockerStep(c)
    <3>1. ASSUME NEW c \in Container, DockerStep(c) PROVE FALSE
      <4>1. script[c] \in Seq(Event) /\ script[c] # <<>> /\ script'[c] = Tail(script[c])
        BY <3>1 DEF DockerStep, Types
      <4> QED BY <2>1, <4>1, Shorter
    <3> QED BY <3>1
  <2> QED BY <2>1, <2>2 DEF Types
<1>5. ASSUME feed' = feed, \A c \in Container : ~DockerStep(c), \A t \in Server : ~AgentLost(t) PROVE Same
  <2>1. ASSUME NEW t \in Server, AgentBack(t) \/ StreamOpens(t) PROVE watching[s] => watching'[s]
    BY <2>1 DEF AgentBack, StreamOpens, Types
  <2> QED BY <1>5, <2>1, Frames DEF Changes
<1>6. \A t \in Server : ~Overtakes(t) /\ ~Missed(t)
  BY DEF Overtakes, Missed, InOrder
<1> QED BY <1>1, <1>2, <1>3, <1>4, <1>5, <1>6, Frames DEF Changes

-----------------------------------------------------------------------------
(* The process marks.                                                      *)

OfflineIn(s) == \E i \in 1..Len(feed[s]) : feed[s][i].e = "offline"

(* The page is not open, or a list is on its way to it, or the tab will be *)
(* told that the agent is offline.                                         *)
Due ==
    \/ ~Mounted \/ OfflineIn(Mine)
    \/ \E j \in jobs : j.act = "list" /\ j.server = Mine

(* The tab is told last what an agent that is offline is.                  *)
OfflineSeen ==
    ~online[Mine] => IF feed[Mine] = <<>> THEN agentState = "offline"
                                          ELSE feed[Mine][Len(feed[Mine])].e = "offline"

StillThere == \A s \in Server : online[s] /\ watching[s] /\ ~OfflineIn(s)

Dying(c) == script[c] # <<>> /\ Head(script[c]) = "die"

(* After message i of server s the tab hears that c has ended, or that the *)
(* agent is offline.                                                       *)
EndsAfter(s, i, c) ==
    \/ \E k \in i + 1..Len(feed[s]) :
          feed[s][k].e = "offline" \/ (feed[s][k].e = "die" /\ feed[s][k].c = c)
    \/ watching[s] /\ Dying(c)

ProcCond ==
    /\ env \cap {"signal", "unnoticed", "slowRead", "readFails"} = {}
    /\ "agentLeaves" \in env => env \cap {"otherServer", "listFails"} = {}

(* The page gets the list it asks for, and no other server's.              *)
Listed == env \cap {"otherServer", "listFails"} = {}

KillsEnd ==
    \A s \in Server : \A i \in 1..Len(feed[s]) :
        feed[s][i].e = "kill" => EndsAfter(s, i, feed[s][i].c)

MarksDue ==
    connected => \A c \in DOMAIN containers : containers[c].process =>
        EndsAfter(ServerOf[c], 0, c) \/ (Listed /\ Due)

ProcInv ==
    ProcCond =>
        /\ "otherServer" \notin env => OfflineSeen
        /\ "agentLeaves" \notin env => StillThere
        /\ KillsEnd /\ MarksDue

LEMMA Messages ==
    ASSUME Types, Sound, NEW s \in Server
    PROVE  /\ feed[s] \in Seq(Message) /\ Len(feed[s]) \in Nat
           /\ \A i \in 1..Len(feed[s]) :
                 /\ feed[s][i].c = None => feed[s][i].e \in Status
                 /\ feed[s][i].c # None => /\ feed[s][i].c \in Container /\ feed[s][i].e \in Event
                                           /\ ServerOf[feed[s][i].c] = s
BY LenProperties, ViewSentinelAssumption DEF Types, Sound, Good

LEMMA Saying ==
    /\ \A e \in Status : Said(e) \in Message /\ Said(e).e = e /\ Said(e).c = None
    /\ \A e \in Status : e \notin Event
    /\ \A c \in Container : Head(script[c]) \in Event =>
          Report(c) \in Message /\ Report(c).c = c /\ Report(c).e = Head(script[c])
BY DEF Said, Report, Message, Status, Event

(* An agent that is gone: the tab was told, or will be.                    *)
LEMMA OfflineStep ==
    ASSUME Types, Sound, InOrder, OfflineSeen, [Next]_vars, "otherServer" \notin env, "unnoticed" \notin env
    PROVE  OfflineSeen'
<1> DEFINE q == feed[Mine]  p == feed'[Mine]
<1>0. Mine \in Server /\ mine = {Mine}
  BY ServerOfAssumption DEF mine
<1>1. /\ q \in Seq(Message) /\ Len(q) \in Nat
      /\ \A i \in 1..Len(q) : q[i].c # None => q[i].e # "offline"
  BY <1>0, Messages DEF Event
<1>s. SUFFICES ASSUME ~online'[Mine]
      PROVE  IF p = <<>> THEN agentState' = "offline" ELSE p[Len(p)].e = "offline"
  BY DEF OfflineSeen
<1>2. CASE AgentLost(Mine)
  <2>1. PICK n \in 0..Len(q) : p = Append(SubSeq(q, 1, n), Said("offline"))
    <3>1. ~(\E c \in Container : DockerStep(c) /\ online[Mine] /\ watching'[Mine])
      BY <1>0, <1>2 DEF AgentLost, Types
    <3> QED BY <1>0, <1>2, FeedCases DEF AgentLost, Said, Types
  <2>2. SubSeq(q, 1, n) \in Seq(Message)
    BY <1>1, KeptType
  <2>3. p # <<>> /\ p[Len(p)] = Said("offline")
    BY <2>1, <2>2, Saying, Queued DEF Status
  <2> QED BY <2>3, Saying DEF Status
<1>3. CASE ~AgentLost(Mine)
  <2>1. ~online[Mine] /\ ~AgentBack(Mine)
    <3>1. ~AgentBack(Mine)
      BY <1>0, <1>s DEF AgentBack, Types
    <3>2. ASSUME NEW t \in Server, AgentLost(t) \/ AgentBack(t) \/ StreamOpens(t)
          PROVE  ~online[Mine]
      BY <1>0, <1>s, <1>3, <3>2 DEF AgentLost, AgentBack, StreamOpens, Types
    <3> QED BY <1>s, <3>1, <3>2, Frames DEF Changes
  <2>2. IF q = <<>> THEN agentState = "offline" ELSE q[Len(q)].e = "offline"
    BY <2>1 DEF OfflineSeen
  <2>3. CASE p = q /\ agentState' = agentState
    BY <2>2, <2>3
  <2>4. CASE HandleStatus(Mine)
    <3>1. q # <<>> /\ p = Tail(q) /\ agentState' = Head(q).e
      BY <1>0, <2>4 DEF HandleStatus, Types
    <3>2. /\ Len(p) = Len(q) - 1 /\ \A i \in 1..Len(p) : p[i] = q[i + 1]
          /\ Head(q) = q[1] /\ p \in Seq(Message) /\ Len(p) \in Nat
      BY <1>1, <3>1, Taken, LenProperties
    <3>3. p = <<>> => Len(q) = 1
      BY <3>2
    <3>4. p # <<>> => Len(p) \in 1..Len(p) /\ p[Len(p)] = q[Len(q)]
      <4> HIDE DEF p, q
      <4>1. p # <<>> => Len(p) > 0
        BY <3>2
      <4> QED BY <3>2, <4>1
    <3> QED BY <2>2, <3>1, <3>2, <3>3, <3>4
  <2>5. CASE HandleEvent(Mine)
    <3>1. q # <<>> /\ p = Tail(q) /\ Head(q).c # None
      BY <1>0, <2>5 DEF HandleEvent, Types
    <3>2. /\ Len(p) = Len(q) - 1 /\ \A i \in 1..Len(p) : p[i] = q[i + 1] /\ 1 \in 1..Len(q)
          /\ Head(q) = q[1] /\ p \in Seq(Message) /\ Len(p) \in Nat
      BY <1>1, <3>1, Taken, LenProperties
    <3>3. p = <<>> => Len(q) = 1
      BY <3>2
    <3>4. p # <<>> => p[Len(p)] = q[Len(q)]
      <4> HIDE DEF p, q
      <4>1. p # <<>> => Len(p) > 0
        BY <3>2
      <4> QED BY <3>2, <4>1
    <3> QED BY <1>1, <2>2, <3>1, <3>2, <3>3, <3>4
  <2>6. \A t \in Server : HandleStatus(t) => t = Mine
    BY <1>0 DEF HandleStatus
  <2> QED BY <1>0, <1>3, <2>1, <2>3, <2>4, <2>5, <2>6, FeedCases, Frames DEF Changes
<1> QED BY <1>2, <1>3

LEMMA StillThereStep ==
    ASSUME Types, Sound, InOrder, StillThere, [Next]_vars, "agentLeaves" \notin env
    PROVE  StillThere'
<1> SUFFICES ASSUME NEW s \in Server PROVE online'[s] /\ watching'[s] /\ ~OfflineIn(s)'
  BY DEF StillThere
<1>0. \A t \in Server : online[t] /\ watching[t]
  BY DEF StillThere
<1>1. \A t \in Server : ~AgentLost(t) /\ ~AgentBack(t) /\ ~StreamOpens(t)
  BY <1>0 DEF AgentLost, AgentBack, StreamOpens
<1>2. online' = online /\ watching' = watching
  BY <1>1, Frames DEF Changes
<1>3. /\ feed[s] \in Seq(Message) /\ Len(feed[s]) \in Nat
      /\ \A i \in 1..Len(feed[s]) : feed[s][i].e # "offline"
  BY Messages DEF StillThere, OfflineIn
<1>4. ASSUME NEW c \in Container, DockerStep(c), feed'[s] = Append(feed[s], Report(c)),
             NEW i \in 1..Len(feed'[s])
      PROVE  feed'[s][i].e # "offline"
  <2>1. Report(c) \in Message /\ Report(c).e # "offline"
    BY <1>4, ReportGood, Saying DEF Event
  <2> QED BY <1>3, <1>4, <2>1, Queued
<1>5. ASSUME feed[s] # <<>>, feed'[s] = Tail(feed[s]), NEW i \in 1..Len(feed'[s])
      PROVE  feed'[s][i].e # "offline"
  <2>1. i + 1 \in 1..Len(feed[s]) /\ feed'[s][i] = feed[s][i + 1]
    BY <1>3, <1>5, Taken
  <2> QED BY <1>3, <2>1
<1> QED BY <1>0, <1>1, <1>2, <1>3, <1>4, <1>5, FeedCases DEF OfflineIn


LEMMA DyingStep ==
    ASSUME Types, Sound, [Next]_vars, NEW d \in Container, Dying(d)
    PROVE  Dying(d)' \/ (DockerStep(d) /\ Head(script[d]) = "die")
<1>1. ASSUME NEW c \in Container, DockerStep(c) PROVE c = d \/ script'[d] = script[d]
  BY <1>1 DEF DockerStep, Types
<1>2. ASSUME NEW c \in Container, ByHand(c) PROVE script'[d] = script[d]
  BY <1>2 DEF ByHand, Types, Dying
<1>3. ASSUME NEW j \in jobs, Begin(j) PROVE script'[d] = script[d]
  BY <1>3 DEF Begin, Types, Dying
<1>4. ASSUME NEW j \in jobs, StartFails(j) PROVE script'[d] = script[d]
  <2>1. script[j.c] = <<"start">> /\ script' = [script EXCEPT ![j.c] = <<>>]
    BY <1>4 DEF StartFails
  <2>2. Head(<<"start">>) # "die"
    OBVIOUS
  <2>3. j.c # d
    BY <2>1, <2>2 DEF Dying
  <2> QED BY <2>1, <2>3 DEF Types
<1> QED BY <1>1, <1>2, <1>3, <1>4, Frames DEF Changes, Dying

(* What is to come comes, as the messages before it are taken.             *)
LEMMA EndsStep ==
    ASSUME Types, Sound, InOrder, [Next]_vars, "unnoticed" \notin env, NEW d \in Container,
           NEW s \in Server, s = ServerOf[d], NEW i \in 0..Len(feed[s]), EndsAfter(s, i, d)
    PROVE  \/ EndsAfter(s, i, d)'
           \/ AgentLost(s) /\ i > Len(feed'[s]) - 1
           \/ /\ feed[s] # <<>> /\ feed'[s] = Tail(feed[s]) /\ (HandleEvent(s) \/ HandleStatus(s))
              /\ \/ i > 0 /\ EndsAfter(s, i - 1, d)'
                 \/ i = 0 /\ Head(feed[s]).e = "offline"
                 \/ i = 0 /\ Head(feed[s]).e = "die" /\ Head(feed[s]).c = d
<1> DEFINE q == feed[s]  p == feed'[s]
<1>0. q \in Seq(Message) /\ Len(q) \in Nat /\ i \in Nat /\ i <= Len(q)
  BY Messages
<1>1. \/ \E k \in i + 1..Len(q) : q[k].e = "offline" \/ (q[k].e = "die" /\ q[k].c = d)
      \/ watching[s] /\ Dying(d)
  BY DEF EndsAfter
<1>2. CASE AgentLost(s)
  <2>1. PICK n \in 0..Len(q) : p = Append(SubSeq(q, 1, n), Said("offline"))
    <3>1. ~(\E c \in Container : DockerStep(c) /\ online[s] /\ watching'[s])
      BY <1>2 DEF AgentLost, Types
    <3> QED BY <1>2, FeedCases DEF AgentLost, Said, Types
  <2>2. SubSeq(q, 1, n) \in Seq(Message)
    BY <1>0, KeptType
  <2>3. Len(p) \in Nat /\ Len(p) >= 1 /\ p[Len(p)] = Said("offline")
    BY <2>1, <2>2, Saying, Queued DEF Status
  <2>4. p[Len(p)].e = "offline"
    BY <2>3, Saying DEF Status
  <2>5. i <= Len(p) - 1 => Len(p) \in i + 1..Len(p)
    <3> HIDE DEF p
    <3> QED BY <1>0, <2>3
  <2> QED BY <1>0, <1>2, <2>3, <2>4, <2>5 DEF EndsAfter
<1>3. ASSUME p = q \/ (\E m \in Message : p = Append(q, m)),
             watching[s] => watching'[s],
             DockerStep(d) /\ watching[s] => p = Append(q, Report(d)),
             NEW k \in i + 1..Len(q), q[k].e = "offline" \/ (q[k].e = "die" /\ q[k].c = d)
      PROVE  EndsAfter(s, i, d)'
  <2>0. k \in 1..Len(q)
    BY <1>0
  <2>1. k \in i + 1..Len(p) /\ p[k] = q[k]
    <3> HIDE DEF p, q
    <3>1. CASE p = q
      BY <3>1
    <3>2. ASSUME NEW m \in Message, p = Append(q, m) PROVE k \in i + 1..Len(p) /\ p[k] = q[k]
      <4>1. Len(p) = Len(q) + 1 /\ p[k] = q[k]
        BY <1>0, <2>0, <3>2, Queued
      <4> QED BY <1>0, <4>1
    <3> QED BY <1>3, <3>1, <3>2
  <2> QED BY <1>3, <2>1 DEF EndsAfter
<1>4. ASSUME p = q \/ (\E m \in Message : p = Append(q, m)),
             watching[s] => watching'[s],
             DockerStep(d) /\ watching[s] => p = Append(q, Report(d)),
             watching[s], Dying(d)
      PROVE  EndsAfter(s, i, d)'
  <2>1. CASE Dying(d)'
    BY <1>4, <2>1 DEF EndsAfter
  <2>2. CASE DockerStep(d) /\ Head(script[d]) = "die"
    <3>1. Report(d) \in Message /\ Report(d).e = "die" /\ Report(d).c = d
      BY <2>2, ReportGood, Saying
    <3>2. p = Append(q, Report(d))
      BY <1>4, <2>2
    <3>3. Len(p) = Len(q) + 1 /\ p[Len(q) + 1] = Report(d)
      BY <1>0, <3>1, <3>2, Queued
    <3>4. Len(q) + 1 \in i + 1..Len(p)
      BY <1>0, <3>3
    <3> QED BY <3>1, <3>3, <3>4 DEF EndsAfter
  <2> QED BY <1>4, <2>1, <2>2, DyingStep
<1>5. ASSUME p = q \/ (\E m \in Message : p = Append(q, m)),
             watching[s] => watching'[s],
             DockerStep(d) /\ watching[s] => p = Append(q, Report(d))
      PROVE  EndsAfter(s, i, d)'
  BY <1>1, <1>3, <1>4, <1>5
<1>6. ASSUME NEW c \in Container, DockerStep(c), ServerOf[c] = s, online[s], watching'[s],
             p = Append(q, Report(c))
      PROVE  EndsAfter(s, i, d)'
  <2>1. Report(c) \in Message
    BY <1>6, ReportGood, Saying
  <2>2. DockerStep(d) => c = d
    <3>1. script[c] \in Seq(Event) /\ script[c] # <<>> /\ script'[c] = Tail(script[c])
      BY <1>6 DEF DockerStep, Types
    <3>2. DockerStep(d) /\ c # d => script'[c] = script[c]
      BY DEF DockerStep, Types
    <3> QED BY <3>1, <3>2, Shorter
  <2>3. watching' = watching
    BY <1>6 DEF DockerStep, agentVars
  <2> QED BY <1>5, <1>6, <2>1, <2>2, <2>3
<1>7. CASE feed[s] # <<>> /\ p = Tail(q) /\ (HandleEvent(s) \/ HandleStatus(s)) /\ script' = script
           /\ watching' = watching
  <2>1. /\ Len(p) = Len(q) - 1 /\ Head(q) = q[1]
        /\ \A k \in 1..Len(p) : p[k] = q[k + 1]
    BY <1>0, <1>7, Taken
  <2>2. CASE watching[s] /\ Dying(d)
    <3>1. \A k \in Nat : EndsAfter(s, k, d)'
      BY <1>7, <2>2 DEF EndsAfter, Dying
    <3> QED BY <1>0, <1>7, <3>1
  <2>3. ASSUME NEW k \in i + 1..Len(q), q[k].e = "offline" \/ (q[k].e = "die" /\ q[k].c = d)
        PROVE  \/ EndsAfter(s, i, d)'
               \/ i > 0 /\ EndsAfter(s, i - 1, d)'
               \/ i = 0 /\ Head(q).e = "offline"
               \/ i = 0 /\ Head(q).e = "die" /\ Head(q).c = d
    <3>1. CASE k = 1
      <4>1. i = 0
        BY <1>0, <3>1
      <4> QED BY <2>1, <2>3, <3>1, <4>1
    <3>2. CASE k # 1
      <4> HIDE DEF p, q
      <4>1. k - 1 \in 1..Len(p) /\ k - 1 + 1 = k
        BY <1>0, <2>1, <3>2
      <4>2. p[k - 1] = q[k]
        BY <2>1, <4>1
      <4>3. k - 1 >= i
        BY <1>0
      <4>4. i > 0 => k - 1 \in i - 1 + 1..Len(p)
        BY <1>0, <4>1, <4>3
      <4>5. i = 0 => k - 1 \in i + 1..Len(p)
        BY <1>0, <4>1
      <4>6. i > 0 => EndsAfter(s, i - 1, d)'
        BY <2>3, <4>2, <4>4 DEF EndsAfter, p
      <4>7. i = 0 => EndsAfter(s, i, d)'
        BY <2>3, <4>2, <4>5 DEF EndsAfter, p
      <4> QED BY <1>0, <4>6, <4>7
    <3> QED BY <3>1, <3>2
  <2> QED BY <1>1, <1>7, <2>2, <2>3
<1>8. CASE AgentBack(s) /\ p = Append(q, Said("online")) /\ watching' = watching /\ script' = script
  <2>1. ~DockerStep(d)
    BY <1>8 DEF AgentBack, DockerStep, agentVars, Types
  <2> QED BY <1>5, <1>8, <2>1, Saying DEF Status
<1>9. CASE p = q /\ (watching[s] => watching'[s])
           /\ \A c \in Container : DockerStep(c) /\ ServerOf[c] = s => ~watching[s]
  BY <1>5, <1>9
<1> QED BY <1>2, <1>6, <1>7, <1>8, <1>9, FeedCases


LEMMA EndsLater ==
    ASSUME NEW s, NEW d, NEW i \in Int, NEW j \in Int, j <= i, EndsAfter(s, i, d)', Len(feed'[s]) \in Nat
    PROVE  EndsAfter(s, j, d)'
<1>1. \A k \in i + 1..Len(feed'[s]) : k \in j + 1..Len(feed'[s])
  OBVIOUS
<1> QED BY <1>1 DEF EndsAfter

LEMMA FeedTyped ==
    ASSUME Types, Sound, [Next]_vars, NEW s \in Server
    PROVE  feed'[s] \in Seq(Message) /\ Len(feed'[s]) \in Nat
BY TypesStep, LenProperties DEF Types

(* Every end announced is under way.                                       *)
LEMMA KillsEndStep ==
    ASSUME Types, Sound, InOrder, KillsEnd, [Next]_vars, env \cap {"signal", "unnoticed"} = {},
           NEW s \in Server, NEW i \in 1..Len(feed'[s]), feed'[s][i].e = "kill",
           NEW d, d = feed'[s][i].c
    PROVE  EndsAfter(s, i, d)'
<1> DEFINE q == feed[s]  p == feed'[s]
<1>0. q \in Seq(Message) /\ Len(q) \in Nat /\ p \in Seq(Message) /\ Len(p) \in Nat
  BY Messages, FeedTyped
<1>1. ASSUME NEW k \in 1..Len(q), q[k].e = "kill"
      PROVE  q[k].c \in Container /\ ServerOf[q[k].c] = s /\ EndsAfter(s, k, q[k].c)
  BY <1>1, Messages DEF KillsEnd, Status
<1>2. ASSUME i <= Len(q), q[i] = p[i], i <= Len(p) - 1 \/ ~AgentLost(s),
             q = <<>> \/ p # Tail(q) \/ (~HandleEvent(s) /\ ~HandleStatus(s))
      PROVE  EndsAfter(s, i, d)'
  <2>1. i \in 1..Len(q) /\ q[i].e = "kill" /\ q[i].c = d
    BY <1>0, <1>2
  <2>2. d \in Container /\ s = ServerOf[d] /\ EndsAfter(s, i, d) /\ i \in 0..Len(q)
    BY <1>1, <2>1
  <2>3. "unnoticed" \notin env
    OBVIOUS
  <2>4. ~(AgentLost(s) /\ i > Len(p) - 1)
    <3> HIDE DEF p, q
    <3> QED BY <1>0, <1>2
  <2> QED BY <1>2, <2>2, <2>3, <2>4, EndsStep
<1>3. ASSUME NEW m \in Message, p = Append(q, m), ~AgentLost(s), i <= Len(q)
      PROVE  EndsAfter(s, i, d)'
  <2>1. Len(p) = Len(q) + 1 /\ q[i] = p[i]
    <3>1. i \in 1..Len(q)
      BY <1>0, <1>3
    <3> QED BY <1>0, <1>3, <3>1, Queued
  <2>2. q = <<>> \/ p # Tail(q)
    <3>1. q # <<>> => Len(Tail(q)) = Len(q) - 1
      BY <1>0, Taken
    <3> HIDE DEF p
    <3> QED BY <1>0, <2>1, <3>1
  <2> QED BY <1>2, <1>3, <2>1, <2>2
<1>4. CASE p = q /\ (watching[s] => watching'[s])
  <2>1. ~AgentLost(s) \/ (AgentLost(s) /\ ~watching[s])
    BY <1>4 DEF AgentLost, Types
  <2>2. q = <<>> \/ p # Tail(q)
    BY <1>0, <1>4, Shorter
  <2>3. CASE ~AgentLost(s)
    BY <1>0, <1>2, <1>4, <2>2, <2>3
  <2>4. CASE AgentLost(s) /\ ~watching[s]
    <3>1. i \in 1..Len(q) /\ q[i].e = "kill" /\ q[i].c = d
      BY <1>4
    <3>2. EndsAfter(s, i, d)
      BY <1>1, <3>1
    <3> QED BY <1>4, <2>4, <3>2 DEF EndsAfter
  <2> QED BY <2>1, <2>3, <2>4
<1>5. ASSUME NEW c \in Container, DockerStep(c), ServerOf[c] = s, online[s], watching'[s],
             p = Append(q, Report(c))
      PROVE  EndsAfter(s, i, d)'
  <2>1. Report(c) \in Message /\ Report(c).c = c /\ Report(c).e = Head(script[c])
    BY <1>5, ReportGood, Saying
  <2>2. ~AgentLost(s)
    BY <1>5 DEF AgentLost, Types
  <2>3. CASE i <= Len(q)
    BY <1>3, <1>5, <2>1, <2>2, <2>3
  <2>4. CASE i > Len(q)
    <3>1. i = Len(q) + 1 /\ p[i] = Report(c)
      BY <1>0, <1>5, <2>1, <2>4, Queued
    <3>2. d = c /\ Head(script[c]) = "kill"
      BY <2>1, <3>1
    <3>3. /\ script[c] \in Seq(Event) /\ script[c] # <<>> /\ GoodScript(script[c], host[c])
          /\ script'[c] = Tail(script[c])
      BY <1>5 DEF DockerStep, Types, Sound
    <3>4. Len(script[c]) > 1 /\ script[c][2] = "die"
      <4>1. Head(script[c]) = script[c][1] /\ 1 \in 1..Len(script[c])
        BY <3>3, Taken
      <4> QED BY <3>2, <3>3, <4>1 DEF GoodScript
    <3>5. Tail(script[c]) # <<>> /\ Head(Tail(script[c])) = "die"
      <4>1. /\ Tail(script[c]) \in Seq(Event) /\ Len(Tail(script[c])) = Len(script[c]) - 1
            /\ \A k \in 1..Len(Tail(script[c])) : Tail(script[c])[k] = script[c][k + 1]
            /\ Len(script[c]) \in Nat
        BY <3>3, Taken
      <4> DEFINE t == Tail(script[c])
      <4> HIDE DEF t
      <4>2. Len(t) > 0 /\ t[1] = "die" /\ t \in Seq(Event)
        BY <3>4, <4>1 DEF t
      <4>3. t # <<>> /\ Head(t) = "die"
        BY <4>2
      <4> QED BY <4>3 DEF t
    <3>6. Dying(c)'
      BY <3>3, <3>5 DEF Dying
    <3> QED BY <1>5, <3>2, <3>6 DEF EndsAfter
  <2> QED BY <1>0, <2>3, <2>4
<1>6. CASE AgentLost(s) /\ \E n \in 0..Len(q) : p = Append(SubSeq(q, 1, n), Said("offline"))
  <2>1. PICK n \in 0..Len(q) : p = Append(SubSeq(q, 1, n), Said("offline"))
    BY <1>6
  <2> DEFINE r == SubSeq(q, 1, n)
  <2>2. r \in Seq(Message) /\ Len(r) = n /\ \A k \in 1..n : r[k] = q[k]
    BY <1>0, KeptType
  <2>3. p = Append(r, Said("offline")) /\ Said("offline") \in Message /\ Said("offline").e = "offline"
    BY <2>1, Saying DEF Status
  <2> HIDE DEF r, p, q
  <2>4. Len(p) = n + 1 /\ p[n + 1].e = "offline" /\ \A k \in 1..n : p[k] = q[k]
    BY <2>2, <2>3, Queued
  <2>5. i # n + 1 /\ i \in 1..Len(p)
    BY <2>4 DEF p
  <2>6. i \in 1..n /\ n <= Len(q)
    BY <1>0, <2>4, <2>5
  <2>7. i <= Len(q) /\ q[i] = p[i] /\ i <= Len(p) - 1
    BY <1>0, <2>4, <2>6
  <2>8. ~HandleEvent(s) /\ ~HandleStatus(s)
    BY <1>6 DEF HandleEvent, HandleStatus, AgentLost, agentVars, Types
  <2> QED BY <1>2, <2>7, <2>8 DEF p, q
<1>7. CASE AgentBack(s) /\ p = Append(q, Said("online"))
  <2>1. Said("online") \in Message /\ Said("online").e = "online"
    BY Saying DEF Status
  <2>2. ~AgentLost(s)
    BY <1>7 DEF AgentBack, AgentLost
  <2>3. i <= Len(q)
    <3>1. i > Len(q) => i = Len(q) + 1
      BY <1>0, <1>7, <2>1, Queued
    <3>2. p[Len(q) + 1] = Said("online")
      BY <1>0, <1>7, <2>1, Queued
    <3> QED BY <1>0, <2>1, <3>1, <3>2
  <2> QED BY <1>3, <1>7, <2>1, <2>2, <2>3
<1>8. CASE (HandleEvent(s) \/ HandleStatus(s)) /\ q # <<>> /\ p = Tail(q)
  <2>1. p[i] = q[i + 1] /\ i + 1 \in 1..Len(q) /\ Len(p) = Len(q) - 1
    BY <1>0, <1>8, Taken
  <2>2. q[i + 1].e = "kill" /\ q[i + 1].c = d
    BY <2>1
  <2>3. d \in Container /\ ServerOf[d] = s /\ EndsAfter(s, i + 1, d)
    BY <1>1, <2>1, <2>2
  <2>4. i + 1 \in 0..Len(q) /\ i + 1 # 0 /\ i + 1 - 1 = i /\ i \in Int /\ i + 1 \in Int /\ i <= i + 1
    BY <1>0, <2>1
  <2>5. ~AgentLost(s)
    BY <1>8 DEF HandleEvent, HandleStatus, AgentLost, agentVars, Types
  <2>6. "unnoticed" \notin env
    OBVIOUS
  <2>7. EndsAfter(s, i + 1, d)' \/ EndsAfter(s, i + 1 - 1, d)'
    BY <2>3, <2>4, <2>5, <2>6, EndsStep
  <2> QED BY <1>0, <2>4, <2>7, EndsLater
<1> QED BY <1>4, <1>5, <1>6, <1>7, <1>8, FeedCases


LEMMA DueOffline ==
    ASSUME Types', OfflineSeen', ~online'[Mine]
    PROVE  Due'
<1>1. CASE feed'[Mine] = <<>>
  BY <1>1 DEF OfflineSeen, Due, Mounted
<1>2. CASE feed'[Mine] # <<>>
  <2>1. feed'[Mine][Len(feed'[Mine])].e = "offline"
    BY <1>2 DEF OfflineSeen
  <2>2. feed'[Mine] \in Seq(Message)
    BY ServerOfAssumption DEF Types
  <2>3. Len(feed'[Mine]) \in 1..Len(feed'[Mine])
    BY <1>2, <2>2
  <2> QED BY <2>1, <2>3 DEF Due, OfflineIn
<1> QED BY <1>1, <1>2

(* A list that is under way stays so, until it arrives or is lost.         *)
LEMMA ListStays ==
    ASSUME Types, Sound, [Next]_vars, NEW k \in jobs, k.act = "list",
           ~(\E j \in jobs' : j.act = "list" /\ j.server = k.server)
    PROVE  HandleList(k) \/ Drop(k) \/ Refuse(k)
<1>1. k.act \notin Command /\ k.act \notin Question /\ k.at # "doing" /\ k \notin jobs'
  BY DEF Question, Command, Sound, GoodJob
<1>2. ASSUME NEW c \in Container, DockerStep(c) \/ ByHand(c) \/ Deploy(c) PROVE FALSE
  BY <1>1, <1>2 DEF DockerStep, ByHand, Deploy
<1>3. ASSUME NEW j \in jobs, ReadList(j) PROVE FALSE
  BY <1>1, <1>3, ReadJob
<1>4. ASSUME NEW j \in jobs, Begin(j) \/ StartFails(j) PROVE FALSE
  BY <1>1, <1>4 DEF Begin, StartFails
<1>5. ASSUME NEW j \in jobs, HandleResult(j) \/ HandleAnswer(j) PROVE FALSE
  BY <1>1, <1>5 DEF HandleResult, HandleAnswer
<1>6. ASSUME NEW j \in jobs, Drop(j) \/ HandleList(j) \/ Refuse(j) PROVE j = k
  BY <1>1, <1>6 DEF Drop, HandleList, Refuse
<1>7. ASSUME NEW s \in Server, \/ AgentLost(s) \/ AgentBack(s) \/ StreamOpens(s) \/ HandleEvent(s)
                               \/ HandleStatus(s) \/ OpenPage(s) \/ OtherTabAsks(s)
                               \/ Overtakes(s) \/ Missed(s)
      PROVE  FALSE
  BY <1>1, <1>7 DEF AgentLost, AgentBack, StreamOpens, HandleEvent, HandleStatus, OpenPage, OtherTabAsks, Overtakes, Missed
<1>8. ASSUME NEW c \in Container, \/ \E act \in Command : Press(c, act)
                                  \/ \E q \in Question : OpenModal(q, c)
      PROVE  FALSE
  BY <1>1, <1>8 DEF Press, OpenModal
<1>9. ~CloseModal /\ ~LeavePage /\ ~SocketLost /\ vars' # vars
  BY <1>1 DEF CloseModal, LeavePage, SocketLost, vars
<1> QED BY <1>2, <1>3, <1>4, <1>5, <1>6, <1>7, <1>8, <1>9 DEF Next

(* What the page waits for comes by a list.                                *)
LEMMA DueStep ==
    ASSUME Types, Sound, InOrder, OfflineSeen, [Next]_vars,
           env \cap {"otherServer", "listFails", "unnoticed"} = {}, connected', Due, \A j \in jobs : ~HandleList(j)
    PROVE  Due'
<1> DEFINE q == feed[Mine]  p == feed'[Mine]
<1>0. Mine \in Server /\ mine = {Mine} /\ mine' = {Mine} /\ Types' /\ OfflineSeen'
  <2>1. "otherServer" \notin env /\ "unnoticed" \notin env
    OBVIOUS
  <2> QED BY <2>1, ServerOfAssumption, TypesStep, OfflineStep, Frames, MineStays DEF mine, Changes
<1>1. SUFFICES ASSUME online'[Mine] PROVE Due'
  BY <1>0, DueOffline
<1>2. q \in Seq(Message) /\ Len(q) \in Nat /\ p \in Seq(Message) /\ Len(p) \in Nat
  BY <1>0, Messages, FeedTyped
<1>3. ASSUME NEW k \in jobs, k.act = "list", k.server = Mine PROVE Due'
  <2>1. ~Drop(k) /\ ~Refuse(k)
    BY <1>1, <1>3 DEF Drop, Refuse, InOrder, Command, Question, agentVars
  <2> QED BY <1>3, <2>1, ListStays DEF Due
<1>4. ASSUME connected, Job("list", Mine, None) \in Asked({Job("list", Mine, None)}),
             jobs' = jobs \cup Asked({Job("list", Mine, None)})
      PROVE  Due'
  BY <1>4 DEF Due, Job
<1>5. CASE ~Mounted
  <2>1. CASE serverId' = serverId /\ agentState' = agentState
    BY <1>5, <2>1 DEF Due, Mounted
  <2>2. ASSUME NEW s \in Server, HandleStatus(s) PROVE Due'
    <3>1. /\ s = Mine /\ connected /\ online[Mine] /\ serverId' = serverId
      BY <1>0, <1>1, <2>2 DEF HandleStatus, agentVars
    <3>2. CASE agentState' # "online" \/ serverId = None
      BY <3>1, <3>2 DEF Due, Mounted
    <3>3. CASE agentState' = "online" /\ serverId # None
      <4>1. agentState # "online" /\ serverId = Mine
        BY <1>0, <1>5, <3>3 DEF Mounted, Types
      <4>2. Job("list", Mine, None) \in Asked({Job("list", Mine, None)})
        BY <3>1 DEF Asked, Job
      <4>3. jobs' = jobs \cup Asked({Job("list", Mine, None)})
        BY <2>2, <3>3, <4>1 DEF HandleStatus
      <4> QED BY <1>4, <3>1, <4>2, <4>3
    <3> QED BY <3>2, <3>3
  <2>3. ASSUME NEW s \in Server, OpenPage(s) PROVE Due'
    <3>1. s = Mine /\ connected /\ online[Mine] /\ agentState' = agentState
      BY <1>0, <1>1, <2>3 DEF OpenPage, agentVars
    <3>2. CASE agentState # "online"
      BY <3>1, <3>2 DEF Due, Mounted
    <3>3. CASE agentState = "online"
      <4>1. Job("list", Mine, None) \in Asked({Job("list", Mine, None)})
        BY <3>1 DEF Asked, Job
      <4>2. jobs' = jobs \cup Asked({Job("list", Mine, None)})
        BY <2>3, <3>1, <3>3 DEF OpenPage
      <4> QED BY <1>4, <3>1, <4>1, <4>2
    <3> QED BY <3>2, <3>3
  <2>4. CASE LeavePage
    BY <2>4 DEF LeavePage, Due, Mounted
  <2> QED BY <2>1, <2>2, <2>3, <2>4, Frames DEF Changes
<1>6. ASSUME NEW i \in 1..Len(q), q[i].e = "offline" PROVE Due'
  <2>1. ASSUME p = q \/ \E m \in Message : p = Append(q, m) PROVE Due'
    <3>1. CASE p = q
      BY <1>6, <3>1 DEF Due, OfflineIn
    <3>2. ASSUME NEW m \in Message, p = Append(q, m) PROVE Due'
      <4>1. Len(p) = Len(q) + 1 /\ p[i] = q[i]
        BY <1>2, <3>2, Queued
      <4>2. i \in 1..Len(p)
        BY <1>2, <4>1
      <4> QED BY <1>6, <4>1, <4>2 DEF Due, OfflineIn
    <3> QED BY <2>1, <3>1, <3>2
  <2>2. ASSUME NEW c \in Container, DockerStep(c), p = Append(q, Report(c)) PROVE Due'
    BY <2>1, <2>2, ReportGood, Saying
  <2>3. ~AgentLost(Mine)
    BY <1>0, <1>1 DEF AgentLost, Types
  <2>4. CASE p = Append(q, Said("online"))
    BY <2>1, <2>4, Saying DEF Status
  <2>5. ASSUME HandleEvent(Mine) \/ HandleStatus(Mine), q # <<>>, p = Tail(q) PROVE Due'
    <3>1. /\ Head(q) = q[1] /\ 1 \in 1..Len(q) /\ Len(p) = Len(q) - 1
          /\ \A k \in 1..Len(p) : p[k] = q[k + 1]
      BY <1>2, <2>5, Taken
    <3>2. CASE i = 1
      <4>1. Head(q).c = None
        BY <1>0, <1>6, <3>1, <3>2, Messages DEF Event
      <4>2. agentState' = "offline"
        BY <1>6, <2>5, <3>1, <3>2, <4>1 DEF HandleEvent, HandleStatus
      <4> QED BY <4>2 DEF Due, Mounted
    <3>3. CASE i # 1
      <4> HIDE DEF p, q
      <4>1. i - 1 \in 1..Len(p) /\ i - 1 + 1 = i
        BY <1>2, <1>6, <3>1, <3>3
      <4>2. p[i - 1].e = "offline"
        BY <1>6, <3>1, <4>1
      <4> QED BY <4>1, <4>2 DEF Due, OfflineIn, p
    <3> QED BY <3>2, <3>3
  <2> QED BY <1>0, <2>1, <2>2, <2>3, <2>4, <2>5, FeedCases
<1> QED BY <1>3, <1>5, <1>6 DEF Due, OfflineIn


LEMMA MarksDueStep ==
    ASSUME Types, Sound, ProcInv, ProcCond, [Next]_vars, connected', NEW c \in DOMAIN containers',
           containers'[c].process
    PROVE  EndsAfter(ServerOf[c], 0, c)' \/ (Listed /\ Due')
<1> DEFINE s == ServerOf[c]
           Ends == EndsAfter(ServerOf[c], 0, c)' \/ (Listed /\ Due')
<1>0. /\ KillsEnd /\ MarksDue /\ InOrder /\ "unnoticed" \notin env
      /\ Listed => OfflineSeen /\ env \cap {"otherServer", "listFails", "unnoticed"} = {}
      /\ ~Listed => StillThere
  BY DEF ProcInv, ProcCond, InOrder, Listed
<1>1. connected
  BY Frames DEF Changes
<1>2. c \in Container /\ s \in Server
  BY TypesStep, PartialOf, ServerOfAssumption DEF Types
<1>3. ASSUME NEW j \in jobs, HandleList(j) PROVE FALSE
  BY <1>3 DEF HandleList
<1>4. /\ feed[s] \in Seq(Message) /\ Len(feed[s]) \in Nat /\ 0 \in 0..Len(feed[s])
      /\ Len(feed'[s]) \in Nat
  BY <1>2, Messages, FeedTyped
<1>5. \A t \in Server : HandleEvent(t) \/ HandleStatus(t) => ~AgentLost(s)
  <2>1. \A t \in Server : HandleEvent(t) \/ HandleStatus(t) => online' = online
    BY DEF HandleEvent, HandleStatus, agentVars
  <2>2. AgentLost(s) => online[s] /\ ~online'[s]
    BY <1>2 DEF AgentLost, Types
  <2> QED BY <2>1, <2>2
<1>6. AgentLost(s) => Len(feed'[s]) >= 1
  <2>1. ASSUME AgentLost(s) PROVE Len(feed'[s]) >= 1
    <3>1. PICK n \in 0..Len(feed[s]) : feed'[s] = Append(SubSeq(feed[s], 1, n), Said("offline"))
      BY <1>0, <1>2, <2>1 DEF AgentLost, Said, Types
    <3>2. SubSeq(feed[s], 1, n) \in Seq(Message) /\ Said("offline") \in Message
      BY <1>4, KeptType, Saying DEF Status
    <3> QED BY <3>1, <3>2, Queued
  <2> QED BY <2>1
<1>7. ASSUME c \in DOMAIN containers, containers[c].process,
             \A t \in Server : HandleEvent(t) =>
                 ~(t = s /\ Head(feed[s]).c = c /\ Head(feed[s]).e = "die")
      PROVE  Ends
  <2>1. EndsAfter(s, 0, c) \/ (Listed /\ Due)
    BY <1>0, <1>1, <1>7 DEF MarksDue
  <2>2. CASE Listed /\ Due
    BY <1>0, <1>3, <2>2, DueStep
  <2>3. CASE EndsAfter(s, 0, c)
    <3>1. \/ EndsAfter(s, 0, c)'
          \/ AgentLost(s) /\ 0 > Len(feed'[s]) - 1
          \/ /\ feed[s] # <<>> /\ feed'[s] = Tail(feed[s]) /\ (HandleEvent(s) \/ HandleStatus(s))
             /\ \/ Head(feed[s]).e = "offline"
                \/ Head(feed[s]).e = "die" /\ Head(feed[s]).c = c
      BY <1>0, <1>2, <1>4, <2>3, EndsStep
    <3>2. ASSUME feed[s] # <<>>, HandleEvent(s) \/ HandleStatus(s), Head(feed[s]).e = "offline"
          PROVE  Ends
      <4>1. Head(feed[s]) = feed[s][1] /\ 1 \in 1..Len(feed[s])
        BY <1>4, <3>2, Taken
      <4>2. Listed
        BY <1>0, <1>2, <3>2, <4>1 DEF StillThere, OfflineIn
      <4>3. HandleStatus(s)
        <5>1. HandleEvent(s) => Head(feed[s]).c # None
          BY DEF HandleEvent
        <5>2. "offline" \notin Event
          BY DEF Event
        <5>3. Head(feed[s]).c # None => Head(feed[s]).e \in Event
          BY <1>2, <4>1, Messages
        <5> QED BY <3>2, <5>1, <5>2, <5>3
      <4>4. agentState' = "offline"
        BY <3>2, <4>3 DEF HandleStatus
      <4> QED BY <4>2, <4>4 DEF Due, Mounted
    <3>3. ASSUME HandleStatus(s), Head(feed[s]).c = c PROVE FALSE
      BY <1>2, <3>3, ViewSentinelAssumption DEF HandleStatus
    <3>4. AgentLost(s) => ~(0 > Len(feed'[s]) - 1)
      BY <1>4, <1>6
    <3> QED BY <1>2, <1>7, <3>1, <3>2, <3>3, <3>4
  <2> QED BY <2>1, <2>2, <2>3
<1>8. ASSUME NEW t \in Server, HandleEvent(t) PROVE Ends
  <2>1. /\ c \in DOMAIN containers
        /\ containers'[c] = IF c = Head(feed[t]).c THEN Updated(containers[c], Head(feed[t]).e)
                                                  ELSE containers[c]
    BY <1>8 DEF HandleEvent
  <2>2. feed[t] # <<>> /\ feed' = [feed EXCEPT ![t] = Tail(feed[t])] /\ Head(feed[t]).c # None
    BY <1>8 DEF HandleEvent
  <2>3. /\ feed[t] \in Seq(Message) /\ Head(feed[t]) = feed[t][1] /\ 1 \in 1..Len(feed[t])
        /\ Len(feed[t]) \in Nat
    BY <2>2, Messages, Taken
  <2>4. containers[c] \in Row
    BY <2>1, PartialOf DEF Types
  <2>5. CASE c # Head(feed[t]).c
    <3>1. containers[c].process
      BY <2>1, <2>5
    <3>2. \A u \in Server : HandleEvent(u) => ~(u = s /\ Head(feed[s]).c = c /\ Head(feed[s]).e = "die")
      <4>1. ASSUME NEW u \in Server, HandleEvent(u), u # t PROVE FALSE
        <5>1. feed'[t] = feed[t] /\ feed'[t] = Tail(feed[t])
          BY <2>2, <4>1 DEF HandleEvent, Types
        <5> QED BY <2>2, <2>3, <5>1, Shorter
      <4> QED BY <2>5, <4>1
    <3> QED BY <1>7, <2>1, <3>1, <3>2
  <2>6. CASE c = Head(feed[t]).c /\ Head(feed[t]).e = "kill"
    <3>1. t = s
      BY <2>2, <2>3, <2>6, Messages
    <3>2. EndsAfter(s, 1, c)
      BY <1>0, <2>3, <2>6, <3>1 DEF KillsEnd
    <3>3. 1 \in 0..Len(feed[s])
      BY <2>3, <3>1
    <3>4. EndsAfter(s, 1, c)' \/ EndsAfter(s, 1 - 1, c)'
      BY <1>0, <1>2, <1>5, <1>8, <3>2, <3>3, EndsStep
    <3> QED BY <1>4, <3>4, EndsLater
  <2>7. CASE c = Head(feed[t]).c /\ Head(feed[t]).e # "kill"
    <3>1. containers[c].process /\ Head(feed[t]).e \notin {"stop", "die", "start", "unpause", "pause"}
      BY <2>1, <2>4, <2>7 DEF Updated
    <3>2. \A u \in Server : HandleEvent(u) => ~(u = s /\ Head(feed[s]).c = c /\ Head(feed[s]).e = "die")
      <4>1. ASSUME NEW u \in Server, HandleEvent(u), u # t PROVE FALSE
        <5>1. feed'[t] = feed[t] /\ feed'[t] = Tail(feed[t])
          BY <2>2, <4>1 DEF HandleEvent, Types
        <5> QED BY <2>2, <2>3, <5>1, Shorter
      <4> QED BY <3>1, <4>1
    <3> QED BY <1>7, <2>1, <3>1, <3>2
  <2> QED BY <2>5, <2>6, <2>7
<1>9. ASSUME NEW j \in jobs, HandleResult(j) PROVE c \in DOMAIN containers /\ containers'[c] = containers[c]
  BY <1>9 DEF HandleResult
<1>10. CASE \A t \in Server : ~HandleEvent(t)
  <2>1. c \in DOMAIN containers /\ containers'[c] = containers[c]
    BY <1>3, <1>9, <1>10, Frames DEF Changes
  <2> QED BY <1>7, <1>10, <2>1
<1> QED BY <1>8, <1>10

LEMMA ProcInit == Init => ProcInv
<1> SUFFICES ASSUME Init PROVE ProcInv
  OBVIOUS
<1>1. DOMAIN containers = {}
  BY DEF Init
<1>2. \A s \in Server : \A i \in 1..Len(feed[s]) : feed[s][i].e = "online"
  BY DEF Init
<1> QED BY <1>1, <1>2, ServerOfAssumption
        DEF ProcInv, OfflineSeen, StillThere, OfflineIn, KillsEnd, MarksDue, Init

LEMMA ProcNext == BaseInv /\ ProcInv /\ [Next]_vars => ProcInv'
<1> SUFFICES ASSUME Types, Sound, ProcInv, [Next]_vars, ProcCond PROVE ProcInv'
  BY Frames DEF BaseInv, Changes, ProcInv, ProcCond
<1>1. /\ env' = env /\ env \cap {"signal", "unnoticed"} = {} /\ "unnoticed" \notin env /\ InOrder
      /\ KillsEnd /\ MarksDue
      /\ "otherServer" \notin env => OfflineSeen
      /\ "agentLeaves" \notin env => StillThere
  BY Frames DEF Changes, ProcCond, ProcInv, InOrder
<1>2. "otherServer" \notin env => OfflineSeen'
  BY <1>1, OfflineStep
<1>3. "agentLeaves" \notin env => StillThere'
  BY <1>1, StillThereStep
<1>4. KillsEnd'
  BY <1>1, KillsEndStep DEF KillsEnd
<1>5. MarksDue'
  BY <1>1, MarksDueStep DEF MarksDue, Listed
<1> QED BY <1>1, <1>2, <1>3, <1>4, <1>5 DEF ProcInv

LEMMA ProcHolds == BaseInv /\ ProcInv => ProcessEnds
<1> SUFFICES ASSUME Types, Sound, ProcInv, ProcCond, Looking, \A s \in mine : Settled(s),
                    NEW c \in DOMAIN containers, containers[c].process
             PROVE  FALSE
  BY DEF BaseInv, ProcessEnds, ProcCond
<1>1. ServerOf[c] \in mine /\ c \in Container
  BY PartialOf DEF Sound, Types
<1>2. /\ feed[ServerOf[c]] = <<>> /\ script[c] = <<>>
      /\ feed[Mine] = <<>> /\ \A j \in jobs : j.server = Mine => j.act \in Question
  BY <1>1, MineIn DEF Settled
<1>3. ~EndsAfter(ServerOf[c], 0, c)
  BY <1>2 DEF EndsAfter, Dying
<1>4. ~Due
  BY <1>2 DEF Due, Looking, OfflineIn, Question
<1> QED BY <1>3, <1>4 DEF ProcInv, MarksDue, Looking

(* A row's buttons come back, in the circumstances that ProcessEnds names: *)
(* a mark is set by a "kill", and behind it comes the "die", or a list.    *)
THEOREM MarksGoAway == Spec => []ProcessEnds
BY BaseAlways, ProcInit, ProcNext, ProcHolds, PTL DEF Spec

-----------------------------------------------------------------------------
(* The rows.                                                               *)

ViewCond ==
    env \cap {"overtaken", "slowRead", "readFails", "listFails", "outside", "startFails",
             "unnoticed", "resultLost", "otherServer"} = {}

Telling == {"stop", "die", "start", "unpause", "pause"}
Tells(e) == CASE e \in {"stop", "die"} -> "exited"
              [] e = "pause"           -> "paused"
              [] OTHER                 -> "running"
Starting(c) == script[c] # <<>> /\ Head(script[c]) = "start"
Destroying(c) == script[c] # <<>> /\ script[c][Len(script[c])] = "destroy"
Told(c, i) == feed[Mine][i].c = c /\ feed[Mine][i].e \in Telling
Doing(act, c) == \E j \in jobs : j.act = act /\ j.at = "doing" /\ j.c = c

(* A list on its way is what Docker would say now.                         *)
ReadTrue ==
    \A j \in jobs : j.at = "read" =>
        DOMAIN j.list = Existing(j.server) /\ \A c \in DOMAIN j.list : j.list[c] = host[c]

(* A container is created and removed on the order of a page, whose result *)
(* has not come before the operation is through.                           *)
DoingTrue ==
    \A c \in Container :
        /\ Destroying(c) => Doing("remove", c)
        /\ script[c] # <<>> /\ Head(script[c]) = "create" => Doing("create", c)
        /\ Doing("remove", c) => host[c] = "gone" \/ Destroying(c)

(* The last that is told of a container is true, but for one that stopped  *)
(* to be started again.                                                    *)
LastTold ==
    \A c \in Existing(Mine) : \A i \in 1..Len(feed[Mine]) :
        Told(c, i) /\ (\A k \in i + 1..Len(feed[Mine]) :
                          ~Told(c, k) /\ feed[Mine][k].e # "offline") =>
            Tells(feed[Mine][i].e) = host[c] \/ Starting(c)

(* The rows are what Docker says, but for what the tab will be told yet.   *)
Shown ==
    connected /\ ~Due =>
        /\ \A c \in Existing(Mine) \ DOMAIN containers : Doing("create", c)
        /\ \A c \in DOMAIN containers \ Existing(Mine) : Doing("remove", c)
        /\ \A c \in Existing(Mine) \cap DOMAIN containers :
              (\A k \in 1..Len(feed[Mine]) : ~Told(c, k)) =>
                  containers[c].state = host[c] \/ Starting(c)

ViewInv == ViewCond => OfflineSeen /\ ReadTrue /\ DoingTrue /\ LastTold /\ Shown

LEMMA EventsEnds ==
    ASSUME NEW act \in Command, NEW state \in Allowed(act)
    PROVE  /\ Events(act, state)[Len(Events(act, state))] = "destroy" <=> act = "remove"
           /\ Head(Events(act, state)) = "create" => act = "create"
           /\ Events(act, state) # <<>>
<1> DEFINE sc == Events(act, state)
<1>1. CASE act = "stop"
  <2>1. sc = <<"kill", "die", "stop">>
    BY <1>1, EventsOf
  <2> QED BY <1>1, <2>1
<1>2. CASE act = "restart" /\ state \in {"running", "paused"}
  <2>1. sc = <<"kill", "die", "stop", "start", "restart">>
    BY <1>2, EventsOf
  <2> QED BY <1>2, <2>1
<1>3. CASE act = "restart" /\ state \notin {"running", "paused"}
  <2>1. sc = <<"stop", "start", "restart">>
    BY <1>3, EventsOf
  <2> QED BY <1>3, <2>1
<1>4. CASE act = "remove" /\ state \in {"running", "paused"}
  <2>1. sc = <<"kill", "die", "destroy">>
    BY <1>4, EventsOf
  <2> QED BY <1>4, <2>1
<1>5. CASE act = "remove" /\ state \notin {"running", "paused"}
  <2>1. sc = <<"destroy">>
    BY <1>5, EventsOf
  <2> QED BY <1>5, <2>1
<1>6. CASE act = "create"
  <2>1. sc = <<"create", "start">>
    BY <1>6, EventsOf
  <2> QED BY <1>6, <2>1
<1>7. CASE act \in {"start", "pause", "unpause"}
  <2>1. sc = <<act>>
    BY <1>7, EventsOf
  <2> QED BY <1>7, <2>1
<1> QED BY <1>1, <1>2, <1>3, <1>4, <1>5, <1>6, <1>7 DEF Command

(* What happens to a container: a step of Docker, or the next operation.   *)
LEMMA ContainerStep ==
    ASSUME Types, Sound, ViewCond, [Next]_vars, NEW c \in Container
    PROVE  \/ host'[c] = host[c] /\ script'[c] = script[c]
           \/ DockerStep(c)
           \/ /\ host'[c] = host[c] /\ script[c] = <<>> /\ host[c] # "gone" /\ script'[c] # <<>>
              /\ \/ script'[c][Len(script'[c])] # "destroy" /\ Head(script'[c]) # "create"
                 \/ \E j \in jobs : /\ Begin(j) /\ j.c = c
                                    /\ script'[c][Len(script'[c])] = "destroy" <=> j.act = "remove"
                                    /\ Head(script'[c]) = "create" => j.act = "create"
<1>1. ASSUME NEW d \in Container, DockerStep(d)
      PROVE  (host'[c] = host[c] /\ script'[c] = script[c]) \/ DockerStep(c)
  BY <1>1 DEF DockerStep, Types
<1>2. ASSUME NEW d \in Container, ByHand(d)
      PROVE  \/ host'[c] = host[c] /\ script'[c] = script[c]
             \/ /\ host'[c] = host[c] /\ script[c] = <<>> /\ host[c] # "gone" /\ script'[c] # <<>>
                /\ script'[c][Len(script'[c])] # "destroy" /\ Head(script'[c]) # "create"
  <2>1. CASE d # c
    BY <1>2, <2>1 DEF ByHand, Types
  <2>2. CASE d = c
    <3>1. /\ host' = host /\ script[c] = <<>>
          /\ \/ host[c] = "running" /\ script'[c] \in {<<"die">>, <<"die", "start">>, <<"kill">>}
             \/ \E act \in {"start", "stop", "pause", "unpause", "restart"} :
                   host[c] \in Allowed(act) /\ script'[c] = Events(act, host[c])
      BY <1>2, <2>2 DEF ByHand, Types, ViewCond
    <3>2. ASSUME NEW act \in {"start", "stop", "pause", "unpause", "restart"},
                 host[c] \in Allowed(act), script'[c] = Events(act, host[c])
          PROVE  /\ host[c] # "gone" /\ script'[c] # <<>>
                 /\ script'[c][Len(script'[c])] # "destroy" /\ Head(script'[c]) # "create"
      <4>1. act \in Command /\ act # "remove" /\ act # "create" /\ host[c] # "gone"
        BY <3>2 DEF Command, Allowed
      <4> QED BY <3>2, <4>1, EventsEnds
    <3>3. ASSUME host[c] = "running", script'[c] \in {<<"die">>, <<"die", "start">>, <<"kill">>}
          PROVE  /\ host[c] # "gone" /\ script'[c] # <<>>
                 /\ script'[c][Len(script'[c])] # "destroy" /\ Head(script'[c]) # "create"
      <4>1. CASE script'[c] = <<"die">> BY <3>3, <4>1
      <4>2. CASE script'[c] = <<"die", "start">> BY <3>3, <4>2
      <4>3. CASE script'[c] = <<"kill">> BY <3>3, <4>3
      <4> QED BY <3>3, <4>1, <4>2, <4>3
    <3> QED BY <3>1, <3>2, <3>3
  <2> QED BY <2>1, <2>2
<1>3. ASSUME NEW j \in jobs, Begin(j)
      PROVE  \/ host'[c] = host[c] /\ script'[c] = script[c]
             \/ /\ host'[c] = host[c] /\ script[c] = <<>> /\ host[c] # "gone" /\ script'[c] # <<>>
                /\ j.c = c
                /\ script'[c][Len(script'[c])] = "destroy" <=> j.act = "remove"
                /\ Head(script'[c]) = "create" => j.act = "create"
  <2>1. CASE j.c # c
    BY <1>3, <2>1 DEF Begin, Types
  <2>2. CASE j.c = c
    <3>1. /\ host' = host /\ script[c] = <<>> /\ j.act \in Command /\ host[c] \in Allowed(j.act)
          /\ script'[c] = Events(j.act, host[c])
      BY <1>3, <2>2 DEF Begin, Types
    <3>2. host[c] # "gone"
      BY <3>1 DEF Allowed, Command
    <3> QED BY <2>2, <3>1, <3>2, EventsEnds
  <2> QED BY <2>1, <2>2
<1>4. ASSUME NEW j \in jobs, StartFails(j) PROVE FALSE
  BY <1>4 DEF StartFails, ViewCond
<1>5. CASE script' = script /\ (host' = host \/ \E d \in Container : DockerStep(d))
  BY <1>1, <1>5
<1> QED BY <1>1, <1>2, <1>3, <1>4, <1>5, Frames DEF Changes

(* While an order is carried out, only its result ends it.                 *)
LEMMA DoingStays ==
    ASSUME Types, Sound, ViewCond, [Next]_vars, NEW k \in jobs, k.at = "doing",
           k.act \in {"create", "remove"}, k \notin jobs'
    PROVE  HandleResult(k)
<1>1. k.act \in Command /\ k.act \notin Question /\ k.act # "list"
  BY DEF Question, Command
<1>2. ASSUME NEW c \in Container, DockerStep(c) \/ ByHand(c) \/ Deploy(c) PROVE FALSE
  BY <1>2 DEF DockerStep, ByHand, Deploy
<1>3. ASSUME NEW j \in jobs, ReadList(j) \/ HandleList(j) PROVE FALSE
  BY <1>1, <1>3 DEF ReadList, HandleList
<1>4. ASSUME NEW j \in jobs, Begin(j) \/ StartFails(j) PROVE FALSE
  BY <1>1, <1>4 DEF Begin, StartFails, ViewCond
<1>5. ASSUME NEW j \in jobs, HandleResult(j) PROVE j = k
  BY <1>5 DEF HandleResult
<1>6. ASSUME NEW j \in jobs, Refuse(j) \/ Drop(j) \/ HandleAnswer(j) PROVE FALSE
  BY <1>1, <1>6 DEF Refuse, Drop, HandleAnswer, ViewCond
<1>7. ASSUME NEW s \in Server, \/ AgentLost(s) \/ AgentBack(s) \/ StreamOpens(s) \/ HandleEvent(s)
                               \/ HandleStatus(s) \/ OpenPage(s) \/ OtherTabAsks(s)
                               \/ Overtakes(s) \/ Missed(s)
      PROVE  FALSE
  BY <1>7 DEF AgentLost, AgentBack, StreamOpens, HandleEvent, HandleStatus, OpenPage, OtherTabAsks, Overtakes, Missed
<1>8. ASSUME NEW c \in Container, \/ \E act \in Command : Press(c, act)
                                  \/ \E q \in Question : OpenModal(q, c)
      PROVE  FALSE
  BY <1>8 DEF Press, OpenModal
<1>9. ~CloseModal /\ ~LeavePage /\ ~SocketLost /\ vars' # vars
  BY DEF CloseModal, LeavePage, SocketLost, vars
<1> QED BY <1>2, <1>3, <1>4, <1>5, <1>6, <1>7, <1>8, <1>9 DEF Next

(* A request is new, or read, or begun.                                    *)
LEMMA NewJobs ==
    ASSUME Types, Sound, [Next]_vars, NEW k \in jobs', k \notin jobs
    PROVE  \/ k.at = "asked"
           \/ k.at = "read" /\ \E j \in jobs : /\ ReadList(j) /\ k.server = j.server
                                               /\ k.list = [c \in Existing(j.server) |-> host[c]]
           \/ k.at = "doing" /\ \E j \in jobs : Begin(j) /\ k.act = j.act /\ k.c = j.c
<1>0. \A act, s, c : Job(act, s, c).at = "asked"
  BY DEF Job
<1>1. ASSUME NEW c \in Container, Deploy(c) \/ (\E act \in Command : Press(c, act))
                                            \/ (\E q \in Question : OpenModal(q, c))
      PROVE  k.at = "asked"
  BY <1>0, <1>1 DEF Deploy, Press, OpenModal, Asked
<1>2. ASSUME NEW j \in jobs, HandleResult(j) PROVE k.at = "asked"
  BY <1>0, <1>2 DEF HandleResult, Asked
<1>3. ASSUME NEW s \in Server, AgentBack(s) \/ HandleStatus(s) \/ OpenPage(s) \/ OtherTabAsks(s)
      PROVE  k.at = "asked"
  BY <1>0, <1>3 DEF AgentBack, HandleStatus, OpenPage, OtherTabAsks, Asked
<1>4. ASSUME NEW j \in jobs, ReadList(j)
      PROVE  k.at = "read" /\ k.server = j.server /\ k.list = [c \in Existing(j.server) |-> host[c]]
  BY <1>4, ReadJob
<1>5. ASSUME NEW j \in jobs, Begin(j) PROVE k.at = "doing" /\ k.act = j.act /\ k.c = j.c
  BY <1>5, BegunJob
<1> QED BY <1>1, <1>2, <1>3, <1>4, <1>5, Frames DEF Changes


LEMMA ReadTrueStep ==
    ASSUME Types, Sound, ViewCond, ReadTrue, [Next]_vars, NEW k \in jobs', k.at = "read"
    PROVE  /\ DOMAIN k.list = Existing(k.server)'
           /\ \A c \in DOMAIN k.list : k.list[c] = host'[c]
<1>1. CASE k \in jobs
  <2>1. DOMAIN k.list = Existing(k.server) /\ \A c \in DOMAIN k.list : k.list[c] = host[c]
    BY <1>1 DEF ReadTrue
  <2>2. \A c \in Container : ServerOf[c] = k.server => host'[c] = host[c]
    <3>1. ASSUME NEW d \in Container, DockerStep(d) PROVE ServerOf[d] # k.server
      BY <1>1, <3>1 DEF DockerStep, Undisturbed, ViewCond
    <3> QED BY <3>1, ContainerStep
  <2>3. Existing(k.server)' = Existing(k.server)
    BY <2>2 DEF Existing
  <2> QED BY <2>1, <2>2, <2>3 DEF Existing
<1>2. ASSUME NEW j \in jobs, ReadList(j), k.server = j.server,
             k.list = [c \in Existing(j.server) |-> host[c]]
      PROVE  /\ DOMAIN k.list = Existing(k.server)'
             /\ \A c \in DOMAIN k.list : k.list[c] = host'[c]
  <2>1. host' = host
    BY <1>2 DEF ReadList, hostVars
  <2> QED BY <1>2, <2>1 DEF Existing
<1> QED BY <1>1, <1>2, NewJobs

LEMMA DoingKept ==
    ASSUME Types, Sound, ViewCond, [Next]_vars, NEW act \in {"create", "remove"},
           NEW c \in Container, Doing(act, c)
    PROVE  Doing(act, c)' \/ (script[c] = <<>> /\ \E j \in jobs : j.act = act /\ j.c = c /\ HandleResult(j))
<1>1. PICK k \in jobs : k.act = act /\ k.at = "doing" /\ k.c = c
  BY DEF Doing
<1>2. CASE k \in jobs'
  BY <1>1, <1>2 DEF Doing
<1>3. CASE k \notin jobs'
  <2>1. HandleResult(k)
    BY <1>1, <1>3, DoingStays
  <2>2. script[c] = <<>>
    BY <1>1, <2>1 DEF HandleResult
  <2> QED BY <1>1, <2>1, <2>2
<1> QED BY <1>2, <1>3

LEMMA BeginDoes ==
    ASSUME Types, NEW j \in jobs, Begin(j)
    PROVE  Doing(j.act, j.c)'
BY BegunJob DEF Doing

LEMMA LastOne == ASSUME NEW S, NEW q \in Seq(S), q # <<>>, Tail(q) = <<>> PROVE Len(q) = 1
<1> DEFINE t == Tail(q)
<1>1. Len(t) = Len(q) - 1 /\ Len(q) \in Nat
  BY Taken
<1> HIDE DEF t
<1>2. Len(t) = 0
  <2>1. t = <<>>
    BY DEF t
  <2> QED BY <2>1
<1> QED BY <1>1, <1>2

(* The end of what is left, one step on.                                   *)
LEMMA LastStays ==
    ASSUME NEW S, NEW q \in Seq(S), q # <<>>, Tail(q) # <<>>
    PROVE  Tail(q)[Len(Tail(q))] = q[Len(q)] /\ Len(q) > 1 /\ Head(Tail(q)) = q[2]
<1> DEFINE t == Tail(q)
<1>1. /\ t \in Seq(S) /\ Len(t) = Len(q) - 1 /\ Len(q) \in Nat
      /\ \A i \in 1..Len(t) : t[i] = q[i + 1]
  BY Taken
<1> HIDE DEF t
<1>2. Len(t) \in 1..Len(t) /\ 1 \in 1..Len(t) /\ Head(t) = t[1]
  <2>1. t # <<>>
    BY DEF t
  <2> QED BY <1>1, <2>1
<1>3. t[Len(t)] = q[Len(q)] /\ Len(q) > 1 /\ Head(t) = q[2]
  BY <1>1, <1>2
<1> QED BY <1>3 DEF t

LEMMA DoingTrueStep ==
    ASSUME Types, Sound, ViewCond, DoingTrue, [Next]_vars, NEW c \in Container
    PROVE  /\ Destroying(c)' => Doing("remove", c)'
           /\ script'[c] # <<>> /\ Head(script'[c]) = "create" => Doing("create", c)'
           /\ Doing("remove", c)' => host'[c] = "gone" \/ Destroying(c)'
<1>0. /\ Destroying(c) => Doing("remove", c)
      /\ script[c] # <<>> /\ Head(script[c]) = "create" => Doing("create", c)
      /\ Doing("remove", c) => host[c] = "gone" \/ Destroying(c)
      /\ script[c] \in Seq(Event) /\ host[c] \in State
  BY DEF DoingTrue, Types
<1>1. script[c] # <<>> => (Doing("remove", c) => Doing("remove", c)')
                          /\ (Doing("create", c) => Doing("create", c)')
  BY DoingKept
<1>2. Doing("remove", c)' => Doing("remove", c) \/ \E j \in jobs : Begin(j) /\ j.act = "remove" /\ j.c = c
  <2>1. ASSUME NEW k \in jobs', k.act = "remove", k.at = "doing", k.c = c
        PROVE  Doing("remove", c) \/ \E j \in jobs : Begin(j) /\ j.act = "remove" /\ j.c = c
    BY <2>1, NewJobs DEF Doing
  <2> QED BY <2>1 DEF Doing
<1>3. CASE host'[c] = host[c] /\ script'[c] = script[c]
  <2>1. ASSUME NEW j \in jobs, Begin(j), j.c = c PROVE FALSE
    <3>1. script[c] = <<>> /\ script'[c] = Events(j.act, host[c]) /\ j.act \in Command /\ host[c] \in Allowed(j.act)
      BY <2>1 DEF Begin, Types
    <3> QED BY <1>3, <3>1, EventsEnds
  <2> QED BY <1>0, <1>1, <1>2, <1>3, <2>1 DEF Destroying
<1>4. CASE DockerStep(c)
  <2>1. /\ script[c] # <<>> /\ script'[c] = Tail(script[c])
        /\ host'[c] = After(Head(script[c]), host[c]) /\ GoodScript(script[c], host[c])
    BY <1>4 DEF DockerStep, Types, Sound
  <2>2. Head(script[c]) = script[c][1] /\ Len(script[c]) \in Nat
    BY <1>0, <2>1, Taken
  <2>3. CASE script'[c] = <<>>
    <3>1. Len(script[c]) = 1
      BY <1>0, <2>1, <2>3, LastOne
    <3>2. Doing("remove", c)' => Destroying(c)
      <4>1. ASSUME NEW j \in jobs, Begin(j), j.c = c PROVE FALSE
        BY <2>1, <4>1 DEF Begin
      <4>2. host[c] # "gone"
        BY <2>1 DEF GoodScript
      <4> QED BY <1>0, <1>2, <4>1, <4>2
    <3>3. Destroying(c) => host'[c] = "gone"
      BY <2>1, <2>2, <3>1 DEF Destroying, After
    <3> QED BY <2>3, <3>2, <3>3 DEF Destroying
  <2>4. CASE script'[c] # <<>>
    <3>1. /\ script'[c][Len(script'[c])] = script[c][Len(script[c])]
          /\ Len(script[c]) > 1 /\ Head(script'[c]) = script[c][2]
      BY <1>0, <2>1, <2>4, LastStays
    <3>2. Destroying(c)' <=> Destroying(c)
      BY <2>1, <2>4, <3>1 DEF Destroying
    <3>3. Head(script'[c]) # "create"
      <4>1. 2 \in 1..Len(script[c])
        BY <2>2, <3>1
      <4> QED BY <2>1, <3>1, <4>1 DEF GoodScript
    <3>4. Doing("remove", c)' => Destroying(c)
      <4>1. ASSUME NEW j \in jobs, Begin(j), j.c = c PROVE FALSE
        BY <2>1, <4>1 DEF Begin
      <4>2. host[c] # "gone"
        BY <2>1 DEF GoodScript
      <4> QED BY <1>0, <1>2, <4>1, <4>2
    <3> QED BY <1>0, <1>1, <2>1, <3>2, <3>3, <3>4
  <2> QED BY <2>3, <2>4
<1>5. ASSUME host'[c] = host[c], script[c] = <<>>, host[c] # "gone", script'[c] # <<>>,
             \/ script'[c][Len(script'[c])] # "destroy" /\ Head(script'[c]) # "create"
             \/ \E j \in jobs : /\ Begin(j) /\ j.c = c
                                /\ script'[c][Len(script'[c])] = "destroy" <=> j.act = "remove"
                                /\ Head(script'[c]) = "create" => j.act = "create"
      PROVE  /\ Destroying(c)' => Doing("remove", c)'
             /\ script'[c] # <<>> /\ Head(script'[c]) = "create" => Doing("create", c)'
             /\ Doing("remove", c)' => host'[c] = "gone" \/ Destroying(c)'
  <2>1. ~Doing("remove", c)
    BY <1>0, <1>5 DEF Destroying
  <2>2. ASSUME NEW j \in jobs, Begin(j), j.c = c
        PROVE  /\ script'[c][Len(script'[c])] = "destroy" <=> j.act = "remove"
               /\ Head(script'[c]) = "create" => j.act = "create"
    <3>1. script'[c] = Events(j.act, host[c]) /\ j.act \in Command /\ host[c] \in Allowed(j.act)
      BY <2>2 DEF Begin, Types
    <3> QED BY <3>1, EventsEnds
  <2>3. Destroying(c)' => \E j \in jobs : Begin(j) /\ j.c = c /\ j.act = "remove"
    BY <1>5 DEF Destroying
  <2>4. Head(script'[c]) = "create" => \E j \in jobs : Begin(j) /\ j.c = c /\ j.act = "create"
    BY <1>5
  <2> QED BY <1>2, <1>5, <2>1, <2>2, <2>3, <2>4, BeginDoes DEF Destroying
<1> QED BY <1>3, <1>4, <1>5, ContainerStep


LEMMA OneStep ==
    ASSUME Types, NEW c \in Container, NEW d \in Container, DockerStep(c), DockerStep(d)
    PROVE  c = d
<1> SUFFICES ASSUME c # d PROVE FALSE
  OBVIOUS
<1>1. script[c] \in Seq(Event) /\ script[c] # <<>> /\ script'[c] = Tail(script[c])
  BY DEF DockerStep, Types
<1>2. script'[c] = script[c]
  BY DEF DockerStep, Types
<1> QED BY <1>1, <1>2, Shorter

(* A step that is reported: what is known of c, and what is said of it.    *)
LEMMA Reported ==
    ASSUME Types, Sound, NEW c \in Container, DockerStep(c), host[c] # "unborn", host'[c] # "gone"
    PROVE  /\ Head(script[c]) \in Telling =>
                  Tells(Head(script[c])) = host'[c] \/ Starting(c)'
           /\ Head(script[c]) \notin Telling => host'[c] = host[c] /\ ~Starting(c)
<1>1. /\ script[c] \in Seq(Event) /\ script[c] # <<>> /\ GoodScript(script[c], host[c])
      /\ script'[c] = Tail(script[c]) /\ host'[c] = After(Head(script[c]), host[c])
  BY DEF DockerStep, Types, Sound
<1>2. Head(script[c]) = script[c][1] /\ Head(script[c]) \in Event /\ 1 \in 1..Len(script[c])
      /\ Len(script[c]) \in Nat
  BY <1>1, Taken
<1>3. Head(script[c]) \notin {"create", "destroy"}
  BY <1>1, <1>2 DEF GoodScript, After
<1>4. Head(script[c]) \notin Telling => host'[c] = host[c] /\ ~Starting(c)
  BY <1>1, <1>2, <1>3 DEF Telling, Event, After, Starting
<1>5. Head(script[c]) \in Telling \ {"stop"} => Tells(Head(script[c])) = host'[c]
  BY <1>1 DEF Telling, Tells, After
<1>6. CASE Head(script[c]) = "stop"
  <2>1. host[c] = "exited" \/ (Len(script[c]) > 1 /\ script[c][2] = "start")
    BY <1>1, <1>2, <1>6 DEF GoodScript
  <2>2. CASE host[c] = "exited"
    BY <1>1, <1>6, <2>2 DEF Tells, After, Telling
  <2>3. CASE Len(script[c]) > 1 /\ script[c][2] = "start"
    <3>1. Tail(script[c]) # <<>>
      BY <1>1, <2>3, LastOne, Taken
    <3>2. Head(Tail(script[c])) = "start"
      BY <1>1, <2>3, <3>1, LastStays
    <3> QED BY <1>1, <1>6, <3>1, <3>2 DEF Starting, Telling
  <2> QED BY <2>1, <2>2, <2>3
<1> QED BY <1>4, <1>5, <1>6

(* What was said last of c is still so, where no step of Docker changed c. *)
LEMMA QuietStep ==
    ASSUME Types, Sound, ViewCond, [Next]_vars, NEW c \in Container, ~DockerStep(c)
    PROVE  host'[c] = host[c] /\ (Starting(c) => Starting(c)')
BY ContainerStep DEF Starting

LEMMA LastToldStep ==
    ASSUME Types, Sound, ViewCond, OfflineSeen, LastTold, [Next]_vars,
           NEW c \in Existing(Mine)', NEW i \in 1..Len(feed'[Mine]), Told(c, i)',
           \A k \in i + 1..Len(feed'[Mine]) : ~Told(c, k)' /\ feed'[Mine][k].e # "offline"
    PROVE  Tells(feed'[Mine][i].e) = host'[c] \/ Starting(c)'
<1> DEFINE q == feed[Mine]  p == feed'[Mine]
           Old(k) == q[k].c = c /\ q[k].e \in Telling
           New(k) == p[k].c = c /\ p[k].e \in Telling
<1>0. /\ Mine \in Server /\ c \in Container /\ ServerOf[c] = Mine /\ host'[c] \notin {"unborn", "gone"}
      /\ c # None /\ "offline" \notin Telling
  BY ServerOfAssumption, ViewSentinelAssumption DEF Existing, Telling
<1>1. q \in Seq(Message) /\ Len(q) \in Nat /\ p \in Seq(Message) /\ Len(p) \in Nat
  BY <1>0, Messages, FeedTyped
<1>2. New(i) /\ \A k \in i + 1..Len(p) : ~New(k) /\ p[k].e # "offline"
  BY DEF Told
<1>3. host[c] # "gone"
  BY <1>0, StaysGone
<1>4. ASSUME NEW m \in 1..Len(q), Old(m), \A k \in m + 1..Len(q) : ~Old(k) /\ q[k].e # "offline"
      PROVE  host[c] # "unborn" /\ (Tells(q[m].e) = host[c] \/ Starting(c))
  <2>1. host[c] # "unborn"
    BY <1>0, <1>4 DEF Sound, Good
  <2>2. c \in Existing(Mine)
    BY <1>0, <1>3, <2>1 DEF Existing
  <2> QED BY <1>4, <2>1, <2>2 DEF LastTold, Told
<1>5. ASSUME NEW m \in 1..Len(q), Old(m), \A k \in m + 1..Len(q) : ~Old(k) /\ q[k].e # "offline",
             q[m] = p[i], ~DockerStep(c)
      PROVE  Tells(p[i].e) = host'[c] \/ Starting(c)'
  BY <1>0, <1>4, <1>5, QuietStep
<1> HIDE DEF q, p
<1>6. CASE p = q /\ \A d \in Container : DockerStep(d) /\ ServerOf[d] = Mine => ~watching[Mine]
  <2>1. ASSUME DockerStep(c) PROVE FALSE
    <3>1. ~online[Mine]
      BY <1>0, <1>6, <2>1 DEF DockerStep, Undisturbed, ViewCond
    <3>2. q # <<>> /\ q[Len(q)].e = "offline"
      BY <1>1, <1>6, <3>1 DEF OfflineSeen, q, p
    <3>3. Len(q) \in i + 1..Len(q) \/ i = Len(q)
      BY <1>1, <1>6 DEF p
    <3> QED BY <1>0, <1>2, <1>6, <3>2, <3>3
  <2>2. i \in 1..Len(q) /\ q[i] = p[i] /\ Old(i) /\ \A k \in i + 1..Len(q) : ~Old(k) /\ q[k].e # "offline"
    BY <1>2, <1>6 DEF p
  <2> QED BY <1>5, <2>1, <2>2 DEF p
<1>7. ASSUME NEW m \in Message, p = Append(q, m)
      PROVE  /\ Len(p) = Len(q) + 1 /\ p[Len(q) + 1] = m
             /\ i \in 1..Len(q) \/ i = Len(q) + 1
             /\ i \in 1..Len(q) => /\ q[i] = p[i] /\ Old(i) /\ Len(p) \in i + 1..Len(p)
                                   /\ \A k \in i + 1..Len(q) : ~Old(k) /\ q[k].e # "offline"
  <2>1. Len(p) = Len(q) + 1 /\ p[Len(q) + 1] = m /\ \A k \in 1..Len(q) : p[k] = q[k]
    BY <1>1, <1>7, Queued
  <2>2. i \in 1..Len(q) \/ i = Len(q) + 1
    BY <1>1, <2>1 DEF p
  <2>3. ASSUME i \in 1..Len(q), NEW k \in i + 1..Len(q) PROVE ~Old(k) /\ q[k].e # "offline"
    <3>1. k \in 1..Len(q) /\ k \in i + 1..Len(p)
      BY <1>1, <2>1, <2>3
    <3> QED BY <1>2, <2>1, <3>1
  <2>4. i \in 1..Len(q) => q[i] = p[i] /\ Old(i) /\ Len(p) \in i + 1..Len(p)
    BY <1>1, <1>2, <2>1
  <2> QED BY <2>1, <2>2, <2>3, <2>4
<1>8. ASSUME NEW d \in Container, DockerStep(d), ServerOf[d] = Mine, p = Append(q, Report(d))
      PROVE  Tells(p[i].e) = host'[c] \/ Starting(c)'
  <2>1. Report(d) \in Message /\ Report(d).c = d /\ Report(d).e = Head(script[d])
    BY <1>8, ReportGood, Saying
  <2>2. CASE i \in 1..Len(q)
    <3>1. /\ q[i] = p[i] /\ Old(i) /\ \A k \in i + 1..Len(q) : ~Old(k) /\ q[k].e # "offline"
          /\ p[Len(p)] = Report(d) /\ Len(p) \in i + 1..Len(p)
      BY <1>1, <1>7, <1>8, <2>1, <2>2
    <3>2. CASE d # c
      <4>1. ~DockerStep(c)
        BY <1>0, <1>8, <3>2, OneStep
      <4> QED BY <1>5, <2>2, <3>1, <4>1
    <3>3. CASE d = c
      <4>1. Head(script[c]) \notin Telling
        BY <1>2, <2>1, <3>1, <3>3
      <4>2. host[c] # "unborn" /\ (Tells(q[i].e) = host[c] \/ Starting(c))
        BY <1>4, <2>2, <3>1
      <4> QED BY <1>0, <1>8, <3>1, <3>3, <4>1, <4>2, Reported
    <3> QED BY <3>2, <3>3
  <2>3. CASE i = Len(q) + 1
    <3>1. d = c /\ Head(script[c]) \in Telling /\ p[i].e = Head(script[c])
      BY <1>2, <1>7, <1>8, <2>1, <2>3
    <3>2. host[c] # "unborn"
      <4>1. script[c] # <<>> /\ GoodScript(script[c], host[c]) /\ script[c] \in Seq(Event)
        BY <1>0, <1>8, <3>1 DEF DockerStep, Sound, Types
      <4>2. script[c][1] # "create"
        BY <3>1, <4>1, Taken DEF Telling
      <4> QED BY <4>1, <4>2 DEF GoodScript
    <3> QED BY <1>0, <1>8, <3>1, <3>2, Reported
  <2> QED BY <1>7, <1>8, <2>1, <2>2, <2>3
<1>9. CASE AgentLost(Mine)
  <2>1. PICK n \in 0..Len(q) : p = Append(SubSeq(q, 1, n), Said("offline"))
    BY <1>0, <1>9 DEF AgentLost, Said, Types, ViewCond, p, q
  <2>2. SubSeq(q, 1, n) \in Seq(Message)
    BY <1>1, KeptType
  <2>3. p[Len(p)] = Said("offline")
    BY <2>1, <2>2, Saying, Queued DEF Status
  <2>4. Len(p) \in i + 1..Len(p) \/ i = Len(p)
    BY <1>1 DEF p
  <2> QED BY <1>0, <1>2, <2>3, <2>4, Saying DEF Status
<1>10. CASE AgentBack(Mine) /\ p = Append(q, Said("online"))
  <2>1. ~DockerStep(c)
    BY <1>0, <1>10 DEF AgentBack, DockerStep, agentVars, Types
  <2>2. Said("online") \in Message /\ Said("online").c = None
    BY Saying DEF Status
  <2>3. i # Len(q) + 1
    BY <1>0, <1>2, <1>7, <1>10, <2>2
  <2>4. /\ i \in 1..Len(q) /\ q[i] = p[i] /\ Old(i)
        /\ \A k \in i + 1..Len(q) : ~Old(k) /\ q[k].e # "offline"
    BY <1>7, <1>10, <2>2, <2>3
  <2> QED BY <1>5, <2>1, <2>4 DEF p
<1>11. CASE (HandleEvent(Mine) \/ HandleStatus(Mine)) /\ q # <<>> /\ p = Tail(q) /\ script' = script
  <2>1. Len(p) = Len(q) - 1 /\ \A k \in 1..Len(p) : p[k] = q[k + 1]
    BY <1>1, <1>11, Taken
  <2>2. i + 1 \in 1..Len(q) /\ p[i] = q[i + 1] /\ Old(i + 1)
    BY <1>1, <1>2, <2>1 DEF p
  <2>3. ASSUME NEW k \in i + 1 + 1..Len(q) PROVE ~Old(k) /\ q[k].e # "offline"
    <3>1. k - 1 \in i + 1..Len(p) /\ k - 1 \in 1..Len(p) /\ k - 1 + 1 = k
      BY <1>1, <2>1, <2>2
    <3> QED BY <1>2, <2>1, <3>1
  <2>4. ~DockerStep(c)
    <3>1. DockerStep(c) => script[c] \in Seq(Event) /\ script[c] # <<>> /\ script'[c] = Tail(script[c])
      BY <1>0 DEF DockerStep, Types
    <3> QED BY <1>11, <3>1, Shorter
  <2> QED BY <1>5, <2>2, <2>3, <2>4 DEF p
<1>12. InOrder
  BY DEF InOrder, ViewCond
<1> QED BY <1>0, <1>6, <1>8, <1>9, <1>10, <1>11, <1>12, FeedCases DEF p, q

(* A list that arrives says what Docker would say.                         *)
LEMMA ShownByList ==
    ASSUME Types, Sound, ViewCond, ReadTrue, NEW j \in jobs, HandleList(j)
    PROVE  /\ DOMAIN containers' = Existing(Mine)'
           /\ \A c \in DOMAIN containers' : containers'[c].state = host'[c]
<1>1. /\ j.server = Mine /\ j.at = "read" /\ host' = host
      /\ containers' = [c \in DOMAIN j.list |-> [state |-> j.list[c], process |-> FALSE]]
  BY DEF HandleList, hostVars, mine, ViewCond
<1>2. DOMAIN j.list = Existing(Mine) /\ \A c \in DOMAIN j.list : j.list[c] = host[c]
  BY <1>1 DEF ReadTrue
<1>3. Existing(Mine)' = Existing(Mine)
  BY <1>1 DEF Existing
<1> QED BY <1>1, <1>2, <1>3

(* Where nothing is due after a step that brings no list, nothing was due. *)
LEMMA NotDue ==
    ASSUME Types, Sound, ViewCond, OfflineSeen, [Next]_vars, connected', ~Due',
           \A j \in jobs : ~HandleList(j)
    PROVE  /\ connected /\ ~Due /\ online[Mine] /\ online'[Mine] /\ mine = {Mine}
           /\ Mounted /\ serverId = Mine
           /\ \A i \in 1..Len(feed[Mine]) : feed[Mine][i].e # "offline"
<1>1. "otherServer" \notin env /\ "unnoticed" \notin env /\ mine = {Mine} /\ connected
  BY Frames DEF ViewCond, mine, Changes
<1>2. ~Due
  BY <1>1, DueStep DEF ViewCond, InOrder
<1>3. Types' /\ OfflineSeen'
  BY <1>1, TypesStep, OfflineStep DEF ViewCond, InOrder
<1>4. online'[Mine]
  BY <1>3, DueOffline
<1>5. online[Mine]
  <2>1. ASSUME ~online[Mine], feed[Mine] = <<>> PROVE FALSE
    BY <1>2, <2>1 DEF OfflineSeen, Due, Mounted
  <2>2. ASSUME ~online[Mine], feed[Mine] # <<>> PROVE FALSE
    <3>1. feed[Mine][Len(feed[Mine])].e = "offline"
      BY <2>2 DEF OfflineSeen
    <3>2. feed[Mine] \in Seq(Message)
      BY ServerOfAssumption DEF Types
    <3>3. Len(feed[Mine]) \in 1..Len(feed[Mine])
      BY <2>2, <3>2
    <3> QED BY <1>2, <3>1, <3>3 DEF Due, OfflineIn
  <2> QED BY <2>1, <2>2
<1>6. Mounted /\ serverId = Mine
  BY <1>1, <1>2 DEF Due, Mounted, Types
<1> QED BY <1>1, <1>2, <1>4, <1>5, <1>6 DEF Due, OfflineIn

(* The result of a deployment makes the page ask again.                    *)
LEMMA CreatedAsks ==
    ASSUME Types, Sound, NEW j \in jobs, HandleResult(j), j.act = "create",
           connected, online[Mine], mine = {Mine}, Mounted, serverId = Mine
    PROVE  Due'
<1>1. j.server = Mine /\ jobs' = (jobs \ {j}) \cup Asked({Job("list", Mine, None)})
  BY DEF HandleResult
<1>2. Job("list", Mine, None) \in Asked({Job("list", Mine, None)})
  BY DEF Asked, Job
<1>3. Job("list", Mine, None).act = "list" /\ Job("list", Mine, None).server = Mine
  BY DEF Job
<1> QED BY <1>1, <1>2, <1>3 DEF Due

LEMMA RowsStay ==
    ASSUME Types, Sound, DoingTrue, [Next]_vars, \A j \in jobs : ~HandleList(j), NEW c
    PROVE  /\ c \in DOMAIN containers' => c \in DOMAIN containers
           /\ c \in DOMAIN containers /\ c \notin DOMAIN containers' =>
                 c \in Container /\ host'[c] = "gone"
           /\ \/ c \in DOMAIN containers' => containers'[c] = containers[c]
              \/ \E s \in mine : HandleEvent(s)
<1>1. ASSUME NEW j \in jobs, HandleResult(j)
      PROVE  /\ c \in DOMAIN containers' => c \in DOMAIN containers /\ containers'[c] = containers[c]
             /\ c \in DOMAIN containers /\ c \notin DOMAIN containers' =>
                   c \in Container /\ host'[c] = "gone"
  <2>1. CASE j.act = "remove" /\ j.c = c
    <3>1. j.at = "doing" /\ script[c] = <<>> /\ host' = host
      BY <1>1, <2>1 DEF HandleResult, hostVars
    <3>2. c \in Container
      BY <2>1 DEF Sound, GoodJob
    <3>3. host[c] = "gone"
      BY <2>1, <3>1, <3>2 DEF DoingTrue, Doing, Destroying
    <3> QED BY <1>1, <2>1, <3>1, <3>2, <3>3 DEF HandleResult
  <2>2. CASE ~(j.act = "remove" /\ j.c = c)
    BY <1>1, <2>2 DEF HandleResult
  <2> QED BY <2>1, <2>2
<1>2. ASSUME NEW s \in Server, HandleEvent(s)
      PROVE  DOMAIN containers' = DOMAIN containers /\ s \in mine
  BY <1>2 DEF HandleEvent
<1> QED BY <1>1, <1>2, Frames DEF Changes

(* What the tab is told last of a row is what the row says.                *)
LEMMA RowTold ==
    ASSUME Types, Sound, ViewCond, OfflineSeen, DoingTrue, LastTold, Shown, [Next]_vars,
           connected', ~Due', \A j \in jobs : ~HandleList(j),
           NEW c \in Existing(Mine)', c \in DOMAIN containers',
           \A k \in 1..Len(feed'[Mine]) : ~Told(c, k)'
    PROVE  containers'[c].state = host'[c] \/ Starting(c)'
<1> DEFINE q == feed[Mine]  p == feed'[Mine]
           Old(k) == q[k].c = c /\ q[k].e \in Telling
           New(k) == p[k].c = c /\ p[k].e \in Telling
<1>0. /\ Mine \in Server /\ c \in Container /\ ServerOf[c] = Mine /\ host'[c] \notin {"unborn", "gone"}
      /\ c # None /\ c \in DOMAIN containers
  BY ServerOfAssumption, ViewSentinelAssumption, RowsStay DEF Existing
<1>1. /\ connected /\ ~Due /\ online[Mine] /\ online'[Mine] /\ mine = {Mine}
      /\ \A i \in 1..Len(q) : q[i].e # "offline"
  BY NotDue
<1>2. q \in Seq(Message) /\ Len(q) \in Nat /\ p \in Seq(Message) /\ Len(p) \in Nat
  BY <1>0, Messages, FeedTyped
<1>3. \A k \in 1..Len(p) : ~New(k)
  BY DEF Told
<1>4. c \in Existing(Mine) /\ host[c] # "unborn"
  BY <1>0, StaysGone DEF Existing, Sound
<1>5. (\A k \in 1..Len(q) : ~Old(k)) => containers[c].state = host[c] \/ Starting(c)
  BY <1>0, <1>1, <1>4 DEF Shown, Told
<1>6. HandleEvent(Mine) \/ containers'[c] = containers[c]
  BY <1>1, RowsStay
<1>7. ASSUME \A k \in 1..Len(q) : ~Old(k), ~HandleEvent(Mine), ~DockerStep(c)
      PROVE  containers'[c].state = host'[c] \/ Starting(c)'
  BY <1>0, <1>5, <1>6, <1>7, QuietStep
<1>8. CASE p = q /\ \A d \in Container : DockerStep(d) /\ ServerOf[d] = Mine => ~watching[Mine]
  <2>1. ~DockerStep(c)
    BY <1>0, <1>1, <1>8 DEF DockerStep, Undisturbed, ViewCond
  <2>2. ~HandleEvent(Mine)
    <3>1. HandleEvent(Mine) => q # <<>> /\ p = Tail(q)
      BY <1>0 DEF HandleEvent, Types
    <3> QED BY <1>2, <1>8, <3>1, Shorter
  <2> QED BY <1>3, <1>7, <1>8, <2>1, <2>2
<1>9. ASSUME NEW d \in Container, DockerStep(d), ServerOf[d] = Mine, p = Append(q, Report(d))
      PROVE  containers'[c].state = host'[c] \/ Starting(c)'
  <2>1. Report(d) \in Message /\ Report(d).c = d /\ Report(d).e = Head(script[d])
    BY <1>9, ReportGood, Saying
  <2> HIDE DEF p, q
  <2>2. Len(p) = Len(q) + 1 /\ p[Len(q) + 1] = Report(d) /\ \A k \in 1..Len(q) : p[k] = q[k]
    BY <1>2, <1>9, <2>1, Queued
  <2>3. \A k \in 1..Len(q) : ~Old(k)
    <3>1. ASSUME NEW k \in 1..Len(q) PROVE ~Old(k)
      <4>1. k \in 1..Len(p)
        BY <1>2, <2>2
      <4> QED BY <1>3, <2>2, <4>1
    <3> QED BY <3>1
  <2>4. ~HandleEvent(Mine)
    <3>1. script[d] \in Seq(Event) /\ script[d] # <<>> /\ script'[d] = Tail(script[d])
      BY <1>9 DEF DockerStep, Types
    <3>2. HandleEvent(Mine) => script' = script
      BY DEF HandleEvent, hostVars
    <3> QED BY <3>1, <3>2, Shorter
  <2>5. CASE d # c
    <3>1. ~DockerStep(c)
      BY <1>0, <1>9, <2>5, OneStep
    <3> QED BY <1>7, <2>3, <2>4, <3>1 DEF q
  <2>6. CASE d = c
    <3>1. Head(script[c]) \notin Telling
      <4>1. Len(p) \in 1..Len(p) /\ Len(p) = Len(q) + 1
        BY <1>2, <2>2
      <4> QED BY <1>3, <2>1, <2>2, <2>6, <4>1
    <3>2. host'[c] = host[c] /\ ~Starting(c)
      BY <1>0, <1>4, <1>9, <2>6, <3>1, Reported
    <3> QED BY <1>5, <1>6, <2>3, <2>4, <3>2
  <2> QED BY <2>5, <2>6
<1>10. ~AgentLost(Mine) /\ ~AgentBack(Mine)
  BY <1>0, <1>1 DEF AgentLost, AgentBack, Types
<1>11. CASE HandleStatus(Mine) /\ ~HandleEvent(Mine) /\ script' = script /\ q # <<>> /\ p = Tail(q)
  <2>1. q[1].c = None /\ Len(p) = Len(q) - 1 /\ \A k \in 1..Len(p) : p[k] = q[k + 1]
    BY <1>2, <1>11, Taken DEF HandleStatus
  <2>2. \A k \in 1..Len(q) : ~Old(k)
    <3> HIDE DEF p, q
    <3>1. ASSUME NEW k \in 1..Len(q), k # 1 PROVE ~Old(k)
      <4>1. k - 1 \in 1..Len(p) /\ k - 1 + 1 = k
        BY <1>2, <2>1, <3>1
      <4> QED BY <1>3, <2>1, <4>1
    <3> QED BY <1>0, <2>1, <3>1
  <2>3. ~DockerStep(c)
    <3>1. DockerStep(c) => script[c] \in Seq(Event) /\ script[c] # <<>> /\ script'[c] = Tail(script[c])
      BY <1>0 DEF DockerStep, Types
    <3> QED BY <1>11, <3>1, Shorter
  <2> QED BY <1>7, <1>11, <2>2, <2>3
<1>12. CASE HandleEvent(Mine) /\ script' = script /\ host' = host /\ q # <<>> /\ p = Tail(q)
  <2>1. /\ Head(q) = q[1] /\ 1 \in 1..Len(q)
        /\ Len(p) = Len(q) - 1 /\ \A k \in 1..Len(p) : p[k] = q[k + 1]
    BY <1>2, <1>12, Taken
  <2>2. ASSUME NEW k \in 2..Len(q) PROVE ~Old(k)
    <3> HIDE DEF p, q
    <3>1. k - 1 \in 1..Len(p) /\ k - 1 + 1 = k
      BY <1>2, <2>1, <2>2
    <3> QED BY <1>3, <2>1, <3>1
  <2>3. containers'[c] = IF c = q[1].c THEN Updated(containers[c], q[1].e) ELSE containers[c]
    BY <1>0, <1>12, <2>1 DEF HandleEvent
  <2>4. containers[c] \in Row
    BY <1>0, PartialOf DEF Types
  <2>5. CASE Old(1)
    <3>1. Tells(q[1].e) = host[c] \/ Starting(c)
      BY <1>1, <1>4, <2>1, <2>2, <2>5 DEF LastTold, Told
    <3>2. Updated(containers[c], q[1].e).state = Tells(q[1].e)
      BY <2>5 DEF Updated, Tells, Telling
    <3> QED BY <1>12, <2>3, <2>5, <3>1, <3>2 DEF Starting
  <2>6. CASE ~Old(1)
    <3>1. \A k \in 1..Len(q) : ~Old(k)
      <4> HIDE DEF q, p
      <4>1. ASSUME NEW k \in 1..Len(q), k # 1 PROVE ~Old(k)
        <5>1. k \in 2..Len(q)
          BY <1>2, <4>1
        <5> QED BY <2>2, <5>1
      <4> QED BY <2>6, <4>1
    <3>2. q[1].c = c => containers'[c].state = containers[c].state
      BY <2>3, <2>4, <2>6 DEF Updated, Telling, Row
    <3>3. containers'[c].state = containers[c].state
      BY <2>3, <3>2
    <3> QED BY <1>5, <1>12, <3>1, <3>3 DEF Starting
  <2> QED BY <2>5, <2>6
<1>13. InOrder
  BY DEF InOrder, ViewCond
<1> QED BY <1>0, <1>8, <1>9, <1>10, <1>11, <1>12, <1>13, FeedCases DEF p, q

LEMMA ShownStep ==
    ASSUME Types, Sound, ViewCond, OfflineSeen, ReadTrue, DoingTrue, LastTold, Shown, [Next]_vars
    PROVE  Shown'
<1> SUFFICES ASSUME connected', ~Due'
             PROVE  /\ \A c \in Existing(Mine)' \ DOMAIN containers' : Doing("create", c)'
                    /\ \A c \in DOMAIN containers' \ Existing(Mine)' : Doing("remove", c)'
                    /\ \A c \in Existing(Mine)' \cap DOMAIN containers' :
                          (\A k \in 1..Len(feed'[Mine]) : ~Told(c, k)') =>
                              containers'[c].state = host'[c] \/ Starting(c)'
  BY DEF Shown
<1>1. CASE \E j \in jobs : HandleList(j)
  BY <1>1, ShownByList
<1>2. CASE \A j \in jobs : ~HandleList(j)
  <2>0. connected /\ ~Due /\ online[Mine] /\ mine = {Mine} /\ Mounted /\ serverId = Mine
    BY <1>2, NotDue
  <2>1. ASSUME NEW c \in Existing(Mine)', c \notin DOMAIN containers' PROVE Doing("create", c)'
    <3>1. c \in Container /\ ServerOf[c] = Mine /\ host'[c] \notin {"unborn", "gone"}
      BY DEF Existing
    <3>2. c \notin DOMAIN containers
      BY <1>2, <2>1, <3>1, RowsStay
    <3>3. Doing("create", c)
      <4>1. CASE c \in Existing(Mine)
        BY <2>0, <3>2, <4>1 DEF Shown
      <4>2. CASE c \notin Existing(Mine)
        <5>1. host[c] = "unborn" /\ host'[c] # host[c]
          BY <3>1, <4>2, StaysGone DEF Existing
        <5>2. script[c] # <<>> /\ GoodScript(script[c], host[c]) /\ script[c] \in Seq(Event)
          BY <3>1, <5>1, ContainerStep DEF DockerStep, Sound, Types
        <5>3. Head(script[c]) = "create"
          BY <5>1, <5>2, Taken DEF GoodScript
        <5> QED BY <3>1, <5>2, <5>3 DEF DoingTrue
      <4> QED BY <4>1, <4>2
    <3>4. ASSUME NEW j \in jobs, HandleResult(j), j.act = "create" PROVE FALSE
      BY <2>0, <3>4, CreatedAsks
    <3> QED BY <3>1, <3>3, <3>4, DoingKept
  <2>2. ASSUME NEW c \in DOMAIN containers', c \notin Existing(Mine)' PROVE Doing("remove", c)'
    <3>1. c \in DOMAIN containers /\ c \in Container /\ host[c] # "unborn" /\ ServerOf[c] = Mine
      BY <1>2, <2>0, <2>2, RowsStay, PartialOf DEF Sound, Types
    <3>2. host'[c] = "gone"
      BY <2>2, <3>1, StaysBorn DEF Existing
    <3>3. CASE c \in Existing(Mine)
      <4>1. DockerStep(c)
        BY <3>1, <3>2, <3>3, ContainerStep DEF Existing
      <4>2. /\ script[c] # <<>> /\ GoodScript(script[c], host[c]) /\ script[c] \in Seq(Event)
            /\ host'[c] = After(Head(script[c]), host[c])
        BY <3>1, <4>1 DEF DockerStep, Sound, Types
      <4>3. Head(script[c]) = script[c][1] /\ 1 \in 1..Len(script[c])
        BY <4>2, Taken
      <4>4. script[c][1] = "destroy"
        BY <3>2, <3>3, <4>2, <4>3 DEF After, Existing
      <4>5. Destroying(c)
        BY <4>2, <4>3, <4>4 DEF GoodScript, Destroying
      <4> QED BY <3>1, <4>2, <4>5, DoingKept DEF DoingTrue
    <3>4. CASE c \notin Existing(Mine)
      <4>1. Doing("remove", c)
        BY <2>0, <3>1, <3>4 DEF Shown
      <4>2. ASSUME NEW j \in jobs, j.act = "remove", j.c = c, HandleResult(j) PROVE FALSE
        BY <2>2, <4>2 DEF HandleResult
      <4> QED BY <3>1, <4>1, <4>2, DoingKept
    <3> QED BY <3>3, <3>4
  <2> QED BY <1>2, <2>1, <2>2, RowTold
<1> QED BY <1>1, <1>2

LEMMA ViewInit == Init => ViewInv
<1> SUFFICES ASSUME Init, ViewCond PROVE OfflineSeen /\ ReadTrue /\ DoingTrue /\ LastTold /\ Shown
  BY DEF ViewInv
<1>1. /\ Mine \in Server /\ Mine \in mine
      /\ jobs = {} /\ \A c \in Container : script[c] = <<>>
      /\ online[Mine] /\ feed[Mine] = <<[c |-> None, e |-> "online"]>> /\ agentState = None
  BY ServerOfAssumption, MineIn DEF Init
<1>2. Due
  BY <1>1 DEF Due, Mounted, None
<1>3. \A c \in Container : \A i \in 1..Len(feed[Mine]) : ~Told(c, i)
  BY <1>1, ViewSentinelAssumption DEF Told, Telling
<1> QED BY <1>1, <1>2, <1>3 DEF OfflineSeen, ReadTrue, DoingTrue, Doing, Destroying, LastTold,
                                Shown, Existing

LEMMA ViewNext == BaseInv /\ ViewInv /\ [Next]_vars => ViewInv'
<1> SUFFICES ASSUME Types, Sound, ViewInv, [Next]_vars, ViewCond PROVE ViewInv'
  BY Frames DEF BaseInv, Changes, ViewInv, ViewCond
<1>1. OfflineSeen /\ ReadTrue /\ DoingTrue /\ LastTold /\ Shown
  BY DEF ViewInv
<1>2. OfflineSeen'
  BY <1>1, OfflineStep DEF ViewCond, InOrder
<1>3. ReadTrue'
  BY <1>1, ReadTrueStep DEF ReadTrue
<1>4. DoingTrue'
  BY <1>1, DoingTrueStep DEF DoingTrue
<1>5. LastTold'
  BY <1>1, LastToldStep DEF LastTold
<1>6. Shown'
  BY <1>1, ShownStep
<1> QED BY <1>2, <1>3, <1>4, <1>5, <1>6 DEF ViewInv

LEMMA ViewHolds == BaseInv /\ ViewInv => ViewTrue
<1> SUFFICES ASSUME Types, Sound, ViewInv, ViewCond, Looking, Settled(serverId)
             PROVE  /\ DOMAIN containers = Existing(serverId)
                    /\ \A c \in Existing(serverId) : containers[c].state = host[c]
  BY DEF BaseInv, ViewTrue, ViewCond
<1>1. serverId = Mine /\ mine = {Mine} /\ connected /\ Shown /\ ServerOf \in [Container -> Server]
  BY ServerOfAssumption DEF Looking, Mounted, Types, mine, ViewCond, ViewInv
<1>2. /\ feed[Mine] = <<>> /\ \A j \in jobs : j.server = Mine => j.act \in Question
      /\ \A c \in Container : ServerOf[c] = Mine => script[c] = <<>>
  BY <1>1 DEF Settled
<1>3. ~Due
  BY <1>1, <1>2 DEF Due, Looking, OfflineIn, Question
<1>4. ASSUME NEW act \in {"create", "remove"}, NEW c, Doing(act, c) PROVE FALSE
  BY <1>1, <1>2, <1>4 DEF Doing, Sound, GoodJob, Question
<1>5. DOMAIN containers = Existing(Mine)
  BY <1>1, <1>3, <1>4 DEF Shown
<1>6. \A c \in Existing(Mine) : containers[c].state = host[c]
  BY <1>1, <1>2, <1>3, <1>5 DEF Shown, Starting, Existing
<1> QED BY <1>1, <1>5, <1>6

(* Once nothing is under way, a page that is open shows the containers of  *)
(* its server as Docker has them, in the circumstances that ViewTrue       *)
(* names: what a list brought is kept true by the events that follow it.   *)
THEOREM ViewIsTrue == Spec => []ViewTrue
BY BaseAlways, ViewInit, ViewNext, ViewHolds, PTL DEF Spec
=============================================================================

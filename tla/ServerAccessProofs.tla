-------------------------- MODULE ServerAccessProofs --------------------------
(***************************************************************************)
(* Theorems of ServerAccess, for any finite sets of servers and users, any *)
(* requests and limits, and any set of environments.                       *)
(***************************************************************************)
EXTENDS ServerAccess, FiniteSetTheorems, TLAPS

(* The steps of a handler, and when it has a server.                       *)
Shape(h) ==
    /\ h.op = "create" => /\ h.pc \in {"arrived", "allowed", "inserted", "keyed", "undo"}
                          /\ h.server = NoServer <=> h.pc \in {"arrived", "allowed"}
    /\ h.op \notin {"create", "none"} => /\ h.pc \in {"arrived", "allowed", "anOwner", "write"}
                                        /\ h.server \in Server

Creating(q, s) ==
    request[q].op = "create" /\ request[q].server = s

(* A server in creation has no members, and no other request has got past  *)
(* the role check for it.                                                  *)
Building ==
    \A q \in Request, s \in Server : Creating(q, s) =>
        /\ Exists(s) /\ Members(s) = {}
        /\ request[q].pc = "keyed" => s \in credentials
        /\ \A p \in Request : p # q /\ request[p].op # "none" /\ request[p].server = s
                                => request[p].pc = "arrived"

(* A request that got past the role check is about a server with members   *)
(* or one that is gone by now.                                             *)
Checked ==
    \A q \in Request : request[q].op \notin {"none", "create"} /\ request[q].pc # "arrived" =>
        (Exists(request[q].server) => request[q].server \in credentials)

Equipped == \A s \in Server : Members(s) # {} => Exists(s) /\ s \in credentials

AccessInv ==
    TypeOK /\ (\A q \in Request : Shape(request[q])) /\ Building /\ Checked /\ Equipped

(* One request at a time.                                                  *)
Serial ==
    "overlap" \notin env =>
        \A p, q \in Request : request[p].op # "none" /\ request[q].op # "none" => p = q

Lowers(q) ==
    \/ request[q].op = "remove"
    \/ request[q].op = "setRole" /\ request[q].newRole # "owner"

(* Who takes an owner away has seen another one.                           *)
AnotherOwner ==
    Undisturbed =>
        /\ \A s \in Server : Members(s) # {} => Owners(s) # {}
        /\ \A q \in Request : request[q].op \notin {"none", "create"} /\ request[q].pc # "arrived" =>
              /\ Owners(request[q].server) # {}
              /\ Lowers(q) /\ request[q].pc = "write" =>
                    \E u \in Owners(request[q].server) : u # request[q].target

(* No server is left behind by a create.                                   *)
NoneLeft ==
    env \cap {"crash", "undoFails", "overlap", "readFails"} = {} =>
        \A s \in Server : Exists(s) /\ Owners(s) = {} => \E q \in Request : Creating(q, s)

(* What was counted still holds.                                           *)
Counted ==
    Undisturbed =>
        /\ \A u \in User : Cardinality(Owned(u)) <= MaxServers[u]
        /\ \A q \in Request : request[q].op = "create" /\ request[q].pc = "allowed" =>
              Cardinality(Owned(request[q].by)) < MaxServers[request[q].by]
        /\ \A q \in Request : request[q].op = "invite" /\ request[q].pc = "write" =>
              Cardinality(Members(request[q].server)) < MaxMembers[request[q].by]

-----------------------------------------------------------------------------
(* What the steps do to the requests, field by field.                      *)

Requests == Handling \cup {Idle}
Others(q) == \A p \in Request : p # q => request'[p] = request[p]

Advance(q, pc) ==
    /\ Others(q) /\ request'[q] \in Handling /\ request'[q].pc = pc
    /\ request'[q].op = request[q].op /\ request'[q].by = request[q].by
    /\ request'[q].server = request[q].server /\ request'[q].target = request[q].target
    /\ request'[q].newRole = request[q].newRole
End(q) == Others(q) /\ request'[q] = Idle

LEMMA Kinds ==
    ASSUME NEW h \in Requests
    PROVE  /\ h \in Handling <=> h.op # "none"
           /\ h = Idle <=> h.op = "none"
           /\ h.op \in {"none", "create", "invite", "setRole", "remove", "delete"}
BY DEF Requests, Handling, Idle

LEMMA GotoStep ==
    ASSUME request \in [Request -> Requests], NEW q \in Request, NEW pc \in Step,
           request[q].op # "none", Goto(q, pc)
    PROVE  request' \in [Request -> Requests] /\ Advance(q, pc)
<1> DEFINE n == [request[q] EXCEPT !.pc = pc]
<1>1. request[q] \in Handling
  BY Kinds
<1>2. n \in Handling /\ n.pc = pc
  BY <1>1 DEF Handling
<1>3. /\ n.op = request[q].op /\ n.by = request[q].by /\ n.server = request[q].server
      /\ n.target = request[q].target /\ n.newRole = request[q].newRole
  BY <1>1 DEF Handling
<1>4. request' = [request EXCEPT ![q] = n]
  BY DEF Goto
<1>5. request' \in [Request -> Requests] /\ request'[q] = n /\ Others(q)
  BY <1>2, <1>4 DEF Requests, Others
<1>6. QED
  BY <1>2, <1>3, <1>5 DEF Advance

LEMMA AnswerStep ==
    ASSUME request \in [Request -> Requests], NEW q \in Request, Answer(q)
    PROVE  request' \in [Request -> Requests] /\ End(q)
BY DEF Answer, Requests, End, Others

LEMMA InsertServerStep ==
    ASSUME request \in [Request -> Requests], NEW q \in Request, NEW s \in Server, InsertServer(q, s)
    PROVE  /\ request' \in [Request -> Requests] /\ Others(q) /\ request'[q].op = "create"
           /\ request'[q].pc = "inserted" /\ request'[q].server = s
           /\ request'[q].by = request[q].by /\ request[q].by \in User
<1> DEFINE n == [request[q] EXCEPT !.server = s, !.pc = "inserted"]
<1>1. request[q] \in Handling /\ request[q].op = "create"
  BY Kinds DEF InsertServer, At
<1>2. n \in Handling /\ request' = [request EXCEPT ![q] = n]
  BY <1>1 DEF Handling, Step, InsertServer
<1>3. n.op = "create" /\ n.pc = "inserted" /\ n.server = s /\ n.by = request[q].by /\ request[q].by \in User
  BY <1>1 DEF Handling
<1>4. request' \in [Request -> Requests] /\ request'[q] = n /\ Others(q)
  BY <1>2 DEF Requests, Others
<1>5. QED
  BY <1>3, <1>4

LEMMA BeginStep ==
    ASSUME request \in [Request -> Requests], NEW q \in Request, NEW h \in Arrival, Begin(q, h)
    PROVE  /\ request' \in [Request -> Requests] /\ Others(q) /\ request'[q] = h
           /\ request[q].op = "none" /\ h.op # "none" /\ h.pc = "arrived" /\ h \in Handling
           /\ h.op = "create" <=> h.server = NoServer
<1>1. h \in Handling /\ h.pc = "arrived" /\ (h.op = "create" <=> h.server = NoServer)
  BY DEF Arrival
<1>2. h.op # "none" /\ request[q].op = "none"
  BY <1>1 DEF Handling, Begin, Idle
<1>3. request' \in [Request -> Requests] /\ Others(q) /\ request'[q] = h
  BY <1>1 DEF Begin, Requests, Others
<1>4. QED
  BY <1>1, <1>2, <1>3

(* Where each step leads.                                                  *)
LEMMA Moves ==
    ASSUME request \in [Request -> Requests], \A p \in Request : Shape(request[p]), NEW q \in Request
    PROVE  /\ RequireRole(q) =>
                 /\ request[q].op \notin {"none", "create"} /\ request[q].pc = "arrived"
                 /\ \/ Advance(q, "write") /\ request[q].by \in Owners(request[q].server)
                       /\ \/ request[q].op = "delete"
                          \/ request[q].op = "setRole" /\ request[q].newRole = "owner"
                    \/ Advance(q, "allowed") /\ request[q].by \in Owners(request[q].server)
                    \/ End(q)
           /\ CountServers(q) => Advance(q, "allowed") \/ End(q)
           /\ InsertServerFails(q) \/ Undo(q) \/ WriteFails(q) \/ DeleteServer(q)
                 \/ InsertMember(q) \/ WriteMember(q) => End(q)
           /\ StoreCredentials(q) => \/ credentials' = credentials \cup {request[q].server}
                                        /\ Advance(q, "keyed")
                                     \/ credentials' = credentials /\ Advance(q, "undo")
           /\ InsertOwner(q) =>
                 \/ role' = [role EXCEPT ![request[q].server][request[q].by] = "owner"] /\ End(q)
                 \/ role' = role /\ Advance(q, "undo")
           /\ InviteQuota(q) => Advance(q, "write") \/ End(q)
           /\ ReadTarget(q) => Advance(q, "anOwner") \/ Advance(q, "write")
           /\ CountOwners(q) => Advance(q, "write") \/ End(q)
<1> USE DEF At
<1>0. {"write", "allowed", "keyed", "undo", "anOwner"} \subseteq Step
  BY DEF Step
<1>1. RequireRole(q) =>
          /\ request[q].op \notin {"none", "create"} /\ request[q].pc = "arrived"
          /\ \/ Advance(q, "write") /\ request[q].by \in Owners(request[q].server)
                /\ \/ request[q].op = "delete"
                   \/ request[q].op = "setRole" /\ request[q].newRole = "owner"
             \/ Advance(q, "allowed") /\ request[q].by \in Owners(request[q].server)
             \/ End(q)
  BY <1>0, Kinds, GotoStep, AnswerStep DEF RequireRole
<1>2. CountServers(q) => Advance(q, "allowed") \/ End(q)
  BY <1>0, GotoStep, AnswerStep DEF CountServers
<1>3. InsertServerFails(q) \/ Undo(q) \/ WriteFails(q) \/ DeleteServer(q)
          \/ InsertMember(q) \/ WriteMember(q) => End(q)
  BY AnswerStep DEF InsertServerFails, Undo, WriteFails, DeleteServer, InsertMember, WriteMember
<1>4. StoreCredentials(q) => \/ credentials' = credentials \cup {request[q].server} /\ Advance(q, "keyed")
                             \/ credentials' = credentials /\ Advance(q, "undo")
  BY <1>0, GotoStep DEF StoreCredentials
<1>5. InsertOwner(q) =>
          \/ role' = [role EXCEPT ![request[q].server][request[q].by] = "owner"] /\ End(q)
          \/ role' = role /\ Advance(q, "undo")
  BY <1>0, GotoStep, AnswerStep DEF InsertOwner
<1>6. InviteQuota(q) => Advance(q, "write") \/ End(q)
  BY <1>0, GotoStep, AnswerStep DEF InviteQuota
<1>7. ReadTarget(q) => Advance(q, "anOwner") \/ Advance(q, "write")
  BY <1>0, GotoStep DEF ReadTarget
<1>8. CountOwners(q) => Advance(q, "write") \/ End(q)
  BY <1>0, GotoStep, AnswerStep DEF CountOwners
<1>9. QED
  BY <1>1, <1>2, <1>3, <1>4, <1>5, <1>6, <1>7, <1>8

-----------------------------------------------------------------------------
(* Types, and what a create and its undo leave behind.                     *)

LEMMA AccessInvariant == Spec => []AccessInv
<1>1. Init => AccessInv
  <2> SUFFICES ASSUME Init PROVE AccessInv
    OBVIOUS
  <2>1. TypeOK
    BY DEF Init, TypeOK, Role, Exists, Members
  <2>2. \A q \in Request : request[q] = Idle /\ Shape(request[q])
    BY DEF Init, Shape, Idle
  <2>3. Equipped
    BY DEF Init, Equipped, Members
  <2>4. QED
    BY <2>1, <2>2, <2>3 DEF AccessInv, Building, Checked, Creating, Idle
<1>2. AccessInv /\ [Next]_vars => AccessInv'
  <2> SUFFICES ASSUME AccessInv, [Next]_vars PROVE AccessInv'
    OBVIOUS
  <2> USE DEF Others
  <2>t. /\ request \in [Request -> Requests] /\ \A q \in Request : Shape(request[q])
        /\ env \in Environments /\ creator \in [Server -> User \cup {NoUser}]
        /\ credentials \subseteq Server /\ role \in [Server -> [User -> Role \cup {"none"}]]
        /\ \A s \in Server : ~Exists(s) => s \notin credentials /\ Members(s) = {}
        /\ NoUser \notin User /\ NoServer \notin Server
    BY SentinelAssumption DEF AccessInv, TypeOK, Requests
  <2>s. \A q \in Request : /\ request[q].op \in {"none", "create", "invite", "setRole", "remove", "delete"}
                           /\ request[q].op # "none" => /\ request[q] \in Handling
                                                        /\ request[q].by \in User
                                                        /\ request[q].target \in User
                                                        /\ request[q].newRole \in Role
    <3> SUFFICES ASSUME NEW q \in Request
                 PROVE  /\ request[q].op \in {"none", "create", "invite", "setRole", "remove", "delete"}
                        /\ request[q].op # "none" => /\ request[q] \in Handling
                                                     /\ request[q].by \in User
                                                     /\ request[q].target \in User
                                                     /\ request[q].newRole \in Role
      OBVIOUS
    <3>1. request[q] \in Requests
      BY <2>t
    <3>2. request[q] \in Handling => request[q].by \in User /\ request[q].target \in User
                                     /\ request[q].newRole \in Role
      BY DEF Handling
    <3>3. QED
      BY <3>1, <3>2, Kinds
  (* A step of a request that changes no table.                            *)
  <2>1. ASSUME NEW q \in Request, request' \in [Request -> Requests], Others(q), Shape(request'[q]),
               UNCHANGED <<env, creator, credentials, role>>,
               \A s \in Server : Creating(q, s)' => Creating(q, s) /\ (request'[q].pc = "keyed" => request[q].pc = "keyed"),
               request'[q].op \notin {"none", "create"} =>
                   \/ request'[q].pc = "arrived"
                   \/ /\ request[q].op = request'[q].op /\ request'[q].server = request[q].server
                      /\ \/ request[q].pc # "arrived"
                         \/ Members(request[q].server) # {}
        PROVE  AccessInv'
    <3>1. TypeOK'
      BY <2>1, <2>t DEF TypeOK, Exists, Members, Requests
    <3>2. \A p \in Request : Shape(request'[p])
      BY <2>1, <2>t
    <3>3. Building'
      <4> SUFFICES ASSUME NEW p \in Request, NEW s \in Server, Creating(p, s)'
                   PROVE  /\ Exists(s) /\ Members(s) = {}
                          /\ request'[p].pc = "keyed" => s \in credentials
                          /\ \A r \in Request : r # p /\ request'[r].op # "none" /\ request'[r].server = s
                                => request'[r].pc = "arrived"
        BY <2>1 DEF Building, Exists, Members
      <4>1. Creating(p, s) /\ (request'[p].pc = "keyed" => request[p].pc = "keyed")
        BY <2>1 DEF Creating
      <4>2. /\ Exists(s) /\ Members(s) = {} /\ (request[p].pc = "keyed" => s \in credentials)
            /\ \A r \in Request : r # p /\ request[r].op # "none" /\ request[r].server = s
                                => request[r].pc = "arrived"
        BY <4>1 DEF AccessInv, Building
      <4>3. ASSUME NEW r \in Request, r # p, request'[r].op # "none", request'[r].server = s
            PROVE  request'[r].pc = "arrived"
        <5>1. CASE r # q
          BY <2>1, <4>2, <4>3, <5>1
        <5>2. CASE r = q /\ request'[q].op = "create"
          <6>1. Creating(q, s)
            BY <2>1, <4>3, <5>2 DEF Creating
          <6>2. request[q].pc = "arrived" /\ request[q].server = s
            BY <4>2, <4>3, <5>2, <6>1 DEF Creating
          <6>3. QED
            BY <2>t, <5>2, <6>1, <6>2 DEF Shape, Creating
        <5>3. CASE r = q /\ request'[q].op # "create"
          BY <2>1, <4>2, <4>3, <5>3
        <5>4. QED
          BY <5>1, <5>2, <5>3
      <4>4. QED
        BY <4>1, <4>2, <4>3
    <3>4. Checked'
      <4> SUFFICES ASSUME NEW p \in Request, request'[p].op \notin {"none", "create"},
                          request'[p].pc # "arrived", Exists(request'[p].server)
                   PROVE  request'[p].server \in credentials
        BY <2>1 DEF Checked, Exists
      <4>1. CASE p # q
        BY <2>1, <4>1 DEF AccessInv, Checked
      <4>2. CASE p = q
        <5>1. request'[q].server \in Server
          BY <2>1, <4>2 DEF Shape
        <5>2. QED
          BY <2>1, <4>2, <5>1 DEF AccessInv, Checked, Equipped
      <4>3. QED
        BY <4>1, <4>2
    <3>5. Equipped'
      BY <2>1 DEF AccessInv, Equipped, Members, Exists
    <3>6. QED
      BY <3>1, <3>2, <3>3, <3>4, <3>5 DEF AccessInv
  (* A step that ends a request and changes the tables of its server.      *)
  <2>2. ASSUME NEW q \in Request, NEW s \in Server, request[q].op # "none", request[q].server = s,
               request' \in [Request -> Requests], End(q),
               Creating(q, s) \/ request[q].pc # "arrived",
               env' = env, creator' \in [Server -> User \cup {NoUser}], credentials' \subseteq Server,
               role' \in [Server -> [User -> Role \cup {"none"}]],
               \A x \in Server : x # s => creator'[x] = creator[x] /\ role'[x] = role[x],
               \A x \in Server : x # s => (x \in credentials' <=> x \in credentials),
               ~Exists(s)' => s \notin credentials' /\ Members(s)' = {},
               Exists(s)' => Exists(s) /\ (s \in credentials => s \in credentials'),
               Members(s)' # {} => Exists(s)' /\ s \in credentials'
        PROVE  AccessInv'
    <3>1. \A x \in Server : x # s => Members(x)' = Members(x) /\ (Exists(x)' <=> Exists(x))
      BY <2>2 DEF Exists, Members
    <3>2. TypeOK'
      <4>1. ASSUME NEW x \in Server, ~Exists(x)' PROVE x \notin credentials' /\ Members(x)' = {}
        BY <2>2, <2>t, <3>1, <4>1
      <4>2. QED
        BY <2>2, <2>t, <4>1 DEF TypeOK, Requests
    <3>3. \A p \in Request : Shape(request'[p])
      <4>1. Shape(Idle)
        BY DEF Shape, Idle
      <4>2. QED
        BY <2>2, <2>t, <4>1 DEF End
    <3>4. \A p \in Request : request'[p].op # "none" => p # q /\ request'[p] = request[p]
      BY <2>2 DEF End, Idle
    <3>5. \A p \in Request : p # q => ~Creating(p, s)
      <4> SUFFICES ASSUME NEW p \in Request, p # q, Creating(p, s) PROVE FALSE
        OBVIOUS
      <4>1. request[q].pc = "arrived"
        BY <2>2 DEF AccessInv, Building
      <4>2. request[p].pc = "arrived"
        BY <2>2, <4>1 DEF AccessInv, Building, Creating
      <4>3. QED
        BY <2>t, <4>2 DEF Creating, Shape
    <3>6. Building'
      <4> SUFFICES ASSUME NEW p \in Request, NEW x \in Server, Creating(p, x)'
                   PROVE  /\ Exists(x)' /\ Members(x)' = {}
                          /\ request'[p].pc = "keyed" => x \in credentials'
                          /\ \A r \in Request : r # p /\ request'[r].op # "none" /\ request'[r].server = x
                                => request'[r].pc = "arrived"
        BY DEF Building
      <4>1. Creating(p, x) /\ p # q /\ request'[p] = request[p]
        BY <3>4 DEF Creating
      <4>2. x # s
        BY <3>5, <4>1
      <4>3. QED
        BY <2>2, <3>1, <3>4, <4>1, <4>2 DEF AccessInv, Building
    <3>7. Checked'
      <4> SUFFICES ASSUME NEW p \in Request, request'[p].op \notin {"none", "create"},
                          request'[p].pc # "arrived", Exists(request[p].server)'
                   PROVE  request'[p].server \in credentials'
        BY DEF Checked
      <4>1. request'[p] = request[p] /\ request[p].server \in Server
        BY <2>t, <3>4 DEF Shape
      <4>2. QED
        BY <2>2, <3>1, <4>1 DEF AccessInv, Checked
    <3>8. Equipped'
      BY <2>2, <3>1 DEF AccessInv, Equipped
    <3>9. QED
      BY <3>2, <3>3, <3>6, <3>7, <3>8 DEF AccessInv
  <2>3. ASSUME NEW q \in Request, NEW h \in Arrival, Begin(q, h) PROVE AccessInv'
    <3>1. /\ request' \in [Request -> Requests] /\ Others(q) /\ request'[q] = h
          /\ h.pc = "arrived" /\ h \in Handling /\ (h.op = "create" <=> h.server = NoServer)
      BY <2>3, <2>t, BeginStep
    <3>2. Shape(h)
      BY <3>1 DEF Shape, Handling
    <3>3. \A s \in Server : ~Creating(q, s)'
      BY <2>t, <3>1 DEF Creating
    <3>4. UNCHANGED <<env, creator, credentials, role>>
      BY <2>3 DEF Begin
    <3>5. QED
      BY <2>1, <3>1, <3>2, <3>3, <3>4
  (* Steps that only advance or end a request.                             *)
  <2>4. ASSUME NEW q \in Request, End(q), request' \in [Request -> Requests],
               UNCHANGED <<env, creator, credentials, role>>
        PROVE  AccessInv'
    BY <2>1, <2>4 DEF End, Shape, Idle, Creating
  <2>5. ASSUME NEW q \in Request, NEW pc, Advance(q, pc), request' \in [Request -> Requests],
               UNCHANGED <<env, creator, credentials, role>>, pc # "keyed",
               Shape(request'[q]),
               \/ request[q].pc # "arrived" \/ request[q].op = "create"
               \/ Members(request[q].server) # {}
        PROVE  AccessInv'
    <3>1. \A s \in Server : Creating(q, s)' => Creating(q, s)
      BY <2>5 DEF Creating, Advance
    <3>2. QED
      BY <2>1, <2>5, <3>1 DEF Advance
  <2>6. ASSUME NEW q \in Request, RequireRole(q) PROVE AccessInv'
    <3>1. UNCHANGED <<env, creator, credentials, role>> /\ request' \in [Request -> Requests]
      <4>1. request[q].op # "none"
        BY <2>6, <2>t, Moves
      <4>2. (\E pc \in Step : Goto(q, pc)) \/ Answer(q)
        BY <2>6 DEF RequireRole, Step
      <4>3. QED
        BY <2>6, <2>t, <4>1, <4>2, GotoStep, AnswerStep DEF RequireRole
    <3>2. request[q].by \in Owners(request[q].server) => Members(request[q].server) # {}
      BY DEF Owners, Members
    <3>3. \/ End(q)
          \/ \E pc \in {"write", "allowed"} : Advance(q, pc) /\ Members(request[q].server) # {}
      BY <2>6, <2>t, <3>2, Moves
    <3>4. request[q].op \notin {"none", "create"} /\ request[q].server \in Server
      BY <2>6, <2>t, Moves DEF Shape
    <3>5. ASSUME NEW pc \in {"write", "allowed"}, Advance(q, pc), Members(request[q].server) # {}
          PROVE  AccessInv'
      <4>1. Shape(request'[q])
        BY <3>4, <3>5 DEF Shape, Advance
      <4>2. QED
        BY <2>5, <3>1, <3>5, <4>1
    <3>6. QED
      BY <2>4, <3>1, <3>3, <3>5
  <2>7. ASSUME NEW q \in Request, CountServers(q) \/ InsertServerFails(q) \/ WriteFails(q)
               \/ InviteQuota(q) \/ ReadTarget(q) \/ CountOwners(q)
        PROVE  AccessInv'
    <3> DEFINE T == {"allowed", "write", "anOwner"}
    <3>1. UNCHANGED <<env, creator, credentials, role>> /\ request[q].op # "none"
      BY <2>7, <2>t, Kinds DEF CountServers, InsertServerFails, WriteFails, InviteQuota, ReadTarget,
         CountOwners, At
    <3>2. (\E pc \in T : Goto(q, pc)) \/ Answer(q)
      BY <2>7 DEF CountServers, InsertServerFails, WriteFails, InviteQuota, ReadTarget, CountOwners
    <3>3. request' \in [Request -> Requests]
      BY <2>t, <3>1, <3>2, GotoStep, AnswerStep DEF Step
    <3>4. ASSUME NEW pc \in T, Advance(q, pc) PROVE AccessInv'
      <4>1. /\ request[q].op = "create" => request[q].pc = "arrived" /\ pc = "allowed"
            /\ request[q].op # "create" => request[q].pc \in {"allowed", "anOwner"}
        <5>1. CASE CountServers(q)
          <6>1. pc = "allowed" \/ request'[q] = Idle
            BY <2>t, <3>4, <5>1, Moves DEF Advance, End
          <6>2. QED
            BY <3>1, <3>4, <5>1, <6>1 DEF Advance, Idle, CountServers, At
        <5>2. CASE InsertServerFails(q) \/ WriteFails(q)
          <6>1. request'[q] = Idle
            BY <2>t, <5>2, Moves DEF End
          <6>2. QED
            BY <3>1, <3>4, <6>1 DEF Advance, Idle
        <5>3. CASE InviteQuota(q) \/ ReadTarget(q) \/ CountOwners(q)
          BY <5>3 DEF InviteQuota, ReadTarget, CountOwners, At
        <5>4. QED
          BY <2>7, <5>1, <5>2, <5>3
      <4>2. Shape(request'[q])
        BY <2>t, <3>1, <3>4, <4>1 DEF Shape, Advance
      <4>3. QED
        BY <2>5, <3>1, <3>3, <3>4, <4>1, <4>2
    <3>5. QED
      BY <2>4, <2>7, <2>t, <3>1, <3>2, <3>3, <3>4, GotoStep, AnswerStep DEF Step
  <2>8. ASSUME NEW q \in Request, NEW s \in Server, InsertServer(q, s) PROVE AccessInv'
    <3>1. /\ request' \in [Request -> Requests] /\ Others(q) /\ request'[q].op = "create"
          /\ request'[q].pc = "inserted" /\ request'[q].server = s /\ request[q].by \in User
      BY <2>8, <2>t, InsertServerStep
    <3>2. /\ UNCHANGED <<env, credentials, role>> /\ creator' = [creator EXCEPT ![s] = request[q].by]
          /\ ~Exists(s) /\ \A p \in Request : request[p].op # "none" => request[p].server # s
      BY <2>8, <2>s, Kinds DEF InsertServer, NewId, Idle
    <3>3. /\ creator' \in [Server -> User \cup {NoUser}] /\ creator'[s] \in User
          /\ \A x \in Server : x # s => creator'[x] = creator[x]
      BY <2>t, <3>1, <3>2
    <3>4. /\ Members(s) = {}
          /\ \A x \in Server : Members(x)' = Members(x) /\ (Exists(x) => Exists(x)')
          /\ \A x \in Server : x # s => (Exists(x)' <=> Exists(x))
      BY <2>t, <3>2, <3>3 DEF Exists, Members
    <3>5. TypeOK'
      BY <2>t, <3>1, <3>2, <3>3, <3>4 DEF TypeOK, Requests
    <3>6. \A p \in Request : Shape(request'[p])
      BY <2>t, <3>1 DEF Shape
    <3>7. Building'
      <4> SUFFICES ASSUME NEW p \in Request, NEW x \in Server, Creating(p, x)'
                   PROVE  /\ Exists(x)' /\ Members(x)' = {}
                          /\ request'[p].pc = "keyed" => x \in credentials'
                          /\ \A r \in Request : r # p /\ request'[r].op # "none" /\ request'[r].server = x
                                => request'[r].pc = "arrived"
        BY DEF Building
      <4>1. CASE p = q
        <5>1. x = s
          BY <3>1, <4>1 DEF Creating
        <5>2. QED
          BY <2>t, <3>1, <3>2, <3>3, <3>4, <4>1, <5>1 DEF Exists
      <4>2. CASE p # q
        <5>1. Creating(p, x) /\ request'[p] = request[p] /\ x # s
          BY <3>1, <3>2, <4>2 DEF Creating
        <5>2. QED
          BY <3>1, <3>2, <3>4, <4>2, <5>1 DEF AccessInv, Building
      <4>3. QED
        BY <4>1, <4>2
    <3>8. Checked'
      <4> SUFFICES ASSUME NEW p \in Request, request'[p].op \notin {"none", "create"},
                          request'[p].pc # "arrived", Exists(request[p].server)'
                   PROVE  request'[p].server \in credentials'
        BY DEF Checked
      <4>1. request'[p] = request[p] /\ request[p].server \in Server \ {s}
        BY <2>t, <3>1, <3>2 DEF Shape
      <4>2. QED
        BY <3>2, <3>4, <4>1 DEF AccessInv, Checked
    <3>9. Equipped'
      BY <3>2, <3>4 DEF AccessInv, Equipped
    <3>10. QED
      BY <3>5, <3>6, <3>7, <3>8, <3>9 DEF AccessInv
  <2>9. ASSUME NEW q \in Request, StoreCredentials(q) PROVE AccessInv'
    <3> DEFINE s == request[q].server
    <3>1. /\ request[q].op = "create" /\ request[q].pc = "inserted" /\ UNCHANGED <<env, creator, role>>
      BY <2>9 DEF StoreCredentials, At
    <3>2. s \in Server
      <4>1. request[q] \in Handling /\ s # NoServer
        BY <2>t, <2>s, <3>1 DEF Shape
      <4>2. QED
        BY <4>1 DEF Handling
    <3>3. Exists(s) /\ Members(s) = {} /\ Creating(q, s)
      BY <3>1, <3>2 DEF AccessInv, Building, Creating
    <3>4. CASE credentials' = credentials /\ Advance(q, "undo")
      <4>1. request' \in [Request -> Requests] /\ Shape(request'[q])
        <5>1. Shape(request'[q])
          BY <2>t, <3>1, <3>2, <3>4 DEF Shape, Advance
        <5>2. (\E pc \in Step : Goto(q, pc))
          BY <2>9 DEF StoreCredentials, Step
        <5>3. QED
          BY <2>t, <3>1, <5>1, <5>2, GotoStep
      <4>2. QED
        BY <2>5, <3>1, <3>4, <4>1
    <3>5. CASE credentials' = credentials \cup {s} /\ Advance(q, "keyed")
      <4>1. request' \in [Request -> Requests]
        <5>1. \E pc \in Step : Goto(q, pc)
          BY <2>9 DEF StoreCredentials, Step
        <5>2. QED
          BY <2>t, <3>1, <5>1, GotoStep
      <4>2. \A x \in Server : Members(x)' = Members(x) /\ (Exists(x)' <=> Exists(x))
        BY <3>1 DEF Members, Exists
      <4>3. TypeOK'
        BY <2>t, <3>1, <3>2, <3>3, <3>5, <4>1, <4>2 DEF TypeOK, Requests
      <4>4. \A p \in Request : Shape(request'[p])
        BY <2>t, <3>1, <3>2, <3>5 DEF Shape, Advance
      <4>5. \A p \in Request : request'[p].op = request[p].op /\ request'[p].server = request[p].server
                             /\ (p # q => request'[p] = request[p])
        BY <3>5 DEF Advance
      <4>6. Building'
        <5> SUFFICES ASSUME NEW p \in Request, NEW x \in Server, Creating(p, x)'
                     PROVE  /\ Exists(x)' /\ Members(x)' = {}
                            /\ request'[p].pc = "keyed" => x \in credentials'
                            /\ \A r \in Request : r # p /\ request'[r].op # "none" /\ request'[r].server = x
                                  => request'[r].pc = "arrived"
          BY DEF Building
        <5>1. Creating(p, x)
          BY <4>5 DEF Creating
        <5>2. /\ Exists(x) /\ Members(x) = {} /\ (request[p].pc = "keyed" => x \in credentials)
              /\ \A r \in Request : r # p /\ request[r].op # "none" /\ request[r].server = x
                                  => request[r].pc = "arrived"
          BY <5>1 DEF AccessInv, Building
        <5>3. p = q => x = s
          BY <5>1 DEF Creating
        <5>4. p # q => x # s
          BY <3>1, <3>2, <5>2
        <5>5. QED
          BY <3>1, <3>5, <4>2, <4>5, <5>2, <5>3, <5>4
      <4>7. Checked'
        <5> SUFFICES ASSUME NEW p \in Request, request'[p].op \notin {"none", "create"},
                            request'[p].pc # "arrived", Exists(request[p].server)'
                     PROVE  request'[p].server \in credentials'
          BY <4>5 DEF Checked
        <5>1. p # q /\ request'[p] = request[p] /\ request[p].server \in Server
          BY <2>t, <3>1, <4>5 DEF Shape
        <5>2. QED
          BY <3>5, <4>2, <5>1 DEF AccessInv, Checked
      <4>8. Equipped'
        BY <3>5, <4>2 DEF AccessInv, Equipped
      <4>9. QED
        BY <4>3, <4>4, <4>6, <4>7, <4>8 DEF AccessInv
    <3>6. QED
      BY <2>9, <2>t, <3>4, <3>5, Moves
  <2>10. ASSUME NEW q \in Request, InsertOwner(q) PROVE AccessInv'
    <3>1. /\ request[q].op = "create" /\ request[q].pc = "keyed" /\ UNCHANGED <<env, creator, credentials>>
      BY <2>10 DEF InsertOwner, At
    <3>2. request[q].server \in Server
      <4>1. request[q] \in Handling /\ request[q].server # NoServer
        BY <2>t, <2>s, <3>1 DEF Shape
      <4>2. QED
        BY <4>1 DEF Handling
    <3> PICK s \in Server : s = request[q].server
      BY <3>2
    <3>3. Exists(s) /\ s \in credentials /\ Creating(q, s)
      BY <3>1, <3>2 DEF AccessInv, Building, Creating
    <3>4. request' \in [Request -> Requests]
      <4>1. (\E pc \in Step : Goto(q, pc)) \/ Answer(q)
        BY <2>10 DEF InsertOwner, Step
      <4>2. QED
        BY <2>t, <3>1, <4>1, GotoStep, AnswerStep
    <3>5. CASE role' = role /\ Advance(q, "undo")
      <4>1. Shape(request'[q])
        BY <2>t, <3>1, <3>2, <3>5 DEF Shape, Advance
      <4>2. QED
        BY <2>5, <3>1, <3>4, <3>5, <4>1
    <3>6. CASE role' = [role EXCEPT ![s][request[q].by] = "owner"] /\ End(q)
      <4>1. role' \in [Server -> [User -> Role \cup {"none"}]] /\ \A x \in Server : x # s => role'[x] = role[x]
        <5>1. request[q].by \in User /\ "owner" \in Role
          BY <2>s, <3>1 DEF Role
        <5>2. [role[s] EXCEPT ![request[q].by] = "owner"] \in [User -> Role \cup {"none"}]
          BY <2>t, <3>2, <5>1
        <5>3. role' = [role EXCEPT ![s] = [role[s] EXCEPT ![request[q].by] = "owner"]]
          BY <3>6
        <5>4. QED
          BY <2>t, <3>2, <5>2, <5>3
      <4>2. Exists(s)'
        BY <3>1, <3>3 DEF Exists
      <4>3. QED
        BY <2>2, <2>t, <3>1, <3>2, <3>3, <3>4, <3>6, <4>1, <4>2
    <3>7. QED
      BY <2>10, <2>t, <3>5, <3>6, Moves
  (* The row of a server goes with all that refer to it.                   *)
  <2>11. ASSUME NEW q \in Request, NEW s \in Server, request[q].op # "none", request[q].server = s,
                request' \in [Request -> Requests], End(q),
                Creating(q, s) \/ request[q].pc # "arrived", env' = env, Drop(s)
         PROVE  AccessInv'
    <3>1. /\ creator' \in [Server -> User \cup {NoUser}] /\ creator'[s] = NoUser
          /\ \A x \in Server : x # s => creator'[x] = creator[x]
      BY <2>11, <2>t DEF Drop
    <3>2. /\ role' \in [Server -> [User -> Role \cup {"none"}]]
          /\ role'[s] = [u \in User |-> "none"]
          /\ \A x \in Server : x # s => role'[x] = role[x]
      BY <2>11, <2>t DEF Drop
    <3>3. credentials' = credentials \ {s}
      BY <2>11 DEF Drop
    <3>4. ~Exists(s)' /\ Members(s)' = {}
      BY <3>1, <3>2 DEF Exists, Members
    <3>5. QED
      BY <2>2, <2>11, <2>t, <3>1, <3>2, <3>3, <3>4
  <2>12. ASSUME NEW q \in Request, Undo(q) PROVE AccessInv'
    <3>1. request[q].op = "create" /\ request[q].pc = "undo" /\ env' = env
      BY <2>12 DEF Undo, At
    <3>2. request[q].server \in Server
      <4>1. request[q] \in Handling /\ request[q].server # NoServer
        BY <2>t, <2>s, <3>1 DEF Shape
      <4>2. QED
        BY <4>1 DEF Handling
    <3>3. End(q) /\ request' \in [Request -> Requests]
      BY <2>12, <2>t, AnswerStep DEF Undo
    <3>4. Creating(q, request[q].server)
      BY <3>1 DEF Creating
    <3>5. QED
      BY <2>4, <2>11, <2>12, <3>1, <3>2, <3>3, <3>4 DEF Undo
  <2>13. ASSUME NEW q \in Request, DeleteServer(q) PROVE AccessInv'
    <3>1. request[q].op = "delete" /\ request[q].pc = "write" /\ env' = env
      BY <2>13 DEF DeleteServer, At
    <3>2. request[q].server \in Server
      BY <2>t, <3>1 DEF Shape
    <3>3. End(q) /\ request' \in [Request -> Requests]
      BY <2>13, <2>t, AnswerStep DEF DeleteServer
    <3>4. QED
      BY <2>11, <2>13, <3>1, <3>2, <3>3 DEF DeleteServer
  (* A membership that is written is one of a server with credentials.     *)
  <2>14. ASSUME NEW q \in Request, InsertMember(q) \/ WriteMember(q) PROVE AccessInv'
    <3>1. /\ request[q].op \in {"invite", "setRole", "remove"} /\ request[q].pc = "write"
          /\ UNCHANGED <<env, creator, credentials>>
      BY <2>14 DEF InsertMember, WriteMember, At
    <3>2. request[q].server \in Server /\ request[q].target \in User /\ request[q].newRole \in Role
      BY <2>s, <2>t, <3>1 DEF Shape
    <3> PICK s \in Server, t \in User : s = request[q].server /\ t = request[q].target
      BY <3>2
    <3>3. End(q) /\ request' \in [Request -> Requests]
      BY <2>14, <2>t, AnswerStep DEF InsertMember, WriteMember
    <3>4. role' = role \/ (Exists(s) /\ \E r \in Role \cup {"none"} : role' = [role EXCEPT ![s][t] = r])
      <4>1. t \in Members(s) => Exists(s)
        BY <3>2 DEF AccessInv, Equipped
      <4>2. QED
        BY <2>14, <3>2, <4>1 DEF InsertMember, WriteMember
    <3>5. CASE role' = role
      BY <2>4, <3>1, <3>3, <3>5
    <3>6. ASSUME Exists(s), NEW r \in Role \cup {"none"}, role' = [role EXCEPT ![s][t] = r]
          PROVE  AccessInv'
      <4>1. role' \in [Server -> [User -> Role \cup {"none"}]] /\ \A x \in Server : x # s => role'[x] = role[x]
        <5>1. [role[s] EXCEPT ![t] = r] \in [User -> Role \cup {"none"}]
          BY <2>t, <3>2
        <5>2. role' = [role EXCEPT ![s] = [role[s] EXCEPT ![t] = r]]
          BY <3>6
        <5>3. QED
          BY <2>t, <3>2, <5>1, <5>2
      <4>2. s \in credentials
        BY <3>1, <3>6 DEF AccessInv, Checked
      <4>3. Exists(s)'
        BY <3>1, <3>6 DEF Exists
      <4>4. QED
        BY <2>2, <2>t, <3>1, <3>2, <3>3, <3>6, <4>1, <4>2, <4>3
    <3>7. QED
      BY <3>4, <3>5, <3>6
  <2>15. CASE Crash
    <3>1. /\ UNCHANGED <<env, creator, credentials, role>> /\ request' = [r \in Request |-> Idle]
      BY <2>15 DEF Crash
    <3>2. TypeOK'
      BY <2>t, <3>1 DEF TypeOK, Exists, Members
    <3>3. QED
      BY <3>1, <3>2 DEF AccessInv, Shape, Idle, Building, Creating, Checked, Equipped, Members, Exists
  <2>16. CASE UNCHANGED vars
    BY <2>16 DEF vars, AccessInv, TypeOK, Building, Creating, Checked, Equipped, Members, Exists
  <2>17. QED
    BY <2>3, <2>6, <2>7, <2>8, <2>9, <2>10, <2>12, <2>13, <2>14, <2>15, <2>16 DEF Next, Handle
<1>3. QED
  BY <1>1, <1>2, PTL DEF Spec

(* Every variable keeps its type, and no row outlives the server it is of. *)
THEOREM TypeCorrect == Spec => []TypeOK
<1>1. AccessInv => TypeOK
  BY DEF AccessInv
<1>2. QED
  BY <1>1, AccessInvariant, PTL

-----------------------------------------------------------------------------
(* Owners.                                                                 *)

LEMMA HandleStep ==
    ASSUME AccessInv, NEW q \in Request, Handle(q)
    PROVE  request[q].op # "none" /\ Others(q) /\ env' = env
<1>1. request \in [Request -> Requests] /\ \A p \in Request : Shape(request[p])
  BY DEF AccessInv, TypeOK, Requests
<1>2. request[q] = Idle <=> request[q].op = "none"
  BY <1>1, Kinds
<1>3. request[q].op # "none" /\ env' = env
  BY <1>2 DEF Handle, RequireRole, CountServers, InsertServer, InsertServerFails, StoreCredentials,
     InsertOwner, Undo, WriteFails, DeleteServer, InviteQuota, InsertMember, ReadTarget, CountOwners,
     WriteMember, At
<1>4. CASE \E s \in Server : InsertServer(q, s)
  BY <1>1, <1>3, <1>4, InsertServerStep
<1>5. CASE ~\E s \in Server : InsertServer(q, s)
  <2>1. End(q) \/ \E pc \in Step : Advance(q, pc)
    BY <1>1, <1>5, Moves DEF Handle, Step
  <2>2. QED
    BY <1>3, <2>1 DEF End, Advance
<1>6. QED
  BY <1>4, <1>5

LEMMA SerialInvariant == Spec => []Serial
<1>1. Init => Serial
  BY DEF Init, Serial, Idle
<1>2. AccessInv /\ Serial /\ [Next]_vars => Serial'
  <2> SUFFICES ASSUME AccessInv, Serial, [Next]_vars PROVE Serial'
    OBVIOUS
  <2>1. \A p \in Request : request[p] = Idle <=> request[p].op = "none"
    BY Kinds DEF AccessInv, TypeOK, Requests
  <2>2. ASSUME NEW q \in Request, NEW h \in Arrival, Begin(q, h) PROVE Serial'
    <3>1. Others(q) /\ env' = env
      BY <2>2, BeginStep DEF Begin, AccessInv, TypeOK, Requests
    <3>2. "overlap" \notin env => \A p \in Request : request[p].op = "none"
      BY <2>1, <2>2 DEF Begin
    <3>3. QED
      BY <3>1, <3>2 DEF Serial, Others
  <2>3. ASSUME NEW q \in Request, Handle(q) PROVE Serial'
    BY <2>3, HandleStep DEF Serial, Others
  <2>4. CASE Crash
    BY <2>4 DEF Crash, Serial, Idle
  <2>5. CASE UNCHANGED vars
    BY <2>5 DEF vars, Serial
  <2>6. QED
    BY <2>2, <2>3, <2>4, <2>5 DEF Next
<1>3. QED
  BY <1>1, <1>2, AccessInvariant, PTL DEF Spec

(* A row that is written to is that of the request's server and target.    *)
LEMMA MemberWritten ==
    ASSUME AccessInv, NEW q \in Request, InsertMember(q) \/ WriteMember(q)
    PROVE  /\ request[q].op \in {"invite", "setRole", "remove"} /\ request[q].pc = "write"
           /\ request[q].server \in Server /\ request[q].target \in User
           /\ UNCHANGED <<env, creator, credentials>> /\ End(q)
           /\ \A x \in Server, u \in User :
                 x # request[q].server \/ u # request[q].target => role'[x][u] = role[x][u]
           /\ role'[request[q].server][request[q].target] # role[request[q].server][request[q].target] =>
                 \/ /\ request[q].op = "invite"
                    /\ role[request[q].server][request[q].target] = "none"
                 \/ /\ WriteMember(q)
                    /\ role[request[q].server][request[q].target] # "none"
                    /\ Lowers(q) \/ role'[request[q].server][request[q].target] = "owner"
<1>1. request \in [Request -> Requests] /\ (\A p \in Request : Shape(request[p]))
      /\ role \in [Server -> [User -> Role \cup {"none"}]]
  BY DEF AccessInv, TypeOK, Requests
<1>2. /\ request[q].op \in {"invite", "setRole", "remove"} /\ request[q].pc = "write"
      /\ UNCHANGED <<env, creator, credentials>>
  BY DEF InsertMember, WriteMember, At
<1>3. request[q].server \in Server /\ request[q].target \in User
  <2>1. request[q] \in Handling
    BY <1>1, <1>2, Kinds
  <2>2. QED
    BY <1>1, <1>2, <2>1 DEF Shape, Handling
<1>4. End(q)
  BY <1>1, AnswerStep DEF InsertMember, WriteMember
<1> PICK s \in Server, t \in User : s = request[q].server /\ t = request[q].target
  BY <1>3
<1>5. CASE InsertMember(q)
  <2>1. role' = role \/ (t \notin Members(s) /\ role' = [role EXCEPT ![s][t] = request[q].newRole])
    BY <1>5 DEF InsertMember
  <2>2. request[q].op = "invite"
    BY <1>5 DEF InsertMember, At
  <2>3. QED
    BY <1>1, <1>2, <1>3, <1>4, <2>1, <2>2 DEF Members
<1>6. CASE WriteMember(q)
  <2> DEFINE new == IF request[q].op = "remove" THEN "none" ELSE request[q].newRole
  <2>1. role' = role \/ (t \in Members(s) /\ role' = [role EXCEPT ![s][t] = new])
    BY <1>6 DEF WriteMember
  <2>2. request[q].op \in {"setRole", "remove"}
    BY <1>6 DEF WriteMember
  <2>3. Lowers(q) \/ new = "owner"
    BY <2>2 DEF Lowers
  <2>4. QED
    BY <1>1, <1>2, <1>3, <1>4, <1>6, <2>1, <2>3 DEF Members
<1>7. QED
  BY <1>5, <1>6

LEMMA AnotherOwnerInvariant == Spec => []AnotherOwner
<1>1. Init => AnotherOwner
  BY DEF Init, AnotherOwner, Members, Idle
<1>2. AccessInv /\ AccessInv' /\ Serial /\ AnotherOwner /\ [Next]_vars => AnotherOwner'
  <2> SUFFICES ASSUME AccessInv, AccessInv', Serial, AnotherOwner, [Next]_vars, Undisturbed'
               PROVE  AnotherOwner'
    BY DEF AnotherOwner
  <2>t. /\ request \in [Request -> Requests] /\ \A p \in Request : Shape(request[p])
        /\ role \in [Server -> [User -> Role \cup {"none"}]]
        /\ \A p \in Request : request[p] = Idle <=> request[p].op = "none"
    BY Kinds DEF AccessInv, TypeOK, Requests
  <2>s. \A p \in Request : request'[p].op \notin {"none", "create"} => request'[p].server \in Server
    BY DEF AccessInv, Shape
  (* A step that leaves the roles alone.                                   *)
  <2>1. ASSUME NEW q \in Request, env' = env, role' = role,
               \A p \in Request : p # q => request'[p].op = "none",
               request'[q].op \notin {"none", "create"} /\ request'[q].pc # "arrived" =>
                   /\ Owners(request'[q].server) # {}
                   /\ request'[q].pc = "write" =>
                         \/ ~Lowers(q)'
                         \/ \E u \in Owners(request'[q].server) : u # request'[q].target
        PROVE  AnotherOwner'
    <3>1. \A x \in Server : Members(x)' = Members(x) /\ Owners(x)' = Owners(x)
      BY <2>1 DEF Members, Owners
    <3>2. \A s \in Server : Members(s) # {} => Owners(s) # {}
      BY <2>1 DEF AnotherOwner, Undisturbed
    <3>3. ASSUME NEW p \in Request, request'[p].op \notin {"none", "create"}, request'[p].pc # "arrived"
          PROVE  /\ Owners(request[p].server)' # {}
                 /\ Lowers(p)' /\ request'[p].pc = "write" =>
                       \E u \in Owners(request[p].server)' : u # request'[p].target
      <4>1. p = q
        BY <2>1, <3>3
      <4>2. Owners(request[p].server)' = Owners(request'[p].server)
        BY <2>1 DEF Owners
      <4>3. QED
        BY <2>1, <3>3, <4>1, <4>2
    <3>4. QED
      BY <3>1, <3>2, <3>3 DEF AnotherOwner
  (* A step that ends a request and leaves owners where there are members. *)
  <2>2. ASSUME NEW q \in Request, \A p \in Request : request'[p].op = "none",
               \A s \in Server : Members(s)' # {} => Owners(s)' # {}
        PROVE  AnotherOwner'
    BY <2>2 DEF AnotherOwner
  <2>3. ASSUME NEW q \in Request, Handle(q)
        PROVE  /\ request[q].op # "none" /\ env' = env /\ Undisturbed
               /\ \A p \in Request : p # q => request'[p].op = "none"
               /\ End(q) => \A p \in Request : request'[p].op = "none"
    <3>1. request[q].op # "none" /\ Others(q) /\ env' = env
      BY <2>3, HandleStep
    <3>2. Undisturbed /\ "overlap" \notin env
      BY <3>1 DEF Undisturbed
    <3>3. \A p \in Request : p # q => request'[p].op = "none"
      BY <3>1, <3>2 DEF Serial, Others
    <3>4. QED
      BY <3>1, <3>2, <3>3 DEF End, Idle
  <2>4. ASSUME NEW q \in Request, NEW h \in Arrival, Begin(q, h) PROVE AnotherOwner'
    <3>1. env' = env /\ role' = role /\ Others(q) /\ request'[q].pc = "arrived"
      BY <2>4, <2>t, BeginStep DEF Begin
    <3>2. \A p \in Request : request[p].op = "none"
      BY <2>4, <2>t, <3>1 DEF Begin, Undisturbed
    <3>3. QED
      BY <2>1, <3>1, <3>2 DEF Others
  <2>5. ASSUME NEW q \in Request, RequireRole(q) PROVE AnotherOwner'
    <3>1. /\ env' = env /\ \A p \in Request : p # q => request'[p].op = "none"
          /\ End(q) => \A p \in Request : request'[p].op = "none"
      BY <2>3, <2>5 DEF Handle
    <3>2. role' = role
      BY <2>5 DEF RequireRole
    <3>3. CASE End(q)
      BY <2>1, <3>1, <3>2, <3>3
    <3>4. CASE Advance(q, "allowed") /\ request[q].by \in Owners(request[q].server)
      BY <2>1, <3>1, <3>2, <3>4 DEF Advance
    <3>5. CASE /\ Advance(q, "write") /\ request[q].by \in Owners(request[q].server)
               /\ \/ request[q].op = "delete"
                  \/ request[q].op = "setRole" /\ request[q].newRole = "owner"
      BY <2>1, <3>1, <3>2, <3>5 DEF Advance, Lowers
    <3>6. \/ Advance(q, "write") /\ request[q].by \in Owners(request[q].server)
             /\ \/ request[q].op = "delete"
                \/ request[q].op = "setRole" /\ request[q].newRole = "owner"
          \/ Advance(q, "allowed") /\ request[q].by \in Owners(request[q].server)
          \/ End(q)
      BY <2>5, <2>t, Moves
    <3>7. QED
      BY <3>3, <3>4, <3>5, <3>6
  <2>6. ASSUME NEW q \in Request, request[q].op = "create", Handle(q), role' = role
        PROVE  AnotherOwner'
    <3>1. env' = env /\ \A p \in Request : p # q => request'[p].op = "none"
      BY <2>3, <2>6
    <3>2. request'[q].op \in {"none", "create"}
      <4>1. CASE \E s \in Server : InsertServer(q, s)
        BY <2>t, <4>1, InsertServerStep
      <4>2. CASE ~\E s \in Server : InsertServer(q, s)
        <5>1. End(q) \/ \E pc \in Step : Advance(q, pc)
          BY <2>6, <2>t, <4>2, Moves DEF Handle, Step
        <5>2. QED
          BY <2>6, <5>1 DEF End, Advance, Idle
      <4>3. QED
        BY <4>1, <4>2
    <3>3. QED
      BY <2>1, <2>6, <3>1, <3>2
  <2>7. ASSUME NEW q \in Request, InsertOwner(q) PROVE AnotherOwner'
    <3>1. request[q].op = "create" /\ request[q].pc = "keyed" /\ Handle(q)
      BY <2>7 DEF InsertOwner, At, Handle
    <3>2. CASE role' = [role EXCEPT ![request[q].server][request[q].by] = "owner"] /\ End(q)
      <4> PICK s \in Server, u \in User : s = request[q].server /\ u = request[q].by
        <5>1. request[q] \in Handling /\ request[q].server # NoServer
          BY <2>t, <3>1, Kinds DEF Shape
        <5>2. QED
          BY <5>1 DEF Handling
      <4>1. \A x \in Server, w \in User : role'[x][w] = IF x = s /\ w = u THEN "owner" ELSE role[x][w]
        BY <2>t, <3>2
      <4>2. \A x \in Server : Members(x) # {} => Owners(x) # {}
        BY <2>3, <3>1 DEF AnotherOwner
      <4>3. \A x \in Server : Members(x)' # {} => Owners(x)' # {}
        BY <4>1, <4>2 DEF Members, Owners
      <4>4. QED
        BY <2>2, <2>3, <3>1, <3>2, <4>3
    <3>3. CASE role' = role
      BY <2>6, <3>1, <3>3
    <3>4. QED
      BY <2>7, <2>t, <3>2, <3>3, Moves
  <2>8. ASSUME NEW q \in Request, NEW s \in Server, Handle(q), Drop(s), Answer(q) PROVE AnotherOwner'
    <3>1. \A p \in Request : request'[p].op = "none"
      BY <2>3, <2>8, <2>t, AnswerStep
    <3>2. \A x \in Server, u \in User : role'[x][u] = IF x = s THEN "none" ELSE role[x][u]
      BY <2>8, <2>t DEF Drop
    <3>3. \A x \in Server : Members(x) # {} => Owners(x) # {}
      BY <2>3, <2>8 DEF AnotherOwner
    <3>4. \A x \in Server : Members(x)' # {} => Owners(x)' # {}
      BY <3>2, <3>3 DEF Members, Owners
    <3>5. QED
      BY <2>2, <3>1, <3>4
  <2>9. ASSUME NEW q \in Request, WriteFails(q) PROVE AnotherOwner'
    <3>1. role' = role /\ Handle(q) /\ End(q)
      BY <2>9, <2>t, AnswerStep DEF WriteFails, Handle
    <3>2. QED
      BY <2>1, <2>3, <3>1
  <2>10. ASSUME NEW q \in Request, InviteQuota(q) \/ ReadTarget(q) \/ CountOwners(q)
         PROVE  AnotherOwner'
    <3>1. role' = role /\ Handle(q) /\ request[q].op \notin {"none", "create"}
          /\ request[q].pc \in {"allowed", "anOwner"}
      BY <2>10 DEF InviteQuota, ReadTarget, CountOwners, Handle, At
    <3>2. Owners(request[q].server) # {} /\ ~ReadFails
      BY <2>3, <3>1 DEF AnotherOwner, Undisturbed, ReadFails
    <3>3. CASE InviteQuota(q)
      <4>1. End(q) \/ Advance(q, "write")
        BY <2>t, <3>3, Moves
      <4>2. request[q].op = "invite"
        BY <3>3 DEF InviteQuota, At
      <4>3. QED
        BY <2>1, <2>3, <3>1, <3>2, <4>1, <4>2 DEF End, Advance, Lowers, Idle
    <3>4. CASE ReadTarget(q)
      <4>1. Advance(q, "anOwner") \/ Advance(q, "write")
        BY <2>t, <3>4, Moves
      <4>2. CASE Advance(q, "anOwner")
        BY <2>1, <2>3, <3>1, <3>2, <4>2 DEF Advance
      <4>3. CASE Advance(q, "write")
        <5>1. request'[q].pc = "write"
          BY <4>3 DEF Advance
        <5>2. request[q].target \notin Owners(request[q].server)
          <6>1. ~Goto(q, "anOwner")
            <7> SUFFICES ASSUME Goto(q, "anOwner") PROVE FALSE
              OBVIOUS
            <7>1. Advance(q, "anOwner")
              BY <2>t, <3>1, GotoStep DEF Step
            <7>2. QED
              BY <5>1, <7>1 DEF Advance
          <6>2. QED
            BY <3>2, <3>4, <6>1 DEF ReadTarget
        <5>3. \E u \in Owners(request[q].server) : u # request[q].target
          BY <3>2, <5>2
        <5>4. QED
          BY <2>1, <2>3, <3>1, <3>2, <4>3, <5>3 DEF Advance
      <4>4. QED
        BY <4>1, <4>2, <4>3
    <3>5. CASE CountOwners(q)
      <4>1. CASE Goto(q, "write") /\ Cardinality(Owners(request[q].server)) > 1
        <5>1. Advance(q, "write")
          BY <2>t, <3>1, <4>1, GotoStep DEF Step
        <5>2. \E u \in Owners(request[q].server) : u # request[q].target
          <6> SUFFICES ASSUME \A u \in Owners(request[q].server) : u = request[q].target PROVE FALSE
            OBVIOUS
          <6>1. Owners(request[q].server) = {request[q].target}
            BY <3>2
          <6>2. Cardinality(Owners(request[q].server)) = 1
            BY <6>1, FS_Singleton
          <6>3. QED
            BY <4>1, <6>2
        <5>3. QED
          BY <2>1, <2>3, <3>1, <3>2, <5>1, <5>2 DEF Advance
      <4>2. CASE Answer(q)
        BY <2>1, <2>3, <2>t, <3>1, <4>2, AnswerStep
      <4>3. QED
        BY <3>5, <4>1, <4>2 DEF CountOwners
    <3>6. QED
      BY <2>10, <3>3, <3>4, <3>5
  <2>11. ASSUME NEW q \in Request, InsertMember(q) \/ WriteMember(q) PROVE AnotherOwner'
    <3>1. Handle(q)
      BY <2>11 DEF Handle
    <3>2. PICK s \in Server, t \in User : s = request[q].server /\ t = request[q].target
      BY <2>11, MemberWritten
    <3>3. /\ request[q].op \notin {"none", "create"} /\ request[q].pc = "write" /\ End(q)
          /\ \A x \in Server, u \in User : x # s \/ u # t => role'[x][u] = role[x][u]
          /\ role'[s][t] # role[s][t] => \/ role[s][t] = "none"
                                         \/ Lowers(q) \/ role'[s][t] = "owner"
      BY <2>11, <3>2, MemberWritten
    <3>4. /\ \A x \in Server : Members(x) # {} => Owners(x) # {}
          /\ Owners(s) # {}
          /\ Lowers(q) => \E u \in Owners(s) : u # t
      BY <2>3, <3>1, <3>2, <3>3 DEF AnotherOwner
    <3>5. Owners(s)' # {}
      <4>1. CASE \E u \in Owners(s) : u # t
        BY <3>3, <4>1 DEF Owners
      <4>2. CASE ~\E u \in Owners(s) : u # t
        <5>1. role[s][t] = "owner" /\ ~Lowers(q)
          BY <3>4, <4>2 DEF Owners
        <5>2. role'[s][t] = "owner"
          BY <3>3, <5>1
        <5>3. QED
          BY <5>2 DEF Owners
      <4>3. QED
        BY <4>1, <4>2
    <3>6. \A x \in Server : Members(x)' # {} => Owners(x)' # {}
      BY <3>3, <3>4, <3>5 DEF Members, Owners
    <3>7. QED
      BY <2>2, <2>3, <3>1, <3>3, <3>6
  <2>12. CASE Crash
    BY <2>12 DEF Crash, AnotherOwner, Undisturbed, Members, Owners, Idle
  <2>13. CASE UNCHANGED vars
    BY <2>13 DEF vars, AnotherOwner, Undisturbed, Members, Owners, Lowers
  <2>14. ASSUME NEW q \in Request, Handle(q) PROVE AnotherOwner'
    <3>1. CASE \/ CountServers(q) \/ (\E s \in Server : InsertServer(q, s)) \/ InsertServerFails(q)
               \/ StoreCredentials(q)
      <4>1. request[q].op = "create" /\ role' = role
        BY <3>1 DEF CountServers, InsertServer, InsertServerFails, StoreCredentials, At
      <4>2. QED
        BY <2>6, <2>14, <4>1
    <3>2. CASE Undo(q)
      <4>1. request[q].op = "create" /\ request[q].pc = "undo" /\ Answer(q)
        BY <3>2 DEF Undo, At
      <4>2. request[q].server \in Server
        <5>1. request[q] \in Handling /\ request[q].server # NoServer
          BY <2>t, <4>1, Kinds DEF Shape
        <5>2. QED
          BY <5>1 DEF Handling
      <4>3. QED
        BY <2>6, <2>8, <2>14, <3>2, <4>1, <4>2 DEF Undo
    <3>3. CASE DeleteServer(q)
      <4>1. request[q].server \in Server
        BY <2>t, <3>3 DEF DeleteServer, At, Shape
      <4>2. QED
        BY <2>8, <2>14, <3>3, <4>1 DEF DeleteServer
    <3>4. QED
      BY <2>5, <2>7, <2>9, <2>10, <2>11, <2>14, <3>1, <3>2, <3>3 DEF Handle
  <2>15. QED
    BY <2>4, <2>12, <2>13, <2>14 DEF Next
<1>3. QED
  BY <1>1, <1>2, AccessInvariant, SerialInvariant, PTL DEF Spec

(* One request after the other and with reads that succeed, nothing leaves *)
(* members without an owner: a server keeps the last one.                  *)
THEOREM LastOwnerStays == Spec => []KeepsAnOwner
<1>1. AnotherOwner => KeepsAnOwner
  BY DEF AnotherOwner, KeepsAnOwner
<1>2. QED
  BY <1>1, AnotherOwnerInvariant, PTL

-----------------------------------------------------------------------------
(* What a create leaves behind.                                            *)

LEMMA NoneLeftInvariant == Spec => []NoneLeft
<1>1. Init => NoneLeft
  BY DEF Init, NoneLeft, Exists
<1>2. AccessInv /\ AnotherOwner /\ AnotherOwner' /\ NoneLeft /\ [Next]_vars => NoneLeft'
  <2> SUFFICES ASSUME AccessInv, AnotherOwner, AnotherOwner', NoneLeft, [Next]_vars,
                      (env \cap {"crash", "undoFails", "overlap", "readFails"})' = {},
                      NEW s \in Server, Exists(s)', Owners(s)' = {}
               PROVE  \E p \in Request : Creating(p, s)'
    BY DEF NoneLeft
  <2>t. /\ request \in [Request -> Requests] /\ \A p \in Request : Shape(request[p])
        /\ role \in [Server -> [User -> Role \cup {"none"}]]
        /\ creator \in [Server -> User \cup {NoUser}]
        /\ \A p \in Request : request[p] = Idle <=> request[p].op = "none"
        /\ NoServer \notin Server
    BY Kinds, SentinelAssumption DEF AccessInv, TypeOK, Requests
  (* The server was being created, and that goes on.                       *)
  <2>1. ASSUME NEW q \in Request, Others(q), env' = env, Exists(s), Owners(s) = {},
               Creating(q, s) => Creating(q, s)'
        PROVE  \E p \in Request : Creating(p, s)'
    <3>1. PICK p \in Request : Creating(p, s)
      BY <2>1 DEF NoneLeft
    <3>2. CASE p = q
      BY <2>1, <3>1, <3>2
    <3>3. CASE p # q
      BY <2>1, <3>1, <3>3 DEF Others, Creating
    <3>4. QED
      BY <3>2, <3>3
  <2>2. ASSUME NEW q \in Request, NEW h \in Arrival, Begin(q, h)
        PROVE  \E p \in Request : Creating(p, s)'
    <3>1. Others(q) /\ request[q].op = "none"
      BY <2>2, <2>t, BeginStep
    <3>2. UNCHANGED <<env, creator, role>>
      BY <2>2 DEF Begin
    <3>3. QED
      BY <2>1, <3>1, <3>2 DEF Exists, Owners, Creating
  <2>3. ASSUME NEW q \in Request, UNCHANGED <<creator, role>>, Handle(q),
               \/ \E pc \in Step : Advance(q, pc)
               \/ request[q].op # "create" \/ request[q].pc \in {"arrived", "allowed"}
        PROVE  \E p \in Request : Creating(p, s)'
    <3>1. Others(q) /\ env' = env
      BY <2>3, HandleStep
    <3>2. Exists(s) /\ Owners(s) = {}
      BY <2>3 DEF Exists, Owners
    <3>3. Creating(q, s) => \E pc \in Step : Advance(q, pc)
      BY <2>3, <2>t DEF Creating, Shape
    <3>4. (\E pc \in Step : Advance(q, pc)) /\ Creating(q, s) => Creating(q, s)'
      BY DEF Advance, Creating
    <3>5. QED
      BY <2>1, <3>1, <3>2, <3>3, <3>4
  <2>4. ASSUME NEW q \in Request, NEW x \in Server, InsertServer(q, x)
        PROVE  \E p \in Request : Creating(p, s)'
    <3>1. Others(q) /\ request'[q].op = "create" /\ request'[q].server = x
      BY <2>4, <2>t, InsertServerStep
    <3>2. CASE s = x
      BY <3>1, <3>2 DEF Creating
    <3>3. CASE s # x
      <4>1. env' = env /\ Exists(s) /\ Owners(s) = {}
        BY <2>4, <2>t, <3>3 DEF InsertServer, Exists, Owners
      <4>2. ~Creating(q, s)
        BY <2>4, <2>t DEF InsertServer, At, Creating, Shape
      <4>3. QED
        BY <2>1, <3>1, <4>1, <4>2
    <3>4. QED
      BY <3>2, <3>3
  <2>5. ASSUME NEW q \in Request, StoreCredentials(q)
        PROVE  \E p \in Request : Creating(p, s)'
    <3>1. UNCHANGED <<creator, role>> /\ Handle(q)
      BY <2>5 DEF StoreCredentials, Handle
    <3>2. \E pc \in Step : Advance(q, pc)
      BY <2>5, <2>t, Moves DEF Step
    <3>3. QED
      BY <2>3, <3>1, <3>2
  <2>6. ASSUME NEW q \in Request, InsertOwner(q)
        PROVE  \E p \in Request : Creating(p, s)'
    <3>1. Handle(q) /\ UNCHANGED <<env, creator>> /\ request[q].op = "create" /\ request[q].pc = "keyed"
      BY <2>6 DEF InsertOwner, Handle, At
    <3>2. CASE role' = role /\ Advance(q, "undo")
      BY <2>3, <3>1, <3>2 DEF Step
    <3>3. CASE role' = [role EXCEPT ![request[q].server][request[q].by] = "owner"] /\ End(q)
      <4> PICK x \in Server, u \in User : x = request[q].server /\ u = request[q].by
        <5>1. request[q] \in Handling /\ request[q].server # NoServer
          BY <2>t, <3>1, Kinds DEF Shape
        <5>2. QED
          BY <5>1 DEF Handling
      <4>1. role'[x][u] = "owner" /\ \A y \in Server : y # x => role'[y] = role[y]
        BY <2>t, <3>3
      <4>2. s # x
        BY <4>1 DEF Owners
      <4>3. Exists(s) /\ Owners(s) = {} /\ ~Creating(q, s)
        BY <3>1, <4>1, <4>2 DEF Exists, Owners, Creating
      <4>4. QED
        BY <2>1, <3>1, <3>3, <4>3 DEF End
    <3>4. QED
      BY <2>6, <2>t, <3>2, <3>3, Moves
  <2>7. ASSUME NEW q \in Request, Handle(q), Drop(request[q].server), request[q].server \in Server
        PROVE  \E p \in Request : Creating(p, s)'
    <3>1. Others(q) /\ env' = env
      BY <2>7, HandleStep
    <3>2. s # request[q].server
      BY <2>7, <2>t DEF Drop, Exists
    <3>3. Exists(s) /\ Owners(s) = {} /\ ~Creating(q, s)
      BY <2>7, <2>t, <3>2 DEF Drop, Exists, Owners, Creating
    <3>4. QED
      BY <2>1, <3>1, <3>3
  <2>8. ASSUME NEW q \in Request, InsertMember(q) \/ WriteMember(q)
        PROVE  \E p \in Request : Creating(p, s)'
    <3>1. /\ request[q].op \in {"invite", "setRole", "remove"} /\ request[q].pc = "write"
          /\ UNCHANGED <<env, creator>> /\ Handle(q)
          /\ \A u \in User : s # request[q].server \/ u # request[q].target => role'[s][u] = role[s][u]
      BY <2>8, MemberWritten DEF Handle
    <3>2. Others(q) /\ ~Creating(q, s) /\ Exists(s)
      BY <3>1, HandleStep DEF Creating, Exists
    <3>4. Members(s)' = {}
      BY DEF AnotherOwner, Undisturbed
    <3>5. Owners(s) = {}
      <4> SUFFICES ASSUME NEW u \in User, role[s][u] = "owner" PROVE FALSE
        BY DEF Owners
      <4>1. role'[s][u] = "none"
        BY <3>4 DEF Members
      <4>2. s = request[q].server /\ u = request[q].target
        BY <3>1, <4>1
      <4>3. Lowers(q)
        BY <2>8, <4>1, <4>2, MemberWritten
      <4>4. PICK w \in Owners(s) : w # u
        BY <3>1, <4>2, <4>3 DEF AnotherOwner, Undisturbed
      <4>5. role'[s][w] = "owner"
        BY <3>1, <4>2, <4>4 DEF Owners
      <4>6. QED
        BY <4>4, <4>5 DEF Owners
    <3>6. QED
      BY <2>1, <3>1, <3>2, <3>5
  <2>9. ASSUME NEW q \in Request, Undo(q) PROVE \E p \in Request : Creating(p, s)'
    <3>1. /\ Handle(q) /\ env' = env /\ request[q].op = "create" /\ request[q].pc = "undo"
      BY <2>9 DEF Undo, Handle, At
    <3>2. request[q].server \in Server
      <4>1. request[q] \in Handling /\ request[q].server # NoServer
        BY <2>t, <3>1, Kinds DEF Shape
      <4>2. QED
        BY <4>1 DEF Handling
    <3>3. Drop(request[q].server)
      BY <2>9, <3>1 DEF Undo
    <3>4. QED
      BY <2>7, <3>1, <3>2, <3>3
  <2>10. ASSUME NEW q \in Request, DeleteServer(q) PROVE \E p \in Request : Creating(p, s)'
    <3>1. Handle(q) /\ Drop(request[q].server) /\ request[q].op = "delete"
      BY <2>10 DEF DeleteServer, Handle, At
    <3>2. request[q].server \in Server
      BY <2>t, <3>1 DEF Shape
    <3>3. QED
      BY <2>7, <3>1, <3>2
  <2>11. ASSUME NEW q \in Request,
                \/ RequireRole(q) \/ CountServers(q) \/ InsertServerFails(q) \/ WriteFails(q)
                \/ InviteQuota(q) \/ ReadTarget(q) \/ CountOwners(q)
         PROVE  \E p \in Request : Creating(p, s)'
    <3>1. UNCHANGED <<creator, role>> /\ Handle(q)
      BY <2>11 DEF RequireRole, CountServers, InsertServerFails, WriteFails, InviteQuota, ReadTarget,
         CountOwners, Handle
    <3>2. request[q].op # "create" \/ request[q].pc \in {"arrived", "allowed"}
      <4>1. CASE CountServers(q) \/ InsertServerFails(q)
        BY <4>1 DEF CountServers, InsertServerFails, At
      <4>2. CASE \/ RequireRole(q) \/ WriteFails(q) \/ InviteQuota(q) \/ ReadTarget(q) \/ CountOwners(q)
        <5>1. request[q].op # "create" \/ request[q].pc = "write"
          BY <4>2 DEF RequireRole, WriteFails, InviteQuota, ReadTarget, CountOwners, At
        <5>2. QED
          BY <2>t, <5>1 DEF Shape
      <4>3. QED
        BY <2>11, <4>1, <4>2
    <3>3. QED
      BY <2>3, <3>1, <3>2
  <2>12. CASE Crash
    BY <2>12 DEF Crash
  <2>13. CASE UNCHANGED vars
    BY <2>13 DEF vars, NoneLeft, Exists, Owners, Creating
  <2>14. QED
    BY <2>2, <2>4, <2>5, <2>6, <2>8, <2>9, <2>10, <2>11, <2>12, <2>13 DEF Next, Handle
<1>3. QED
  BY <1>1, <1>2, AccessInvariant, AnotherOwnerInvariant, PTL DEF Spec

(* In all circumstances a server with members exists and has credentials;  *)
(* and if requests come one by one, reads and undoing succeed and the      *)
(* backend stays up, no create leaves a server nobody can reach.           *)
THEOREM NothingHalfMade == Spec => []WholeServers
<1>1. AccessInv /\ NoneLeft => WholeServers
  BY DEF AccessInv, Equipped, NoneLeft, WholeServers, Creating
<1>2. QED
  BY <1>1, AccessInvariant, NoneLeftInvariant, PTL

-----------------------------------------------------------------------------
(* Plans.                                                                  *)

LEMMA FewMembers ==
    ASSUME NEW S, S \subseteq Server \/ S \subseteq User
    PROVE  /\ Cardinality(S) \in Nat
           /\ \A T \in SUBSET S : Cardinality(T) \in Nat /\ Cardinality(T) <= Cardinality(S)
           /\ \A x : Cardinality(S \cup {x}) <= Cardinality(S) + 1
<1>1. IsFiniteSet(S)
  BY FiniteAssumption, FS_Subset
<1>2. Cardinality(S) \in Nat
  BY <1>1, FS_CardinalityType
<1>3. \A T \in SUBSET S : Cardinality(T) \in Nat /\ Cardinality(T) <= Cardinality(S)
  BY <1>1, FS_Subset, FS_CardinalityType
<1>4. \A x : Cardinality(S \cup {x}) <= Cardinality(S) + 1
  <2> SUFFICES ASSUME NEW x PROVE Cardinality(S \cup {x}) <= Cardinality(S) + 1
    OBVIOUS
  <2>1. Cardinality(S \cup {x}) = IF x \in S THEN Cardinality(S) ELSE Cardinality(S) + 1
    BY <1>1, FS_AddElement
  <2>2. QED
    BY <1>2, <2>1
<1>5. QED
  BY <1>2, <1>3, <1>4

LEMMA CountedInvariant == Spec => []Counted
<1>1. Init => Counted
  <2> SUFFICES ASSUME Init PROVE Counted
    OBVIOUS
  <2>1. \A u \in User : Owned(u) = {}
    BY SentinelAssumption DEF Init, Owned
  <2>2. \A u \in User : Cardinality(Owned(u)) <= MaxServers[u]
    BY <2>1, FS_EmptySet, LimitAssumption
  <2>3. QED
    BY <2>2 DEF Init, Counted, Idle
<1>2. AccessInv /\ Serial /\ Counted /\ [Next]_vars => Counted'
  <2> SUFFICES ASSUME AccessInv, Serial, Counted, [Next]_vars, Undisturbed' PROVE Counted'
    BY DEF Counted
  <2>t. /\ request \in [Request -> Requests] /\ \A p \in Request : Shape(request[p])
        /\ creator \in [Server -> User \cup {NoUser}]
        /\ \A p \in Request : request[p] = Idle <=> request[p].op = "none"
        /\ NoUser \notin User /\ NoServer \notin Server
    BY Kinds, SentinelAssumption DEF AccessInv, TypeOK, Requests
  <2>b. \A p \in Request : request[p].op # "none" => request[p].by \in User
    BY <2>t, Kinds DEF Handling
  <2>c. env' = env => \A u \in User : Cardinality(Owned(u)) \in Nat /\ Cardinality(Owned(u)) <= MaxServers[u]
    BY FewMembers DEF Counted, Undisturbed, Owned
  (* A step that adds no server: what matters is the request it leaves.    *)
  <2>1. ASSUME NEW q \in Request, env' = env,
               \A p \in Request : p # q => request'[p].op = "none",
               \A u \in User : Owned(u)' \subseteq Owned(u),
               request'[q].op = "create" => request'[q].pc # "allowed",
               request'[q].op = "invite" => request'[q].pc # "write"
        PROVE  Counted'
    <3>1. \A u \in User : Cardinality(Owned(u)') <= MaxServers[u]
      <4> SUFFICES ASSUME NEW u \in User PROVE Cardinality(Owned(u)') <= MaxServers[u]
        OBVIOUS
      <4>1. Cardinality(Owned(u)') \in Nat /\ Cardinality(Owned(u)') <= Cardinality(Owned(u))
        BY <2>1, FewMembers DEF Owned
      <4>2. MaxServers[u] \in Nat
        BY LimitAssumption
      <4>3. QED
        BY <2>1, <2>c, <4>1, <4>2
    <3>2. QED
      BY <2>1, <3>1 DEF Counted
  <2>2. ASSUME NEW q \in Request, Handle(q)
        PROVE  /\ request[q].op # "none" /\ env' = env /\ Undisturbed
               /\ \A p \in Request : p # q => request'[p].op = "none"
    <3>1. request[q].op # "none" /\ Others(q) /\ env' = env
      BY <2>2, HandleStep
    <3>2. QED
      BY <3>1 DEF Undisturbed, Serial, Others
  <2>3. ASSUME NEW q \in Request, Handle(q), End(q), \A u \in User : Owned(u)' \subseteq Owned(u)
        PROVE  Counted'
    BY <2>1, <2>2, <2>3 DEF End, Idle
  <2>4. ASSUME NEW q \in Request, NEW h \in Arrival, Begin(q, h) PROVE Counted'
    <3>1. Others(q) /\ request'[q].pc = "arrived"
      BY <2>4, <2>t, BeginStep
    <3>2. env' = env /\ \A u \in User : Owned(u)' \subseteq Owned(u)
      BY <2>4 DEF Begin, Owned
    <3>3. \A p \in Request : request[p].op = "none"
      BY <2>4, <2>t, <3>2 DEF Begin, Undisturbed
    <3>4. QED
      BY <2>1, <3>1, <3>2, <3>3 DEF Others
  <2>5. ASSUME NEW q \in Request, RequireRole(q) PROVE Counted'
    <3>1. Handle(q) /\ creator' = creator /\ request[q].op \notin {"none", "create"}
      BY <2>5, <2>t, Moves DEF Handle, RequireRole
    <3>2. \A u \in User : Owned(u)' \subseteq Owned(u)
      BY <3>1 DEF Owned
    <3>3. \/ End(q) \/ Advance(q, "allowed")
          \/ Advance(q, "write") /\ request[q].op \in {"delete", "setRole"}
      BY <2>5, <2>t, Moves
    <3>4. QED
      BY <2>1, <2>2, <2>3, <3>1, <3>2, <3>3 DEF Advance
  <2>6. ASSUME NEW q \in Request, CountServers(q) PROVE Counted'
    <3>1. Handle(q) /\ UNCHANGED <<creator, role>> /\ request[q].op = "create" /\ ~ReadFails
      <4>1. Handle(q) /\ UNCHANGED <<creator, role>> /\ request[q].op = "create"
        BY <2>6 DEF Handle, CountServers, At
      <4>2. QED
        BY <2>2, <4>1 DEF Undisturbed, ReadFails
    <3>2. \A u \in User : Owned(u)' = Owned(u)
      BY <3>1 DEF Owned
    <3>3. CASE Answer(q)
      BY <2>3, <2>t, <3>1, <3>2, <3>3, AnswerStep
    <3>4. CASE Goto(q, "allowed") /\ Cardinality(Owned(request[q].by)) < MaxServers[request[q].by]
      <4>1. Advance(q, "allowed") /\ request[q].by \in User
        BY <2>t, <2>b, <3>1, <3>4, GotoStep DEF Step
      <4>2. Cardinality(Owned(request[q].by)') < MaxServers[request'[q].by]
        <5>1. request'[q].by = request[q].by
          BY <4>1 DEF Advance
        <5>2. QED
          BY <3>2, <3>4, <4>1, <5>1
      <4>3. Owned(request[q].by)' = Owned(request'[q].by)
        BY <3>1 DEF Owned
      <4>4. /\ request'[q].op = "create" /\ env' = env
            /\ \A p \in Request : p # q => request'[p].op = "none"
        BY <2>2, <3>1, <4>1 DEF Advance
      <4>5. \A u \in User : Cardinality(Owned(u)') <= MaxServers[u]
        BY <2>c, <3>2, <4>4
      <4>6. QED
        BY <4>2, <4>4, <4>5 DEF Counted
    <3>5. QED
      BY <2>6, <3>1, <3>3, <3>4 DEF CountServers
  <2>7. ASSUME NEW q \in Request, NEW s \in Server, InsertServer(q, s) PROVE Counted'
    <3>1. /\ request'[q].op = "create" /\ request'[q].pc = "inserted"
      BY <2>7, <2>t, InsertServerStep
    <3>2. /\ Handle(q) /\ creator[s] = NoUser /\ creator' = [creator EXCEPT ![s] = request[q].by]
          /\ request[q].op = "create" /\ request[q].pc = "allowed"
      BY <2>7 DEF InsertServer, NewId, Exists, Handle, At
    <3>3. PICK by \in User : by = request[q].by
      BY <2>b, <3>2
    <3>4. Cardinality(Owned(by)) < MaxServers[by]
      BY <2>2, <3>2, <3>3 DEF Counted
    <3>5. \A u \in User : Owned(u)' = IF u = by THEN Owned(u) \cup {s} ELSE Owned(u)
      BY <2>t, <3>2, <3>3 DEF Owned
    <3>6. \A u \in User : Cardinality(Owned(u)') <= MaxServers[u]
      <4> SUFFICES ASSUME NEW u \in User PROVE Cardinality(Owned(u)') <= MaxServers[u]
        OBVIOUS
      <4>1. CASE u # by
        BY <2>2, <2>c, <3>2, <3>5, <4>1
      <4>2. CASE u = by
        <5>1. Cardinality(Owned(by) \cup {s}) <= Cardinality(Owned(by)) + 1 /\ Cardinality(Owned(by)) \in Nat
          BY FewMembers DEF Owned
        <5>2. Cardinality(Owned(by) \cup {s}) \in Nat /\ MaxServers[by] \in Nat
          BY FewMembers, LimitAssumption DEF Owned
        <5>3. Cardinality(Owned(by) \cup {s}) <= MaxServers[by]
          BY <3>4, <5>1, <5>2
        <5>4. QED
          BY <3>5, <4>2, <5>3
      <4>3. QED
        BY <4>1, <4>2
    <3>7. QED
      BY <2>2, <3>1, <3>2, <3>6 DEF Counted
  <2>8. ASSUME NEW q \in Request, StoreCredentials(q) \/ InsertOwner(q) PROVE Counted'
    <3>1. Handle(q) /\ creator' = creator /\ request[q].op = "create"
      BY <2>8 DEF StoreCredentials, InsertOwner, Handle, At
    <3>2. \A u \in User : Owned(u)' \subseteq Owned(u)
      BY <3>1 DEF Owned
    <3>3. End(q) \/ \E pc \in {"keyed", "undo"} : Advance(q, pc)
      BY <2>8, <2>t, Moves
    <3>4. QED
      BY <2>1, <2>2, <2>3, <3>1, <3>2, <3>3 DEF Advance
  <2>9. ASSUME NEW q \in Request, Handle(q), Answer(q),
               UNCHANGED creator \/ Drop(request[q].server)
        PROVE  Counted'
    <3>1. \A u \in User : Owned(u)' \subseteq Owned(u)
      BY <2>9, <2>t DEF Owned, Drop
    <3>2. QED
      BY <2>3, <2>9, <2>t, <3>1, AnswerStep
  <2>10. ASSUME NEW q \in Request, InviteQuota(q) PROVE Counted'
    <3>1. Handle(q) /\ UNCHANGED <<creator, role>> /\ request[q].op = "invite" /\ ~ReadFails
      <4>1. Handle(q) /\ UNCHANGED <<creator, role>> /\ request[q].op = "invite"
        BY <2>10 DEF Handle, InviteQuota, At
      <4>2. QED
        BY <2>2, <4>1 DEF Undisturbed, ReadFails
    <3>2. CASE Answer(q)
      BY <2>9, <3>1, <3>2
    <3>3. CASE /\ Goto(q, "write")
               /\ Cardinality(Members(request[q].server)) < MaxMembers[request[q].by]
      <4>1. Advance(q, "write")
        BY <2>t, <3>1, <3>3, GotoStep DEF Step
      <4>2. /\ Members(request[q].server)' = Members(request'[q].server)
            /\ \A u \in User : Owned(u)' = Owned(u)
        BY <3>1 DEF Members, Owned
      <4>3. Cardinality(Members(request[q].server)') < MaxMembers[request'[q].by]
        BY <3>3, <4>1, <4>2 DEF Advance
      <4>4. /\ request'[q].op = "invite" /\ env' = env
            /\ \A p \in Request : p # q => request'[p].op = "none"
        BY <2>2, <3>1, <4>1 DEF Advance
      <4>5. \A u \in User : Cardinality(Owned(u)') <= MaxServers[u]
        BY <2>c, <4>2, <4>4
      <4>6. QED
        BY <4>3, <4>4, <4>5 DEF Counted
    <3>4. QED
      BY <2>10, <3>1, <3>2, <3>3 DEF InviteQuota
  <2>11. ASSUME NEW q \in Request, ReadTarget(q) \/ CountOwners(q) PROVE Counted'
    <3>1. Handle(q) /\ creator' = creator /\ request[q].op \in {"setRole", "remove"}
      BY <2>11 DEF ReadTarget, CountOwners, Handle
    <3>2. \A u \in User : Owned(u)' \subseteq Owned(u)
      BY <3>1 DEF Owned
    <3>3. End(q) \/ \E pc \in Step : Advance(q, pc)
      BY <2>11, <2>t, Moves DEF Step
    <3>4. QED
      BY <2>1, <2>2, <2>3, <3>1, <3>2, <3>3 DEF Advance
  <2>12. CASE Crash
    <3>1. env' = env /\ (\A p \in Request : request'[p].op = "none") /\ \A u \in User : Owned(u)' = Owned(u)
      BY <2>12 DEF Crash, Idle, Owned
    <3>2. \A u \in User : Cardinality(Owned(u)') <= MaxServers[u]
      BY <2>c, <3>1
    <3>3. QED
      BY <3>1, <3>2 DEF Counted
  <2>13. CASE UNCHANGED vars
    BY <2>13 DEF vars, Counted, Undisturbed, Owned, Members
  <2>14. ASSUME NEW q \in Request, Handle(q) PROVE Counted'
    <3>1. CASE InsertServerFails(q) \/ WriteFails(q) \/ InsertMember(q) \/ WriteMember(q)
      BY <2>9, <2>14, <3>1 DEF InsertServerFails, WriteFails, InsertMember, WriteMember
    <3>2. CASE Undo(q) \/ DeleteServer(q)
      BY <2>9, <2>14, <3>2 DEF Undo, DeleteServer
    <3>3. QED
      BY <2>5, <2>6, <2>7, <2>8, <2>10, <2>11, <2>14, <3>1, <3>2 DEF Handle
  <2>15. QED
    BY <2>4, <2>12, <2>13, <2>14 DEF Next
<1>3. QED
  BY <1>1, <1>2, AccessInvariant, SerialInvariant, PTL DEF Spec

(* One request after the other and with reads that succeed, no sequence of *)
(* creates and invitations leads past a plan.                              *)
THEOREM PlansHold == Spec => WithinPlan
<1> DEFINE Fits ==
      Undisturbed =>
        /\ \A u \in User : Cardinality(Owned(u)') <= MaxServers[u]
        /\ \A s \in Server : Members(s)' \ Members(s) # {} =>
              \E r \in Request :
                  /\ request[r] # Idle /\ request[r].server = s
                  /\ \/ request[r].op = "create"
                     \/ Cardinality(Members(s)') <= MaxMembers[request[r].by]
<1>1. AccessInv /\ Counted /\ Counted' /\ [Next]_vars => [Fits]_vars
  <2> SUFFICES ASSUME AccessInv, Counted, Counted', Next, Undisturbed PROVE Fits
    OBVIOUS
  <2>t. /\ request \in [Request -> Requests] /\ \A p \in Request : Shape(request[p])
        /\ role \in [Server -> [User -> Role \cup {"none"}]]
        /\ \A p \in Request : request[p] = Idle <=> request[p].op = "none"
    BY Kinds DEF AccessInv, TypeOK, Requests
  <2>1. env' = env
    <3>1. ASSUME NEW q \in Request, Handle(q) PROVE env' = env
      BY <3>1, HandleStep
    <3>2. QED
      BY <3>1 DEF Next, Begin, Crash
  <2>2. \A u \in User : Cardinality(Owned(u)') <= MaxServers[u]
    BY <2>1 DEF Counted, Undisturbed
  <2>3. ASSUME NEW s \in Server, NEW u \in User, role[s][u] = "none", role'[s][u] # "none"
        PROVE  \E r \in Request :
                  /\ request[r] # Idle /\ request[r].server = s
                  /\ \/ request[r].op = "create"
                     \/ Cardinality(Members(s)') <= MaxMembers[request[r].by]
    <3>1. ASSUME NEW q \in Request, InsertOwner(q), role' # role
          PROVE  request[q] # Idle /\ request[q].server = s /\ request[q].op = "create"
      <4>1. request[q].op = "create" /\ request[q].pc = "keyed"
        BY <3>1 DEF InsertOwner, At
      <4>2. role' = [role EXCEPT ![request[q].server][request[q].by] = "owner"]
        BY <3>1 DEF InsertOwner
      <4>3. QED
        BY <2>3, <2>t, <4>1, <4>2
    <3>2. ASSUME NEW q \in Request, InsertMember(q) \/ WriteMember(q)
          PROVE  /\ request[q] # Idle /\ request[q].server = s
                 /\ Cardinality(Members(s)') <= MaxMembers[request[q].by]
      <4>1. /\ request[q].op \in {"invite", "setRole", "remove"} /\ request[q].pc = "write"
            /\ \A x \in Server, w \in User :
                  x # request[q].server \/ w # request[q].target => role'[x][w] = role[x][w]
        BY <3>2, MemberWritten
      <4>2. s = request[q].server /\ u = request[q].target
        BY <2>3, <4>1
      <4>3. request[q].op = "invite"
        BY <2>3, <3>2, <4>2, MemberWritten
      <4>4. Cardinality(Members(s)) < MaxMembers[request[q].by] /\ request[q].by \in User
        <5>1. request[q].by \in User
          BY <2>t, <4>1, Kinds DEF Handling
        <5>2. QED
          BY <4>1, <4>2, <4>3, <5>1 DEF Counted
      <4>5. Members(s)' = Members(s) \cup {u}
        BY <2>3, <4>1, <4>2 DEF Members
      <4>6. /\ Cardinality(Members(s)) \in Nat /\ Cardinality(Members(s)') \in Nat
            /\ Cardinality(Members(s) \cup {u}) <= Cardinality(Members(s)) + 1
        BY FewMembers DEF Members
      <4>7. MaxMembers[request[q].by] \in Nat
        BY <4>4, LimitAssumption
      <4>8. QED
        BY <2>t, <4>1, <4>2, <4>4, <4>5, <4>6, <4>7
    <3>3. ASSUME NEW q \in Request, NEW x, Drop(x), x \in Server PROVE FALSE
      BY <2>3, <2>t, <3>3 DEF Drop
    <3>4. ASSUME NEW q \in Request, Undo(q) \/ DeleteServer(q) PROVE role' = role
      <4>1. request[q].op \in {"create", "delete"} /\ request[q].pc \in {"undo", "write"}
        BY <3>4 DEF Undo, DeleteServer, At
      <4>2. request[q].server \in Server
        <5>1. request[q] \in Handling /\ (request[q].op = "create" => request[q].server # NoServer)
          BY <2>t, <3>4, <4>1, Kinds DEF Shape, Undo, DeleteServer, At
        <5>2. QED
          BY <2>t, <4>1, <5>1 DEF Shape, Handling
      <4>3. QED
        BY <3>3, <3>4, <4>2 DEF Undo, DeleteServer
    <3>5. role' # role
      BY <2>3
    <3>6. \E q \in Request : InsertOwner(q) \/ InsertMember(q) \/ WriteMember(q)
      BY <3>4, <3>5 DEF Next, Begin, Crash, Handle, RequireRole, CountServers, InsertServer,
         InsertServerFails, StoreCredentials, WriteFails, InviteQuota, ReadTarget, CountOwners
    <3>7. QED
      BY <3>1, <3>2, <3>5, <3>6
  <2>4. QED
    BY <2>2, <2>3 DEF Members
<1>2. QED
  BY <1>1, AccessInvariant, CountedInvariant, PTL DEF Spec, WithinPlan
=============================================================================

----------------------------- MODULE ServerAccess -----------------------------
(***************************************************************************)
(* Who owns and who may use a server: the REST handlers that create and    *)
(* delete a server (server/routes/servers/core.ts) and that invite,        *)
(* promote, demote and remove its members (members.ts).  Each handler is   *)
(* an async function that reads, decides, and writes in separate database  *)
(* round trips; handlers of several requests interleave between them.      *)
(*                                                                         *)
(* The database is modelled from its schema: the row of a membership       *)
(* refers to its server and goes with it (on delete cascade), and there is *)
(* one row at most per server and user (primary key).                      *)
(***************************************************************************)
EXTENDS Naturals, FiniteSets

CONSTANTS
    Server, User, Request,
    NoUser,       \* the server has no row
    NoServer,     \* a create request before its insert
    MaxServers,   \* MaxServers[u]: limitsFor(plan of u).maxServers
    Lesser,       \* the roles below owner: no handler here tells them apart
    MaxMembers,   \* MaxMembers[u]: limitsFor(plan of u).maxMembersPerServer
    Environments  \* the sets of circumstances to consider

(***************************************************************************)
(* overlap: requests are handled at the same time; crash: the backend      *)
(* exits with requests in progress; undoFails: the delete that undoes a    *)
(* failed create fails too; readFails: a read the handler does not check   *)
(* for an error fails, and it goes on with null.                           *)
(***************************************************************************)
Circumstances == {"overlap", "crash", "undoFails", "readFails"}

ASSUME SentinelAssumption == NoUser \notin User /\ NoServer \notin Server
ASSUME RoleAssumption == Lesser \subseteq {"viewer", "operator"} /\ Lesser # {}
ASSUME FiniteAssumption == IsFiniteSet(Server) /\ IsFiniteSet(User)
ASSUME LimitAssumption == MaxServers \in [User -> Nat] /\ MaxMembers \in [User -> Nat]
ASSUME EnvironmentAssumption == Environments \subseteq SUBSET Circumstances

VARIABLES
    env,          \* the circumstances of this behaviour
    creator,      \* servers.user_id, NoUser without a row
    credentials,  \* servers whose agent key is stored
    role,         \* role[s][u]: server_members
    request       \* the requests being handled

vars == <<env, creator, credentials, role, request>>

Role == Lesser \cup {"owner"}
Idle == [op |-> "none"]

(* The steps of a handler: arrived, past the role check or the quota, then *)
(* in between the reads and writes that follow.                            *)
Step == {"arrived", "allowed", "anOwner", "write", "inserted", "keyed", "undo"}

Handling == [op : {"create", "invite", "setRole", "remove", "delete"},
             pc : Step, by : User, server : Server \cup {NoServer},
             target : User, newRole : Role]

(* What the routes and their schemas accept; fields a handler does not     *)
(* read have a fixed value.                                                *)
Arrival == {h \in Handling :
    /\ h.pc = "arrived" /\ (h.op = "create") = (h.server = NoServer)
    /\ h.op = "invite" => h.newRole # "owner"
    /\ h.op \in {"create", "delete"} => h.target = h.by
    /\ h.op \notin {"invite", "setRole"} => h.newRole = "owner"}

Exists(s) == creator[s] # NoUser
Members(s) == {u \in User : role[s][u] # "none"}
Owners(s) == {u \in User : role[s][u] = "owner"}

(* Every variable has its type, and no row outlives the server it is of.   *)
TypeOK ==
    /\ env \in Environments
    /\ creator \in [Server -> User \cup {NoUser}]
    /\ credentials \subseteq Server
    /\ role \in [Server -> [User -> Role \cup {"none"}]]
    /\ request \in [Request -> Handling \cup {Idle}]
    /\ \A s \in Server : ~Exists(s) => s \notin credentials /\ Members(s) = {}

Init ==
    /\ env \in Environments
    /\ creator = [s \in Server |-> NoUser] /\ credentials = {}
    /\ role = [s \in Server |-> [u \in User |-> "none"]]
    /\ request = [r \in Request |-> Idle]

At(r, op, pc) == request[r].op = op /\ request[r].pc = pc
Goto(r, pc) == request' = [request EXCEPT ![r].pc = pc]
Answer(r) == request' = [request EXCEPT ![r] = Idle]
ReadFails == "readFails" \in env

-----------------------------------------------------------------------------
Begin(r, h) ==
    /\ request[r] = Idle
    /\ "overlap" \in env \/ \A q \in Request : request[q] = Idle
    /\ request' = [request EXCEPT ![r] = h]
    /\ UNCHANGED <<env, creator, credentials, role>>

(* requireRole(..., 'owner'): 404, 403 or a failed read end the request.   *)
(* Deleting, or making someone an owner, needs no further check.           *)
RequireRole(r) ==
    /\ request[r] # Idle /\ request[r].pc = "arrived" /\ request[r].op # "create"
    /\ \/ /\ request[r].by \in Owners(request[r].server)
          /\ Goto(r, IF request[r].op = "delete"
                       \/ (request[r].op = "setRole" /\ request[r].newRole = "owner")
                     THEN "write" ELSE "allowed")
       \/ Answer(r)
    /\ UNCHANGED <<env, creator, credentials, role>>

-----------------------------------------------------------------------------
(* POST /api/servers.                                                      *)

Owned(u) == {s \in Server : creator[s] = u}

(* Slip: the limit itself is let through.                                  *)
CountServersOffByOne(r) ==
    /\ At(r, "create", "arrived")
    /\ IF Cardinality(Owned(request[r].by)) <= MaxServers[request[r].by]
         THEN Goto(r, "allowed") ELSE Answer(r)
    /\ UNCHANGED <<env, creator, credentials, role>>

(* countOwnedServers against the plan; a failed count reads as 0 and a     *)
(* plan that cannot be read as free.                                       *)
CountServers(r) ==
    /\ At(r, "create", "arrived")
    /\ LET by == request[r].by IN
       \/ /\ Cardinality(Owned(by)) < MaxServers[by] \/ (ReadFails /\ MaxServers[by] > 0)
          /\ Goto(r, "allowed")
       \/ /\ Cardinality(Owned(by)) >= MaxServers[by] \/ ReadFails
          /\ Answer(r)
    /\ UNCHANGED <<env, creator, credentials, role>>

(* A new id is a UUID: a row that is gone and that no request refers to    *)
(* stands for it.                                                          *)
NewId(s) ==
    /\ ~Exists(s)
    /\ \A q \in Request : request[q] # Idle => request[q].server # s

InsertServer(r, s) ==
    /\ At(r, "create", "allowed") /\ NewId(s)
    /\ creator' = [creator EXCEPT ![s] = request[r].by]
    /\ request' = [request EXCEPT ![r].server = s, ![r].pc = "inserted"]
    /\ UNCHANGED <<env, credentials, role>>

InsertServerFails(r) ==
    /\ At(r, "create", "allowed") /\ Answer(r)
    /\ UNCHANGED <<env, creator, credentials, role>>

(* updateCredentials, after the keys were generated and hashed.            *)
StoreCredentials(r) ==
    /\ At(r, "create", "inserted")
    /\ \/ credentials' = credentials \cup {request[r].server} /\ Goto(r, "keyed")
       \/ UNCHANGED credentials /\ Goto(r, "undo")
    /\ UNCHANGED <<env, creator, role>>

(* Slip: a failed insert is answered without undoing the create.           *)
InsertOwnerNoUndo(r) ==
    /\ At(r, "create", "keyed")
    /\ \/ role' = [role EXCEPT ![request[r].server][request[r].by] = "owner"]
       \/ UNCHANGED role
    /\ Answer(r)
    /\ UNCHANGED <<env, creator, credentials>>

(* insertOwnerMember.                                                      *)
InsertOwner(r) ==
    /\ At(r, "create", "keyed")
    /\ \/ /\ role' = [role EXCEPT ![request[r].server][request[r].by] = "owner"]
          /\ Answer(r)
       \/ UNCHANGED role /\ Goto(r, "undo")
    /\ UNCHANGED <<env, creator, credentials>>

(* deleteServer: the row, and by the schema all that refer to it.          *)
Drop(s) ==
    /\ creator' = [creator EXCEPT ![s] = NoUser]
    /\ credentials' = credentials \ {s}
    /\ role' = [role EXCEPT ![s] = [u \in User |-> "none"]]

(* The answer is 500 whether or not the server could be deleted.           *)
Undo(r) ==
    /\ At(r, "create", "undo")
    /\ \/ Drop(request[r].server)
       \/ "undoFails" \in env /\ UNCHANGED <<creator, credentials, role>>
    /\ Answer(r)
    /\ UNCHANGED env

-----------------------------------------------------------------------------
(* DELETE /api/servers/:id and the member routes.                          *)

(* Any write below may fail; the answer is then an error.                  *)
WriteFails(r) ==
    /\ request[r] # Idle /\ request[r].pc = "write" /\ Answer(r)
    /\ UNCHANGED <<env, creator, credentials, role>>

DeleteServer(r) ==
    /\ At(r, "delete", "write")
    /\ Drop(request[r].server)
    /\ Answer(r) /\ UNCHANGED env

(* Invite: the plan of the inviting owner bounds the members; a failed     *)
(* list reads as none.  Then the account and its membership are looked up. *)
InviteQuota(r) ==
    /\ At(r, "invite", "allowed")
    /\ LET count == Cardinality(Members(request[r].server))
           limit == MaxMembers[request[r].by] IN
       \/ /\ count < limit \/ (ReadFails /\ limit > 0)
          /\ request[r].target \notin Members(request[r].server) \/ ReadFails
          /\ Goto(r, "write")
       \/ Answer(r)
    /\ UNCHANGED <<env, creator, credentials, role>>

(* insertMember: refused by the keys if the row is there or the server     *)
(* is gone.                                                                *)
InsertMember(r) ==
    /\ At(r, "invite", "write")
    /\ LET s == request[r].server  t == request[r].target IN
       role' = IF Exists(s) /\ t \notin Members(s)
                 THEN [role EXCEPT ![s][t] = request[r].newRole] ELSE role
    /\ Answer(r)
    /\ UNCHANGED <<env, creator, credentials>>

(* wouldRemoveLastOwner, first read: a target that is no owner may go, and *)
(* so may one whose role cannot be read.                                   *)
ReadTarget(r) ==
    /\ request[r].op \in {"setRole", "remove"} /\ request[r].pc = "allowed"
    /\ \/ /\ request[r].target \in Owners(request[r].server)
          /\ Goto(r, "anOwner")
       \/ /\ request[r].target \notin Owners(request[r].server) \/ ReadFails
          /\ Goto(r, "write")
    /\ UNCHANGED <<env, creator, credentials, role>>

(* Slip: the count is compared with 0.                                     *)
CountOwnersOffByOne(r) ==
    /\ request[r].op \in {"setRole", "remove"} /\ request[r].pc = "anOwner"
    /\ IF Cardinality(Owners(request[r].server)) <= 0 THEN Answer(r) ELSE Goto(r, "write")
    /\ UNCHANGED <<env, creator, credentials, role>>

(* Second read: the last owner stays; a failed count reads as 0.           *)
CountOwners(r) ==
    /\ request[r].op \in {"setRole", "remove"} /\ request[r].pc = "anOwner"
    /\ \/ Cardinality(Owners(request[r].server)) > 1 /\ Goto(r, "write")
       \/ /\ Cardinality(Owners(request[r].server)) <= 1 \/ ReadFails
          /\ Answer(r)
    /\ UNCHANGED <<env, creator, credentials, role>>

(* updateMemberRole and deleteMember touch a row that is there.            *)
WriteMember(r) ==
    /\ request[r].op \in {"setRole", "remove"} /\ request[r].pc = "write"
    /\ LET s == request[r].server  t == request[r].target IN
       role' = IF t \in Members(s)
                 THEN [role EXCEPT ![s][t] = IF request[r].op = "remove" THEN "none"
                                             ELSE request[r].newRole]
                 ELSE role
    /\ Answer(r)
    /\ UNCHANGED <<env, creator, credentials>>

(* The process exits: nobody finishes or undoes what was in progress.      *)
Crash ==
    /\ "crash" \in env
    /\ request' = [r \in Request |-> Idle]
    /\ UNCHANGED <<env, creator, credentials, role>>

Handle(r) ==
    \/ RequireRole(r)
    \/ CountServers(r) \/ \E s \in Server : InsertServer(r, s)
    \/ InsertServerFails(r) \/ StoreCredentials(r) \/ InsertOwner(r) \/ Undo(r)
    \/ WriteFails(r) \/ DeleteServer(r) \/ InviteQuota(r) \/ InsertMember(r)
    \/ ReadTarget(r) \/ CountOwners(r) \/ WriteMember(r)

Next ==
    \/ \E r \in Request : (\E h \in Arrival : Begin(r, h)) \/ Handle(r)
    \/ Crash

Spec == Init /\ [][Next]_vars

-----------------------------------------------------------------------------
(* Properties.                                                             *)

Undisturbed == env \cap {"overlap", "readFails"} = {}

(* "A server must have at least one owner" (members.ts): as long as the    *)
(* requests come one after the other and the reads of wouldRemoveLastOwner *)
(* succeed, no sequence of promotions, demotions and removals leaves       *)
(* members without an owner.                                               *)
KeepsAnOwner ==
    Undisturbed => \A s \in Server : Members(s) # {} => Owners(s) # {}

(* The same without the proviso.                                           *)
AlwaysAnOwner == \A s \in Server : Members(s) # {} => Owners(s) # {}

(* What the three writes of a create and its undo leave behind.  Whatever  *)
(* fails, overlaps or crashes, a server that has members exists and has    *)
(* the credentials its agent needs.  If undoing works, the backend stays   *)
(* up and members are handled one request at a time, a server nobody can   *)
(* reach is one a request is still creating.                               *)
WholeServers ==
    /\ \A s \in Server : Members(s) # {} => Exists(s) /\ s \in credentials
    /\ env \cap {"crash", "undoFails", "overlap", "readFails"} = {} =>
           \A s \in Server : Exists(s) /\ Owners(s) = {} =>
               \E r \in Request : request[r].op = "create" /\ request[r].server = s

(* One request after the other and without failed reads, nobody creates    *)
(* more servers, and no owner invites more members, than the plan allows.  *)
WithinPlan ==
    [][Undisturbed =>
        /\ \A u \in User : Cardinality(Owned(u)') <= MaxServers[u]
        /\ \A s \in Server : Members(s)' \ Members(s) # {} =>
              \E r \in Request :
                  /\ request[r] # Idle /\ request[r].server = s
                  /\ \/ request[r].op = "create"
                     \/ Cardinality(Members(s)') <= MaxMembers[request[r].by]]_vars
=============================================================================

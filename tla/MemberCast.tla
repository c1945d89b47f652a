------------------------------ MODULE MemberCast ------------------------------
(***************************************************************************)
(* How what one agent sends reaches the browsers of the server's members:  *)
(* broadcastToServerMembers with its cache of member ids                   *)
(* (server/ws/broadcast.ts), the registry clientSockets                    *)
(* (clientConnection.ts), and the membership routes, which write the       *)
(* database and then invalidate the cache (routes/servers/members.ts).     *)
(*                                                                         *)
(* Messages are numbered in the order the agent sent them.  With a fresh   *)
(* entry a message goes out before anything else happens; without one its  *)
(* broadcast awaits a read of the database, and so may those of the        *)
(* messages that follow, each with a read of its own.                      *)
(***************************************************************************)
EXTENDS Naturals, Sequences

CONSTANTS
    User, Tab,
    UserOf,       \* UserOf[t]: the user logged in in tab t
    MaxSent,      \* bound: messages of the agent
    Environments  \* the sets of circumstances to consider

(***************************************************************************)
(* slowRead: a message arrives while the read for an earlier one is        *)
(* awaited; racingRead: a membership changes while a read is awaited;      *)
(* readFails: a read of the members answers with an error.                 *)
(***************************************************************************)
Circumstances == {"slowRead", "racingRead", "readFails"}

ASSUME TabAssumption == UserOf \in [Tab -> User]
ASSUME SentAssumption == MaxSent \in Nat
ASSUME EnvironmentAssumption == Environments \subseteq SUBSET Circumstances

VARIABLES
    env,            \* the circumstances of this behaviour
    member,         \* the users in server_members
    changing,       \* those whose row was written and not yet invalidated
    steady,         \* those whose membership never changed
    since,          \* since[u]: messages sent when u's last change took effect
    cache,          \* the entry of memberIdsCache, if any: userIds and freshness
    sent,           \* messages received from the agent
    casts,          \* broadcasts that await their read
    clientSockets,  \* clientSockets[u]: the tabs the backend sends to
    open,           \* the tabs that are open
    openedAt,       \* openedAt[t]: messages sent when t was opened
    got             \* got[t]: what t, if open, has received since

memberVars == <<member, changing, steady, since>>
tabVars == <<clientSockets, open, openedAt>>
vars == <<env, member, changing, steady, since, cache, sent, casts,
          clientSockets, open, openedAt, got>>

Message == 1..MaxSent
Entry == [userIds : SUBSET User, fresh : BOOLEAN]
(* ids is what the database answered, once read; old is the userIds of the *)
(* outdated entry found at the start.                                      *)
Cast == [n : Message, old : SUBSET User, ids : SUBSET User, read : BOOLEAN]

(* Every variable has its type, and the backend sends to tabs of the user. *)
TypeOK ==
    /\ env \in Environments
    /\ member \subseteq User /\ changing \subseteq User /\ steady \subseteq User
    /\ since \in [User -> 0..MaxSent]
    /\ cache \subseteq Entry /\ \A e, f \in cache : e = f
    /\ sent \in 0..MaxSent /\ casts \subseteq Cast
    /\ clientSockets \in [User -> SUBSET Tab]
    /\ \A u \in User : \A t \in clientSockets[u] : UserOf[t] = u
    /\ open \subseteq Tab /\ openedAt \in [Tab -> 0..MaxSent]
    /\ got \in [Tab -> Seq(Message)]

Init ==
    /\ env \in Environments
    /\ member \in SUBSET User \ {{}} /\ changing = {} /\ steady = User
    /\ since = [u \in User |-> 0]
    /\ cache = {} /\ sent = 0 /\ casts = {}
    /\ clientSockets = [u \in User |-> {}] /\ open = {}
    /\ openedAt = [t \in Tab |-> 0] /\ got = [t \in Tab |-> <<>>]

-----------------------------------------------------------------------------
(* clientConnection.ts.                                                    *)

OpenTab(t) ==
    /\ t \notin open
    /\ open' = open \cup {t}
    /\ clientSockets' = [clientSockets EXCEPT ![UserOf[t]] = @ \cup {t}]
    /\ openedAt' = [openedAt EXCEPT ![t] = sent]
    /\ UNCHANGED <<env, memberVars, cache, sent, casts, got>>

(* Slip: the user's whole entry goes with one of its tabs.                 *)
CloseTabForAll(t) ==
    /\ t \in open
    /\ open' = open \ {t}
    /\ clientSockets' = [clientSockets EXCEPT ![UserOf[t]] = {}]
    /\ openedAt' = [openedAt EXCEPT ![t] = 0] /\ got' = [got EXCEPT ![t] = <<>>]
    /\ UNCHANGED <<env, memberVars, cache, sent, casts>>

CloseTab(t) ==
    /\ t \in open
    /\ open' = open \ {t}
    /\ clientSockets' = [clientSockets EXCEPT ![UserOf[t]] = @ \ {t}]
    /\ openedAt' = [openedAt EXCEPT ![t] = 0] /\ got' = [got EXCEPT ![t] = <<>>]
    /\ UNCHANGED <<env, memberVars, cache, sent, casts>>

(* broadcastToUser for each id: every tab of these users gets message n.   *)
Deliver(userIds, n) ==
    got' = [t \in Tab |-> IF UserOf[t] \in userIds /\ t \in clientSockets[UserOf[t]]
                            THEN Append(got[t], n) ELSE got[t]]

-----------------------------------------------------------------------------
(* broadcast.ts.                                                           *)

Fresh == {e.userIds : e \in {x \in cache : x.fresh}}
Outdated == UNION {e.userIds : e \in cache}

(* A message of the agent meets a fresh entry.                             *)
BroadcastWarm ==
    /\ sent < MaxSent
    /\ "slowRead" \in env \/ casts = {}
    /\ sent' = sent + 1
    /\ \E ids \in Fresh : Deliver(ids, sent + 1)
    /\ UNCHANGED <<env, memberVars, cache, casts, tabVars>>

(* A message of the agent has to ask the database.                         *)
BroadcastCold ==
    /\ sent < MaxSent
    /\ "slowRead" \in env \/ casts = {}
    /\ Fresh = {}
    /\ sent' = sent + 1
    /\ casts' = casts \cup {[n |-> sent + 1, old |-> Outdated, ids |-> {}, read |-> FALSE]}
    /\ UNCHANGED <<env, memberVars, cache, tabVars, got>>

(* The database executes the read of listMemberUserIds.                    *)
ReadMembers(c) ==
    /\ ~c.read
    /\ casts' = (casts \ {c}) \cup {[c EXCEPT !.ids = member, !.read = TRUE]}
    /\ UNCHANGED <<env, memberVars, cache, sent, tabVars, got>>

(* Its answer arrives: the entry is replaced and the message goes out.     *)
Fill(c) ==
    /\ c.read
    /\ casts' = casts \ {c}
    /\ cache' = {[userIds |-> c.ids, fresh |-> TRUE]}
    /\ Deliver(c.ids, c.n)
    /\ UNCHANGED <<env, memberVars, sent, tabVars>>

(* Slip: the message goes out, and the broadcast is tried again.           *)
ReadFailsRetried(c) ==
    /\ "readFails" \in env
    /\ Deliver(c.old, c.n)
    /\ UNCHANGED <<env, memberVars, cache, sent, casts, tabVars>>

(* The read fails: the outdated ids will do, or nobody is told.            *)
ReadFails(c) ==
    /\ "readFails" \in env
    /\ casts' = casts \ {c}
    /\ Deliver(c.old, c.n)
    /\ UNCHANGED <<env, memberVars, cache, sent, tabVars>>

(* MEMBER_CACHE_MS is over.                                                *)
Expire ==
    /\ cache' = {[e EXCEPT !.fresh = FALSE] : e \in cache}
    /\ UNCHANGED <<env, memberVars, sent, casts, tabVars, got>>

-----------------------------------------------------------------------------
(* members.ts: invite and remove.                                          *)

(* insertMember or deleteMember is executed in the database (the last      *)
(* member, an owner, stays) ...                                            *)
ChangeMember(u) ==
    /\ u \notin changing /\ member # {u}
    /\ "racingRead" \in env \/ casts = {}
    /\ member' = IF u \in member THEN member \ {u} ELSE member \cup {u}
    /\ changing' = changing \cup {u} /\ steady' = steady \ {u}
    /\ UNCHANGED <<env, since, cache, sent, casts, tabVars, got>>

(* Slip: the entry of the server is left alone.                            *)
InvalidateNot(u) ==
    /\ u \in changing
    /\ changing' = changing \ {u} /\ since' = [since EXCEPT ![u] = sent]
    /\ UNCHANGED <<env, member, steady, cache, sent, casts, tabVars, got>>

(* ... and when its answer is there, invalidateServerMemberCache.          *)
Invalidate(u) ==
    /\ u \in changing
    /\ changing' = changing \ {u} /\ since' = [since EXCEPT ![u] = sent]
    /\ cache' = {}
    /\ UNCHANGED <<env, member, steady, sent, casts, tabVars, got>>

Next ==
    \/ \E t \in Tab : OpenTab(t) \/ CloseTab(t)
    \/ BroadcastWarm \/ BroadcastCold \/ Expire
    \/ \E c \in casts : ReadMembers(c) \/ Fill(c) \/ ReadFails(c)
    \/ \E u \in User : ChangeMember(u) \/ Invalidate(u)

Spec == Init /\ [][Next]_vars

-----------------------------------------------------------------------------
(* Properties.                                                             *)

Received(t) == {got[t][i] : i \in 1..Len(got[t])}

(* Message n is through with its broadcast.                                *)
Out(n) == n <= sent /\ \A c \in casts : c.n # n

(* A tab that has been open since before message n was sent.               *)
Watching(t, n) == t \in open /\ openedAt[t] < n

(* No tab gets a message twice, in whatever order the reads are answered;  *)
(* and as long as the database answers before the agent's next message     *)
(* comes, the lines of a build and the output of a shell arrive in order.  *)
OnceInOrder ==
    \A t \in Tab : \A i, j \in 1..Len(got[t]) : i < j =>
        /\ got[t][i] # got[t][j]
        /\ "slowRead" \notin env => got[t][i] < got[t][j]

(* "The owner (always present from server creation) is unaffected": a user *)
(* whose membership does not change gets every message in every open tab   *)
(* if the reads succeed; and one who never was a member gets none, in any  *)
(* circumstances.                                                          *)
SteadyServed ==
    \A t \in Tab : UserOf[t] \in steady =>
        /\ UserOf[t] \notin member => got[t] = <<>>
        /\ UserOf[t] \in member /\ "readFails" \notin env =>
               \A n \in Message : Out(n) /\ Watching(t, n) => n \in Received(t)

(* A change of membership is in effect from the first message that comes   *)
(* after its invalidation: a removed user gets no such message, an invited *)
(* one gets them all ("doesn't wait out the cache TTL").                   *)
TakesEffect ==
    \A t \in Tab : UserOf[t] \notin changing =>
        \A n \in Message : n > since[UserOf[t]] =>
            /\ n \in Received(t) => UserOf[t] \in member
            /\ UserOf[t] \in member /\ Out(n) /\ Watching(t, n)
                   /\ "readFails" \notin env => n \in Received(t)

(* It holds if no read is under way when the database is written.          *)
ChangeTakesEffect == "racingRead" \notin env => TakesEffect
=============================================================================

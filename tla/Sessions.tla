------------------------------- MODULE Sessions -------------------------------
(***************************************************************************)
(* The sessions of one account: the handlers of server/routes/auth         *)
(* (session.ts, password.ts, shared.ts) between the table refresh_tokens   *)
(* and the cookies of the user's browsers, and the client's axios          *)
(* interceptor (client/src/lib/axios.js), which refreshes once for all the *)
(* requests of a tab.  A handler awaits each of its database calls; its    *)
(* answer carries the cookies.                                             *)
(*                                                                         *)
(* The access token is a JWT nobody can revoke: a browser has it until its *)
(* cookie expires.                                                         *)
(***************************************************************************)
EXTENDS Naturals, FiniteSets

CONSTANTS
    Browser, Request,
    Link,         \* reset links that can be mailed
    MaxTokens,    \* bound: refresh tokens issued
    MaxEpoch,     \* bound: changes of the password
    Environments  \* the sets of circumstances to consider

(***************************************************************************)
(* twoTabs: a browser, or two readers of one mail, send the same request   *)
(* twice at a time; race: the password changes while other requests are in *)
(* progress; lostAnswer: an answer does not arrive; writeFails: the insert *)
(* of a token or the deletes after a password change fail, which no        *)
(* handler looks at; crash: the backend exits.                             *)
(***************************************************************************)
Circumstances == {"twoTabs", "race", "lostAnswer", "writeFails", "crash"}

ASSUME BoundAssumption == MaxTokens \in Nat /\ MaxEpoch \in Nat
ASSUME LinkAssumption == Link \cap Nat = {}
ASSUME EnvironmentAssumption == Environments \subseteq SUBSET Circumstances

VARIABLES
    env,      \* the circumstances of this behaviour
    epoch,    \* how often the password has changed
    issued,   \* refresh tokens issued
    epochOf,  \* epochOf[t]: the password the session of t began with
    rows,     \* refresh_tokens, without the expired ones
    links,    \* password_resets
    mailed,   \* links that were mailed
    used,     \* how often a token was exchanged or a link led to a change
    jar,      \* jar[b]: the cookies of browser b
    ended,    \* tokens of sessions their users logged out of
    request   \* the requests in progress

vars == <<env, epoch, issued, epochOf, rows, links, mailed, used, jar, ended, request>>

NoToken == 0
Token == 1..MaxTokens
Cookies == [access : BOOLEAN, refresh : Token \cup {NoToken}]
NoCookies == [access |-> FALSE, refresh |-> NoToken]
Idle == [op |-> "none", pc |-> "idle"]
Step == {"find", "delete", "insert", "revoke", "match", "update", "unlink", "purge",
         "answer", "clear"}
Handling == [op : {"login", "refresh", "logout", "change"}, pc : Step,
             from : Browser, old : Token \cup {NoToken},
             new : Token \cup {NoToken}, epoch : 0..MaxEpoch]
Resetting == [op : {"reset"}, pc : Step, link : Link]

(* Every variable has its type; tokens are issued one after the other.     *)
TypeOK ==
    /\ env \in Environments
    /\ epoch \in 0..MaxEpoch /\ issued \in 0..MaxTokens
    /\ epochOf \in [Token -> 0..MaxEpoch] /\ rows \subseteq 1..issued
    /\ mailed \subseteq Link /\ links \subseteq mailed
    /\ used \in [Token \cup Link -> 0..2]
    /\ jar \in [Browser -> Cookies]
    /\ \A b \in Browser : jar[b].refresh <= issued
    /\ ended \subseteq 1..issued
    /\ request \in [Request -> Handling \cup Resetting \cup {Idle}]

Init ==
    /\ env \in Environments
    /\ epoch = 0 /\ issued = 0 /\ epochOf = [t \in Token |-> 0]
    /\ rows = {} /\ links = {} /\ mailed = {} /\ ended = {}
    /\ used = [x \in Token \cup Link |-> 0]
    /\ jar = [b \in Browser |-> NoCookies]
    /\ request = [q \in Request |-> Idle]

Goto(q, pc) == request' = [request EXCEPT ![q].pc = pc]
Done(q) == request' = [request EXCEPT ![q] = Idle]
Twice(x) == used' = [used EXCEPT ![x] = IF @ = 2 THEN 2 ELSE @ + 1]

Changing(q) == request[q].op \in {"change", "reset"}
AllIdle == \A q \in Request : request[q] = Idle

(* A request may begin: next to a change of the password only in a race.   *)
MayBegin(q) ==
    /\ request[q] = Idle
    /\ "race" \in env \/ ~\E p \in Request : Changing(p)

Begin(q, op, pc, b, old) ==
    request' = [request EXCEPT ![q] = [op |-> op, pc |-> pc, from |-> b, old |-> old,
                                       new |-> NoToken, epoch |-> epoch]]

tables == <<epoch, issued, epochOf, rows, links, mailed>>

-----------------------------------------------------------------------------
(* What a browser sends.                                                   *)

(* setAuthCookies gives refresh_token the path /api/auth/refresh: it goes  *)
(* along with no other request.                                            *)
Carried(b, route) == IF route = "refresh" THEN jar[b].refresh ELSE NoToken

(* Login: the password is compared with the hash of this moment.           *)
Login(q, b) ==
    /\ MayBegin(q)
    /\ \A p \in Request : request[p].op = "login" => request[p].from # b
    /\ Begin(q, "login", "insert", b, NoToken)
    /\ UNCHANGED <<env, tables, used, jar, ended>>

(* A 401 for want of an access token; refreshPromise holds back a second   *)
(* one of the same tab.                                                    *)
Refresh(q, b) ==
    /\ MayBegin(q)
    /\ ~jar[b].access /\ jar[b].refresh # NoToken
    /\ \/ "twoTabs" \in env
       \/ \A p \in Request : request[p] # Idle /\ ~Changing(p) => request[p].from # b
    /\ Begin(q, "refresh", "find", b, Carried(b, "refresh"))
    /\ UNCHANGED <<env, tables, used, jar, ended>>

Logout(q, b) ==
    /\ MayBegin(q) /\ jar[b].access
    /\ Begin(q, "logout", "revoke", b, Carried(b, "logout"))
    /\ UNCHANGED <<env, tables, used, jar, ended>>

(* The current password is known and right.                                *)
ChangePassword(q, b) ==
    /\ MayBegin(q) /\ jar[b].access /\ epoch < MaxEpoch
    /\ "race" \in env \/ AllIdle
    /\ Begin(q, "change", "update", b, NoToken)
    /\ UNCHANGED <<env, tables, used, jar, ended>>

ForgotPassword(l) ==
    /\ l \notin mailed
    /\ mailed' = mailed \cup {l} /\ links' = links \cup {l}
    /\ UNCHANGED <<env, epoch, issued, epochOf, rows, used, jar, ended, request>>

ResetPassword(q, l) ==
    /\ request[q] = Idle /\ l \in mailed /\ epoch < MaxEpoch
    /\ "race" \in env \/ \A p \in Request : request[p] # Idle => "twoTabs" \in env /\ Changing(p)
    /\ request' = [request EXCEPT ![q] = [op |-> "reset", pc |-> "match", link |-> l]]
    /\ UNCHANGED <<env, tables, used, jar, ended>>

(* The cookie's 15 minutes are over.                                       *)
AccessExpires(b) ==
    /\ jar[b].access
    /\ jar' = [jar EXCEPT ![b].access = FALSE]
    /\ UNCHANGED <<env, tables, used, ended, request>>

-----------------------------------------------------------------------------
(* The handlers.                                                           *)

(* findActiveRefreshTokenBySelector and compareToken.                      *)
Find(q) ==
    /\ request[q].pc = "find"
    /\ LET t == request[q].old IN
       request' = [request EXCEPT
            ![q].pc = IF t \in rows THEN "delete" ELSE "clear", ![q].epoch = epochOf[t]]
    /\ UNCHANGED <<env, tables, used, jar, ended>>

(* Slip: the old token stays until it expires.                             *)
DeleteNot(q) ==
    /\ request[q].pc = "delete" /\ Goto(q, "insert")
    /\ Twice(request[q].old)
    /\ UNCHANGED <<env, tables, jar, ended>>

(* Rotate: deleteRefreshTokenById, whether or not the row is still there.  *)
Delete(q) ==
    /\ request[q].pc = "delete" /\ Goto(q, "insert")
    /\ rows' = rows \ {request[q].old} /\ Twice(request[q].old)
    /\ UNCHANGED <<env, epoch, issued, epochOf, links, mailed, jar, ended>>

(* generateRefreshToken and insertRefreshToken, whose error is ignored.    *)
Insert(q) ==
    /\ request[q].pc = "insert" /\ issued < MaxTokens
    /\ LET t == issued + 1 IN
       /\ issued' = t /\ epochOf' = [epochOf EXCEPT ![t] = request[q].epoch]
       /\ \/ rows' = rows \cup {t}
          \/ "writeFails" \in env /\ UNCHANGED rows
       /\ request' = [request EXCEPT ![q].pc = "answer", ![q].new = t]
    /\ UNCHANGED <<env, epoch, links, mailed, used, jar, ended>>

(* Logout deletes the row of the token it was sent.                        *)
Revoke(q) ==
    /\ request[q].pc = "revoke" /\ Goto(q, "clear")
    /\ rows' = rows \ {request[q].old}
    /\ UNCHANGED <<env, epoch, issued, epochOf, links, mailed, used, jar, ended>>

(* listActivePasswordResets and compareToken.                              *)
Match(q) ==
    /\ request[q].pc = "match"
    /\ IF request[q].link \in links THEN Goto(q, "update") ELSE Done(q)
    /\ UNCHANGED <<env, tables, used, jar, ended>>

(* updatePasswordHash; on an error nothing more happens.                   *)
Update(q) ==
    /\ request[q].pc = "update"
    /\ \/ /\ epoch < MaxEpoch /\ epoch' = epoch + 1
          /\ IF request[q].op = "reset"
               THEN Twice(request[q].link) /\ Goto(q, "unlink")
               ELSE UNCHANGED used /\ Goto(q, "purge")
       \/ UNCHANGED <<epoch, used>> /\ Done(q)
    /\ UNCHANGED <<env, issued, epochOf, rows, links, mailed, jar, ended>>

(* deletePasswordResetsForUser.                                            *)
Unlink(q) ==
    /\ request[q].pc = "unlink" /\ Goto(q, "purge")
    /\ \/ links' = {}
       \/ "writeFails" \in env /\ UNCHANGED links
    /\ UNCHANGED <<env, epoch, issued, epochOf, rows, mailed, used, jar, ended>>

(* Slip: only the session the request came from is ended.                  *)
PurgeOwn(q) ==
    /\ request[q].pc = "purge"
    /\ IF request[q].op = "change"
         THEN rows' = rows \ {jar[request[q].from].refresh} /\ Goto(q, "clear")
         ELSE rows' = {} /\ Done(q)
    /\ UNCHANGED <<env, epoch, issued, epochOf, links, mailed, used, jar, ended>>

(* deleteRefreshTokensForUser.                                             *)
Purge(q) ==
    /\ request[q].pc = "purge"
    /\ \/ rows' = {}
       \/ "writeFails" \in env /\ UNCHANGED rows
    /\ IF request[q].op = "change" THEN Goto(q, "clear") ELSE Done(q)
    /\ UNCHANGED <<env, epoch, issued, epochOf, links, mailed, used, jar, ended>>

(* Slip: the new refresh token is not put into the answer.                 *)
AnswerOldToken(q) ==
    /\ request[q].pc = "answer"
    /\ jar' = [jar EXCEPT ![request[q].from].access = TRUE,
                          ![request[q].from].refresh = IF @ = NoToken THEN request[q].new ELSE @]
    /\ Done(q)
    /\ UNCHANGED <<env, tables, used, ended>>

(* The answer arrives with its cookies ...                                 *)
Answer(q) ==
    /\ request[q].pc = "answer"
    /\ jar' = [jar EXCEPT ![request[q].from] =
                   [access |-> TRUE, refresh |-> request[q].new]]
    /\ Done(q)
    /\ UNCHANGED <<env, tables, used, ended>>

(* ... or with clearAuthCookies.                                           *)
Clear(q) ==
    /\ request[q].pc = "clear"
    /\ jar' = [jar EXCEPT ![request[q].from] = NoCookies]
    /\ ended' = IF request[q].op = "logout"
                  THEN ended \cup ({jar[request[q].from].refresh} \ {NoToken}) ELSE ended
    /\ Done(q)
    /\ UNCHANGED <<env, tables, used>>

LoseAnswer(q) ==
    /\ "lostAnswer" \in env /\ request[q].pc \in {"answer", "clear"}
    /\ Done(q)
    /\ UNCHANGED <<env, tables, used, jar, ended>>

Crash ==
    /\ "crash" \in env /\ ~AllIdle
    /\ request' = [q \in Request |-> Idle]
    /\ UNCHANGED <<env, tables, used, jar, ended>>

Next ==
    \/ \E q \in Request :
        \/ \E b \in Browser :
            Login(q, b) \/ Refresh(q, b) \/ Logout(q, b) \/ ChangePassword(q, b)
        \/ \E l \in Link : ResetPassword(q, l)
        \/ Find(q) \/ Delete(q) \/ Insert(q) \/ Revoke(q) \/ Match(q) \/ Update(q)
        \/ Unlink(q) \/ Purge(q) \/ Answer(q) \/ Clear(q) \/ LoseAnswer(q)
    \/ \E l \in Link : ForgotPassword(l)
    \/ \E b \in Browser : AccessExpires(b)
    \/ Crash

Spec == Init /\ [][Next]_vars

-----------------------------------------------------------------------------
(* Properties.                                                             *)

(* "Single-use compare-and-delete" (V1.md): unless it is sent twice at a   *)
(* time, a refresh token is exchanged once at most, and a reset link       *)
(* changes the password once at most, if the deletes go through.           *)
SingleUse ==
    env \cap {"twoTabs", "writeFails", "crash", "race"} = {} =>
        \A x \in Token \cup Link : used[x] <= 1

(* A browser is not logged out by chance: with one tab, and if nothing is  *)
(* lost or fails, the refresh token of a browser that waits for no answer  *)
(* is valid, as long as the password is the one it logged in with.         *)
StaysLoggedIn ==
    env = {} =>
        \A b \in Browser :
            LET t == jar[b].refresh IN
            t # NoToken /\ epochOf[t] = epoch
                /\ (\A q \in Request : request[q] # Idle /\ ~Changing(q)
                                            => request[q].from # b)
                => t \in rows

(* "Every session (including this one) must log in again" (password.ts):   *)
(* once a change or a reset of the password is through, no session of the  *)
(* password before it can be refreshed; if no request overlaps the change  *)
(* and its deletes are not cut short.                                      *)
ChangeEndsSessions ==
    env \cap {"race", "writeFails", "crash"} = {} =>
        \A t \in rows : epochOf[t] = epoch \/ \E q \in Request : Changing(q)

(* "Log out and revoke the current refresh token" (openapi.yaml).          *)
LogoutRevokes == ended \cap rows = {}

-----------------------------------------------------------------------------
(* Logins, of these handlers.                                              *)

(* What browser b can still renew: its cookie, if it is valid, and what a  *)
(* refresh in progress has found or is about to.                           *)
Renewing(q, b) ==
    /\ request[q].op = "refresh" /\ request[q].from = b
    /\ request[q].pc = "find" => request[q].old \in rows
    /\ request[q].pc \in {"find", "delete", "insert", "answer"}
SessionOf(b) ==
    {epochOf[t] : t \in {jar[b].refresh} \cap rows} \cup
    {IF request[q].pc = "find" THEN epochOf[request[q].old] ELSE request[q].epoch :
        q \in {r \in Request : Renewing(r, b)}}

Held == INSTANCE Logins
    WITH Change <- Request,
         password <- epoch,
         ending <- {q \in Request : request[q].pc \in {"unlink", "purge"}},
         session <- [b \in Browser |-> SessionOf(b)]

(* No request overlaps a change of the password, and its deletes are not   *)
(* cut short.                                                              *)
Undisturbed == env \cap {"race", "writeFails", "crash"} = {}

(* Undisturbed, the handlers keep what Logins promises: a rotation is no   *)
(* step of a session, also of two tabs at a time or with an answer lost.   *)
LoginsSpec ==
    /\ Undisturbed => Held!Init
    /\ [][Undisturbed => Held!Next]_(Held!vars)
=============================================================================

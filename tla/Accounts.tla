-------------------------------- MODULE Accounts --------------------------------
(***************************************************************************)
(* Accounts: registration, verification of the mailbox and sign-in with    *)
(* Google (server/routes/auth: password.ts, verification.ts, google.ts)    *)
(* over the tables profiles and email_verifications.  A handler awaits     *)
(* each of its calls; most of them look at no error of the database.  The  *)
(* sessions the handlers end in are those of Sessions.                     *)
(***************************************************************************)
EXTENDS Naturals

CONSTANTS
    Mailbox,
    GoogleUser,
    Request,
    MaxAccounts,  \* bound: accounts created
    MaxLinks,     \* bound: verification links issued
    MaxSignIns,   \* bound: sign-ins with Google begun
    Environments  \* the sets of circumstances to consider

(***************************************************************************)
(* overlap: a request begins while another is in progress;                 *)
(* typed: addresses come in capitals too;                                  *)
(* unverified: Google does not vouch for the address of a user;            *)
(* moves: a Google user takes another address, one no other has or had;    *)
(* reassigned: ... or one another had;  twoTabs: sign-ins in two tabs of   *)
(*   the browser;  expires: a link's 24 hours pass;  mailFails: a mail     *)
(*   does not arrive;  readFails, writeFails: a read or a write of the     *)
(*   database fails;  crash: the backend exits.                            *)
(***************************************************************************)
Circumstances ==
    {"overlap", "typed", "unverified", "moves", "reassigned", "twoTabs", "expires",
     "mailFails", "readFails", "writeFails", "crash"}

ASSUME BoundsAssumption == {MaxAccounts, MaxLinks, MaxSignIns} \subseteq Nat
ASSUME EnvironmentsAssumption == Environments \subseteq SUBSET Circumstances

VARIABLES
    env,      \* the circumstances of this behaviour
    profiles, \* profiles[a]: the row of account a
    links,    \* email_verifications, without the expired ones
    owner,    \* owner[l]: the account link l was issued for
    mail,     \* mail[a]: the links its user has received, and the last of them
    oauth,    \* oauth_state of the browser
    signIns,  \* sign-ins that are with Google
    begun,    \* ... and how many there have been
    address,  \* address[g]: the mailbox of a Google user
    request,  \* the requests in progress
    proofs,   \* accounts whose link was presented or that Google vouched for
    told,     \* accounts whose user was told "Email verified"
    home,     \* home[g]: the account g was last signed in to
    past      \* past[g]: the addresses g has had

vars == <<env, profiles, links, owner, mail, oauth, signIns, begun, address, request,
          proofs, told, home, past>>
ghosts == <<proofs, told, home, past>>
world == <<env, signIns, begun, address, past>>
tables == <<profiles, links, owner>>

None == "none"
ASSUME NoneAssumption == None \notin Mailbox \cup GoogleUser
Account == 1..MaxAccounts
Link == 1..MaxLinks
Nobody == 0

(* An address as typed; the handlers know lower case only.                 *)
Address == [box : Mailbox, capitals : BOOLEAN]
Lower(t) == [t EXCEPT !.capitals = FALSE]
Typed == {t \in Address : t.capitals => "typed" \in env}

NoEmail == [box |-> None, capitals |-> FALSE]
NoRow == [email |-> NoEmail, google |-> None, verified |-> FALSE]
Row == [email : Address, google : GoogleUser \cup {None}, verified : BOOLEAN]
Existing == {a \in Account : profiles[a] # NoRow}
OwnLinks(a) == {l \in Link : owner[l] = a}

Step == {"idle", "find", "insert", "status", "clear", "issue", "send", "match", "mark", "drop",
         "byGoogle", "byEmail", "link", "create", "session", "refused"}
Handling == [op : {None, "register", "resend", "verify", "google"}, pc : Step,
             account : Account \cup {Nobody}, email : Address \cup {NoEmail},
             google : GoogleUser \cup {None}, vouched : BOOLEAN, verified : BOOLEAN,
             link : Link \cup {0}]
Idle == [op |-> None, pc |-> "idle", account |-> Nobody, email |-> NoEmail, google |-> None,
         vouched |-> FALSE, verified |-> FALSE, link |-> 0]

(* Every variable has its type; links are issued one after the other.      *)
TypeOK ==
    /\ env \in Environments
    /\ profiles \in [Account -> Row \cup {NoRow}]
    /\ owner \in [Link -> Account \cup {Nobody}]
    /\ links \subseteq {l \in Link : owner[l] # Nobody}
    /\ mail \in [Account -> [all : SUBSET Link, last : Link \cup {0}]]
    /\ oauth \in 0..begun /\ begun \in 0..MaxSignIns
    /\ signIns \subseteq (1..begun) \X GoogleUser
    /\ address \in [GoogleUser -> Mailbox] /\ past \in [GoogleUser -> SUBSET Mailbox]
    /\ request \in [Request -> Handling]
    /\ proofs \subseteq Account /\ told \subseteq Account
    /\ home \in [GoogleUser -> Account \cup {Nobody}]

Init ==
    /\ env \in Environments
    /\ profiles = [a \in Account |-> NoRow] /\ links = {} /\ owner = [l \in Link |-> Nobody]
    /\ mail = [a \in Account |-> [all |-> {}, last |-> 0]]
    /\ oauth = 0 /\ signIns = {} /\ begun = 0
    /\ address \in [GoogleUser -> Mailbox]
    /\ \A g, h \in GoogleUser : g # h => address[g] # address[h]
    /\ past = [g \in GoogleUser |-> {address[g]}]
    /\ request = [q \in Request |-> Idle]
    /\ proofs = {} /\ told = {} /\ home = [g \in GoogleUser |-> Nobody]

MayBegin(q) == request[q] = Idle /\ ("overlap" \in env \/ \A p \in Request : request[p] = Idle)
Begin(q, r) == request' = [request EXCEPT ![q] = r]
Goto(q, pc) == request' = [request EXCEPT ![q].pc = pc]
Done(q) == request' = [request EXCEPT ![q] = Idle]

(* unique (email), unique (google_id).                                     *)
Unique(a, row) ==
    \A b \in Existing \ {a} :
        /\ profiles[b].email # row.email
        /\ row.google = None \/ profiles[b].google # row.google

(* Slip: the lookup before the insert is thought to be enough.             *)
InsertRowUnchecked(q, row, next) ==
    \E a \in Account \ Existing :
        /\ \A b \in Account \ Existing : a <= b
        /\ profiles' = [profiles EXCEPT ![a] = row]
        /\ request' = [request EXCEPT ![q].pc = next, ![q].account = a]

(* An insert that the table refuses leaves it as it was.                   *)
InsertRow(q, row, next) ==
    \/ \E a \in Account \ Existing :
        /\ \A b \in Account \ Existing : a <= b
        /\ Unique(a, row)
        /\ profiles' = [profiles EXCEPT ![a] = row]
        /\ request' = [request EXCEPT ![q].pc = next, ![q].account = a]
    \/ /\ ~Unique(Nobody, row) \/ "writeFails" \in env
       /\ Goto(q, "refused") /\ UNCHANGED profiles

(* What a read returns: nothing if it fails.                               *)
Found(rows) == {rows} \cup (IF "readFails" \in env THEN {{}} ELSE {})

-----------------------------------------------------------------------------
(* Registration and verification.                                          *)

Register(q, t) ==
    /\ MayBegin(q) /\ Begin(q, [Idle EXCEPT !.op = "register", !.pc = "find", !.email = Lower(t)])
    /\ UNCHANGED <<world, tables, mail, oauth, proofs, told, home>>

(* findIdByEmail: "Email already registered".                              *)
FindEmail(q) ==
    /\ request[q].pc = "find"
    /\ \E found \in Found({a \in Existing : profiles[a].email = request[q].email}) :
          IF found = {} THEN Goto(q, "insert") ELSE Goto(q, "refused")
    /\ UNCHANGED <<world, tables, mail, oauth, proofs, told, home>>

(* insertProfile; the mail is sent after the answer.                       *)
InsertProfile(q) ==
    /\ request[q].pc = "insert"
    /\ InsertRow(q, [NoRow EXCEPT !.email = request[q].email], "issue")
    /\ UNCHANGED <<world, links, owner, mail, oauth, proofs, told, home>>

(* resend-verification, by a user who is logged in.                        *)
Resend(q, a) ==
    /\ MayBegin(q) /\ a \in Existing
    /\ Begin(q, [Idle EXCEPT !.op = "resend", !.pc = "status", !.account = a])
    /\ UNCHANGED <<world, tables, mail, oauth, proofs, told, home>>

(* findVerificationStatus.                                                 *)
ReadStatus(q) ==
    /\ request[q].pc = "status"
    /\ \E found \in Found({request[q].account}) :
          IF found = {} \/ profiles[request[q].account].verified
            THEN Done(q) ELSE Goto(q, "clear")
    /\ UNCHANGED <<world, tables, mail, oauth, proofs, told, home>>

Deleted(a) == {links \ OwnLinks(a)} \cup (IF "writeFails" \in env THEN {links} ELSE {})

(* deleteEmailVerificationsForUser, before the new link is issued.         *)
ClearLinks(q) ==
    /\ request[q].pc = "clear" /\ Goto(q, "issue")
    /\ links' \in Deleted(request[q].account)
    /\ UNCHANGED <<world, profiles, owner, mail, oauth, proofs, told, home>>

(* sendVerificationEmail: hashToken, insertEmailVerification ...           *)
IssueLink(q) ==
    /\ request[q].pc = "issue"
    /\ \E l \in Link :
          /\ owner[l] = Nobody /\ \A k \in Link : owner[k] = Nobody => l <= k
          /\ owner' = [owner EXCEPT ![l] = request[q].account]
          /\ \/ links' = links \cup {l}
             \/ "writeFails" \in env /\ UNCHANGED links
          /\ request' = [request EXCEPT ![q].pc = "send", ![q].link = l]
    /\ UNCHANGED <<world, profiles, mail, oauth, proofs, told, home>>

(* Slip: the links that are out are dropped after the new one is sent.     *)
SendMailThenClear(q) ==
    /\ request[q].pc = "send" /\ Done(q)
    /\ mail' = [mail EXCEPT ![request[q].account] =
                  [all |-> @.all \cup {request[q].link}, last |-> request[q].link]]
    /\ links' \in Deleted(request[q].account)
    /\ UNCHANGED <<world, profiles, owner, oauth, proofs, told, home>>

(* ... and sendMail, which reports no failure.                             *)
SendMail(q) ==
    /\ request[q].pc = "send" /\ Done(q)
    /\ \/ mail' = [mail EXCEPT ![request[q].account] =
                     [all |-> @.all \cup {request[q].link}, last |-> request[q].link]]
       \/ "mailFails" \in env /\ UNCHANGED mail
    /\ UNCHANGED <<world, tables, oauth, proofs, told, home>>

VerifyEmail(q, a, l) ==
    /\ MayBegin(q) /\ l \in mail[a].all
    /\ Begin(q, [Idle EXCEPT !.op = "verify", !.pc = "match", !.account = a, !.link = l])
    /\ UNCHANGED <<world, tables, mail, oauth, proofs, told, home>>

(* listActiveEmailVerifications and compareToken.                          *)
MatchLink(q) ==
    /\ request[q].pc = "match"
    /\ \E found \in Found(links) :
          IF request[q].link \in found
            THEN Goto(q, "mark") /\ proofs' = proofs \cup {request[q].account}
            ELSE Goto(q, "refused") /\ UNCHANGED proofs
    /\ UNCHANGED <<world, tables, mail, oauth, told, home>>

(* markEmailVerified, whose error nobody sees.                             *)
MarkVerified(q) ==
    /\ request[q].pc = "mark" /\ Goto(q, "drop")
    /\ \/ profiles' = [profiles EXCEPT ![request[q].account].verified = TRUE]
       \/ "writeFails" \in env /\ UNCHANGED profiles
    /\ UNCHANGED <<world, links, owner, mail, oauth, proofs, told, home>>

(* deleteEmailVerificationsForUser, and "Email verified".                  *)
DropLinks(q) ==
    /\ request[q].pc = "drop" /\ Done(q)
    /\ links' \in Deleted(request[q].account)
    /\ told' = told \cup {request[q].account}
    /\ UNCHANGED <<world, profiles, owner, mail, oauth, proofs, home>>

LinkExpires(l) ==
    /\ "expires" \in env /\ links' = links \ {l}
    /\ UNCHANGED <<world, profiles, owner, mail, oauth, request, proofs, told, home>>

-----------------------------------------------------------------------------
(* Sign-in with Google.                                                    *)

(* GET /google: the cookie replaces the one of another tab.                *)
StartGoogle(g) ==
    /\ begun < MaxSignIns
    /\ "twoTabs" \in env \/ \A q \in Request : request[q].op # "google"
    /\ begun' = begun + 1 /\ oauth' = begun + 1
    /\ signIns' = (IF "twoTabs" \in env THEN signIns ELSE {}) \cup {<<begun + 1, g>>}
    /\ UNCHANGED <<env, tables, mail, address, request, ghosts>>

(* The callback takes the cookie away, whether or not it is the one of     *)
(* this sign-in; the user cancelled, or the exchange of the code fails.    *)
Callback(q, s, g) ==
    /\ MayBegin(q) /\ <<s, g>> \in signIns
    /\ signIns' = signIns \ {<<s, g>>} /\ oauth' = 0
    /\ \E vouched \in IF "unverified" \in env THEN BOOLEAN ELSE {TRUE}, t \in Typed :
          /\ t.box = address[g]
          /\ Begin(q, [Idle EXCEPT !.op = "google", !.google = g, !.email = Lower(t),
                                   !.vouched = vouched,
                                   !.pc = IF s = oauth THEN "byGoogle" ELSE "refused"])
    /\ UNCHANGED <<env, tables, mail, begun, address, ghosts>>

Cancel(s, g) ==
    /\ <<s, g>> \in signIns /\ signIns' = signIns \ {<<s, g>>} /\ oauth' = 0
    /\ UNCHANGED <<env, tables, mail, begun, address, request, ghosts>>

(* Slip: the mailbox alone tells the account.                              *)
FindByEmailOnly(q) ==
    /\ request[q].pc = "byGoogle" /\ Goto(q, "byEmail")
    /\ UNCHANGED <<world, tables, mail, oauth, proofs, told, home>>

(* findByGoogleId.                                                         *)
FindByGoogleId(q) ==
    /\ request[q].pc = "byGoogle"
    /\ \E found \in Found({a \in Existing : profiles[a].google = request[q].google}) :
          IF found = {} THEN Goto(q, "byEmail")
          ELSE \E a \in found :
                 request' = [request EXCEPT ![q].pc = "session", ![q].account = a]
    /\ UNCHANGED <<world, tables, mail, oauth, proofs, told, home>>

(* findByEmailForGoogleLink: reads email_verified for the update.          *)
FindByEmail(q) ==
    /\ request[q].pc = "byEmail"
    /\ \E found \in Found({a \in Existing : profiles[a].email = request[q].email}) :
          IF found = {} THEN Goto(q, "create")
          ELSE \E a \in found :
                 request' = [request EXCEPT ![q].pc = "link", ![q].account = a,
                                            ![q].verified = profiles[a].verified]
    /\ UNCHANGED <<world, tables, mail, oauth, proofs, told, home>>

Vouch(q, a) ==
    proofs' = IF request[q].vouched THEN proofs \cup {a} ELSE proofs

(* Slip: Google's word replaces what was known.                            *)
LinkForgets(q) ==
    /\ request[q].pc = "link"
    /\ LET a == request[q].account
           row == [profiles[a] EXCEPT !.google = request[q].google,
                                      !.verified = request[q].vouched]
       IN  /\ Unique(a, row) /\ profiles' = [profiles EXCEPT ![a] = row]
           /\ Vouch(q, a) /\ Goto(q, "session")
    /\ UNCHANGED <<world, links, owner, mail, oauth, told, home>>

(* linkGoogleAccount, also over another user's google_id.                  *)
LinkGoogle(q) ==
    /\ request[q].pc = "link"
    /\ LET a == request[q].account
           row == [profiles[a] EXCEPT
                     !.google = request[q].google,
                     !.verified = request[q].vouched \/ request[q].verified]
       IN  \/ /\ Unique(a, row) /\ profiles' = [profiles EXCEPT ![a] = row]
              /\ Vouch(q, a) /\ Goto(q, "session")
           \/ /\ ~Unique(a, row) \/ "writeFails" \in env
              /\ Goto(q, "refused") /\ UNCHANGED <<profiles, proofs>>
    /\ UNCHANGED <<world, links, owner, mail, oauth, told, home>>

(* createGoogleAccount.                                                    *)
CreateGoogle(q) ==
    /\ request[q].pc = "create"
    /\ InsertRow(q, [email |-> request[q].email, google |-> request[q].google,
                     verified |-> request[q].vouched], "session")
    /\ proofs' = IF request[q].vouched THEN proofs \cup ({request'[q].account} \ {Nobody})
                 ELSE proofs
    /\ UNCHANGED <<world, links, owner, mail, oauth, told, home>>

(* issueSession.                                                           *)
SignedIn(q) ==
    /\ request[q].pc = "session" /\ Done(q)
    /\ home' = [home EXCEPT ![request[q].google] = request[q].account]
    /\ UNCHANGED <<world, tables, mail, oauth, proofs, told>>

(* An error, or /login?error=google_auth_failed.                           *)
Refused(q) ==
    /\ request[q].pc = "refused" /\ Done(q)
    /\ UNCHANGED <<world, tables, mail, oauth, proofs, told, home>>

(* A Google user's mailbox changes.                                        *)
Moves(g, m) ==
    /\ env \cap {"moves", "reassigned"} # {}
    /\ \A h \in GoogleUser \ {g} : address[h] # m
    /\ "reassigned" \in env \/ \A h \in GoogleUser \ {g} : m \notin past[h]
    /\ \A q \in Request : request[q].op # "google"
    /\ address' = [address EXCEPT ![g] = m] /\ past' = [past EXCEPT ![g] = @ \cup {m}]
    /\ UNCHANGED <<env, tables, mail, oauth, signIns, begun, request, proofs, told, home>>

Crash ==
    /\ "crash" \in env /\ request' = [q \in Request |-> Idle]
    /\ UNCHANGED <<world, tables, mail, oauth, proofs, told, home>>

Next ==
    \/ \E q \in Request :
        \/ \E t \in Typed : Register(q, t)
        \/ \E a \in Account : Resend(q, a) \/ \E l \in Link : VerifyEmail(q, a, l)
        \/ \E s \in 1..MaxSignIns, g \in GoogleUser : Callback(q, s, g)
        \/ FindEmail(q) \/ InsertProfile(q) \/ ReadStatus(q) \/ ClearLinks(q)
        \/ IssueLink(q) \/ SendMail(q) \/ MatchLink(q) \/ MarkVerified(q) \/ DropLinks(q)
        \/ FindByGoogleId(q) \/ FindByEmail(q) \/ LinkGoogle(q) \/ CreateGoogle(q)
        \/ SignedIn(q) \/ Refused(q)
    \/ \E l \in links : LinkExpires(l)
    \/ \E g \in GoogleUser : \/ StartGoogle(g)
                             \/ \E s \in 1..MaxSignIns : Cancel(s, g)
                             \/ \E m \in Mailbox : Moves(g, m)
    \/ Crash

Spec == Init /\ [][Next]_vars

-----------------------------------------------------------------------------
(* Properties.                                                             *)

(* One account per mailbox, whatever it was typed like, and per Google     *)
(* user: two registrations, two callbacks or one of each may all find that *)
(* there is none before the first of them creates it.                      *)
OneAccount ==
    \A a, b \in Existing :
        a # b => /\ profiles[a].email.box # profiles[b].email.box
                 /\ profiles[a].google = None \/ profiles[a].google # profiles[b].google

(* email_verified is true only after a link mailed to the account was      *)
(* presented or Google vouched for its address, and is true once the user  *)
(* was told so and from then on; unless the write failed, or a sign-in     *)
(* Google does not vouch for had read it before and then wrote it back.    *)
VerifiedTrue ==
    /\ \A a \in Existing : profiles[a].verified => a \in proofs
    /\ "writeFails" \notin env /\ ~{"unverified", "overlap"} \subseteq env =>
           \A a \in told : profiles[a].verified

(* An account that is not verified can be: the link its user received last *)
(* is valid, if requests do not overlap (two that mail links at a time can *)
(* leave the user with the one that was deleted), nothing failed or broke  *)
(* off and the link has not expired.                                       *)
LastLinkWorks ==
    env \cap {"overlap", "writeFails", "crash", "mailFails", "expires"} = {} =>
        \A a \in Existing :
            mail[a].last # 0 /\ ~profiles[a].verified
                /\ (\A q \in Request : request[q].account # a) => mail[a].last \in links

(* A Google user who was signed in once is signed in to the same account   *)
(* again, and not refused: also with a new address, even that of another   *)
(* account; unless an earlier address went to another Google user, the     *)
(* sign-in began in two tabs, requests overlap or the database fails.      *)
GoogleReturns ==
    env \cap {"overlap", "twoTabs", "reassigned", "readFails", "writeFails"} = {} =>
        \A q \in Request :
            LET g == request[q].google
            IN  g # None /\ home[g] # Nobody =>
                    /\ request[q].pc # "refused"
                    /\ request[q].pc = "session" => request[q].account = home[g]
=============================================================================

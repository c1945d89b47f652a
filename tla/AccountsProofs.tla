---------------------------- MODULE AccountsProofs ----------------------------
(***************************************************************************)
(* Theorems of Accounts, for any mailboxes, Google users and requests, all *)
(* bounds, and any set of environments.                                    *)
(***************************************************************************)
EXTENDS Accounts, TLAPS

(* What a handler knows: the account it was given or has found is there,   *)
(* and the address it was given is one in lower case.                      *)
OfAccount == {"status", "clear", "issue", "send", "match", "mark", "drop", "link", "session"}
OfAddress == {"find", "insert", "byGoogle", "byEmail", "create"}
Fit(r) ==
    /\ r.pc \in OfAccount => r.account \in Existing
    /\ r.pc \in OfAddress => r.email \in Address /\ ~r.email.capitals
    /\ r.pc = "send" => r.link \in Link

Known ==
    /\ \A q \in Request : Fit(request[q])
    /\ \A a \in Account : mail[a].all # {} => a \in Existing
    /\ \A a \in Existing : ~profiles[a].email.capitals

AccountsInv == TypeOK /\ Known /\ OneAccount

-----------------------------------------------------------------------------
(* Steps of one handler.                                                   *)

LEMMA StepsAndPlaces ==
    /\ OfAccount \subseteq Step /\ OfAddress \subseteq Step
    /\ {"idle", "refused"} \subseteq Step \ (OfAccount \cup OfAddress)
    /\ Nobody \notin Account /\ MaxSignIns \in Nat
BY BoundsAssumption DEF Step, OfAccount, OfAddress, Nobody, Account

LEMMA IdleType == Idle \in Handling /\ Fit(Idle)
BY DEF Idle, Handling, Step, Fit, OfAccount, OfAddress

(* What exists has a whole row.                                            *)
LEMMA RowsOfExisting ==
    ASSUME TypeOK
    PROVE  /\ \A a \in Account : a \in Existing <=> profiles[a] \in Row
           /\ NoRow \notin Row
<1>1. NoRow \notin Row
  BY NoneAssumption DEF NoRow, Row, NoEmail, Address
<1>2. QED
  BY <1>1 DEF TypeOK, Existing

(* A request at its next step, with an account, a link or what it has read.*)
LEMMA UpdatedType ==
    ASSUME NEW r \in Handling, NEW pc \in Step
    PROVE  /\ [r EXCEPT !.pc = pc] \in Handling
           /\ \A a \in Account : [r EXCEPT !.pc = pc, !.account = a] \in Handling
           /\ \A a \in Account, v \in BOOLEAN :
                 [r EXCEPT !.pc = pc, !.account = a, !.verified = v] \in Handling
           /\ \A l \in Link : [r EXCEPT !.pc = pc, !.link = l] \in Handling
<1>1. [r EXCEPT !.pc = pc] \in Handling
  BY DEF Handling
<1>2. ASSUME NEW a \in Account PROVE [r EXCEPT !.pc = pc, !.account = a] \in Handling
  BY DEF Handling
<1>3. ASSUME NEW a \in Account, NEW v \in BOOLEAN
      PROVE  [r EXCEPT !.pc = pc, !.account = a, !.verified = v] \in Handling
  BY DEF Handling
<1>4. ASSUME NEW l \in Link PROVE [r EXCEPT !.pc = pc, !.link = l] \in Handling
  BY DEF Handling
<1>5. QED
  BY <1>1, <1>2, <1>3, <1>4

(* A step of one request that leaves the tables and the mailboxes alone.   *)
LEMMA QuietStep ==
    ASSUME AccountsInv, NEW q \in Request, NEW r \in Handling, Fit(r),
           request' = [request EXCEPT ![q] = r],
           UNCHANGED <<env, begun, address, past, profiles, links, owner, mail>>,
           oauth' \in 0..begun, signIns' \subseteq signIns,
           proofs' \subseteq Account, told' \subseteq Account,
           home' \in [GoogleUser -> Account \cup {Nobody}]
    PROVE  AccountsInv'
<1>1. TypeOK'
  BY DEF AccountsInv, TypeOK
<1>2. Existing' = Existing
  BY DEF Existing
<1>3. \A p \in Request : Fit(request[p])'
  <2> SUFFICES ASSUME NEW p \in Request PROVE Fit(request[p])'
    OBVIOUS
  <2>1. request'[p] = r \/ request'[p] = request[p]
    BY DEF AccountsInv, TypeOK
  <2>2. Fit(request[p])
    BY DEF AccountsInv, Known
  <2>3. QED
    BY <1>2, <2>1, <2>2 DEF Fit
<1>4. QED
  BY <1>1, <1>2, <1>3 DEF AccountsInv, Known, OneAccount

(* ... that gives it another step and nothing else.                        *)
LEMMA GotoStep ==
    ASSUME AccountsInv, NEW q \in Request, NEW pc \in Step, Goto(q, pc),
           pc \in OfAccount => request[q].account \in Existing,
           pc \in OfAddress => request[q].pc \in OfAddress, pc # "send"
    PROVE  LET r == [request[q] EXCEPT !.pc = pc]
           IN  r \in Handling /\ Fit(r) /\ request' = [request EXCEPT ![q] = r]
<1> DEFINE r == [request[q] EXCEPT !.pc = pc]
<1>1. request[q] \in Handling /\ Fit(request[q])
  BY DEF AccountsInv, TypeOK, Known
<1>2. r \in Handling /\ request' = [request EXCEPT ![q] = r]
  BY <1>1, UpdatedType DEF Goto
<1>3. r.pc = pc /\ r.account = request[q].account /\ r.email = request[q].email /\ pc # "send"
  BY <1>1 DEF Handling
<1>4. Fit(r)
  BY <1>1, <1>3 DEF Fit
<1>5. QED
  BY <1>2, <1>4

(* A request that begins.                                                  *)
LEMMA BeginSteps ==
    ASSUME AccountsInv, NEW q \in Request
    PROVE  /\ \A t \in Typed : Register(q, t) => AccountsInv'
           /\ \A a \in Account : Resend(q, a) => AccountsInv'
           /\ \A a \in Account, l \in Link : VerifyEmail(q, a, l) => AccountsInv'
           /\ \A s \in 1..MaxSignIns, g \in GoogleUser : Callback(q, s, g) => AccountsInv'
<1> USE DEF world, tables, ghosts
<1>0. \A t \in Typed : Lower(t) \in Address /\ ~Lower(t).capitals
  BY DEF Typed, Lower, Address
<1>t. TypeOK
  BY DEF AccountsInv
<1>1. ASSUME NEW t \in Typed, Register(q, t) PROVE AccountsInv'
  <2> DEFINE r == [Idle EXCEPT !.op = "register", !.pc = "find", !.email = Lower(t)]
  <2>1. r \in Handling
    BY <1>0, IdleType, StepsAndPlaces DEF Handling, OfAddress
  <2>2. Fit(r)
    BY <1>0 DEF Idle, Fit, OfAddress, OfAccount
  <2>3. QED
    BY <1>1, <1>t, <2>1, <2>2, QuietStep DEF Register, Begin, TypeOK
<1>2. ASSUME NEW a \in Account, Resend(q, a) PROVE AccountsInv'
  <2> DEFINE r == [Idle EXCEPT !.op = "resend", !.pc = "status", !.account = a]
  <2>1. r \in Handling
    BY IdleType, StepsAndPlaces DEF Handling, OfAccount
  <2>2. Fit(r)
    BY <1>2 DEF Idle, Fit, OfAddress, OfAccount, Resend
  <2>3. QED
    BY <1>2, <1>t, <2>1, <2>2, QuietStep DEF Resend, Begin, TypeOK
<1>3. ASSUME NEW a \in Account, NEW l \in Link, VerifyEmail(q, a, l) PROVE AccountsInv'
  <2> DEFINE r == [Idle EXCEPT !.op = "verify", !.pc = "match", !.account = a, !.link = l]
  <2>1. r \in Handling
    BY IdleType, StepsAndPlaces DEF Handling, OfAccount
  <2>2. a \in Existing
    BY <1>3 DEF VerifyEmail, AccountsInv, Known
  <2>3. Fit(r)
    BY <2>2 DEF Idle, Fit, OfAddress, OfAccount
  <2>4. QED
    BY <1>3, <1>t, <2>1, <2>3, QuietStep DEF VerifyEmail, Begin, TypeOK
<1>4. ASSUME NEW s \in 1..MaxSignIns, NEW g \in GoogleUser, Callback(q, s, g) PROVE AccountsInv'
  <2>1. PICK v \in BOOLEAN, t \in Typed :
           Begin(q, [Idle EXCEPT !.op = "google", !.google = g, !.email = Lower(t), !.vouched = v,
                                 !.pc = IF s = oauth THEN "byGoogle" ELSE "refused"])
    BY <1>4 DEF Callback
  <2> DEFINE pc == IF s = oauth THEN "byGoogle" ELSE "refused"
             r == [Idle EXCEPT !.op = "google", !.google = g, !.email = Lower(t), !.vouched = v,
                               !.pc = pc]
  <2>2. pc \in Step
    BY StepsAndPlaces DEF OfAddress
  <2>3. r \in Handling
    BY <1>0, <2>2, IdleType DEF Handling
  <2>4. r.pc = pc /\ r.email = Lower(t)
    BY DEF Idle
  <2>5. Fit(r)
    BY <1>0, <2>4 DEF Fit, OfAddress, OfAccount
  <2>6. 0 \in 0..begun
    BY <1>t DEF TypeOK
  <2>7. QED
    BY <1>4, <1>t, <2>1, <2>3, <2>5, <2>6, QuietStep DEF Callback, Begin, TypeOK
<1>5. QED
  BY <1>1, <1>2, <1>3, <1>4

(* A request that reads, answers or is refused.                            *)
LEMMA ReadSteps ==
    ASSUME AccountsInv, NEW q \in Request,
           FindEmail(q) \/ ReadStatus(q) \/ FindByGoogleId(q) \/ FindByEmail(q) \/ MatchLink(q)
             \/ SignedIn(q) \/ Refused(q)
    PROVE  AccountsInv'
<1> USE DEF world, tables
<1>t. TypeOK /\ request[q] \in Handling /\ Fit(request[q])
  BY DEF AccountsInv, Known, TypeOK
<1>g. ASSUME NEW pc \in Step, Goto(q, pc),
             pc \in OfAccount => request[q].account \in Existing,
             pc \in OfAddress => request[q].pc \in OfAddress, pc # "send",
             UNCHANGED <<world, tables, mail, oauth, told, home>>, proofs' \subseteq Account
      PROVE  AccountsInv'
  BY <1>t, <1>g, GotoStep, QuietStep DEF TypeOK
<1>d. ASSUME Done(q), UNCHANGED <<world, tables, mail, oauth, proofs, told>>,
             home' \in [GoogleUser -> Account \cup {Nobody}]
      PROVE  AccountsInv'
  BY <1>t, <1>d, IdleType, QuietStep DEF TypeOK, Done
<1>1. CASE FindEmail(q)
  <2>1. Goto(q, "insert") \/ Goto(q, "refused")
    BY <1>1 DEF FindEmail
  <2>2. QED
    BY <1>1, <1>t, <1>g, <2>1, StepsAndPlaces DEF FindEmail, OfAddress, OfAccount, TypeOK
<1>2. CASE ReadStatus(q)
  <2>1. Done(q) \/ Goto(q, "clear")
    BY <1>2 DEF ReadStatus
  <2>2. request[q].account \in Existing
    BY <1>2, <1>t DEF ReadStatus, Fit, OfAccount
  <2>3. QED
    BY <1>2, <1>t, <1>g, <1>d, <2>1, <2>2, StepsAndPlaces
    DEF ReadStatus, OfAddress, OfAccount, TypeOK
<1>3. CASE FindByGoogleId(q)
  <2>1. \/ Goto(q, "byEmail")
        \/ \E a \in Existing : request' = [request EXCEPT ![q].pc = "session", ![q].account = a]
    BY <1>3 DEF FindByGoogleId, Found
  <2>2. CASE Goto(q, "byEmail")
    BY <1>3, <1>t, <1>g, <2>2, StepsAndPlaces DEF FindByGoogleId, OfAddress, OfAccount, TypeOK
  <2>3. ASSUME NEW a \in Existing,
               request' = [request EXCEPT ![q].pc = "session", ![q].account = a]
        PROVE  AccountsInv'
    <3> DEFINE r == [request[q] EXCEPT !.pc = "session", !.account = a]
    <3>1. r \in Handling
      BY <1>t, UpdatedType, StepsAndPlaces DEF Existing, OfAccount
    <3>2. r.pc = "session" /\ r.account = a
      BY <1>t DEF Handling
    <3>3. Fit(r)
      BY <3>2 DEF Fit, OfAddress
    <3>4. request' = [request EXCEPT ![q] = r]
      BY <2>3
    <3>5. QED
      BY <1>3, <1>t, <3>1, <3>3, <3>4, QuietStep DEF FindByGoogleId, TypeOK
  <2>4. QED
    BY <2>1, <2>2, <2>3
<1>4. CASE FindByEmail(q)
  <2>1. \/ Goto(q, "create")
        \/ \E a \in Existing :
              request' = [request EXCEPT ![q].pc = "link", ![q].account = a,
                                         ![q].verified = profiles[a].verified]
    BY <1>4 DEF FindByEmail, Found
  <2>2. CASE Goto(q, "create")
    BY <1>4, <1>t, <1>g, <2>2, StepsAndPlaces DEF FindByEmail, OfAddress, OfAccount, TypeOK
  <2>3. ASSUME NEW a \in Existing,
               request' = [request EXCEPT ![q].pc = "link", ![q].account = a,
                                          ![q].verified = profiles[a].verified]
        PROVE  AccountsInv'
    <3> DEFINE v == profiles[a].verified
               r == [request[q] EXCEPT !.pc = "link", !.account = a, !.verified = v]
    <3>0. a \in Account /\ v \in BOOLEAN
      BY <1>t, RowsOfExisting DEF Existing, Row
    <3>1. r \in Handling
      BY <1>t, <3>0, UpdatedType, StepsAndPlaces DEF OfAccount
    <3>2. r.pc = "link" /\ r.account = a
      BY <1>t DEF Handling
    <3>3. Fit(r)
      BY <3>2 DEF Fit, OfAddress
    <3>4. request' = [request EXCEPT ![q] = r]
      BY <2>3
    <3>5. QED
      BY <1>4, <1>t, <3>1, <3>3, <3>4, QuietStep DEF FindByEmail, TypeOK
  <2>4. QED
    BY <2>1, <2>2, <2>3
<1>5. CASE MatchLink(q)
  <2>1. request[q].account \in Existing
    BY <1>5, <1>t DEF MatchLink, Fit, OfAccount
  <2>2. /\ Goto(q, "mark") \/ Goto(q, "refused")
        /\ proofs' = proofs \/ proofs' = proofs \cup {request[q].account}
    BY <1>5 DEF MatchLink
  <2>3. proofs' \subseteq Account
    BY <1>t, <2>1, <2>2 DEF TypeOK, Existing
  <2>4. QED
    BY <1>5, <1>g, <2>1, <2>2, <2>3, StepsAndPlaces DEF MatchLink, OfAddress, OfAccount
<1>6. CASE SignedIn(q)
  <2>1. home' \in [GoogleUser -> Account \cup {Nobody}]
    BY <1>6, <1>t DEF SignedIn, TypeOK, Handling
  <2>2. QED
    BY <1>6, <1>d, <2>1 DEF SignedIn
<1>7. CASE Refused(q)
  BY <1>7, <1>t, <1>d DEF Refused, TypeOK
<1>8. QED
  BY <1>1, <1>2, <1>3, <1>4, <1>5, <1>6, <1>7

(* A step of one request that changes links, mailboxes and what was proved.*)
LEMMA LinkStep ==
    ASSUME AccountsInv, NEW q \in Request, NEW r \in Handling, Fit(r),
           request' = [request EXCEPT ![q] = r],
           UNCHANGED <<world, profiles, oauth, proofs, home>>,
           owner' \in [Link -> Account \cup {Nobody}],
           links' \subseteq {l \in Link : owner'[l] # Nobody},
           mail' \in [Account -> [all : SUBSET Link, last : Link \cup {0}]],
           \A a \in Account : mail'[a].all # {} => a \in Existing,
           told' \subseteq Account
    PROVE  AccountsInv'
<1>1. TypeOK'
  BY DEF AccountsInv, TypeOK, world
<1>2. Existing' = Existing
  BY DEF Existing
<1>3. \A p \in Request : Fit(request[p])'
  <2> SUFFICES ASSUME NEW p \in Request PROVE Fit(request[p])'
    OBVIOUS
  <2>1. request'[p] = r \/ request'[p] = request[p]
    BY DEF AccountsInv, TypeOK
  <2>2. Fit(request[p])
    BY DEF AccountsInv, Known
  <2>3. QED
    BY <1>2, <2>1, <2>2 DEF Fit
<1>4. QED
  BY <1>1, <1>2, <1>3 DEF AccountsInv, Known, OneAccount

LEMMA LinkSteps ==
    ASSUME AccountsInv, NEW q \in Request,
           ClearLinks(q) \/ IssueLink(q) \/ SendMail(q) \/ DropLinks(q)
    PROVE  AccountsInv'
<1> USE DEF world, tables
<1>t. TypeOK /\ Known /\ request[q] \in Handling /\ Fit(request[q])
  BY DEF AccountsInv, Known, TypeOK
<1>a. /\ request[q].account \in Existing /\ request[q].account \in Account
      /\ \A a \in Account : mail[a].all # {} => a \in Existing
  BY <1>t DEF ClearLinks, IssueLink, SendMail, DropLinks, Fit, OfAccount, Existing, Known
<1>1. CASE ClearLinks(q)
  <2>1. links' \subseteq links
    BY <1>1 DEF ClearLinks, Deleted
  <2>2. "issue" \in Step /\ "issue" \in OfAccount /\ "issue" \notin OfAddress
    BY DEF Step, OfAccount, OfAddress
  <2>3. Goto(q, "issue")
    BY <1>1 DEF ClearLinks
  <2>4. QED
    BY <1>1, <1>t, <1>a, <2>1, <2>2, <2>3, GotoStep, LinkStep DEF ClearLinks, TypeOK
<1>2. CASE IssueLink(q)
  <2>1. PICK l \in Link :
          /\ owner[l] = Nobody
          /\ owner' = [owner EXCEPT ![l] = request[q].account]
          /\ links' = links \cup {l} \/ links' = links
          /\ request' = [request EXCEPT ![q].pc = "send", ![q].link = l]
    BY <1>2 DEF IssueLink
  <2> DEFINE r == [request[q] EXCEPT !.pc = "send", !.link = l]
  <2>2. r \in Handling
    BY <1>t, UpdatedType, StepsAndPlaces DEF OfAccount
  <2>3. r.pc = "send" /\ r.account = request[q].account /\ r.link = l
    BY <1>t DEF Handling
  <2>4. Fit(r)
    BY <1>a, <2>3 DEF Fit, OfAddress
  <2>5. request' = [request EXCEPT ![q] = r]
    BY <2>1
  <2>6. owner' \in [Link -> Account \cup {Nobody}]
    BY <1>t, <1>a, <2>1 DEF TypeOK
  <2>7. links' \subseteq {k \in Link : owner'[k] # Nobody}
    BY <1>t, <1>a, <2>1, StepsAndPlaces DEF TypeOK
  <2>8. QED
    BY <1>2, <1>t, <1>a, <2>2, <2>4, <2>5, <2>6, <2>7, LinkStep DEF IssueLink, TypeOK
<1>3. CASE SendMail(q)
  <2> DEFINE a == request[q].account
             l == request[q].link
  <2>1. /\ mail' = mail \/ mail' = [mail EXCEPT ![a] = [all |-> mail[a].all \cup {l}, last |-> l]]
        /\ Done(q) /\ request[q].pc = "send"
    BY <1>3 DEF SendMail
  <2>2. l \in Link \cup {0}
    BY <1>t DEF Handling
  <2>3. CASE l \in Link
    <3>1. [all |-> mail[a].all \cup {l}, last |-> l] \in [all : SUBSET Link, last : Link \cup {0}]
      BY <1>t, <1>a, <2>3 DEF TypeOK
    <3>2. mail' \in [Account -> [all : SUBSET Link, last : Link \cup {0}]]
      BY <1>t, <1>a, <2>1, <3>1 DEF TypeOK
    <3>3. \A b \in Account : mail'[b].all # {} => b \in Existing
      BY <1>t, <1>a, <2>1 DEF TypeOK
    <3>4. QED
      BY <1>3, <1>t, <2>1, <3>2, <3>3, IdleType, LinkStep DEF SendMail, TypeOK, Done
  <2>4. QED
    BY <1>t, <2>1, <2>2, <2>3 DEF Fit
<1>4. CASE DropLinks(q)
  <2>1. links' \subseteq links
    BY <1>4 DEF DropLinks, Deleted
  <2>2. told' \subseteq Account
    BY <1>4, <1>t, <1>a DEF DropLinks, TypeOK
  <2>3. QED
    BY <1>4, <1>t, <1>a, <2>1, <2>2, IdleType, LinkStep DEF DropLinks, TypeOK, Done
<1>5. QED
  BY <1>1, <1>2, <1>3, <1>4

-----------------------------------------------------------------------------
(* Steps that change a row of profiles.                                    *)

(* One row is new or other than it was, and stays unlike all others.       *)
LEMMA RowStep ==
    ASSUME AccountsInv, NEW q \in Request, NEW r \in Handling,
           NEW a \in Account, NEW row \in Row, Unique(a, row), ~row.email.capitals,
           profiles' = [profiles EXCEPT ![a] = row],
           r.pc \in OfAccount => r.account = a, r.pc \notin OfAddress, r.pc # "send",
           request' = [request EXCEPT ![q] = r],
           UNCHANGED <<world, links, owner, mail, oauth, told, home>>, proofs' \subseteq Account
    PROVE  AccountsInv'
<1>t. TypeOK /\ Known /\ OneAccount
  BY DEF AccountsInv
<1>1. TypeOK'
  BY <1>t DEF TypeOK, world
<1>2. Existing' = Existing \cup {a}
  <2>1. \A b \in Account : profiles'[b] = IF b = a THEN row ELSE profiles[b]
    BY <1>t DEF TypeOK
  <2>2. row # NoRow
    BY RowsOfExisting, <1>t
  <2>3. QED
    BY <2>1, <2>2 DEF Existing
<1>3. \A p \in Request : Fit(request[p])'
  <2> SUFFICES ASSUME NEW p \in Request PROVE Fit(request[p])'
    OBVIOUS
  <2>1. request'[p] = r \/ request'[p] = request[p]
    BY <1>t DEF TypeOK
  <2>2. Fit(request[p])
    BY <1>t DEF Known
  <2>3. CASE request'[p] = r
    BY <1>2, <2>3 DEF Fit
  <2>4. CASE request'[p] = request[p]
    BY <1>2, <2>2, <2>4 DEF Fit
  <2>5. QED
    BY <2>1, <2>3, <2>4
<1>4. Known'
  <2>1. \A b \in Account : mail'[b].all # {} => b \in Existing'
    BY <1>t, <1>2 DEF Known
  <2>2. \A b \in Existing' : ~profiles'[b].email.capitals
    BY <1>t, <1>2 DEF Known, TypeOK, Existing
  <2>3. QED
    BY <1>3, <2>1, <2>2 DEF Known
<1>5. OneAccount'
  <2>1. \A b \in Existing \ {a} :
           /\ profiles[b].email.box # row.email.box
           /\ row.google = None \/ profiles[b].google # row.google
    <3> SUFFICES ASSUME NEW b \in Existing \ {a}, profiles[b].email.box = row.email.box
                 PROVE  FALSE
      BY DEF Unique
    <3>1. profiles[b].email \in Address /\ row.email \in Address
      BY <1>t, RowsOfExisting DEF Row, Existing
    <3>2. profiles[b].email.capitals = row.email.capitals
      <4>1. ~profiles[b].email.capitals
        BY <1>t DEF Known
      <4>2. QED
        BY <3>1, <4>1 DEF Address
    <3>3. profiles[b].email = row.email
      BY <3>1, <3>2 DEF Address
    <3>4. QED
      BY <3>3 DEF Unique
  <2> SUFFICES ASSUME NEW b \in Existing', NEW c \in Existing', b # c
               PROVE  /\ profiles'[b].email.box # profiles'[c].email.box
                      /\ profiles'[b].google = None \/ profiles'[b].google # profiles'[c].google
    BY DEF OneAccount
  <2>2. \A d \in Account : profiles'[d] = IF d = a THEN row ELSE profiles[d]
    BY <1>t DEF TypeOK
  <2>3. b \in Account /\ c \in Account
    BY DEF Existing
  <2>4. CASE b # a /\ c # a
    BY <1>2, <1>t, <2>2, <2>3, <2>4 DEF OneAccount
  <2>5. CASE b = a
    BY <1>2, <2>1, <2>2, <2>3, <2>5
  <2>6. CASE c = a
    BY <1>2, <2>1, <2>2, <2>3, <2>6
  <2>7. QED
    BY <2>4, <2>5, <2>6
<1>6. QED
  BY <1>1, <1>4, <1>5 DEF AccountsInv

(* An insert takes the place of a free row, or is refused.                 *)
LEMMA InsertStep ==
    ASSUME AccountsInv, NEW q \in Request, NEW row \in Row, ~row.email.capitals,
           NEW next \in OfAccount \ {"send"}, InsertRow(q, row, next),
           UNCHANGED <<world, links, owner, mail, oauth, told, home>>, proofs' \subseteq Account
    PROVE  AccountsInv'
<1>t. TypeOK /\ request[q] \in Handling /\ next \in Step /\ next \notin OfAddress
  BY StepsAndPlaces DEF AccountsInv, TypeOK, OfAccount, OfAddress
<1>1. ASSUME NEW a \in Account \ Existing, Unique(a, row),
             profiles' = [profiles EXCEPT ![a] = row],
             request' = [request EXCEPT ![q].pc = next, ![q].account = a]
      PROVE  AccountsInv'
  <2> DEFINE r == [request[q] EXCEPT !.pc = next, !.account = a]
  <2>1. r \in Handling
    BY <1>t, UpdatedType
  <2>2. r.pc = next /\ r.account = a
    BY <1>t DEF Handling
  <2>3. request' = [request EXCEPT ![q] = r]
    BY <1>1
  <2>4. r.pc # "send" /\ r.pc \notin OfAddress
    BY <1>t, <2>2
  <2> HIDE DEF r
  <2>5. QED
    BY <1>1, <2>1, <2>2, <2>3, <2>4, RowStep
<1>2. CASE Goto(q, "refused") /\ UNCHANGED profiles
  BY <1>t, <1>2, GotoStep, QuietStep, StepsAndPlaces DEF TypeOK, world, OfAccount
<1>3. QED
  BY <1>1, <1>2 DEF InsertRow

LEMMA RowSteps ==
    ASSUME AccountsInv, NEW q \in Request,
           InsertProfile(q) \/ CreateGoogle(q) \/ MarkVerified(q) \/ LinkGoogle(q)
    PROVE  AccountsInv'
<1>t. TypeOK /\ Known /\ OneAccount /\ request[q] \in Handling /\ Fit(request[q])
  BY DEF AccountsInv, Known, TypeOK
<1>1. CASE InsertProfile(q)
  <2> DEFINE row == [NoRow EXCEPT !.email = request[q].email]
  <2>1. request[q].email \in Address /\ ~request[q].email.capitals
    BY <1>1, <1>t DEF InsertProfile, Fit, OfAddress
  <2>2. row \in Row /\ row.email = request[q].email
    BY <2>1 DEF Row, NoRow
  <2>3. InsertRow(q, row, "issue") /\ "issue" \in OfAccount \ {"send"}
    BY <1>1 DEF InsertProfile, OfAccount
  <2> HIDE DEF row
  <2>4. QED
    BY <1>1, <1>t, <2>1, <2>2, <2>3, InsertStep DEF InsertProfile, TypeOK
<1>2. CASE CreateGoogle(q)
  <2> DEFINE row == [email |-> request[q].email, google |-> request[q].google,
                     verified |-> request[q].vouched]
  <2>1. request[q].email \in Address /\ ~request[q].email.capitals
    BY <1>2, <1>t DEF CreateGoogle, Fit, OfAddress
  <2>2. row \in Row /\ row.email = request[q].email
    BY <1>t, <2>1 DEF Row, Handling
  <2>3. InsertRow(q, row, "session") /\ "session" \in OfAccount \ {"send"}
    BY <1>2 DEF CreateGoogle, OfAccount
  <2>4. request'[q].account \in Account \cup {Nobody}
    <3>1. CASE \E a \in Account \ Existing :
                  request' = [request EXCEPT ![q].pc = "session", ![q].account = a]
      <4>1. PICK a \in Account \ Existing :
                  request' = [request EXCEPT ![q].pc = "session", ![q].account = a]
        BY <3>1
      <4>2. request'[q].account = a
        BY <1>t, <4>1 DEF TypeOK, Handling
      <4>3. QED
        BY <4>2
    <3>2. CASE Goto(q, "refused")
      <4>1. request'[q].account = request[q].account
        BY <1>t, <3>2 DEF TypeOK, Handling, Goto
      <4>2. QED
        BY <1>t, <4>1 DEF Handling
    <3>3. QED
      BY <2>3, <3>1, <3>2 DEF InsertRow
  <2>5. proofs' \subseteq Account
    BY <1>2, <1>t, <2>4 DEF CreateGoogle, TypeOK
  <2> HIDE DEF row
  <2>6. QED
    BY <1>2, <1>t, <2>1, <2>2, <2>3, <2>5, InsertStep DEF CreateGoogle
<1>3. CASE MarkVerified(q)
  <2> DEFINE a == request[q].account
             row == [profiles[a] EXCEPT !.verified = TRUE]
             r == [request[q] EXCEPT !.pc = "drop"]
  <2>1. a \in Existing /\ a \in Account
    BY <1>3, <1>t DEF MarkVerified, Fit, OfAccount, Existing
  <2>2. "drop" \in Step /\ "drop" \in OfAccount /\ "drop" \notin OfAddress
    BY DEF Step, OfAccount, OfAddress
  <2>3. r \in Handling /\ Fit(r) /\ request' = [request EXCEPT ![q] = r]
    BY <1>3, <2>1, <2>2, GotoStep DEF MarkVerified
  <2>4. r.account = a /\ r.pc = "drop"
    BY <1>t DEF Handling
  <2>5. CASE UNCHANGED profiles
    BY <1>3, <1>t, <2>3, <2>5, QuietStep DEF MarkVerified, TypeOK, world
  <2>6. CASE profiles' = [profiles EXCEPT ![a].verified = TRUE]
    <3>1. profiles[a] \in Row
      BY <1>t, <2>1, RowsOfExisting
    <3>2. row \in Row /\ row.email = profiles[a].email /\ row.google = profiles[a].google
      BY <3>1 DEF Row
    <3>3. profiles' = [profiles EXCEPT ![a] = row]
      BY <2>6
    <3>4. ~row.email.capitals
      BY <1>t, <2>1, <3>2 DEF Known
    <3>5. Unique(a, row)
      <4>1. \A b \in Existing \ {a} :
               /\ profiles[b].email.box # profiles[a].email.box
               /\ profiles[a].google = None \/ profiles[b].google # profiles[a].google
        BY <1>t, <2>1 DEF OneAccount
      <4>2. \A b \in Existing \ {a} : profiles[b].email # profiles[a].email
        BY <4>1
      <4>3. QED
        BY <3>2, <4>1, <4>2 DEF Unique
    <3> HIDE DEF row, r
    <3>6. QED
      BY <1>3, <1>t, <2>1, <2>2, <2>3, <2>4, <3>2, <3>3, <3>4, <3>5, RowStep
      DEF MarkVerified, TypeOK
  <2>7. QED
    BY <1>3, <2>5, <2>6 DEF MarkVerified
<1>4. CASE LinkGoogle(q)
  <2> DEFINE a == request[q].account
             row == [profiles[a] EXCEPT !.google = request[q].google,
                                        !.verified = request[q].vouched \/ request[q].verified]
  <2>1. a \in Existing /\ a \in Account
    BY <1>4, <1>t DEF LinkGoogle, Fit, OfAccount, Existing
  <2>2. \/ Unique(a, row) /\ profiles' = [profiles EXCEPT ![a] = row] /\ Vouch(q, a) /\ Goto(q, "session")
        \/ Goto(q, "refused") /\ UNCHANGED <<profiles, proofs>>
    BY <1>4 DEF LinkGoogle
  <2>3. CASE Goto(q, "refused") /\ UNCHANGED <<profiles, proofs>>
    BY <1>4, <1>t, <2>3, GotoStep, QuietStep, StepsAndPlaces
    DEF LinkGoogle, TypeOK, world, OfAccount
  <2>4. CASE Unique(a, row) /\ profiles' = [profiles EXCEPT ![a] = row] /\ Vouch(q, a)
             /\ Goto(q, "session")
    <3> DEFINE r == [request[q] EXCEPT !.pc = "session"]
    <3>1. "session" \in Step /\ "session" \in OfAccount /\ "session" \notin OfAddress
      BY DEF Step, OfAccount, OfAddress
    <3>2. r \in Handling /\ request' = [request EXCEPT ![q] = r]
      BY <2>1, <2>4, <3>1, GotoStep
    <3>3. r.account = a /\ r.pc = "session"
      BY <1>t DEF Handling
    <3>4. profiles[a] \in Row
      BY <1>t, <2>1, RowsOfExisting
    <3>5. row \in Row /\ row.email = profiles[a].email
      BY <1>t, <3>4 DEF Row, Handling
    <3>6. ~row.email.capitals
      BY <1>t, <2>1, <3>5 DEF Known
    <3>7. proofs' \subseteq Account
      BY <1>t, <2>1, <2>4 DEF TypeOK, Vouch
    <3> HIDE DEF row, r
    <3>8. QED
      BY <1>4, <2>1, <2>4, <3>1, <3>2, <3>3, <3>5, <3>6, <3>7, RowStep DEF LinkGoogle
  <2>5. QED
    BY <2>2, <2>3, <2>4
<1>5. QED
  BY <1>1, <1>2, <1>3, <1>4

-----------------------------------------------------------------------------
(* The user, the mailboxes, the clock and a crash.                         *)

LEMMA OtherSteps ==
    ASSUME AccountsInv,
           \/ \E l \in links : LinkExpires(l)
           \/ \E g \in GoogleUser : \/ StartGoogle(g)
                                    \/ \E s \in 1..MaxSignIns : Cancel(s, g)
                                    \/ \E m \in Mailbox : Moves(g, m)
           \/ Crash
    PROVE  AccountsInv'
<1>t. TypeOK /\ Known /\ OneAccount
  BY DEF AccountsInv
<1>f. ASSUME TypeOK', UNCHANGED <<profiles, mail>>, \A q \in Request : Fit(request'[q])
      PROVE  AccountsInv'
  <2>1. Existing' = Existing
    BY <1>f DEF Existing
  <2>2. QED
    BY <1>t, <1>f, <2>1 DEF AccountsInv, Known, OneAccount, Fit
<1>k. \A q \in Request : Fit(request[q])
  BY <1>t DEF Known
<1>1. ASSUME NEW l \in links, LinkExpires(l) PROVE AccountsInv'
  <2>1. TypeOK'
    BY <1>1, <1>t DEF LinkExpires, TypeOK, world
  <2>2. QED
    BY <1>1, <1>f, <1>k, <2>1 DEF LinkExpires
<1>2. ASSUME NEW g \in GoogleUser, StartGoogle(g) PROVE AccountsInv'
  <2>1. /\ begun \in Nat /\ begun + 1 \in 0..MaxSignIns /\ begun + 1 \in 0..(begun + 1)
        /\ 1..begun \subseteq 1..(begun + 1) /\ begun + 1 \in 1..(begun + 1)
    BY <1>2, <1>t, StepsAndPlaces DEF StartGoogle, TypeOK
  <2>2. signIns' \subseteq (1..(begun + 1)) \X GoogleUser
    <3>1. signIns \subseteq (1..(begun + 1)) \X GoogleUser
      BY <1>t, <2>1 DEF TypeOK
    <3>2. <<begun + 1, g>> \in (1..(begun + 1)) \X GoogleUser
      BY <2>1
    <3>3. QED
      BY <1>2, <3>1, <3>2 DEF StartGoogle
  <2>3. TypeOK'
    BY <1>2, <1>t, <2>1, <2>2 DEF StartGoogle, TypeOK, tables, ghosts
  <2>4. QED
    BY <1>2, <1>f, <1>k, <2>3 DEF StartGoogle, tables
<1>3. ASSUME NEW g \in GoogleUser, NEW s \in 1..MaxSignIns, Cancel(s, g) PROVE AccountsInv'
  <2>1. TypeOK'
    BY <1>3, <1>t DEF Cancel, TypeOK, tables, ghosts
  <2>2. QED
    BY <1>3, <1>f, <1>k, <2>1 DEF Cancel, tables
<1>4. ASSUME NEW g \in GoogleUser, NEW m \in Mailbox, Moves(g, m) PROVE AccountsInv'
  <2>1. TypeOK'
    BY <1>4, <1>t DEF Moves, TypeOK, tables
  <2>2. QED
    BY <1>4, <1>f, <1>k, <2>1 DEF Moves, tables
<1>5. CASE Crash
  <2>1. TypeOK'
    BY <1>5, <1>t, IdleType DEF Crash, TypeOK, world, tables
  <2>2. QED
    BY <1>5, <1>f, <2>1, IdleType DEF Crash, tables
<1>6. QED
  BY <1>1, <1>2, <1>3, <1>4, <1>5

LEMMA AccountsInvariant == Spec => []AccountsInv
<1>1. Init => AccountsInv
  <2> SUFFICES ASSUME Init PROVE AccountsInv
    OBVIOUS
  <2>1. TypeOK
    BY BoundsAssumption, IdleType DEF Init, TypeOK
  <2>2. Existing = {}
    BY DEF Init, Existing
  <2>3. \A q \in Request : Fit(request[q])
    BY IdleType DEF Init
  <2>4. \A a \in Account : mail[a].all = {}
    BY DEF Init
  <2>5. QED
    BY <2>1, <2>2, <2>3, <2>4 DEF AccountsInv, Known, OneAccount
<1>2. AccountsInv /\ [Next]_vars => AccountsInv'
  <2> SUFFICES ASSUME AccountsInv, [Next]_vars PROVE AccountsInv'
    OBVIOUS
  <2>1. CASE Next
    BY <2>1, BeginSteps, ReadSteps, LinkSteps, RowSteps, OtherSteps DEF Next
  <2>2. CASE UNCHANGED vars
    BY <2>2 DEF vars, AccountsInv, TypeOK, Known, OneAccount, Existing, Fit
  <2>3. QED
    BY <2>1, <2>2
<1>3. QED
  BY <1>1, <1>2, PTL DEF Spec

(* Every variable has its type.                                            *)
THEOREM TypeCorrect == Spec => []TypeOK
<1>1. AccountsInv => TypeOK
  BY DEF AccountsInv
<1>2. QED
  BY <1>1, AccountsInvariant, PTL

(* One account per mailbox and per Google user, however the requests       *)
(* overlap and whatever the reads returned: the unique columns are enough, *)
(* because every address is in lower case when it reaches the table.       *)
THEOREM OneAccountEach == Spec => []OneAccount
<1>1. AccountsInv => OneAccount
  BY DEF AccountsInv
<1>2. QED
  BY <1>1, AccountsInvariant, PTL

-----------------------------------------------------------------------------
(* What email_verified says.                                               *)

(* Handlers that mark an account, or link one, have the proof; what they   *)
(* have read of it is true while they are alone.                           *)
Justified(r, rows, proved) ==
    /\ r.pc \in {"mark", "drop"} => r.account \in proved
    /\ r.pc = "link" /\ r.verified => r.account \in proved
    /\ r.pc \in {"byGoogle", "byEmail", "link", "create"} /\ "unverified" \notin env => r.vouched
    /\ r.pc = "link" /\ "overlap" \notin env => r.verified = rows[r.account].verified
    /\ r.pc = "drop" /\ "writeFails" \notin env /\ ~{"unverified", "overlap"} \subseteq env =>
          rows[r.account].verified

Alone ==
    "overlap" \notin env =>
        \A p, q \in Request : request[p] # Idle /\ request[q] # Idle => p = q

VerifiedInv ==
    /\ Alone
    /\ \A q \in Request : Justified(request[q], profiles, proofs)
    /\ VerifiedTrue

(* A step of one request that leaves the rows alone and takes no proof     *)
(* away.                                                                   *)
LEMMA JustifiedStep ==
    ASSUME AccountsInv, VerifiedInv, NEW q \in Request, NEW r \in Handling,
           request' = [request EXCEPT ![q] = r], request[q] # Idle \/ MayBegin(q),
           UNCHANGED <<env, profiles>>, proofs \subseteq proofs',
           Justified(r, profiles, proofs'),
           told' = told \/ (request[q].pc = "drop" /\ told' = told \cup {request[q].account})
    PROVE  VerifiedInv'
<1>t. request \in [Request -> Handling] /\ profiles \in [Account -> Row \cup {NoRow}]
  BY DEF AccountsInv, TypeOK
<1>1. Alone'
  BY <1>t DEF VerifiedInv, Alone, MayBegin
<1>2. \A p \in Request : Justified(request[p], profiles, proofs)'
  <2> SUFFICES ASSUME NEW p \in Request PROVE Justified(request[p], profiles, proofs)'
    OBVIOUS
  <2>1. request'[p] = r \/ request'[p] = request[p]
    BY <1>t
  <2>2. Justified(request[p], profiles, proofs)
    BY DEF VerifiedInv
  <2>3. CASE request'[p] = r
    BY <2>3 DEF Justified
  <2>4. CASE request'[p] = request[p]
    BY <2>2, <2>4 DEF Justified
  <2>5. QED
    BY <2>1, <2>3, <2>4
<1>3. VerifiedTrue'
  <2>1. Justified(request[q], profiles, proofs) /\ VerifiedTrue
    BY DEF VerifiedInv
  <2>2. Existing' = Existing
    BY DEF Existing
  <2>3. QED
    BY <2>1, <2>2 DEF VerifiedTrue, Justified
<1>4. QED
  BY <1>1, <1>2, <1>3 DEF VerifiedInv

(* A step of one request that writes the row of an account.                *)
LEMMA JustifiedWrite ==
    ASSUME AccountsInv, VerifiedInv, NEW q \in Request, NEW r \in Handling,
           request' = [request EXCEPT ![q] = r], request[q] # Idle,
           NEW a \in Account, NEW row \in Row, profiles' = [profiles EXCEPT ![a] = row],
           UNCHANGED <<env, told>>, proofs \subseteq proofs',
           Justified(r, profiles', proofs'), row.verified => a \in proofs',
           "writeFails" \notin env /\ ~{"unverified", "overlap"} \subseteq env
             /\ profiles[a].verified => row.verified
    PROVE  VerifiedInv'
<1>t. request \in [Request -> Handling] /\ profiles \in [Account -> Row \cup {NoRow}]
  BY DEF AccountsInv, TypeOK
<1>0. \A b \in Account : profiles'[b] = IF b = a THEN row ELSE profiles[b]
  BY <1>t
<1>1. Alone'
  BY <1>t DEF VerifiedInv, Alone
<1>2. \A p \in Request : Justified(request[p], profiles, proofs)'
  <2> SUFFICES ASSUME NEW p \in Request PROVE Justified(request[p], profiles, proofs)'
    OBVIOUS
  <2>1. Justified(request[p], profiles, proofs)
    BY DEF VerifiedInv
  <2>2. CASE p = q
    <3>1. request'[p] = r
      BY <1>t, <2>2
    <3>2. QED
      BY <3>1 DEF Justified
  <2>3. CASE p # q
    <3>1. request'[p] = request[p] /\ request[p] \in Handling /\ Fit(request[p])
      BY <1>t, <2>3 DEF AccountsInv, Known
    <3>2. "overlap" \notin env => request[p] = Idle
      BY <2>3 DEF VerifiedInv, Alone
    <3>3. request[p].pc = "drop" => request[p].account \in Account
      BY <3>1 DEF Fit, OfAccount, Existing
    <3>4. "overlap" \notin env => request[p].pc = "idle"
      BY <3>2 DEF Idle
    <3>5. QED
      BY <1>0, <2>1, <3>1, <3>3, <3>4 DEF Justified
  <2>4. QED
    BY <2>2, <2>3
<1>3. VerifiedTrue'
  <2>1. \A b \in Existing' : profiles'[b].verified => b \in proofs'
    <3> SUFFICES ASSUME NEW b \in Existing', profiles'[b].verified PROVE b \in proofs'
      OBVIOUS
    <3>1. b \in Account
      BY DEF Existing
    <3>2. CASE b = a
      BY <1>0, <3>1, <3>2
    <3>3. CASE b # a
      <4>1. profiles'[b] = profiles[b] /\ b \in Existing
        BY <1>0, <3>1, <3>3 DEF Existing
      <4>2. QED
        BY <4>1 DEF VerifiedInv, VerifiedTrue
    <3>4. QED
      BY <3>2, <3>3
  <2>2. "writeFails" \notin env /\ ~{"unverified", "overlap"} \subseteq env =>
          \A b \in told : profiles'[b].verified
    BY <1>0 DEF VerifiedInv, VerifiedTrue, AccountsInv, TypeOK
  <2>3. QED
    BY <2>1, <2>2 DEF VerifiedTrue
<1>4. QED
  BY <1>1, <1>2, <1>3 DEF VerifiedInv

LEMMA JustifiedBegin ==
    ASSUME AccountsInv, VerifiedInv, NEW q \in Request,
           \/ \E t \in Typed : Register(q, t)
           \/ \E a \in Account : Resend(q, a) \/ \E l \in Link : VerifyEmail(q, a, l)
           \/ \E s \in 1..MaxSignIns, g \in GoogleUser : Callback(q, s, g)
    PROVE  VerifiedInv'
<1> USE DEF world, tables, ghosts
<1>1. ASSUME NEW r \in Handling, MayBegin(q), Begin(q, r),
             r.pc \in {"find", "status", "match", "refused"}
               \/ (r.pc = "byGoogle" /\ ("unverified" \notin env => r.vouched)),
             UNCHANGED <<env, profiles, proofs, told>>
      PROVE  VerifiedInv'
  <2>1. Justified(r, profiles, proofs')
    BY <1>1 DEF Justified
  <2>2. QED
    BY <1>1, <2>1, JustifiedStep DEF Begin
<1>2. \A t \in Typed : Lower(t) \in Address
  BY DEF Typed, Lower, Address
<1>3. ASSUME NEW t \in Typed, Register(q, t) PROVE VerifiedInv'
  <2> DEFINE r == [Idle EXCEPT !.op = "register", !.pc = "find", !.email = Lower(t)]
  <2>1. r \in Handling
    BY <1>2, IdleType, StepsAndPlaces DEF Handling, OfAddress
  <2>2. r.pc = "find"
    BY DEF Idle
  <2>3. QED
    BY <1>1, <1>3, <2>1, <2>2 DEF Register
<1>4. ASSUME NEW a \in Account, Resend(q, a) PROVE VerifiedInv'
  <2> DEFINE r == [Idle EXCEPT !.op = "resend", !.pc = "status", !.account = a]
  <2>1. r \in Handling
    BY IdleType, StepsAndPlaces DEF Handling, OfAccount
  <2>2. r.pc = "status"
    BY DEF Idle
  <2>3. QED
    BY <1>1, <1>4, <2>1, <2>2 DEF Resend
<1>5. ASSUME NEW a \in Account, NEW l \in Link, VerifyEmail(q, a, l) PROVE VerifiedInv'
  <2> DEFINE r == [Idle EXCEPT !.op = "verify", !.pc = "match", !.account = a, !.link = l]
  <2>1. r \in Handling
    BY IdleType, StepsAndPlaces DEF Handling, OfAccount
  <2>2. r.pc = "match"
    BY DEF Idle
  <2>3. QED
    BY <1>1, <1>5, <2>1, <2>2 DEF VerifyEmail
<1>6. ASSUME NEW s \in 1..MaxSignIns, NEW g \in GoogleUser, Callback(q, s, g) PROVE VerifiedInv'
  <2>1. PICK v \in BOOLEAN, t \in Typed :
          /\ "unverified" \notin env => v
          /\ Begin(q, [Idle EXCEPT !.op = "google", !.google = g, !.email = Lower(t), !.vouched = v,
                                   !.pc = IF s = oauth THEN "byGoogle" ELSE "refused"])
    BY <1>6 DEF Callback
  <2> DEFINE pc == IF s = oauth THEN "byGoogle" ELSE "refused"
             r == [Idle EXCEPT !.op = "google", !.google = g, !.email = Lower(t), !.vouched = v,
                               !.pc = pc]
  <2>2. pc \in Step
    BY StepsAndPlaces DEF OfAddress
  <2>3. r \in Handling
    BY <1>2, <2>2, IdleType DEF Handling
  <2>4. r.pc = pc /\ r.vouched = v
    BY DEF Idle
  <2>5. QED
    BY <1>1, <1>6, <2>1, <2>3, <2>4 DEF Callback
<1>7. QED
  BY <1>3, <1>4, <1>5, <1>6

LEMMA JustifiedReads ==
    ASSUME AccountsInv, VerifiedInv, NEW q \in Request,
           \/ FindEmail(q) \/ ReadStatus(q) \/ ClearLinks(q) \/ IssueLink(q) \/ SendMail(q)
           \/ MatchLink(q) \/ DropLinks(q) \/ FindByGoogleId(q) \/ FindByEmail(q)
           \/ SignedIn(q) \/ Refused(q)
    PROVE  VerifiedInv'
<1> USE DEF world, tables
<1>t. TypeOK /\ request[q] \in Handling /\ Justified(request[q], profiles, proofs)
  BY DEF AccountsInv, VerifiedInv, TypeOK
<1>i. request[q].pc # "idle" => request[q] # Idle
  BY DEF Idle
<1>g. ASSUME NEW pc \in Step, Goto(q, pc), request[q].pc # "idle",
             UNCHANGED <<env, profiles, told>>, proofs \subseteq proofs',
             Justified([request[q] EXCEPT !.pc = pc], profiles, proofs')
      PROVE  VerifiedInv'
  BY <1>t, <1>i, <1>g, UpdatedType, JustifiedStep DEF Goto
<1>d. ASSUME Done(q), request[q].pc # "idle", UNCHANGED <<env, profiles, proofs>>,
             told' = told \/ (request[q].pc = "drop" /\ told' = told \cup {request[q].account})
      PROVE  VerifiedInv'
  <2>1. Justified(Idle, profiles, proofs')
    BY DEF Justified, Idle
  <2>2. QED
    BY <1>i, <1>d, <2>1, IdleType, JustifiedStep DEF Done
<1>1. CASE FindEmail(q) \/ ReadStatus(q) \/ ClearLinks(q)
  <2>1. \/ Done(q)
        \/ \E pc \in {"insert", "refused", "clear", "issue"} : Goto(q, pc)
    BY <1>1 DEF FindEmail, ReadStatus, ClearLinks
  <2>2. request[q].pc # "idle" /\ UNCHANGED <<env, profiles, proofs, told>>
    BY <1>1 DEF FindEmail, ReadStatus, ClearLinks
  <2>3. CASE Done(q)
    BY <1>d, <2>2, <2>3
  <2>4. ASSUME NEW pc \in {"insert", "refused", "clear", "issue"}, Goto(q, pc)
        PROVE  VerifiedInv'
    <3>1. pc \in Step
      BY DEF Step
    <3>2. Justified([request[q] EXCEPT !.pc = pc], profiles, proofs')
      BY <1>t DEF Justified, Handling
    <3>3. QED
      BY <1>g, <2>2, <2>4, <3>1, <3>2
  <2>5. QED
    BY <2>1, <2>3, <2>4
<1>2. CASE IssueLink(q)
  <2>1. PICK l \in Link : request' = [request EXCEPT ![q].pc = "send", ![q].link = l]
    BY <1>2 DEF IssueLink
  <2> DEFINE r == [request[q] EXCEPT !.pc = "send", !.link = l]
  <2>2. r \in Handling
    BY <1>t, UpdatedType, StepsAndPlaces DEF OfAccount
  <2>3. r.pc = "send"
    BY <1>t DEF Handling
  <2>4. Justified(r, profiles, proofs')
    BY <2>3 DEF Justified
  <2>5. request' = [request EXCEPT ![q] = r]
    BY <2>1
  <2>6. QED
    BY <1>2, <1>i, <2>2, <2>4, <2>5, JustifiedStep DEF IssueLink
<1>3. CASE SendMail(q) \/ DropLinks(q) \/ SignedIn(q) \/ Refused(q)
  BY <1>3, <1>d DEF SendMail, DropLinks, SignedIn, Refused
<1>4. CASE MatchLink(q)
  <2>1. \/ Goto(q, "mark") /\ proofs' = proofs \cup {request[q].account}
        \/ Goto(q, "refused") /\ proofs' = proofs
    BY <1>4 DEF MatchLink
  <2>2. {"mark", "refused"} \subseteq Step
    BY DEF Step
  <2>3. CASE Goto(q, "mark") /\ proofs' = proofs \cup {request[q].account}
    <3>1. Justified([request[q] EXCEPT !.pc = "mark"], profiles, proofs')
      BY <1>t, <2>3 DEF Justified, Handling
    <3>2. QED
      BY <1>4, <1>g, <2>2, <2>3, <3>1 DEF MatchLink
  <2>4. CASE Goto(q, "refused") /\ proofs' = proofs
    <3>1. Justified([request[q] EXCEPT !.pc = "refused"], profiles, proofs')
      BY <1>t DEF Justified, Handling
    <3>2. QED
      BY <1>4, <1>g, <2>2, <2>4, <3>1 DEF MatchLink
  <2>5. QED
    BY <2>1, <2>3, <2>4
<1>5. CASE FindByGoogleId(q)
  <2>1. \/ Goto(q, "byEmail")
        \/ \E a \in Existing : request' = [request EXCEPT ![q].pc = "session", ![q].account = a]
    BY <1>5 DEF FindByGoogleId, Found
  <2>2. CASE Goto(q, "byEmail")
    <3>1. Justified([request[q] EXCEPT !.pc = "byEmail"], profiles, proofs')
      BY <1>5, <1>t DEF Justified, Handling, FindByGoogleId
    <3>2. QED
      BY <1>5, <1>g, <2>2, <3>1, StepsAndPlaces DEF FindByGoogleId, OfAddress
  <2>3. ASSUME NEW a \in Existing,
               request' = [request EXCEPT ![q].pc = "session", ![q].account = a]
        PROVE  VerifiedInv'
    <3> DEFINE r == [request[q] EXCEPT !.pc = "session", !.account = a]
    <3>1. r \in Handling
      BY <1>t, UpdatedType, StepsAndPlaces DEF Existing, OfAccount
    <3>2. r.pc = "session"
      BY <1>t DEF Handling
    <3>3. Justified(r, profiles, proofs')
      BY <3>2 DEF Justified
    <3>4. request' = [request EXCEPT ![q] = r]
      BY <2>3
    <3>5. QED
      BY <1>5, <1>i, <3>1, <3>3, <3>4, JustifiedStep DEF FindByGoogleId
  <2>4. QED
    BY <2>1, <2>2, <2>3
<1>6. CASE FindByEmail(q)
  <2>1. \/ Goto(q, "create")
        \/ \E a \in Existing :
              request' = [request EXCEPT ![q].pc = "link", ![q].account = a,
                                         ![q].verified = profiles[a].verified]
    BY <1>6 DEF FindByEmail, Found
  <2>2. CASE Goto(q, "create")
    <3>1. Justified([request[q] EXCEPT !.pc = "create"], profiles, proofs')
      BY <1>6, <1>t DEF Justified, Handling, FindByEmail
    <3>2. QED
      BY <1>6, <1>g, <2>2, <3>1, StepsAndPlaces DEF FindByEmail, OfAddress
  <2>3. ASSUME NEW a \in Existing,
               request' = [request EXCEPT ![q].pc = "link", ![q].account = a,
                                          ![q].verified = profiles[a].verified]
        PROVE  VerifiedInv'
    <3> DEFINE v == profiles[a].verified
               r == [request[q] EXCEPT !.pc = "link", !.account = a, !.verified = v]
    <3>0. a \in Account /\ v \in BOOLEAN
      BY <1>t, RowsOfExisting DEF Existing, Row
    <3>1. r \in Handling
      BY <1>t, <3>0, UpdatedType, StepsAndPlaces DEF OfAccount
    <3>2. r.pc = "link" /\ r.account = a /\ r.verified = v /\ r.vouched = request[q].vouched
      BY <1>t DEF Handling
    <3>3. v => a \in proofs
      BY DEF VerifiedInv, VerifiedTrue
    <3>5. request' = [request EXCEPT ![q] = r]
      BY <2>3
    <3>4. Justified(r, profiles, proofs')
      <4>1. "unverified" \notin env => r.vouched
        BY <1>6, <1>t, <3>2 DEF Justified, FindByEmail
      <4>2. r.verified = profiles[r.account].verified
        BY <3>2, Zenon
      <4>0. proofs' = proofs
        BY <1>6 DEF FindByEmail
      <4> HIDE DEF r, v
      <4>3. r.verified => r.account \in proofs'
        BY <3>2, <3>3, <4>0, Zenon
      <4>4. /\ r.pc \in {"mark", "drop"} => r.account \in proofs'
            /\ r.pc = "drop" /\ "writeFails" \notin env /\ ~{"unverified", "overlap"} \subseteq env =>
                  profiles[r.account].verified
        BY <3>2
      <4>5. /\ r.pc = "link" /\ r.verified => r.account \in proofs'
            /\ r.pc \in {"byGoogle", "byEmail", "link", "create"} /\ "unverified" \notin env => r.vouched
            /\ r.pc = "link" /\ "overlap" \notin env => r.verified = profiles[r.account].verified
        BY <4>1, <4>2, <4>3, Zenon
      <4>6. QED
        BY <4>4, <4>5, Zenon DEF Justified
    <3>6. QED
      BY <1>6, <1>i, <3>1, <3>4, <3>5, JustifiedStep DEF FindByEmail
  <2>4. QED
    BY <2>1, <2>2, <2>3
<1>7. QED
  BY <1>1, <1>2, <1>3, <1>4, <1>5, <1>6

LEMMA JustifiedWrites ==
    ASSUME AccountsInv, VerifiedInv, NEW q \in Request,
           InsertProfile(q) \/ CreateGoogle(q) \/ MarkVerified(q) \/ LinkGoogle(q)
    PROVE  VerifiedInv'
<1> USE DEF world, tables
<1>t. /\ TypeOK /\ Known /\ request[q] \in Handling /\ Fit(request[q])
      /\ Justified(request[q], profiles, proofs)
  BY DEF AccountsInv, VerifiedInv, Known, TypeOK
<1>i. request[q] # Idle
  BY DEF Idle, InsertProfile, CreateGoogle, MarkVerified, LinkGoogle
<1>r. ASSUME Goto(q, "refused"), UNCHANGED <<env, profiles, told>>, proofs \subseteq proofs'
      PROVE  VerifiedInv'
  <2> DEFINE r == [request[q] EXCEPT !.pc = "refused"]
  <2>1. r \in Handling
    BY <1>t, UpdatedType, StepsAndPlaces
  <2>2. r.pc = "refused"
    BY <1>t DEF Handling
  <2>3. Justified(r, profiles, proofs')
    BY <2>2 DEF Justified
  <2>4. QED
    BY <1>i, <1>r, <2>1, <2>3, JustifiedStep DEF Goto
<1>n. ASSUME NEW row \in Row, NEW next \in {"issue", "session"}, InsertRow(q, row, next),
             UNCHANGED <<env, told>>, proofs \subseteq proofs',
             row.verified => request'[q].account \in proofs' \cup {Nobody}
      PROVE  VerifiedInv'
  <2>1. ASSUME NEW a \in Account \ Existing, profiles' = [profiles EXCEPT ![a] = row],
               request' = [request EXCEPT ![q].pc = next, ![q].account = a]
        PROVE  VerifiedInv'
    <3> DEFINE r == [request[q] EXCEPT !.pc = next, !.account = a]
    <3>1. r \in Handling
      BY <1>t, UpdatedType DEF Step
    <3>2. r.pc = next /\ r.account = a
      BY <1>t DEF Handling
    <3>3. request' = [request EXCEPT ![q] = r]
      BY <2>1
    <3>4. request'[q] = r
      BY <1>t, <3>3 DEF TypeOK
    <3>5. row.verified => a \in proofs'
      BY <1>n, <3>2, <3>4, StepsAndPlaces
    <3>6. ~profiles[a].verified
      BY DEF Existing, NoRow
    <3>7. Justified(r, profiles', proofs')
      BY <3>2 DEF Justified
    <3> HIDE DEF r
    <3>8. QED
      BY <1>i, <1>n, <2>1, <3>1, <3>3, <3>5, <3>6, <3>7, JustifiedWrite
  <2>2. QED
    BY <1>n, <1>r, <2>1 DEF InsertRow
<1>1. CASE InsertProfile(q)
  <2> DEFINE row == [NoRow EXCEPT !.email = request[q].email]
  <2>1. request[q].email \in Address
    BY <1>1, <1>t DEF InsertProfile, Fit, OfAddress
  <2>2. row \in Row /\ ~row.verified
    BY <2>1 DEF Row, NoRow
  <2> HIDE DEF row
  <2>3. InsertRow(q, row, "issue")
    BY <1>1 DEF InsertProfile, row
  <2>4. QED
    BY <1>1, <1>n, <2>2, <2>3 DEF InsertProfile
<1>2. CASE CreateGoogle(q)
  <2> DEFINE row == [email |-> request[q].email, google |-> request[q].google,
                     verified |-> request[q].vouched]
  <2>1. request[q].email \in Address
    BY <1>2, <1>t DEF CreateGoogle, Fit, OfAddress
  <2>2. row \in Row /\ (row.verified => request[q].vouched)
    BY <1>t, <2>1 DEF Row, Handling
  <2> HIDE DEF row
  <2>3. InsertRow(q, row, "session")
    BY <1>2 DEF CreateGoogle, row
  <2>4. proofs \subseteq proofs' /\ (request[q].vouched => request'[q].account \in proofs' \cup {Nobody})
    BY <1>2 DEF CreateGoogle
  <2>5. QED
    BY <1>2, <1>n, <2>2, <2>3, <2>4 DEF CreateGoogle
<1>3. CASE MarkVerified(q)
  <2> DEFINE a == request[q].account
             row == [profiles[a] EXCEPT !.verified = TRUE]
             r == [request[q] EXCEPT !.pc = "drop"]
  <2>1. a \in Existing /\ a \in Account /\ a \in proofs
    BY <1>3, <1>t DEF MarkVerified, Fit, OfAccount, Existing, Justified
  <2>2. r \in Handling /\ request' = [request EXCEPT ![q] = r]
    BY <1>3, <1>t, UpdatedType DEF MarkVerified, Goto, Step
  <2>3. r.account = a /\ r.pc = "drop"
    BY <1>t DEF Handling
  <2>4. CASE UNCHANGED profiles /\ "writeFails" \in env
    <3>1. Justified(r, profiles, proofs')
      BY <1>3, <2>1, <2>3, <2>4 DEF Justified, MarkVerified
    <3>2. QED
      BY <1>3, <1>i, <2>2, <2>4, <3>1, JustifiedStep DEF MarkVerified
  <2>5. CASE profiles' = [profiles EXCEPT ![a].verified = TRUE]
    <3>1. profiles[a] \in Row
      BY <1>t, <2>1, RowsOfExisting
    <3>2. row \in Row /\ row.verified = TRUE
      BY <3>1 DEF Row
    <3>3. profiles' = [profiles EXCEPT ![a] = row]
      BY <2>5
    <3>4. profiles'[a].verified
      BY <1>t, <2>1, <3>2, <3>3 DEF TypeOK
    <3> HIDE DEF row
    <3>5. Justified(r, profiles', proofs')
      BY <1>3, <2>1, <2>3, <3>4 DEF Justified, MarkVerified
    <3> HIDE DEF r
    <3>6. QED
      BY <1>3, <1>i, <2>1, <2>2, <3>2, <3>3, <3>5, JustifiedWrite DEF MarkVerified
  <2>6. QED
    BY <1>3, <2>4, <2>5 DEF MarkVerified
<1>4. CASE LinkGoogle(q)
  <2> DEFINE a == request[q].account
             row == [profiles[a] EXCEPT !.google = request[q].google,
                                        !.verified = request[q].vouched \/ request[q].verified]
  <2>1. a \in Existing /\ a \in Account /\ request[q].pc = "link"
    BY <1>4, <1>t DEF LinkGoogle, Fit, OfAccount, Existing
  <2>2. \/ profiles' = [profiles EXCEPT ![a] = row] /\ Vouch(q, a) /\ Goto(q, "session")
        \/ Goto(q, "refused") /\ UNCHANGED <<profiles, proofs>>
    BY <1>4 DEF LinkGoogle
  <2>3. CASE Goto(q, "refused") /\ UNCHANGED <<profiles, proofs>>
    BY <1>4, <1>r, <2>3 DEF LinkGoogle
  <2>4. CASE profiles' = [profiles EXCEPT ![a] = row] /\ Vouch(q, a) /\ Goto(q, "session")
    <3> DEFINE r == [request[q] EXCEPT !.pc = "session"]
    <3>1. r \in Handling /\ request' = [request EXCEPT ![q] = r]
      BY <1>t, <2>4, UpdatedType DEF Goto, Step
    <3>2. r.pc = "session"
      BY <1>t DEF Handling
    <3>3. profiles[a] \in Row
      BY <1>t, <2>1, RowsOfExisting
    <3>4. /\ row \in Row
          /\ request[q].vouched \in BOOLEAN /\ request[q].verified \in BOOLEAN
      BY <1>t, <3>3 DEF Row, Handling
    <3>5. row.verified = (request[q].vouched \/ request[q].verified)
      BY <3>3 DEF Row
    <3>6. proofs \subseteq proofs' /\ (request[q].vouched => a \in proofs')
      BY <2>4 DEF Vouch
    <3>7. /\ request[q].verified => a \in proofs
          /\ "unverified" \notin env => request[q].vouched
      BY <1>t, <2>1 DEF Justified
    <3>8. "overlap" \notin env => request[q].verified = profiles[a].verified
      BY <1>t, <2>1, Zenon DEF Justified
    <3>9. Justified(r, profiles', proofs')
      BY <3>2 DEF Justified
    <3> HIDE DEF r, row
    <3>10. row.verified => a \in proofs'
      <4>1. request[q].verified => a \in proofs'
        BY <3>6, <3>7
      <4>2. QED
        BY <3>5, <3>6, <4>1, Zenon
    <3>11. ~{"unverified", "overlap"} \subseteq env /\ profiles[a].verified => row.verified
      <4>1. ~{"unverified", "overlap"} \subseteq env => "unverified" \notin env \/ "overlap" \notin env
        OBVIOUS
      <4>2. QED
        BY <3>5, <3>7, <3>8, <4>1, Zenon
    <3>12. QED
      BY <1>4, <1>i, <2>1, <2>4, <3>1, <3>4, <3>6, <3>9, <3>10, <3>11, JustifiedWrite
      DEF LinkGoogle
  <2>5. QED
    BY <2>2, <2>3, <2>4
<1>5. QED
  BY <1>1, <1>2, <1>3, <1>4

LEMMA VerifiedInvariant == Spec => []VerifiedInv
<1>1. Init => VerifiedInv
  <2> SUFFICES ASSUME Init PROVE VerifiedInv
    OBVIOUS
  <2>1. \A q \in Request : request[q] = Idle
    BY DEF Init
  <2>2. Existing = {}
    BY DEF Init, Existing
  <2>3. Idle.pc = "idle"
    BY DEF Idle
  <2>4. QED
    BY <2>1, <2>2, <2>3 DEF Init, VerifiedInv, Alone, Justified, VerifiedTrue
<1>2. AccountsInv /\ VerifiedInv /\ [Next]_vars => VerifiedInv'
  <2> SUFFICES ASSUME AccountsInv, VerifiedInv, [Next]_vars PROVE VerifiedInv'
    OBVIOUS
  <2>1. ASSUME UNCHANGED <<env, profiles, proofs, told>>,
               UNCHANGED request \/ request' = [q \in Request |-> Idle]
        PROVE  VerifiedInv'
    <3>1. \A q \in Request : request'[q] = request[q] \/ request'[q] = Idle
      BY <2>1
    <3>2. Idle.pc = "idle"
      BY DEF Idle
    <3>3. \A q \in Request : Justified(request[q], profiles, proofs)'
      BY <2>1, <3>1, <3>2 DEF Justified, VerifiedInv
    <3>4. Existing' = Existing
      BY <2>1 DEF Existing
    <3>5. Alone' /\ VerifiedTrue'
      BY <2>1, <3>1, <3>4 DEF Alone, VerifiedTrue, VerifiedInv
    <3>6. QED
      BY <3>3, <3>5 DEF VerifiedInv
  <2>2. CASE \/ \E l \in links : LinkExpires(l)
             \/ \E g \in GoogleUser : \/ StartGoogle(g)
                                      \/ \E s \in 1..MaxSignIns : Cancel(s, g)
                                      \/ \E m \in Mailbox : Moves(g, m)
             \/ Crash
    BY <2>1, <2>2 DEF LinkExpires, StartGoogle, Cancel, Moves, Crash, world, tables, ghosts
  <2>3. CASE UNCHANGED vars
    BY <2>1, <2>3 DEF vars
  <2>4. QED
    BY <2>2, <2>3, JustifiedBegin, JustifiedReads, JustifiedWrites DEF Next
<1>3. QED
  BY <1>1, <1>2, AccountsInvariant, PTL DEF Spec

(* Verified means proved; and an account whose user was told it is         *)
(* verified is and stays so: a handler that writes the column back has     *)
(* either Google's word or a value no other request can have changed.      *)
THEOREM VerifiedIsTrue == Spec => []VerifiedTrue
<1>1. VerifiedInv => VerifiedTrue
  BY DEF VerifiedInv
<1>2. QED
  BY <1>1, VerifiedInvariant, PTL

-----------------------------------------------------------------------------
(* The link a user received last.                                          *)

Clean == env \cap {"overlap", "writeFails", "crash", "mailFails", "expires"} = {}

Mailing(r, a) == r.account = a /\ r.pc \in {"issue", "send"}

(* A mailbox holds its own links; the one under way is valid; and so is    *)
(* the last one, unless the account is verified or another is under way.   *)
LinksInv ==
    /\ \A a \in Account : /\ mail[a].last \in mail[a].all \cup {0}
                          /\ \A l \in mail[a].all : owner[l] = a
    /\ \A q \in Request : request[q].pc = "send" =>
          owner[request[q].link] = request[q].account /\ (Clean => request[q].link \in links)
    /\ Clean => \A a \in Existing :
          mail[a].last # 0 /\ ~profiles[a].verified
              /\ (\A q \in Request : ~Mailing(request[q], a)) => mail[a].last \in links

(* A step that leaves the links alone and takes no verification back.      *)
LEMMA LinksKept ==
    ASSUME LinksInv, UNCHANGED <<env, links, owner, mail>>,
           \A p \in Request : request'[p].pc = "send" => request'[p] = request[p],
           Clean => \A p \in Request :
                       request[p].pc \in {"issue", "send"} => request'[p] = request[p],
           Clean => \A a \in Existing' : mail[a].last # 0 /\ ~profiles'[a].verified =>
                       a \in Existing /\ ~profiles[a].verified
    PROVE  LinksInv'
<1>1. Clean' <=> Clean
  BY DEF Clean
<1>2. \A a \in Account : /\ mail'[a].last \in mail'[a].all \cup {0}
                         /\ \A l \in mail'[a].all : owner'[l] = a
  BY DEF LinksInv
<1>3. \A q \in Request : request'[q].pc = "send" =>
          owner'[request'[q].link] = request'[q].account /\ (Clean => request'[q].link \in links')
  BY DEF LinksInv
<1>4. ASSUME Clean, NEW a \in Existing', mail'[a].last # 0, ~profiles'[a].verified,
             \A q \in Request : ~Mailing(request'[q], a)
      PROVE  mail'[a].last \in links'
  <2>1. a \in Existing /\ ~profiles[a].verified /\ mail[a].last # 0
    BY <1>4
  <2>2. \A q \in Request : ~Mailing(request[q], a)
    BY <1>4 DEF Mailing
  <2>3. QED
    BY <1>4, <2>1, <2>2 DEF LinksInv
<1>5. QED
  BY <1>1, <1>2, <1>3, <1>4 DEF LinksInv

(* While a handler is at work no other is.                                 *)
LEMMA OthersIdle ==
    ASSUME VerifiedInv, Clean, NEW q \in Request, request[q].pc # "idle"
    PROVE  \A p \in Request \ {q} : request[p] = Idle
<1>1. request[q] # Idle
  BY DEF Idle
<1>2. "overlap" \notin env
  BY DEF Clean
<1>3. QED
  BY <1>1, <1>2 DEF VerifiedInv, Alone

(* The steps that delete, issue and mail links.                            *)
LEMMA LinksChange ==
    ASSUME AccountsInv, VerifiedInv, LinksInv, NEW q \in Request,
           ClearLinks(q) \/ IssueLink(q) \/ SendMail(q) \/ DropLinks(q)
    PROVE  LinksInv'
<1> DEFINE b == request[q].account
<1>t. /\ TypeOK /\ request[q] \in Handling /\ Fit(request[q])
      /\ b \in Existing /\ b \in Account
  BY DEF AccountsInv, TypeOK, Known, ClearLinks, IssueLink, SendMail, DropLinks, Fit, OfAccount,
         Existing
<1>e. /\ UNCHANGED <<env, profiles>> /\ Existing' = Existing /\ (Clean' <=> Clean)
      /\ request[q].pc \in {"clear", "issue", "send", "drop"}
  BY DEF ClearLinks, IssueLink, SendMail, DropLinks, world, tables, Existing, Clean
<1>o. Clean => \A p \in Request \ {q} : request[p].pc = "idle" /\ request'[p] = request[p]
  <2>1. \A p \in Request \ {q} : request'[p] = request[p]
    BY <1>t DEF ClearLinks, IssueLink, SendMail, DropLinks, Goto, Done, TypeOK
  <2>2. QED
    BY <1>e, <2>1, OthersIdle DEF Idle
<1>m. \A a \in Account : mail[a].last # 0 => owner[mail[a].last] = a
  BY DEF LinksInv
<1>1. CASE ClearLinks(q)
  <2>1. /\ UNCHANGED <<owner, mail>> /\ request[q].pc = "clear"
        /\ request' = [request EXCEPT ![q] = [request[q] EXCEPT !.pc = "issue"]]
        /\ Clean => links' = links \ OwnLinks(b)
    BY <1>1 DEF ClearLinks, world, Goto, Deleted, Clean
  <2>2. request'[q].pc = "issue" /\ request'[q].account = b
    BY <1>t, <2>1 DEF Handling, TypeOK
  <2>3. \A p \in Request \ {q} : request'[p] = request[p]
    BY <1>t, <2>1 DEF TypeOK
  <2>4. \A p \in Request : request'[p].pc = "send" =>
            owner'[request'[p].link] = request'[p].account /\ (Clean => request'[p].link \in links')
    BY <1>o, <2>1, <2>2, <2>3 DEF LinksInv
  <2>5. ASSUME Clean, NEW a \in Existing, mail[a].last # 0, ~profiles[a].verified,
               \A p \in Request : ~Mailing(request'[p], a)
        PROVE  mail[a].last \in links'
    <3>1. a # b
      BY <2>2, <2>5 DEF Mailing
    <3>2. \A p \in Request : ~Mailing(request[p], a)
      BY <2>1, <2>3, <2>5 DEF Mailing
    <3>3. mail[a].last \in links /\ owner[mail[a].last] = a
      BY <1>m, <2>5, <3>2 DEF LinksInv, Existing
    <3>4. QED
      BY <2>1, <2>5, <3>1, <3>3 DEF OwnLinks
  <2>6. QED
    BY <1>e, <2>1, <2>4, <2>5 DEF LinksInv
<1>2. CASE DropLinks(q)
  <2>1. /\ UNCHANGED <<owner, mail>> /\ request[q].pc = "drop"
        /\ request' = [request EXCEPT ![q] = Idle]
        /\ Clean => links' = links \ OwnLinks(b)
    BY <1>2 DEF DropLinks, world, Done, Deleted, Clean
  <2>2. request'[q].pc = "idle"
    BY <1>t, <2>1 DEF Idle, TypeOK
  <2>3. \A p \in Request \ {q} : request'[p] = request[p]
    BY <1>t, <2>1 DEF TypeOK
  <2>4. \A p \in Request : request'[p].pc = "send" =>
            owner'[request'[p].link] = request'[p].account /\ (Clean => request'[p].link \in links')
    BY <1>o, <2>1, <2>2, <2>3 DEF LinksInv
  <2>5. Clean => profiles[b].verified
    BY <2>1 DEF VerifiedInv, Justified, Clean
  <2>6. ASSUME Clean, NEW a \in Existing, mail[a].last # 0, ~profiles[a].verified
        PROVE  mail[a].last \in links'
    <3>1. a # b
      BY <2>5, <2>6
    <3>2. \A p \in Request : ~Mailing(request[p], a)
      BY <1>o, <2>1, <2>6 DEF Mailing
    <3>3. mail[a].last \in links /\ owner[mail[a].last] = a
      BY <1>m, <2>6, <3>2 DEF LinksInv, Existing
    <3>4. QED
      BY <2>1, <2>6, <3>1, <3>3 DEF OwnLinks
  <2>7. QED
    BY <1>e, <2>1, <2>4, <2>6 DEF LinksInv
<1>3. CASE IssueLink(q)
  <2>1. PICK l \in Link :
          /\ owner[l] = Nobody /\ owner' = [owner EXCEPT ![l] = b]
          /\ links' = links \cup {l} \/ ("writeFails" \in env /\ links' = links)
          /\ request' = [request EXCEPT ![q] = [request[q] EXCEPT !.pc = "send", !.link = l]]
          /\ mail' = mail /\ request[q].pc = "issue"
    BY <1>3 DEF IssueLink, world
  <2>2. request'[q].pc = "send" /\ request'[q].account = b /\ request'[q].link = l
    BY <1>t, <2>1 DEF Handling, TypeOK
  <2>3. \A p \in Request \ {q} : request'[p] = request[p]
    BY <1>t, <2>1 DEF TypeOK
  <2>4. owner'[l] = b /\ \A k \in Link \ {l} : owner'[k] = owner[k]
    BY <1>t, <2>1 DEF TypeOK
  <2>5. Clean => links' = links \cup {l}
    BY <2>1 DEF Clean
  <2>6. \A a \in Account : /\ mail'[a].last \in mail'[a].all \cup {0}
                           /\ \A k \in mail'[a].all : owner'[k] = a
    <3> SUFFICES ASSUME NEW a \in Account, NEW k \in mail[a].all
                 PROVE  owner'[k] = a
      BY <2>1 DEF LinksInv
    <3>1. owner[k] = a /\ k \in Link
      BY <1>t DEF LinksInv, TypeOK
    <3>2. k # l
      BY <2>1, <3>1, StepsAndPlaces
    <3>3. QED
      BY <2>4, <3>1, <3>2
  <2>7. ASSUME NEW p \in Request, request'[p].pc = "send"
        PROVE  owner'[request'[p].link] = request'[p].account /\ (Clean => request'[p].link \in links')
    <3>1. CASE p = q
      BY <2>2, <2>4, <2>5, <3>1
    <3>2. CASE p # q
      <4>1. request'[p] = request[p] /\ request[p].pc = "send" /\ Fit(request[p])
        BY <2>3, <2>7, <3>2 DEF AccountsInv, Known
      <4>2. /\ request[p].link \in Link /\ request[p].account \in Account
            /\ owner[request[p].link] = request[p].account
        BY <4>1 DEF Fit, OfAccount, Existing, LinksInv
      <4>3. request[p].link # l
        BY <2>1, <4>2, StepsAndPlaces
      <4>4. Clean => request[p].link \in links'
        BY <2>5, <2>7, <4>1 DEF LinksInv
      <4>5. QED
        BY <2>4, <4>1, <4>2, <4>3, <4>4
    <3>3. QED
      BY <3>1, <3>2
  <2>8. ASSUME Clean, NEW a \in Existing, mail[a].last # 0, ~profiles[a].verified,
               \A p \in Request : ~Mailing(request'[p], a)
        PROVE  mail[a].last \in links'
    <3>1. \A p \in Request : ~Mailing(request[p], a)
      BY <2>1, <2>2, <2>3, <2>8 DEF Mailing
    <3>2. QED
      BY <2>5, <2>8, <3>1 DEF LinksInv
  <2>9. QED
    BY <1>e, <2>1, <2>6, <2>7, <2>8 DEF LinksInv
<1>4. CASE SendMail(q)
  <2> DEFINE l == request[q].link
  <2>1. /\ UNCHANGED <<links, owner>> /\ request[q].pc = "send"
        /\ request' = [request EXCEPT ![q] = Idle]
        /\ \/ mail' = [mail EXCEPT ![b] = [all |-> mail[b].all \cup {l}, last |-> l]]
           \/ "mailFails" \in env /\ mail' = mail
    BY <1>4 DEF SendMail, world, tables, Done
  <2>2. request'[q].pc = "idle" /\ owner[l] = b /\ (Clean => l \in links)
    BY <1>t, <2>1 DEF Idle, TypeOK, LinksInv
  <2>3. \A p \in Request \ {q} : request'[p] = request[p]
    BY <1>t, <2>1 DEF TypeOK
  <2>4. \A a \in Account : \/ mail'[a] = mail[a] /\ (a # b \/ ~Clean)
                           \/ a = b /\ mail'[a] = [all |-> mail[b].all \cup {l}, last |-> l]
    BY <1>t, <2>1 DEF TypeOK, Clean
  <2>5. \A a \in Account : /\ mail'[a].last \in mail'[a].all \cup {0}
                           /\ \A k \in mail'[a].all : owner'[k] = a
    <3> SUFFICES ASSUME NEW a \in Account
                 PROVE  /\ mail'[a].last \in mail'[a].all \cup {0}
                        /\ \A k \in mail'[a].all : owner'[k] = a
      OBVIOUS
    <3>1. CASE mail'[a] = mail[a]
      BY <2>1, <3>1 DEF LinksInv
    <3>2. CASE a = b /\ mail'[a] = [all |-> mail[b].all \cup {l}, last |-> l]
      <4>1. mail'[a].all = mail[b].all \cup {l} /\ mail'[a].last = l
        BY <3>2
      <4>2. QED
        BY <2>1, <2>2, <3>2, <4>1 DEF LinksInv
    <3>3. QED
      BY <2>4, <3>1, <3>2
  <2>6. \A p \in Request : request'[p].pc = "send" =>
            owner'[request'[p].link] = request'[p].account /\ (Clean => request'[p].link \in links')
    BY <2>1, <2>2, <2>3 DEF LinksInv
  <2>7. ASSUME Clean, NEW a \in Existing, mail'[a].last # 0, ~profiles[a].verified
        PROVE  mail'[a].last \in links'
    <3>1. CASE mail'[a] = mail[a] /\ a # b
      <4>1. \A p \in Request : ~Mailing(request[p], a)
        BY <1>o, <2>7, <3>1 DEF Mailing
      <4>2. QED
        BY <2>1, <2>7, <3>1, <4>1 DEF LinksInv
    <3>2. CASE a = b /\ mail'[a] = [all |-> mail[b].all \cup {l}, last |-> l]
      BY <2>1, <2>2, <2>7, <3>2
    <3>3. QED
      BY <2>4, <2>7, <3>1, <3>2 DEF Existing
  <2>8. QED
    BY <1>e, <2>5, <2>6, <2>7 DEF LinksInv
<1>5. QED
  BY <1>1, <1>2, <1>3, <1>4

(* The steps of one handler that leave the links alone.                    *)
LEMMA HandlerKeeps ==
    ASSUME AccountsInv, VerifiedInv, LinksInv, NEW q \in Request, NEW r \in Handling,
           request' = [request EXCEPT ![q] = r], r.pc # "send",
           request[q].pc \notin {"issue", "send"},
           UNCHANGED <<env, links, owner, mail>>,
           \/ profiles' = profiles
           \/ \E a \in Account, row \in Row :
                 /\ profiles' = [profiles EXCEPT ![a] = row]
                 /\ Clean /\ ~row.verified => a \notin Existing \/ ~profiles[a].verified
    PROVE  LinksInv'
<1>t. TypeOK /\ Known
  BY DEF AccountsInv
<1>1. \A p \in Request : IF p = q THEN request'[p] = r ELSE request'[p] = request[p]
  BY <1>t DEF TypeOK
<1>2. ASSUME NEW a \in Existing', mail[a].last # 0, ~profiles'[a].verified, Clean
      PROVE  a \in Existing /\ ~profiles[a].verified
  <2>0. a \in Account
    BY DEF Existing
  <2>1. CASE profiles' = profiles
    BY <1>2, <2>1 DEF Existing
  <2>2. ASSUME NEW b \in Account, NEW row \in Row,
               profiles' = [profiles EXCEPT ![b] = row],
               ~row.verified => b \notin Existing \/ ~profiles[b].verified
        PROVE  a \in Existing /\ ~profiles[a].verified
    <3>1. profiles'[a] = IF a = b THEN row ELSE profiles[a]
      BY <1>t, <2>0, <2>2 DEF TypeOK
    <3>2. mail[a].last \in mail[a].all
      BY <1>2, <2>0 DEF LinksInv
    <3>3. a \in Existing
      BY <1>t, <2>0, <3>2 DEF Known
    <3>4. QED
      BY <1>2, <2>2, <3>1, <3>3
  <2>3. QED
    BY <1>2, <2>1, <2>2
<1>3. QED
  BY <1>1, <1>2, LinksKept

(* ... that begins or goes on to a step.                                   *)
LEMMA QuietKeeps ==
    ASSUME AccountsInv, VerifiedInv, LinksInv, NEW q \in Request,
           request[q].pc \notin {"issue", "send"},
           UNCHANGED <<env, profiles, links, owner, mail>>,
           \E r \in Handling : r.pc # "send" /\ request' = [request EXCEPT ![q] = r]
    PROVE  LinksInv'
BY HandlerKeeps

LEMMA BeginKeeps ==
    ASSUME AccountsInv, VerifiedInv, LinksInv, NEW q \in Request,
           \/ \E t \in Typed : Register(q, t)
           \/ \E a \in Account : Resend(q, a) \/ \E l \in Link : VerifyEmail(q, a, l)
           \/ \E s \in 1..MaxSignIns, g \in GoogleUser : Callback(q, s, g)
    PROVE  LinksInv'
<1> USE DEF world, tables, ghosts
<1>1. MayBegin(q) /\ UNCHANGED <<env, profiles, links, owner, mail>>
  BY DEF Register, Resend, VerifyEmail, Callback
<1>2. request[q].pc = "idle"
  BY <1>1 DEF MayBegin, Idle
<1>3. /\ \A t \in Typed : Lower(t) \in Address
      /\ {"find", "status", "match", "byGoogle", "refused"} \subseteq Step
  BY DEF Typed, Lower, Address, Step
<1>4. \E r \in Handling : r.pc # "send" /\ request' = [request EXCEPT ![q] = r]
  <2>1. ASSUME NEW t \in Typed, Register(q, t)
        PROVE  \E r \in Handling : r.pc # "send" /\ request' = [request EXCEPT ![q] = r]
    <3> DEFINE r == [Idle EXCEPT !.op = "register", !.pc = "find", !.email = Lower(t)]
    <3>1. r \in Handling /\ r.pc = "find"
      BY <1>3, IdleType DEF Handling, Idle
    <3>2. QED
      BY <2>1, <3>1 DEF Register, Begin
  <2>2. ASSUME NEW a \in Account, Resend(q, a)
        PROVE  \E r \in Handling : r.pc # "send" /\ request' = [request EXCEPT ![q] = r]
    <3> DEFINE r == [Idle EXCEPT !.op = "resend", !.pc = "status", !.account = a]
    <3>1. r \in Handling /\ r.pc = "status"
      BY <1>3, IdleType DEF Handling, Idle
    <3>2. QED
      BY <2>2, <3>1 DEF Resend, Begin
  <2>3. ASSUME NEW a \in Account, NEW l \in Link, VerifyEmail(q, a, l)
        PROVE  \E r \in Handling : r.pc # "send" /\ request' = [request EXCEPT ![q] = r]
    <3> DEFINE r == [Idle EXCEPT !.op = "verify", !.pc = "match", !.account = a, !.link = l]
    <3>1. r \in Handling /\ r.pc = "match"
      BY <1>3, IdleType DEF Handling, Idle
    <3>2. QED
      BY <2>3, <3>1 DEF VerifyEmail, Begin
  <2>4. ASSUME NEW s \in 1..MaxSignIns, NEW g \in GoogleUser, Callback(q, s, g)
        PROVE  \E r \in Handling : r.pc # "send" /\ request' = [request EXCEPT ![q] = r]
    <3>1. PICK v \in BOOLEAN, t \in Typed :
            Begin(q, [Idle EXCEPT !.op = "google", !.google = g, !.email = Lower(t), !.vouched = v,
                                  !.pc = IF s = oauth THEN "byGoogle" ELSE "refused"])
      BY <2>4 DEF Callback
    <3> DEFINE pc == IF s = oauth THEN "byGoogle" ELSE "refused"
               r == [Idle EXCEPT !.op = "google", !.google = g, !.email = Lower(t), !.vouched = v,
                                 !.pc = pc]
    <3>2. pc \in Step /\ pc # "send"
      BY <1>3
    <3>3. r \in Handling /\ r.pc = pc
      BY <1>3, <3>2, IdleType DEF Handling, Idle
    <3>4. request' = [request EXCEPT ![q] = r]
      BY <3>1 DEF Begin
    <3>5. QED
      BY <3>2, <3>3, <3>4
  <2>5. QED
    BY <2>1, <2>2, <2>3, <2>4
<1>5. QED
  BY <1>1, <1>2, <1>4, QuietKeeps

LEMMA ReadKeeps ==
    ASSUME AccountsInv, VerifiedInv, LinksInv, NEW q \in Request,
           FindEmail(q) \/ ReadStatus(q) \/ FindByGoogleId(q) \/ FindByEmail(q) \/ MatchLink(q)
             \/ SignedIn(q) \/ Refused(q)
    PROVE  LinksInv'
<1>t. TypeOK /\ request[q] \in Handling
  BY DEF AccountsInv, TypeOK
<1>1. /\ request[q].pc \notin {"issue", "send"}
      /\ UNCHANGED <<env, profiles, links, owner, mail>>
  BY DEF FindEmail, ReadStatus, FindByGoogleId, FindByEmail, MatchLink, SignedIn, Refused,
         world, tables
<1>2. ASSUME NEW pc \in Step \ {"send"}, Goto(q, pc)
      PROVE  LinksInv'
  <2>1. [request[q] EXCEPT !.pc = pc] \in Handling /\ [request[q] EXCEPT !.pc = pc].pc = pc
    BY <1>t, UpdatedType DEF Handling
  <2>2. QED
    BY <1>1, <1>2, <2>1, QuietKeeps DEF Goto
<1>3. ASSUME Done(q)
      PROVE  LinksInv'
  <2>1. Idle.pc # "send"
    BY DEF Idle
  <2>2. QED
    BY <1>1, <1>3, <2>1, IdleType, QuietKeeps DEF Done
<1>4. ASSUME NEW a \in Existing,
             request' = [request EXCEPT ![q].pc = "session", ![q].account = a]
      PROVE  LinksInv'
  <2> DEFINE r == [request[q] EXCEPT !.pc = "session", !.account = a]
  <2>1. r \in Handling
    BY <1>t, UpdatedType, StepsAndPlaces DEF Existing, OfAccount
  <2>2. r.pc = "session"
    BY <1>t DEF Handling
  <2>3. request' = [request EXCEPT ![q] = r]
    BY <1>4
  <2>4. QED
    BY <1>1, <2>1, <2>2, <2>3, QuietKeeps
<1>5. ASSUME NEW a \in Existing,
             request' = [request EXCEPT ![q].pc = "link", ![q].account = a,
                                        ![q].verified = profiles[a].verified]
      PROVE  LinksInv'
  <2> DEFINE v == profiles[a].verified
             r == [request[q] EXCEPT !.pc = "link", !.account = a, !.verified = v]
  <2>0. a \in Account /\ v \in BOOLEAN
    BY <1>t, RowsOfExisting DEF Existing, Row
  <2>1. r \in Handling
    BY <1>t, <2>0, UpdatedType, StepsAndPlaces DEF OfAccount
  <2>2. r.pc = "link"
    BY <1>t DEF Handling
  <2>3. request' = [request EXCEPT ![q] = r]
    BY <1>5
  <2>4. QED
    BY <1>1, <2>1, <2>2, <2>3, QuietKeeps
<1>6. {"insert", "refused", "clear", "byEmail", "create", "mark"} \subseteq Step \ {"send"}
  BY DEF Step
<1>7. CASE FindEmail(q) \/ ReadStatus(q) \/ MatchLink(q) \/ SignedIn(q) \/ Refused(q)
  BY <1>2, <1>3, <1>6, <1>7 DEF FindEmail, ReadStatus, MatchLink, SignedIn, Refused
<1>8. CASE FindByGoogleId(q)
  BY <1>2, <1>4, <1>6, <1>8 DEF FindByGoogleId, Found
<1>9. CASE FindByEmail(q)
  BY <1>2, <1>5, <1>6, <1>9 DEF FindByEmail, Found
<1>10. QED
  BY <1>7, <1>8, <1>9

LEMMA WritesKeep ==
    ASSUME AccountsInv, VerifiedInv, LinksInv, NEW q \in Request,
           InsertProfile(q) \/ CreateGoogle(q) \/ MarkVerified(q) \/ LinkGoogle(q)
    PROVE  LinksInv'
<1>t. /\ TypeOK /\ request[q] \in Handling /\ Fit(request[q])
      /\ Justified(request[q], profiles, proofs)
  BY DEF AccountsInv, VerifiedInv, Known, TypeOK
<1>u. /\ request[q].pc \notin {"issue", "send"}
      /\ UNCHANGED <<env, links, owner, mail>>
  BY DEF InsertProfile, CreateGoogle, MarkVerified, LinkGoogle, world
<1>g. ASSUME NEW pc \in Step \ {"send"}, Goto(q, pc),
             \/ profiles' = profiles
             \/ \E a \in Account, row \in Row :
                   /\ profiles' = [profiles EXCEPT ![a] = row]
                   /\ Clean /\ ~row.verified => a \notin Existing \/ ~profiles[a].verified
      PROVE  LinksInv'
  <2> DEFINE r == [request[q] EXCEPT !.pc = pc]
  <2>1. r \in Handling
    BY <1>t, UpdatedType
  <2>2. r.pc = pc
    BY <1>t DEF Handling
  <2>3. request' = [request EXCEPT ![q] = r]
    BY <1>g DEF Goto
  <2> HIDE DEF r
  <2>4. QED
    BY <1>u, <1>g, <2>1, <2>2, <2>3, HandlerKeeps
<1>n. ASSUME NEW row \in Row, NEW next \in {"issue", "session"}, InsertRow(q, row, next)
      PROVE  LinksInv'
  <2>1. ASSUME NEW a \in Account \ Existing, profiles' = [profiles EXCEPT ![a] = row],
               request' = [request EXCEPT ![q].pc = next, ![q].account = a]
        PROVE  LinksInv'
    <3> DEFINE r == [request[q] EXCEPT !.pc = next, !.account = a]
    <3>1. r \in Handling
      BY <1>t, UpdatedType DEF Step
    <3>2. r.pc = next /\ next # "send"
      BY <1>t DEF Handling
    <3>3. request' = [request EXCEPT ![q] = r]
      BY <2>1
    <3> HIDE DEF r
    <3>4. QED
      BY <1>u, <2>1, <3>1, <3>2, <3>3, HandlerKeeps
  <2>2. "refused" \in Step \ {"send"}
    BY DEF Step
  <2>3. QED
    BY <1>n, <1>g, <2>1, <2>2 DEF InsertRow
<1>1. CASE InsertProfile(q)
  <2> DEFINE row == [NoRow EXCEPT !.email = request[q].email]
  <2>1. request[q].email \in Address
    BY <1>1, <1>t DEF InsertProfile, Fit, OfAddress
  <2>2. row \in Row
    BY <2>1 DEF Row, NoRow
  <2>3. InsertRow(q, row, "issue")
    BY <1>1 DEF InsertProfile
  <2> HIDE DEF row
  <2>4. QED
    BY <1>n, <2>2, <2>3
<1>2. CASE CreateGoogle(q)
  <2> DEFINE row == [email |-> request[q].email, google |-> request[q].google,
                     verified |-> request[q].vouched]
  <2>1. request[q].email \in Address
    BY <1>2, <1>t DEF CreateGoogle, Fit, OfAddress
  <2>2. row \in Row
    BY <1>t, <2>1 DEF Row, Handling
  <2>3. InsertRow(q, row, "session")
    BY <1>2 DEF CreateGoogle
  <2> HIDE DEF row
  <2>4. QED
    BY <1>n, <2>2, <2>3
<1>3. CASE MarkVerified(q)
  <2> DEFINE a == request[q].account
             row == [profiles[a] EXCEPT !.verified = TRUE]
  <2>1. a \in Existing /\ a \in Account
    BY <1>3, <1>t DEF MarkVerified, Fit, OfAccount, Existing
  <2>2. profiles[a] \in Row
    BY <1>t, <2>1, RowsOfExisting
  <2>3. row \in Row /\ row.verified
    BY <2>2 DEF Row
  <2>4. profiles' = profiles \/ profiles' = [profiles EXCEPT ![a] = row]
    BY <1>3 DEF MarkVerified
  <2>5. Goto(q, "drop") /\ "drop" \in Step \ {"send"}
    BY <1>3 DEF MarkVerified, Step
  <2> HIDE DEF row
  <2>6. QED
    BY <1>g, <2>1, <2>3, <2>4, <2>5
<1>4. CASE LinkGoogle(q)
  <2> DEFINE a == request[q].account
             row == [profiles[a] EXCEPT !.google = request[q].google,
                                        !.verified = request[q].vouched \/ request[q].verified]
  <2>1. a \in Existing /\ a \in Account /\ request[q].pc = "link"
    BY <1>4, <1>t DEF LinkGoogle, Fit, OfAccount, Existing
  <2>2. profiles[a] \in Row /\ request[q].vouched \in BOOLEAN /\ request[q].verified \in BOOLEAN
    BY <1>t, <2>1, RowsOfExisting DEF Handling
  <2>3. row \in Row /\ row.verified = (request[q].vouched \/ request[q].verified)
    BY <1>t, <2>2 DEF Row, Handling
  <2>4. Clean => request[q].verified = profiles[a].verified
    BY <1>t, <2>1 DEF Justified, Clean
  <2>5. Clean /\ ~row.verified => ~profiles[a].verified
    <3> HIDE DEF row
    <3>1. QED
      BY <2>3, <2>4, Zenon
  <2>6. {"session", "refused"} \subseteq Step \ {"send"}
    BY DEF Step
  <2>7. \/ Goto(q, "session") /\ profiles' = [profiles EXCEPT ![a] = row]
        \/ Goto(q, "refused") /\ profiles' = profiles
    BY <1>4 DEF LinkGoogle
  <2> HIDE DEF row
  <2>8. QED
    BY <1>g, <2>1, <2>3, <2>5, <2>6, <2>7
<1>5. QED
  BY <1>1, <1>2, <1>3, <1>4

(* The user, the mailboxes, the clock and a crash.                         *)
LEMMA OthersKeep ==
    ASSUME AccountsInv, LinksInv,
           \/ \E l \in links : LinkExpires(l)
           \/ \E g \in GoogleUser : \/ StartGoogle(g)
                                    \/ \E s \in 1..MaxSignIns : Cancel(s, g)
                                    \/ \E m \in Mailbox : Moves(g, m)
           \/ Crash
    PROVE  LinksInv'
<1>1. ASSUME NEW l \in links, LinkExpires(l) PROVE LinksInv'
  <2>1. ~Clean /\ ~Clean'
    BY <1>1 DEF LinkExpires, Clean, world
  <2>2. QED
    BY <1>1, <2>1 DEF LinkExpires, LinksInv
<1>2. ASSUME UNCHANGED <<env, profiles, links, owner, mail, request>> PROVE LinksInv'
  BY <1>2 DEF LinksInv, Clean, Existing, Mailing
<1>3. ASSUME Crash PROVE LinksInv'
  <2>1. ~Clean /\ ~Clean' /\ \A q \in Request : request'[q].pc = "idle"
    BY <1>3 DEF Crash, Clean, world, Idle
  <2>2. QED
    BY <1>3, <2>1 DEF Crash, LinksInv, tables
<1>4. QED
  BY <1>1, <1>2, <1>3 DEF StartGoogle, Cancel, Moves, tables

LEMMA LinksInvariant == Spec => []LinksInv
<1>1. Init => LinksInv
  <2> SUFFICES ASSUME Init PROVE LinksInv
    OBVIOUS
  <2>1. \A q \in Request : request[q].pc = "idle"
    BY DEF Init, Idle
  <2>2. \A a \in Account : mail[a].all = {} /\ mail[a].last = 0
    BY DEF Init
  <2>3. QED
    BY <2>1, <2>2 DEF LinksInv, Existing
<1>2. AccountsInv /\ VerifiedInv /\ LinksInv /\ [Next]_vars => LinksInv'
  <2> SUFFICES ASSUME AccountsInv, VerifiedInv, LinksInv, [Next]_vars PROVE LinksInv'
    OBVIOUS
  <2>1. CASE UNCHANGED vars
    BY <2>1 DEF vars, LinksInv, Clean, Existing, Mailing
  <2>2. QED
    BY <2>1, BeginKeeps, ReadKeeps, LinksChange, WritesKeep, OthersKeep DEF Next
<1>3. QED
  BY <1>1, <1>2, AccountsInvariant, VerifiedInvariant, PTL DEF Spec

(* Who is not verified can be: among requests that do not overlap, a link  *)
(* is deleted only after the account was marked, or before the one that    *)
(* replaces it is issued and mailed.                                       *)
THEOREM LastLinkIsValid == Spec => []LastLinkWorks
<1>1. LinksInv => LastLinkWorks
  BY DEF LinksInv, LastLinkWorks, Clean, Mailing
<1>2. QED
  BY <1>1, LinksInvariant, PTL

-----------------------------------------------------------------------------
(* The account a Google user comes back to.                                *)

Sure == env \cap {"overlap", "twoTabs", "reassigned", "readFails", "writeFails"} = {}

GoogleSteps == {"byGoogle", "byEmail", "link", "create", "session"}
Plain(r) == r.google = None /\ r.pc \notin GoogleSteps

(* A sign-in is not refused, and what it has found out is still true.      *)
Tracked(r, rows, boxes) ==
    /\ r.google # None => /\ r.op = "google" /\ r.pc \in GoogleSteps
                          /\ r.email.box = boxes[r.google]
    /\ r.pc \in GoogleSteps => r.google # None
    /\ r.pc \in {"byEmail", "link", "create"} => \A a \in Account : rows[a].google # r.google
    /\ r.pc = "create" => \A a \in Account : rows[a].email # r.email
    /\ r.pc = "link" => rows[r.account].email = r.email
    /\ r.pc = "session" => rows[r.account].google = r.google

(* The sign-in that is with Google is the one of the cookie.               *)
OneTab == \A x, y \in signIns : x = y /\ x[1] = oauth

(* An address has been that of one Google user only.                       *)
OwnAddresses ==
    /\ \A g \in GoogleUser : address[g] \in past[g]
    /\ \A g, h \in GoogleUser : g # h => past[g] \cap past[h] = {}

(* An account linked to a Google user has an address of theirs.            *)
OwnRows(rows) ==
    \A a \in Account : rows[a].google # None => rows[a].email.box \in past[rows[a].google]

AtHome(homes, rows) ==
    \A g \in GoogleUser : homes[g] # Nobody =>
        homes[g] \in Account /\ rows[homes[g]].google = g

GoogleInv ==
    Sure => /\ \A q \in Request : Tracked(request[q], profiles, address)
            /\ OneTab /\ OwnAddresses /\ OwnRows(profiles) /\ AtHome(home, profiles)

LEMMA PlainTracked ==
    ASSUME NEW r, NEW rows, NEW boxes, Plain(r)
    PROVE  Tracked(r, rows, boxes)
BY DEF Plain, Tracked, GoogleSteps

LEMMA IdlePlain == Plain(Idle) /\ {"byGoogle", "byEmail", "link", "create", "session"} \subseteq Step
BY DEF Plain, Idle, GoogleSteps, Step

(* A step of one request that leaves the rows alone.                       *)
LEMMA TrackedStep ==
    ASSUME TypeOK, GoogleInv, NEW q \in Request, NEW r \in Handling,
           request' = [request EXCEPT ![q] = r],
           UNCHANGED <<env, profiles, address, past>>,
           signIns' \subseteq signIns, signIns' = {} \/ oauth' = oauth,
           Sure => Tracked(r, profiles, address) /\ AtHome(home', profiles)
    PROVE  GoogleInv'
<1>1. Sure' <=> Sure
  BY DEF Sure
<1>2. ASSUME Sure PROVE \A p \in Request : Tracked(request'[p], profiles, address)
  <2> SUFFICES ASSUME NEW p \in Request PROVE Tracked(request'[p], profiles, address)
    OBVIOUS
  <2>1. request'[p] = r \/ request'[p] = request[p]
    BY DEF TypeOK
  <2>2. CASE request'[p] = r
    BY <1>2, <2>2
  <2>3. CASE request'[p] = request[p]
    BY <1>2, <2>3 DEF GoogleInv
  <2>4. QED
    BY <2>1, <2>2, <2>3
<1>3. Sure => OneTab'
  BY DEF GoogleInv, OneTab
<1>4. Sure => OwnAddresses'
  BY DEF GoogleInv, OwnAddresses
<1>5. Sure => OwnRows(profiles)'
  BY DEF GoogleInv, OwnRows
<1>6. (\A p \in Request : Tracked(request[p], profiles, address))'
        <=> \A p \in Request : Tracked(request'[p], profiles, address)
  BY DEF Tracked
<1>7. AtHome(home, profiles)' <=> AtHome(home', profiles)
  BY DEF AtHome
<1>8. QED
  BY <1>1, <1>2, <1>3, <1>4, <1>5, <1>6, <1>7 DEF GoogleInv

(* A step of one request, alone, that changes a row.                       *)
LEMMA TrackedRow ==
    ASSUME TypeOK, VerifiedInv, GoogleInv, NEW q \in Request, NEW r \in Handling,
           request' = [request EXCEPT ![q] = r], request[q] # Idle,
           UNCHANGED <<env, address, past, signIns, oauth, home>>,
           NEW a \in Account, NEW row \in Row, profiles' = [profiles EXCEPT ![a] = row],
           Sure => /\ Tracked(r, profiles', address)
                   /\ row.google # None => row.email.box \in past[row.google]
                   /\ profiles[a].google # None => row.google = profiles[a].google
    PROVE  GoogleInv'
<1>1. Sure' <=> Sure
  BY DEF Sure
<1>r. \A b \in Account : profiles'[b] = IF b = a THEN row ELSE profiles[b]
  BY DEF TypeOK
<1>2. ASSUME Sure PROVE \A p \in Request : Tracked(request'[p], profiles', address)
  <2> SUFFICES ASSUME NEW p \in Request PROVE Tracked(request'[p], profiles', address)
    OBVIOUS
  <2>1. \/ request'[p] = r
        \/ request'[p] = request[p] /\ p # q
    BY DEF TypeOK
  <2>2. CASE request'[p] = r
    BY <1>2, <2>2
  <2>3. CASE request'[p] = request[p] /\ p # q
    <3>1. "overlap" \notin env
      BY <1>2 DEF Sure
    <3>2. request[p] = Idle
      BY <2>3, <3>1 DEF VerifiedInv, Alone
    <3>3. QED
      BY <2>3, <3>2, IdlePlain, PlainTracked
  <2>4. QED
    BY <2>1, <2>2, <2>3
<1>3. Sure => OneTab' /\ OwnAddresses'
  BY DEF GoogleInv, OneTab, OwnAddresses
<1>4. Sure => OwnRows(profiles)'
  BY <1>r DEF GoogleInv, OwnRows
<1>5. ASSUME Sure PROVE AtHome(home, profiles)'
  <2> SUFFICES ASSUME NEW g \in GoogleUser, home[g] # Nobody
               PROVE  home[g] \in Account /\ profiles'[home[g]].google = g
    BY DEF AtHome
  <2>1. home[g] \in Account /\ profiles[home[g]].google = g /\ g # None
    BY <1>5, NoneAssumption DEF GoogleInv, AtHome
  <2>2. QED
    BY <1>5, <1>r, <2>1
<1>6. (\A p \in Request : Tracked(request[p], profiles, address))'
        <=> \A p \in Request : Tracked(request'[p], profiles', address)
  BY DEF Tracked
<1>7. QED
  BY <1>1, <1>2, <1>3, <1>4, <1>5, <1>6 DEF GoogleInv

(* A request begins.                                                       *)
LEMMA TrackedBegin ==
    ASSUME AccountsInv, GoogleInv, NEW q \in Request,
           \/ \E t \in Typed : Register(q, t)
           \/ \E a \in Account : Resend(q, a) \/ \E l \in Link : VerifyEmail(q, a, l)
           \/ \E s \in 1..MaxSignIns, g \in GoogleUser : Callback(q, s, g)
    PROVE  GoogleInv'
<1> USE DEF world, tables, ghosts
<1>t. TypeOK /\ (Sure => AtHome(home, profiles))
  BY DEF AccountsInv, GoogleInv
<1>0. /\ \A t \in Typed : Lower(t) \in Address /\ Lower(t).box = t.box
      /\ {"find", "status", "match", "byGoogle", "refused"} \subseteq Step
  BY DEF Typed, Lower, Address, Step
<1>1. ASSUME NEW t \in Typed, Register(q, t) PROVE GoogleInv'
  <2> DEFINE r == [Idle EXCEPT !.op = "register", !.pc = "find", !.email = Lower(t)]
  <2>1. r \in Handling
    BY <1>0, IdleType DEF Handling
  <2>2. Plain(r)
    BY DEF Plain, Idle, GoogleSteps
  <2>3. request' = [request EXCEPT ![q] = r]
    BY <1>1 DEF Register, Begin
  <2> HIDE DEF r
  <2>4. QED
    BY <1>1, <1>t, <2>1, <2>2, <2>3, PlainTracked, TrackedStep DEF Register
<1>2. ASSUME NEW a \in Account, Resend(q, a) PROVE GoogleInv'
  <2> DEFINE r == [Idle EXCEPT !.op = "resend", !.pc = "status", !.account = a]
  <2>1. r \in Handling
    BY <1>0, IdleType DEF Handling
  <2>2. Plain(r)
    BY DEF Plain, Idle, GoogleSteps
  <2>3. request' = [request EXCEPT ![q] = r]
    BY <1>2 DEF Resend, Begin
  <2> HIDE DEF r
  <2>4. QED
    BY <1>2, <1>t, <2>1, <2>2, <2>3, PlainTracked, TrackedStep DEF Resend
<1>3. ASSUME NEW a \in Account, NEW l \in Link, VerifyEmail(q, a, l) PROVE GoogleInv'
  <2> DEFINE r == [Idle EXCEPT !.op = "verify", !.pc = "match", !.account = a, !.link = l]
  <2>1. r \in Handling
    BY <1>0, IdleType DEF Handling
  <2>2. Plain(r)
    BY DEF Plain, Idle, GoogleSteps
  <2>3. request' = [request EXCEPT ![q] = r]
    BY <1>3 DEF VerifyEmail, Begin
  <2> HIDE DEF r
  <2>4. QED
    BY <1>3, <1>t, <2>1, <2>2, <2>3, PlainTracked, TrackedStep DEF VerifyEmail
<1>4. ASSUME NEW s \in 1..MaxSignIns, NEW g \in GoogleUser, Callback(q, s, g) PROVE GoogleInv'
  <2>1. PICK v \in BOOLEAN, t \in Typed :
          /\ t.box = address[g]
          /\ Begin(q, [Idle EXCEPT !.op = "google", !.google = g, !.email = Lower(t), !.vouched = v,
                                   !.pc = IF s = oauth THEN "byGoogle" ELSE "refused"])
    BY <1>4 DEF Callback
  <2> DEFINE pc == IF s = oauth THEN "byGoogle" ELSE "refused"
             r == [Idle EXCEPT !.op = "google", !.google = g, !.email = Lower(t), !.vouched = v,
                               !.pc = pc]
  <2>2. pc \in Step
    BY <1>0
  <2>3. r \in Handling
    BY <1>0, <2>2, IdleType DEF Handling
  <2>4. r.op = "google" /\ r.google = g /\ r.email = Lower(t) /\ r.pc = pc
    BY DEF Idle
  <2>5. request' = [request EXCEPT ![q] = r]
    BY <2>1 DEF Begin
  <2>6. Sure => s = oauth
    BY <1>4 DEF Callback, GoogleInv, OneTab
  <2>7. Sure => Tracked(r, profiles, address)
    BY <1>0, <2>1, <2>4, <2>6, NoneAssumption DEF Tracked, GoogleSteps
  <2>8. signIns' \subseteq signIns /\ (Sure => signIns' = {})
    BY <1>4 DEF Callback, GoogleInv, OneTab
  <2>9. UNCHANGED <<env, profiles, address, past, home>>
    BY <1>4 DEF Callback
  <2> HIDE DEF r
  <2>10. CASE Sure
    BY <1>t, <2>3, <2>5, <2>7, <2>8, <2>9, <2>10, TrackedStep
  <2>11. CASE ~Sure
    BY <2>9, <2>11 DEF GoogleInv, Sure
  <2>12. QED
    BY <2>10, <2>11
<1>5. QED
  BY <1>1, <1>2, <1>3, <1>4

(* A request goes on to a step that is no step of a sign-in, or ends.      *)
LEMMA TrackedGoto ==
    ASSUME AccountsInv, GoogleInv, NEW q \in Request,
           UNCHANGED <<world, profiles, oauth>>,
           Sure => AtHome(home', profiles),
           \/ Done(q)
           \/ /\ request[q].pc \notin GoogleSteps
              /\ \E pc \in Step \ GoogleSteps : Goto(q, pc)
           \/ /\ request[q].pc \notin GoogleSteps
              /\ \E l \in Link : request' = [request EXCEPT ![q].pc = "send", ![q].link = l]
    PROVE  GoogleInv'
<1>t. TypeOK /\ request[q] \in Handling
  BY DEF AccountsInv, TypeOK
<1>g. /\ UNCHANGED <<env, profiles, address, past>>
      /\ signIns' \subseteq signIns /\ oauth' = oauth
  BY DEF world
<1>n. Sure /\ request[q].pc \notin GoogleSteps => request[q].google = None
  BY DEF GoogleInv, Tracked
<1>1. ASSUME NEW r \in Handling, request' = [request EXCEPT ![q] = r], Sure => Plain(r)
      PROVE  GoogleInv'
  BY <1>t, <1>g, <1>1, PlainTracked, TrackedStep
<1>2. CASE Done(q)
  BY <1>1, <1>2, IdleType, IdlePlain DEF Done
<1>3. ASSUME request[q].pc \notin GoogleSteps, NEW pc \in Step \ GoogleSteps, Goto(q, pc)
      PROVE  GoogleInv'
  <2> DEFINE r == [request[q] EXCEPT !.pc = pc]
  <2>1. r \in Handling
    BY <1>t, UpdatedType
  <2>2. r.pc = pc /\ r.google = request[q].google
    BY <1>t DEF Handling
  <2>3. request' = [request EXCEPT ![q] = r]
    BY <1>3 DEF Goto
  <2> HIDE DEF r
  <2>4. QED
    BY <1>n, <1>1, <1>3, <2>1, <2>2, <2>3 DEF Plain
<1>4. ASSUME request[q].pc \notin GoogleSteps, NEW l \in Link,
             request' = [request EXCEPT ![q].pc = "send", ![q].link = l]
      PROVE  GoogleInv'
  <2> DEFINE r == [request[q] EXCEPT !.pc = "send", !.link = l]
  <2>1. r \in Handling
    BY <1>t, UpdatedType, StepsAndPlaces DEF OfAccount
  <2>2. r.pc = "send" /\ r.google = request[q].google
    BY <1>t DEF Handling
  <2>3. request' = [request EXCEPT ![q] = r]
    BY <1>4
  <2> HIDE DEF r
  <2>4. QED
    BY <1>n, <1>1, <1>4, <2>1, <2>2, <2>3 DEF Plain, GoogleSteps
<1>5. QED
  BY <1>2, <1>3, <1>4

(* Steps of registration and verification.                                 *)
LEMMA TrackedLinks ==
    ASSUME AccountsInv, GoogleInv, NEW q \in Request,
           FindEmail(q) \/ ReadStatus(q) \/ MatchLink(q)
             \/ ClearLinks(q) \/ IssueLink(q) \/ SendMail(q) \/ DropLinks(q)
    PROVE  GoogleInv'
<1>1. UNCHANGED <<world, profiles, oauth, home>>
  BY DEF FindEmail, ReadStatus, MatchLink, ClearLinks, IssueLink, SendMail, DropLinks, tables
<1>2. Sure => AtHome(home', profiles)
  BY <1>1 DEF GoogleInv
<1>3. {"insert", "refused", "clear", "mark", "issue"} \subseteq Step \ GoogleSteps
  BY DEF Step, GoogleSteps
<1>4. CASE FindEmail(q) \/ ReadStatus(q) \/ MatchLink(q)
  <2>1. request[q].pc \notin GoogleSteps
    BY <1>4 DEF FindEmail, ReadStatus, MatchLink, GoogleSteps
  <2>2. Done(q) \/ \E pc \in {"insert", "refused", "clear", "mark"} : Goto(q, pc)
    BY <1>4 DEF FindEmail, ReadStatus, MatchLink
  <2>3. QED
    BY <1>1, <1>2, <1>3, <2>1, <2>2, TrackedGoto
<1>5. CASE ClearLinks(q)
  <2>1. request[q].pc \notin GoogleSteps /\ Goto(q, "issue")
    BY <1>5 DEF ClearLinks, GoogleSteps
  <2>2. QED
    BY <1>1, <1>2, <1>3, <2>1, TrackedGoto
<1>6. CASE IssueLink(q)
  <2>1. /\ request[q].pc \notin GoogleSteps
        /\ \E l \in Link : request' = [request EXCEPT ![q].pc = "send", ![q].link = l]
    BY <1>6 DEF IssueLink, GoogleSteps
  <2>2. QED
    BY <1>1, <1>2, <2>1, TrackedGoto
<1>7. CASE SendMail(q) \/ DropLinks(q)
  <2>1. Done(q)
    BY <1>7 DEF SendMail, DropLinks
  <2>2. QED
    BY <1>1, <1>2, <2>1, TrackedGoto
<1>8. QED
  BY <1>4, <1>5, <1>6, <1>7

(* What the two lookups of a sign-in find.                                 *)
LEMMA TrackedLookups ==
    ASSUME AccountsInv, GoogleInv, NEW q \in Request, FindByGoogleId(q) \/ FindByEmail(q)
    PROVE  GoogleInv'
<1>t. /\ TypeOK /\ request[q] \in Handling /\ Fit(request[q])
      /\ UNCHANGED <<env, profiles, address, past, signIns, oauth, home>>
  BY DEF AccountsInv, TypeOK, Known, FindByGoogleId, FindByEmail, world, tables
<1>g. Sure => Tracked(request[q], profiles, address) /\ AtHome(home', profiles)
  BY <1>t DEF GoogleInv
<1>s. ASSUME NEW r \in Handling, request' = [request EXCEPT ![q] = r],
             Sure => Tracked(r, profiles, address)
      PROVE  GoogleInv'
  BY <1>t, <1>g, <1>s, TrackedStep
<1>n. \A a \in Account : a \notin Existing => profiles[a] = NoRow
  BY DEF Existing
<1>1. CASE FindByGoogleId(q)
  <2> DEFINE g == request[q].google
             rows == {a \in Existing : profiles[a].google = g}
  <2>1. /\ request[q].pc = "byGoogle"
        /\ \/ Goto(q, "byEmail") /\ (Sure => rows = {})
           \/ \E a \in rows : request' = [request EXCEPT ![q].pc = "session", ![q].account = a]
    BY <1>1 DEF FindByGoogleId, Found, Sure
  <2>2. CASE Goto(q, "byEmail") /\ (Sure => rows = {})
    <3> DEFINE r == [request[q] EXCEPT !.pc = "byEmail"]
    <3>1. r \in Handling
      BY <1>t, UpdatedType, IdlePlain
    <3>2. r.pc = "byEmail" /\ r.google = g /\ r.op = request[q].op /\ r.email = request[q].email
      BY <1>t DEF Handling
    <3>3. request' = [request EXCEPT ![q] = r]
      BY <2>2 DEF Goto
    <3>4. Sure => \A a \in Account : profiles[a].google # g
      <4>1. Sure => g # None
        BY <1>g, <2>1 DEF Tracked, GoogleSteps
      <4>2. QED
        BY <1>n, <2>2, <4>1 DEF NoRow
    <3> HIDE DEF r
    <3>5. Sure => Tracked(r, profiles, address)
      BY <1>g, <2>1, <3>2, <3>4 DEF Tracked, GoogleSteps
    <3>6. QED
      BY <1>s, <3>1, <3>3, <3>5
  <2>3. ASSUME NEW a \in rows,
               request' = [request EXCEPT ![q].pc = "session", ![q].account = a]
        PROVE  GoogleInv'
    <3> DEFINE r == [request[q] EXCEPT !.pc = "session", !.account = a]
    <3>1. r \in Handling
      BY <1>t, UpdatedType, IdlePlain DEF Existing
    <3>2. /\ r.pc = "session" /\ r.google = g /\ r.op = request[q].op
          /\ r.email = request[q].email /\ r.account = a
      BY <1>t DEF Handling
    <3>3. request' = [request EXCEPT ![q] = r]
      BY <2>3
    <3> HIDE DEF r
    <3>4. Sure => Tracked(r, profiles, address)
      BY <1>g, <2>1, <3>2 DEF Tracked, GoogleSteps
    <3>5. QED
      BY <1>s, <3>1, <3>3, <3>4
  <2>4. QED
    BY <2>1, <2>2, <2>3
<1>2. CASE FindByEmail(q)
  <2> DEFINE e == request[q].email
             rows == {a \in Existing : profiles[a].email = e}
  <2>1. /\ request[q].pc = "byEmail" /\ e \in Address
        /\ \/ Goto(q, "create") /\ (Sure => rows = {})
           \/ \E a \in rows : request' = [request EXCEPT ![q].pc = "link", ![q].account = a,
                                                         ![q].verified = profiles[a].verified]
    BY <1>2, <1>t DEF FindByEmail, Found, Sure, Fit, OfAddress
  <2>2. CASE Goto(q, "create") /\ (Sure => rows = {})
    <3> DEFINE r == [request[q] EXCEPT !.pc = "create"]
    <3>1. r \in Handling
      BY <1>t, UpdatedType, IdlePlain
    <3>2. r.pc = "create" /\ r.google = request[q].google /\ r.op = request[q].op /\ r.email = e
      BY <1>t DEF Handling
    <3>3. request' = [request EXCEPT ![q] = r]
      BY <2>2 DEF Goto
    <3>4. Sure => \A a \in Account : profiles[a].email # e
      <4>1. NoRow.email # e
        <5>1. NoRow.email.box = None
          BY DEF NoRow, NoEmail
        <5>2. e.box # None
          BY <2>1, NoneAssumption DEF Address
        <5>3. QED
          BY <5>1, <5>2
      <4>2. QED
        BY <1>n, <2>2, <4>1
    <3> HIDE DEF r
    <3>5. Sure => Tracked(r, profiles, address)
      BY <1>g, <2>1, <3>2, <3>4 DEF Tracked, GoogleSteps
    <3>6. QED
      BY <1>s, <3>1, <3>3, <3>5
  <2>3. ASSUME NEW a \in rows,
               request' = [request EXCEPT ![q].pc = "link", ![q].account = a,
                                          ![q].verified = profiles[a].verified]
        PROVE  GoogleInv'
    <3> DEFINE v == profiles[a].verified
               r == [request[q] EXCEPT !.pc = "link", !.account = a, !.verified = v]
    <3>0. a \in Account /\ v \in BOOLEAN
      BY <1>t, RowsOfExisting DEF Existing, Row
    <3>1. r \in Handling
      BY <1>t, <3>0, UpdatedType, IdlePlain
    <3>2. /\ r.pc = "link" /\ r.google = request[q].google /\ r.op = request[q].op
          /\ r.email = e /\ r.account = a
      BY <1>t DEF Handling
    <3>3. request' = [request EXCEPT ![q] = r]
      BY <2>3
    <3> HIDE DEF r
    <3>4. Sure => Tracked(r, profiles, address)
      BY <1>g, <2>1, <3>2 DEF Tracked, GoogleSteps
    <3>5. QED
      BY <1>s, <3>1, <3>3, <3>4
  <2>4. QED
    BY <2>1, <2>2, <2>3
<1>3. QED
  BY <1>1, <1>2

(* Its end: the account is the one that is linked.                         *)
LEMMA TrackedEnd ==
    ASSUME AccountsInv, GoogleInv, NEW q \in Request, SignedIn(q) \/ Refused(q)
    PROVE  GoogleInv'
<1>t. /\ TypeOK /\ request[q] \in Handling /\ Fit(request[q])
      /\ UNCHANGED <<world, profiles, oauth>> /\ Done(q)
  BY DEF AccountsInv, TypeOK, Known, SignedIn, Refused, tables
<1>1. Sure => AtHome(home', profiles)
  <2>1. CASE Refused(q)
    BY <2>1 DEF Refused, GoogleInv
  <2>2. CASE SignedIn(q)
    <3>1. /\ request[q].pc = "session" /\ request[q].account \in Account
          /\ home' = [home EXCEPT ![request[q].google] = request[q].account]
      BY <1>t, <2>2 DEF SignedIn, Fit, OfAccount, Existing
    <3>2. Sure => profiles[request[q].account].google = request[q].google
      BY <3>1 DEF GoogleInv, Tracked
    <3>3. QED
      BY <1>t, <3>1, <3>2 DEF AtHome, GoogleInv, TypeOK
  <2>3. QED
    BY <2>1, <2>2
<1>2. QED
  BY <1>t, <1>1, TrackedGoto

LEMMA TrackedWrites ==
    ASSUME AccountsInv, VerifiedInv, GoogleInv, NEW q \in Request,
           InsertProfile(q) \/ CreateGoogle(q) \/ MarkVerified(q) \/ LinkGoogle(q)
    PROVE  GoogleInv'
<1>t. /\ TypeOK /\ OneAccount /\ request[q] \in Handling /\ Fit(request[q])
      /\ UNCHANGED <<world, oauth, home>> /\ request[q] # Idle
  BY DEF AccountsInv, TypeOK, Known, InsertProfile, CreateGoogle, MarkVerified, LinkGoogle, Idle
<1>e. /\ UNCHANGED <<env, address, past, signIns, oauth, home>>
      /\ "refused" \in Step \ GoogleSteps
  BY <1>t DEF world, Step, GoogleSteps
<1>g. Sure => /\ Tracked(request[q], profiles, address) /\ AtHome(home', profiles)
              /\ OwnAddresses /\ OwnRows(profiles)
  BY <1>e DEF GoogleInv
<1>f. \A a \in Account : a \notin Existing => profiles[a].google = None
  BY DEF Existing, NoRow
<1>r. ASSUME Goto(q, "refused"), UNCHANGED profiles, request[q].pc \in GoogleSteps => ~Sure
      PROVE  GoogleInv'
  <2>1. CASE request[q].pc \in GoogleSteps
    BY <1>e, <1>r, <2>1 DEF GoogleInv, Sure
  <2>2. CASE request[q].pc \notin GoogleSteps
    BY <1>t, <1>e, <1>g, <1>r, <2>2, TrackedGoto
  <2>3. QED
    BY <2>1, <2>2
<1>1. CASE InsertProfile(q)
  <2> DEFINE row == [NoRow EXCEPT !.email = request[q].email]
  <2>1. request[q].email \in Address
    BY <1>1, <1>t DEF InsertProfile, Fit, OfAddress
  <2>2. row \in Row /\ row.google = None
    BY <2>1 DEF Row, NoRow
  <2>3. InsertRow(q, row, "issue") /\ request[q].pc = "insert"
    BY <1>1 DEF InsertProfile
  <2> HIDE DEF row
  <2>4. ASSUME NEW a \in Account \ Existing, profiles' = [profiles EXCEPT ![a] = row],
               request' = [request EXCEPT ![q].pc = "issue", ![q].account = a]
        PROVE  GoogleInv'
    <3> DEFINE r == [request[q] EXCEPT !.pc = "issue", !.account = a]
    <3>1. r \in Handling
      BY <1>t, UpdatedType DEF Step
    <3>2. r.pc = "issue" /\ r.google = request[q].google
      BY <1>t DEF Handling
    <3>3. request' = [request EXCEPT ![q] = r]
      BY <2>4
    <3>4. Sure => request[q].google = None
      BY <1>g, <2>3 DEF Tracked, GoogleSteps
    <3> HIDE DEF r
    <3>5. Sure => Tracked(r, profiles', address)
      BY <3>2, <3>4, PlainTracked DEF Plain, GoogleSteps
    <3>6. QED
      BY <1>t, <1>e, <1>f, <2>2, <2>4, <3>1, <3>3, <3>5, TrackedRow
  <2>5. QED
    BY <1>r, <2>3, <2>4 DEF InsertRow, GoogleSteps
<1>2. CASE CreateGoogle(q)
  <2> DEFINE row == [email |-> request[q].email, google |-> request[q].google,
                     verified |-> request[q].vouched]
  <2>1. request[q].email \in Address
    BY <1>2, <1>t DEF CreateGoogle, Fit, OfAddress
  <2>2. row \in Row /\ row.google = request[q].google /\ row.email = request[q].email
    BY <1>t, <2>1 DEF Row, Handling
  <2>3. InsertRow(q, row, "session") /\ request[q].pc = "create"
    BY <1>2 DEF CreateGoogle
  <2>g. request[q].google \in GoogleUser \cup {None}
    BY <1>t DEF Handling
  <2> HIDE DEF row
  <2>4. ASSUME NEW a \in Account \ Existing, profiles' = [profiles EXCEPT ![a] = row],
               request' = [request EXCEPT ![q].pc = "session", ![q].account = a]
        PROVE  GoogleInv'
    <3> DEFINE r == [request[q] EXCEPT !.pc = "session", !.account = a]
    <3>1. r \in Handling
      BY <1>t, UpdatedType DEF Step
    <3>2. /\ r.pc = "session" /\ r.google = request[q].google /\ r.op = request[q].op
          /\ r.email = request[q].email /\ r.account = a
      BY <1>t DEF Handling
    <3>3. request' = [request EXCEPT ![q] = r]
      BY <2>4
    <3>4. profiles'[a] = row
      BY <1>t, <2>4 DEF TypeOK
    <3> HIDE DEF r
    <3>5. Sure => Tracked(r, profiles', address)
      BY <1>g, <2>2, <2>3, <3>2, <3>4 DEF Tracked, GoogleSteps
    <3>6. Sure => row.email.box \in past[row.google]
      BY <1>g, <2>2, <2>3, <2>g DEF Tracked, GoogleSteps, OwnAddresses
    <3>7. QED
      BY <1>t, <1>e, <1>f, <2>2, <2>4, <3>1, <3>3, <3>5, <3>6, TrackedRow
  <2>5. Sure => Unique(Nobody, row) /\ "writeFails" \notin env
    BY <1>g, <2>2, <2>3 DEF Tracked, Unique, Existing, Sure
  <2>6. QED
    BY <1>r, <2>3, <2>4, <2>5 DEF InsertRow
<1>3. CASE MarkVerified(q)
  <2> DEFINE a == request[q].account
             row == [profiles[a] EXCEPT !.verified = TRUE]
             r == [request[q] EXCEPT !.pc = "drop"]
  <2>1. a \in Existing /\ a \in Account /\ request[q].pc = "mark"
    BY <1>3, <1>t DEF MarkVerified, Fit, OfAccount, Existing
  <2>2. profiles[a] \in Row
    BY <1>t, <2>1, RowsOfExisting
  <2>3. row \in Row /\ row.google = profiles[a].google /\ row.email = profiles[a].email
    BY <2>2 DEF Row
  <2>4. profiles' = profiles \/ profiles' = [profiles EXCEPT ![a] = row]
    BY <1>3 DEF MarkVerified
  <2>5. Goto(q, "drop") /\ "drop" \in Step \ GoogleSteps /\ request[q].pc \notin GoogleSteps
    BY <1>3, <2>1 DEF MarkVerified, Step, GoogleSteps
  <2>6. r \in Handling /\ request' = [request EXCEPT ![q] = r]
    BY <1>t, <2>5, UpdatedType DEF Goto
  <2>7. r.pc = "drop" /\ r.google = request[q].google
    BY <1>t DEF Handling
  <2>8. Sure => request[q].google = None
    BY <1>g, <2>5 DEF Tracked
  <2> HIDE DEF r, row
  <2>9. Sure => Tracked(r, profiles', address)
    BY <2>5, <2>7, <2>8, PlainTracked DEF Plain
  <2>10. Sure => (row.google # None => row.email.box \in past[row.google])
    BY <1>g, <2>1, <2>3 DEF OwnRows
  <2>11. CASE profiles' = profiles
    BY <1>t, <1>e, <1>g, <2>5, <2>11, TrackedGoto
  <2>12. CASE profiles' = [profiles EXCEPT ![a] = row]
    BY <1>t, <1>e, <2>1, <2>3, <2>6, <2>9, <2>10, <2>12, TrackedRow
  <2>13. QED
    BY <2>4, <2>11, <2>12
<1>4. CASE LinkGoogle(q)
  <2> DEFINE a == request[q].account
             g == request[q].google
             row == [profiles[a] EXCEPT !.google = g,
                                        !.verified = request[q].vouched \/ request[q].verified]
             r == [request[q] EXCEPT !.pc = "session"]
  <2>1. a \in Existing /\ a \in Account /\ request[q].pc = "link"
    BY <1>4, <1>t DEF LinkGoogle, Fit, OfAccount, Existing
  <2>2. profiles[a] \in Row /\ g \in GoogleUser \cup {None}
    BY <1>t, <2>1, RowsOfExisting DEF Handling
  <2>3. row \in Row /\ row.google = g /\ row.email = profiles[a].email
    BY <1>t, <2>2 DEF Row, Handling
  <2>4. \/ Goto(q, "session") /\ profiles' = [profiles EXCEPT ![a] = row]
        \/ Goto(q, "refused") /\ profiles' = profiles /\ (~Unique(a, row) \/ "writeFails" \in env)
    BY <1>4 DEF LinkGoogle
  <2>5. r \in Handling
    BY <1>t, UpdatedType, IdlePlain
  <2>6. /\ r.pc = "session" /\ r.google = g /\ r.op = request[q].op
        /\ r.email = request[q].email /\ r.account = a
    BY <1>t DEF Handling
  <2>7. Sure => /\ g \in GoogleUser /\ \A b \in Account : profiles[b].google # g
                /\ profiles[a].email.box = address[g] /\ request[q].op = "google"
                /\ request[q].email.box = address[g]
    BY <1>g, <2>1, <2>2 DEF Tracked, GoogleSteps
  <2>8. Sure => profiles[a].google = None
    <3> SUFFICES ASSUME Sure, profiles[a].google # None PROVE FALSE
      OBVIOUS
    <3>1. profiles[a].google \in GoogleUser /\ profiles[a].google # g /\ g \in GoogleUser
      BY <2>1, <2>2, <2>7 DEF Row
    <3>2. address[g] \in past[profiles[a].google] /\ address[g] \in past[g]
      BY <1>g, <2>1, <2>7 DEF OwnRows, OwnAddresses
    <3>3. past[profiles[a].google] \cap past[g] = {}
      BY <1>g, <3>1 DEF OwnAddresses
    <3>4. QED
      BY <3>2, <3>3
  <2>u. Sure => Unique(a, row) /\ "writeFails" \notin env
    <3>1. \A b \in Existing \ {a} : profiles[b].email # profiles[a].email
      BY <1>t, <2>1 DEF OneAccount
    <3> HIDE DEF row
    <3>2. QED
      BY <2>3, <2>7, <3>1 DEF Unique, Existing, Sure
  <2> HIDE DEF row
  <2>9. CASE Goto(q, "session") /\ profiles' = [profiles EXCEPT ![a] = row]
    <3>1. request' = [request EXCEPT ![q] = r]
      BY <2>9 DEF Goto
    <3>2. profiles'[a] = row
      BY <1>t, <2>1, <2>9 DEF TypeOK
    <3> HIDE DEF r
    <3>3. Sure => Tracked(r, profiles', address)
      BY <2>3, <2>6, <2>7, <3>2, NoneAssumption DEF Tracked, GoogleSteps
    <3>4. Sure => row.email.box \in past[row.google]
      BY <1>g, <2>3, <2>7 DEF OwnAddresses
    <3>5. QED
      BY <1>t, <1>e, <2>1, <2>3, <2>5, <2>8, <2>9, <3>1, <3>3, <3>4, TrackedRow
  <2>10. QED
    BY <1>r, <2>4, <2>9, <2>u
<1>5. QED
  BY <1>1, <1>2, <1>3, <1>4

(* The user, the clock and a crash.                                        *)
LEMMA TrackedOthers ==
    ASSUME AccountsInv, GoogleInv,
           \/ \E l \in links : LinkExpires(l)
           \/ \E g \in GoogleUser : \/ StartGoogle(g)
                                    \/ \E s \in 1..MaxSignIns : Cancel(s, g)
                                    \/ \E m \in Mailbox : Moves(g, m)
           \/ Crash
    PROVE  GoogleInv'
<1>t. TypeOK
  BY DEF AccountsInv
<1>e. env' = env /\ profiles' = profiles /\ home' = home /\ (Sure' <=> Sure)
  BY DEF LinkExpires, StartGoogle, Cancel, Moves, Crash, world, tables, ghosts, Sure
<1>k. ASSUME UNCHANGED <<address, past>>, Sure => OneTab',
             Sure => \A q \in Request : Tracked(request'[q], profiles, address)
      PROVE  GoogleInv'
  BY <1>e, <1>k DEF GoogleInv, OwnAddresses, OwnRows, AtHome, Tracked
<1>1. ASSUME NEW l \in links, LinkExpires(l) PROVE GoogleInv'
  BY <1>1, <1>k DEF LinkExpires, world, GoogleInv, OneTab
<1>2. ASSUME NEW g \in GoogleUser, StartGoogle(g) PROVE GoogleInv'
  <2>1. Sure => OneTab'
    <3> SUFFICES ASSUME Sure PROVE OneTab'
      OBVIOUS
    <3>1. signIns' = {<<begun + 1, g>>} /\ oauth' = begun + 1
      BY <1>2 DEF StartGoogle, Sure
    <3>2. QED
      BY <3>1 DEF OneTab
  <2>2. QED
    BY <1>2, <1>k, <2>1 DEF StartGoogle, ghosts, GoogleInv
<1>3. ASSUME NEW g \in GoogleUser, NEW s \in 1..MaxSignIns, Cancel(s, g) PROVE GoogleInv'
  <2>1. Sure => OneTab'
    BY <1>3 DEF Cancel, GoogleInv, OneTab
  <2>2. QED
    BY <1>3, <1>k, <2>1 DEF Cancel, ghosts, GoogleInv
<1>4. ASSUME NEW g \in GoogleUser, NEW m \in Mailbox, Moves(g, m) PROVE GoogleInv'
  <2> SUFFICES ASSUME Sure PROVE GoogleInv'
    BY <1>e DEF GoogleInv
  <2>1. /\ address' = [address EXCEPT ![g] = m] /\ past' = [past EXCEPT ![g] = @ \cup {m}]
        /\ \A h \in GoogleUser \ {g} : m \notin past[h]
        /\ UNCHANGED <<request, signIns, oauth>>
    BY <1>4 DEF Moves, Sure
  <2>2. \A q \in Request : Tracked(request[q], profiles, address')
    <3>1. \A q \in Request : request[q].google = None
      BY <1>4 DEF Moves, GoogleInv, Tracked
    <3>2. QED
      BY <3>1 DEF GoogleInv, Tracked
  <2>3. \A h \in GoogleUser : past'[h] = IF h = g THEN past[g] \cup {m} ELSE past[h]
    BY <1>t, <2>1 DEF TypeOK
  <2>4. OwnAddresses'
    <3>1. \A h \in GoogleUser : address'[h] = IF h = g THEN m ELSE address[h]
      BY <1>t, <2>1 DEF TypeOK
    <3>2. QED
      BY <2>1, <2>3, <3>1 DEF OwnAddresses, GoogleInv
  <2>5. OwnRows(profiles)'
    <3> SUFFICES ASSUME NEW a \in Account, profiles[a].google # None
                 PROVE  profiles[a].email.box \in past'[profiles[a].google]
      BY <1>e DEF OwnRows
    <3>1. profiles[a].email.box \in past[profiles[a].google]
      BY DEF GoogleInv, OwnRows
    <3>2. profiles[a].google \in GoogleUser
      BY <1>t DEF TypeOK, Row, NoRow
    <3>3. QED
      BY <2>3, <3>1, <3>2
  <2>6. OneTab' /\ AtHome(home, profiles)'
    BY <1>e, <2>1 DEF GoogleInv, OneTab, AtHome
  <2>7. (\A q \in Request : Tracked(request[q], profiles, address))'
    BY <1>e, <2>1, <2>2 DEF Tracked
  <2>8. QED
    BY <2>4, <2>5, <2>6, <2>7 DEF GoogleInv
<1>5. CASE Crash
  <2>1. \A q \in Request : Tracked(request'[q], profiles, address)
    BY <1>5, IdlePlain, PlainTracked DEF Crash
  <2>2. QED
    BY <1>5, <1>k, <2>1 DEF Crash, world, GoogleInv, OneTab
<1>6. QED
  BY <1>1, <1>2, <1>3, <1>4, <1>5

LEMMA GoogleInvariant == Spec => []GoogleInv
<1>1. Init => GoogleInv
  <2> SUFFICES ASSUME Init PROVE GoogleInv
    OBVIOUS
  <2>1. \A q \in Request : Tracked(request[q], profiles, address)
    BY IdlePlain, PlainTracked DEF Init
  <2>2. OneTab /\ OwnRows(profiles) /\ AtHome(home, profiles)
    BY DEF Init, OneTab, OwnRows, AtHome, NoRow
  <2>3. OwnAddresses
    BY DEF Init, OwnAddresses
  <2>4. QED
    BY <2>1, <2>2, <2>3 DEF GoogleInv
<1>2. AccountsInv /\ VerifiedInv /\ GoogleInv /\ [Next]_vars => GoogleInv'
  <2> SUFFICES ASSUME AccountsInv, VerifiedInv, GoogleInv, [Next]_vars PROVE GoogleInv'
    OBVIOUS
  <2>1. CASE UNCHANGED vars
    BY <2>1 DEF vars, GoogleInv, Sure, Tracked, OneTab, OwnAddresses, OwnRows, AtHome
  <2>2. QED
    BY <2>1, TrackedBegin, TrackedLinks, TrackedLookups, TrackedEnd, TrackedWrites, TrackedOthers
    DEF Next
<1>3. QED
  BY <1>1, <1>2, AccountsInvariant, VerifiedInvariant, PTL DEF Spec

(* A Google user comes back to the same account: google_id decides before  *)
(* the mailbox does, and the mailbox of a linked account is one its user   *)
(* has had, so that no other user's sign-in takes it over.                 *)
THEOREM GoogleComesBack == Spec => []GoogleReturns
<1>1. AccountsInv /\ GoogleInv => GoogleReturns
  <2> SUFFICES ASSUME AccountsInv, GoogleInv, Sure, NEW q \in Request,
                      request[q].google # None, home[request[q].google] # Nobody
               PROVE  /\ request[q].pc # "refused"
                      /\ request[q].pc = "session" => request[q].account = home[request[q].google]
    BY DEF GoogleReturns, Sure
  <2> DEFINE g == request[q].google
  <2>1. Tracked(request[q], profiles, address) /\ AtHome(home, profiles)
    BY DEF GoogleInv
  <2>2. request[q].pc # "refused"
    BY <2>1 DEF Tracked, GoogleSteps
  <2>3. ASSUME request[q].pc = "session" PROVE request[q].account = home[g]
    <3>1. g \in GoogleUser
      BY DEF AccountsInv, TypeOK, Handling
    <3>2. request[q].account \in Existing /\ profiles[request[q].account].google = g
      BY <2>1, <2>3 DEF Tracked, AccountsInv, Known, Fit, OfAccount
    <3>3. home[g] \in Account /\ profiles[home[g]].google = g
      BY <2>1, <3>1 DEF AtHome
    <3>4. home[g] \in Existing
      BY <3>3 DEF Existing, NoRow
    <3>5. QED
      BY <3>2, <3>3, <3>4 DEF AccountsInv, OneAccount
  <2>4. QED
    BY <2>2, <2>3
<1>2. QED
  BY <1>1, AccountsInvariant, GoogleInvariant, PTL
=============================================================================

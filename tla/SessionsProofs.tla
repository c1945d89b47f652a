---------------------------- MODULE SessionsProofs ----------------------------
(***************************************************************************)
(* Theorems of Sessions, for any browsers, requests and reset links, any   *)
(* number of tokens and password changes, and any set of environments.     *)
(***************************************************************************)
EXTENDS Sessions, TLAPS

(* Which steps the handler of a request takes, and which tokens it was     *)
(* sent or has issued.                                                     *)
Shape(r, n) ==
    /\ r.op = "login" => r.pc \in {"insert", "answer"} /\ r.old = NoToken
    /\ r.op = "refresh" => /\ r.pc \in {"find", "delete", "insert", "answer", "clear"}
                           /\ r.old \in 1..n
    /\ r.op = "logout" => r.pc \in {"revoke", "clear"} /\ r.old = NoToken
    /\ r.op = "change" => r.pc \in {"update", "purge", "clear"} /\ r.old = NoToken
    /\ r.op = "reset" => r.pc \in {"match", "update", "unlink", "purge"}
    /\ r.op \in {"login", "refresh", "logout", "change"} =>
          r.new \in 0..n /\ (r.pc = "answer" <=> r.new # NoToken)

SessionsInv == TypeOK /\ \A q \in Request : Shape(request[q], issued)

Requests == Handling \cup Resetting \cup {Idle}

LEMMA WithPc ==
    ASSUME NEW r, NEW pc \in Step, r \in Handling \/ r \in Resetting
    PROVE  LET n == [r EXCEPT !.pc = pc]
           IN  /\ n \in Requests /\ n.pc = pc /\ n.op = r.op
               /\ r \in Handling => /\ n \in Handling
                                    /\ n.from = r.from /\ n.old = r.old
                                    /\ n.new = r.new /\ n.epoch = r.epoch
               /\ r \in Resetting => n \in Resetting /\ n.link = r.link
BY DEF Handling, Resetting, Requests

(* The kinds of requests have different names.                             *)
LEMMA Kinds ==
    ASSUME NEW r \in Requests
    PROVE  /\ r \in Handling <=> r.op \in {"login", "refresh", "logout", "change"}
           /\ r \in Resetting <=> r.op = "reset"
           /\ r = Idle <=> r.op = "none"
           /\ r = Idle <=> r.pc = "idle"
           /\ r \in Handling \/ r \in Resetting => r.pc \in Step
BY DEF Requests, Handling, Resetting, Idle, Step

(* A request that is given a new record, and nothing else of it.           *)
LEMMA RequestStep ==
    ASSUME SessionsInv, NEW q \in Request, NEW r \in Requests,
           request' = [request EXCEPT ![q] = r], issued' >= issued, issued' \in Nat,
           Shape(r, issued')
    PROVE  /\ request' \in [Request -> Requests]
           /\ \A p \in Request : Shape(request'[p], issued')
<1> USE DEF SessionsInv, TypeOK, Requests
<1>1. request' \in [Request -> Requests]
  OBVIOUS
<1>2. issued \in Nat
  BY BoundAssumption
<1>3. ASSUME NEW p \in Request PROVE Shape(request'[p], issued')
  <2>1. CASE p = q
    BY <2>1 DEF Shape
  <2>2. CASE p # q
    <3>1. request'[p] = request[p] /\ Shape(request[p], issued)
      BY <2>2
    <3>2. QED
      BY <1>2, <3>1 DEF Shape
  <2>3. QED
    BY <2>1, <2>2
<1>4. QED
  BY <1>1, <1>3

Others(q) == \A p \in Request : p # q => request'[p] = request[p]

(* The steps of each kind of request.                                      *)
StepsOf == [login |-> {"insert", "answer"},
            refresh |-> {"find", "delete", "insert", "answer", "clear"},
            logout |-> {"revoke", "clear"},
            change |-> {"update", "purge", "clear"},
            reset |-> {"match", "update", "unlink", "purge"}]

LEMMA GotoStep ==
    ASSUME SessionsInv, NEW q \in Request, request[q] # Idle,
           NEW pc \in Step, pc # "answer", request[q].pc # "answer",
           pc \in StepsOf[request[q].op], Goto(q, pc), issued' = issued
    PROVE  /\ request' \in [Request -> Requests]
           /\ \A p \in Request : Shape(request'[p], issued')
           /\ Others(q) /\ request'[q].pc = pc /\ request'[q].op = request[q].op
           /\ request[q].op # "reset" =>
                  /\ request'[q].from = request[q].from /\ request'[q].old = request[q].old
                  /\ request'[q].new = request[q].new /\ request'[q].epoch = request[q].epoch
           /\ request[q].op = "reset" => request'[q].link = request[q].link
<1> DEFINE n == [request[q] EXCEPT !.pc = pc]
<1>1. request[q] \in Handling \/ request[q] \in Resetting
  BY DEF SessionsInv, TypeOK
<1>2. request[q].op \in {"login", "refresh", "logout", "change", "reset"} /\ request[q] \in Requests
  BY <1>1, Kinds DEF Handling, Resetting, Requests
<1>3. request' = [request EXCEPT ![q] = n] /\ n \in Requests
  BY <1>1, WithPc DEF Goto
<1>4. Shape(request[q], issued)
  BY DEF SessionsInv
<1>5. request[q].op # "reset" => request[q] \in Handling
  BY <1>1 DEF Resetting
<1>6. n.pc = pc /\ n.op = request[q].op
      /\ (request[q].op # "reset" => n.from = request[q].from /\ n.old = request[q].old
                                     /\ n.new = request[q].new /\ n.epoch = request[q].epoch)
      /\ (request[q].op = "reset" => n.link = request[q].link)
  BY <1>1, <1>2, <1>5, WithPc, Kinds
<1>7. Shape(n, issued')
  BY <1>2, <1>4, <1>6 DEF Shape, StepsOf
<1>8. issued' >= issued /\ issued' \in Nat
  BY BoundAssumption DEF SessionsInv, TypeOK
<1>9. request'[q] = n /\ Others(q)
  BY <1>3 DEF SessionsInv, TypeOK, Others
<1>10. QED
  BY <1>3, <1>6, <1>7, <1>8, <1>9, RequestStep

LEMMA DoneStep ==
    ASSUME SessionsInv, NEW q \in Request, Done(q), issued' = issued
    PROVE  /\ request' \in [Request -> Requests]
           /\ \A p \in Request : Shape(request'[p], issued')
           /\ Others(q) /\ request'[q] = Idle
<1>1. Idle \in Requests /\ Shape(Idle, issued')
  BY DEF Requests, Shape, Idle
<1>2. issued' >= issued /\ issued' \in Nat
  BY BoundAssumption DEF SessionsInv, TypeOK
<1>3. request'[q] = Idle /\ Others(q)
  BY DEF Done, SessionsInv, TypeOK, Others
<1>4. QED
  BY <1>1, <1>2, <1>3, RequestStep DEF Done

LEMMA BeginStep ==
    ASSUME SessionsInv, NEW q \in Request, NEW b \in Browser, issued' = issued,
           NEW op, NEW pc, NEW old,
           \/ op = "login" /\ pc = "insert" /\ old = NoToken
           \/ op = "refresh" /\ pc = "find" /\ old \in 1..issued
           \/ op = "logout" /\ pc = "revoke" /\ old = NoToken
           \/ op = "change" /\ pc = "update" /\ old = NoToken,
           Begin(q, op, pc, b, old)
    PROVE  /\ request' \in [Request -> Requests]
           /\ \A p \in Request : Shape(request'[p], issued')
           /\ Others(q) /\ request'[q].op = op /\ request'[q].pc = pc
           /\ request'[q].from = b /\ request'[q].old = old /\ request'[q].new = NoToken
           /\ request'[q].epoch = epoch
<1> DEFINE n == [op |-> op, pc |-> pc, from |-> b, old |-> old, new |-> NoToken, epoch |-> epoch]
<1>1. old \in Token \cup {NoToken}
  BY BoundAssumption DEF SessionsInv, TypeOK, Token, NoToken
<1>2. n \in Requests
  BY <1>1 DEF Requests, Handling, Step, SessionsInv, TypeOK
<1>3. issued' >= issued /\ issued' \in Nat /\ NoToken \in 0..issued'
  BY BoundAssumption DEF SessionsInv, TypeOK, NoToken
<1>4. Shape(n, issued')
  BY <1>3 DEF Shape
<1>5. request' = [request EXCEPT ![q] = n]
  BY DEF Begin
<1>6. request'[q] = n /\ Others(q)
  BY <1>5 DEF SessionsInv, TypeOK, Others
<1>7. QED
  BY <1>2, <1>3, <1>4, <1>5, <1>6, RequestStep

LEMMA FindStep ==
    ASSUME SessionsInv, NEW q \in Request, Find(q)
    PROVE  /\ request' \in [Request -> Requests]
           /\ \A p \in Request : Shape(request'[p], issued')
           /\ Others(q) /\ request[q].op = "refresh" /\ request'[q].op = "refresh"
           /\ request[q].old \in 1..issued
           /\ request'[q].from = request[q].from /\ request'[q].old = request[q].old
           /\ request'[q].new = request[q].new /\ request'[q].epoch = epochOf[request[q].old]
           /\ request'[q].pc = IF request[q].old \in rows THEN "delete" ELSE "clear"
<1> DEFINE k == IF request[q].old \in rows THEN "delete" ELSE "clear"
           e == epochOf[request[q].old]
           n == [request[q] EXCEPT !.pc = k, !.epoch = e]
<1>1. request[q] \in Requests /\ request[q].pc = "find" /\ Shape(request[q], issued)
  BY DEF SessionsInv, TypeOK, Find, Requests
<1>2. request[q].op = "refresh"
  BY <1>1, Kinds DEF Shape, Requests, Handling, Resetting, Idle
<1>3. request[q] \in Handling /\ request[q].old \in 1..issued
  BY <1>1, <1>2, Kinds DEF Shape
<1>4. e \in 0..MaxEpoch
  BY <1>3, BoundAssumption DEF SessionsInv, TypeOK, Token
<1>5. k \in {"delete", "clear"}
  OBVIOUS
<1> HIDE DEF k, e
<1>6. n \in Handling
  BY <1>3, <1>4, <1>5 DEF Handling, Step
<1>7. /\ n.pc = k /\ n.op = "refresh" /\ n.from = request[q].from /\ n.old = request[q].old
      /\ n.new = request[q].new /\ n.epoch = e
  BY <1>2, <1>3 DEF Handling
<1>8. issued' = issued /\ request' = [request EXCEPT ![q] = n]
  BY DEF Find, tables, k, e
<1>9. issued' >= issued /\ issued' \in Nat
  BY <1>8, BoundAssumption DEF SessionsInv, TypeOK
<1>10. Shape(n, issued')
  BY <1>1, <1>2, <1>5, <1>7, <1>8 DEF Shape
<1>11. request'[q] = n /\ Others(q)
  BY <1>8 DEF SessionsInv, TypeOK, Others
<1>12. QED
  BY <1>2, <1>3, <1>6, <1>7, <1>8, <1>9, <1>10, <1>11, RequestStep DEF Requests, k, e

LEMMA InsertStep ==
    ASSUME SessionsInv, NEW q \in Request, Insert(q)
    PROVE  /\ request' \in [Request -> Requests]
           /\ \A p \in Request : Shape(request'[p], issued')
           /\ Others(q) /\ request[q].op \in {"login", "refresh"}
           /\ request'[q].op = request[q].op /\ request'[q].pc = "answer"
           /\ request'[q].from = request[q].from /\ request'[q].old = request[q].old
           /\ request'[q].new = issued + 1 /\ request'[q].epoch = request[q].epoch
           /\ request[q].epoch \in 0..MaxEpoch /\ issued' = issued + 1 /\ issued' \in 1..MaxTokens
<1> DEFINE t == issued + 1
           n == [request[q] EXCEPT !.pc = "answer", !.new = t]
<1>1. request[q] \in Requests /\ request[q].pc = "insert" /\ Shape(request[q], issued)
  BY DEF SessionsInv, TypeOK, Insert, Requests
<1>2. request[q].op \in {"login", "refresh"}
  BY <1>1, Kinds DEF Shape, Requests, Handling, Resetting, Idle
<1>3. request[q] \in Handling
  BY <1>1, <1>2, Kinds
<1>4. issued' = t /\ t \in 1..MaxTokens /\ issued \in Nat
  BY BoundAssumption DEF SessionsInv, TypeOK, Insert
<1>5. n \in Handling
  BY <1>3, <1>4 DEF Handling, Step, Token
<1>6. /\ n.pc = "answer" /\ n.op = request[q].op /\ n.from = request[q].from
      /\ n.old = request[q].old /\ n.new = t /\ n.epoch = request[q].epoch
      /\ request[q].epoch \in 0..MaxEpoch
  BY <1>3 DEF Handling
<1>7. request' = [request EXCEPT ![q] = n]
  BY DEF Insert
<1>8. Shape(n, issued')
  BY <1>1, <1>2, <1>4, <1>6 DEF Shape, NoToken
<1>9. request'[q] = n /\ Others(q)
  BY <1>7 DEF SessionsInv, TypeOK, Others
<1>10. issued' >= issued /\ issued' \in Nat
  BY <1>4
<1>11. QED
  BY <1>2, <1>4, <1>5, <1>6, <1>7, <1>8, <1>9, <1>10, RequestStep DEF Requests

LEMMA ResetStep ==
    ASSUME SessionsInv, NEW q \in Request, NEW l \in Link, ResetPassword(q, l)
    PROVE  /\ request' \in [Request -> Requests]
           /\ \A p \in Request : Shape(request'[p], issued')
           /\ Others(q) /\ request'[q].op = "reset" /\ request'[q].pc = "match"
           /\ request'[q].link = l
<1> DEFINE n == [op |-> "reset", pc |-> "match", link |-> l]
<1>1. n \in Requests /\ Shape(n, issued') /\ request' = [request EXCEPT ![q] = n]
  BY DEF Requests, Resetting, Step, Shape, ResetPassword
<1>2. issued' >= issued /\ issued' \in Nat
  BY BoundAssumption DEF SessionsInv, TypeOK, ResetPassword, tables
<1>3. request'[q] = n /\ Others(q)
  BY <1>1 DEF SessionsInv, TypeOK, Others
<1>4. QED
  BY <1>1, <1>2, <1>3, RequestStep

(* Whose steps are which.                                                  *)
LEMMA Places ==
    ASSUME SessionsInv, NEW q \in Request
    PROVE  /\ request[q].pc # "idle" <=> request[q] # Idle
           /\ request[q] # Idle <=> request[q].op # "none"
           /\ request[q].pc \in {"find", "delete"} =>
                 request[q].op = "refresh" /\ request[q].old \in 1..issued
           /\ request[q].pc = "revoke" => request[q].op = "logout"
           /\ request[q].pc \in {"match", "unlink"} => request[q].op = "reset"
           /\ request[q].pc \in {"update", "purge"} => request[q].op \in {"change", "reset"}
           /\ request[q].pc = "answer" =>
                 request[q].op \in {"login", "refresh"} /\ request[q].new \in 1..issued
           /\ request[q].pc = "clear" => request[q].op \in {"refresh", "logout", "change"}
           /\ request[q].pc = "insert" => request[q].op \in {"login", "refresh"}
           /\ request[q].op \in {"login", "refresh", "logout", "change"} => request[q].from \in Browser
           /\ request[q].op = "reset" => request[q].link \in Link
           /\ request[q].op \in {"none", "login", "refresh", "logout", "change", "reset"}
<1>1. request[q] \in Requests /\ Shape(request[q], issued) /\ issued \in Nat
  BY BoundAssumption DEF SessionsInv, TypeOK, Requests
<1>2. /\ request[q] \in Handling => request[q].from \in Browser
      /\ request[q] \in Resetting => request[q].link \in Link
  BY DEF Handling, Resetting
<1>3. request[q].op \in {"none", "login", "refresh", "logout", "change", "reset"}
  BY <1>1 DEF Requests, Handling, Resetting, Idle
<1>4. QED
  BY <1>1, <1>2, <1>3, Kinds DEF Shape, NoToken

LEMMA CookiesType ==
    ASSUME SessionsInv, NEW b \in Browser, NEW c \in Cookies, c.refresh <= issued,
           issued' = issued, jar' = [jar EXCEPT ![b] = c]
    PROVE  jar' \in [Browser -> Cookies] /\ \A d \in Browser : jar'[d].refresh <= issued'
BY DEF SessionsInv, TypeOK

(* Every variable has its type, and every request its shape.               *)
LEMMA SessionsInvariant == Spec => []SessionsInv
<1>1. Init => SessionsInv
  BY BoundAssumption DEF Init, SessionsInv, TypeOK, Shape, Idle, NoCookies, Cookies, NoToken, Token
<1>2. SessionsInv /\ [Next]_vars => SessionsInv'
  <2> SUFFICES ASSUME SessionsInv, [Next]_vars PROVE SessionsInv'
    OBVIOUS
  <2> USE DEF tables
  <2>t. /\ env \in Environments /\ epoch \in 0..MaxEpoch /\ issued \in 0..MaxTokens
        /\ epochOf \in [Token -> 0..MaxEpoch] /\ rows \subseteq 1..issued
        /\ mailed \subseteq Link /\ links \subseteq mailed
        /\ used \in [Token \cup Link -> 0..2] /\ jar \in [Browser -> Cookies]
        /\ \A b \in Browser : jar[b].refresh <= issued
        /\ ended \subseteq 1..issued
        /\ MaxEpoch \in Nat /\ MaxTokens \in Nat /\ 1..issued \subseteq Token
    BY BoundAssumption DEF SessionsInv, TypeOK, Token
  <2>j. \A b \in Browser : jar[b].refresh \in Token \cup {NoToken} /\ jar[b].access \in BOOLEAN
                           /\ jar[b].refresh \in 0..issued
    BY <2>t DEF Cookies, Token, NoToken
  <2>q. ASSUME request' \in [Request -> Requests],
               \A p \in Request : Shape(request'[p], issued'),
               env' = env, issued' = issued, epoch' \in 0..MaxEpoch, UNCHANGED epochOf,
               rows' \subseteq rows, mailed' \subseteq Link, links' \subseteq mailed',
               used' \in [Token \cup Link -> 0..2], jar' \in [Browser -> Cookies],
               \A b \in Browser : jar'[b].refresh <= issued, ended' \subseteq 1..issued
        PROVE  SessionsInv'
    BY <2>t, <2>q DEF SessionsInv, TypeOK, Requests
  <2>1. ASSUME NEW q \in Request, NEW b \in Browser,
               Login(q, b) \/ Refresh(q, b) \/ Logout(q, b) \/ ChangePassword(q, b)
        PROVE  SessionsInv'
    <3>1. jar[b].refresh # NoToken => jar[b].refresh \in 1..issued
      BY <2>j DEF NoToken
    <3>2. issued' = issued
      BY <2>1 DEF Login, Refresh, Logout, ChangePassword
    <3>3. /\ request' \in [Request -> Requests]
          /\ \A p \in Request : Shape(request'[p], issued')
      <4>1. CASE Login(q, b)
        BY <4>1, <3>2, BeginStep DEF Login
      <4>2. CASE Refresh(q, b)
        BY <4>2, <3>1, <3>2, BeginStep DEF Refresh, Carried
      <4>3. CASE Logout(q, b)
        BY <4>3, <3>2, BeginStep DEF Logout, Carried
      <4>4. CASE ChangePassword(q, b)
        BY <4>4, <3>2, BeginStep DEF ChangePassword
      <4>5. QED
        BY <2>1, <4>1, <4>2, <4>3, <4>4
    <3>4. QED
      BY <2>1, <2>t, <2>q, <3>3 DEF Login, Refresh, Logout, ChangePassword
  <2>2. ASSUME NEW q \in Request, NEW l \in Link, ResetPassword(q, l) PROVE SessionsInv'
    BY <2>2, <2>t, <2>q, ResetStep DEF ResetPassword
  <2>3. ASSUME NEW l \in Link, ForgotPassword(l) PROVE SessionsInv'
    <3>1. /\ request' \in [Request -> Requests]
          /\ \A p \in Request : Shape(request'[p], issued')
      BY <2>3 DEF ForgotPassword, SessionsInv, TypeOK, Requests
    <3>2. QED
      BY <2>3, <2>t, <2>q, <3>1 DEF ForgotPassword
  <2>4. ASSUME NEW b \in Browser, AccessExpires(b) PROVE SessionsInv'
    <3>1. /\ request' \in [Request -> Requests]
          /\ \A p \in Request : Shape(request'[p], issued')
      BY <2>4 DEF AccessExpires, SessionsInv, TypeOK, Requests
    <3>2. [jar[b] EXCEPT !.access = FALSE] \in Cookies
          /\ [jar[b] EXCEPT !.access = FALSE].refresh = jar[b].refresh
      BY <2>t DEF Cookies
    <3>3. jar' = [jar EXCEPT ![b] = [jar[b] EXCEPT !.access = FALSE]] /\ issued' = issued
      BY <2>4 DEF AccessExpires
    <3>4. jar' \in [Browser -> Cookies] /\ \A d \in Browser : jar'[d].refresh <= issued'
      BY <2>t, <3>2, <3>3, CookiesType
    <3>5. QED
      BY <2>4, <2>t, <2>q, <3>1, <3>4 DEF AccessExpires
  <2>5. ASSUME NEW q \in Request, Find(q) PROVE SessionsInv'
    BY <2>5, <2>t, <2>q, FindStep DEF Find
  <2>6. ASSUME NEW q \in Request, Delete(q) PROVE SessionsInv'
    <3>1. /\ request' \in [Request -> Requests]
          /\ \A p \in Request : Shape(request'[p], issued')
      BY <2>6, Places, GotoStep DEF Delete, StepsOf, Step
    <3>2. request[q].old \in Token
      BY <2>6, <2>t, Places DEF Delete
    <3>3. used' \in [Token \cup Link -> 0..2]
      BY <2>6, <2>t, <3>2 DEF Delete, Twice
    <3>4. QED
      BY <2>6, <2>t, <2>q, <3>1, <3>3 DEF Delete
  <2>7. ASSUME NEW q \in Request, Insert(q) PROVE SessionsInv'
    <3>1. /\ request' \in [Request -> Requests]
          /\ \A p \in Request : Shape(request'[p], issued')
          /\ issued' = issued + 1 /\ issued' \in 1..MaxTokens /\ request[q].epoch \in 0..MaxEpoch
      BY <2>7, InsertStep
    <3>2. epochOf' = [epochOf EXCEPT ![issued + 1] = request[q].epoch]
          /\ rows' \subseteq rows \cup {issued + 1}
      BY <2>7 DEF Insert
    <3>a. epochOf' \in [Token -> 0..MaxEpoch]
      BY <2>t, <3>1, <3>2
    <3>b. rows' \subseteq 1..issued'
      BY <2>t, <3>1, <3>2
    <3>3. \A b \in Browser : jar'[b].refresh <= issued'
      BY <2>7, <2>t, <2>j, <3>1 DEF Insert
    <3>4. QED
      BY <2>7, <2>t, <3>1, <3>a, <3>b, <3>3 DEF Insert, SessionsInv, TypeOK, Requests
  <2>8. ASSUME NEW q \in Request, Revoke(q) PROVE SessionsInv'
    <3>1. /\ request' \in [Request -> Requests]
          /\ \A p \in Request : Shape(request'[p], issued')
      BY <2>8, Places, GotoStep DEF Revoke, StepsOf, Step
    <3>2. QED
      BY <2>8, <2>t, <2>q, <3>1 DEF Revoke
  <2>9. ASSUME NEW q \in Request, Match(q) PROVE SessionsInv'
    <3>1. /\ request' \in [Request -> Requests]
          /\ \A p \in Request : Shape(request'[p], issued')
      BY <2>9, Places, GotoStep, DoneStep DEF Match, StepsOf, Step
    <3>2. QED
      BY <2>9, <2>t, <2>q, <3>1 DEF Match
  <2>10. ASSUME NEW q \in Request, Update(q) PROVE SessionsInv'
    <3>1. /\ request' \in [Request -> Requests]
          /\ \A p \in Request : Shape(request'[p], issued')
      BY <2>10, Places, GotoStep, DoneStep DEF Update, StepsOf, Step
    <3>2. used' \in [Token \cup Link -> 0..2]
      <4>1. CASE request[q].op = "reset"
        <5>1. request[q].link \in Link
          BY <4>1, Places
        <5>2. QED
          BY <2>10, <2>t, <4>1, <5>1 DEF Update, Twice
      <4>2. CASE request[q].op # "reset"
        BY <2>10, <2>t, <4>2 DEF Update
      <4>3. QED
        BY <4>1, <4>2
    <3>3. epoch' \in 0..MaxEpoch
      BY <2>10, <2>t DEF Update
    <3>4. QED
      BY <2>10, <2>t, <2>q, <3>1, <3>2, <3>3 DEF Update
  <2>11. ASSUME NEW q \in Request, Unlink(q) PROVE SessionsInv'
    <3>1. /\ request' \in [Request -> Requests]
          /\ \A p \in Request : Shape(request'[p], issued')
      BY <2>11, Places, GotoStep DEF Unlink, StepsOf, Step
    <3>2. QED
      BY <2>11, <2>t, <2>q, <3>1 DEF Unlink
  <2>12. ASSUME NEW q \in Request, Purge(q) PROVE SessionsInv'
    <3>1. /\ request' \in [Request -> Requests]
          /\ \A p \in Request : Shape(request'[p], issued')
      BY <2>12, Places, GotoStep, DoneStep DEF Purge, StepsOf, Step
    <3>2. QED
      BY <2>12, <2>t, <2>q, <3>1 DEF Purge
  <2>13. ASSUME NEW q \in Request, Answer(q) PROVE SessionsInv'
    <3>1. /\ request' \in [Request -> Requests]
          /\ \A p \in Request : Shape(request'[p], issued')
      BY <2>13, DoneStep DEF Answer
    <3>2. request[q].from \in Browser /\ request[q].new \in 1..issued
      BY <2>13, Places DEF Answer
    <3> DEFINE c == [access |-> TRUE, refresh |-> request[q].new]
    <3>3. c \in Cookies /\ c.refresh <= issued
      BY <2>t, <3>2 DEF Cookies
    <3>4. jar' = [jar EXCEPT ![request[q].from] = c] /\ issued' = issued
      BY <2>13 DEF Answer
    <3>5. jar' \in [Browser -> Cookies] /\ \A d \in Browser : jar'[d].refresh <= issued'
      BY <3>2, <3>3, <3>4, CookiesType
    <3>6. QED
      BY <2>13, <2>t, <2>q, <3>1, <3>5 DEF Answer
  <2>14. ASSUME NEW q \in Request, Clear(q) PROVE SessionsInv'
    <3>1. /\ request' \in [Request -> Requests]
          /\ \A p \in Request : Shape(request'[p], issued')
      BY <2>14, DoneStep DEF Clear
    <3>2. request[q].from \in Browser
      BY <2>14, Places DEF Clear
    <3>3. NoCookies \in Cookies /\ NoCookies.refresh <= issued
      BY <2>t DEF Cookies, NoCookies, NoToken
    <3>4. jar' = [jar EXCEPT ![request[q].from] = NoCookies] /\ issued' = issued
      BY <2>14 DEF Clear
    <3>5. jar' \in [Browser -> Cookies] /\ \A d \in Browser : jar'[d].refresh <= issued'
      BY <3>2, <3>3, <3>4, CookiesType
    <3>6. ended' \subseteq 1..issued
      BY <2>14, <2>t, <2>j, <3>2 DEF Clear, NoToken
    <3>7. QED
      BY <2>14, <2>t, <2>q, <3>1, <3>5, <3>6 DEF Clear
  <2>15. ASSUME NEW q \in Request, LoseAnswer(q) PROVE SessionsInv'
    BY <2>15, <2>t, <2>q, DoneStep DEF LoseAnswer
  <2>16. CASE Crash
    <3>1. /\ request' \in [Request -> Requests]
          /\ \A p \in Request : Shape(request'[p], issued')
      BY <2>16 DEF Crash, Requests, Shape, Idle
    <3>2. QED
      BY <2>16, <2>t, <2>q, <3>1 DEF Crash
  <2>17. CASE UNCHANGED vars
    BY <2>17, <2>t DEF vars, SessionsInv, TypeOK
  <2>18. QED
    BY <2>1, <2>2, <2>3, <2>4, <2>5, <2>6, <2>7, <2>8, <2>9, <2>10, <2>11, <2>12, <2>13,
       <2>14, <2>15, <2>16, <2>17 DEF Next
<1>3. QED
  BY <1>1, <1>2, PTL DEF Spec

(* Every variable keeps its type: in particular every cookie and every row *)
(* is a token that was issued.                                             *)
THEOREM TypeCorrect == Spec => []TypeOK
<1>1. SessionsInv => TypeOK
  BY DEF SessionsInv
<1>2. QED
  BY <1>1, SessionsInvariant, PTL

-----------------------------------------------------------------------------
(* The parts of the inductive invariants.                                  *)

(* A change of the password runs alone, but for other changes if a mail or *)
(* a form is sent twice.                                                   *)
ChangesAlone ==
    "race" \notin env =>
        \A p, q \in Request : Changing(p) /\ p # q /\ request[q] # Idle =>
            Changing(q) /\ "twoTabs" \in env

(* Rows of an earlier password are about to be purged, and no token is     *)
(* issued for an earlier password.                                         *)
NoStale ==
    env \cap {"race", "writeFails", "crash"} = {} =>
        /\ \/ \A t \in rows : epochOf[t] = epoch
           \/ \E q \in Request : request[q].pc \in {"unlink", "purge"}
        /\ \A q \in Request : request[q].pc \in {"delete", "insert"} => request[q].epoch = epoch

Handled(q) == request[q].op \in {"login", "refresh", "logout", "change"}
InHand(q, b) == IF Handled(q) /\ request[q].from = b
                  THEN {request[q].old, request[q].new} ELSE {}

(* A token is the matter of one browser: in its cookies, sent by it or on  *)
(* its way to it.                                                          *)
Holds(b, t) == jar[b].refresh = t \/ \E q \in Request : t \in InHand(q, b)
OneHolder == \A b, c \in Browser, t \in Token : Holds(b, t) /\ Holds(c, t) => b = c

(* A token that was exchanged is gone, and its exchange is the only one.   *)
Exchanged ==
    /\ \A t \in Token : t > issued => used[t] = 0
    /\ "twoTabs" \notin env =>
        /\ \A p, q \in Request : request[p].op = "refresh" /\ request[q].op = "refresh"
                                 /\ request[p].from = request[q].from => p = q
        /\ \A t \in Token : used[t] <= 1 /\ (used[t] # 0 => t \notin rows)
        /\ \A q \in Request : request[q].pc = "delete" => used[request[q].old] = 0

(* A link that was used is gone, or just about to go.                      *)
LinkUsed ==
    /\ \A l \in Link \ mailed : used[l] = 0
    /\ \A q \in Request : request[q].op = "reset" => request[q].link \in mailed
    /\ env \cap {"twoTabs", "writeFails", "crash", "race"} = {} =>
        /\ \A l \in Link : used[l] <= 1
        /\ \A l \in links : used[l] # 0 => \E q \in Request : request[q].pc = "unlink"
        /\ \A q \in Request : request[q].pc = "update" /\ request[q].op = "reset"
                                => used[request[q].link] = 0

(* A new token is nowhere but in the answer that carries it.               *)
NewIsNew ==
    \A q \in Request : request[q].pc = "answer" =>
        /\ \A b \in Browser : jar[b].refresh # request[q].new
        /\ \A p \in Request : Handled(p) => request[p].old # request[q].new
        /\ \A p \in Request : Handled(p) /\ p # q => request[p].new # request[q].new

(* A token of the current password is in its table, or its browser is      *)
(* exchanging it.                                                          *)
InTable ==
    env = {} =>
        /\ \A t \in 1..issued : epochOf[t] <= epoch
        /\ (\E q \in Request : request[q].pc \in {"unlink", "purge"})
              => \A t \in 1..issued : epochOf[t] < epoch
        /\ \A b \in Browser :
              LET t == jar[b].refresh IN
              t # NoToken /\ epochOf[t] = epoch =>
                  t \in rows \/ \E q \in Request : request[q].op = "refresh" /\ request[q].from = b
        /\ \A q \in Request : request[q].pc = "answer" =>
              request[q].new \in rows \/ epochOf[request[q].new] # epoch

-----------------------------------------------------------------------------
(* What every step does to the requests, field by field.                   *)

Advance(q, pc) ==
    /\ Others(q) /\ request'[q].pc = pc /\ request'[q].op = request[q].op
    /\ request[q].op # "reset" =>
           /\ request'[q].from = request[q].from /\ request'[q].old = request[q].old
           /\ request'[q].new = request[q].new /\ request'[q].epoch = request[q].epoch
    /\ request[q].op = "reset" => request'[q].link = request[q].link

End(q) == Others(q) /\ request'[q] = Idle

Start(q, b, op, pc, old) ==
    /\ Others(q) /\ request'[q].op = op /\ request'[q].pc = pc
    /\ request'[q].from = b /\ request'[q].old = old /\ request'[q].new = NoToken
    /\ request'[q].epoch = epoch

LEMMA Moves ==
    ASSUME SessionsInv, NEW q \in Request
    PROVE  /\ Delete(q) => Advance(q, "insert")
           /\ Revoke(q) => Advance(q, "clear")
           /\ Match(q) => (request[q].link \in links /\ Advance(q, "update")) \/ End(q)
           /\ Update(q) => \/ epoch' = epoch + 1 /\ request[q].op = "reset" /\ Advance(q, "unlink")
                           \/ epoch' = epoch + 1 /\ request[q].op = "change" /\ Advance(q, "purge")
                           \/ epoch' = epoch /\ End(q)
           /\ Unlink(q) => Advance(q, "purge")
           /\ Purge(q) => (request[q].op = "change" /\ Advance(q, "clear")) \/ End(q)
           /\ Answer(q) \/ Clear(q) \/ LoseAnswer(q) => End(q)
<1> USE DEF tables, StepsOf, Step, Advance
<1>1. Delete(q) => Advance(q, "insert")
  BY Places, GotoStep DEF Delete
<1>2. Revoke(q) => Advance(q, "clear")
  BY Places, GotoStep DEF Revoke
<1>3. Match(q) => (request[q].link \in links /\ Advance(q, "update")) \/ End(q)
  BY Places, GotoStep, DoneStep DEF Match, End
<1>4. Update(q) => \/ epoch' = epoch + 1 /\ request[q].op = "reset" /\ Advance(q, "unlink")
                   \/ epoch' = epoch + 1 /\ request[q].op = "change" /\ Advance(q, "purge")
                   \/ epoch' = epoch /\ End(q)
  <2> SUFFICES ASSUME Update(q)
               PROVE  \/ epoch' = epoch + 1 /\ request[q].op = "reset" /\ Advance(q, "unlink")
                      \/ epoch' = epoch + 1 /\ request[q].op = "change" /\ Advance(q, "purge")
                      \/ epoch' = epoch /\ End(q)
    OBVIOUS
  <2>1. request[q].op \in {"change", "reset"} /\ request[q] # Idle
        /\ request[q].pc # "answer" /\ issued' = issued
    BY Places DEF Update
  <2>2. \/ epoch' = epoch + 1 /\ request[q].op = "reset" /\ Goto(q, "unlink")
        \/ epoch' = epoch + 1 /\ request[q].op = "change" /\ Goto(q, "purge")
        \/ epoch' = epoch /\ Done(q)
    BY <2>1 DEF Update
  <2>3. QED
    BY <2>1, <2>2, GotoStep, DoneStep DEF End
<1>5. Unlink(q) => Advance(q, "purge")
  BY Places, GotoStep DEF Unlink
<1>6. Purge(q) => (request[q].op = "change" /\ Advance(q, "clear")) \/ End(q)
  BY Places, GotoStep, DoneStep DEF Purge, End
<1>7. Answer(q) \/ Clear(q) \/ LoseAnswer(q) => End(q)
  BY DoneStep DEF Answer, Clear, LoseAnswer, End
<1>8. QED
  BY <1>1, <1>2, <1>3, <1>4, <1>5, <1>6, <1>7

LEMMA Starts ==
    ASSUME SessionsInv, NEW q \in Request, NEW b \in Browser
    PROVE  /\ Login(q, b) => Start(q, b, "login", "insert", NoToken)
           /\ Refresh(q, b) => Start(q, b, "refresh", "find", jar[b].refresh)
                               /\ jar[b].refresh \in 1..issued
           /\ Logout(q, b) => Start(q, b, "logout", "revoke", NoToken)
           /\ ChangePassword(q, b) => Start(q, b, "change", "update", NoToken)
<1> USE DEF tables, Start
<1>1. Login(q, b) => Start(q, b, "login", "insert", NoToken)
  BY BeginStep DEF Login
<1>2. jar[b].refresh # NoToken => jar[b].refresh \in 1..issued
  BY BoundAssumption DEF SessionsInv, TypeOK, Cookies, Token, NoToken
<1>3. Refresh(q, b) => Start(q, b, "refresh", "find", jar[b].refresh) /\ jar[b].refresh \in 1..issued
  BY <1>2, BeginStep DEF Refresh, Carried
<1>4. Logout(q, b) => Start(q, b, "logout", "revoke", NoToken)
  BY BeginStep DEF Logout, Carried
<1>5. ChangePassword(q, b) => Start(q, b, "change", "update", NoToken)
  BY BeginStep DEF ChangePassword
<1>6. QED
  BY <1>1, <1>3, <1>4, <1>5

-----------------------------------------------------------------------------
(* A change of the password ends the sessions before it.                   *)

LEMMA EnvironmentFixed == ASSUME [Next]_vars PROVE env' = env
<1>1. ASSUME NEW q \in Request, NEW b \in Browser,
             Login(q, b) \/ Refresh(q, b) \/ Logout(q, b) \/ ChangePassword(q, b)
      PROVE  env' = env
  BY <1>1 DEF Login, Refresh, Logout, ChangePassword
<1>2. ASSUME NEW q \in Request,
             \/ Find(q) \/ Delete(q) \/ Insert(q) \/ Revoke(q) \/ Match(q) \/ Update(q)
             \/ Unlink(q) \/ Purge(q) \/ Answer(q) \/ Clear(q) \/ LoseAnswer(q)
      PROVE  env' = env
  BY <1>2 DEF Find, Delete, Insert, Revoke, Match, Update, Unlink, Purge, Answer, Clear, LoseAnswer
<1>3. ASSUME NEW q \in Request, NEW l \in Link, ResetPassword(q, l) PROVE env' = env
  BY <1>3 DEF ResetPassword
<1>4. ASSUME NEW x, ForgotPassword(x) \/ AccessExpires(x) \/ Crash \/ UNCHANGED vars
      PROVE  env' = env
  BY <1>4 DEF ForgotPassword, AccessExpires, Crash, vars
<1>5. QED
  BY <1>1, <1>2, <1>3, <1>4 DEF Next

LEMMA AloneInvariant == Spec => []ChangesAlone
<1>1. Init => ChangesAlone
  BY DEF Init, ChangesAlone, Changing, Idle
<1>2. SessionsInv /\ ChangesAlone /\ [Next]_vars => ChangesAlone'
  <2> SUFFICES ASSUME SessionsInv, [Next]_vars, "race" \notin env, env' = env,
                      \A p, r \in Request : Changing(p) /\ p # r /\ request[r] # Idle =>
                          Changing(r) /\ "twoTabs" \in env
               PROVE  ChangesAlone'
    BY EnvironmentFixed DEF ChangesAlone
  <2> USE DEF ChangesAlone, Changing, Others
  <2>1. ASSUME NEW q \in Request, NEW b \in Browser,
               Login(q, b) \/ Refresh(q, b) \/ Logout(q, b)
        PROVE  ChangesAlone'
    BY <2>1, Starts DEF Start, MayBegin, Login, Refresh, Logout
  <2>2. ASSUME NEW q \in Request, NEW b \in Browser, ChangePassword(q, b) PROVE ChangesAlone'
    BY <2>2, Starts DEF Start, ChangePassword, AllIdle, Idle
  <2>3. ASSUME NEW q \in Request, NEW l \in Link, ResetPassword(q, l) PROVE ChangesAlone'
    <3>1. Others(q) /\ request'[q].op = "reset"
      BY <2>3, ResetStep
    <3>2. \A p \in Request : request[p] # Idle => "twoTabs" \in env /\ Changing(p)
      BY <2>3 DEF ResetPassword
    <3>3. SUFFICES ASSUME NEW p \in Request, NEW r \in Request, p # r,
                          request'[p].op \in {"change", "reset"}, request'[r] # Idle
                   PROVE  request'[r].op \in {"change", "reset"} /\ "twoTabs" \in env
      OBVIOUS
    <3>4. CASE r = q
      <4>1. request[p].op # "none"
        BY <3>1, <3>3, <3>4
      <4>2. QED
        BY <3>1, <3>2, <3>4, <4>1 DEF Idle
    <3>5. CASE r # q
      BY <3>1, <3>2, <3>3, <3>5
    <3>6. QED
      BY <3>4, <3>5
  <2>4. ASSUME NEW q \in Request, Others(q), request[q] # Idle,
               request'[q] = Idle \/ request'[q].op = request[q].op
        PROVE  ChangesAlone'
    <3> SUFFICES ASSUME NEW p \in Request, NEW r \in Request, p # r,
                        request'[p].op \in {"change", "reset"}, request'[r] # Idle
                 PROVE  request'[r].op \in {"change", "reset"} /\ "twoTabs" \in env
      OBVIOUS
    <3>1. request[p].op = request'[p].op
      BY <2>4 DEF Idle
    <3>2. request[r] # Idle /\ request[r].op = request'[r].op
      BY <2>4
    <3>3. QED
      BY <3>1, <3>2
  <2>5. ASSUME NEW q \in Request,
               \/ Find(q) \/ Delete(q) \/ Insert(q) \/ Revoke(q) \/ Match(q) \/ Update(q)
               \/ Unlink(q) \/ Purge(q) \/ Answer(q) \/ Clear(q) \/ LoseAnswer(q)
        PROVE  ChangesAlone'
    <3>1. request[q].pc # "idle"
      BY <2>5 DEF Find, Delete, Insert, Revoke, Match, Update, Unlink, Purge, Answer, Clear, LoseAnswer
    <3>2. Others(q) /\ (request'[q] = Idle \/ request'[q].op = request[q].op)
      <4>1. CASE Find(q) \/ Insert(q)
        BY <4>1, FindStep, InsertStep
      <4>2. CASE ~(Find(q) \/ Insert(q))
        BY <2>5, <4>2, Moves DEF Advance, End
      <4>3. QED
        BY <4>1, <4>2
    <3>3. QED
      BY <3>1, <3>2, <2>4, Places
  <2>9. CASE UNCHANGED request
    BY <2>9
  <2>10. ASSUME NEW x, ForgotPassword(x) \/ AccessExpires(x) PROVE ChangesAlone'
    BY <2>9, <2>10 DEF ForgotPassword, AccessExpires
  <2>11. CASE Crash
    BY <2>11 DEF Crash, Idle
  <2>12. CASE UNCHANGED vars
    BY <2>9, <2>12 DEF vars
  <2>13. QED
    BY <2>1, <2>2, <2>3, <2>5, <2>10, <2>11, <2>12 DEF Next
<1>3. QED
  BY <1>1, <1>2, SessionsInvariant, PTL DEF Spec

LEMMA StaleInvariant == Spec => []NoStale
<1>1. Init => NoStale
  BY DEF Init, NoStale, Idle
<1>2. SessionsInv /\ ChangesAlone /\ NoStale /\ [Next]_vars => NoStale'
  <2> DEFINE Good == \A t \in rows : epochOf[t] = epoch
             Ending == \E q \in Request : request[q].pc \in {"unlink", "purge"}
             Current == \A q \in Request : request[q].pc \in {"delete", "insert"}
                                                => request[q].epoch = epoch
  <2> SUFFICES ASSUME SessionsInv, ChangesAlone, [Next]_vars, env' = env,
                      env \cap {"race", "writeFails", "crash"} = {},
                      Good \/ Ending, Current
               PROVE  (Good \/ Ending)' /\ Current'
    BY EnvironmentFixed DEF NoStale
  <2> USE DEF Others, tables
  <2>n. \A p, q \in Request : request[q].pc \in {"find", "delete", "insert"} =>
            request[p].pc \notin {"update", "unlink", "purge"}
    <3> SUFFICES ASSUME NEW p \in Request, NEW q \in Request,
                        request[q].pc \in {"find", "delete", "insert"},
                        request[p].pc \in {"update", "unlink", "purge"}
                 PROVE  FALSE
      OBVIOUS
    <3>1. request[q].op \in {"login", "refresh"} /\ request[q] # Idle
      BY Places
    <3>2. request[p].op \in {"change", "reset"}
      BY Places
    <3>3. QED
      BY <3>1, <3>2 DEF ChangesAlone, Changing
  <2>1. ASSUME NEW q \in Request, Others(q), epoch' = epoch, UNCHANGED epochOf, rows' \subseteq rows,
               \/ request[q].pc \notin {"unlink", "purge"}
               \/ request'[q].pc \in {"unlink", "purge"}
               \/ rows' = {},
               request'[q].pc \in {"delete", "insert"} => request'[q].epoch = epoch
        PROVE  (Good \/ Ending)' /\ Current'
    <3>1. Current'
      BY <2>1
    <3>2. (Good \/ Ending)'
      <4>1. CASE Good
        BY <2>1, <4>1
      <4>2. CASE Ending
        BY <2>1, <4>2
      <4>3. QED
        BY <4>1, <4>2
    <3>3. QED
      BY <3>1, <3>2
  <2>2. ASSUME NEW q \in Request, NEW b \in Browser,
               Login(q, b) \/ Refresh(q, b) \/ Logout(q, b) \/ ChangePassword(q, b)
        PROVE  (Good \/ Ending)' /\ Current'
    <3>1. /\ Others(q) /\ request'[q].pc \notin {"delete"}
          /\ request'[q].pc = "insert" => request'[q].epoch = epoch
      BY <2>2, Starts DEF Start
    <3>2. request[q].pc = "idle"
      BY <2>2 DEF Login, Refresh, Logout, ChangePassword, MayBegin, Idle
    <3>3. UNCHANGED <<epoch, epochOf, rows>>
      BY <2>2 DEF Login, Refresh, Logout, ChangePassword
    <3>4. QED
      BY <2>1, <3>1, <3>2, <3>3
  <2>3. ASSUME NEW q \in Request, NEW l \in Link, ResetPassword(q, l)
        PROVE  (Good \/ Ending)' /\ Current'
    <3>1. Others(q) /\ request'[q].pc = "match"
      BY <2>3, ResetStep
    <3>a. request[q].pc = "idle"
      BY <2>3 DEF ResetPassword, Idle
    <3>2. UNCHANGED <<epoch, epochOf, rows>>
      BY <2>3 DEF ResetPassword
    <3>3. QED
      BY <2>1, <3>1, <3>a, <3>2
  <2>4. ASSUME NEW q \in Request, Find(q) PROVE (Good \/ Ending)' /\ Current'
    <3>1. request[q].pc = "find" /\ UNCHANGED <<epoch, epochOf, rows>>
      BY <2>4 DEF Find
    <3>2. Good
      BY <2>n, <3>1
    <3>3. request[q].old \in rows => epochOf[request[q].old] = epoch
      BY <3>2
    <3>4. /\ Others(q) /\ request'[q].epoch = epochOf[request[q].old]
          /\ request'[q].pc = IF request[q].old \in rows THEN "delete" ELSE "clear"
      BY <2>4, FindStep
    <3>5. QED
      BY <2>1, <3>1, <3>3, <3>4
  <2>5. ASSUME NEW q \in Request, Insert(q) PROVE (Good \/ Ending)' /\ Current'
    <3>1. request[q].pc = "insert" /\ epoch' = epoch /\ request[q].epoch = epoch
      BY <2>5 DEF Insert
    <3>2. Good
      BY <2>n, <3>1
    <3>3. Others(q) /\ request'[q].pc = "answer"
      BY <2>5, InsertStep
    <3>4. rows' \subseteq rows \cup {issued + 1} /\ epochOf' = [epochOf EXCEPT ![issued + 1] = epoch]
      BY <2>5, <3>1 DEF Insert
    <3>5. epochOf \in [Token -> 0..MaxEpoch] /\ issued + 1 \in Token /\ rows \subseteq Token
          /\ rows \subseteq 1..issued
      BY <2>5, BoundAssumption DEF SessionsInv, TypeOK, Token, Insert
    <3>6. Good'
      BY <3>1, <3>2, <3>4, <3>5
    <3>7. Current'
      BY <3>1, <3>3
    <3>8. QED
      BY <3>6, <3>7
  <2>6. ASSUME NEW q \in Request, Update(q) PROVE (Good \/ Ending)' /\ Current'
    <3>1. request[q].pc = "update" /\ UNCHANGED <<epochOf, rows>>
      BY <2>6 DEF Update
    <3>2. CASE epoch' = epoch /\ End(q)
      BY <2>1, <3>1, <3>2 DEF End, Idle
    <3>3. CASE \E pc \in {"unlink", "purge"} : Advance(q, pc)
      <4>1. Ending' /\ request'[q].pc \in {"unlink", "purge"}
        BY <3>3 DEF Advance
      <4>2. \A p \in Request : request[p].pc \notin {"delete", "insert"}
        BY <2>n, <3>1
      <4>3. Current'
        BY <3>3, <4>1, <4>2 DEF Advance
      <4>4. QED
        BY <4>1, <4>3
    <3>4. QED
      BY <2>6, <3>2, <3>3, Moves
  <2>7. ASSUME NEW q \in Request, Delete(q) PROVE (Good \/ Ending)' /\ Current'
    <3>1. request[q].pc = "delete" /\ UNCHANGED <<epoch, epochOf>> /\ rows' \subseteq rows
      BY <2>7 DEF Delete
    <3>2. Advance(q, "insert") /\ request[q].op = "refresh" /\ request[q].epoch = epoch
      BY <2>7, <3>1, Moves, Places
    <3>3. QED
      BY <2>1, <3>1, <3>2 DEF Advance
  <2>8. ASSUME NEW q \in Request,
               Revoke(q) \/ Match(q) \/ Answer(q) \/ Clear(q) \/ LoseAnswer(q)
        PROVE  (Good \/ Ending)' /\ Current'
    <3>1. request[q].pc \in {"revoke", "match", "answer", "clear"}
      BY <2>8 DEF Revoke, Match, Answer, Clear, LoseAnswer
    <3>2. UNCHANGED <<epoch, epochOf>> /\ rows' \subseteq rows
      BY <2>8 DEF Revoke, Match, Answer, Clear, LoseAnswer
    <3>3. Others(q) /\ request'[q].pc \in {"clear", "update", "idle"}
      BY <2>8, Moves DEF Advance, End, Idle
    <3>4. QED
      BY <2>1, <3>1, <3>2, <3>3
  <2>9. ASSUME NEW q \in Request, Unlink(q) \/ Purge(q) PROVE (Good \/ Ending)' /\ Current'
    <3>1. UNCHANGED <<epoch, epochOf>> /\ rows' \subseteq rows /\ (Purge(q) => rows' = {})
      BY <2>9 DEF Unlink, Purge
    <3>2. Others(q) /\ request'[q].pc \in {"clear", "purge", "idle"}
          /\ (Unlink(q) => request'[q].pc = "purge")
      BY <2>9, Moves DEF Advance, End, Idle
    <3>3. QED
      BY <2>1, <2>9, <3>1, <3>2
  <2>10. CASE UNCHANGED <<epoch, epochOf, rows, request>>
    BY <2>10
  <2>11. ASSUME NEW x, ForgotPassword(x) \/ AccessExpires(x) \/ UNCHANGED vars
         PROVE  (Good \/ Ending)' /\ Current'
    BY <2>10, <2>11 DEF ForgotPassword, AccessExpires, vars
  <2>12. QED
    BY <2>2, <2>3, <2>4, <2>5, <2>6, <2>7, <2>8, <2>9, <2>11 DEF Next, Crash
<1>3. QED
  BY <1>1, <1>2, SessionsInvariant, AloneInvariant, PTL DEF Spec

(* "Every session (including this one) must log in again": once a change   *)
(* of the password is through, no session before it can be refreshed.      *)
THEOREM PasswordEndsSessions == Spec => []ChangeEndsSessions
<1>1. SessionsInv /\ NoStale => ChangeEndsSessions
  BY Places DEF NoStale, ChangeEndsSessions, Changing
<1>2. QED
  BY <1>1, SessionsInvariant, StaleInvariant, PTL

-----------------------------------------------------------------------------
(* A token is exchanged once, and a link used once.                        *)

(* The tokens a request has in hand after a step.                          *)
LEMMA InHandAfter ==
    ASSUME SessionsInv, [Next]_vars, NEW b \in Browser, NEW t \in 1..issued, Holds(b, t)'
    PROVE  Holds(b, t)
<1> USE DEF Holds, Others
<1>0. t # NoToken /\ issued \in Nat
  BY BoundAssumption DEF SessionsInv, TypeOK, NoToken
<1>1. ASSUME NEW q \in Request, Others(q), InHand(q, b)' \subseteq InHand(q, b) \cup {NoToken, jar[b].refresh},
             jar'[b].refresh = jar[b].refresh \/ jar'[b].refresh \in InHand(q, b) \cup {NoToken}
      PROVE  Holds(b, t)
  <2>1. \A p \in Request : p # q => InHand(p, b)' = InHand(p, b)
    BY <1>1 DEF InHand, Handled
  <2>2. QED
    BY <1>0, <1>1, <2>1
<1>2. ASSUME NEW q \in Request, NEW c \in Browser,
             Login(q, c) \/ Refresh(q, c) \/ Logout(q, c) \/ ChangePassword(q, c)
      PROVE  Holds(b, t)
  <2>1. UNCHANGED jar
    BY <1>2 DEF Login, Refresh, Logout, ChangePassword
  <2>2. Others(q) /\ (request'[q].from = b => request'[q].old \in {NoToken, jar[b].refresh})
        /\ request'[q].new = NoToken
    BY <1>2, Starts DEF Start
  <2>3. QED
    BY <1>1, <2>1, <2>2 DEF InHand
<1>3. ASSUME NEW q \in Request, NEW l \in Link, ResetPassword(q, l) PROVE Holds(b, t)
  <2>1. Others(q) /\ request'[q].op = "reset" /\ UNCHANGED jar
    BY <1>3, ResetStep DEF ResetPassword
  <2>2. QED
    BY <1>1, <2>1 DEF InHand, Handled
<1>4. ASSUME NEW q \in Request, Find(q) PROVE Holds(b, t)
  <2>a. /\ Others(q) /\ request'[q].op = request[q].op /\ request'[q].from = request[q].from
        /\ request'[q].old = request[q].old /\ request'[q].new = request[q].new
    BY <1>4, FindStep
  <2>1. Others(q) /\ UNCHANGED jar /\ InHand(q, b)' = InHand(q, b)
    BY <1>4, <2>a DEF Find, InHand, Handled
  <2>2. QED
    BY <1>1, <2>1
<1>5. ASSUME NEW q \in Request, Insert(q) PROVE Holds(b, t)
  <2>1. /\ Others(q) /\ request'[q].op = request[q].op /\ request'[q].from = request[q].from
        /\ request'[q].old = request[q].old /\ request'[q].new = issued + 1
    BY <1>5, InsertStep
  <2>2. UNCHANGED jar /\ t # issued + 1
    BY <1>5, <1>0 DEF Insert
  <2>3. \A p \in Request : t \in InHand(p, b)' => t \in InHand(p, b)
    BY <2>1, <2>2 DEF InHand, Handled
  <2>4. QED
    BY <2>2, <2>3
<1>6. ASSUME NEW q \in Request, NEW pc, Advance(q, pc), UNCHANGED jar PROVE Holds(b, t)
  <2>1. Others(q) /\ InHand(q, b)' = InHand(q, b)
    BY <1>6 DEF Advance, InHand, Handled
  <2>2. QED
    BY <1>1, <1>6, <2>1
<1>7. ASSUME NEW q \in Request, End(q), UNCHANGED jar PROVE Holds(b, t)
  <2>1. Others(q) /\ InHand(q, b)' = {}
    BY <1>7 DEF End, InHand, Handled, Idle
  <2>2. QED
    BY <1>1, <1>7, <2>1
<1>8. ASSUME NEW q \in Request,
             \/ Delete(q) \/ Revoke(q) \/ Match(q) \/ Update(q) \/ Unlink(q) \/ Purge(q)
             \/ LoseAnswer(q)
      PROVE  Holds(b, t)
  <2>1. UNCHANGED jar
    BY <1>8 DEF Delete, Revoke, Match, Update, Unlink, Purge, LoseAnswer
  <2>2. (\E pc : Advance(q, pc)) \/ End(q)
    BY <1>8, Moves
  <2>3. QED
    BY <1>6, <1>7, <2>1, <2>2
<1>9. ASSUME NEW q \in Request, Answer(q) PROVE Holds(b, t)
  <2>1. request[q].from \in Browser /\ request[q].op \in {"login", "refresh"}
    BY <1>9, Places DEF Answer
  <2>2. Others(q) /\ InHand(q, b)' = {}
    BY <1>9, Moves DEF End, InHand, Handled, Idle
  <2>3. jar'[b].refresh = jar[b].refresh \/ jar'[b].refresh \in InHand(q, b)
    BY <1>9, <2>1 DEF Answer, InHand, Handled, SessionsInv, TypeOK
  <2>4. QED
    BY <1>1, <2>2, <2>3
<1>10. ASSUME NEW q \in Request, Clear(q) PROVE Holds(b, t)
  <2>1. request[q].from \in Browser
    BY <1>10, Places DEF Clear
  <2>2. Others(q) /\ InHand(q, b)' = {}
    BY <1>10, Moves DEF End, InHand, Handled, Idle
  <2>3. jar'[b].refresh = jar[b].refresh \/ jar'[b].refresh = NoToken
    BY <1>10, <2>1 DEF Clear, NoCookies, SessionsInv, TypeOK
  <2>4. QED
    BY <1>1, <2>2, <2>3
<1>11. ASSUME NEW c \in Browser, AccessExpires(c) PROVE Holds(b, t)
  <2>1. jar'[b].refresh = jar[b].refresh /\ UNCHANGED request
    BY <1>11 DEF AccessExpires, SessionsInv, TypeOK, Cookies
  <2>2. QED
    BY <2>1 DEF InHand, Handled
<1>12. CASE Crash
  <2>1. UNCHANGED jar /\ \A p \in Request : InHand(p, b)' = {}
    BY <1>12 DEF Crash, InHand, Handled, Idle
  <2>2. QED
    BY <2>1
<1>13. ASSUME NEW l, ForgotPassword(l) \/ UNCHANGED vars PROVE Holds(b, t)
  <2>1. UNCHANGED <<request, jar>>
    BY <1>13 DEF ForgotPassword, vars
  <2>2. QED
    BY <2>1 DEF InHand, Handled
<1>14. QED
  BY <1>2, <1>3, <1>4, <1>5, <1>8, <1>9, <1>10, <1>11, <1>12, <1>13 DEF Next

LEMMA HeldIsIssued ==
    ASSUME SessionsInv, NEW b \in Browser, NEW t \in Token, Holds(b, t) PROVE t \in 1..issued
<1>1. ASSUME NEW q \in Request, t \in InHand(q, b) PROVE t \in 1..issued
  <2>1. request[q].op \in {"login", "refresh", "logout", "change"} /\ t \in {request[q].old, request[q].new}
    BY <1>1 DEF InHand, Handled
  <2>2. Shape(request[q], issued) /\ issued \in Nat /\ t # NoToken /\ t \in Nat
    BY BoundAssumption DEF SessionsInv, TypeOK, Token, NoToken
  <2>3. QED
    BY <2>1, <2>2 DEF Shape, NoToken, Token
<1>2. jar[b].refresh = t => t \in 1..issued
  BY BoundAssumption DEF SessionsInv, TypeOK, Token
<1>3. QED
  BY <1>1, <1>2 DEF Holds

LEMMA HolderInvariant == Spec => []OneHolder
<1>1. Init => OneHolder
  BY DEF Init, OneHolder, Holds, InHand, Handled, Idle, NoCookies, Token, NoToken
<1> DEFINE Issued == SessionsInv => \A b \in Browser, t \in Token : Holds(b, t) => t \in 1..issued
<1>a. Issued
  BY HeldIsIssued
<1>b. Issued'
  BY <1>a, PTL
<1>2. SessionsInv /\ SessionsInv' /\ OneHolder /\ [Next]_vars => OneHolder'
  <2> SUFFICES ASSUME SessionsInv, SessionsInv', OneHolder, [Next]_vars,
                      NEW b \in Browser, NEW c \in Browser, NEW t \in Token,
                      Holds(b, t)', Holds(c, t)'
               PROVE  b = c
    BY DEF OneHolder
  <2>1. CASE t \in 1..issued
    BY <2>1, InHandAfter DEF OneHolder
  <2>2. CASE t \notin 1..issued
    <3>1. t \in 1..issued' /\ issued \in Nat
      BY <1>b, BoundAssumption DEF SessionsInv, TypeOK
    <3>2. PICK q \in Request : Insert(q)
      BY <2>2, <3>1 DEF Next, vars, tables, Login, Refresh, Logout, ChangePassword, ForgotPassword,
         ResetPassword, AccessExpires, Find, Delete, Revoke, Match, Update, Unlink, Purge,
         Answer, Clear, LoseAnswer, Crash
    <3>3. /\ Others(q) /\ request'[q].op = request[q].op /\ request'[q].from = request[q].from
          /\ request'[q].old = request[q].old /\ request'[q].new = issued + 1
          /\ issued' = issued + 1 /\ UNCHANGED jar
      BY <3>2, InsertStep DEF Insert
    <3>4. ASSUME NEW d \in Browser, Holds(d, t)' PROVE d = request[q].from
      <4>1. t = issued + 1 /\ ~Holds(d, t)
        BY <2>2, <3>1, <3>3, HeldIsIssued
      <4>2. \A p \in Request : p # q => InHand(p, d)' = InHand(p, d)
        BY <3>3 DEF InHand, Handled, Others
      <4>3. PICK p \in Request : t \in InHand(p, d)'
        BY <3>3, <3>4, <4>1 DEF Holds
      <4>4. p = q
        BY <4>1, <4>2, <4>3 DEF Holds
      <4>5. QED
        BY <3>3, <4>3, <4>4 DEF InHand
    <3>5. QED
      BY <3>4
  <2>3. QED
    BY <2>1, <2>2
<1>3. QED
  BY <1>1, <1>2, SessionsInvariant, PTL DEF Spec

LEMMA ExchangeInvariant == Spec => []Exchanged
<1> DEFINE Fresh == \A t \in Token : t > issued => used[t] = 0
           OneRefresh == \A p, q \in Request : request[p].op = "refresh" /\ request[q].op = "refresh"
                             /\ request[p].from = request[q].from => p = q
           Gone == \A t \in Token : used[t] <= 1 /\ (used[t] # 0 => t \notin rows)
           Unused == \A q \in Request : request[q].pc = "delete" => used[request[q].old] = 0
           Single == "twoTabs" \notin env => OneRefresh /\ Gone /\ Unused
<1>1. Init => Exchanged
  BY DEF Init, Exchanged, Idle
<1>2. SessionsInv /\ OneHolder /\ Exchanged /\ [Next]_vars => Exchanged'
  <2> SUFFICES ASSUME SessionsInv, OneHolder, [Next]_vars, env' = env, Fresh, Single
               PROVE  (Fresh /\ Single)'
    BY EnvironmentFixed DEF Exchanged
  <2> USE DEF Others, tables
  <2>t. /\ issued \in Nat /\ rows \subseteq 1..issued /\ used \in [Token \cup Link -> 0..2]
        /\ Token = 1..MaxTokens /\ MaxTokens \in Nat /\ issued <= MaxTokens
    BY BoundAssumption DEF SessionsInv, TypeOK, Token
  <2>1. ASSUME NEW q \in Request, Others(q), issued' = issued, \A t \in Token : used'[t] = used[t],
               rows' \subseteq rows,
               request'[q].op = "refresh" =>
                   /\ request[q].op = "refresh" /\ request'[q].from = request[q].from
                   /\ request'[q].pc = "delete" =>
                         /\ request'[q].old \in Token
                         /\ "twoTabs" \notin env => used[request'[q].old] = 0,
               request'[q].pc = "delete" => request'[q].op = "refresh"
        PROVE  (Fresh /\ Single)'
    <3>1. Fresh'
      BY <2>1, <2>t
    <3>2. ASSUME "twoTabs" \notin env PROVE (OneRefresh /\ Gone /\ Unused)'
      <4>1. OneRefresh'
        BY <2>1, <3>2
      <4>2. Gone'
        BY <2>1, <3>2
      <4>3. ASSUME NEW p \in Request, request'[p].pc = "delete" PROVE used'[request'[p].old] = 0
        <5>1. CASE p = q
          BY <2>1, <3>2, <4>3, <5>1
        <5>2. CASE p # q
          <6>1. request'[p] = request[p] /\ request[p].old \in Token
            BY <2>1, <2>t, <4>3, <5>2, Places
          <6>2. used[request[p].old] = 0
            BY <3>2, <4>3, <6>1
          <6>3. used'[request[p].old] = used[request[p].old]
            BY <2>1, <6>1
          <6>4. QED
            BY <6>1, <6>2, <6>3
        <5>3. QED
          BY <5>1, <5>2
      <4>4. QED
        BY <4>1, <4>2, <4>3
    <3>3. QED
      BY <3>1, <3>2
  <2>2. ASSUME NEW q \in Request, NEW b \in Browser,
               Login(q, b) \/ Logout(q, b) \/ ChangePassword(q, b)
        PROVE  (Fresh /\ Single)'
    <3>1. Others(q) /\ request'[q].op # "refresh" /\ request'[q].pc # "delete"
      BY <2>2, Starts DEF Start
    <3>2. UNCHANGED <<issued, used, rows>>
      BY <2>2 DEF Login, Logout, ChangePassword
    <3>3. QED
      BY <2>1, <3>1, <3>2
  <2>3. ASSUME NEW q \in Request, NEW b \in Browser, Refresh(q, b) PROVE (Fresh /\ Single)'
    <3>1. Others(q) /\ request'[q].pc = "find" /\ request'[q].from = b
      BY <2>3, Starts DEF Start
    <3>2. UNCHANGED <<issued, used, rows>>
      BY <2>3 DEF Refresh
    <3>3. ASSUME "twoTabs" \notin env, NEW p \in Request, request[p].op = "refresh"
          PROVE  request[p].from # b
      BY <2>3, <3>3, Places DEF Refresh, Changing
    <3>4. "twoTabs" \notin env => OneRefresh'
      BY <3>1, <3>3
    <3>5. Fresh' /\ ("twoTabs" \notin env => Gone' /\ Unused')
      BY <3>1, <3>2
    <3>6. QED
      BY <3>4, <3>5
  <2>4. ASSUME NEW q \in Request, NEW l \in Link, ResetPassword(q, l) PROVE (Fresh /\ Single)'
    <3>1. Others(q) /\ request'[q].op # "refresh" /\ request'[q].pc # "delete"
      BY <2>4, ResetStep
    <3>2. UNCHANGED <<issued, used, rows>>
      BY <2>4 DEF ResetPassword
    <3>3. QED
      BY <2>1, <3>1, <3>2
  <2>5. ASSUME NEW q \in Request, Find(q) PROVE (Fresh /\ Single)'
    <3>1. /\ Others(q) /\ request[q].op = "refresh" /\ request'[q].op = "refresh"
          /\ request[q].old \in 1..issued
          /\ request'[q].from = request[q].from /\ request'[q].old = request[q].old
          /\ request'[q].pc = "delete" => request[q].old \in rows
      BY <2>5, FindStep
    <3>2. UNCHANGED <<issued, used, rows>>
      BY <2>5 DEF Find
    <3>3. QED
      BY <2>1, <2>t, <3>1, <3>2
  <2>6. ASSUME NEW q \in Request, Delete(q) PROVE (Fresh /\ Single)'
    <3> DEFINE o == request[q].old
    <3>1. /\ Others(q) /\ request'[q].pc = "insert" /\ request'[q].op = "refresh"
          /\ request[q].op = "refresh" /\ request'[q].from = request[q].from
      BY <2>6, Moves, Places DEF Delete, Advance
    <3>2. /\ issued' = issued /\ o \in 1..issued /\ o \in Token /\ rows' = rows \ {o}
          /\ request[q].pc = "delete" /\ request[q].from \in Browser
      BY <2>6, <2>t, <3>1, Places DEF Delete
    <3>3. used'[o] = (IF used[o] = 2 THEN 2 ELSE used[o] + 1)
          /\ \A t \in Token : t # o => used'[t] = used[t]
      BY <2>6, <2>t, <3>2 DEF Delete, Twice
    <3>4. Fresh'
      BY <2>t, <3>2, <3>3
    <3>5. ASSUME "twoTabs" \notin env PROVE (OneRefresh /\ Gone /\ Unused)'
      <4>1. OneRefresh'
        BY <3>1, <3>5
      <4>2. used[o] = 0
        BY <3>2, <3>5
      <4>3. Gone'
        BY <3>2, <3>3, <3>5, <4>2
      <4>4. ASSUME NEW p \in Request, request'[p].pc = "delete" PROVE used'[request'[p].old] = 0
        <5>1. p # q /\ request'[p] = request[p]
          BY <3>1, <4>4
        <5>2. request[p].op = "refresh" /\ request[p].old \in Token /\ request[p].from \in Browser
          BY <2>t, <4>4, <5>1, Places
        <5>3. request[p].old # o
          <6>1. SUFFICES ASSUME request[p].old = o PROVE FALSE
            OBVIOUS
          <6>2. Holds(request[p].from, o) /\ Holds(request[q].from, o)
            BY <3>1, <5>2, <6>1 DEF Holds, InHand, Handled
          <6>3. request[p].from = request[q].from
            BY <3>2, <5>2, <6>2 DEF OneHolder
          <6>4. QED
            BY <3>1, <3>5, <5>1, <5>2, <6>3
        <5>4. QED
          BY <3>3, <3>5, <4>4, <5>1, <5>2, <5>3
      <4>5. QED
        BY <4>1, <4>3, <4>4
    <3>6. QED
      BY <3>4, <3>5
  <2>7. ASSUME NEW q \in Request, Insert(q) PROVE (Fresh /\ Single)'
    <3>1. /\ Others(q) /\ request'[q].op = request[q].op /\ request'[q].from = request[q].from
          /\ request'[q].pc = "answer" /\ issued' = issued + 1 /\ issued' \in 1..MaxTokens
      BY <2>7, InsertStep
    <3>2. used' = used /\ rows' \subseteq rows \cup {issued + 1}
      BY <2>7 DEF Insert
    <3>3. used[issued + 1] = 0
      BY <2>t, <3>1
    <3>4. Fresh' /\ ("twoTabs" \notin env => OneRefresh' /\ Gone' /\ Unused')
      BY <2>t, <3>1, <3>2, <3>3
    <3>5. QED
      BY <3>4
  <2>8. ASSUME NEW q \in Request,
               \/ Revoke(q) \/ Match(q) \/ Update(q) \/ Unlink(q) \/ Purge(q)
               \/ Answer(q) \/ Clear(q) \/ LoseAnswer(q)
        PROVE  (Fresh /\ Single)'
    <3>1. issued' = issued /\ rows' \subseteq rows
      BY <2>8 DEF Revoke, Match, Update, Unlink, Purge, Answer, Clear, LoseAnswer
    <3>2. \A t \in Token : used'[t] = used[t]
      <4>1. CASE Update(q) /\ used' # used
        <5>1. request[q].op = "reset" /\ request[q].link \in Link /\ Twice(request[q].link)
          BY <4>1, Places DEF Update
        <5>2. \A t \in Token : t # request[q].link
          BY <5>1, <2>t, LinkAssumption
        <5>3. QED
          BY <2>t, <5>1, <5>2 DEF Twice
      <4>2. CASE ~(Update(q) /\ used' # used)
        BY <2>8, <4>2 DEF Revoke, Match, Unlink, Purge, Answer, Clear, LoseAnswer
      <4>3. QED
        BY <4>1, <4>2
    <3>3. Others(q) /\ request'[q].pc # "delete"
          /\ (request'[q].op = "refresh" => request[q].op = "refresh" /\ request'[q].from = request[q].from)
      BY <2>8, Moves DEF Advance, End, Idle
    <3>4. QED
      BY <2>1, <3>1, <3>2, <3>3
  <2>9. CASE UNCHANGED <<issued, used, rows, request>>
    BY <2>9
  <2>10. ASSUME NEW x, ForgotPassword(x) \/ AccessExpires(x) \/ UNCHANGED vars
         PROVE  (Fresh /\ Single)'
    BY <2>9, <2>10 DEF ForgotPassword, AccessExpires, vars
  <2>11. CASE Crash
    BY <2>11 DEF Crash, Idle
  <2>12. QED
    BY <2>2, <2>3, <2>4, <2>5, <2>6, <2>7, <2>8, <2>10, <2>11 DEF Next
<1>3. QED
  BY <1>1, <1>2, SessionsInvariant, HolderInvariant, PTL DEF Spec

LEMMA LinkInvariant == Spec => []LinkUsed
<1> DEFINE Unsent == /\ \A l \in Link \ mailed : used[l] = 0
                     /\ \A q \in Request : request[q].op = "reset" => request[q].link \in mailed
           Alone == env \cap {"twoTabs", "writeFails", "crash", "race"} = {}
           Once == \A l \in Link : used[l] <= 1
           Spent == \A l \in links : used[l] # 0 => \E q \in Request : request[q].pc = "unlink"
           Unused == \A q \in Request : request[q].pc = "update" /\ request[q].op = "reset"
                                => used[request[q].link] = 0
<1>1. Init => LinkUsed
  BY DEF Init, LinkUsed, Idle
<1>2. SessionsInv /\ ChangesAlone /\ LinkUsed /\ [Next]_vars => LinkUsed'
  <2> SUFFICES ASSUME SessionsInv, ChangesAlone, [Next]_vars, env' = env, Unsent,
                      Alone => Once /\ Spent /\ Unused
               PROVE  Unsent' /\ (Alone => Once' /\ Spent' /\ Unused')
    BY EnvironmentFixed DEF LinkUsed
  <2> USE DEF Others, tables
  <2>t. /\ used \in [Token \cup Link -> 0..2] /\ links \subseteq mailed /\ mailed \subseteq Link
        /\ Token \subseteq Nat /\ \A l \in Link : l \notin Token
    BY BoundAssumption, LinkAssumption DEF SessionsInv, TypeOK, Token
  <2>a. ASSUME Alone, NEW p \in Request, NEW q \in Request,
               request[p].pc \in {"update", "unlink", "match"}, p # q
        PROVE  request[q] = Idle
    BY <2>a, Places DEF ChangesAlone, Changing
  <2>1. ASSUME NEW q \in Request, Others(q), mailed' = mailed, links' \subseteq links,
               \A l \in Link : used'[l] = used[l],
               request'[q].op = "reset" => request'[q].link \in mailed,
               Alone /\ request[q].pc = "unlink" => links' = {},
               Alone /\ request'[q].pc = "update" /\ request'[q].op = "reset"
                   => used[request'[q].link] = 0
        PROVE  Unsent' /\ (Alone => Once' /\ Spent' /\ Unused')
    <3>1. Unsent'
      BY <2>1
    <3>2. ASSUME Alone PROVE Once' /\ Spent' /\ Unused'
      <4>1. Once'
        BY <2>1, <3>2
      <4>2. Spent'
        BY <2>1, <2>t, <3>2
      <4>3. ASSUME NEW p \in Request, request'[p].pc = "update", request'[p].op = "reset"
            PROVE  used'[request'[p].link] = 0
        <5>1. request'[p].link \in Link
          BY <2>1, <2>t, <3>1, <4>3
        <5>2. used[request'[p].link] = 0
          BY <2>1, <3>2, <4>3
        <5>3. QED
          BY <2>1, <5>1, <5>2
      <4>4. QED
        BY <4>1, <4>2, <4>3
    <3>3. QED
      BY <3>1, <3>2
  <2>2. ASSUME NEW q \in Request, NEW b \in Browser,
               Login(q, b) \/ Refresh(q, b) \/ Logout(q, b) \/ ChangePassword(q, b)
        PROVE  Unsent' /\ (Alone => Once' /\ Spent' /\ Unused')
    <3>1. Others(q) /\ request'[q].op # "reset"
      BY <2>2, Starts DEF Start
    <3>2. request[q].pc = "idle"
      BY <2>2 DEF Login, Refresh, Logout, ChangePassword, MayBegin, Idle
    <3>3. UNCHANGED <<used, mailed, links>>
      BY <2>2 DEF Login, Refresh, Logout, ChangePassword
    <3>4. QED
      BY <2>1, <3>1, <3>2, <3>3
  <2>3. ASSUME NEW q \in Request, NEW l \in Link, ResetPassword(q, l)
        PROVE  Unsent' /\ (Alone => Once' /\ Spent' /\ Unused')
    <3>1. Others(q) /\ request'[q].pc = "match" /\ request'[q].link = l
      BY <2>3, ResetStep
    <3>2. request[q] = Idle /\ UNCHANGED <<used, mailed, links>> /\ l \in mailed
      BY <2>3 DEF ResetPassword
    <3>3. request[q].pc = "idle"
      BY <3>2 DEF Idle
    <3>4. QED
      BY <2>1, <3>1, <3>2, <3>3
  <2>4. ASSUME NEW q \in Request, Find(q) \/ Insert(q) \/ Delete(q) \/ Revoke(q)
        PROVE  Unsent' /\ (Alone => Once' /\ Spent' /\ Unused')
    <3>1. Others(q) /\ request'[q].op = request[q].op /\ request'[q].op # "reset"
      <4>1. CASE Find(q) \/ Insert(q)
        BY <4>1, FindStep, InsertStep
      <4>2. CASE Delete(q) \/ Revoke(q)
        BY <4>2, Moves, Places DEF Advance, Delete, Revoke
      <4>3. QED
        BY <2>4, <4>1, <4>2
    <3>2. request[q].pc # "unlink" /\ UNCHANGED <<mailed, links>>
      BY <2>4 DEF Find, Insert, Delete, Revoke
    <3>3. \A l \in Link : used'[l] = used[l]
      <4>1. CASE Delete(q)
        <5>1. request[q].old \in Token
          BY <4>1, Places, BoundAssumption DEF Delete, SessionsInv, TypeOK, Token
        <5>2. QED
          BY <4>1, <2>t, <5>1 DEF Delete, Twice
      <4>2. CASE Find(q) \/ Insert(q) \/ Revoke(q)
        BY <4>2 DEF Find, Insert, Revoke
      <4>3. QED
        BY <2>4, <4>1, <4>2
    <3>4. QED
      BY <2>1, <3>1, <3>2, <3>3
  <2>5. ASSUME NEW q \in Request, Match(q) PROVE Unsent' /\ (Alone => Once' /\ Spent' /\ Unused')
    <3>1. request[q].pc = "match" /\ UNCHANGED <<used, mailed, links>> /\ request[q].op = "reset"
      BY <2>5, Places DEF Match
    <3>2. (request[q].link \in links /\ Advance(q, "update")) \/ End(q)
      BY <2>5, Moves
    <3>3. ASSUME Alone, request[q].link \in links PROVE used[request[q].link] = 0
      <4>1. \A p \in Request : request[p].pc # "unlink"
        BY <2>a, <3>1, <3>3 DEF Idle
      <4>2. QED
        BY <3>3, <4>1
    <3>4. CASE End(q)
      BY <2>1, <3>1, <3>4 DEF End, Idle
    <3>5. CASE request[q].link \in links /\ Advance(q, "update")
      BY <2>1, <3>1, <3>3, <3>5 DEF Advance
    <3>6. QED
      BY <3>2, <3>4, <3>5
  <2>6. ASSUME NEW q \in Request, Update(q) PROVE Unsent' /\ (Alone => Once' /\ Spent' /\ Unused')
    <3>1. request[q].pc = "update" /\ UNCHANGED <<mailed, links>> /\ request[q].op \in {"change", "reset"}
      BY <2>6, Places DEF Update
    <3>2. CASE epoch' = epoch
      <4>1. used' = used /\ End(q)
        <5>1. epoch \in Nat
          BY BoundAssumption DEF SessionsInv, TypeOK
        <5>2. QED
          BY <2>6, <3>2, <5>1, Moves DEF Update
      <4>2. QED
        BY <2>1, <3>1, <4>1 DEF End, Idle
    <3>3. CASE request[q].op = "change" /\ epoch' # epoch
      <4>1. used' = used /\ Advance(q, "purge")
        BY <2>6, <3>3, Moves DEF Update
      <4>2. QED
        BY <2>1, <3>1, <3>3, <4>1 DEF Advance
    <3>4. CASE request[q].op = "reset" /\ epoch' # epoch
      <4> DEFINE k == request[q].link
      <4>1. Advance(q, "unlink") /\ Twice(k) /\ k \in Link /\ k \in mailed
        BY <2>6, <3>1, <3>4, Moves, Places DEF Update
      <4>2. used'[k] = (IF used[k] = 2 THEN 2 ELSE used[k] + 1)
            /\ \A l \in Link : l # k => used'[l] = used[l]
        BY <2>t, <4>1 DEF Twice
      <4>3. Unsent'
        BY <3>1, <3>4, <4>1, <4>2 DEF Advance
      <4>4. ASSUME Alone PROVE Once' /\ Spent' /\ Unused'
        <5>1. used[k] = 0
          BY <3>1, <3>4, <4>4
        <5>2. Once'
          BY <4>2, <4>4, <5>1
        <5>3. Spent'
          BY <4>1 DEF Advance
        <5>4. \A p \in Request : p # q => request'[p].pc = "idle"
          BY <2>a, <3>1, <4>1, <4>4 DEF Advance, Idle
        <5>5. Unused'
          BY <4>1, <5>4 DEF Advance
        <5>6. QED
          BY <5>2, <5>3, <5>5
      <4>5. QED
        BY <4>3, <4>4
    <3>5. QED
      BY <3>1, <3>2, <3>3, <3>4
  <2>7. ASSUME NEW q \in Request, Unlink(q) \/ Purge(q) \/ Answer(q) \/ Clear(q) \/ LoseAnswer(q)
        PROVE  Unsent' /\ (Alone => Once' /\ Spent' /\ Unused')
    <3>1. /\ UNCHANGED <<mailed, used>> /\ links' \subseteq links
          /\ Alone /\ request[q].pc = "unlink" => links' = {}
      BY <2>7 DEF Unlink, Purge, Answer, Clear, LoseAnswer
    <3>2. /\ Others(q) /\ request'[q].pc # "update"
          /\ request'[q].op = "reset" => request[q].op = "reset" /\ request'[q].link = request[q].link
      BY <2>7, Moves DEF Advance, End, Idle
    <3>3. QED
      BY <2>1, <3>1, <3>2
  <2>8. ASSUME NEW l \in Link, ForgotPassword(l)
        PROVE  Unsent' /\ (Alone => Once' /\ Spent' /\ Unused')
    <3>1. UNCHANGED <<used, request>> /\ mailed' = mailed \cup {l} /\ links' = links \cup {l}
          /\ used[l] = 0
      BY <2>8 DEF ForgotPassword
    <3>2. QED
      BY <3>1
  <2>9. ASSUME NEW x, AccessExpires(x) \/ UNCHANGED vars
        PROVE  Unsent' /\ (Alone => Once' /\ Spent' /\ Unused')
    <3>1. UNCHANGED <<used, request, mailed, links>>
      BY <2>9 DEF AccessExpires, vars
    <3>2. QED
      BY <3>1
  <2>10. CASE Crash
    BY <2>10 DEF Crash, Idle
  <2>11. QED
    BY <2>2, <2>3, <2>4, <2>5, <2>6, <2>7, <2>8, <2>9, <2>10 DEF Next
<1>3. QED
  BY <1>1, <1>2, SessionsInvariant, AloneInvariant, PTL DEF Spec

(* "Single-use compare-and-delete": nothing is exchanged or used twice     *)
(* unless it is sent twice at a time, or a delete fails or is cut short.   *)
THEOREM UsedOnce == Spec => []SingleUse
<1>1. Exchanged /\ LinkUsed => SingleUse
  BY DEF Exchanged, LinkUsed, SingleUse
<1>2. QED
  BY <1>1, ExchangeInvariant, LinkInvariant, PTL

-----------------------------------------------------------------------------
(* No browser is logged out by chance.                                     *)

LEMMA NewInvariant == Spec => []NewIsNew
<1>1. Init => NewIsNew
  BY DEF Init, NewIsNew, Idle
<1>2. SessionsInv /\ NewIsNew /\ [Next]_vars => NewIsNew'
  <2> SUFFICES ASSUME SessionsInv, NewIsNew, [Next]_vars PROVE NewIsNew'
    OBVIOUS
  <2> USE DEF Others, tables
  <2>t. \A q \in Request : request[q].pc = "answer" =>
            /\ request[q].new # NoToken /\ Handled(q)
            /\ \A b \in Browser : jar[b].refresh # request[q].new
            /\ \A p \in Request : Handled(p) => request[p].old # request[q].new
            /\ \A p \in Request : Handled(p) /\ p # q => request[p].new # request[q].new
    BY Places, BoundAssumption DEF NewIsNew, NoToken, Handled, SessionsInv, TypeOK
  <2>1. ASSUME NEW q \in Request, Others(q), request'[q].pc # "answer",
               \A b \in Browser :
                   \/ jar'[b].refresh \in {jar[b].refresh, NoToken}
                   \/ request[q].pc = "answer" /\ jar'[b].refresh = request[q].new,
               Handled(q)' =>
                   /\ \/ request'[q].old = NoToken
                      \/ Handled(q) /\ request'[q].old = request[q].old
                      \/ \E b \in Browser : request'[q].old = jar[b].refresh
                   /\ request'[q].new = NoToken \/ (Handled(q) /\ request'[q].new = request[q].new)
        PROVE  NewIsNew'
    <3> SUFFICES ASSUME NEW r \in Request, request'[r].pc = "answer"
                 PROVE  /\ \A b \in Browser : jar'[b].refresh # request'[r].new
                        /\ \A p \in Request : Handled(p)' => request'[p].old # request'[r].new
                        /\ \A p \in Request : Handled(p)' /\ p # r => request'[p].new # request'[r].new
      BY DEF NewIsNew
    <3>1. r # q /\ request'[r] = request[r] /\ request[r].pc = "answer"
      BY <2>1
    <3>2. \A b \in Browser : jar'[b].refresh # request'[r].new
      BY <2>1, <2>t, <3>1
    <3>3. ASSUME NEW p \in Request, Handled(p)'
          PROVE  request'[p].old # request'[r].new /\ (p # r => request'[p].new # request'[r].new)
      <4>1. CASE p = q
        BY <2>1, <2>t, <3>1, <3>3, <4>1
      <4>2. CASE p # q
        BY <2>1, <2>t, <3>1, <3>3, <4>2 DEF Handled
      <4>3. QED
        BY <4>1, <4>2
    <3>4. QED
      BY <3>2, <3>3
  <2>2. ASSUME NEW q \in Request, NEW b \in Browser,
               Login(q, b) \/ Refresh(q, b) \/ Logout(q, b) \/ ChangePassword(q, b)
        PROVE  NewIsNew'
    <3>1. /\ Others(q) /\ request'[q].pc # "answer" /\ request'[q].new = NoToken
          /\ request'[q].old = NoToken \/ request'[q].old = jar[b].refresh
      BY <2>2, Starts DEF Start
    <3>2. UNCHANGED jar
      BY <2>2 DEF Login, Refresh, Logout, ChangePassword
    <3>3. QED
      BY <2>1, <3>1, <3>2
  <2>3. ASSUME NEW q \in Request, NEW l \in Link, ResetPassword(q, l) PROVE NewIsNew'
    <3>1. Others(q) /\ request'[q].pc = "match" /\ ~Handled(q)'
      BY <2>3, ResetStep DEF Handled
    <3>2. UNCHANGED jar
      BY <2>3 DEF ResetPassword
    <3>3. QED
      BY <2>1, <3>1, <3>2
  <2>4. ASSUME NEW q \in Request, Find(q) PROVE NewIsNew'
    <3>1. /\ Others(q) /\ request'[q].pc # "answer" /\ request'[q].old = request[q].old
          /\ request'[q].new = request[q].new /\ Handled(q)
      BY <2>4, FindStep DEF Handled
    <3>2. UNCHANGED jar
      BY <2>4 DEF Find
    <3>3. QED
      BY <2>1, <3>1, <3>2
  <2>5. ASSUME NEW q \in Request, Insert(q) PROVE NewIsNew'
    <3>1. /\ Others(q) /\ request'[q].pc = "answer" /\ request'[q].new = issued + 1
          /\ request'[q].old = request[q].old /\ Handled(q) /\ UNCHANGED jar
      BY <2>5, InsertStep DEF Handled, Insert
    <3>2. /\ \A b \in Browser : jar[b].refresh # issued + 1
          /\ \A p \in Request : Handled(p) => request[p].old # issued + 1 /\ request[p].new # issued + 1
      <4>1. \A p \in Request : Shape(request[p], issued)
        BY DEF SessionsInv
      <4>2. issued \in Nat /\ \A b \in Browser : jar[b].refresh \in 0..issued
        BY BoundAssumption DEF SessionsInv, TypeOK, Cookies, Token, NoToken
      <4>3. QED
        BY <4>1, <4>2 DEF Shape, Handled, NoToken
    <3> SUFFICES ASSUME NEW r \in Request, request'[r].pc = "answer"
                 PROVE  /\ \A b \in Browser : jar'[b].refresh # request'[r].new
                        /\ \A p \in Request : Handled(p)' => request'[p].old # request'[r].new
                        /\ \A p \in Request : Handled(p)' /\ p # r => request'[p].new # request'[r].new
      BY DEF NewIsNew
    <3>3. CASE r = q
      BY <3>1, <3>2, <3>3 DEF Handled
    <3>4. CASE r # q
      <4>1. request'[r] = request[r] /\ request[r].pc = "answer" /\ Handled(r)
        BY <3>1, <3>4, <2>t
      <4>2. \A p \in Request : Handled(p)' => Handled(p) /\ request'[p].old = request[p].old
        BY <3>1 DEF Handled
      <4>3. QED
        BY <2>t, <3>1, <3>2, <3>4, <4>1, <4>2
    <3>5. QED
      BY <3>3, <3>4
  <2>6. ASSUME NEW q \in Request,
               \/ Delete(q) \/ Revoke(q) \/ Match(q) \/ Update(q) \/ Unlink(q) \/ Purge(q)
               \/ LoseAnswer(q)
        PROVE  NewIsNew'
    <3>1. UNCHANGED jar
      BY <2>6 DEF Delete, Revoke, Match, Update, Unlink, Purge, LoseAnswer
    <3>2. (\E pc \in Step \ {"answer"} : Advance(q, pc)) \/ End(q)
      BY <2>6, Moves DEF Step
    <3>3. CASE End(q)
      BY <2>1, <3>1, <3>3 DEF End, Handled, Idle
    <3>4. ASSUME NEW pc \in Step \ {"answer"}, Advance(q, pc) PROVE NewIsNew'
      BY <2>1, <3>1, <3>4 DEF Advance, Handled
    <3>5. QED
      BY <3>2, <3>3, <3>4
  <2>7. ASSUME NEW q \in Request, Answer(q) \/ Clear(q) PROVE NewIsNew'
    <3>1. End(q) /\ request[q].from \in Browser
      BY <2>7, Moves, Places DEF Answer, Clear
    <3>2. ASSUME NEW b \in Browser
          PROVE  \/ jar'[b].refresh \in {jar[b].refresh, NoToken}
                 \/ request[q].pc = "answer" /\ jar'[b].refresh = request[q].new
      BY <2>7, <3>1 DEF Answer, Clear, NoCookies, SessionsInv, TypeOK
    <3>3. QED
      BY <2>1, <3>1, <3>2 DEF End, Handled, Idle
  <2>8. ASSUME NEW b \in Browser, AccessExpires(b) PROVE NewIsNew'
    <3>1. UNCHANGED request /\ \A c \in Browser : jar'[c].refresh = jar[c].refresh
      BY <2>8 DEF AccessExpires, SessionsInv, TypeOK, Cookies
    <3>2. QED
      BY <3>1 DEF NewIsNew, Handled
  <2>9. CASE Crash
    BY <2>9 DEF Crash, Idle, NewIsNew
  <2>10. ASSUME NEW l, ForgotPassword(l) \/ UNCHANGED vars PROVE NewIsNew'
    <3>1. UNCHANGED <<request, jar>>
      BY <2>10 DEF ForgotPassword, vars
    <3>2. QED
      BY <3>1 DEF NewIsNew, Handled
  <2>11. QED
    BY <2>2, <2>3, <2>4, <2>5, <2>6, <2>7, <2>8, <2>9, <2>10 DEF Next
<1>3. QED
  BY <1>1, <1>2, SessionsInvariant, PTL DEF Spec

LEMMA TableInvariant == Spec => []InTable
<1> DEFINE Begun == \A t \in 1..issued : epochOf[t] <= epoch
           Ending == \E q \in Request : request[q].pc \in {"unlink", "purge"}
           Older == Ending => \A t \in 1..issued : epochOf[t] < epoch
           Exchanging(b) == \E q \in Request : request[q].op = "refresh" /\ request[q].from = b
           Valid(t) == t \in rows \/ epochOf[t] # epoch
           InJars == \A b \in Browser :
               jar[b].refresh = NoToken \/ Valid(jar[b].refresh) \/ Exchanging(b)
           InAnswers == \A q \in Request : request[q].pc = "answer" => Valid(request[q].new)
           All == Begun /\ Older /\ InJars /\ InAnswers
<1>0. InTable <=> (env = {} => All)
  BY DEF InTable
<1>1. Init => InTable
  BY BoundAssumption DEF Init, InTable, Idle, NoCookies
<1>2. /\ SessionsInv /\ ChangesAlone /\ NoStale /\ OneHolder /\ NewIsNew /\ InTable
      /\ [Next]_vars
      => InTable'
  <2> SUFFICES ASSUME SessionsInv, ChangesAlone, NoStale, OneHolder, NewIsNew, [Next]_vars,
                      env = {}, env' = {}, All
               PROVE  All'
    BY <1>0, EnvironmentFixed DEF InTable
  <2> USE DEF Others, tables
  <2>t. /\ issued \in Nat /\ epoch \in Nat /\ rows \subseteq 1..issued /\ 1..issued \subseteq Token
        /\ epochOf \in [Token -> 0..MaxEpoch] /\ NoToken \notin 1..issued
        /\ \A t \in 1..issued : epochOf[t] \in Nat
        /\ \A b \in Browser : jar[b].refresh \in 1..issued \cup {NoToken}
    BY BoundAssumption DEF SessionsInv, TypeOK, Cookies, Token, NoToken
  <2>a. ASSUME NEW p \in Request, NEW q \in Request, p # q, request[q] # Idle,
               request[q].op \in {"login", "refresh", "logout"}
        PROVE  request[p].pc \notin {"update", "unlink", "purge"}
    BY <2>a, Places DEF ChangesAlone, Changing
  (* A step that leaves the tables and the cookies alone.                  *)
  <2>1. ASSUME NEW q \in Request, Others(q), UNCHANGED <<epoch, epochOf, issued, rows, jar>>,
               request[q].op = "refresh" => request'[q].op = "refresh" /\ request'[q].from = request[q].from,
               request'[q].pc \in {"unlink", "purge"} => request[q].pc \in {"unlink", "purge"},
               request'[q].pc # "answer"
        PROVE  All'
    <3>1. Begun'
      BY <2>1
    <3>2. Older'
      BY <2>1
    <3>3. \A b \in Browser : Exchanging(b) => Exchanging(b)'
      BY <2>1
    <3>4. InJars'
      BY <2>1, <3>3
    <3>5. InAnswers'
      BY <2>1
    <3>6. QED
      BY <3>1, <3>2, <3>4, <3>5
  <2>2. ASSUME NEW q \in Request, NEW b \in Browser,
               Login(q, b) \/ Refresh(q, b) \/ Logout(q, b) \/ ChangePassword(q, b)
        PROVE  All'
    <3>1. Others(q) /\ request'[q].pc \notin {"answer", "unlink", "purge"}
      BY <2>2, Starts DEF Start
    <3>2. request[q].op = "none"
      BY <2>2 DEF Login, Refresh, Logout, ChangePassword, MayBegin, Idle
    <3>3. UNCHANGED <<epoch, epochOf, issued, rows, jar>>
      BY <2>2 DEF Login, Refresh, Logout, ChangePassword
    <3>4. QED
      BY <2>1, <3>1, <3>2, <3>3
  <2>3. ASSUME NEW q \in Request, NEW l \in Link, ResetPassword(q, l) PROVE All'
    <3>1. Others(q) /\ request'[q].pc = "match"
      BY <2>3, ResetStep
    <3>2. request[q].op = "none" /\ UNCHANGED <<epoch, epochOf, issued, rows, jar>>
      BY <2>3 DEF ResetPassword, Idle
    <3>3. QED
      BY <2>1, <3>1, <3>2
  <2>4. ASSUME NEW q \in Request, Find(q) PROVE All'
    <3>1. /\ Others(q) /\ request'[q].op = "refresh" /\ request'[q].from = request[q].from
          /\ request'[q].pc \in {"delete", "clear"}
      BY <2>4, FindStep
    <3>2. UNCHANGED <<epoch, epochOf, issued, rows, jar>>
      BY <2>4 DEF Find
    <3>3. QED
      BY <2>1, <3>1, <3>2
  <2>5. ASSUME NEW q \in Request, Delete(q) PROVE All'
    <3> DEFINE o == request[q].old
    <3>1. /\ Others(q) /\ request'[q].op = "refresh" /\ request'[q].from = request[q].from
          /\ request'[q].pc = "insert" /\ request[q].op = "refresh" /\ request[q].from \in Browser
          /\ o \in 1..issued
      BY <2>5, Moves, Places DEF Delete, Advance
    <3>2. UNCHANGED <<epoch, epochOf, issued, jar>> /\ rows' = rows \ {o}
      BY <2>5 DEF Delete
    <3>3. Begun' /\ Older'
      BY <3>1, <3>2
    <3>4. ASSUME NEW b \in Browser, jar[b].refresh = o PROVE Exchanging(b)'
      <4>1. Holds(b, o) /\ Holds(request[q].from, o)
        BY <3>1, <3>4 DEF Holds, InHand, Handled
      <4>2. b = request[q].from
        BY <2>t, <3>1, <4>1 DEF OneHolder
      <4>3. QED
        BY <3>1, <4>2
    <3>5. \A b \in Browser : Exchanging(b) => Exchanging(b)'
      BY <3>1
    <3>6. InJars'
      BY <3>2, <3>4, <3>5
    <3>7. ASSUME NEW p \in Request, request'[p].pc = "answer" PROVE Valid(request[p].new)'
      <4>1. request'[p] = request[p] /\ request[p].pc = "answer"
        BY <3>1, <3>7
      <4>2. request[p].new # o
        BY <3>1, <4>1 DEF NewIsNew, Handled
      <4>3. QED
        BY <3>2, <4>1, <4>2
    <3>8. QED
      BY <3>3, <3>6, <3>7
  <2>6. ASSUME NEW q \in Request, Insert(q) PROVE All'
    <3>1. /\ Others(q) /\ request[q].op \in {"login", "refresh"} /\ request'[q].op = request[q].op
          /\ request'[q].from = request[q].from /\ request'[q].pc = "answer"
          /\ request'[q].new = issued + 1 /\ issued' = issued + 1 /\ issued + 1 \in Token
      BY <2>6, InsertStep DEF Token
    <3>2. /\ request[q].pc = "insert" /\ request[q] # Idle /\ UNCHANGED <<epoch, jar>>
          /\ rows' = rows \cup {issued + 1}
      BY <2>6 DEF Insert, Idle
    <3>3. request[q].epoch = epoch
      BY <3>2 DEF NoStale
    <3>4. epochOf' = [epochOf EXCEPT ![issued + 1] = epoch]
      BY <2>6, <3>3 DEF Insert
    <3>5. epochOf'[issued + 1] = epoch /\ \A t \in 1..issued : epochOf'[t] = epochOf[t]
      BY <2>t, <3>1, <3>4
    <3>6. Begun'
      BY <2>t, <3>1, <3>2, <3>5
    <3>7. ~Ending'
      BY <2>a, <3>1, <3>2
    <3>8. \A b \in Browser : Exchanging(b) => Exchanging(b)'
      BY <3>1
    <3>9. InJars'
      BY <2>t, <3>2, <3>5, <3>8
    <3>10. ASSUME NEW p \in Request, request'[p].pc = "answer" PROVE Valid(request[p].new)'
      <4>1. CASE p = q
        BY <3>1, <3>2, <4>1
      <4>2. CASE p # q
        <5>1. request'[p] = request[p] /\ request[p].pc = "answer" /\ request[p].new \in 1..issued
          BY <3>1, <3>10, <4>2, Places
        <5>2. QED
          BY <3>2, <3>5, <5>1
      <4>3. QED
        BY <4>1, <4>2
    <3>11. QED
      BY <3>6, <3>7, <3>9, <3>10
  <2>7. ASSUME NEW q \in Request, Revoke(q) PROVE All'
    <3>1. request[q].op = "logout" /\ Advance(q, "clear") /\ request[q].old = NoToken
      BY <2>7, Moves, Places DEF Revoke, SessionsInv, Shape
    <3>2. UNCHANGED <<epoch, epochOf, issued, rows, jar>>
      BY <2>7, <2>t, <3>1 DEF Revoke
    <3>3. QED
      BY <2>1, <3>1, <3>2 DEF Advance
  <2>8. ASSUME NEW q \in Request, Match(q) \/ Unlink(q) PROVE All'
    <3>1. request[q].op = "reset" /\ UNCHANGED <<epoch, epochOf, issued, rows, jar>>
      BY <2>8, Places DEF Match, Unlink
    <3>2. Others(q) /\ request'[q].pc \in {"update", "purge", "idle"}
          /\ (request'[q].pc = "purge" => request[q].pc = "unlink")
      BY <2>8, Moves DEF Advance, End, Idle, Match, Unlink
    <3>3. QED
      BY <2>1, <3>1, <3>2
  <2>9. ASSUME NEW q \in Request, Update(q) PROVE All'
    <3>1. request[q].op \in {"change", "reset"} /\ UNCHANGED <<epochOf, issued, rows, jar>>
          /\ request[q] # Idle /\ request[q].pc = "update"
      BY <2>9, Places DEF Update, Idle
    <3>2. CASE epoch' = epoch /\ End(q)
      BY <2>1, <3>1, <3>2 DEF End, Idle
    <3>3. CASE epoch' = epoch + 1 /\ \E pc \in {"unlink", "purge"} : Advance(q, pc)
      <4>1. \A t \in 1..issued : epochOf'[t] < epoch'
        BY <2>t, <3>1, <3>3
      <4>2. Begun' /\ Older'
        BY <2>t, <3>1, <3>3, <4>1
      <4>3. InJars'
        BY <2>t, <3>1, <4>1
      <4>4. ASSUME NEW p \in Request, request'[p].pc = "answer" PROVE Valid(request[p].new)'
        <5>1. request'[p] = request[p] /\ request[p].pc = "answer" /\ request[p].new \in 1..issued
          BY <3>3, <4>4, Places DEF Advance
        <5>2. epochOf'[request[p].new] < epoch' /\ epochOf'[request[p].new] \in Nat
          BY <2>t, <3>1, <4>1, <5>1
        <5>3. epochOf'[request'[p].new] # epoch'
          BY <2>t, <3>3, <5>1, <5>2
        <5>4. QED
          BY <5>3
      <4>5. QED
        BY <4>2, <4>3, <4>4
    <3>4. QED
      BY <2>9, <3>2, <3>3, Moves
  <2>10. ASSUME NEW q \in Request, Purge(q) PROVE All'
    <3>1. request[q].pc = "purge" /\ rows' = {} /\ UNCHANGED <<epoch, epochOf, issued, jar>>
      BY <2>10 DEF Purge
    <3>2. \A t \in 1..issued : epochOf[t] < epoch /\ epochOf[t] # epoch
      BY <2>t, <3>1
    <3>3. Begun' /\ Older'
      BY <3>1, <3>2
    <3>4. InJars'
      BY <2>t, <3>1, <3>2
    <3>5. Others(q) /\ request'[q].pc # "answer"
      BY <2>10, Moves DEF Advance, End, Idle
    <3>6. ASSUME NEW p \in Request, request'[p].pc = "answer" PROVE Valid(request[p].new)'
      <4>1. request'[p] = request[p] /\ request[p].new \in 1..issued
        BY <3>5, <3>6, Places
      <4>2. QED
        BY <3>1, <3>2, <4>1
    <3>7. QED
      BY <3>3, <3>4, <3>6
  <2>11. ASSUME NEW q \in Request, Answer(q) \/ Clear(q) PROVE All'
    <3>1. /\ Others(q) /\ request'[q] = Idle /\ UNCHANGED <<epoch, epochOf, issued, rows>>
          /\ request[q].from \in Browser
      BY <2>11, Moves, Places DEF End, Answer, Clear
    <3>2. /\ \/ jar'[request[q].from].refresh = NoToken
             \/ request[q].pc = "answer" /\ jar'[request[q].from].refresh = request[q].new
          /\ \A b \in Browser : b # request[q].from => jar'[b] = jar[b]
      BY <2>11, <3>1 DEF Answer, Clear, NoCookies, SessionsInv, TypeOK
    <3>3. Begun' /\ Older' /\ InAnswers'
      BY <3>1 DEF Idle
    <3>4. ASSUME NEW b \in Browser
          PROVE  jar'[b].refresh = NoToken \/ Valid(jar[b].refresh)' \/ Exchanging(b)'
      <4>1. CASE b = request[q].from
        BY <3>1, <3>2, <4>1
      <4>2. CASE b # request[q].from
        <5>1. Exchanging(b) => Exchanging(b)'
          BY <3>1, <4>2
        <5>2. QED
          BY <3>1, <3>2, <4>2, <5>1
      <4>3. QED
        BY <4>1, <4>2
    <3>5. QED
      BY <3>3, <3>4
  <2>12. ASSUME NEW b \in Browser, AccessExpires(b) PROVE All'
    <3>1. /\ UNCHANGED <<epoch, epochOf, issued, rows, request>>
          /\ \A c \in Browser : jar'[c].refresh = jar[c].refresh
      BY <2>12 DEF AccessExpires, SessionsInv, TypeOK, Cookies
    <3>2. QED
      BY <3>1
  <2>13. ASSUME NEW x, ForgotPassword(x) \/ UNCHANGED vars PROVE All'
    <3>1. UNCHANGED <<epoch, epochOf, issued, rows, request, jar>>
      BY <2>13 DEF ForgotPassword, vars
    <3>2. QED
      BY <3>1
  <2>14. ~Crash /\ \A q \in Request : ~LoseAnswer(q)
    BY DEF Crash, LoseAnswer
  <2>15. QED
    BY <2>2, <2>3, <2>4, <2>5, <2>6, <2>7, <2>8, <2>9, <2>10, <2>11, <2>12, <2>13, <2>14 DEF Next
<1>3. QED
  BY <1>1, <1>2, SessionsInvariant, AloneInvariant, StaleInvariant, HolderInvariant,
     NewInvariant, PTL DEF Spec

(* With one tab and nothing lost, a browser that waits for no answer has   *)
(* a valid refresh token as long as its password is the current one.       *)
THEOREM NotLoggedOut == Spec => []StaysLoggedIn
<1>1. SessionsInv /\ InTable => StaysLoggedIn
  <2> SUFFICES ASSUME SessionsInv, InTable, env = {}, NEW b \in Browser,
                      jar[b].refresh # NoToken, epochOf[jar[b].refresh] = epoch,
                      \A q \in Request : request[q] # Idle /\ ~Changing(q) => request[q].from # b
               PROVE  jar[b].refresh \in rows
    BY DEF StaysLoggedIn
  <2>1. ASSUME NEW q \in Request, request[q].op = "refresh" PROVE request[q].from # b
    BY <2>1, Places DEF Changing
  <2>2. QED
    BY <2>1 DEF InTable
<1>2. QED
  BY <1>1, SessionsInvariant, TableInvariant, PTL

-----------------------------------------------------------------------------
(* The handlers keep what Logins promises.                                 *)

(* A new token in an answer is valid, and of the current password.         *)
AnswerValid ==
    Undisturbed =>
        \A q \in Request : request[q].pc = "answer" =>
            /\ request[q].epoch = epoch
            /\ request[q].new \in rows /\ epochOf[request[q].new] = epoch

(* While a session is logged in, exchanged or looked up, none is ended.    *)
LEMMA NoneEnds ==
    ASSUME SessionsInv, ChangesAlone, Undisturbed, NEW q \in Request,
           request[q].op \in {"login", "refresh", "logout"}
    PROVE  \A p \in Request : request[p].pc \notin {"update", "unlink", "purge"}
<1> SUFFICES ASSUME NEW p \in Request, request[p].pc \in {"update", "unlink", "purge"}
             PROVE  FALSE
  OBVIOUS
<1>1. request[p].op \in {"change", "reset"} /\ request[q] # Idle
  BY Places
<1>2. QED
  BY <1>1 DEF ChangesAlone, Changing, Undisturbed

LEMMA AnswerInvariant == Spec => []AnswerValid
<1>1. Init => AnswerValid
  BY DEF Init, AnswerValid, Idle
<1>2. /\ SessionsInv /\ ChangesAlone /\ NoStale /\ NewIsNew /\ AnswerValid /\ [Next]_vars
      => AnswerValid'
  <2> DEFINE Good(q) == request[q].epoch = epoch /\ request[q].new \in rows
                        /\ epochOf[request[q].new] = epoch
  <2> SUFFICES ASSUME SessionsInv, ChangesAlone, NoStale, NewIsNew, [Next]_vars, Undisturbed,
                      env' = env, \A q \in Request : request[q].pc = "answer" => Good(q),
                      NEW r \in Request, request'[r].pc = "answer"
               PROVE  Good(r)'
    BY EnvironmentFixed DEF AnswerValid, Undisturbed
  <2> USE DEF Others, tables
  <2>1. ASSUME request'[r] = request[r], UNCHANGED <<epoch, epochOf>>,
               request[r].new \in rows => request[r].new \in rows'
        PROVE  Good(r)'
    BY <2>1
  <2>2. ASSUME NEW q \in Request, Others(q), request'[q].pc # "answer",
               UNCHANGED <<epoch, epochOf, rows>>
        PROVE  Good(r)'
    <3>1. request'[r] = request[r]
      BY <2>2
    <3>2. QED
      BY <2>1, <2>2, <3>1
  <2>3. ASSUME NEW q \in Request, NEW b \in Browser,
               Login(q, b) \/ Refresh(q, b) \/ Logout(q, b) \/ ChangePassword(q, b)
        PROVE  Good(r)'
    <3>1. Others(q) /\ request'[q].pc # "answer"
      BY <2>3, Starts DEF Start
    <3>2. QED
      BY <2>2, <2>3, <3>1 DEF Login, Refresh, Logout, ChangePassword
  <2>4. ASSUME NEW q \in Request, NEW l \in Link, ResetPassword(q, l) PROVE Good(r)'
    BY <2>2, <2>4, ResetStep DEF ResetPassword
  <2>5. ASSUME NEW q \in Request, Find(q) PROVE Good(r)'
    <3>1. Others(q) /\ request'[q].pc # "answer"
      BY <2>5, FindStep
    <3>2. QED
      BY <2>2, <2>5, <3>1 DEF Find
  <2>6. ASSUME NEW q \in Request, Insert(q) PROVE Good(r)'
    <3>1. /\ Others(q) /\ request'[q].new = issued + 1 /\ request'[q].epoch = request[q].epoch
          /\ issued + 1 \in Token
      BY <2>6, InsertStep DEF Token
    <3>2. /\ request[q].pc = "insert" /\ UNCHANGED epoch
          /\ rows' = rows \cup {issued + 1}
          /\ epochOf' = [epochOf EXCEPT ![issued + 1] = request[q].epoch]
      BY <2>6 DEF Insert, Undisturbed
    <3>3. request[q].epoch = epoch /\ epochOf'[issued + 1] = request[q].epoch
      BY <3>1, <3>2 DEF NoStale, SessionsInv, TypeOK, Undisturbed
    <3>4. CASE r = q
      BY <3>1, <3>2, <3>3, <3>4
    <3>5. CASE r # q
      <4>1. request'[r] = request[r] /\ request[r].new \in 1..issued /\ issued \in Nat
        BY <3>1, <3>5, Places, BoundAssumption DEF SessionsInv, TypeOK
      <4>2. epochOf'[request[r].new] = epochOf[request[r].new]
        BY <3>1, <3>2, <4>1, BoundAssumption DEF SessionsInv, TypeOK, Token
      <4>3. QED
        BY <3>2, <4>1, <4>2
    <3>6. QED
      BY <3>4, <3>5
  <2>7. ASSUME NEW q \in Request, Delete(q) \/ Revoke(q) PROVE Good(r)'
    <3>1. Others(q) /\ request'[q].pc # "answer" /\ Handled(q)
      BY <2>7, Moves, Places DEF Advance, Delete, Revoke, Handled
    <3>2. request'[r] = request[r] /\ request[r].new # request[q].old
      BY <3>1 DEF NewIsNew
    <3>3. UNCHANGED <<epoch, epochOf>> /\ rows' = rows \ {request[q].old}
      BY <2>7 DEF Delete, Revoke
    <3>4. QED
      BY <2>1, <3>2, <3>3
  <2>8. ASSUME NEW q \in Request, Match(q) \/ Unlink(q) \/ Answer(q) \/ Clear(q) \/ LoseAnswer(q)
        PROVE  Good(r)'
    <3>1. Others(q) /\ request'[q].pc # "answer"
      BY <2>8, Moves DEF Advance, End, Idle
    <3>2. QED
      BY <2>2, <2>8, <3>1 DEF Match, Unlink, Answer, Clear, LoseAnswer
  <2>9. ASSUME NEW q \in Request, Update(q) \/ Purge(q) PROVE FALSE
    <3>1. Others(q) /\ request'[q].pc # "answer" /\ request[q].pc \in {"update", "purge"}
      BY <2>9, Moves DEF Advance, End, Idle, Update, Purge
    <3>2. request[r].pc = "answer"
      BY <3>1
    <3>3. QED
      BY <3>1, <3>2, Places, NoneEnds
  <2>10. ASSUME NEW x, ForgotPassword(x) \/ AccessExpires(x) \/ UNCHANGED vars PROVE Good(r)'
    BY <2>1, <2>10 DEF ForgotPassword, AccessExpires, vars
  <2>11. ~Crash
    BY DEF Crash, Undisturbed
  <2>12. QED
    BY <2>3, <2>4, <2>5, <2>6, <2>7, <2>8, <2>9, <2>10, <2>11 DEF Next
<1>3. QED
  BY <1>1, <1>2, SessionsInvariant, AloneInvariant, StaleInvariant, NewInvariant, PTL DEF Spec

(* What makes up the session of a browser.                                 *)
Kept(b, e) == jar[b].refresh \in rows /\ e = epochOf[jar[b].refresh]
Renewed(q, b, e) ==
    /\ Renewing(q, b)
    /\ e = (IF request[q].pc = "find" THEN epochOf[request[q].old] ELSE request[q].epoch)

LEMMA InSession ==
    ASSUME NEW b
    PROVE  /\ \A e : e \in SessionOf(b) <=> Kept(b, e) \/ \E q \in Request : Renewed(q, b, e)
           /\ \A e : e \in SessionOf(b)' <=> Kept(b, e)' \/ \E q \in Request : Renewed(q, b, e)'
BY DEF SessionOf, Kept, Renewed

EndingNow == {q \in Request : request[q].pc \in {"unlink", "purge"}}
SessionsNow == [b \in Browser |-> SessionOf(b)]

(* At most one session changes, to one of these.                           *)
LEMMA OneSession ==
    ASSUME NEW b \in Browser, \A c \in Browser : c # b => SessionOf(c)' = SessionOf(c)
    PROVE  SessionsNow' = [SessionsNow EXCEPT ![b] = SessionOf(b)']
BY DEF SessionsNow

LEMMA SameSessions ==
    ASSUME \A b \in Browser : SessionOf(b)' = SessionOf(b)
    PROVE  SessionsNow' = SessionsNow
BY DEF SessionsNow

(* A session was begun with the current password, unless it is about to be *)
(* ended.                                                                  *)
LEMMA SessionIsCurrent ==
    ASSUME SessionsInv, ChangesAlone, NoStale, AnswerValid, Undisturbed, NEW b
    PROVE  /\ EndingNow = {} => SessionOf(b) \subseteq {epoch}
           /\ \A q \in Request : Renewing(q, b) => EndingNow = {} /\ SessionOf(b) = {epoch}
           /\ \E e : SessionOf(b) \subseteq {e}
<1>1. ASSUME EndingNow = {}, NEW e, e \in SessionOf(b) PROVE e = epoch
  <2>1. \A t \in rows : epochOf[t] = epoch
    BY <1>1 DEF NoStale, EndingNow, Undisturbed
  <2>2. CASE Kept(b, e)
    BY <2>1, <2>2 DEF Kept
  <2>3. ASSUME NEW q \in Request, Renewed(q, b, e) PROVE e = epoch
    BY <2>1, <2>3 DEF Renewed, Renewing, NoStale, AnswerValid, Undisturbed
  <2>4. QED
    BY <1>1, <2>2, <2>3, InSession
<1>2. ASSUME NEW q \in Request, Renewing(q, b) PROVE EndingNow = {} /\ SessionOf(b) = {epoch}
  <2>1. EndingNow = {}
    BY <1>2, NoneEnds DEF Renewing, EndingNow
  <2>2. \E e : Renewed(q, b, e)
    BY <1>2 DEF Renewed
  <2>3. \E e : e \in SessionOf(b)
    BY <2>2, InSession
  <2>4. QED
    BY <1>1, <2>1, <2>3
<1>3. \E e : SessionOf(b) \subseteq {e}
  <2>1. CASE \E q \in Request : Renewing(q, b)
    BY <1>2, <2>1
  <2>2. CASE \A q \in Request : ~Renewing(q, b)
    <3>1. SessionOf(b) \subseteq {epochOf[jar[b].refresh]}
      BY <2>2, InSession DEF Kept, Renewed
    <3>2. QED
      BY <3>1
  <2>3. QED
    BY <2>1, <2>2
<1>4. QED
  BY <1>1, <1>2, <1>3

(* A step that only takes cookies or answers from one browser ends its     *)
(* session, or is none of the abstraction's.                               *)
LEMMA OnlyEnds ==
    ASSUME NEW b \in Browser, \A c \in Browser : c # b => SessionOf(c)' = SessionOf(c),
           SessionOf(b)' \subseteq SessionOf(b), \E e : SessionOf(b) \subseteq {e}
    PROVE  SessionsNow' = SessionsNow \/ SessionsNow' = [SessionsNow EXCEPT ![b] = {}]
<1>1. CASE SessionOf(b)' = SessionOf(b)
  BY <1>1, SameSessions
<1>2. CASE SessionOf(b)' = {}
  BY <1>2, OneSession
<1>3. QED
  BY <1>1, <1>2

(* A step of one request that changes no token.                            *)
LEMMA OneRequest ==
    ASSUME NEW q \in Request, Others(q), UNCHANGED <<epochOf, rows>>
    PROVE  /\ \A b \in Browser :
                 jar'[b].refresh = jar[b].refresh /\ ~Renewing(q, b) /\ ~Renewing(q, b)'
                     => SessionOf(b)' = SessionOf(b)
           /\ \A b \in Browser :
                 jar'[b].refresh \in {jar[b].refresh, NoToken} /\ ~Renewing(q, b)'
                     /\ NoToken \notin rows
                     => SessionOf(b)' \subseteq SessionOf(b)
<1>1. ASSUME NEW b \in Browser, NEW e, NEW p \in Request, p # q
      PROVE  Renewed(p, b, e)' <=> Renewed(p, b, e)
  BY <1>1 DEF Others, Renewed, Renewing
<1>2. ASSUME NEW b \in Browser, jar'[b].refresh = jar[b].refresh,
             ~Renewing(q, b), ~Renewing(q, b)'
      PROVE  SessionOf(b)' = SessionOf(b)
  <2>1. \A e : Kept(b, e)' <=> Kept(b, e)
    BY <1>2 DEF Kept
  <2>2. \A e : ~Renewed(q, b, e) /\ ~Renewed(q, b, e)'
    BY <1>2 DEF Renewed
  <2>3. \A e : e \in SessionOf(b)' <=> e \in SessionOf(b)
    BY <1>1, <2>1, <2>2, InSession
  <2>4. QED
    BY <2>3 DEF SessionOf
<1>3. ASSUME NEW b \in Browser, jar'[b].refresh \in {jar[b].refresh, NoToken},
             ~Renewing(q, b)', NoToken \notin rows
      PROVE  SessionOf(b)' \subseteq SessionOf(b)
  <2>1. \A e : Kept(b, e)' => Kept(b, e)
    BY <1>3 DEF Kept
  <2>2. \A e : ~Renewed(q, b, e)'
    BY <1>3 DEF Renewed
  <2>3. \A e : e \in SessionOf(b)' => e \in SessionOf(b)
    BY <1>1, <2>1, <2>2, InSession
  <2>4. QED
    BY <2>3
<1>4. QED
  BY <1>2, <1>3

LEMMA SameEnding ==
    ASSUME NEW q \in Request, Others(q), request[q].pc \notin {"unlink", "purge"},
           request'[q].pc \notin {"unlink", "purge"}
    PROVE  EndingNow' = EndingNow
BY DEF Others, EndingNow

(* The handlers implement Logins as long as no request overlaps a change   *)
(* of the password and nothing fails: a rotation of a session's token is   *)
(* no step of the session, a session begins in a login only, and once a    *)
(* change is through no earlier one is left or comes back.                 *)
THEOREM ImplementsLogins == Spec => LoginsSpec
<1> DEFINE Known == SessionsInv /\ ChangesAlone /\ NoStale /\ AnswerValid
           Current == \A b \in Browser :
               /\ EndingNow = {} => SessionOf(b) \subseteq {epoch}
               /\ \A q \in Request : Renewing(q, b) => EndingNow = {} /\ SessionOf(b) = {epoch}
               /\ \E e : SessionOf(b) \subseteq {e}
           Same == epoch' = epoch /\ EndingNow' = EndingNow /\ SessionsNow' = SessionsNow
<1>a. Known /\ Undisturbed => Current
  BY SessionIsCurrent
<1>b. (Known /\ Undisturbed => Current)'
  BY <1>a, PTL
<1>1. Init => (Undisturbed => Held!Init)
  <2> SUFFICES ASSUME Init PROVE Held!Init
    OBVIOUS
  <2>1. \A b \in Browser : SessionOf(b) = {}
    <3>1. ASSUME NEW b \in Browser, NEW e PROVE e \notin SessionOf(b)
      BY InSession DEF Init, Kept, Renewed, Renewing, Idle
    <3>2. QED
      BY <3>1
  <2>2. {q \in Request : request[q].pc \in {"unlink", "purge"}} = {}
    BY DEF Init, Idle
  <2>3. QED
    BY <2>1, <2>2 DEF Init, Held!Init
<1>2. Known /\ Known' /\ OneHolder /\ [Next]_vars
      => [Undisturbed => Held!Next]_(Held!vars)
  <2> SUFFICES ASSUME Known, Known', OneHolder, [Next]_vars, Undisturbed
               PROVE  Same \/ Held!Next
    BY DEF Held!vars, EndingNow, SessionsNow
  <2> USE DEF Others, tables
  <2>u. env' = env /\ Undisturbed' /\ Current /\ Current'
    BY <1>a, <1>b, EnvironmentFixed DEF Undisturbed
  <2> HIDE DEF Current
  <2>t. /\ issued \in Nat /\ rows \subseteq 1..issued /\ NoToken \notin rows
        /\ epochOf \in [Token -> 0..MaxEpoch] /\ jar \in [Browser -> Cookies]
        /\ \A b \in Browser : jar[b].refresh \in 0..issued
    BY BoundAssumption DEF SessionsInv, TypeOK, Cookies, Token, NoToken
  <2>h. /\ Held!Next <=>
              \/ \E b \in Browser : Held!Login(b) \/ Held!End(b)
              \/ \E c \in Request : Held!ChangePassword(c) \/ Held!EndAll(c)
        /\ \A b \in Browser :
              /\ EndingNow = {} /\ SessionsNow' = [SessionsNow EXCEPT ![b] = {epoch}]
                    /\ epoch' = epoch /\ EndingNow' = EndingNow => Held!Login(b)
              /\ SessionsNow' = [SessionsNow EXCEPT ![b] = {}]
                    /\ epoch' = epoch /\ EndingNow' = EndingNow => Held!End(b)
    BY DEF Held!Next, Held!Login, Held!End, EndingNow, SessionsNow
  <2>1. ASSUME NEW q \in Request, NEW b \in Browser,
               Login(q, b) \/ Logout(q, b) \/ ChangePassword(q, b)
        PROVE  Same
    <3>1. Others(q) /\ request'[q].op # "refresh" /\ request'[q].pc \notin {"unlink", "purge"}
      BY <2>1, Starts DEF Start
    <3>2. request[q].op # "refresh" /\ request[q].pc \notin {"unlink", "purge"}
      BY <2>1 DEF Login, Logout, ChangePassword, MayBegin, Idle
    <3>3. UNCHANGED <<epoch, epochOf, rows, jar>>
      BY <2>1 DEF Login, Logout, ChangePassword
    <3>4. \A c \in Browser : SessionOf(c)' = SessionOf(c)
      BY <3>1, <3>2, <3>3, OneRequest DEF Renewing
    <3>5. QED
      BY <3>1, <3>2, <3>3, <3>4, SameEnding, SameSessions
  <2>2. ASSUME NEW q \in Request, NEW b \in Browser, Refresh(q, b) PROVE Same
    <3>1. /\ Others(q) /\ request'[q].op = "refresh" /\ request'[q].pc = "find"
          /\ request'[q].from = b /\ request'[q].old = jar[b].refresh
      BY <2>2, Starts DEF Start
    <3>2. request[q].op # "refresh" /\ request[q].pc \notin {"unlink", "purge"}
      BY <2>2 DEF Refresh, MayBegin, Idle
    <3>3. UNCHANGED <<epoch, epochOf, rows, jar>>
      BY <2>2 DEF Refresh
    <3>4. ASSUME NEW c \in Browser PROVE SessionOf(c)' = SessionOf(c)
      <4>1. CASE c # b
        BY <3>1, <3>2, <3>3, <4>1, OneRequest DEF Renewing
      <4>2. CASE c = b
        <5>1. \A e : Kept(b, e)' <=> Kept(b, e)
          BY <3>3 DEF Kept
        <5>2. \A e : (Renewed(q, b, e)' <=> Kept(b, e)) /\ ~Renewed(q, b, e)
          BY <3>1, <3>2, <3>3 DEF Kept, Renewed, Renewing
        <5>3. \A e : \A p \in Request : p # q => (Renewed(p, b, e)' <=> Renewed(p, b, e))
          BY <3>1, <3>3 DEF Renewed, Renewing
        <5>4. \A e : e \in SessionOf(b)' <=> e \in SessionOf(b)
          BY <5>1, <5>2, <5>3, InSession
        <5>5. QED
          BY <4>2, <5>4 DEF SessionOf
      <4>3. QED
        BY <4>1, <4>2
    <3>5. QED
      BY <3>1, <3>2, <3>3, <3>4, SameEnding, SameSessions
  <2>3. ASSUME NEW q \in Request, NEW l \in Link, ResetPassword(q, l) PROVE Same
    <3>1. Others(q) /\ request'[q].op # "refresh" /\ request'[q].pc \notin {"unlink", "purge"}
      BY <2>3, ResetStep
    <3>2. request[q].op # "refresh" /\ request[q].pc \notin {"unlink", "purge"}
      BY <2>3 DEF ResetPassword, Idle
    <3>3. UNCHANGED <<epoch, epochOf, rows, jar>>
      BY <2>3 DEF ResetPassword
    <3>4. \A c \in Browser : SessionOf(c)' = SessionOf(c)
      BY <3>1, <3>2, <3>3, OneRequest DEF Renewing
    <3>5. QED
      BY <3>1, <3>2, <3>3, <3>4, SameEnding, SameSessions
  (* A step after which every request tells the same of every session.     *)
  <2>4. ASSUME NEW q \in Request, Others(q), epoch' = epoch,
               request[q].pc \notin {"unlink", "purge"}, request'[q].pc \notin {"unlink", "purge"},
               \A b \in Browser : \A e :
                   /\ Kept(b, e)' <=> Kept(b, e)
                   /\ \A p \in Request : Renewed(p, b, e)' <=> Renewed(p, b, e)
        PROVE  Same
    <3>1. ASSUME NEW b \in Browser PROVE SessionOf(b)' = SessionOf(b)
      <4>1. \A e : e \in SessionOf(b)' <=> e \in SessionOf(b)
        BY <2>4, InSession
      <4>2. QED
        BY <4>1 DEF SessionOf
    <3>2. QED
      BY <2>4, <3>1, SameEnding, SameSessions
  <2>5. ASSUME NEW q \in Request, Find(q) PROVE Same
    <3>1. /\ Others(q) /\ request'[q].op = "refresh" /\ request'[q].from = request[q].from
          /\ request[q].op = "refresh" /\ request'[q].epoch = epochOf[request[q].old]
          /\ request'[q].pc = IF request[q].old \in rows THEN "delete" ELSE "clear"
      BY <2>5, FindStep
    <3>2. request[q].pc = "find" /\ UNCHANGED <<epoch, epochOf, rows, jar>>
      BY <2>5 DEF Find
    <3>3. ASSUME NEW b \in Browser, NEW e PROVE Renewed(q, b, e)' <=> Renewed(q, b, e)
      BY <3>1, <3>2 DEF Renewed, Renewing
    <3>4. ASSUME NEW b \in Browser, NEW e
          PROVE  /\ Kept(b, e)' <=> Kept(b, e)
                 /\ \A p \in Request : p # q => (Renewed(p, b, e)' <=> Renewed(p, b, e))
      BY <3>1, <3>2 DEF Kept, Renewed, Renewing
    <3>5. QED
      BY <2>4, <3>1, <3>2, <3>3, <3>4
  <2>6. ASSUME NEW q \in Request, Insert(q) PROVE Same
    <3>1. /\ Others(q) /\ request'[q].op = request[q].op /\ request'[q].from = request[q].from
          /\ request'[q].pc = "answer" /\ request'[q].epoch = request[q].epoch
          /\ issued + 1 \in Token
      BY <2>6, InsertStep DEF Token
    <3>2. /\ request[q].pc = "insert" /\ UNCHANGED <<epoch, jar>>
          /\ rows' = rows \cup {issued + 1}
          /\ epochOf' = [epochOf EXCEPT ![issued + 1] = request[q].epoch]
      BY <2>6 DEF Insert, Undisturbed
    <3>3. \A t \in 0..issued : (t \in rows' <=> t \in rows) /\ (t \in rows => epochOf'[t] = epochOf[t])
      BY <2>t, <3>1, <3>2
    <3>4. ASSUME NEW b \in Browser, NEW e PROVE Kept(b, e)' <=> Kept(b, e)
      BY <2>t, <3>2, <3>3 DEF Kept
    <3>5. ASSUME NEW b \in Browser, NEW e, NEW p \in Request
          PROVE  Renewed(p, b, e)' <=> Renewed(p, b, e)
      <4>1. CASE p = q
        BY <3>1, <3>2, <4>1 DEF Renewed, Renewing
      <4>2. CASE p # q
        <5>1. request'[p] = request[p] /\ (request[p].pc = "find" => request[p].old \in 0..issued)
          BY <2>t, <3>1, <4>2, Places
        <5>2. QED
          BY <3>3, <5>1 DEF Renewed, Renewing
      <4>3. QED
        BY <4>1, <4>2
    <3>6. QED
      BY <2>4, <3>1, <3>2, <3>4, <3>5
  <2>7. ASSUME NEW q \in Request, Delete(q) PROVE Same
    <3>a. /\ Advance(q, "insert") /\ request[q].op = "refresh" /\ request[q].pc = "delete"
          /\ request[q].from \in Browser /\ request[q].old \in 1..issued
      BY <2>7, Moves, Places DEF Delete
    <3>b. PICK f \in Browser, o \in 1..issued : f = request[q].from /\ o = request[q].old
      BY <3>a
    <3>1. o \in Token
      BY BoundAssumption DEF SessionsInv, TypeOK, Token
    <3>2. UNCHANGED <<epoch, epochOf, jar>> /\ rows' = rows \ {o}
      BY <2>7, <3>b DEF Delete
    <3>3. SessionOf(f) = {epoch} /\ SessionOf(f)' = {epoch}
      <4>1. Renewing(q, f) /\ Renewing(q, f)'
        BY <3>a, <3>b DEF Renewing, Advance
      <4>2. QED
        BY <2>u, <3>a, <3>2, <4>1 DEF Current
    <3>4. ASSUME NEW b \in Browser, b # f PROVE SessionOf(b)' = SessionOf(b)
      <4>1. ~Holds(b, o)
        <5>1. Holds(f, o)
          BY <3>a, <3>b DEF Holds, InHand, Handled
        <5>2. QED
          BY <3>1, <3>4, <5>1 DEF OneHolder
      <4>2. \A e : Kept(b, e)' <=> Kept(b, e)
        BY <3>2, <4>1 DEF Kept, Holds
      <4>3. \A e : \A p \in Request : Renewed(p, b, e)' <=> Renewed(p, b, e)
        <5>1. ASSUME NEW e, NEW p \in Request, p # q PROVE Renewed(p, b, e)' <=> Renewed(p, b, e)
          <6>1. request'[p] = request[p]
            BY <3>a, <5>1 DEF Advance
          <6>2. request[p].op = "refresh" /\ request[p].from = b => request[p].old # o
            BY <4>1 DEF Holds, InHand, Handled
          <6>3. QED
            BY <3>2, <6>1, <6>2 DEF Renewed, Renewing
        <5>2. ASSUME NEW e PROVE ~Renewed(q, b, e) /\ ~Renewed(q, b, e)'
          BY <3>a, <3>b, <3>4 DEF Renewed, Renewing, Advance
        <5>3. QED
          BY <5>1, <5>2
      <4>4. \A e : e \in SessionOf(b)' <=> e \in SessionOf(b)
        BY <4>2, <4>3, InSession
      <4>5. QED
        BY <4>4 DEF SessionOf
    <3>5. QED
      BY <3>a, <3>2, <3>3, <3>4, SameEnding, SameSessions DEF Advance
  (* The steps of logging out and of the changes of the password.          *)
  <2>8. ASSUME NEW q \in Request, Others(q), UNCHANGED <<epochOf, rows, jar>>,
               request[q].op # "refresh", request'[q].op # "refresh"
        PROVE  SessionsNow' = SessionsNow
    <3>1. \A b \in Browser : SessionOf(b)' = SessionOf(b)
      BY <2>8, OneRequest DEF Renewing
    <3>2. QED
      BY <3>1, SameSessions
  <2>9. ASSUME NEW q \in Request, Revoke(q) \/ Match(q) PROVE Same
    <3>1. /\ request[q].op \in {"logout", "reset"} /\ request[q].pc \notin {"unlink", "purge"}
          /\ request[q].op = "logout" => request[q].old = NoToken
      BY <2>9, Places DEF Revoke, Match, SessionsInv, Shape
    <3>2. Others(q) /\ request'[q].op # "refresh" /\ request'[q].pc \notin {"unlink", "purge"}
      BY <2>9, <3>1, Moves DEF Advance, End, Idle
    <3>3. UNCHANGED <<epoch, epochOf, rows, jar>>
      BY <2>9, <2>t, <3>1, Places DEF Revoke, Match
    <3>4. QED
      BY <2>8, <3>1, <3>2, <3>3, SameEnding
  <2>10. ASSUME NEW q \in Request, Update(q) PROVE Same \/ Held!ChangePassword(q)
    <3>1. /\ request[q].op \in {"change", "reset"} /\ request[q].pc = "update"
          /\ UNCHANGED <<epochOf, rows, jar>>
      BY <2>10, Places DEF Update
    <3>2. CASE epoch' = epoch /\ End(q)
      <4>1. Others(q) /\ request'[q].op # "refresh" /\ request'[q].pc = "idle"
        BY <3>2 DEF End, Idle
      <4>2. QED
        BY <2>8, <3>1, <3>2, <4>1, SameEnding
    <3>3. CASE epoch' = epoch + 1 /\ \E pc \in {"unlink", "purge"} : Advance(q, pc)
      <4>1. Others(q) /\ request'[q].op # "refresh" /\ request'[q].pc \in {"unlink", "purge"}
        BY <3>1, <3>3 DEF Advance
      <4>2. q \notin EndingNow /\ EndingNow' = EndingNow \cup {q}
        BY <3>1, <4>1 DEF EndingNow
      <4>3. SessionsNow' = SessionsNow
        BY <2>8, <3>1, <4>1
      <4>4. QED
        BY <3>3, <4>2, <4>3 DEF Held!ChangePassword, EndingNow, SessionsNow
    <3>4. QED
      BY <2>10, <3>2, <3>3, Moves
  <2>11. ASSUME NEW q \in Request, Unlink(q) PROVE Same
    <3>1. /\ request[q].op = "reset" /\ request[q].pc = "unlink" /\ Advance(q, "purge")
          /\ UNCHANGED <<epoch, epochOf, rows, jar>>
      BY <2>11, Moves, Places DEF Unlink
    <3>2. EndingNow' = EndingNow
      BY <3>1 DEF EndingNow, Advance
    <3>3. QED
      BY <2>8, <3>1, <3>2 DEF Advance
  <2>12. ASSUME NEW q \in Request, Purge(q) PROVE Held!EndAll(q)
    <3>1. request[q].pc = "purge" /\ request[q].op \in {"change", "reset"}
          /\ epoch' = epoch /\ rows' = {}
      BY <2>12, Places DEF Purge, Undisturbed
    <3>2. /\ Others(q) /\ request'[q].op # "refresh" /\ request'[q].pc \notin {"unlink", "purge"}
      BY <2>12, <3>1, Moves DEF Advance, End, Idle
    <3>3. q \in EndingNow /\ EndingNow' = EndingNow \ {q}
      BY <3>1, <3>2 DEF EndingNow
    <3>4. \A p \in Request : request'[p].op # "refresh"
      BY <3>1, <3>2, NoneEnds
    <3>5. ASSUME NEW b \in Browser PROVE SessionOf(b)' = {}
      <4>1. \A e : e \notin SessionOf(b)'
        BY <3>1, <3>4, InSession DEF Kept, Renewed, Renewing
      <4>2. QED
        BY <4>1
    <3>6. SessionsNow' = [b \in Browser |-> {}]
      BY <3>5 DEF SessionsNow
    <3>7. QED
      BY <3>1, <3>3, <3>6 DEF Held!EndAll, EndingNow, SessionsNow
  <2>13. ASSUME NEW q \in Request, Answer(q) PROVE \E b \in Browser : Held!Login(b)
    <3>a. /\ request[q].pc = "answer" /\ request[q].op \in {"login", "refresh"}
          /\ request[q].from \in Browser /\ request[q].new \in 1..issued
      BY <2>13, Places DEF Answer
    <3>b. PICK b \in Browser, t \in 1..issued : b = request[q].from /\ t = request[q].new
      BY <3>a
    <3>1. End(q) /\ UNCHANGED <<epoch, epochOf, rows>>
      BY <2>13, Moves DEF Answer
    <3>2. EndingNow = {} /\ EndingNow' = {}
      <4>1. \A p \in Request : request[p].pc \notin {"unlink", "purge"}
        BY <3>a, NoneEnds
      <4>2. QED
        BY <3>1, <4>1 DEF EndingNow, End, Idle
    <3>3. jar'[b].refresh = t /\ \A c \in Browser : c # b => jar'[c] = jar[c]
      BY <2>13, <2>t, <3>b DEF Answer
    <3>4. t \in rows /\ epochOf[t] = epoch
      BY <3>a, <3>b DEF AnswerValid
    <3>5. SessionOf(b)' = {epoch}
      <4>1. epoch \in SessionOf(b)'
        BY <3>1, <3>3, <3>4, InSession DEF Kept
      <4>2. SessionOf(b)' \subseteq {epoch}
        BY <2>u, <3>1, <3>2 DEF Current
      <4>3. QED
        BY <4>1, <4>2
    <3>6. \A c \in Browser : c # b => SessionOf(c)' = SessionOf(c)
      <4>1. Others(q) /\ \A c \in Browser : c # b => ~Renewing(q, c) /\ ~Renewing(q, c)'
        BY <3>1, <3>b DEF Renewing, End, Idle
      <4>2. QED
        BY <3>1, <3>3, <4>1, OneRequest
    <3>7. SessionsNow' = [SessionsNow EXCEPT ![b] = {epoch}]
      BY <3>1, <3>5, <3>6, OneSession
    <3>8. QED
      BY <2>h, <3>1, <3>2, <3>7, <3>b
  <2>14. ASSUME NEW q \in Request, Clear(q) \/ LoseAnswer(q) PROVE Same \/ \E b \in Browser : Held!End(b)
    <3>a. request[q].pc \in {"answer", "clear"} /\ request[q].from \in Browser
      BY <2>14, Places DEF Clear, LoseAnswer
    <3>b. PICK b \in Browser : b = request[q].from
      BY <3>a
    <3>1. End(q) /\ UNCHANGED <<epoch, epochOf, rows>>
      BY <2>14, Moves DEF Clear, LoseAnswer
    <3>2. /\ jar'[b].refresh \in {jar[b].refresh, NoToken}
          /\ \A c \in Browser : c # b => jar'[c] = jar[c]
      BY <2>14, <2>t, <3>b DEF Clear, LoseAnswer, NoCookies
    <3>3. Others(q) /\ (\A c \in Browser : ~Renewing(q, c)')
          /\ (\A c \in Browser : c # b => ~Renewing(q, c))
      BY <3>1, <3>b DEF Renewing, End, Idle
    <3>4. \A c \in Browser : c # b => SessionOf(c)' = SessionOf(c)
      BY <3>1, <3>2, <3>3, OneRequest DEF Renewing
    <3>5. SessionOf(b)' \subseteq SessionOf(b)
      BY <2>t, <3>1, <3>2, <3>3, OneRequest
    <3>6. \E e : SessionOf(b) \subseteq {e}
      BY <2>u, <3>1 DEF Current
    <3>7. SessionsNow' = SessionsNow \/ SessionsNow' = [SessionsNow EXCEPT ![b] = {}]
      BY <3>1, <3>4, <3>5, <3>6, OnlyEnds
    <3>8. EndingNow' = EndingNow
      BY <3>a, <3>1, <3>3, SameEnding DEF End, Idle
    <3>9. QED
      BY <2>h, <3>1, <3>7, <3>8
  <2>15. ASSUME UNCHANGED <<epoch, epochOf, rows, request>>,
                \A b \in Browser : jar'[b].refresh = jar[b].refresh
         PROVE  Same
    <3>1. ASSUME NEW b \in Browser PROVE SessionOf(b)' = SessionOf(b)
      <4>1. \A e : (Kept(b, e)' <=> Kept(b, e))
                   /\ \A p \in Request : Renewed(p, b, e)' <=> Renewed(p, b, e)
        BY <2>15 DEF Kept, Renewed, Renewing
      <4>2. \A e : e \in SessionOf(b)' <=> e \in SessionOf(b)
        BY <4>1, InSession
      <4>3. QED
        BY <4>2 DEF SessionOf
    <3>2. EndingNow' = EndingNow
      BY <2>15 DEF EndingNow
    <3>3. QED
      BY <2>15, <3>1, <3>2, SameSessions
  <2>16. ASSUME NEW b \in Browser, AccessExpires(b) PROVE Same
    <3>1. /\ UNCHANGED <<epoch, epochOf, rows, request>>
          /\ \A c \in Browser : jar'[c].refresh = jar[c].refresh
      BY <2>16, <2>t DEF AccessExpires, Cookies
    <3>2. QED
      BY <2>15, <3>1
  <2>17. ASSUME NEW x, ForgotPassword(x) \/ UNCHANGED vars PROVE Same
    <3>1. UNCHANGED <<epoch, epochOf, rows, request, jar>>
      BY <2>17 DEF ForgotPassword, vars
    <3>2. QED
      BY <2>15, <3>1
  <2>18. ~Crash
    BY DEF Crash, Undisturbed
  <2>19. ASSUME NEW q \in Request,
                \/ Find(q) \/ Delete(q) \/ Insert(q) \/ Revoke(q) \/ Match(q) \/ Update(q)
                \/ Unlink(q) \/ Purge(q) \/ Answer(q) \/ Clear(q) \/ LoseAnswer(q)
         PROVE  Same \/ Held!Next
    BY <2>h, <2>5, <2>6, <2>7, <2>9, <2>10, <2>11, <2>12, <2>13, <2>14, <2>19
  <2>20. QED
    BY <2>1, <2>2, <2>3, <2>16, <2>17, <2>18, <2>19 DEF Next
<1>3. QED
  BY <1>1, <1>2, SessionsInvariant, AloneInvariant, StaleInvariant, HolderInvariant,
     AnswerInvariant, PTL DEF Spec, LoginsSpec
=============================================================================

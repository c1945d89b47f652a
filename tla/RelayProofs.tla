------------------------------ MODULE RelayProofs ------------------------------
(***************************************************************************)
(* Theorems of the two directions of the relay: MemberCast, which takes an *)
(* agent's messages to the tabs, for any users, tabs and number of         *)
(* messages, and CommandGate, which takes a tab's commands to the agent,   *)
(* for any users, commands, actions and limits; both for any sets of       *)
(* environments.                                                           *)
(***************************************************************************)
EXTENDS MemberCast, CommandGate, TLAPS

(***************************************************************************)
(* MemberCast.                                                             *)
(***************************************************************************)

(* What broadcastToServerMembers does to one tab.                          *)
LEMMA Delivered ==
    ASSUME got \in [Tab -> Seq(Message)], NEW ids, NEW n \in Message, Deliver(ids, n)
    PROVE  /\ got' \in [Tab -> Seq(Message)]
           /\ \A t \in Tab :
                IF UserOf[t] \in ids /\ t \in clientSockets[UserOf[t]]
                  THEN got'[t] = Append(got[t], n)
                  ELSE got'[t] = got[t]
BY DEF Deliver

(* What a tab has received, after a message more.                          *)
LEMMA ReceivedMore ==
    ASSUME got \in [Tab -> Seq(Message)], NEW t \in Tab, NEW n \in Message,
           got'[t] = Append(got[t], n)
    PROVE  Received(t)' = Received(t) \cup {n}
<1>1. got[t] \in Seq(Message)
  OBVIOUS
<1>2. /\ Len(got'[t]) = Len(got[t]) + 1 /\ Len(got[t]) \in Nat
      /\ \A i \in 1..Len(got[t]) : got'[t][i] = got[t][i]
      /\ got'[t][Len(got[t]) + 1] = n
  BY <1>1
<1>3. \A i \in 1..Len(got'[t]) : i \in 1..Len(got[t]) \/ i = Len(got[t]) + 1
  BY <1>2
<1>4. 1..Len(got[t]) \subseteq 1..Len(got'[t]) /\ Len(got[t]) + 1 \in 1..Len(got'[t])
  BY <1>2
<1>5. QED
  BY <1>2, <1>3, <1>4 DEF Received

LEMMA ReceivedSame ==
    ASSUME NEW t \in Tab, got'[t] = got[t]
    PROVE  Received(t)' = Received(t)
BY DEF Received

-----------------------------------------------------------------------------
(* Every variable has its type; in particular the cache of one server has  *)
(* one entry at most, and the backend sends to tabs of the right user.     *)
THEOREM TypeCorrect == Spec => []TypeOK
<1>1. Init => TypeOK
  BY SentAssumption, TabAssumption, EnvironmentAssumption DEF Init, TypeOK
<1>2. TypeOK /\ [Next]_vars => TypeOK'
  <2> SUFFICES ASSUME TypeOK, [Next]_vars PROVE TypeOK'
    OBVIOUS
  <2> USE SentAssumption, TabAssumption DEF TypeOK, memberVars, tabVars
  <2>1. ASSUME NEW t \in Tab, OpenTab(t) PROVE TypeOK'
    BY <2>1 DEF OpenTab
  <2>2. ASSUME NEW t \in Tab, CloseTab(t) PROVE TypeOK'
    BY <2>2 DEF CloseTab
  <2>3. CASE BroadcastWarm
    <3>1. sent + 1 \in Message /\ sent + 1 \in 0..MaxSent
      BY <2>3 DEF BroadcastWarm, Message
    <3>2. got' \in [Tab -> Seq(Message)]
      BY <2>3, <3>1, Delivered DEF BroadcastWarm
    <3>3. QED
      BY <2>3, <3>1, <3>2 DEF BroadcastWarm
  <2>4. CASE BroadcastCold
    <3>1. sent + 1 \in Message /\ sent + 1 \in 0..MaxSent
      BY <2>4 DEF BroadcastCold, Message
    <3>2. Outdated \subseteq User
      BY DEF Outdated, Entry
    <3>3. casts' \subseteq Cast
      <4>1. [n |-> sent + 1, old |-> Outdated, ids |-> {}, read |-> FALSE] \in Cast
        BY <3>1, <3>2 DEF Cast
      <4>2. QED
        BY <2>4, <4>1 DEF BroadcastCold
    <3>4. QED
      BY <2>4, <3>1, <3>3 DEF BroadcastCold
  <2>5. CASE Expire
    <3>1. cache' = {[e EXCEPT !.fresh = FALSE] : e \in cache}
      BY <2>5 DEF Expire
    <3>2. \A e \in cache : [e EXCEPT !.fresh = FALSE] \in Entry
      BY DEF Entry
    <3>3. cache' \subseteq Entry /\ \A e, f \in cache' : e = f
      BY <3>1, <3>2
    <3>4. QED
      BY <2>5, <3>3 DEF Expire
  <2>6. ASSUME NEW c \in casts, ReadMembers(c) PROVE TypeOK'
    <3>1. [c EXCEPT !.ids = member, !.read = TRUE] \in Cast
      BY DEF Cast
    <3>2. QED
      BY <2>6, <3>1 DEF ReadMembers
  <2>7. ASSUME NEW c \in casts, Fill(c) PROVE TypeOK'
    <3>1. c.n \in Message /\ c.ids \subseteq User
      BY DEF Cast
    <3>2. got' \in [Tab -> Seq(Message)]
      BY <2>7, <3>1, Delivered DEF Fill
    <3>3. QED
      BY <2>7, <3>1, <3>2 DEF Fill, Entry
  <2>8. ASSUME NEW c \in casts, ReadFails(c) PROVE TypeOK'
    <3>1. c.n \in Message
      BY DEF Cast
    <3>2. got' \in [Tab -> Seq(Message)]
      BY <2>8, <3>1, Delivered DEF ReadFails
    <3>3. QED
      BY <2>8, <3>2 DEF ReadFails
  <2>9. ASSUME NEW u \in User, ChangeMember(u) PROVE TypeOK'
    BY <2>9 DEF ChangeMember
  <2>10. ASSUME NEW u \in User, Invalidate(u) PROVE TypeOK'
    BY <2>10 DEF Invalidate
  <2>11. CASE UNCHANGED vars
    BY <2>11 DEF vars
  <2>12. QED
    BY <2>1, <2>2, <2>3, <2>4, <2>5, <2>6, <2>7, <2>8, <2>9, <2>10, <2>11 DEF Next
<1>3. QED
  BY <1>1, <1>2, PTL DEF Spec

-----------------------------------------------------------------------------
(* The order of the messages.                                              *)

(* A message has one broadcast under way or none, no tab has it before its *)
(* broadcast is through, and without slow reads only the newest waits.     *)
Numbered ==
    /\ \A c, d \in casts : c.n = d.n => c = d
    /\ \A c \in casts : c.n <= sent
    /\ "slowRead" \notin env => \A c \in casts : c.n = sent
    /\ \A t \in Tab : \A i \in 1..Len(got[t]) :
           got[t][i] <= sent /\ \A c \in casts : c.n # got[t][i]

(* Delivering a message no tab has yet, and later ones only if it was      *)
(* overtaken in a slow read, keeps every tab's list free of repetitions.   *)
LEMMA DeliverKeepsOrder ==
    ASSUME TypeOK, OnceInOrder, NEW ids, NEW n \in Message, Deliver(ids, n), env' = env,
           \A t \in Tab : \A i \in 1..Len(got[t]) :
               got[t][i] # n /\ ("slowRead" \notin env => got[t][i] < n)
    PROVE  /\ OnceInOrder'
           /\ \A t \in Tab : \A i \in 1..Len(got'[t]) :
                  got'[t][i] = n \/ \E j \in 1..Len(got[t]) : got'[t][i] = got[t][j]
<1> SUFFICES ASSUME NEW t \in Tab
             PROVE  /\ \A i, j \in 1..Len(got'[t]) : i < j =>
                           /\ got'[t][i] # got'[t][j]
                           /\ "slowRead" \notin env => got'[t][i] < got'[t][j]
                    /\ \A i \in 1..Len(got'[t]) :
                           got'[t][i] = n \/ \E j \in 1..Len(got[t]) : got'[t][i] = got[t][j]
  BY DEF OnceInOrder
<1>1. got[t] \in Seq(Message)
  BY DEF TypeOK
<1>2. CASE got'[t] = got[t]
  BY <1>2 DEF OnceInOrder
<1>3. CASE got'[t] = Append(got[t], n)
  <2>1. /\ Len(got'[t]) = Len(got[t]) + 1 /\ Len(got[t]) \in Nat
        /\ \A i \in 1..Len(got[t]) : got'[t][i] = got[t][i]
        /\ got'[t][Len(got[t]) + 1] = n
    BY <1>1, <1>3
  <2>2. \A i \in 1..Len(got'[t]) : i \in 1..Len(got[t]) \/ i = Len(got[t]) + 1
    BY <2>1
  <2>3. \A i, j \in 1..Len(got'[t]) : i < j => i \in 1..Len(got[t])
    BY <2>1
  <2>4. ASSUME NEW i \in 1..Len(got'[t]), NEW j \in 1..Len(got'[t]), i < j
        PROVE  /\ got'[t][i] # got'[t][j]
               /\ "slowRead" \notin env => got'[t][i] < got'[t][j]
    <3>1. i \in 1..Len(got[t]) /\ got'[t][i] = got[t][i]
      BY <2>1, <2>3, <2>4
    <3>2. CASE j = Len(got[t]) + 1
      BY <3>1, <3>2, <2>1
    <3>3. CASE j \in 1..Len(got[t])
      BY <3>1, <3>3, <2>1, <2>4 DEF OnceInOrder
    <3>4. QED
      BY <3>2, <3>3, <2>2
  <2>5. QED
    BY <2>1, <2>2, <2>4
<1>4. QED
  BY <1>2, <1>3, Delivered DEF TypeOK

(* The two together are inductive.                                         *)
LEMMA NumberedInvariant == Spec => [](TypeOK /\ Numbered /\ OnceInOrder)
<1>1. Init => Numbered /\ OnceInOrder
  BY DEF Init, Numbered, OnceInOrder
<1>2. TypeOK /\ TypeOK' /\ Numbered /\ OnceInOrder /\ [Next]_vars => Numbered' /\ OnceInOrder'
  <2> SUFFICES ASSUME TypeOK, TypeOK', Numbered, OnceInOrder, [Next]_vars
               PROVE  Numbered' /\ OnceInOrder'
    OBVIOUS
  <2>0. sent \in Nat /\ \A c \in casts : c.n \in Message /\ c.n \in Nat
    BY SentAssumption DEF TypeOK, Cast, Message
  <2>00. \A t \in Tab : \A i \in 1..Len(got[t]) : got[t][i] \in Nat
    <3>1. \A t \in Tab : got[t] \in Seq(Message)
      BY DEF TypeOK
    <3>2. \A t \in Tab : \A i \in 1..Len(got[t]) : got[t][i] \in Message
      BY <3>1
    <3>3. QED
      BY <3>2 DEF Message
  <2>1. ASSUME NEW t \in Tab, OpenTab(t) PROVE Numbered' /\ OnceInOrder'
    BY <2>1 DEF OpenTab, Numbered, OnceInOrder
  <2>2. ASSUME NEW t \in Tab, CloseTab(t) PROVE Numbered' /\ OnceInOrder'
    <3>1. \A x \in Tab : got'[x] = got[x] \/ got'[x] = <<>>
      BY <2>2 DEF CloseTab, TypeOK
    <3>2. env' = env /\ casts' = casts /\ sent' = sent
      BY <2>2 DEF CloseTab
    <3>3. QED
      BY <3>1, <3>2 DEF Numbered, OnceInOrder
  <2>3. CASE BroadcastWarm
    <3>1. PICK ids \in Fresh : Deliver(ids, sent + 1)
      BY <2>3 DEF BroadcastWarm
    <3>2. sent + 1 \in Message /\ sent' = sent + 1 /\ env' = env /\ casts' = casts
          /\ ("slowRead" \notin env => casts = {})
      BY <2>3, <2>0, SentAssumption DEF BroadcastWarm, Message
    <3>3. \A t \in Tab : \A i \in 1..Len(got[t]) : got[t][i] \in Nat /\ got[t][i] < sent + 1
      BY <2>0, <2>00 DEF Numbered
    <3>4. /\ OnceInOrder'
          /\ \A t \in Tab : \A i \in 1..Len(got'[t]) :
                got'[t][i] = sent + 1 \/ \E j \in 1..Len(got[t]) : got'[t][i] = got[t][j]
      BY <3>1, <3>2, <3>3, <2>0, DeliverKeepsOrder
    <3>5. Numbered'
      BY <3>2, <3>3, <3>4, <2>0 DEF Numbered
    <3>6. QED
      BY <3>4, <3>5
  <2>4. CASE BroadcastCold
    <3> DEFINE new == [n |-> sent + 1, old |-> Outdated, ids |-> {}, read |-> FALSE]
    <3>1. /\ sent' = sent + 1 /\ env' = env /\ got' = got
          /\ casts' = casts \cup {new}
          /\ "slowRead" \notin env => casts = {}
      BY <2>4 DEF BroadcastCold
    <3>2. new.n = sent + 1
      OBVIOUS
    <3> HIDE DEF new
    <3>3. OnceInOrder'
      BY <3>1, <2>0 DEF OnceInOrder
    <3>4. \A c \in casts' : c \in casts \/ c = new
      BY <3>1
    <3>5. Numbered'
      BY <3>1, <3>2, <3>4, <2>0, <2>00 DEF Numbered
    <3>6. QED
      BY <3>3, <3>5
  <2>5. CASE Expire
    BY <2>5 DEF Expire, Numbered, OnceInOrder
  <2>6. ASSUME NEW c \in casts, ReadMembers(c) PROVE Numbered' /\ OnceInOrder'
    <3> DEFINE new == [c EXCEPT !.ids = member, !.read = TRUE]
    <3>1. /\ sent' = sent /\ env' = env /\ got' = got
          /\ casts' = (casts \ {c}) \cup {new}
      BY <2>6 DEF ReadMembers
    <3>2. new.n = c.n
      BY DEF TypeOK, Cast
    <3> HIDE DEF new
    <3>3. QED
      BY <3>1, <3>2 DEF Numbered, OnceInOrder
  <2>7. ASSUME NEW c \in casts, NEW ids, Deliver(ids, c.n), sent' = sent,
               env' = env, casts' = casts \ {c}
        PROVE  Numbered' /\ OnceInOrder'
    <3>1. \A t \in Tab : \A i \in 1..Len(got[t]) :
              got[t][i] # c.n /\ ("slowRead" \notin env => got[t][i] < c.n)
      BY <2>0, <2>00 DEF Numbered
    <3>2. /\ OnceInOrder'
          /\ \A t \in Tab : \A i \in 1..Len(got'[t]) :
                got'[t][i] = c.n \/ \E j \in 1..Len(got[t]) : got'[t][i] = got[t][j]
      BY <2>7, <3>1, <2>0, DeliverKeepsOrder
    <3>3. Numbered'
      BY <2>7, <3>2, <2>0 DEF Numbered
    <3>4. QED
      BY <3>2, <3>3
  <2>8. ASSUME NEW c \in casts, Fill(c) \/ ReadFails(c) PROVE Numbered' /\ OnceInOrder'
    BY <2>7, <2>8 DEF Fill, ReadFails
  <2>9. ASSUME NEW u \in User, ChangeMember(u) \/ Invalidate(u)
        PROVE  Numbered' /\ OnceInOrder'
    BY <2>9 DEF ChangeMember, Invalidate, Numbered, OnceInOrder
  <2>10. CASE UNCHANGED vars
    BY <2>10 DEF vars, Numbered, OnceInOrder
  <2>11. QED
    BY <2>1, <2>2, <2>3, <2>4, <2>5, <2>6, <2>8, <2>9, <2>10 DEF Next
<1>3. QED
  BY <1>1, <1>2, TypeCorrect, PTL DEF Spec

(* No tab gets a message twice, and without slow reads all in order.       *)
THEOREM EachOnceInOrder == Spec => []OnceInOrder
BY NumberedInvariant, PTL

-----------------------------------------------------------------------------
(* Who is served.  Both properties are about a user whose membership is    *)
(* settled, and about the messages since it was: for one who never changed *)
(* it that is all of them, whatever the reads do; for the others it takes  *)
(* that no read is under way when the membership is written.               *)
Told(u) == u \in steady \/ "racingRead" \notin env
Quiet(u) == u \in steady \/ ("racingRead" \notin env /\ u \notin changing)

Sockets ==
    \A t \in Tab : (t \in clientSockets[UserOf[t]] <=> t \in open) /\ openedAt[t] <= sent

Steady == \A u \in steady : u \notin changing /\ since[u] = 0

(* What has been read of a user is what the database still holds ...       *)
ReadRight ==
    \A u \in User : Told(u) => \A c \in casts : c.read => (u \in c.ids <=> u \in member)

(* ... also what the cache says, and an outdated entry errs for messages   *)
(* before the change only.                                                 *)
CachedRight ==
    \A u \in User : Quiet(u) =>
        /\ \A e \in cache : u \in e.userIds <=> u \in member
        /\ \A c \in casts : u \in c.old /\ c.n > since[u] => u \in member

ServedRight ==
    \A t \in Tab : Quiet(UserOf[t]) =>
        \A n \in Message : n > since[UserOf[t]] =>
            /\ n \in Received(t) => UserOf[t] \in member
            /\ UserOf[t] \in member /\ Out(n) /\ Watching(t, n)
                   /\ "readFails" \notin env => n \in Received(t)

ServiceInv == Sockets /\ Steady /\ ReadRight /\ CachedRight /\ ServedRight

(* What both properties rest on, step by step.                             *)
LEMMA ServiceInvariant == Spec => []ServiceInv
<1>1. Init => ServiceInv
  <2> SUFFICES ASSUME Init PROVE ServiceInv
    OBVIOUS
  <2>1. \A t \in Tab : got[t] = <<>> /\ Received(t) = {} /\ openedAt[t] = 0 /\ UserOf[t] \in User
    BY TabAssumption DEF Init, Received
  <2>2. QED
    BY <2>1, TabAssumption
       DEF Init, ServiceInv, Sockets, Steady, ReadRight, CachedRight, ServedRight, Watching
<1>2. TypeOK /\ TypeOK' /\ Numbered /\ ServiceInv /\ [Next]_vars => ServiceInv'
  <2> SUFFICES ASSUME TypeOK, TypeOK', Numbered, ServiceInv, [Next]_vars
               PROVE  ServiceInv'
    OBVIOUS
  <2>0. /\ sent \in Nat
        /\ \A c \in casts : c.n \in Message /\ c.n \in Nat
        /\ \A n \in Message : n \in Nat
        /\ \A t \in Tab : UserOf[t] \in User /\ openedAt[t] \in Nat
        /\ \A u \in User : since[u] \in Nat
        /\ steady \subseteq User
    BY SentAssumption, TabAssumption DEF TypeOK, Cast, Message
  <2>00. \A t \in Tab : \A n \in Received(t) : n \in Message /\ n <= sent
    <3>1. \A t \in Tab : got[t] \in Seq(Message)
      BY DEF TypeOK
    <3>2. \A t \in Tab : \A i \in 1..Len(got[t]) : got[t][i] \in Message
      BY <3>1
    <3>3. QED
      BY <3>2 DEF Numbered, Received
  (* A delivery of message n under way or new, to ids that are right.      *)
  <2>d. ASSUME NEW ids, NEW n \in Message, Deliver(ids, n), env' = env,
               UNCHANGED <<member, changing, steady, since, clientSockets, open, openedAt>>,
               \A u \in User : Quiet(u) =>
                   /\ u \in ids /\ n > since[u] => u \in member
                   /\ u \in member /\ "readFails" \notin env => u \in ids,
               \A m \in Message : Out(m)' => Out(m) \/ m = n
        PROVE  ServedRight'
    <3> SUFFICES ASSUME NEW t \in Tab, Quiet(UserOf[t])', NEW m \in Message, m > since[UserOf[t]]'
                 PROVE  /\ m \in Received(t)' => UserOf[t] \in member'
                        /\ UserOf[t] \in member' /\ Out(m)' /\ Watching(t, m)'
                              /\ "readFails" \notin env' => m \in Received(t)'
      BY DEF ServedRight
    <3>1. Quiet(UserOf[t]) /\ m > since[UserOf[t]] /\ UserOf[t] \in User
      BY <2>d, <2>0 DEF Quiet
    <3>2. got \in [Tab -> Seq(Message)]
      BY DEF TypeOK
    <3>3. CASE UserOf[t] \in ids /\ t \in clientSockets[UserOf[t]]
      <4>1. Received(t)' = Received(t) \cup {n}
        BY <3>2, <3>3, <2>d, Delivered, ReceivedMore
      <4>2. QED
        BY <4>1, <3>1, <3>3, <2>d DEF ServiceInv, ServedRight, Watching
    <3>4. CASE ~(UserOf[t] \in ids /\ t \in clientSockets[UserOf[t]])
      <4>1. Received(t)' = Received(t)
        BY <3>2, <3>4, <2>d, Delivered, ReceivedSame
      <4>2. QED
        BY <4>1, <3>1, <3>4, <2>d DEF ServiceInv, ServedRight, Watching, Sockets
    <3>5. QED
      BY <3>3, <3>4
  <2>1. ASSUME NEW t \in Tab, OpenTab(t) PROVE ServiceInv'
    <3>1. UNCHANGED <<env, member, changing, steady, since, cache, sent, casts, got>>
      BY <2>1 DEF OpenTab, memberVars
    <3>2. Sockets' /\ \A x \in Tab : x # t => openedAt'[x] = openedAt[x] /\ (x \in open' <=> x \in open)
      BY <2>1, <2>0 DEF OpenTab, Sockets, ServiceInv, TypeOK
    <3>3. openedAt'[t] = sent
      BY <2>1 DEF OpenTab, TypeOK
    <3>4. Steady' /\ ReadRight' /\ CachedRight'
      BY <3>1 DEF ServiceInv, Steady, ReadRight, CachedRight, Told, Quiet
    <3>5. ServedRight'
      BY <3>1, <3>2, <3>3, <2>0 DEF ServiceInv, ServedRight, Quiet, Received, Out, Watching
    <3>6. QED
      BY <3>2, <3>4, <3>5 DEF ServiceInv
  <2>2. ASSUME NEW t \in Tab, CloseTab(t) PROVE ServiceInv'
    <3>1. UNCHANGED <<env, member, changing, steady, since, cache, sent, casts>>
      BY <2>2 DEF CloseTab, memberVars
    <3>2. Sockets'
      BY <2>2, <2>0 DEF CloseTab, Sockets, ServiceInv, TypeOK
    <3>3. /\ t \notin open' /\ got'[t] = <<>>
          /\ \A x \in Tab : x # t => got'[x] = got[x] /\ openedAt'[x] = openedAt[x] /\ (x \in open' <=> x \in open)
      BY <2>2 DEF CloseTab, TypeOK
    <3>4. Received(t)' = {} /\ \A x \in Tab : x # t => Received(x)' = Received(x)
      BY <3>3 DEF Received
    <3>5. Steady' /\ ReadRight' /\ CachedRight'
      BY <3>1 DEF ServiceInv, Steady, ReadRight, CachedRight, Told, Quiet
    <3>6. ServedRight'
      BY <3>1, <3>3, <3>4 DEF ServiceInv, ServedRight, Quiet, Out, Watching
    <3>7. QED
      BY <3>2, <3>5, <3>6 DEF ServiceInv
  <2>3. CASE BroadcastWarm
    <3>1. PICK e \in cache : Deliver(e.userIds, sent + 1)
      BY <2>3 DEF BroadcastWarm, Fresh
    <3>2. /\ UNCHANGED <<env, member, changing, steady, since, cache, casts, clientSockets, open, openedAt>>
          /\ sent' = sent + 1 /\ sent + 1 \in Message
      BY <2>3, <2>0, SentAssumption DEF BroadcastWarm, Message, memberVars, tabVars
    <3>3. \A m \in Message : Out(m)' => Out(m) \/ m = sent + 1
      BY <3>2, <2>0 DEF Out
    <3>4. \A u \in User : Quiet(u) => (u \in e.userIds <=> u \in member)
      BY DEF ServiceInv, CachedRight
    <3>5. ServedRight'
      BY <3>1, <3>2, <3>3, <3>4, <2>d
    <3>6. Sockets' /\ Steady' /\ ReadRight' /\ CachedRight'
      BY <3>2, <2>0 DEF ServiceInv, Sockets, Steady, ReadRight, CachedRight, Told, Quiet
    <3>7. QED
      BY <3>5, <3>6 DEF ServiceInv
  <2>4. CASE BroadcastCold
    <3> DEFINE new == [n |-> sent + 1, old |-> Outdated, ids |-> {}, read |-> FALSE]
    <3>1. /\ UNCHANGED <<env, member, changing, steady, since, cache, clientSockets, open, openedAt, got>>
          /\ sent' = sent + 1 /\ casts' = casts \cup {new}
      BY <2>4 DEF BroadcastCold, memberVars, tabVars
    <3>2. new.n = sent + 1 /\ new.old = Outdated /\ new.read = FALSE
      OBVIOUS
    <3> HIDE DEF new
    <3>3. \A u \in User : Quiet(u) /\ u \in Outdated => u \in member
      BY DEF Outdated, ServiceInv, CachedRight
    <3>4. \A m \in Message : Out(m)' => Out(m)
      BY <3>1, <3>2, <2>0 DEF Out
    <3>5. Sockets' /\ Steady'
      BY <3>1, <2>0 DEF ServiceInv, Sockets, Steady
    <3>6. ReadRight'
      BY <3>1, <3>2 DEF ServiceInv, ReadRight, Told
    <3>7. CachedRight'
      BY <3>1, <3>2, <3>3 DEF ServiceInv, CachedRight, Quiet
    <3>8. ServedRight'
      BY <3>1, <3>4 DEF ServiceInv, ServedRight, Quiet, Received, Watching
    <3>9. QED
      BY <3>5, <3>6, <3>7, <3>8 DEF ServiceInv
  <2>5. CASE Expire
    <3>1. /\ UNCHANGED <<env, member, changing, steady, since, sent, casts, clientSockets, open, openedAt, got>>
          /\ cache' = {[e EXCEPT !.fresh = FALSE] : e \in cache}
      BY <2>5 DEF Expire, memberVars, tabVars
    <3>2. \A f \in cache' : \E e \in cache : f.userIds = e.userIds
      BY <3>1 DEF TypeOK, Entry
    <3>3. Sockets' /\ Steady' /\ ReadRight'
      BY <3>1 DEF ServiceInv, Sockets, Steady, ReadRight, Told
    <3>4. CachedRight'
      BY <3>1, <3>2 DEF ServiceInv, CachedRight, Quiet
    <3>5. ServedRight'
      BY <3>1 DEF ServiceInv, ServedRight, Quiet, Received, Watching, Out
    <3>6. QED
      BY <3>3, <3>4, <3>5 DEF ServiceInv
  <2>6. ASSUME NEW c \in casts, ReadMembers(c) PROVE ServiceInv'
    <3> DEFINE new == [c EXCEPT !.ids = member, !.read = TRUE]
    <3>1. /\ UNCHANGED <<env, member, changing, steady, since, cache, sent, clientSockets, open, openedAt, got>>
          /\ casts' = (casts \ {c}) \cup {new}
      BY <2>6 DEF ReadMembers, memberVars, tabVars
    <3>2. new.n = c.n /\ new.old = c.old /\ new.ids = member
      BY DEF TypeOK, Cast
    <3> HIDE DEF new
    <3>3. Sockets' /\ Steady'
      BY <3>1 DEF ServiceInv, Sockets, Steady
    <3>4. ReadRight'
      BY <3>1, <3>2 DEF ServiceInv, ReadRight, Told
    <3>5. CachedRight'
      BY <3>1, <3>2 DEF ServiceInv, CachedRight, Quiet
    <3>6. \A m \in Message : Out(m)' => Out(m)
      BY <3>1, <3>2 DEF Out
    <3>7. ServedRight'
      BY <3>1, <3>6 DEF ServiceInv, ServedRight, Quiet, Received, Watching
    <3>8. QED
      BY <3>3, <3>4, <3>5, <3>7 DEF ServiceInv
  <2>7. ASSUME NEW c \in casts, Fill(c) PROVE ServiceInv'
    <3>1. /\ UNCHANGED <<env, member, changing, steady, since, sent, clientSockets, open, openedAt>>
          /\ casts' = casts \ {c} /\ cache' = {[userIds |-> c.ids, fresh |-> TRUE]}
          /\ c.read /\ Deliver(c.ids, c.n)
      BY <2>7 DEF Fill, memberVars, tabVars
    <3>2. \A u \in User : Quiet(u) => (u \in c.ids <=> u \in member)
      BY <3>1 DEF ServiceInv, ReadRight, Told, Quiet
    <3>3. \A m \in Message : Out(m)' => Out(m) \/ m = c.n
      BY <3>1 DEF Out
    <3>4. ServedRight'
      BY <3>1, <3>2, <3>3, <2>0, <2>d
    <3>5. Sockets' /\ Steady' /\ ReadRight' /\ CachedRight'
      BY <3>1, <3>2 DEF ServiceInv, Sockets, Steady, ReadRight, CachedRight, Told, Quiet
    <3>6. QED
      BY <3>4, <3>5 DEF ServiceInv
  <2>8. ASSUME NEW c \in casts, ReadFails(c) PROVE ServiceInv'
    <3>1. /\ UNCHANGED <<env, member, changing, steady, since, cache, sent, clientSockets, open, openedAt>>
          /\ casts' = casts \ {c} /\ "readFails" \in env /\ Deliver(c.old, c.n)
      BY <2>8 DEF ReadFails, memberVars, tabVars
    <3>2. \A u \in User : Quiet(u) => (u \in c.old /\ c.n > since[u] => u \in member)
      BY DEF ServiceInv, CachedRight
    <3>3. \A m \in Message : Out(m)' => Out(m) \/ m = c.n
      BY <3>1 DEF Out
    <3>4. ServedRight'
      BY <3>1, <3>2, <3>3, <2>0, <2>d
    <3>5. Sockets' /\ Steady' /\ ReadRight' /\ CachedRight'
      BY <3>1 DEF ServiceInv, Sockets, Steady, ReadRight, CachedRight, Told, Quiet
    <3>6. QED
      BY <3>4, <3>5 DEF ServiceInv
  <2>9. ASSUME NEW u \in User, ChangeMember(u) PROVE ServiceInv'
    <3>1. /\ UNCHANGED <<env, since, cache, sent, casts, clientSockets, open, openedAt, got>>
          /\ "racingRead" \in env \/ casts = {}
          /\ \A w \in User : w # u => (w \in member' <=> w \in member)
          /\ changing' = changing \cup {u} /\ steady' = steady \ {u}
      BY <2>9 DEF ChangeMember, tabVars
    <3>2. Sockets' /\ Steady'
      BY <3>1 DEF ServiceInv, Sockets, Steady
    <3>3. ReadRight' /\ CachedRight'
      BY <3>1 DEF ServiceInv, ReadRight, CachedRight, Told, Quiet
    <3>4. ServedRight'
      BY <3>1, <2>0 DEF ServiceInv, ServedRight, Quiet, Received, Watching, Out
    <3>5. QED
      BY <3>2, <3>3, <3>4 DEF ServiceInv
  <2>10. ASSUME NEW u \in User, Invalidate(u) PROVE ServiceInv'
    <3>1. /\ UNCHANGED <<env, member, steady, sent, casts, clientSockets, open, openedAt, got>>
          /\ changing' = changing \ {u} /\ u \in changing /\ cache' = {}
          /\ since'[u] = sent /\ \A w \in User : w # u => since'[w] = since[w]
      BY <2>10 DEF Invalidate, tabVars, TypeOK
    <3>2. Sockets' /\ Steady' /\ ReadRight'
      BY <3>1, <2>0 DEF ServiceInv, Sockets, Steady, ReadRight, Told
    <3>3. CachedRight'
      BY <3>1, <2>0 DEF ServiceInv, CachedRight, Quiet, Numbered
    <3>4. ServedRight'
      <4> SUFFICES ASSUME NEW t \in Tab, Quiet(UserOf[t])', NEW m \in Message,
                          m > since'[UserOf[t]]
                   PROVE  /\ m \in Received(t)' => UserOf[t] \in member'
                          /\ UserOf[t] \in member' /\ Out(m)' /\ Watching(t, m)'
                                /\ "readFails" \notin env' => m \in Received(t)'
        BY DEF ServedRight
      <4>1. CASE UserOf[t] = u
        BY <4>1, <3>1, <2>0, <2>00 DEF Received, Out
      <4>2. CASE UserOf[t] # u
        BY <4>2, <3>1, <2>0 DEF ServiceInv, ServedRight, Quiet, Received, Watching, Out
      <4>3. QED
        BY <4>1, <4>2
    <3>5. QED
      BY <3>2, <3>3, <3>4 DEF ServiceInv
  <2>11. CASE UNCHANGED vars
    BY <2>11 DEF vars, ServiceInv, Sockets, Steady, ReadRight, CachedRight, ServedRight,
                 Told, Quiet, Received, Watching, Out
  <2>12. QED
    BY <2>1, <2>2, <2>3, <2>4, <2>5, <2>6, <2>7, <2>8, <2>9, <2>10, <2>11 DEF Next
<1>3. QED
  BY <1>1, <1>2, NumberedInvariant, PTL DEF Spec

(* Whatever the reads do, a user whose membership never changes gets every *)
(* message in every open tab if the reads succeed, or none if no member.   *)
THEOREM SteadyUsersServed == Spec => []SteadyServed
<1>1. TypeOK /\ ServiceInv => SteadyServed
  <2> SUFFICES ASSUME TypeOK, ServiceInv, NEW t \in Tab, UserOf[t] \in steady
               PROVE  /\ UserOf[t] \notin member => got[t] = <<>>
                      /\ UserOf[t] \in member /\ "readFails" \notin env =>
                            \A n \in Message : Out(n) /\ Watching(t, n) => n \in Received(t)
    BY DEF SteadyServed
  <2>1. Quiet(UserOf[t]) /\ since[UserOf[t]] = 0 /\ \A n \in Message : n > 0
    BY DEF Quiet, ServiceInv, Steady, Message
  <2>2. got[t] \in Seq(Message)
    BY DEF TypeOK
  <2>3. ASSUME UserOf[t] \notin member PROVE got[t] = <<>>
    <3>1. Received(t) = {}
      <4>1. \A n \in Received(t) : n \in Message
        BY <2>2 DEF Received
      <4>2. QED
        BY <4>1, <2>1, <2>3 DEF ServiceInv, ServedRight
    <3>2. Len(got[t]) = 0
      <4>1. Len(got[t]) \in Nat /\ (Len(got[t]) # 0 => 1 \in 1..Len(got[t]))
        BY <2>2
      <4>2. 1 \notin 1..Len(got[t])
        BY <3>1 DEF Received
      <4>3. QED
        BY <4>1, <4>2
    <3>3. QED
      BY <3>2, <2>2
  <2>4. QED
    BY <2>1, <2>3 DEF ServiceInv, ServedRight
<1>2. QED
  BY <1>1, TypeCorrect, ServiceInvariant, PTL

(* If no read is under way when a membership is written, the change is in  *)
(* effect from the first message after its invalidation.                   *)
THEOREM ChangesTakeEffect == Spec => []ChangeTakesEffect
<1>1. ServiceInv => ChangeTakesEffect
  BY DEF ServiceInv, ServedRight, Quiet, ChangeTakesEffect, TakesEffect
<1>2. QED
  BY <1>1, ServiceInvariant, PTL

-----------------------------------------------------------------------------
(***************************************************************************)
(* CommandGate.                                                            *)
(***************************************************************************)

(* The two tables of the agent do not overlap, viewers may ask and nothing *)
(* else, and the backend allows nothing the agent has no handler for.      *)
LEMMA Allowlists ==
    /\ VIEWER_ALLOWED_ACTIONS = Asking
    /\ Asking \cap Doing = {}
    /\ ALLOWED_ACTIONS = Asking \cup Doing
<1>1. VIEWER_ALLOWED_ACTIONS = Asking
  BY DEF VIEWER_ALLOWED_ACTIONS, Asking
<1>2. Asking \cap Doing = {}
  BY DEF Asking, Doing
<1>3. ALLOWED_ACTIONS = Asking \cup Doing
  BY DEF ALLOWED_ACTIONS, VIEWER_ALLOWED_ACTIONS, EXEC_STREAM_ACTIONS, Asking, Doing
<1>4. QED
  BY <1>1, <1>2, <1>3

CommandTypes == command \in [Command -> Handled \cup {Free}] /\ role \in [Caller -> Role]

(* What the checks have seen is still so, as far as nothing changed it.    *)
Checked ==
    \A c \in Command :
        /\ command[c].pc \in {"member", "online", "relayed"} =>
               /\ command[c].action \in ALLOWED_ACTIONS
               /\ May(command[c].seen, command[c].action)
        /\ command[c].pc \in {"member", "online"} /\ "roleRace" \notin gateEnv =>
               command[c].seen = role[command[c].by]

(* With nothing that changes roles or connections the agent stays online.  *)
Undisturbed == gateEnv = {} => online /\ socket

GateInv == CommandTypes /\ Checked /\ Undisturbed /\ NoRefusalWithoutCause

LEMMA GateInvariant == GateSpec => []GateInv
<1>1. GateInit => GateInv
  <2> SUFFICES ASSUME GateInit PROVE GateInv
    OBVIOUS
  <2>1. \A c \in Command : command[c].pc = "free"
    BY DEF GateInit, Free
  <2>2. QED
    BY <2>1 DEF GateInit, GateInv, CommandTypes, Checked, Undisturbed, NoRefusalWithoutCause
<1>2. GateInv /\ [GateNext]_gateVars => GateInv'
  <2> SUFFICES ASSUME GateInv, [GateNext]_gateVars PROVE GateInv'
    OBVIOUS
  <2> USE DEF GateInv, CommandTypes
  <2>0. \A c \in Command : command[c].pc # "free" =>
            /\ command[c] \in Handled /\ command[c].by \in Caller
            /\ command[c].action \in Action /\ command[c].seen \in Role
    BY DEF Handled, Free
  (* A command that changes by one step; the others do not.                *)
  <2>c. ASSUME NEW c \in Command, NEW h \in Handled,
               command' = [command EXCEPT ![c] = h],
               UNCHANGED <<gateEnv, role, online, socket>>,
               h.pc \in {"member", "online", "relayed"} =>
                   h.action \in ALLOWED_ACTIONS /\ May(h.seen, h.action),
               h.pc \in {"member", "online"} /\ "roleRace" \notin gateEnv => h.seen = role[h.by],
               h.pc = "limited" => h.action \notin EXEC_STREAM_ACTIONS,
               h.pc = "refused" /\ gateEnv = {} =>
                   \/ h.action \notin Asking \cup Doing
                   \/ role[h.by] = "none"
                   \/ role[h.by] = "viewer" /\ h.action \in Doing
        PROVE  GateInv'
    <3>1. command'[c] = h /\ \A d \in Command : d # c => command'[d] = command[d]
      BY <2>c
    <3>2. CommandTypes'
      BY <2>c
    <3>3. Checked'
      BY <2>c, <3>1 DEF Checked
    <3>4. Undisturbed' /\ NoRefusalWithoutCause'
      BY <2>c, <3>1 DEF Undisturbed, NoRefusalWithoutCause
    <3>5. QED
      BY <3>2, <3>3, <3>4
  <2>1. ASSUME NEW c \in Command, NEW u \in Caller, NEW a \in Action, Send(c, u, a)
        PROVE  GateInv'
    <3> DEFINE h == [pc |-> "arrived", by |-> u, action |-> a, seen |-> "none"]
    <3>1. h \in Handled
      BY DEF Handled, Step, Role
    <3>2. QED
      BY <2>1, <3>1, <2>c DEF Send, world
  <2>2. ASSUME NEW c \in Command, RateLimit(c)
        PROVE  GateInv'
    <3>0. command[c] \in Handled /\ command[c].pc = "arrived"
      BY <2>2, <2>0 DEF RateLimit
    <3>1. PICK p \in {"counted", "limited"} :
              /\ command' = [command EXCEPT ![c] = [command[c] EXCEPT !.pc = p]]
              /\ p = "limited" => command[c].action \notin EXEC_STREAM_ACTIONS
              /\ UNCHANGED <<gateEnv, role, online, socket>>
      BY <2>2 DEF RateLimit, Goto, world
    <3>2. [command[c] EXCEPT !.pc = p] \in Handled
      BY <3>0 DEF Handled, Step
    <3>3. [command[c] EXCEPT !.pc = p].pc = p
          /\ [command[c] EXCEPT !.pc = p].action = command[c].action
      BY <3>0 DEF Handled
    <3>4. QED
      BY <3>1, <3>2, <3>3, <2>c
  <2>3. ASSUME NEW c \in Command, CheckMember(c)
        PROVE  GateInv'
    <3> DEFINE a == command[c].action
               r == role[command[c].by]
               p == IF a \in ALLOWED_ACTIONS /\ May(r, a) THEN "member" ELSE "refused"
               h == [command[c] EXCEPT !.seen = r, !.pc = p]
    <3>1. command[c] \in Handled /\ r \in Role
      BY <2>3, <2>0 DEF CheckMember
    <3>2. command' = [command EXCEPT ![c] = h] /\ UNCHANGED <<gateEnv, role, online, socket>>
      BY <2>3 DEF CheckMember, world
    <3>3. h \in Handled
      BY <3>1 DEF Handled, Step
    <3>4. h.pc = p /\ h.seen = r /\ h.action = a /\ h.by = command[c].by
      BY <3>1 DEF Handled
    <3>5. p = "refused" =>
              \/ a \notin Asking \cup Doing
              \/ r = "none"
              \/ r = "viewer" /\ a \in Doing
      BY Allowlists DEF May
    <3>6. p # "refused" => a \in ALLOWED_ACTIONS /\ May(r, a) /\ p = "member"
      OBVIOUS
    <3>7. p \notin {"limited"}
      OBVIOUS
    <3> HIDE DEF h, p, r, a
    <3>8. h.pc \in {"member", "online", "relayed"} =>
              h.action \in ALLOWED_ACTIONS /\ May(h.seen, h.action)
      BY <3>4, <3>6
    <3>9. h.pc \in {"member", "online"} => h.seen = role[h.by]
      BY <3>4 DEF r
    <3>10. h.pc = "refused" =>
              \/ h.action \notin Asking \cup Doing
              \/ role[h.by] = "none"
              \/ role[h.by] = "viewer" /\ h.action \in Doing
      BY <3>4, <3>5 DEF r
    <3>11. h.pc # "limited"
      BY <3>4, <3>7
    <3>12. QED
      BY <3>2, <3>3, <3>8, <3>9, <3>10, <3>11, <2>c
  <2>4. ASSUME NEW c \in Command, NEW p \in {"online", "relayed", "refused"},
               command[c].pc \in {"member", "online"},
               command' = [command EXCEPT ![c] = [command[c] EXCEPT !.pc = p]],
               UNCHANGED <<gateEnv, role, online, socket>>,
               p = "refused" => ~online \/ ~socket
        PROVE  GateInv'
    <3> DEFINE h == [command[c] EXCEPT !.pc = p]
    <3>1. command[c] \in Handled
      BY <2>4, <2>0
    <3>2. h \in Handled
      BY <3>1 DEF Handled, Step
    <3>3. h.pc = p /\ h.seen = command[c].seen /\ h.action = command[c].action
          /\ h.by = command[c].by
      BY <3>1 DEF Handled
    <3>4. h.action \in ALLOWED_ACTIONS /\ May(h.seen, h.action)
          /\ ("roleRace" \notin gateEnv => h.seen = role[h.by])
      BY <2>4, <3>3 DEF Checked
    <3>5. p = "refused" => gateEnv # {}
      BY <2>4 DEF Undisturbed
    <3> HIDE DEF h
    <3>6. QED
      BY <3>2, <3>3, <3>4, <3>5, <2>4, <2>c DEF h
  <2>5. ASSUME NEW c \in Command, CheckOnline(c)
        PROVE  GateInv'
    <3>1. command[c].pc = "member" /\ UNCHANGED <<gateEnv, role, online, socket>>
      BY <2>5 DEF CheckOnline, world
    <3>2. PICK p \in {"online", "refused"} :
              /\ command' = [command EXCEPT ![c] = [command[c] EXCEPT !.pc = p]]
              /\ p = "refused" => ~online
      BY <2>5 DEF CheckOnline, Goto
    <3>3. QED
      BY <3>1, <3>2, <2>4
  <2>6. ASSUME NEW c \in Command, Relay(c)
        PROVE  GateInv'
    <3>1. command[c].pc = "online" /\ UNCHANGED <<gateEnv, role, online, socket>>
      BY <2>6 DEF Relay, world
    <3>2. PICK p \in {"relayed", "refused"} :
              /\ command' = [command EXCEPT ![c] = [command[c] EXCEPT !.pc = p]]
              /\ p = "refused" => ~socket
      BY <2>6 DEF Relay, Goto
    <3>3. QED
      BY <3>1, <3>2, <2>4
  <2>7. CASE CleanUp \/ Tick \/ UNCHANGED gateVars
    <3>1. UNCHANGED <<gateEnv, role, online, socket, command>>
      BY <2>7 DEF CleanUp, Tick, gateVars, world
    <3>2. QED
      BY <3>1 DEF Checked, Undisturbed, NoRefusalWithoutCause
  <2>8. ASSUME NEW u \in Caller, NEW r \in Role, ChangeRole(u, r)
        PROVE  GateInv'
    <3>1. /\ UNCHANGED <<gateEnv, online, socket, command>>
          /\ role' = [role EXCEPT ![u] = r] /\ gateEnv # {}
          /\ "roleRace" \in gateEnv \/ ~Reading(u)
      BY <2>8 DEF ChangeRole
    <3>2. Checked'
      BY <3>1, <2>0 DEF Checked, Reading, Busy
    <3>3. QED
      BY <3>1, <3>2 DEF Undisturbed, NoRefusalWithoutCause
  <2>9. CASE AgentComesAndGoes
    <3>1. UNCHANGED <<gateEnv, role, command>> /\ gateEnv # {}
      BY <2>9 DEF AgentComesAndGoes
    <3>2. QED
      BY <3>1 DEF Checked, Undisturbed, NoRefusalWithoutCause
  <2>10. QED
    BY <2>1, <2>2, <2>3, <2>5, <2>6, <2>7, <2>8, <2>9 DEF GateNext, Handle
<1>3. QED
  BY <1>1, <1>2, PTL DEF GateSpec

(* A viewer's command that passes the checks is one the agent answers and  *)
(* does nothing else for, and nothing passes that it has no handler for.   *)
THEOREM ViewersAskOnly == GateSpec => []ViewersOnlyAsk
<1>1. GateInv => ViewersOnlyAsk
  BY Allowlists DEF GateInv, Checked, May, ViewersOnlyAsk
<1>2. QED
  BY <1>1, GateInvariant, PTL

(* Unless something changes a role or the connection, no command of an     *)
(* operator or owner within the limit is refused, and no keystroke ever    *)
(* limited.                                                                *)
THEOREM RefusalsHaveCauses == GateSpec => []NoRefusalWithoutCause
BY GateInvariant, PTL DEF GateInv

(* Without a change between the reads, the role a command is relayed under *)
(* is the one its sender has at that moment.                               *)
THEOREM RelayedInForce == GateSpec => RoleInForce
<1>1. GateInv /\ [GateNext]_gateVars =>
        [\A c \in Command :
            command[c].pc = "online" /\ command'[c].pc = "relayed" /\ "roleRace" \notin gateEnv =>
                LET r == role[command[c].by] IN
                r # "none" /\ (command[c].action \in Doing => r # "viewer")]_gateVars
  BY Allowlists DEF GateInv, Checked, May
<1>2. QED
  BY <1>1, GateInvariant, PTL DEF GateSpec, RoleInForce

-----------------------------------------------------------------------------
(* The limiter.  A window opened at o in which k commands were let through *)
(* fits what the user got through before: they are the last k, the earlier *)
(* ones came before o, and all but Limit of these a window before that.    *)
Fits(p, o, k) ==
    /\ k <= Len(p)
    /\ \A i \in 1..Len(p) - k : p[i] < o
    /\ \A i \in 1..(Len(p) - k) - Limit : p[i] < o - Window

(* Of 2 * Limit + 1 commands the last is more than a window after the first*)
Spaced(p) == \A i \in 1..(Len(p) - 2 * Limit) : p[i + 2 * Limit] - p[i] > Window

(* The commands a running window has let through.                          *)
Through(e) == IF e.count <= Limit THEN e.count ELSE Limit

(* The running or last window of a user fits, and so does a new one when   *)
(* there is none.                                                          *)
Windowed ==
    \A u \in Caller :
        /\ \A e \in counter[u] :
              /\ Fits(passed[u], e.resetAt - Window, Through(e))
              /\ e.resetAt <= now + Window
              /\ \A i \in 1..Len(passed[u]) : passed[u][i] <= e.resetAt
        /\ counter[u] = {} => Fits(passed[u], now, 0)

(* The entry a command is counted in is the running one, or a new one.     *)
LEMMA EntryOfUser ==
    ASSUME NEW u \in Caller
    PROVE  \/ EntryOf(u) \in counter[u] /\ now <= EntryOf(u).resetAt
           \/ /\ EntryOf(u) = [count |-> 0, resetAt |-> now + Window]
              /\ \A e \in counter[u] : ~(now <= e.resetAt)
<1> DEFINE running == {e \in counter[u] : now <= e.resetAt}
<1>1. CASE running = {}
  BY <1>1 DEF EntryOf
<1>2. CASE running # {}
  <2>1. EntryOf(u) = CHOOSE e \in running : TRUE
    BY <1>2 DEF EntryOf
  <2>2. EntryOf(u) \in running
    BY <1>2, <2>1
  <2>3. QED
    BY <2>2
<1>3. QED
  BY <1>1, <1>2

(* Once the last window is over, a new one fits.                           *)
LEMMA NewWindowFits ==
    ASSUME GateTypeOK, Windowed, NEW u \in Caller, \A e \in counter[u] : ~(now <= e.resetAt)
    PROVE  Fits(passed[u], now, 0)
<1> USE BudgetAssumption DEF GateTypeOK
<1> DEFINE p == passed[u]
<1>1. p \in Seq(0..MaxNow) /\ now \in 0..MaxNow /\ counter[u] \subseteq Counter
  OBVIOUS
<1>2. Len(p) \in Nat /\ \A i \in 1..Len(p) : p[i] \in Nat
  BY <1>1
<1>3. CASE counter[u] = {}
  BY <1>3 DEF Windowed
<1>4. ASSUME NEW e \in counter[u]
      PROVE  Fits(passed[u], now, 0)
  <2>1. /\ e.count \in 1..(Limit + 1) /\ e.resetAt \in Int /\ e.resetAt < now
        /\ Fits(p, e.resetAt - Window, Through(e))
        /\ \A i \in 1..Len(p) : p[i] <= e.resetAt
    BY <1>1 DEF Counter, Windowed
  <2>2. Through(e) \in 0..Limit
    BY <2>1 DEF Through
  <2>3. \A i \in 1..Len(p) - 0 : p[i] < now
    BY <2>1, <1>1, <1>2
  <2>4. \A i \in 1..(Len(p) - 0) - Limit : p[i] < now - Window
    <3>1. ASSUME NEW i \in 1..(Len(p) - 0) - Limit
          PROVE  p[i] < now - Window
      <4>1. i \in 1..Len(p) - Through(e)
        BY <1>2, <2>2
      <4>2. p[i] < e.resetAt - Window /\ p[i] \in Nat
        BY <4>1, <2>1, <2>2, <1>2 DEF Fits
      <4>3. QED
        BY <4>2, <2>1, <1>1
    <3>2. QED
      BY <3>1
  <2>5. QED
    BY <2>3, <2>4, <1>2 DEF Fits
<1>5. QED
  BY <1>3, <1>4

(* The entry a command is counted in fits what was let through before.     *)
LEMMA EntryFits ==
    ASSUME GateTypeOK, Windowed, NEW u \in Caller, NEW e, e = EntryOf(u)
    PROVE  /\ e \in [count : 0..(Limit + 1), resetAt : Window..(MaxNow + Window)]
           /\ now <= e.resetAt /\ e.resetAt <= now + Window
           /\ Fits(passed[u], e.resetAt - Window, Through(e))
           /\ \A i \in 1..Len(passed[u]) : passed[u][i] <= e.resetAt
<1> USE BudgetAssumption DEF GateTypeOK
<1> DEFINE p == passed[u]
           o == e.resetAt - Window
<1>a. p \in Seq(0..MaxNow) /\ now \in 0..MaxNow /\ counter[u] \subseteq Counter
  OBVIOUS
<1>b. /\ Len(p) \in Nat /\ \A i \in 1..Len(p) : p[i] \in Nat
  BY <1>a
<1>1. CASE e \in counter[u] /\ now <= e.resetAt
  <2>1. e \in Counter
    BY <1>1, <1>a
  <2>2. QED
    BY <1>1, <2>1 DEF Windowed, Counter
<1>2. CASE /\ e = [count |-> 0, resetAt |-> now + Window]
           /\ \A f \in counter[u] : ~(now <= f.resetAt)
  <2>1. Fits(p, now, 0)
    BY <1>2, NewWindowFits
  <2>2. e.count = 0 /\ e.resetAt = now + Window /\ o = now /\ Through(e) = 0
    BY <1>2, <1>a DEF Through
  <2>3. \A i \in 1..Len(p) : p[i] <= e.resetAt
    BY <2>1, <2>2, <1>a, <1>b DEF Fits
  <2>4. QED
    BY <1>2, <2>1, <2>2, <2>3, <1>a
<1>3. QED
  BY <1>1, <1>2, EntryOfUser

(* The entry after it is counted.                                          *)
LEMMA CountedEntry ==
    ASSUME NEW e \in [count : 0..(Limit + 1), resetAt : Window..(MaxNow + Window)],
           NEW new, new = [e EXCEPT !.count = IF @ > Limit THEN @ ELSE @ + 1]
    PROVE  /\ new \in Counter /\ new.resetAt = e.resetAt
           /\ IF e.count < Limit
                THEN Through(new) = Through(e) + 1 /\ Through(new) \in 0..Limit
                ELSE Through(new) = Through(e)
<1> USE BudgetAssumption
<1> DEFINE n == IF e.count > Limit THEN e.count ELSE e.count + 1
<1>1. e.count \in 0..(Limit + 1) /\ e.resetAt \in Window..(MaxNow + Window)
  OBVIOUS
<1>2. new.count = n /\ new.resetAt = e.resetAt /\ new = [count |-> n, resetAt |-> e.resetAt]
  OBVIOUS
<1>3. n \in 1..(Limit + 1)
  BY <1>1
<1>4. new \in Counter
  BY <1>1, <1>2, <1>3 DEF Counter
<1>5. QED
  BY <1>1, <1>2, <1>4 DEF Through

(* One command more in a window opened at o, at moment t.                  *)
LEMMA AppendFits ==
    ASSUME NEW p \in Seq(0..MaxNow), NEW t \in 0..MaxNow, NEW o \in Int, o <= t,
           NEW k \in 0..(Limit - 1), Fits(p, o, k), Spaced(p)
    PROVE  Fits(Append(p, t), o, k + 1) /\ Spaced(Append(p, t))
<1> USE BudgetAssumption
<1> DEFINE q == Append(p, t)
           n == Len(p)
<1>1. n \in Nat /\ \A i \in 1..n : p[i] \in Nat
  OBVIOUS
<1>2. /\ Len(q) = n + 1 /\ q[n + 1] = t
      /\ \A i \in 1..n : q[i] = p[i]
  OBVIOUS
<1>3. /\ k <= n /\ \A i \in 1..(n - k) : p[i] < o
      /\ \A i \in 1..(n - k) - Limit : p[i] < o - Window
  BY DEF Fits
<1> HIDE DEF q, n
<1>4. \A i \in 1..(n + 1) - (k + 1) : i \in 1..n /\ i \in 1..(n - k)
  BY <1>1
<1>5. \A i \in 1..((n + 1) - (k + 1)) - Limit : i \in 1..n /\ i \in 1..(n - k) - Limit
  BY <1>1
<1>6. Fits(q, o, k + 1)
  BY <1>1, <1>2, <1>3, <1>4, <1>5 DEF Fits
<1>7. ASSUME NEW i \in 1..(Len(q) - 2 * Limit)
      PROVE  q[i + 2 * Limit] - q[i] > Window
  <2>1. i \in 1..n
    BY <1>1, <1>2
  <2>2. CASE i <= n - 2 * Limit
    <3>1. i \in 1..(n - 2 * Limit) /\ i + 2 * Limit \in 1..n
      BY <2>2, <1>1, <2>1
    <3>2. p[i + 2 * Limit] - p[i] > Window
      BY <3>1 DEF Spaced, n
    <3>3. QED
      BY <3>1, <3>2, <2>1, <1>2
  <2>3. CASE i = n + 1 - 2 * Limit
    <3>1. i \in 1..(n - k) - Limit
      BY <2>1, <2>3, <1>1
    <3>2. p[i] < o - Window /\ p[i] \in Nat /\ q[i] = p[i]
      BY <3>1, <2>1, <1>1, <1>2, <1>3
    <3>3. i + 2 * Limit = n + 1
      BY <2>3, <2>1, <1>1
    <3>4. q[i + 2 * Limit] = t
      BY <3>3, <1>2
    <3>5. QED
      BY <3>2, <3>4
  <2>4. QED
    BY <2>2, <2>3, <1>1, <1>2
<1>8. QED
  BY <1>6, <1>7 DEF Spaced, q

(* Counting one command more in the user's entry.                          *)
LEMMA CountOne ==
    ASSUME GateTypeOK, Windowed, SlidingBudget, NEW u \in Caller,
           NEW e \in [count : 0..(Limit + 1), resetAt : Window..(MaxNow + Window)],
           now <= e.resetAt, e.resetAt <= now + Window,
           Fits(passed[u], e.resetAt - Window, Through(e)),
           \A i \in 1..Len(passed[u]) : passed[u][i] <= e.resetAt,
           NEW new \in Counter, new.resetAt = e.resetAt,
           IF e.count < Limit THEN Through(new) = Through(e) + 1 /\ Through(new) \in 0..Limit
                              ELSE Through(new) = Through(e),
           now' = now, counter' = [counter EXCEPT ![u] = {new}],
           \/ e.count < Limit /\ passed' = [passed EXCEPT ![u] = Append(@, now)]
           \/ ~(e.count < Limit) /\ passed' = passed
    PROVE  /\ counter' \in [Caller -> SUBSET Counter]
           /\ \A w \in Caller : \A x, y \in counter'[w] : x = y
           /\ passed' \in [Caller -> Seq(0..MaxNow)]
           /\ Windowed' /\ SlidingBudget'
<1> USE BudgetAssumption DEF GateTypeOK
<1> DEFINE p == passed[u]
           q == passed'[u]
           o == e.resetAt - Window
<1>1. p \in Seq(0..MaxNow) /\ now \in 0..MaxNow /\ counter[u] \subseteq Counter
  OBVIOUS
<1>2. /\ Len(p) \in Nat /\ \A i \in 1..Len(p) : p[i] \in Nat
  BY <1>1
<1>3. Fits(p, o, Through(e)) /\ \A i \in 1..Len(p) : p[i] <= e.resetAt
  OBVIOUS
<1>4. e.count < Limit => Through(new) = Through(e) + 1 /\ Through(new) <= Limit
  OBVIOUS
<1>5. o \in Int /\ Through(e) \in 0..Limit /\ o <= now
  BY <1>3, <1>1 DEF Through
<1>6. /\ counter' = [counter EXCEPT ![u] = {new}] /\ counter'[u] = {new}
      /\ \A w \in Caller \ {u} : counter'[w] = counter[w] /\ passed'[w] = passed[w]
      /\ IF e.count < Limit THEN q = Append(p, now) ELSE q = p
      /\ passed' = [passed EXCEPT ![u] = q]
  OBVIOUS
<1> DEFINE Good ==
        /\ q \in Seq(0..MaxNow) /\ Fits(q, o, Through(new))
        /\ (\A i \in 1..Len(q) : q[i] <= e.resetAt) /\ Spaced(q)
<1>s. Spaced(p)
  BY DEF SlidingBudget, Spaced
<1> HIDE DEF GateTypeOK, p, q, o
<1>7. ASSUME e.count < Limit
      PROVE  Good
  <2>1. q = Append(p, now)
    BY <1>6, <1>7
  <2>2. Through(e) \in 0..(Limit - 1) /\ Through(new) = Through(e) + 1
    BY <1>4, <1>5, <1>7
  <2>3. Fits(q, o, Through(new)) /\ Spaced(q)
    BY <2>1, <2>2, <1>1, <1>3, <1>5, <1>s, AppendFits
  <2>4. /\ q \in Seq(0..MaxNow)
        /\ \A i \in 1..Len(q) : (i \in 1..Len(p) /\ q[i] = p[i]) \/ q[i] = now
    BY <2>1, <1>1, <1>2
  <2>5. QED
    BY <2>3, <2>4, <1>3
<1>8. ASSUME ~(e.count < Limit)
      PROVE  Good
  BY <1>1, <1>3, <1>6, <1>8, <1>s
<1>9. Good
  BY <1>7, <1>8
<1>10a. counter' \in [Caller -> SUBSET Counter]
  BY <1>6 DEF GateTypeOK
<1>10b. passed' \in [Caller -> Seq(0..MaxNow)]
  <2>1. q \in Seq(0..MaxNow) /\ passed \in [Caller -> Seq(0..MaxNow)]
    BY <1>9 DEF GateTypeOK
  <2> HIDE DEF q
  <2>2. QED
    BY <1>6, <2>1
<1>10. counter' \in [Caller -> SUBSET Counter] /\ passed' \in [Caller -> Seq(0..MaxNow)]
  BY <1>10a, <1>10b
<1>11. \A w \in Caller : \A x, y \in counter'[w] : x = y
  BY <1>6 DEF GateTypeOK
<1>12. Windowed'
  <2>1. ASSUME NEW w \in Caller \ {u}
        PROVE  /\ \A x \in counter'[w] :
                     /\ Fits(passed'[w], x.resetAt - Window, Through(x))
                     /\ x.resetAt <= now' + Window
                     /\ \A i \in 1..Len(passed'[w]) : passed'[w][i] <= x.resetAt
               /\ counter'[w] = {} => Fits(passed'[w], now', 0)
    BY <2>1, <1>6 DEF Windowed
  <2>2. \A x \in counter'[u] :
              /\ Fits(passed'[u], x.resetAt - Window, Through(x))
              /\ x.resetAt <= now' + Window
              /\ \A i \in 1..Len(passed'[u]) : passed'[u][i] <= x.resetAt
    BY <1>6, <1>9 DEF q, o
  <2>3. counter'[u] # {}
    BY <1>6
  <2>4. QED
    BY <2>1, <2>2, <2>3 DEF Windowed
<1>13. SlidingBudget'
  <2>1. \A w \in Caller : Spaced(passed[w])
    BY DEF SlidingBudget, Spaced
  <2>2. \A w \in Caller : Spaced(passed'[w])
    BY <2>1, <1>6, <1>9 DEF q
  <2>3. QED
    BY <2>2 DEF SlidingBudget, Spaced
<1>14. QED
  BY <1>10, <1>11, <1>12, <1>13

LimiterInv == GateTypeOK /\ Windowed /\ SlidingBudget

(* The limiter's bookkeeping fits what was let through.                    *)
LEMMA LimiterInvariant == GateSpec => []LimiterInv
<1>1. GateInit => LimiterInv
  BY BudgetAssumption DEF GateInit, LimiterInv, GateTypeOK, Windowed, SlidingBudget, Fits
<1>2. LimiterInv /\ [GateNext]_gateVars => LimiterInv'
  <2> SUFFICES ASSUME GateTypeOK, Windowed, SlidingBudget, [GateNext]_gateVars PROVE LimiterInv'
    BY DEF LimiterInv
  <2> USE BudgetAssumption DEF GateTypeOK, LimiterInv
  <2>0. \A c \in Command : command[c].pc # "free" => command[c] \in Handled
    BY DEF Handled, Free
  <2>1. ASSUME NEW c \in Command, NEW p \in Step, command[c].pc # "free", Goto(c, p)
        PROVE  command' \in [Command -> Handled \cup {Free}]
    <3>1. [command[c] EXCEPT !.pc = p] \in Handled
      BY <2>0, <2>1 DEF Handled
    <3>2. QED
      BY <2>1, <3>1 DEF Goto
  <2>2. ASSUME UNCHANGED <<gateEnv, now, counter, passed>>, role' \in [Caller -> Role],
               online' \in BOOLEAN, socket' \in BOOLEAN,
               command' \in [Command -> Handled \cup {Free}]
        PROVE  LimiterInv'
    <3>1. Windowed' /\ SlidingBudget'
      BY <2>2 DEF Windowed, SlidingBudget
    <3>2. QED
      BY <2>2, <3>1
  <2>3. ASSUME NEW c \in Command, NEW u \in Caller, NEW a \in Action, Send(c, u, a)
        PROVE  LimiterInv'
    <3>1. [pc |-> "arrived", by |-> u, action |-> a, seen |-> "none"] \in Handled
      BY DEF Handled, Step, Role
    <3>2. QED
      BY <2>2, <2>3, <3>1 DEF Send, world
  <2>4. ASSUME NEW c \in Command, RateLimit(c)
        PROVE  LimiterInv'
    <3> DEFINE u == command[c].by
               e == EntryOf(u)
    <3>1. command[c].pc # "free" /\ u \in Caller
      BY <2>4, <2>0 DEF RateLimit, Handled
    <3>2. command' \in [Command -> Handled \cup {Free}]
      <4>1. Goto(c, "counted") \/ Goto(c, "limited")
        BY <2>4 DEF RateLimit
      <4>2. QED
        BY <4>1, <3>1, <2>1 DEF Step
    <3>3. UNCHANGED <<gateEnv, now, role, online, socket>>
      BY <2>4 DEF RateLimit, world
    <3>4. CASE UNCHANGED <<counter, passed>>
      BY <3>2, <3>3, <3>4, <2>2
    <3>5. ASSUME counter' = [counter EXCEPT ![u] =
                     {[e EXCEPT !.count = IF @ > Limit THEN @ ELSE @ + 1]}],
                 \/ e.count < Limit /\ passed' = [passed EXCEPT ![u] = Append(@, now)]
                 \/ ~(e.count < Limit) /\ passed' = passed
          PROVE  LimiterInv'
      <4> DEFINE new == [e EXCEPT !.count = IF @ > Limit THEN @ ELSE @ + 1]
      <4> HIDE DEF u, e
      <4>1. /\ e \in [count : 0..(Limit + 1), resetAt : Window..(MaxNow + Window)]
            /\ now <= e.resetAt /\ e.resetAt <= now + Window
            /\ Fits(passed[u], e.resetAt - Window, Through(e))
            /\ \A i \in 1..Len(passed[u]) : passed[u][i] <= e.resetAt
        BY <3>1, EntryFits DEF e
      <4>2. /\ new \in Counter /\ new.resetAt = e.resetAt
            /\ IF e.count < Limit
                 THEN Through(new) = Through(e) + 1 /\ Through(new) \in 0..Limit
                 ELSE Through(new) = Through(e)
        BY <4>1, CountedEntry
      <4>3. counter' = [counter EXCEPT ![u] = {new}]
        BY <3>5
      <4> HIDE DEF new, GateTypeOK
      <4>4. /\ counter' \in [Caller -> SUBSET Counter]
            /\ \A w \in Caller : \A x, y \in counter'[w] : x = y
            /\ passed' \in [Caller -> Seq(0..MaxNow)]
            /\ Windowed' /\ SlidingBudget'
        BY <3>1, <3>3, <3>5, <4>1, <4>2, <4>3, CountOne
      <4>5. QED
        BY <3>2, <3>3, <4>4 DEF GateTypeOK
    <3>6. QED
      BY <2>4, <3>4, <3>5 DEF RateLimit
  <2>5. ASSUME NEW c \in Command, CheckMember(c)
        PROVE  LimiterInv'
    <3> DEFINE r == role[command[c].by]
               p == IF command[c].action \in ALLOWED_ACTIONS /\ May(r, command[c].action)
                      THEN "member" ELSE "refused"
    <3>1. command[c] \in Handled /\ r \in Role /\ p \in Step
      BY <2>5, <2>0 DEF CheckMember, Handled, Step
    <3>2. command' = [command EXCEPT ![c] = [command[c] EXCEPT !.seen = r, !.pc = p]]
      BY <2>5 DEF CheckMember
    <3> HIDE DEF r, p
    <3>3. [command[c] EXCEPT !.seen = r, !.pc = p] \in Handled
      BY <3>1 DEF Handled
    <3>4. command' \in [Command -> Handled \cup {Free}]
      BY <3>2, <3>3
    <3>5. QED
      BY <2>5, <3>4, <2>2 DEF CheckMember, world
  <2>6. ASSUME NEW c \in Command, CheckOnline(c) \/ Relay(c)
        PROVE  LimiterInv'
    <3>1. command' \in [Command -> Handled \cup {Free}]
      BY <2>6, <2>1 DEF CheckOnline, Relay, Step
    <3>2. QED
      BY <2>6, <3>1, <2>2 DEF CheckOnline, Relay, world
  <2>7. CASE CleanUp
    <3>1. \A u \in Caller : counter'[u] = {e \in counter[u] : now <= e.resetAt}
      BY <2>7 DEF CleanUp
    <3>2. UNCHANGED <<gateEnv, now, passed, role, online, socket, command>>
      BY <2>7 DEF CleanUp, world
    <3>3. counter' \in [Caller -> SUBSET Counter]
      <4>1. \A u \in Caller : {e \in counter[u] : now <= e.resetAt} \in SUBSET Counter
        OBVIOUS
      <4>2. QED
        BY <4>1, <2>7 DEF CleanUp
    <3>4. GateTypeOK'
      BY <3>1, <3>2, <3>3
    <3>5. ASSUME NEW u \in Caller, counter'[u] = {}
          PROVE  Fits(passed[u], now, 0)
      <4>1. \A e \in counter[u] : ~(now <= e.resetAt)
        BY <3>1, <3>5
      <4>2. QED
        BY <4>1, NewWindowFits
    <3>6. Windowed'
      BY <3>1, <3>2, <3>5 DEF Windowed
    <3>7. SlidingBudget'
      BY <3>2 DEF SlidingBudget
    <3>8. QED
      BY <3>4, <3>6, <3>7
  <2>8. CASE Tick
    <3>1. now' = now + 1 /\ now' \in 0..MaxNow
          /\ UNCHANGED <<gateEnv, counter, passed, role, online, socket, command>>
      BY <2>8 DEF Tick, world
    <3>2. ASSUME NEW u \in Caller, Fits(passed[u], now, 0)
          PROVE  Fits(passed[u], now', 0)
      <4>1. Len(passed[u]) \in Nat /\ \A i \in 1..Len(passed[u]) : passed[u][i] \in Nat
        OBVIOUS
      <4>2. \A i \in 1..(Len(passed[u]) - 0) - Limit : i \in 1..Len(passed[u]) - 0
        BY <4>1
      <4>3. now \in Int /\ now' \in Int /\ now < now' /\ Window \in Int
        BY <3>1, BudgetAssumption
      <4> DEFINE n == Len(passed[u]) - 0
                 p == passed[u]
      <4>4. 0 <= Len(p) /\ (\A i \in 1..n : p[i] < now) /\ \A i \in 1..n - Limit : p[i] < now - Window
        BY <3>2 DEF Fits
      <4>5. \A i \in 1..n : p[i] \in Int
        BY <4>1
      <4>6. \A i \in 1..n - Limit : p[i] \in Int
        BY <4>2, <4>5
      <4> HIDE DEF n
      <4>7. \A i \in 1..n : p[i] < now'
        BY <4>3, <4>4, <4>5
      <4>8. \A i \in 1..n - Limit : p[i] < now' - Window
        BY <4>3, <4>4, <4>6
      <4>9. QED
        BY <4>4, <4>7, <4>8 DEF Fits, n
    <3>3. \A u \in Caller : \A e \in counter[u] : e.resetAt \in Int
      BY DEF Counter
    <3>4. Windowed'
      <4>1. ASSUME NEW u \in Caller, NEW e \in counter'[u]
            PROVE  e.resetAt <= now' + Window
        BY <3>1, <3>3, <4>1 DEF Windowed
      <4>2. QED
        BY <3>1, <3>2, <4>1 DEF Windowed
    <3>5. SlidingBudget'
      BY <3>1 DEF SlidingBudget
    <3>6. QED
      BY <3>1, <3>4, <3>5
  <2>9. ASSUME NEW u \in Caller, NEW r \in Role, ChangeRole(u, r)
        PROVE  LimiterInv'
    BY <2>9, <2>2 DEF ChangeRole
  <2>10. CASE AgentComesAndGoes
    BY <2>10, <2>2 DEF AgentComesAndGoes
  <2>11. CASE UNCHANGED gateVars
    BY <2>11, <2>2 DEF gateVars
  <2>12. QED
    BY <2>3, <2>4, <2>5, <2>6, <2>7, <2>8, <2>9, <2>10, <2>11 DEF GateNext, Handle
<1>3. QED
  BY <1>1, <1>2, PTL DEF GateSpec

(* Every variable has its type.                                            *)
THEOREM GateTypeCorrect == GateSpec => []GateTypeOK
BY LimiterInvariant, PTL DEF LimiterInv

(* Nobody gets more than twice the limit through in any stretch of time as *)
(* long as a window, however the fixed windows and the cleanups fall.      *)
THEOREM TwiceTheLimit == GateSpec => []SlidingBudget
BY LimiterInvariant, PTL DEF LimiterInv
=============================================================================

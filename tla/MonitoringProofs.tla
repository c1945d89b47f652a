--------------------------- MODULE MonitoringProofs ---------------------------
(***************************************************************************)
(* Theorems about the alerts and the uptime of Monitoring, for every number *)
(* of messages in progress and of status events, all levels, times, windows *)
(* and bounds, and any set of environments.                                *)
(***************************************************************************)
EXTENDS Monitoring, TLAPS, FiniteSetTheorems, SequenceTheorems

Types == now \in Moment /\ AlertTypeOK

LEMMA Times ==
    /\ Start \in Nat /\ MaxTime \in Nat /\ Moment \subseteq Nat /\ Time \subseteq Nat
    /\ Level \subseteq Nat /\ Default \in Level
    /\ \A t \in Moment : t >= Start /\ t # 0
    /\ ALERT_COOLDOWN_MS \in Nat /\ ALERT_COOLDOWN_MS >= 1 /\ ALERT_COOLDOWN_MS <= Start
    /\ THRESHOLD_CACHE_MS \in Nat /\ THRESHOLD_CACHE_MS >= 1
BY ClockAssumption, AlertAssumption DEF Moment, Time

-----------------------------------------------------------------------------
(* A message in progress, field by field.                                  *)

LEMMA Messages ==
    ASSUME NEW h \in Handling
    PROVE  /\ h # Idle /\ h.kind \in Kind /\ h.cpu \in Level /\ h.at \in Moment
           /\ h.record \in {"read", "judge", "insert", "done"} /\ h.threshold \in Level
           /\ h.status \in {"fired", "resolved"}
           /\ h.fire \in {"read", "decide", "done"} /\ h.url \in BOOLEAN /\ h.limit \in Level
<1>1. h.kind \in Kind
  BY DEF Handling
<1>2. Idle.kind \notin Kind
  BY DEF Idle, Kind, Crash, HighCpu
<1>3. QED
  BY <1>1, <1>2 DEF Handling

(* What the chains that are not through know stays.                        *)
Keeps(h, g) ==
    /\ g \in Handling /\ g.kind = h.kind /\ g.cpu = h.cpu /\ g.at = h.at
    /\ g.record = h.record /\ g.fire = h.fire
    /\ h.record # "done" => g.threshold = h.threshold /\ g.status = h.status
    /\ h.fire # "done" => g.url = h.url /\ g.limit = h.limit

Becomes(s, h) ==
    /\ handling' \in [Slot -> Handling \cup {Idle}]
    /\ \A t \in Slot : t # s => handling'[t] = handling[t]
    /\ \/ handling'[s] = Idle /\ h.record = "done" /\ h.fire = "done"
       \/ Keeps(h, handling'[s])

LEMMA PutStep ==
    ASSUME handling \in [Slot -> Handling \cup {Idle}], NEW s \in Slot, NEW h \in Handling, Put(s, h)
    PROVE  Becomes(s, h)
<1>1. Keeps(h, Decided(h))
  <2>1. [h EXCEPT !.url = FALSE, !.limit = Default] \in Handling
    BY Times DEF Handling
  <2>2. Keeps(h, h)
    BY DEF Keeps
  <2>3. h.fire = "done" => Keeps(h, [h EXCEPT !.url = FALSE, !.limit = Default])
    BY <2>1 DEF Keeps, Handling
  <2>4. QED
    BY <2>2, <2>3 DEF Decided
<1>2. ASSUME NEW g \in Handling PROVE Keeps(g, Recorded(g))
  <2>1. [g EXCEPT !.threshold = Default, !.status = "fired"] \in Handling
    BY Times DEF Handling
  <2>2. Keeps(g, g)
    BY DEF Keeps
  <2>3. g.record = "done" => Keeps(g, [g EXCEPT !.threshold = Default, !.status = "fired"])
    BY <2>1 DEF Keeps, Handling
  <2>4. QED
    BY <2>2, <2>3 DEF Recorded
<1>3. Keeps(h, Recorded(Decided(h)))
  BY <1>1, <1>2 DEF Keeps
<1>4. CASE h.record = "done" /\ h.fire = "done"
  BY <1>4 DEF Put, Becomes
<1>5. CASE ~(h.record = "done" /\ h.fire = "done")
  <2>1. handling' = [handling EXCEPT ![s] = Recorded(Decided(h))]
    BY <1>5 DEF Put
  <2>2. Recorded(Decided(h)) \in Handling
    BY <1>3 DEF Keeps
  <2>3. handling' \in [Slot -> Handling \cup {Idle}] /\ handling'[s] = Recorded(Decided(h))
        /\ \A t \in Slot : t # s => handling'[t] = handling[t]
    BY <2>1, <2>2
  <2>4. QED
    BY <1>3, <2>3 DEF Becomes
<1>6. QED
  BY <1>4, <1>5

LEMMA BegunMessage ==
    ASSUME now \in Moment, NEW k \in Kind, NEW cpu \in Level
    PROVE  /\ Begun(k, cpu) \in Handling
           /\ Begun(k, cpu).kind = k /\ Begun(k, cpu).cpu = cpu /\ Begun(k, cpu).at = now
           /\ Begun(k, cpu).record = IF k = Crash THEN "insert" ELSE "read"
           /\ Begun(k, cpu).fire = IF Cooling(k) THEN "done" ELSE "read"
BY Times DEF Begun, Handling

LEMMA JudgedMessage ==
    ASSUME NEW h \in Handling, NEW threshold \in Level
    PROVE  LET g == Judged(h, threshold) IN
           /\ g \in Handling /\ g.kind = h.kind /\ g.cpu = h.cpu /\ g.at = h.at /\ g.fire = h.fire
           /\ g.url = h.url /\ g.limit = h.limit
           /\ (h.cpu >= threshold) # highCpuActive =>
                  /\ g.record = "insert"
                  /\ g.status = IF h.cpu >= threshold THEN "fired" ELSE "resolved"
           /\ ~((h.cpu >= threshold) # highCpuActive) => g.record = "done"
<1> DEFINE fired1 == [h EXCEPT !.record = "insert", !.threshold = Default, !.status = "fired"]
           resolved1 == [h EXCEPT !.record = "insert", !.threshold = Default, !.status = "resolved"]
           done1 == [h EXCEPT !.record = "done"]
<1>1. fired1 \in Handling /\ resolved1 \in Handling /\ done1 \in Handling
  BY Times DEF Handling
<1>2. /\ fired1.record = "insert" /\ fired1.status = "fired"
      /\ resolved1.record = "insert" /\ resolved1.status = "resolved"
      /\ done1.record = "done"
      /\ \A g \in {fired1, resolved1, done1} :
            /\ g.kind = h.kind /\ g.cpu = h.cpu /\ g.at = h.at /\ g.fire = h.fire
            /\ g.url = h.url /\ g.limit = h.limit
  BY DEF Handling
<1>3. (h.cpu >= threshold) # highCpuActive =>
          Judged(h, threshold) = IF h.cpu >= threshold THEN fired1 ELSE resolved1
  BY DEF Judged
<1>4. ~((h.cpu >= threshold) # highCpuActive) => Judged(h, threshold) = done1
  BY DEF Judged
<1> HIDE DEF fired1, resolved1, done1
<1>5. QED
  BY <1>1, <1>2, <1>3, <1>4

(* What each step makes of the message in slot s.                          *)
Arrived(h, k) ==
    h.kind = k /\ h.at = now /\ h.fire = IF Cooling(k) THEN "done" ELSE "read"

Follows(h, g) == h.kind = g.kind /\ h.cpu = g.cpu /\ h.at = g.at

JudgedBy(h, threshold) ==
    /\ (h.cpu >= threshold) # highCpuActive =>
           h.record = "insert" /\ h.status = IF h.cpu >= threshold THEN "fired" ELSE "resolved"
    /\ ~((h.cpu >= threshold) # highCpuActive) => h.record = "done"

LEMMA DiedStep ==
    ASSUME Types, NEW s \in Slot, Died(s)
    PROVE  \E h \in Handling : Becomes(s, h) /\ Arrived(h, Crash) /\ h.record = "insert"
<1>1. Crash \in Kind /\ Default \in Level
  BY Times DEF Kind
<1>2. Begun(Crash, Default) \in Handling /\ Arrived(Begun(Crash, Default), Crash)
      /\ Begun(Crash, Default).record = "insert"
  BY <1>1, BegunMessage DEF Types, Arrived
<1>3. Becomes(s, Begun(Crash, Default))
  BY <1>2, PutStep DEF Died, Types, AlertTypeOK
<1>4. QED
  BY <1>2, <1>3

LEMMA StatsCachedStep ==
    ASSUME Types, NEW s \in Slot, NEW cpu \in Level, StatsCached(s, cpu)
    PROVE  \E h \in Handling : /\ Becomes(s, h) /\ Arrived(h, HighCpu) /\ h.cpu = cpu
                               /\ JudgedBy(h, thresholdCache.threshold)
<1> DEFINE b == Begun(HighCpu, cpu)
           h == Judged(b, thresholdCache.threshold)
<1>1. HighCpu \in Kind /\ thresholdCache.threshold \in Level
  BY DEF Kind, Types, AlertTypeOK
<1>2. b \in Handling /\ Arrived(b, HighCpu) /\ b.cpu = cpu
  BY <1>1, BegunMessage DEF Types, Arrived
<1> HIDE DEF b
<1>3. /\ h \in Handling /\ h.kind = b.kind /\ h.cpu = b.cpu /\ h.at = b.at /\ h.fire = b.fire
      /\ (b.cpu >= thresholdCache.threshold) # highCpuActive =>
             /\ h.record = "insert"
             /\ h.status = IF b.cpu >= thresholdCache.threshold THEN "fired" ELSE "resolved"
      /\ ~((b.cpu >= thresholdCache.threshold) # highCpuActive) => h.record = "done"
  BY <1>1, <1>2, JudgedMessage
<1>4. Becomes(s, h)
  BY <1>3, PutStep DEF StatsCached, Types, AlertTypeOK, b
<1> HIDE DEF h
<1>5. Arrived(h, HighCpu)
  BY <1>2, <1>3 DEF Arrived
<1>6. JudgedBy(h, thresholdCache.threshold)
  BY <1>3 DEF JudgedBy
<1>7. QED
  BY <1>2, <1>3, <1>4, <1>5, <1>6

LEMMA StatsColdStep ==
    ASSUME Types, NEW s \in Slot, NEW cpu \in Level, StatsCold(s, cpu)
    PROVE  \E h \in Handling : Becomes(s, h) /\ Arrived(h, HighCpu) /\ h.record = "read"
<1>1. HighCpu \in Kind /\ HighCpu # Crash
  BY DEF Kind, HighCpu, Crash
<1>2. Begun(HighCpu, cpu) \in Handling /\ Arrived(Begun(HighCpu, cpu), HighCpu)
      /\ Begun(HighCpu, cpu).record = "read"
  BY <1>1, BegunMessage DEF Types, Arrived
<1>3. Becomes(s, Begun(HighCpu, cpu))
  BY <1>2, PutStep DEF StatsCold, Types, AlertTypeOK
<1>4. QED
  BY <1>2, <1>3

LEMMA InProgress ==
    ASSUME Types, NEW s \in Slot, handling[s] # Idle
    PROVE  handling[s] \in Handling
BY DEF Types, AlertTypeOK

LEMMA ReadThresholdStep ==
    ASSUME Types, NEW s \in Slot, ReadThreshold(s)
    PROVE  /\ handling[s] \in Handling /\ handling[s].record = "read"
           /\ \E h \in Handling :
                 /\ Becomes(s, h) /\ Follows(h, handling[s]) /\ h.fire = handling[s].fire
                 /\ h.record = "judge" /\ (h.threshold = config.threshold \/ "readFails" \in env)
<1>1. handling[s] \in Handling /\ handling[s].record = "read"
  BY InProgress DEF ReadThreshold
<1>2. PICK threshold \in Level :
          /\ threshold = config.threshold \/ "readFails" \in env
          /\ Put(s, [handling[s] EXCEPT !.record = "judge", !.threshold = threshold])
  BY Times DEF ReadThreshold, Types, AlertTypeOK, Config
<1> DEFINE h == [handling[s] EXCEPT !.record = "judge", !.threshold = threshold]
<1>3. /\ h \in Handling /\ Follows(h, handling[s]) /\ h.fire = handling[s].fire
      /\ h.record = "judge" /\ h.threshold = threshold
  BY <1>1 DEF Handling, Follows
<1>4. Becomes(s, h)
  BY <1>2, <1>3, PutStep DEF Types, AlertTypeOK
<1> HIDE DEF h
<1>5. QED
  BY <1>1, <1>2, <1>3, <1>4

LEMMA JudgeStep ==
    ASSUME Types, NEW s \in Slot, Judge(s)
    PROVE  /\ handling[s] \in Handling /\ handling[s].record = "judge"
           /\ \E h \in Handling :
                 /\ Becomes(s, h) /\ Follows(h, handling[s]) /\ h.fire = handling[s].fire
                 /\ JudgedBy(h, handling[s].threshold)
<1>1. handling[s] \in Handling /\ handling[s].record = "judge"
  BY InProgress DEF Judge
<1>2. PICK g \in Handling : g = handling[s]
  BY <1>1
<1> DEFINE h == Judged(g, g.threshold)
<1>3. /\ h \in Handling /\ h.kind = g.kind /\ h.cpu = g.cpu /\ h.at = g.at /\ h.fire = g.fire
      /\ (g.cpu >= g.threshold) # highCpuActive =>
             h.record = "insert" /\ h.status = IF g.cpu >= g.threshold THEN "fired" ELSE "resolved"
      /\ ~((g.cpu >= g.threshold) # highCpuActive) => h.record = "done"
  BY Messages, JudgedMessage
<1>4. Becomes(s, h)
  BY <1>2, <1>3, PutStep DEF Judge, Types, AlertTypeOK
<1> HIDE DEF h
<1>5. Follows(h, g) /\ JudgedBy(h, g.threshold)
  BY <1>3 DEF Follows, JudgedBy
<1>6. QED
  BY <1>1, <1>2, <1>3, <1>4, <1>5

LEMMA RecordStep ==
    ASSUME Types, NEW s \in Slot, Record(s)
    PROVE  /\ handling[s] \in Handling /\ handling[s].record = "insert"
           /\ \E h \in Handling :
                 /\ Becomes(s, h) /\ Follows(h, handling[s]) /\ h.fire = handling[s].fire
                 /\ h.record = "done"
<1>1. handling[s] \in Handling /\ handling[s].record = "insert"
  BY InProgress DEF Record
<1> DEFINE h == [handling[s] EXCEPT !.record = "done"]
<1>2. h \in Handling /\ Follows(h, handling[s]) /\ h.fire = handling[s].fire /\ h.record = "done"
  BY <1>1 DEF Handling, Follows
<1>3. Becomes(s, h)
  BY <1>2, PutStep DEF Record, Types, AlertTypeOK
<1> HIDE DEF h
<1>4. QED
  BY <1>1, <1>2, <1>3

LEMMA ReadConfigStep ==
    ASSUME Types, NEW s \in Slot, ReadConfig(s)
    PROVE  /\ handling[s] \in Handling /\ handling[s].fire = "read"
           /\ \E h \in Handling :
                 /\ Becomes(s, h) /\ Follows(h, handling[s]) /\ h.fire = "decide"
                 /\ h.record = handling[s].record /\ h.status = handling[s].status
                 /\ h.threshold = handling[s].threshold
<1>1. handling[s] \in Handling /\ handling[s].fire = "read"
  BY InProgress DEF ReadConfig
<1>2. PICK url \in BOOLEAN :
          Put(s, [[handling[s] EXCEPT !.fire = "decide", !.limit = config.threshold] EXCEPT !.url = url])
  BY DEF ReadConfig, Types, AlertTypeOK, Config
<1> DEFINE h == [[handling[s] EXCEPT !.fire = "decide", !.limit = config.threshold] EXCEPT !.url = url]
<1>3. config.threshold \in Level
  BY DEF Types, AlertTypeOK, Config
<1>4. /\ h \in Handling /\ Follows(h, handling[s]) /\ h.fire = "decide"
      /\ h.record = handling[s].record /\ h.status = handling[s].status
      /\ h.threshold = handling[s].threshold
  BY <1>1, <1>3 DEF Handling, Follows
<1>5. Becomes(s, h)
  BY <1>2, <1>4, PutStep DEF Types, AlertTypeOK
<1> HIDE DEF h
<1>6. QED
  BY <1>1, <1>4, <1>5

LEMMA FireStep ==
    ASSUME Types, NEW s \in Slot, Fire(s)
    PROVE  /\ handling[s] \in Handling /\ handling[s].fire = "decide"
           /\ \E h \in Handling :
                 /\ Becomes(s, h) /\ Follows(h, handling[s]) /\ h.fire = "done"
                 /\ h.record = handling[s].record /\ h.status = handling[s].status
                 /\ h.threshold = handling[s].threshold
           /\ \/ UNCHANGED <<alertCooldowns, fired, worthy>>
              \/ LET k == handling[s].kind IN
                 /\ alertCooldowns' = [alertCooldowns EXCEPT ![k] = handling[s].at]
                 /\ fired' = [fired EXCEPT ![k] = Append(fired[k], now)]
                 /\ worthy' = [worthy EXCEPT ![k] = handling[s].at]
<1>1. handling[s] \in Handling /\ handling[s].fire = "decide"
  BY InProgress DEF Fire
<1> DEFINE h == [handling[s] EXCEPT !.fire = "done"]
<1>2. /\ h \in Handling /\ Follows(h, handling[s]) /\ h.fire = "done"
      /\ h.record = handling[s].record /\ h.status = handling[s].status
      /\ h.threshold = handling[s].threshold
  BY <1>1 DEF Handling, Follows
<1>3. Becomes(s, h)
  BY <1>2, PutStep DEF Fire, Types, AlertTypeOK
<1>4. \/ UNCHANGED <<alertCooldowns, fired, worthy>>
      \/ LET k == handling[s].kind IN
         /\ alertCooldowns' = [alertCooldowns EXCEPT ![k] = handling[s].at]
         /\ fired' = [fired EXCEPT ![k] = Append(fired[k], now)]
         /\ worthy' = [worthy EXCEPT ![k] = handling[s].at]
  BY DEF Fire
<1> HIDE DEF h
<1>5. QED
  BY <1>1, <1>2, <1>3, <1>4

-----------------------------------------------------------------------------
(* Types.                                                                  *)

LEMMA AlertsNext ==
    ASSUME [Next]_vars
    PROVE  \/ AlertNext /\ now' = now
           \/ Passes /\ UNCHANGED alertVars
           \/ UNCHANGED <<now, alertVars>>
BY DEF Next, UptimeNext, Passes, vars

LEMMA MessagesTyped ==
    ASSUME Types, NEW s \in Slot, NEW h \in Handling, Becomes(s, h), h.at <= now, now' = now
    PROVE  /\ handling' \in [Slot -> Handling \cup {Idle}]
           /\ \A t \in Slot : handling'[t] # Idle => handling'[t].at <= now
BY DEF Types, AlertTypeOK, Becomes, Keeps

LEMMA TypesInvariant == Spec => []Types
<1>1. Init => Types
  <2> SUFFICES ASSUME Init PROVE Types
    OBVIOUS
  <2>1. now \in Moment /\ now = Start /\ 0 \in Time /\ Default \in Level
    BY ClockAssumption, AlertAssumption DEF Init, Moment, Time
  <2>2. AlertInit
    BY DEF Init
  <2>3. /\ thresholdCache \in [threshold : Level, fetchedAt : Time] /\ sampled \in [cpu : Level, at : Time]
    BY <2>1, <2>2 DEF AlertInit, NotCached, Nothing
  <2>4. /\ \A k \in Kind : alertCooldowns[k] = 0 /\ 0 <= now
        /\ alertCooldowns \in [Kind -> Time] /\ worthy \in [Kind -> Time]
        /\ fired \in [Kind -> Seq(Moment)] /\ alert_events \in Seq({"fired", "resolved"})
    BY <2>1, <2>2, Times DEF AlertInit
  <2>5. /\ config \in Config /\ configured \in 0..MaxConfigured /\ configuredAt \in Moment
        /\ highCpuActive \in BOOLEAN /\ received \in 0..MaxReceived
    <3>1. 0 \in 0..MaxConfigured /\ 0 \in 0..MaxReceived
      BY AlertAssumption
    <3>2. QED
      BY <2>1, <2>2, <3>1 DEF AlertInit
  <2>6. handling \in [Slot -> Handling \cup {Idle}] /\ \A s \in Slot : handling[s] = Idle
    BY <2>2 DEF AlertInit
  <2>7. QED
    BY <2>1, <2>3, <2>4, <2>5, <2>6 DEF Types, AlertTypeOK
<1>2. Types /\ [Next]_vars => Types'
  <2> SUFFICES ASSUME Types, [Next]_vars PROVE Types'
    OBVIOUS
  <2>t. /\ now \in Moment /\ config \in Config /\ configured \in 0..MaxConfigured
        /\ configuredAt \in Moment /\ alertCooldowns \in [Kind -> Time]
        /\ \A k \in Kind : alertCooldowns[k] <= now
        /\ thresholdCache \in [threshold : Level, fetchedAt : Time]
        /\ highCpuActive \in BOOLEAN /\ received \in 0..MaxReceived
        /\ handling \in [Slot -> Handling \cup {Idle}]
        /\ \A s \in Slot : handling[s] # Idle => handling[s].at <= now
        /\ sampled \in [cpu : Level, at : Time]
        /\ alert_events \in Seq({"fired", "resolved"})
        /\ fired \in [Kind -> Seq(Moment)] /\ worthy \in [Kind -> Time]
    BY DEF Types, AlertTypeOK
  <2>k. Crash \in Kind /\ HighCpu \in Kind /\ now \in Time /\ now \in Nat /\ 0 \in Time /\ Default \in Level
    BY <2>t, Times DEF Kind, Time
  (* What a step of the handlers may change.                               *)
  <2>1. ASSUME NEW s \in Slot, NEW h \in Handling, Becomes(s, h), h.at <= now, now' = now,
               UNCHANGED settings, received' \in 0..MaxReceived,
               alertCooldowns' \in [Kind -> Time], \A k \in Kind : alertCooldowns'[k] <= now,
               thresholdCache' \in [threshold : Level, fetchedAt : Time],
               highCpuActive' \in BOOLEAN, sampled' \in [cpu : Level, at : Time],
               alert_events' \in Seq({"fired", "resolved"}),
               fired' \in [Kind -> Seq(Moment)], worthy' \in [Kind -> Time]
        PROVE  Types'
    BY <2>1, <2>t, MessagesTyped DEF Types, AlertTypeOK, settings
  <2>2. ASSUME NEW s \in Slot, Arrives(s) PROVE received' \in 0..MaxReceived
    BY <2>2, <2>t, AlertAssumption DEF Arrives
  <2>3. \A k \in Kind, cpu \in Level : Noted(k, cpu) \in [Kind -> Time]
    BY <2>t, <2>k DEF Noted
  <2>4. ASSUME NEW s \in Slot, Died(s), now' = now PROVE Types'
    <3>1. PICK h \in Handling : Becomes(s, h) /\ Arrived(h, Crash)
      BY <2>4, DiedStep
    <3>2. h.at <= now
      BY <2>k, <3>1 DEF Arrived
    <3>3. received' \in 0..MaxReceived /\ worthy' \in [Kind -> Time]
      BY <2>2, <2>3, <2>4, <2>k DEF Died
    <3>4. UNCHANGED <<settings, alertCooldowns, thresholdCache, highCpuActive, sampled, alert_events, fired>>
      BY <2>4 DEF Died, memory
    <3>5. QED
      BY <2>1, <2>4, <2>t, <3>1, <3>2, <3>3, <3>4
  <2>5. ASSUME NEW s \in Slot, NEW cpu \in Level, StatsCached(s, cpu), now' = now PROVE Types'
    <3>1. PICK h \in Handling : Becomes(s, h) /\ Arrived(h, HighCpu)
      BY <2>5, StatsCachedStep
    <3>2. h.at <= now
      BY <2>k, <3>1 DEF Arrived
    <3>3. received' \in 0..MaxReceived /\ worthy' \in [Kind -> Time]
      BY <2>2, <2>3, <2>5, <2>k DEF StatsCached
    <3>4. /\ UNCHANGED <<settings, alertCooldowns, thresholdCache, alert_events, fired>>
          /\ highCpuActive' \in BOOLEAN /\ sampled' = [cpu |-> cpu, at |-> now]
      BY <2>5 DEF StatsCached
    <3>5. sampled' \in [cpu : Level, at : Time]
      BY <2>k, <3>4
    <3>6. QED
      BY <2>1, <2>5, <2>t, <3>1, <3>2, <3>3, <3>4, <3>5
  <2>6. ASSUME NEW s \in Slot, NEW cpu \in Level, StatsCold(s, cpu), now' = now PROVE Types'
    <3>1. PICK h \in Handling : Becomes(s, h) /\ Arrived(h, HighCpu)
      BY <2>6, StatsColdStep
    <3>2. h.at <= now
      BY <2>k, <3>1 DEF Arrived
    <3>3. received' \in 0..MaxReceived /\ worthy' \in [Kind -> Time]
      BY <2>2, <2>3, <2>6, <2>k DEF StatsCold
    <3>4. UNCHANGED <<settings, alertCooldowns, thresholdCache, highCpuActive, sampled, alert_events, fired>>
      BY <2>6 DEF StatsCold, memory
    <3>5. QED
      BY <2>1, <2>6, <2>t, <3>1, <3>2, <3>3, <3>4
  <2>7. ASSUME NEW s \in Slot, ReadThreshold(s) \/ ReadConfig(s), now' = now PROVE Types'
    <3>1. PICK h \in Handling : Becomes(s, h) /\ Follows(h, handling[s]) /\ handling[s] \in Handling
      BY <2>7, ReadThresholdStep, ReadConfigStep
    <3>2. h.at <= now
      BY <2>t, <3>1, Messages DEF Follows
    <3>3. UNCHANGED <<settings, alertCooldowns, thresholdCache, highCpuActive, received, sampled, worthy,
                      alert_events, fired>>
      BY <2>7 DEF ReadThreshold, ReadConfig, memory, ghosts
    <3>4. QED
      BY <2>1, <2>7, <2>t, <3>1, <3>2, <3>3
  <2>8. ASSUME NEW s \in Slot, Judge(s), now' = now PROVE Types'
    <3>1. PICK h \in Handling : Becomes(s, h) /\ Follows(h, handling[s]) /\ handling[s] \in Handling
      BY <2>8, JudgeStep
    <3>2. h.at <= now
      BY <2>t, <3>1, Messages DEF Follows
    <3>3. /\ UNCHANGED <<settings, alertCooldowns, received, alert_events, fired, worthy>>
          /\ thresholdCache' = [threshold |-> handling[s].threshold, fetchedAt |-> now]
          /\ highCpuActive' \in BOOLEAN /\ sampled' = [cpu |-> handling[s].cpu, at |-> now]
      BY <2>8 DEF Judge
    <3>4. /\ thresholdCache' \in [threshold : Level, fetchedAt : Time]
          /\ sampled' \in [cpu : Level, at : Time]
      BY <2>k, <3>1, <3>3, Messages
    <3>5. QED
      BY <2>1, <2>8, <2>t, <3>1, <3>2, <3>3, <3>4
  <2>s. ASSUME NEW status \in {"fired", "resolved"}
        PROVE  Append(alert_events, status) \in Seq({"fired", "resolved"})
    BY <2>t
  <2>9. ASSUME NEW s \in Slot, Record(s), now' = now PROVE Types'
    <3>1. PICK h \in Handling : Becomes(s, h) /\ Follows(h, handling[s]) /\ handling[s] \in Handling
      BY <2>9, RecordStep
    <3>2. h.at <= now
      BY <2>t, <3>1, Messages DEF Follows
    <3>3. /\ UNCHANGED <<settings, alertCooldowns, thresholdCache, highCpuActive, received, sampled, worthy,
                      fired>>
          /\ alert_events' \in {alert_events, Append(alert_events, handling[s].status)}
      BY <2>9 DEF Record, memory, ghosts
    <3>4. alert_events' \in Seq({"fired", "resolved"})
      <4>1. handling[s].status \in {"fired", "resolved"}
        BY <3>1, Messages
      <4>2. Append(alert_events, handling[s].status) \in Seq({"fired", "resolved"})
        BY <2>s, <4>1
      <4>3. QED
        BY <2>t, <3>3, <4>2
    <3>5. QED
      BY <2>1, <2>9, <2>t, <3>1, <3>2, <3>3, <3>4
  <2>10. ASSUME NEW s \in Slot, Fire(s), now' = now PROVE Types'
    <3>1. PICK h \in Handling : Becomes(s, h) /\ Follows(h, handling[s]) /\ handling[s] \in Handling
      BY <2>10, FireStep
    <3>2. h.at <= now /\ handling[s].kind \in Kind /\ handling[s].at \in Time /\ handling[s].at <= now
      BY <2>t, <3>1, Messages DEF Follows, Time
    <3>3. UNCHANGED <<settings, thresholdCache, highCpuActive, received, sampled, alert_events>>
      BY <2>10 DEF Fire
    <3>4. /\ alertCooldowns' \in [Kind -> Time] /\ (\A k \in Kind : alertCooldowns'[k] <= now)
          /\ worthy' \in [Kind -> Time]
      <4>1. CASE UNCHANGED <<alertCooldowns, worthy>>
        BY <2>t, <4>1
      <4>2. CASE /\ alertCooldowns' = [alertCooldowns EXCEPT ![handling[s].kind] = handling[s].at]
                 /\ worthy' = [worthy EXCEPT ![handling[s].kind] = handling[s].at]
        BY <2>t, <3>2, <4>2
      <4>3. QED
        BY <2>10, <4>1, <4>2, FireStep
    <3>5. fired' \in [Kind -> Seq(Moment)]
      <4>1. CASE fired' = fired
        BY <2>t, <4>1
      <4>2. ASSUME NEW k \in Kind, fired' = [fired EXCEPT ![k] = Append(fired[k], now)]
            PROVE  fired' \in [Kind -> Seq(Moment)]
        <5>1. Append(fired[k], now) \in Seq(Moment)
          BY <2>t
        <5>2. QED
          BY <2>t, <4>2, <5>1
      <4>3. QED
        BY <2>10, <3>2, <4>1, <4>2, FireStep
    <3>6. QED
      BY <2>1, <2>10, <2>t, <3>1, <3>2, <3>3, <3>4, <3>5
  <2>11. ASSUME NEW c \in Config, Configure(c), now' = now PROVE Types'
    <3>1. /\ config' = c /\ configured' \in 0..MaxConfigured /\ configuredAt' \in Moment
          /\ UNCHANGED <<memory, handling, ghosts, alert_events, fired>>
      BY <2>11, <2>t, AlertAssumption DEF Configure
    <3>2. QED
      BY <2>11, <2>t, <3>1 DEF Types, AlertTypeOK, memory, ghosts
  <2>12. ASSUME Restart, now' = now PROVE Types'
    <3>1. /\ alertCooldowns' \in [Kind -> Time] /\ (\A k \in Kind : alertCooldowns'[k] <= now)
          /\ thresholdCache' \in [threshold : Level, fetchedAt : Time] /\ highCpuActive' \in BOOLEAN
          /\ handling' \in [Slot -> Handling \cup {Idle}] /\ \A s \in Slot : handling'[s] = Idle
      <4>1. /\ alertCooldowns' = [k \in Kind |-> 0] /\ thresholdCache' = NotCached
            /\ highCpuActive' = FALSE /\ handling' = [s \in Slot |-> Idle]
        BY <2>12 DEF Restart
      <4>2. alertCooldowns' \in [Kind -> Time] /\ \A k \in Kind : alertCooldowns'[k] <= now
        BY <2>k, <4>1
      <4>3. thresholdCache' \in [threshold : Level, fetchedAt : Time]
        BY <2>k, <4>1 DEF NotCached
      <4>4. handling' \in [Slot -> Handling \cup {Idle}] /\ \A s \in Slot : handling'[s] = Idle
        BY <4>1
      <4>5. QED
        BY <4>1, <4>2, <4>3, <4>4
    <3>2. UNCHANGED <<settings, ghosts, alert_events, fired>>
      BY <2>12 DEF Restart
    <3>3. QED
      BY <2>12, <2>t, <3>1, <3>2 DEF Types, AlertTypeOK, settings, ghosts
  <2>13. ASSUME AlertNext, now' = now PROVE Types'
    BY <2>4, <2>5, <2>6, <2>7, <2>8, <2>9, <2>10, <2>11, <2>12, <2>13 DEF AlertNext
  <2>14. ASSUME Passes, UNCHANGED alertVars PROVE Types'
    <3>1. now' = now + 1 /\ now' \in Moment
      BY <2>14, <2>t, ClockAssumption DEF Passes, Tick, Moment
    <3>2. /\ \A k \in Kind : alertCooldowns[k] <= now'
          /\ \A s \in Slot : handling[s] # Idle => handling[s].at <= now'
      <4>1. ASSUME NEW n \in Nat, n <= now PROVE n <= now'
        BY <2>k, <3>1, <4>1
      <4>2. QED
        BY <2>t, <4>1, Times, Messages
    <3>3. QED
      BY <2>14, <2>t, <3>1, <3>2 DEF Types, AlertTypeOK, alertVars
  <2>15. ASSUME UNCHANGED <<now, alertVars>> PROVE Types'
    BY <2>15 DEF Types, AlertTypeOK, alertVars
  <2>16. QED
    BY <2>13, <2>14, <2>15, AlertsNext
<1>3. QED
  BY <1>1, <1>2, PTL DEF Spec


-----------------------------------------------------------------------------
(* No alert goes unannounced.  Inductive: a cooldown that runs was begun   *)
(* by a message whose webhook was posted then or later, and so whatever is *)
(* held back while it runs is near that webhook.                           *)

Posted(k, t) == \E i \in 1..Len(fired[k]) : t < fired[k][i] + ALERT_COOLDOWN_MS
Begins(k, t) == \E i \in 1..Len(fired[k]) : t <= fired[k][i]

AnnouncedInv ==
    \A k \in Kind :
        /\ alertCooldowns[k] # 0 => Begins(k, alertCooldowns[k])
        /\ worthy[k] # 0 => Posted(k, worthy[k])

LEMMA NotedIsPosted ==
    ASSUME Types, AnnouncedInv, NEW j \in Kind, NEW cpu \in Level, worthy' = Noted(j, cpu),
           NEW k \in Kind, worthy'[k] # 0
    PROVE  Posted(k, worthy'[k])
<1>1. CASE worthy'[k] = worthy[k]
  BY <1>1 DEF AnnouncedInv
<1>2. CASE worthy'[k] # worthy[k]
  <2>1. k = j /\ Cooling(k) /\ worthy'[k] = now
    BY <1>2 DEF Noted, Types, AlertTypeOK
  <2>2. now \in Nat /\ now >= Start /\ alertCooldowns[k] \in Nat /\ Start \in Nat
    BY Times DEF Types, AlertTypeOK
  <2>3. alertCooldowns[k] # 0 /\ now < alertCooldowns[k] + ALERT_COOLDOWN_MS
    BY <2>1, <2>2, Times DEF Cooling
  <2>4. PICK i \in 1..Len(fired[k]) : alertCooldowns[k] <= fired[k][i]
    BY <2>3 DEF AnnouncedInv, Begins
  <2>5. fired[k][i] \in Nat
    <3>1. fired[k] \in Seq(Moment)
      BY DEF Types, AlertTypeOK
    <3>2. fired[k][i] \in Moment
      BY <2>4, <3>1
    <3>3. QED
      BY <3>2, Times
  <2>6. now < fired[k][i] + ALERT_COOLDOWN_MS
    BY <2>2, <2>3, <2>4, <2>5, Times
  <2>7. QED
    BY <2>1, <2>6 DEF Posted
<1>3. QED
  BY <1>1, <1>2

LEMMA AnnouncedInvariant == Spec => []AnnouncedInv
<1>1. Init => AnnouncedInv
  BY DEF Init, AlertInit, AnnouncedInv
<1>2. Types /\ AnnouncedInv /\ [Next]_vars => AnnouncedInv'
  <2> SUFFICES ASSUME Types, AnnouncedInv, [Next]_vars PROVE AnnouncedInv'
    OBVIOUS
  <2>1. ASSUME UNCHANGED <<alertCooldowns, fired, worthy>> PROVE AnnouncedInv'
    BY <2>1 DEF AnnouncedInv, Begins, Posted
  (* A message arrives.                                                    *)
  <2>2. ASSUME NEW j \in Kind, NEW cpu \in Level, worthy' = Noted(j, cpu),
               UNCHANGED <<alertCooldowns, fired>>
        PROVE  AnnouncedInv'
    <3> SUFFICES ASSUME NEW k \in Kind
                 PROVE  /\ (alertCooldowns[k] # 0 => Begins(k, alertCooldowns[k]))'
                        /\ (worthy[k] # 0 => Posted(k, worthy[k]))'
      BY DEF AnnouncedInv
    <3>1. worthy'[k] # 0 => Posted(k, worthy'[k])
      BY <2>2, NotedIsPosted
    <3>2. QED
      BY <2>2, <3>1 DEF AnnouncedInv, Begins, Posted
  (* A webhook is posted.                                                  *)
  <2>3. ASSUME NEW s \in Slot, Fire(s) PROVE AnnouncedInv'
    <3>1. CASE UNCHANGED <<alertCooldowns, fired, worthy>>
      BY <2>1, <3>1
    <3>2. CASE /\ alertCooldowns' = [alertCooldowns EXCEPT ![handling[s].kind] = handling[s].at]
               /\ fired' = [fired EXCEPT ![handling[s].kind] = Append(fired[handling[s].kind], now)]
               /\ worthy' = [worthy EXCEPT ![handling[s].kind] = handling[s].at]
      <4> SUFFICES ASSUME NEW k \in Kind
                   PROVE  /\ (alertCooldowns[k] # 0 => Begins(k, alertCooldowns[k]))'
                          /\ (worthy[k] # 0 => Posted(k, worthy[k]))'
        BY DEF AnnouncedInv
      <4>1. handling[s] \in Handling /\ handling[s].at <= now /\ handling[s].at \in Nat /\ now \in Nat
        BY <2>3, FireStep, Messages, Times DEF Types, AlertTypeOK
      <4>2. CASE handling[s].kind # k
        <5>1. fired'[k] = fired[k] /\ alertCooldowns'[k] = alertCooldowns[k] /\ worthy'[k] = worthy[k]
          BY <3>2, <4>2 DEF Types, AlertTypeOK
        <5>2. QED
          BY <5>1 DEF AnnouncedInv, Begins, Posted
      <4>3. CASE handling[s].kind = k
        <5>1. /\ fired'[k] = Append(fired[k], now)
              /\ alertCooldowns'[k] = handling[s].at /\ worthy'[k] = handling[s].at
          BY <3>2, <4>3 DEF Types, AlertTypeOK
        <5>2. fired[k] \in Seq(Moment)
          BY DEF Types, AlertTypeOK
        <5>3. PICK i \in 1..Len(fired'[k]) : fired'[k][i] = now
          <6>1. Len(fired'[k]) = Len(fired[k]) + 1 /\ fired'[k][Len(fired[k]) + 1] = now
                /\ Len(fired[k]) + 1 \in 1..Len(fired'[k])
            BY <5>1, <5>2
          <6>2. QED
            BY <6>1
        <5>4. handling[s].at <= fired'[k][i] /\ handling[s].at < fired'[k][i] + ALERT_COOLDOWN_MS
          BY <4>1, <5>3, Times
        <5>5. QED
          BY <5>1, <5>3, <5>4 DEF Begins, Posted
      <4>4. QED
        BY <4>2, <4>3
    <3>3. QED
      BY <2>3, <3>1, <3>2, FireStep
  <2>4. ASSUME Restart PROVE AnnouncedInv'
    BY <2>4 DEF Restart, AnnouncedInv, Begins, Posted, ghosts
  <2>5. ASSUME NEW s \in Slot, ReadThreshold(s) \/ Judge(s) \/ Record(s) \/ ReadConfig(s)
        PROVE  AnnouncedInv'
    BY <2>1, <2>5 DEF ReadThreshold, Judge, Record, ReadConfig, memory, ghosts
  <2>6. ASSUME NEW s \in Slot, Died(s) PROVE AnnouncedInv'
    <3>1. worthy' = Noted(Crash, Default) /\ UNCHANGED <<alertCooldowns, fired>>
      BY <2>6 DEF Died, memory
    <3>2. QED
      BY <2>2, <3>1, Times DEF Kind
  <2>7. ASSUME NEW s \in Slot, NEW cpu \in Level, StatsCached(s, cpu) \/ StatsCold(s, cpu)
        PROVE  AnnouncedInv'
    <3>1. worthy' = Noted(HighCpu, cpu) /\ UNCHANGED <<alertCooldowns, fired>>
      BY <2>7 DEF StatsCached, StatsCold, memory
    <3>2. QED
      BY <2>2, <3>1 DEF Kind
  <2>8. ASSUME NEW c \in Config, Configure(c) PROVE AnnouncedInv'
    BY <2>1, <2>8 DEF Configure, memory, ghosts
  <2>9. ASSUME UNCHANGED alertVars PROVE AnnouncedInv'
    BY <2>1, <2>9 DEF alertVars
  <2>10. ASSUME AlertNext PROVE AnnouncedInv'
    BY <2>3, <2>4, <2>5, <2>6, <2>7, <2>8, <2>10 DEF AlertNext
  <2>11. QED
    BY <2>9, <2>10, AlertsNext
<1>3. QED
  BY <1>1, <1>2, TypesInvariant, PTL DEF Spec

(* A cooldown hides nothing new (checkForAlert, server/ws/alerts.ts): the  *)
(* last message that called for an alert came less than a cooldown after   *)
(* some webhook of its kind, or has one of its own; whatever is slow or    *)
(* fails, and across restarts.                                             *)
THEOREM NothingHidden == Spec => []Announced
<1>1. AnnouncedInv => Announced
  BY DEF AnnouncedInv, Announced, Posted
<1>2. QED
  BY <1>1, AnnouncedInvariant, PTL


-----------------------------------------------------------------------------
(* Webhooks keep their distance.  Inductive: while nothing is slow and the *)
(* backend does not restart, at most one webhook chain waits, it began in  *)
(* this tick with the cooldown over, and the cooldown of a kind runs from  *)
(* its last webhook.                                                       *)

Waits(s) == handling[s] # Idle /\ handling[s].fire # "done"

Quick == env \cap {"slowFire", "restart"} = {}

OneWaits ==
    /\ \A s, t \in Slot : Waits(s) /\ Waits(t) => s = t
    /\ \A s \in Slot : Waits(s) => handling[s].at = now /\ ~Cooling(handling[s].kind)

Spaced(k) ==
    /\ Len(fired[k]) > 0 => alertCooldowns[k] = fired[k][Len(fired[k])]
    /\ \A i \in 1..Len(fired[k]) - 1 : fired[k][i + 1] - fired[k][i] >= ALERT_COOLDOWN_MS

ApartInv == Quick => OneWaits /\ \A k \in Kind : Spaced(k)

(* A step of a message that goes on with what it had begun.                *)
LEMMA GoesOn ==
    ASSUME Types, NEW s \in Slot, NEW h \in Handling, Becomes(s, h), Follows(h, handling[s]),
           handling[s] \in Handling, h.fire # "done" => handling[s].fire # "done"
    PROVE  \A t \in Slot : Waits(t)' =>
               Waits(t) /\ handling'[t].at = handling[t].at /\ handling'[t].kind = handling[t].kind
<1> SUFFICES ASSUME NEW t \in Slot, Waits(t)'
             PROVE  Waits(t) /\ handling'[t].at = handling[t].at /\ handling'[t].kind = handling[t].kind
  OBVIOUS
<1>1. CASE t # s
  BY <1>1 DEF Becomes, Waits
<1>2. CASE t = s
  <2>1. Keeps(h, handling'[s])
    BY <1>2 DEF Becomes, Waits
  <2>2. handling[s] # Idle
    BY Messages
  <2>3. QED
    BY <1>2, <2>1, <2>2 DEF Keeps, Follows, Waits
<1>3. QED
  BY <1>1, <1>2

(* Nothing waits where a message can arrive or time pass.                  *)
LEMMA NobodyWaits ==
    ASSUME Quick, Settled
    PROVE  \A s \in Slot : ~Waits(s)
BY DEF Quick, Settled, Waits

LEMMA ApartNext ==
    ASSUME Types, ApartInv, [Next]_vars
    PROVE  ApartInv'
<1>1. ASSUME UNCHANGED <<env, now, handling, alertCooldowns, fired>> PROVE ApartInv'
  BY <1>1 DEF ApartInv, Quick, OneWaits, Spaced, Waits, Cooling
(* A message arrives.                                                      *)
<1>2. ASSUME NEW s \in Slot, NEW k \in Kind, NEW h \in Handling, Arrives(s), Becomes(s, h), Arrived(h, k),
             UNCHANGED <<env, now, alertCooldowns, fired>>
      PROVE  ApartInv'
  <2> SUFFICES ASSUME Quick PROVE OneWaits' /\ \A j \in Kind : Spaced(j)'
    BY <1>2 DEF ApartInv, Quick
  <2>1. \A t \in Slot : ~Waits(t)
    BY <1>2, NobodyWaits DEF Arrives
  <2>2. \A t \in Slot : Waits(t)' => t = s
    BY <1>2, <2>1 DEF Becomes, Waits
  <2>3. Waits(s)' => handling'[s].at = now /\ handling'[s].kind = k /\ ~Cooling(k)
    BY <1>2 DEF Becomes, Keeps, Waits, Arrived
  <2>4. OneWaits'
    BY <1>2, <2>2, <2>3 DEF OneWaits, Cooling
  <2>5. QED
    BY <1>2, <2>4 DEF ApartInv, Spaced
(* A message goes on.                                                      *)
<1>3. ASSUME NEW s \in Slot, NEW h \in Handling, Becomes(s, h), Follows(h, handling[s]),
             handling[s] \in Handling, h.fire # "done" => handling[s].fire # "done",
             UNCHANGED <<env, now, alertCooldowns, fired>>
      PROVE  ApartInv'
  <2>1. \A t \in Slot : Waits(t)' =>
            Waits(t) /\ handling'[t].at = handling[t].at /\ handling'[t].kind = handling[t].kind
    BY <1>3, GoesOn
  <2>2. Quick => OneWaits'
    BY <1>3, <2>1 DEF ApartInv, OneWaits, Cooling
  <2>3. QED
    BY <1>3, <2>2 DEF ApartInv, Quick, Spaced
(* A webhook is posted.                                                    *)
<1>4. ASSUME NEW s \in Slot, Fire(s), UNCHANGED now PROVE ApartInv'
  <2> SUFFICES ASSUME Quick PROVE OneWaits' /\ \A j \in Kind : Spaced(j)'
    BY <1>4 DEF ApartInv, Quick, Fire
  <2>1. PICK h \in Handling : Becomes(s, h) /\ Follows(h, handling[s]) /\ h.fire = "done"
    BY <1>4, FireStep
  <2>2. handling[s] \in Handling /\ handling[s].fire = "decide"
    BY <1>4, FireStep
  <2>3. Waits(s) /\ handling[s].kind \in Kind
    BY <2>2, Messages DEF Waits
  <2>4. handling[s].at = now /\ ~Cooling(handling[s].kind)
    BY <2>3 DEF ApartInv, OneWaits
  <2>5. \A t \in Slot : ~Waits(t)'
    <3>1. \A t \in Slot : Waits(t)' => Waits(t)
      BY <2>1, <2>2, GoesOn
    <3>2. ~Waits(s)'
      BY <2>1 DEF Becomes, Keeps, Waits
    <3>3. QED
      BY <2>3, <3>1, <3>2 DEF ApartInv, OneWaits
  <2>6. OneWaits'
    BY <2>5 DEF OneWaits
  <2>7. CASE UNCHANGED <<alertCooldowns, fired, worthy>>
    BY <2>6, <2>7 DEF ApartInv, Spaced
  <2>8. CASE /\ alertCooldowns' = [alertCooldowns EXCEPT ![handling[s].kind] = handling[s].at]
             /\ fired' = [fired EXCEPT ![handling[s].kind] = Append(fired[handling[s].kind], now)]
    <3> SUFFICES ASSUME NEW j \in Kind PROVE Spaced(j)'
      BY <2>6
    <3>1. CASE j # handling[s].kind
      <4>1. fired'[j] = fired[j] /\ alertCooldowns'[j] = alertCooldowns[j]
        BY <2>8, <3>1 DEF Types, AlertTypeOK
      <4>2. QED
        BY <4>1 DEF ApartInv, Spaced
    <3>2. CASE j = handling[s].kind
      <4>1. fired'[j] = Append(fired[j], now) /\ alertCooldowns'[j] = now
        BY <2>4, <2>8, <3>2 DEF Types, AlertTypeOK
      <4>2. fired[j] \in Seq(Moment) /\ alertCooldowns[j] \in Nat /\ now \in Nat
        BY Times DEF Types, AlertTypeOK
      <4>3. /\ Len(fired'[j]) = Len(fired[j]) + 1 /\ Len(fired[j]) \in Nat
            /\ \A i \in 1..Len(fired[j]) : fired'[j][i] = fired[j][i]
            /\ fired'[j][Len(fired[j]) + 1] = now
        BY <4>1, <4>2
      <4>4. Spaced(j) /\ now - alertCooldowns[j] >= ALERT_COOLDOWN_MS
        BY <2>4, <3>2, <4>2, Times DEF ApartInv, Cooling
      <4>5. ASSUME NEW i \in 1..Len(fired[j])
            PROVE  fired'[j][i + 1] - fired'[j][i] >= ALERT_COOLDOWN_MS
        <5>1. CASE i = Len(fired[j])
          BY <4>3, <4>4, <5>1 DEF Spaced
        <5>2. CASE i < Len(fired[j])
          <6>1. i \in 1..Len(fired[j]) - 1 /\ i + 1 \in 1..Len(fired[j])
            BY <4>3, <5>2
          <6>2. QED
            BY <4>3, <4>4, <6>1 DEF Spaced
        <5>3. QED
          BY <4>3, <5>1, <5>2
      <4>6. QED
        BY <4>1, <4>3, <4>5 DEF Spaced
    <3>3. QED
      BY <3>1, <3>2
  <2>9. QED
    BY <1>4, <2>7, <2>8, FireStep
<1>5. ASSUME NEW s \in Slot, Died(s), UNCHANGED now PROVE ApartInv'
  <2>1. Arrives(s) /\ UNCHANGED <<env, alertCooldowns, fired>>
    BY <1>5 DEF Died, memory
  <2>2. QED
    BY <1>2, <1>5, <2>1, DiedStep DEF Kind
<1>6. ASSUME NEW s \in Slot, NEW cpu \in Level, StatsCached(s, cpu) \/ StatsCold(s, cpu), UNCHANGED now
      PROVE  ApartInv'
  <2>1. Arrives(s) /\ UNCHANGED <<env, alertCooldowns, fired>>
    BY <1>6 DEF StatsCached, StatsCold, memory
  <2>2. QED
    BY <1>2, <1>6, <2>1, StatsCachedStep, StatsColdStep DEF Kind
<1>7. ASSUME NEW s \in Slot, ReadThreshold(s) \/ Judge(s) \/ Record(s) \/ ReadConfig(s), UNCHANGED now
      PROVE  ApartInv'
  <2>1. PICK h \in Handling : /\ Becomes(s, h) /\ Follows(h, handling[s]) /\ handling[s] \in Handling
                              /\ h.fire # "done" => handling[s].fire # "done"
    BY <1>7, ReadThresholdStep, JudgeStep, RecordStep, ReadConfigStep
  <2>2. UNCHANGED <<env, alertCooldowns, fired>>
    BY <1>7 DEF ReadThreshold, Judge, Record, ReadConfig, memory
  <2>3. QED
    BY <1>3, <1>7, <2>1, <2>2
<1>8. ASSUME NEW c \in Config, Configure(c), UNCHANGED now PROVE ApartInv'
  BY <1>1, <1>8 DEF Configure, memory
<1>9. ASSUME Restart PROVE ApartInv'
  BY <1>9 DEF Restart, ApartInv, Quick
<1>10. ASSUME Passes, UNCHANGED alertVars PROVE ApartInv'
  <2> SUFFICES ASSUME Quick PROVE OneWaits' /\ \A j \in Kind : Spaced(j)'
    BY <1>10 DEF ApartInv, Quick, alertVars
  <2>1. \A s \in Slot : ~Waits(s)'
    BY <1>10, NobodyWaits DEF Passes, Waits, alertVars
  <2>2. QED
    BY <1>10, <2>1 DEF ApartInv, OneWaits, Spaced, alertVars
<1>11. ASSUME AlertNext, now' = now PROVE ApartInv'
  BY <1>4, <1>5, <1>6, <1>7, <1>8, <1>9, <1>11 DEF AlertNext
<1>12. QED
  BY <1>1, <1>10, <1>11, AlertsNext DEF alertVars

(* "One fire per 10 minutes" (server/ws/alerts.ts): two webhooks of one    *)
(* kind are posted at least a cooldown apart, if no read is slow and the   *)
(* backend does not restart.                                               *)
THEOREM OneFirePerCooldown == Spec => []FiresApart
<1>1. Init => ApartInv
  BY DEF Init, AlertInit, ApartInv, OneWaits, Spaced, Waits
<1>2. ApartInv => FiresApart
  BY DEF ApartInv, Quick, Spaced, FiresApart
<1>3. QED
  BY <1>1, <1>2, ApartNext, TypesInvariant, PTL DEF Spec


-----------------------------------------------------------------------------
(* The history tells the state.  Inductive: while only the webhook chain   *)
(* may be slow, at most one history chain waits; the parity of the rows is *)
(* the state, or its opposite while the row of a change is being written;  *)
(* and a cached threshold that was fetched after the last change, like a   *)
(* sample judged long enough after it, goes by the threshold in force.     *)

Busy(s) == handling[s] # Idle /\ handling[s].record # "done"
Inserts(s) == Busy(s) /\ handling[s].record = "insert" /\ handling[s].kind = HighCpu

Prompt == env \subseteq {"slowFire"}

Odd == Len(alert_events) % 2 = 1

OneBusy == \A s, t \in Slot : Busy(s) /\ Busy(t) => s = t

Chain(s) ==
    Busy(s) =>
        /\ handling[s].record \in {"read", "judge"} => handling[s].kind = HighCpu
        /\ handling[s].record = "judge" => handling[s].threshold = config.threshold
        /\ Inserts(s) =>
               /\ Odd <=> ~highCpuActive
               /\ handling[s].status = IF highCpuActive THEN "fired" ELSE "resolved"

Rest == (\A s \in Slot : ~Inserts(s)) => (Odd <=> highCpuActive)

Chains == OneBusy /\ Rest /\ \A s \in Slot : Chain(s)

Alternates ==
    \A i \in 1..Len(alert_events) : alert_events[i] = IF i % 2 = 1 THEN "fired" ELSE "resolved"

Fresh ==
    /\ thresholdCache.fetchedAt <= now /\ sampled.at <= now
    /\ thresholdCache.fetchedAt > configuredAt => thresholdCache.threshold = config.threshold
    /\ sampled.at - configuredAt >= THRESHOLD_CACHE_MS =>
           (highCpuActive <=> sampled.cpu >= config.threshold)

TellInv == Prompt => Chains /\ Alternates /\ Fresh

LEMMA NobodyBusy ==
    ASSUME Prompt, Settled
    PROVE  \A s \in Slot : ~Busy(s)
BY DEF Prompt, Settled, Busy

LEMMA BusyStep ==
    ASSUME NEW s \in Slot, NEW h \in Handling, Becomes(s, h)
    PROVE  /\ Busy(s)' <=> h.record # "done"
           /\ Busy(s)' => /\ handling'[s].record = h.record /\ handling'[s].kind = h.kind
                          /\ handling'[s].threshold = h.threshold /\ handling'[s].status = h.status
           /\ Inserts(s)' <=> h.record = "insert" /\ h.kind = HighCpu
           /\ \A t \in Slot : t # s =>
                  (Busy(t)' <=> Busy(t)) /\ (Inserts(t)' <=> Inserts(t)) /\ handling'[t] = handling[t]
<1>1. ASSUME Keeps(h, handling'[s])
      PROVE  handling'[s] # Idle /\ handling'[s].record = h.record /\ handling'[s].kind = h.kind
             /\ (h.record # "done" => handling'[s].threshold = h.threshold
                                      /\ handling'[s].status = h.status)
  BY <1>1, Messages DEF Keeps
<1>2. (handling'[s] = Idle /\ h.record = "done") \/ Keeps(h, handling'[s])
  BY DEF Becomes
<1>3. QED
  BY <1>1, <1>2 DEF Becomes, Busy, Inserts

(* A sample is judged, and no other message was busy.                      *)
LEMMA JudgedChains ==
    ASSUME Types, Chains, NEW s \in Slot, NEW h \in Handling, Becomes(s, h), h.kind = HighCpu,
           \A t \in Slot : t # s => ~Busy(t), ~Inserts(s),
           NEW threshold, JudgedBy(h, threshold), highCpuActive' = (h.cpu >= threshold),
           UNCHANGED <<config, alert_events>>
    PROVE  Chains'
<1>1. \A t \in Slot : t # s => ~Busy(t)'
  BY BusyStep
<1>2. Odd <=> highCpuActive
  BY DEF Chains, Rest, Inserts
<1>3. Odd' <=> Odd
  BY DEF Odd
<1>4. highCpuActive \in BOOLEAN /\ highCpuActive' \in BOOLEAN
  BY DEF Types, AlertTypeOK
<1>5. CASE (h.cpu >= threshold) # highCpuActive
  <2>1. h.record = "insert" /\ h.status = IF highCpuActive' THEN "fired" ELSE "resolved"
    BY <1>5 DEF JudgedBy
  <2>2. Inserts(s)' /\ handling'[s].record = "insert" /\ handling'[s].status = h.status
    BY <2>1, BusyStep
  <2>3. Odd' <=> ~highCpuActive'
    BY <1>2, <1>3, <1>4, <1>5
  <2>4. Chain(s)'
    BY <2>1, <2>2, <2>3 DEF Chain
  <2>5. QED
    BY <1>1, <2>2, <2>4 DEF Chains, OneBusy, Rest, Chain
<1>6. CASE ~((h.cpu >= threshold) # highCpuActive)
  <2>1. ~Busy(s)'
    BY <1>6, BusyStep DEF JudgedBy
  <2>2. Odd' <=> highCpuActive'
    BY <1>2, <1>3, <1>4, <1>6
  <2>3. QED
    BY <1>1, <2>1, <2>2 DEF Chains, OneBusy, Rest, Chain
<1>7. QED
  BY <1>5, <1>6

(* The history chain of no message moves.                                  *)
LEMMA ChainsStay ==
    ASSUME Chains, UNCHANGED <<config, highCpuActive, alert_events>>,
           \A t \in Slot :
               /\ Busy(t)' <=> Busy(t)
               /\ Busy(t) => /\ handling'[t].record = handling[t].record
                             /\ handling'[t].kind = handling[t].kind
                             /\ handling'[t].threshold = handling[t].threshold
                             /\ handling'[t].status = handling[t].status
    PROVE  Chains'
<1>1. \A t \in Slot : Inserts(t)' <=> Inserts(t)
  BY DEF Inserts
<1>2. OneBusy' /\ Rest'
  BY <1>1 DEF Chains, OneBusy, Rest, Odd
<1>3. ASSUME NEW t \in Slot PROVE Chain(t)'
  BY <1>1 DEF Chains, Chain, Odd
<1>4. QED
  BY <1>2, <1>3 DEF Chains

LEMMA Parity ==
    ASSUME NEW n \in Nat
    PROVE  (n + 1) % 2 = 1 <=> ~(n % 2 = 1)
OBVIOUS


LEMMA TellNext ==
    ASSUME Types, TellInv, [Next]_vars
    PROVE  TellInv'
<1>t. /\ now \in Nat /\ Len(alert_events) \in Nat /\ alert_events \in Seq({"fired", "resolved"})
      /\ thresholdCache.fetchedAt \in Nat /\ sampled.at \in Nat /\ configuredAt \in Nat
      /\ highCpuActive \in BOOLEAN /\ Crash # HighCpu
  <2>1. /\ now \in Moment /\ configuredAt \in Moment /\ highCpuActive \in BOOLEAN
        /\ thresholdCache.fetchedAt \in Time /\ sampled.at \in Time
        /\ alert_events \in Seq({"fired", "resolved"})
    BY DEF Types, AlertTypeOK
  <2>2. Len(alert_events) \in Nat
    BY <2>1
  <2>3. QED
    BY <2>1, <2>2, Times DEF Crash, HighCpu
<1>1. ASSUME UNCHANGED <<env, now, config, configuredAt, thresholdCache, highCpuActive, handling, sampled,
                         alert_events>>
      PROVE  TellInv'
  BY <1>1 DEF TellInv, Prompt, Chains, OneBusy, Rest, Chain, Busy, Inserts, Odd, Alternates, Fresh
(* A message arrives that is not judged yet.                               *)
<1>2. ASSUME NEW s \in Slot, NEW h \in Handling, Arrives(s), Becomes(s, h), h.record # "judge",
             h.record = "read" => h.kind = HighCpu, ~(h.record = "insert" /\ h.kind = HighCpu),
             UNCHANGED <<env, now, config, configuredAt, thresholdCache, highCpuActive, sampled, alert_events>>
      PROVE  TellInv'
  <2> SUFFICES ASSUME Prompt PROVE Chains' /\ Alternates' /\ Fresh'
    BY <1>2 DEF TellInv, Prompt
  <2>1. Chains /\ \A t \in Slot : ~Busy(t)
    BY <1>2, NobodyBusy DEF Arrives, TellInv
  <2>2. \A t \in Slot : Busy(t)' => t = s
    BY <1>2, <2>1, BusyStep
  <2>3. \A t \in Slot : ~Inserts(t)'
    BY <1>2, <2>1, BusyStep DEF Inserts
  <2>4. Busy(s)' => handling'[s].record = h.record /\ handling'[s].kind = h.kind
    BY <1>2, BusyStep
  <2>5. Odd <=> highCpuActive
    BY <2>1 DEF Chains, Rest, Inserts
  <2>6. Chains'
    BY <1>2, <2>2, <2>3, <2>4, <2>5 DEF Chains, OneBusy, Rest, Chain, Odd
  <2>7. QED
    BY <1>2, <2>6 DEF TellInv, Alternates, Fresh
<1>3. ASSUME NEW s \in Slot, Died(s), UNCHANGED now PROVE TellInv'
  <2>1. Arrives(s) /\ UNCHANGED <<env, config, configuredAt, thresholdCache, highCpuActive, sampled, alert_events>>
    BY <1>3 DEF Died, memory, settings
  <2>2. PICK h \in Handling : Becomes(s, h) /\ Arrived(h, Crash) /\ h.record = "insert"
    BY <1>3, DiedStep
  <2>3. QED
    BY <1>2, <1>3, <1>t, <2>1, <2>2 DEF Arrived
<1>4. ASSUME NEW s \in Slot, NEW cpu \in Level, StatsCold(s, cpu), UNCHANGED now PROVE TellInv'
  <2>1. Arrives(s) /\ UNCHANGED <<env, config, configuredAt, thresholdCache, highCpuActive, sampled, alert_events>>
    BY <1>4 DEF StatsCold, memory, settings
  <2>2. PICK h \in Handling : Becomes(s, h) /\ Arrived(h, HighCpu) /\ h.record = "read"
    BY <1>4, StatsColdStep
  <2>3. QED
    BY <1>2, <1>4, <2>1, <2>2 DEF Arrived
<1>5. ASSUME NEW s \in Slot, NEW cpu \in Level, StatsCached(s, cpu), UNCHANGED now PROVE TellInv'
  <2>1. /\ Arrives(s) /\ now - thresholdCache.fetchedAt < THRESHOLD_CACHE_MS
        /\ highCpuActive' = (cpu >= thresholdCache.threshold) /\ sampled' = [cpu |-> cpu, at |-> now]
        /\ UNCHANGED <<env, config, configuredAt, thresholdCache, alert_events>>
    BY <1>5 DEF StatsCached, settings
  <2> SUFFICES ASSUME Prompt PROVE Chains' /\ Alternates' /\ Fresh'
    BY <2>1 DEF TellInv, Prompt
  <2>2. PICK h \in Handling : /\ Becomes(s, h) /\ Arrived(h, HighCpu) /\ h.cpu = cpu
                              /\ JudgedBy(h, thresholdCache.threshold)
    BY <1>5, StatsCachedStep
  <2>3. \A t \in Slot : ~Busy(t)
    BY <2>1, NobodyBusy DEF Arrives
  <2>4. Chains'
    BY <2>1, <2>2, <2>3, JudgedChains DEF TellInv, Arrived, Inserts
  <2>5. Fresh'
    <3>1. Fresh /\ sampled'.at = now /\ sampled'.cpu = cpu
      BY <2>1 DEF TellInv
    <3>2. now - configuredAt >= THRESHOLD_CACHE_MS => thresholdCache.threshold = config.threshold
      BY <1>t, <2>1, <3>1, Times DEF Fresh
    <3>3. QED
      <4>1. /\ thresholdCache' = thresholdCache /\ config' = config /\ configuredAt' = configuredAt
            /\ now' = now /\ highCpuActive' = (cpu >= thresholdCache.threshold)
        BY <1>5, <2>1
      <4>2. thresholdCache'.fetchedAt <= now' /\ sampled'.at <= now'
        BY <1>t, <3>1, <4>1 DEF Fresh
      <4>3. thresholdCache'.fetchedAt > configuredAt' => thresholdCache'.threshold = config'.threshold
        BY <3>1, <4>1 DEF Fresh
      <4>4. sampled'.at - configuredAt' >= THRESHOLD_CACHE_MS =>
                (highCpuActive' <=> sampled'.cpu >= config'.threshold)
        BY <3>1, <3>2, <4>1
      <4>5. QED
        BY <4>2, <4>3, <4>4 DEF Fresh
  <2>6. QED
    BY <2>1, <2>4, <2>5 DEF TellInv, Alternates
<1>6. ASSUME NEW s \in Slot, ReadThreshold(s), UNCHANGED now PROVE TellInv'
  <2>1. UNCHANGED <<env, config, configuredAt, thresholdCache, highCpuActive, sampled, alert_events>>
    BY <1>6 DEF ReadThreshold, settings, memory, ghosts
  <2> SUFFICES ASSUME Prompt PROVE Chains' /\ Alternates' /\ Fresh'
    BY <2>1 DEF TellInv, Prompt
  <2>2. handling[s] \in Handling /\ handling[s].record = "read"
    BY <1>6, ReadThresholdStep
  <2>3. PICK h \in Handling : /\ Becomes(s, h) /\ Follows(h, handling[s])
                              /\ h.record = "judge" /\ h.threshold = config.threshold
    BY <1>6, ReadThresholdStep DEF Prompt
  <2>4. Busy(s) /\ ~Inserts(s) /\ handling[s].kind = HighCpu /\ Chains
    BY <2>2, Messages DEF TellInv, Chains, Chain, Busy, Inserts
  <2>5. \A t \in Slot : t # s => ~Busy(t)
    BY <2>4 DEF Chains, OneBusy
  <2>6. \A t \in Slot : ~Inserts(t)' /\ (Busy(t)' => t = s)
    BY <2>3, <2>5, BusyStep DEF Inserts
  <2>7. Odd <=> highCpuActive
    BY <2>4, <2>5 DEF Chains, Rest, Inserts
  <2>8. Busy(s)' => /\ handling'[s].record = "judge" /\ handling'[s].kind = HighCpu
                    /\ handling'[s].threshold = config.threshold
    BY <2>3, <2>4, BusyStep DEF Follows
  <2>9. Chains'
    BY <2>1, <2>6, <2>7, <2>8 DEF Chains, OneBusy, Rest, Chain, Odd
  <2>10. QED
    BY <1>6, <2>1, <2>9 DEF TellInv, Alternates, Fresh
<1>7. ASSUME NEW s \in Slot, Judge(s), UNCHANGED now PROVE TellInv'
  <2>1. /\ thresholdCache' = [threshold |-> handling[s].threshold, fetchedAt |-> now]
        /\ highCpuActive' = (handling[s].cpu >= handling[s].threshold)
        /\ sampled' = [cpu |-> handling[s].cpu, at |-> now]
        /\ UNCHANGED <<env, config, configuredAt, alert_events>>
    BY <1>7 DEF Judge, settings
  <2> SUFFICES ASSUME Prompt PROVE Chains' /\ Alternates' /\ Fresh'
    BY <2>1 DEF TellInv, Prompt
  <2>2. handling[s] \in Handling /\ handling[s].record = "judge"
    BY <1>7, JudgeStep
  <2>3. PICK h \in Handling : Becomes(s, h) /\ Follows(h, handling[s]) /\ JudgedBy(h, handling[s].threshold)
    BY <1>7, JudgeStep
  <2>4. Busy(s) /\ ~Inserts(s) /\ handling[s].kind = HighCpu /\ Chains
        /\ handling[s].threshold = config.threshold
    BY <2>2, Messages DEF TellInv, Chains, Chain, Busy, Inserts
  <2>5. \A t \in Slot : t # s => ~Busy(t)
    BY <2>4 DEF Chains, OneBusy
  <2>6. h.kind = HighCpu /\ highCpuActive' = (h.cpu >= handling[s].threshold)
    BY <2>1, <2>3, <2>4 DEF Follows
  <2>7. Chains'
    BY <2>1, <2>3, <2>4, <2>5, <2>6, JudgedChains
  <2>8. Fresh'
    <3>1. /\ thresholdCache'.threshold = config'.threshold /\ thresholdCache'.fetchedAt = now
          /\ sampled'.at = now /\ sampled'.cpu = handling[s].cpu
          /\ highCpuActive' = (handling[s].cpu >= config'.threshold) /\ now' = now /\ now <= now
      BY <1>7, <1>t, <2>1, <2>4
    <3>2. QED
      BY <3>1 DEF Fresh
  <2>9. QED
    BY <2>1, <2>7, <2>8 DEF TellInv, Alternates
<1>8. ASSUME NEW s \in Slot, Record(s), UNCHANGED now PROVE TellInv'
  <2>1. /\ UNCHANGED <<env, config, configuredAt, thresholdCache, highCpuActive, sampled>>
        /\ \/ alert_events' = IF handling[s].kind = HighCpu
                                THEN Append(alert_events, handling[s].status) ELSE alert_events
           \/ "writeFails" \in env
    BY <1>8 DEF Record, settings, memory, ghosts
  <2> SUFFICES ASSUME Prompt PROVE Chains' /\ Alternates' /\ Fresh'
    BY <2>1 DEF TellInv, Prompt
  <2>2. alert_events' = IF handling[s].kind = HighCpu
                          THEN Append(alert_events, handling[s].status) ELSE alert_events
    BY <2>1 DEF Prompt
  <2>3. handling[s] \in Handling /\ handling[s].record = "insert"
    BY <1>8, RecordStep
  <2>4. PICK h \in Handling : Becomes(s, h) /\ h.record = "done"
    BY <1>8, RecordStep
  <2>5. Busy(s) /\ Chains /\ Alternates /\ (Inserts(s) <=> handling[s].kind = HighCpu)
    BY <2>3, Messages DEF TellInv, Busy, Inserts
  <2>6. \A t \in Slot : ~Busy(t)'
    BY <2>4, <2>5, BusyStep DEF Chains, OneBusy
  <2>7. Fresh'
    BY <1>8, <2>1 DEF TellInv, Fresh
  <2>8. CASE handling[s].kind # HighCpu
    <3>1. Odd <=> highCpuActive
      BY <2>5, <2>8 DEF Chains, Rest, OneBusy, Inserts
    <3>2. Chains' /\ Alternates'
      BY <2>1, <2>2, <2>5, <2>6, <2>8, <3>1 DEF Chains, OneBusy, Rest, Chain, Odd, Inserts, Alternates
    <3>3. QED
      BY <2>7, <3>2
  <2>9. CASE handling[s].kind = HighCpu
    <3>1. (Odd <=> ~highCpuActive) /\ handling[s].status = IF highCpuActive THEN "fired" ELSE "resolved"
      BY <2>5, <2>9 DEF Chains, Chain
    <3>2. /\ Len(alert_events') = Len(alert_events) + 1
          /\ \A i \in 1..Len(alert_events) : alert_events'[i] = alert_events[i]
          /\ alert_events'[Len(alert_events) + 1] = handling[s].status
      BY <1>t, <2>2, <2>9
    <3>3. Odd' <=> highCpuActive
      BY <1>t, <3>1, <3>2, Parity DEF Odd
    <3>4. Chains'
      BY <2>1, <2>6, <3>3 DEF Chains, OneBusy, Rest, Chain, Inserts
    <3>5. Alternates'
      <4>1. ASSUME NEW i \in 1..Len(alert_events)
            PROVE  alert_events'[i] = IF i % 2 = 1 THEN "fired" ELSE "resolved"
        BY <2>5, <3>2 DEF Alternates
      <4>2. alert_events'[Len(alert_events) + 1] =
                IF (Len(alert_events) + 1) % 2 = 1 THEN "fired" ELSE "resolved"
        BY <3>1, <3>2, <3>3, <1>t DEF Odd
      <4>3. \A i \in 1..Len(alert_events') : i \in 1..Len(alert_events) \/ i = Len(alert_events) + 1
        BY <1>t, <3>2
      <4>4. QED
        BY <4>1, <4>2, <4>3 DEF Alternates
    <3>6. QED
      BY <2>7, <3>4, <3>5
  <2>10. QED
    BY <2>8, <2>9
<1>9. ASSUME NEW s \in Slot, ReadConfig(s) \/ Fire(s), UNCHANGED now PROVE TellInv'
  <2>1. UNCHANGED <<env, config, configuredAt, thresholdCache, highCpuActive, sampled, alert_events>>
    BY <1>9 DEF ReadConfig, Fire, settings, memory, ghosts
  <2>2. PICK h \in Handling : /\ Becomes(s, h) /\ Follows(h, handling[s]) /\ handling[s] \in Handling
                              /\ h.record = handling[s].record /\ h.status = handling[s].status
                              /\ h.threshold = handling[s].threshold
    BY <1>9, ReadConfigStep, FireStep
  <2>3. ASSUME NEW t \in Slot
        PROVE  /\ Busy(t)' <=> Busy(t)
               /\ Busy(t) => /\ handling'[t].record = handling[t].record
                             /\ handling'[t].kind = handling[t].kind
                             /\ handling'[t].threshold = handling[t].threshold
                             /\ handling'[t].status = handling[t].status
    <3>1. CASE t # s
      BY <2>2, <3>1, BusyStep
    <3>2. CASE t = s
      <4>1. Busy(s) <=> h.record # "done"
        BY <2>2, Messages DEF Busy
      <4>2. QED
        BY <2>2, <3>2, <4>1, BusyStep DEF Follows
    <3>3. QED
      BY <3>1, <3>2
  <2>4. Chains => Chains'
    BY <2>1, <2>3, ChainsStay
  <2>5. QED
    BY <1>9, <2>1, <2>4 DEF TellInv, Prompt, Alternates, Fresh
<1>10. ASSUME NEW c \in Config, Configure(c), UNCHANGED now PROVE TellInv'
  <2>1. /\ config' = c /\ configuredAt' = (IF c.threshold = config.threshold THEN configuredAt ELSE now)
        /\ Settled
        /\ UNCHANGED <<env, thresholdCache, highCpuActive, handling, sampled, alert_events>>
    BY <1>10 DEF Configure, memory, ghosts
  <2> SUFFICES ASSUME Prompt PROVE Chains' /\ Alternates' /\ Fresh'
    BY <2>1 DEF TellInv, Prompt
  <2>2. \A t \in Slot : ~Busy(t)'
    BY <2>1, NobodyBusy DEF Busy
  <2>3. Chains'
    BY <2>1, <2>2 DEF TellInv, Chains, OneBusy, Rest, Chain, Odd, Inserts, Busy
  <2>4. Fresh'
    BY <1>10, <1>t, <2>1, Times DEF TellInv, Fresh
  <2>5. QED
    BY <2>1, <2>3, <2>4 DEF TellInv, Alternates
<1>11. ASSUME Restart PROVE TellInv'
  BY <1>11 DEF Restart, TellInv, Prompt
<1>12. ASSUME Passes, UNCHANGED alertVars PROVE TellInv'
  <2>1. Settled /\ now' = now + 1
    BY <1>12 DEF Passes, Tick
  <2> SUFFICES ASSUME Prompt PROVE Chains' /\ Alternates' /\ Fresh'
    BY <1>12 DEF TellInv, Prompt, alertVars
  <2>2. Chains'
    BY <1>12 DEF alertVars, TellInv, Chains, OneBusy, Rest, Chain, Odd, Inserts, Busy
  <2>3. Fresh'
    BY <1>12, <1>t, <2>1 DEF alertVars, TellInv, Fresh
  <2>4. QED
    BY <1>12, <2>2, <2>3 DEF alertVars, TellInv, Alternates
<1>13. ASSUME AlertNext, now' = now PROVE TellInv'
  BY <1>3, <1>4, <1>5, <1>6, <1>7, <1>8, <1>9, <1>10, <1>11, <1>13 DEF AlertNext
<1>14. QED
  BY <1>1, <1>12, <1>13, AlertsNext DEF alertVars

(* What the Alerts page shows (server/ws/alerts.ts): the rows alternate,   *)
(* and the last one is "fired" exactly if the last sample reached a        *)
(* threshold that has been in force for as long as one is cached; if each  *)
(* sample is judged and recorded before the next and no call fails.        *)
THEOREM PageTellsState == Spec => []HistoryTells
<1>1. Init => TellInv
  <2> SUFFICES ASSUME Init PROVE Chains /\ Alternates /\ Fresh
    BY DEF TellInv
  <2>1. /\ alert_events = <<>> /\ highCpuActive = FALSE /\ now = Start /\ configuredAt = Start
        /\ thresholdCache.fetchedAt = 0 /\ sampled.at = 0 /\ \A s \in Slot : handling[s] = Idle
    BY DEF Init, AlertInit, NotCached, Nothing
  <2>2. ~Odd /\ Alternates
    BY <2>1 DEF Odd, Alternates
  <2>3. Fresh
    BY <2>1, Times DEF Fresh
  <2>4. Chains
    BY <2>1, <2>2 DEF Chains, OneBusy, Rest, Chain, Busy, Inserts
  <2>5. QED
    BY <2>2, <2>3, <2>4
<1>2. TellInv /\ Types => HistoryTells
  <2> SUFFICES ASSUME TellInv, Prompt
               PROVE  /\ Alternates
                      /\ (\A s \in Slot : handling[s] = Idle \/ handling[s].record = "done")
                           /\ sampled.at - configuredAt >= THRESHOLD_CACHE_MS
                           => (Odd <=> sampled.cpu >= config.threshold)
    BY DEF HistoryTells, Prompt, Alternates, Odd
  <2>1. ASSUME \A s \in Slot : handling[s] = Idle \/ handling[s].record = "done"
        PROVE  Odd <=> highCpuActive
    BY <2>1 DEF TellInv, Chains, Rest, Inserts, Busy
  <2>2. QED
    BY <2>1 DEF TellInv, Fresh
<1>3. QED
  BY <1>1, <1>2, TellNext, TypesInvariant, PTL DEF Spec

-----------------------------------------------------------------------------
(* Induction over the naturals, and what a fold adds up.                   *)

LEMMA NatByStep ==
    ASSUME NEW T, 0 \in T, \A n \in Nat : n \in T => n + 1 \in T
    PROVE  Nat \subseteq T
<1> DEFINE R == OpToRel(<, Nat)  Missing == Nat \ T
<1>1. IsWellFoundedOn(R, Nat)
  BY NatLessThanWellFounded
<1>2. SUFFICES ASSUME Missing # {} PROVE FALSE
  OBVIOUS
<1>3. PICK x \in Missing : \A y \in Missing : ~(<<y, x>> \in R)
  <2>1. Missing \subseteq Nat
    OBVIOUS
  <2> HIDE DEF Missing, R
  <2>2. QED
    BY <1>1, <1>2, <2>1, WFMin
<1>4. x \in Nat \ {0} /\ x - 1 \in Nat /\ x - 1 < x /\ (x - 1) + 1 = x
  OBVIOUS
<1>5. <<x - 1, x>> \in R
  BY <1>4 DEF OpToRel
<1>6. x - 1 \in T
  BY <1>3, <1>4, <1>5
<1>7. QED
  BY <1>3, <1>4, <1>6

LEMMA MaxInSet ==
    ASSUME NEW m \in Nat, NEW s \in SUBSET (0..m), s # {}
    PROVE  Max(s) \in s /\ \A y \in s : Max(s) >= y
<1> DEFINE T == {k \in Nat : \A u \in SUBSET (0..k) : u # {} => \E x \in u : \A y \in u : x >= y}
<1>1. 0 \in T
  <2> SUFFICES ASSUME NEW u \in SUBSET (0..0), u # {} PROVE \E x \in u : \A y \in u : x >= y
    OBVIOUS
  <2>1. \A y \in u : y = 0
    OBVIOUS
  <2>2. PICK x \in u : x = 0
    BY <2>1
  <2>3. QED
    BY <2>1, <2>2
<1>2. ASSUME NEW k \in Nat, k \in T PROVE k + 1 \in T
  <2> SUFFICES ASSUME NEW u \in SUBSET (0..(k + 1)), u # {} PROVE \E x \in u : \A y \in u : x >= y
    OBVIOUS
  <2>1. CASE k + 1 \in u
    BY <2>1
  <2>2. CASE k + 1 \notin u
    <3>1. u \in SUBSET (0..k)
      BY <2>2
    <3>2. QED
      BY <1>2, <3>1
  <2>3. QED
    BY <2>1, <2>2
<1>3. m \in T
  <2> HIDE DEF T
  <2>1. QED
    BY <1>1, <1>2, NatByStep
<1>4. \E x \in s : \A y \in s : x >= y
  BY <1>3
<1>5. QED
  BY <1>4 DEF Max

(* The loop over a sequence q of events, from base: its result, and what it *)
(* holds after each event.                                                 *)
Looped(base, q) == FoldLeft(AddUp, base, q)
AreStages(at, base, q, n) ==
    /\ at[0] = base
    /\ \A k \in 1..n : at[k] = AddUp(at[k - 1], q[k])
    /\ Looped(base, q) = at[n]
Stages(base, q, n) == CHOOSE at : AreStages(at, base, q, n)

LEMMA LoopOverEvents ==
    ASSUME NEW B, NEW base \in B, NEW E, NEW n \in Nat, NEW q \in [1..n -> E]
    PROVE  AreStages(Stages(base, q, n), base, q, n)
<1> DEFINE Body(it, s) == IF s = {} THEN base ELSE AddUp(it[s \ {Max(s)}], q[Max(s)])
           Is(it, m) == it = [s \in SUBSET (1..m) |-> Body(it, s)]
           T == {m \in Nat : \E it : Is(it, m)}
<1>1. 0 \in T
  <2> DEFINE it == [s \in SUBSET (1..0) |-> base]
  <2>1. \A s \in SUBSET (1..0) : s = {}
    OBVIOUS
  <2>2. Is(it, 0)
    BY <2>1
  <2>3. QED
    BY <2>2
<1>2. ASSUME NEW m \in Nat, m \in T PROVE m + 1 \in T
  <2>1. PICK it : Is(it, m)
    BY <1>2
  <2> DEFINE jt == [s \in SUBSET (1..m + 1) |->
                       IF m + 1 \in s THEN AddUp(it[s \ {m + 1}], q[m + 1]) ELSE it[s]]
  <2>2. ASSUME NEW s \in SUBSET (1..m) PROVE s \in SUBSET (1..m + 1) /\ jt[s] = it[s] /\ it[s] = Body(it, s)
    <3>1. s \in SUBSET (1..m + 1) /\ m + 1 \notin s
      OBVIOUS
    <3>2. QED
      BY <2>1, <3>1
  <2>3. ASSUME NEW s \in SUBSET (1..m + 1) PROVE jt[s] = Body(jt, s)
    <3>1. CASE m + 1 \in s
      <4>1. s \in SUBSET (0..m + 1) /\ m + 1 \in Nat
        OBVIOUS
      <4>2. Max(s) \in s /\ Max(s) >= m + 1
        BY <3>1, <4>1, MaxInSet
      <4>3. Max(s) = m + 1
        <5>1. Max(s) \in 1..m + 1
          BY <4>2
        <5> HIDE DEF jt
        <5>2. QED
          BY <4>2, <5>1
      <4>4. s \ {m + 1} \in SUBSET (1..m)
        OBVIOUS
      <4>5. jt[s \ {m + 1}] = it[s \ {m + 1}]
        BY <2>2, <4>4
      <4>6. jt[s] = AddUp(it[s \ {m + 1}], q[m + 1])
        BY <3>1
      <4> HIDE DEF jt
      <4>7. QED
        BY <3>1, <4>3, <4>5, <4>6
    <3>2. CASE m + 1 \notin s
      <4>1. s \in SUBSET (1..m) /\ s \in SUBSET (0..m)
        BY <3>2
      <4>2. jt[s] = it[s] /\ it[s] = Body(it, s)
        BY <2>2, <4>1
      <4>3. CASE s = {}
        BY <4>2, <4>3
      <4>4. CASE s # {}
        <5>1. Max(s) \in s
          BY <4>1, <4>4, MaxInSet
        <5>2. s \ {Max(s)} \in SUBSET (1..m)
          BY <4>1
        <5>3. jt[s \ {Max(s)}] = it[s \ {Max(s)}]
          BY <2>2, <5>2
        <5> HIDE DEF jt
        <5>4. QED
          BY <4>2, <4>4, <5>3
      <4>5. QED
        BY <4>3, <4>4
    <3>3. QED
      BY <3>1, <3>2
  <2>4. Is(jt, m + 1)
    <3>1. jt = [s \in SUBSET (1..m + 1) |-> jt[s]]
      OBVIOUS
    <3> HIDE DEF jt, Body
    <3>2. QED
      BY <2>3, <3>1
  <2>5. m + 1 \in Nat
    OBVIOUS
  <2> HIDE DEF Is
  <2>6. QED
    BY <2>4, <2>5
<1>3. n \in T
  <2> HIDE DEF T
  <2>1. QED
    BY <1>1, <1>2, NatByStep
<1> DEFINE iter == CHOOSE it : it = [s \in SUBSET (1..n) |-> Body(it, s)]
<1>4. iter = [s \in SUBSET (1..n) |-> Body(iter, s)]
  <2> HIDE DEF Body
  <2>1. QED
    BY <1>3
<1>5. Looped(base, q) = iter[1..n]
  <2>1. DOMAIN q = 1..n
    OBVIOUS
  <2>2. QED
    BY <2>1 DEF Looped, FoldLeft, MapThenFoldSet
<1> DEFINE at == [k \in 0..n |-> iter[1..k]]
<1>6. at[0] = base
  <2>1. 1..0 = {} /\ {} \in SUBSET (1..n) /\ 0 \in 0..n
    OBVIOUS
  <2>2. iter[{}] = Body(iter, {})
    BY <1>4, <2>1
  <2> HIDE DEF iter
  <2>3. QED
    BY <2>1, <2>2
<1>7. ASSUME NEW k \in 1..n PROVE at[k] = AddUp(at[k - 1], q[k])
  <2>1. 1..k \in SUBSET (1..n) /\ 1..k \in SUBSET (0..n) /\ k \in 1..k /\ (1..k) \ {k} = 1..k - 1
    OBVIOUS
  <2>2. Max(1..k) \in 1..k /\ Max(1..k) >= k
    BY <2>1, MaxInSet
  <2>3. Max(1..k) = k
    BY <2>2
  <2>4. iter[1..k] = Body(iter, 1..k)
    BY <1>4, <2>1
  <2> HIDE DEF iter
  <2>5. iter[1..k] = AddUp(iter[1..k - 1], q[k])
    BY <2>1, <2>3, <2>4
  <2>6. k \in 0..n /\ k - 1 \in 0..n
    OBVIOUS
  <2>7. QED
    BY <2>5, <2>6
<1>8. at[n] = iter[1..n]
  OBVIOUS
<1> HIDE DEF at, iter
<1>9. AreStages(at, base, q, n)
  BY <1>5, <1>6, <1>7, <1>8 DEF AreStages
<1>10. QED
  BY <1>9 DEF Stages

-----------------------------------------------------------------------------
(* The uptime: what the status events say of the past.                     *)

Steady == happen \cap {"eventLost", "overlap"} = {}
Kept == "sweep" \notin happen

(* Event i is the last one up to moment t, or there is none up to t.       *)
LastUpTo(i, t) ==
    /\ i > 0 => events[i].ts <= t
    /\ \A j \in DOMAIN events : j > i => t < events[j].ts

UptimeTypes == UptimeTypeOK /\ online \subseteq Start..now - 1

InOrder ==
    /\ \A i \in DOMAIN events : events[i].ts <= now
    /\ \A i, j \in DOMAIN events : i <= j => events[i].ts <= events[j].ts

(* The last event tells whether there is a connection, each earlier one    *)
(* whether there was up to the next; and without a sweep the first of them *)
(* is the first connection.                                                *)
Tells ==
    /\ sockets \in {0, 1}
    /\ events # <<>> => (sockets = 1 <=> events[Len(events)].connected)
    /\ \A i \in DOMAIN events : \A t \in Start..now - 1 :
          LastUpTo(i, t) => (t \in online <=> events[i].connected)
    /\ sockets = 1 \/ events # <<>> => first # 0
    /\ first <= now /\ \A i \in DOMAIN events : first <= events[i].ts
    /\ Kept => IF events = <<>> THEN sockets = 0 /\ first = 0 ELSE first = events[1].ts

UptimeInv == UptimeTypes /\ InOrder /\ (Steady => Tells)

LEMMA EventsLen ==
    ASSUME UptimeTypeOK
    PROVE  /\ Len(events) \in Nat /\ DOMAIN events = 1..Len(events)
           /\ events = <<>> <=> Len(events) = 0
           /\ \A i \in DOMAIN events : /\ events[i] \in [ts : Moment, connected : BOOLEAN]
                                      /\ events[i].ts \in Moment /\ events[i].connected \in BOOLEAN
<1>1. events \in Seq([ts : Moment, connected : BOOLEAN])
  BY DEF UptimeTypeOK
<1>2. Len(events) \in Nat /\ DOMAIN events = 1..Len(events)
  BY <1>1, LenProperties
<1>3. events = <<>> <=> Len(events) = 0
  BY <1>1, EmptySeq
<1>4. ASSUME NEW i \in DOMAIN events
      PROVE  /\ events[i] \in [ts : Moment, connected : BOOLEAN]
             /\ events[i].ts \in Moment /\ events[i].connected \in BOOLEAN
  <2>1. events[i] \in [ts : Moment, connected : BOOLEAN]
    BY <1>1, <1>2, <1>4, ElementOfSeq
  <2>2. QED
    BY <2>1
<1>5. QED
  BY <1>2, <1>3, <1>4

(* A row is inserted.                                                      *)
LEMMA InsertedEvent ==
    ASSUME UptimeTypeOK, now \in Moment, NEW connected \in BOOLEAN,
           events' = Append(events, [ts |-> now, connected |-> connected])
    PROVE  /\ events' \in Seq([ts : Moment, connected : BOOLEAN])
           /\ Len(events') = Len(events) + 1 /\ events' # <<>>
           /\ DOMAIN events' = 1..Len(events) + 1
           /\ events'[Len(events) + 1] = [ts |-> now, connected |-> connected]
           /\ \A i \in DOMAIN events : i \in DOMAIN events' /\ events'[i] = events[i]
<1>1. [ts |-> now, connected |-> connected] \in [ts : Moment, connected : BOOLEAN]
  OBVIOUS
<1>2. QED
  BY <1>1, AppendProperties, EventsLen DEF UptimeTypeOK

LEMMA OlderRange ==
    ASSUME UptimeTypeOK, NEW ts \in Int
    PROVE  /\ Older(ts) \in 0..Len(events)
           /\ Older(ts) > 0 => events[Older(ts)].ts < ts
           /\ \A i \in DOMAIN events : i > Older(ts) => events[i].ts >= ts
<1> DEFINE s == {0} \cup {i \in DOMAIN events : events[i].ts < ts}
<1>1. Len(events) \in Nat /\ s \in SUBSET (0..Len(events)) /\ s # {}
  BY EventsLen
<1>2. Max(s) \in s /\ \A y \in s : Max(s) >= y
  <2> HIDE DEF s
  <2>1. QED
    BY <1>1, MaxInSet
<1>3. Older(ts) = Max(s)
  BY DEF Older
<1>4. \A i \in DOMAIN events : events[i].ts \in Int /\ i \in Nat
  <2> SUFFICES ASSUME NEW i \in DOMAIN events PROVE events[i].ts \in Int /\ i \in Nat
    OBVIOUS
  <2>1. events[i].ts \in Moment /\ i \in 1..Len(events) /\ Len(events) \in Nat
    BY EventsLen
  <2>2. \A x \in Moment : x \in Int
    BY Times
  <2>3. events[i].ts \in Int
    BY <2>1, <2>2, Zenon
  <2>4. QED
    BY <2>1, <2>3
<1>5. ASSUME NEW i \in DOMAIN events, i > Older(ts) PROVE events[i].ts >= ts
  <2>1. i \notin s
    <3>1. Max(s) \in Nat
      BY <1>1, <1>2
    <3> HIDE DEF s
    <3>2. QED
      BY <1>2, <1>3, <1>4, <1>5, <3>1
  <2>2. QED
    BY <1>4, <1>5, <2>1
<1>6. Older(ts) \in 0..Len(events)
  <2> HIDE DEF s
  <2>1. QED
    BY <1>1, <1>2, <1>3
<1>7. Older(ts) > 0 => events[Older(ts)].ts < ts
  BY <1>2, <1>3, <1>6
<1>8. QED
  BY <1>5, <1>6, <1>7

(* The rows after the first ones.                                          *)
LEMMA EventsAfter ==
    ASSUME UptimeTypeOK, NEW o \in 0..Len(events)
    PROVE  LET rest == SubSeq(events, o + 1, Len(events))
           IN  /\ rest \in Seq([ts : Moment, connected : BOOLEAN])
               /\ Len(rest) = Len(events) - o /\ Len(rest) \in Nat
               /\ DOMAIN rest = 1..Len(events) - o
               /\ \A i \in DOMAIN rest : i + o \in DOMAIN events /\ rest[i] = events[i + o]
<1> DEFINE rest == SubSeq(events, o + 1, Len(events))
<1>1. Len(events) \in Nat /\ o + 1 \in Int /\ Len(events) \in Int /\ DOMAIN events = 1..Len(events)
  BY EventsLen
<1>2. \A i \in o + 1..Len(events) : events[i] \in [ts : Moment, connected : BOOLEAN]
  BY <1>1, EventsLen
<1>3. /\ rest \in Seq([ts : Moment, connected : BOOLEAN])
      /\ Len(rest) = IF o + 1 <= Len(events) THEN Len(events) - (o + 1) + 1 ELSE 0
      /\ \A i \in 1..Len(events) - (o + 1) + 1 : rest[i] = events[(o + 1) + i - 1]
  BY <1>1, <1>2, SubSeqProperties
<1>4. Len(rest) = Len(events) - o /\ Len(rest) \in Nat /\ DOMAIN rest = 1..Len(events) - o
  <2> DEFINE l == Len(events)  k == Len(rest)
  <2>1. k = l - o
    <3>1. l \in Nat /\ o \in 0..l /\ k = IF o + 1 <= l THEN l - (o + 1) + 1 ELSE 0
      BY <1>1, <1>3
    <3> HIDE DEF l, k
    <3>2. QED
      BY <3>1
  <2> HIDE DEF rest
  <2>2. Len(rest) \in Nat /\ DOMAIN rest = 1..Len(rest)
    BY <1>3, LenProperties
  <2>3. QED
    BY <2>1, <2>2
<1>5. ASSUME NEW i \in 1..Len(events) - o
      PROVE  i + o \in DOMAIN events /\ rest[i] = events[i + o]
  <2>1. i \in 1..Len(events) - (o + 1) + 1 /\ (o + 1) + i - 1 = i + o /\ i + o \in 1..Len(events)
    BY <1>1
  <2>2. QED
    BY <1>1, <1>3, <2>1
<1> HIDE DEF rest
<1>6. QED
  BY <1>3, <1>4, <1>5 DEF rest

LEMMA UptimeInitially == Init => UptimeInv
<1> SUFFICES ASSUME Init PROVE UptimeInv
  OBVIOUS
<1>1. sockets = 0 /\ changes = 0 /\ events = <<>> /\ first = 0 /\ online = {} /\ now = Start
  BY DEF Init, UptimeInit
<1>2. Start \in Nat /\ 0 \in 0..2 /\ 0 \in 0..MaxEvents /\ DOMAIN events = {}
  BY <1>1, Times, UptimeAssumption
<1>3. events \in Seq([ts : Moment, connected : BOOLEAN])
  BY <1>1, EmptySeq
<1>4. UptimeTypes
  BY <1>1, <1>2, <1>3 DEF UptimeTypes, UptimeTypeOK
<1>5. InOrder
  BY <1>2 DEF InOrder
<1>6. Tells
  BY <1>1, <1>2 DEF Tells
<1>7. QED
  BY <1>4, <1>5, <1>6 DEF UptimeInv

(* A connection is made or ends: what the events say of the past stays.    *)
LEMMA InsertStep ==
    ASSUME UptimeInv, now \in Moment, NEW connected \in BOOLEAN,
           events' = Append(events, [ts |-> now, connected |-> connected]),
           UNCHANGED <<now, online, happen>>
    PROVE  /\ InOrder'
           /\ Steady => \A i \in DOMAIN events' : \A t \in Start..now' - 1 :
                 LastUpTo(i, t)' => (t \in online' <=> events'[i].connected)
           /\ events' # <<>> /\ events'[Len(events')].connected = connected
           /\ events'[1] = IF events = <<>> THEN [ts |-> now, connected |-> connected] ELSE events[1]
           /\ \A i \in DOMAIN events' : (i \in DOMAIN events /\ events'[i].ts = events[i].ts)
                                           \/ events'[i].ts = now
<1> DEFINE n == Len(events)  row == [ts |-> now, connected |-> connected]
<1>1. UptimeTypeOK /\ InOrder /\ now \in Nat /\ row.ts = now /\ row.connected = connected
  BY Times DEF UptimeInv, UptimeTypes
<1>2. /\ Len(events') = n + 1 /\ events' # <<>> /\ DOMAIN events' = 1..n + 1
      /\ events'[n + 1] = row /\ \A i \in 1..n : events'[i] = events[i]
      /\ n \in Nat /\ DOMAIN events = 1..n /\ (events = <<>> <=> n = 0)
  BY <1>1, InsertedEvent, EventsLen
<1>3. \A i \in DOMAIN events' : (i \in DOMAIN events /\ events'[i] = events[i]) \/ i = n + 1
  BY <1>2
<1> HIDE DEF row, n
<1>4. \A i \in DOMAIN events : events[i].ts \in Nat /\ events[i].ts <= now
  BY <1>1, EventsLen, Times DEF InOrder
<1>5. InOrder'
  <2>1. \A i \in DOMAIN events' : events'[i].ts <= now'
    BY <1>1, <1>2, <1>3, <1>4
  <2>2. ASSUME NEW i \in DOMAIN events', NEW j \in DOMAIN events', i <= j
        PROVE  events'[i].ts <= events'[j].ts
    <3>1. CASE j = n + 1
      BY <1>1, <1>2, <2>1, <3>1
    <3>2. CASE j # n + 1
      <4>1. i \in DOMAIN events /\ j \in DOMAIN events
        BY <1>2, <2>2, <3>2
      <4>2. events'[i] = events[i] /\ events'[j] = events[j]
        BY <1>2, <4>1
      <4>3. QED
        BY <1>1, <2>2, <4>1, <4>2 DEF InOrder
    <3>3. QED
      BY <3>1, <3>2
  <2>3. QED
    BY <2>1, <2>2 DEF InOrder
<1>6. ASSUME Steady, NEW i \in DOMAIN events', NEW t \in Start..now' - 1, LastUpTo(i, t)'
      PROVE  t \in online' <=> events'[i].connected
  <2>1. t < now /\ t \in Start..now - 1 /\ t \in Int
    BY <1>1, Times
  <2>2. i # n + 1
    <3>1. i > 0 /\ events'[i].ts <= t
      BY <1>2, <1>6 DEF LastUpTo
    <3>2. QED
      BY <1>1, <1>2, <2>1, <3>1
  <2>3. i \in DOMAIN events /\ events'[i] = events[i]
    BY <1>3, <2>2
  <2>4. LastUpTo(i, t)
    <3>1. \A j \in DOMAIN events : j \in DOMAIN events' /\ events'[j] = events[j]
      BY <1>2
    <3>2. QED
      BY <1>6, <2>3, <3>1 DEF LastUpTo
  <2>5. QED
    BY <1>6, <2>1, <2>3, <2>4 DEF UptimeInv, Tells
<1>7. events'[1] = IF events = <<>> THEN row ELSE events[1]
  BY <1>2
<1>8. QED
  BY <1>1, <1>2, <1>3, <1>5, <1>6, <1>7 DEF row

(* What is kept by a sweep tells as before.                                *)
LEMMA SweepStep ==
    ASSUME UptimeInv, now \in Moment, NEW retentionDays \in Retentions, Sweep(retentionDays),
           UNCHANGED now
    PROVE  UptimeInv'
<1> DEFINE o == Older(now - retentionDays)  n == Len(events)
<1>1. UptimeTypeOK /\ InOrder /\ now \in Nat /\ retentionDays \in Nat /\ now - retentionDays \in Int
  BY Times, UptimeAssumption DEF UptimeInv, UptimeTypes
<1>2. n \in Nat /\ o \in 0..n /\ DOMAIN events = 1..n
  BY <1>1, EventsLen, OlderRange
<1>3. events' = SubSeq(events, o + 1, n)
  BY DEF Sweep
<1> HIDE DEF o
<1>4. /\ events' \in Seq([ts : Moment, connected : BOOLEAN])
      /\ Len(events') = n - o /\ DOMAIN events' = 1..n - o
      /\ \A i \in DOMAIN events' : i + o \in DOMAIN events /\ events'[i] = events[i + o]
  BY <1>1, <1>2, <1>3, EventsAfter
<1>5. UNCHANGED <<happen, sockets, changes, first, online>> /\ "sweep" \in happen
  BY DEF Sweep
<1> HIDE DEF n
<1>6. UptimeTypes'
  BY <1>4, <1>5 DEF UptimeInv, UptimeTypes, UptimeTypeOK
<1>7. InOrder'
  <2>1. ASSUME NEW i \in DOMAIN events', NEW j \in DOMAIN events', i <= j
        PROVE  events'[i].ts <= events'[j].ts
    <3>1. i + o \in DOMAIN events /\ j + o \in DOMAIN events /\ i + o <= j + o
      BY <1>2, <1>4, <2>1
    <3>2. events'[i] = events[i + o] /\ events'[j] = events[j + o]
      BY <1>4
    <3>3. QED
      BY <1>1, <3>1, <3>2 DEF InOrder
  <2>2. \A i \in DOMAIN events' : events'[i].ts <= now'
    BY <1>1, <1>4 DEF InOrder
  <2>3. QED
    BY <2>1, <2>2 DEF InOrder
<1>8. ASSUME Steady, Tells PROVE Tells'
  <2>1. events' # <<>> => events # <<>> /\ events'[Len(events')] = events[Len(events)]
    <3>1. ASSUME events' # <<>> PROVE n - o > 0
      BY <1>2, <1>4, <3>1, EmptySeq
    <3>2. ASSUME n - o > 0 PROVE events # <<>> /\ events'[n - o] = events[n]
      <4>1. n - o \in DOMAIN events' /\ (n - o) + o = n /\ n # 0
        BY <1>2, <1>4, <3>2
      <4>2. events'[n - o] = events[(n - o) + o]
        BY <1>4, <4>1
      <4>3. events # <<>>
        BY <1>1, <4>1, EventsLen DEF n
      <4>4. QED
        BY <4>1, <4>2, <4>3
    <3>3. QED
      BY <1>4, <3>1, <3>2 DEF n
  <2>2. ASSUME NEW i \in DOMAIN events', NEW t \in Start..now' - 1, LastUpTo(i, t)'
        PROVE  t \in online' <=> events'[i].connected
    <3>1. i + o \in DOMAIN events /\ events'[i] = events[i + o] /\ i > 0 /\ i + o > 0
      BY <1>2, <1>4
    <3>2. ASSUME NEW j \in DOMAIN events, j > i + o PROVE t < events[j].ts
      <4>1. j - o \in DOMAIN events' /\ j - o > i /\ (j - o) + o = j
        BY <1>2, <1>4, <3>2
      <4>2. events'[j - o] = events[j]
        BY <1>4, <4>1
      <4>3. t < events'[j - o].ts
        BY <2>2, <4>1 DEF LastUpTo
      <4>4. QED
        BY <4>2, <4>3
    <3>3. LastUpTo(i + o, t)
      BY <2>2, <3>1, <3>2 DEF LastUpTo
    <3>4. t \in Start..now - 1
      BY <2>2
    <3>5. QED
      BY <1>5, <1>8, <3>1, <3>3, <3>4 DEF Tells
  <2>3. \A i \in DOMAIN events' : first' <= events'[i].ts
    BY <1>4, <1>5, <1>8 DEF Tells
  <2>4. QED
    BY <1>5, <1>8, <2>1, <2>2, <2>3 DEF Tells, Kept
<1>9. QED
  BY <1>5, <1>6, <1>7, <1>8 DEF UptimeInv, Steady

LEMMA ConnectsStep ==
    ASSUME UptimeInv, now \in Moment, Connects, UNCHANGED now
    PROVE  UptimeInv'
<1>1. UptimeTypeOK /\ online \subseteq Start..now - 1 /\ now \in Nat /\ now # 0 /\ now >= Start /\ MaxEvents \in Nat
  BY Times, UptimeAssumption DEF UptimeInv, UptimeTypes
<1>2. /\ sockets' = sockets + 1 /\ changes' \in 0..MaxEvents /\ UNCHANGED <<happen, online>>
      /\ first' = (IF first = 0 THEN now ELSE first) /\ sockets \in {0, 1}
  BY <1>1 DEF Connects, UptimeTypeOK
<1>3. ASSUME events' = Append(events, [ts |-> now, connected |-> TRUE]) PROVE UptimeInv'
  <2>1. /\ InOrder'
        /\ Steady => \A i \in DOMAIN events' : \A t \in Start..now' - 1 :
              LastUpTo(i, t)' => (t \in online' <=> events'[i].connected)
        /\ events' # <<>> /\ events'[Len(events')].connected = TRUE
        /\ events'[1] = IF events = <<>> THEN [ts |-> now, connected |-> TRUE] ELSE events[1]
        /\ \A i \in DOMAIN events' : (i \in DOMAIN events /\ events'[i].ts = events[i].ts)
                                        \/ events'[i].ts = now
    BY <1>2, <1>3, InsertStep
  <2>2. events' \in Seq([ts : Moment, connected : BOOLEAN])
    BY <1>1, <1>3, InsertedEvent
  <2>3. UptimeTypes'
    BY <1>1, <1>2, <2>2 DEF UptimeTypes, UptimeTypeOK
  <2>4. ASSUME Steady, Tells PROVE Tells'
    <3>1. sockets = 0 /\ sockets' = 1
      BY <1>1, <1>2, <2>4 DEF Connects, Steady, UptimeTypeOK
    <3>2. first' # 0 /\ first' <= now' /\ (first # 0 => first' = first) /\ first \in Nat
      BY <1>1, <1>2, <2>4, Times DEF Tells, UptimeTypeOK
    <3>3. ASSUME NEW i \in DOMAIN events' PROVE first' <= events'[i].ts
      <4>1. CASE i \in DOMAIN events /\ events'[i].ts = events[i].ts
        <5>1. events # <<>>
          BY <1>1, <4>1, EventsLen
        <5>2. first # 0 /\ first <= events[i].ts
          BY <2>4, <4>1, <5>1 DEF Tells
        <5>3. QED
          BY <3>2, <4>1, <5>2
      <4>2. CASE events'[i].ts = now
        BY <3>2, <4>2
      <4>3. QED
        BY <2>1, <4>1, <4>2
    <3>4. Kept => first' = events'[1].ts
      <4>1. CASE events = <<>>
        BY <1>2, <2>1, <2>4, <4>1 DEF Tells
      <4>2. CASE events # <<>>
        BY <1>2, <2>1, <2>4, <4>2 DEF Tells
      <4>3. QED
        BY <4>1, <4>2
    <3>5. QED
      BY <1>2, <2>1, <2>4, <3>1, <3>2, <3>3, <3>4 DEF Tells, Kept
  <2>5. QED
    BY <1>2, <2>1, <2>3, <2>4 DEF UptimeInv, Steady
<1>4. ASSUME "eventLost" \in happen, UNCHANGED events PROVE UptimeInv'
  <2>1. UptimeTypes'
    BY <1>1, <1>2, <1>4 DEF UptimeTypes, UptimeTypeOK
  <2>2. QED
    BY <1>2, <1>4, <2>1 DEF UptimeInv, InOrder, Steady
<1>5. QED
  BY <1>3, <1>4 DEF Connects, Insert

LEMMA ClosesStep ==
    ASSUME UptimeInv, now \in Moment, Closes, UNCHANGED now
    PROVE  UptimeInv'
<1>1. UptimeTypeOK /\ online \subseteq Start..now - 1 /\ now \in Nat /\ now >= Start /\ MaxEvents \in Nat
  BY Times, UptimeAssumption DEF UptimeInv, UptimeTypes
<1>2. /\ sockets' = sockets - 1 /\ changes' \in 0..MaxEvents /\ UNCHANGED <<happen, online, first>>
      /\ sockets \in {1, 2}
  BY <1>1 DEF Closes, UptimeTypeOK
<1>3. ASSUME events' = Append(events, [ts |-> now, connected |-> FALSE]) PROVE UptimeInv'
  <2>1. /\ InOrder'
        /\ Steady => \A i \in DOMAIN events' : \A t \in Start..now' - 1 :
              LastUpTo(i, t)' => (t \in online' <=> events'[i].connected)
        /\ events' # <<>> /\ events'[Len(events')].connected = FALSE
        /\ events'[1] = IF events = <<>> THEN [ts |-> now, connected |-> FALSE] ELSE events[1]
        /\ \A i \in DOMAIN events' : (i \in DOMAIN events /\ events'[i].ts = events[i].ts)
                                        \/ events'[i].ts = now
    BY <1>2, <1>3, InsertStep
  <2>2. events' \in Seq([ts : Moment, connected : BOOLEAN])
    BY <1>1, <1>3, InsertedEvent
  <2>3. UptimeTypes'
    BY <1>1, <1>2, <2>2 DEF UptimeTypes, UptimeTypeOK
  <2>4. ASSUME Steady, Tells PROVE Tells'
    <3>1. sockets = 1 /\ sockets' = 0 /\ first # 0 /\ first' <= now'
      BY <1>2, <2>4 DEF Tells
    <3>2. \A i \in DOMAIN events' : first' <= events'[i].ts
      BY <1>2, <2>1, <2>4, <3>1 DEF Tells
    <3>3. Kept => first' = events'[1].ts
      BY <1>2, <2>1, <2>4, <3>1 DEF Tells
    <3>4. QED
      BY <1>2, <2>1, <2>4, <3>1, <3>2, <3>3 DEF Tells, Kept
  <2>5. QED
    BY <1>2, <2>1, <2>3, <2>4 DEF UptimeInv, Steady
<1>4. ASSUME "eventLost" \in happen, UNCHANGED events PROVE UptimeInv'
  <2>1. UptimeTypes'
    BY <1>1, <1>2, <1>4 DEF UptimeTypes, UptimeTypeOK
  <2>2. QED
    BY <1>2, <1>4, <2>1 DEF UptimeInv, InOrder, Steady
<1>5. QED
  BY <1>3, <1>4 DEF Closes, Insert

(* The last moment is one with a connection, or without, as it was then.   *)
LEMMA PassesStep ==
    ASSUME UptimeInv, now \in Moment, Tick, UptimePasses
    PROVE  UptimeInv'
<1>1. UptimeTypeOK /\ online \subseteq Start..now - 1 /\ now \in Nat /\ now >= Start /\ InOrder
  BY Times DEF UptimeInv, UptimeTypes
<1>2. /\ now' = now + 1 /\ now < MaxTime /\ UNCHANGED <<happen, sockets, events, changes, first>>
      /\ online' = IF sockets > 0 THEN online \cup {now} ELSE online
  BY DEF Tick, UptimePasses
<1>3. online' \subseteq Start..now' - 1
  BY <1>1, <1>2, Times
<1>4. UptimeTypes'
  <2>1. Start..now' - 1 \subseteq Moment
    BY <1>1, <1>2, Times DEF Moment
  <2>2. QED
    BY <1>1, <1>2, <1>3, <2>1 DEF UptimeTypes, UptimeTypeOK
<1>5. \A i \in DOMAIN events : events[i].ts \in Nat
  BY <1>1, EventsLen, Times
<1>6. InOrder'
  BY <1>1, <1>2, <1>5 DEF InOrder
<1>7. ASSUME Steady, Tells PROVE Tells'
  <2>1. ASSUME NEW i \in DOMAIN events, NEW t \in Start..now' - 1, LastUpTo(i, t)
        PROVE  t \in online' <=> events[i].connected
    <3>1. CASE t = now
      <4>1. i \in 1..Len(events) /\ Len(events) \in Nat /\ DOMAIN events = 1..Len(events)
        BY <1>1, EventsLen
      <4>2. i = Len(events)
        <5>1. i < Len(events) => t < events[Len(events)].ts
          BY <2>1, <4>1 DEF LastUpTo
        <5>2. events[Len(events)].ts <= now /\ events[Len(events)].ts \in Nat
          BY <1>1, <1>5, <4>1 DEF InOrder
        <5>3. QED
          BY <1>1, <3>1, <4>1, <5>1, <5>2
      <4>3. events # <<>> /\ (sockets = 1 <=> events[i].connected)
        BY <1>1, <1>7, <4>1, <4>2, EventsLen DEF Tells
      <4>4. now \in online' <=> sockets = 1
        <5>1. now \notin online
          BY <1>1
        <5>2. QED
          BY <1>2, <1>7, <5>1 DEF Tells
      <4>5. QED
        BY <3>1, <4>3, <4>4
    <3>2. CASE t # now
      <4>1. t \in Start..now - 1
        BY <1>1, <1>2, <3>2, Times
      <4>2. t \in online' <=> t \in online
        BY <1>2, <3>2
      <4>3. QED
        BY <1>7, <2>1, <4>1, <4>2 DEF Tells
    <3>3. QED
      BY <3>1, <3>2
  <2>2. \A i \in DOMAIN events : \A t : LastUpTo(i, t)' <=> LastUpTo(i, t)
    BY <1>2 DEF LastUpTo
  <2>3. first' <= now'
    BY <1>1, <1>2, <1>7, Times DEF Tells, UptimeTypeOK
  <2>4. QED
    BY <1>2, <1>7, <2>1, <2>2, <2>3 DEF Tells, Kept
<1>8. QED
  BY <1>2, <1>4, <1>6, <1>7 DEF UptimeInv, Steady

LEMMA NowTyped == Spec => [](now \in Moment)
<1>1. Init => now \in Moment
  BY ClockAssumption DEF Init, Moment
<1>2. now \in Moment /\ [Next]_vars => (now \in Moment)'
  BY ClockAssumption DEF Next, Passes, Tick, vars, Moment
<1>3. QED
  BY <1>1, <1>2, PTL DEF Spec

LEMMA UptimeInvariant == Spec => []UptimeInv
<1>1. ASSUME UptimeInv, now \in Moment, [Next]_vars PROVE UptimeInv'
  <2>1. CASE UNCHANGED <<now, uptimeVars>>
    BY <1>1, <2>1 DEF uptimeVars, UptimeInv, UptimeTypes, UptimeTypeOK, InOrder, Tells, LastUpTo, Kept, Steady
  <2>2. CASE Tick /\ UptimePasses
    BY <1>1, <2>2, PassesStep
  <2>3. CASE UptimeNext /\ UNCHANGED now
    BY <1>1, <2>3, ConnectsStep, ClosesStep, SweepStep DEF UptimeNext
  <2>4. QED
    BY <1>1, <2>1, <2>2, <2>3 DEF Next, Passes, vars
<1>2. QED
  BY <1>1, UptimeInitially, NowTyped, PTL DEF Spec

-----------------------------------------------------------------------------
(* What the loop over the events adds up.                                  *)

(* What event i says of the moments up to the next: none is online, and so *)
(* are those before the window if the last of them was not read.           *)
Counted(read, i) ==
    IF i = 0 \/ (~read /\ i <= Older(EffectiveStart)) THEN TRUE ELSE events[i].connected
Reported(read) == {t \in Nat : \E i \in 0..Len(events) : LastUpTo(i, t) /\ Counted(read, i)}

LEMMA ReportedBetween ==
    ASSUME UptimeTypeOK, InOrder, NEW i \in 0..Len(events), NEW t \in Nat, LastUpTo(i, t),
           NEW read \in BOOLEAN
    PROVE  t \in Reported(read) <=> Counted(read, i)
<1>1. Len(events) \in Nat /\ DOMAIN events = 1..Len(events)
  BY EventsLen
<1>2. ASSUME NEW j \in 0..Len(events), LastUpTo(j, t) PROVE j = i
  <2>1. \A k \in DOMAIN events : events[k].ts \in Nat
    BY EventsLen, Times
  <2>2. CASE i < j
    <3>1. j \in DOMAIN events /\ j > 0 /\ j > i
      BY <1>1, <2>2
    <3>2. events[j].ts <= t /\ t < events[j].ts /\ events[j].ts \in Nat
      BY <1>2, <2>1, <3>1 DEF LastUpTo
    <3>3. QED
      BY <3>2
  <2>3. CASE j < i
    <3>1. i \in DOMAIN events /\ i > 0 /\ i > j
      BY <1>1, <2>3
    <3>2. events[i].ts <= t /\ t < events[i].ts /\ events[i].ts \in Nat
      BY <1>2, <2>1, <3>1 DEF LastUpTo
    <3>3. QED
      BY <3>2
  <2>4. QED
    BY <1>1, <1>2, <2>2, <2>3
<1>3. QED
  BY <1>2 DEF Reported

(* A stretch of time that counts or does not.                              *)
LEMMA Stretch ==
    ASSUME NEW W \in SUBSET Nat, NEW a \in Nat, NEW b \in Nat, NEW c \in Nat, a <= b, b <= c
    PROVE  /\ (\A t \in b..c - 1 : t \in W) =>
                 Cardinality(W \cap (a..c - 1)) = Cardinality(W \cap (a..b - 1)) + (c - b)
           /\ (\A t \in b..c - 1 : t \notin W) =>
                 Cardinality(W \cap (a..c - 1)) = Cardinality(W \cap (a..b - 1))
           /\ Cardinality(W \cap (a..b - 1)) \in Nat
<1> DEFINE S == W \cap (a..b - 1)  T == b..c - 1
<1>1. /\ IsFiniteSet(a..b - 1) /\ IsFiniteSet(T)
      /\ Cardinality(T) = IF b > c - 1 THEN 0 ELSE (c - 1) - b + 1
  BY FS_Interval
<1>2. IsFiniteSet(S) /\ Cardinality(S) \in Nat
  <2>1. S \in SUBSET (a..b - 1)
    OBVIOUS
  <2>2. IsFiniteSet(S)
    BY <1>1, <2>1, FS_Subset
  <2>3. QED
    BY <2>2, FS_CardinalityType
<1>3. Cardinality(T) = c - b
  BY <1>1
<1>4. S \cap T = {} /\ a..c - 1 = (a..b - 1) \cup T
  OBVIOUS
<1>5. ASSUME \A t \in b..c - 1 : t \in W
      PROVE  Cardinality(W \cap (a..c - 1)) = Cardinality(S) + (c - b)
  <2>1. W \cap (a..c - 1) = S \cup T
    BY <1>4, <1>5
  <2>2. Cardinality(S \cap T) = 0
    BY <1>4, FS_EmptySet
  <2>3. Cardinality(S \cup T) = Cardinality(S) + Cardinality(T) - Cardinality(S \cap T)
    <3> HIDE DEF S, T
    <3>1. QED
      BY <1>1, <1>2, FS_Union DEF T
  <2>4. Cardinality(S \cup T) = Cardinality(S) + (c - b)
    <3> HIDE DEF S, T
    <3>1. QED
      BY <1>2, <1>3, <2>2, <2>3
  <2>5. QED
    BY <2>1, <2>4
<1>6. ASSUME \A t \in b..c - 1 : t \notin W
      PROVE  Cardinality(W \cap (a..c - 1)) = Cardinality(S)
  <2>1. W \cap (a..c - 1) = S
    BY <1>4, <1>6
  <2>2. QED
    BY <2>1
<1>7. QED
  BY <1>2, <1>5, <1>6

(* connectedMs is the time that the events report.                         *)
LEMMA LoopCounts ==
    ASSUME UptimeTypeOK, InOrder, now \in Moment, NEW read \in BOOLEAN
    PROVE  ConnectedMs(read) = Cardinality(Reported(read) \cap (EffectiveStart..now - 1))
<1> DEFINE es == EffectiveStart  o == Older(es)  len == Len(events)  n == len - o
           base == [currentState |-> Seed(read), cursor |-> es, ms |-> 0]
<1>1. es \in Nat /\ Start <= es /\ es <= now /\ now \in Nat
  BY Times, UptimeAssumption DEF EffectiveStart, Moment
<1>2. /\ len \in Nat /\ DOMAIN events = 1..len /\ o \in 0..len /\ n \in Nat
      /\ \A i \in 1..len : events[i].ts \in Nat /\ events[i].ts <= now /\ events[i].connected \in BOOLEAN
      /\ o > 0 => events[o].ts < es
      /\ \A i \in 1..len : i > o => events[i].ts >= es
  <2>1. es \in Int
    BY <1>1
  <2> HIDE DEF es
  <2>2. len \in Nat /\ DOMAIN events = 1..len
    BY EventsLen
  <2>3. /\ o \in 0..len /\ (o > 0 => events[o].ts < es)
        /\ \A i \in DOMAIN events : i > o => events[i].ts >= es
    BY <2>1, OlderRange
  <2>4. \A i \in DOMAIN events : events[i].ts \in Moment /\ events[i].connected \in BOOLEAN
    BY EventsLen
  <2>5. \A x \in Moment : x \in Nat
    BY Times
  <2>6. \A i \in DOMAIN events : events[i].ts \in Nat
    BY <2>4, <2>5, Zenon
  <2> HIDE DEF o, len
  <2>7. n \in Nat
    BY <2>2, <2>3
  <2>8. QED
    BY <2>2, <2>3, <2>4, <2>6, <2>7 DEF InOrder
<1>3. DOMAIN Since = 1..n /\ \A i \in 1..n : i + o \in 1..len /\ Since[i] = events[i + o]
  BY <1>2, EventsAfter DEF Since
<1>4. base.currentState = Counted(read, o) /\ base.cursor = es /\ base.ms = 0
  <2>1. o = Older(EffectiveStart) /\ o \in Nat
    BY <1>2
  <2> HIDE DEF o, es
  <2>2. Seed(read) = Counted(read, o)
    <3>1. Seed(read) = IF o = 0 \/ ~read THEN TRUE ELSE events[o].connected
      BY <2>1 DEF Seed
    <3>2. Counted(read, o) = IF o = 0 \/ (~read /\ o <= o) THEN TRUE ELSE events[o].connected
      BY <2>1 DEF Counted
    <3>3. o <= o
      BY <2>1
    <3>4. CASE o = 0 \/ ~read
      <4>1. Seed(read) = TRUE
        BY <3>1, <3>4
      <4>2. o = 0 \/ (~read /\ o <= o)
        BY <3>3, <3>4
      <4>3. Counted(read, o) = TRUE
        BY <3>2, <4>2, Zenon
      <4>4. QED
        BY <4>1, <4>3
    <3>5. CASE ~(o = 0 \/ ~read)
      <4>1. Seed(read) = events[o].connected
        BY <3>1, <3>5
      <4>2. Counted(read, o) = events[o].connected
        BY <3>2, <3>5
      <4>3. QED
        BY <4>1, <4>2
    <3>6. QED
      BY <3>4, <3>5
  <2>3. QED
    BY <2>2
<1>5. ConnectedMs(read) = Until(Looped(base, Since), now)
  BY DEF ConnectedMs, Looped
<1> DEFINE at == Stages(base, Since, n)
<1>6. /\ at[0] = base
      /\ \A k \in 1..n : at[k] = AddUp(at[k - 1], Since[k])
      /\ Looped(base, Since) = at[n]
  <2> DEFINE q == Since  E == {q[k] : k \in 1..n}  B == {base}
  <2>1. n \in Nat /\ q \in [1..n -> E] /\ base \in B
    <3>1. DOMAIN q = 1..n /\ q = [k \in DOMAIN q |-> q[k]]
      <4>1. q \in Seq([ts : Moment, connected : BOOLEAN])
        <5> HIDE DEF o
        <5>1. QED
          BY <1>2, EventsAfter DEF Since, o
      <4> HIDE DEF n, q
      <4>2. q = [k \in DOMAIN q |-> q[k]]
        BY <4>1
      <4>3. QED
        BY <1>3, <4>2 DEF q
    <3> HIDE DEF n, q, base
    <3>2. QED
      BY <1>2, <3>1
  <2> HIDE DEF n, base, q, E, B
  <2>2. AreStages(Stages(base, q, n), base, q, n)
    BY <2>1, LoopOverEvents
  <2>3. QED
    BY <2>2 DEF q, AreStages
<1>5a. o = Older(EffectiveStart)
  OBVIOUS
<1> HIDE DEF es, o, len, n, base, at
<1> DEFINE Cursor(k) == IF k = 0 THEN es ELSE events[k + o].ts
           Ends(k) == IF k = n THEN now ELSE events[k + 1 + o].ts
           Good(k) == /\ at[k].currentState = Counted(read, k + o)
                      /\ at[k].cursor = Cursor(k)
                      /\ at[k].ms = Cardinality(Reported(read) \cap (es..Cursor(k) - 1))
           T == {k \in Nat : k <= n => Good(k)}
(* Between two events the state is that of the first of them.              *)
<1>7. ASSUME NEW k \in 0..n
      PROVE  /\ Cursor(k) \in Nat /\ Ends(k) \in Nat
             /\ es <= Cursor(k) /\ Cursor(k) <= Ends(k)
             /\ Counted(read, k + o) \in BOOLEAN
             /\ \A t \in Cursor(k)..Ends(k) - 1 : t \in Reported(read) <=> Counted(read, k + o)
  <2>1. k \in Nat /\ k + o \in 0..len /\ n \in Nat /\ (k # n => k + 1 + o \in 1..len)
    BY <1>2 DEF n
  <2>2. k # 0 => k + o \in 1..len /\ k + o > o /\ k + o > 0
    BY <1>2, <2>1
  <2>3. Cursor(k) \in Nat /\ es <= Cursor(k) /\ Cursor(k) <= now
    BY <1>1, <1>2, <2>2
  <2>4. k # n => k + 1 + o > o /\ k + 1 + o > k + o
    BY <1>2, <2>1
  <2>5. Ends(k) \in Nat /\ Cursor(k) <= Ends(k)
    <3>1. CASE k = n
      BY <1>1, <2>3, <3>1
    <3>2. CASE k # n
      <4>1. k + 1 + o \in 1..len /\ events[k + 1 + o].ts \in Nat /\ events[k + 1 + o].ts >= es
        BY <1>2, <2>1, <2>4, <3>2
      <4>2. k # 0 => events[k + o].ts <= events[k + 1 + o].ts
        BY <1>2, <2>1, <2>2, <2>4, <3>2 DEF InOrder
      <4>3. QED
        BY <1>1, <3>2, <4>1, <4>2
    <3>3. QED
      BY <3>1, <3>2
  <2>6. Counted(read, k + o) \in BOOLEAN
    <3>1. CASE k + o = 0
      BY <3>1 DEF Counted
    <3>2. CASE k + o # 0
      <4>1. k + o \in 1..len
        BY <1>2, <2>1, <3>2
      <4>2. events[k + o].connected \in BOOLEAN
        BY <1>2, <4>1
      <4>3. QED
        BY <3>2, <4>2 DEF Counted
    <3>3. QED
      BY <3>1, <3>2
  <2>7. ASSUME NEW t \in Cursor(k)..Ends(k) - 1 PROVE t \in Reported(read) <=> Counted(read, k + o)
    <3>1. t \in Nat /\ Cursor(k) <= t /\ t < Ends(k) /\ t < now
      <4>1. t \in Nat /\ Cursor(k) <= t /\ t < Ends(k)
        BY <2>3, <2>5
      <4>2. Ends(k) <= now
        BY <1>1, <1>2, <2>1
      <4>3. QED
        BY <1>1, <2>5, <4>1, <4>2
    <3>2. k + o > 0 => events[k + o].ts <= t
      <4>1. CASE k = 0
        BY <1>1, <1>2, <3>1, <4>1
      <4>2. CASE k # 0
        BY <3>1, <4>2
      <4>3. QED
        BY <4>1, <4>2
    <3>3. ASSUME NEW j \in DOMAIN events, j > k + o PROVE t < events[j].ts
      <4>1. k # n
        BY <1>2, <2>1, <3>3 DEF n
      <4>2. k + 1 + o \in DOMAIN events /\ k + 1 + o <= j /\ events[j].ts \in Nat
        BY <1>2, <2>1, <3>3, <4>1
      <4>3. events[k + 1 + o].ts <= events[j].ts /\ events[k + 1 + o].ts \in Nat
        BY <1>2, <4>2 DEF InOrder
      <4>4. t < events[k + 1 + o].ts
        BY <3>1, <4>1
      <4>5. QED
        BY <3>1, <4>2, <4>3, <4>4
    <3>4. LastUpTo(k + o, t)
      BY <3>2, <3>3 DEF LastUpTo
    <3>5. t \in Reported(read) <=> Counted(read, k + o)
      BY <2>1, <3>1, <3>4, ReportedBetween DEF len
    <3>6. QED
      BY <3>5 DEF Counted
  <2>8. QED
    BY <2>3, <2>5, <2>6, <2>7
<1>8. ASSUME NEW k \in 0..n, Good(k)
      PROVE  Until(at[k], Ends(k)) = Cardinality(Reported(read) \cap (es..Ends(k) - 1))
  <2>1. /\ Cursor(k) \in Nat /\ Ends(k) \in Nat /\ es <= Cursor(k) /\ Cursor(k) <= Ends(k)
        /\ Counted(read, k + o) \in BOOLEAN
        /\ \A t \in Cursor(k)..Ends(k) - 1 : t \in Reported(read) <=> Counted(read, k + o)
    BY <1>7
  <2> DEFINE W == Reported(read)  b == Cursor(k)  c == Ends(k)
  <2>2. /\ (\A t \in b..c - 1 : t \in W) =>
             Cardinality(W \cap (es..c - 1)) = Cardinality(W \cap (es..b - 1)) + (c - b)
        /\ (\A t \in b..c - 1 : t \notin W) =>
             Cardinality(W \cap (es..c - 1)) = Cardinality(W \cap (es..b - 1))
        /\ Cardinality(W \cap (es..b - 1)) \in Nat
    <3>1. W \in SUBSET Nat /\ es \in Nat /\ b \in Nat /\ c \in Nat /\ es <= b /\ b <= c
      BY <1>1, <2>1 DEF Reported
    <3> HIDE DEF W, b, c
    <3>2. QED
      BY <3>1, Stretch
  <2>3. at[k].ms = Cardinality(W \cap (es..b - 1)) /\ at[k].cursor = b
    BY <1>8
  <2>4. CASE Counted(read, k + o)
    <3>1. \A t \in b..c - 1 : t \in W
      BY <2>1, <2>4
    <3>2. Cardinality(W \cap (es..c - 1)) = at[k].ms + (c - at[k].cursor)
      BY <2>2, <2>3, <3>1
    <3>3. at[k].currentState
      BY <1>8, <2>4
    <3> HIDE DEF W, b
    <3>4. QED
      BY <3>2, <3>3 DEF Until, W
  <2>5. CASE ~Counted(read, k + o)
    <3>1. \A t \in b..c - 1 : t \notin W
      BY <2>1, <2>5
    <3>2. Cardinality(W \cap (es..c - 1)) = at[k].ms
      BY <2>2, <2>3, <3>1
    <3>3. ~at[k].currentState
      BY <1>8, <2>5
    <3>4. at[k].ms \in Nat
      BY <2>2, <2>3
    <3> HIDE DEF W, b
    <3>5. QED
      BY <3>2, <3>3, <3>4 DEF Until, W
  <2>6. QED
    BY <2>4, <2>5
<1>9. 0 \in T
  <2>1. es..es - 1 = {} /\ Reported(read) \cap {} = {} /\ Cardinality({}) = 0
    BY <1>1, FS_EmptySet
  <2>2. 0 + o = o
    BY <1>2
  <2>3. Good(0)
    BY <1>4, <1>6, <2>1, <2>2
  <2>4. QED
    BY <2>3
<1>10. ASSUME NEW k \in Nat, k \in T PROVE k + 1 \in T
  <2> SUFFICES ASSUME k + 1 <= n PROVE Good(k + 1)
    OBVIOUS
  <2>1. k \in 0..n /\ k # n /\ k + 1 \in 1..n /\ (k + 1) - 1 = k /\ k <= n /\ k + 1 # 0
    BY <1>2
  <2>2. Good(k)
    BY <1>10, <2>1
  <2>3. at[k + 1] = AddUp(at[k], events[k + 1 + o])
    BY <1>3, <1>6, <2>1
  <2>4. Ends(k) = events[k + 1 + o].ts /\ Cursor(k + 1) = events[k + 1 + o].ts
    BY <2>1
  <2>5. k + 1 + o # 0 /\ ~(k + 1 + o <= o) /\ o = Older(EffectiveStart)
    BY <1>2, <2>1, <1>5a
  <2>6. at[k + 1].ms = Cardinality(Reported(read) \cap (es..Ends(k) - 1))
    <3>1. at[k + 1].ms = Until(at[k], Ends(k))
      BY <2>3, <2>4 DEF AddUp
    <3>2. QED
      BY <1>8, <2>1, <2>2, <3>1
  <2>7. at[k + 1].cursor = Cursor(k + 1) /\ at[k + 1].currentState = Counted(read, k + 1 + o)
    <3>1. Counted(read, k + 1 + o) = events[k + 1 + o].connected
      <4> DEFINE i == k + 1 + o
      <4>1. i # 0 /\ ~(i <= Older(EffectiveStart))
        BY <2>5
      <4> HIDE DEF i
      <4>2. Counted(read, i) = events[i].connected
        BY <4>1 DEF Counted
      <4> QED BY <4>2 DEF i
    <3>2. at[k + 1].cursor = events[k + 1 + o].ts /\ at[k + 1].currentState = events[k + 1 + o].connected
      BY <2>3 DEF AddUp
    <3>3. QED
      BY <2>4, <3>1, <3>2
  <2>8. QED
    BY <2>4, <2>6, <2>7
<1>11. Good(n)
  <2>1. n \in T
    <3> HIDE DEF T
    <3>1. QED
      BY <1>2, <1>9, <1>10, NatByStep
  <2>2. QED
    BY <1>2, <2>1
<1>12. n \in 0..n /\ Ends(n) = now
  BY <1>2
<1>13. Until(at[n], now) = Cardinality(Reported(read) \cap (es..now - 1))
  <2> HIDE DEF Good, Ends
  <2>1. Until(at[n], Ends(n)) = Cardinality(Reported(read) \cap (es..Ends(n) - 1))
    BY <1>8, <1>11, <1>12
  <2>2. QED
    BY <1>12, <2>1
<1>14. QED
  BY <1>5, <1>6, <1>13 DEF es

(* What the events report of a moment is so, or it precedes those kept.    *)
LEMMA ReportIsTrue ==
    ASSUME UptimeInv, Steady, now \in Moment, NEW read \in BOOLEAN
    PROVE  /\ Reported(read) \cap (EffectiveStart..now - 1) = Credited \cup Guessed(read)
           /\ Kept /\ read => Guessed(read) \subseteq Credited
<1>1. UptimeTypeOK /\ InOrder /\ Tells
  BY DEF UptimeInv, UptimeTypes
<1>2. now \in Nat /\ EffectiveStart \in Nat /\ Start <= EffectiveStart /\ Start \in Nat
  BY Times, UptimeAssumption DEF EffectiveStart, Moment
<1>3. Len(events) \in Nat /\ DOMAIN events = 1..Len(events) /\ (events = <<>> <=> Len(events) = 0)
  BY <1>1, EventsLen
<1>4. \A i \in DOMAIN events : events[i].ts \in Nat
  BY <1>1, EventsLen, Times
<1>5. first \in Nat
  BY <1>1, Times DEF UptimeTypeOK
<1> DEFINE o == Older(EffectiveStart)
           Early(t) == (read => o = 0) /\ \A k \in DOMAIN Since : t < Since[k].ts
<1>15. /\ o \in 0..Len(events) /\ (o > 0 => events[o].ts < EffectiveStart)
       /\ DOMAIN Since = 1..Len(events) - o
       /\ \A k \in 1..Len(events) - o : k + o \in 1..Len(events) /\ Since[k] = events[k + o]
  <2> DEFINE es == EffectiveStart
  <2>1. es \in Int
    BY <1>2
  <2> HIDE DEF es
  <2>2. o \in 0..Len(events) /\ (o > 0 => events[o].ts < es)
    BY <1>1, <1>3, <2>1, OlderRange DEF es
  <2>3. QED
    BY <1>1, <1>3, <2>2, EventsAfter DEF Since, es
<1> HIDE DEF o
<1> SUFFICES ASSUME NEW t \in EffectiveStart..now - 1
             PROVE  /\ t \in Reported(read) <=> t \in online \/ first = 0 \/ t < first \/ Early(t)
                    /\ Kept /\ read /\ Early(t) => t \in online \/ first = 0 \/ t < first
  BY DEF Credited, Guessed, o
<1>6. t \in Nat /\ t \in Start..now - 1
  BY <1>2
<1> DEFINE past == {0} \cup {i \in DOMAIN events : events[i].ts <= t}
<1>7. PICK i \in 0..Len(events) : LastUpTo(i, t)
  <2>1. past \in SUBSET (0..Len(events)) /\ past # {}
    BY <1>3
  <2>2. Max(past) \in past /\ \A j \in past : Max(past) >= j
    <3> HIDE DEF past
    <3>1. QED
      BY <1>3, <2>1, MaxInSet
  <2>3. Max(past) \in 0..Len(events) /\ (Max(past) > 0 => events[Max(past)].ts <= t)
    BY <1>3, <2>2
  <2>4. ASSUME NEW j \in DOMAIN events, j > Max(past) PROVE t < events[j].ts
    <3>1. j \notin past
      <4> HIDE DEF past
      <4>1. QED
        BY <1>3, <2>2, <2>3, <2>4
    <3>2. QED
      BY <1>4, <1>6, <2>4, <3>1
  <2> HIDE DEF past
  <2>5. LastUpTo(Max(past), t)
    BY <2>3, <2>4 DEF LastUpTo
  <2>6. QED
    BY <2>3, <2>5
<1>8. t \in Reported(read) <=> Counted(read, i)
  BY <1>1, <1>6, <1>7, ReportedBetween
<1>9. Early(t) <=> (read => o = 0) /\ i <= o
  <2>1. ASSUME i <= o, NEW k \in DOMAIN Since PROVE t < Since[k].ts
    <3>1. k + o \in DOMAIN events /\ k + o > i /\ Since[k] = events[k + o]
      BY <1>3, <1>7, <1>15, <2>1
    <3>2. QED
      BY <1>7, <3>1 DEF LastUpTo
  <2>2. ASSUME i > o PROVE \E k \in DOMAIN Since : ~(t < Since[k].ts)
    <3>1. i - o \in 1..Len(events) - o /\ i - o + o = i /\ i > 0 /\ i \in DOMAIN events
      BY <1>3, <1>7, <1>15, <2>2
    <3>2. Since[i - o] = events[i] /\ i - o \in DOMAIN Since
      BY <1>15, <3>1
    <3>3. events[i].ts <= t /\ events[i].ts \in Nat
      BY <1>4, <1>7, <3>1 DEF LastUpTo
    <3>4. ~(t < Since[i - o].ts)
      BY <1>6, <3>2, <3>3
    <3>5. QED
      BY <3>2, <3>4
  <2>3. i \in Nat /\ o \in Nat
    BY <1>3, <1>7, <1>15
  <2>4. QED
    BY <2>1, <2>2, <2>3
(* Before all events: the time is early, and nothing was before them.      *)
<1>10. CASE i = 0
  <2>1. t \in Reported(read)
    BY <1>8, <1>10 DEF Counted
  <2>2. ASSUME Kept PROVE first = 0 \/ t < first
    <3>1. CASE events = <<>>
      BY <1>1, <2>2, <3>1 DEF Tells
    <3>2. CASE events # <<>>
      <4>1. 1 \in DOMAIN events
        BY <1>3, <3>2
      <4>2. t < events[1].ts
        BY <1>7, <1>10, <4>1 DEF LastUpTo
      <4>3. QED
        BY <1>1, <2>2, <3>2, <4>2 DEF Tells
    <3>3. QED
      BY <3>1, <3>2
  <2>3. o = 0 \/ o > 0
    BY <1>3, <1>15
  <2>4. CASE o = 0
    <3>1. Early(t)
      BY <1>9, <1>10, <2>4
    <3> HIDE DEF Early
    <3>2. QED
      BY <2>1, <2>2, <3>1
  (* An event before the window is not after t. *)
  <2>5. CASE o > 0
    <3>1. o \in DOMAIN events /\ o > i
      BY <1>3, <1>10, <1>15, <2>5
    <3>2. t < events[o].ts /\ events[o].ts < EffectiveStart /\ events[o].ts \in Nat
      BY <1>4, <1>7, <1>15, <2>5, <3>1 DEF LastUpTo
    <3>3. QED
      BY <1>2, <1>6, <3>2
  <2>6. QED
    BY <2>3, <2>4, <2>5
<1>11. CASE i # 0
  <2>1. i \in DOMAIN events /\ events[i].ts <= t /\ events # <<>>
    BY <1>3, <1>7, <1>11 DEF LastUpTo
  <2>2. first # 0 /\ first <= events[i].ts
    BY <1>1, <2>1 DEF Tells
  <2>3. ~(t < first)
    BY <1>4, <1>5, <1>6, <2>1, <2>2
  <2>4. t \in online <=> events[i].connected
    BY <1>1, <1>6, <1>7, <2>1 DEF Tells
  <2>5. Early(t) <=> ~read /\ i <= o
    BY <1>3, <1>7, <1>9, <1>11, <1>15
  <2>6. t \in Reported(read) <=> (~read /\ i <= o) \/ t \in online
    BY <1>8, <1>11, <2>4 DEF Counted, o
  <2> HIDE DEF Early
  <2>7. QED
    BY <2>2, <2>3, <2>5, <2>6
<1>12. QED
  BY <1>10, <1>11

(* GET /:id/uptime reports the time the agent was connected in the window, *)
(* that before its first connection included, neither more nor less, if all*)
(* events are kept and read; after a sweep or a failed read, exactly the   *)
(* time before the first event it finds besides: for any events, whatever  *)
(* their number.                                                           *)
THEOREM UptimeIsTrue == Spec => []UptimeTrue
<1>1. UptimeInv /\ now \in Moment => UptimeTrue
  <2> SUFFICES ASSUME UptimeInv, now \in Moment, Steady, NEW read \in Readings
               PROVE  /\ ConnectedMs(read) = Cardinality(Credited \cup Guessed(read))
                      /\ happen \cap {"sweep", "seedFails"} = {} =>
                            ConnectedMs(read) = Cardinality(Credited)
    BY DEF UptimeTrue, Steady
  <2> DEFINE R == Reported(read) \cap (EffectiveStart..now - 1)
  <2>1. read \in BOOLEAN /\ ("seedFails" \notin happen => read)
    BY DEF Readings
  <2>2. ConnectedMs(read) = Cardinality(R)
    BY <2>1, LoopCounts DEF UptimeInv, UptimeTypes
  <2>3. /\ R = Credited \cup Guessed(read)
        /\ Kept /\ read => Guessed(read) \subseteq Credited
    BY <2>1, ReportIsTrue
  <2> HIDE DEF R
  <2>4. ASSUME happen \cap {"sweep", "seedFails"} = {} PROVE R = Credited
    <3>1. Kept /\ read
      BY <2>1, <2>4 DEF Kept
    <3>2. Guessed(read) \subseteq Credited
      BY <2>3, <3>1
    <3>3. QED
      BY <2>3, <3>2
  <2>5. QED
    BY <2>2, <2>3, <2>4
<1>2. QED
  BY <1>1, UptimeInvariant, NowTyped, PTL

-----------------------------------------------------------------------------
(* The circumstances of a behaviour are chosen once.                       *)
LEMMA Chosen == [Next]_vars => UNCHANGED <<parts, env, happen>>
<1>1. AlertNext => UNCHANGED env
  BY DEF AlertNext, Died, StatsCached, StatsCold, ReadThreshold, Judge, Record, ReadConfig, Fire,
         Configure, Restart
<1>2. UptimeNext => UNCHANGED happen
  BY DEF UptimeNext, Connects, Closes, Sweep
<1>3. QED
  BY <1>1, <1>2 DEF Next, Passes, UptimePasses, vars, alertVars, uptimeVars

(* Every variable has its type.                                            *)
THEOREM TypeCorrect == Spec => []TypeOK
<1> DEFINE Settings == [parts |-> parts, alerts |-> env, uptime |-> happen] \in Environments
<1>1. Init => Settings
  <2> SUFFICES ASSUME NEW e \in Environments, parts = e.parts, env = e.alerts, happen = e.uptime
               PROVE  Settings
    BY DEF Init
  <2>1. e = [parts |-> e.parts, alerts |-> e.alerts, uptime |-> e.uptime]
    BY EnvironmentAssumption
  <2>2. QED
    BY <2>1
<1>2. Settings /\ [Next]_vars => Settings'
  BY Chosen
<1>3. Settings /\ Types /\ UptimeInv => TypeOK
  BY DEF TypeOK, Types, UptimeInv, UptimeTypes
<1>4. QED
  BY <1>1, <1>2, <1>3, TypesInvariant, UptimeInvariant, PTL DEF Spec
=============================================================================

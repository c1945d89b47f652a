------------------------------- MODULE Alerts -------------------------------
(***************************************************************************)
(* checkForAlert (server/ws/alerts.ts) for one server: two independent     *)
(* chains start with every message worth an alert, one that writes the     *)
(* alert history (alert_events) and one that posts to the webhook.  Each   *)
(* waits for a read of the servers row, the first only if its cached       *)
(* threshold is too old; the next message may arrive in between.           *)
(*                                                                         *)
(* A message waits in a slot until both of its chains are through.         *)
(***************************************************************************)
EXTENDS Clock, Sequences

CONSTANTS
    Slot,               \* bound: messages in progress at a time
    Level,              \* values of cpu.usagePercent and of the threshold
    Default,            \* the threshold if the row cannot be read (90)
    ALERT_COOLDOWN_MS,
    THRESHOLD_CACHE_MS,
    MaxReceived,        \* bound: messages of the agent
    MaxConfigured       \* bound: changes of url and threshold

(* A last-fired time of 0 stands for never: it is older than any cooldown. *)
ASSUME AlertAssumption ==
    /\ Level \subseteq Nat /\ Default \in Level
    /\ MaxReceived \in Nat /\ MaxConfigured \in Nat
    /\ THRESHOLD_CACHE_MS \in Nat \ {0} /\ ALERT_COOLDOWN_MS \in 1..Start

(***************************************************************************)
(* slowRecord, slowFire: what the history or the webhook chain awaits      *)
(* takes time, and messages arrive meanwhile; readFails, writeFails: the   *)
(* database answers with an error; restart: the backend exits and comes up *)
(* again.                                                                  *)
(***************************************************************************)
AlertCircumstances == {"slowRecord", "slowFire", "readFails", "writeFails", "restart"}

VARIABLES
    env,              \* the circumstances of this behaviour
    config,           \* alert_webhook_url and alert_cpu_threshold of the row
    configured,       \* how often it was changed
    configuredAt,     \* when the threshold was last changed
    alertCooldowns,   \* when an alert of each kind was last fired
    thresholdCache,   \* the cached threshold and fetchedAt
    highCpuActive,
    handling,         \* the messages in progress
    received,         \* how many arrived
    sampled,          \* the last sample that was judged: its cpu, and when
    alert_events,     \* the rows of high_cpu_usage
    fired,            \* fired[k]: when webhooks of the kind were posted
    worthy            \* worthy[k]: when the last message arrived that called for one

settings == <<config, configured, configuredAt>>
memory == <<alertCooldowns, thresholdCache, highCpuActive>>
ghosts == <<received, sampled, worthy>>
alertVars == <<env, config, configured, configuredAt, alertCooldowns, thresholdCache, highCpuActive,
               handling, received, sampled, alert_events, fired, worthy>>

Crash == "container_crashed"
HighCpu == "high_cpu_usage"
Kind == {Crash, HighCpu}
Time == {0} \cup Moment
Config == [url : BOOLEAN, threshold : Level]
Nothing == [cpu |-> Default, at |-> 0]
NotCached == [threshold |-> Default, fetchedAt |-> 0]
Idle == [kind |-> "none"]

(* record and fire are how far the two chains are; threshold, url and      *)
(* limit are what their reads answered; at is when the message arrived.    *)
Handling == [kind : Kind, cpu : Level, at : Moment,
             record : {"read", "judge", "insert", "done"}, threshold : Level,
             status : {"fired", "resolved"},
             fire : {"read", "decide", "done"}, url : BOOLEAN, limit : Level]

AlertTypeOK ==
    /\ config \in Config /\ configured \in 0..MaxConfigured /\ configuredAt \in Moment
    /\ alertCooldowns \in [Kind -> Time] /\ \A k \in Kind : alertCooldowns[k] <= now
    /\ thresholdCache \in [threshold : Level, fetchedAt : Time]
    /\ highCpuActive \in BOOLEAN /\ received \in 0..MaxReceived
    /\ handling \in [Slot -> Handling \cup {Idle}]
    /\ \A s \in Slot : handling[s] # Idle => handling[s].at <= now
    /\ sampled \in [cpu : Level, at : Time]
    /\ alert_events \in Seq({"fired", "resolved"})
    /\ fired \in [Kind -> Seq(Moment)] /\ worthy \in [Kind -> Time]

AlertInit ==
    /\ config \in Config /\ configured = 0 /\ configuredAt = Start
    /\ alertCooldowns = [k \in Kind |-> 0] /\ thresholdCache = NotCached
    /\ highCpuActive = FALSE /\ received = 0 /\ sampled = Nothing
    /\ handling = [s \in Slot |-> Idle]
    /\ alert_events = <<>> /\ fired = [k \in Kind |-> <<>>]
    /\ worthy = [k \in Kind |-> 0]

(* Nothing is awaited that would not take time.                            *)
Settled ==
    \A s \in Slot : handling[s] # Idle =>
        /\ handling[s].record # "done" => "slowRecord" \in env
        /\ handling[s].fire # "done" => "slowFire" \in env

(* The slot is free again when both chains are through; what an ended      *)
(* chain had read is forgotten.                                            *)
Recorded(h) == IF h.record # "done" THEN h
               ELSE [h EXCEPT !.threshold = Default, !.status = "fired"]
Decided(h) == IF h.fire # "done" THEN h ELSE [h EXCEPT !.url = FALSE, !.limit = Default]
Put(s, h) ==
    handling' = [handling EXCEPT ![s] =
                     IF h.record = "done" /\ h.fire = "done" THEN Idle ELSE Recorded(Decided(h))]

Cooling(k) == now - alertCooldowns[k] < ALERT_COOLDOWN_MS

CallsForAlert(k, cpu, url, limit) == url /\ (k = HighCpu => cpu >= limit)

-----------------------------------------------------------------------------
(* The history chain.                                                      *)

(* The .then of getCpuThreshold: a row is written when the state changes.  *)
Judged(h, threshold) ==
    LET isActive == h.cpu >= threshold IN
    IF isActive # highCpuActive
      THEN [h EXCEPT !.record = "insert", !.threshold = Default,
                     !.status = IF isActive THEN "fired" ELSE "resolved"]
      ELSE [h EXCEPT !.record = "done"]

(* How both chains begin, before anything is awaited.                      *)
Begun(k, cpu) ==
    [kind |-> k, cpu |-> cpu, at |-> now,
     record |-> IF k = Crash THEN "insert" ELSE "read",
     threshold |-> Default, status |-> "fired",
     fire |-> IF Cooling(k) THEN "done" ELSE "read", url |-> FALSE, limit |-> Default]

Noted(k, cpu) ==
    IF Cooling(k) /\ CallsForAlert(k, cpu, config.url, config.threshold)
      THEN [worthy EXCEPT ![k] = now] ELSE worthy

Arrives(s) ==
    /\ handling[s] = Idle /\ received < MaxReceived
    /\ Settled
    /\ received' = received + 1

(* docker:event of a container that died with an exit code other than 0.   *)
Died(s) ==
    /\ Arrives(s)
    /\ Put(s, Begun(Crash, Default)) /\ worthy' = Noted(Crash, Default)
    /\ UNCHANGED <<env, settings, memory, sampled, alert_events, fired>>

(* system:stats:result, with a cached threshold that is fresh ...          *)
StatsCached(s, cpu) ==
    /\ Arrives(s) /\ now - thresholdCache.fetchedAt < THRESHOLD_CACHE_MS
    /\ Put(s, Judged(Begun(HighCpu, cpu), thresholdCache.threshold))
    /\ highCpuActive' = (cpu >= thresholdCache.threshold)
    /\ sampled' = [cpu |-> cpu, at |-> now] /\ worthy' = Noted(HighCpu, cpu)
    /\ UNCHANGED <<env, settings, alertCooldowns, thresholdCache,
                   alert_events, fired>>

(* ... or with none.                                                       *)
StatsCold(s, cpu) ==
    /\ Arrives(s) /\ ~(now - thresholdCache.fetchedAt < THRESHOLD_CACHE_MS)
    /\ Put(s, Begun(HighCpu, cpu)) /\ worthy' = Noted(HighCpu, cpu)
    /\ UNCHANGED <<env, settings, memory, sampled, alert_events, fired>>

(* findCpuThreshold reads the row; without one the threshold is 90.        *)
ReadThreshold(s) ==
    /\ handling[s] # Idle /\ handling[s].record = "read"
    /\ \E threshold \in {config.threshold} \cup (IF "readFails" \in env THEN {Default} ELSE {}) :
        Put(s, [handling[s] EXCEPT !.record = "judge", !.threshold = threshold])
    /\ UNCHANGED <<env, settings, memory, ghosts, alert_events, fired>>

(* Slip: the state is not remembered while the cpu is high.                *)
JudgeForgetful(s) ==
    /\ handling[s] # Idle /\ handling[s].record = "judge"
    /\ LET h == handling[s] IN
       /\ thresholdCache' = [threshold |-> h.threshold, fetchedAt |-> now]
       /\ Put(s, Judged(h, h.threshold))
       /\ highCpuActive' = (highCpuActive /\ h.cpu >= h.threshold)
       /\ sampled' = [cpu |-> h.cpu, at |-> now]
    /\ UNCHANGED <<env, settings, alertCooldowns, received, alert_events,
                   fired, worthy>>

(* Its answer is cached and the sample judged.                             *)
Judge(s) ==
    /\ handling[s] # Idle /\ handling[s].record = "judge"
    /\ LET h == handling[s] IN
       /\ thresholdCache' = [threshold |-> h.threshold, fetchedAt |-> now]
       /\ Put(s, Judged(h, h.threshold))
       /\ highCpuActive' = (h.cpu >= h.threshold)
       /\ sampled' = [cpu |-> h.cpu, at |-> now]
    /\ UNCHANGED <<env, settings, alertCooldowns, received, alert_events,
                   fired, worthy>>

(* recordAlertEvent: an error is logged only.                              *)
Record(s) ==
    /\ handling[s] # Idle /\ handling[s].record = "insert"
    /\ Put(s, [handling[s] EXCEPT !.record = "done"])
    /\ \/ alert_events' = IF handling[s].kind = HighCpu
                            THEN Append(alert_events, handling[s].status) ELSE alert_events
       \/ "writeFails" \in env /\ UNCHANGED alert_events
    /\ UNCHANGED <<env, settings, memory, ghosts, fired>>

-----------------------------------------------------------------------------
(* The webhook chain: maybeFireAlert.                                      *)

(* findAlertConfig; without a row there is no url.                         *)
ReadConfig(s) ==
    /\ handling[s] # Idle /\ handling[s].fire = "read"
    /\ LET h == [handling[s] EXCEPT !.fire = "decide", !.limit = config.threshold] IN
       \/ Put(s, [h EXCEPT !.url = config.url])
       \/ "readFails" \in env /\ Put(s, [h EXCEPT !.url = FALSE])
    /\ UNCHANGED <<env, settings, memory, ghosts, alert_events, fired>>

(* Slip: the cooldown begins before it is known whether there is an alert. *)
FireCoolsFirst(s) ==
    /\ handling[s] # Idle /\ handling[s].fire = "decide"
    /\ LET h == handling[s] IN
       /\ Put(s, [h EXCEPT !.fire = "done"])
       /\ alertCooldowns' = [alertCooldowns EXCEPT ![h.kind] = h.at]
       /\ IF CallsForAlert(h.kind, h.cpu, h.url, h.limit)
            THEN /\ fired' = [fired EXCEPT ![h.kind] = Append(@, now)]
                 /\ worthy' = [worthy EXCEPT ![h.kind] = h.at]
            ELSE UNCHANGED <<fired, worthy>>
    /\ UNCHANGED <<env, settings, thresholdCache, highCpuActive, received,
                   sampled, alert_events>>

(* Slip: the cooldown is not set.                                          *)
FireWarm(s) ==
    /\ handling[s] # Idle /\ handling[s].fire = "decide"
    /\ LET h == handling[s] IN
       /\ Put(s, [h EXCEPT !.fire = "done"])
       /\ IF CallsForAlert(h.kind, h.cpu, h.url, h.limit)
            THEN /\ fired' = [fired EXCEPT ![h.kind] = Append(@, now)]
                 /\ worthy' = [worthy EXCEPT ![h.kind] = h.at]
            ELSE UNCHANGED <<fired, worthy>>
    /\ UNCHANGED <<env, settings, memory, received, sampled, alert_events>>

(* The cooldown begins at the time the message arrived.  sendWebhook never *)
(* throws, and nothing waits for it.                                       *)
Fire(s) ==
    /\ handling[s] # Idle /\ handling[s].fire = "decide"
    /\ LET h == handling[s] IN
       /\ Put(s, [h EXCEPT !.fire = "done"])
       /\ IF CallsForAlert(h.kind, h.cpu, h.url, h.limit)
            THEN /\ alertCooldowns' = [alertCooldowns EXCEPT ![h.kind] = h.at]
                 /\ fired' = [fired EXCEPT ![h.kind] = Append(@, now)]
                 /\ worthy' = [worthy EXCEPT ![h.kind] = h.at]
            ELSE UNCHANGED <<alertCooldowns, fired, worthy>>
    /\ UNCHANGED <<env, settings, thresholdCache, highCpuActive, received,
                   sampled, alert_events>>

-----------------------------------------------------------------------------
(* PATCH /api/servers/:id writes another threshold or url.                 *)
Configure(c) ==
    /\ c # config /\ config' = c
    /\ configured < MaxConfigured /\ configured' = configured + 1
    /\ Settled
    /\ configuredAt' = IF c.threshold = config.threshold THEN configuredAt ELSE now
    /\ UNCHANGED <<env, memory, handling, ghosts, alert_events, fired>>

(* The maps of the process start empty again.                              *)
Restart ==
    /\ "restart" \in env
    /\ alertCooldowns' = [k \in Kind |-> 0] /\ thresholdCache' = NotCached
    /\ highCpuActive' = FALSE /\ handling' = [s \in Slot |-> Idle]
    /\ UNCHANGED <<env, settings, ghosts, alert_events, fired>>

AlertNext ==
    \/ \E s \in Slot :
        \/ Died(s)
        \/ \E cpu \in Level : StatsCached(s, cpu) \/ StatsCold(s, cpu)
        \/ ReadThreshold(s) \/ Judge(s) \/ Record(s) \/ ReadConfig(s) \/ Fire(s)
    \/ \E c \in Config : Configure(c)
    \/ Restart

-----------------------------------------------------------------------------
(* Properties.                                                             *)

(* "One fire per 10 minutes" (alerts.ts): two webhooks of one kind are     *)
(* posted at least a cooldown apart, unless a message arrives while another *)
(* waits for the url, or the backend restarts.                             *)
FiresApart ==
    env \cap {"slowFire", "restart"} = {} =>
        \A k \in Kind : \A i \in 1..Len(fired[k]) - 1 :
            fired[k][i + 1] - fired[k][i] >= ALERT_COOLDOWN_MS

(* A cooldown hides nothing new: the last message of a kind that called    *)
(* for an alert when it was looked at came less than a cooldown after a    *)
(* webhook, or has one of its own; however slow the reads, and also if     *)
(* some of them fail or the backend restarts.                              *)
Announced ==
    \A k \in Kind :
        worthy[k] # 0 => \E i \in 1..Len(fired[k]) :
            worthy[k] < fired[k][i] + ALERT_COOLDOWN_MS

(* What the Alerts page shows: rows for the cpu alternate, and once a      *)
(* threshold has been in force for THRESHOLD_CACHE_MS the last row is      *)
(* "fired" exactly if the last sample reached it; unless a sample waits    *)
(* for its threshold or its row when the next arrives, a call fails or the *)
(* backend restarts.                                                       *)
HistoryTells ==
    env \subseteq {"slowFire"} =>
        /\ \A i \in 1..Len(alert_events) :
            alert_events[i] = IF i % 2 = 1 THEN "fired" ELSE "resolved"
        /\ (\A s \in Slot : handling[s] = Idle \/ handling[s].record = "done")
             /\ sampled.at - configuredAt >= THRESHOLD_CACHE_MS
             => (Len(alert_events) % 2 = 1 <=> sampled.cpu >= config.threshold)
=============================================================================

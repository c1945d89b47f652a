------------------------------- MODULE Uptime -------------------------------
(***************************************************************************)
(* The history of one server's agent connection, agent_status_events:      *)
(* written when a connection is made or ends (server/ws/agentConnection.ts),*)
(* swept by the age its owner's plan allows (services/retentionService.ts) *)
(* and read by GET /:id/uptime (routes/servers/metrics.ts), which adds up  *)
(* the time between the events of the last Window.                         *)
(***************************************************************************)
EXTENDS Clock, FiniteSets, SequencesExt

CONSTANTS
    Window,       \* UPTIME_WINDOW_DAYS
    Retentions,   \* retentionDays of the plans
    MaxEvents     \* bound: connections made or ended

ASSUME UptimeAssumption == Window \in Nat /\ Retentions \subseteq Nat /\ MaxEvents \in Nat

(***************************************************************************)
(* sweep: old events are deleted; eventLost: a connection ends without an  *)
(* event, with the backend, or the insert fails; overlap: the agent is     *)
(* back before the backend has noticed the end of its last connection;     *)
(* seedFails: the route may fail to read the event before the window.      *)
(***************************************************************************)
UptimeCircumstances == {"sweep", "eventLost", "overlap", "seedFails"}

VARIABLES
    happen,      \* the circumstances of this behaviour
    sockets,     \* open connections of the agent
    events,      \* agent_status_events
    changes,     \* connections made or ended so far
    first,       \* when the first connection was made, if one was
    online       \* the moments from which to the next there was a connection

uptimeVars == <<happen, sockets, events, changes, first, online>>

UptimeTypeOK ==
    /\ sockets \in 0..2 /\ changes \in 0..MaxEvents
    /\ events \in Seq([ts : Moment, connected : BOOLEAN])
    /\ first \in {0} \cup Moment /\ online \subseteq Moment

(* The server is created at Start.                                         *)
UptimeInit ==
    /\ sockets = 0 /\ changes = 0
    /\ events = <<>> /\ first = 0 /\ online = {}

Insert(connected) ==
    \/ events' = Append(events, [ts |-> now, connected |-> connected])
    \/ "eventLost" \in happen /\ UNCHANGED events

Connects ==
    /\ changes < MaxEvents /\ changes' = changes + 1
    /\ sockets = 0 \/ ("overlap" \in happen /\ sockets = 1)
    /\ sockets' = sockets + 1 /\ Insert(TRUE)
    /\ first' = IF first = 0 THEN now ELSE first
    /\ UNCHANGED <<happen, online>>

Closes ==
    /\ changes < MaxEvents /\ changes' = changes + 1
    /\ sockets > 0 /\ sockets' = sockets - 1 /\ Insert(FALSE)
    /\ UNCHANGED <<happen, first, online>>

(* Rows carry the time of their insertion: those older than ts are the     *)
(* first ones, up to this one.                                             *)
Older(ts) == Max({0} \cup {i \in DOMAIN events : events[i].ts < ts})

(* runRetentionCleanup: events older than the owner's plan of the moment   *)
(* keeps them are deleted.                                                 *)
Sweep(retentionDays) ==
    /\ "sweep" \in happen
    /\ events' = SubSeq(events, Older(now - retentionDays) + 1, Len(events))
    /\ UNCHANGED <<happen, sockets, changes, first, online>>

UptimeNext ==
    \/ Connects \/ Closes
    \/ \E retentionDays \in Retentions : Sweep(retentionDays)

(* Time passes, with or without a connection.                              *)
UptimePasses ==
    /\ online' = IF sockets > 0 THEN online \cup {now} ELSE online
    /\ UNCHANGED <<happen, sockets, events, changes, first>>

-----------------------------------------------------------------------------
(* GET /:id/uptime.                                                        *)

EffectiveStart == IF now - Window > Start THEN now - Window ELSE Start

Since == SubSeq(events, Older(EffectiveStart) + 1, Len(events))

(* Slip: an agent is assumed online at the start of the window, whatever   *)
(* happened before it.                                                     *)
SeedAlways(read) == TRUE

(* The state at the start: assumed online if there is no earlier event, or *)
(* it could not be read, an error that is not looked at.                   *)
Seed(read) ==
    LET seed == Older(EffectiveStart)
    IN  IF seed = 0 \/ ~read THEN TRUE ELSE events[seed].connected

(* The loop over the events: the state since the last, and the time        *)
(* connected before it.                                                    *)
Until(a, ts) == a.ms + (IF a.currentState THEN ts - a.cursor ELSE 0)
AddUp(a, e) == [currentState |-> e.connected, cursor |-> e.ts, ms |-> Until(a, e.ts)]

(* connectedMs: the uptime is this out of now - EffectiveStart.            *)
ConnectedMs(read) ==
    Until(FoldLeft(AddUp, [currentState |-> Seed(read), cursor |-> EffectiveStart, ms |-> 0], Since),
          now)

Readings == {TRUE} \cup (IF "seedFails" \in happen THEN {FALSE} ELSE {})

-----------------------------------------------------------------------------
(* The time the agent was connected within the window, and the time before *)
(* its first connection, for which it is "assumed online".                 *)
Credited ==
    {t \in EffectiveStart..now - 1 : t \in online \/ first = 0 \/ t < first}

(* The time before the first event in the window, if none before it was    *)
(* read: it was swept, there never was one, or the read failed.            *)
Guessed(read) ==
    {t \in EffectiveStart..now - 1 :
        (read => Older(EffectiveStart) = 0) /\ \A i \in DOMAIN Since : t < Since[i].ts}

(* GET /:id/uptime reports the time the agent was connected, the one       *)
(* before its first connection included, neither more nor less, if every   *)
(* event is kept and read.  After a sweep or a failed read it adds exactly *)
(* the time before the first event it finds, if that is all it has.        *)
UptimeTrue ==
    happen \cap {"eventLost", "overlap"} = {} =>
        \A read \in Readings :
            /\ ConnectedMs(read) = Cardinality(Credited \cup Guessed(read))
            /\ happen \cap {"sweep", "seedFails"} = {} => ConnectedMs(read) = Cardinality(Credited)
=============================================================================

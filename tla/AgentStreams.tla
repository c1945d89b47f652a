----------------------------- MODULE AgentStreams -----------------------------
(***************************************************************************)
(* The long-lived streams an agent holds on behalf of its connection: the  *)
(* interactive shells (agent/src/ws.js execSessions, driven by the         *)
(* browser's ExecModal through the relay) and the Docker event stream      *)
(* (watchDockerEvents).  Both are opened by an asynchronous Docker call    *)
(* that may answer after the reason for it is gone.                        *)
(*                                                                         *)
(* A session id is a fresh UUID, so the user opens it once; but ExecModal  *)
(* is part of a page that the Layout takes away while the agent is offline *)
(* and useExecStore outlives it, so the modal may be mounted again for the *)
(* same session, and a second shell started: <<s, i>> is the shell of the  *)
(* i-th mount of s.  The backend handles each browser message in an async  *)
(* function of its own, with two database reads before it is forwarded:    *)
(* messages in `relay` reach the agent in any order.  From the agent to    *)
(* the browser each message awaits a read of the members (MemberCast);     *)
(* they keep their order while those are answered from the cache.          *)
(***************************************************************************)
EXTENDS Naturals, SequencesExt, FiniteSets

CONSTANTS
    Session,      \* session ids
    NoSession,    \* the modal is closed
    Watch,        \* event watchers that exist at the same time
    NoWatch,      \* stopEvents is null
    MaxOutbox,    \* bound: messages of the agent under way to the browser
    MaxMounts,    \* bound: mounts of the modal for one session
    MaxShells,    \* bound: mounts of the modal
    StreamEnvironments  \* the sets of circumstances to consider

(***************************************************************************)
(* linkLoss: the agent's WebSocket closes and is opened again; refusal:    *)
(* the relay refuses a message (rate limit, role, lookup), or the browser  *)
(* cannot send it; hasty: the user closes the terminal before its shell    *)
(* has started; tabClosed: the tab is closed or reloaded, so no cleanup of *)
(* React runs; slowEvents: Docker answers getEvents after the link it was  *)
(* called for is gone; slowExec: the same of exec; dockerRestart: the      *)
(* event stream breaks off; slowRead: the members are read for a message   *)
(* while those of a later one are known, which overtakes it; readFails:    *)
(* they cannot be read, and the message is lost; remount: the user leaves  *)
(* the page and comes back with the terminal open, or the agent is back    *)
(* before the tab knew it was gone, the relay let go of its messages or    *)
(* the closed shells ended.                                                *)
(***************************************************************************)
Circumstances == {"linkLoss", "refusal", "hasty", "tabClosed", "slowEvents",
                  "slowExec", "dockerRestart", "slowRead", "readFails", "remount"}

ASSUME SentinelAssumption == NoSession \notin Session /\ NoWatch \notin Watch
ASSUME OutboxAssumption == MaxOutbox \in Nat
ASSUME MountsAssumption == MaxMounts \in Nat \ {0} /\ MaxShells \in Nat
ASSUME StreamEnvironmentAssumption == StreamEnvironments \subseteq SUBSET Circumstances

VARIABLES
    env,           \* the circumstances of this behaviour
    link,          \* the agent's WebSocket is open
    page,          \* the page of the containers, with the modal, is mounted
    shown,         \* the session useExecStore is open for
    status,        \* useExecStore's status
    mounts,        \* mounts[s]: times the modal was mounted for session s
    relay,         \* messages in the backend, on their way to the agent
    starting,      \* startExecSession awaited
    execSessions,  \* the agent's map of active sessions
    live,          \* the shells whose Docker stream has not ended
    ending,        \* those whose stream.end() was called
    outbox,        \* messages on their way to the browser
    stopEvents,    \* the watcher whose cleanup function is kept
    watcher        \* watcher[w]: "free", "opening" or "open"

execVars   == <<starting, execSessions, live, ending>>
clientVars == <<page, shown, status, mounts>>
eventVars  == <<stopEvents, watcher>>
streamVars == <<env, link, page, shown, status, mounts, relay, starting, execSessions,
                live, ending, outbox, stopEvents, watcher>>

Status == {"idle", "connecting", "ready", "exited", "error"}
Kinds == {"ready", "data", "exit", "error"}
Mounts == 1..MaxMounts
Shell == Session \X Mounts

(* Every variable has its type.                                            *)
StreamTypeOK ==
    /\ env \in StreamEnvironments /\ link \in BOOLEAN /\ page \in BOOLEAN
    /\ shown \in Session \cup {NoSession} /\ status \in Status
    /\ mounts \in [Session -> 0..MaxMounts]
    /\ relay \subseteq {"start", "stop"} \X Session \X Mounts
    /\ starting \subseteq Shell /\ execSessions \subseteq Shell
    /\ live \subseteq Shell /\ ending \subseteq Shell
    /\ outbox \in Seq(Kinds \X Session)
    /\ stopEvents \in Watch \cup {NoWatch}
    /\ watcher \in [Watch -> {"free", "opening", "open"}]

StreamInit ==
    /\ env \in StreamEnvironments /\ link = FALSE /\ page = FALSE
    /\ shown = NoSession /\ status = "idle" /\ mounts = [s \in Session |-> 0]
    /\ relay = {} /\ outbox = <<>>
    /\ starting = {} /\ execSessions = {} /\ live = {} /\ ending = {}
    /\ stopEvents = NoWatch /\ watcher = [w \in Watch |-> "free"]

-----------------------------------------------------------------------------
(* The browser: ExecModal and useExecStore.                                *)

(* The modal's effect: containers:exec:start.                              *)
Mount(s) ==
    /\ mounts[s] < MaxMounts /\ Cardinality({e \in Shell : e[2] <= mounts[e[1]]}) < MaxShells
    /\ mounts' = [mounts EXCEPT ![s] = @ + 1]
    /\ relay' = relay \cup {<<"start", s, mounts[s] + 1>>}

(* The effect's cleanup: containers:exec:stop.                             *)
Unmount(s) == relay' = relay \cup {<<"stop", s, mounts[s]>>}

(* openFor().                                                              *)
OpenModal(s) ==
    /\ page /\ shown = NoSession /\ mounts[s] = 0
    /\ shown' = s /\ status' = "connecting"
    /\ Mount(s)
    /\ UNCHANGED <<env, link, page, execVars, outbox, eventVars>>

(* close(), from the modal.                                                *)
CloseModal ==
    /\ page /\ shown # NoSession
    /\ \/ "hasty" \in env
       \/ /\ <<"start", shown, mounts[shown]>> \notin relay
          /\ <<shown, mounts[shown]>> \notin starting
    /\ shown' = NoSession /\ status' = "idle"
    /\ Unmount(shown)
    /\ UNCHANGED <<env, link, page, mounts, execVars, outbox, eventVars>>

(* The store goes with the tab; the page comes with the first statuses.    *)
CloseTab ==
    /\ "tabClosed" \in env /\ shown # NoSession
    /\ page' = FALSE /\ shown' = NoSession /\ status' = "idle"
    /\ UNCHANGED <<env, link, mounts, relay, execVars, outbox, eventVars>>

(* The Layout takes the page away: agent:offline, or the user leaves it.   *)
PageLeaves ==
    /\ page /\ (~link \/ "remount" \in env)
    /\ page' = FALSE
    /\ IF shown # NoSession THEN Unmount(shown) ELSE UNCHANGED relay
    /\ UNCHANGED <<env, link, shown, status, mounts, execVars, outbox, eventVars>>

(* agent:online, or the user comes back: what useExecStore is open for is  *)
(* mounted again, with the status it had.                                  *)
PageReturns ==
    /\ ~page /\ (link \/ "remount" \in env)
    /\ page' = TRUE
    /\ IF shown # NoSession THEN Mount(shown) ELSE UNCHANGED <<mounts, relay>>
    /\ UNCHANGED <<env, link, shown, status, execVars, outbox, eventVars>>

(* The messages whose read of the members may be answered next.            *)
Arriving == {i \in 1..Len(outbox) : i = 1 \/ "slowRead" \in env}

StatusAfter == [ready |-> "ready", exit |-> "exited", error |-> "error"]

(* Slip: setStatus does not compare the session.                           *)
ClientReceiveAny(i) ==
    /\ LET kind == outbox[i][1] IN
       status' = IF shown # NoSession /\ kind # "data" THEN StatusAfter[kind] ELSE status
    /\ outbox' = RemoveAt(outbox, i)
    /\ UNCHANGED <<env, link, page, shown, mounts, relay, execVars, eventVars>>

(* handleSocketMessages: setStatus looks at the session, a data chunk goes *)
(* to the listener.                                                        *)
ClientReceive(i) ==
    /\ LET kind == outbox[i][1] IN
       status' = IF outbox[i][2] = shown /\ kind # "data" THEN StatusAfter[kind] ELSE status
    /\ outbox' = RemoveAt(outbox, i)
    /\ UNCHANGED <<env, link, page, shown, mounts, relay, execVars, eventVars>>

(* getServerMemberIds fails and nothing is cached.                         *)
ClientMisses(i) ==
    /\ "readFails" \in env
    /\ outbox' = RemoveAt(outbox, i)
    /\ UNCHANGED <<env, link, clientVars, relay, execVars, eventVars>>

-----------------------------------------------------------------------------
(* The agent: exec sessions.                                               *)

EntriesOf(s) == {e \in execSessions : e[1] = s}

(* send(): dropped unless the current WebSocket is open.                   *)
Sent(kind, s) == IF link THEN Append(outbox, <<kind, s>>) ELSE outbox

(* handleExecStart calls startExecSession and awaits it.                   *)
ExecStart(s, i) ==
    /\ link /\ <<"start", s, i>> \in relay
    /\ relay' = relay \ {<<"start", s, i>>}
    /\ starting' = starting \cup {<<s, i>>}
    /\ UNCHANGED <<env, link, clientVars, execSessions, live, ending, outbox, eventVars>>

(* The stream is there: into the map, in the place of an earlier one of    *)
(* the session; listeners on, and ready is sent.                           *)
ExecStarted(s, i) ==
    /\ <<s, i>> \in starting
    /\ starting' = starting \ {<<s, i>>}
    /\ live' = live \cup {<<s, i>>}
    /\ execSessions' = (execSessions \ EntriesOf(s)) \cup {<<s, i>>}
    /\ outbox' = Sent("ready", s)
    /\ UNCHANGED <<env, link, clientVars, relay, ending, eventVars>>

ExecFailed(s, i) ==
    /\ <<s, i>> \in starting
    /\ starting' = starting \ {<<s, i>>}
    /\ outbox' = Sent("error", s)
    /\ UNCHANGED <<env, link, clientVars, relay, execSessions, live, ending, eventVars>>

ExecOutput(s, i) ==
    /\ <<s, i>> \in live /\ Len(outbox) < MaxOutbox
    /\ outbox' = Sent("data", s)
    /\ UNCHANGED <<env, link, clientVars, relay, execVars, eventVars>>

(* Slip: the 'end' listener leaves the entry in the map.                   *)
ExecEndKeepsEntry(s, i) ==
    /\ <<s, i>> \in live
    /\ live' = live \ {<<s, i>>} /\ ending' = ending \ {<<s, i>>}
    /\ outbox' = Sent("exit", s)
    /\ UNCHANGED <<env, link, clientVars, relay, starting, execSessions, eventVars>>

(* Slip: the browser is not told.                                          *)
ExecEndSilent(s, i) ==
    /\ <<s, i>> \in live
    /\ live' = live \ {<<s, i>>} /\ ending' = ending \ {<<s, i>>}
    /\ execSessions' = execSessions \ EntriesOf(s)
    /\ UNCHANGED <<env, link, clientVars, relay, starting, outbox, eventVars>>

(* stream.on('end') or 'error': the shell exited, or was told to.  The     *)
(* session's entry goes, even if it is that of another of its shells.      *)
ExecEnd(s, i) ==
    /\ <<s, i>> \in live
    /\ live' = live \ {<<s, i>>} /\ ending' = ending \ {<<s, i>>}
    /\ execSessions' = execSessions \ EntriesOf(s)
    /\ outbox' = Sent("exit", s)
    /\ UNCHANGED <<env, link, clientVars, relay, starting, eventVars>>

(* Slip: the stop of a session is not passed on to its stream.             *)
ExecStopIgnored(s, i) ==
    /\ link /\ <<"stop", s, i>> \in relay
    /\ relay' = relay \ {<<"stop", s, i>>}
    /\ UNCHANGED <<env, link, clientVars, execVars, outbox, eventVars>>

(* handleExecStop, closeExecSession: nothing happens without an entry;     *)
(* stream.end() leads to 'end' later on.                                   *)
ExecStop(s, i) ==
    /\ link /\ <<"stop", s, i>> \in relay
    /\ relay' = relay \ {<<"stop", s, i>>}
    /\ execSessions' = execSessions \ EntriesOf(s)
    /\ ending' = ending \cup EntriesOf(s)
    /\ UNCHANGED <<env, link, clientVars, starting, live, outbox, eventVars>>

(* The relay refuses a message, as it always does without an agent.        *)
Refuse(m) ==
    /\ "refusal" \in env \/ ~link
    /\ relay' = relay \ {m}
    /\ UNCHANGED <<env, link, clientVars, execVars, outbox, eventVars>>

-----------------------------------------------------------------------------
(* The agent: its connection and the event stream.                         *)

(* ws.on('open'): a new watcher.                                           *)
LinkUp(w) ==
    /\ ~link /\ watcher[w] = "free"
    /\ "remount" \in env \/ (~page /\ relay = {} /\ ending = {})
    /\ link' = TRUE
    /\ stopEvents' = w /\ watcher' = [watcher EXCEPT ![w] = "opening"]
    /\ UNCHANGED <<env, clientVars, relay, execVars, outbox>>

(* docker.getEvents calls back; from now on the stop function destroys     *)
(* the stream, if it is ever called again.                                 *)
EventsOpen(w) ==
    /\ watcher[w] = "opening"
    /\ watcher' = [watcher EXCEPT ![w] = "open"]
    /\ UNCHANGED <<env, link, clientVars, relay, execVars, outbox, stopEvents>>

EventsFail(w) ==
    /\ watcher[w] = "opening"
    /\ watcher' = [watcher EXCEPT ![w] = "free"]
    /\ UNCHANGED <<env, link, clientVars, relay, execVars, outbox, stopEvents>>

(* The Docker daemon goes away: 'error' is logged, nobody watches again.   *)
EventsEnd(w) ==
    /\ "dockerRestart" \in env
    /\ watcher[w] = "open"
    /\ watcher' = [watcher EXCEPT ![w] = "free"]
    /\ UNCHANGED <<env, link, clientVars, relay, execVars, outbox, stopEvents>>

(* Slip: the stream is not destroyed when the connection closes.           *)
CleanupForgotten ==
    /\ stopEvents' = NoWatch
    /\ UNCHANGED watcher

(* cleanup(): stopEvents() destroys a stream that is open, and can do      *)
(* nothing about one that is not yet.                                      *)
Cleanup ==
    /\ stopEvents' = NoWatch
    /\ watcher' = [w \in Watch |->
            IF w = stopEvents /\ watcher[w] = "open" THEN "free" ELSE watcher[w]]

(* ws.on('close'): cleanup and closeAllExecSessions; of what was under way *)
(* to the browser the last may be lost.                                    *)
LinkDown ==
    /\ link /\ "linkLoss" \in env
    /\ "slowEvents" \in env \/ \A w \in Watch : watcher[w] # "opening"
    /\ "slowExec" \in env \/ starting = {}
    /\ link' = FALSE
    /\ Cleanup
    /\ execSessions' = {} /\ ending' = ending \cup execSessions
    /\ \E k \in 0..Len(outbox) : outbox' = SubSeq(outbox, 1, k)
    /\ UNCHANGED <<env, clientVars, relay, starting, live>>

StreamNext ==
    \/ \E s \in Session : OpenModal(s)
    \/ CloseModal \/ CloseTab \/ PageLeaves \/ PageReturns
    \/ \E i \in Arriving : ClientReceive(i) \/ ClientMisses(i)
    \/ \E s \in Session, i \in Mounts :
        \/ ExecStart(s, i) \/ ExecStarted(s, i) \/ ExecFailed(s, i)
        \/ ExecOutput(s, i) \/ ExecEnd(s, i) \/ ExecStop(s, i)
    \/ \E m \in relay : Refuse(m)
    \/ \E w \in Watch : LinkUp(w) \/ EventsOpen(w) \/ EventsFail(w) \/ EventsEnd(w)
    \/ LinkDown

StreamSpec == StreamInit /\ [][StreamNext]_streamVars

(***************************************************************************)
(* The relay forwards what it does not refuse, Docker answers, a stream    *)
(* that was ended ends, and messages arrive.  Nothing obliges a user to    *)
(* close a terminal or a shell to exit by itself.                          *)
(***************************************************************************)
StreamFairness ==
    /\ \A s \in Session, i \in Mounts :
        /\ WF_streamVars(ExecStart(s, i)) /\ WF_streamVars(ExecStop(s, i))
        /\ WF_streamVars(ExecStarted(s, i) \/ ExecFailed(s, i))
        /\ WF_streamVars(<<s, i>> \in ending /\ ExecEnd(s, i))
    /\ WF_streamVars(\E i \in Arriving : ClientReceive(i))

StreamFairSpec == StreamSpec /\ StreamFairness

-----------------------------------------------------------------------------
(* Properties.                                                             *)

(* A terminal is what the modal shows of a session from its opening until  *)
(* it is closed or its page taken away; its shell is the one it started.   *)
OnScreen(s) == page /\ shown = s /\ mounts[s] = 1

(* While messages keep their order, a terminal that shows its session as   *)
(* ended never shows it as running again, and one that was ready is not    *)
(* connecting again.                                                       *)
StatusNeverGoesBack ==
    [][\A s \in Session :
        "slowRead" \notin env /\ OnScreen(s) /\ OnScreen(s)' =>
            /\ status \in {"exited", "error"} => status' = status
            /\ status = "ready" => status' # "connecting"]_streamVars

(* Terminals, of this system.                                              *)
ShellOf(s) ==
    IF <<s, 1>> \in live THEN "running"
    ELSE IF mounts[s] > 0 /\ <<"start", s, 1>> \notin relay /\ <<s, 1>> \notin starting
      THEN "over"
    ELSE "none"
ScreenOf(s) ==
    IF OnScreen(s) THEN status ELSE IF mounts[s] > 0 THEN "left" ELSE "unopened"

Seen == INSTANCE Terminals
    WITH shell <- [s \in Session |-> ShellOf(s)], screen <- [s \in Session |-> ScreenOf(s)]

(* While messages keep their order (no "slowRead"), the browser, the       *)
(* relay, the agent and Docker together keep what Terminals promises: with *)
(* messages refused, lost or overtaken on the way to the agent, shells     *)
(* that start after their terminal is gone or their connection lost, and   *)
(* pages taken away.  Of a terminal that is mounted again, and may show    *)
(* the shell of an earlier mount, nothing is promised.                     *)
TerminalSpec ==
    /\ Seen!Init
    /\ []["slowRead" \notin env => Seen!Next]_(Seen!vars)

(* A user who closes a terminal after its shell has started, or whose      *)
(* agent loses its connection, leaves no shell behind: every shell whose   *)
(* terminal is gone, closed or mounted anew, ends; provided the relay does *)
(* not refuse the stop, the tab is not simply closed, and, when the page   *)
(* is taken away, Docker, the relay and the shells are done with the one   *)
(* mount before the next.                                                  *)
ShellsEnd ==
    env \cap {"refusal", "hasty", "tabClosed", "slowExec", "remount"} = {} =>
        \A s \in Session, i \in Mounts :
            (<<s, i>> \in live /\ (shown # s \/ i < mounts[s])) ~> <<s, i>> \notin live

(* As long as the agent stays connected, its messages keep their order and *)
(* the page stays, a terminal that was ready is told that its shell has    *)
(* ended.                                                                  *)
TerminalLearnsEnd ==
    env \cap {"linkLoss", "slowRead", "readFails", "remount"} = {} =>
        \A s \in Session :
            (shown = s /\ status = "ready" /\ <<s, 1>> \notin live)
                ~> (shown # s \/ status # "ready")

(* watchDockerEvents "returns an abort function to stop listening": while  *)
(* Docker answers before the connection is lost, at most one event stream  *)
(* is open, it is the one stopEvents can end, and none is open without a   *)
(* connection, so no event is sent twice.                                  *)
OneEventStream ==
    "slowEvents" \notin env =>
        \A w \in Watch : watcher[w] = "open" => stopEvents = w /\ link

(* Sessions are "cleaned up on stream end/agent disconnect/shutdown"       *)
(* (V2-PLAN.md): an entry of execSessions is a stream that has not ended,  *)
(* so no input is written to a dead one and the map does not grow; and     *)
(* without a connection there is none, as long as Docker answers an exec   *)
(* before the connection it was asked on is lost.                          *)
SessionsCleanedUp ==
    /\ execSessions \subseteq live
    /\ "slowExec" \notin env /\ ~link => execSessions = {}
=============================================================================

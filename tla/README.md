# doco-pilot in TLA+

doco-pilot lets a user watch and operate Docker hosts from a browser. An *agent*
(a Node process next to the Docker daemon, `agent/`) keeps one WebSocket to the
*backend* (Express and `ws`, `server/`), which stores accounts, servers and history
in Postgres and relays between the agents and the *browsers* (React, `client/`) of
a server's members. These modules describe the parts of it where the order of
steps decides, TLC checks them on small instances, and TLAPS proves their safety
properties for every instance.

## The system

| Part | State it keeps | Operations | Talks to |
|---|---|---|---|
| agent, `agent/src/ws.js` | `ws`, `reconnectMs`, a reconnect timer, `stopEvents`, `execSessions` | connect, open, close, reconnect with backoff, shutdown; start, input, resize, stop of a shell; Docker events | backend by WebSocket, Docker by its API |
| Docker operations, `agent/src/docker.js`, `actions.js`, `stacks.js` | none but Docker's and the compose files on disk | list, start ... remove, pull, build, prune; deploy and stop a stack | Docker, Compose; answers to the backend |
| agent connection, `server/ws/agentConnection.ts` | `agentSockets`; `servers.agent_connected`, `agent_status_events` | handshake with four awaits, message, close | agent, database, relay, alerts |
| key management, `routes/servers/core.ts` | `agent_key_hash` | create, regenerate | database; meets handshakes in progress |
| server and member routes, `routes/servers/` | `servers`, `server_members` | create, delete, invite, set role, remove | database; invalidates the relay's cache |
| relay, `server/ws/broadcast.ts`, `clientConnection.ts` | `memberIdsCache`, `clientSockets` | broadcast to members, open and close of a tab | database, browsers |
| command gate, `server/ws/commandHandler.ts`, `middleware/rateLimiter.ts` | `wsCounters` | one command: limit, allowlist, role, connection, forward | database, `agentSockets`, agent |
| accounts, `routes/auth/password.ts`, `verification.ts`, `google.ts` | `profiles`, `email_verifications`, the state cookie | register, verify, resend, sign in with Google | database, mail, Google |
| sessions, `routes/auth/`, `client/src/lib/axios.js` | `refresh_tokens`, `password_resets`, cookies | login, refresh, logout, change and reset of the password | database, mail, browsers |
| alerts, `server/ws/alerts.ts` | `alertCooldowns`, `thresholdCache`, `highCpuActive`; `alert_events` | judge a message, write history, post a webhook | database, user's webhook |
| uptime, `routes/servers/metrics.ts`, `services/retentionService.ts` | `agent_status_events` | compute, sweep | database |
| container pages, `lib/websocket-handlers.js`, `Containers.jsx` | the stores container, system, logs, inspect | ask for a list, apply events, press a button, open a modal | backend by WebSocket |
| host pages, `Images.jsx`, `Networks.jsx`, `Volumes.jsx` | their stores, marks of pressed buttons, timers, the build modal | the same, asking again on an answer or after a fixed time | backend by WebSocket |
| stacks page, `Stacks.jsx`, `StackEditorModal.jsx`, `StackOpModal.jsx` | saved stacks (in the database), running ones, operation, editor | save, deploy, stop, remove | backend by REST and WebSocket |

What is hard about it: every handler of the backend is an `async` function that
gives way at each database call, so handlers of several messages, connections and
requests interleave, none holds a lock, and what they read may be outdated when
they use it. State is kept twice (registry and column, cache and table, memory and
history, host and page), connections end at any moment, the backend may exit, and
most errors of writes are logged or ignored. A page learns of the host from lists,
events and answers that arrive in their own time. PROJECT.json lists the places,
under `hazards`.

What makes each part correct:

- link: a running agent is connected or about to try; the backend's records say so;
  an old key stops working; what an agent can be asked is relayed.
- streams: no shell or event stream outlives its reason, none is used after its end.
- routes: a server keeps an owner and is never half made, plans hold.
- relay: members get every message once and in order, others none.
- gate: a viewer can only look, the budget holds, nobody else is refused.
- accounts: one per mailbox and Google user, verified means proved, the last link
  works, a Google user comes back to the same account.
- sessions: tokens work once, one tab is not logged out by chance, a new password or
  a logout ends what it should.
- history: one webhook per cooldown and none lost, rows and uptime tell the truth.
- pages: when nothing is under way they show what the host has; what waits, waits
  for something; what is reported as done is done.

## Modules

Each component has one module, each `MC...` module instantiates it for TLC and each
`...Proofs` module has its theorems; AgentProofs those of AgentLink and AgentStreams
(the names of the latter begin with `Stream` where both have one), RelayProofs those of
MemberCast and CommandGate (`Gate`), PagesProofs those of HostPages and Stacks as Pages
composes them. The variables carry the names the code gives them
where it names them; ghost variables (what was sent, when something took effect)
are marked in the declarations.

A property often holds only while some circumstance does not arise (two connections
of one agent, a failed read). Each module therefore has a constant `Environments`:
the sets of circumstances to consider (in Tab, pairs of a page and such a set; in
Monitoring, the active part with a set for each). A behaviour picks one in
`Init` and keeps it, so one run covers many environments, and a property says in its
first conjunct which ones it is about. An action that needs a circumstance names it
in its guard.

A few definitions with the comment "Slip:" stand beside the action they alter; no
specification uses them. They are what PROJECT.json puts in its place under
`mutants`, to show that the property would notice.

**AgentLink** is the core: both ends of the agent's connection. `agt`, `timer`,
`backoff` are the agent's side; `srv`, `pc`, `ckey`, `seen` the handler of each
connection, with one value of `pc` per await of `handleAgentConnection` and of its
close listener; `agentSockets`, `agentConnected`, `lastEvent`, `lastNotice` the four
records of the agent's state. A write takes effect when its await resumes, so the
writes of two handlers land in either order. `Restart` is the exit and start of the
backend, `RegenerateKey` the route. Connections are identities that are used
again once both ends are done with them.
**AgentClient** is what the agent promises on its own: a phase (stopped, waiting,
trying, connected) and a delay that grows by a step per failure and starts over on a
success. AgentLink implements it (`Client == INSTANCE AgentClient WITH ...`,
`ClientSpec`).

**AgentStreams** follows shells from the browser's modal through the relay to Docker
and back, and the Docker event stream with its cleanup function. `relay` is a set,
since the backend forwards browser messages in any order; `outbox` is the sequence in
which the agent sent, of which the first message arrives next, or any one while the
backend reads the members (`Arriving`, `slowRead`), or none (`ClientMisses`). It takes the
link as a flag. The page with the modal is taken away when the agent is offline or the
user leaves it, while useExecStore stays open, so that the modal is mounted again for the
same session (`PageLeaves`, `PageReturns`): `mounts` counts the mounts, and a shell is a
session with the number of the mount that started it.
**Terminals** is what the four ends together promise of a terminal, from its opening
until it is closed or its page taken away: its shell begins at
most once and only for a terminal that was opened, and what the terminal says (ready,
exited, error) is so when it says it and never taken back. AgentStreams implements it
(`Seen`, `TerminalSpec`) while the agent's messages keep their order; of a terminal that
is mounted again nothing is promised. `ShellOf` reads the shell's state off the agent's
streams and the messages on their way, `ScreenOf` the terminal's off the modal.

**ServerAccess** has one request record per handler in progress, with a step for each
database round trip of the routes: role check, quota, inserts and their undo,
last-owner check, write.

**MemberCast** numbers an agent's messages and keeps for each broadcast in progress
what its read of the members answered; `cache` is the entry of `memberIdsCache`.

**CommandGate** contains the allowlists of the backend and the dispatch tables of the
agent as they are, the fixed-window limiter over a clock of ticks, and the three steps
of `handleClientCommand`. A counter's time is the end of its window; `passed`, a
ghost, is the sequence of moments at which a user's commands got through.

**Accounts** has a request record per handler as well, over the rows of `profiles` and
`email_verifications`, with the mails a user has received and the addresses Google
reports. `proofs`, `told` and `home` are ghosts: who proved a mailbox, whose user was
told so, where a Google user was signed in to.

**Sessions** steps through the other auth handlers. A token is a number and `epoch` the
number of password changes; `jar` holds the cookies of each browser, and `Carried`
which cookie the browser sends to which route.
**Logins** is what its user may believe: a session per browser that begins in a login,
lasts until it is ended, and that no change of the password leaves behind. Sessions
implements it (`Held`, `LoginsSpec`) while no request overlaps such a change and its
deletes go through: `SessionOf` finds a browser's session in its cookie, if that is
valid, or in the refresh that is exchanging it, so that a rotation is no step of Logins.

**Alerts** runs the two chains every message of the agent starts, the history and
the webhook, as two progress fields of a slot. **Uptime** appends status events,
sweeps them and computes the percentage's numerator as the route does, with a fold;
`ConnectedMs(FALSE)` is what it reports when the read of the event before the window failed.
**Monitoring** composes the two under **Clock**, which is all they share; its runs
look at one or the other.

**ContainerView** is one tab and the containers of its servers: `host` and `script`
are what Docker says and has yet to report, `feed` the events and statuses on their
way in the order in which they will arrive (`Overtakes` changes it, `Missed` loses one),
`jobs` the commands and questions whose answers arrive in any order;
`containers`, `logs`, `inspect` are the stores.
**Tab** has the same way to the agents for the other pages; **HostPages** (images,
networks, volumes) and **Stacks** add pages, stores and the agent's operations to it,
and **Pages** composes them: one page is open, statuses and walks concern both.
Of what lies between the browser and the host these four modules keep the effects: the
relay delivers, late or not at all if it has to read the members and cannot; the gate
admits or refuses, commands (`refuses`, `invalid`) and questions (`listFails`).

Two things are abstracted throughout. Names, payloads, ids and log texts are model
values or left out. A hash, signature or token either is the right one or is not.

## Runs

`tlc -config X.cfg MCX` in this directory. All runs were made with two workers.

| Run | Bounds | Properties | Shows |
|---|---|---|---|
| `agent_link` | 2 connections, 1 regeneration, 2 delays, 1 half-open connection; four sets of faults | `AgentAlwaysTrying`, `OldKeyRejected`, `StatusIsReal`, `RecordsAgree`, `RelayServesLiveAgent`, `AgentServed`, `ClientSpec` | one timer or connection, old keys rejected, the records of the connection, relaying, that the agent is served in the end; refinement of AgentClient |
| `agent_streams` | 2 sessions, 2 mounts, 2 event watchers, output while the outbox is empty; six sets of circumstances | `SessionsCleanedUp`, `OneEventStream`, `TerminalSpec`, `ShellsEnd`, `TerminalLearnsEnd` | entries are live and cleaned up, one event stream, shells end, terminals learn of it; refinement of Terminals |
| `server_access` | 2 servers, a free and a pro user, 2 requests | `KeepsAnOwner`, `WholeServers`, `WithinPlan` | an owner remains, no server is half made, plan limits |
| `member_cast` | 2 users, 3 tabs, 2 messages | `OnceInOrder`, `SteadyServed`, `ChangeTakesEffect` | once, in order, to members only; membership changes take effect |
| `command_gate` | 1 user, 2 commands at a time, limit 2, window 1 tick, 4 ticks; an action of each sort | `ViewersOnlyAsk`, `SlidingBudget`, `NoRefusalWithoutCause`, `RoleInForce` | viewers only ask, budget of any sliding minute, role in force, no refusal without cause |
| `accounts` | 3 mailboxes, 2 Google users, 2 requests, 2 accounts, 2 links, 3 sign-ins | `OneAccount`, `VerifiedTrue`, `LastLinkWorks`, `GoogleReturns` | unique accounts, honest verification, usable links, Google users find their account again |
| `sessions` | 2 browsers, 2 requests, 3 tokens, 2 password changes, 1 reset link | `SingleUse`, `StaysLoggedIn`, `ChangeEndsSessions` | single use, staying logged in, end of sessions on a change |
| `monitoring` | 4 moments, 3 agent messages, 2 in progress, 1 change of the settings; 6 connection changes; twelve sets of circumstances | `FiresApart`, `Announced`, `HistoryTells`, `UptimeTrue` | one webhook per cooldown, none swallowed, history and uptime tell the truth |
| `container_view` | 2 servers with 2 containers and 1, 2 operations; fifteen sets of circumstances | `ViewTrue`, `ProcessEnds`, `ModalTrue` | rows match the host, buttons come back, modals show their own container |
| `host_pages` | 2 servers, 2 items, 2 compose files, 2 presses; 39 pairs of page and circumstances | `ListTrue`, `MarksEnd`, `StacksTrue`, `OpHonest` | lists match the host, marks end, an operation's "done" is true |

Why the bounds suffice: the faults considered are about two actors that meet, an old
and a new connection, a stop and its start, a read and a write, two requests, two
tabs of a user and one of another, two operations on one page. Two of each, and a third
token, message, mailbox or tab where a predecessor must be superseded, let every such
meeting happen. The limiter needs a limit of at least two and more ticks than two
windows. The clock of Monitoring has one cooldown between its first and last moment, so
that a webhook may follow another, and room for an expired cache. The pages' circumstances
meet in twos and threes and not all at once: all together exceed what TLC explores
in minutes. Symmetry is used for requests, commands, servers, slots, browsers,
mailboxes, items and the tabs of one user, in runs without liveness properties.
`CHECK_DEADLOCK FALSE` is set where all shells, tokens, links, presses or moments may
be used up and nothing remains to be done.

Fairness, in the two modules with liveness properties: Node runs a due timer and
resumes a handler whose answer has arrived; the backend answers a handshake that
reached it; Docker answers; a stream that was ended ends; messages are delivered
unless the link is lost. Nothing makes a user close a terminal, a shell exit, an
operator start an agent, or the backend notice that a peer is gone (neither side
pings). `AgentServed` accordingly assumes that disturbances stop, and that
connections may overlap: an agent whose dead connection the
backend still holds reconnects next to it.

### What the code does otherwise than it says

Two runs end in a violation, each of one property that quotes the repository:

- `owners_overlap` (`AlwaysAnOwner`): two owners demote each other at once, both pass
  the last-owner check, and the server is left without an owner (members.ts:138).
- `logout_revokes` (`LogoutRevokes`): the refresh cookie's path is `/api/auth/refresh`,
  so a logout does not carry it and revokes nothing (utils/auth.ts:49).

Others have no run of their own; the provisos of the properties exclude them:

- The agent reconnects before the backend has noticed the end of its last connection;
  the late close deletes the *new* registry entry and the status sent to browsers is
  "offline" for a connected agent (agentConnection.ts:98; `overlap` in AgentLink).
- The backend listens only after two database calls, the agent sends its initial state
  on open; it can arrive before there is a listener (agentConnection.ts:76).
- A read of the members that began before a removal fills the cache after its
  invalidation; a removed member goes on receiving (broadcast.ts:23; `racingRead`).
- The comment in StackEditorModal.jsx:13 says the modal unmounts when closed, so that its
  form starts afresh; `return null` does not unmount it, and the form keeps the previous
  stack's text (`OpenEditor` in Stacks).
- Two messages of one agent overtake each other while the backend reads the members for
  the first (broadcast.ts:41-44; `slowRead` in MemberCast, AgentStreams, ContainerView and
  Tab). A `ready` after its `exit` makes a terminal say that it runs over a shell that is
  dead; a `kill` after its `die` leaves a row's buttons disabled; an `agent:offline` after
  its `agent:online` hides the page of a connected agent.
- ExecModal sits in a page that Layout.jsx:137 takes away while the agent is offline, and
  useExecStore stays open: back online, or when the user returns to the page, it is mounted
  again and asks for a second shell under the same session id. The terminal still says
  "ready" or "exited" from before; should both shells live, the first one's entry is
  overwritten, its end deletes the second one's, and a stop reaches one of them at most
  (`remount`, excluded from `ShellsEnd`; ExecModal.jsx:34-63, ws.js:41-54).
- A list or question that is refused by the limiter (commandHandler.ts:131), by Docker
  (ws.js:178-185) or by `docker compose ls` (stacks.js:72-86), or a failed query of the
  saved stacks, leaves the page with the rows it has, and nothing asks again (`listFails`).
- A deploy pressed between a save and the next answer of the query sends the compose file
  of the page's row, that is the one from before the save (Stacks.jsx:71, 93-96). `OpHonest`
  is about that row: the modal's "done" is true of what was sent, not of what is saved.
- `GET /:id/uptime` does not look at the error of the read of the event before the window
  (metrics.ts:86) and takes the agent for online (`seedFails`).
- A failed read of a role lets the last owner go, a burst of crashes posts several webhooks within a cooldown, and an exec
  that Docker answers late leaves a shell behind.
- A swept status history likewise makes `GET /:id/uptime` report 100% for an agent that has been
  offline for longer than the plan keeps events (7 days on the free plan, against a
  window of 30). `UptimeTrue` says how much the two add: the time before the first event
  the route finds.
- A status that reaches a page names no server, and `agent:online` mounts the page anew
  (Layout.jsx, `agentState`): when the agent of *another* server comes back while the
  page's own is away, the page looks connected, what it asks or commands then is
  dropped, and a mark or an old list stays (`StatusTells` in Tab, and the provisos of
  `ProcessEnds` and `ModalTrue`).
- The switch of websocket-handlers.js has no case for errors: a question or a prune that
  is refused is waited for as long as the page is open (`ModalTrue`, `MarksEnd`).

## Proofs

`tlapm XProofs.tla` checks the theorems of one proofs module. They hold for any sets of
connections, users, requests, containers, items and so on, any bounds and any set of
environments; the only assumptions are those the modules name: sentinels are not members
of the sets they complete, bounds are natural numbers, environments are sets of the
circumstances defined. Four are worth mention: `FiniteAssumption` of ServerAccess
(servers and users are finite sets, for the counts of the plans), `LinkAssumption` of
Sessions (reset links are not numbers, as tokens are), and in Alerts
`THRESHOLD_CACHE_MS` is positive and `ALERT_COOLDOWN_MS` in `1..Start`, so that a
last-fired time of 0 means never.

| Theorem | Property | Argument |
|---|---|---|
| AgentLink `TypeCorrect` | `TypeOK` | one step per action |
| `NeverGivesUp` | `AgentAlwaysTrying` | inductive with `TypeOK` |
| `StaleKeysRejected` | `OldKeyRejected` | `KeyInv`: the valid key never runs behind one that was seen, and what a handler in `compare` has read is at least the key valid when its connection came |
| `StatusReal` | `StatusIsReal` | `StatusInv`: without overlap at most one connection is busy on the backend, the registry names that one or a closed one, an admitted open connection is the one it names |
| `AgentIsServed` | `RelayServesLiveAgent` | `ColumnInv`: once markAgentConnected has landed for an open socket, only the close of that socket takes the column back |
| `RecordsAgreeAtRest` | `RecordsAgree` | `RecordsInv`: where each record stands at each step of the handlers |
| `ImplementsClient` | `ClientSpec` | every step maps to a step of AgentClient or to a stutter |
| AgentStreams `StreamTypeCorrect` | `StreamTypeOK` | one step per action |
| `NoDeadSessions`, `NoSecondEventStream` | `SessionsCleanedUp`, `OneEventStream` | `StreamsInv`: what is opening and open, and which watcher `stopEvents` is for |
| `StatusOneWay` | `StatusNeverGoesBack` (no run checks it; `TerminalSpec` says more) | `Story`: a session goes from the start of its first mount over the exec call and its stream to its last message, "ready" is of a shell that has begun, and after an end nothing more is on its way; `StreamsFit`: what was mounted how often |
| `ImplementsTerminals` | `TerminalSpec` | `Story`, `StreamsFit`; every step changes one shell or one terminal, or is a stutter |
| ServerAccess `NothingHalfMade` | `WholeServers` | `AccessInv`: a server in creation has no members, no other request is past the role check for it; `NoneLeft`: who would leave one behind |
| `LastOwnerStays` | `KeepsAnOwner` | `Serial`: one request at a time; `AnotherOwner`: who takes an owner away has seen another |
| `PlansHold` | `WithinPlan` | `Counted`: what was counted still holds when it is used |
| MemberCast `EachOnceInOrder` | `OnceInOrder` | `Numbered`: a message has one broadcast or none; a tab that has a message is past its broadcast |
| `SteadyUsersServed`, `ChangesTakeEffect` | `SteadyServed`, `ChangeTakesEffect` | `ServiceInv`: what was read of a settled user is what the database holds, also what the cache says; an outdated entry errs for earlier messages only |
| CommandGate `ViewersAskOnly`, `RefusalsHaveCauses`, `RelayedInForce` | `ViewersOnlyAsk`, `NoRefusalWithoutCause`, `RoleInForce` | `GateInv`: what the checks have seen is still so as far as nothing changed it |
| `GateTypeCorrect` | `GateTypeOK` | with `LimiterInv` |
| `TwiceTheLimit` | `SlidingBudget` | `LimiterInv`: `Windowed` says that the moments are in order, that a running counter is the number of those in its window and every other one is older than it, and that no earlier window held more than the limit; a sliding one meets two windows at most |
| Accounts `OneAccountEach` | `OneAccount` | `AccountsInv`: addresses are in lower case when they reach the table, so the unique columns are enough |
| `VerifiedIsTrue` | `VerifiedTrue` | `VerifiedInv`: handlers that mark or link an account have the proof, and while alone what they read of it is true |
| `LastLinkIsValid` | `LastLinkWorks` | `LinksInv`: the links a mailbox received are its account's own, the one that a handler is about to mail is valid, and so is the last one, unless the account is verified or a handler is between dropping and mailing its links |
| `GoogleComesBack` | `GoogleReturns` | `GoogleInv`: a Google user's home still carries its id, a linked account has an address of its user, and what a callback has looked up is still so |
| Sessions `PasswordEndsSessions` | `ChangeEndsSessions` | `SessionsInv` (shape of the requests), `ChangesAlone`, `NoStale`: rows of an earlier password are about to be purged and none is added |
| `UsedOnce` | `SingleUse` | `OneHolder`, `Exchanged`, `LinkUsed`: a token is the matter of one browser, one that was exchanged is gone |
| `NotLoggedOut` | `StaysLoggedIn` | `NewIsNew`, `InTable`: a new token is only in the answer that carries it; a current one is in its table or being exchanged |
| `ImplementsLogins` | `LoginsSpec` (checked by no run) | `NoStale`, `ChangesAlone`, `OneHolder`, and `AnswerValid`: the token an answer carries is valid and of the current password; `SessionIsCurrent`: a browser whose session is being renewed has that one only |
| Monitoring `OneFirePerCooldown` | `FiresApart` | `ApartInv`: at most one webhook chain waits, begun in this tick with the cooldown over; the cooldown runs from the last webhook |
| `NothingHidden` | `Announced` | `AnnouncedInv`: a running cooldown was begun by a message whose webhook was posted then or later |
| `PageTellsState` | `HistoryTells` | `TellInv`: one history chain waits at most; the parity of the rows is the state, or its opposite while a row is being written; a threshold fetched after the last change is the one in force |
| `UptimeIsTrue` | `UptimeTrue` | `UptimeInv`: what the rows tell is when the agent was connected; what is guessed before the first of them in the window; and what the route's loop adds up over any number of rows, by induction on them (`NatByStep`, `LoopOverEvents`) |
| ContainerView `ModalShowsItsOwn` | `ModalTrue` | `ModalInv`: what a modal shows and waits for is its container's, and so is each question under way |
| `MarksGoAway` | `ProcessEnds` | `ProcInv`: for each marked row there is a command under way, an event to come, a list yet to be answered or an "offline" on its way; the last status on its way is the agent's (`OfflineSeen`) |
| `ViewIsTrue` | `ViewTrue` | `ViewInv`: what a list has read and what the rows show differ from the host by what `script`, `feed` and `jobs` have still to deliver; the last event on its way for a container is the state it is in |
| Pages `MarksDoEnd` | `MarksEnd` | `MarksInv`: for a pull its live timer, for each other mark its command, as long as no "offline" is on its way |
| `OperationIsHonest` | `OpHonest` | `OpInv`: the operation has one command under way or is over; Compose runs the file that the command wrote, and "done" follows its success |
| `StacksAreTrue` | `StacksTrue` | `StacksInv`: what an answer under way has read is still so, and what the page shows is, unless a list or the end of a command is still to be handled |
| `ListIsTrue` | `ListTrue` | `ListInv`: answers under way have read the present host; a timer waits for its command or the list after it; the rows less the removed ones are the host's, or a list is announced |

Each of the other modules in the table has a `TypeCorrect` too (the pages' by their
`BaseInv`, with the shape of what is under way). Hardly one of the properties is inductive by
itself; most of the strengthenings were tried with TLC before they were proved. The step
lemmas at the head of each proofs module say what an action does to the requests or
messages in progress, field by field; the proofs of the invariants then have one
step per action.

Each of these theorems holds in the circumstances its property names, and the ones it
excludes are behaviours of the module all the same: the section above says what the code
does in them.

Some proofs did not go through at first for a reason that lies in the code or in the
model. The status that names no server (above) makes properties of the pages false where
the agents of two servers come and go, a pair of circumstances that the environments of
the runs had not contained; the properties now exclude it by name. And `Finished` in
HostPages let the build of another tab end one that this page had not begun; the store's
session is empty then, and nobody's answer carries that.

Induction over data is out of the provers' reach as the library states it, with an
operator that none of them can instantiate. For the uptime it is by sets of numbers
(`NatByStep`, from the well-founded order of the naturals), and the fold of the route's
loop is taken as the stages it passes through, one per row (`LoopOverEvents`).

Only model-checked: liveness (`AgentServed`, `ShellsEnd`, `TerminalLearnsEnd`), which
like ENABLED is out of the prover's reach. `AlwaysAnOwner` and `LogoutRevokes` are false.

## Not modelled

- Metric samples and Docker event rows: at most one row per minute, decided without an
  await; nothing depends on them. Host statistics and the audit log likewise.
- The other pages (home, servers, profile, members): rendering over REST calls that are
  repeated on success.
- Billing: a stub. Encryption, validators, schemas: pure functions of single fields.
- The HTTP application: wiring. express-rate-limit is a library of its own.
- The contents of terminals: the order of keystrokes needs the relay as a
  sequence of overtaking messages. Output lines of builds and operations.
- SIGTERM: `server.close` waits for sockets nobody closes; the models know only the
  exit itself.
- Row-level security, indexes, containers: configuration. Keys, unique columns and
  cascades are in the modules that use them.

## Plan

Done: the link and its refinement; streams; routes; relay; gate; accounts; sessions;
alerts and uptime; container, host and stacks pages; abstract specifications of the
agent's end of the link, the terminals and the sessions; proofs of all safety
properties and of the three refinements. Left, the most important first:

1. A composition of AgentLink's registry with CommandGate's relay step, as an abstract
   specification of the relay ("a command is answered or refused") implemented by both.
2. Abstract specifications of the rate limiter and of the members' cache, which
   CommandGate and MemberCast implement.
3. The order of keystrokes in AgentStreams; the wait of `server.close` in AgentLink.
4. The pure functions of `docker.js` (cpu percentage, port and log parsing) as
   operators against reference definitions.

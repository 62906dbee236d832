# PolyHive verification project

TLA+ models of the parts of PolyHive whose correctness depends on the order in
which things happen, checked with TLC on small instances and, for the results
marked so, proved with TLAPS for every value of the constants. The source is the
reference: every definition of a model is a translation of the code it names in
`PROJECT.json` ("map").

Paths below are relative to the repository; `server/` stands for
`packages/server/src/server/`.

## 1. Inventory

PolyHive is a daemon (`packages/server`) that runs coding agents through
provider adapters and serves them to clients (app, desktop, CLI) over WebSocket,
directly or through an end-to-end-encrypted relay (`packages/relay`). All of it
is JavaScript: a function runs undisturbed between two awaits, and anything may
run while it is suspended. There is one daemon process per home directory.

| Component | State | Operations | Talks to | Hard behaviour | What makes it correct |
|---|---|---|---|---|---|
| **AgentManager** (`server/agent/agent-manager.ts`) | `agents`, `pendingForegroundRuns`, `previousStatuses`, `sessionEventTails`; per agent `lifecycle`, `activeForegroundTurnId`, `pendingReplacement`, waiters, pending permissions | stream, replace, cancel, close, reload, resume, create, archive, respond to permission, handle provider events | provider sessions (calls and events), timeline store, AgentStorage, subscribers | concurrent callers between awaits; events late, early or of a replaced session; cancel's timers racing the provider; a call continuing on an object that was closed or reloaded | one foreground run per session; an active turn always has somebody waiting for it; a cancel cancels and returns; "running" is always justified and published |
| **Provider adapters** (`server/agent/providers/`) | vendor session, current turn | startTurn, interrupt, close, events | vendor process | turns that end before they were announced, autonomous turns | the `AgentSession` contract the manager relies on |
| **Timeline pipeline** (`agent-stream-coalescer.ts`, `agent-timeline-store.ts`, `timeline-projection.ts`; client: `session-stream-reducers.ts`, `session-timeline-seq-gate.ts`) | per-agent buffer and timer; rows, epoch, `nextSeq`; client cursor | handle, flush, append, fetch; classify, hydrate, catch up | AgentManager, WebSocket sessions | live events racing pages, gaps, epoch change, re-entrant flush | what the client shows is a contiguous stretch of one epoch, never goes back, and catches up; the text is the text that was streamed, in order |
| **AgentStorage** (`agent-storage.ts`) | cache, indexed paths, per-agent write chain, `deleting` | upsert, applySnapshot, setTitle, remove, flush | file system, AgentManager subscribers | read-modify-write around a chain of writes, a failing write, delete racing a write | a restart reads what was saved last; no lost field; no resurrected record |
| **Permissions and attention** | pending permissions, attention flags, waiters | request, respond, wait for finish | AgentManager, clients | a response racing a cancel or a turn's failure | each request is answered once; a waiter always returns |
| **Relay** (`packages/relay/src/cloudflare-adapter.ts`, `server/relay-transport.ts`, `encrypted-channel.ts`) | sockets by tag, buffered frames; control socket, data sockets; channel state, key, queued sends | connect, forward, buffer/flush, nudge; reconnect; hello/ready, send, re-key | client, daemon | reconnects in any order, half-open control socket, retried hello, frames buffered across a replaced client | a connected client gets a data socket; frames arrive in order, under the key of the client they are for |
| **WebSocket server and DaemonClient** (`server/websocket-server.ts`, `client/daemon-client.ts`) | pending hellos, sessions, session by client id, grace timers; pending requests, reconnect state | hello, resume a session, disconnect, grace timeout; request, reconnect | session dispatch | reconnect racing the grace timer, cleanup awaiting while the client returns | one live session per client id; a request is answered or fails |
| **Session dispatch** (`server/session.ts`) | subscriptions, per-client buffers | about a hundred request handlers | everything | updates applied out of order | clients converge on the server's state |
| **Schedules** (`server/schedule/`) | one file per schedule, `runningScheduleIds` | create, pause, resume, delete, tick, recover | AgentManager | a tick acting on a list read earlier; pause, resume or delete during a run; restart in mid-run | no run of a paused or deleted schedule; never more than `maxRuns`; one run at a time |
| **Loops** (`server/loop-service.ts`) | loop records, abort controllers, persist queue | start, stop, iterate, recover | AgentManager | stop racing an iteration; restart | a stopped loop starts no further iteration; recovery leaves nothing running |
| **PID lock** (`server/pid-lock.ts`) | the lock file | acquire, update, release | file system, other processes | two daemons finding the same stale lock | at most one daemon holds the lock |
| **Git observation** (`workspace-git-service.ts`, `checkout-diff-manager.ts`) | targets with listeners, watchers, timers, cached snapshot and the refresh under way | subscribe, refresh, force a read | git, sessions | a refresh that began before the change it should show; leaving while a target is set up | forced reads are fresh; subscribers are reached and end with the latest snapshot |
| **Workspace scripts** (`script-health-monitor.ts`, `script-proxy.ts`) | routes, health states, last emitted snapshot | poll, invalidate, register, remove | proxied processes | a probe that outlives its route | the emitted health is the route's |
| **Provider snapshots**, **dictation**, **terminals**, **task graph** | see `PROJECT.json` | | | | |
| **CLI, app screens, desktop shell, website** | user interface | | | | not modelled |

## 2. Plan

The modules, most important first. Each has an `MC` module and one or more
configurations; proofs are in modules of their own.

1. `AgentRuns` - the run protocol of AgentManager, with `AgentRunsProofs`.
2. `Schedules` - ticks, requests, recovery and the files of ScheduleService, with
   `SchedulesProofs`.
3. `TimelineView`, `TimelineSync` - what a client may show of a timeline, and the
   store, session, network and client reducers that are shown to implement it.
4. `AgentStorage` - the record of one agent, its chain of writes, removal, kills.
5. `Relay` - durable object, control and data sockets, buffered frames and the
   handshake of the encrypted channel.
6. `ClientSessions` - the WebSocket server's sessions and the reconnecting client.
7. `Loops` - iterations, stop, recovery and the file of the loop service.
8. `WorkspaceGit` - targets, refreshes, subscribers and forced reads.

All of these are written and checked, and theorems of each are proved in its
`...Proofs` (of `TimelineView` in `TimelineSyncProofs`). What is left to model is
smaller: a module of permissions and attention composed with `AgentRuns`,
`PidLock` (several processes on one file), script health, provider snapshots,
dictation, terminals, the task graph. Theorems next: abstract specifications of
the relay (an ordered channel that may lose its end) and of AgentStorage (a
register that crashes), with the models shown to implement them as `TimelineSync`
implements `TimelineView`.

## 3. Modules and code

### AgentRuns (`MCAgentRuns`)

One agent id; `agent-manager.ts`, lines in `PROJECT.json`. An action is the code
between two awaits.

| Model | Code |
|---|---|
| `current` | the entry of `agents` for the id |
| `agent[s]` | the fields of one ManagedAgent object: `lifecycle` (`life`), `activeForegroundTurnId` (`turn`), `pendingReplacement` (`replacing`), whether `lastError` is set (`failed`) |
| `pendingRun` | the token in `pendingForegroundRuns` |
| `emitted` | `previousStatuses`: the status subscribers saw last |
| `call[c]` | a suspended call: its entry point, the await it stands at, the object and the turn it captured |
| `waiter[c]` | the ForegroundTurnWaiter of the call's forwarder: live, told of the end (`notified`), or settled without an event |
| `tail`, `handling` | the chain of `sessionEventTails` and the event that is suspended in `handleStreamEvent` |
| `owed` | the emit that is left to `handleStreamEvent(turn_failed)` of a rejected start |
| `session[s]` | the provider's session (`providers/claude-agent.ts`): its foreground turn, whether it runs an autonomous one, whether the manager is subscribed |
| `ProviderStartsTurn`, `ProviderEndsTurn`, `ProviderRunsAutonomously`, ... | `startTurn`, `finishForegroundTurn`, `startAutonomousTurn`, ... of the adapter |
| `StreamAgent`, `StartTurnResolves`, `StartTurnRejects`, `ForwarderEnds` | `streamAgent` and its forwarder |
| `ReplaceAgentRun`, `CancelAgentRun`, `CancelObserved`, `CancelForced`, `StaleRunSettled`, `ReplacementStarts`, `ReplacementFails` | `replaceAgentRun`, `cancelAgentRun` |
| `CloseAgent`, `CloseReturns`, `ReloadAgentSession`, ..., `Register`, ..., `RegistrationEnds` | `closeAgent`, `reloadAgentSession`, `resumeAgentFromPersistence`, `registerSession` |
| `HandleTurnStarted`, `HandleTurnOver`, `HandleTurnFailed`, `TurnFailedResumes`, ... | `handleStreamEvent` |

Abstracted: a wait raced with a timer may end at any moment. One name stands for
a call, its token and its turn id, and is used again when nothing mentions it,
so that histories are unbounded. Permissions, timeline rows, attention and
persistence are written by the same handlers and never read by this protocol.
Of the provider adapters the model has what the manager depends on, after
`claude-agent.ts`: a session rejects `startTurn` while it runs a foreground turn,
tags events with it, and may end it at any moment. Whether that is possible before
`startTurn` has resolved is the constant `EarlyEnd`: claude does so when a turn is
canceled while `startTurn` awaits `ensureQuery` (`1580`, `1603`); the provider of the
manager's own tests does not. What becomes of pending permissions when a cancel
returns is left out, but not the status that is emitted then.

### Schedules (`MCSchedules`)

`schedule/service.ts`, `schedule/store.ts`. One file per schedule; whoever reads,
thinks and writes is interleaved with everybody else.

| Model | Code |
|---|---|
| `file[i]` | `schedules/<id>.json`: a record, `Absent`, `Empty` (truncated, not written yet) or `Corrupt` |
| `claimed` | `runningScheduleIds` |
| `job[a]` | a suspended `tick`, client request or recovery: the await it stands at, the record it is about to write, the records it listed and has not come to, the `now` it took |
| `daemon`, `boot` | the process: down, in `recoverInterruptedRuns`, up; the time recovery took |
| `clock` | `now()`, in multiples of the cadence's resolution |
| `invoked` | history: runs started |
| `Create`, `Pause`, `Resume`, `Delete` | the methods of the same names; `FileOpened`, `FileWritten`, `PutFails` are the `put` they await |
| `TickStarts`, `TickLists`, `TickGoesOn` | `tick` to its next await: the time, the list, then completing or starting the next schedule, or the end |
| `RunnerEnds`, `FinishRun`, `FinishThrows` | `runSchedule` with its try, catch and finally; `finishRun` |
| `Starts`, `Recover` | `start`, `recoverInterruptedRuns` |
| `Crash` | external: the process is killed |

Abstracted: of a record's runs the model keeps how many have ended (up to
`maxRuns`), which tick's run says "running" (`by`), and how many say so with
nobody left to end them (`lost`, two standing for more). The cadence is evenly
spaced (`NextRunAfter`); cron's unevenness is not what the code's guards depend
on. That `computeNextRunAt` looks no further than 366 days and then throws
(`cron.ts:148`) is `LastAt`: after that occurrence creating, resuming, `finishRun` and
recovery throw where the code calls it. The files of one list, which the code reads
in parallel, are read at one moment, later than the tick's `now`; a file deleted
between the two ends the tick, as one that does not parse does, and is left out. `writeFile` is two steps, so a reader, a kill or another writer may come
between them; an overwritten open file may be left with the tail of the longer
content. With one schedule in an instance, a tick that has listed it and not
come to it yet stands for one that still awaits the runs of the schedules ahead
in its list. The runner is external: it may take for ever.

### TimelineView, TimelineSync (`MCTimelineSync`)

`TimelineView` is the promise: what is shown is a stretch of one epoch that grows
at its end, is exchanged for all of an epoch neither older nor shorter, is forgotten
(its rows stay on the screen and what is shown begins anew behind them), or is
dropped with the agent. `TimelineSync` is the code, and the run `timeline` checks
that it implements the promise, with the client's stream read as `kept \o shown`
(`View!Spec`).

| Model | Code |
|---|---|
| `logs`, `stored` | `agent-timeline-store.ts`: rows per epoch (a new one when a timeline is initialized), whether the agent has one |
| `registered`, `closing`, `hydrating` | AgentManager's entry; `closeAgent` at its await; history being recorded |
| `online`, `asked`, `wire` | the socket; fetches the session has not answered; messages to the client, in order |
| `cursor`, `view`, `earlier` | `agentTimelineCursor`; the rows `agentStreamTail` and `agentStreamHead` got since it was set; those they had before |
| `init`, `authoritative`, `pendingRemove` | the deferred initialization; `agentAuthoritativeHistoryApplied`; a buffered removal |
| `Load`, `Hydrate`, `HydrationEnds`, `RecordRow`, `CloseAgent`, `CloseReturns` | `registerSession`, `ensureAgentLoaded`, `recordAndDispatchTimelineItem`, `closeAgent` |
| `Answer` | `handleFetchAgentTimelineRequest` after its awaits, `fetch` |
| `Classify`, `Decision`, `StreamEventArrives`, `PageArrives`, `CatchUp` | the gate and the two reducers, `applyTimelineResponse`, `requestCanonicalCatchUp` |
| `EnsureAgentIsInitialized`, `InitTimesOut`, `Offline` | `use-agent-initialization.ts`, the disconnect effect |
| `RemoveArrives`, `RemoveAgent`, `FlushUpdates`, `UpsertArrives` | `agent_update`: a removal deletes the cursor and leaves the rows, at once or, held back, after the next page |
| `DeletedArrives` | `agent_deleted`: cursor and rows go |

Abstracted: what a row says, coalesced text, optimistic items, and paging to
older rows. A live row is a page of one. After `agent_deleted` the code keeps the
deferred of an initialization, without its flag, until it times out; all it does is
delay the next initialization. Requests are answered in any order, and a
row may be filtered out by the session (`subscribeToAgentEvents`).

### AgentStorage (`MCAgentStorage`)

One agent. `files` is what is on disk at the record's home and elsewhere,
`readLast` the one a scan meets last; `cache`, `pathById`, `pathsById`, `chain`
(`pendingWrites`) and `deleting` are the fields of the class; `op[o]` is a caller
between its read and its write. `Load`/`Crash` are a start and a kill;
`Begin`/`Read`/`Upsert` an operation; `WriteStarts`, `WriteRenames`, `WriteEnds`
the steps of one write, `BeginDelete`, `RemoveUnlinks`, `RemoveReturns` the
removal. A write may reject (`WriteFails`): the writes chained to it and a removal that
awaits it reject too, and so does every later write (`failed`), since the promise in
`pendingWrites` is the one `finally` returned and never `next`
(`agent-storage.ts:148`). Where nobody listens to that promise its rejection is
unhandled and the process exits after 200 ms (`index.ts:205`, `214`), which is a
`Crash`. Unlinking is taken not to fail; writing to a temporary file and renaming
it is one step.

### Relay (`MCRelay`)

`client`, `up`, `sent` are a client's socket and channel; `pending` and `timer` the
durable object's buffers and timers; `control` and `orders` the control socket
(`wedged`: it takes messages and delivers none); `entry` and `sock` the daemon's
data sockets, each with its state at both ends and what is on the way. A frame is
a hello or a message number; a connection has a key of its own, so the key is
the connection. `RelayFromClient`, `RelayFromServer`, `ClientCloses`,
`SocketClosesAtRelay`, `Nudge`, `ResetControl`, `Hibernate` are the durable
object's handlers and timers; `ControlOpens`, `OrderArrives`, `SocketOpens`,
`SocketReceives`, `SocketClosesAtDaemon` the daemon's. `getWebSockets` returns
sockets that are closing, and so does `Servers`.

Abstracted: a data socket is accepted at the relay and open at the daemon in one
step; what it carries in between waits in `in`. A control socket the relay has closed
is `down` at once: a daemon that the close does not reach finds out by its stale check
(`relay-transport.ts:193`), which is part of the time `ControlOpens` may take.

### ClientSessions (`MCClientSessions`)

`status`, `promise`, `wanted`, `backoff`, `link`, `request`, `sentOn` are the
client's connection state, connect promise, `shouldReconnect`, reconnect timer,
transport, and its queued and pending requests; `links` the sockets with their
state at both ends; `registered`, `sessions`, `grace`, `running` the server's
session of this client id, its grace timers and the requests it works on; `runs`
is history. `AttemptConnect` to `Close` are the client's methods and callbacks,
`HelloArrives` to `GraceElapses` the server's. A link may break without either
end noticing at once, `attemptConnect` may throw before it has a transport
(`ConnectFails`), and the hello may not be sent (`HelloFails`). A request that is
queued has two timers, and is sent though its waiter is gone (`abandoned`) when
that one's comes first.

Abstracted: an error of a transport, the 250 ms a generic one waits for the close
event (`daemon-client.ts:863`) and that event are one `LinkCloses`; the timer belongs to
the transport and is cleared with it (`3723`). A client that was told not to
reconnect (`reconnect.enabled`) is not modelled.

### Loops (`MCLoops`)

One loop. `loop` is the record in memory, `file` what is on disk, `queue`,
`writing`, `rejected` the chain of writes with the callers that wait; `pc`,
`outcome`, `retries`, `agents`, `handle`, `aborted` the execution; `stop` a
`stopLoop` call. An action is `executeLoop` from one await to the next;
`SaveThrows` is its catch block. Limits (iterations, time) may be met before any
iteration; commands and agents' turns end in any way or never (`WaitsOutside`). A
cancel may find no run, or one whose `startTurn` still awaits and goes on.

### WorkspaceGit (`MCWorkspaceGit`)

The repository is a version number and a snapshot the version it was read at.
`target[t]` is a WorkspaceGitTarget: its phase while it is set up, listeners,
watchers, debounce and self-heal timers, the refresh under way and whether a
forced one is queued behind it, the snapshot, and whether it is warm or the
refresh throttled. `current` and `setup` are the entries of `workspaceTargets` and
`workspaceTargetSetups`. Targets are objects: one that was removed lives on in its
timers, in refreshes and in whoever waits for its setup. `Unsubscribe` is
`removeWorkspaceListener`, at any moment; `SetupFails` the catch block of
`createWorkspaceTarget`, from the first refresh or from what follows it;
`RefreshFails` any later refresh. `dropped` is history: the target was closed while
it was set up, by either.

Abstracted: the directory is a git repository. Of what a refresh reads, only the
short statistics may come from a cache of 15 s, and only in an unforced one
(`checkout-git.ts:1592`): that delays what `SubscribersCatchUp` promises and is left
out. The promise callbacks between the last statement of a refresh and its `finally`
(`1075`-`1079`, `1171`-`1174`) are one step with it: a request that another callback
of the same turn of the event loop makes between the two would be queued and lost.

## 4. Runs

Distinct states: `storage` 1 024 000, `lifecycle` 852 000, `faults` 828 000, `git` 717 000,
`relay` 441 000, `status` 404 000, `timeline` 389 000, `serve` 340 000, `clients` 170 000, `loops` 27 000, `live` 18 000.

| Run | Instance | What it shows |
|---|---|---|
| `status` | 3 calls (stream, replace, cancel), 1 object, 2 queued events, autonomous turns, turns that end before `startTurn` resolves, slow store | "running" is justified, subscribers are up to date, shapes |
| `lifecycle` | 2 calls, all entry points, 2 objects, 1 queued event, turns that end before `startTurn` resolves | run slot, active turn, busy hold; a cancel ends its turn, and where it waits without a timer it waits for a run that ends |
| `live` | 2 calls, 1 object, `FairSpec` | cancel returns, the canceled run ends, holds are released |
| `leak` | smallest instance that shows it | violation, section 7 |
| `faults` | 1 schedule, 2 ticks, 1 client, `maxRuns` 2, clock to 3, no occurrence after 2, split and failing writes, kills | what holds on a disk that tears and refuses, and when there is no next occurrence |
| `serve` | 2 schedules that expire at 2, 2 ticks, create and delete, `FairSpec` | a tick held up by the first schedule comes to the second with an old record; claims are released; what is due is run, whoever hangs |
| `timeline` | 2 epochs of 3 rows, 1 message on the way when another is sent, streams of up to 1 row removed, `FairSpec` | the cursor describes the rows since it was set, the screen implements `TimelineView`, streamed rows are shown |
| `storage` | 3 operations, 1 title, 2 queued writes | a restart reads what was saved, what was removed stays removed |
| `relay` | 1 connection, 4 data sockets, 2 messages, 2 control faults, 1 data socket fault, `FairSpec` | one data socket, messages in order, clients are served |
| `clients` | 1 request, 5 links, 2 faults (links that break, connects and hellos that fail, restarts), `FairSpec` | one session, requests handled once, the client reconnects |
| `loops` | 1 loop, 2 retries, 2 kills, 2 failing writes, `FairSpec` | running loops are executed, agents are closed, stop returns unless one command or turn never ends |
| `git` | 1 subscriber, 1 forced read, 2 targets, 1 change, 1 failure, `FairSpec` | forced reads are fresh; a subscriber is a listener of the directory's target, or its own was closed in mid-set-up; one that nothing left behind catches up |

Five more properties are checked by configurations beside the runs, and proved
(section 6): each is the safety half of something a run shows to happen eventually
or of an invariant above.

| Configuration, property | What it says |
|---|---|
| `AgentRuns_forwarders`, `LiveForwardersAreActive` | without a slow store, a forwarder that was not told of an end waits for the active turn |
| `ClientSessions_underway`, `ReconnectIsUnderWay` | a client without a connection is on its way to one |
| `Loops_aborted`, `AbortedLoopsCountDown` | every step of an aborted execution brings it nearer its end |
| `Relay_expected`, `ClientsAreExpected` | a connecting client has a data socket, or the daemon will be told of it, while no data socket has failed |
| `WorkspaceGit_registered`, `SubscribersAreRegistered` and `SubscribersShowSnapshot` | two subscribers, and set-ups that fail: what `git` says of one of being registered, and that a subscriber was last shown the snapshot its target has, unless a target closed in mid-set-up left it or a listener of it behind |

Why the bounds are enough to be interesting. Two calls are one that is suspended
and one that overtakes it; three are needed for two replacements and the run
they replace, and for a cancel between them. Two objects are the captured and
the registered one; a third would be reused the same way. One queued event is
enough to be late; two give an order. Two ticks are the one that waits with an
old list and the one that overtakes it; a clock of 2 gives a first and a next
occurrence, and 3 a time when there is none; `maxRuns` 2 lets a run end without completing the schedule.
Two epochs are the old and the new one; three rows are one shown, one missed and
the one that shows the gap; requests and answers that wait while the wire is full
overtake one another; one row kept after a removal and an epoch of three make a
stream that is longer than an epoch when the agent comes back (streams of up to three
removed rows are checked by `TimelineSync_follow` with `MaxRemoved` 3 and `Spec`). Three storage operations are one writing, one that waits
behind it and one that reads meanwhile. One relay connection is enough because
connections share only the control socket, and another connection's reset is a
control fault of this one; four data sockets are an open one, its replacement
and one more for each of two faults. Five links are the first, those two faults
end, and two that a stale timer may open. Two loop retries are a verifier that is
prompted again after it was canceled. Two targets are the one somebody still
holds and the current one; a target is closed in mid-set-up by a subscriber that
leaves while a forced read waits for it, or by a failure (`git`), or while another
subscriber waits (`WorkspaceGit_registered`).
Calls, objects, ticks, requests, operations, titles and subscribers are interchangeable (no
action or property singles one out), so runs of safety properties only use
symmetry; the liveness runs do not.
`VIEW` leaves out what is never read: the contents of objects nobody can reach,
and the history variable `invoked`.

`CHECK_DEADLOCK FALSE` where the system may really stop: an agent that was closed
and is not resumed by any call left (`lifecycle`), a daemon that cannot
start because a file does not parse or a cron has no next occurrence (`faults`), clients that have left or closed
(`relay`, `clients`), an agent that was removed (`storage`), a timeline, a loop
or a workspace with nothing left to happen within the bounds (`timeline`,
`loops`, `git`).

All runs of `AgentRuns` that are to pass have `EarlyEnd` TRUE. A turn that ends
before the manager knows its id leaves the agent running with a forwarder whose
event has already been handled (`AgentRuns_stranded`, section 7); what remains true, and
`RunningIsJustified` says, is that such an agent has an active turn and a live
waiter, by which a cancel ends it.

Nothing keeps subscribers of `WorkspaceGit` from leaving, or its commands from
failing, while a target is set up. A target that is closed there is handed out all
the same (`WorkspaceGit_reached`, section 7), and the subscriber properties say what remains:
they excuse the subscribers of such a target (`dropped`), and nobody else.
`ClientsServed` ends where a data
socket fails: nothing opens it again before the next list of connections.
`RunningLoopsExecute` and `AgentsAreClosed` speak of executions without a failed
write; what a failed write leaves behind is in section 7.

## 5. Fairness

`AgentRuns`: weak fairness of each call's continuation (the event loop runs what
is ready, timers end timed waits, each provider bounds `startTurn` by a timer of
its own), of the emit a failed start owes and of event handling. No fairness of
requests, none that makes a provider end a turn, and none of a forwarder whose
waiter a reload settled without an event: asleep, it is not woken
(`agent-manager.ts:747`, `1281`).

`Schedules`: weak fairness of the timer (some tick starts), of each list and write, of a
tick's and finishRun's continuation, of start and of recovery. None that makes
a run end and none of clients, but clients stop deleting: one that deletes and
creates schedules in mid-run for ever, always at the right moment, could keep a
tick's list stale for ever. `DueSchedulesRun` is checked without kills.

`TimelineSync`: weak fairness of answering each request the daemon has and of
taking each message off an open socket. Nobody must record, ask or reconnect.
`Relay`: of the retries of hello (an interval of one second), the relay's handlers
and timers, the daemon's callbacks and its reconnect timer. None of clients that
connect, send or leave, none of faults, and none of the check that finds a control
socket stale.
`ClientSessions`: of close events, the client's back-off, its connect timeout where
the link is broken, and the delivery of messages; no request has to be answered.
`Loops`: of writes (they end or fail), of awaits that are over, and of a turn that was
canceled (`CanceledRunEnds` of `AgentRuns`). None of what `loop-service.ts` waits for
without a timer (`WaitsOutside`): commands (`251`), creating and closing agents, a
turn no cancel reached. A stop that finds the loop there waits as long (`478`), for
ever if need be; `StopCallsReturn` says that nothing else, and no sequence of such
waits, keeps it. Callers and output are free.
`WorkspaceGit`: of git commands, debounce, throttle and self-heal timers; users,
polls, changes and failures are free.

## 6. Proofs

Assumptions on the constants are those the modules name: the sets of ids are
disjoint from `None` and from one another's markers (`NoneAssumption` of `AgentRuns`
says that null is no suspended handler), the cadence is positive, limits are
naturals or absent, bounds are naturals, a client's requests and a relay's
connections are finitely many. The theorems hold for any sets of calls, objects,
schedules, ticks, requests, links, connections, epochs, rows, titles and targets,
any bounds, with or without faults and crashes. In each module the state
properties follow from one inductive invariant `Inv` (or the parts named below), one
lemma per action, `InvHolds` and PTL.

Four theorems assume more of the environment, and each is false without it:

| Assumption | Theorems | Without it |
|---|---|---|
| `StaysOpen`: nobody closes, reloads or resumes the agent | `SubscribersUpToDateHolds`, `RunningIsJustifiedHolds` | the late "closed" of a close is emitted after the agent was loaded again; events that come between `Register` and the end of the registration are lost |
| `~SlowStore`: no durable timeline store, as `bootstrap.ts` builds the manager | `LiveForwardersAreActiveHolds` | a `turn_failed` that was suspended clears the turn that is active when it resumes (`agent-manager.ts:2543`) |
| `~Faults` | `ClaimsHaveOwnersHolds` | a failing put keeps the claim |

Two properties carry their assumption in themselves: those of `LoopsProofs` hold
until a write fails, `ClientsAreExpected` until a data socket does.

`AgentRunsProofs`
- `TypeCorrect`: by induction, one lemma per group of actions. The conjunct that
  a call which goes on with a captured object has one is what the rest uses.
- `OneForegroundRunHolds`: inductive with `TypeOK`. A step "withdraws" when no
  call newly occupies the registered object and the slot is not taken from one
  that does; only `StartRun` is not of this kind, and its guard is that the slot
  is free.
- `HeldBusyHasReplacerHolds`: inductive with `TypeOK`. A step either raises no
  hold and keeps every replacer, or clears the hold, or (`ReplaceAgentRun`) makes
  the call it belongs to.
- `ActiveTurnHasForwarderHolds`, `CancelLeavesTurnInactiveHolds`: by `TurnsFit`,
  which says of those who act on a turn later than they looked at it - a suspended
  `turn_failed` (`NotifyFits`), a cancel (`CancelsFit`) - that the turn was started,
  so that it cannot become active again, and of a live waiter that its call streams.
  Every step but two is an `EndingStep`: turns only end, and a forwarder is woken
  only for a turn that is not active afterwards. The two are `StartTurnResolves`,
  which gives its turn a forwarder, and `HandleTurnFailed`, which suspends.
- `LiveForwardersAreActiveHolds`, the converse: a live waiter of the registered agent
  is that of the active turn. Steps of a call that has no live waiter keep it
  (`OneCallKeepsLive`), a turn that ends takes its waiter along (`EndingKeepsLive`), and
  `OneForegroundRun` keeps a call from starting a turn, or from failing to, beside a
  live one (`StartTurnKeepsLive`).
- `SubscribersUpToDateHolds`: `Open` and `OpenSteps` reduce the next-state relation to
  what happens to an agent nobody closes. `SubscribersFit` adds that while a
  replacement holds the agent busy no turn is active, so that a replacement that
  gives up emits what it changes.
- `RunningIsJustifiedHolds`: `RunsFit` says what keeps an open agent running: an
  active turn, a start or a replacement under way, a turn of the provider, or the
  end of one in `tail`; `AnnouncedTurnsEnd` follows an announced turn to the event that
  ends it. That the active turn has a live waiter is `ActiveTurnHasForwarder`. The
  lemmas on `tail` say what taking and appending an event leave in the queue.
- `CancelsWaitForEndingRunsHolds`: `AwaitsFit` says that a call that registered a run
  registers no other while anybody waits for it (`RunStages`), and that the run a
  forced cancel of the registered agent waits for has been told to end.

`SchedulesProofs`
- `WholePeriods`, `NextRunIsLater`: lemmas, the arithmetic of the model's `NextRunAfter`.
- `TypeCorrect`: by induction over `JobOK`, what `TypeOK` says of one job.
- `OneRunAtATimeHolds`, `ClaimsHaveOwnersHolds`: `StepRuns` shows that every step
  leaves runs and claims alone, releases or abandons one run, starts one that
  nobody had claimed, or ends the process; both theorems follow from that
  classification. `StagesFit` (requests and recovery are never inside a run) is
  the strengthening: without it `FinishThrows` could release another tick's
  claim. `ClaimsHaveOwnersHolds` assumes `~Faults`, and is false otherwise.
- `ActiveMeansArmedHolds`, `MissedOccurrencesAreSkippedHolds`: neither is
  inductive for files alone, since what a tick has listed is written back later.
  `Timetable` says of every record in a file, in a list or about to be written
  that it is armed exactly while active, that a completed one has reached its end
  (otherwise finishRun would arm it again), and that while the daemon is up it has
  no occurrence up to `boot`. `Phases` covers recovery: the others are idle, and
  what is not yet past `boot` is still on recovery's list or being written by it.

`TimelineSyncProofs`
- `CursorDescribesViewHolds`, `ShownAsPromisedHolds`: lemmas about stretches (two
  that follow one another are one) reduce what the reducers do to the bounds of
  what is shown; a removal moves it to what is kept (`Becomes`, `Promised`). `Inv` adds that the cursor, requests and pages on the way are about
  rows the store has recorded (`CursorFits`, `RequestsFit`, `PagesFit`), and that no
  page on the way is older than one sent before it or than the cursor (`WireInOrder`,
  `CursorInOrder`). `StepKeeps` shows of every action that it keeps `Inv` and is a step of
  `TimelineView` or leaves what is shown alone; the refinement is those two facts.

`AgentStorageProofs`
- `SavedRecordSurvivesHolds`: `CacheAgrees` says that the file a scan would meet
  last is the one cache and index are about, and which files there may be between
  the two file operations of a write (`WriteIsFound`): if the record moves, the
  old file may win the scan only while cache still has it.
- `RemovedStaysRemovedHolds`: `RemovedForGood` adds that after a removal nothing has
  started and either writes are refused or nobody knows the agent.

`RelayProofs`
- `MessagesInOrderHolds`: what the daemon has handled, the frames in the one data
  socket it reads, those buffered at the relay and those on the way to it are one
  rising line (`LineRises`, `SocketsFit`); a hello may stand anywhere. That there
  is one such socket is `EntriesRead`: the daemon reads, or opens, only the socket
  its entry names. `NothingBuffered` (no frame is buffered beside a live socket that
  is read) lets `RelayFromClient` send past the buffer. Most steps are a `QuietStep`:
  sockets only close and queues only empty. The lemmas on queues say what `Tail`,
  `Append`, the cap of `bufferFrame` and a flush that fails half-way do to a line.
- `OneServerSocketHolds` is inductive with it: a new socket is not accepted yet,
  and accepting one closes the others.
- `ClientsAreExpectedHolds`: `ExpectFits` is `Expected` for every connecting client,
  `OrdersFit` and `SocketsKnown`. `OrdersFit`: the first message of a new control
  socket is the list of connections, which names whoever connects (`ListOfConns`),
  so replacing a control socket loses nobody. `SocketsKnown`: a data socket the
  daemon has seen open is one the relay has accepted, and one that closes at the
  relay has taken its client with it. `Expected` lists who still has to act: on a
  control socket that is ready no order for a client is counted on, only its timer,
  its data socket or one that connects, since a ready socket may be wedged.

`ClientSessionsProofs`
- `HandledOnceHolds`: a request is in the queue of at most one link, once
  (`SentOnce`), and while it is there it has not been handled and cannot be sent
  again (`NotYetHandled`). `HelloFirst` and `Unopened` place what the server reads
  first; with them `OneSession` is inductive.
- `ReconnectIsUnderWayHolds`: `UnderWay` says of the link a client connects on that
  it is `OnItsWay`: opening, broken or closed at the server, or hello is the first
  thing the server will read, or server_info is on the way back. The lemmas on
  queues say that server_info stays on its way until it is taken.

`LoopsProofs`
- `RunningLoopsExecuteHolds`, `AgentsAreClosedHolds`: `WritersWait` ties every queued
  write to the caller that awaits it, `AgentsFollow` says at which places of
  `executeLoop` which agents may be open, `NoneRejected` that without a failed
  write none of these callers is thrown out of its place.
- `AbortedLoopsCountDownHolds`: `StepsFrom` numbers the places of `executeLoop` by how
  far they are from its end if no iteration follows. `AbortedFits` says that only a
  verifier that runs has prompts left, that a rejected write of `executeLoop` is one
  it waits for, and that a loop a stop has found does not wait to be run. Each step
  of an aborted execution then lowers the number; that the steps are taken is
  `StopCallsReturn`, under fairness.

`WorkspaceGitProofs`
- `ForcedReadsAreFreshHolds`: `ReadersServed` says that whoever waits for a version
  is served by the refresh under way - a forced one that began at that version or
  later - or by the forced one queued behind it. `TargetsKeep` is the kind of step
  that changes targets and nobody else: such a step serves whoever was served.
  What else is needed is that a refresh has read nothing older than its beginning.
- `SubscribersAreRegisteredHolds`: `WellHeld` says that the target that is set up is
  current or was dropped, that no current target was dropped, and that whoever
  subscribes, or waits for its first snapshot, is a listener of the current target
  or has a dropped one; whoever leaves finds the current target by its directory,
  so it takes one away from others only in mid-set-up.
- `SubscribersShowSnapshotHolds` adds `ShownFits`: a target with listeners has its
  timer, and what a refresh that notifies nobody reads is its first snapshot
  (`TargetFits`); whoever is among the listeners of a target that was not dropped
  subscribes to it (`ListenersSubscribe`) and, once in, saw its snapshot. Most steps
  change one target (`OneTargetShown`), and whom a dropped target disturbs stays
  disturbed (`DisturbedStays`).

Model-checked only: every liveness property, since fairness and ENABLED are out of
the prover's reach. Of `Reconnects`, `StopCallsReturn`, `ClientsServed`,
`SubscribersCatchUp` and `CancelReturnsEventually` the safety half is proved: what is
waited for is under way, so that only the fairness of section 5 is left to be
believed. Every invariant and action property of a run is a theorem. The violated
properties of section 7 are TLC's.

## 7. Where the code and its documents disagree

One run is expected to be violated: `leak`, `PendingRunHasOwner`. A rejected
`startTurn` leaves its pending run registered (`agent-manager.ts:1230`); later
`streamAgent` calls are refused although nothing runs.

The others are configurations kept beside the runs. Each checks one property,
stated in the module after a document, comment or test of the repository, and TLC
finds it violated (`tlc -config <file>.cfg MC<module>.tla`):

| Configuration, property | What happens |
|---|---|
| `AgentRuns_stranded`, `EndsSettleWaiters` | claude's session ends a turn that is canceled while `startTurn` awaits `ensureQuery` (`claude-agent.ts:1589`); the manager handles the end before it knows the turn, then makes it active and waits for it (`agent-manager.ts:1233`-`1269`), though `agent-manager.ts:1533` says the event settles the waiter. Only a later cancel ends the run |
| `AgentRuns_flash`, `NoIdleFlash` | of two overlapping replacements the losing one clears the other's busy hold (`agent-manager.ts:1367`) and the agent is shown idle between the two runs; `agent-manager.test.ts:2137` says it is not. A second way (two calls, `Ops = {"replace"}`, `Autonomous` TRUE, `MaxTail` 1): `streamAgent` resets `pendingReplacement` before it awaits `startTurn`, and a stale terminal event handled then makes the agent idle |
| `AgentRuns_closed`, `ClosedSnapshotIsFinal` | a `startTurn` that resolves after `closeAgent` emits "running" (`agent-manager.ts:1233`) after the closed snapshot; `agent-manager.test.ts:4042` says that one is final |
| `AgentRuns_foreign`, `CancelsWaitForTheirRun` | a cancel that outlives a reload finds the pending run of the next object and waits for it without a timer, though nobody told that run to end (`agent-manager.ts:1589`: "The synthetic event unblocks the streamForwarder generator, whose finally block settles the pending foreground run asynchronously. Wait for it.") |
| `Schedules_pause`, `PausedStaysPaused` | a pause between the read and the write of `finishRun` (`service.ts:342`-`382`), or before the put of an old record (`308`), is undone; `service.test.ts:414` says schedules stay paused |
| `Schedules_maxruns`, `MaxRunsRespected` | a tick with an old list runs a schedule beyond `maxRuns` (`docs/DATA_MODEL.md:188`) |
| `Schedules_unending`, `MaxRunsRespected` | `computeNextRunAt` throws when a cron has no occurrence in the next 366 days (`cron.ts:148`), as after 29 February: `finishRun` (`service.ts:372`) rejects before its put, so the run is never recorded, nor counted, and the schedule stays due: every tick runs it again, until it is paused or deleted. Recovery (`275`) rejects too, and a restarted daemon does not come up. One tick at a time is enough, and with `LastAt = None` the same instance respects `maxRuns` |
| `Schedules_recovery`, `RecoveryEndsAllRuns` | one record can hold several running runs, and recovery repairs the first only (`service.ts:255`: "Mark any in-flight runs as failed") |
| `TimelineSync_reappear`, `StreamHasNoGapOrRepeat` | an agent that leaves the client's subscription loses its cursor and keeps its rows (`session-context.tsx:781`); the rows that come next are appended to them, without the gap detection and deduplication `docs/ARCHITECTURE.md:75` names |
| `AgentStorage_lost`, `SnapshotsKeepTheRest` | a snapshot and a title change that waited for the same write both read the cache; the later write takes the other's field back (`agent-storage.ts:203` says the title and the archived flag are kept) |
| `Relay_orphan`, `ClientsReleased` | "disconnected" for a client that left is sent while the data socket is not there yet, or on a control socket that is lost: the daemon keeps a data socket for it (`cloudflare-adapter.ts:462`: "Last socket for this session closed: now clean up matching server-data socket.") |
| `ClientSessions_waiters`, `WaitersOfThisConnection` | `ensureConnected` leaves the reconnect timer armed; when it fires it replaces the connection the client has by then, and a request sent on that one is not rejected but waits for its timeout (`daemon-client.ts:3908`: "Clear all pending waiters and queued sends since the connection was lost") |
| `Loops_torn`, `WrittenAtomically` | `persist` truncates and writes in place; a kill or a failure in between loses every loop (`docs/DATA_MODEL.md:3`: "written atomically (write to temp file, then rename)"; `schedule/store.ts:56` is the same) |
| `Loops_stop`, `StopCancelsWorker` | a stop that aborts before the worker has a run to cancel - while the iteration is saved, or the worker created - leaves a worker that then runs to its end (`loop-service.test.ts:435`: "stops a running loop and cancels the active worker") |
| `WorkspaceGit_reached`, `SubscribersAreReached` | one subscriber waits for the set-up of a target; a second finds it at once, subscribes and leaves; `removeWorkspaceListener` closes and deletes the target, since it has no listener left (`workspace-git-service.ts:1266`). The first is then put on an object that is not the directory's: working tree events reach another target or none, though `workspace-git-service.test.ts:666` says they "force a fresh diff stat for workspace subscribers" |
| `WorkspaceGit_timers`, `TimersStopWithSubscribers` | the last subscriber leaves while a target is set up: the target goes on to start watchers and a timer nobody stops (`workspace-git-service.primitive.test.ts:679`) |

Stated in a module and false, without a configuration: `LoadedHasTimeline`
(`closeAgent` deletes the timeline after its await, `agent-manager.ts:834`, of an
agent that was loaded again meanwhile) and `SyncedShowsAll` (a client that shows
live rows before it asks for history is marked as synced by an incremental page
without the rows before them; `docs/ARCHITECTURE.md:75`).

Met while modelling: after one rejected write every later write of an agent's record
rejects, since `pendingWrites` keeps the promise `finally` returned and compares it with
another (`agent-storage.ts:148`); a `connect` whose `attemptConnect` throws rejects its promise before
`connectPromise` is assigned (`daemon-client.ts:739`-`743`), so `connect` returns the rejected
one until a later attempt settles it; with a durable timeline store a suspended `turn_failed` clears
whichever turn is active when it resumes (`agent-manager.ts:2543`): if that is a
later turn, it goes on at the provider and a cancel no longer finds it to end it; a failing put at `service.ts:308` keeps the claim; a schedule
deleted in mid-run is written back; a live event of another epoch is dropped
without asking for a page (`session-timeline-seq-gate.ts:11`); a retried hello lets a
replaced data socket open with a gap before it; a loop that succeeded or met a
limit is not saved again (`loop-service.ts:412`-`416`), so a restart lists it as
stopped; `finishLoop` clears `activeIteration` before the catch block looks for it
(`loop-service.ts:565`), so the iteration stays "running"; a stop between
`loops.set` and `running.set` marks a loop stopped that is then executed; a
canceled verifier is prompted again; a failed write leaves an agent open or, in
`runLoop`, a loop listed as running that nobody executes; a HEAD event replaces a
forced debounce by an unforced one; a forced refresh queued behind one that fails is
lost; a target that fails to be set up drops the listeners that joined it
meanwhile, silently; two
concurrent `syncWorkspaceGitWatchTarget` calls leak a listener (`session.ts:4328`);
a forced read may join a forced refresh that began before its mutation, which
`workspace-git-service.primitive.test.ts:481` intends.

## 8. Not modelled

Everything `PROJECT.json` lists as `not_modelled`. For good: the request table of
the session (independent handlers), worktree and registry commands (sequences of
git and file commands), the other handlers of the MCP server, and the user
interfaces. For now: permissions and attention, the PID lock, script health,
provider snapshots, dictation, terminals, the task graph. Of the modelled
components: vendor protocols behind the provider adapters; permissions, modes,
archiving and attention of AgentManager; the content of prompts, rows and outputs,
with the coalescer and the projection; cron's calendar arithmetic; the second call
of `start` and `stop` of ScheduleService; cryptography and version 1 of the relay;
what a client's requests do, subscriptions and terminal frames; several loops in
one file; GitHub data, the auxiliary caches, checkout diffs and reconciliation of
the git service.

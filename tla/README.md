# wrtdeck: TLA+ verification

wrtdeck is a dashboard service for OpenWrt routers: one Go process that polls
*sources* (HTTP, TCP, UDP, commands) and subscribes to MQTT topics, keeps the
last state and a short history of each source in memory, streams changes to
browsers, and lets them edit a registry of sources and actions that is saved as
one JSON file. This directory holds TLA+ models of the parts of it in which
goroutines, failures and time make the outcome hard to see, the TLC
configurations that check them, and TLAPS proofs of what they promise: every
safety invariant and action property that is checked is also proved.

Paths in this file are those of the repository (`src/` in `PROJECT.json`).

## 1. Inventory of the system

| Component | State it keeps | Operations | Talks to |
|---|---|---|---|
| Polling scheduler, `internal/engine/scheduler.go` | job map, one context and in-flight flag per job, worker slots, WaitGroup | `Start`, `Sync`, `Stop`, `loop`/`tick`, `janitor`/`sweep` | executor (starts collections), registry (lists it), subscriber (`Retry` from the janitor), state cache (`MarkStale`) |
| Executor, `internal/engine/executor.go` | action slots | `RunSource`, `RefreshSource`, `ApplyMessage`, `MarkSource*`, `RunAction` | transports, state cache, history, hub |
| State cache and history, `internal/state/store.go`, `history.go` | last state per source; bounded ring of samples per source; a lock each | `Set`, `Get`, `Delete`, `MarkStale`; `Append`, `Delete` | hub (every `Set` publishes) |
| Event hub, `internal/state/hub.go`, and the event stream, `internal/api/sse.go` | map of subscriber channels, closed flag | `Publish`, `Subscribe` and its cancel, `Close`; the streaming handler | browsers |
| Registry store, `internal/registry/store.go` | map of entries, one file | `Load`, `Save`, `Put`, `Delete` | file system |
| Registry handlers, `internal/api/handlers_registry.go` | none | PUT, DELETE, refresh | registry, then scheduler and subscriber `Sync`; state and history on DELETE |
| MQTT subscription manager, `internal/engine/subscriber.go` | active subscriptions with their cancel and retry time | `Sync`, `attach`, `fail`, `Retry`, `Stop`, message and connection callbacks | MQTT pool, state cache |
| MQTT connection pool, `internal/transport/mqttpool.go` | connections by key, subscribers per connection, idle timers | `Subscribe` and its cancel, `Publish`, `Close`, idle reaper | MQTT client |
| MQTT client, `internal/mqtt/` | wanted and applied topics, pending acknowledgements, packet identifiers, incoming QoS 2 identifiers, the link | connection loop, `SetSubscriptions`/`reconcile`, `Publish`, read and ping loops, `Close` | broker |
| Sessions, login limits, hand-off codes, `internal/api/session*.go`, `throttle.go` | bounded tables with expiry | create, look up, revoke; allow, fail, reset | HTTP middleware |
| Credentials and configuration, `internal/config/` | configuration, token, password hash, their files | `Load`, `LoadSecrets`, `Save`, `SetPassword` | file system, shared with the short-lived processes |
| Certificates, `internal/certs/` | a self-signed pair of files | `Prepare`: reuse or generate, then load | file system |
| Program start and stop, `cmd/wrtdeck/main.go` | which run of the service is up | the commands (serve, `-print-token`, `-reset-password`, `-gateway`, `-export-web`), the order of start and stop | everything above |
| HTTP server, `internal/api/server.go`, `middleware.go`, `remote.go` | none of its own | the layers: host, origin, credentials, initial password; who a request is from | sessions, throttle, handlers |
| CGI gateway, `internal/gateway/` | none; a process per request | load the token, decide, mark, inject the token, forward | web server of the device, LuCI sessions, the HTTP server |
| Embedded web files, `internal/webui/` | the export directory and its marker | `Export`; serving | file system |
| Web front end, transports, templates, extraction, validation, packaging | little or none | see `PROJECT.json`, "components" | |

**What is hard here.** One collection of a source passes through four locks
(job map, flag and slot, state, history) and any of the scheduler, a refresh, an
edit, a deletion, the sweep and the shutdown may come in between. Subscriptions
pass through three layers (manager, pool, client), each of which decides under
its own lock and acts without it, over a connection that breaks. The registry
has to survive power cuts. Several processes of the same program share one data
directory, and each may generate what it does not find there. The export and the
certificates are written in place and found again by a later process that has to
tell a whole result from half of one. None of this is visible to the tests of the
repository, which call one component at a time from one goroutine.
`PROJECT.json` lists the hazards, each at its line.

**What makes each component correct**

- scheduler: the jobs are those the registry asks for; no loop is out of reach
  of `Sync` and `Stop`; one collection per job; the pool bounds polling;
  everything that must stop stops and everything that must go on goes on.
- state and history: a card shown as running is being worked on; the reading is
  the last one; the newest sample is the cached state; nothing of a deleted
  entry is left.
- hub: never a send on a closed channel; no browser is forgotten in the map;
  events in order; `Close` ends the streams.
- registry: the file loads after any crash and has what was answered.
- subscription manager: an active subscription is granted, being asked for, or
  scheduled to be; the set follows the registry; nothing is left behind.
- pool: the table has no closed connection, every connection is retired by
  somebody, the client knows what is registered.
- client, subscriptions: what it believes subscribed is; the session follows the
  wanted set; subscriptions come back after a reconnect.
- client, publishing: the table of requests is the calls under way; success means
  the broker has the message; an incoming QoS 2 message is handled once; `Close`
  wakes everybody.
- throttle: bounded table, bounded locks, no burst of failures without a lock.
- sessions and credentials: bounded tables, codes used once, a change of the
  password ends all sessions and survives a restart, nobody is logged out
  without a reason.
- start: no start is refused for what an earlier or a concurrent process left
  behind; all processes use the token that is in the file.
- server and gateway: login codes go to callers on the device only, the service
  knows the browser behind the gateway if it is told to trust it, and the way into
  the panel from LuCI ends in a session.
- export: a directory that counts as complete has exactly the files of the
  installed version.

## 2. Modules

| Module | Models | Instance |
|---|---|---|
| `Scheduler` | scheduler, shutdown order of `main`, the part of PUT and DELETE that drives them | `MCScheduler` |
| `SchedulerProofs` | eight theorems about it | |
| `Hub` | hub and streaming handlers | by `Streams` |
| `HubProofs` | four theorems about it | |
| `SourceState` | one source, polled or pushed: `RunSource`, `ApplyMessage`, the marks of the subscription manager, state cache, history, sweep, DELETE, refresh | `MCSourceState` |
| `AtomicRegistry` | what `Save` promises (abstract) | |
| `RegistryStore` | `Load`, `Save`, `Put`, `Delete`, file system | `MCRegistryStore` |
| `SourceProofs` | ten theorems about `SourceState` and `RegistryStore`, the refinement among them | |
| `MqttPool` | the pool, for one connection key | `MCMqttPool` |
| `Subscriber` | the subscription manager | by `Streams` |
| `SubscriberProofs` | three theorems about it | |
| `Streams` | `Subscriber` and `Hub` side by side, with their fairness | `MCStreams` |
| `MqttSubs` | subscriptions of one client, its connection loop, an external broker | `MCMqttSubs` |
| `MqttSubsProofs` | three theorems about it | |
| `MqttPublish` | `Publish` and the read loop of one client, `Close`, an external broker | `MCMqttPublish` |
| `MqttProofs` | five theorems about `MqttPool` and `MqttPublish` | |
| `LoginThrottle` | the throttle under the handlers that check a password | `MCLoginThrottle` |
| `Sessions` | session table, login codes, password in memory and on disk, `-reset-password` | `MCSessions` |
| `AccessProofs` | eight theorems about `Sessions` and `LoginThrottle` | |
| `Startup` | the start of the service, from the configuration to the listener, beside the short-lived processes that use the same files; certificates | by `Requests` |
| `Requests` | requests to the service that starts, stops and starts again: the layers of the server, the CGI gateway, the way in from LuCI | by `Device` |
| `WebExport` | the export of the web files across versions | by `Device` |
| `Device` | `WebExport` and `Requests` side by side, with their fairness | `MCDevice` |
| `DeviceProofs` | eleven theorems about `WebExport`, `Startup`, `Requests` and `Device` | |

How the models relate: `Scheduler` decides *when* a source is collected,
`SourceState` says what one collection does to what is shown; `Subscriber`
decides when a topic is subscribed, and `SourceState` what its messages and marks
do. `Subscriber` takes "the pool grants a subscription and forgets it on cancel"
as one step each, `MqttPool` models that call down to `SetSubscriptions`, and
`MqttSubs` models `SetSubscriptions`. Each of the three says in its header what
it assumes of the next. `RegistryStore` stands alone: `Scheduler`, `Subscriber` and
`SourceState` take a registry change as one step, with a second action for the
change whose Save fails (`ChangeNotSaved`, `DeleteNotSaved`). `MqttPublish` and `MqttSubs` are two
views of one client: they share the connection (`Attach`, `Detach`) and the
pending table, in which the requests of either are only identifiers that the
other skips. `LoginThrottle` decides who may try a password, `Sessions` takes
over once it was right. `Requests` EXTENDS `Startup`: its requests meet a service
whose secrets were loaded, saved and loaded again by several processes; the
handlers behind them are those of `Sessions`, reduced to one code and one session
named after the run of the service that issued them.

Steps are chosen so that everything the code does under one lock, or in one
call of a component that is not modelled, is one action; wherever the code lets
go of a lock, another goroutine may step in. Goroutines have a `pc` named for
what they are about to do.

### Scheduler

`registry` is what `ListByKind` returns, one `Config` per source: absent (or a
subscription), disabled, or a fingerprint. A job (`source_job`) is a member of
`Jobs`; its fields are functions on `Jobs`, and a name is reused when no
goroutine of the job is left. `mu` is `s.mu`, `ctx` is `s.ctx`, `slots` the
length of `source_workers`, `running` the flag of the job. `sync_jobs` is four
actions (`SyncLists`, `SyncCancels`, `SyncStarts`, `SyncReturns`), because
loops, collections and other handlers run while it holds the lock. `tick` is
two steps (`TickClaims`, then `TickCollects` or `TickFindsPoolFull`), the
deferred function of a collection two (`CollectReturns` gives back the slot,
`CollectClears` the flag). `Stop` is `StopTakesJobs` (under the lock),
`StopCancels`, `StopReturns` (the WaitGroup). `phase` follows `main`: boot,
starting, serving, shutdown (the server accepts no request any more, but those
accepted may outlive the five seconds of `Shutdown`), stopping, draining,
stopped. A change whose `Save` fails is in memory but is not followed by
`Sync`: `dirty` remembers it for the properties. The sweep of the janitor and
`RefreshSource`, which touch neither jobs nor slots, are in `SourceState`; the
retry of the janitor is in `Subscriber`.

### SourceState

Whatever writes the state of the source is a run with a kind. A poll or a refresh
goes begin → frame → collect → (failed) → commit → append; a message of a pushed
source, and the mark of a lost subscription, enter at collect; the mark of a
waiting one (`MarkWaiting`, `Reconnected`) goes check → begin → frame: it looks
whether there is a reading before it writes. `pushed` says which transport the
source has. The clock counts outcomes (collections, messages, failed
subscriptions) and is both the time stamp and, with a reading, the reading, so
that "newer" and "which reading" can be told apart and nothing else.

Two variables are auxiliary. `apart` is true until a run starts beside another
one or beside a deletion, or a deletion could not be saved; marks beside marks do
not count, because they carry no reading of their own. `flapped` remembers
that any two runs overlapped. Readings and leftovers are promised under `apart`,
the newest sample also requires that nothing flapped (`Undisturbed` in the
proofs); section 5 says what happens otherwise.

### Hub

A channel belongs to the viewer that subscribed it: `buf` and `chClosed` are
functions on `Viewers`. Publishers hold the read lock from `PublishBegins` to
`PublishReturns` and send to one viewer at a time. The write lock is free when
no publisher is inside (`Locked`). A handler is either in its `select`
(`streaming`) or inside a write to its browser (`writing`): the hello frame, an
event or a heartbeat; `stage` says which, for publishers too. A write returns (`WriteReturns`), fails (`Disconnect`), or
does neither: the server has no `WriteTimeout` (`main.go:287`). The panic of a second
close, which net/http recovers from and which ends the handler, is a stage of its own.

### RegistryStore and AtomicRegistry

Contents are sets of changes. `Save` is one action per system call, in any number of
handlers at once. The disk has names (`tmp`, `file`) that refer to inodes, `data`
(page cache) and `flashData` (durable), and `flashFile`, the name a power cut leaves.
`WriteBack` and `WriteBackNames` let the kernel write at any time; `Killed` starts the
service again with the page cache intact, `PowerCut` without what was not written
back. Two variables are auxiliary: `answered`, the changes in the files of Saves that
returned without an error (a power cut takes away what it undid, a kill nothing), and
`overlapped`, true from the moment at which a Save begins during another. Nothing in
the code prevents that, and from then on nothing is promised (section 5, 2); until
then other handlers may change the map at any point of a Save. The refinement maps the
snapshot of who is inside `Save` to `saving`, what a `Load` would read now to `file`,
and what it would read after a power cut to `flash`.

### MqttPool, Subscriber, MqttSubs

`MqttPool`: `subs` is `c.subs`, `desired` the set a caller has read under
`c.mu` and passes on without it, `wanted` what the client was given last. The
timer (`idle`) is nil, armed, or stale once it has gone off, as in the code,
which does not reset `c.idle` when the callback finds the connection in use.

`Subscriber`: `active` is `m.active`; `held` tells the pool's cancel from the
empty placeholder; `retry` is "`next_try` is set". `SyncBegins` is what happens
under `m.mu`, `CallsCancel` and `AttachBegins` what happens after it, in the
order of the code. A change whose Save fails is in the registry and followed by no
`Sync` (`ChangeNotSaved`); `dirty` remembers its source for the properties until the
Sync of another change has caught up with it.

`MqttSubs`: `run` is the connection loop, `link` the link channel (true while
open), `mu` is `reconcile_mu`. `reconcile` sends one packet at a time and waits
for its answer, for the link to be closed, or for ten seconds (`TimesOut`, at
any moment). `wire` and `session` are the broker's side.

### MqttPublish

A call of `Publish` goes awaiting → register → send → wait → (complete). The
channel of a pending request is the sequence of codes in `pending[id]`, of which
`push` drops the third. `link` is `c.conn # nil` and the open link channel, which
the code changes together under `c.mu`. The external broker answers in order,
holds QoS 2 messages until their PUBREL (`stored`) and may repeat its own. `honest`
says that no call has returned without an error for a message the broker had
not passed on. `Register` takes the next identifier nobody waits for (`Fresh`), and
only one whose last use is over for the broker (not in `Owed`: nothing asked,
answered or held under it): with 65535 of them that is so in the code, with one
it must be said. `Attach` waits until no caller of the last connection is left
(`NobodyLingers`), which in the code the pause of a second or more before
connecting again gives them time for.

### LoginThrottle

Every method of the throttle is one step, as in the code, which holds `t.mu`
throughout; `attempt` is what a handler carries from `Allow` to `Fail` or
`Succeed`, with the time it read before. `clock` is `time.Now()` and `CheckTime`
bounds how long a check takes (milliseconds; a window, which is minutes, is assumed
to be at least twice as long). `recent` and `everyone` are auxiliary: the failures
within the last window, each with the time it happened and the counting window
that counted it (`age`, how many windows ago; `first`, from when it counts; `nth`,
its number in it).

`Burst` is what the fixed windows of the code let through. A window that slides
over them sees at most the end of one and the next one almost whole, and, because
a failure counts from the time its attempt *began*, a slow attempt may open a
window that runs from before the last failures of the one before: three windows
in all, each of which holds one failure less than the limit.

### Sessions

A task is a handler or the resetting process. A change of the password is
set → snapshot → write → rename → clear → issue, because `SetPassword` holds the
lock for the assignment only and `Save` for its copy. `sessions` remember the
password that was good when they were issued. `Restart` is a restart of the
service, with the device (a resetting process dies too) or without.

### Startup

A process is the service or one of the tools (`-print-token`, `-reset-password`,
`-gateway`), at a place `pc`. Both saved files, configuration and secrets, are
truncated and written as `<file>.tmp` and renamed; all processes use the same
temporary name, so `save[p].at` follows the inode a process holds open: still the
temporary file, by now the file, or replaced. What two processes write over one
another is `Mixed`. `LoadSecrets` fills in what the file lacks (a token, a
password), each once per file; tokens are counted. The certificate is
truncated and written in place, then the key (`EnsureSelfSigned`), and the pair is
loaded last. A process is killed anywhere (`Killed`), or a call of `Save` fails
(`CallFails`); `MaxFailures` bounds both together. Three history variables name the
circumstances of which the properties speak: `raced` (two processes generated a
token), `overlapped` (two Saves had one temporary file open), `keyCut` (stopped
inside writing the key).

### Requests

A call carries who asks (`from`), the other end of its connection (`peer`), the
headers X-Forwarded-For (`forwarded`), X-Real-Ip (`real`) and X-Forwarded-Host
(`viahost`, whether it is there), and its credentials. (`RequestsAssumption`: who calls
directly and sends none of the three headers is the other end of the connection; a
proxy in between adds at least one of them.) `Trusted` is `auth.trusted_proxies`, empty
by default. `Checks` lists what may refuse a call, in the order of the layers and the
handlers; the answer is the first that does. `ClientIP` with `Told` is `client_ip`,
`ArrivedViaProxy` is `arrived_via_proxy`. A gateway process loads the configuration and the
token through `Startup`, reads its request (`ReadRequest` with `MarkProxied` and
`Injected`), and forwards it while the service may restart or the token be saved
again; its answer may come too late (`ForwardTimesOut`). `boot` numbers the runs
of the service; a code or session is the run that issued it, because the tables
die with the process. The browser follows `auth.ts`: a code is given up when it
was tried, a session when it is refused.

### WebExport and Device

`dir` gives each file its bytes, `Gone` or `Torn`; `marker` is the fingerprint,
which is the tree itself. `Export` is one step to look at the marker, two per file
(truncate, fill), one per surplus file (prune) and one for the marker, with a
kill, a failure, or another version of the package, newer or older (`Install`),
anywhere in between. `replaced` and `cut` are auxiliary: the trees in whose place
another one was installed, and whether an export was stopped and none has ended since.
`Device` puts
`WebExport` and `Requests` under one fairness. They share no state, so an
execution is about one of them (`part`): TLC explores the sum, not the product,
and no property sees both.

## 3. Runs

| Run | Asks | States |
|---|---|---|
| `sched` | Do flags and slots stay consistent when a handler, a lingering job and its successor, and the shutdown interleave; does what must stop stop, and what must go on go on? | 242 k |
| `sched_sync` | Do the job map, the loops and the registry agree when two Syncs meet? | 251 k |
| `state` | What do collections, messages, marks of a lost and regained connection, sweeps and deletions do to one source? | 1.7 M |
| `state_refresh` | Does a refresh outlive its request? (violated) | |
| `registry` | Does `Save` keep its promise across failures, kills and power cuts, while others change the registry and as long as no Save begins during another? | 216 k |
| `pool` | Are connections neither lost, nor used after being closed, nor left open? | 868 k |
| `streams` | In: do subscriptions follow a registry that changes, with and without being saved, while they are being attached, and is a refused one asked for until it is granted? Out: are channels closed safely, viewers forgotten, events in order, streams ended? | 85 k |
| `subs` | Does the session follow the wanted set across reconnects and refusals? | 474 k |
| `publish` | Do QoS handshakes keep their promises when answers are late, repeated or lost, and does `Close` wake callers? | 1.1 M |
| `throttle` | Does every burst of wrong passwords meet a lock, within bounds of time and memory? | 2.4 M |
| `sessions` | Do password, file, sessions and codes agree across changes, failed saves, resets and restarts? | 2.2 M |
| `device` | Are exports that count as complete complete; does the service come up again beside other processes that use its files; do all hold one token; do codes stay on the device and does the way in from LuCI lead to a session? | 184 k |

The violated run checks a sentence the repository states about itself; section 5
tells what it shows, and which other sentences the models contradict. The type invariants of `Scheduler`, `Hub`, `SourceState`,
`WebExport` and `Startup` are proved but not checked on their own; those of the
other modules are conjuncts of the first invariant of their run.

### Bounds, and why they are enough

- `sched`: one source, two fingerprints, two jobs, one handler, one slot. Two jobs
  of one source contend for the slot and for the flag exactly as jobs of two
  sources do (flags belong to jobs), and one of them can be the leftover of the
  other. No symmetry, because the run has liveness properties.
- `sched_sync`: the same with two handlers. `main` is done with its own Sync before a
  request is accepted, so it takes two handlers for one Sync to list the registry,
  be overtaken by the change and the Sync of the other, and act on an old list. Symmetric
  in handlers, jobs and fingerprints; safety only. The safety properties of both
  runs are theorems of `SchedulerProofs` for every number of sources, jobs, handlers
  and slots.
- `state`: two runs are enough for any overlap, also of an up with a down; two
  outcomes (`MaxClock`) for an older and a newer reading; a history of one sample
  to make every append drop one. Symmetric in the runs. The theorems cover
  every number of runs and outcomes.
- `registry`: two handlers, so that one changes the map while the other saves, and two
  Saves overlap; three changes, so that two Saves that answered and one under way
  exist; three inodes, the most one Save needs (file, the file a power cut brings
  back, temporary file). Symmetric in all three.
- `pool`: two callers, one of which also publishes, and two connections: one to
  be retired and its successor.
- `streams`, in: one source with two versions, two subscription names, two handlers
  and the janitor: a new version can arrive while the old one is being attached.
  `EnoughNames` holds back a change until there is a name for its subscription and
  for that of every change under way. Out: a buffer of two and three events overflow
  it; two viewers, one publisher. Several publishers are covered by the proofs.
  `SeenInOrder` promises the order for one publisher only: two of them may be inside
  `Publish` together, and then only that no event comes twice. No symmetry, because
  the run has liveness properties. As in `Device`, the two parts share no state and an
  execution is about one of them (`part`): the states are the sum of both.
- `subs`: two topics, the second of which the broker refuses, so that a healthy topic
  comes before a refused one in the sorted round; two connections;
  two packets in flight; two setters beside the connection loop, so that one
  finds done what it was called for.
- `publish`: two callers and three calls over one identifier, so that it is
  found in use (register fails) and used again; two incoming messages, both with
  identifier 1, so that the second depends on the first being released; two
  connections; messages start with at most one packet under way, answers add to
  it.
- `throttle`: three sources for a table of two, two handlers, locks after three
  failures, the gate after four. The first lock lasts as long as the window, as
  by default (`config.go:28`, `throttle.go:16`).
- `sessions`: two tasks, a table of two sessions and one of one code, three
  sessions and two codes in all, two changes of the password, lifetimes of one
  tick out of two: everything can expire, be dropped for room, or be overtaken.
- `device`: one tool at a time beside the service, three tokens, one kill or
  failure, and the requests that the checks of the server tell apart (`MCDevice`
  lists them). One failure leads to each of the states a start can find
  on the disk; with two the run was explored once (793 k states) with the same
  result. Three files in four versions: one that stays, one that goes, one that
  comes and goes again, and a version that changes nothing. `Trusted` holds the
  loopback, so that what the headers say counts; without it every client behind the
  gateway is the loopback, which `GatewayKeepsTheClient` says too and `ClientsAreKept`
  proves for every `Trusted`.

`CHECK_DEADLOCK FALSE` is set in every run: the program may stop (`Stop`,
`Close`), no one has to call, and bounded counters run out.

### Fairness

- `Scheduler`: weak fairness for steps of goroutines that can run; strong
  fairness for `Sync` of a caller, because a Go mutex hands itself to a waiter
  that has starved for a millisecond; strong fairness for `LoopExits`, because
  `select` picks at random among ready cases and the ticker is not ready at
  every turn. Collections end because every transport has a timeout. Requests and
  signals are not fair.
- `Hub` (stated in `Streams`): strong fairness for a viewer, because an RWMutex lets in no new reader
  while a writer waits; weak for publishers. Browsers are free, and so is the end of
  a write to one: `CloseEndsStreams` promises nothing for a browser that never reads
  what it is sent.
- `MqttPool`: weak fairness for calls that have begun, timers, and the rest of
  `Close`.
- `Subscriber` (stated in `Streams`): weak fairness for calls that have begun and for the retry of the
  janitor; strong for the grant, that is, a broker that is asked again and again
  agrees in the end. Without that assumption nothing could be promised.
- `MqttSubs`: weak fairness for the connection loop, the broker and callers;
  strong for the mutex. `HealthyTopicsRestored` is conditional on a connection
  that lasts.
- `MqttPublish`: weak fairness for calls that can go on and for the rest of
  `Close`; neither timeouts nor answers are relied upon.
- `Device`: weak fairness for every process that can run and for the service to be
  started again: procd does that five times an hour (`respawn 3600 5 5`), which is
  more than `MaxFailures`; with a broken key it gives up, which `keyCut` excludes.
  Strong fairness for the user, who tries again among other processes that come
  and go: opening the panel, and sending the redemption through the gateway.
- `LoginThrottle`, `Sessions`, `SourceState`, `RegistryStore`: safety only (a
  refinement included).

## 4. Proofs

TLAPS proves, for every value of the constants that satisfies the assumptions
named in the modules:

`SchedulerProofs` (assumption: `Jobs` finite, `Workers` at least one, names
distinct)

- `PoolInv` is inductive: types; per job, the flag is set exactly while a tick
  has claimed it or a collection is under way, and never both (`FlagInv`); the
  slots taken are the jobs that collect. None of the parts is inductive alone:
  that `slots` stays a natural number when one is given back needs the count,
  the count needs that a job collects once at a time, and that needs the flag.
  Hence `TypeCorrect`, `FlagsAreCleared` and `PollingIsBounded`, which states
  `CollectionsFitThePool`: one collection per job, and no more of them than slots.
- `SyncInv` is inductive: the lock is held by exactly the caller inside
  `sync_jobs` (`MutexInv`); a job in the map belongs to its source, is not
  cancelled and runs, and a loop that runs and is not cancelled is in the map
  (`JobMapInv`); and, when no change waits for its Sync, the Sync under way has
  listed the registry as it is, or, with none under way, the jobs match it
  (`ConvergeInv`). Hence `LoopsStayInReach` and `JobsConverge`.
- `LingerInv`, relative to both: a collection without a loop belongs to a job
  whose context has ended. Hence `OverlapsAreLeftovers`.

`HubProofs` (assumption: a buffer of at least one)

- `HubInv` is inductive: types, and `MapInv`: what is in the map is streaming or
  leaving with a real cancel and an open channel, and a publisher has yet to
  send only to what is in the map. Hence `HubTypeCorrect` and `PublishIsSafe`,
  which states `MapOutlivesNoStream`: no send on a closed channel, and nobody in
  the map who has left.
- `OrderInv`, relative to it, is about what a viewer got, that is, what it has
  received followed by what its channel holds (`Got`): all of it was published; no
  two publishers send one event; a publisher has yet to try only those who have not
  got its event; one that is alone has the latest. `SeenInOrder` alone is not
  inductive, because nothing in it keeps a publisher from sending an old event.
  Hence `EventsArriveInOrder`, for any number of overlapping publishers and any
  depth of the buffer. The order is stated over indices, and the lemmas say what
  appending and taking do to the indices of a concatenation: no induction is needed.

`SourceProofs` on `SourceState` (assumption: the limit of the history is a natural
number)

- `ShowInv` is inductive: types; what a run is about to write fits its kind and
  its place (`FinalInv`: a poll a running frame and then a final state, a lost
  subscription an error, a mark of waiting nothing but its frame); a state shown as
  running has a run before its commit (`RunningHasARun`). Hence
  `StateTypeCorrect` and `NoCardIsLeftSpinning`, for any number of overlapping
  runs.
- `ApartInv`, under `apart`: at most one run is under way but for marks beside
  marks, and none beside a deletion (`Alone`); what each carries is the latest
  reading (`Carried`); between the two writes of a commit the sample it is about to
  append is the state shown, if nothing flapped (`Sampled`); a deletion under way
  has cleared what it went past (`Cleared`). Each names what is true in the middle
  of an operation whose end the property speaks of. Hence `ReadingsAreCarried`,
  `HistoryAgrees`, `DeletionIsComplete`.

`DeviceProofs` on `WebExport` (assumption: every version has the entry file; versions
may come back and share their files)

- `ExportInv` is inductive: types; a marker is of the installed files or of some they
  have replaced, and the directory is what it says, unless an export has begun since,
  which one does only over a marker of replaced files (`MarkerIsEarned`); what the
  exporter writes is installed or was replaced while it ran (`MineIsKnown`); what has
  been written is what was meant (`Written`). Hence `CompleteIsWhole`, for any
  number of files, versions, downgrades and interrupted exports, with the exception
  that `ExportedIsWhole` names (section 5, 28).

`MqttProofs` on `MqttPool` (assumption: finitely many connections, names distinct)

- `PoolInv` is inductive: `ConnsAreAccountedFor` together with what it rests on:
  nothing is known of a connection not yet dialed (`Untouched`), callers hold
  dialed ones (`CallsHaveConns`), a closed pool has no table (`TableOfThePool`), what
  is in the table is open and nobody shuts it down (`CurrentIsOpen`), and a timer
  runs for the connection in the table only (`TimersAreForCurrent`), so that
  `forget`, which deletes by key, never forgets another one. Hence `NoConnIsLost`
  for any number of callers and connections.

`SourceProofs` on `RegistryStore` (no assumption but that names are distinct; any number
of handlers, changes, inodes, failures, kills and power cuts)

- `StoreInv` is inductive: types; and, unless a Save began during another (`SoloInv`):
  one handler at most is inside `Save`, whatever the others change meanwhile
  (`Alone`); what a name refers to is readable and on flash (`Durable`); the temporary
  file has what its writer has written so far, and the file is none of its inodes
  (`TmpOf`); a snapshot being saved has everything that was answered and nothing that
  is not in memory (`SnapshotOf`), which is why the rename loses nothing; what was
  answered is in the file. Hence `RegistrySurvives`, `AnswersAreKept`, and
  `StoreIsAtomic`: the initial states map to those of `AtomicRegistry`, `Snapshot` to
  its `Begin`, `Rename` to its `Save`, `CallFails` to its `GiveUp`, `Change` to its
  `Change`, the kernel, kills and the power to its own steps or to none.

`SubscriberProofs` (assumption: at least one handler, names distinct)

- `SubInv` is inductive: `NoForgottenSubscription`; a caller has a sub at hand exactly
  while it attaches it, and it is granted until that is stored (`AttachInv`); nobody
  else has it in hand, and it is neither held nor due (`AloneInv`), so that no retry
  meets an attach; an active sub belongs to its source and is granted while held,
  and what is about to be cancelled is not active any more (`ActiveInv`). Hence
  `NothingIsForgotten` and, relative to it, `SubscriptionsFollow`, for all sources
  but those whose last change was not saved.

`DeviceProofs` on `Startup` (assumption: the contents of files are distinct values, at
least one token)

- `StartInv` is inductive: types; each file holds texts of its own kind (`Kinds`), and
  what a process holds fits its place (`Holds`); while no two Saves have
  overlapped, whoever has opened a temporary file is alone with it, it is empty
  until written and whole until renamed, so that no file is ever half of one
  (`SaveInv`); while the service was not stopped inside writing the key, a key is
  whole and comes after a whole certificate (`PairInv`). Hence
  `StartsAreNotRefused`, for any number of processes, kills and failing calls.

`DeviceProofs` on `Requests` and `Device` (assumption: as above, and the one on
direct calls of section 2)

- `DeviceInv` is `ExportInv`, `StartInv` and `PanelInv`. The steps of `Requests` are
  steps of `Startup` or leave it alone, so that `StartInv` carries over. `PanelInv`
  says that a process has no secrets in memory before it reads them, and that the
  file is missing only while whoever generated the token is saving it (`Fresh`);
  that, unless two processes generated one, there is one token that whoever holds a
  token holds, and that the file has, and the temporary file as soon as somebody is
  about to rename it (`TokenInv`); that what a gateway process has in hand came
  over loopback with the address of the browser in X-Forwarded-For, and with the token
  it loaded, if any (`CallInv`). The temporary file is the point of `TokenInv`: what a
  killed process left in it does not count, until somebody opens and fills it.
  Hence `TokensAgree` (`CredentialsAgree`), `CodesAreForTheDevice`
  (`CodesStayOnTheDevice`) and `ClientsAreKept` (`GatewayKeepsTheClient`: which address
  `client_ip` makes of a request of the gateway, with the loopback trusted and without),
  and again,
  on the composed device, `DeviceExportsAreWhole` and `DeviceComesBack`: for any
  browsers, direct calls, trusted proxies, processes and tokens.

`AccessProofs` on `Sessions` (assumption: limits of at least one; the initial
password is not among those chosen)

- `SessionInv` is inductive: types, what each handler carries at each place
  (`TaskInv`), codes and tokens are drawn in order and one that can be redeemed was
  not (`CodeInv`), both tables within their limits (`SizeInv`; the lemmas count what
  `Live` and the eviction of an oldest one leave). Hence `TablesStayBounded`. From it
  `NobodyIsLoggedOut`, the action property `SessionsEndForAReason`, which is proved
  and not checked by a run.
- `PasswordInv`, relative to it: unless a Save failed, the sessions are of the
  password that is good *or* a change is past `SetPassword` and will clear them.
  Hence `OldSessionsEnd` (`ChangeEndsSessions`), for any number of overlapping changes,
  logins and resets.
- `FlagInv` and `FileInv`, relative to it: flag and password agree also in what a
  handler is about to write; while nobody has written beside another one, at most
  one handler writes, it has what is in memory, so has the temporary file when it is
  about to be renamed, and so has the file when nobody writes. Hence
  `SecretsSurvive` (`SecretsAreKept`).

`AccessProofs` on `LoginThrottle` (assumption: limits and times of at least one tick;
a window is at least twice as long as a check; finitely many sources)

- `ThrottleInv` is inductive: `LimitsHold`; an attempt is as old as a check at
  most; and, per source and for the gate, the remembered failures are `Orderly`: of one
  counting window each has its own number below the limit; a window was over when a
  failure of a later one happened; who opened a window began no longer ago than a
  check takes; no window between two is missing. What the record counts are
  the failures of the present window (`CountedBy`); without a record that window is
  over (`OverBy`). It follows that at most three windows can have failures within the
  length of one, and their numbers bound how many: `BurstsEndInALock`
  (`BurstsAreLocked`) and `LimitsAreKept` (`LimitsHold`), for all limits, windows
  and lock times. The cardinality is bounded by an injection into ages times
  numbers.

`MqttSubsProofs` (assumption: topics are ordered, names distinct)

- `SubsInv` is inductive: types; a connection that works has its link, and the
  connection loop calls `reconcile` only while it reconciles (`LinkInv`); the lists of
  who holds the mutex are topics still to be asked for (`ListsInv`); the last packet
  on the wire is the one somebody waits for, all others were given up on
  (`WireInv`); but for topics given up on, `applied` is what the broker has, except
  for the topic it has just agreed to (`AgreeInv`); and when no caller has yet to look
  at the wanted set, the lists are *all* the difference (`FollowInv`). Hence
  `AppliedFollowsTheBroker` (`AppliedIsAcknowledged`) and `BrokerHasTheWanted`
  (`SessionFollowsWanted`), for any topics, refusals, timeouts, callers and
  connections. That the topic whose turn it is exists (`FirstIsOne`) is the
  least-number principle of the library, for a set.

`MqttProofs` on `MqttPublish` (assumption: at least one identifier; and, in the model
itself, `Owed`, `NobodyLingers` and the broker described in section 2)

- `PublishInv` is inductive. `LinkInv`: types, and what goes with a connection.
  `NumberInv`: a message is with its call, on its way, held by the broker or passed
  on, and in one of these places. `TokenInv`: of each handshake the client began one
  packet is under way, in one of the two directions. `CallInv`: the table has the
  identifiers of the calls under way; wherever such an identifier occurs, it means
  the message of that call; and nobody says it is done, on the wire or in the
  channel of the call, before the message was passed on. Hence `PendingIsTheCalls`
  (`TableIsTheCalls`) and `PublishTellsTheTruth` (`OkMeansDelivered`), for any number
  of callers, identifiers, connections and packets under way. `TokenInv` is why
  identifiers may be used again: an answer to the last use would otherwise speak for
  the next.
- `ReceiveInv`, a part of it, is about what the broker sends: with QoS 0 and 1 each
  PUBLISH is the only one of its message (`Uncounted`); a handshake is in one of five
  phases (`Resting`, `SentOnce`, `SentTwice`, `Releasing`, `Released`), each of which
  says which packets may be in either direction, in which order, and whether
  OnMessage has been given the message. The two that matter: a PUBREL is behind
  every copy of its message, and while it is under way the identifier is still in
  `inbound`. Hence `IncomingOnceHolds` (`IncomingOnce`), however often the broker
  repeats itself.

Only model-checked are the nine liveness properties: `RemovedSourceFallsSilent`,
`StopCompletes`, `PollingGoesOn`, `CloseEndsStreams`, `CloseRetiresAll`,
`RefusedIsRetried`, `HealthyTopicsRestored`, `CloseWakesCallers`,
`HandoffSucceeds`. They need fairness and ENABLED, out of reach of the prover.

How the proofs are laid out: one lemma per action or group of actions, one step
under it per conjunct that the action can disturb, and the conjuncts it cannot
disturb dealt with once, for all steps that leave their variables alone. Where a
name of a definition occurs in two modules that are proved in one, the name
carries that of its module (`PublishInit`, `RegistryTypeOK`, `throttleVars`).
Recursion is avoided throughout: facts about sequences speak of their indices,
and least elements and cardinalities come from the theorems of the library.

## 5. Divergences between the code and what it says

Found while modelling. Number 1 has a run that shows it, and is listed as a finding in
`PROJECT.json`. Numbers 3 and 4 can be seen with TLC by changing a configuration as
said there. The properties of the passing runs are stated so that
they hold in spite of all of them, and name the circumstance they exclude.

1. **A refresh ends with its request** (`state_refresh`). `executor.go:225` says
   the refresh is asynchronous, but it collects under the context of the HTTP
   request (`handlers_registry.go:134`), which ends when the 202 is written.
2. **An answered change can be missing from the file.**
   `store.go:125` says a PUT is saved at once; two Saves take their snapshots
   under the lock but rename outside of it, the older one possibly last:
   `AnsweredIsSaved` says nothing once two Saves have `overlapped`. They also share the
   temporary name (`store.go:72`), so one can truncate what the other is about to
   rename: a power cut at that moment leaves a file that does not load, against
   `store.go:49`. Until two Saves overlap neither can happen (`AnswersAreKept`,
   `RegistrySurvives`).
3. **The older set of topics can win** (`WantedFollowsSubs` as an invariant in
   `MCMqttPool.cfg`). `mqttpool.go:233` says a
   subscription is registered and converged at once; the set is computed under
   the lock and handed over outside of it (`mqttpool.go:246`).
4. **A subscription can outlive its entry** (`NoOrphan` as an invariant in
   `MCStreams.cfg`).
   `subscriber.go:55` says the set converges to the registry; a Sync that meets
   the placeholder of a subscription still being attached calls its empty cancel
   and forgets it, and `attach` then stores the real one where nobody looks.
5. **A double close at shutdown.** `hub.go:88` says `Close` disconnects all
   subscribers; it closes their channels, and the cancel of each streaming
   handler (`hub.go:75`) closes its channel again and panics. In `Hub`,
   `stage[v] = "panicked"` is reachable.
6. **A full buffer drops the newest event**, not the oldest as `hub.go:15` says
   (`hub.go:49`): after `PublishSends` on a full buffer the event is in no
   buffer.
7. **A late Sync starts loops after Stop.** `scheduler.go:83` says Stop stops
   every polling goroutine. A handler that outlives the five seconds of
   `Shutdown` calls `sync_jobs` (`scheduler.go:115`), which starts a loop under
   the ended context or, before `StopCancels`, one nobody waits for:
   `phase = "stopped" => \A j \in Jobs : loop[j] = "none"` is violated.
   `StopCompletes` shows that Stop returns all the same.
8. **Collections of one source can overlap**, although `ARCHITECTURE.md:377`
   says they never do: a changed configuration starts a new job while the
   collection of the old one is under way (`scheduler.go:141`).
   `OnlySupersededOverlaps` is what does hold, and is proved.
9. **Refreshes are outside the worker pool** (`executor.go:237`) that
   `ARCHITECTURE.md:367` describes as the limit. `CollectionsFitThePool` is about
   the collections of the loops.
10. **Overlapping collections put an older reading back** (`executor.go:67` and
    `:73`): the frame shown while collecting carries a reading taken before the
    other collection finished. `ReadingIsTheLatest` therefore requires `apart`.
11. **The sweep can mark a fresh reading stale** (`scheduler.go:236`): it decides
    on a copy, and `MarkStale` marks what is there later.
12. **A deleted source can come back** (`handlers_registry.go:61`): a collection
    under way during the deletion writes state and sample again.
    `DeletedLeavesNothing` requires `apart`.
13. **The reaper can close a connection that was just taken**
    (`mqttpool.go:315-324`): between its look and its `shutdown` a caller may
    take the connection and register on it; the caller is granted a subscription
    on a connection that is then closed.
14. **A stale `c.idle`** (`mqttpool.go:311`): a timer that went off while there
    was a subscription leaves `c.idle` set, and no timer is armed afterwards:
    a connection that is not used any more stays open until `Close`.
15. **A late UNSUBACK** (`subscribe.go:123`) leaves a topic in `applied` that
    the broker has removed; wanted again, it is not subscribed on this
    connection. `AppliedIsAcknowledged` excludes topics given up on.
16. **A refused topic holds up those after it** (`subscribe.go:61`): reconcile
    returns at the first failure and the topics are sorted.
    `HealthyTopicsRestored` says what still holds.
17. **A waiter can sit out its timeout on a dead connection**
    (`client.go:151-156` against `publish.go:82`): while `run` itself
    reconciles nobody looks at the end of the read loop, so nobody closes the
    link channel. The caller still returns, by the timeout.
18. **The backoff does not double** with the default configuration.
    `throttle.go:12` and `:143` promise 15, 30, 60 minutes. The first lock lasts
    as long as the counting window, so when it ends the window has lapsed but for
    one instant, and `Allow` (`throttle.go:91`) deletes the record with its
    `streak`.
19. **A locked source can be evicted** (`throttle.go:109`): when nothing in a full
    table has expired, the record that has counted longest goes, locked or not;
    `throttle_test.go` says that a locked source must not be released by it.
    `LimitsHold` and `BurstsAreLocked` say what the table does promise.
20. **A failed Save leaves the new password in memory** (`secrets.go:133`): the
    caller is answered 500, the old password is no longer accepted and no session
    is ended. `ChangeEndsSessions` requires `saved`.
21. **Two writers of the secrets file** (two changes at once, or `-reset-password`
    beside the service) share a temporary name (`secrets.go:206`) and rename in
    any order: the file can keep the older password, and the service never learns
    of a reset until it restarts. `SecretsAreKept` requires `apart`.
22. **A login that overlaps a change keeps its session**: the password was
    checked before, the session issued after `clear` (`session.go:182-197` and
    `:286`).
23. **Two first starts, two tokens** (`secrets.go:64`): the service and
    `-print-token` that both find no secrets generate a token each; the file has the
    last one, and the service keeps its own until it is started again.
    `CredentialsAgree` requires that this did not happen (`raced`).
24. **A kill inside writing the key blocks every later start** (`certs.go:114`): both
    files exist, so the pair is kept, and loading it fails each time until somebody
    deletes it. `NoStartIsRefused` excludes it (`keyCut`), and shows that a kill
    anywhere else is repaired by the next start.
25. **Overlapping Saves share a temporary name** (`secrets.go:206`, and the same way
    in `config.go`): a process can rename what another has just truncated, and a
    start at that moment is refused; or the rename finds nothing.
    `NoStartIsRefused` requires that none overlapped (`overlapped`).
26. **Up and down in any order** (`client.go:377`): every change of the connection is
    told by a goroutine of its own. A late "down" leaves a connected source in
    error until its next message (`Reconnected`, then `MarkError`, in
    `SourceState`). `ReadingIsTheLatest` is about the reading, which survives it
    (marks beside marks are `apart`); the status does not.
27. **The gateway does write secrets**: `main.go:172-176` says that it never creates
    them. It looks for the file first, but `LoadSecrets` completes and saves a file
    that lacks a token or a password (`ReadSecrets` with `job = "gateway"`).
28. **A downgrade can take half an export for a whole one.**
    `export.go:61` says that marker and entry file mean that the last export is
    complete. The marker of the older version stays while a newer export is under way;
    cut short, and the older package installed again, both match and nothing is
    exported. `ExportedIsWhole` names this case (`cut`, and a marker of a replaced tree
    that is installed again), and is proved for every other.
29. **The initial password is not confined to the LAN behind the gateway.**
    `INSTALL.md:224` and `session.go:150` say so, and
    `gateway.go:147-149` that the marks of the gateway keep this judgement right. The
    marks decide who may ask for a login code (`CodesStayOnTheDevice`), but
    `client_ip` (`remote.go:21`) reads them only if `auth.trusted_proxies` names the
    loopback. Neither `config.Default()` nor the shipped configuration does: every
    browser behind the gateway is 127.0.0.1, for this rule and for the limits of the
    login, which then count all of them as one (`GatewayKeepsTheClient`).
30. **X-Forwarded-For is believed after all**, from a trusted proxy: `client_ip` takes
    the nearest untrusted address of it, else its first address, else X-Real-Ip
    (`Told`). `ARCHITECTURE.md:768` and `:894` and `INSTALL.md:229-230` say that
    only the other end of the TCP connection counts and the contents never do.
31. **A browser that does not read keeps its stream open.** `hub.go:88` says `Close`
    disconnects all subscribers, but it closes channels, and a handler inside a write
    does not look at its channel. The server has no `WriteTimeout` (`main.go:287`),
    so the write may last as long as the connection: in `Hub`, without `WriteReturns`.

## 6. Not modelled

- Pure data: templates, parameters, extraction, validation, packet encoding,
  topic matching. They have no state and no order in which they could go wrong.
- Transports: a collection succeeds or fails, at any time.
- `RunAction`, one bounded request under a slot of its own that changes no state of
  a source.
- The rest of the start: the demo entries (`seed_demo`, `main.go:417`, which keeps
  those it has added when a later one fails), the redirecting listener, TLS switched
  off or with certificates of one's own, tokens from the environment, development
  mode.
- The rest of the server: CORS, size limits, headers, read-only handlers. Expiry of
  sessions and several browsers are in `Sessions`, not in `Requests`; the limits of
  the login in `LoginThrottle`.
- Wall-clock time: intervals, backoff and timeouts are "may happen now".
- Power cuts for the secrets, the configuration and the export, which are written
  without fsync (`secrets.go:207`): `Startup` and `WebExport` have kills and failing
  calls, `RegistryStore` has the power cuts. Rotation of the API token, which
  nothing calls.
- The live channel of the front end (stream, probe, polling, `live.ts`): the one
  hazard of the list without a model.
- Packaging, banner, the views of the front end: presentation.

## 7. Plan

What is left, in order of importance.

1. The live channel of the front end.
2. Abstract specifications, with the refinement proved: for the hub (each viewer has a
   subsequence of the events), for the pool (a registered subscription is on the
   connection of the table), for the throttle (a failure counter per source and
   window).
3. Composition: `Subscriber` over `MqttPool`, to replace the atomic grant by the
   call it stands for; `MqttPool` and `MqttSubs` joined at `SetSubscriptions`.
4. Action slots of `RunAction`, beside the slots of `Scheduler`.
5. Algorithms against references: topic match, remaining-length encoding,
   parameter defaults, template rendering.

Done: the modules of section 2, and the proof of every safety invariant and action
property of their runs.

## 8. Running

    tlc -workers 2 -config MCStreams.cfg MCStreams.tla
    tlapm SchedulerProofs.tla

The longest proof, `MqttProofs`, takes a few minutes.

`PROJECT.json` lists every run with its module and configuration, the source
lines each definition stands for ("map"), and for each property a mutated
definition that violates it ("mutants").

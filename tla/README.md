# Verification of sasy_server

`sasy_server` is a game server platform on top of the skynet actor framework.
The program proper is `src/game_room`: a **login server** process that owns
accounts, sessions and the list of game servers, and any number of **game
server** processes on which users sit at tables and play. Both run on the copy of
skynet in `src/skynet`, a C kernel that runs services on a few worker threads.
This directory holds TLA+ models of the kernel and of the services on it, the TLC
configurations that check them on small instances, and TLAPS proofs of the main
invariants of the session manager, the server registry, the gateways and skynet's
dispatcher for instances of any size.

## 1. Inventory

Every service is one Lua state. A handler runs alone until it yields in
`skynet.call`, `skynet.newservice` or `skynet.sleep`; any number of other
handlers of the same service run before it resumes. Messages between two given
services arrive in order. An error in a handler answers its caller with an
error. Processes talk through `cluster.call`, which may fail. Everything that
is hard in this code comes from these four sentences.

### Login server

| Part | State | Operations | Talks to |
|---|---|---|---|
| Session manager (`LS_model_sessionManager.lua`) | `_hash.session`, `_hash.platformID`, `_hash.userID`; items with two timestamps; user structs (`sui`) with status, agent and game server | `registerSession`, `getUserItemByPlatformID`, `switchUserItem`, `registerUser`, `gs_login`, `gs_logout`, `gs_offline`, client and game server disconnect events, the sweep `cleanExpiredInfo` | web interface, login controller, connections, game servers (through GSProxy), bag and other loading services |
| Login controller (`LS_controller_login.lua`) | retry counts per request | request `0x000100` | session manager, database |
| Connections (`tcpConnection.lua`, `wsConnection.lua`) | `_cache` (session, struct, user), critical section | packets in and out, `setCache`, `clearCache`, `exit` | gateway, controllers, event dispatcher |
| Struct pool (`cItemBuffer.lua`, `lua-sui.c`) | free list, `isInit` of each struct | `allocate`, `release`, attribute access | session manager, user manager |
| Server registry (`LS_model_serverManager.lua`) | servers, nodes, kinds, running player counts, heartbeat ticks | `gs_registerServer`, `gs_onlineReport`, `gs_relay`, `gs_info`, the timer `checkServerTick`, lists for clients | game servers, event dispatcher, GSProxy |
| Message proxy (`LS_model_GSProxy.lua`) | per server: sign, buffer of at most 100 messages, one pending pull | `send`, `gs_pull`, connect and disconnect events | registry, session manager, game servers |
| Activities (bag, pay, sign-in, ranking, world boss, chat ...) | caches before the database | one request or event each | database, session manager |
| HTTP workers and consoles | none | parse, check, call | session manager, pay, gm |

### Game server

| Part | State | Operations |
|---|---|---|
| Server status (`GS_model_serverStatus.lua`) | sign, configuration | registers, reports, registers again when refused, aborts when registration fails |
| Puller (`GS_model_LSPuller.lua`) | sign, one loop | pulls the login server's messages and carries them out |
| User manager (`GS_model_userManager.lua`) | `_userItemHash`, user structs | insert, status changes, offline, logout, kick |
| Tables (`GS_model_tableFrame.lua`, `GS_model_tableManager.lua`) | seats, game status | sit down, ready, start, conclude, stand up |
| Game (`comprise/testGame`) | fish, bullets, scores | the fishing game behind the table frame |
| Items, tasks, activities, robots | caches before the database | |

### Shared

| Part | State | Operations |
|---|---|---|
| Gateways (`tcpGateway.lua`, `wsGateway.lua`, two gateservers) | table and count of clients, table of connections | open, forward, packets, close, kick, time-outs |
| Service timers (`timer.lua`) | active timers, tick, whether the ticker runs | set, clear, start, stop, the ticker's loop |
| Connection pool (`mysqlConnectionPool.lua`) | list of connections with the time of their last use | get, renew, replace a failed one |
| Event dispatcher, resource manager, parsers, logging | listeners; tables filled at the start | |

`chat_room` and `http_module` are separate small programs.

### skynet

| Part | State | Operations | Threads |
|---|---|---|---|
| Dispatcher (`skynet_server.c`, `skynet_mq.c`, `skynet_start.c`) | contexts with reference counts, a queue per service, the global queue, sleeping workers | launch, send, dispatch, kill, sleep, wake, quit | all |
| Message queue (`skynet_mq.c`) | ring, its size, overload threshold | push, pop, double | under a spin lock |
| Handle storage (`skynet_handle.c`) | table of handles, sorted table of names | register, grow, retire one or all, name, find | under a reader-writer lock |
| Reader-writer lock (`rwlock.h`) | two words | lock, unlock | atomic operations |
| Timer (`skynet_timer.c`) | wheel of five levels, a clock word that wraps | set, tick, fire | lock dropped while firing |
| Socket server (`socket_server.c`) | slots, pipe of commands, write lists, counts of messages under way | open, listen, accept, start, send (two priorities, direct), close, shut down, poll | socket thread and workers |
| Framers (`lua-netpack.c`, `lua-websocketnetpack.c`) | what is left of the last chunk | cut a chunk into packages | one service |
| Multicast (`multicastd.lua`, `lua-multicast.c`) | groups, packages shared by reference count | subscribe, publish, unsubscribe | services on several threads |
| Cluster (`clustersender.lua`, `clusteragent.lua`, `socketchannel.lua`, `lua-cluster.c`) | sessions, parts of long messages | call, push, answer, break | two processes |

### What is hard

* **State read before a yield and written after it.** `kickLS` and
  `switchUserItem` choose a status, ask the old connection to clear its cache,
  and write the status when the answer is there; `gs_logout` starts the clock of
  a struct after loading the bag. Logins, logouts, disconnects and dying game
  servers run in between.
* **Events that name too little.** A disconnect event carries the user, not the
  connection.
* **A traversal with yields** over a table others insert into.
* **A pool of C structs** reused at once after release, with pointers to them in
  connections, controllers and suspended handlers.
* **Two processes that restart independently** and agree about registration only
  through heartbeats, with messages in a bounded buffer fetched by long polling.
* **Flags and counts shared by threads** with locks that are held for a few lines:
  whether a queue is in the global queue, who may free a context, whether a worker
  may write to a socket itself, who still has a message for it under way.
* **Words that wrap and tables that grow**: handles, ticks, sessions of calls.
* **Bytes cut anywhere**, and messages in parts that overtake each other.

### What makes each part correct

* Sessions: an account is reached by one session only, the indexes agree, a
  struct serves one account, the lobby status and the recorded connection go
  together, a dead connection is forgotten.
* Registry: what clients are shown is what is registered, counts are sums,
  silence removes, refusal re-registers.
* Proxy: each message at most once and in order, no pull answered twice.
* User manager: a struct serves one user, who has the data of the other services
  and an open row in the log while in the room; every row gets its end. The code
  keeps the last two only for users whose logins do not cross and whose calls do
  not fail.
* Gateway: no connection without an owner, no packet lost, a logged-in client that
  goes is reported. Timers: not early, not lost, silent when cleared. Pool: no
  answer names a dead connection, and the pool keeps its size.
* Dispatcher: a queue is in one place, a message is handled once, in order and by
  one thread at a time, or its sender is told; nothing is used after it was freed.
* Handles and names find what they were given to. The timer fires on its tick. The
  lock excludes and does not starve writers. A socket carries whole messages in
  order, to the right peer, and does not leave data waiting for nothing.
* Framers deliver what was sent however it was cut. Packages of a multicast are
  freed once, after their last use. A call gets its own answer or an error.

## 2. Modules

| Module | Models | Lines of the code |
|---|---|---|
| `SessionManager` | session manager, login request, connection cache and exit, struct pool | `LS_model_sessionManager.lua`, `LS_controller_login.lua`, `tcpConnection.lua`, `cItemBuffer.lua`, `lua-sui.c` |
| `...Proofs` | inductive invariants and theorems (section 4) | |
| `ServerRegistry` | registry, proxy, server status, puller, events between them, crashes of both processes | `LS_model_serverManager.lua`, `LS_model_GSProxy.lua`, `GS_model_serverStatus.lua`, `GS_model_LSPuller.lua`, `eventDispatcher.lua`, `sign.lua` |
| `UserManager` | users coming into and leaving a room | `GS_model_userManager.lua`, `cItemBuffer.lua` |
| `Gateway` | a connection from accept to the end | `tcpGateway.lua`, `tcpConnection.lua`, `snax/gateserver.lua`, `gateserver_ws.lua` |
| `Ticker`, `ConnectionPool` | service timers, database connections | `timer.lua`, `mysqlConnectionPool.lua` |
| `Dispatcher` | threads, queues, contexts | `skynet_server.c`, `skynet_mq.c`, `skynet_start.c`, `skynet_handle.c` |
| `Mailbox` | abstract: what `Dispatcher` promises a service | |
| `MessageQueue` | the ring of a queue | `skynet_mq.c` |
| `Fifo` | abstract: what the ring promises | |
| `HandleStorage`, `RWLock` | handles and names, their lock | `skynet_handle.c`, `rwlock.h` |
| `TimerWheel` | timers | `skynet_timer.c` |
| `SocketServer` | TCP sockets | `socket_server.c` |
| `Netpack`, `WsNetpack` | framers | `lua-netpack.c`, `lua-websocketnetpack.c` |
| `Multicast`, `Cluster` | shared packages; calls between processes | `multicastd.lua`, `multicast.lua`, `lua-multicast.c`, `mcClient.lua`; `clustersender.lua`, `clusteragent.lua`, `socketchannel.lua`, `lua-cluster.c` |
| `MC...` | small instances | |

`PROJECT.json` maps every definition to its lines. Three of the MC modules put
several instances into one run over variables of their own and choose one at the
start: `MCSessionScenes` (two instances of `SessionManager`), `MCFairParts` and
`MCOtherParts` (components that share no state). What TLC explores is the union of
the state graphs, and each property is the component's own.

### SessionManager

State: the three hashes, the item tables, the structs, the connections, and
`co`, one record for each suspended handler with its locals. The login request
of a connection is `co[a]` (the critical section allows one at a time); handlers
started by the web platform, by game servers and by events are `co[w]`, `w` a
worker. A handler that does not yield is one action; one that yields is an
action per segment: `RegisterSession`/`RegisterSessionResume`,
`SwitchUserItem`/`Kicked`/`Loaded`, `GsLogout`/`GsLogoutLoaded`,
`OnEventGameServerDisconnect`/`Resume`. Messages on their way are the sets
`disconnects`, `serverDowns`, `notices`; `inGame` is what game servers believe.

Decisions worth knowing:

* The connection's answer to `clearCache` and the resumption of the waiting
  handler are one step; order with a `setCache` sent meanwhile is kept by the
  flag `cleared`.
* Timestamps are nil, within the life time, or beyond it. No life time runs out
  during a `clearCache` round trip (300 s against one message), and a game
  server is not reported dead twice during one.
* A traversal of `_hash.session` that is suspended while a key is added goes on
  over any part of the table, as Lua leaves it undefined.
* Item tables are values from a finite set; one that nothing refers to may be
  made anew.
* The database gives each platform account its own user. (The source has one
  fixed row, user 1003, in place of the query.)
* The loading services answer, or fail when `LoadMayFail`. `LS_model_bag` is
  commented out in `mainLoginServer.lua`; as shipped the call has no receiver.
* Left out: bindings of accounts to visitors, wealth and system messages, the
  controller's frequency control (it delays a second request, it excludes no
  order).

### ServerRegistry

State: the registry's tree, the events on their way to the proxy (per server, a
sign for a connect event and Nil for a disconnect event), the proxy's entries,
both sides' game server state, the message number sent next and the last one
each server processed. None of these handlers yields, so each is one action;
what takes time is the events, the pull that waits, and the silence of a server
(`TimePasses`). `GsCrash` and `LsRestart` may happen at any time. A removal
deletes all silent servers at once, as one timer call does.

Left out: match options, `fullCount`, the address chosen for a user, what a
relayed message does. The rows of kinds, nodes and servers are those the
commented-out queries would return (the source has one fixed row each). A
restarted login server has its services at the old addresses.

### Dispatcher and Mailbox

A thread is the sequence of steps it still has to do; a step is the code between
two locks or atomic operations, so every interleaving the machine can make of them
is there. A handler may send, launch and kill at will. `Mailbox` is what a service
may rely on: one mailbox, emptied in order by one handler at a time, no handler
before initialisation, nothing handled after death. The refinement
(`ImplementsMailbox`) reads the mailbox of a service off the queue and the steps of
the threads that hold a message of it. The queue is a sequence here; that the ring
with its growth is one is `MessageQueue!ImplementsFifo`. A handle is the service
itself; that the table finds it is `HandleStorage!Findable`.

Left out: the monitor, profiling, the text commands that change nothing shared, the
harbor's reserved context.

### HandleStorage and RWLock

Registration is two steps, because `skynet_context_new` writes the handle into the
context after the lock is gone; `skynet_handle_retireall` takes the lock for each
slot. The size of the table doubles and handles wrap at `HandleMask`. `RWLock` has
one action per atomic operation of the version the Makefile builds.

### TimerWheel

The wheel with `NearShift` and `LevelShift` bits per level and a word of all of them
together, so that the wrap of the word, which takes 497 days in the program, happens
in a run. `phase` says where `timer_update` is: the lock is free while it fires.

### SocketServer

Each step of a worker in `socket_server_send` and each command or event of the
socket thread is an action; the type of a slot, the count of messages under way and
the direct-write buffer are read and written as the code does, under `dw_lock` or
not. Messages are a few units long so that the kernel can take a part of one.
`use` says what happens in a run (how many slots, sockets, messages and senders,
which priorities, whether sockets are closed or shut down, whether one listens);
the program's behaviour does not depend on it. `Early` lets a service send on a
socket it has not been told is open. What `report_connect` does to the slot without
a lock is three steps, between which workers run: it sets the type (`ReportConnect`),
looks at the buffers (`ConnectTest`) and gives up the write event (`ConnectUnwatch`).
Left out: UDP, binding of foreign descriptors,
statistics, the exit command, setsockopt, exhaustion of the 2^31 socket numbers.

### Framers

A byte is known by its package and its place, so a package that comes out wrong by
one byte, or of another package, is seen. Chunks are cut at every byte. In `WsNetpack`
an unmasked byte also carries the place in the mask. A close frame may come at the
end of a chunk that has other bytes before it; `push_more` then takes the -3 of
`read_size` for a size, and the model's process ends (`Crashed`). Fragmented frames
and size limits are left out.

### Multicast and Cluster

`Multicast` has one channel, the daemon, the mailboxes of subscribers and the
reference count of each package; subscribers may unsubscribe, resubscribe and end
with packages in their mailbox. `Cluster` has both ends of a connection, two lanes
(low priority for parts), a connection that breaks and is made anew, and session
numbers that wrap (in the runs none comes round while it is in use).

### Gateway, UserManager, Ticker, ConnectionPool

`Gateway` has the gateserver's and the gateway's tables, one connection service per
client, and the mailbox between them; creating the service, forwarding and kicking are
calls others run during. `UserManager` has the way in (`insertUserItem`), out
(`setUserStatus` to `US_NULL`) and the kick, split at every call; the six services
with a user's data are one. Each call may fail (`LoadFails`, `RecordFails`,
`LogoutFails`, `ReleaseFails`), before or after it took effect. The hash has lost a
user before the first call of the logout, so the user may come in again while it is
suspended. Two history variables say what such a stay costs: `marred`, the users who
came in while an earlier login or logout was at work on them or whose load or record
failed, and `lost`, the rows whose number was overwritten or never came. In `Ticker` a
timer's function may yield, and handlers then set, clear, stop and start; an interval
may be 0, which keeps the ticker in its scan (`Endless`). In `ConnectionPool` creating
a connection yields and may fail.

## 3. Runs

| Run | Instance | Checks |
|---|---|---|
| `session_scenes` | two scenes: 2 accounts, 2 structs, 1 connection; 1 account, 2 sessions, 2 handlers besides the connection, 2 item tables; a game server in each, and loading may fail | `ScenesOK` |
| `session_agents` | 2 connections on 1 account, 2 sessions, 1 game server, 1 other handler, loading may fail | `TypeOK`, `IndexOK`, `UserIndexSound`, `SuiPoolOK`, `LSAgentOK`, `AgentTracked` |
| `registry_tree` | 3 servers in 2 nodes of 1 kind, no pulls | `TypeOK`, `TreeOK`, `CountsOK` |
| `registry_proxy` | 1 server, 3 messages, buffer of 2, 3 events in flight, fair | `ProxyTracks`, `ResponserOK`, `MsgOrder`, `RegistryHeals` |
| `dispatch` | 2 workers of different weight, 1 other thread, 3 services of which one runs at the start and two are launched, 2 messages | `QueueOnce`, `ContextsOK`, `ImplementsMailbox` |
| `dispatch_live` | the same with 2 services, fair | `QueuesDrain`, `SenderTold`, `WorkersEnd` |
| `socket` | five uses of 1 or 2 slots by 1 or 2 senders, fair | `WireOK`, `WriteWatched`, `SendingOK`, `CloseServed` |
| `handle` | 3 services, 5 launches, handles of 2 bits, a table of 2 that grows to 4, 3 names | `HandlesOK`, `SweepComplete`, `NamesOK` |
| `gateway` | 2 clients, room for 1, 2 packets, fair | `ClientsOK`, `ClientsServed` |
| `fair_parts` | lock: 3 threads; wheel: 32 ticks, 2 timers; multicast: 2 subscribers, 2 packages; cluster: 2 requests of up to 3 parts, 1 break; sessions: 2 connections on 1 account, no game server; fair | `LockOK`, `WheelOK`, `CastOK`, `CallsOK`, `PartsServed`, `SessionsServed` |
| `other_parts` | ring: of 2, 7 pushes; framers: up to 3 packages or frames; users: 2 for 1 seat, 2 handlers, 3 logins, 3 structs; pool: 2 connections, 2 handlers, 1 failure; ticker: 2 timers, 2 starts, 3 ticks, fair | `FramersOK`, `UsersOK`, `PoolOK`, `RingOK`, `TimersOK` |
| `handle_launch` | 4 services, two being launched at once | `GrowAssert`, violated |

These are conjunctions of a component's properties, each with its own comment where
it is defined:

| Property | Conjuncts |
|---|---|
| `ScenesOK` | `IndexOK`, `UserIndexSound`, `SuiPoolOK`, `LSAgentOK`, `AgentTracked` |
| `RegistryHeals` | `DeadServerForgotten`, `SurvivorRegistered` |
| `ContextsOK` | `TypeOK`, `RefExact`, `HeldNotFreed` |
| `WireOK`; `SendingOK` | `TypeOK`, `NotTorn`, `InOrder`, `OwnWire`; `SendingCounted`, `SendingAssert` |
| `HandlesOK`; `NamesOK` | `TypeOK`, `Findable`, `OwnHandle`, `GrowAssert`; `NamesFound`, `NamesLeave` |
| `ClientsOK`; `ClientsServed` | `TypeOK`, `ClientsCounted`, `DisconnectTold`; `NoPacketLost`, `AgentEnds`, `BadCloses` |
| `LockOK`, `WheelOK`, `FramersOK`, `CastOK`, `CallsOK`, `RingOK` | the safety properties of `RWLock`, `TimerWheel`, `Netpack` and `WsNetpack`, `Multicast`, `Cluster`, `MessageQueue` (with `ImplementsFifo`) |
| `PartsServed`; `SessionsServed` | `WriterServed`, `AllFire`, `AllFreed`, `AllAnswered`; `KickedAgentCloses`, `DeadAgentForgotten` |
| `UsersOK`, `PoolOK`, `TimersOK` | the properties of `UserManager`, `ConnectionPool`, `Ticker` |

`PROJECT.json` has mutants for each property, in most cases for each conjunct: a
plausible slip in one definition that makes TLC find the property violated.

What they show, beyond the comment at each definition: in spite of the stale writes
the session manager's indexes, the pool and the pair status/agent stay consistent
under every interleaving; `AgentTracked` holds because `exit` reports the user the
cache names, in one step with clearing it. It names the two ways in which a dead
connection can stay recorded, and shows that there is no third: its own load failed,
so that it has no user cached and reports nobody, or the user has dropped out of
`_hash.userID`, so that the report finds nobody. In a room, logins that cross and
calls that fail cost data and rows of the log, but no two users ever share a struct.
The registry's counts survive any order of reports, removals and registrations. The
single `in_global` flag is enough to keep a queue in one place, and a worker that goes
to sleep just after a push is woken by the timer thread's next tick, which is why
`QueuesDrain` needs the timer thread to be fair. Direct writes keep the order of a
socket's messages because a worker tests, under the lock, that nothing is buffered and
nothing is under way.

Some branches of the code are in the models and never taken in these runs, which is
part of what the runs say: `cluster`'s refusal of an incomplete request and its answer
to an unknown session need a message that the other end never sends, and the timer
wheel has nothing due before its shift, because a timeout of 0 never enters it.

### Disagreements

`handle_launch` documents one disagreement between the code and what it asserts: a
second launch makes the table grow before the first context has its handle.
Others, found while modelling, are not kept as runs. Each is a definition of the
module, or a constant, with which TLC shows the behaviour:

| Where | How to see it | What happens |
|---|---|---|
| `LS_model_sessionManager.lua:704` | `ExpiryExpected`, 2 connections, 1 server, no failing loads | The sweep finds an expired struct of a user who is in the lobby or in a game, raises an error the code calls unexpected (line 705), and leaves out the accounts after it. |
| `LS_model_sessionManager.lua:98` | `LogoutExpected`, `GameHasServer`, the same | `kickLS` writes a status chosen before it yielded: a `gs_login` handled meanwhile is lost, and `cmd_gs_logout` then refuses (line 501); or a user counts as playing with no server recorded. |
| `LS_model_sessionManager.lua:708` | `CachedSuiInUse`, the same | A login that overlaps `kickLS` ends with the struct cached in an agent that is not recorded; the struct expires under it ("operate an unused object", `lua-sui.c:744`). |
| `LS_model_sessionManager.lua:671` | `UserIndexOK`, 2 servers, 2 connections, 2 items, 2 workers, 1 session | A suspended `cmd_onEventGameServerDisconnect` clears the `_hash.userID` entry of a new item of the same user, made after the account was swept meanwhile (section 4). |
| `LS_model_GSProxy.lua:85` | `PullAnswered`, constants of `registry_proxy` | A connect or disconnect event drops a waiting pull without an answer; the game server's only loop is inside that pull. |
| `LS_model_sessionManager.lua:266` | `AgentTracked` without `agent[a].failed`, constants of `session_agents` | A failed load leaves a connection recorded that has no user cached: it reports nobody when it ends, and the user stays in the lobby. |
| `skynet_server.c:166` | `LaunchAlive`, constants of `dispatch` | `ctx->init = true` is written after the launch's reference was given back; another thread may have killed the service and freed the context. |
| `socket_server.c:1106` | `SendingAssert` with `Early = TRUE` | A message sent before the socket is open is not counted and is counted off later: the assertion at line 1131 fails. |
| `socket_server.c:1319` | `WriteWatched` with `Early = TRUE` | A direct write between `report_connect`'s look at the buffers and `sp_write(false)` leaves a rest in the direct-write buffer that nothing looks for. |
| `socket_server.c:315` | `SlotAssert`, constants of `socket` | A slot claimed by `reserve_id` has its old number for a moment; a second close of that socket reaches the assertion at line 418. |
| `socket_server.c:962` | `CloseServed` without `pipe[i].sd` | A plain close that finds a message under way and empty buffers leaves the socket half closed; the message is dropped and no write event ends it (comment at line 1014). |
| `skynet_handle.c:45` | `GrowFull`, constants of `handle` | The wrap skips handle 0 and with it one slot: a table with only that slot empty is taken for full, and the rehash reads a NULL context. |
| `tcpGateway.lua:51` | `ForwardAssert`, constants of `gateway` | A connection closed before its service has asked for its packets: the assertion fails in the service's start, and the service stays. |
| `gateserver_ws.lua:118` | `ClientsCounted` with `Web = TRUE` | A client the gateway closes itself stays in `client_number` for ever. |
| `lua-websocketnetpack.c:384` | `CloseReported`, constants of `other_parts` | A close frame that follows other bytes in a chunk is not reported: `push_more` does not test for -3 and copies a package of that many bytes. |
| `GS_model_userManager.lua:464` | `RowsEnd` without `lost`, `RowKept` without `marred`, constants of `other_parts` | A user logged out and in again during a login: one of the two rows of the log never ends. A call that fails leaves a user without a row, or a row without an end. |
| `GS_model_userManager.lua:355` | `DataKept` without `marred`, the same | The data of a user who comes in again while the logout is suspended is released by the resumed logout; a load that fails leaves the user in the room without it. |
| `timer.lua:21` | `TakenFires` of `Ticker` | A timer set between `stop` and the end of the old ticker is accepted and never fires. |
| `timer.lua:17` | `TimerFires` without `Endless`, the same | A timer of interval 0 is accepted and due again as soon as it has fired: the scan does not end and no other timer's turn need come. |
| `multicast.lua:65` | `LateDropped` of `Multicast` | A package that arrives after `unsubscribe` raises "Unknown channel"; the branch meant to drop it (line 82) is not reached. |

### Bounds

Two connections and two sessions are what it takes for one login to displace another
while a third handler (the worker) is suspended. Two workers are needed for a handler
suspended inside a traversal that another handler disturbs. Two accounts suffice for
confusion of structs. For the registry, two servers in a node and a second node give
each case of `deleteServer` (node stays, node goes, kind goes); a buffer of 2 with 3
messages overflows; three signs allow an old one in a pull, one in the proxy and a new
one. Two workers and a third thread are all that can meet at one queue and one
context: one that runs it, one that sends, one that kills. A service that runs at the
start has a message, and one more is sent, so that two can be in one queue or one
pushed while the other is handled; a longer queue is left to the proof of the
refinement. A third service, in `dispatch`, is what it takes to kill a service while
another launches it. Three units of concurrency meet
at a socket: two senders and the socket thread; slots are reused because one slot
serves two sockets in turn. Five launches in handles of two bits wrap and meet a
handle still in use. A wheel of one bit per level has every carry. The framers see
each cut of up to three packages, among them empty ones and, for websockets, bodies
longer than the mask and close frames behind other frames. A seat for one makes every
login of the other user a kick; two handlers are a logout and the login that crosses
it, and three structs let one be lost to a logout that fails. Bounds named `Max...`
limit the runs, not the program; `MaxBuffer`, `MaxClient`, `MaxPlayer`, `MaxSession`,
`QueueSize`, `HandleMask`, `PoolSize` are the program's constants made small. Symmetry
permutes values that no definition tells apart; runs with liveness properties use
none.

### Fairness

`SessionManager`: suspended handlers are resumed and messages delivered (skynet's
scheduler is fair), the loading services answer. An exit command queues behind
requests that came before it, hence strong fairness of `AgentExit` once asked
for. Clients, the web platform, game servers and the clock owe nothing.
`ServerRegistry`: the two timers, the events and the puller's loop are fair; a
dead server's report does grow old. Nothing is assumed of crashes or of messages
being sent.
`Dispatcher`: a thread that can run does, handlers return, the timer thread ticks;
nobody has to send anything. `SocketServer`: threads run, epoll reports a writable
socket again and again, and a socket that is reported takes something in the end
(strong fairness, since other events come between); a peer that never reads would
keep a shut down socket open only until then, as the code frees it at once.
`RWLock`: a thread inside the lock or its section runs on. `TimerWheel`: the clock
moves. `Gateway`, `Multicast`, `Cluster`, `Ticker`: messages are dispatched,
functions return, and TCP delivers while the connection lasts.

## 4. Proofs

Eight modules hold theorems. Each holds for every value of the constants, assuming
only the named ASSUMEs of the module it is about: nodes, services, servers,
connections and messages are any sets, bounds any numbers. TLC evaluates those
assumptions in every run. The modules of the four components of `PartsProofs` have no
ASSUMEs; what a theorem needs to know of their constants is its hypothesis, and the
instances of `fair_parts` and `other_parts` satisfy it.

| Module | Theorem | States |
|---|---|---|
| `SessionManagerProofs` | `TypeCorrect`, `IndexCorrect`, `SuiPoolCorrect`, `LSAgentCorrect` | `TypeOK`, `IndexOK`, `SuiPoolOK`, `LSAgentOK` |
| | `UserIndexSoundCorrect` | `UserIndexSound`, the first half of `UserIndexOK` |
| | `UserIndexCorrect` | `UserIndexOK`, given `DownUndisturbed` |
| | `AgentTrackedCorrect` | `AgentTracked` |
| `ServerRegistryProofs` | `TypeCorrect`, `TreeCorrect`, `ProxyCorrect`, `ResponserCorrect`, `OrderCorrect` | `TypeOK`, `TreeOK`, `ProxyTracks`, `ResponserOK`, `MsgOrder` |
| `DispatcherProofs` | `QueueOnceCorrect`, `ContextsCorrect` | `QueueOnce`, `ContextsOK` |
| | `MailboxCorrect` | `ImplementsMailbox` |
| `MessageQueueProofs` | `RingCorrect` | `ImplementsFifo`, given `QueueSize > 1` |
| `PartsProofs` | `LockCorrect` | `LockOK` |
| | `PoolCorrect` | `PoolOK`, given `PoolSize <= MaxConn` |
| | `UsersCorrect` | `UsersOK`, given `UserConstants` |
| | `CastCorrect` | `CastOK`, given finitely many subscribers |
| `HandleStorageProofs` | `HandlesCorrect`, `SweepCorrect` | `HandlesOK`, `SweepComplete`, given `OneLaunch` |
| `GatewayProofs` | `ClientsCorrect` | `ClientsOK`, given `~Web` |
| | `DisconnectCorrect`, `PacketsCorrect` | `DisconnectTold`, `NoPacketLost`, for both gateways |
| `SocketServerProofs` | `InvCorrect` | the inductive invariant `Inv /\ ConnInv`, with `Early` or without |
| | `OwnWireCorrect` | `OwnWire`, with `Early` or without |
| | `WriteWatchedCorrect`, `SendingCorrect`, `WireCorrect` | `WriteWatched`, `SendingOK`, `WireOK`, given `~Early` |

### Session manager

The invariant is `IInv == TypeOK /\ CoOK /\ IndexOK /\ SuiPoolOK /\ LSAgentOK`.
None of the parts is inductive alone. `CoOK` says, by the point at which a
handler is suspended, which of its locals are set and what they say: that the
item it will write to exists, and that the status it will write belongs to the
lobby (a login about to record itself) or does not (a handler that throws a
connection out). The latter is why stale writes do no harm to `LSAgentOK`: each
writes agent and status as a pair. `IndexOK` gives a login the account it read
through a session; `SuiPoolOK` says that releasing one item's struct takes
nothing from another. There is one lemma per action; `ItemsKept`, `SuisKept`
and the frame lemmas carry the parts an action does not touch.

`UserIndexOK` rests on `UInv`: a struct is held by an item that its account still
leads to and is the struct of that account's user (`StructOK`), and a suspended
`cmd_onEventGameServerDisconnect` remembers the user of its own item (`DownOwn`). That
gives the first half, `UserIndexSound`: whoever is found by user number is there. The
second half, that everybody with a struct is found, turned out to be false of the
code: while the handler waits in `kickLSAgent` (`LS_model_sessionManager.lua:670`),
another server's handler may release the struct, `cleanExpiredInfo` (line 694) drop
the account, and a new session and login make a new item for it; the resumed handler
then clears the *new* item's entry of `_hash.userID`. It takes two game servers, two
connections, two suspended handlers and 26 steps, so the runs check `UserIndexSound`
only. `UserIndexCorrect` therefore has the hypothesis `DownUndisturbed`: the sweep
drops no account that a suspended disconnect handler is at work on. It is broken only
by an account whose session is past its life time when its game server dies, and which
loses its struct to another handler while the first one waits.

`AgentTracked` adds `TInv` to `UInv`. A struct that names an agent is held by an
item, and one of three things is true (`TrackedAt`): the report of its user is on its
way; or the agent is open and answers for this very user, its cache says so, or will
when the load its login waits for has ended (`Cached`); or the agent is dead and
excused (`Excused`). So a login that has not reached its struct is named nowhere. What
makes it hold over a `kickLSAgent` is `KickAt`: a suspended handler whose `clearCache`
was not overtaken by a `setCache` waits on behalf of the one item whose struct names
the agent, and when it resumes it takes the agent out of that struct in the same
step; the cache it has emptied is then the cache of no struct. An agent that was
recorded anew meanwhile is covered by the order of the messages to it (`cleared`).
A dead agent is excused when its own load failed, or when its user is not found
through `_hash.userID`, so that the report, when it was handled, missed the struct
(`Unfound`). Neither excuse is taken back: a dead connection does not come alive, and
no step makes an entry of the index for an item that already has a struct (`Indexed`,
from which `UnfoundKeep`). The theorem has no hypothesis on the schedule or on the
loading services.

### Server registry

`IInv == TypeOK /\ TreeOK /\ ProxyTracks /\ ResponserOK /\ OrderInv`. The order of
messages is inductive only if the messages a puller has in hand all precede those
in the proxy's buffer and both lie between the last one processed and the next one
to be sent (`OrderInv`); cutting the buffer and pulling again keep an ordered
sequence ordered. `ResponserOK` is what shows that a pull is answered only with
messages that no earlier pull has taken. `ProxyTracks` goes through the events one
by one: the last event under way decides.

### Dispatcher and its refinement

A place is a thread and a depth in its stack of steps (`Places`). The invariant says
for each service: the reference count of the context is the number of places that
hold a reference, plus one for the handle table (`RefOK`); the queue is in the global
queue once, or in one place, or its flags say that it is nowhere (`QueueOK`); what
has not been launched is empty (`BornOK`); and while a service can be found but is
not initialised its queue is in the hands of the thread that launches it
(`ReadyOK`). `RefOK` is needed for `QueueOK`: a worker that gives up an empty queue
may rely on `in_global` only because it holds a reference to the context, and a
push is done with one (`PushHeld`). From `RefOK` follows `HeldNotFreed`, with the
exception the code makes: a launch writes `ctx->init` after it has given its reference
back, so the context may be gone by then if somebody has retired the service; its
queue is still there, because a queue not yet in the global queue is freed by nobody.
Each action changes one stack at its top; the
lemmas about `Do` say which places that adds and takes away, and cardinalities
follow from `FiniteSetTheorems`.

The refinement uses this invariant. `Mailbox` has for each service
its life, the messages waiting and the one in hand; the mapping reads the last off
the stacks (`Handling`), which is a function of the state because a queue is in one
place only. Every action maps to one action of `Mailbox` or to a stutter.

### Handles

`TableOK` says that a context in the table is where the handle it was *given* says,
and that nothing else is in the table; `Handled` that a context has that handle once
it is launched. This is inductive only if a table that has just been doubled has a
free place among the handles tried, for else the loop of `skynet_handle_register`
would double it again and the model's `Put` choose from nothing. It has: a full table
of `n` has one context for each remainder by `n`, so of two handles half a round of
the doubled table apart one has a free place (`GrownOK`), and of `2n` consecutive
handles two are half a round apart although the walk skips handle 0 (`PairTried`).
The arithmetic needs an even size and an odd `HandleMask`, which `SizeAssumption`
says (the program's are 4 and 0xffffff). `NoCollision` is the assertion of the rehash:
contexts in different slots have different remainders by the double. For the sweep,
`SweepInv` says that while a pass has retired nothing, the contexts it began with are
still before it; doubling the table moves a context up or leaves it where it is.

Both theorems have the hypothesis `OneLaunch == MaxLaunch <= 1`. When launches overlap
they are false of the code, since a context in the table may not have its handle yet:
that is what `handle_launch` shows.

### Ring and gateway

`MessageQueueProofs` maps the ring to the sequence of the messages between head and
tail. Its invariant is `TypeOK` without the overload report; the work is in the
lemmas that a push appends to that sequence, with and without the end of the ring
in between, that `expand_queue` keeps it, and that a pop takes its first. The
report's threshold is computed by a loop whose result needs an induction, so
`WarnedOnce` and the threshold's type stay with TLC.

`GatewayProofs` needs what each kind of message in the mailbox says about its client
(`MailOK`), how the socket, the two tables and the service agree (`ClientOK`), and
that the count is the number of entries (`NumberOK`). In the websocket gateway the
last does not hold (`gateserver_ws.lua:118`, see the disagreements), hence `~Web`; the
report of logged-in clients and the packets do not depend on it.

### Socket server

`Inv` has one part for each way in which threads that share slots without a lock
could mislead each other. `Owned`: between `reserve_id` and the command that fills it
a slot is reserved and has one owner, first the worker, then its command in the pipe;
so `open_socket` finds the slot it was promised and never somebody else's. `TagInv`:
the id in a slot belongs there and the tag is its, so slot and tag identify a socket
(`SameId`), which is what `inc_sending_ref` relies on. `Locked`: from `trylock` to
`unlock` the lock is the worker's, and while it writes the socket under it stays
open; this is `OwnWire`, and it holds because `force_close` takes the same lock before
it changes the type. `WatchInv`: a buffer that is not empty belongs to a socket whose
write event is looked for. It is inductive only together with what is not yet open
(a connecting socket waits for its write event anyway, an accepted one has nothing in
its buffers), with the fact that a connected socket is registered, and with
`ClosingLive` for a socket whose buffers have been freed and whose lock has not been
taken. It stops being true when an assertion fails, which ends the process. `ConnInv`
is about `report_connect`, which gives up the write event some steps after it has made
the socket a connected one (`Arriving`). Nothing comes into the buffers in between,
because no service has been told of the socket yet; a service that sends before it is
told breaks this (see the disagreements), hence `~Early` in `WriteWatchedCorrect`.

`CountInv` counts, for the socket of every slot, the messages in the pipe and those of
workers about to send theirs. That a new socket may begin at zero is `KnownInv`: a
message is under way only to a socket that services have been told of, and a socket
still to be opened is none of these. With `Early` a message can be under way to a
socket that is not open yet; then the count is wrong and the assertion of
`dec_sending_ref` fails (see the disagreements), hence `~Early`. The lemmas are grouped
by what a step may do: `Kept` and `Mild` steps of the socket thread, a slot that is
filled (`FillStep`), workers that open no socket (`WorkerMoves`) and workers that do
(`OwnerMoves`), commands taken from the pipe (`PopCount`) and put into it (`PushStep`).
`Inv` leaves the contents of the buffers open, because only their being empty matters
to it.

`WireCorrect` adds what is in them, as `WInv`, and the invariant it rests on is
`Inv /\ WInv`. `Flows` is the heart of it: for a socket in use, what the peer has got,
followed by what is left in the direct-write buffer and then in the list of high
priority, is a sequence of whole messages, each worker's of normal priority in the
order sent; the list of low priority is one of whole messages, since
`raise_uncomplete` moves one written in part to the other list; and all of it is older
than what the same worker has under way in the pipe or in hand. `Writers` says what
makes a direct write safe: while a worker holds the lock and writes, nothing is left
of an earlier direct write, the high list and the wire are whole, and none of the
worker's own messages waits ahead of it. The last follows from `CountInv`, since a
worker writes directly only when `sending` is zero, and this is where `~Early` is
needed. `Blank` (nothing written to a socket not open yet) starts a
reused slot clean; `Numbers` ties the numbers of messages to the order in which each
worker sent them; `Buffers` and `Bounds` are types. The three ways to the wire have a
lemma each: `FlowDrain` for `send_buffer` with `raise_uncomplete`, `FlowPut` for the
command of `send_socket`, `FlowDirect` for `socket_server_send`. `WholeShape` gets
`NotTorn` from `Flows`, and `WStep` joins the actions.

### Pool, user manager, multicast and lock

`PartsProofs` has these four as instances, with the names the MC modules give them
(`Pool`, `Users`, `Cast`, `Lock`), so that each theorem is about the formula that
`fair_parts` or `other_parts` checks.

* Pool (`PInv`): a handler that replaces a failed connection has taken it out and has
  not put the new one in, so the size that is kept is that of the pool together with
  these handlers (`Size`). An answer is alive because an item whose connection was
  told to exit stays known as old (`Told`) until `Renewed` gives it a new one, and
  no second item has that connection.
* User manager (`UInv`): `DataKept`, `RowKept` and `RowsEnd` speak of states in which no
  handler is at work. In the others `Loads`, `RowOpen` and `RowHeld` say which handler
  still owes the user the data and the row, or the row its end. `Owners` says that a
  struct is a user's, the pool's, one handler's, or lost to a logout that failed, which
  gives `ItemOnce` although logins cross; `Entries` that two handlers at work on one
  user make the user `marred`.
* Multicast (`CInv`): the references of a package are the mailboxes that hold it and the
  services `publish` has still to send it to (`Counted`). `Distinct` says that a mailbox
  holds it once and `CountExact` that `channel_n`, to which it is bound, is the size of
  the group. `Calling` bounds the answers to `SUB` a mailbox can hold, which makes the
  bounded count `Copies` of the model exact (`CopiesPointers`).
* Lock (`LInv`): `Exclusion` and `LockWords`, and that the threads counted by `read`
  are finitely many.

### Only model-checked

* Liveness and everything under fairness: outside TLAPS.
* `CountsOK` (sums over sets), `NamesOK` (binary search), `FramersOK`, `WheelOK`: what
  folds and recursive definitions compute needs an induction over data that the
  prover does not have. The same holds of the overload threshold of the ring
  (`WarnedOnce`).
* The invariants of the ticker and of the cluster calls: no obstacle known, not done
  (see the plan).

## 5. Plan

1. Proofs: the invariants of the cluster calls and the ticker.
2. Models: `TableFrame` (seats and game status, standing up, users going offline)
   and the user manager's offline status, which needs it.

### Not modelled

* Vendored code: jemalloc, Lua, lua-cjson, pbc and others are about nine tenths of
  the C lines in the repository. They are not this program's logic, and a share of
  all lines that counts them stays small whatever is modelled of the rest.
* skynet's harbor (off in every configuration here), C gate (not used), monitor,
  logging, module loading, environment.
* skynet's Lua layer (`skynet.lua`, `lua-skynet.c`, `lua-seri.c`): the models of
  services take from it that a handler runs alone until it yields, that messages
  between two services keep their order, and that an error answers the caller.
* UDP and statistics of the socket server.
* Tables, games, robots, items, tasks, activities, ranking, pay: state before a
  database whose procedures are commented out in the handlers.
* Packet encoding, SQL, logging, consoles, `chat_room`, `http_module`.

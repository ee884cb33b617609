# A verification project for the realtime battle server

The repository is a C++ server for a realtime card battle. Clients hold a
websocket connection (and may send datagrams besides), join a battle by its key,
and send inputs; the server applies them, tells both players, and ends the battle
when one side is dead or a connection is lost. A framework of its own carries it:
schedulers, a main loop, actors, asynchronous sockets, a cluster of worker nodes,
clients of Redis and VoltDB.

All paths below are under `src/src/`. Every definition that stands for code is
mapped to its lines in `PROJECT.json`; this text says what the parts are, what is
modelled and how, and what the checks and proofs show.

## 1. Inventory

### Threads

| thread | started by | runs |
| --- | --- | --- |
| network | `server.cc`, `Server::start` | one io_service: accepting, reads, writes, timers, UDP |
| master | `app.cc`, `initMainLoop`: a task of the application's scheduler | `MainLoop::update`: functions posted to the master, then the actors |
| battle workers (4) | `app/global.cc`, `BattleManager::initialize` | `BattleProcessor::runLoop` |
| Redis, VoltDB, cluster or node server, io | `app.cc`, `init*`: a scheduler each | `update`/`run` of their component |

All but the network thread, which is the main thread, come from one pool, whose size
`initSettings` computes; a loop keeps its thread until the server stops.

The threads share almost nothing. They send each other functions
(`postMaster`, `dispatch`, `addTask`) and packets (`pushPacket`), each through a
queue that is first in, first out. What can go wrong is therefore what happens
*between* two functions.

### Components

| component | state it keeps | operations | what must be true |
| --- | --- | --- | --- |
| battle rules (`app/battle/internal`, `battle_info.cc`, `player/`) | sides, characters, hit points, used sequence ids, endpoints | bind, input over TCP and UDP, damage, end | an input counts once, damage falls on the first living character, hit points change only as announced |
| battle manager and processors (`battle_manager.cc`, `battle_processor.cc`) | per worker: packet queue, battles; `actor_map` | join, leave, input, handshake, error, end, update | a battle ends once, is erased afterwards, and only then its key is free; errors find their battle; packets of a key stay with one worker |
| user connections (`websocket_session.cc`, `user_client.cc`, `actor_manager.cc`, `main_loop.cc`, `app_session_delegate.cc`) | socket, write queue, counters, actors, actors to be deleted | start, read, write, error, deadline, lookup, removal, deletion | nothing uses a deleted session; no packet is stuck, lost or written twice; closed connections lose their actor |
| frame codec (`server_frame_data.cc`, `client_frame_data.cc`) | bytes not yet parsed | serialize, deserialize, split | what is written is what is read, wherever the stream is cut |
| command dispatcher (`common/router`) | none | split a packet into commands | every complete command is dispatched once, nothing beyond the packet is read |
| delayed tasks (`common/scheduler`) | tasks by name, last run, step | add, remove, poll | a task runs as often as asked, not after it was removed |
| cluster (`common/cluster`, `node_server.cc`, `websocket_async.cc`) | nodes, active nodes, actors of connections | connect, reconnect, send, route | one connection per node, routes only to open ones, a lost node comes back |
| Redis service (`common/db/redis`) | commands without an answer, connection | command, answer, error, reconnect | every command gets one answer or one error |
| VoltDB client (`common/db/voltdb`) | retries | invoke, retry | a command is retried as often as asked (it is retried for ever) |
| socket timers (`lib/network/io`) | three deadlines | connect, read, write, close | an operation with a deadline ends by it; no deadline closes what is not late |
| node server (`node_server.cc`, `node_session_delegate.cc`) | as a user connection, without TLS | as a user connection | as for a user connection |
| start and stop (`app.cc`, `global.cc`, `server.cc`) | the pool of threads, its queue, flags | start, signal, stop | every loop and every job gets a thread; a signal ends the server; no thread outlives it |

`PROJECT.json` lists these and the remaining parts (generated glue, HTTP, files,
mathematics, vendored code) with the reason for what is left out, and the hazards
of each, at their lines.

### How they interact

1. A session is accepted, completes the handshake, and posts the creation of its
   `UserClient` and its first read to the master.
2. A packet read is posted to the master, dispatched by its code, and becomes a
   `BattlePacket` pushed to the worker of its battle key.
3. The worker handles it. A join asks Redis for the battle and comes back as `JOIN2`.
   What the players must be told is posted to the master, looked up there as an
   actor, counted, and dispatched to the network thread to be written.
4. An error closes the socket, and is posted to the master; `BattleManager` looks
   up the battle of the actor and pushes an `ERROR` packet to its worker.
5. A battle that ends pushes `END_BATTLE` to its own worker, posts the removal of
   its actors from `actor_map`, and, when `END_BATTLE` is popped, is erased and
   leaves a delayed task that removes the actors of its players.
6. At the same time `MainLoop::updateActor` removes the actors of closed
   connections, and deletes, some seconds later, those that are not in use.

Steps 4, 5 and 6 are independent of each other: most of the hazards are there. The
others are below: the deadlines of the sockets, the list of delayed tasks, and the one
pool of threads that everything else waits for.

## 2. Modules

| module | models | by |
| --- | --- | --- |
| `BattleRules` | battle rules | operators on the record of a battle |
| `BattleProcessor` | manager, workers, and what of the framework drives them | one action per packet handler, posted function, task and stage of `runLoop` |
| `BattleLifecycle` | what a key's battles promise, abstractly | `phase` and `count`; implemented by `BattleProcessor` |
| `BattleProcessorProofs` | - | theorems and proofs, those about the operators of `BattleRules` too |
| `Cluster` | a parent node's connections to its nodes | one action per posted function and callback of a connection |
| `ClusterProofs` | - | theorems and proofs |
| `UserSession` | a user's connection on the network and the master thread | one action per callback, dispatched and posted function |
| `UserSessionProofs` | - | theorems and proofs |
| `RedisService` | the commands to Redis: the service, and the client library under it | one action per posted function, callback and turn of the scheduler |
| `RedisServiceProofs` | - | theorems and proofs |
| `FrameStream` | frame codec, and the loop that splits a stream into frames, in one direction | one action per write and per read |
| `FrameStreamProofs` | - | theorems and proofs |
| `SocketTimers` | the deadlines of both classes of sockets, and the owners' handshakes, reads and writes that set them | one action per call, handler and event |
| `AppThreads` | the pool of threads, signals and errors, from `App::start` to its return | one action per step of the main thread, signal and thing the pool runs |
| `DelayedTasks` | a scheduler's thread and its list of tasks | one action per call, posted function and turn of a task |
| `SocketTimersProofs`, `AppThreadsProofs`, `DelayedTasksProofs` | - | theorems and proofs |
| `MCBattle`, `MCUserSession`, `MCCluster`, `MCRedisService`, `MCFrameStream`, `MCSocketTimers`, `MCAppThreads`, `MCDelayedTasks` | - | constants for the runs |

### BattleProcessor

`packet_queue[t]` and `battle_list` are the members of the worker *t*;
`battle_list` is one function for all workers since a key belongs to one
(`CalcThreadIndex`). `rounds[t]` is where `runLoop` is: `left` packets may still
be popped before the battles are updated, `due` are the battles found due and not
yet updated. `actor_map` is `BattleManager`'s, `master_queue` the functions posted
to the master (`addActorInfo`, `removeActorInfo`, `receiveError`, `onError`),
`redis_queue` the GETs without an answer, `task_posts` and `task_list` the delayed
end tasks, `actor_list` the keys of the user `ActorManager`, `conn` the state of a
connection (`failing`: the error has been reported, the socket is not yet closed).
`ended` and `incarnation` are history variables: whether `endBattle` has run for
the battle in the map, and how many battles the key has had. What players are told
(`startBattle`, `notify`) is not modelled.

A packet's handler is one step: it runs to completion on its thread and shares
only queues with others. Handlers: `execJoin`, `execJoin2`, `execLeave`,
`execPlayerInput`, `execPlayerInputUdp`, `execUdpHandshake`, `execError`,
`execEndBattle`; stages: `BeginUpdate` (which battles are due is left open: time
is not modelled) and `UpdateBattle`. `Client` takes any request of `Requests`
at any time.

### UserSession

The network thread is in one callback at a time. A callback that closes the
socket is two steps (`ReadError`, `ReadErrorFinish`; `WriteError`,
`WriteErrorFinish`), because the master can see the closed socket before the
callback has posted the rest. `writing` is a sequence: `process_write` is cleared
after the next packet has been started, so several writes may be outstanding.
Functions dispatched to the network thread are `net_queue`, functions posted to
the master `master_queue`. The master polls until its queue is empty
(`update`, the functions, `PollReturns`) and then looks at the actors
(`updateActor`); that an entry of `hazard_actor_list` is older than five seconds
is left open. A packet is its number, given when `UserClient::write` passes it on.
`Plain` are the connections whose socket is an `AsyncSocket`, as a node's is: only
there does the write deadline ever close the socket (`checkWriteDeadline`), and there
may the deadline of the connection have closed it before `onStart`.

### Cluster

Everything runs on the master thread, so a callback is one step with all it calls
on the actor manager; what it posts is `master_queue`. An attempt to connect is a
number: its `WebsocketAsync` (`connection`, `socket`, `reading`), its delegate
(`node`) and its `ClusterActor` (`first_process`, `read_cnt`). `actor_list` and
`hazard` are the cluster's own `ActorManager`, `active_node_list` what the routers
see, `node_list` what the watch looks after. `run` is the whole of `Cluster::run`:
it posts a removal and an attempt for every node without an open connection, takes
the closed actors off the list, and erases (`Erasable`) what has grown old (`Age`).

`ReadData` and `ReadError` look the actor up by the node, as
`ClusterNodeDelegate` does, and so may reach the actor of another connection.
`read_cnt` is an integer: the code's is unsigned, and any value but zero, one that
has wrapped around included, makes the actor active. The order in which the watch
goes through its nodes is left open, and so is whether a deadline has closed the socket
by the time `onStart` enters the connection.

### RedisService

The library is `src/redis_impl`, beside `src/src`. A call is a model value; it is
made on any thread (`invoke`: posted), and everything else runs on the scheduler's
thread, where `update` looks at the connection (`connect`, when a second has passed,
which is left open) and then polls until nothing is ready (`PollReturns`) or a
callback throws (`HandlerThrows`). A posted function puts the call's error callback
into `item_queue` and hands the command to the client (`ExecCommand`,
`ExecSubscribe`). There it goes through `strand`, `queue` and `handlers`, the
sequence `Requests`, while `wire` has what Redis has been sent and not answered.
An answer is given to the first of `handlers` and pops the first of `item_queue`
(`PopItem`), each callback of a message (`MessageCallback`) pops one too. An error
(`errorHandle`) calls and drops every error callback, but leaves the client with its
queues until `connect` replaces it. `answered`, `failed`, `stale` and `underflow` are
history variables. The pop of an empty queue is undefined, and the model stops there
(hence no check for deadlock in these runs); the io_service itself never stops, since
the service holds a `work` for it.

### FrameStream

A byte is its position in the stream; a body is where it begins and ends. `frames` is
what was written (`Write` is `FrameData::serialize` and the write), `start` and `read`
are the ends of `tmp_buffer`, `packets` what was given to `onReceive`. `receivePacket`
is one completed read with the whole loop of `createWebsocketData`: it takes the
frames from the `first` up to the `last` that are complete, and ends at one that is
not (`Ends`), or by the exception of `deserialize` (`Stops`), which gives the packets
away but leaves the buffer. `Masked` chooses the direction: the server reads masked
frames, refuses opcodes that `PacketType` does not have and takes all bytes of the
buffer for a body; the client takes what the length says. `HeaderSize` is the
writer's, `LengthEnd` and `HeaderEnd` are `deserialize`'s, `PacketSize` is
`createWebsocketData`'s, which computes the size of a header a third time.

What a frame's bytes are is left out: the reader's header fields are those of the
frame it stands at, as long as they were written. `async_write_some` may take fewer
bytes than it is given; when the reader goes on behind such a frame, or reads past
what there is of its header, what it reads is no header: `lost`, and the model stops
there (hence no check for deadlock; besides, `MaxFrames` ends every run).

### SocketTimers

One socket and its owner: a user's session (TLS), a node's session or the cluster's
websocket (both plain). `sock` has the expiry times, which timers are waited for
(`wait`), the operations outstanding, and `ready`, the handlers that the strand will run
in order. That setting an expiry time cancels the wait, and that a wait which has fired
stays in line whatever is set afterwards, is boost's (`SetExpiry`, `WaitFires`). `stage`
is where the owner is: `connect`, `tls`, `request` and `response` of the handshake,
`running`, `destroyed`, or `aborted` by the exception of `ConnectThrows`. `to_read` is
how far the owner's actor is with the next read: told of the last (`onReceiveFinish`
looks at the socket first) or about to start one (`readAsync`); the first read, of
`onStart`, is started without a look at the socket. The three timeout callbacks are
always set by the owners, each to a function that only returns false. A handler is one
step with its callback: `Proceed` is a callback that starts the next operation and the
rest of the handler, which clears the deadline; `Fail` is one that deletes the socket.
`touched` records what runs on a deleted socket.

### AppThreads

`pc` is the line of `App::start`. The pool's queue is first in, first out; since
schedulers are posted before battle loops, and both before any job, the number of each
that waits is enough (`waiting`, `First`). `setting` is the configuration and the
build: any. `thread_size` is what `SettingLoader::load` and `initSettings` add up,
`Schedulers` what the `init*` functions post. A signal may come from the moment it is
handled; an exception of `setupServers` or `serve` goes to the catch of `App::start`.

### DelayedTasks

`posts` are the functions that `addTask` and `removeTask` post, `task_list` the list,
`visit` the names the turn has yet to come to (in any order: names are not ordered
here), `due` those whose interval is over. `runs`, `fate` and `last`, what the last call
for a name asked, are history variables. The
thread runs what is posted until nothing is (`RunPost`, `BeginTurn`), then gives every
listed task its turn; a task may call `addTask` and `removeTask` in its turn, as anybody
may at any time.

## 3. Runs

| run | instance | what it shows |
| --- | --- | --- |
| `battle_life` | 3 connections, 2 players (one rejoins with a new connection), 2 workers, 3 requests, one connection may fail | `IInv`, the invariant the proofs use, with the types, `EndedHasEndPacket` (a battle that ended has its `END_BATTLE` queued) and `StaleEndHasPredecessor`; players' errors are routed; `BattleLifecycle` is implemented |
| `battle_combat` | 2 connections and one endpoint shared by both players, 2 sequence ids, lists of up to 2 hits, 5 requests | an input counts once over both transports; damage goes to the first living character; sides are bound to those who asked; hit points change as announced |
| `battle_live` | 2 connections, one may fail, 3 requests, fairness | errors and deaths end battles; ended battles are erased, and their players leave; the abstract liveness |
| `user_queue` | 1 connection, 4 packets, fairness, peers that read | no packet is stuck, lost or doubled while the connection is open; closed connections lose their actors; accepted packets are written |
| `user_two` | 2 plain connections, 1 packet each | the counters account for all that can use a session; sessions are deleted once, and quiet |
| `cluster_two` | 2 nodes, 3 attempts | the routers' list and the actors agree; no router has a deleted connection; no connection is open without its actor; under fairness, a node without an open connection is connected again |
| `redis_mixed` | 3 commands, 2 subscriptions, 2 messages | the item queue has the same calls as the client while that is healthy; every answer goes to its own command; a call is told one thing, unless an answer follows an error; every failure leads to a new connection; under fairness, every command is answered or fails |
| `stream_server` | 2 masked frames, every kind of header, refused opcodes, writes that leave a byte | frames are delivered once and in order, none behind a refused one; under fairness, every frame is delivered unless one before it is refused or cut short |
| `stream_client` | 3 unmasked frames, lengths on both sides of every boundary, writes that leave a byte | the place is lost only behind a truncated frame |
| `socket_timers` | each owner, hosts with 1 or 2 addresses, 3 writes | a plain socket's deadline closes only what is late, and an operation with a deadline ends; a TLS socket's deadline never fires; what touches a deleted socket |
| `app_threads` | every configuration, 2 battle loops, 0 to 3 worker threads, 2 jobs | jobs run if there is a spare thread, and not without one; every loop gets a thread if each battle loop is given one; a signal that is seen ends the server |
| `delayed_tasks` | 2 names, 2 additions, 2 removals, 0 to 2 runs | a task runs as often as asked; the last call for a name decides, an addition or a removal; a task with a number of runs has them and leaves the list |

Bounds and why they are enough:

- `MaxRequests` (3 to 5): a battle needs two joins; the rest is one or two events
  that disturb it (rejoin, leave, input, error). Two ends of one battle, and the
  key's second battle, occur within three requests and one error. All properties but
  liveness are proved for any number.
- `MaxQueued` (4; 1 in the fight): how far a client may run ahead of a worker.
- `LoopCount` (1 or 2 for `LOOP_COUNT` = 1024): the round is cut short with
  packets left in the queue, which is the case that matters.
- One battle key per run: workers and keys do not interact but through the shared
  queues of the master; the proofs are for any set of keys. With several keys a
  connection must join one of them only (`OneBattlePerConnection`) for `ErrorsRouted`:
  `actor_map` has one battle for a connection.
- `Unreliable`: the connections that may fail, one at a time, to keep the runs small.
- `MaxWrites` = 4 (`user_queue`): one packet being written, two waiting, and one that
  overtakes them when `process_write` is cleared; 3 (`socket_timers`): one outstanding,
  one that follows it without a deadline, and one that gives that a deadline again.
  The properties of `UserSession` but liveness are proved for any number of packets and
  any finite set of connections.
- `MaxEndpoints` = 2: an address that fails, or is aborted by the deadline, and one that
  is tried after it.
- 2 battle loops for 4, 1 io thread: the counts are compared, so what matters is fewer
  worker threads than battle loops, as many, and more: `MaxWorkers` = 3. Two jobs: one
  that waits behind the other.
- 2 additions and 2 removals: a task that is replaced, one that is removed before,
  between and after; `MaxLoop` = 2: a last run that is not the first. All safety
  properties of these three models are proved for any bound.
- `MaxAttempts` = 3: two attempts of one node that both succeed, the second
  replacing the first, whose aborted read then closes it, and one that follows;
  for two nodes, one of them has two. Further attempts fail at once, as attempts
  may. All properties but liveness are proved for any number.
- 3 commands: a command that waits in any of the places before `handlers` while two
  others are ahead of it; 2 subscriptions, one of which is refused by the other's state,
  and two messages (`MaxMessages`), one for each item left. All properties but liveness
  are proved for any calls and any number of messages.
- `ShortMax` = 1 and `MediumMax` = 3 for 125 and 65535: the model compares lengths with
  the boundaries only, and takes them modulo `MediumMax + 1` and its square as the
  length fields do. `Boundaries` has the lengths at and next to each. `ReadMax` = 20
  takes two whole frames with any headers, 12 one frame and a part of the
  next, and every smaller read occurs. All properties but liveness are proved for
  any boundaries, lengths, reads and frames.

Assumptions of the models, besides: connections are open at the start of
`BattleProcessor` (their opening is `UserSession`); Redis answers in order, with
the same roster each time for a key; keys are of ASCII characters, so that
`CalcThreadIndex` is not negative; the end task of a key has one name;
`RemoveClosedActor` and the tasks may come between any two posted functions, more
freely than in the code, where they come after the queue is empty; a connection
has a key of its own. Of `Cluster`: hosts resolve; in the six seconds before a removed
actor may be erased, the functions posted by then run and the reads of its closed
socket complete (`Age`); a `run` is over before the next is posted. Of `RedisService`:
the completion of a write is handled before the answer to it; callbacks do not call
the service themselves (none in the repository does); only the callback of an answer
may throw. Of `SocketTimers`: hosts resolve to at least one address; boost completes each operation once, and aborts what is
outstanding when a socket is closed; a handler whose operation has ended is not
reordered by the strand; a session is deleted by its actor only when nothing of it is
outstanding, which is `UserSession`'s. Of `AppThreads`: a node is either a cluster's
parent or a node server, as the code has it; jobs are short; nothing that the pool runs
throws (a thread of the pool that is left by an exception ends the process). What boost's
timers, sockets and io_service do is taken from the vendored copy and mapped to its
lines; only the passing of time is external. Of `DelayedTasks`: tasks
do not throw. Of `FrameStream`: bodies are shorter than 2^31 (half of what four bytes
count: `int` sizes), and clients mask their frames. `BattleProcessor` takes Redis as a service that answers; what becomes of a
command when the connection fails is `RedisService`'s.

Fairness: the workers, the master, the scheduler and the network thread are loops
that never block, hence weak fairness of each loop's next step. Strong fairness is
used where a loop goes round other work: a battle that stays in the map is found
due again and again, since the clock goes on; a dispatched function is run after
the callback in progress; an actor that may be deleted grows old. The watch of
the connection to Redis has its turn every second, but only between two polls, hence
strong too. A completed read starts the next one, hence weak fairness of `Read`: it takes at least
one byte of those that have come. The clock goes on (`TimePasses`,
`Elapses`), an expired timer fires, the strand's handlers, the main thread, the threads
of the pool and a scheduler's thread go on: weak fairness of each.
Clients, the network and the cluster's nodes owe nothing. Redis owes
nothing to the battles; `CallsAreSettled` assumes that a written command is answered
or the connection fails (`NetworkAnswers`), since the service has no timeout of its
own. `AcceptedIsSent` alone assumes peers that read
(`PeersRead`): the code would enforce it by the write deadline, but that deadline
is cleared for a packet that has waited in the queue, and on a TLS socket no deadline
ever fires (`SocketTimers`).

Every property has a mutant in the module, a plausible bug of the code that the
run must find.

## 4. Proofs

`BattleProcessorProofs` proves for every set of keys, connections, players,
sequence ids, workers and every bound:

| theorem | statement |
| --- | --- |
| `Invariance` | `Spec => []IInv` |
| `TypeCorrect` | `Spec => []TypeOK` |
| `EndedBattlesAreErased` | `Spec => []EndedHasEndPacket` |
| `FirstBattleIsSafe` | `Spec => []StaleEndHasPredecessor` |
| `LifecycleImplemented` | `Spec => LifecycleSafe`, that is, the server implements `BattleLifecycle` |
| `AttacksAreCounted` | `Spec => []AttackPerSeqId` |
| `FrontFallsFirst` | `Spec => []FocusFire` |
| `DamageIsAnnounced` | `Spec => DamageAnnounced` |
| `BoundAsAsked` | `Spec => []SidesClaimed` |
| `ErrorsFindTheirBattle` | `OneBattlePerConnection` implies `Spec => []ErrorsRouted` |

They rest on `ConstantsAssumption`, which TLC evaluates in the runs. The last also
assumes of the clients that a connection joins one battle key only
(`OneBattlePerConnection`). Nothing in the server enforces it: `actor_map` has room for
one battle, so the errors of a connection that joins two go to the one joined last, and
the end of either takes the actor away. (The clients of battles are not in the
repository.)

*The invariant.* That an ended battle has its `END_BATTLE` queued is not inductive:
a step of another worker, or a handler of another key, might take the packet away.
`IInv` adds that packets lie in the queue of the worker of their key
(`PacketsAtHome`), that a worker updates only battles of its own that are listed
(`DueListed`), that only listed battles are ended (`EndedIsListed`), and that a
battle listed or being ended has been counted (`EndsAreCounted`).

*The argument.* `TypeStep` proves the types, a step per action, from lemmas on what
the handlers return (`JoinedBattle`, `InputBattle`, and the lemmas on `BattleRules`). Then
every action is one of four kinds for each key (`KeyStep`): it leaves the battle's
life alone, ends it (and appends `END_BATTLE`), erases it (and pops `END_BATTLE`),
or creates it. The invariant and the refinement (`LifecycleStep`) follow from the
kind, without looking at the actions again. In the refinement `phase` is `none`,
`running` or `ending` by `battle_list` and `ended`, and `count` is `incarnation`;
`Discard`, the erasing of a running battle by a stale packet, is allowed only to
keys that had a battle before, which is `StaleEndHasPredecessor`.

*The fight.* A step leaves the battle of a key untouched, erases it, binds a side to a
connection, gives one an endpoint, or applies an input (`BattleStep`). An input uses up
a sequence id of one side, and its attack, if any, falls on the first living character
of one side and advances the battle's number (`Attack`, `EngageEffect`). From this
follow `Fights`, the inductive form of `AttackPerSeqId` and `FocusFire` (the sets of
sequence ids are finite, so a new one counts), and `DamageAnnounced`, step by step.
That there is a *first* living character is well-foundedness (`FirstAliveIsFirst`).

*Who plays.* `SidesClaimed` says nothing of what travels between a request and the
binding of a side. `Claims` says it of each stage: the packets, the GETs without an
answer, the functions for the master.

*Errors.* `ErrorsRouted` is inductive with `IInv` and `Claims`. `WillRoute` depends on an
entry of `actor_map` and a queue: posting a function takes a route away only if it
removes just that entry (`RouteAppend`), and running the first function keeps it if that
enters no other battle for the connection (`RouteTail`), which is where
`OneBattlePerConnection` is needed. Removals of a player's entry are posted by the end of
the player's own battle only, which then runs no more. Whoever plays has played before,
or is bound in this very step by a join that posts `addActorInfo` (`WhyPlaying`).

`UserSessionProofs` proves for any finite set of connections and any number of packets,
from `SessionsAssumption`:

| theorem | statement |
| --- | --- |
| `Invariance` | `Spec => []IInv`, with an `IInv` of this module |
| `TypeCorrect` | `Spec => []TypeOK` |
| `CountersAccount` | `Spec => []CountersHold` |
| `DestroyedQuietly` | `Spec => []QuietWhenDestroyed` |
| `WaitingIsServed` | `Spec => []QueueMoves` |
| `PassedOnOnce` | `Spec => []OnceEach` |

The properties count the elements of sets taken from the queues; the proofs count
positions of a queue that hold an element of a set (`Count`), for which appending adds
one and popping takes one away (`CountAppend`, `CountTail`), and `Numbers` says that the
two are the same. The invariant has for each connection that the counters are exact while
its actor is listed and never too low afterwards (`Counted`); that the actor is added and
its first read started once (`BornOnce`), without which a read could be counted twice;
that an actor is held, deleted or gone, and its destruction dispatched once (`HeldOnce`);
that while the connection is open a set `process_write` or a packet that waits means a write that is
outstanding (`Busy`; `QueueMoves` is not inductive, because `writeAsync` looks at
`process_write`); and that a packet is in one place (`SentOnce`). `QuietWhenDestroyed`
follows since the entry of an actor is erased, and its session's destruction dispatched,
only when the socket is closed and the counters, which are never too low, are zero; and
nothing raises them afterwards, since the actor cannot be found.

`ClusterProofs` proves for any settings and any number of attempts:

| theorem | statement |
| --- | --- |
| `ClusterInvariance` | `Spec => []IInv`, with an `IInv` of this module |
| `ClusterTypeCorrect` | `Spec => []TypeOK` |
| `RoutersFollowActors` | `Spec => []ListsAgree` |
| `RoutersNeverDangle` | `Spec => []NoDangling` |
| `OpenConnectionsAreCurrent` | `Spec => []OpenIsCurrent` |

from `ClusterAssumption`. `NoDangling` is not inductive: what is deleted next is
what has aged, so the invariant says that nothing aged is being read from, known
to the routers, or named by a queued function (`AgedIsQuiet`). At the step where
an actor ages the queue is empty; there `ListsAgree` gives that the routers know
what the actors' list has, which is never a removed actor (`ActorsHeld`).
`ListsAgree` itself is proved from lemmas on a queue of functions of which the last
one about a node decides (`PopOther`, `PopAbout`, `PostOther`, `PostAbout`).

`RedisServiceProofs` proves for any calls and any number of messages, from
`RedisAssumption`:

| theorem | statement |
| --- | --- |
| `RedisInvariance` | `Spec => []IInv`, with an `IInv` of this module |
| `RedisTypeCorrect` | `Spec => []TypeOK` |
| `ItemsAreRequests` | `Spec => []ItemsFollowRequests` |
| `OneOutcomeHolds` | `Spec => []OneOutcome` |
| `ErrorsOnce` | `Spec => []FailedOnce` |
| `UnderflowNeedsCause` | `Spec => []Underflows` |
| `DeadClientsAreReplaced` | `Spec => []DeadIsReplaced` |
| `NoUnexpectedMessage` | `Spec => []AnswersAreExpected` |
| `AnswersAreMatched` | `Spec => AnswersMatch` |

`ItemsFollowRequests` is not inductive once messages have been published, since they
take callbacks from the front. The invariant has instead that the error callbacks of
a healthy client are the *end* of its calls (`ItemsAreLast`), all of them if there was
no message; that a call is in one place, once (`Distinct`, `CallInv`); and that a
healthy client's `wire` is its `handlers` (`WireHandled`). Then an answer's call is
either the one whose error callback is taken, or has lost its own to a message
before (`AnswerTakesOwn`), and in neither case is told twice. Every action is one of
nine kinds (`KindStep`): a call is made, queued, refused, failed with all others,
answered, confirmed, loses its item to a message, is dropped with its client, or
nothing happens to it; the parts of the invariant follow from the kind.

`FrameStreamProofs` proves for any lengths, boundaries, reads, shortfalls and any
number of frames, in both directions, from `FrameAssumption`:

| theorem | statement |
| --- | --- |
| `StreamInvariance` | `Spec => []IInv`, with an `IInv` of this module |
| `StreamTypeCorrect` | `Spec => []TypeOK` |
| `FramesDelivered` | `Spec => []PacketsAreFrames` |
| `PlaceHolds` | `Spec => []PlaceIsKept` |
| `NoPacketPastRefused` | `Spec => []NothingPastRefused` |
| `BufferStartsAtFrame` | `Spec => []BufferIsOneFrame` |

Reading undoes writing (`LengthSurvives`, `FrameFacts`): the three computations of a
header agree, and no length is changed by its field. The frames lie side by side
(`Layout`). The invariant says where the reader is (`Placed`): at the start of some
frame `f`, all frames before `f` being good and arrived; and either `f - 1` packets have
been delivered, or a refused frame has come with only good ones between (`Blocked`), and
then every frame before it was delivered the first time. Without the second case
`PacketsAreFrames` is not inductive, since a refused frame brings packets again.

What is proved is less than that packets are what was written: a masked body may be
followed by whatever lies behind it in the buffer (`Carries`), and what is delivered
again at a read that stops at a refused frame is left out (`Clean`). Both are what the code
does (section 5).

`SocketTimersProofs` proves for any number of addresses and of writes, from
`SocketAssumption`:

| theorem | statement |
| --- | --- |
| `SocketInvariance` | `Spec => []IInv`, with an `IInv` of this module |
| `SocketTypeCorrect` | `Spec => []TypeOK` |
| `TlsHasNoDeadline` | `Spec => []TlsIsUnwatched` |
| `PlainIsAlwaysWatched` | `Spec => []PlainIsWatched` |
| `DeadlinesCloseTheLate` | `Spec => ClosesTheLate` |
| `DeletedIsTouchedOnlyBy` | `Spec => []TouchedOnlyBy` |

`ClosesTheLate` is not inductive: that a deadline closes only what is late needs that
every deadline set has an operation outstanding or its handler in line
(`DeadlinesHeld`), and that needs that a handshake has one operation at a time
(`OneOperation`), since the rest of a handler clears the deadline of whatever was
started in its callback. The lemmas are about the calls on a socket (`SetExpiry`,
`Start`, `Aborted`, `close`): what each does to the waits, the line and the deadlines.

`AppThreadsProofs` proves for any configuration and any number of battle processors,
io threads and jobs, from `ThreadsAssumption`:

| theorem | statement |
| --- | --- |
| `ThreadsInvariance` | `Spec => []IInv`, with an `IInv` of this module |
| `ThreadsTypeCorrect` | `Spec => []TypeOK` |
| `JobsNeedASpareThread` | `Spec => []JobsNeedSpare` |
| `JobsNeedWorkers` | `Spec => []JobsHaveWorker`: the same, in the words of the configuration |
| `NoThreadOutlives` | `Spec => []NoThreadAtExit` |

The invariant counts: until the schedulers are told to end, those that wait and those
that run are all of them (`SchedulersPosted`), and so the battle loops
(`BattlesPosted`); `ThreadBudget` compares `thread_size` with both.

`DelayedTasksProofs` proves for any names, calls and numbers of runs, from
`TasksAssumption`:

| theorem | statement |
| --- | --- |
| `TasksInvariance` | `Spec => []IInv`, with an `IInv` of this module |
| `TasksTypeCorrect` | `Spec => []TypeOK` |
| `TasksRunAsAsked` | `Spec => []RunsAsAsked` |
| `LastCallDecides` | `Spec => []LastCallWins` |

`LastCallWins` speaks of names that nothing posted is about. The invariant has, for the
others, that the last of the functions posted for a name will do what the last call
asked (`LastIsPosted`); that one runs last, since posts keep the order of the calls. It
also says where a task is: a task of a posted function is `posted` (`PostsArePosted`), a
listed one `listed`, under its own name (`ListIsListed`), and no task is posted twice
(`PostsInOrder`).

Only model-checked: liveness (`ErrorEndsBattle`, `FinishedIsErased`,
`EndedPlayersLeave`, `LifecycleFair`, `ClosedIsRemoved`, `AcceptedIsSent`, `NodesAreTried`,
`CallsAreSettled`, `FramesArrive`, `DeadlinesEnd`, `JobsAreRun`, `LoopsStart`,
`SignalEnds`, `TasksSettle`), which is out of the
prover's reach. Every invariant and every action property of the runs is proved. Proved
and not in a run of their own: the type invariants (the runs' properties are about them,
and the invariance theorems contain them), `EndedHasEndPacket` (a part of `IInv`), `FailedOnce`, `Underflows`, `NothingPastRefused`,
`BufferIsOneFrame`, `PlainIsWatched`, `NoThreadAtExit`; TLC has checked each of them on
the instances above.

## 5. What the code does that a reader may not expect

The models show the following of the code. No text of the repository promises
otherwise, so none is recorded as a finding; the hazards in `PROJECT.json` give the lines.

- A battle may be ended twice before it is erased; the second `END_BATTLE` erases
  the next battle of the key (`Discard`).
- The delayed task of an ended battle removes the players that battle had, two seconds
  later, whatever they do by then: a player who has joined the next battle of the key, or
  one of another key, loses the actor (`battle_processor.cc`, lines 182 and 183).
- An error that comes before `JOIN2` has been handled, or after `updateActor` has
  removed the actor, does not end the battle.
- After the actor of a closed connection has been removed, its counters never
  reach zero, and its session is never deleted.
- Two attempts to connect to one node may both succeed. The second replaces the
  first and closes it; the read of the first, aborted, is then reported to the
  actor of the second, which closes that as well. The actor of the first is never
  inactive again and is kept for ever. The watch connects once more.
- Packets may overtake those that wait in `packet_queue`, and a packet that has
  waited has no deadline.
- An answer from Redis may be read after a write has failed and every waiting call has
  been given its error. It is given to a call that has already failed, and pops
  another's error callback, or an empty queue. The callers free what their two callbacks
  share in either of them (`battle_processor.cc`, lines 240 and 242). This is `stale`.
- After a subscription every command is refused, and each refusal replaces the client,
  and with it the subscription. The confirmation of a subscription removes nothing
  from `item_queue`, and every message removes an item, whosever it is.
- The server takes everything in its buffer behind a header for the body, so a body
  ends with the (wrongly unmasked) bytes of the frames that came with it. The size that
  its caller goes on by is right.
- A refused opcode ends the loop by an exception; the buffer is kept. At every read
  that follows, the frames before the refused one are delivered again, and none
  behind it ever; the connection stays open.
- A write that takes only a part of a frame is not continued; the reader of the other
  side then reads the middle of a body as a header.
- `AsyncSSLSocket`'s handlers of deadlines return when their wait was cancelled, and
  setting a deadline cancels the wait. No deadline of a user's connection ever fires:
  not that of the TLS or the websocket handshake, and none of a write. A plain socket
  (the cluster's and a node's) goes on waiting, and its deadlines work.
- The deadline of a plain connect closes the socket, and the next address opens it
  again; from then on no deadline of that socket is waited for.
- A plain connect may succeed with the handler of its deadline ahead in line. That closes
  the socket, and setting an option of it then throws: out of the main loop and of its
  thread, so the process ends (`async_socket.cc`, line 183).
- The session whose handshake fails is deleted in a callback of its socket. The rest of
  that handler, and the plain socket's handlers of cancelled timers, use the socket
  afterwards.
- Schedulers and battle loops have exactly the threads that `worker_thread_size` and
  the databases reserve. With four worker threads, as in `config2.json` and
  `config3.json`, the jobs of the routes (there `FbEvUiid::addUser`) run only because the thread reserved for VoltDB is not used, since no build file
  defines `USE_VOLTDB`. With fewer, a battle processor has no thread, and battles of
  its keys never begin.
- A signal that comes to a master node between `SetupSignalAction` and the setting of
  `g_server_cache` is lost.
- An exception in `Server::start` returns from `App::start` while every loop runs on.
- A delayed task that replaces one of its name before that has run takes its place
  without a word (the code's comment is "warning").
- `initIOThread` schedules `TaskDispatcher`s that are never initialised and that nobody
  posts to.
- `VoltCommandInvoker::invoke` ignores `retry` and passes `true`, so that a failing
  command is retried every thirty seconds for ever.

## 6. Not modelled

- `CommandDispatcher`: `bulkDispatch` splits a packet into commands by the sizes in it,
  in 32-bit unsigned arithmetic; planned.
- UDP sockets: one receive after another and sends without a queue. What they carry is
  in `BattleProcessor` as requests that may be repeated and reordered.
- VoltDB: compiled only with `USE_VOLTDB`, which no build file sets.
- Sending through the cluster (`broadcast`, `sendOnce`, `sendRouter`).
- Parsing of HTTP headers, records, logging, files, cryptography: sequential code
  without state of the protocols; the outcomes are choices of the models. Vectors and
  matrices: floating point.
- Generated glue, the demonstration clients, and the vendored code.

The repository holds copies of boost, protobuf, VoltDB's client and flatbuffers: over
nine tenths of its lines. The models are of the server's own code, about twenty-five
thousand lines with its generated parts, so the share of all lines they cover stays
small whatever is added.

## 7. Plan

Done: `BattleRules`, `BattleProcessor`, `BattleLifecycle`; `UserSession`, `Cluster`,
`RedisService`, `FrameStream`, `SocketTimers`, `AppThreads` and `DelayedTasks`, all with
proofs of all their safety properties.

Left:

1. What the liveness properties rest on, as far as it is safety: bounds on how often a
   step can be put off, such as the packets ahead of an `END_BATTLE`.
2. `CommandDispatcher`: positions in a packet, as in `FrameStream`, against the packets
   that clients build.
3. Sending through the cluster, and the calls back of `sendOnce`.
